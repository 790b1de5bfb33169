SPECIFICATION FairSpec
CONSTANTS
    Threads = {t1, t2, t3}
    First = t1
    MaxCalls = 2
    MayThrow = TRUE
INVARIANTS
    TypeOK
    OneFinalFrame
    ResumedMeansOwed
    OneLateChunkEach
    AnsweredOrLost
PROPERTY EventuallyAnswered
