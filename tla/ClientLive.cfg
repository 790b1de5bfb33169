SPECIFICATION FairSpec
CONSTANTS
    Performs = {p1, p2}
    Timed = {p1}
    Stray = stray
    Streamed = {p1}
    Single = {p2}
    HWM = 1
    MaxReplies <- RepliesFor
    MaxDepth = 0
    AnswerActs = {"perform", "close"}
    TimeoutActs = {"perform", "throw"}
INVARIANTS
    OneFinal
    PendingExact
    NoAnswerLost
PROPERTIES
    NoCallbackAfterClose
    EffectCallSpec
    TimedAnswered
    AnswerReachesCallback
    CloseTerminates
