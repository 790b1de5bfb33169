SPECIFICATION Spec
CONSTANTS
    Performs = {p1, p2}
    Timed = {p1, p2}
    Stray = stray
    Streamed = {p1}
    Single = {stray}
    HWM = 1
    MaxReplies <- RepliesFor
    MaxDepth = 2
    AnswerActs = {"perform", "poll", "close", "throw"}
    TimeoutActs = {"perform", "close", "throw"}
INVARIANTS
    TypeOK
    OneFinal
    PendingExact
    SentOnce
    FlushedOnExit
PROPERTIES
    AnswerBeatsTimeout
