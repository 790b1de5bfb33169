SPECIFICATION Spec
CONSTANTS
    Performs = {p1}
    Timed = {}
    Stray = stray
    Streamed = {}
    Single = {p1}
    HWM = 1
    MaxReplies <- RepliesFor
    MaxDepth = 0
    AnswerActs = {"perform", "close"}
    TimeoutActs = {}
INVARIANT CalledOnClose
