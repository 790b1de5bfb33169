SPECIFICATION Spec
CONSTANTS
    Performs = {p1, p2}
    Timed = {p1, p2}
    Stray = stray
    Streamed = {}
    Single = {p1, p2}
    HWM = 1
    MaxReplies <- RepliesFor
    MaxDepth = 0
    AnswerActs = {}
    TimeoutActs = {"close"}
PROPERTIES
    NoCallbackAfterClose
