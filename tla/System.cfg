SPECIFICATION SystemSpec
CONSTANTS
    Performs = {p1}
    Timed = {}
    Stray = stray
    HWM = 1
    MaxReplies <- ManyReplies
    MaxDepth = 0
    AnswerActs = {}
    TimeoutActs = {}
    Effect = e
    Effects <- OneEffect
    EffectOf <- AllOneEffect
    MaxChunks = 1
    Uses = {"handlers", "parent"}
INVARIANTS
    NotForgotten
PROPERTIES
    RouterIsPeer
    PerformFinishes
