SPECIFICATION CSpec
CONSTANTS
    Performs = {p1}
    Malformed = {}
    Effect = e
    Effects <- OneEffect
    EffectOf <- AllOneEffect
    Generated = generated
    MaxChunks = 0
    MayFail = FALSE
    MayMove = FALSE
    Reentrant = TRUE
    Uses = {"handlers", "parent"}
    Threads = {main, worker}
    Main = main
    Fns = {"resume", "error", "streamFinal", "streamChunk"}
    Calls = {c1}
    MaxCalls = 1
    MaxResults = 1
INVARIANTS
    CTypeOK
    ToldWhatHappened
    ReleasedIsAnswered
    TablesAgree
