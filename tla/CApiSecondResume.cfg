SPECIFICATION CSpec
CONSTANTS
    Performs = {p1}
    Malformed = {}
    Effect = e
    Effects <- OneEffect
    EffectOf <- AllOneEffect
    Generated = generated
    MaxChunks = 0
    MayFail = FALSE
    MayMove = FALSE
    Reentrant = TRUE
    Uses = {"handlers"}
    Threads = {main, worker}
    Main = main
    Fns = {"resume"}
    Calls = {}
    MaxCalls = 1
    MaxResults = 0
INVARIANTS
    SecondToldAlready
