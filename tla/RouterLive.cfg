SPECIFICATION FairSpec
CONSTANTS
    Performs = {p1, p2}
    Malformed = {p2}
    Effect = e
    Effects <- OneEffect
    EffectOf <- AllOneEffect
    Generated = generated
    MaxChunks = 1
    MayFail = FALSE
    MayMove = FALSE
    Reentrant = FALSE
    Uses = {"handlers", "unregistered", "parent", "nested"}
PROPERTIES
    AnsweredWhileOpen
    CloseTerminates
