SPECIFICATION Spec
CONSTANTS
    Performs = {p1, p2}
    Malformed = {}
    Effect = e
    Effects <- OneEffect
    EffectOf <- AllOneEffect
    Generated = generated
    MaxChunks = 1
    MayFail = TRUE
    MayMove = TRUE
    Reentrant = TRUE
    Uses = {"handlers", "parent", "nested"}
SYMMETRY Symmetry
INVARIANTS
    TypeOK
    NoneForgotten
    AnsweredOnce
    QueuesMatchOwners
    OwedIsSent
