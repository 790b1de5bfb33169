SPECIFICATION Spec
CONSTANTS
    Threads = {t1, t2}
    First = t1
    MaxCalls = 2
    MayThrow = TRUE
INVARIANT AnsweredWhenDestroyed
