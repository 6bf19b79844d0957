SPECIFICATION Spec
CONSTANTS
    r1 = r1
    r2 = r2
    modules = modules
    x = x
    Ops = {o1, o2}
    Registries = {r1, r2, modules}
    ModulesNfr = modules
    Hypertoken = hypertoken
    CoinOf <- MCCoinOf
    Methods <- MCMethods
    Signatures = {s1}
    None = None
INVARIANTS
    TypeOK
    AloneHitsItsTarget
    DoneIsWritten
    ClaimedIsMinted
\* Every operation may have its answer, or never get one.
CHECK_DEADLOCK FALSE
