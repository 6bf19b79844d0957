SPECIFICATION Spec
CONSTANTS
    r1 = r1
    r2 = r2
    modules = modules
    x = x
    Ops = {o1, o2}
    Registries = {r1, r2, modules}
    ModulesNfr = modules
    Hypertoken = hypertoken
    CoinOf <- MCCoinOf
    Methods <- MCMethods
    Signatures = {s1}
    None = None
INVARIANTS
    WritesItsRegistry
CHECK_DEADLOCK FALSE
