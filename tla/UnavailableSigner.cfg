SPECIFICATION Spec
CONSTANTS
    a = a
    b = b
    c1 = c1
    c2 = c2
    c3 = c3
    Calls = {c1, c2, c3}
    Chains = {a, b}
    DefaultChain = a
    UserMoves = FALSE
    MaxListeners = 1
    None = None
    Scenes <- BothChains
PROPERTIES
    WritesReachTheChain
\* The core may have nothing to do, or may never answer.
CHECK_DEADLOCK FALSE
