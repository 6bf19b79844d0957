SPECIFICATION FairSpec
CONSTANTS
    a = a
    b = b
    c1 = c1
    c2 = c2
    c3 = c3
    Calls = {c1, c2, c3}
    Chains = {a, b}
    DefaultChain = a
    UserMoves = TRUE
    MaxListeners = 1
    None = None
    Scenes <- MCScenes
INVARIANTS
    TypeOK
    ProviderIsThere
    AloneInitializes
PROPERTIES
    AnswersCome
\* The core may have nothing to do, or may never answer.
CHECK_DEADLOCK FALSE
