SPECIFICATION FairSceneSpec
CONSTANTS
    g1 = g1
    g2 = g2
    v1 = v1
    v2 = v2
    None = None
    Gateways = {g1}
    Versions = {v1, v2}
    MaxFrames = 2
    MaxReloads = 1
    Faults = {"registry", "connector", "update"}
    FaultsOfTwo = {"handshake"}
PROPERTIES
    StartupFinishes
\* The user may have nothing left to ask for, and some calls are never answered.
CHECK_DEADLOCK FALSE
