SPECIFICATION SceneSpec
CONSTANTS
    g1 = g1
    g2 = g2
    v1 = v1
    v2 = v2
    None = None
    Gateways = {g1}
    Versions = {v1, v2}
    MaxFrames = 3
    MaxReloads = 1
    Faults = {"handshake", "registry", "connector", "deny", "read", "update"}
    FaultsOfTwo = {"handshake", "deny", "write"}
INVARIANTS
    TypesOK
    SignedCodeRuns
    OneFramePerGateway
    DeauthorizedStaysGone
\* The user may have nothing left to ask for, and some calls are never answered.
CHECK_DEADLOCK FALSE
