SPECIFICATION SceneSpec
CONSTANTS
    admin = admin
    u = u
    w = w
    r1 = r1
    r2 = r2
    n1 = n1
    n2 = n2
    a = a
    b = b
    x = x
    y = y
    Registries = {r1, r2}
    Users = {admin, u, w}
    Admin = admin
    First = r1
    Names = {n1, n2}
    FirstName = n1
    Ids <- MCIds
    Labels = {a, b}
    Coins = {x, y}
    Supply = 4
    Fee = 1
    Entries <- MCEntries
    Allowances <- MCAllowances
    Gifts <- MCGifts
    Params <- MCParams
    Grantees = {}
    Operators = {}
    Uses = {"parameters"}
    Batches = {}
    Empty = Empty
    None = None
VIEW NotCaller
INVARIANTS
    TypeOK
    LabelsAgree
    StakesBacked
    StakesOwned
    NamesResolve
PROPERTIES
    OwnerConsents
\* Nobody may have anything left to spend or a token to move.
CHECK_DEADLOCK FALSE
