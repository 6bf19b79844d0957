SPECIFICATION FairSpec
CONSTANTS
    c1 = c1
    c2 = c2
    c3 = c3
    c4 = c4
    r1 = r1
    r2 = r2
    g = g
    x = x
    y = y
    coin = coin
    Calls = {c1, c2, c3}
    Asks <- MCAsks
    Routers = {r1, r2}
    Chains = {x, y}
    Assets = {coin}
    Gateways = {g}
    Allows <- MCAllows
    Funds = 1
    Earlier <- MCEarlier
    MaxReloads = 1
    None = None
INVARIANTS
    TypeOK
    DepositsAreCounted
    AloneIsListed
PROPERTY
    CallsEnd
\* The page may have nothing left to ask for.
CHECK_DEADLOCK FALSE
