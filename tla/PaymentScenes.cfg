SPECIFICATION SceneSpec
CONSTANTS
    alice = alice
    bob = bob
    p1 = p1
    p2 = p2
    hyper = hyper
    other = other
    dai = dai
    Cores = {alice, bob}
    Payments = {p1, p2}
    Tokens = {hyper, other, dai}
    PaymentToken = dai
    From <- MCFrom
    To <- MCTo
    Amount <- MCAmount
    Stake <- MCStake
    Hypertoken <- MCHypertoken
    Funds = 1
    MaxSends = 1
    MaxAccepts <- MCTwice
    MaxRepairs = 0
    MaxReturns = 0
    MaxCrashes = 0
    Started = {alice, bob}
INVARIANTS
    TypeOK
    PaidOnce
    PaidMeansInsured
    ReleasedOnce
    ReleasedAfterPaid
    FundedMeansStaked
\* A payment may be over, or wait for its receiver: nothing is left to do then.
CHECK_DEADLOCK FALSE
