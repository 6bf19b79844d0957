SPECIFICATION FairSpec
CONSTANTS
    alice = alice
    bob = bob
    p1 = p1
    p2 = p2
    hyper = hyper
    other = other
    dai = dai
    Cores = {alice, bob}
    Payments = {p1}
    Tokens = {hyper, other, dai}
    PaymentToken = dai
    From <- MCFrom
    To <- MCTo
    Amount <- MCAmount
    Stake <- MCStake
    Hypertoken <- MCHypertoken
    Funds = 2
    MaxSends = 1
    MaxAccepts <- MCOnce
    MaxRepairs = 0
    MaxReturns = 0
    MaxCrashes = 0
    Started = {bob}
PROPERTIES
    ApprovedIsTaken
\* A payment may be over, or wait for its receiver: nothing is left to do then.
CHECK_DEADLOCK FALSE
