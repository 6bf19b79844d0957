--------------------------- MODULE TimedPayments ---------------------------
(***************************************************************************)
(* The time in a payment: expiration dates, rates, and the clocks they are *)
(* compared with. A core has its own clock and learns the time of the      *)
(* chain from the latest block, through a cache (BlockchainTimeUtils); the *)
(* transfer definitions are contracts that are run against the chain.      *)
(*                                                                         *)
(* One payment goes from a sender to a receiver. The gateway asks for it   *)
(* as sendFunds or as authorizeFunds; the program of the sender may also   *)
(* be another one than this, whose ids say that they are pull payments.    *)
(* What the transfers are otherwise good for is in PaymentProtocol.        *)
(***************************************************************************)
EXTENDS Integers, Sequences, FiniteSetsExt

CONSTANTS
    Requests,   \* what a gateway may ask for: [amount, expires, deltaAmount, deltaTime]
    Expiry,     \* defaultPaymentExpiryLength of the configuration
    Ahead,      \* how far ahead the contracts want an expiration: 3 days
    Scale,      \* the factor of the contract's rates: 2^64
    MaxTime,    \* bound: the clocks stop there
    MaxPulls,   \* bound: how often the payment is pulled
    None

Request == [amount : Nat \ {0}, expires : Nat, deltaAmount : Nat, deltaTime : Int]

ASSUME RequestsAssumption == Requests \subseteq Request
ASSUME TimeAssumption == Expiry \in Nat /\ Ahead \in Nat /\ Scale \in Nat \ {0}
ASSUME BoundAssumption == MaxTime \in Nat /\ MaxPulls \in Nat
\* 2^64 is more than any product of two periods in seconds.
ASSUME ScaleAssumption ==
    MaxTime < Scale /\ \A r \in Requests : r.deltaTime * (MaxTime + 1) <= Scale
ASSUME NoneAssumption == None \notin Int

Sides == {"sender", "receiver"}
Jobs == {"send", "authorize", "stake", "fund"}

VARIABLES
    now,      \* the clock of the cores, in seconds
    block,    \* the timestamp of the latest block
    checked,  \* the cores whose lastBlockchainCheck was this second
    stamp,    \* lastBlockchainTimestamp of each core
    job,      \* the calls under way: waiting for a block, or with its timestamp
    request,  \* the request of the gateway
    offer,    \* the offer that was made of it, and the type that its id says
    stake,    \* the insurance transfer: when it expires
    funds,    \* the parameterized transfer: [start, expires, rate]
    taken,    \* the receiver resolved it for the full amount
    pulls,    \* the amounts of the pull records, the first one first
    released  \* what the gateway had the insurance pay to the sender

times == <<now, block>>
cache == <<checked, stamp>>
payment == <<offer, stake, funds, taken, pulls, released>>
vars == <<times, cache, job, request, payment>>

Idle == [pc |-> "idle", stamp |-> None]
Rate == [deltaAmount : Nat, deltaTime : Int]

TypeOK ==
    /\ now \in 0..MaxTime /\ block \in 0..now
    /\ checked \subseteq Sides
    /\ stamp \in [Sides -> 0..block \cup {None}]
    /\ job \in [Jobs -> [pc : {"idle", "asked", "known"}, stamp : 0..block \cup {None}]]
    /\ request \in Requests
    /\ offer \in {None} \cup [type : {"Push", "Pull"}, rated : BOOLEAN]
    /\ stake \in {None} \cup [expires : Nat]
    /\ funds \in {None} \cup [start : Int, expires : Nat, rate : Rate]
    /\ taken \in BOOLEAN
    /\ pulls \in Seq(Nat) /\ Len(pulls) <= MaxPulls
    /\ released \in {None, 0, 1}

Init ==
    /\ now = 0 /\ block = 0
    /\ checked = {}
    /\ stamp = [s \in Sides |-> None]
    /\ job = [j \in Jobs |-> Idle]
    /\ request \in Requests
    /\ offer = None /\ stake = None /\ funds = None /\ taken = FALSE
    /\ pulls = <<>> /\ released = None

-----------------------------------------------------------------------------
(* Time. *)

Tick ==
    /\ now < MaxTime
    /\ now' = now + 1
    /\ checked' = {}
    /\ UNCHANGED <<block, stamp, job, request, payment>>

Mine ==
    /\ block < now
    /\ block' = now
    /\ UNCHANGED <<now, cache, job, request, payment>>

SideOf(j) == IF j = "stake" THEN "receiver" ELSE "sender"

\* getBlockchainTimestamp, for call j: the cached value when the last check was
\* this second, whether or not its block has come; else the block is asked for.
Ask(j) ==
    LET c == SideOf(j) IN
    /\ job[j].pc = "idle"
    /\ IF c \in checked /\ stamp[c] # None
       THEN /\ job' = [job EXCEPT ![j] = [pc |-> "known", stamp |-> stamp[c]]]
            /\ UNCHANGED cache
       ELSE /\ job' = [job EXCEPT ![j].pc = "asked"]
            /\ checked' = checked \cup {c}
            /\ UNCHANGED stamp

\* (mutant) the clock of the core is taken for the time of the chain
ClockArrives(j) ==
    /\ job[j].pc = "asked"
    /\ job' = [job EXCEPT ![j] = [pc |-> "known", stamp |-> now]]
    /\ stamp' = [stamp EXCEPT ![SideOf(j)] = now]
    /\ UNCHANGED <<times, checked, request, payment>>

BlockArrives(j) ==
    /\ job[j].pc = "asked"
    /\ job' = [job EXCEPT ![j] = [pc |-> "known", stamp |-> block]]
    /\ stamp' = [stamp EXCEPT ![SideOf(j)] = block]
    /\ UNCHANGED <<times, checked, request, payment>>

\* BlockchainUnavailableError; the check has been noted all the same.
BlockFails(j) ==
    /\ job[j].pc = "asked"
    /\ job' = [job EXCEPT ![j] = Idle]
    /\ UNCHANGED <<times, cache, request, payment>>

\* Another payment of the core asks: its block comes at once, or not in time.
OtherCall(c) ==
    /\ c \notin checked
    /\ checked' = checked \cup {c}
    /\ \/ stamp' = [stamp EXCEPT ![c] = block]
       \/ UNCHANGED stamp
    /\ UNCHANGED <<times, job, request, payment>>

Finished(j) == job' = [job EXCEPT ![j] = Idle]

-----------------------------------------------------------------------------
(* Parameterized.sol and Insurance.sol, run at the latest block. *)

CanCreate(expires) == expires > block + Ahead

\* (mutant) the rates are not multiplied before they are divided
PaysUnscaled(rate, start, amount, t) ==
    /\ t - start > 0
    /\ amount \div (t - start) <= rate.deltaAmount \div rate.deltaTime

\* resolve, as to the rate: the time since start must not be zero, or negative.
Pays(rate, start, amount, t) ==
    /\ t - start > 0
    /\ (amount * Scale) \div (t - start) <= (rate.deltaAmount * Scale) \div rate.deltaTime

CanResolve(amount) ==
    /\ block < funds.expires
    /\ Pays(funds.rate, funds.start, amount, block)
    /\ amount <= request.amount

-----------------------------------------------------------------------------
(* The offer. *)

\* The checks of _validatePullPayment on the rate.
ValidRate == request.deltaTime >= 1 /\ request.deltaAmount >= 1

\* The type that initiateAuthorizeFunds has createPaymentId put in the id.
AuthorizedType == "Push"

\* The checks of _validatePushPayment and _validatePullPayment on the expiration.
LongEnough(j) == request.expires > job[j].stamp + Expiry

\* validateSendFundsRequest, and sendFunds up to its timestamp.
SendFundsRequested ==
    /\ offer = None /\ job["authorize"] = Idle
    /\ now < request.expires
    /\ Ask("send")
    /\ UNCHANGED <<times, request, payment>>

SendFunds ==
    /\ job["send"].pc = "known"
    /\ Finished("send")
    /\ offer' = IF LongEnough("send") /\ offer = None
               THEN [type |-> "Push", rated |-> FALSE] ELSE offer
    /\ UNCHANGED <<times, cache, request, stake, funds, taken, pulls, released>>

\* validateAuthorizeFundsRequest wants an expiration date that is over;
\* _validatePullPayment, of authorizeFunds, one that is far from the chain's time.
AuthorizeFundsRequested ==
    /\ offer = None /\ job["send"] = Idle
    /\ now >= request.expires
    /\ ValidRate
    /\ Ask("authorize")
    /\ UNCHANGED <<times, request, payment>>

AuthorizeFunds ==
    /\ job["authorize"].pc = "known"
    /\ Finished("authorize")
    /\ offer' = IF LongEnough("authorize") /\ offer = None
               THEN [type |-> AuthorizedType, rated |-> TRUE] ELSE offer
    /\ UNCHANGED <<times, cache, request, stake, funds, taken, pulls, released>>

\* Another program of the sender makes an offer whose id is that of a pull payment.
ForeignOffer ==
    /\ offer = None /\ job["authorize"] = Idle /\ job["send"] = Idle
    /\ ValidRate
    /\ offer' = [type |-> "Pull", rated |-> TRUE]
    /\ UNCHANGED <<times, cache, job, request, stake, funds, taken, pulls, released>>

-----------------------------------------------------------------------------
(* Stake and funds. The expiration date of the offer is never looked at. *)

AcceptOffer ==
    /\ offer # None /\ stake = None
    /\ Ask("stake")
    /\ UNCHANGED <<times, request, payment>>

ProvideStake ==
    LET expires == job["stake"].stamp + Expiry IN
    /\ job["stake"].pc = "known"
    /\ Finished("stake")
    /\ stake' = IF CanCreate(expires) THEN [expires |-> expires] ELSE stake
    /\ UNCHANGED <<times, cache, request, offer, funds, taken, pulls, released>>

StakePosted ==
    /\ stake # None /\ funds = None
    /\ Ask("fund")
    /\ UNCHANGED <<times, request, payment>>

\* (mutant) the transfer starts at the latest block
StartAtBlock(t) == t

\* One second before the block, so that some time has passed at its resolution.
StartBefore(t) == t - 1

\* The rate of the transfer: a push payment may be taken at once.
RateOf ==
    IF offer.type = "Pull"
    THEN [deltaAmount |-> request.deltaAmount, deltaTime |-> request.deltaTime]
    ELSE [deltaAmount |-> request.amount, deltaTime |-> 1]

ProvideAsset ==
    LET t == job["fund"].stamp IN
    /\ job["fund"].pc = "known"
    /\ Finished("fund")
    /\ funds' = IF CanCreate(t + Expiry)
               THEN [start |-> StartBefore(t), expires |-> t + Expiry, rate |-> RateOf]
               ELSE funds
    /\ UNCHANGED <<times, cache, request, offer, stake, taken, pulls, released>>

\* acceptPayment: at once, for the full amount, if it is a push payment.
AcceptPayment ==
    /\ funds # None /\ ~taken /\ offer.type = "Push"
    /\ CanResolve(request.amount)
    /\ taken' = TRUE
    /\ UNCHANGED <<times, cache, job, request, offer, stake, funds, pulls, released>>

\* vestedAmount of a pull payment, by the clock of the core.
Vested == (request.deltaAmount \div request.deltaTime) * (now - funds.start)

\* amountTransferred of a pull payment, whatever was pulled before.
AmountTransferred == 0

\* createPullRecord: a message to the receiver, whoever makes it.
CreatePullRecord(amount) == pulls' = Append(pulls, amount)

\* pullFunds, by either party. No transfer pays what the records ask for.
PullFunds(amount) ==
    /\ Len(pulls) < MaxPulls
    /\ offer # None /\ offer.type = "Pull" /\ funds # None
    /\ AmountTransferred + amount <= Vested
    /\ AmountTransferred + amount <= request.amount
    /\ CreatePullRecord(amount)
    /\ UNCHANGED <<times, cache, job, request, offer, stake, funds, taken, released>>

\* The gateway has the insurance pay the sender, or not; when it has expired the
\* receiver gets it back whatever the gateway says.
ResolveInsurance(award) ==
    /\ taken /\ released = None
    /\ released' = IF block >= stake.expires THEN 0 ELSE award
    /\ UNCHANGED <<times, cache, job, request, offer, stake, funds, taken, pulls>>

Next ==
    \/ Tick \/ Mine
    \/ \E j \in Jobs : BlockArrives(j) \/ BlockFails(j)
    \/ \E c \in Sides : OtherCall(c)
    \/ SendFundsRequested \/ SendFunds
    \/ AuthorizeFundsRequested \/ AuthorizeFunds \/ ForeignOffer
    \/ AcceptOffer \/ ProvideStake \/ StakePosted \/ ProvideAsset \/ AcceptPayment
    \/ \E amount \in 1..request.amount : PullFunds(amount)
    \/ \E award \in {0, 1} : ResolveInsurance(award)

Spec == Init /\ [][Next]_vars

-----------------------------------------------------------------------------
(* Properties. *)

\* "This offset assures this will never happen": until it expires, a push payment
\* can be taken for its full amount, whatever the cache of the sender returned and
\* however few blocks have come.
PushIsTakeable ==
    funds # None /\ offer.type = "Push" /\ block < funds.expires
        => CanResolve(request.amount)

\* The contract's division at a scale is exact: it pays an amount just when the
\* amount over the time that passed is within the agreed rate.
RateIsExact ==
    funds # None =>
        \A amount \in 0..request.amount :
            Pays(funds.rate, funds.start, amount, block)
                <=> /\ block > funds.start
                    /\ amount * funds.rate.deltaTime
                           <= funds.rate.deltaAmount * (block - funds.start)

\* "Verify that we're not pulling too quickly (greater than the average rate)" and
\* "does not exceed the total authorized amount": what was pulled so far has vested
\* and was authorized. It does not hold, as each pull is compared alone.
PullsStayWithin ==
    funds # None /\ offer.type = "Pull" =>
        LET pulled == SumFunction(pulls)
        IN  pulled <= Vested /\ pulled <= request.amount

\* What the contract would pay of a pull payment by now has vested: the core rounds
\* the rate down before it multiplies, so that this does not hold either.
PayableVests ==
    funds # None /\ offer.type = "Pull" =>
        \A amount \in 1..request.amount :
            Pays(funds.rate, funds.start, amount, now) => amount <= Vested

\* "the date at which point the payment will expire & revert": no money is taken
\* after the expiration date of the offer.
ExpiredIsNotPaid == [][~taken /\ taken' => now <= request.expires]_vars
=============================================================================
