------------------------- MODULE TimedPayments_proofs -------------------------
(***************************************************************************)
(* The time in a payment, for any requests, any length of the periods, and *)
(* however the clocks, the blocks and the cached time of the chain meet:   *)
(* a push payment can be taken until it expires, and the contract's        *)
(* division is exact.                                                      *)
(***************************************************************************)
EXTENDS TimedPayments, TLAPS

-----------------------------------------------------------------------------
(* Division and order. *)

LEMMA Division ==
    ASSUME NEW a \in Int, NEW b \in Nat \ {0}
    PROVE  /\ a \div b \in Int
           /\ b * (a \div b) <= a
           /\ a < b * (a \div b) + b
OBVIOUS

LEMMA TimesMonotone ==
    ASSUME NEW x \in Int, NEW y \in Int, NEW b \in Nat, x <= y
    PROVE  x * b <= y * b
OBVIOUS

LEMMA TimesStrict ==
    ASSUME NEW x \in Int, NEW y \in Int, NEW b \in Nat \ {0}, x < y
    PROVE  x * b < y * b
OBVIOUS

\* The quotient is the largest number of times that b goes into a.
LEMMA QuotientIsLargest ==
    ASSUME NEW a \in Int, NEW b \in Nat \ {0}, NEW k \in Int
    PROVE  k <= a \div b <=> k * b <= a
<1> DEFINE q == a \div b
<1>1. q \in Int /\ b * q <= a /\ a < b * q + b
  BY Division
<1> HIDE DEF q
<1>2. ASSUME k <= q PROVE k * b <= a
  BY <1>1, <1>2, TimesMonotone
<1>3. ASSUME k > q PROVE k * b > a
  <2>1. (q + 1) * b <= k * b
    BY <1>1, <1>3, TimesMonotone
  <2>2. (q + 1) * b = b * q + b
    BY <1>1
  <2> QED
    BY <1>1, <2>1, <2>2
<1>4. k <= q <=> k * b <= a
  BY <1>1, <1>2, <1>3
<1> QED
  BY <1>4 DEF q

\* A product is in order when its factor is.
LEMMA QuotientSteps ==
    ASSUME NEW a \in Int, NEW d \in Nat \ {0}
    PROVE  \E x \in Int, dx \in Int : x = a \div d /\ dx = x * d /\ dx <= a /\ a <= dx + d - 1
<1>1. a \div d \in Int /\ (a \div d) * d <= a /\ a <= (a \div d) * d + d - 1
  BY Division
<1> QED
  BY <1>1

\* At a scale that is not less than the product of the periods, comparing the scaled
\* quotients is comparing the rates.
LEMMA ScaledRates ==
    ASSUME NEW a \in Nat, NEW n \in Nat, NEW d \in Nat \ {0}, NEW t \in Nat \ {0},
           NEW s \in Nat \ {0}
    PROVE  d * t <= s => ((a * s) \div d <= (n * s) \div t <=> a * t <= n * d)
<1>1. PICK sa \in Nat, sn \in Nat : sa = a * s /\ sn = n * s
  OBVIOUS
<1>2. PICK x \in Int, dx \in Int : x = sa \div d /\ dx = x * d /\ dx <= sa /\ sa <= dx + d - 1
  BY QuotientSteps
<1>3. PICK xt \in Int, dxt \in Int, dt \in Nat : xt = x * t /\ dxt = dx * t /\ dt = d * t
  OBVIOUS
<1>4. dxt = xt * d
  <2>1. (x * d) * t = (x * t) * d
    OBVIOUS
  <2> QED
    BY <1>2, <1>3, <2>1
<1>5. x <= sn \div t <=> xt <= sn
  BY <1>3, QuotientIsLargest
<1>6. PICK at \in Nat, nd \in Nat : at = a * t /\ nd = n * d
  OBVIOUS
<1>7. PICK ast \in Int, nsd \in Int : ast = sa * t /\ nsd = sn * d
  OBVIOUS
<1>8. ast = at * s /\ nsd = nd * s
  <2>1. (a * s) * t = (a * t) * s /\ (n * s) * d = (n * d) * s
    OBVIOUS
  <2> QED
    BY <1>1, <1>6, <1>7, <2>1
<1>9. dxt <= ast /\ ast <= dxt + dt - t
  <2>1. dx * t <= sa * t /\ sa * t <= (dx + d - 1) * t
    <3>1. dx <= sa /\ sa <= dx + d - 1 /\ dx + d - 1 \in Int
      BY <1>2
    <3> QED
      BY <3>1, TimesMonotone
  <2>2. (dx + d - 1) * t = dx * t + d * t - t
    OBVIOUS
  <2> QED
    BY <1>3, <1>7, <2>1, <2>2
<1>10. ASSUME at <= nd PROVE xt <= sn
  <2>1. at * s <= nd * s
    BY <1>10, TimesMonotone
  <2>2. dxt <= nsd
    BY <1>8, <1>9, <2>1
  <2>3. ASSUME xt > sn PROVE xt * d > sn * d
    BY <2>3, TimesStrict
  <2> QED
    BY <1>4, <1>7, <2>2, <2>3
<1>11. ASSUME dt <= s, xt <= sn PROVE at <= nd
  <2> SUFFICES ASSUME nd + 1 <= at PROVE FALSE
    OBVIOUS
  <2>1. (nd + 1) * s <= at * s /\ (nd + 1) * s = nd * s + s
    BY TimesMonotone
  <2>2. xt * d <= sn * d
    BY <1>11, TimesMonotone
  <2>3. nsd + s <= ast /\ dxt <= nsd
    BY <1>4, <1>7, <1>8, <2>1, <2>2
  <2> QED
    BY <1>9, <1>11, <2>3
<1>12. dt <= s => (xt <= sn <=> at <= nd)
  BY <1>10, <1>11
<1>13. dt <= s => (x <= sn \div t <=> at <= nd)
  BY <1>5, <1>12
<1> QED
  BY <1>1, <1>2, <1>3, <1>6, <1>13

\* What vests in whole coins per second is within the rate, at any scale.
LEMMA VestedIsPaid ==
    ASSUME NEW a \in Nat, NEW n \in Nat, NEW d \in Nat \ {0}, NEW t \in Nat \ {0},
           NEW s \in Nat \ {0}
    PROVE  a <= (n \div t) * d => (a * s) \div d <= (n * s) \div t
<1>1. PICK v \in Int, vt \in Int : v = n \div t /\ vt = v * t /\ vt <= n
  BY QuotientSteps
<1>2. PICK sa \in Nat, sn \in Nat, vs \in Int : sa = a * s /\ sn = n * s /\ vs = v * s
  OBVIOUS
<1>3. PICK x \in Int, dx \in Int : x = sa \div d /\ dx = x * d /\ dx <= sa
  BY QuotientSteps
<1>4. vs <= sn \div t
  <2>1. vt * s <= n * s
    <3>1. vt <= n
      BY <1>1
    <3> QED
      BY <3>1, TimesMonotone
  <2>2. (v * t) * s = (v * s) * t
    OBVIOUS
  <2>3. vs * t <= sn
    BY <1>1, <1>2, <2>1, <2>2
  <2> QED
    BY <2>3, QuotientIsLargest
<1>5. ASSUME a <= v * d PROVE x <= vs
  <2>1. PICK vd \in Int : vd = v * d
    OBVIOUS
  <2>2. a <= vd
    BY <1>5, <2>1
  <2>3. a * s <= vd * s
    BY <2>2, TimesMonotone
  <2>4. (v * d) * s = (v * s) * d
    OBVIOUS
  <2>5. dx <= vs * d
    BY <1>2, <1>3, <2>1, <2>3, <2>4
  <2>6. ASSUME vs < x PROVE vs * d < x * d
    BY <2>6, TimesStrict
  <2> QED
    BY <1>3, <2>5, <2>6
<1>6. PICK y \in Int : y = sn \div t
  BY QuotientSteps
<1>7. a <= v * d => x <= y
  BY <1>4, <1>5, <1>6
<1> QED
  BY <1>1, <1>2, <1>3, <1>6, <1>7

-----------------------------------------------------------------------------
(* The inductive invariant. *)

\* A call that has its timestamp has that of a block; a receiver stakes an offer,
\* and a sender funds, once, what was staked.
CallsOK ==
    /\ \A j \in Jobs : job[j].pc = "known" => job[j].stamp \in 0..block
    /\ job["stake"].pc # "idle" => offer # None /\ stake = None
    /\ job["fund"].pc # "idle" => stake # None /\ funds = None
    /\ stake # None => offer # None

\* The transfer starts before the latest block, at the rate of its offer.
FundsOK ==
    /\ offer # None /\ offer.type = "Pull" => ValidRate
    /\ funds # None => /\ stake # None
                       /\ funds.start \in -1..(block - 1)
                       /\ funds.rate = RateOf
    /\ taken => funds # None

Inv == TypeOK /\ CallsOK /\ FundsOK

LEMMA InitInv == Init => Inv
<1> SUFFICES ASSUME Init PROVE Inv
  OBVIOUS
<1>1. TypeOK
  <2>1. now \in 0..MaxTime /\ block \in 0..now
    BY BoundAssumption DEF Init
  <2>2. job \in [Jobs -> [pc : {"idle", "asked", "known"}, stamp : 0..block \cup {None}]]
    BY DEF Init, Idle
  <2>3. pulls \in Seq(Nat) /\ Len(pulls) <= MaxPulls
    BY BoundAssumption DEF Init
  <2> QED
    BY <2>1, <2>2, <2>3 DEF Init, TypeOK
<1>2. CallsOK /\ FundsOK
  BY DEF Init, CallsOK, FundsOK, Jobs, Idle
<1> QED
  BY <1>1, <1>2 DEF Inv

LEMMA TimeInv ==
    ASSUME Inv, Tick \/ Mine
    PROVE  Inv'
<1>1. CASE Tick
  BY <1>1, BoundAssumption DEF Inv, TypeOK, CallsOK, FundsOK, Tick, payment, RateOf, ValidRate
<1>2. CASE Mine
  BY <1>2, BoundAssumption DEF Inv, TypeOK, CallsOK, FundsOK, Mine, payment, cache, RateOf, ValidRate
<1> QED
  BY <1>1, <1>2

\* A call asks for the time, gets it, or not.
LEMMA AskInv ==
    ASSUME Inv, NEW j \in Jobs, Ask(j), UNCHANGED <<times, request, payment>>,
           j = "stake" => offer # None /\ stake = None,
           j = "fund" => stake # None /\ funds = None
    PROVE  Inv'
<1>1. UNCHANGED <<now, block, request, offer, stake, funds, taken, pulls, released>>
  BY DEF times, payment
<1>2. SideOf(j) \in Sides
  BY DEF SideOf, Sides
<1>3. /\ job' \in [Jobs -> [pc : {"idle", "asked", "known"}, stamp : 0..block \cup {None}]]
      /\ \A i \in Jobs : i # j => job'[i] = job[i]
      /\ job'[j].pc = "known" => job'[j].stamp \in 0..block
      /\ checked' \subseteq Sides /\ stamp' = stamp
  <2>0. /\ job \in [Jobs -> [pc : {"idle", "asked", "known"}, stamp : 0..block \cup {None}]]
        /\ checked \subseteq Sides /\ stamp \in [Sides -> 0..block \cup {None}]
    BY DEF Inv, TypeOK
  <2>1. CASE SideOf(j) \in checked /\ stamp[SideOf(j)] # None
    <3>1. stamp[SideOf(j)] \in 0..block
      BY <1>2, <2>0, <2>1
    <3> QED
      BY <2>0, <2>1, <3>1 DEF Ask, cache
  <2>2. CASE ~(SideOf(j) \in checked /\ stamp[SideOf(j)] # None)
    BY <1>2, <2>0, <2>2 DEF Ask
  <2> QED
    BY <2>1, <2>2
<1>4. TypeOK'
  BY <1>1, <1>3 DEF Inv, TypeOK
<1>5. CallsOK'
  <2>1. "stake" \in Jobs /\ "fund" \in Jobs
    BY DEF Jobs
  <2> QED
    BY <1>1, <1>3, <2>1 DEF Inv, CallsOK
<1>6. FundsOK'
  BY <1>1 DEF Inv, FundsOK, ValidRate, RateOf
<1> QED
  BY <1>4, <1>5, <1>6 DEF Inv

LEMMA ArrivesInv ==
    ASSUME Inv, NEW j \in Jobs, BlockArrives(j) \/ BlockFails(j)
    PROVE  Inv'
<1>1. UNCHANGED <<now, block, checked, request, offer, stake, funds, taken, pulls, released>>
  BY DEF BlockArrives, BlockFails, times, payment, cache
<1>2. block \in 0..block /\ SideOf(j) \in Sides
  BY DEF Inv, TypeOK, SideOf, Sides
<1>3. /\ job' \in [Jobs -> [pc : {"idle", "asked", "known"}, stamp : 0..block \cup {None}]]
      /\ \A i \in Jobs : i # j => job'[i] = job[i]
      /\ job'[j].pc = "known" => job'[j].stamp \in 0..block
      /\ stamp' \in [Sides -> 0..block \cup {None}]
      /\ job[j].pc # "idle"
  <2>1. CASE BlockArrives(j)
    BY <1>2, <2>1 DEF Inv, TypeOK, BlockArrives
  <2>2. CASE BlockFails(j)
    BY <2>2 DEF Inv, TypeOK, BlockFails, cache, Idle
  <2> QED
    BY <2>1, <2>2
<1>4. TypeOK'
  BY <1>1, <1>3 DEF Inv, TypeOK
<1>5. CallsOK'
  <2>1. "stake" \in Jobs /\ "fund" \in Jobs
    BY DEF Jobs
  <2> QED
    BY <1>1, <1>3, <2>1 DEF Inv, CallsOK
<1>6. FundsOK'
  BY <1>1 DEF Inv, FundsOK, ValidRate, RateOf
<1> QED
  BY <1>4, <1>5, <1>6 DEF Inv

LEMMA OtherCallInv ==
    ASSUME Inv, NEW c \in Sides, OtherCall(c)
    PROVE  Inv'
<1>1. UNCHANGED <<now, block, job, request, offer, stake, funds, taken, pulls, released>>
  BY DEF OtherCall, times, payment
<1>2. checked' \subseteq Sides /\ stamp' \in [Sides -> 0..block \cup {None}]
  BY DEF Inv, TypeOK, OtherCall
<1>3. TypeOK'
  BY <1>1, <1>2 DEF Inv, TypeOK
<1>4. CallsOK' /\ FundsOK'
  BY <1>1 DEF Inv, CallsOK, FundsOK, ValidRate, RateOf
<1> QED
  BY <1>3, <1>4 DEF Inv

-----------------------------------------------------------------------------
(* The payment. *)

\* A call is over.
LEMMA FinishedJobs ==
    ASSUME Inv, NEW j \in Jobs, Finished(j), block' = block
    PROVE  /\ job' \in [Jobs -> [pc : {"idle", "asked", "known"}, stamp : 0..block \cup {None}]]
           /\ \A i \in Jobs : i # j => job'[i] = job[i]
           /\ job'[j].pc = "idle"
BY DEF Inv, TypeOK, Finished, Idle

\* An offer is made of a request, but once.
LEMMA OfferInv ==
    ASSUME Inv, NEW j \in {"send", "authorize"}, job' = job \/ Finished(j),
           UNCHANGED <<now, block, checked, stamp, request, stake, funds, taken, pulls, released>>,
           offer' # offer => /\ offer = None
                             /\ offer' \in [type : {"Push", "Pull"}, rated : BOOLEAN]
                             /\ offer'.type = "Pull" => ValidRate
    PROVE  Inv'
<1>1. /\ job' \in [Jobs -> [pc : {"idle", "asked", "known"}, stamp : 0..block \cup {None}]]
      /\ \A i \in Jobs : job'[i] = job[i] \/ job'[i].pc = "idle"
      /\ job'["stake"] = job["stake"] /\ job'["fund"] = job["fund"]
  <2>1. "stake" \in Jobs /\ "fund" \in Jobs /\ j \in Jobs /\ j \notin {"stake", "fund"}
    BY DEF Jobs
  <2> QED
    BY <2>1, FinishedJobs DEF Inv, TypeOK
<1>2. TypeOK'
  BY <1>1 DEF Inv, TypeOK
<1>3. CASE offer' = offer
  BY <1>1, <1>2, <1>3 DEF Inv, CallsOK, FundsOK, ValidRate, RateOf
<1>4. CASE offer' # offer
  <2>1. stake = None /\ funds = None /\ ~taken
    BY <1>4 DEF Inv, CallsOK, FundsOK
  <2>2. CallsOK' /\ FundsOK'
    BY <1>1, <1>4, <2>1 DEF Inv, CallsOK, FundsOK, ValidRate
  <2> QED
    BY <1>2, <2>2 DEF Inv
<1> QED
  BY <1>3, <1>4

LEMMA RequestInv ==
    ASSUME Inv, \/ SendFundsRequested \/ SendFunds
                \/ AuthorizeFundsRequested \/ AuthorizeFunds \/ ForeignOffer
    PROVE  Inv'
<1>1. CASE SendFundsRequested
  BY <1>1, AskInv DEF SendFundsRequested, Jobs
<1>2. CASE AuthorizeFundsRequested
  BY <1>2, AskInv DEF AuthorizeFundsRequested, Jobs
<1>3. CASE SendFunds
  <2>1. UNCHANGED <<now, block, checked, stamp, request, stake, funds, taken, pulls, released>>
    BY <1>3 DEF SendFunds, times, cache
  <2>2. offer' # offer => /\ offer = None
                          /\ offer' \in [type : {"Push", "Pull"}, rated : BOOLEAN]
                          /\ offer'.type = "Push"
    BY <1>3 DEF SendFunds
  <2>3. Finished("send")
    BY <1>3 DEF SendFunds
  <2> QED
    BY <2>1, <2>2, <2>3, OfferInv
<1>4. CASE AuthorizeFunds
  <2>1. UNCHANGED <<now, block, checked, stamp, request, stake, funds, taken, pulls, released>>
    BY <1>4 DEF AuthorizeFunds, times, cache
  <2>2. offer' # offer => /\ offer = None
                          /\ offer' \in [type : {"Push", "Pull"}, rated : BOOLEAN]
                          /\ offer'.type = "Push"
    BY <1>4 DEF AuthorizeFunds, AuthorizedType
  <2>3. Finished("authorize")
    BY <1>4 DEF AuthorizeFunds
  <2> QED
    BY <2>1, <2>2, <2>3, OfferInv
<1>5. CASE ForeignOffer
  <2>1. UNCHANGED <<now, block, checked, stamp, job, request, stake, funds, taken, pulls, released>>
    BY <1>5 DEF ForeignOffer, times, cache
  <2>2. /\ offer = None /\ offer' \in [type : {"Push", "Pull"}, rated : BOOLEAN] /\ ValidRate
    BY <1>5 DEF ForeignOffer
  <2> QED
    BY <2>1, <2>2, OfferInv
<1> QED
  BY <1>1, <1>2, <1>3, <1>4, <1>5

LEMMA StakeInv ==
    ASSUME Inv, AcceptOffer \/ ProvideStake
    PROVE  Inv'
<1>1. CASE AcceptOffer
  BY <1>1, AskInv DEF AcceptOffer, Jobs
<1>2. CASE ProvideStake
  <2>1. UNCHANGED <<now, block, checked, stamp, request, offer, funds, taken, pulls, released>>
    BY <1>2 DEF ProvideStake, times, cache
  <2>2. /\ "stake" \in Jobs /\ "fund" \in Jobs /\ Finished("stake")
        /\ job["stake"].stamp \in 0..block /\ block \in Nat /\ offer # None
        /\ stake = None /\ funds = None
    BY <1>2 DEF Inv, TypeOK, CallsOK, FundsOK, ProvideStake, Jobs
  <2>3. stake' = stake \/ stake' \in [expires : Nat]
    BY <1>2, <2>2, TimeAssumption DEF ProvideStake
  <2>4. /\ job' \in [Jobs -> [pc : {"idle", "asked", "known"}, stamp : 0..block \cup {None}]]
        /\ \A i \in Jobs : i # "stake" => job'[i] = job[i]
        /\ job'["stake"].pc = "idle"
    BY <2>1, <2>2, FinishedJobs
  <2>5. TypeOK'
    BY <2>1, <2>3, <2>4 DEF Inv, TypeOK
  <2>6. CallsOK' /\ FundsOK'
    BY <2>1, <2>2, <2>4 DEF Inv, CallsOK, FundsOK, ValidRate, RateOf
  <2> QED
    BY <2>5, <2>6 DEF Inv
<1> QED
  BY <1>1, <1>2

LEMMA FundInv ==
    ASSUME Inv, StakePosted \/ ProvideAsset
    PROVE  Inv'
<1>1. CASE StakePosted
  BY <1>1, AskInv DEF StakePosted, Jobs
<1>2. CASE ProvideAsset
  <2> DEFINE t == job["fund"].stamp
  <2>1. UNCHANGED <<now, block, checked, stamp, request, offer, stake, taken, pulls, released>>
    BY <1>2 DEF ProvideAsset, times, cache
  <2>2. /\ "stake" \in Jobs /\ "fund" \in Jobs /\ Finished("fund")
        /\ t \in 0..block /\ block \in Nat /\ stake # None /\ funds = None
        /\ offer # None /\ ~taken
    BY <1>2 DEF Inv, TypeOK, CallsOK, FundsOK, ProvideAsset, Jobs
  <2>3. /\ request.deltaAmount \in Nat /\ request.amount \in Nat
        /\ request.deltaTime \in Int
    BY RequestsAssumption DEF Inv, TypeOK, Request
  <2>4. RateOf \in Rate
    BY <2>3 DEF RateOf, Rate
  <2>5. \/ funds' = None
        \/ /\ funds' \in [start : Int, expires : Nat, rate : Rate]
           /\ funds'.start \in -1..(block - 1) /\ funds'.rate = RateOf
    BY <1>2, <2>2, <2>4, TimeAssumption DEF ProvideAsset, StartBefore
  <2>6. /\ job' \in [Jobs -> [pc : {"idle", "asked", "known"}, stamp : 0..block \cup {None}]]
        /\ \A i \in Jobs : i # "fund" => job'[i] = job[i]
        /\ job'["fund"].pc = "idle"
    BY <2>1, <2>2, FinishedJobs
  <2>7. TypeOK'
    BY <2>1, <2>5, <2>6 DEF Inv, TypeOK
  <2>8. RateOf' = RateOf
    BY <2>1 DEF RateOf
  <2>9. CallsOK' /\ FundsOK'
    BY <2>1, <2>2, <2>5, <2>6, <2>8 DEF Inv, CallsOK, FundsOK, ValidRate
  <2> QED
    BY <2>7, <2>9 DEF Inv
<1> QED
  BY <1>1, <1>2

\* A pull adds a record.
LEMMA PullInv ==
    ASSUME Inv, NEW amount \in 1..request.amount, PullFunds(amount)
    PROVE  Inv'
<1>1. UNCHANGED <<now, block, checked, stamp, job, request, offer, stake, funds, taken, released>>
  BY DEF PullFunds, times, cache
<1>2. pulls' \in Seq(Nat) /\ Len(pulls') <= MaxPulls
  <2>1. amount \in Nat /\ pulls \in Seq(Nat) /\ Len(pulls) \in Nat
    BY RequestsAssumption DEF Inv, TypeOK, Request
  <2>2. pulls' = Append(pulls, amount) /\ Len(pulls) < MaxPulls
    BY DEF PullFunds, CreatePullRecord
  <2>3. Append(pulls, amount) \in Seq(Nat) /\ Len(Append(pulls, amount)) = Len(pulls) + 1
    BY <2>1
  <2> QED
    BY <2>1, <2>2, <2>3, BoundAssumption
<1>3. TypeOK'
  BY <1>1, <1>2 DEF Inv, TypeOK
<1>4. CallsOK' /\ FundsOK'
  BY <1>1 DEF Inv, CallsOK, FundsOK, ValidRate, RateOf
<1> QED
  BY <1>3, <1>4 DEF Inv

LEMMA ResolvedInv ==
    ASSUME Inv, AcceptPayment \/ \E award \in {0, 1} : ResolveInsurance(award)
    PROVE  Inv'
<1>1. UNCHANGED <<now, block, checked, stamp, job, request, offer, stake, funds, pulls>>
  BY DEF AcceptPayment, ResolveInsurance, times, cache
<1>2. /\ taken' \in BOOLEAN /\ released' \in {None, 0, 1} /\ (taken' => taken \/ funds # None)
  BY DEF AcceptPayment, ResolveInsurance, Inv, TypeOK
<1>3. TypeOK'
  BY <1>1, <1>2 DEF Inv, TypeOK
<1>4. CallsOK' /\ FundsOK'
  BY <1>1, <1>2 DEF Inv, CallsOK, FundsOK, ValidRate, RateOf
<1> QED
  BY <1>3, <1>4 DEF Inv

-----------------------------------------------------------------------------
(* The theorems. *)

\* The types, and what is known of a payment's calls and transfers.
THEOREM PaymentsStayTimed == Spec => []Inv
<1>1. Inv /\ [Next]_vars => Inv'
  <2> SUFFICES ASSUME Inv, [Next]_vars PROVE Inv'
    OBVIOUS
  <2>1. CASE Next
    BY <2>1, TimeInv, ArrivesInv, OtherCallInv, RequestInv, StakeInv, FundInv, PullInv,
       ResolvedInv DEF Next
  <2>2. CASE UNCHANGED vars
    BY <2>2 DEF vars, times, cache, payment, Inv, TypeOK, CallsOK, FundsOK,
       ValidRate, RateOf
  <2> QED
    BY <2>1, <2>2
<1> QED
  BY <1>1, InitInv, PTL DEF Spec

\* Every variable has its type: no timestamp that a core has is ahead of the chain.
THEOREM TimedTypes == Spec => []TypeOK
<1>1. Inv => TypeOK
  BY DEF Inv
<1> QED
  BY <1>1, PaymentsStayTimed, PTL

\* The terms of a transfer, and how much time may have passed since its start.
LEMMA TransferTerms ==
    ASSUME Inv, funds # None
    PROVE  /\ request \in Requests /\ request.amount \in Nat
           /\ block \in 0..MaxTime /\ now \in block..MaxTime
           /\ funds.start \in -1..(block - 1) /\ Scale \in Nat \ {0}
           /\ funds.rate.deltaAmount \in Nat /\ funds.rate.deltaTime \in Nat \ {0}
           /\ \/ funds.rate = [deltaAmount |-> request.amount, deltaTime |-> 1]
              \/ /\ offer.type = "Pull"
                 /\ funds.rate = [deltaAmount |-> request.deltaAmount,
                                  deltaTime |-> request.deltaTime]
<1>1. /\ request \in Requests /\ request.amount \in Nat
      /\ request.deltaAmount \in Nat /\ request.deltaTime \in Int
  BY RequestsAssumption DEF Inv, TypeOK, Request
<1>2. /\ block \in 0..MaxTime /\ now \in block..MaxTime
      /\ funds.start \in -1..(block - 1) /\ Scale \in Nat \ {0}
  BY BoundAssumption, TimeAssumption DEF Inv, TypeOK, FundsOK
<1>3. offer # None /\ funds.rate = RateOf /\ (offer.type = "Pull" => ValidRate)
  BY DEF Inv, CallsOK, FundsOK
<1>4. CASE offer.type = "Pull"
  BY <1>1, <1>2, <1>3, <1>4 DEF RateOf, ValidRate
<1>5. CASE offer.type # "Pull"
  BY <1>1, <1>2, <1>3, <1>5 DEF RateOf
<1> QED
  BY <1>4, <1>5

\* Until it expires a push payment can be taken for its full amount: the transfer
\* starts a second before the block that the sender knew of (provideAsset), however
\* old the cached time of the chain was.
THEOREM PushStaysTakeable == Spec => []PushIsTakeable
<1>1. Inv => PushIsTakeable
  <2> SUFFICES ASSUME Inv, funds # None, offer.type = "Push", block < funds.expires
               PROVE  CanResolve(request.amount)
    BY DEF PushIsTakeable
  <2>1. PICK a \in Nat, d \in Nat \ {0}, s \in Nat \ {0}, t \in Nat \ {0} :
            a = request.amount /\ d = block - funds.start /\ s = Scale /\ t = 1
    BY TransferTerms
  <2>2. funds.rate = [deltaAmount |-> a, deltaTime |-> t]
    BY <2>1, TransferTerms
  <2>3. a <= (a \div t) * d
    BY <2>1
  <2>4. (a * s) \div d <= (a * s) \div t
    BY <2>3, VestedIsPaid
  <2>5. Pays(funds.rate, funds.start, a, block)
    <3>1. funds.rate.deltaAmount = a /\ funds.rate.deltaTime = t
      BY <2>2
    <3>2. block - funds.start > 0
      BY <2>1
    <3> QED
      BY Zenon, <2>1, <2>4, <3>1, <3>2 DEF Pays
  <2> QED
    BY <2>1, <2>5 DEF CanResolve
<1> QED
  BY <1>1, PaymentsStayTimed, PTL

\* The contract's division at a scale of 2^64 loses nothing: what it pays is within
\* the agreed rate, and it pays all that is (Parameterized.sol, resolve).
THEOREM RateStaysExact == Spec => []RateIsExact
<1>1. Inv => RateIsExact
  <2> SUFFICES ASSUME Inv, funds # None, NEW amount \in 0..request.amount
               PROVE  Pays(funds.rate, funds.start, amount, block)
                          <=> /\ block > funds.start
                              /\ amount * funds.rate.deltaTime
                                     <= funds.rate.deltaAmount * (block - funds.start)
    BY DEF RateIsExact
  <2>0. /\ amount \in Nat /\ funds.rate.deltaAmount \in Nat
        /\ block - funds.start \in Nat \ {0} /\ funds.rate.deltaTime \in Nat \ {0}
        /\ Scale \in Nat \ {0} /\ block > funds.start /\ block - funds.start > 0
    BY TransferTerms
  <2>1. PICK a \in Nat, n \in Nat, d \in Nat \ {0}, t \in Nat \ {0}, s \in Nat \ {0} :
            /\ a = amount /\ n = funds.rate.deltaAmount /\ d = block - funds.start
            /\ t = funds.rate.deltaTime /\ s = Scale
    BY <2>0
  <2>2. d <= MaxTime + 1 /\ MaxTime + 1 \in Nat
    BY <2>1, TransferTerms, BoundAssumption
  <2>3. t * (MaxTime + 1) <= s
    BY <2>1, TransferTerms, ScaleAssumption, BoundAssumption
  <2>4. d * t <= (MaxTime + 1) * t
    BY <2>2, TimesMonotone
  <2>5. d * t <= s
    BY <2>2, <2>3, <2>4
  <2>6. (a * s) \div d <= (n * s) \div t <=> a * t <= n * d
    BY <2>5, ScaledRates
  <2>7. Pays(funds.rate, funds.start, amount, block) <=> (a * s) \div d <= (n * s) \div t
    BY Zenon, <2>0, <2>1 DEF Pays
  <2> QED
    BY <2>0, <2>1, <2>6, <2>7
<1> QED
  BY <1>1, PaymentsStayTimed, PTL
=============================================================================
