-------------------------- MODULE PaymentProtocol --------------------------
(***************************************************************************)
(* Push payments between Hypernet cores.  Each core (PaymentService and    *)
(* PaymentRepository of hypernet-core) advances a payment from the events  *)
(* of its Vector node; a router carries transfers and their resolutions    *)
(* from one channel to the other, with a delay.                            *)
(*                                                                         *)
(* A handler of the code is a chain of promises.  Between two of its       *)
(* awaits anything may happen, so a running handler has a stage: it has    *)
(* yet to read the payment, or it is about to act on what it read.  Two    *)
(* handlers at the same stage of the same payment are two only if both can *)
(* have an effect; those are counted, the others are kept as a set.        *)
(***************************************************************************)
EXTENDS PaymentTransfers, Sequences, FiniteSets, Functions

CONSTANTS
    Cores,          \* the participants, one HypernetCore each
    Payments,       \* payment ids
    From, To,       \* [Payments -> Cores]: the sender and the receiver
    Amount, Stake,  \* [Payments -> Nat]: paymentAmount and requiredStake
    Hypertoken,     \* [Cores -> Tokens]: chainInfo.hypertokenAddress of a core's config
    Tokens,
    PaymentToken,   \* the token every payment is made in
    Funds,          \* what each core deposited of each asset it uses
    MaxSends,       \* bound: sendFunds requests per payment id
    MaxAccepts,     \* bound: MaxAccepts[p] acceptOffer calls for payment p
    MaxRepairs,     \* bound: repairPayments calls
    MaxReturns,     \* bound: transfers the router gives back undelivered
    MaxCrashes,     \* bound: reloads of a core
    Started         \* the cores whose gateway connector is active at first

ASSUME PaymentAssumption ==
    /\ From \in [Payments -> Cores]
    /\ To \in [Payments -> Cores]
    /\ \A p \in Payments : From[p] # To[p]
    /\ Amount \in [Payments -> Nat]
    /\ Stake \in [Payments -> Nat]
    /\ Hypertoken \in [Cores -> Tokens]
    /\ PaymentToken \in Tokens
    /\ Started \subseteq Cores

ASSUME BoundAssumption ==
    /\ MaxSends \in Nat /\ MaxAccepts \in [Payments -> Nat] /\ MaxRepairs \in Nat
    /\ MaxReturns \in Nat /\ MaxCrashes \in Nat /\ Funds \in Nat

VARIABLES
    transfers,  \* every Vector transfer in order of creation; at[c]: its status in c's channel
    free,       \* free[c][kind]: the free balance a transfer of this kind draws on at core c
    unread,     \* unread[c][p]: handlers of core c that have yet to read payment p
    staking,    \* staking[p]: acceptOffer calls of the receiver about to provideStake
    funding,    \* funding[p]: handlers of the sender about to provideAsset
    tasks,      \* the other handlers that are running, of all cores
    gateway,    \* gateway[c]: the proxy of the payments' gateway connector at core c
    reserved,   \* payment ids in the reservedPaymentMap of their sender
    sends,      \* sends[p]: sendFunds calls that created an offer
    accepts,    \* accepts[p]: acceptOffer calls
    used        \* environment steps taken so far, against their bounds

channel == <<transfers, free>>
handlers == <<unread, staking, funding, tasks>>
host == <<gateway, reserved>>
calls == <<sends, accepts, used>>
vars == <<channel, handlers, host, calls>>

-----------------------------------------------------------------------------
(* Transfers and what a core sees of them.                                 *)

Ids == DOMAIN transfers

Terms(p) == [stake |-> Stake[p], stakeToken |-> Hypertoken[From[p]],
             amount |-> Amount[p], paymentToken |-> PaymentToken]

\* Offers and parameterized transfers go to the receiver, insurance to the sender.
InitiatorOf(kind, p) == IF kind = "Insurance" THEN To[p] ELSE From[p]
ResponderOf(kind, p) == IF kind = "Insurance" THEN From[p] ELSE To[p]
Initiator(i) == InitiatorOf(transfers[i].kind, transfers[i].payment)
Responder(i) == ResponderOf(transfers[i].kind, transfers[i].payment)

\* Only the transfers created since the oldest one that is still active are
\* fetched from the node: getTransfers(earliestDate, now).
Fetched(c) ==
    {i \in Ids : /\ transfers[i].at[c] # "Unseen"
                 /\ \E j \in 1..i : transfers[j].at[c] = "Active"}

Snapshot(c, p) ==
    {[id |-> i, kind |-> transfers[i].kind, status |-> transfers[i].at[c],
      amount |-> transfers[i].amount, token |-> transfers[i].token] :
        i \in {j \in Fetched(c) : transfers[j].payment = p}}

StateAt(c, p) == GetPaymentState(Snapshot(c, p), Terms(p))

-----------------------------------------------------------------------------
(* The Vector node: creating and resolving a transfer.  Each party's       *)
(* VectorAPIListener turns the event into a handler on its core.           *)

\* A handler that is about to resolve transfers: those in todo, then those in next.
Task(stage, c, p, award, todo, next) ==
    [stage |-> stage, core |-> c, payment |-> p, award |-> award,
     todo |-> todo, next |-> next]

\* A listener that misses the creation of parameterized transfers (mutant).
HeardButForPayments(c, p, kind, what) ==
    IF what = "created" /\ kind # "Insurance" THEN unread
    ELSE [unread EXCEPT ![c][p] = @ + 1]

\* c's handler of "a transfer of p was created/resolved" starts.  For the creation
\* of an offer that is offerReceived, which only tells the user: it is left out.
Heard(c, p, kind, what) ==
    IF kind = "Offer" /\ what = "created" THEN unread
    ELSE [unread EXCEPT ![c][p] = @ + 1]

Pot(kind) == IF kind = "Insurance" THEN "hypertoken" ELSE "payment"

Token(kind, p) == IF kind = "Insurance" THEN Hypertoken[To[p]] ELSE PaymentToken

Price(kind, p) ==
    CASE kind = "Offer" -> 0 [] kind = "Insurance" -> Stake[p] [] OTHER -> Amount[p]

\* The contract's check without that of the balance (mutant).
CreatableOnCredit(kind, p) == CanCreate(kind, Price(kind, p))

Creatable(kind, p) ==
    /\ CanCreate(kind, Price(kind, p))
    /\ free[InitiatorOf(kind, p)][Pot(kind)] >= Price(kind, p)

\* conditionalTransfer: the initiator's channel is updated, the router has the
\* rest to do.
Create(kind, p) ==
    LET c == InitiatorOf(kind, p)
    IN  /\ transfers' = Append(transfers,
               [kind |-> kind, payment |-> p, amount |-> Price(kind, p),
                token |-> Token(kind, p), award |-> 0,
                at |-> [d \in Cores |-> IF d = c THEN "Active" ELSE "Unseen"]])
        /\ free' = [free EXCEPT ![c][Pot(kind)] = @ - Price(kind, p)]
        /\ unread' = Heard(c, p, kind, "created")

\* A balance that the end of a transfer does not restore (mutant).
UpdateWithoutRefund(c, i, status, award, refund, what) ==
    LET t == transfers[i]
    IN  /\ transfers' = [transfers EXCEPT ![i] =
               [t EXCEPT !.at[c] = status, !.award = award]]
        /\ unread' = Heard(c, t.payment, t.kind, what)
        /\ UNCHANGED free

\* The status of transfer i in c's channel changes, and c hears of it.
Update(c, i, status, award, refund, what) ==
    LET t == transfers[i]
    IN  /\ transfers' = [transfers EXCEPT ![i] =
               [t EXCEPT !.at[c] = status, !.award = award]]
        /\ free' = [free EXCEPT ![c][Pot(t.kind)] = @ + refund]
        /\ unread' = Heard(c, t.payment, t.kind, what)

Resolvable(c, i) == i \in Ids /\ c = Responder(i) /\ transfers[i].at[c] = "Active"

\* resolveTransfer by the responder: "status" tells the cancel resolver from any
\* other, "award" is what the responder keeps of the amount.
Resolve(c, i, status, award) == Update(c, i, status, award, award, "resolved")

-----------------------------------------------------------------------------
(* Handlers: read the payment, then act on what was read.                  *)

\* Recovery of p on core c, cancelling todo and then next; no task if all is done.
Cancelling(stage, c, p, todo, next) ==
    CASE todo # {} -> {Task(stage, c, p, 0, todo, next)}
      [] todo = {} /\ next # {} -> {Task(stage, c, p, 0, next, {})}
      [] OTHER -> {}

\* _recoverPayment: the receiver cancels extra offers and then extra payments,
\* the sender extra insurance.  Without an offer there is no telling who is who
\* and _cancelEverything finds nothing to cancel.
Recovery(stage, c, p, snap) ==
    IF OfKind(snap, "Offer") = {} THEN {}
    ELSE IF c = To[p]
      THEN Cancelling(stage, c, p, ExtraOffers(snap), ExtraPayments(snap, Terms(p)))
      ELSE Cancelling(stage, c, p, ExtraInsurance(snap, Terms(p)), {})

\* What _advancePaymentForActivatedGateway goes on with, for a payment read as
\* snap: one of a set of alternatives.  finalizePayment takes the first of the
\* offers, and their list has no particular order.
Advance(c, p, snap) ==
    LET state == GetPaymentState(snap, Terms(p))
    IN  CASE state = "Approved" /\ c = To[p] -> {{Task("approve", c, p, 0, {}, {})}}
          [] state = "InsuranceReleased" /\ c = To[p]
               -> {{Task("finalize", c, p, 0, {o.id}, {})} : o \in OfKind(snap, "Offer")}
          [] state = "Borked" -> {Recovery("recover", c, p, snap)}
          [] OTHER -> {{}}

\* stakePosted, paymentPosted, paymentCompleted, offerResolved, insuranceResolved
\* and advancePayments: all read the payment and hand it to _advancePayment.  An
\* empty snapshot is "Invalid payment ID!".
Read(c, p) ==
    LET snap == Snapshot(c, p)
    IN  /\ unread[c][p] > 0
        /\ unread' = [unread EXCEPT ![c][p] = @ - 1]
        /\ IF c = From[p] /\ snap # {} /\ GetPaymentState(snap, Terms(p)) = "Staked"
           THEN funding' = [funding EXCEPT ![p] = @ + 1] /\ UNCHANGED tasks
           ELSE /\ \E new \in (IF snap = {} THEN {{}} ELSE Advance(c, p, snap)) :
                      tasks' = tasks \cup new
                /\ UNCHANGED funding
        /\ UNCHANGED <<channel, staking, host, calls>>

\* _advancePayment has waited for the proxy.  If its connector is not active, the
\* payment is delayed: nothing is done until the connector is.
Delay(t) ==
    /\ t.stage \in {"approve", "finalize", "recover"}
    /\ gateway[t.core] = "inactive"
    /\ tasks' = tasks \ {t}
    /\ UNCHANGED <<channel, unread, staking, funding, host, calls>>

DelayAsset(p) ==
    /\ funding[p] > 0
    /\ gateway[From[p]] = "inactive"
    /\ funding' = [funding EXCEPT ![p] = @ - 1]
    /\ UNCHANGED <<channel, unread, staking, tasks, host, calls>>

\* The second reading of provideStake and provideAsset is for the terms of the
\* offer; the payment's state is not looked at again.
Reread(c, p, kind) ==
    OfKind(Snapshot(c, p), "Offer") # {} /\ Creatable(kind, p)

\* provideAsset: creates the parameterized transfer.
ProvideAsset(p) ==
    /\ funding[p] > 0
    /\ gateway[From[p]] = "active"
    /\ funding' = [funding EXCEPT ![p] = @ - 1]
    /\ IF Reread(From[p], p, "Parameterized") THEN Create("Parameterized", p)
       ELSE UNCHANGED <<channel, unread>>
    /\ UNCHANGED <<staking, tasks, host, calls>>

\* acceptOffer, the rest (provideStake): creates the insurance transfer.
ProvideStake(p) ==
    /\ staking[p] > 0
    /\ staking' = [staking EXCEPT ![p] = @ - 1]
    /\ IF Reread(To[p], p, "Insurance") THEN Create("Insurance", p)
       ELSE UNCHANGED <<channel, unread>>
    /\ UNCHANGED <<funding, tasks, host, calls>>

\* acceptPayment, up to the choice of the transfer: it reads the transfers again
\* and goes on only if the payment is still Approved.
AcceptPayment(t) ==
    LET c == t.core
        p == t.payment
    IN  /\ t.stage = "approve"
        /\ gateway[c] = "active"
        /\ IF StateAt(c, p) = "Approved"
           THEN \E s \in OfKind(Snapshot(c, p), "Parameterized") :
                  tasks' = (tasks \ {t}) \cup {Task("take", c, p, Amount[p], {s.id}, {})}
           ELSE tasks' = tasks \ {t}
        /\ UNCHANGED <<channel, unread, staking, funding, host, calls>>

\* A handler resolves its transfer, which fails if that is not active any more:
\* "take" is the rest of acceptPayment (resolveParameterizedTransfer for the whole
\* amount), "finalize" is finalizePayment, "release" the rest of resolveInsurance.
ResolveTransfer(t) ==
    /\ t.stage \in {"take", "finalize", "release"}
    /\ t.stage = "finalize" => gateway[t.core] = "active"
    /\ tasks' = tasks \ {t}
    /\ \E i \in t.todo :
          IF Resolvable(t.core, i) /\ CanResolve(transfers[i].amount, t.award)
          THEN Resolve(t.core, i, "Resolved", t.award)
          ELSE UNCHANGED <<channel, unread>>
    /\ UNCHANGED <<staking, funding, host, calls>>

\* One cancel of a recovery.  If a cancel fails the others of the same kind are
\* under way already, but what should follow them is not done.
Cancel(t) ==
    LET after(i, next) ==
          (tasks \ {t}) \cup Cancelling(t.stage, t.core, t.payment, t.todo \ {i}, next)
    IN  /\ \/ t.stage = "recover" /\ gateway[t.core] = "active"
           \/ t.stage = "repair" /\ gateway[t.core] # "pending"
        /\ \E i \in t.todo :
              IF Resolvable(t.core, i)
              THEN tasks' = after(i, t.next) /\ Resolve(t.core, i, "Canceled", 0)
              ELSE tasks' = after(i, {}) /\ UNCHANGED <<channel, unread>>
        /\ UNCHANGED <<staking, funding, host, calls>>

-----------------------------------------------------------------------------
(* Calls of the gateway and of the user.                                   *)

\* The balance check of _validatePushPayment.  A gateway's requests are heard once its
\* connector is active: GatewayConnectorListener subscribes to them then.
Payable(p) ==
    gateway[From[p]] = "active" /\ free[From[p]]["payment"] >= Amount[p]

\* initiateSendFunds: a new payment id is kept for the gateway's request.
InitiateSendFunds(p) ==
    /\ reserved[p] = "new"
    /\ Payable(p)
    /\ reserved' = [reserved EXCEPT ![p] = "reserved"]
    /\ UNCHANGED <<channel, handlers, gateway, calls>>

\* sendFunds: the id must be the reserved one; it stays reserved.
SendFunds(p) ==
    /\ sends[p] < MaxSends
    /\ reserved[p] = "reserved"
    /\ Payable(p)
    /\ Create("Offer", p)
    /\ sends' = [sends EXCEPT ![p] = @ + 1]
    /\ UNCHANGED <<staking, funding, tasks, host, accepts, used>>

\* acceptOffer up to its last check.  Whether the offer is still open is not asked.
AcceptOffer(p) ==
    /\ accepts[p] < MaxAccepts[p]
    /\ OfKind(Snapshot(To[p], p), "Offer") # {}
    /\ free[To[p]]["hypertoken"] >= Stake[p]
    /\ staking' = [staking EXCEPT ![p] = @ + 1]
    /\ accepts' = [accepts EXCEPT ![p] = @ + 1]
    /\ UNCHANGED <<channel, unread, funding, tasks, host, sends, used>>

\* resolveInsurance without its condition on the state (mutant).
ResolveInsuranceOfAnyState(p) ==
    LET snap == Snapshot(From[p], p)
    IN  /\ gateway[From[p]] = "active"
        /\ \E s \in Live(snap, "Insurance"), award \in {0, Stake[p]} :
              tasks' = tasks \cup {Task("release", From[p], p, award, {s.id}, {})}
        /\ UNCHANGED <<channel, unread, staking, funding, host, calls>>

\* resolveInsurance up to the choice of the transfer: the gateway asks the sender
\* for nothing, or for all of the stake.
ResolveInsurance(p) ==
    LET c == From[p]
        snap == Snapshot(c, p)
    IN  /\ gateway[c] = "active"
        /\ GetPaymentState(snap, Terms(p)) = "Accepted"
        /\ \E s \in OfKind(snap, "Insurance") : s.amount = Stake[p]
        /\ \E s \in Live(snap, "Insurance"), award \in {0, Stake[p]} :
              tasks' = tasks \cup {Task("release", c, p, award, {s.id}, {})}
        /\ UNCHANGED <<channel, unread, staking, funding, host, calls>>

\* repairPayments, for one payment: recovery whatever the state.
RepairPayments(c, p) ==
    /\ used.repairs < MaxRepairs
    /\ c \in {From[p], To[p]}
    /\ tasks' = tasks \cup Recovery("repair", c, p, Snapshot(c, p))
    /\ used' = [used EXCEPT !.repairs = @ + 1]
    /\ UNCHANGED <<channel, unread, staking, funding, host, sends, accepts>>

-----------------------------------------------------------------------------
(* The router, the connectors and the host of a core.                      *)

\* The router forwards a transfer to the responder's channel.
Forward(i) ==
    /\ transfers[i].at[Responder(i)] = "Unseen"
    /\ transfers[i].at[Initiator(i)] = "Active"
    /\ Update(Responder(i), i, "Active", 0, 0, "created")
    /\ UNCHANGED <<staking, funding, tasks, host, calls>>

\* The router gives up on a transfer it could not forward and cancels it.
Return(i) ==
    /\ used.returns < MaxReturns
    /\ transfers[i].at[Responder(i)] = "Unseen"
    /\ transfers[i].at[Initiator(i)] = "Active"
    /\ Update(Initiator(i), i, "Canceled", 0, transfers[i].amount, "resolved")
    /\ used' = [used EXCEPT !.returns = @ + 1]
    /\ UNCHANGED <<staking, funding, tasks, host, sends, accepts>>

\* The router carries the responder's resolution back to the initiator.
Settle(i) ==
    LET t == transfers[i]
    IN  /\ t.at[Responder(i)] \in {"Resolved", "Canceled"}
        /\ t.at[Initiator(i)] = "Active"
        /\ Update(Initiator(i), i, t.at[Responder(i)], t.award, t.amount - t.award,
                  "resolved")
        /\ UNCHANGED <<staking, funding, tasks, host, calls>>

\* createGatewayProxy has the proxy; handlers that wait for it may go on.
ProxyCreated(c) ==
    /\ gateway[c] = "pending"
    /\ gateway' = [gateway EXCEPT ![c] = "inactive"]
    /\ UNCHANGED <<channel, handlers, reserved, calls>>

\* Activation that leaves the delayed payments alone (mutant).
ConnectorActivatedOnly(c) ==
    /\ gateway[c] = "inactive"
    /\ gateway' = [gateway EXCEPT ![c] = "active"]
    /\ UNCHANGED <<channel, handlers, reserved, calls>>

\* The connector is active: _advanceGatewayRelatedPayments advances every payment.
ConnectorActivated(c) ==
    /\ gateway[c] = "inactive"
    /\ gateway' = [gateway EXCEPT ![c] = "active"]
    /\ unread' = [unread EXCEPT ![c] =
          [p \in Payments |-> IF c \in {From[p], To[p]} THEN @[p] + 1 ELSE @[p]]]
    /\ UNCHANGED <<channel, staking, funding, tasks, reserved, calls>>

\* The page of a core is reloaded: what is in memory is gone, the channel is not.
Crash(c) ==
    /\ used.crashes < MaxCrashes
    /\ gateway' = [gateway EXCEPT ![c] = "pending"]
    /\ unread' = [unread EXCEPT ![c] = [p \in Payments |-> 0]]
    /\ staking' = [p \in Payments |-> IF To[p] = c THEN 0 ELSE staking[p]]
    /\ funding' = [p \in Payments |-> IF From[p] = c THEN 0 ELSE funding[p]]
    /\ tasks' = {t \in tasks : t.core # c}
    /\ reserved' = [p \in Payments |->
          IF From[p] = c /\ reserved[p] = "reserved" THEN "lost" ELSE reserved[p]]
    /\ used' = [used EXCEPT !.crashes = @ + 1]
    /\ UNCHANGED <<channel, sends, accepts>>

-----------------------------------------------------------------------------
Init ==
    /\ transfers = <<>>
    /\ free = [c \in Cores |-> [a \in {"payment", "hypertoken"} |-> Funds]]
    /\ unread = [c \in Cores |-> [p \in Payments |-> 0]]
    /\ staking = [p \in Payments |-> 0]
    /\ funding = [p \in Payments |-> 0]
    /\ tasks = {}
    /\ gateway = [c \in Cores |-> IF c \in Started THEN "active" ELSE "pending"]
    /\ reserved = [p \in Payments |-> "new"]
    /\ sends = [p \in Payments |-> 0]
    /\ accepts = [p \in Payments |-> 0]
    /\ used = [repairs |-> 0, returns |-> 0, crashes |-> 0]

TaskStep(t) == Delay(t) \/ AcceptPayment(t) \/ ResolveTransfer(t) \/ Cancel(t)

HandlerStep(p) ==
    \/ \E c \in Cores : Read(c, p)
    \/ DelayAsset(p) \/ ProvideAsset(p) \/ ProvideStake(p)

CallStep(p) ==
    \/ InitiateSendFunds(p) \/ SendFunds(p) \/ AcceptOffer(p) \/ ResolveInsurance(p)
    \/ \E c \in Cores : RepairPayments(c, p)

RouterStep(i) == Forward(i) \/ Return(i) \/ Settle(i)

HostStep(c) == ProxyCreated(c) \/ ConnectorActivated(c) \/ Crash(c)

Next ==
    \/ \E t \in tasks : TaskStep(t)
    \/ \E p \in Payments : HandlerStep(p) \/ CallStep(p)
    \/ \E i \in Ids : RouterStep(i)
    \/ \E c \in Cores : HostStep(c)

Spec == Init /\ [][Next]_vars

\* What is bound to happen: a promise that can go on does (each core's handlers of
\* a payment), the node and the router deliver, a connector becomes active, and
\* the gateway has the insurance of an accepted payment released.  The users'
\* calls, repairs, returns and reloads may never come.
Fairness ==
    /\ \A c \in Cores : WF_vars(ProxyCreated(c)) /\ WF_vars(ConnectorActivated(c))
    /\ \A p \in Payments :
          /\ WF_vars(DelayAsset(p) \/ ProvideAsset(p))
          /\ WF_vars(ProvideStake(p))
          /\ WF_vars(ResolveInsurance(p))
          /\ \A c \in Cores :
                /\ WF_vars(Read(c, p))
                /\ WF_vars(\E t \in tasks : t.core = c /\ t.payment = p /\ TaskStep(t))
    /\ WF_vars(\E i \in Ids : Forward(i) \/ Settle(i))

FairSpec == Spec /\ Fairness

-----------------------------------------------------------------------------
(* Properties.                                                             *)

TransferType ==
    [kind : Kinds, payment : Payments, amount : Nat, token : Tokens, award : Nat,
     at : [Cores -> Statuses]]

Stages == {"approve", "take", "finalize", "recover", "repair", "release"}

TaskType ==
    [stage : Stages, core : Cores, payment : Payments, award : Nat,
     todo : SUBSET Nat, next : SUBSET Nat]

\* The variables have their types; in particular a balance is never overdrawn.
TypeOK ==
    /\ transfers \in Seq(TransferType)
    /\ free \in [Cores -> [{"payment", "hypertoken"} -> Nat]]
    /\ unread \in [Cores -> [Payments -> Nat]]
    /\ staking \in [Payments -> Nat]
    /\ funding \in [Payments -> Nat]
    /\ tasks \subseteq TaskType
    /\ gateway \in [Cores -> {"pending", "inactive", "active"}]
    /\ reserved \in [Payments -> {"new", "reserved", "lost"}]
    /\ sends \in [Payments -> Nat]
    /\ accepts \in [Payments -> Nat]
    /\ used \in [repairs : Nat, returns : Nat, crashes : Nat]

Ours(p, k) == {i \in Ids : transfers[i].payment = p /\ transfers[i].kind = k}

\* The transfers of p of kind k that their responder resolved, not canceled.
Done(p, k) == {i \in Ours(p, k) : transfers[i].at[ResponderOf(k, p)] = "Resolved"}

\* However often a stake is posted, a handler runs on old news or a page is
\* reloaded, the receiver takes the payment once (acceptPayment).
PaidOnce == \A p \in Payments : ~Many(Done(p, "Parameterized"))

\* A payment that was taken stays insured until the gateway decides: the sender
\* holds an insurance transfer of the required stake and token that its recovery
\* did not cancel.
PaidMeansInsured ==
    \A p \in Payments :
        Done(p, "Parameterized") # {} =>
            \E i \in Ours(p, "Insurance") :
                /\ transfers[i].at[From[p]] \in {"Active", "Resolved"}
                /\ transfers[i].amount = Stake[p]
                /\ transfers[i].token = Hypertoken[From[p]]

\* Whatever stakes are posted and whenever the gateway asks, the sender releases
\* one insurance transfer of a payment at most (resolveInsurance).
ReleasedOnce == \A p \in Payments : ~Many(Done(p, "Insurance"))

\* The sender releases insurance only after it saw the receiver take the money.
ReleasedAfterPaid ==
    \A p \in Payments :
        Done(p, "Insurance") # {} =>
            \E i \in Ours(p, "Parameterized") : transfers[i].at[From[p]] = "Resolved"

\* The sender puts funds into a payment only when it saw a stake that matches
\* the offer (provideAsset).
FundedMeansStaked ==
    \A p \in Payments :
        Ours(p, "Parameterized") # {} =>
            \E i \in Ours(p, "Insurance") :
                /\ transfers[i].at[From[p]] # "Unseen"
                /\ transfers[i].amount = Stake[p]
                /\ transfers[i].token = Hypertoken[From[p]]

\* What a transfer took from the free balance of core c: it is locked in it, was
\* given away through it, or (negative) came in through it.
Taken(c, t) ==
    CASE InitiatorOf(t.kind, t.payment) = c /\ t.at[c] = "Active" -> t.amount
      [] InitiatorOf(t.kind, t.payment) = c /\ t.at[c] = "Resolved" -> t.award
      [] ResponderOf(t.kind, t.payment) = c /\ t.at[c] = "Resolved" -> 0 - t.award
      [] OTHER -> 0

\* Whatever becomes of its transfers (settled, given back by the router, canceled by
\* recovery, resolved for less than they carry, in a core that was reloaded), every
\* coin that a core deposited is accounted for.
FundsAddUp ==
    \A c \in Cores, a \in {"payment", "hypertoken"} :
        free[c][a] + SumFunction([i \in Ids |->
                         IF Pot(transfers[i].kind) = a THEN Taken(c, transfers[i]) ELSE 0])
            = Funds

\* Recovery removes extras, never the payment: when a responder cancels a transfer,
\* another one of its kind and payment is left that it has not canceled.
CancelLeavesOne ==
    [][\A i \in Ids :
          LET r == Responder(i)
          IN  transfers[i].at[r] = "Active" /\ transfers'[i].at[r] = "Canceled" =>
                \E j \in Ours(transfers[i].payment, transfers[i].kind) \ {i} :
                    transfers'[j].at[r] \in {"Active", "Resolved"}]_vars

-----------------------------------------------------------------------------
(* The protocol implements EscrowedPayment: what the receiver and the      *)
(* sender resolved are the receipts and the awards.                        *)

Reached(k) == {p \in Payments : Ours(p, k) # {}}

Takings(k) ==
    [p \in Payments |-> {[id |-> i, amount |-> transfers[i].award] : i \in Done(p, k)}]

Escrow == INSTANCE EscrowedPayment WITH
    offered <- Reached("Offer"),
    insured <- Reached("Insurance"),
    funded <- Reached("Parameterized"),
    closed <- {p \in Payments : Done(p, "Offer") # {}},
    receipts <- Takings("Parameterized"),
    awards <- Takings("Insurance")

\* A payment offered once goes through the promised steps in their order and
\* each of them once: duplicates, returns and recovery are stuttering steps.
ImplementsEscrow == Escrow!Spec

-----------------------------------------------------------------------------
(* Liveness, under FairSpec.                                               *)

\* A payment whose insurance reached the sender comes to its end: the receiver has
\* taken it, the gateway has released the insurance, and the offer is resolved.
\* The exception is a payment that was funded twice (see ApprovedIsTaken).
InsuredIsClosed ==
    \A p \in Payments :
        (\E i \in Ours(p, "Insurance") : transfers[i].at[From[p]] = "Active")
            ~> Done(p, "Offer") # {} \/ Many(Ours(p, "Parameterized"))

\* No collateral stays locked: an insurance transfer that was made does not remain
\* active in the receiver's channel for ever.  The exception is the same.
StakeComesBack ==
    \A p \in Payments :
        (\E i \in Ours(p, "Insurance") : transfers[i].at[To[p]] = "Active")
            ~> \/ \A i \in Ours(p, "Insurance") : transfers[i].at[To[p]] # "Active"
               \/ Many(Ours(p, "Parameterized"))

\* "Resolve the parameterized payment immediately for the full balance": the
\* receiver does not leave a payment that it sees Approved untaken for ever.
ApprovedIsTaken ==
    \A p \in Payments : (StateAt(To[p], p) = "Approved") ~> (StateAt(To[p], p) # "Approved")

\* "If there are no offer transfers at all, then recovery boils down to canceling
\* everything we can": insurance that the sender sees without an offer goes away.
OrphanStakeIsCanceled ==
    \A p \in Payments :
        LET orphan == \E t \in Snapshot(From[p], p) :
                         /\ t.kind = "Insurance" /\ t.status = "Active"
                         /\ OfKind(Snapshot(From[p], p), "Offer") = {}
        IN  orphan ~> ~orphan

\* InvalidInsuranceRecovery: the sender resolves insurance that does not match the
\* offer for 0, so that a payment does not stay in InvalidStake.
InvalidStakeIsResolved ==
    \A p \in Payments :
        (StateAt(From[p], p) = "InvalidStake") ~> (StateAt(From[p], p) # "InvalidStake")

\* "Make sure the required stake is positive, it can be 0": an offer that its
\* receiver accepts is insured, whatever its stake.
AcceptedIsInsured ==
    \A p \in Payments : accepts[p] > 0 ~> Ours(p, "Insurance") # {}

\* "If there are more than 1 offer transfer that is not canceled, that's an invalid
\* proposal": no money is taken on it.
TwoOffersAreNotPaid ==
    [][\A p \in Payments :
          Many({i \in Ours(p, "Offer") : transfers[i].at[To[p]] \in {"Active", "Resolved"}})
              => \A i \in Ours(p, "Parameterized") :
                    transfers[i].at[To[p]] = "Active" =>
                        transfers'[i].at[To[p]] # "Resolved"]_vars
=============================================================================
