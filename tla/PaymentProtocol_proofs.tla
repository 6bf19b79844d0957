----------------------- MODULE PaymentProtocol_proofs -----------------------
(***************************************************************************)
(* Proofs about PaymentProtocol, for any number of cores, payments, calls, *)
(* repairs, returns and reloads: types, the safety invariants, what        *)
(* recovery leaves, that every coin is accounted for, and that the         *)
(* protocol implements EscrowedPayment.                                    *)
(***************************************************************************)
EXTENDS PaymentProtocol, SequenceTheorems, SumLemmas

Assets == {"payment", "hypertoken"}

\* A responder never got more out of a transfer than was put in, which keeps the
\* refund of a settled transfer from being negative.
AwardsBounded == \A i \in Ids : transfers[i].award <= transfers[i].amount

\* The part of the invariant that the node's calls are about, and the rest.
ChannelInv ==
    /\ transfers \in Seq(TransferType)
    /\ AwardsBounded
    /\ free \in [Cores -> [Assets -> Nat]]
    /\ unread \in [Cores -> [Payments -> Nat]]

RestInv ==
    /\ staking \in [Payments -> Nat]
    /\ funding \in [Payments -> Nat]
    /\ tasks \subseteq TaskType
    /\ gateway \in [Cores -> {"pending", "inactive", "active"}]
    /\ reserved \in [Payments -> {"new", "reserved", "lost"}]
    /\ sends \in [Payments -> Nat]
    /\ accepts \in [Payments -> Nat]
    /\ used \in [repairs : Nat, returns : Nat, crashes : Nat]

TypeInv == ChannelInv /\ RestInv

LEMMA TypeInvImpliesTypeOK == TypeInv => TypeOK
BY DEF TypeInv, ChannelInv, RestInv, TypeOK, Assets

-----------------------------------------------------------------------------
(* Snapshots and the tasks that are made of them.                          *)

\* The ids of a snapshot are those of transfers.
LEMMA SnapshotIds ==
    ASSUME NEW c, NEW p, NEW t \in Snapshot(c, p)
    PROVE  t.id \in Ids
BY DEF Snapshot, Fetched

LEMMA SnapshotNat ==
    ASSUME TypeOK, NEW c, NEW p, NEW t \in Snapshot(c, p)
    PROVE  t.id \in Nat
<1>1. t.id \in Ids  BY SnapshotIds
<1>2. Ids \subseteq Nat  BY DEF TypeOK, Ids
<1>. QED  BY <1>1, <1>2

\* What a recovery cancels are transfers of its snapshot.
LEMMA ExtrasNat ==
    ASSUME NEW snap, NEW terms, \A t \in snap : t.id \in Nat
    PROVE  /\ ExtraOffers(snap) \subseteq Nat
           /\ ExtraPayments(snap, terms) \subseteq Nat
           /\ ExtraInsurance(snap, terms) \subseteq Nat
BY DEF ExtraOffers, ExtraPayments, ExtraInsurance, ActiveIds, BeyondFirst, OfKind

LEMMA CancellingType ==
    ASSUME NEW stage \in Stages, NEW c \in Cores, NEW p \in Payments,
           NEW todo \in SUBSET Nat, NEW next \in SUBSET Nat
    PROVE  Cancelling(stage, c, p, todo, next) \subseteq TaskType
BY DEF Cancelling, Task, TaskType

LEMMA RecoveryType ==
    ASSUME NEW stage \in Stages, NEW c \in Cores, NEW p \in Payments,
           NEW snap, \A t \in snap : t.id \in Nat
    PROVE  Recovery(stage, c, p, snap) \subseteq TaskType
<1>1. /\ ExtraOffers(snap) \in SUBSET Nat
      /\ ExtraPayments(snap, Terms(p)) \in SUBSET Nat
      /\ ExtraInsurance(snap, Terms(p)) \in SUBSET Nat
  BY ExtrasNat
<1>. QED  BY <1>1, CancellingType DEF Recovery

LEMMA AdvanceType ==
    ASSUME PaymentAssumption, NEW c \in Cores, NEW p \in Payments,
           NEW snap, \A t \in snap : t.id \in Nat,
           NEW new \in Advance(c, p, snap)
    PROVE  new \subseteq TaskType
<1>. DEFINE state == GetPaymentState(snap, Terms(p))
<1>1. CASE state = "Approved" /\ c = To[p]
  BY <1>1 DEF Advance, Task, TaskType, Stages
<1>2. CASE state = "InsuranceReleased" /\ c = To[p]
  BY <1>2 DEF Advance, Task, TaskType, Stages, OfKind
<1>3. CASE state = "Borked"
  BY <1>3, RecoveryType DEF Advance, Stages
<1>4. CASE ~(state = "Approved" /\ c = To[p]) /\ ~(state = "InsuranceReleased" /\ c = To[p])
           /\ state # "Borked"
  BY <1>4 DEF Advance
<1>. QED  BY <1>1, <1>2, <1>3, <1>4

-----------------------------------------------------------------------------
(* The two ways in which the node changes a channel.                       *)

LEMMA HeardType ==
    ASSUME TypeInv, NEW c \in Cores, NEW p \in Payments, NEW kind, NEW what
    PROVE  Heard(c, p, kind, what) \in [Cores -> [Payments -> Nat]]
BY DEF Heard, TypeInv, ChannelInv

LEMMA PriceType ==
    ASSUME PaymentAssumption, NEW kind \in Kinds, NEW p \in Payments
    PROVE  Price(kind, p) \in Nat
BY DEF PaymentAssumption, Price, Kinds

\* A creation that the node accepts leaves the invariant true.
LEMMA CreateType ==
    ASSUME PaymentAssumption, TypeInv, NEW kind \in Kinds, NEW p \in Payments,
           free[InitiatorOf(kind, p)][Pot(kind)] >= Price(kind, p),
           Create(kind, p)
    PROVE  /\ transfers' \in Seq(TransferType)
           /\ AwardsBounded'
           /\ free' \in [Cores -> [Assets -> Nat]]
           /\ unread' \in [Cores -> [Payments -> Nat]]
<1>. DEFINE c == InitiatorOf(kind, p)
            t == [kind |-> kind, payment |-> p, amount |-> Price(kind, p),
                  token |-> Token(kind, p), award |-> 0,
                  at |-> [d \in Cores |-> IF d = c THEN "Active" ELSE "Unseen"]]
<1>1. c \in Cores  BY DEF PaymentAssumption, InitiatorOf
<1>2. Price(kind, p) \in Nat  BY PriceType
<1>3. Token(kind, p) \in Tokens  BY DEF PaymentAssumption, Token
<1>4. t \in TransferType  BY <1>2, <1>3 DEF TransferType, Statuses
<1>5. transfers \in Seq(TransferType)  BY DEF TypeInv, ChannelInv, RestInv
<1>6. transfers' = Append(transfers, t)  BY DEF Create
<1>. HIDE DEF t
<1>7. /\ transfers' \in Seq(TransferType)
      /\ Len(transfers') = Len(transfers) + 1
      /\ \A i \in 1 .. Len(transfers) : transfers'[i] = transfers[i]
      /\ transfers'[Len(transfers) + 1] = t
  BY <1>4, <1>5, <1>6, AppendProperties
<1>8. AwardsBounded'
  <2>1. Len(transfers) \in Nat /\ Ids = 1 .. Len(transfers) /\ Ids' = 1 .. Len(transfers')
    BY <1>5, <1>7, LenProperties DEF Ids
  <2>2. t.award <= t.amount  BY <1>2 DEF t
  <2>3. \A i \in 1 .. Len(transfers) : transfers[i].award <= transfers[i].amount
    BY <2>1 DEF TypeInv, ChannelInv, AwardsBounded
  <2>4. ASSUME NEW i \in Ids' PROVE transfers'[i].award <= transfers'[i].amount
    <3>1. CASE i \in 1 .. Len(transfers)  BY <3>1, <1>7, <2>3
    <3>2. CASE i = Len(transfers) + 1  BY <3>2, <1>7, <2>2
    <3>3. i \in 1 .. Len(transfers) + 1  BY <2>1, <1>7
    <3>. QED  BY <3>1, <3>2, <3>3, <2>1
  <2>. QED  BY <2>4 DEF AwardsBounded
<1>9. free' \in [Cores -> [Assets -> Nat]]
  <2>1. free \in [Cores -> [Assets -> Nat]]  BY DEF TypeInv, ChannelInv
  <2>2. Pot(kind) \in Assets  BY DEF Pot, Assets
  <2>3. free[c][Pot(kind)] - Price(kind, p) \in Nat  BY <1>1, <1>2, <2>1, <2>2
  <2>4. free' = [free EXCEPT ![c][Pot(kind)] = free[c][Pot(kind)] - Price(kind, p)]
    BY DEF Create
  <2>. HIDE DEF c
  <2>. QED  BY <1>1, <2>1, <2>2, <2>3, <2>4
<1>10. unread' \in [Cores -> [Payments -> Nat]]
  BY <1>1, HeardType DEF Create, TypeInv
<1>. QED  BY <1>7, <1>8, <1>9, <1>10

\* So does a change of a transfer's status that moves a possible amount.
LEMMA UpdateType ==
    ASSUME PaymentAssumption, TypeInv, NEW c \in Cores, NEW i \in Ids,
           NEW status \in Statuses, NEW award \in Nat, NEW refund \in Nat, NEW what,
           award <= transfers[i].amount,
           Update(c, i, status, award, refund, what)
    PROVE  /\ transfers' \in Seq(TransferType)
           /\ AwardsBounded'
           /\ free' \in [Cores -> [Assets -> Nat]]
           /\ unread' \in [Cores -> [Payments -> Nat]]
<1>. DEFINE t == transfers[i]
            u == [t EXCEPT !.at[c] = status, !.award = award]
<1>1. transfers \in Seq(TransferType)  BY DEF TypeInv, ChannelInv, RestInv
<1>2. Len(transfers) \in Nat /\ Ids = 1 .. Len(transfers)
  BY <1>1, LenProperties DEF Ids
<1>3. t \in TransferType  BY <1>1, <1>2, ElementOfSeq
<1>4. u \in TransferType /\ u.award = award /\ u.amount = t.amount
  BY <1>3 DEF TransferType
<1>5. transfers' = [transfers EXCEPT ![i] = u]  BY DEF Update
<1>. HIDE DEF u
<1>6. /\ transfers' \in Seq(TransferType)
      /\ Len(transfers') = Len(transfers)
      /\ \A j \in 1 .. Len(transfers) : transfers'[j] = IF j = i THEN u ELSE transfers[j]
  BY <1>1, <1>2, <1>4, <1>5, ExceptSeq
<1>7. AwardsBounded'
  <2>1. Ids' = Ids  BY <1>2, <1>6, LenProperties DEF Ids
  <2>. QED  BY <1>2, <1>4, <1>6, <2>1 DEF TypeInv, ChannelInv, AwardsBounded
<1>8. free' \in [Cores -> [Assets -> Nat]]
  <2>1. free \in [Cores -> [Assets -> Nat]]  BY DEF TypeInv, ChannelInv
  <2>2. Pot(t.kind) \in Assets  BY DEF Pot, Assets
  <2>3. free[c][Pot(t.kind)] + refund \in Nat  BY <2>1, <2>2
  <2>4. free' = [free EXCEPT ![c][Pot(t.kind)] = free[c][Pot(t.kind)] + refund]
    BY DEF Update
  <2>. QED  BY <2>1, <2>2, <2>3, <2>4
<1>9. unread' \in [Cores -> [Payments -> Nat]]
  <2>1. t.payment \in Payments  BY <1>3 DEF TransferType
  <2>. QED  BY <2>1, HeardType DEF Update, TypeInv
<1>. QED  BY <1>6, <1>7, <1>8, <1>9

-----------------------------------------------------------------------------
(* Type correctness.                                                       *)

LEMMA ChannelKept ==
    ASSUME TypeInv, UNCHANGED <<channel, unread>>
    PROVE  ChannelInv'
BY DEF TypeInv, ChannelInv, AwardsBounded, Ids, channel

LEMMA ChannelKeptButUnread ==
    ASSUME TypeInv, UNCHANGED channel, unread' \in [Cores -> [Payments -> Nat]]
    PROVE  ChannelInv'
BY DEF TypeInv, ChannelInv, AwardsBounded, Ids, channel

LEMMA CreateKeepsChannel ==
    ASSUME PaymentAssumption, TypeInv, NEW kind \in Kinds, NEW p \in Payments,
           free[InitiatorOf(kind, p)][Pot(kind)] >= Price(kind, p),
           Create(kind, p)
    PROVE  ChannelInv'
BY CreateType DEF ChannelInv

LEMMA UpdateKeepsChannel ==
    ASSUME PaymentAssumption, TypeInv, NEW c \in Cores, NEW i \in Ids,
           NEW status \in Statuses, NEW award \in Nat, NEW refund \in Nat, NEW what,
           award <= transfers[i].amount,
           Update(c, i, status, award, refund, what)
    PROVE  ChannelInv'
BY UpdateType DEF ChannelInv

\* What is known of one transfer.
LEMMA TransferFacts ==
    ASSUME PaymentAssumption, TypeInv, NEW i \in Ids
    PROVE  /\ transfers[i] \in TransferType
           /\ transfers[i].amount \in Nat /\ transfers[i].award \in Nat
           /\ transfers[i].award <= transfers[i].amount
           /\ transfers[i].amount - transfers[i].award \in Nat
           /\ Initiator(i) \in Cores /\ Responder(i) \in Cores
<1>1. transfers \in Seq(TransferType) /\ AwardsBounded  BY DEF TypeInv, ChannelInv, RestInv
<1>2. i \in 1 .. Len(transfers)  BY <1>1, LenProperties DEF Ids
<1>3. transfers[i] \in TransferType  BY <1>1, <1>2, ElementOfSeq
<1>4. /\ transfers[i].amount \in Nat /\ transfers[i].award \in Nat
      /\ transfers[i].payment \in Payments
  BY <1>3 DEF TransferType
<1>5. transfers[i].award <= transfers[i].amount  BY <1>1 DEF AwardsBounded
<1>6. Initiator(i) \in Cores /\ Responder(i) \in Cores
  BY <1>4 DEF Initiator, Responder, InitiatorOf, ResponderOf, PaymentAssumption
<1>. QED  BY <1>3, <1>4, <1>5, <1>6

LEMMA InitType == ASSUME PaymentAssumption, BoundAssumption, Init PROVE TypeInv
<1>1. transfers \in Seq(TransferType) /\ Ids = {}
  <2>1. transfers = <<>>  BY DEF Init
  <2>2. transfers \in Seq(TransferType) /\ Len(transfers) = 0  BY <2>1, EmptySeq
  <2>3. DOMAIN transfers = 1 .. 0  BY <2>2, LenProperties
  <2>. QED  BY <2>2, <2>3 DEF Ids
<1>2. ChannelInv
  <2>1. AwardsBounded  BY <1>1 DEF AwardsBounded
  <2>2. free \in [Cores -> [Assets -> Nat]]  BY DEF Init, Assets, BoundAssumption
  <2>3. unread \in [Cores -> [Payments -> Nat]]  BY DEF Init
  <2>. QED  BY <1>1, <2>1, <2>2, <2>3 DEF ChannelInv
<1>3. RestInv  BY DEF Init, RestInv
<1>. QED  BY <1>2, <1>3 DEF TypeInv

\* Handlers.
LEMMA ReadType ==
    ASSUME PaymentAssumption, TypeInv, NEW c \in Cores, NEW p \in Payments, Read(c, p)
    PROVE  TypeInv'
<1>. DEFINE snap == Snapshot(c, p)
<1>1. \A t \in snap : t.id \in Nat  BY SnapshotNat, TypeInvImpliesTypeOK
<1>2. ChannelInv'
  <2>1. unread[c][p] > 0 /\ unread' = [unread EXCEPT ![c][p] = unread[c][p] - 1]
    BY DEF Read
  <2>2. unread \in [Cores -> [Payments -> Nat]]  BY DEF TypeInv, ChannelInv, RestInv
  <2>3. unread[c][p] - 1 \in Nat  BY <2>1, <2>2
  <2>4. unread' \in [Cores -> [Payments -> Nat]]  BY <2>1, <2>2, <2>3
  <2>. QED  BY <2>4, ChannelKeptButUnread DEF Read
<1>3. funding' \in [Payments -> Nat] /\ tasks' \subseteq TaskType
  <2>1. CASE funding' = [funding EXCEPT ![p] = @ + 1] /\ UNCHANGED tasks
    <3>1. funding \in [Payments -> Nat] /\ tasks \subseteq TaskType
      BY DEF TypeInv, RestInv
    <3>2. funding' \in [Payments -> Nat]  BY <2>1, <3>1
    <3>. QED  BY <2>1, <3>1, <3>2
  <2>2. CASE /\ \E new \in (IF snap = {} THEN {{}} ELSE Advance(c, p, snap)) :
                   tasks' = tasks \cup new
             /\ UNCHANGED funding
    <3>1. PICK new \in (IF snap = {} THEN {{}} ELSE Advance(c, p, snap)) :
             tasks' = tasks \cup new
      BY <2>2
    <3>. HIDE DEF snap
    <3>2. new \subseteq TaskType
      <4>1. CASE snap = {}  BY <4>1
      <4>2. CASE snap # {}  BY <4>2, <1>1, AdvanceType
      <4>. QED  BY <4>1, <4>2
    <3>. QED  BY <2>2, <3>1, <3>2 DEF TypeInv, ChannelInv, RestInv
  <2>. QED  BY <2>1, <2>2 DEF Read
<1>4. RestInv'  BY <1>3 DEF TypeInv, Read, RestInv, host, calls
<1>. QED  BY <1>2, <1>4 DEF TypeInv

LEMMA TaskFacts ==
    ASSUME TypeInv, NEW t \in tasks
    PROVE  t \in TaskType
BY DEF TypeInv, RestInv

LEMMA DelayType ==
    ASSUME PaymentAssumption, TypeInv, NEW t \in tasks, Delay(t)
    PROVE  TypeInv'
<1>1. ChannelInv'  BY ChannelKept DEF Delay
<1>2. RestInv'  BY DEF TypeInv, RestInv, Delay, host, calls
<1>. QED  BY <1>1, <1>2 DEF TypeInv

LEMMA DelayAssetType ==
    ASSUME PaymentAssumption, TypeInv, NEW p \in Payments, DelayAsset(p)
    PROVE  TypeInv'
<1>1. ChannelInv'  BY ChannelKept DEF DelayAsset
<1>2. funding' \in [Payments -> Nat]
  <2>1. funding \in [Payments -> Nat] /\ funding[p] > 0
    BY DEF TypeInv, RestInv, DelayAsset
  <2>. QED  BY <2>1 DEF DelayAsset
<1>3. RestInv'  BY <1>2 DEF TypeInv, RestInv, DelayAsset, host, calls
<1>. QED  BY <1>1, <1>3 DEF TypeInv

LEMMA ProvideAssetType ==
    ASSUME PaymentAssumption, TypeInv, NEW p \in Payments, ProvideAsset(p)
    PROVE  TypeInv'
<1>1. ChannelInv'
  <2>1. CASE Reread(From[p], p, "Parameterized") /\ Create("Parameterized", p)
    <3>1. free[InitiatorOf("Parameterized", p)][Pot("Parameterized")]
            >= Price("Parameterized", p)
      BY <2>1 DEF Reread, Creatable
    <3>. QED  BY <2>1, <3>1, CreateKeepsChannel DEF Kinds
  <2>2. CASE UNCHANGED <<channel, unread>>  BY <2>2, ChannelKept
  <2>. QED  BY <2>1, <2>2 DEF ProvideAsset
<1>2. funding' \in [Payments -> Nat]
  <2>1. funding \in [Payments -> Nat] /\ funding[p] > 0
    BY DEF TypeInv, RestInv, ProvideAsset
  <2>. QED  BY <2>1 DEF ProvideAsset
<1>3. RestInv'  BY <1>2 DEF TypeInv, RestInv, ProvideAsset, host, calls
<1>. QED  BY <1>1, <1>3 DEF TypeInv

LEMMA ProvideStakeType ==
    ASSUME PaymentAssumption, TypeInv, NEW p \in Payments, ProvideStake(p)
    PROVE  TypeInv'
<1>1. ChannelInv'
  <2>1. CASE Reread(To[p], p, "Insurance") /\ Create("Insurance", p)
    <3>1. free[InitiatorOf("Insurance", p)][Pot("Insurance")] >= Price("Insurance", p)
      BY <2>1 DEF Reread, Creatable
    <3>. QED  BY <2>1, <3>1, CreateKeepsChannel DEF Kinds
  <2>2. CASE UNCHANGED <<channel, unread>>  BY <2>2, ChannelKept
  <2>. QED  BY <2>1, <2>2 DEF ProvideStake
<1>2. staking' \in [Payments -> Nat]
  <2>1. staking \in [Payments -> Nat] /\ staking[p] > 0
    BY DEF TypeInv, RestInv, ProvideStake
  <2>. QED  BY <2>1 DEF ProvideStake
<1>3. RestInv'  BY <1>2 DEF TypeInv, RestInv, ProvideStake, host, calls
<1>. QED  BY <1>1, <1>3 DEF TypeInv

LEMMA AcceptPaymentType ==
    ASSUME PaymentAssumption, TypeInv, NEW t \in tasks, AcceptPayment(t)
    PROVE  TypeInv'
<1>. DEFINE c == t.core
            p == t.payment
<1>1. ChannelInv'  BY ChannelKept DEF AcceptPayment
<1>2. t \in TaskType /\ tasks \subseteq TaskType  BY DEF TypeInv, RestInv
<1>3. c \in Cores /\ p \in Payments /\ Amount[p] \in Nat
  BY <1>2 DEF TaskType, PaymentAssumption
<1>4. tasks' \subseteq TaskType
  <2>1. CASE \E s \in OfKind(Snapshot(c, p), "Parameterized") :
               tasks' = (tasks \ {t}) \cup {Task("take", c, p, Amount[p], {s.id}, {})}
    <3>1. PICK s \in Snapshot(c, p) :
            tasks' = (tasks \ {t}) \cup {Task("take", c, p, Amount[p], {s.id}, {})}
      BY <2>1 DEF OfKind
    <3>2. s.id \in Nat  BY SnapshotNat, TypeInvImpliesTypeOK
    <3>3. Task("take", c, p, Amount[p], {s.id}, {}) \in TaskType
      BY <1>3, <3>2 DEF Task, TaskType, Stages
    <3>. QED  BY <1>2, <3>1, <3>3
  <2>2. CASE tasks' = tasks \ {t}  BY <1>2, <2>2
  <2>. QED  BY <2>1, <2>2 DEF AcceptPayment
<1>5. RestInv'  BY <1>4 DEF TypeInv, RestInv, AcceptPayment, host, calls
<1>. QED  BY <1>1, <1>5 DEF TypeInv

LEMMA ResolveTransferType ==
    ASSUME PaymentAssumption, TypeInv, NEW t \in tasks, ResolveTransfer(t)
    PROVE  TypeInv'
<1>1. t \in TaskType /\ tasks \subseteq TaskType  BY DEF TypeInv, RestInv
<1>2. ChannelInv'
  <2>1. PICK i \in t.todo :
          IF Resolvable(t.core, i) /\ CanResolve(transfers[i].amount, t.award)
          THEN Resolve(t.core, i, "Resolved", t.award)
          ELSE UNCHANGED <<channel, unread>>
    BY DEF ResolveTransfer
  <2>2. CASE /\ Resolvable(t.core, i) /\ CanResolve(transfers[i].amount, t.award)
             /\ Resolve(t.core, i, "Resolved", t.award)
    <3>1. i \in Ids  BY <2>2 DEF Resolvable
    <3>2. t.award \in Nat /\ t.core \in Cores  BY <1>1 DEF TaskType
    <3>3. transfers[i].amount \in Nat  BY <3>1, TransferFacts
    <3>4. t.award <= transfers[i].amount  BY <2>2, <3>2, <3>3 DEF CanResolve
    <3>5. Update(t.core, i, "Resolved", t.award, t.award, "resolved")
      BY <2>2 DEF Resolve
    <3>. QED  BY <3>1, <3>2, <3>4, <3>5, UpdateKeepsChannel DEF Statuses
  <2>3. CASE UNCHANGED <<channel, unread>>  BY <2>3, ChannelKept
  <2>. QED  BY <2>1, <2>2, <2>3
<1>3. RestInv'  BY <1>1 DEF TypeInv, RestInv, ResolveTransfer, host, calls
<1>. QED  BY <1>2, <1>3 DEF TypeInv

LEMMA CancelType ==
    ASSUME PaymentAssumption, TypeInv, NEW t \in tasks, Cancel(t)
    PROVE  TypeInv'
<1>. DEFINE after(i, next) ==
       (tasks \ {t}) \cup Cancelling(t.stage, t.core, t.payment, t.todo \ {i}, next)
<1>1. t \in TaskType /\ tasks \subseteq TaskType  BY DEF TypeInv, RestInv
<1>2. /\ t.core \in Cores /\ t.payment \in Payments /\ t.stage \in Stages
      /\ t.todo \in SUBSET Nat /\ t.next \in SUBSET Nat
  BY <1>1 DEF TaskType
<1>3. PICK i \in t.todo :
        IF Resolvable(t.core, i)
        THEN tasks' = after(i, t.next) /\ Resolve(t.core, i, "Canceled", 0)
        ELSE tasks' = after(i, {}) /\ UNCHANGED <<channel, unread>>
  BY DEF Cancel
<1>4. ASSUME NEW next \in SUBSET Nat PROVE after(i, next) \subseteq TaskType
  <2>1. t.todo \ {i} \in SUBSET Nat  BY <1>2
  <2>. QED  BY <1>1, <1>2, <2>1, CancellingType
<1>5. tasks' \subseteq TaskType
  <2>1. {} \in SUBSET Nat  OBVIOUS
  <2>. HIDE DEF after
  <2>. QED  BY <1>2, <1>3, <1>4, <2>1
<1>6. ChannelInv'
  <2>1. CASE Resolvable(t.core, i) /\ Resolve(t.core, i, "Canceled", 0)
    <3>1. i \in Ids  BY <2>1 DEF Resolvable
    <3>2. 0 <= transfers[i].amount  BY <3>1, TransferFacts
    <3>3. Update(t.core, i, "Canceled", 0, 0, "resolved")  BY <2>1 DEF Resolve
    <3>. QED  BY <1>2, <3>1, <3>2, <3>3, UpdateKeepsChannel DEF Statuses
  <2>2. CASE UNCHANGED <<channel, unread>>  BY <2>2, ChannelKept
  <2>. QED  BY <1>3, <2>1, <2>2
<1>7. RestInv'  BY <1>5 DEF TypeInv, RestInv, Cancel, host, calls
<1>. QED  BY <1>6, <1>7 DEF TypeInv

\* Calls.
LEMMA InitiateSendFundsType ==
    ASSUME PaymentAssumption, TypeInv, NEW p \in Payments, InitiateSendFunds(p)
    PROVE  TypeInv'
<1>1. ChannelInv'  BY ChannelKept DEF InitiateSendFunds, handlers
<1>2. RestInv'  BY DEF TypeInv, RestInv, InitiateSendFunds, handlers, calls
<1>. QED  BY <1>1, <1>2 DEF TypeInv

LEMMA SendFundsType ==
    ASSUME PaymentAssumption, TypeInv, NEW p \in Payments, SendFunds(p)
    PROVE  TypeInv'
<1>1. ChannelInv'
  <2>1. From[p] \in Cores  BY DEF PaymentAssumption
  <2>2. Price("Offer", p) = 0  BY DEF Price
  <2>3. free[InitiatorOf("Offer", p)][Pot("Offer")] >= Price("Offer", p)
    BY <2>1, <2>2 DEF InitiatorOf, Pot, TypeInv, ChannelInv, Assets
  <2>. QED  BY <2>3, CreateKeepsChannel DEF SendFunds, Kinds
<1>2. RestInv'  BY DEF TypeInv, RestInv, SendFunds, host
<1>. QED  BY <1>1, <1>2 DEF TypeInv

LEMMA AcceptOfferType ==
    ASSUME PaymentAssumption, TypeInv, NEW p \in Payments, AcceptOffer(p)
    PROVE  TypeInv'
<1>1. ChannelInv'  BY ChannelKept DEF AcceptOffer
<1>2. RestInv'  BY DEF TypeInv, RestInv, AcceptOffer, host
<1>. QED  BY <1>1, <1>2 DEF TypeInv

LEMMA ResolveInsuranceType ==
    ASSUME PaymentAssumption, TypeInv, NEW p \in Payments, ResolveInsurance(p)
    PROVE  TypeInv'
<1>. DEFINE c == From[p]
            snap == Snapshot(c, p)
<1>1. ChannelInv'  BY ChannelKept DEF ResolveInsurance
<1>2. PICK s \in Live(snap, "Insurance"), award \in {0, Stake[p]} :
        tasks' = tasks \cup {Task("release", c, p, award, {s.id}, {})}
  BY DEF ResolveInsurance
<1>3. s.id \in Nat
  <2>1. s \in Snapshot(c, p)  BY DEF Live, OfKind
  <2>. QED  BY <2>1, SnapshotNat, TypeInvImpliesTypeOK
<1>4. c \in Cores /\ award \in Nat  BY DEF PaymentAssumption
<1>5. tasks' \subseteq TaskType
  <2>1. Task("release", c, p, award, {s.id}, {}) \in TaskType
    BY <1>3, <1>4 DEF Task, TaskType, Stages
  <2>. QED  BY <1>2, <2>1 DEF TypeInv, RestInv
<1>6. RestInv'  BY <1>5 DEF TypeInv, RestInv, ResolveInsurance, host, calls
<1>. QED  BY <1>1, <1>6 DEF TypeInv

LEMMA RepairPaymentsType ==
    ASSUME PaymentAssumption, TypeInv, NEW c \in Cores, NEW p \in Payments,
           RepairPayments(c, p)
    PROVE  TypeInv'
<1>1. ChannelInv'  BY ChannelKept DEF RepairPayments
<1>2. tasks' \subseteq TaskType
  <2>1. \A t \in Snapshot(c, p) : t.id \in Nat  BY SnapshotNat, TypeInvImpliesTypeOK
  <2>2. Recovery("repair", c, p, Snapshot(c, p)) \subseteq TaskType
    BY <2>1, RecoveryType DEF Stages
  <2>. QED  BY <2>2 DEF RepairPayments, TypeInv, RestInv
<1>3. RestInv'  BY <1>2 DEF TypeInv, RestInv, RepairPayments, host
<1>. QED  BY <1>1, <1>3 DEF TypeInv

\* The router.
LEMMA ForwardType ==
    ASSUME PaymentAssumption, TypeInv, NEW i \in Ids, Forward(i)
    PROVE  TypeInv'
<1>1. ChannelInv'
  <2>1. Responder(i) \in Cores /\ 0 <= transfers[i].amount  BY TransferFacts
  <2>2. Update(Responder(i), i, "Active", 0, 0, "created")  BY DEF Forward
  <2>. QED  BY <2>1, <2>2, UpdateKeepsChannel DEF Statuses
<1>2. RestInv'  BY DEF TypeInv, RestInv, Forward, host, calls
<1>. QED  BY <1>1, <1>2 DEF TypeInv

LEMMA ReturnType ==
    ASSUME PaymentAssumption, TypeInv, NEW i \in Ids, Return(i)
    PROVE  TypeInv'
<1>1. ChannelInv'
  <2>1. Initiator(i) \in Cores /\ transfers[i].amount \in Nat /\ 0 <= transfers[i].amount
    BY TransferFacts
  <2>2. Update(Initiator(i), i, "Canceled", 0, transfers[i].amount, "resolved")
    BY DEF Return
  <2>. QED  BY <2>1, <2>2, UpdateKeepsChannel DEF Statuses
<1>2. RestInv'  BY DEF TypeInv, RestInv, Return, host
<1>. QED  BY <1>1, <1>2 DEF TypeInv

LEMMA SettleType ==
    ASSUME PaymentAssumption, TypeInv, NEW i \in Ids, Settle(i)
    PROVE  TypeInv'
<1>1. ChannelInv'
  <2>1. /\ Initiator(i) \in Cores
        /\ transfers[i].award \in Nat /\ transfers[i].award <= transfers[i].amount
        /\ transfers[i].amount - transfers[i].award \in Nat
    BY TransferFacts
  <2>2. transfers[i].at[Responder(i)] \in Statuses  BY DEF Settle, Statuses
  <2>3. Update(Initiator(i), i, transfers[i].at[Responder(i)], transfers[i].award,
               transfers[i].amount - transfers[i].award, "resolved")
    BY DEF Settle
  <2>. QED  BY <2>1, <2>2, <2>3, UpdateKeepsChannel
<1>2. RestInv'  BY DEF TypeInv, RestInv, Settle, host, calls
<1>. QED  BY <1>1, <1>2 DEF TypeInv

\* The host of a core.
LEMMA ProxyCreatedType ==
    ASSUME PaymentAssumption, TypeInv, NEW c \in Cores, ProxyCreated(c)
    PROVE  TypeInv'
<1>1. ChannelInv'  BY ChannelKept DEF ProxyCreated, handlers
<1>2. RestInv'  BY DEF TypeInv, RestInv, ProxyCreated, handlers, calls
<1>. QED  BY <1>1, <1>2 DEF TypeInv

LEMMA ConnectorActivatedType ==
    ASSUME PaymentAssumption, TypeInv, NEW c \in Cores, ConnectorActivated(c)
    PROVE  TypeInv'
<1>1. ChannelInv'
  <2>1. unread \in [Cores -> [Payments -> Nat]]  BY DEF TypeInv, ChannelInv
  <2>2. unread' \in [Cores -> [Payments -> Nat]]  BY <2>1 DEF ConnectorActivated
  <2>. QED  BY <2>2, ChannelKeptButUnread DEF ConnectorActivated
<1>2. RestInv'  BY DEF TypeInv, RestInv, ConnectorActivated, calls
<1>. QED  BY <1>1, <1>2 DEF TypeInv

LEMMA CrashType ==
    ASSUME PaymentAssumption, TypeInv, NEW c \in Cores, Crash(c)
    PROVE  TypeInv'
<1>1. ChannelInv'
  <2>1. unread \in [Cores -> [Payments -> Nat]]  BY DEF TypeInv, ChannelInv
  <2>2. unread' \in [Cores -> [Payments -> Nat]]  BY <2>1 DEF Crash
  <2>. QED  BY <2>2, ChannelKeptButUnread DEF Crash
<1>2. RestInv'  BY DEF TypeInv, RestInv, Crash
<1>. QED  BY <1>1, <1>2 DEF TypeInv

LEMMA TypeStep ==
    ASSUME PaymentAssumption, TypeInv, [Next]_vars
    PROVE  TypeInv'
<1>1. ASSUME NEW t \in tasks, TaskStep(t) PROVE TypeInv'
  BY <1>1, DelayType, AcceptPaymentType, ResolveTransferType, CancelType DEF TaskStep
<1>2. ASSUME NEW p \in Payments, HandlerStep(p) PROVE TypeInv'
  BY <1>2, ReadType, DelayAssetType, ProvideAssetType, ProvideStakeType DEF HandlerStep
<1>3. ASSUME NEW p \in Payments, CallStep(p) PROVE TypeInv'
  BY <1>3, InitiateSendFundsType, SendFundsType, AcceptOfferType, ResolveInsuranceType,
     RepairPaymentsType DEF CallStep
<1>4. ASSUME NEW i \in Ids, RouterStep(i) PROVE TypeInv'
  BY <1>4, ForwardType, ReturnType, SettleType DEF RouterStep
<1>5. ASSUME NEW c \in Cores, HostStep(c) PROVE TypeInv'
  BY <1>5, ProxyCreatedType, ConnectorActivatedType, CrashType DEF HostStep
<1>6. ASSUME UNCHANGED vars PROVE TypeInv'
  <2>1. ChannelInv'  BY <1>6, ChannelKept DEF vars, handlers
  <2>2. RestInv'  BY <1>6 DEF TypeInv, RestInv, vars, handlers, host, calls
  <2>. QED  BY <2>1, <2>2 DEF TypeInv
<1>. QED  BY <1>1, <1>2, <1>3, <1>4, <1>5, <1>6 DEF Next

\* Every variable keeps its type, whatever the cores, the payments and the bounds:
\* in particular no call of a handler overdraws a balance, because the node's check
\* is made when the transfer is created and not when acceptOffer looked at it.
THEOREM TypeCorrect == Spec => []TypeOK
<1>1. Init => TypeInv  BY PaymentAssumption, BoundAssumption, InitType
<1>2. TypeInv /\ [Next]_vars => TypeInv'  BY PaymentAssumption, TypeStep
<1>3. TypeInv => TypeOK  BY TypeInvImpliesTypeOK
<1>. QED  BY <1>1, <1>2, <1>3, PTL DEF Spec

-----------------------------------------------------------------------------
(***************************************************************************)
(* The safety invariants.                                                  *)
(*                                                                         *)
(* A step is known by what it does to the channel (StepEffect), to the     *)
(* tasks (TaskOrigin) and to the handlers that fund a payment (NewFunding);*)
(* the invariants are proved from these three and not from the actions.    *)
(***************************************************************************)

\* The effects that a step can have on the channel.
Created(kind, p) ==
    LET n == Len(transfers) + 1
        t == transfers'[n]
    IN  /\ Ids' = Ids \cup {n}
        /\ \A i \in Ids : i < n /\ transfers'[i] = transfers[i]
        /\ t.kind = kind /\ t.payment = p
        /\ t.amount = Price(kind, p) /\ t.token = Token(kind, p) /\ t.award = 0
        /\ \A c \in Cores :
              t.at[c] = IF c = InitiatorOf(kind, p) THEN "Active" ELSE "Unseen"

Changed(c, i, status, award) ==
    LET t == transfers[i]
        u == transfers'[i]
    IN  /\ Ids' = Ids
        /\ \A j \in Ids : j # i => transfers'[j] = transfers[j]
        /\ u.kind = t.kind /\ u.payment = t.payment
        /\ u.amount = t.amount /\ u.token = t.token /\ u.award = award
        /\ \A d \in Cores : u.at[d] = IF d = c THEN status ELSE t.at[d]

LEMMA IdsFacts ==
    ASSUME TypeInv
    PROVE  Len(transfers) \in Nat /\ Ids = 1 .. Len(transfers)
<1>1. transfers \in Seq(TransferType)  BY DEF TypeInv, ChannelInv
<1>. QED  BY <1>1, LenProperties DEF Ids

LEMMA CreateEffect ==
    ASSUME PaymentAssumption, TypeInv, NEW kind \in Kinds, NEW p \in Payments,
           Create(kind, p)
    PROVE  Created(kind, p)
<1>. DEFINE c == InitiatorOf(kind, p)
            t == [kind |-> kind, payment |-> p, amount |-> Price(kind, p),
                  token |-> Token(kind, p), award |-> 0,
                  at |-> [d \in Cores |-> IF d = c THEN "Active" ELSE "Unseen"]]
            n == Len(transfers) + 1
<1>1. Price(kind, p) \in Nat  BY PriceType
<1>2. Token(kind, p) \in Tokens  BY DEF PaymentAssumption, Token
<1>3. t \in TransferType  BY <1>1, <1>2 DEF TransferType, Statuses
<1>4. transfers \in Seq(TransferType)  BY DEF TypeInv, ChannelInv
<1>5. transfers' = Append(transfers, t)  BY DEF Create
<1>. HIDE DEF t
<1>6. /\ transfers' \in Seq(TransferType)
      /\ Len(transfers') = Len(transfers) + 1
      /\ \A i \in 1 .. Len(transfers) : transfers'[i] = transfers[i]
      /\ transfers'[Len(transfers) + 1] = t
  BY <1>3, <1>4, <1>5, AppendProperties
<1>7. Len(transfers) \in Nat /\ Ids = 1 .. Len(transfers)  BY IdsFacts
<1>8. Ids' = 1 .. Len(transfers')  BY <1>6, LenProperties DEF Ids
<1>9. Ids' = Ids \cup {n} /\ \A i \in Ids : i < n /\ transfers'[i] = transfers[i]
  BY <1>6, <1>7, <1>8
<1>10. /\ t.kind = kind /\ t.payment = p
       /\ t.amount = Price(kind, p) /\ t.token = Token(kind, p) /\ t.award = 0
       /\ \A d \in Cores : t.at[d] = IF d = c THEN "Active" ELSE "Unseen"
  BY DEF t
<1>. QED  BY <1>6, <1>9, <1>10 DEF Created

LEMMA UpdateEffect ==
    ASSUME PaymentAssumption, TypeInv, NEW c \in Cores, NEW i \in Ids, NEW status,
           NEW award, NEW refund, NEW what,
           Update(c, i, status, award, refund, what)
    PROVE  Changed(c, i, status, award)
<1>. DEFINE t == transfers[i]
            u == [t EXCEPT !.at[c] = status, !.award = award]
<1>1. transfers \in Seq(TransferType)  BY DEF TypeInv, ChannelInv
<1>2. Len(transfers) \in Nat /\ Ids = 1 .. Len(transfers)  BY IdsFacts
<1>3. t \in TransferType  BY <1>1, <1>2, ElementOfSeq
<1>4. /\ u.kind = t.kind /\ u.payment = t.payment
      /\ u.amount = t.amount /\ u.token = t.token /\ u.award = award
      /\ \A d \in Cores : u.at[d] = IF d = c THEN status ELSE t.at[d]
  BY <1>3 DEF TransferType
<1>5. transfers' = [transfers EXCEPT ![i] = u]  BY DEF Update
<1>. HIDE DEF u
<1>6. Ids' = Ids /\ \A j \in Ids : transfers'[j] = IF j = i THEN u ELSE transfers[j]
  BY <1>5 DEF Ids
<1>. QED  BY <1>4, <1>6 DEF Changed

-----------------------------------------------------------------------------
(* The effects of a step.                                                  *)

Resolving == {"take", "finalize", "release"}

Quiet == UNCHANGED transfers

Offered(p) ==
    /\ Created("Offer", p)
    /\ sends[p] < MaxSends
    /\ sends' = [sends EXCEPT ![p] = @ + 1]

Provided(kind, p) ==
    /\ Created(kind, p)
    /\ Ours(p, "Offer") # {}
    /\ kind = "Parameterized" => funding[p] > 0

Forwarded(i) ==
    /\ transfers[i].at[Responder(i)] = "Unseen"
    /\ transfers[i].at[Initiator(i)] = "Active"
    /\ Changed(Responder(i), i, "Active", 0)

\* Settled as the responder resolved it, or given back by the router.
Ended(i) ==
    /\ transfers[i].at[Initiator(i)] = "Active"
    /\ \/ /\ transfers[i].at[Responder(i)] \in {"Resolved", "Canceled"}
          /\ Changed(Initiator(i), i, transfers[i].at[Responder(i)], transfers[i].award)
       \/ /\ transfers[i].at[Responder(i)] = "Unseen"
          /\ Changed(Initiator(i), i, "Canceled", 0)

ResolvedBy(t, i) ==
    /\ t.stage \in Resolving /\ i \in t.todo
    /\ Resolvable(t.core, i) /\ Changed(t.core, i, "Resolved", t.award)

Recovering(t) == t.stage \in {"recover", "repair"}

CanceledBy(t, i) ==
    /\ Recovering(t) /\ i \in t.todo
    /\ Resolvable(t.core, i) /\ Changed(t.core, i, "Canceled", 0)

ChannelEffect ==
    \/ Quiet
    \/ \E p \in Payments, kind \in {"Insurance", "Parameterized"} : Provided(kind, p)
    \/ \E i \in Ids : Forwarded(i) \/ Ended(i)
    \/ \E t \in tasks, i \in Ids : ResolvedBy(t, i) \/ CanceledBy(t, i)

\* An offer that a core sees is one of the transfers.
LEMMA SeenOffer ==
    ASSUME NEW c, NEW p, OfKind(Snapshot(c, p), "Offer") # {}
    PROVE  Ours(p, "Offer") # {}
BY DEF OfKind, Snapshot, Fetched, Ours

LEMMA TaskEffect ==
    ASSUME PaymentAssumption, TypeInv, NEW t \in tasks, TaskStep(t)
    PROVE  ChannelEffect /\ sends' = sends
<1>. DEFINE c == t.core
<1>1. c \in Cores /\ t.payment \in Payments  BY TaskFacts DEF TaskType
<1>2. CASE Delay(t)  BY <1>2 DEF Delay, channel, calls, ChannelEffect, Quiet
<1>3. CASE AcceptPayment(t)
  BY <1>3 DEF AcceptPayment, channel, calls, ChannelEffect, Quiet
<1>4. CASE ResolveTransfer(t)
  <2>1. PICK i \in t.todo :
           IF Resolvable(c, i) /\ CanResolve(transfers[i].amount, t.award)
           THEN Resolve(c, i, "Resolved", t.award)
           ELSE UNCHANGED <<channel, unread>>
    BY <1>4 DEF ResolveTransfer
  <2>2. CASE Resolvable(c, i) /\ Resolve(c, i, "Resolved", t.award)
    <3>1. i \in Ids  BY <2>2 DEF Resolvable
    <3>2. Changed(c, i, "Resolved", t.award)  BY <1>1, <2>2, <3>1, UpdateEffect DEF Resolve
    <3>3. t.stage \in Resolving  BY <1>4 DEF ResolveTransfer, Resolving
    <3>4. ResolvedBy(t, i)  BY <2>2, <3>2, <3>3 DEF ResolvedBy
    <3>. QED  BY <1>4, <3>1, <3>4 DEF ChannelEffect, ResolveTransfer, calls
  <2>3. CASE UNCHANGED <<channel, unread>>
    BY <1>4, <2>3 DEF ChannelEffect, Quiet, channel, ResolveTransfer, calls
  <2>. QED  BY <2>1, <2>2, <2>3
<1>5. CASE Cancel(t)
  <2>1. PICK i \in t.todo :
           \/ Resolvable(c, i) /\ Resolve(c, i, "Canceled", 0)
           \/ UNCHANGED <<channel, unread>>
    BY <1>5 DEF Cancel
  <2>2. CASE Resolvable(c, i) /\ Resolve(c, i, "Canceled", 0)
    <3>1. i \in Ids  BY <2>2 DEF Resolvable
    <3>2. Changed(c, i, "Canceled", 0)  BY <1>1, <2>2, <3>1, UpdateEffect DEF Resolve
    <3>3. Recovering(t)  BY <1>5 DEF Cancel, Recovering
    <3>4. CanceledBy(t, i)  BY <2>2, <3>2, <3>3 DEF CanceledBy
    <3>. QED  BY <1>5, <3>1, <3>4 DEF ChannelEffect, Cancel, calls
  <2>3. CASE UNCHANGED <<channel, unread>>
    BY <1>5, <2>3 DEF ChannelEffect, Quiet, channel, Cancel, calls
  <2>. QED  BY <2>1, <2>2, <2>3
<1>. QED  BY <1>2, <1>3, <1>4, <1>5 DEF TaskStep

LEMMA HandlerEffect ==
    ASSUME PaymentAssumption, TypeInv, NEW p \in Payments, HandlerStep(p)
    PROVE  ChannelEffect /\ sends' = sends
<1>1. ASSUME NEW c \in Cores, Read(c, p) PROVE ChannelEffect /\ sends' = sends
  BY <1>1 DEF Read, channel, calls, ChannelEffect, Quiet
<1>2. CASE DelayAsset(p)  BY <1>2 DEF DelayAsset, channel, calls, ChannelEffect, Quiet
<1>3. CASE ProvideAsset(p)
  <2>1. CASE Reread(From[p], p, "Parameterized") /\ Create("Parameterized", p)
    <3>1. Created("Parameterized", p)  BY <2>1, CreateEffect DEF Kinds
    <3>2. Ours(p, "Offer") # {}  BY <2>1, SeenOffer DEF Reread
    <3>3. Provided("Parameterized", p)  BY <1>3, <3>1, <3>2 DEF Provided, ProvideAsset
    <3>. QED  BY <1>3, <3>3 DEF ChannelEffect, ProvideAsset, calls
  <2>2. CASE UNCHANGED <<channel, unread>>
    BY <1>3, <2>2 DEF ProvideAsset, channel, calls, ChannelEffect, Quiet
  <2>. QED  BY <1>3, <2>1, <2>2 DEF ProvideAsset
<1>4. CASE ProvideStake(p)
  <2>1. CASE Reread(To[p], p, "Insurance") /\ Create("Insurance", p)
    <3>1. Created("Insurance", p)  BY <2>1, CreateEffect DEF Kinds
    <3>2. Ours(p, "Offer") # {}  BY <2>1, SeenOffer DEF Reread
    <3>3. Provided("Insurance", p)  BY <3>1, <3>2 DEF Provided
    <3>. QED  BY <1>4, <3>3 DEF ChannelEffect, ProvideStake, calls
  <2>2. CASE UNCHANGED <<channel, unread>>
    BY <1>4, <2>2 DEF ProvideStake, channel, calls, ChannelEffect, Quiet
  <2>. QED  BY <1>4, <2>1, <2>2 DEF ProvideStake
<1>. QED  BY <1>1, <1>2, <1>3, <1>4 DEF HandlerStep

LEMMA CallEffect ==
    ASSUME PaymentAssumption, TypeInv, NEW p \in Payments, CallStep(p)
    PROVE  \/ ChannelEffect /\ sends' = sends
           \/ Offered(p)
<1>1. CASE InitiateSendFunds(p)
  BY <1>1 DEF InitiateSendFunds, channel, calls, ChannelEffect, Quiet
<1>2. CASE SendFunds(p)
  <2>1. Created("Offer", p)  BY <1>2, CreateEffect DEF SendFunds, Kinds
  <2>. QED  BY <1>2, <2>1 DEF SendFunds, Offered
<1>3. CASE AcceptOffer(p)
  BY <1>3 DEF AcceptOffer, channel, ChannelEffect, Quiet
<1>4. CASE ResolveInsurance(p)
  BY <1>4 DEF ResolveInsurance, channel, calls, ChannelEffect, Quiet
<1>5. ASSUME NEW c \in Cores, RepairPayments(c, p) PROVE ChannelEffect /\ sends' = sends
  BY <1>5 DEF RepairPayments, channel, ChannelEffect, Quiet
<1>. QED  BY <1>1, <1>2, <1>3, <1>4, <1>5 DEF CallStep

LEMMA RouterEffect ==
    ASSUME PaymentAssumption, TypeInv, NEW i \in Ids, RouterStep(i)
    PROVE  ChannelEffect /\ sends' = sends
<1>1. Initiator(i) \in Cores /\ Responder(i) \in Cores  BY TransferFacts
<1>2. CASE Forward(i)
  <2>1. Changed(Responder(i), i, "Active", 0)  BY <1>1, <1>2, UpdateEffect DEF Forward
  <2>. QED  BY <1>2, <2>1 DEF Forward, Forwarded, ChannelEffect, calls
<1>3. CASE Return(i)
  <2>1. Changed(Initiator(i), i, "Canceled", 0)  BY <1>1, <1>3, UpdateEffect DEF Return
  <2>. QED  BY <1>3, <2>1 DEF Return, Ended, ChannelEffect
<1>4. CASE Settle(i)
  <2>1. Changed(Initiator(i), i, transfers[i].at[Responder(i)], transfers[i].award)
    BY <1>1, <1>4, UpdateEffect DEF Settle
  <2>. QED  BY <1>4, <2>1 DEF Settle, Ended, ChannelEffect, calls
<1>. QED  BY <1>2, <1>3, <1>4 DEF RouterStep

\* What a step does to the channel.
LEMMA StepEffect ==
    ASSUME PaymentAssumption, TypeInv, [Next]_vars
    PROVE  \/ ChannelEffect /\ sends' = sends
           \/ \E p \in Payments : Offered(p)
<1>1. ASSUME NEW c \in Cores, HostStep(c) PROVE ChannelEffect /\ sends' = sends
  BY <1>1 DEF HostStep, ProxyCreated, ConnectorActivated, Crash, channel, calls,
     ChannelEffect, Quiet
<1>2. CASE UNCHANGED vars  BY <1>2 DEF vars, channel, calls, ChannelEffect, Quiet
<1>. QED  BY <1>1, <1>2, TaskEffect, HandlerEffect, CallEffect, RouterEffect DEF Next

-----------------------------------------------------------------------------
(* The tasks and the funding handlers of a step.                           *)

\* What a new task was made from.
Approving(t) == t.stage = "approve" /\ t.core = To[t.payment] /\ t.todo = {}

\* A transfer of kind k in the snapshot of t's core is what t has to resolve.
Chosen(t, k) ==
    /\ Quiet
    /\ \E s \in OfKind(Snapshot(t.core, t.payment), k) : t.todo = {s.id}

Taking(t) ==
    /\ t.stage = "take" /\ t.award = Amount[t.payment]
    /\ \E u \in tasks : u.stage = "approve" /\ u.core = t.core /\ u.payment = t.payment
    /\ StateAt(t.core, t.payment) = "Approved"
    /\ Chosen(t, "Parameterized")

Finalizing(t) ==
    /\ t.stage = "finalize" /\ t.core = To[t.payment]
    /\ StateAt(t.core, t.payment) = "InsuranceReleased"
    /\ Chosen(t, "Offer")

Releasing(t) ==
    /\ t.stage = "release" /\ t.core = From[t.payment]
    /\ t.award \in {0, Stake[t.payment]}
    /\ StateAt(t.core, t.payment) = "Accepted"
    /\ Chosen(t, "Insurance")

Origin(t) ==
    Recovering(t) \/ Approving(t) \/ Taking(t) \/ Finalizing(t) \/ Releasing(t)

LEMMA CancellingStage ==
    ASSUME NEW stage, NEW c, NEW p, NEW todo, NEW next,
           NEW t \in Cancelling(stage, c, p, todo, next)
    PROVE  t.stage = stage
BY DEF Cancelling, Task

LEMMA RecoveryStage ==
    ASSUME NEW stage, NEW c, NEW p, NEW snap, NEW t \in Recovery(stage, c, p, snap)
    PROVE  t.stage = stage
BY CancellingStage DEF Recovery

\* The tasks of a payment that was just read.
LEMMA AdvanceOrigin ==
    ASSUME Quiet, NEW c, NEW p, NEW new \in Advance(c, p, Snapshot(c, p)), NEW t \in new
    PROVE  Origin(t)
<1>. DEFINE snap == Snapshot(c, p)
            state == GetPaymentState(snap, Terms(p))
<1>1. CASE state = "Approved" /\ c = To[p]
  <2>1. t = Task("approve", c, p, 0, {}, {})  BY <1>1 DEF Advance
  <2>. QED  BY <1>1, <2>1 DEF Task, Origin, Approving
<1>2. CASE state = "InsuranceReleased" /\ c = To[p]
  <2>1. PICK o \in OfKind(snap, "Offer") : t = Task("finalize", c, p, 0, {o.id}, {})
    BY <1>2 DEF Advance
  <2>2. t.stage = "finalize" /\ t.core = c /\ t.payment = p /\ t.todo = {o.id}
    BY <2>1 DEF Task
  <2>. QED  BY <1>2, <2>2 DEF Origin, Finalizing, Chosen, StateAt
<1>3. CASE state = "Borked"
  <2>1. t.stage = "recover"  BY <1>3, RecoveryStage DEF Advance
  <2>. QED  BY <2>1 DEF Origin, Recovering
<1>4. CASE ~(state = "Approved" /\ c = To[p]) /\ ~(state = "InsuranceReleased" /\ c = To[p])
           /\ state # "Borked"
  BY <1>4 DEF Advance
<1>. QED  BY <1>1, <1>2, <1>3, <1>4

LEMMA TaskStepOrigin ==
    ASSUME PaymentAssumption, TypeInv, NEW u \in tasks, TaskStep(u),
           NEW t \in tasks' \ tasks
    PROVE  Origin(t)
<1>1. CASE Delay(u)  BY <1>1 DEF Delay
<1>2. CASE AcceptPayment(u)
  <2>1. StateAt(u.core, u.payment) = "Approved"  BY <1>2 DEF AcceptPayment
  <2>2. PICK s \in OfKind(Snapshot(u.core, u.payment), "Parameterized") :
           t = Task("take", u.core, u.payment, Amount[u.payment], {s.id}, {})
    BY <1>2, <2>1 DEF AcceptPayment
  <2>3. /\ t.stage = "take" /\ t.core = u.core /\ t.payment = u.payment
        /\ t.award = Amount[u.payment] /\ t.todo = {s.id}
    BY <2>2 DEF Task
  <2>4. Quiet /\ u.stage = "approve"  BY <1>2 DEF AcceptPayment, Quiet, channel
  <2>5. Taking(t)  BY <2>1, <2>3, <2>4 DEF Taking, Chosen
  <2>. QED  BY <2>5 DEF Origin
<1>3. CASE ResolveTransfer(u)  BY <1>3 DEF ResolveTransfer
<1>4. CASE Cancel(u)
  <2>1. \E todo, next : t \in Cancelling(u.stage, u.core, u.payment, todo, next)
    BY <1>4 DEF Cancel
  <2>2. t.stage = u.stage  BY <2>1, CancellingStage
  <2>3. u.stage \in {"recover", "repair"}  BY <1>4 DEF Cancel
  <2>. QED  BY <2>2, <2>3 DEF Origin, Recovering
<1>. QED  BY <1>1, <1>2, <1>3, <1>4 DEF TaskStep

LEMMA HandlerOrigin ==
    ASSUME PaymentAssumption, TypeInv, NEW p \in Payments, HandlerStep(p),
           NEW t \in tasks' \ tasks
    PROVE  Origin(t)
<1>1. ASSUME NEW c \in Cores, Read(c, p) PROVE Origin(t)
  <2>1. Quiet  BY <1>1 DEF Read, Quiet, channel
  <2>2. \E new \in Advance(c, p, Snapshot(c, p)) : t \in new  BY <1>1 DEF Read
  <2>. QED  BY <2>1, <2>2, AdvanceOrigin
<1>. QED  BY <1>1 DEF HandlerStep, DelayAsset, ProvideAsset, ProvideStake

LEMMA CallOrigin ==
    ASSUME PaymentAssumption, TypeInv, NEW p \in Payments, CallStep(p),
           NEW t \in tasks' \ tasks
    PROVE  Origin(t)
<1>1. CASE ResolveInsurance(p)
  <2>. DEFINE c == From[p]
              snap == Snapshot(c, p)
  <2>1. Quiet /\ StateAt(c, p) = "Accepted"
    BY <1>1 DEF ResolveInsurance, Quiet, channel, StateAt
  <2>2. PICK s \in Live(snap, "Insurance"), award \in {0, Stake[p]} :
           t = Task("release", c, p, award, {s.id}, {})
    BY <1>1 DEF ResolveInsurance
  <2>3. /\ t.stage = "release" /\ t.core = c /\ t.payment = p
        /\ t.award \in {0, Stake[p]} /\ t.todo = {s.id}
    BY <2>2 DEF Task
  <2>4. s \in OfKind(snap, "Insurance")  BY <2>2 DEF Live
  <2>5. Releasing(t)  BY <2>1, <2>3, <2>4 DEF Releasing, Chosen
  <2>. QED  BY <2>5 DEF Origin
<1>2. ASSUME NEW c \in Cores, RepairPayments(c, p) PROVE Origin(t)
  BY <1>2, RecoveryStage DEF RepairPayments, Origin, Recovering
<1>. QED
  BY <1>1, <1>2 DEF CallStep, InitiateSendFunds, SendFunds, AcceptOffer, handlers

\* What a step does to the tasks.
LEMMA TaskOrigin ==
    ASSUME PaymentAssumption, TypeInv, [Next]_vars, NEW t \in tasks' \ tasks
    PROVE  Origin(t)
<1>1. ASSUME NEW i \in Ids, RouterStep(i) PROVE tasks' \subseteq tasks
  BY <1>1 DEF RouterStep, Forward, Return, Settle
<1>2. ASSUME NEW c \in Cores, HostStep(c) PROVE tasks' \subseteq tasks
  BY <1>2 DEF HostStep, ProxyCreated, ConnectorActivated, Crash, handlers
<1>3. CASE UNCHANGED vars  BY <1>3 DEF vars, handlers
<1>. QED  BY <1>1, <1>2, <1>3, TaskStepOrigin, HandlerOrigin, CallOrigin DEF Next

\* A handler that will fund a payment saw it Staked.
LEMMA NewFunding ==
    ASSUME PaymentAssumption, TypeInv, [Next]_vars, NEW p \in Payments, funding'[p] > 0
    PROVE  \/ funding[p] > 0
           \/ Quiet /\ StateAt(From[p], p) = "Staked"
<1>0. funding \in [Payments -> Nat]  BY DEF TypeInv, RestInv
<1>1. ASSUME NEW t \in tasks, TaskStep(t) PROVE funding' = funding
  BY <1>1 DEF TaskStep, Delay, AcceptPayment, ResolveTransfer, Cancel
<1>2. ASSUME NEW q \in Payments, HandlerStep(q)
      PROVE  funding[p] > 0 \/ (Quiet /\ StateAt(From[p], p) = "Staked")
  <2>1. ASSUME NEW c \in Cores, Read(c, q)
        PROVE  funding[p] > 0 \/ (Quiet /\ StateAt(From[p], p) = "Staked")
    <3>1. Quiet  BY <2>1 DEF Read, Quiet, channel
    <3>2. CASE c = From[q] /\ StateAt(c, q) = "Staked"
               /\ funding' = [funding EXCEPT ![q] = @ + 1]
      BY <1>0, <3>1, <3>2
    <3>3. CASE UNCHANGED funding  BY <3>3
    <3>. QED  BY <2>1, <3>2, <3>3 DEF Read, StateAt
  <2>2. CASE DelayAsset(q)  BY <1>0, <2>2 DEF DelayAsset
  <2>3. CASE ProvideAsset(q)  BY <1>0, <2>3 DEF ProvideAsset
  <2>4. CASE ProvideStake(q)  BY <2>4 DEF ProvideStake
  <2>. QED  BY <1>2, <2>1, <2>2, <2>3, <2>4 DEF HandlerStep
<1>3. ASSUME NEW q \in Payments, CallStep(q) PROVE funding' = funding
  BY <1>3 DEF CallStep, InitiateSendFunds, SendFunds, AcceptOffer, ResolveInsurance,
     RepairPayments, handlers
<1>4. ASSUME NEW i \in Ids, RouterStep(i) PROVE funding' = funding
  BY <1>4 DEF RouterStep, Forward, Return, Settle
<1>5. ASSUME NEW c \in Cores, HostStep(c) PROVE funding'[p] \in {0, funding[p]}
  BY <1>0, <1>5 DEF HostStep, ProxyCreated, ConnectorActivated, Crash, handlers
<1>6. CASE UNCHANGED vars  BY <1>6 DEF vars, handlers
<1>. QED  BY <1>0, <1>1, <1>2, <1>3, <1>4, <1>5, <1>6 DEF Next

-----------------------------------------------------------------------------
(* What only grows.                                                        *)

Ending == {"Resolved", "Canceled"}

\* A transfer keeps its terms; once in a channel it stays there, and once it ended
\* there it stays as it is.
LEMMA Growth ==
    ASSUME PaymentAssumption, TypeInv, [Next]_vars, NEW i \in Ids
    PROVE  /\ i \in Ids'
           /\ transfers'[i].kind = transfers[i].kind
           /\ transfers'[i].payment = transfers[i].payment
           /\ transfers'[i].amount = transfers[i].amount
           /\ transfers'[i].token = transfers[i].token
           /\ \A c \in Cores :
                 /\ transfers[i].at[c] # "Unseen" => transfers'[i].at[c] # "Unseen"
                 /\ transfers[i].at[c] \in Ending =>
                       transfers'[i].at[c] = transfers[i].at[c]
<1>. DEFINE Grown ==
        /\ i \in Ids'
        /\ transfers'[i].kind = transfers[i].kind
        /\ transfers'[i].payment = transfers[i].payment
        /\ transfers'[i].amount = transfers[i].amount
        /\ transfers'[i].token = transfers[i].token
        /\ \A c \in Cores :
              /\ transfers[i].at[c] # "Unseen" => transfers'[i].at[c] # "Unseen"
              /\ transfers[i].at[c] \in Ending =>
                    transfers'[i].at[c] = transfers[i].at[c]
<1>1. ASSUME NEW kind, NEW p, Created(kind, p) PROVE Grown  BY <1>1 DEF Created
<1>2. ASSUME NEW c, NEW j, NEW status, NEW award, Changed(c, j, status, award),
             transfers[j].at[c] \in {"Unseen", "Active"}, status # "Unseen"
      PROVE  Grown
  <2>1. CASE i = j  BY <1>2, <2>1 DEF Changed, Ending
  <2>2. CASE i # j  BY <1>2, <2>2 DEF Changed
  <2>. QED  BY <2>1, <2>2
<1>3. ASSUME NEW j \in Ids, Forwarded(j) PROVE Grown  BY <1>2, <1>3 DEF Forwarded
<1>4. ASSUME NEW j \in Ids, Ended(j) PROVE Grown  BY <1>2, <1>4 DEF Ended
<1>5. ASSUME NEW t \in tasks, NEW j \in Ids, ResolvedBy(t, j) PROVE Grown
  BY <1>2, <1>5 DEF ResolvedBy, Resolvable
<1>6. ASSUME NEW t \in tasks, NEW j \in Ids, CanceledBy(t, j) PROVE Grown
  BY <1>2, <1>6 DEF CanceledBy, Resolvable
<1>. HIDE DEF Grown
<1>7. Grown
  <2>1. CASE ChannelEffect
    <3>1. ASSUME NEW p \in Payments, NEW kind \in {"Insurance", "Parameterized"},
                 Provided(kind, p)
          PROVE  Grown
      <4>1. Created(kind, p)  BY <3>1 DEF Provided
      <4>. QED  BY <1>1, <4>1
    <3>2. CASE \E p \in Payments, kind \in {"Insurance", "Parameterized"} : Provided(kind, p)
      BY <3>1, <3>2
    <3>3. CASE \E j \in Ids : Forwarded(j) \/ Ended(j)  BY <1>3, <1>4, <3>3
    <3>4. CASE \E t \in tasks, j \in Ids : ResolvedBy(t, j) \/ CanceledBy(t, j)
      BY <1>5, <1>6, <3>4
    <3>5. CASE Quiet  BY <3>5 DEF Quiet, Ids, Grown
    <3>. QED  BY <2>1, <3>2, <3>3, <3>4, <3>5 DEF ChannelEffect
  <2>2. ASSUME NEW p \in Payments, Offered(p) PROVE Grown  BY <1>1, <2>2 DEF Offered
  <2>. QED  BY <2>1, <2>2, StepEffect
<1>. QED  BY <1>7 DEF Grown

\* A transfer that is new was created by this step.
LEMMA NewTransfer ==
    ASSUME PaymentAssumption, TypeInv, [Next]_vars, NEW i \in Ids' \ Ids
    PROVE  /\ \A j \in Ids : j < i /\ transfers'[j] = transfers[j]
           /\ Ids' = Ids \cup {i}
           /\ \/ \E p \in Payments : Offered(p) /\ transfers'[i].kind = "Offer"
                                     /\ transfers'[i].payment = p
              \/ \E p \in Payments, kind \in {"Insurance", "Parameterized"} :
                    /\ Provided(kind, p)
                    /\ transfers'[i].kind = kind /\ transfers'[i].payment = p
                    /\ sends' = sends
           /\ \A c \in Cores : transfers'[i].at[c] \in {"Unseen", "Active"}
<1>1. Ids' # Ids  OBVIOUS
<1>2. \/ \E p \in Payments : Offered(p)
      \/ /\ \E p \in Payments, kind \in {"Insurance", "Parameterized"} : Provided(kind, p)
         /\ sends' = sends
  <2>1. ~Quiet  BY <1>1 DEF Quiet, Ids
  <2>2. \A c, j, status, award : ~Changed(c, j, status, award)  BY <1>1 DEF Changed
  <2>3. \A j : ~Forwarded(j) /\ ~Ended(j)  BY <2>2 DEF Forwarded, Ended
  <2>4. \A t, j : ~ResolvedBy(t, j) /\ ~CanceledBy(t, j)
    BY <2>2 DEF ResolvedBy, CanceledBy
  <2>5. ChannelEffect =>
          \E p \in Payments, kind \in {"Insurance", "Parameterized"} : Provided(kind, p)
    BY <2>1, <2>3, <2>4, Zenon DEF ChannelEffect
  <2>. QED  BY <2>5, StepEffect
<1>3. ASSUME NEW kind, NEW p \in Payments, Created(kind, p)
      PROVE  /\ \A j \in Ids : j < i /\ transfers'[j] = transfers[j]
             /\ Ids' = Ids \cup {i}
             /\ transfers'[i].kind = kind /\ transfers'[i].payment = p
             /\ \A c \in Cores : transfers'[i].at[c] \in {"Unseen", "Active"}
  <2>1. i = Len(transfers) + 1  BY <1>3 DEF Created
  <2>. QED  BY <1>3, <2>1 DEF Created
<1>4. CASE \E p \in Payments : Offered(p)
  BY <1>3, <1>4 DEF Offered
<1>5. CASE /\ \E p \in Payments, kind \in {"Insurance", "Parameterized"} : Provided(kind, p)
           /\ sends' = sends
  <2>1. PICK p \in Payments, kind \in {"Insurance", "Parameterized"} : Provided(kind, p)
    BY <1>5
  <2>2. Created(kind, p)  BY <2>1 DEF Provided
  <2>. QED  BY <1>3, <1>5, <2>1, <2>2
<1>. QED  BY <1>2, <1>4, <1>5

-----------------------------------------------------------------------------
(* The sender funds what it saw staked.                                    *)

SeenStake(p) ==
    \E i \in Ours(p, "Insurance") :
        /\ transfers[i].at[From[p]] # "Unseen"
        /\ transfers[i].amount = Stake[p]
        /\ transfers[i].token = Hypertoken[From[p]]

\* Inductive, unlike FundedMeansStaked: a handler that will fund has seen the stake.
FundedInv ==
    \A p \in Payments :
        funding[p] > 0 \/ Ours(p, "Parameterized") # {} => SeenStake(p)

LEMMA StakedShape ==
    ASSUME NEW snap, NEW terms, GetPaymentState(snap, terms) = "Staked"
    PROVE  Shape(snap, "Active", "Active", "None") /\ InsuranceValid(snap, terms)
BY DEF GetPaymentState

LEMMA StakedIsSeen ==
    ASSUME NEW p \in Payments, StateAt(From[p], p) = "Staked"
    PROVE  SeenStake(p)
<1>. DEFINE c == From[p]
            snap == Snapshot(c, p)
<1>1. Shape(snap, "Active", "Active", "None") /\ InsuranceValid(snap, Terms(p))
  BY StakedShape DEF StateAt
<1>2. PICK t \in Live(snap, "Insurance") : t.status = "Active"
  BY <1>1 DEF Shape, Is
<1>3. t.amount = Stake[p] /\ t.token = Hypertoken[From[p]]
  BY <1>1 DEF InsuranceValid, ValidateInsuranceTransfer, Terms
<1>4. t \in snap /\ t.kind = "Insurance"  BY DEF Live, OfKind
<1>5. PICK i \in Fetched(c) :
         /\ transfers[i].payment = p
         /\ t = [id |-> i, kind |-> transfers[i].kind, status |-> transfers[i].at[c],
                 amount |-> transfers[i].amount, token |-> transfers[i].token]
  BY <1>4 DEF Snapshot
<1>6. i \in Ids /\ transfers[i].at[c] # "Unseen"  BY DEF Fetched
<1>. QED  BY <1>3, <1>4, <1>5, <1>6 DEF SeenStake, Ours

LEMMA SeenStakeStable ==
    ASSUME PaymentAssumption, TypeInv, [Next]_vars, NEW p \in Payments, SeenStake(p)
    PROVE  SeenStake(p)'
<1>1. PICK i \in Ours(p, "Insurance") :
         /\ transfers[i].at[From[p]] # "Unseen"
         /\ transfers[i].amount = Stake[p]
         /\ transfers[i].token = Hypertoken[From[p]]
  BY DEF SeenStake
<1>2. i \in Ids /\ From[p] \in Cores  BY DEF Ours, PaymentAssumption
<1>. QED  BY <1>1, <1>2, Growth DEF SeenStake, Ours

LEMMA FundedStep ==
    ASSUME PaymentAssumption, TypeInv, FundedInv, [Next]_vars
    PROVE  FundedInv'
<1>. SUFFICES ASSUME NEW p \in Payments,
                     funding'[p] > 0 \/ Ours(p, "Parameterized")' # {}
              PROVE  SeenStake(p)'
  BY DEF FundedInv
<1>1. SeenStake(p)
  <2>1. CASE funding'[p] > 0
    BY <2>1, NewFunding, StakedIsSeen DEF FundedInv
  <2>2. CASE Ours(p, "Parameterized")' # {}
    <3>1. PICK i \in Ids' :
             transfers'[i].payment = p /\ transfers'[i].kind = "Parameterized"
      BY <2>2 DEF Ours
    <3>2. CASE i \in Ids  BY <3>1, <3>2, Growth DEF FundedInv, Ours
    <3>3. CASE i \notin Ids
      <4>1. funding[p] > 0  BY <3>1, <3>3, NewTransfer DEF Provided
      <4>. QED  BY <4>1 DEF FundedInv
    <3>. QED  BY <3>2, <3>3
  <2>. QED  BY <2>1, <2>2
<1>. QED  BY <1>1, SeenStakeStable

LEMMA NoTransfersAtFirst == ASSUME Init PROVE Ids = {}
<1>1. transfers = <<>>  BY DEF Init
<1>. QED  BY <1>1 DEF Ids

\* The sender puts funds into a payment only when it saw a stake that matches the
\* offer, however many handlers run and whatever is returned, canceled or reloaded.
THEOREM FundedIsStaked == Spec => []FundedMeansStaked
<1>1. Init => TypeInv /\ FundedInv
  BY PaymentAssumption, BoundAssumption, InitType, NoTransfersAtFirst
     DEF FundedInv, Ours, Init
<1>2. TypeInv /\ FundedInv /\ [Next]_vars => TypeInv' /\ FundedInv'
  BY PaymentAssumption, TypeStep, FundedStep
<1>3. FundedInv => FundedMeansStaked  BY DEF FundedInv, FundedMeansStaked, SeenStake
<1>. QED  BY <1>1, <1>2, <1>3, PTL DEF Spec

-----------------------------------------------------------------------------
(* What a task resolves, and that insurance is released after the payment. *)

KindOf(stage) ==
    CASE stage = "take" -> "Parameterized"
      [] stage = "finalize" -> "Offer"
      [] OTHER -> "Insurance"

\* A task is on the core that may resolve its transfers, which has them in its
\* channel.
TargetInv ==
    \A t \in tasks :
        /\ t.stage = "approve" => t.core = To[t.payment]
        /\ t.stage \in Resolving =>
              /\ t.core = ResponderOf(KindOf(t.stage), t.payment)
              /\ \A i \in t.todo : /\ i \in Ours(t.payment, KindOf(t.stage))
                                   /\ transfers[i].at[t.core] # "Unseen"

LEMMA ChosenTarget ==
    ASSUME NEW t, NEW k, Chosen(t, k), NEW i \in t.todo
    PROVE  /\ i \in Ours(t.payment, k)
           /\ transfers[i].at[t.core] # "Unseen"
<1>1. PICK s \in OfKind(Snapshot(t.core, t.payment), k) : t.todo = {s.id}
  BY DEF Chosen
<1>2. i = s.id /\ s \in Snapshot(t.core, t.payment) /\ s.kind = k
  BY <1>1 DEF OfKind
<1>3. i \in Fetched(t.core) /\ transfers[i].payment = t.payment /\ transfers[i].kind = k
  BY <1>2 DEF Snapshot
<1>. QED  BY <1>3 DEF Fetched, Ours

LEMMA TargetStep ==
    ASSUME PaymentAssumption, TypeInv, TargetInv, [Next]_vars
    PROVE  TargetInv'
<1>. SUFFICES ASSUME NEW t \in tasks'
              PROVE  /\ t.stage = "approve" => t.core = To[t.payment]
                     /\ t.stage \in Resolving =>
                        /\ t.core = ResponderOf(KindOf(t.stage), t.payment)
                        /\ \A i \in t.todo :
                              /\ i \in Ours(t.payment, KindOf(t.stage))'
                              /\ transfers'[i].at[t.core] # "Unseen"
  BY DEF TargetInv
<1>1. CASE t \in tasks
  <2>1. t.core \in Cores  BY <1>1, TaskFacts DEF TaskType
  <2>2. ASSUME t.stage \in Resolving, NEW i \in t.todo
        PROVE  /\ i \in Ours(t.payment, KindOf(t.stage))'
               /\ transfers'[i].at[t.core] # "Unseen"
    <3>1. /\ i \in Ours(t.payment, KindOf(t.stage))
          /\ transfers[i].at[t.core] # "Unseen"
      BY <1>1, <2>2 DEF TargetInv
    <3>. QED  BY <2>1, <3>1, Growth DEF Ours
  <2>. QED  BY <1>1, <2>2 DEF TargetInv
<1>2. CASE t \notin tasks
  <2>1. Origin(t)  BY <1>2, TaskOrigin
  <2>2. CASE Recovering(t)  BY <2>2 DEF Recovering, Resolving
  <2>3. CASE Approving(t)  BY <2>3 DEF Approving, Resolving
  <2>4. ASSUME NEW k, Chosen(t, k)
        PROVE  \A i \in t.todo : i \in Ours(t.payment, k)'
                                 /\ transfers'[i].at[t.core] # "Unseen"
    <3>1. Quiet  BY <2>4 DEF Chosen
    <3>2. ASSUME NEW i \in t.todo
          PROVE  i \in Ours(t.payment, k) /\ transfers[i].at[t.core] # "Unseen"
      BY <2>4, ChosenTarget
    <3>. QED  BY <3>1, <3>2 DEF Quiet, Ours, Ids
  <2>5. CASE Taking(t)
    <3>1. t.stage = "take" /\ t.core = To[t.payment] /\ Chosen(t, "Parameterized")
      BY <2>5 DEF Taking, TargetInv
    <3>. QED  BY <2>4, <3>1 DEF KindOf, ResponderOf
  <2>6. CASE Finalizing(t)
    <3>1. t.stage = "finalize" /\ t.core = To[t.payment] /\ Chosen(t, "Offer")
      BY <2>6 DEF Finalizing
    <3>. QED  BY <2>4, <3>1 DEF KindOf, ResponderOf
  <2>7. CASE Releasing(t)
    <3>1. t.stage = "release" /\ t.core = From[t.payment] /\ Chosen(t, "Insurance")
      BY <2>7 DEF Releasing
    <3>. QED  BY <2>4, <3>1 DEF KindOf, ResponderOf
  <2>. QED  BY <2>1, <2>2, <2>3, <2>5, <2>6, <2>7 DEF Origin
<1>. QED  BY <1>1, <1>2

LEMMA SidesDiffer ==
    ASSUME PaymentAssumption, NEW p \in Payments, NEW k
    PROVE  /\ InitiatorOf(k, p) # ResponderOf(k, p)
           /\ InitiatorOf(k, p) \in Cores /\ ResponderOf(k, p) \in Cores
BY DEF PaymentAssumption, InitiatorOf, ResponderOf

\* What the responder resolved in this step, it resolved with a task for it.
LEMMA NewDone ==
    ASSUME PaymentAssumption, TypeInv, TargetInv, [Next]_vars,
           NEW p \in Payments, NEW k \in Kinds, NEW i \in Done(p, k)', i \notin Done(p, k)
    PROVE  \E t \in tasks :
              /\ ResolvedBy(t, i) /\ i \in Ids
              /\ t.core = ResponderOf(k, p) /\ t.payment = p /\ KindOf(t.stage) = k
<1>. DEFINE r == ResponderOf(k, p)
<1>1. /\ i \in Ids' /\ transfers'[i].payment = p /\ transfers'[i].kind = k
      /\ transfers'[i].at[r] = "Resolved"
  BY DEF Done, Ours
<1>2. r \in Cores /\ InitiatorOf(k, p) # r  BY SidesDiffer
<1>3. i \in Ids  BY <1>1, <1>2, NewTransfer
<1>4. transfers[i].payment = p /\ transfers[i].kind = k  BY <1>1, <1>3, Growth
<1>5. Initiator(i) # r /\ Responder(i) = r  BY <1>2, <1>4 DEF Initiator, Responder
<1>6. transfers[i].at[r] # "Resolved"  BY <1>3, <1>4 DEF Done, Ours
<1>7. CASE Quiet  BY <1>1, <1>6, <1>7 DEF Quiet
<1>8. ASSUME NEW q, NEW kind, Created(kind, q) PROVE FALSE
  BY <1>1, <1>3, <1>6, <1>8 DEF Created
<1>9. ASSUME NEW j \in Ids, Forwarded(j) PROVE FALSE
  BY <1>1, <1>2, <1>3, <1>5, <1>6, <1>9 DEF Forwarded, Changed
<1>10. ASSUME NEW j \in Ids, Ended(j) PROVE FALSE
  BY <1>1, <1>2, <1>3, <1>5, <1>6, <1>10 DEF Ended, Changed
<1>11. ASSUME NEW t \in tasks, NEW j \in Ids, CanceledBy(t, j) PROVE FALSE
  BY <1>1, <1>2, <1>3, <1>5, <1>6, <1>11 DEF CanceledBy, Changed, Resolvable
<1>12. ASSUME NEW t \in tasks, NEW j \in Ids, ResolvedBy(t, j)
       PROVE  /\ ResolvedBy(t, i)
              /\ t.core = ResponderOf(k, p) /\ t.payment = p /\ KindOf(t.stage) = k
  <2>1. i = j  BY <1>1, <1>3, <1>6, <1>12 DEF ResolvedBy, Changed
  <2>2. t.core = r  BY <1>5, <1>12, <2>1 DEF ResolvedBy, Resolvable
  <2>3. i \in Ours(t.payment, KindOf(t.stage))
    BY <1>12, <2>1 DEF ResolvedBy, TargetInv
  <2>. QED  BY <1>4, <1>12, <2>1, <2>2, <2>3 DEF Ours
<1>. QED
  BY <1>3, <1>7, <1>8, <1>9, <1>10, <1>11, <1>12, StepEffect
     DEF ChannelEffect, Offered, Provided

PaidAtSender(p) == \E i \in Ours(p, "Parameterized") : transfers[i].at[From[p]] = "Resolved"

\* Inductive, unlike ReleasedAfterPaid: so it is already when the release is asked for.
ReleaseInv ==
    \A p \in Payments :
        \/ \E t \in tasks : t.stage = "release" /\ t.payment = p
        \/ Done(p, "Insurance") # {}
        => PaidAtSender(p)

LEMMA AcceptedShape ==
    ASSUME NEW snap, NEW terms, GetPaymentState(snap, terms) = "Accepted"
    PROVE  Shape(snap, "Active", "Active", "Resolved")
BY DEF GetPaymentState

LEMMA ApprovedShape ==
    ASSUME NEW snap, NEW terms, GetPaymentState(snap, terms) = "Approved"
    PROVE  Shape(snap, "Active", "Active", "Active")
BY DEF GetPaymentState

LEMMA AcceptedIsPaid ==
    ASSUME NEW p \in Payments, StateAt(From[p], p) = "Accepted"
    PROVE  PaidAtSender(p)
<1>1. Shape(Snapshot(From[p], p), "Active", "Active", "Resolved")
  BY AcceptedShape DEF StateAt
<1>2. PICK t \in Live(Snapshot(From[p], p), "Parameterized") : t.status = "Resolved"
  BY <1>1 DEF Shape, Is
<1>3. t \in Snapshot(From[p], p) /\ t.kind = "Parameterized"  BY DEF Live, OfKind
<1>4. PICK i \in Fetched(From[p]) :
         /\ transfers[i].payment = p /\ transfers[i].kind = "Parameterized"
         /\ transfers[i].at[From[p]] = "Resolved"
  BY <1>2, <1>3 DEF Snapshot
<1>. QED  BY <1>4 DEF PaidAtSender, Ours, Fetched

LEMMA ReleaseStep ==
    ASSUME PaymentAssumption, TypeInv, TargetInv, ReleaseInv, [Next]_vars
    PROVE  ReleaseInv'
<1>. SUFFICES ASSUME NEW p \in Payments,
                     \/ \E t \in tasks' : t.stage = "release" /\ t.payment = p
                     \/ Done(p, "Insurance")' # {}
              PROVE  PaidAtSender(p)'
  BY DEF ReleaseInv
<1>1. PaidAtSender(p)
  <2>1. ASSUME NEW t \in tasks', t.stage = "release", t.payment = p
        PROVE  PaidAtSender(p)
    <3>1. CASE t \in tasks  BY <2>1, <3>1 DEF ReleaseInv
    <3>2. CASE t \notin tasks
      <4>1. Origin(t)  BY <3>2, TaskOrigin
      <4>2. Releasing(t)
        BY <2>1, <4>1 DEF Origin, Recovering, Approving, Taking, Finalizing
      <4>3. StateAt(From[p], p) = "Accepted"  BY <2>1, <4>2 DEF Releasing
      <4>. QED  BY <4>3, AcceptedIsPaid
    <3>. QED  BY <3>1, <3>2
  <2>2. ASSUME NEW i \in Done(p, "Insurance")' PROVE PaidAtSender(p)
    <3>1. CASE i \in Done(p, "Insurance")  BY <3>1 DEF ReleaseInv
    <3>2. CASE i \notin Done(p, "Insurance")
      <4>1. PICK t \in tasks : /\ ResolvedBy(t, i)
                               /\ t.payment = p /\ KindOf(t.stage) = "Insurance"
        BY <3>2, NewDone DEF Kinds
      <4>2. t.stage = "release"  BY <4>1 DEF ResolvedBy, Resolving, KindOf
      <4>. QED  BY <4>1, <4>2 DEF ReleaseInv
    <3>. QED  BY <3>1, <3>2
  <2>. QED  BY <2>1, <2>2
<1>2. PICK i \in Ours(p, "Parameterized") : transfers[i].at[From[p]] = "Resolved"
  BY <1>1 DEF PaidAtSender
<1>3. i \in Ids /\ From[p] \in Cores  BY DEF Ours, PaymentAssumption
<1>. QED  BY <1>2, <1>3, Growth DEF PaidAtSender, Ours, Ending

\* The sender releases insurance only after it saw the receiver take the money.
THEOREM ReleasedIsPaid == Spec => []ReleasedAfterPaid
<1>1. Init => TypeInv /\ TargetInv /\ ReleaseInv
  BY PaymentAssumption, BoundAssumption, InitType, NoTransfersAtFirst
     DEF TargetInv, ReleaseInv, Done, Ours, Init
<1>2. TypeInv /\ TargetInv /\ ReleaseInv /\ [Next]_vars
        => TypeInv' /\ TargetInv' /\ ReleaseInv'
  BY PaymentAssumption, TypeStep, TargetStep, ReleaseStep
<1>3. ReleaseInv => ReleasedAfterPaid
  BY DEF ReleaseInv, ReleasedAfterPaid, PaidAtSender
<1>. QED  BY <1>1, <1>2, <1>3, PTL DEF Spec

-----------------------------------------------------------------------------
(* A payment that is offered at most once is taken, and its insurance is   *)
(* released, at most once.                                                 *)

\* Every transfer of a payment comes after the one offer there is.
OfferInv ==
    \A p \in Payments :
        /\ Ours(p, "Offer") # {} => sends[p] > 0
        /\ ~Many(Ours(p, "Offer"))
        /\ \A i \in Ids : transfers[i].payment = p => \E o \in Ours(p, "Offer") : o <= i

LEMMA OfferStep ==
    ASSUME PaymentAssumption, BoundAssumption, MaxSends <= 1, TypeInv, OfferInv, [Next]_vars
    PROVE  OfferInv'
<1>. SUFFICES ASSUME NEW p \in Payments
              PROVE  /\ Ours(p, "Offer")' # {} => sends'[p] > 0
                     /\ ~Many(Ours(p, "Offer"))'
                     /\ \A i \in Ids' : transfers'[i].payment = p =>
                                           \E o \in Ours(p, "Offer")' : o <= i
  BY DEF OfferInv
<1>1. sends \in [Payments -> Nat]  BY DEF TypeInv, RestInv
<1>2. CASE Ids' = Ids
  <2>1. Ours(p, "Offer")' = Ours(p, "Offer")  BY <1>2, Growth DEF Ours
  <2>2. sends'[p] >= sends[p]
    <3>1. ASSUME NEW q \in Payments, Offered(q) PROVE sends'[p] >= sends[p]
      BY <1>1, <3>1 DEF Offered
    <3>. QED  BY <1>1, <3>1, StepEffect
  <2>3. \A i \in Ids' : transfers'[i].payment = transfers[i].payment
    BY <1>2, Growth
  <2>4. /\ Ours(p, "Offer") # {} => sends[p] > 0
        /\ ~Many(Ours(p, "Offer"))
        /\ \A i \in Ids : transfers[i].payment = p => \E o \in Ours(p, "Offer") : o <= i
    BY DEF OfferInv
  <2>5. sends'[p] \in Nat
    <3>1. TypeInv'  BY TypeStep
    <3>. QED  BY <3>1 DEF TypeInv, RestInv
  <2>6. Ours(p, "Offer")' # {} => sends'[p] > 0  BY <1>1, <2>1, <2>2, <2>4, <2>5
  <2>7. ~Many(Ours(p, "Offer"))'  BY <2>1, <2>4 DEF Many
  <2>8. ASSUME NEW i \in Ids', transfers'[i].payment = p
        PROVE  \E o \in Ours(p, "Offer")' : o <= i
    BY <1>2, <2>1, <2>3, <2>4, <2>8
  <2>. QED  BY <2>6, <2>7, <2>8
<1>3. CASE Ids' # Ids
  <2>1. PICK n \in Ids' : n \notin Ids  BY <1>3, Growth
  <2>2. /\ \A j \in Ids : j < n /\ transfers'[j] = transfers[j]
        /\ Ids' = Ids \cup {n}
    BY <2>1, NewTransfer
  <2>3. n <= n
    <3>1. TypeInv'  BY TypeStep
    <3>2. n \in Nat  BY <3>1, IdsFacts DEF TypeInv, ChannelInv, Ids
    <3>. QED  BY <3>2
  <2>4. ASSUME NEW q \in Payments, Offered(q),
               transfers'[n].kind = "Offer", transfers'[n].payment = q
        PROVE  /\ Ours(p, "Offer")' # {} => sends'[p] > 0
               /\ ~Many(Ours(p, "Offer"))'
               /\ \A i \in Ids' : transfers'[i].payment = p =>
                                     \E o \in Ours(p, "Offer")' : o <= i
    <3>1. CASE p = q
      <4>1. sends[p] = 0 /\ sends'[p] = 1
        BY <1>1, <2>4, <3>1 DEF Offered, BoundAssumption
      <4>2. \A i \in Ids : transfers[i].payment # p  BY <1>1, <4>1 DEF OfferInv
      <4>3. Ours(p, "Offer")' = {n}  BY <2>2, <2>4, <3>1, <4>2 DEF Ours
      <4>. QED  BY <2>2, <2>3, <4>1, <4>2, <4>3 DEF Many
    <3>2. CASE p # q
      <4>1. Ours(p, "Offer")' = Ours(p, "Offer")  BY <2>2, <2>4, <3>2 DEF Ours
      <4>2. sends'[p] = sends[p]  BY <1>1, <2>4, <3>2 DEF Offered
      <4>. QED  BY <2>2, <2>4, <3>2, <4>1, <4>2 DEF OfferInv, Many
    <3>. QED  BY <3>1, <3>2
  <2>5. ASSUME NEW q \in Payments, NEW kind \in {"Insurance", "Parameterized"},
               Provided(kind, q), sends' = sends,
               transfers'[n].kind = kind, transfers'[n].payment = q
        PROVE  /\ Ours(p, "Offer")' # {} => sends'[p] > 0
               /\ ~Many(Ours(p, "Offer"))'
               /\ \A i \in Ids' : transfers'[i].payment = p =>
                                     \E o \in Ours(p, "Offer")' : o <= i
    <3>1. Ours(p, "Offer")' = Ours(p, "Offer")  BY <2>2, <2>5 DEF Ours
    <3>2. CASE p = q
      <4>1. \E o \in Ours(p, "Offer") : o <= n
        <5>1. PICK o \in Ours(p, "Offer") : TRUE  BY <2>5, <3>2 DEF Provided
        <5>2. o < n /\ o \in Nat /\ n \in Nat
          <6>1. TypeInv'  BY TypeStep
          <6>2. transfers' \in Seq(TransferType)  BY <6>1 DEF TypeInv, ChannelInv
          <6>3. DOMAIN transfers' \subseteq Nat  BY <6>2
          <6>4. Ids' \subseteq Nat  BY <6>3 DEF Ids
          <6>5. o \in Ids  BY <5>1 DEF Ours
          <6>. QED  BY <2>1, <2>2, <6>4, <6>5
        <5>. QED  BY <5>2
      <4>. QED  BY <2>2, <2>5, <3>1, <4>1 DEF OfferInv, Many
    <3>3. CASE p # q  BY <2>2, <2>5, <3>1, <3>3 DEF OfferInv, Many
    <3>. QED  BY <3>2, <3>3
  <2>. QED  BY <2>1, <2>4, <2>5, NewTransfer
<1>. QED  BY <1>2, <1>3

\* A core that sees the offer still open sees all there is of the payment.
LEMMA WholeView ==
    ASSUME OfferInv, TypeInv, NEW c, NEW p \in Payments,
           NEW insurance, NEW parameterized,
           Shape(Snapshot(c, p), "Active", insurance, parameterized),
           NEW i \in Ids, transfers[i].payment = p, transfers[i].at[c] # "Unseen"
    PROVE  [id |-> i, kind |-> transfers[i].kind, status |-> transfers[i].at[c],
            amount |-> transfers[i].amount, token |-> transfers[i].token]
              \in Snapshot(c, p)
<1>1. PICK t \in Live(Snapshot(c, p), "Offer") : t.status = "Active"
  BY DEF Shape, Is
<1>2. t \in Snapshot(c, p) /\ t.kind = "Offer"  BY DEF Live, OfKind
<1>3. PICK o \in Fetched(c) :
         /\ transfers[o].payment = p /\ transfers[o].kind = "Offer"
         /\ transfers[o].at[c] = "Active"
  BY <1>1, <1>2 DEF Snapshot
<1>4. o \in Ours(p, "Offer")  BY <1>3 DEF Fetched, Ours
<1>5. o <= i  BY <1>4 DEF OfferInv, Many
<1>6. Ids \subseteq Nat /\ \A j \in Ids : j >= 1  BY IdsFacts
<1>7. o \in 1 .. i  BY <1>4, <1>5, <1>6 DEF Ours
<1>8. i \in Fetched(c)  BY <1>3, <1>7 DEF Fetched
<1>. QED  BY <1>8 DEF Snapshot

Once == {"take", "release"}

\* The transfers that tasks of a stage are about to resolve.
Targets(stage, p) ==
    UNION {t.todo : t \in {u \in tasks : u.stage = stage /\ u.payment = p}}

ActiveAt(i, k, p) == transfers[i].at[ResponderOf(k, p)] = "Active"

\* At most one transfer can still be resolved, and none once another one was.
OnceInv ==
    \A stage \in Once, p \in Payments :
        LET k == KindOf(stage)
        IN  /\ ~Many(Done(p, k))
            /\ \A i \in Targets(stage, p) : ActiveAt(i, k, p) =>
                  /\ Done(p, k) = {}
                  /\ \A j \in Targets(stage, p) : ActiveAt(j, k, p) => i = j

LEMMA TargetsFacts ==
    ASSUME TargetInv, NEW stage \in Once, NEW p \in Payments, NEW i \in Targets(stage, p)
    PROVE  /\ i \in Ours(p, KindOf(stage))
           /\ transfers[i].at[ResponderOf(KindOf(stage), p)] # "Unseen"
<1>1. PICK t \in tasks : t.stage = stage /\ t.payment = p /\ i \in t.todo
  BY DEF Targets
<1>2. stage \in Resolving  BY DEF Once, Resolving
<1>. QED  BY <1>1, <1>2 DEF TargetInv

\* When a task is made for one of them, the responder sees the offer open, one of
\* the transfers of the kind active and none resolved.
LEMMA FreshTarget ==
    ASSUME PaymentAssumption, TypeInv, TargetInv, OfferInv, [Next]_vars,
           NEW stage \in Once, NEW p \in Payments,
           NEW i \in Targets(stage, p)', i \notin Targets(stage, p)
    PROVE  LET k == KindOf(stage)
           IN  /\ Quiet
               /\ Done(p, k) = {}
               /\ \A j, l \in Ours(p, k) : ActiveAt(j, k, p) /\ ActiveAt(l, k, p) => j = l
<1>. DEFINE k == KindOf(stage)
            c == ResponderOf(k, p)
            snap == Snapshot(c, p)
            Seen(j) == [id |-> j, kind |-> transfers[j].kind,
                        status |-> transfers[j].at[c], amount |-> transfers[j].amount,
                        token |-> transfers[j].token]
<1>1. PICK t \in tasks' : t.stage = stage /\ t.payment = p /\ i \in t.todo
  BY DEF Targets
<1>2. t \notin tasks  BY <1>1 DEF Targets
<1>3. Origin(t)  BY <1>2, TaskOrigin
<1>4. /\ Quiet
      /\ \E insurance, parameterized : Shape(snap, "Active", insurance, parameterized)
      /\ Regular(snap) /\ Is(snap, k, "Active")
  <2>1. CASE stage = "take"
    <3>1. Taking(t)
      BY <1>1, <1>3, <2>1 DEF Origin, Recovering, Approving, Finalizing, Releasing
    <3>2. t.core = To[p]  BY <1>1, <3>1 DEF Taking, TargetInv
    <3>3. k = "Parameterized" /\ c = To[p]  BY <2>1 DEF KindOf, ResponderOf
    <3>4. Shape(snap, "Active", "Active", "Active")
      BY <1>1, <3>1, <3>2, <3>3, ApprovedShape DEF Taking, StateAt
    <3>. QED  BY <3>1, <3>3, <3>4 DEF Taking, Chosen, Shape
  <2>2. CASE stage = "release"
    <3>1. Releasing(t)
      BY <1>1, <1>3, <2>2 DEF Origin, Recovering, Approving, Taking, Finalizing
    <3>2. k = "Insurance" /\ c = From[p]  BY <2>2 DEF KindOf, ResponderOf
    <3>3. Shape(snap, "Active", "Active", "Resolved")
      BY <1>1, <3>1, <3>2, AcceptedShape DEF Releasing, StateAt
    <3>. QED  BY <3>1, <3>2, <3>3 DEF Releasing, Chosen, Shape
  <2>. QED  BY <2>1, <2>2 DEF Once
<1>5. k \in Kinds  BY DEF KindOf, Kinds
<1>6. \A t1, t2 \in Live(snap, k) : t1 = t2  BY <1>4, <1>5 DEF Regular, Many
<1>7. PICK a \in Live(snap, k) : a.status = "Active"  BY <1>4 DEF Is
<1>8. ASSUME NEW j \in Ours(p, k), transfers[j].at[c] \in {"Active", "Resolved"}
      PROVE  a = Seen(j)
  <2>1. Seen(j) \in snap  BY <1>4, <1>8, WholeView DEF Ours
  <2>2. Seen(j).kind = k /\ Seen(j).status # "Canceled"  BY <1>8 DEF Ours
  <2>3. Seen(j) \in Live(snap, k)  BY <2>1, <2>2 DEF Live, OfKind
  <2>. QED  BY <1>6, <2>3
<1>9. Done(p, k) = {}
  <2>1. ASSUME NEW j \in Done(p, k) PROVE FALSE
    BY <1>7, <1>8, <2>1 DEF Done
  <2>. QED  BY <2>1
<1>10. \A j, l \in Ours(p, k) : ActiveAt(j, k, p) /\ ActiveAt(l, k, p) => j = l
  <2>1. ASSUME NEW j \in Ours(p, k), NEW l \in Ours(p, k),
               ActiveAt(j, k, p), ActiveAt(l, k, p)
        PROVE  j = l
    <3>1. Seen(j) = Seen(l)  BY <1>8, <2>1 DEF ActiveAt
    <3>2. Seen(j).id = Seen(l).id  BY <3>1
    <3>. QED  BY <3>2
  <2>. QED  BY <2>1
<1>. QED  BY <1>4, <1>9, <1>10

\* A target that is active after a step was active before.
LEMMA StaysActive ==
    ASSUME PaymentAssumption, TypeInv, TargetInv, [Next]_vars,
           NEW stage \in Once, NEW p \in Payments, NEW i \in Targets(stage, p),
           ActiveAt(i, KindOf(stage), p)'
    PROVE  ActiveAt(i, KindOf(stage), p)
<1>. DEFINE c == ResponderOf(KindOf(stage), p)
<1>1. i \in Ids /\ transfers[i].at[c] # "Unseen"  BY TargetsFacts DEF Ours
<1>2. c \in Cores  BY SidesDiffer
<1>3. transfers[i].at[c] \in Statuses  BY <1>1, <1>2, TransferFacts DEF TransferType
<1>4. transfers'[i].at[c] = "Active"  BY DEF ActiveAt
<1>. QED  BY <1>1, <1>2, <1>3, <1>4, Growth DEF ActiveAt, Statuses, Ending

\* What is done in a step was a target that was active.
LEMMA DoneWasTarget ==
    ASSUME PaymentAssumption, TypeInv, TargetInv, [Next]_vars,
           NEW stage \in Once, NEW p \in Payments,
           NEW i \in Done(p, KindOf(stage))', i \notin Done(p, KindOf(stage))
    PROVE  /\ i \in Targets(stage, p) /\ ActiveAt(i, KindOf(stage), p)
           /\ Ids' = Ids
           /\ \A j \in Ids : j # i => transfers'[j] = transfers[j]
<1>. DEFINE k == KindOf(stage)
<1>1. k \in Kinds  BY DEF KindOf, Kinds
<1>2. PICK t \in tasks :
         /\ ResolvedBy(t, i) /\ i \in Ids
         /\ t.core = ResponderOf(k, p) /\ t.payment = p /\ KindOf(t.stage) = k
  BY <1>1, NewDone
<1>3. t.stage = stage  BY <1>2 DEF ResolvedBy, Resolving, Once, KindOf
<1>. QED
  BY <1>2, <1>3 DEF ResolvedBy, Resolvable, Changed, Targets, ActiveAt

LEMMA OnceStep ==
    ASSUME PaymentAssumption, TypeInv, TargetInv, OfferInv, OnceInv, [Next]_vars
    PROVE  OnceInv'
<1>. SUFFICES ASSUME NEW stage \in Once, NEW p \in Payments
              PROVE  LET k == KindOf(stage)
                     IN  /\ ~Many(Done(p, k))'
                         /\ \A i \in Targets(stage, p)' : ActiveAt(i, k, p)' =>
                              /\ Done(p, k)' = {}
                              /\ \A j \in Targets(stage, p)' : ActiveAt(j, k, p)' => i = j
  BY DEF OnceInv
<1>. DEFINE k == KindOf(stage)
<1>1. /\ ~Many(Done(p, k))
      /\ \A i \in Targets(stage, p) : ActiveAt(i, k, p) =>
            /\ Done(p, k) = {}
            /\ \A j \in Targets(stage, p) : ActiveAt(j, k, p) => i = j
  BY DEF OnceInv
<1>2. ~Many(Done(p, k))'
  <2>1. ASSUME NEW i \in Done(p, k)', NEW j \in Done(p, k)', i # j PROVE FALSE
    <3>1. CASE i \in Done(p, k) /\ j \in Done(p, k)  BY <1>1, <2>1, <3>1 DEF Many
    <3>2. CASE i \notin Done(p, k) /\ j \in Done(p, k)
      BY <1>1, <3>2, DoneWasTarget
    <3>3. CASE i \in Done(p, k) /\ j \notin Done(p, k)
      BY <1>1, <3>3, DoneWasTarget
    <3>4. CASE i \notin Done(p, k) /\ j \notin Done(p, k)
      <4>1. Ids' = Ids /\ transfers'[j] = transfers[j]
        BY <2>1, <3>4, DoneWasTarget DEF Done, Ours
      <4>. QED  BY <3>4, <4>1 DEF Done, Ours
    <3>. QED  BY <3>1, <3>2, <3>3, <3>4
  <2>. QED  BY <2>1 DEF Many
<1>3. ASSUME NEW i \in Targets(stage, p)', ActiveAt(i, k, p)' PROVE Done(p, k)' = {}
  <2>1. SUFFICES ASSUME NEW j \in Done(p, k)' PROVE FALSE  OBVIOUS
  <2>2. CASE i \in Targets(stage, p)
    <3>1. ActiveAt(i, k, p)  BY <1>3, <2>2, StaysActive
    <3>2. j \notin Done(p, k)  BY <1>1, <2>2, <3>1
    <3>3. i = j  BY <1>1, <2>2, <3>1, <3>2, DoneWasTarget
    <3>. QED  BY <1>3, <2>1, <3>3 DEF Done, ActiveAt
  <2>3. CASE i \notin Targets(stage, p)
    <3>1. Quiet /\ Done(p, k) = {}  BY <2>3, FreshTarget
    <3>. QED  BY <2>1, <3>1 DEF Quiet, Done, Ours, Ids
  <2>. QED  BY <2>2, <2>3
<1>4. ASSUME NEW i \in Targets(stage, p)', ActiveAt(i, k, p)',
             NEW j \in Targets(stage, p)', ActiveAt(j, k, p)'
      PROVE  i = j
  <2>1. CASE i \in Targets(stage, p) /\ j \in Targets(stage, p)
    BY <1>1, <1>4, <2>1, StaysActive
  <2>2. CASE i \notin Targets(stage, p) \/ j \notin Targets(stage, p)
    <3>1. /\ Quiet
          /\ \A m, l \in Ours(p, k) : ActiveAt(m, k, p) /\ ActiveAt(l, k, p) => m = l
      BY <2>2, FreshTarget
    <3>2. TargetInv'  BY TargetStep
    <3>3. i \in Ours(p, k)' /\ j \in Ours(p, k)'
      <4>1. ASSUME NEW m \in Targets(stage, p)' PROVE m \in Ours(p, k)'
        <5>1. PICK t \in tasks' : t.stage = stage /\ t.payment = p /\ m \in t.todo
          BY <4>1 DEF Targets
        <5>2. stage \in Resolving  BY DEF Once, Resolving
        <5>. QED  BY <3>2, <5>1, <5>2 DEF TargetInv
      <4>. QED  BY <4>1
    <3>. QED  BY <1>4, <3>1, <3>3 DEF Quiet, Ours, Ids, ActiveAt
  <2>. QED  BY <2>1, <2>2
<1>. QED  BY <1>2, <1>3, <1>4

SafetyInv == TypeInv /\ TargetInv /\ OfferInv /\ OnceInv

LEMMA SafetyInit == ASSUME PaymentAssumption, BoundAssumption, Init PROVE SafetyInv
<1>1. TypeInv /\ Ids = {}  BY InitType, NoTransfersAtFirst
<1>. QED
  BY <1>1 DEF SafetyInv, TargetInv, OfferInv, OnceInv, Targets, Many, Done, Ours, Init

LEMMA SafetyStep ==
    ASSUME PaymentAssumption, BoundAssumption, MaxSends <= 1, SafetyInv, [Next]_vars
    PROVE  SafetyInv'
BY TypeStep, TargetStep, OfferStep, OnceStep DEF SafetyInv

\* However often an offer is accepted, repaired or reloaded, and whatever the router
\* returns, the receiver takes a payment once that is offered once.  (Of a payment
\* that is offered twice, see TwoOffersAreNotPaid.)
THEOREM TakenOnce == ASSUME MaxSends <= 1 PROVE Spec => []PaidOnce
<1>1. Init => SafetyInv  BY PaymentAssumption, BoundAssumption, SafetyInit
<1>2. SafetyInv /\ [Next]_vars => SafetyInv'
  BY PaymentAssumption, BoundAssumption, SafetyStep
<1>3. SafetyInv => PaidOnce
  BY DEF SafetyInv, OnceInv, PaidOnce, Once, KindOf
<1>. QED  BY <1>1, <1>2, <1>3, PTL DEF Spec

\* And the sender releases at most one insurance transfer of it.
THEOREM StakeReleasedOnce == ASSUME MaxSends <= 1 PROVE Spec => []ReleasedOnce
<1>1. Init => SafetyInv  BY PaymentAssumption, BoundAssumption, SafetyInit
<1>2. SafetyInv /\ [Next]_vars => SafetyInv'
  BY PaymentAssumption, BoundAssumption, SafetyStep
<1>3. SafetyInv => ReleasedOnce
  BY DEF SafetyInv, OnceInv, ReleasedOnce, Once, KindOf
<1>. QED  BY <1>1, <1>2, <1>3, PTL DEF Spec

-----------------------------------------------------------------------------
(***************************************************************************)
(* Recovery removes extras and never the payment, so that a payment that   *)
(* was taken is still insured.                                             *)
(*                                                                         *)
(* The argument is that the earliest transfer of a kind that its responder *)
(* has seen is never canceled: a recovery only cancels what had an earlier *)
(* one when the payment was read, and what a core has seen stays seen.     *)
(***************************************************************************)

\* Both parties are configured with the same hypertoken, so that the stake matches.
Matching(p) == Hypertoken[To[p]] = Hypertoken[From[p]]

\* A transfer carries what its payment asks for, but for the token of a stake.
TermsInv ==
    \A i \in Ids : LET t == transfers[i]
                   IN  /\ t.amount = Price(t.kind, t.payment)
                       /\ t.token = Token(t.kind, t.payment)

\* Core c has seen an earlier transfer of i's kind.
Preceded(c, p, i) ==
    \E j \in Ours(p, transfers[i].kind) : j < i /\ transfers[j].at[c] # "Unseen"

Spare(c, p, i) ==
    /\ i \in Ids /\ transfers[i].payment = p
    /\ Matching(p) => Preceded(c, p, i)

\* What a recovery is about to cancel is not the first of its kind.
RecoveryInv ==
    \A t \in tasks :
        Recovering(t) => \A i \in t.todo \cup t.next : Spare(t.core, t.payment, i)

Delivered(p, k) == {i \in Ours(p, k) : transfers[i].at[ResponderOf(k, p)] # "Unseen"}

Earliest(p, k, m) == m \in Delivered(p, k) /\ \A i \in Delivered(p, k) : m <= i

\* The first transfer of a kind that the responder has seen is not canceled.
FirstInv ==
    \A p \in Payments, k \in Kinds :
        Matching(p) /\ Delivered(p, k) # {} =>
            \E m \in Ids : /\ Earliest(p, k, m)
                           /\ transfers[m].at[ResponderOf(k, p)] # "Canceled"

-----------------------------------------------------------------------------
LEMMA CreatedTerms ==
    ASSUME TermsInv, NEW kind, NEW p, Created(kind, p)
    PROVE  TermsInv'
<1>. SUFFICES ASSUME NEW i \in Ids'
              PROVE  LET t == transfers'[i]
                     IN  /\ t.amount = Price(t.kind, t.payment)
                         /\ t.token = Token(t.kind, t.payment)
  BY DEF TermsInv, Price, Token
<1>1. CASE i \in Ids  BY <1>1 DEF TermsInv, Created
<1>2. CASE i \notin Ids  BY <1>2 DEF Created
<1>. QED  BY <1>1, <1>2

LEMMA TermsStep ==
    ASSUME PaymentAssumption, TypeInv, TermsInv, [Next]_vars
    PROVE  TermsInv'
<1>1. CASE Ids' \subseteq Ids
  <2>. SUFFICES ASSUME NEW i \in Ids'
                PROVE  LET t == transfers'[i]
                       IN  /\ t.amount = Price(t.kind, t.payment)
                           /\ t.token = Token(t.kind, t.payment)
    BY DEF TermsInv, Price, Token
  <2>. QED  BY <1>1, Growth DEF TermsInv
<1>2. CASE ~(Ids' \subseteq Ids)
  <2>1. PICK n \in Ids' : n \notin Ids  BY <1>2
  <2>2. \E kind, p : Created(kind, p)
    BY <2>1, NewTransfer DEF Offered, Provided
  <2>. QED  BY <2>2, CreatedTerms
<1>. QED  BY <1>1, <1>2

-----------------------------------------------------------------------------
(* What a recovery cancels.                                                *)

Extras(c, p) ==
    LET snap == Snapshot(c, p)
    IN  IF c = To[p] THEN ExtraOffers(snap) \cup ExtraPayments(snap, Terms(p))
        ELSE ExtraInsurance(snap, Terms(p))

LEMMA SnapshotTransfer ==
    ASSUME NEW c, NEW p, NEW t \in Snapshot(c, p)
    PROVE  /\ t.id \in Ours(p, t.kind) /\ transfers[t.id].at[c] # "Unseen"
           /\ t.amount = transfers[t.id].amount /\ t.token = transfers[t.id].token
<1>1. PICK i \in Fetched(c) :
         /\ transfers[i].payment = p
         /\ t = [id |-> i, kind |-> transfers[i].kind, status |-> transfers[i].at[c],
                 amount |-> transfers[i].amount, token |-> transfers[i].token]
  BY DEF Snapshot
<1>2. i \in Ids /\ transfers[i].at[c] # "Unseen"  BY DEF Fetched
<1>. QED  BY <1>1, <1>2 DEF Ours

LEMMA BeyondFirstPreceded ==
    ASSUME NEW c, NEW p, NEW k, NEW i \in ActiveIds(BeyondFirst(Snapshot(c, p), k))
    PROVE  Preceded(c, p, i)
<1>1. PICK t \in BeyondFirst(Snapshot(c, p), k) : t.id = i  BY DEF ActiveIds
<1>2. t \in Snapshot(c, p) /\ t.kind = k  BY DEF BeyondFirst, OfKind
<1>3. PICK u \in Snapshot(c, p) : u.kind = k /\ u.id < i
  BY <1>1 DEF BeyondFirst, OfKind
<1>4. i \in Ours(p, k)  BY <1>1, <1>2, SnapshotTransfer
<1>5. u.id \in Ours(p, k) /\ transfers[u.id].at[c] # "Unseen"
  BY <1>3, SnapshotTransfer
<1>. QED  BY <1>3, <1>4, <1>5 DEF Preceded, Ours

\* Of a payment whose stakes match nothing is canceled for its terms.
LEMMA TransfersMatch ==
    ASSUME TermsInv, NEW c, NEW p, Matching(p), NEW t \in Snapshot(c, p)
    PROVE  /\ t.kind = "Insurance" => ValidateInsuranceTransfer(t, Terms(p))
           /\ t.kind = "Parameterized" => ValidatePaymentTransfer(t, Terms(p))
<1>1. /\ t.id \in Ids /\ transfers[t.id].payment = p /\ transfers[t.id].kind = t.kind
      /\ t.amount = transfers[t.id].amount /\ t.token = transfers[t.id].token
  BY SnapshotTransfer DEF Ours
<1>2. t.amount = Price(t.kind, p) /\ t.token = Token(t.kind, p)
  BY <1>1 DEF TermsInv
<1>3. CASE t.kind = "Insurance"
  BY <1>2, <1>3 DEF ValidateInsuranceTransfer, Terms, Price, Token, Matching
<1>4. CASE t.kind = "Parameterized"
  BY <1>2, <1>4 DEF ValidatePaymentTransfer, Terms, Price, Token
<1>. QED  BY <1>3, <1>4

LEMMA ExtrasPreceded ==
    ASSUME TermsInv, NEW c, NEW p, Matching(p), NEW i \in Extras(c, p)
    PROVE  Preceded(c, p, i)
<1>. DEFINE snap == Snapshot(c, p)
<1>1. CASE i \in ExtraOffers(snap)
  BY <1>1, BeyondFirstPreceded DEF ExtraOffers
<1>2. CASE i \in ExtraPayments(snap, Terms(p))
  <2>1. \A t \in OfKind(snap, "Parameterized") : ValidatePaymentTransfer(t, Terms(p))
    BY TransfersMatch DEF OfKind
  <2>2. i \in ActiveIds(BeyondFirst(snap, "Parameterized"))
    BY <1>2, <2>1 DEF ExtraPayments
  <2>. QED  BY <2>2, BeyondFirstPreceded
<1>3. CASE i \in ExtraInsurance(snap, Terms(p))
  <2>1. \A t \in OfKind(snap, "Insurance") : ValidateInsuranceTransfer(t, Terms(p))
    BY TransfersMatch DEF OfKind
  <2>2. i \in ActiveIds(BeyondFirst(snap, "Insurance"))
    BY <1>3, <2>1 DEF ExtraInsurance
  <2>. QED  BY <2>2, BeyondFirstPreceded
<1>. QED  BY <1>1, <1>2, <1>3 DEF Extras

LEMMA ExtrasSpare ==
    ASSUME TermsInv, NEW c, NEW p, NEW i \in Extras(c, p)
    PROVE  Spare(c, p, i)
<1>1. PICK t \in Snapshot(c, p) : t.id = i
  BY DEF Extras, ExtraOffers, ExtraPayments, ExtraInsurance, ActiveIds, BeyondFirst, OfKind
<1>2. i \in Ids /\ transfers[i].payment = p  BY <1>1, SnapshotTransfer DEF Ours
<1>. QED  BY <1>2, ExtrasPreceded DEF Spare

LEMMA CancellingWhat ==
    ASSUME NEW stage, NEW c, NEW p, NEW todo, NEW next,
           NEW t \in Cancelling(stage, c, p, todo, next)
    PROVE  /\ t.stage = stage /\ t.core = c /\ t.payment = p
           /\ t.todo \cup t.next \subseteq todo \cup next
BY DEF Cancelling, Task

LEMMA RecoveryWhat ==
    ASSUME NEW stage, NEW c, NEW p, NEW t \in Recovery(stage, c, p, Snapshot(c, p))
    PROVE  t.core = c /\ t.payment = p /\ t.todo \cup t.next \subseteq Extras(c, p)
<1>. DEFINE snap == Snapshot(c, p)
<1>1. CASE c = To[p]
  <2>1. t \in Cancelling(stage, c, p, ExtraOffers(snap), ExtraPayments(snap, Terms(p)))
    BY <1>1 DEF Recovery
  <2>. QED  BY <1>1, <2>1, CancellingWhat DEF Extras
<1>2. CASE c # To[p]
  <2>1. t \in Cancelling(stage, c, p, ExtraInsurance(snap, Terms(p)), {})
    BY <1>2 DEF Recovery
  <2>. QED  BY <1>2, <2>1, CancellingWhat DEF Extras
<1>. QED  BY <1>1, <1>2

\* A new recovery is what is left of one that ran, or has what was extra in the
\* payment as it was read.
Continued(t) ==
    \E u \in tasks :
        /\ Recovering(u) /\ u.core = t.core /\ u.payment = t.payment
        /\ t.todo \cup t.next \subseteq u.todo \cup u.next

Begun(t) == Quiet /\ t.todo \cup t.next \subseteq Extras(t.core, t.payment)

LEMMA CancelOrigin ==
    ASSUME NEW u \in tasks, Cancel(u), NEW t \in tasks' \ tasks
    PROVE  Continued(t)
<1>1. PICK i \in u.todo, next \in {u.next, {}} :
         t \in Cancelling(u.stage, u.core, u.payment, u.todo \ {i}, next)
  BY DEF Cancel
<1>2. /\ t.core = u.core /\ t.payment = u.payment
      /\ t.todo \cup t.next \subseteq (u.todo \ {i}) \cup next
  BY <1>1, CancellingWhat
<1>3. next \subseteq u.next  BY <1>1
<1>4. t.todo \cup t.next \subseteq u.todo \cup u.next  BY <1>2, <1>3
<1>5. Recovering(u)  BY DEF Cancel, Recovering
<1>. QED  BY <1>2, <1>4, <1>5 DEF Continued

LEMMA RecoveryOrigin ==
    ASSUME PaymentAssumption, TypeInv, [Next]_vars, NEW t \in tasks' \ tasks, Recovering(t)
    PROVE  Continued(t) \/ Begun(t)
<1>1. ASSUME NEW u \in tasks, TaskStep(u) PROVE Continued(t)
  <2>1. CASE Delay(u)  BY <2>1 DEF Delay
  <2>2. CASE AcceptPayment(u)
    BY <2>2 DEF AcceptPayment, Task, Recovering
  <2>3. CASE ResolveTransfer(u)  BY <2>3 DEF ResolveTransfer
  <2>4. CASE Cancel(u)  BY <2>4, CancelOrigin
  <2>. QED  BY <1>1, <2>1, <2>2, <2>3, <2>4 DEF TaskStep
<1>2. ASSUME NEW p \in Payments, NEW c \in Cores, Read(c, p) PROVE Begun(t)
  <2>1. Quiet  BY <1>2 DEF Read, Quiet, channel
  <2>2. PICK new \in Advance(c, p, Snapshot(c, p)) : t \in new  BY <1>2 DEF Read
  <2>3. t \in Recovery("recover", c, p, Snapshot(c, p))
    BY <2>2 DEF Advance, Task, Recovering
  <2>. QED  BY <2>1, <2>3, RecoveryWhat DEF Begun
<1>3. ASSUME NEW p \in Payments, NEW c \in Cores, RepairPayments(c, p) PROVE Begun(t)
  <2>1. Quiet  BY <1>3 DEF RepairPayments, Quiet, channel
  <2>2. t \in Recovery("repair", c, p, Snapshot(c, p))  BY <1>3 DEF RepairPayments
  <2>. QED  BY <2>1, <2>2, RecoveryWhat DEF Begun
<1>4. ASSUME NEW p \in Payments, ResolveInsurance(p) PROVE FALSE
  BY <1>4 DEF ResolveInsurance, Task, Recovering
<1>5. ASSUME NEW p \in Payments, HandlerStep(p) \/ CallStep(p) PROVE Begun(t)
  BY <1>2, <1>3, <1>4, <1>5 DEF HandlerStep, CallStep, DelayAsset, ProvideAsset,
     ProvideStake, InitiateSendFunds, SendFunds, AcceptOffer, handlers
<1>6. ASSUME NEW i \in Ids, RouterStep(i) PROVE FALSE
  BY <1>6 DEF RouterStep, Forward, Return, Settle
<1>7. ASSUME NEW c \in Cores, HostStep(c) PROVE FALSE
  BY <1>7 DEF HostStep, ProxyCreated, ConnectorActivated, Crash, handlers
<1>8. CASE UNCHANGED vars  BY <1>8 DEF vars, handlers
<1>. QED  BY <1>1, <1>5, <1>6, <1>7, <1>8 DEF Next

LEMMA SpareStable ==
    ASSUME PaymentAssumption, TypeInv, [Next]_vars, NEW c \in Cores, NEW p, NEW i,
           Spare(c, p, i)
    PROVE  Spare(c, p, i)'
<1>1. i \in Ids /\ transfers[i].payment = p  BY DEF Spare
<1>2. i \in Ids' /\ transfers'[i].payment = p /\ transfers'[i].kind = transfers[i].kind
  BY <1>1, Growth
<1>3. ASSUME Matching(p) PROVE Preceded(c, p, i)'
  <2>1. PICK j \in Ours(p, transfers[i].kind) : j < i /\ transfers[j].at[c] # "Unseen"
    BY <1>3 DEF Spare, Preceded
  <2>2. j \in Ids  BY DEF Ours
  <2>3. j \in Ours(p, transfers[i].kind)' /\ transfers'[j].at[c] # "Unseen"
    BY <1>2, <2>1, <2>2, Growth DEF Ours
  <2>. QED  BY <1>2, <2>1, <2>3 DEF Preceded, Ours
<1>. QED  BY <1>2, <1>3 DEF Spare, Matching

LEMMA RecoveryStep ==
    ASSUME PaymentAssumption, TypeInv, TermsInv, RecoveryInv, [Next]_vars
    PROVE  RecoveryInv'
<1>. SUFFICES ASSUME NEW t \in tasks', Recovering(t), NEW i \in t.todo \cup t.next
              PROVE  Spare(t.core, t.payment, i)'
  BY DEF RecoveryInv, Recovering
<1>1. t.core \in Cores
  <2>1. TypeInv'  BY TypeStep
  <2>. QED  BY <2>1 DEF TypeInv, RestInv, TaskType
<1>2. Spare(t.core, t.payment, i)
  <2>1. CASE t \in tasks  BY <2>1 DEF RecoveryInv
  <2>2. CASE t \notin tasks
    <3>1. Continued(t) \/ Begun(t)  BY <2>2, RecoveryOrigin
    <3>2. CASE Continued(t)
      <4>1. PICK u \in tasks : /\ Recovering(u)
                               /\ u.core = t.core /\ u.payment = t.payment
                               /\ t.todo \cup t.next \subseteq u.todo \cup u.next
        BY <3>2 DEF Continued
      <4>. QED  BY <4>1 DEF RecoveryInv
    <3>3. CASE Begun(t)  BY <3>3, ExtrasSpare DEF Begun
    <3>. QED  BY <3>1, <3>2, <3>3
  <2>. QED  BY <2>1, <2>2
<1>. QED  BY <1>1, <1>2, SpareStable

-----------------------------------------------------------------------------
(* The first transfer that the responder has seen.                         *)

\* A responder comes to see one transfer at a time, which is active then.
LEMMA NewDelivered ==
    ASSUME PaymentAssumption, TypeInv, [Next]_vars, NEW p \in Payments, NEW k \in Kinds,
           NEW i \in Delivered(p, k)', i \notin Delivered(p, k)
    PROVE  /\ i \in Ids /\ transfers'[i].at[ResponderOf(k, p)] = "Active"
           /\ \A j \in Ids : j # i => transfers'[j] = transfers[j]
           /\ Ids' = Ids
<1>. DEFINE r == ResponderOf(k, p)
<1>1. /\ i \in Ids' /\ transfers'[i].payment = p /\ transfers'[i].kind = k
      /\ transfers'[i].at[r] # "Unseen"
  BY DEF Delivered, Ours
<1>2. r \in Cores /\ InitiatorOf(k, p) # r  BY SidesDiffer
<1>3. ASSUME NEW kind, NEW q, Created(kind, q) PROVE i \in Ids /\ transfers'[i] = transfers[i]
  <2>1. CASE i \in Ids  BY <1>3, <2>1 DEF Created
  <2>2. CASE i \notin Ids  BY <1>1, <1>2, <1>3, <2>2 DEF Created
  <2>. QED  BY <2>1, <2>2
<1>4. ASSUME transfers'[i] = transfers[i], i \in Ids PROVE FALSE
  BY <1>1, <1>4 DEF Delivered, Ours
<1>5. ASSUME NEW kind, NEW q, Created(kind, q) PROVE FALSE  BY <1>3, <1>4, <1>5
<1>6. CASE Quiet  BY <1>1, <1>4, <1>6 DEF Quiet, Ids
<1>7. ASSUME NEW j \in Ids, NEW c, NEW status, NEW award, Changed(c, j, status, award)
      PROVE  /\ i = j /\ c = r /\ transfers[i].at[r] = "Unseen"
             /\ transfers'[i].at[r] = status /\ Ids' = Ids
             /\ \A l \in Ids : l # i => transfers'[l] = transfers[l]
  <2>1. i = j  BY <1>1, <1>4, <1>7 DEF Changed
  <2>2. transfers[i].payment = p /\ transfers[i].kind = k  BY <1>1, <1>7, <2>1 DEF Changed
  <2>3. transfers[i].at[r] = "Unseen"  BY <2>1, <2>2 DEF Delivered, Ours
  <2>. QED  BY <1>1, <1>2, <1>7, <2>1, <2>3 DEF Changed
<1>8. ASSUME NEW j \in Ids, Forwarded(j)
      PROVE  /\ i \in Ids /\ transfers'[i].at[r] = "Active" /\ Ids' = Ids
             /\ \A l \in Ids : l # i => transfers'[l] = transfers[l]
  BY <1>7, <1>8 DEF Forwarded
<1>9. ASSUME NEW j \in Ids, Ended(j) PROVE FALSE
  <2>1. \E status, award : Changed(Initiator(j), j, status, award)  BY <1>9 DEF Ended
  <2>2. i = j /\ Initiator(i) = r /\ Ids' = Ids  BY <1>7, <2>1
  <2>3. transfers[i].at[Initiator(i)] = "Active"  BY <1>9, <2>2 DEF Ended
  <2>4. transfers[i].at[r] = "Unseen"  BY <1>7, <2>1
  <2>. QED  BY <2>2, <2>3, <2>4
<1>10. ASSUME NEW t \in tasks, NEW j \in Ids, ResolvedBy(t, j) \/ CanceledBy(t, j)
       PROVE  FALSE
  <2>1. /\ \E status, award : Changed(t.core, j, status, award)
        /\ transfers[j].at[t.core] = "Active"
    BY <1>10 DEF ResolvedBy, CanceledBy, Resolvable
  <2>. QED  BY <1>7, <2>1
<1>. QED
  BY <1>5, <1>6, <1>8, <1>9, <1>10, StepEffect DEF ChannelEffect, Offered, Provided

LEMMA DeliveredKept ==
    ASSUME PaymentAssumption, TypeInv, [Next]_vars, NEW p \in Payments, NEW k \in Kinds
    PROVE  Delivered(p, k) \subseteq Delivered(p, k)'
BY SidesDiffer, Growth DEF Delivered, Ours

\* What the responder cancels in this step, a recovery told it to.
LEMMA NewCanceled ==
    ASSUME PaymentAssumption, TypeInv, [Next]_vars, NEW p \in Payments, NEW k \in Kinds,
           NEW i \in Delivered(p, k), transfers[i].at[ResponderOf(k, p)] # "Canceled",
           transfers'[i].at[ResponderOf(k, p)] = "Canceled"
    PROVE  \E t \in tasks : CanceledBy(t, i) /\ t.core = ResponderOf(k, p)
<1>. DEFINE r == ResponderOf(k, p)
<1>1. /\ i \in Ids /\ transfers[i].payment = p /\ transfers[i].kind = k
      /\ transfers[i].at[r] # "Unseen"
  BY DEF Delivered, Ours
<1>2. r \in Cores /\ InitiatorOf(k, p) # r  BY SidesDiffer
<1>3. Initiator(i) # r /\ Responder(i) = r  BY <1>1, <1>2 DEF Initiator, Responder
<1>4. transfers'[i] # transfers[i]  OBVIOUS
<1>5. ASSUME NEW kind, NEW q, Created(kind, q) PROVE FALSE
  BY <1>1, <1>4, <1>5 DEF Created
<1>6. CASE Quiet  BY <1>4, <1>6 DEF Quiet
<1>7. ASSUME NEW j \in Ids, Forwarded(j) PROVE FALSE
  BY <1>1, <1>2, <1>3, <1>4, <1>7 DEF Forwarded, Changed
<1>8. ASSUME NEW j \in Ids, Ended(j) PROVE FALSE
  BY <1>1, <1>2, <1>3, <1>4, <1>8 DEF Ended, Changed
<1>9. ASSUME NEW t \in tasks, NEW j \in Ids, ResolvedBy(t, j) PROVE FALSE
  BY <1>1, <1>2, <1>3, <1>4, <1>9 DEF ResolvedBy, Changed
<1>10. ASSUME NEW t \in tasks, NEW j \in Ids, CanceledBy(t, j)
       PROVE  CanceledBy(t, i) /\ t.core = r
  BY <1>1, <1>2, <1>3, <1>4, <1>10 DEF CanceledBy, Changed, Resolvable
<1>. QED
  BY <1>5, <1>6, <1>7, <1>8, <1>9, <1>10, StepEffect
     DEF ChannelEffect, Offered, Provided

LEMMA FirstStep ==
    ASSUME PaymentAssumption, TypeInv, RecoveryInv, FirstInv, [Next]_vars
    PROVE  FirstInv'
<1>. SUFFICES ASSUME NEW p \in Payments, NEW k \in Kinds, Matching(p),
                     Delivered(p, k)' # {}
              PROVE  \E m \in Ids' : /\ Earliest(p, k, m)'
                                     /\ transfers'[m].at[ResponderOf(k, p)] # "Canceled"
  BY DEF FirstInv, Matching, ResponderOf
<1>. DEFINE r == ResponderOf(k, p)
<1>1. Ids \subseteq Nat /\ Delivered(p, k) \subseteq Ids  BY IdsFacts DEF Delivered, Ours
<1>2. Delivered(p, k) \subseteq Delivered(p, k)'  BY DeliveredKept
<1>3. CASE Delivered(p, k)' = Delivered(p, k)
  <2>1. PICK m \in Ids : Earliest(p, k, m) /\ transfers[m].at[r] # "Canceled"
    BY <1>3 DEF FirstInv
  <2>2. m \in Delivered(p, k)  BY <2>1 DEF Earliest
  <2>3. transfers'[m].at[r] # "Canceled"
    <3>1. SUFFICES ASSUME transfers'[m].at[r] = "Canceled" PROVE FALSE  OBVIOUS
    <3>2. PICK t \in tasks : CanceledBy(t, m) /\ t.core = r
      BY <2>1, <2>2, <3>1, NewCanceled
    <3>3. Responder(m) = r /\ transfers[m].payment = p /\ transfers[m].kind = k
      BY <2>2, <3>2 DEF CanceledBy, Resolvable, Delivered, Ours
    <3>4. Recovering(t) /\ m \in t.todo  BY <3>2 DEF CanceledBy
    <3>5. Spare(r, t.payment, m)  BY <3>2, <3>4 DEF RecoveryInv
    <3>6. Preceded(r, p, m)  BY <3>3, <3>5 DEF Spare
    <3>7. \E j \in Delivered(p, k) : j < m  BY <3>3, <3>6 DEF Preceded, Delivered
    <3>. QED  BY <1>1, <2>1, <2>2, <3>7 DEF Earliest
  <2>4. m \in Ids'  BY <1>2, <2>2 DEF Delivered, Ours
  <2>. QED  BY <1>3, <2>1, <2>3, <2>4 DEF Earliest
<1>4. CASE Delivered(p, k)' # Delivered(p, k)
  <2>1. PICK i \in Delivered(p, k)' : i \notin Delivered(p, k)  BY <1>2, <1>4
  <2>2. /\ i \in Ids /\ transfers'[i].at[r] = "Active"
        /\ \A j \in Ids : j # i => transfers'[j] = transfers[j]
        /\ Ids' = Ids
    BY <2>1, NewDelivered
  <2>3. Delivered(p, k)' = Delivered(p, k) \cup {i}
    <3>1. ASSUME NEW j \in Delivered(p, k)', j \notin Delivered(p, k) PROVE j = i
      BY <2>1, <2>2, <3>1 DEF Delivered, Ours
    <3>. QED  BY <1>2, <2>1, <3>1
  <2>4. CASE Delivered(p, k) = {}
    BY <1>1, <2>2, <2>3, <2>4 DEF Earliest
  <2>5. CASE Delivered(p, k) # {}
    <3>1. PICK m \in Ids : Earliest(p, k, m) /\ transfers[m].at[r] # "Canceled"
      BY <2>5 DEF FirstInv
    <3>2. m \in Delivered(p, k) /\ \A j \in Delivered(p, k) : m <= j
      BY <3>1 DEF Earliest
    <3>3. CASE i < m
      <4>1. \A j \in Delivered(p, k)' : i <= j  BY <1>1, <2>2, <2>3, <3>2, <3>3
      <4>. QED  BY <2>1, <2>2, <4>1 DEF Earliest
    <3>4. CASE ~(i < m)
      <4>1. \A j \in Delivered(p, k)' : m <= j  BY <1>1, <2>2, <2>3, <3>2, <3>4
      <4>2. transfers'[m].at[r] # "Canceled"  BY <2>1, <2>2, <3>1, <3>2
      <4>. QED  BY <2>2, <2>3, <3>2, <4>1, <4>2 DEF Earliest
    <3>. QED  BY <3>3, <3>4
  <2>. QED  BY <2>4, <2>5
<1>. QED  BY <1>3, <1>4

-----------------------------------------------------------------------------
RecoveredInv == TypeInv /\ FundedInv /\ TermsInv /\ RecoveryInv /\ FirstInv

LEMMA RecoveredInit == ASSUME PaymentAssumption, BoundAssumption, Init PROVE RecoveredInv
<1>1. TypeInv /\ Ids = {}  BY InitType, NoTransfersAtFirst
<1>. QED
  BY <1>1 DEF RecoveredInv, FundedInv, TermsInv, RecoveryInv, FirstInv, Delivered, Ours,
     Init

LEMMA RecoveredStep ==
    ASSUME PaymentAssumption, BoundAssumption, RecoveredInv, [Next]_vars
    PROVE  RecoveredInv'
BY TypeStep, FundedStep, TermsStep, RecoveryStep, FirstStep DEF RecoveredInv

\* The first one that was seen is there, seen as active or resolved.
LEMMA FirstIsLive ==
    ASSUME PaymentAssumption, RecoveredInv, NEW p \in Payments, NEW k \in Kinds,
           Matching(p), Delivered(p, k) # {}
    PROVE  \E m \in Ours(p, k) : transfers[m].at[ResponderOf(k, p)] \in {"Active", "Resolved"}
<1>. DEFINE r == ResponderOf(k, p)
<1>1. PICK m \in Ids : Earliest(p, k, m) /\ transfers[m].at[r] # "Canceled"
  BY DEF RecoveredInv, FirstInv
<1>2. m \in Ours(p, k) /\ transfers[m].at[r] # "Unseen"
  BY <1>1 DEF Earliest, Delivered
<1>3. transfers[m].at[r] \in Statuses
  BY SidesDiffer, TransferFacts DEF RecoveredInv, TransferType
<1>. QED  BY <1>1, <1>2, <1>3 DEF Statuses

\* A payment that was taken stays insured until the gateway decides, however many
\* stakes were posted and whichever of them recovery canceled.
THEOREM PaidIsInsured == Spec => []PaidMeansInsured
<1>1. Init => RecoveredInv  BY PaymentAssumption, BoundAssumption, RecoveredInit
<1>2. RecoveredInv /\ [Next]_vars => RecoveredInv'
  BY PaymentAssumption, BoundAssumption, RecoveredStep
<1>3. RecoveredInv => PaidMeansInsured
  <2>. SUFFICES ASSUME RecoveredInv, NEW p \in Payments, Done(p, "Parameterized") # {}
                PROVE  \E i \in Ours(p, "Insurance") :
                          /\ transfers[i].at[From[p]] \in {"Active", "Resolved"}
                          /\ transfers[i].amount = Stake[p]
                          /\ transfers[i].token = Hypertoken[From[p]]
    BY DEF PaidMeansInsured
  <2>1. SeenStake(p)  BY DEF RecoveredInv, FundedInv, Done
  <2>2. \A i \in Ours(p, "Insurance") :
           transfers[i].amount = Stake[p] /\ transfers[i].token = Hypertoken[To[p]]
    BY DEF RecoveredInv, TermsInv, Ours, Price, Token
  <2>3. Matching(p)  BY <2>1, <2>2 DEF SeenStake, Matching
  <2>4. ResponderOf("Insurance", p) = From[p]  BY DEF ResponderOf
  <2>5. Delivered(p, "Insurance") # {}  BY <2>1, <2>4 DEF SeenStake, Delivered
  <2>6. PICK m \in Ours(p, "Insurance") :
           transfers[m].at[From[p]] \in {"Active", "Resolved"}
    BY <2>3, <2>4, <2>5, FirstIsLive, PaymentAssumption DEF Kinds
  <2>. QED  BY <2>2, <2>3, <2>6 DEF Matching
<1>. QED  BY <1>1, <1>2, <1>3, PTL DEF Spec

\* Recovery removes extras, never the payment: when a responder cancels a transfer,
\* another one of its kind and payment is left that it has not canceled.  Without
\* a common hypertoken a first stake may go, since it does not match the offer.
THEOREM RecoveryLeavesOne ==
    ASSUME \A p \in Payments : Matching(p)
    PROVE  Spec => CancelLeavesOne
<1>. DEFINE Canceling(i, r) ==
               transfers[i].at[r] = "Active" /\ transfers'[i].at[r] = "Canceled"
            Left(i, r) ==
               \E j \in Ours(transfers[i].payment, transfers[i].kind) \ {i} :
                   transfers'[j].at[r] \in {"Active", "Resolved"}
<1>1. Init => RecoveredInv  BY PaymentAssumption, BoundAssumption, RecoveredInit
<1>2. RecoveredInv /\ [Next]_vars => RecoveredInv'
  BY PaymentAssumption, BoundAssumption, RecoveredStep
<1>3. ASSUME RecoveredInv, RecoveredInv', [Next]_vars, NEW i \in Ids,
             Canceling(i, Responder(i))
      PROVE  Left(i, Responder(i))
  <2>1. TypeInv /\ PaymentAssumption  BY <1>3, PaymentAssumption DEF RecoveredInv
  <2>2. PICK p \in Payments, k \in Kinds : p = transfers[i].payment /\ k = transfers[i].kind
    BY <2>1, TransferFacts DEF TransferType
  <2>. DEFINE r == ResponderOf(k, p)
  <2>3. r = Responder(i) /\ r \in Cores  BY <2>1, <2>2, SidesDiffer DEF Responder
  <2>4. i \in Delivered(p, k)  BY <1>3, <2>2, <2>3 DEF Delivered, Ours
  <2>5. i \in Delivered(p, k)'  BY <1>3, <2>1, <2>4, DeliveredKept
  <2>6. PICK m \in Ids' : Earliest(p, k, m)' /\ transfers'[m].at[r] # "Canceled"
    BY <1>3, <2>5 DEF RecoveredInv, FirstInv, Matching, ResponderOf
  <2>7. transfers'[i] # transfers[i]  BY <1>3
  <2>8. m \in Ids  BY <1>3, <2>1, <2>7, NewTransfer
  <2>9. /\ transfers'[m].payment = p /\ transfers'[m].kind = k
        /\ transfers'[m].at[r] # "Unseen"
    BY <2>6 DEF Earliest, Delivered, Ours, ResponderOf
  <2>10. transfers'[m].at[r] \in Statuses
    <3>1. transfers' \in Seq(TransferType)
      BY <1>3 DEF RecoveredInv, TypeInv, ChannelInv
    <3>2. transfers'[m] \in TransferType  BY <2>6, <3>1, ElementOfSeq DEF Ids
    <3>. QED  BY <2>3, <3>2 DEF TransferType
  <2>11. transfers[m].payment = p /\ transfers[m].kind = k
    BY <1>3, <2>1, <2>8, <2>9, Growth
  <2>12. m \in Ours(p, k) \ {i}  BY <1>3, <2>3, <2>6, <2>8, <2>11 DEF Ours
  <2>. QED  BY <2>2, <2>3, <2>6, <2>9, <2>10, <2>12 DEF Statuses
<1>4. RecoveredInv /\ RecoveredInv' /\ [Next]_vars
        => [\A i \in Ids :
               LET r == Responder(i)
               IN  transfers[i].at[r] = "Active" /\ transfers'[i].at[r] = "Canceled" =>
                     \E j \in Ours(transfers[i].payment, transfers[i].kind) \ {i} :
                         transfers'[j].at[r] \in {"Active", "Resolved"}]_vars
  BY <1>3
<1>. QED  BY <1>1, <1>2, <1>4, PTL DEF Spec, CancelLeavesOne

-----------------------------------------------------------------------------
(***************************************************************************)
(* Every coin is accounted for.                                            *)
(*                                                                         *)
(* What a transfer has taken from a core depends on its status there and   *)
(* on its award. A call of the node gives back to one core just what the   *)
(* transfer no longer takes from it; for the other core nothing may change *)
(* although the award does, and so the initiator's end has to be open for  *)
(* as long as the responder's is.                                          *)
(***************************************************************************)

EndsInv ==
    \A i \in Ids :
        LET t == transfers[i]
        IN  /\ t.at[Responder(i)] \in {"Unseen", "Canceled"} => t.award = 0
            /\ t.at[Responder(i)] = "Active" => t.award = 0 /\ t.at[Initiator(i)] = "Active"

LEMMA EndsDiffer ==
    ASSUME PaymentAssumption, TypeInv, NEW i \in Ids
    PROVE  /\ Initiator(i) \in Cores /\ Responder(i) \in Cores
           /\ Initiator(i) # Responder(i)
<1>1. transfers[i].payment \in Payments  BY TransferFacts DEF TransferType
<1>. QED  BY <1>1, SidesDiffer DEF Initiator, Responder

LEMMA EndsChanged ==
    ASSUME PaymentAssumption, TypeInv, EndsInv, NEW c, NEW i \in Ids, NEW status, NEW award,
           Changed(c, i, status, award),
           \/ c = Responder(i) /\ status = "Active" /\ award = 0
                /\ transfers[i].at[Initiator(i)] = "Active"
           \/ c = Responder(i) /\ status = "Resolved"
           \/ c = Responder(i) /\ status = "Canceled" /\ award = 0
           \/ c = Initiator(i) /\ award = transfers[i].award
                /\ transfers[i].at[Responder(i)] # "Active"
    PROVE  EndsInv'
<1>. SUFFICES ASSUME NEW j \in Ids'
              PROVE  LET t == transfers'[j]
                     IN  /\ t.at[Responder(j)'] \in {"Unseen", "Canceled"} => t.award = 0
                         /\ t.at[Responder(j)'] = "Active"
                               => t.award = 0 /\ t.at[Initiator(j)'] = "Active"
  BY DEF EndsInv
<1>1. j \in Ids  BY DEF Changed
<1>2. Responder(j)' = Responder(j) /\ Initiator(j)' = Initiator(j)
  BY <1>1 DEF Changed, Initiator, Responder
<1>3. Initiator(j) \in Cores /\ Responder(j) \in Cores /\ Initiator(j) # Responder(j)
  BY <1>1, EndsDiffer
<1>4. CASE j # i  BY <1>1, <1>2, <1>4 DEF Changed, EndsInv
<1>5. CASE j = i
  <2>1. /\ transfers'[i].award = award
        /\ \A d \in Cores : transfers'[i].at[d] = IF d = c THEN status ELSE transfers[i].at[d]
    BY DEF Changed
  <2>. QED  BY <1>2, <1>3, <1>5, <2>1 DEF EndsInv
<1>. QED  BY <1>4, <1>5

LEMMA EndsCreated ==
    ASSUME PaymentAssumption, TypeInv, EndsInv, NEW kind, NEW p \in Payments, Created(kind, p)
    PROVE  EndsInv'
<1>. DEFINE n == Len(transfers) + 1
<1>. SUFFICES ASSUME NEW j \in Ids'
              PROVE  LET t == transfers'[j]
                     IN  /\ t.at[Responder(j)'] \in {"Unseen", "Canceled"} => t.award = 0
                         /\ t.at[Responder(j)'] = "Active"
                               => t.award = 0 /\ t.at[Initiator(j)'] = "Active"
  BY DEF EndsInv
<1>1. CASE j = n
  <2>1. InitiatorOf(kind, p) # ResponderOf(kind, p)
        /\ InitiatorOf(kind, p) \in Cores /\ ResponderOf(kind, p) \in Cores
    BY SidesDiffer
  <2>2. Responder(j)' = ResponderOf(kind, p) /\ Initiator(j)' = InitiatorOf(kind, p)
    BY <1>1 DEF Created, Responder, Initiator
  <2>3. transfers'[n].award = 0 /\ transfers'[n].at[ResponderOf(kind, p)] = "Unseen"
    BY <2>1 DEF Created
  <2>. QED  BY <1>1, <2>2, <2>3
<1>2. CASE j # n
  <2>1. j \in Ids  BY <1>2 DEF Created
  <2>2. transfers'[j] = transfers[j]  BY <2>1 DEF Created
  <2>3. Responder(j)' = Responder(j) /\ Initiator(j)' = Initiator(j)
    BY <2>2 DEF Initiator, Responder
  <2>. QED  BY <2>1, <2>2, <2>3 DEF EndsInv
<1>. QED  BY <1>1, <1>2

LEMMA EndsStep ==
    ASSUME PaymentAssumption, TypeInv, EndsInv, [Next]_vars
    PROVE  EndsInv'
<1>1. CASE Quiet  BY <1>1 DEF Quiet, EndsInv, Ids, Initiator, Responder
<1>2. ASSUME NEW p \in Payments, NEW kind, Created(kind, p) PROVE EndsInv'
  BY <1>2, EndsCreated
<1>3. ASSUME NEW i \in Ids, Forwarded(i) PROVE EndsInv'
  BY <1>3, EndsChanged DEF Forwarded
<1>4. ASSUME NEW i \in Ids, Ended(i) PROVE EndsInv'
  <2>1. CASE /\ transfers[i].at[Responder(i)] \in {"Resolved", "Canceled"}
             /\ Changed(Initiator(i), i, transfers[i].at[Responder(i)], transfers[i].award)
    <3>1. transfers[i].at[Responder(i)] # "Active"  BY <2>1
    <3>. QED  BY <2>1, <3>1, EndsChanged
  <2>2. CASE /\ transfers[i].at[Responder(i)] = "Unseen"
             /\ Changed(Initiator(i), i, "Canceled", 0)
    <3>1. transfers[i].award = 0  BY <2>2 DEF EndsInv
    <3>. QED  BY <2>2, <3>1, EndsChanged
  <2>. QED  BY <1>4, <2>1, <2>2 DEF Ended
<1>5. ASSUME NEW t \in tasks, NEW i \in Ids, ResolvedBy(t, i) PROVE EndsInv'
  BY <1>5, EndsChanged DEF ResolvedBy, Resolvable
<1>6. ASSUME NEW t \in tasks, NEW i \in Ids, CanceledBy(t, i) PROVE EndsInv'
  BY <1>6, EndsChanged DEF CanceledBy, Resolvable
<1>. QED
  BY <1>1, <1>2, <1>3, <1>4, <1>5, <1>6, StepEffect DEF ChannelEffect, Provided, Offered

\* What each transfer took from core c's balance of asset a.
Shares(c, a) ==
    [i \in Ids |-> IF Pot(transfers[i].kind) = a THEN Taken(c, transfers[i]) ELSE 0]

LEMMA TakenType ==
    ASSUME NEW c \in Cores, NEW t \in TransferType
    PROVE  Taken(c, t) \in Int
<1>1. t.amount \in Int /\ t.award \in Int /\ 0 - t.award \in Int  BY DEF TransferType
<1>. QED  BY <1>1 DEF Taken

LEMMA SharesType ==
    ASSUME PaymentAssumption, TypeInv, NEW c \in Cores, NEW a
    PROVE  IsFiniteSet(Ids) /\ Shares(c, a) \in [Ids -> Int]
<1>1. IsFiniteSet(Ids)
  <2>1. Len(transfers) \in Nat /\ Ids = 1 .. Len(transfers)  BY IdsFacts
  <2>. QED  BY <2>1, FS_Interval
<1>2. ASSUME NEW i \in Ids PROVE Taken(c, transfers[i]) \in Int
  BY TransferFacts, TakenType
<1>. QED  BY <1>1, <1>2 DEF Shares

\* One transfer takes less by what its update pays back.
LEMMA FundsUpdated ==
    ASSUME PaymentAssumption, TypeInv, FundsAddUp, NEW d \in Cores, NEW i \in Ids,
           NEW status \in Statuses, NEW award \in Nat, NEW refund \in Nat, NEW what,
           award <= transfers[i].amount,
           Update(d, i, status, award, refund, what), TypeInv',
           Taken(d, transfers'[i]) = Taken(d, transfers[i]) - refund,
           \A c \in Cores : c # d => Taken(c, transfers'[i]) = Taken(c, transfers[i])
    PROVE  FundsAddUp'
<1>. SUFFICES ASSUME NEW c \in Cores, NEW a \in Assets
              PROVE  free'[c][a] + SumFunction(Shares(c, a)') = Funds
  BY DEF FundsAddUp, Assets, Shares
<1>1. free[c][a] + SumFunction(Shares(c, a)) = Funds  BY DEF FundsAddUp, Assets, Shares
<1>2. Changed(d, i, status, award)  BY UpdateEffect
<1>3. Ids' = Ids /\ IsFiniteSet(Ids)  BY <1>2, SharesType DEF Changed
<1>4. PICK f : f = Shares(c, a)  OBVIOUS
<1>5. PICK h : h = Shares(c, a)'  OBVIOUS
<1>6. f \in [Ids -> Int]  BY <1>4, SharesType
<1>7. h \in [Ids -> Int]
  <2>1. ASSUME NEW j \in Ids PROVE Taken(c, transfers'[j]) \in Int
    <3>1. transfers'[j] \in TransferType
      <4>1. transfers' \in Seq(TransferType)  BY DEF TypeInv, ChannelInv
      <4>2. j \in 1 .. Len(transfers')  BY <1>3, <4>1, LenProperties DEF Ids
      <4>. QED  BY <4>1, <4>2, ElementOfSeq
    <3>. QED  BY <3>1, TakenType
  <2>. QED  BY <1>3, <1>5, <2>1 DEF Shares
<1>8. \A j \in Ids \ {i} : h[j] = f[j]
  BY <1>2, <1>3, <1>4, <1>5 DEF Shares, Changed
<1>9. SumFunction(h) = SumFunction(f) + h[i] - f[i]
  <2>1. PICK I : I = Ids  OBVIOUS
  <2>2. i \in I /\ IsFiniteSet(I) /\ f \in [I -> Int] /\ h \in [I -> Int]
        /\ \A j \in I \ {i} : h[j] = f[j]
    BY <1>3, <1>6, <1>7, <1>8, <2>1
  <2>. QED  BY <2>2, SumChanged
<1>10. /\ f[i] = IF Pot(transfers[i].kind) = a THEN Taken(c, transfers[i]) ELSE 0
       /\ h[i] = IF Pot(transfers[i].kind) = a THEN Taken(c, transfers'[i]) ELSE 0
  BY <1>2, <1>3, <1>4, <1>5 DEF Shares, Changed
<1>11. free'[c][a] = IF c = d /\ a = Pot(transfers[i].kind) THEN free[c][a] + refund
                     ELSE free[c][a]
  <2>1. free \in [Cores -> [Assets -> Nat]]  BY DEF TypeInv, ChannelInv
  <2>2. Pot(transfers[i].kind) \in Assets  BY DEF Pot, Assets
  <2>. QED  BY <2>1, <2>2 DEF Update
<1>12. free[c][a] \in Int /\ SumFunction(f) \in Int /\ f[i] \in Int /\ h[i] \in Int
  <2>1. free[c][a] \in Nat  BY DEF TypeInv, ChannelInv
  <2>2. SumFunction(f) \in Int
    <3>1. PICK I : I = Ids  OBVIOUS
    <3>. QED  BY <1>3, <1>6, <3>1, SumIsInt
  <2>. QED  BY <1>6, <1>7, <2>1, <2>2
<1>13. h[i] - f[i] = IF c = d /\ a = Pot(transfers[i].kind) THEN 0 - refund ELSE 0
  BY <1>10, <1>12
<1>. QED  BY <1>1, <1>4, <1>5, <1>9, <1>11, <1>12, <1>13

\* A new transfer takes what is no longer free.
LEMMA FundsCreated ==
    ASSUME PaymentAssumption, TypeInv, FundsAddUp, NEW kind \in Kinds, NEW p \in Payments,
           Create(kind, p)
    PROVE  FundsAddUp'
<1>. DEFINE n == Len(transfers) + 1
            d == InitiatorOf(kind, p)
<1>. SUFFICES ASSUME NEW c \in Cores, NEW a \in Assets
              PROVE  free'[c][a] + SumFunction(Shares(c, a)') = Funds
  BY DEF FundsAddUp, Assets, Shares
<1>1. free[c][a] + SumFunction(Shares(c, a)) = Funds  BY DEF FundsAddUp, Assets, Shares
<1>2. Created(kind, p)  BY CreateEffect
<1>3. n \notin Ids /\ Ids' = Ids \cup {n} /\ IsFiniteSet(Ids)
  <2>1. Len(transfers) \in Nat /\ Ids = 1 .. Len(transfers)  BY IdsFacts
  <2>2. n \notin Ids  BY <2>1
  <2>3. Ids' = Ids \cup {n}  BY <1>2 DEF Created
  <2>. QED  BY <2>2, <2>3, SharesType
<1>4. PICK f : f = Shares(c, a)  OBVIOUS
<1>5. PICK h : h = Shares(c, a)'  OBVIOUS
<1>6. f \in [Ids -> Int]  BY <1>4, SharesType
<1>7. \A i \in Ids : h[i] = f[i]
  BY <1>2, <1>3, <1>4, <1>5 DEF Shares, Created
<1>8. Price(kind, p) \in Nat  BY PriceType
<1>9. h[n] = IF c = d /\ a = Pot(kind) THEN Price(kind, p) ELSE 0
  <2>1. InitiatorOf(kind, p) # ResponderOf(kind, p)  BY SidesDiffer
  <2>2. /\ transfers'[n].kind = kind /\ transfers'[n].payment = p
        /\ transfers'[n].amount = Price(kind, p) /\ transfers'[n].award = 0
        /\ transfers'[n].at[c] = IF c = d THEN "Active" ELSE "Unseen"
    BY <1>2 DEF Created
  <2>3. Taken(c, transfers'[n]) = IF c = d THEN Price(kind, p) ELSE 0
    BY <2>1, <2>2 DEF Taken
  <2>4. h[n] = IF Pot(transfers'[n].kind) = a THEN Taken(c, transfers'[n]) ELSE 0
    BY <1>3, <1>5 DEF Shares
  <2>. QED  BY <2>2, <2>3, <2>4
<1>10. h \in [Ids \cup {n} -> Int]
  <2>1. \A i \in Ids \cup {n} : h[i] \in Int  BY <1>6, <1>7, <1>8, <1>9
  <2>2. h = [i \in Ids \cup {n} |-> h[i]]  BY <1>3, <1>5 DEF Shares
  <2>. QED  BY <2>1, <2>2
<1>11. SumFunction(h) = SumFunction(f) + h[n] /\ SumFunction(f) \in Int
  <2>1. PICK I : I = Ids  OBVIOUS
  <2>2. PICK x : x = n  OBVIOUS
  <2>3. IsFiniteSet(I) /\ x \notin I /\ f \in [I -> Int] /\ h \in [I \cup {x} -> Int]
        /\ \A i \in I : h[i] = f[i]
    BY <1>3, <1>6, <1>7, <1>10, <2>1, <2>2
  <2>4. SumFunction(h) = SumFunction(f) + h[x] /\ SumFunction(f) \in Int
    BY <2>3, SumExtended
  <2>. QED  BY <2>2, <2>4
<1>12. free'[c][a] = IF c = d /\ a = Pot(kind) THEN free[c][a] - Price(kind, p)
                     ELSE free[c][a]
  <2>1. free \in [Cores -> [Assets -> Nat]]  BY DEF TypeInv, ChannelInv
  <2>2. Pot(kind) \in Assets /\ d \in Cores  BY SidesDiffer DEF Pot, Assets
  <2>. QED  BY <2>1, <2>2 DEF Create
<1>13. free[c][a] \in Int  BY DEF TypeInv, ChannelInv
<1>. QED  BY <1>1, <1>4, <1>5, <1>8, <1>9, <1>11, <1>12, <1>13

\* What a transfer takes from the core of an update, before and after it.
LEMMA TakenByCore ==
    ASSUME PaymentAssumption, TypeInv, NEW c \in Cores, NEW i \in Ids, NEW status, NEW award,
           Changed(c, i, status, award)
    PROVE  /\ c = Responder(i) /\ transfers[i].at[c] \in {"Unseen", "Active"}
                 => Taken(c, transfers[i]) = 0
           /\ c = Initiator(i) /\ transfers[i].at[c] = "Active"
                 => Taken(c, transfers[i]) = transfers[i].amount
           /\ c = Responder(i) /\ status = "Active" => Taken(c, transfers'[i]) = 0
           /\ status = "Canceled" => Taken(c, transfers'[i]) = 0
           /\ c = Responder(i) /\ status = "Resolved" => Taken(c, transfers'[i]) = 0 - award
           /\ c = Initiator(i) /\ status = "Resolved" => Taken(c, transfers'[i]) = award
<1>. DEFINE u == transfers'[i]
            t == transfers[i]
<1>1. u.kind = t.kind /\ u.payment = t.payment /\ u.award = award /\ u.at[c] = status
  BY DEF Changed
<1>2. Initiator(i) # Responder(i)  BY EndsDiffer
<1>3. Initiator(i) = InitiatorOf(t.kind, t.payment) /\ Responder(i) = ResponderOf(t.kind, t.payment)
  BY DEF Initiator, Responder
<1>. HIDE DEF u, t
<1>4. /\ c = Responder(i) /\ t.at[c] \in {"Unseen", "Active"} => Taken(c, t) = 0
      /\ c = Initiator(i) /\ t.at[c] = "Active" => Taken(c, t) = t.amount
  BY <1>2, <1>3 DEF Taken
<1>5. /\ c = Responder(i) /\ status = "Active" => Taken(c, u) = 0
      /\ status = "Canceled" => Taken(c, u) = 0
      /\ c = Responder(i) /\ status = "Resolved" => Taken(c, u) = 0 - award
      /\ c = Initiator(i) /\ status = "Resolved" => Taken(c, u) = award
  BY <1>1, <1>2, <1>3 DEF Taken
<1>. QED  BY <1>4, <1>5 DEF u, t

\* For another core nothing changes, if the award is as it was or that core's end is
\* still open.
LEMMA TakenByOthers ==
    ASSUME PaymentAssumption, TypeInv, NEW c \in Cores, NEW i \in Ids, NEW status, NEW award,
           Changed(c, i, status, award), NEW d \in Cores, d # c,
           \/ award = transfers[i].award
           \/ d \in {Initiator(i), Responder(i)} => transfers[i].at[d] \in {"Unseen", "Active"}
    PROVE  Taken(d, transfers'[i]) = Taken(d, transfers[i])
<1>. DEFINE u == transfers'[i]
            t == transfers[i]
<1>1. /\ u.kind = t.kind /\ u.payment = t.payment /\ u.amount = t.amount
      /\ u.award = award /\ u.at[d] = t.at[d]
  BY DEF Changed
<1>2. \/ award = t.award
      \/ d \in {InitiatorOf(t.kind, t.payment), ResponderOf(t.kind, t.payment)}
           => t.at[d] \in {"Unseen", "Active"}
  BY DEF Initiator, Responder
<1>. HIDE DEF u, t
<1>3. Taken(d, u) = Taken(d, t)  BY <1>1, <1>2 DEF Taken
<1>. QED  BY <1>3 DEF u, t

\* The responder resolves or cancels: it gains the award.
LEMMA FundsResolved ==
    ASSUME PaymentAssumption, TypeInv, EndsInv, FundsAddUp, TypeInv',
           NEW c \in Cores, NEW i, Resolvable(c, i),
           NEW status \in {"Resolved", "Canceled"}, NEW award \in Nat,
           award <= transfers[i].amount, status = "Canceled" => award = 0,
           Resolve(c, i, status, award)
    PROVE  FundsAddUp'
<1>1. i \in Ids /\ c = Responder(i) /\ transfers[i].at[c] = "Active"  BY DEF Resolvable
<1>2. Update(c, i, status, award, award, "resolved")  BY DEF Resolve
<1>3. Changed(c, i, status, award)  BY <1>1, <1>2, UpdateEffect
<1>4. Initiator(i) \in Cores /\ Initiator(i) # c /\ transfers[i].at[Initiator(i)] = "Active"
  BY <1>1, EndsDiffer DEF EndsInv
<1>5. Taken(c, transfers[i]) = 0 /\ Taken(c, transfers'[i]) = 0 - award
  <2>1. status = "Canceled" => 0 = 0 - award  OBVIOUS
  <2>. QED  BY <1>1, <1>3, <2>1, TakenByCore
<1>6. ASSUME NEW d \in Cores, d # c PROVE Taken(d, transfers'[i]) = Taken(d, transfers[i])
  BY <1>1, <1>3, <1>4, <1>6, TakenByOthers
<1>7. status \in Statuses  BY DEF Statuses
<1>8. Taken(c, transfers'[i]) = Taken(c, transfers[i]) - award  BY <1>5
<1>. QED  BY <1>1, <1>2, <1>6, <1>7, <1>8, FundsUpdated

LEMMA FundsForwarded ==
    ASSUME PaymentAssumption, TypeInv, EndsInv, FundsAddUp, TypeInv', NEW i \in Ids, Forward(i)
    PROVE  FundsAddUp'
<1>. DEFINE c == Responder(i)
<1>1. c \in Cores /\ Initiator(i) \in Cores /\ Initiator(i) # c  BY EndsDiffer
<1>2. Update(c, i, "Active", 0, 0, "created")  BY DEF Forward
<1>3. Changed(c, i, "Active", 0)  BY <1>1, <1>2, UpdateEffect
<1>4. /\ transfers[i].at[c] = "Unseen" /\ transfers[i].at[Initiator(i)] = "Active"
      /\ 0 <= transfers[i].amount
  BY TransferFacts DEF Forward
<1>5. Taken(c, transfers'[i]) = 0 /\ Taken(c, transfers[i]) = 0
  BY <1>1, <1>3, <1>4, TakenByCore
<1>6. ASSUME NEW d \in Cores, d # c PROVE Taken(d, transfers'[i]) = Taken(d, transfers[i])
  <2>1. transfers[i].award = 0  BY <1>4 DEF EndsInv
  <2>. QED  BY <1>1, <1>3, <1>6, <2>1, TakenByOthers
<1>7. "Active" \in Statuses  BY DEF Statuses
<1>8. Taken(c, transfers'[i]) = Taken(c, transfers[i]) - 0  BY <1>5
<1>. HIDE DEF c
<1>. QED  BY <1>1, <1>2, <1>4, <1>6, <1>7, <1>8, FundsUpdated

\* The initiator gets back what the responder did not keep.
LEMMA FundsEnded ==
    ASSUME PaymentAssumption, TypeInv, EndsInv, FundsAddUp, TypeInv', NEW i \in Ids,
           Return(i) \/ Settle(i)
    PROVE  FundsAddUp'
<1>. DEFINE c == Initiator(i)
            r == Responder(i)
<1>1. c \in Cores /\ r \in Cores /\ c # r  BY EndsDiffer
<1>2. /\ transfers[i].at[c] = "Active" /\ transfers[i].amount \in Nat
      /\ transfers[i].award \in Nat /\ transfers[i].award <= transfers[i].amount
      /\ transfers[i].amount - transfers[i].award \in Nat
  BY TransferFacts DEF Return, Settle
<1>3. PICK status \in {"Resolved", "Canceled"} :
        /\ Update(c, i, status, transfers[i].award,
                  transfers[i].amount - transfers[i].award, "resolved")
        /\ status = "Canceled" => transfers[i].award = 0
        /\ transfers[i].at[r] = status \/ transfers[i].at[r] = "Unseen"
  <2>1. CASE Return(i)
    <3>1. transfers[i].at[r] = "Unseen" /\ transfers[i].award = 0
      BY <2>1 DEF Return, EndsInv
    <3>2. Update(c, i, "Canceled", 0, transfers[i].amount, "resolved")  BY <2>1 DEF Return
    <3>3. transfers[i].amount - transfers[i].award = transfers[i].amount
      BY <1>2, <3>1
    <3>. QED  BY <3>1, <3>2, <3>3
  <2>2. CASE Settle(i)
    <3>1. /\ transfers[i].at[r] \in {"Resolved", "Canceled"}
          /\ Update(c, i, transfers[i].at[r], transfers[i].award,
                    transfers[i].amount - transfers[i].award, "resolved")
      BY <2>2 DEF Settle
    <3>2. transfers[i].at[r] = "Canceled" => transfers[i].award = 0  BY DEF EndsInv
    <3>. QED  BY <3>1, <3>2
  <2>. QED  BY <2>1, <2>2
<1>4. Changed(c, i, status, transfers[i].award)  BY <1>1, <1>2, <1>3, UpdateEffect
<1>5. Taken(c, transfers[i]) = transfers[i].amount
      /\ Taken(c, transfers'[i]) = transfers[i].award
  BY <1>1, <1>2, <1>3, <1>4, TakenByCore
<1>6. ASSUME NEW d \in Cores, d # c PROVE Taken(d, transfers'[i]) = Taken(d, transfers[i])
  BY <1>1, <1>4, <1>6, TakenByOthers
<1>7. status \in Statuses  BY DEF Statuses
<1>8. Taken(c, transfers'[i])
        = Taken(c, transfers[i]) - (transfers[i].amount - transfers[i].award)
  BY <1>2, <1>5
<1>. HIDE DEF c
<1>. QED  BY <1>1, <1>2, <1>3, <1>6, <1>7, <1>8, FundsUpdated

LEMMA FundsKept ==
    ASSUME FundsAddUp, UNCHANGED channel
    PROVE  FundsAddUp'
BY DEF FundsAddUp, channel, Ids

LEMMA FundsStep ==
    ASSUME PaymentAssumption, TypeInv, EndsInv, FundsAddUp, [Next]_vars
    PROVE  FundsAddUp'
<1>1. TypeInv'  BY TypeStep
<1>2. ASSUME NEW t \in tasks, TaskStep(t) PROVE FundsAddUp'
  <2>. DEFINE c == t.core
  <2>1. c \in Cores /\ t.award \in Nat  BY TaskFacts DEF TaskType
  <2>2. CASE Delay(t) \/ AcceptPayment(t)
    BY <2>2, FundsKept DEF Delay, AcceptPayment
  <2>3. CASE ResolveTransfer(t)
    <3>1. PICK i \in t.todo :
             IF Resolvable(c, i) /\ CanResolve(transfers[i].amount, t.award)
             THEN Resolve(c, i, "Resolved", t.award)
             ELSE UNCHANGED <<channel, unread>>
      BY <2>3 DEF ResolveTransfer
    <3>2. CASE /\ Resolvable(c, i) /\ CanResolve(transfers[i].amount, t.award)
               /\ Resolve(c, i, "Resolved", t.award)
      <4>1. i \in Ids /\ transfers[i].amount \in Nat
        BY <3>2, TransferFacts DEF Resolvable
      <4>2. t.award <= transfers[i].amount  BY <2>1, <3>2, <4>1 DEF CanResolve
      <4>. QED  BY <1>1, <2>1, <3>2, <4>2, FundsResolved
    <3>3. CASE UNCHANGED <<channel, unread>>  BY <3>3, FundsKept
    <3>. QED  BY <3>1, <3>2, <3>3
  <2>4. CASE Cancel(t)
    <3>1. PICK i \in t.todo :
             \/ Resolvable(c, i) /\ Resolve(c, i, "Canceled", 0)
             \/ UNCHANGED <<channel, unread>>
      BY <2>4 DEF Cancel
    <3>2. CASE Resolvable(c, i) /\ Resolve(c, i, "Canceled", 0)
      <4>1. 0 <= transfers[i].amount  BY <3>2, TransferFacts DEF Resolvable
      <4>. QED  BY <1>1, <2>1, <3>2, <4>1, FundsResolved
    <3>3. CASE UNCHANGED <<channel, unread>>  BY <3>3, FundsKept
    <3>. QED  BY <3>1, <3>2, <3>3
  <2>. QED  BY <1>2, <2>2, <2>3, <2>4 DEF TaskStep
<1>3. ASSUME NEW p \in Payments, HandlerStep(p) PROVE FundsAddUp'
  <2>1. ASSUME NEW c \in Cores, Read(c, p) PROVE FundsAddUp'  BY <2>1, FundsKept DEF Read
  <2>2. CASE DelayAsset(p)  BY <2>2, FundsKept DEF DelayAsset
  <2>3. CASE ProvideAsset(p)
    BY <2>3, FundsKept, FundsCreated DEF ProvideAsset, Kinds
  <2>4. CASE ProvideStake(p)
    BY <2>4, FundsKept, FundsCreated DEF ProvideStake, Kinds
  <2>. QED  BY <1>3, <2>1, <2>2, <2>3, <2>4 DEF HandlerStep
<1>4. ASSUME NEW p \in Payments, CallStep(p) PROVE FundsAddUp'
  <2>1. CASE InitiateSendFunds(p)  BY <2>1, FundsKept DEF InitiateSendFunds
  <2>2. CASE SendFunds(p)  BY <2>2, FundsCreated DEF SendFunds, Kinds
  <2>3. CASE AcceptOffer(p)  BY <2>3, FundsKept DEF AcceptOffer
  <2>4. CASE ResolveInsurance(p)  BY <2>4, FundsKept DEF ResolveInsurance
  <2>5. ASSUME NEW c \in Cores, RepairPayments(c, p) PROVE FundsAddUp'
    BY <2>5, FundsKept DEF RepairPayments
  <2>. QED  BY <1>4, <2>1, <2>2, <2>3, <2>4, <2>5 DEF CallStep
<1>5. ASSUME NEW i \in Ids, RouterStep(i) PROVE FundsAddUp'
  BY <1>1, <1>5, FundsForwarded, FundsEnded DEF RouterStep
<1>6. ASSUME NEW c \in Cores, HostStep(c) PROVE FundsAddUp'
  BY <1>6, FundsKept DEF HostStep, ProxyCreated, ConnectorActivated, Crash
<1>7. CASE UNCHANGED vars  BY <1>7, FundsKept DEF vars
<1>. QED  BY <1>2, <1>3, <1>4, <1>5, <1>6, <1>7 DEF Next

LEMMA FundsInit ==
    ASSUME PaymentAssumption, BoundAssumption, Init
    PROVE  EndsInv /\ FundsAddUp
<1>1. Ids = {}  BY NoTransfersAtFirst
<1>2. EndsInv  BY <1>1 DEF EndsInv
<1>3. ASSUME NEW c \in Cores, NEW a \in Assets
      PROVE  free[c][a] + SumFunction(Shares(c, a)) = Funds
  <2>1. free[c][a] = Funds /\ Funds \in Nat  BY DEF Init, Assets, BoundAssumption
  <2>2. PICK f : f = Shares(c, a)  OBVIOUS
  <2>3. PICK I : I = Ids  OBVIOUS
  <2>4. f \in [I -> Int] /\ \A i \in I : f[i] = 0  BY <1>1, <2>2, <2>3 DEF Shares
  <2>5. IsFiniteSet(I)  BY <1>1, <2>3, FS_EmptySet
  <2>6. SumFunction(f) = 0  BY <2>4, <2>5, SumOfNothing
  <2>. QED  BY <2>1, <2>2, <2>6
<1>. QED  BY <1>2, <1>3 DEF FundsAddUp, Assets, Shares

\* Conservation: for any number of cores, payments, duplicates, returns, repairs and
\* reloads, what a core deposited of an asset is what it has free and what its
\* transfers took, and no step of a handler or of the router loses or makes a coin.
THEOREM CoinsAddUp == Spec => []FundsAddUp
<1>. DEFINE FInv == TypeInv /\ EndsInv /\ FundsAddUp
<1>1. Init => FInv  BY PaymentAssumption, BoundAssumption, InitType, FundsInit
<1>2. FInv /\ [Next]_vars => FInv'
  BY PaymentAssumption, TypeStep, EndsStep, FundsStep
<1>3. FInv => FundsAddUp  OBVIOUS
<1>. QED  BY <1>1, <1>2, <1>3, PTL DEF Spec

-----------------------------------------------------------------------------
(***************************************************************************)
(* PaymentProtocol implements EscrowedPayment, for payments that are       *)
(* offered once and any other bounds.  A transfer that appears is an       *)
(* Offer, Insure or Fund step, or a stutter if it is a duplicate; one that *)
(* its responder resolves is a Take, Release or Close step; everything     *)
(* else stutters.                                                          *)
(***************************************************************************)

\* What a task gives to its responder.
AwardInv ==
    \A t \in tasks :
        /\ t.stage = "take" => t.award = Amount[t.payment]
        /\ t.stage = "release" => t.award \in {0, Stake[t.payment]}

\* The initiator learns of a resolution from its responder.
SettledInv ==
    \A i \in Ids :
        transfers[i].at[Initiator(i)] = "Resolved" => transfers[i].at[Responder(i)] = "Resolved"

\* A payment is finalized after its insurance was released.
FinalInv ==
    \A t \in tasks : t.stage = "finalize" => Done(t.payment, "Insurance") # {}

LEMMA AwardStep ==
    ASSUME PaymentAssumption, TypeInv, AwardInv, [Next]_vars
    PROVE  AwardInv'
<1>. SUFFICES ASSUME NEW t \in tasks'
              PROVE  /\ t.stage = "take" => t.award = Amount[t.payment]
                     /\ t.stage = "release" => t.award \in {0, Stake[t.payment]}
  BY DEF AwardInv
<1>1. CASE t \in tasks  BY <1>1 DEF AwardInv
<1>2. CASE t \notin tasks
  BY <1>2, TaskOrigin
     DEF Origin, Recovering, Approving, Taking, Finalizing, Releasing
<1>. QED  BY <1>1, <1>2

LEMMA InitiatorKept ==
    ASSUME PaymentAssumption, TypeInv, [Next]_vars, NEW i \in Ids
    PROVE  Initiator(i)' = Initiator(i) /\ Responder(i)' = Responder(i)
BY Growth DEF Initiator, Responder

LEMMA SettledStep ==
    ASSUME PaymentAssumption, TypeInv, SettledInv, [Next]_vars
    PROVE  SettledInv'
<1>. SUFFICES ASSUME NEW i \in Ids', transfers'[i].at[Initiator(i)'] = "Resolved"
              PROVE  transfers'[i].at[Responder(i)'] = "Resolved"
  BY DEF SettledInv
<1>1. i \in Ids
  <2>1. SUFFICES ASSUME i \notin Ids PROVE FALSE  OBVIOUS
  <2>2. \E p \in Payments, k \in Kinds : Initiator(i)' = InitiatorOf(k, p)
    BY <2>1, NewTransfer DEF Initiator, Kinds
  <2>3. Initiator(i)' \in Cores  BY <2>2 DEF InitiatorOf, PaymentAssumption
  <2>. QED  BY <2>1, <2>3, NewTransfer
<1>. DEFINE a == Initiator(i)
            b == Responder(i)
<1>2. a \in Cores /\ b \in Cores  BY <1>1, TransferFacts
<1>3. a # b
  <2>1. transfers[i].payment \in Payments  BY <1>1, TransferFacts DEF TransferType
  <2>. QED  BY <2>1, SidesDiffer DEF Initiator, Responder
<1>4. transfers'[i].at[a] = "Resolved"  BY <1>1, InitiatorKept
<1>5. transfers[i].at[b] = "Resolved"
  <2>1. CASE transfers[i].at[a] = "Resolved"  BY <1>1, <2>1 DEF SettledInv
  <2>2. CASE transfers[i].at[a] # "Resolved"
    <3>1. CASE Quiet  BY <1>4, <2>2, <3>1 DEF Quiet
    <3>2. ASSUME NEW k, NEW p, Created(k, p) PROVE FALSE
      BY <1>1, <1>4, <2>2, <3>2 DEF Created
    <3>3. ASSUME NEW j \in Ids, Forwarded(j) PROVE FALSE
      BY <1>1, <1>2, <1>3, <1>4, <2>2, <3>3 DEF Forwarded, Changed
    <3>4. ASSUME NEW j \in Ids, Ended(j) PROVE transfers[i].at[b] = "Resolved"
      <4>1. i = j  BY <1>1, <1>4, <2>2, <3>4 DEF Ended, Changed
      <4>. QED  BY <1>1, <1>2, <1>4, <3>4, <4>1 DEF Ended, Changed
    <3>5. ASSUME NEW t \in tasks, NEW j \in Ids, ResolvedBy(t, j) PROVE FALSE
      BY <1>1, <1>2, <1>3, <1>4, <2>2, <3>5 DEF ResolvedBy, Resolvable, Changed
    <3>6. ASSUME NEW t \in tasks, NEW j \in Ids, CanceledBy(t, j) PROVE FALSE
      BY <1>1, <1>2, <1>3, <1>4, <2>2, <3>6 DEF CanceledBy, Resolvable, Changed
    <3>. QED
      BY <3>1, <3>2, <3>3, <3>4, <3>5, <3>6, StepEffect
         DEF ChannelEffect, Offered, Provided
  <2>. QED  BY <2>1, <2>2
<1>. QED  BY <1>1, <1>2, <1>5, Growth, InitiatorKept DEF Ending

\* What was resolved stays so, with its award.
LEMMA DoneKept ==
    ASSUME PaymentAssumption, TypeInv, [Next]_vars,
           NEW p \in Payments, NEW k, NEW i \in Done(p, k)
    PROVE  i \in Done(p, k)' /\ transfers'[i].award = transfers[i].award
<1>. DEFINE r == ResponderOf(k, p)
<1>1. /\ i \in Ids /\ transfers[i].payment = p /\ transfers[i].kind = k
      /\ transfers[i].at[r] = "Resolved"
  BY DEF Done, Ours
<1>2. r \in Cores  BY SidesDiffer
<1>3. Responder(i) = r  BY <1>1 DEF Responder
<1>4. i \in Done(p, k)'  BY <1>1, <1>2, Growth DEF Done, Ours, Ending
<1>5. transfers'[i].award = transfers[i].award
  <2>1. CASE Quiet  BY <2>1 DEF Quiet
  <2>2. ASSUME NEW kind, NEW q, Created(kind, q)
        PROVE  transfers'[i].award = transfers[i].award
    BY <1>1, <2>2 DEF Created
  <2>3. ASSUME NEW j \in Ids, Forwarded(j) \/ Ended(j)
        PROVE  transfers'[i].award = transfers[i].award
    BY <1>1, <1>3, <2>3 DEF Forwarded, Ended, Changed
  <2>4. ASSUME NEW t \in tasks, NEW j \in Ids, ResolvedBy(t, j)
        PROVE  transfers'[i].award = transfers[i].award
    BY <1>1, <1>3, <2>4 DEF ResolvedBy, Resolvable, Changed
  <2>5. ASSUME NEW t \in tasks, NEW j \in Ids, CanceledBy(t, j)
        PROVE  transfers'[i].award = transfers[i].award
    BY <1>1, <1>3, <2>5 DEF CanceledBy, Resolvable, Changed
  <2>. QED
    BY <2>1, <2>2, <2>3, <2>4, <2>5, StepEffect DEF ChannelEffect, Offered, Provided
<1>. QED  BY <1>4, <1>5

LEMMA ReleasedShape ==
    ASSUME NEW snap, NEW terms, GetPaymentState(snap, terms) = "InsuranceReleased"
    PROVE  Shape(snap, "Active", "Resolved", "Resolved")
BY DEF GetPaymentState

LEMMA FinalStep ==
    ASSUME PaymentAssumption, TypeInv, SettledInv, FinalInv, [Next]_vars
    PROVE  FinalInv'
<1>. SUFFICES ASSUME NEW t \in tasks', t.stage = "finalize"
              PROVE  Done(t.payment, "Insurance")' # {}
  BY DEF FinalInv
<1>. DEFINE p == t.payment
<1>1. p \in Payments
  <2>1. TypeInv'  BY TypeStep
  <2>. QED  BY <2>1 DEF TypeInv, RestInv, TaskType
<1>2. Done(p, "Insurance") # {}
  <2>1. CASE t \in tasks  BY <2>1 DEF FinalInv
  <2>2. CASE t \notin tasks
    <3>1. Finalizing(t)
      BY <2>2, TaskOrigin DEF Origin, Recovering, Approving, Taking, Releasing
    <3>. DEFINE snap == Snapshot(To[p], p)
    <3>2. Shape(snap, "Active", "Resolved", "Resolved")
      BY <3>1, ReleasedShape DEF Finalizing, StateAt
    <3>3. PICK s \in Live(snap, "Insurance") : s.status = "Resolved"
      BY <3>2 DEF Shape, Is
    <3>4. s \in snap /\ s.kind = "Insurance"  BY DEF Live, OfKind
    <3>5. PICK i \in Fetched(To[p]) :
             /\ transfers[i].payment = p /\ transfers[i].kind = "Insurance"
             /\ transfers[i].at[To[p]] = "Resolved"
      BY <3>3, <3>4 DEF Snapshot
    <3>6. i \in Ids  BY DEF Fetched
    <3>7. Initiator(i) = To[p] /\ Responder(i) = From[p]
      BY <3>5 DEF Initiator, InitiatorOf, Responder, ResponderOf
    <3>8. transfers[i].at[From[p]] = "Resolved"  BY <3>5, <3>6, <3>7 DEF SettledInv
    <3>. QED  BY <3>5, <3>6, <3>8 DEF Done, Ours, ResponderOf
  <2>. QED  BY <2>1, <2>2
<1>. QED  BY <1>1, <1>2, DoneKept

-----------------------------------------------------------------------------
(* How the mapped variables change.                                        *)

Closed == {p \in Payments : Done(p, "Offer") # {}}

LEMMA ReachedKept ==
    ASSUME PaymentAssumption, TypeInv, [Next]_vars, Ids' = Ids
    PROVE  \A k \in Kinds : Reached(k)' = Reached(k)
BY Growth DEF Reached, Ours

LEMMA TakingKept ==
    ASSUME PaymentAssumption, TypeInv, [Next]_vars, NEW p \in Payments, NEW k \in Kinds,
           Done(p, k)' = Done(p, k)
    PROVE  Takings(k)'[p] = Takings(k)[p]
<1>. DEFINE R == {[id |-> i, amount |-> transfers[i].award] : i \in Done(p, k)}
<1>1. Takings(k)[p] = R /\ Takings(k)'[p] = R'  BY DEF Takings
<1>2. \A i \in Done(p, k) : transfers'[i].award = transfers[i].award  BY DoneKept
<1>3. R' = R  BY <1>2
<1>. QED  BY <1>1, <1>3

LEMMA TakingsKept ==
    ASSUME PaymentAssumption, TypeInv, [Next]_vars, NEW k \in Kinds,
           \A p \in Payments : Done(p, k)' = Done(p, k)
    PROVE  Takings(k)' = Takings(k)
<1>1. \A p \in Payments : Takings(k)'[p] = Takings(k)[p]  BY TakingKept
<1>. QED  BY <1>1 DEF Takings

LEMMA TakingsNonempty ==
    ASSUME NEW p \in Payments, NEW k \in Kinds, Done(p, k) # {}
    PROVE  Takings(k)[p] # {}
<1>1. Takings(k)[p] = {[id |-> i, amount |-> transfers[i].award] : i \in Done(p, k)}
  BY DEF Takings
<1>2. PICK i \in Done(p, k) : TRUE  OBVIOUS
<1>3. [id |-> i, amount |-> transfers[i].award] \in Takings(k)[p]  BY <1>1
<1>. QED  BY <1>3

\* Of a new transfer nothing is done yet.
LEMMA CreatedMap ==
    ASSUME PaymentAssumption, TypeInv, TargetInv, [Next]_vars,
           NEW n \in Ids', n \notin Ids
    PROVE  /\ \A k \in Kinds :
                 Reached(k)' = IF k = transfers'[n].kind
                               THEN Reached(k) \cup {transfers'[n].payment} ELSE Reached(k)
           /\ \A k \in Kinds : Takings(k)' = Takings(k)
           /\ Closed' = Closed
<1>1. /\ \A j \in Ids : transfers'[j] = transfers[j]
      /\ Ids' = Ids \cup {n}
      /\ transfers'[n].payment \in Payments
  BY NewTransfer
<1>2. ASSUME NEW k \in Kinds
      PROVE  Reached(k)' = IF k = transfers'[n].kind
                           THEN Reached(k) \cup {transfers'[n].payment} ELSE Reached(k)
  BY <1>1 DEF Reached, Ours
<1>3. ASSUME NEW p \in Payments, NEW k \in Kinds PROVE Done(p, k)' = Done(p, k)
  <2>1. Done(p, k) \subseteq Done(p, k)'  BY DoneKept
  <2>2. ASSUME NEW i \in Done(p, k)', i \notin Done(p, k) PROVE FALSE
    <3>1. \E t \in tasks : ResolvedBy(t, i)  BY <2>2, NewDone
    <3>. QED  BY <3>1 DEF ResolvedBy, Changed
  <2>. QED  BY <2>1, <2>2
<1>4. \A k \in Kinds : Takings(k)' = Takings(k)  BY <1>3, TakingsKept
<1>5. Closed' = Closed  BY <1>3 DEF Closed, Kinds
<1>. QED  BY <1>2, <1>4, <1>5

\* One transfer is done at a time.
LEMMA DoneMap ==
    ASSUME PaymentAssumption, TypeInv, TargetInv, [Next]_vars,
           NEW p \in Payments, NEW k \in Kinds,
           NEW i \in Done(p, k)', i \notin Done(p, k)
    PROVE  /\ Ids' = Ids
           /\ Done(p, k)' = Done(p, k) \cup {i}
           /\ \A q \in Payments, m \in Kinds :
                 q # p \/ m # k => Done(q, m)' = Done(q, m)
<1>1. PICK t \in tasks : ResolvedBy(t, i) /\ i \in Ids  BY NewDone
<1>2. Ids' = Ids /\ \A j \in Ids : j # i => transfers'[j] = transfers[j]
  BY <1>1 DEF ResolvedBy, Changed
<1>3. transfers'[i].payment = p /\ transfers'[i].kind = k  BY DEF Done, Ours
<1>4. ASSUME NEW q \in Payments, NEW m \in Kinds
      PROVE  /\ Done(q, m) \subseteq Done(q, m)'
             /\ \A j \in Done(q, m)' : j # i => j \in Done(q, m)
  <2>1. Done(q, m) \subseteq Done(q, m)'  BY DoneKept
  <2>. QED  BY <1>2, <2>1 DEF Done, Ours
<1>5. ASSUME NEW q \in Payments, NEW m \in Kinds, q # p \/ m # k
      PROVE  i \notin Done(q, m)'
  BY <1>3, <1>5 DEF Done, Ours
<1>6. Done(p, k)' = Done(p, k) \cup {i}
  <2>1. Done(p, k) \subseteq Done(p, k)'  BY <1>4
  <2>2. \A j \in Done(p, k)' : j # i => j \in Done(p, k)  BY <1>4
  <2>3. i \in Done(p, k)'  OBVIOUS
  <2>. QED  BY <2>1, <2>2, <2>3
<1>7. ASSUME NEW q \in Payments, NEW m \in Kinds, q # p \/ m # k
      PROVE  Done(q, m)' = Done(q, m)
  <2>1. Done(q, m) \subseteq Done(q, m)'  BY <1>4
  <2>2. \A j \in Done(q, m)' : j # i => j \in Done(q, m)  BY <1>4
  <2>3. i \notin Done(q, m)'  BY <1>5, <1>7
  <2>. QED  BY <2>1, <2>2, <2>3
<1>. QED  BY <1>2, <1>6, <1>7

\* The first transfer of its kind that is done of p: the only record of p.
LEMMA FirstTaking ==
    ASSUME PaymentAssumption, TypeInv, TargetInv, [Next]_vars,
           NEW p \in Payments, NEW k \in Kinds, Done(p, k) = {},
           NEW i \in Done(p, k)'
    PROVE  /\ Takings(k)[p] = {}
           /\ Takings(k)'[p] = {[id |-> i, amount |-> transfers'[i].award]}
           /\ Takings(k)' =
                [Takings(k) EXCEPT ![p] = {[id |-> i, amount |-> transfers'[i].award]}]
<1>. DEFINE r == {[id |-> i, amount |-> transfers'[i].award]}
<1>1. Done(p, k)' = {i} /\ \A q \in Payments : q # p => Done(q, k)' = Done(q, k)
  BY DoneMap
<1>2. Takings(k)[p] = {}  BY DEF Takings
<1>3. Takings(k)'[p] = r  BY <1>1 DEF Takings
<1>4. \A q \in Payments : q # p => Takings(k)'[q] = Takings(k)[q]
  BY <1>1, TakingKept
<1>5. Takings(k)' = [Takings(k) EXCEPT ![p] = r]
  BY <1>3, <1>4 DEF Takings
<1>. QED  BY <1>2, <1>3, <1>5

-----------------------------------------------------------------------------
(* Every step is a step of EscrowedPayment, or none.                       *)

EscrowInv == SafetyInv /\ FundedInv /\ ReleaseInv /\ AwardInv /\ SettledInv /\ FinalInv

LEMMA EscrowInit ==
    ASSUME PaymentAssumption, BoundAssumption, Init
    PROVE  EscrowInv
<1>1. SafetyInv /\ Ids = {}  BY SafetyInit, NoTransfersAtFirst
<1>. QED
  BY <1>1 DEF EscrowInv, FundedInv, ReleaseInv, AwardInv, SettledInv, FinalInv,
     Done, Ours, Init

LEMMA EscrowStep ==
    ASSUME PaymentAssumption, BoundAssumption, MaxSends <= 1, EscrowInv, [Next]_vars
    PROVE  EscrowInv'
BY SafetyStep, FundedStep, ReleaseStep, AwardStep, SettledStep, FinalStep
   DEF EscrowInv, SafetyInv

LEMMA Stutters ==
    ASSUME \A k \in Kinds : Reached(k)' = Reached(k) /\ Takings(k)' = Takings(k),
           Closed' = Closed
    PROVE  UNCHANGED Escrow!vars
BY DEF Escrow!vars, Closed, Kinds

\* A transfer appears.
LEMMA ImplementsCreation ==
    ASSUME PaymentAssumption, EscrowInv, [Next]_vars, NEW n \in Ids', n \notin Ids
    PROVE  [Escrow!Next]_(Escrow!vars)
<1>. DEFINE p == transfers'[n].payment
            kind == transfers'[n].kind
<1>0. TypeInv /\ TargetInv /\ FundedInv  BY DEF EscrowInv, SafetyInv
<1>1. /\ \A k \in Kinds : Reached(k)' = IF k = kind THEN Reached(k) \cup {p} ELSE Reached(k)
      /\ \A k \in Kinds : Takings(k)' = Takings(k)
      /\ Closed' = Closed
  BY <1>0, CreatedMap
<1>2. /\ p \in Payments
      /\ \/ kind = "Offer"
         \/ kind = "Insurance" /\ Provided(kind, p)
         \/ kind = "Parameterized" /\ Provided(kind, p)
  BY <1>0, NewTransfer
<1>. HIDE DEF p, kind
<1>3. CASE p \in Reached(kind)
  <2>1. \A k \in Kinds : Reached(k)' = Reached(k)  BY <1>1, <1>3
  <2>. QED  BY <1>1, <2>1, Stutters
<1>4. CASE p \notin Reached(kind)
  <2>1. CASE kind = "Offer"
    <3>1. Escrow!Offer(p)
      BY <1>1, <1>2, <1>4, <2>1 DEF Escrow!Offer, Closed, Kinds
    <3>. QED  BY <1>2, <3>1 DEF Escrow!Next
  <2>2. CASE kind = "Insurance" /\ Provided(kind, p)
    <3>1. p \in Reached("Offer")  BY <1>2, <2>2 DEF Provided, Reached
    <3>2. Escrow!Insure(p)
      BY <1>1, <1>2, <1>4, <2>2, <3>1 DEF Escrow!Insure, Closed, Kinds
    <3>. QED  BY <1>2, <3>2 DEF Escrow!Next
  <2>3. CASE kind = "Parameterized" /\ Provided(kind, p)
    <3>1. p \in Reached("Insurance")
      BY <1>0, <1>2, <2>3 DEF Provided, FundedInv, SeenStake, Reached
    <3>2. Escrow!Fund(p)
      BY <1>1, <1>2, <1>4, <2>3, <3>1 DEF Escrow!Fund, Closed, Kinds
    <3>. QED  BY <1>2, <3>2 DEF Escrow!Next
  <2>. QED  BY <1>2, <2>1, <2>2, <2>3
<1>. QED  BY <1>3, <1>4

LEMMA TargetWasFree ==
    ASSUME EscrowInv, NEW stage \in Once, NEW p \in Payments,
           NEW i \in Targets(stage, p), ActiveAt(i, KindOf(stage), p)
    PROVE  Done(p, KindOf(stage)) = {}
BY DEF EscrowInv, SafetyInv, OnceInv

\* A transfer is resolved by its responder.
LEMMA ImplementsResolution ==
    ASSUME PaymentAssumption, EscrowInv, [Next]_vars,
           NEW p \in Payments, NEW k \in Kinds,
           NEW i \in Done(p, k)', i \notin Done(p, k)
    PROVE  [Escrow!Next]_(Escrow!vars)
<1>0. TypeInv /\ TargetInv  BY DEF EscrowInv, SafetyInv
<1>1. PICK t \in tasks :
         ResolvedBy(t, i) /\ i \in Ids /\ t.payment = p /\ KindOf(t.stage) = k
  BY <1>0, NewDone
<1>2. transfers'[i].award = t.award  BY <1>1 DEF ResolvedBy, Changed
<1>3. /\ Ids' = Ids
      /\ \A q \in Payments, m \in Kinds : q # p \/ m # k => Done(q, m)' = Done(q, m)
  BY <1>0, DoneMap
<1>4. \A m \in Kinds : Reached(m)' = Reached(m)  BY <1>0, <1>3, ReachedKept
<1>5. \A m \in Kinds : m # k => Takings(m)' = Takings(m)  BY <1>0, <1>3, TakingsKept
<1>6. k # "Offer" => Closed' = Closed  BY <1>3 DEF Closed, Kinds
<1>. DEFINE r == [id |-> i, amount |-> transfers'[i].award]
<1>7. t.stage \in {"take", "finalize", "release"}  BY <1>1 DEF ResolvedBy, Resolving
<1>8. CASE t.stage = "take"
  <2>1. k = "Parameterized"  BY <1>1, <1>8 DEF KindOf
  <2>2. Done(p, k) = {}
    BY <1>0, <1>8, <2>1, DoneWasTarget, TargetWasFree DEF Once, KindOf
  <2>3. /\ Takings(k)[p] = {} /\ Takings(k)'[p] = {r}
        /\ Takings(k)' = [Takings(k) EXCEPT ![p] = {r}]
    BY <1>0, <2>2, FirstTaking
  <2>4. r.amount = Amount[p]  BY <1>1, <1>2, <1>8 DEF EscrowInv, AwardInv
  <2>5. p \in Reached("Parameterized")
    BY <1>1, <1>0, <2>1 DEF ResolvedBy, TargetInv, Reached
  <2>. HIDE DEF r
  <2>6. Escrow!Take(p)
    BY <1>4, <1>5, <1>6, <2>1, <2>3, <2>4, <2>5 DEF Escrow!Take, Closed, Kinds
  <2>. QED  BY <2>6 DEF Escrow!Next
<1>9. CASE t.stage = "release"
  <2>1. k = "Insurance"  BY <1>1, <1>9 DEF KindOf
  <2>2. Done(p, k) = {}
    BY <1>0, <1>9, <2>1, DoneWasTarget, TargetWasFree DEF Once, KindOf
  <2>3. /\ Takings(k)[p] = {} /\ Takings(k)'[p] = {r}
        /\ Takings(k)' = [Takings(k) EXCEPT ![p] = {r}]
    BY <1>0, <2>2, FirstTaking
  <2>4. r.amount \in 0 .. Stake[p]
    BY <1>1, <1>2, <1>9 DEF EscrowInv, AwardInv, PaymentAssumption
  <2>5. Takings("Parameterized")[p] # {}
    <3>1. PICK j \in Ours(p, "Parameterized") : transfers[j].at[From[p]] = "Resolved"
      BY <1>1, <1>9 DEF EscrowInv, ReleaseInv, PaidAtSender
    <3>2. j \in Ids /\ Initiator(j) = From[p] /\ Responder(j) = To[p]
      BY <3>1 DEF Ours, Initiator, InitiatorOf, Responder, ResponderOf
    <3>3. j \in Done(p, "Parameterized")
      BY <3>1, <3>2 DEF EscrowInv, SettledInv, Done, ResponderOf
    <3>. QED  BY <3>3, TakingsNonempty DEF Kinds
  <2>. HIDE DEF r
  <2>6. Escrow!Release(p)
    BY <1>4, <1>5, <1>6, <2>1, <2>3, <2>4, <2>5 DEF Escrow!Release, Closed, Kinds
  <2>. QED  BY <2>6 DEF Escrow!Next
<1>10. CASE t.stage = "finalize"
  <2>1. k = "Offer"  BY <1>1, <1>10 DEF KindOf
  <2>2. Closed' = Closed \cup {p}
    BY <1>3, <2>1 DEF Closed, Kinds
  <2>3. Takings("Insurance")[p] # {}
    <3>1. Done(p, "Insurance") # {}  BY <1>1, <1>10 DEF EscrowInv, FinalInv
    <3>. QED  BY <3>1, TakingsNonempty DEF Kinds
  <2>4. Takings("Parameterized")' = Takings("Parameterized")
        /\ Takings("Insurance")' = Takings("Insurance")
    BY <1>5, <2>1 DEF Kinds
  <2>5. CASE p \in Closed
    BY <1>4, <2>2, <2>4, <2>5 DEF Escrow!vars, Closed, Kinds
  <2>6. CASE p \notin Closed
    <3>1. Escrow!Close(p)
      BY <1>4, <2>2, <2>3, <2>4, <2>6 DEF Escrow!Close, Closed, Kinds
    <3>. QED  BY <3>1 DEF Escrow!Next
  <2>. QED  BY <2>5, <2>6
<1>. QED  BY <1>7, <1>8, <1>9, <1>10

LEMMA StepImplements ==
    ASSUME PaymentAssumption, EscrowInv, [Next]_vars
    PROVE  [Escrow!Next]_(Escrow!vars)
<1>0. TypeInv /\ TargetInv  BY DEF EscrowInv, SafetyInv
<1>1. Ids \subseteq Ids'  BY <1>0, Growth
<1>2. CASE Ids' # Ids
  <2>1. PICK n \in Ids' : n \notin Ids  BY <1>1, <1>2
  <2>. QED  BY <2>1, ImplementsCreation
<1>3. CASE \E p \in Payments, k \in Kinds : Done(p, k)' # Done(p, k)
  <2>1. PICK p \in Payments, k \in Kinds : Done(p, k)' # Done(p, k)  BY <1>3
  <2>2. Done(p, k) \subseteq Done(p, k)'  BY <1>0, DoneKept
  <2>3. PICK i \in Done(p, k)' : i \notin Done(p, k)  BY <2>1, <2>2
  <2>. QED  BY <2>3, ImplementsResolution
<1>4. CASE Ids' = Ids /\ \A p \in Payments, k \in Kinds : Done(p, k)' = Done(p, k)
  <2>1. \A k \in Kinds : Reached(k)' = Reached(k) /\ Takings(k)' = Takings(k)
    BY <1>0, <1>4, ReachedKept, TakingsKept
  <2>2. Closed' = Closed  BY <1>4 DEF Closed, Kinds
  <2>. QED  BY <2>1, <2>2, Stutters
<1>. QED  BY <1>2, <1>3, <1>4

LEMMA InitImplements ==
    ASSUME PaymentAssumption, BoundAssumption, Init
    PROVE  Escrow!Init
<1>1. Ids = {}  BY NoTransfersAtFirst
<1>2. \A p \in Payments, k \in Kinds : Ours(p, k) = {} /\ Done(p, k) = {}
  BY <1>1 DEF Ours, Done
<1>3. \A k \in Kinds : Reached(k) = {} /\ Takings(k) = [p \in Payments |-> {}]
  BY <1>2 DEF Reached, Takings
<1>4. Closed = {}  BY <1>2 DEF Closed, Kinds
<1>. QED  BY <1>3, <1>4 DEF Escrow!Init, Closed, Kinds

\* A payment that is offered once goes through the promised steps in their order and
\* each of them once, whatever is accepted, returned, repaired or reloaded how often.
THEOREM Implements == ASSUME MaxSends <= 1 PROVE Spec => ImplementsEscrow
<1>1. Init => EscrowInv /\ Escrow!Init
  BY PaymentAssumption, BoundAssumption, EscrowInit, InitImplements
<1>2. EscrowInv /\ [Next]_vars => EscrowInv'
  BY PaymentAssumption, BoundAssumption, EscrowStep
<1>3. EscrowInv /\ [Next]_vars => [Escrow!Next]_(Escrow!vars)
  BY PaymentAssumption, StepImplements
<1>. QED  BY <1>1, <1>2, <1>3, PTL DEF Spec, ImplementsEscrow, Escrow!Spec

=============================================================================
