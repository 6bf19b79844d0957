------------------------- MODULE StateChannels_proofs -------------------------
(***************************************************************************)
(* The types, the list and the deposits of StateChannels, for any number   *)
(* of calls, channels, assets and reloads.                                 *)
(*                                                                         *)
(* TypeInv says what a call has read and how far it is. MoneyInv accounts  *)
(* for a channel: its balance, what landed and what was withdrawn are what *)
(* was mined for it, and what landed is of deposits that were not reported.*)
(* ListInv says why a call that was alone finds its channel in the list:   *)
(* whoever replaces the list has read a store with that channel in it.     *)
(***************************************************************************)
EXTENDS StateChannels, FiniteSetTheorems, TLAPS

Kind(c) == thread[c].ask.kind

Thread == [pc : Pieces, ask : Asks \cup {None}, channel : Channels \cup {None},
           captured : Contexts, on : Chains \cup {None},
           saw : SUBSET (Channels \cup Routers), moved : BOOLEAN,
           got : Seq([channel : Channels, amount : [Assets -> Nat]])]

Lists0 == Seq(Channels) \cup {None}

VarTypes ==
    /\ known \subseteq opened /\ opened \subseteq Channels /\ IsFiniteSet(known)
    /\ wallet \in [Assets -> Nat]
    /\ landed \in [Channels -> [Assets -> Nat]] /\ balance \in [Channels -> [Assets -> Nat]]
    /\ stored \subseteq Routers /\ current \in Contexts /\ shared \in BOOLEAN
    /\ info \in [Assets -> {"none", "read", "unknown"}]
    /\ tx \in [Calls -> {"none", "pending", "mined", "reverted"}]
    /\ list \in [Contexts -> Lists0]
    /\ thread \in [Calls -> Thread]
    /\ reloads \in 0..MaxReloads /\ meddled \subseteq Calls

Listing == {"setup", "restore", "write"}
\* A call that sets up a channel, and one that is about to replace the list.
Adding(c) == thread[c].pc \in Listing \/ (At(c, "routers") /\ Kind(c) = "create")
Replacing(c) == At(c, "routers") /\ Kind(c) = "initialize"

\* Which kinds of calls come to which piece.
KindsInv(c) ==
    /\ At(c, "channels") => Kind(c) = "initialize"
    /\ thread[c].pc \in {"router", "setup", "restore", "write"} => Kind(c) = "create"
    /\ At(c, "routers") => Kind(c) \in {"initialize", "create"}
    /\ At(c, "mined") => Kind(c) \in {"deposit", "mint"} /\ tx[c] # "none"
    /\ At(c, "reconcile") => Kind(c) = "deposit" /\ tx[c] = "mined"
    /\ At(c, "withdraw") => Kind(c) = "withdraw"
    /\ thread[c].pc \in {"states", "infos"} => Kind(c) \in {"balances", "deposit", "withdraw"}

CallInv(c) ==
    /\ ~At(c, "no") => /\ thread[c].ask \in Asks /\ thread[c].channel \in Channels
                       /\ thread[c].on \in Chains
    /\ At(c, "no") => tx[c] = "none"
    /\ tx[c] # "none" => Kind(c) \in {"deposit", "mint"}
    /\ ~At(c, "no") /\ Kind(c) # "create" => thread[c].channel = thread[c].ask.channel
    /\ thread[c].moved => thread[c].pc \in {"states", "infos", "done", "error", "lost"}
    /\ thread[c].moved /\ Kind(c) = "deposit" => tx[c] = "mined"

\* What a call that works on the list has found.
ReadInv(c) ==
    /\ Adding(c) => Initialized
    /\ At(c, "write") \/ (At(c, "routers") /\ Kind(c) = "create") => thread[c].channel \in known
    /\ At(c, "write") => thread[c].saw \subseteq Routers
    /\ Replacing(c) => thread[c].saw \subseteq known

TypeInv ==
    /\ VarTypes
    /\ shared => list["context"] = list["initialized"]
    /\ \A x \in Contexts : list[x] # None => \A i \in DOMAIN list[x] : list[x][i] \in known
    /\ \A c \in Calls : KindsInv(c) /\ CallInv(c) /\ ReadInv(c)

\* The deposits of asset a that were mined for channel ch, those that were reported,
\* and the withdrawals.
Mined(ch, a) ==
    {c \in Calls : tx[c] = "mined" /\ Kind(c) = "deposit" /\ thread[c].ask.asset = a
                   /\ thread[c].channel = ch /\ thread[c].on = ch[2]}
Counted(ch, a) ==
    {c \in Calls : thread[c].moved /\ Kind(c) = "deposit" /\ thread[c].ask.asset = a
                   /\ thread[c].channel = ch /\ thread[c].on = ch[2]}
Withdrawn(ch, a) ==
    {c \in Calls : thread[c].moved /\ Kind(c) = "withdraw" /\ thread[c].ask.asset = a
                   /\ thread[c].channel = ch}

Accounted(ch, a) ==
    /\ balance[ch][a] + landed[ch][a] + Cardinality(Withdrawn(ch, a)) = Cardinality(Mined(ch, a))
    /\ landed[ch][a] <= Cardinality(Mined(ch, a) \ Counted(ch, a))

MoneyInv == \A ch \in Channels, a \in Assets : Accounted(ch, a)

\* The channel of c is in the list of the initialized context.
InList(c) ==
    Initialized /\ \E i \in DOMAIN list["initialized"] :
                       list["initialized"][i] = thread[c].channel

\* c returned its channel, and had the list to itself.
Returned(c) == At(c, "done") /\ Kind(c) = "create" /\ c \notin meddled

AllAlone == \A d \in meddled : At(d, "lost")

\* A call that was not overlapped is the only one that works on the list.
AloneInv == \A c, d \in Calls : Lists(c) /\ c \notin meddled /\ d # c => ~Lists(d)

ReturnedInv == \A c \in Calls : Returned(c) => thread[c].channel \in known /\ InList(c)

SawInv == \A c, d \in Calls : Returned(c) /\ Replacing(d) => thread[c].channel \in thread[d].saw

OnceInv ==
    AllAlone => /\ Initialized => IsInjective(list["initialized"])
                /\ \A c \in Calls : Adding(c) => ~InList(c)

ListInv == AloneInv /\ ReturnedInv /\ SawInv /\ OnceInv

Inv == TypeInv /\ MoneyInv /\ ListInv

-----------------------------------------------------------------------------
(* Sequences. *)

\* The sequence made of a finite set has each of its elements, once.
LEMMA SetToSeqFacts ==
    ASSUME NEW S, IsFiniteSet(S), NEW q, q = SetToSeq(S)
    PROVE  /\ q \in Seq(S) /\ IsInjective(q)
           /\ \A e \in S : \E i \in DOMAIN q : q[i] = e
<1> DEFINE n == Cardinality(S)
<1>1. n \in Nat /\ ExistsBijection(1..n, S)
  BY FS_CardinalityType
<1>2. \E f \in [1..n -> S] : IsInjective(f)
  BY <1>1 DEF ExistsBijection, Bijection, Injection, IsInjective
<1>3. q \in [1..n -> S] /\ IsInjective(q)
  BY <1>2 DEF SetToSeq
<1>4. q \in Injection(1..n, S)
  BY <1>3 DEF Injection, IsInjective
<1>5. IsFiniteSet(1..n) /\ Cardinality(1..n) = n
  BY <1>1, FS_Interval
<1>6. q \in Surjection(1..n, S)
  BY <1>4, <1>5, FS_Injection
<1> HIDE DEF n
<1>7. \A e \in S : \E i \in 1..n : q[i] = e
  BY <1>6 DEF Surjection
<1> QED
  BY <1>1, <1>3, <1>7

LEMMA AppendFacts ==
    ASSUME NEW S, NEW s \in Seq(S), NEW e \in S, NEW t, t = Append(s, e)
    PROVE  /\ t \in Seq(S) /\ DOMAIN t = 1..(Len(s) + 1) /\ DOMAIN s = 1..Len(s)
           /\ Len(s) \in Nat /\ t[Len(s) + 1] = e
           /\ \A i \in DOMAIN s : i \in DOMAIN t /\ t[i] = s[i]
OBVIOUS

-----------------------------------------------------------------------------
(* What a piece does to the thread of its call. *)

Turn(c, p) ==
    /\ thread' \in [Calls -> Thread]
    /\ \A d \in Calls : d # c => thread'[d] = thread[d]
    /\ thread'[c].pc = p
    /\ thread'[c].ask = thread[c].ask /\ thread'[c].on = thread[c].on

Keeping(c) == thread'[c].channel = thread[c].channel /\ thread'[c].moved = thread[c].moved

LEMMA BecomesFacts ==
    ASSUME thread \in [Calls -> Thread], NEW c \in Calls, NEW th \in Thread, Becomes(c, th)
    PROVE  /\ thread' \in [Calls -> Thread] /\ thread'[c] = th
           /\ \A d \in Calls : d # c => thread'[d] = thread[d]
BY DEF Becomes

LEMMA EndedFacts ==
    ASSUME NEW th \in Thread, NEW p \in Pieces, NEW t, t = Ended(th, p)
    PROVE  /\ t \in Thread /\ t.pc = p /\ t.ask = th.ask /\ t.on = th.on
           /\ t.channel = th.channel /\ t.moved = th.moved
<1> DEFINE G == Seq([channel : Channels, amount : [Assets -> Nat]])
<1>1. <<>> \in G
  OBVIOUS
<1> HIDE DEF G
<1>2. /\ th \in [pc : Pieces, ask : Asks \cup {None}, channel : Channels \cup {None},
                captured : Contexts, on : Chains \cup {None},
                saw : SUBSET (Channels \cup Routers), moved : BOOLEAN, got : G]
      /\ Thread = [pc : Pieces, ask : Asks \cup {None}, channel : Channels \cup {None},
                captured : Contexts, on : Chains \cup {None},
                saw : SUBSET (Channels \cup Routers), moved : BOOLEAN, got : G]
  BY DEF Thread, G
<1> QED
  BY <1>1, <1>2 DEF Ended, Contexts

LEMMA GoToTurn ==
    ASSUME thread \in [Calls -> Thread], NEW c \in Calls, NEW p \in Pieces, GoTo(c, p)
    PROVE  Turn(c, p) /\ Keeping(c) /\ thread'[c].saw = thread[c].saw
<1> DEFINE th == thread[c]
           t == [th EXCEPT !.pc = p]
<1>1. th \in Thread
  OBVIOUS
<1>2. /\ t \in Thread /\ t.pc = p /\ t.ask = th.ask /\ t.on = th.on
      /\ t.channel = th.channel /\ t.moved = th.moved /\ t.saw = th.saw
  BY <1>1 DEF Thread
<1>3. Becomes(c, t)
  BY DEF GoTo
<1> HIDE DEF t
<1> QED
  BY <1>2, <1>3, BecomesFacts DEF Turn, Keeping

LEMMA OverTurn ==
    ASSUME thread \in [Calls -> Thread], NEW c \in Calls, NEW p \in Pieces,
           Becomes(c, Ended(thread[c], p))
    PROVE  Turn(c, p) /\ Keeping(c)
<1> DEFINE th == thread[c]
           t == Ended(th, p)
<1>1. th \in Thread
  OBVIOUS
<1> HIDE DEF th
<1>2. /\ t \in Thread /\ t.pc = p /\ t.ask = th.ask /\ t.on = th.on
      /\ t.channel = th.channel /\ t.moved = th.moved
  BY <1>1, EndedFacts
<1>3. Becomes(c, t)
  BY DEF th
<1> HIDE DEF t
<1> QED
  BY <1>2, <1>3, BecomesFacts DEF Turn, Keeping, th

LEMMA FailsTurn ==
    ASSUME thread \in [Calls -> Thread], NEW c \in Calls, Fails(c)
    PROVE  Turn(c, "error") /\ Keeping(c)
BY OverTurn DEF Fails, Pieces

LEMMA EndsTurn ==
    ASSUME thread \in [Calls -> Thread], NEW c \in Calls, Ends(c)
    PROVE  Turn(c, "done") /\ Keeping(c)
BY OverTurn DEF Ends, Pieces

LEMMA SawTurn ==
    ASSUME thread \in [Calls -> Thread], NEW c \in Calls, NEW p \in Pieces,
           NEW s \in SUBSET (Channels \cup Routers),
           Becomes(c, [thread[c] EXCEPT !.pc = p, !.saw = s])
    PROVE  Turn(c, p) /\ Keeping(c) /\ thread'[c].saw = s
<1> DEFINE th == thread[c]
           t == [th EXCEPT !.pc = p, !.saw = s]
<1>1. th \in Thread
  OBVIOUS
<1>2. /\ t \in Thread /\ t.pc = p /\ t.ask = th.ask /\ t.on = th.on
      /\ t.channel = th.channel /\ t.moved = th.moved /\ t.saw = s
  BY <1>1 DEF Thread
<1>3. Becomes(c, t)
  OBVIOUS
<1> HIDE DEF t
<1> QED
  BY <1>2, <1>3, BecomesFacts DEF Turn, Keeping

LEMMA MovedTurn ==
    ASSUME thread \in [Calls -> Thread], NEW c \in Calls, Moved(c)
    PROVE  /\ Turn(c, "states")
           /\ thread'[c].channel = thread[c].channel /\ thread'[c].moved
<1> DEFINE th == thread[c]
           t == [th EXCEPT !.pc = "states", !.moved = TRUE]
<1>1. th \in Thread
  OBVIOUS
<1>2. /\ t \in Thread /\ t.pc = "states" /\ t.ask = th.ask /\ t.on = th.on
      /\ t.channel = th.channel /\ t.moved
  BY <1>1 DEF Thread, Pieces
<1>3. Becomes(c, t)
  BY DEF Moved
<1> HIDE DEF t
<1> QED
  BY <1>2, <1>3, BecomesFacts DEF Turn

LEMMA AssuredTurn ==
    ASSUME thread \in [Calls -> Thread], NEW c \in Calls, NEW p \in Pieces,
           NEW r \in Routers, thread[c].ask \in Asks, AssureGatewayAuthorized(c, r, p)
    PROVE  /\ thread'[c].moved = thread[c].moved
           /\ \/ Turn(c, p) /\ thread'[c].channel = <<r, thread[c].ask.chain>>
              \/ Turn(c, "error") /\ Keeping(c)
           /\ <<r, thread[c].ask.chain>> \in Channels
<1> DEFINE th == thread[c]
           ch == <<r, th.ask.chain>>
           e == Ended(th, p)
           t == [e EXCEPT !.channel = ch]
<1>1. th \in Thread
  OBVIOUS
<1>2. ch \in Channels
  BY StateChannelsAssumption DEF Ask, Channels
<1>3. /\ e \in Thread /\ e.pc = p /\ e.ask = th.ask /\ e.on = th.on /\ e.moved = th.moved
  <2> HIDE DEF th
  <2> QED
    BY <1>1, EndedFacts
<1> HIDE DEF e
<1>4. /\ t \in Thread /\ t.pc = p /\ t.ask = th.ask /\ t.on = th.on
      /\ t.channel = ch /\ t.moved = th.moved
  <2> HIDE DEF th, ch
  <2> QED
    BY <1>2, <1>3 DEF Thread
<1>5. CASE Becomes(c, t)
  <2> HIDE DEF t
  <2> QED
    BY <1>2, <1>4, <1>5, BecomesFacts DEF Turn, Keeping
<1>6. CASE Fails(c)
  BY <1>2, <1>6, FailsTurn DEF Keeping
<1> QED
  BY <1>5, <1>6 DEF AssureGatewayAuthorized, e

-----------------------------------------------------------------------------
(* Types. *)

\* The other calls are not concerned by what call c does.
LEMMA OthersKept ==
    ASSUME TypeInv, NEW c \in Calls, \A d \in Calls : d # c => thread'[d] = thread[d],
           \A d \in Calls : d # c => tx'[d] = tx[d],
           known \subseteq known', Initialized => Initialized',
           KindsInv(c)', CallInv(c)', ReadInv(c)'
    PROVE  \A d \in Calls : KindsInv(d)' /\ CallInv(d)' /\ ReadInv(d)'
<1> SUFFICES ASSUME NEW d \in Calls, d # c
             PROVE  KindsInv(d)' /\ CallInv(d)' /\ ReadInv(d)'
  OBVIOUS
<1>1. thread'[d] = thread[d] /\ tx'[d] = tx[d]
  OBVIOUS
<1>2. KindsInv(d) /\ CallInv(d) /\ ReadInv(d)
  BY DEF TypeInv
<1>3. KindsInv(d)'
  BY <1>1, <1>2 DEF KindsInv, Kind, At
<1>4. CallInv(d)'
  BY <1>1, <1>2 DEF CallInv, Kind, At
<1>5. ReadInv(d)'
  BY <1>1, <1>2 DEF ReadInv, Adding, Replacing, Kind, At
<1> QED
  BY <1>3, <1>4, <1>5

LEMMA CallKept ==
    ASSUME TypeInv, NEW c \in Calls, NEW p, Turn(c, p), tx'[c] = tx[c],
           ~At(c, "no"), p # "no",
           \/ thread'[c].channel = thread[c].channel
           \/ Kind(c) = "create" /\ thread'[c].channel \in Channels,
           thread'[c].moved => thread[c].moved \/ (Kind(c) = "deposit" => tx[c] = "mined"),
           thread'[c].moved => p \in {"states", "infos", "done", "error", "lost"}
    PROVE  CallInv(c)'
<1>1. CallInv(c)
  BY DEF TypeInv
<1> QED
  BY <1>1 DEF CallInv, Turn, Kind, At

\* A piece that leaves channels, money and the lists alone.
LEMMA CalmType ==
    ASSUME TypeInv, NEW c \in Calls, NEW p \in Pieces, Turn(c, p),
           UNCHANGED <<node, money, list, shared, reloads, meddled>>,
           current' \in Contexts, stored' \subseteq Routers,
           info' \in [Assets -> {"none", "read", "unknown"}],
           KindsInv(c)', CallInv(c)', ReadInv(c)'
    PROVE  TypeInv'
<1>1. /\ opened' = opened /\ known' = known /\ wallet' = wallet /\ landed' = landed
      /\ balance' = balance /\ tx' = tx /\ list' = list /\ shared' = shared
      /\ reloads' = reloads /\ meddled' = meddled
  BY DEF node, money
<1>2. VarTypes'
  BY <1>1 DEF TypeInv, VarTypes, Turn
<1>3. Initialized => Initialized'
  BY <1>1 DEF Initialized
<1>4. \A d \in Calls : KindsInv(d)' /\ CallInv(d)' /\ ReadInv(d)'
  BY <1>1, <1>3, OthersKept DEF Turn
<1>5. /\ shared' => list'["context"] = list'["initialized"]
      /\ \A x \in Contexts : list'[x] # None => \A i \in DOMAIN list'[x] : list'[x][i] \in known'
  BY <1>1 DEF TypeInv
<1> QED
  BY <1>2, <1>4, <1>5 DEF TypeInv

\* What the pieces after the last one that works on the list, and those that fail, need.
LEMMA PastInvs ==
    ASSUME NEW c \in Calls, NEW p \in {"done", "error", "lost"}, Turn(c, p)
    PROVE  KindsInv(c)' /\ ReadInv(c)'
BY DEF KindsInv, ReadInv, Turn, At, Adding, Replacing, Listing

LEMMA GetActiveStateChannelsType ==
    ASSUME TypeInv, NEW c \in Calls, GetActiveStateChannels(c)
    PROVE  TypeInv'
<1>1. /\ thread \in [Calls -> Thread] /\ At(c, "channels") /\ Kind(c) = "initialize"
      /\ ~thread[c].moved /\ thread[c].captured \in Contexts /\ current \in Contexts
      /\ known \subseteq Channels /\ stored \subseteq Routers
      /\ info \in [Assets -> {"none", "read", "unknown"}]
  BY DEF GetActiveStateChannels, TypeInv, VarTypes, KindsInv, CallInv, At, Thread
<1>2. /\ UNCHANGED <<node, money, list, shared, reloads, meddled>>
      /\ stored' = stored /\ info' = info /\ tx' = tx /\ known' = known
      /\ current' \in Contexts
  BY <1>1 DEF GetActiveStateChannels, money, node
<1>3. CASE Fails(c)
  <2>1. Turn(c, "error") /\ Keeping(c)
    BY <1>1, <1>3, FailsTurn
  <2>2. CallInv(c)'
    BY <1>1, <1>2, <2>1, CallKept DEF Keeping, At
  <2> QED
    BY <1>1, <1>2, <2>1, <2>2, PastInvs, CalmType DEF Pieces
<1>4. CASE Becomes(c, [thread[c] EXCEPT !.pc = "routers", !.saw = known])
  <2>1. Turn(c, "routers") /\ Keeping(c) /\ thread'[c].saw = known
    BY <1>1, <1>4, SawTurn DEF Pieces
  <2>2. CallInv(c)'
    BY <1>1, <1>2, <2>1, CallKept DEF Keeping, At
  <2>3. KindsInv(c)' /\ ReadInv(c)'
    BY <1>1, <1>2, <2>1 DEF KindsInv, ReadInv, Turn, At, Adding, Replacing, Listing, Kind
  <2> QED
    BY <1>1, <1>2, <2>1, <2>2, <2>3, CalmType DEF Pieces
<1> QED
  BY <1>3, <1>4 DEF GetActiveStateChannels

LEMMA FindListedFacts ==
    ASSUME TypeInv, NEW c \in Calls, FindListed(c)
    PROVE  /\ thread \in [Calls -> Thread] /\ At(c, "router") /\ Kind(c) = "create"
           /\ thread[c].ask \in Asks /\ ~thread[c].moved /\ Initialized
           /\ UNCHANGED <<node, money, list, shared, current, stored, info, reloads, meddled>>
           /\ thread'[c].moved = thread[c].moved
           /\ \/ Turn(c, "error") /\ Keeping(c)
              \/ /\ Turn(c, "done") /\ thread'[c].channel \in Channels
                 /\ \E i \in DOMAIN list["initialized"] :
                        list["initialized"][i] = thread'[c].channel
              \/ /\ Turn(c, "setup") /\ thread'[c].channel \in Channels
                 /\ \A i \in DOMAIN list["initialized"] :
                        list["initialized"][i] # thread'[c].channel
<1> DEFINE l == list["initialized"]
           ask == thread[c].ask
           match == Matches(ask, l)
<1>1. /\ thread \in [Calls -> Thread] /\ At(c, "router") /\ Kind(c) = "create"
      /\ ask \in Asks /\ ~thread[c].moved /\ Initialized
  BY DEF FindListed, TypeInv, VarTypes, KindsInv, CallInv, At
<1>2. UNCHANGED <<node, money, list, shared, current, stored, info, reloads, meddled>>
  BY DEF FindListed, context
<1>3. l \in Seq(Channels)
  BY <1>1 DEF TypeInv, VarTypes, Lists0, Contexts, Initialized
<1>4. \A i \in DOMAIN l : l[i] \in Channels
  BY <1>3
<1>5. ask.routers \subseteq Routers
  BY <1>1, StateChannelsAssumption DEF Ask
<1>6. ASSUME NEW i \in match, AssureGatewayAuthorized(c, l[i][1], "done")
      PROVE  /\ thread'[c].moved = thread[c].moved
             /\ \/ Turn(c, "error") /\ Keeping(c)
                \/ Turn(c, "done") /\ thread'[c].channel \in Channels /\ l[i] = thread'[c].channel
  <2>1. i \in DOMAIN l /\ l[i][1] \in ask.routers /\ l[i][2] = ask.chain
    BY <1>6 DEF Matches
  <2>2. l[i] \in Routers \X Chains
    BY <1>4, <2>1 DEF Channels
  <2>3. l[i] = <<l[i][1], ask.chain>> /\ l[i][1] \in Routers
    BY <2>1, <2>2
  <2> QED
    BY <1>1, <1>6, <2>3, AssuredTurn DEF Pieces
<1>7. ASSUME NEW r \in ask.routers, match = {}, AssureGatewayAuthorized(c, r, "setup")
      PROVE  /\ thread'[c].moved = thread[c].moved
             /\ \/ Turn(c, "error") /\ Keeping(c)
                \/ /\ Turn(c, "setup") /\ thread'[c].channel \in Channels
                   /\ \A i \in DOMAIN l : l[i] # thread'[c].channel
  <2>1. \A i \in DOMAIN l : l[i] # <<r, ask.chain>>
    BY <1>7 DEF Matches
  <2>2. r \in Routers
    BY <1>5
  <2> QED
    BY <1>1, <1>7, <2>1, <2>2, AssuredTurn DEF Pieces
<1>8. \/ \E i \in match : AssureGatewayAuthorized(c, l[i][1], "done")
      \/ match = {} /\ \E r \in ask.routers : AssureGatewayAuthorized(c, r, "setup")
  BY DEF FindListed
<1>9. \A i \in match : i \in DOMAIN l
  BY DEF Matches
<1> QED
  BY <1>1, <1>2, <1>6, <1>7, <1>8, <1>9

LEMMA FindListedType ==
    ASSUME TypeInv, NEW c \in Calls, FindListed(c)
    PROVE  TypeInv'
<1>1. /\ At(c, "router") /\ Kind(c) = "create" /\ ~thread[c].moved /\ Initialized
      /\ UNCHANGED <<node, money, list, shared, reloads, meddled>>
      /\ stored' = stored /\ info' = info /\ tx' = tx /\ known' = known /\ list' = list
      /\ current' = current /\ thread'[c].moved = thread[c].moved
  BY FindListedFacts DEF money, node
<1>2. /\ current \in Contexts /\ stored \subseteq Routers
      /\ info \in [Assets -> {"none", "read", "unknown"}]
  BY DEF TypeInv, VarTypes
<1>3. PICK p \in {"error", "done", "setup"} :
          Turn(c, p) /\ (thread'[c].channel = thread[c].channel \/ thread'[c].channel \in Channels)
  BY FindListedFacts DEF Keeping
<1>4. CallInv(c)'
  BY <1>1, <1>3, CallKept DEF At
<1>5. KindsInv(c)' /\ ReadInv(c)'
  BY <1>1, <1>3 DEF KindsInv, ReadInv, Turn, At, Adding, Replacing, Listing, Kind, Initialized
<1> QED
  BY <1>1, <1>2, <1>3, <1>4, <1>5, CalmType DEF Pieces

\* A channel is added to the store, at most.
LEMMA StoreType ==
    ASSUME TypeInv, NEW c \in Calls, NEW p \in Pieces, Turn(c, p),
           UNCHANGED <<money, list, shared, current, stored, info, reloads, meddled>>,
           NEW ch \in Channels, opened' \in {opened, opened \cup {ch}},
           known' \in {known, known \cup {ch}}, known' \subseteq opened',
           KindsInv(c)', CallInv(c)', ReadInv(c)'
    PROVE  TypeInv'
<1>1. /\ wallet' = wallet /\ landed' = landed /\ balance' = balance /\ tx' = tx
      /\ list' = list /\ shared' = shared /\ reloads' = reloads /\ meddled' = meddled
      /\ current' = current /\ stored' = stored /\ info' = info
  BY DEF money
<1>2. known \subseteq known' /\ opened' \subseteq Channels
  BY DEF TypeInv, VarTypes
<1>3. IsFiniteSet(known')
  <2>1. IsFiniteSet(known)
    BY DEF TypeInv, VarTypes
  <2>2. IsFiniteSet(known \cup {ch})
    BY <2>1, FS_AddElement
  <2> QED
    BY <2>1, <2>2
<1>4. VarTypes'
  BY <1>1, <1>2, <1>3 DEF TypeInv, VarTypes, Turn
<1>5. Initialized => Initialized'
  BY <1>1 DEF Initialized
<1>6. \A d \in Calls : KindsInv(d)' /\ CallInv(d)' /\ ReadInv(d)'
  BY <1>1, <1>2, <1>5, OthersKept DEF Turn
<1>7. /\ shared' => list'["context"] = list'["initialized"]
      /\ \A x \in Contexts : list'[x] # None => \A i \in DOMAIN list'[x] : list'[x][i] \in known'
  BY <1>1, <1>2 DEF TypeInv
<1> QED
  BY <1>4, <1>6, <1>7 DEF TypeInv

LEMMA SetUpFacts ==
    ASSUME TypeInv, NEW c \in Calls, SetUp(c)
    PROVE  /\ thread \in [Calls -> Thread] /\ At(c, "setup") /\ Kind(c) = "create"
           /\ ~thread[c].moved /\ Initialized /\ thread[c].channel \in Channels
           /\ UNCHANGED <<money, list, shared, current, stored, info, reloads, meddled>>
           /\ opened' \in {opened, opened \cup {thread[c].channel}}
           /\ known' \in {known, known \cup {thread[c].channel}} /\ known' \subseteq opened'
           /\ Keeping(c)
           /\ (Turn(c, "routers") /\ thread[c].channel \in known') \/ Turn(c, "restore")
<1> DEFINE ch == thread[c].channel
           l == list[current]
<1>1. /\ thread \in [Calls -> Thread] /\ At(c, "setup") /\ Kind(c) = "create"
      /\ ~thread[c].moved /\ Initialized /\ ch \in Channels /\ known \subseteq opened
  BY DEF SetUp, TypeInv, VarTypes, KindsInv, CallInv, ReadInv, Adding, Listing, At
<1>2. UNCHANGED <<money, list, shared, current, stored, info, reloads, meddled>>
  BY DEF SetUp, context
<1>3. ASSUME l # None, Contains(l, ch) PROVE ch \in known
  <2>1. current \in Contexts /\ l \in Seq(Channels)
    BY <1>3 DEF TypeInv, VarTypes, Lists0
  <2>2. \E i \in DOMAIN l : l[i] = ch
    BY <1>3, <2>1 DEF Contains
  <2> QED
    BY <1>3, <2>1, <2>2 DEF TypeInv
<1>4. CASE l # None /\ Contains(l, ch) /\ GoTo(c, "routers") /\ UNCHANGED node
  BY <1>1, <1>2, <1>3, <1>4, GoToTurn DEF Pieces, node
<1>5. CASE /\ opened' = opened \cup {ch} /\ known' = known \cup {ch}
           /\ GoTo(c, "routers")
  BY <1>1, <1>2, <1>5, GoToTurn DEF Pieces
<1>6. CASE GoTo(c, "restore") /\ UNCHANGED node
  BY <1>1, <1>2, <1>6, GoToTurn DEF Pieces, node
<1> QED
  BY <1>4, <1>5, <1>6 DEF SetUp

LEMMA SetUpType ==
    ASSUME TypeInv, NEW c \in Calls, SetUp(c)
    PROVE  TypeInv'
<1> DEFINE ch == thread[c].channel
<1>1. /\ At(c, "setup") /\ Kind(c) = "create" /\ ~thread[c].moved /\ Initialized
      /\ ch \in Channels /\ Keeping(c)
      /\ UNCHANGED <<money, list, shared, current, stored, info, reloads, meddled>>
      /\ opened' \in {opened, opened \cup {ch}} /\ known' \in {known, known \cup {ch}}
      /\ known' \subseteq opened'
  BY SetUpFacts
<1>2. PICK p \in {"routers", "restore"} : Turn(c, p) /\ (p = "routers" => ch \in known')
  BY SetUpFacts
<1>3. tx' = tx /\ list' = list
  BY <1>1 DEF money
<1>4. CallInv(c)'
  BY <1>1, <1>2, <1>3, CallKept DEF At, Keeping
<1>5. KindsInv(c)' /\ ReadInv(c)'
  BY <1>1, <1>2, <1>3
     DEF KindsInv, ReadInv, Turn, At, Adding, Replacing, Listing, Kind, Initialized, Keeping
<1> QED
  BY <1>1, <1>2, <1>4, <1>5, StoreType DEF Pieces

LEMMA RestoreFacts ==
    ASSUME TypeInv, NEW c \in Calls, RestoreState(c)
    PROVE  /\ thread \in [Calls -> Thread] /\ At(c, "restore") /\ Kind(c) = "create"
           /\ ~thread[c].moved /\ Initialized /\ thread[c].channel \in Channels
           /\ UNCHANGED <<money, list, shared, current, stored, info, reloads, meddled>>
           /\ opened' = opened
           /\ known' \in {known, known \cup {thread[c].channel}} /\ known' \subseteq opened'
           /\ Keeping(c)
           /\ (Turn(c, "routers") /\ thread[c].channel \in known') \/ Turn(c, "error")
<1> DEFINE ch == thread[c].channel
<1>1. /\ thread \in [Calls -> Thread] /\ At(c, "restore") /\ Kind(c) = "create"
      /\ ~thread[c].moved /\ Initialized /\ ch \in Channels /\ known \subseteq opened
  BY DEF RestoreState, TypeInv, VarTypes, KindsInv, CallInv, ReadInv, Adding, Listing, At
<1>2. UNCHANGED <<money, list, shared, current, stored, info, reloads, meddled>>
  BY DEF RestoreState, context
<1>3. CASE Fails(c) /\ UNCHANGED node
  BY <1>1, <1>2, <1>3, FailsTurn DEF node
<1>4. CASE ch \in opened /\ known' = known \cup {ch} /\ GoTo(c, "routers") /\ UNCHANGED opened
  BY <1>1, <1>2, <1>4, GoToTurn DEF Pieces
<1> QED
  BY <1>3, <1>4 DEF RestoreState

LEMMA RestoreType ==
    ASSUME TypeInv, NEW c \in Calls, RestoreState(c)
    PROVE  TypeInv'
<1> DEFINE ch == thread[c].channel
<1>1. /\ At(c, "restore") /\ Kind(c) = "create" /\ ~thread[c].moved /\ Initialized
      /\ ch \in Channels /\ Keeping(c)
      /\ UNCHANGED <<money, list, shared, current, stored, info, reloads, meddled>>
      /\ opened' = opened /\ known' \in {known, known \cup {ch}}
      /\ known' \subseteq opened'
  BY RestoreFacts
<1>2. PICK p \in {"routers", "error"} : Turn(c, p) /\ (p = "routers" => ch \in known')
  BY RestoreFacts
<1>3. tx' = tx /\ list' = list
  BY <1>1 DEF money
<1>4. CallInv(c)'
  BY <1>1, <1>2, <1>3, CallKept DEF At, Keeping
<1>5. KindsInv(c)' /\ ReadInv(c)'
  BY <1>1, <1>2, <1>3
     DEF KindsInv, ReadInv, Turn, At, Adding, Replacing, Listing, Kind, Initialized, Keeping
<1> QED
  BY <1>1, <1>2, <1>4, <1>5, StoreType DEF Pieces

LEMMA GetActiveRoutersFacts ==
    ASSUME TypeInv, NEW c \in Calls, GetActiveRouters(c)
    PROVE  /\ thread \in [Calls -> Thread] /\ At(c, "routers") /\ Kind(c) = "create"
           /\ ~thread[c].moved /\ Initialized /\ thread[c].channel \in known /\ Keeping(c)
           /\ UNCHANGED <<node, money, stored, list, shared, current, info, reloads, meddled>>
           /\ \/ Turn(c, "error")
              \/ Turn(c, "write") /\ thread'[c].saw \subseteq Routers
<1>1. /\ thread \in [Calls -> Thread] /\ At(c, "routers") /\ Kind(c) = "create"
      /\ ~thread[c].moved /\ Initialized /\ thread[c].channel \in known /\ stored \subseteq Routers
  BY DEF GetActiveRouters, TypeInv, VarTypes, KindsInv, CallInv, ReadInv, Adding, Listing, At, Kind
<1>2. UNCHANGED <<node, money, stored, list, shared, current, info, reloads, meddled>>
  BY DEF GetActiveRouters, context
<1>3. CASE Fails(c)
  BY <1>1, <1>2, <1>3, FailsTurn
<1>4. CASE Becomes(c, [thread[c] EXCEPT !.pc = "write", !.saw = stored])
  BY <1>1, <1>2, <1>4, SawTurn DEF Pieces
<1> QED
  BY <1>3, <1>4 DEF GetActiveRouters

LEMMA GetActiveRoutersType ==
    ASSUME TypeInv, NEW c \in Calls, GetActiveRouters(c)
    PROVE  TypeInv'
<1>1. /\ At(c, "routers") /\ Kind(c) = "create" /\ ~thread[c].moved /\ Initialized
      /\ thread[c].channel \in known /\ Keeping(c)
      /\ UNCHANGED <<node, money, list, shared, reloads, meddled>>
      /\ stored' = stored /\ current' = current /\ info' = info
  BY GetActiveRoutersFacts
<1>2. PICK p \in {"error", "write"} :
          Turn(c, p) /\ (p = "write" => thread'[c].saw \subseteq Routers)
  BY GetActiveRoutersFacts
<1>3. tx' = tx /\ list' = list /\ known' = known
  BY <1>1 DEF money, node
<1>4. /\ current \in Contexts /\ stored \subseteq Routers
      /\ info \in [Assets -> {"none", "read", "unknown"}]
  BY DEF TypeInv, VarTypes
<1>5. CallInv(c)'
  BY <1>1, <1>2, <1>3, CallKept DEF At, Keeping
<1>6. KindsInv(c)' /\ ReadInv(c)'
  BY <1>1, <1>2, <1>3
     DEF KindsInv, ReadInv, Turn, At, Adding, Replacing, Listing, Kind, Initialized, Keeping
<1> QED
  BY <1>1, <1>2, <1>4, <1>5, <1>6, CalmType DEF Pieces

\* The list that SetContext reads, and which of the two lists it replaces.
LEMMA SetContextFacts ==
    ASSUME TypeInv, NEW c \in Calls, SetContext(c), NEW q, q = SetToSeq(thread[c].saw)
    PROVE  /\ thread \in [Calls -> Thread] /\ Replacing(c) /\ ~thread[c].moved
           /\ thread[c].captured \in Contexts /\ thread[c].saw \subseteq known
           /\ UNCHANGED <<node, money, stored, info, reloads, meddled>>
           /\ current' \in Contexts /\ shared' = ~Initialized
           /\ Turn(c, "done") /\ Keeping(c)
           /\ q \in Seq(Channels) /\ IsInjective(q)
           /\ \A e \in thread[c].saw : \E i \in DOMAIN q : q[i] = e
           /\ \A i \in DOMAIN q : q[i] \in thread[c].saw
           /\ list' \in [Contexts -> Seq(Channels) \cup {None}]
           /\ \A x \in Contexts : list'[x] = q \/ (Initialized /\ list'[x] = list[x])
<1>1. /\ thread \in [Calls -> Thread] /\ Replacing(c) /\ ~thread[c].moved
      /\ thread[c].captured \in Contexts /\ thread[c].saw \subseteq known
      /\ known \subseteq Channels /\ IsFiniteSet(known) /\ list \in [Contexts -> Lists0]
  BY DEF SetContext, TypeInv, VarTypes, CallInv, ReadInv, Adding, Listing, At, Kind,
         Replacing, Thread
<1>2. /\ UNCHANGED <<node, money, stored, info, reloads, meddled>>
      /\ current' \in Contexts /\ shared' = ~Initialized /\ Ends(c)
      /\ list' = IF Initialized THEN [list EXCEPT ![thread[c].captured] = q]
                 ELSE [x \in Contexts |-> q]
  BY <1>1 DEF SetContext
<1>3. Turn(c, "done") /\ Keeping(c)
  BY <1>1, <1>2, EndsTurn
<1> DEFINE S == thread[c].saw
<1>4. S \subseteq known /\ S \subseteq Channels /\ q = SetToSeq(S)
  BY <1>1
<1> HIDE DEF S
<1>5. IsFiniteSet(S)
  BY <1>1, <1>4, FS_Subset
<1>6. q \in Seq(S) /\ IsInjective(q) /\ \A e \in S : \E i \in DOMAIN q : q[i] = e
  BY <1>4, <1>5, SetToSeqFacts
<1>7. q \in Seq(Channels) /\ \A i \in DOMAIN q : q[i] \in S
  BY <1>4, <1>6
<1>8. /\ list' \in [Contexts -> Seq(Channels) \cup {None}]
      /\ \A x \in Contexts : list'[x] = q \/ (Initialized /\ list'[x] = list[x])
  BY <1>1, <1>2, <1>7 DEF Lists0
<1> QED
  BY <1>1, <1>2, <1>3, <1>6, <1>7, <1>8 DEF S

LEMMA SetContextType ==
    ASSUME TypeInv, NEW c \in Calls, SetContext(c)
    PROVE  TypeInv'
<1> DEFINE q == SetToSeq(thread[c].saw)
<1>0. q = SetToSeq(thread[c].saw)
  OBVIOUS
<1> HIDE DEF q
<1>1. /\ thread \in [Calls -> Thread] /\ Replacing(c) /\ ~thread[c].moved
      /\ thread[c].saw \subseteq known
      /\ UNCHANGED <<node, money, stored, info, reloads, meddled>>
      /\ current' \in Contexts /\ shared' = ~Initialized
      /\ Turn(c, "done") /\ Keeping(c)
      /\ q \in Seq(Channels)
      /\ \A i \in DOMAIN q : q[i] \in thread[c].saw
      /\ list' \in [Contexts -> Seq(Channels) \cup {None}]
      /\ \A x \in Contexts : list'[x] = q \/ (Initialized /\ list'[x] = list[x])
  BY <1>0, SetContextFacts
<1>2. /\ opened' = opened /\ known' = known /\ wallet' = wallet /\ landed' = landed
      /\ balance' = balance /\ tx' = tx /\ stored' = stored /\ info' = info
      /\ reloads' = reloads /\ meddled' = meddled
  BY <1>1 DEF node, money
<1>3. VarTypes'
  BY <1>1, <1>2 DEF TypeInv, VarTypes, Turn, Lists0
<1>4. q # None
  BY <1>1, StateChannelsAssumption
<1>5. Initialized'
  BY <1>1, <1>4 DEF Initialized, Contexts
<1>6. KindsInv(c)' /\ ReadInv(c)'
  BY <1>1, PastInvs
<1>7. CallInv(c)'
  BY <1>1, <1>2, CallKept DEF At, Keeping, Replacing
<1>8. \A d \in Calls : KindsInv(d)' /\ CallInv(d)' /\ ReadInv(d)'
  BY <1>1, <1>2, <1>5, <1>6, <1>7, OthersKept DEF Turn
<1>9. shared' => list'["context"] = list'["initialized"]
  BY <1>1 DEF Contexts
<1>10. ASSUME NEW x \in Contexts, list'[x] # None, NEW i \in DOMAIN list'[x]
       PROVE  list'[x][i] \in known'
  <2>1. CASE list'[x] = q
    BY <1>1, <1>2, <1>10, <2>1
  <2>2. CASE list'[x] = list[x]
    BY <1>2, <1>10, <2>2 DEF TypeInv
  <2> QED
    BY <1>1, <2>1, <2>2
<1> QED
  BY <1>3, <1>8, <1>9, <1>10 DEF TypeInv

LEMMA AddActiveRouterFacts ==
    ASSUME TypeInv, NEW c \in Calls, AddActiveRouter(c)
    PROVE  /\ thread \in [Calls -> Thread] /\ At(c, "write") /\ Kind(c) = "create"
           /\ ~thread[c].moved /\ Initialized /\ thread[c].channel \in known
           /\ thread[c].channel \in Channels
           /\ UNCHANGED <<node, money, shared, info, reloads, meddled>>
           /\ stored' \subseteq Routers /\ current' \in Contexts
           /\ Turn(c, "done") /\ Keeping(c)
           /\ list \in [Contexts -> Lists0]
           /\ list["initialized"] \in Seq(Channels)
           /\ list' = [x \in Contexts |-> IF x = "initialized" \/ shared
                                          THEN Append(list[x], thread[c].channel) ELSE list[x]]
<1>1. /\ thread \in [Calls -> Thread] /\ At(c, "write") /\ Kind(c) = "create"
      /\ ~thread[c].moved /\ Initialized /\ thread[c].channel \in known
      /\ thread[c].channel \in Channels /\ thread[c].saw \subseteq Routers
      /\ list \in [Contexts -> Lists0] /\ stored \subseteq Routers
  BY DEF AddActiveRouter, TypeInv, VarTypes, KindsInv, CallInv, ReadInv, Adding, Listing,
         At, Kind
<1>2. /\ UNCHANGED <<node, money, shared, info, reloads, meddled>>
      /\ current' \in Contexts /\ Ends(c)
      /\ list' = [x \in Contexts |-> IF x = "initialized" \/ shared
                                     THEN Append(list[x], thread[c].channel) ELSE list[x]]
  BY DEF AddActiveRouter, Contexts
<1>3. stored' \subseteq Routers
  <2>1. thread[c].channel[1] \in Routers
    BY <1>1 DEF Channels
  <2> QED
    BY <1>1, <2>1 DEF AddActiveRouter
<1>4. list["initialized"] \in Seq(Channels)
  BY <1>1 DEF Initialized, Lists0, Contexts
<1>5. Turn(c, "done") /\ Keeping(c)
  BY <1>1, <1>2, EndsTurn
<1> QED
  BY <1>1, <1>2, <1>3, <1>4, <1>5

LEMMA AddActiveRouterType ==
    ASSUME TypeInv, NEW c \in Calls, AddActiveRouter(c)
    PROVE  TypeInv'
<1> DEFINE ch == thread[c].channel
           l == list["initialized"]
           t == Append(l, ch)
<1>1. /\ thread \in [Calls -> Thread] /\ At(c, "write") /\ Kind(c) = "create"
      /\ ~thread[c].moved /\ Initialized /\ ch \in known /\ ch \in Channels
      /\ UNCHANGED <<node, money, shared, info, reloads, meddled>>
      /\ stored' \subseteq Routers /\ current' \in Contexts
      /\ Turn(c, "done") /\ Keeping(c)
      /\ list \in [Contexts -> Lists0] /\ l \in Seq(Channels)
      /\ list' = [x \in Contexts |-> IF x = "initialized" \/ shared
                                     THEN Append(list[x], ch) ELSE list[x]]
  BY AddActiveRouterFacts
<1>2. /\ opened' = opened /\ known' = known /\ wallet' = wallet /\ landed' = landed
      /\ balance' = balance /\ tx' = tx /\ info' = info /\ shared' = shared
      /\ reloads' = reloads /\ meddled' = meddled
  BY <1>1 DEF node, money
<1>3. shared => list["context"] = l
  BY DEF TypeInv
<1>4. \A i \in DOMAIN l : l[i] \in known
  BY <1>1 DEF TypeInv, Initialized, Contexts
<1> HIDE DEF ch, l
<1>5. /\ t \in Seq(Channels) /\ DOMAIN t = 1..(Len(l) + 1) /\ DOMAIN l = 1..Len(l)
      /\ Len(l) \in Nat /\ t[Len(l) + 1] = ch
      /\ \A i \in DOMAIN l : i \in DOMAIN t /\ t[i] = l[i]
  BY <1>1, AppendFacts
<1>6. \A i \in DOMAIN t : t[i] \in known
  BY <1>1, <1>4, <1>5
<1>7. \A x \in Contexts : list'[x] = t \/ list'[x] = list[x]
  BY <1>1, <1>3 DEF Contexts, l
<1>8. list'["initialized"] = t /\ (shared => list'["context"] = t)
  BY <1>1, <1>3 DEF Contexts, l
<1>9. list' \in [Contexts -> Lists0]
  <2>1. \A x \in Contexts : list'[x] \in Lists0
    BY <1>1, <1>5, <1>7 DEF Lists0
  <2>2. DOMAIN list' = Contexts /\ list' = [x \in Contexts |-> list'[x]]
    BY <1>1
  <2> QED
    BY <2>1, <2>2
<1> HIDE DEF t
<1>10. VarTypes'
  BY <1>1, <1>2, <1>9 DEF TypeInv, VarTypes, Turn
<1>11. Initialized'
  BY <1>5, <1>8, StateChannelsAssumption DEF Initialized
<1>12. KindsInv(c)' /\ ReadInv(c)'
  BY <1>1, PastInvs
<1>13. CallInv(c)'
  BY <1>1, <1>2, CallKept DEF At, Keeping
<1>14. \A d \in Calls : KindsInv(d)' /\ CallInv(d)' /\ ReadInv(d)'
  BY <1>1, <1>2, <1>11, <1>12, <1>13, OthersKept DEF Turn
<1>15. shared' => list'["context"] = list'["initialized"]
  BY <1>2, <1>8
<1>16. ASSUME NEW x \in Contexts, list'[x] # None, NEW i \in DOMAIN list'[x]
       PROVE  list'[x][i] \in known'
  <2>1. CASE list'[x] = t
    BY <1>2, <1>6, <1>16, <2>1 DEF t
  <2>2. CASE list'[x] = list[x]
    BY <1>2, <1>16, <2>2 DEF TypeInv
  <2> QED
    BY <1>7, <2>1, <2>2
<1> QED
  BY <1>10, <1>14, <1>15, <1>16 DEF TypeInv

\* Money is moved or counted, and the lists and the store are left alone.
LEMMA MoneyType ==
    ASSUME TypeInv, NEW c \in Calls,
           UNCHANGED <<node, stored, context, info, reloads, meddled>>,
           thread' \in [Calls -> Thread], \A d \in Calls : d # c => thread'[d] = thread[d],
           wallet' \in [Assets -> Nat],
           landed' \in [Channels -> [Assets -> Nat]], balance' \in [Channels -> [Assets -> Nat]],
           tx' \in [Calls -> {"none", "pending", "mined", "reverted"}],
           \A d \in Calls : d # c => tx'[d] = tx[d],
           KindsInv(c)', CallInv(c)', ReadInv(c)'
    PROVE  TypeInv'
<1>1. /\ opened' = opened /\ known' = known /\ stored' = stored /\ list' = list
      /\ shared' = shared /\ current' = current /\ info' = info
      /\ reloads' = reloads /\ meddled' = meddled
  BY DEF node, context
<1>2. VarTypes'
  BY <1>1 DEF TypeInv, VarTypes
<1>3. Initialized => Initialized'
  BY <1>1 DEF Initialized
<1>4. \A d \in Calls : KindsInv(d)' /\ CallInv(d)' /\ ReadInv(d)'
  BY <1>1, <1>3, OthersKept
<1>5. /\ shared' => list'["context"] = list'["initialized"]
      /\ \A x \in Contexts : list'[x] # None => \A i \in DOMAIN list'[x] : list'[x][i] \in known'
  BY <1>1 DEF TypeInv
<1> QED
  BY <1>2, <1>4, <1>5 DEF TypeInv

\* A piece of a call that does not work on the list does not get it to do so.
LEMMA FarRead ==
    ASSUME NEW c \in Calls, NEW p \in Pieces \ {"setup", "restore", "routers", "write"}, Turn(c, p)
    PROVE  ReadInv(c)'
BY DEF ReadInv, Turn, At, Adding, Replacing, Listing

\* One amount of a table of channels and assets is set.
LEMMA AmountSet ==
    ASSUME NEW m \in [Channels -> [Assets -> Nat]], NEW ch \in Channels, NEW a \in Assets,
           NEW k \in Nat, NEW t, t = [m EXCEPT ![ch][a] = k]
    PROVE  /\ t \in [Channels -> [Assets -> Nat]]
           /\ \A y \in Channels, b \in Assets :
                  t[y][b] = IF y = ch /\ b = a THEN k ELSE m[y][b]
OBVIOUS

\* The table after one more of asset a landed on channel ch.
OneMore(m, t, ch, a) ==
    \A y \in Channels, b \in Assets :
        t[y][b] = IF y = ch /\ b = a THEN m[y][b] + 1 ELSE m[y][b]

\* What is mined, and what lands on the address of a channel: nothing, if the
\* wallet was on another chain.
LEMMA MineFacts ==
    ASSUME TypeInv, NEW c \in Calls, Mine(c)
    PROVE  /\ tx[c] = "pending" /\ ~At(c, "no") /\ Kind(c) \in {"deposit", "mint"}
           /\ thread[c].ask \in Asks /\ thread[c].channel \in Channels
           /\ thread[c].channel = thread[c].ask.channel /\ thread[c].ask.asset \in Assets
           /\ UNCHANGED <<node, stored, context, info, thread, reloads, meddled, balance>>
           /\ wallet' \in [Assets -> Nat] /\ landed' \in [Channels -> [Assets -> Nat]]
           /\ \E m \in {"mined", "reverted"} :
                  /\ tx' = [tx EXCEPT ![c] = m]
                  /\ \/ /\ m = "mined" /\ Kind(c) = "deposit"
                        /\ thread[c].on = thread[c].channel[2]
                        /\ OneMore(landed, landed', thread[c].channel, thread[c].ask.asset)
                     \/ /\ ~(m = "mined" /\ Kind(c) = "deposit"
                             /\ thread[c].on = thread[c].channel[2])
                        /\ landed' = landed
<1> DEFINE ask == thread[c].ask
           a == ask.asset
<1>1. /\ tx[c] = "pending" /\ ~At(c, "no") /\ Kind(c) \in {"deposit", "mint"}
      /\ ask \in Asks /\ thread[c].channel \in Channels
      /\ thread[c].channel = ask.channel
  BY DEF Mine, TypeInv, CallInv, Kind, At
<1>2. a \in Assets
  BY <1>1, StateChannelsAssumption DEF Ask
<1>3. UNCHANGED <<node, stored, context, info, thread, reloads, meddled, balance>>
  BY DEF Mine
<1>4. wallet \in [Assets -> Nat] /\ landed \in [Channels -> [Assets -> Nat]]
  BY DEF TypeInv, VarTypes
<1>5. CASE /\ ask.kind = "deposit" /\ thread[c].on = ask.channel[2] /\ wallet[ask.asset] > 0
           /\ tx' = [tx EXCEPT ![c] = "mined"]
           /\ wallet' = [wallet EXCEPT ![ask.asset] = @ - 1]
           /\ landed' = [landed EXCEPT ![ask.channel][ask.asset] = @ + 1]
  <2>1. wallet' \in [Assets -> Nat]
    BY <1>2, <1>4, <1>5
  <2> DEFINE ch == ask.channel
             k == landed[ch][a] + 1
  <2>2. ch \in Channels /\ k \in Nat /\ landed' = [landed EXCEPT ![ch][a] = k]
    BY <1>1, <1>2, <1>4, <1>5
  <2>3. /\ landed' \in [Channels -> [Assets -> Nat]]
        /\ \A y \in Channels, b \in Assets :
               landed'[y][b] = IF y = ch /\ b = a THEN k ELSE landed[y][b]
    <3> HIDE DEF ch, k, a
    <3> QED
      BY <1>2, <1>4, <2>2, AmountSet
  <2>4. OneMore(landed, landed', ch, a)
    BY <2>3 DEF OneMore
  <2> QED
    BY <1>1, <1>2, <1>3, <1>5, <2>1, <2>3, <2>4 DEF Kind
<1>6. CASE /\ ask.kind = "deposit" /\ thread[c].on # ask.channel[2]
           /\ tx' = [tx EXCEPT ![c] = "mined"]
           /\ UNCHANGED <<wallet, landed>>
  BY <1>1, <1>2, <1>3, <1>4, <1>6 DEF Kind
<1>7. CASE /\ ask.kind = "mint"
           /\ tx' = [tx EXCEPT ![c] = "mined"]
           /\ wallet' = [wallet EXCEPT ![ask.asset] = @ + 1]
           /\ UNCHANGED landed
  <2>1. wallet' \in [Assets -> Nat]
    BY <1>2, <1>4, <1>7
  <2> QED
    BY <1>1, <1>2, <1>3, <1>4, <1>7, <2>1 DEF Kind
<1>8. CASE tx' = [tx EXCEPT ![c] = "reverted"] /\ UNCHANGED <<wallet, landed>>
  BY <1>1, <1>2, <1>3, <1>4, <1>8 DEF Kind
<1> QED
  BY <1>5, <1>6, <1>7, <1>8 DEF Mine

LEMMA MineType ==
    ASSUME TypeInv, NEW c \in Calls, Mine(c)
    PROVE  TypeInv'
<1>1. /\ UNCHANGED <<node, stored, context, info, reloads, meddled>>
      /\ thread' = thread /\ balance' = balance /\ wallet' \in [Assets -> Nat]
      /\ Kind(c) \in {"deposit", "mint"} /\ thread[c].channel \in Channels
      /\ thread[c].ask.asset \in Assets /\ tx[c] = "pending"
      /\ landed' \in [Channels -> [Assets -> Nat]]
  BY MineFacts
<1>2. PICK m \in {"mined", "reverted"} : tx' = [tx EXCEPT ![c] = m]
  BY MineFacts
<1>3. /\ thread \in [Calls -> Thread] /\ balance \in [Channels -> [Assets -> Nat]]
      /\ tx \in [Calls -> {"none", "pending", "mined", "reverted"}]
      /\ KindsInv(c) /\ CallInv(c) /\ ReadInv(c)
  BY DEF TypeInv, VarTypes
<1>5. /\ tx' \in [Calls -> {"none", "pending", "mined", "reverted"}] /\ tx'[c] = m
      /\ \A d \in Calls : d # c => tx'[d] = tx[d]
  BY <1>2, <1>3
<1>6. known' = known /\ list' = list
  BY <1>1 DEF node, context
<1>7. KindsInv(c)' /\ ReadInv(c)'
  BY <1>1, <1>3, <1>5, <1>6
     DEF KindsInv, ReadInv, At, Kind, Adding, Replacing, Initialized
<1>8. CallInv(c)'
  BY <1>1, <1>3, <1>5 DEF CallInv, At, Kind
<1> QED
  BY <1>1, <1>3, <1>5, <1>7, <1>8, MoneyType

LEMMA WaitFacts ==
    ASSUME TypeInv, NEW c \in Calls, WaitForTransaction(c)
    PROVE  /\ At(c, "mined") /\ Kind(c) \in {"deposit", "mint"} /\ ~thread[c].moved
           /\ UNCHANGED <<node, money, stored, context, info, reloads, meddled>>
           /\ Keeping(c)
           /\ \/ Turn(c, "error") \/ Turn(c, "done")
              \/ Turn(c, "reconcile") /\ Kind(c) = "deposit" /\ tx[c] = "mined"
<1>1. /\ thread \in [Calls -> Thread] /\ At(c, "mined") /\ ~thread[c].moved
      /\ Kind(c) \in {"deposit", "mint"} /\ tx[c] # "pending"
      /\ tx \in [Calls -> {"none", "pending", "mined", "reverted"}]
      /\ UNCHANGED <<node, money, stored, context, info, reloads, meddled>>
  BY DEF WaitForTransaction, TypeInv, VarTypes, KindsInv, CallInv, At
<1>2. CASE Fails(c)
  BY <1>1, <1>2, FailsTurn
<1>3. CASE Ends(c)
  BY <1>1, <1>3, EndsTurn
<1>4. CASE Kind(c) = "deposit" /\ tx[c] = "mined" /\ GoTo(c, "reconcile")
  BY <1>1, <1>4, GoToTurn DEF Pieces
<1>5. tx[c] # "none"
  BY <1>1 DEF TypeInv, KindsInv
<1> QED
  BY <1>1, <1>2, <1>3, <1>4, <1>5 DEF WaitForTransaction, Kind

LEMMA WaitType ==
    ASSUME TypeInv, NEW c \in Calls, WaitForTransaction(c)
    PROVE  TypeInv'
<1>1. /\ At(c, "mined") /\ ~thread[c].moved /\ Keeping(c)
      /\ UNCHANGED <<node, money, list, shared, reloads, meddled>>
      /\ stored' = stored /\ current' = current /\ info' = info /\ tx' = tx
  BY WaitFacts DEF context, money
<1>2. PICK p \in {"error", "done", "reconcile"} :
          Turn(c, p) /\ (p = "reconcile" => Kind(c) = "deposit" /\ tx[c] = "mined")
  BY WaitFacts
<1>3. /\ current \in Contexts /\ stored \subseteq Routers
      /\ info \in [Assets -> {"none", "read", "unknown"}]
  BY DEF TypeInv, VarTypes
<1>4. CallInv(c)'
  BY <1>1, <1>2, CallKept DEF At, Keeping
<1>5. KindsInv(c)'
  BY <1>1, <1>2 DEF KindsInv, Turn, At, Kind
<1>6. ReadInv(c)'
  BY <1>2, FarRead DEF Pieces
<1> QED
  BY <1>1, <1>2, <1>3, <1>4, <1>5, <1>6, CalmType DEF Pieces

\* The channel counts all that has landed.
LEMMA ReconcileFacts ==
    ASSUME TypeInv, NEW c \in Calls, ReconcileDeposit(c)
    PROVE  /\ At(c, "reconcile") /\ Kind(c) = "deposit" /\ tx[c] = "mined" /\ ~thread[c].moved
           /\ thread[c].channel \in Channels /\ thread[c].ask.asset \in Assets
           /\ UNCHANGED <<wallet, tx, node, stored, context, info, reloads, meddled>>
           /\ balance' \in [Channels -> [Assets -> Nat]]
           /\ landed' \in [Channels -> [Assets -> Nat]]
           /\ \/ /\ Turn(c, "states")
                 /\ thread'[c].channel = thread[c].channel /\ thread'[c].moved
                 /\ \A y \in Channels, b \in Assets :
                        IF y = thread[c].channel /\ b = thread[c].ask.asset
                        THEN /\ balance'[y][b] = balance[y][b] + landed[y][b]
                             /\ landed'[y][b] = 0
                        ELSE balance'[y][b] = balance[y][b] /\ landed'[y][b] = landed[y][b]
              \/ Turn(c, "error") /\ Keeping(c) /\ balance' = balance /\ landed' = landed
<1> DEFINE ch == thread[c].channel
           a == thread[c].ask.asset
<1>1. /\ thread \in [Calls -> Thread] /\ At(c, "reconcile") /\ Kind(c) = "deposit"
      /\ tx[c] = "mined" /\ ~thread[c].moved /\ ch \in Channels
      /\ thread[c].ask \in Asks
  BY DEF ReconcileDeposit, TypeInv, VarTypes, KindsInv, CallInv, At
<1>2. a \in Assets
  BY <1>1, StateChannelsAssumption DEF Ask
<1>3. UNCHANGED <<wallet, tx, node, stored, context, info, reloads, meddled>>
  BY DEF ReconcileDeposit
<1>4. balance \in [Channels -> [Assets -> Nat]] /\ landed \in [Channels -> [Assets -> Nat]]
  BY DEF TypeInv, VarTypes
<1>5. CASE Fails(c) /\ UNCHANGED <<balance, landed>>
  BY <1>1, <1>2, <1>3, <1>4, <1>5, FailsTurn
<1>6. CASE /\ balance' = [balance EXCEPT ![ch][a] = @ + landed[ch][a]]
           /\ landed' = [landed EXCEPT ![ch][a] = 0]
           /\ Moved(c)
  <2>1. Turn(c, "states") /\ thread'[c].channel = ch /\ thread'[c].moved
    BY <1>1, <1>6, MovedTurn
  <2> DEFINE k == balance[ch][a] + landed[ch][a]
  <2>2. k \in Nat /\ balance' = [balance EXCEPT ![ch][a] = k]
    BY <1>1, <1>2, <1>4, <1>6
  <2>3. landed' = [landed EXCEPT ![ch][a] = 0]
    BY <1>6
  <2>4. ch \in Channels
    BY <1>1
  <2> HIDE DEF k, ch, a
  <2>5. /\ balance' \in [Channels -> [Assets -> Nat]]
        /\ \A y \in Channels, b \in Assets :
               balance'[y][b] = IF y = ch /\ b = a THEN k ELSE balance[y][b]
    BY <1>2, <1>4, <2>2, <2>4, AmountSet
  <2>6. 0 \in Nat
    OBVIOUS
  <2>7. /\ landed' \in [Channels -> [Assets -> Nat]]
        /\ \A y \in Channels, b \in Assets :
               landed'[y][b] = IF y = ch /\ b = a THEN 0 ELSE landed[y][b]
    BY <1>2, <1>4, <2>3, <2>4, <2>6, AmountSet
  <2>8. \A y \in Channels, b \in Assets :
            IF y = ch /\ b = a
            THEN balance'[y][b] = balance[y][b] + landed[y][b] /\ landed'[y][b] = 0
            ELSE balance'[y][b] = balance[y][b] /\ landed'[y][b] = landed[y][b]
    BY <2>5, <2>7 DEF k
  <2> QED
    BY <1>1, <1>2, <1>3, <2>1, <2>5, <2>7, <2>8 DEF ch, a
<1> QED
  BY <1>5, <1>6 DEF ReconcileDeposit

LEMMA ReconcileType ==
    ASSUME TypeInv, NEW c \in Calls, ReconcileDeposit(c)
    PROVE  TypeInv'
<1>1. /\ At(c, "reconcile") /\ Kind(c) = "deposit" /\ tx[c] = "mined"
      /\ UNCHANGED <<node, stored, context, info, reloads, meddled>>
      /\ wallet' = wallet /\ tx' = tx
      /\ balance' \in [Channels -> [Assets -> Nat]]
      /\ landed' \in [Channels -> [Assets -> Nat]]
      /\ thread'[c].channel = thread[c].channel
  BY ReconcileFacts DEF Keeping
<1>2. PICK p \in {"states", "error"} : Turn(c, p)
  BY ReconcileFacts
<1>3. /\ wallet \in [Assets -> Nat]
      /\ tx \in [Calls -> {"none", "pending", "mined", "reverted"}]
  BY DEF TypeInv, VarTypes
<1>4. CallInv(c)'
  BY <1>1, <1>2, CallKept DEF At
<1>5. KindsInv(c)'
  BY <1>1, <1>2 DEF KindsInv, Turn, At, Kind
<1>6. ReadInv(c)'
  BY <1>2, FarRead DEF Pieces
<1> QED
  BY <1>1, <1>2, <1>3, <1>4, <1>5, <1>6, MoneyType DEF Turn

LEMMA WithdrawFacts ==
    ASSUME TypeInv, NEW c \in Calls, Withdraw(c)
    PROVE  /\ At(c, "withdraw") /\ Kind(c) = "withdraw" /\ ~thread[c].moved
           /\ thread[c].channel \in Channels /\ thread[c].ask.asset \in Assets
           /\ UNCHANGED <<landed, tx, node, stored, context, info, reloads, meddled>>
           /\ balance' \in [Channels -> [Assets -> Nat]] /\ wallet' \in [Assets -> Nat]
           /\ \/ /\ Turn(c, "states")
                 /\ thread'[c].channel = thread[c].channel /\ thread'[c].moved
                 /\ OneMore(balance', balance, thread[c].channel, thread[c].ask.asset)
              \/ Turn(c, "error") /\ Keeping(c) /\ balance' = balance
<1> DEFINE ch == thread[c].channel
           a == thread[c].ask.asset
<1>1. /\ thread \in [Calls -> Thread] /\ At(c, "withdraw") /\ Kind(c) = "withdraw"
      /\ ~thread[c].moved /\ ch \in Channels /\ thread[c].ask \in Asks
  BY DEF Withdraw, TypeInv, VarTypes, KindsInv, CallInv, At
<1>2. a \in Assets
  BY <1>1, StateChannelsAssumption DEF Ask
<1>3. UNCHANGED <<landed, tx, node, stored, context, info, reloads, meddled>>
  BY DEF Withdraw
<1>4. balance \in [Channels -> [Assets -> Nat]] /\ wallet \in [Assets -> Nat]
  BY DEF TypeInv, VarTypes
<1>5. CASE Fails(c) /\ UNCHANGED <<balance, wallet>>
  BY <1>1, <1>2, <1>3, <1>4, <1>5, FailsTurn
<1>6. CASE /\ ch \in known /\ balance[ch][a] > 0
           /\ balance' = [balance EXCEPT ![ch][a] = @ - 1]
           /\ wallet' = [wallet EXCEPT ![a] = @ + 1]
           /\ Moved(c)
  <2>1. Turn(c, "states") /\ thread'[c].channel = ch /\ thread'[c].moved
    BY <1>1, <1>6, MovedTurn
  <2> DEFINE k == balance[ch][a] - 1
  <2>2. k \in Nat /\ k + 1 = balance[ch][a] /\ balance' = [balance EXCEPT ![ch][a] = k]
    BY <1>1, <1>2, <1>4, <1>6
  <2>3. wallet' \in [Assets -> Nat]
    BY <1>2, <1>4, <1>6
  <2>4. ch \in Channels
    BY <1>1
  <2> HIDE DEF k, ch, a
  <2>5. /\ balance' \in [Channels -> [Assets -> Nat]]
        /\ \A y \in Channels, b \in Assets :
               balance'[y][b] = IF y = ch /\ b = a THEN k ELSE balance[y][b]
    BY <1>2, <1>4, <2>2, <2>4, AmountSet
  <2>6. OneMore(balance', balance, ch, a)
    BY <2>2, <2>5 DEF OneMore
  <2> QED
    BY <1>1, <1>2, <1>3, <2>1, <2>3, <2>5, <2>6 DEF ch, a
<1> QED
  BY <1>5, <1>6 DEF Withdraw

LEMMA WithdrawType ==
    ASSUME TypeInv, NEW c \in Calls, Withdraw(c)
    PROVE  TypeInv'
<1>1. /\ At(c, "withdraw") /\ Kind(c) = "withdraw"
      /\ UNCHANGED <<node, stored, context, info, reloads, meddled>>
      /\ landed' = landed /\ tx' = tx /\ wallet' \in [Assets -> Nat]
      /\ balance' \in [Channels -> [Assets -> Nat]]
      /\ thread'[c].channel = thread[c].channel
  BY WithdrawFacts DEF Keeping
<1>2. PICK p \in {"states", "error"} : Turn(c, p)
  BY WithdrawFacts
<1>3. /\ landed \in [Channels -> [Assets -> Nat]]
      /\ tx \in [Calls -> {"none", "pending", "mined", "reverted"}]
  BY DEF TypeInv, VarTypes
<1>4. CallInv(c)'
  BY <1>1, <1>2, CallKept DEF At
<1>5. KindsInv(c)'
  BY <1>1, <1>2 DEF KindsInv, Turn, At, Kind
<1>6. ReadInv(c)'
  BY <1>2, FarRead DEF Pieces
<1> QED
  BY <1>1, <1>2, <1>3, <1>4, <1>5, <1>6, MoneyType DEF Turn

LEMMA GetStatesFacts ==
    ASSUME TypeInv, NEW c \in Calls, GetStates(c)
    PROVE  /\ At(c, "states") /\ Keeping(c)
           /\ Turn(c, "infos") \/ Turn(c, "error")
           /\ UNCHANGED <<node, money, stored, context, info, reloads, meddled>>
<1> DEFINE l == list["initialized"]
           G == [channel : Channels, amount : [Assets -> Nat]]
           g == [i \in 1..Len(l) |-> [channel |-> l[i], amount |-> balance[l[i]]]]
           th == thread[c]
           t == [th EXCEPT !.pc = "infos", !.got = g]
<1>1. /\ thread \in [Calls -> Thread] /\ At(c, "states") /\ Initialized
      /\ balance \in [Channels -> [Assets -> Nat]] /\ list \in [Contexts -> Lists0]
      /\ UNCHANGED <<node, money, stored, context, info, reloads, meddled>>
  BY DEF GetStates, TypeInv, VarTypes
<1>2. l \in Seq(Channels)
  BY <1>1 DEF Initialized, Lists0, Contexts
<1>3. g \in Seq(G)
  <2>1. Len(l) \in Nat /\ \A i \in 1..Len(l) : l[i] \in Channels
    BY <1>2
  <2>2. \A i \in 1..Len(l) : g[i] \in G
    BY <1>1, <2>1
  <2> HIDE DEF l, G
  <2>3. g \in [1..Len(l) -> G]
    BY <2>2
  <2> HIDE DEF g
  <2> QED
    BY <2>1, <2>3
<1>4. CASE Becomes(c, t)
  <2>1. th \in Thread
    BY <1>1
  <2> HIDE DEF g, th
  <2>2. /\ t \in Thread /\ t.pc = "infos" /\ t.ask = th.ask /\ t.on = th.on
        /\ t.channel = th.channel /\ t.moved = th.moved
    BY <1>3, <2>1 DEF Thread, Pieces
  <2> HIDE DEF t
  <2> QED
    BY <1>1, <1>4, <2>2, BecomesFacts DEF Turn, Keeping, th
<1>5. CASE Fails(c)
  BY <1>1, <1>5, FailsTurn
<1> QED
  BY <1>4, <1>5 DEF GetStates

LEMMA GetStatesType ==
    ASSUME TypeInv, NEW c \in Calls, GetStates(c)
    PROVE  TypeInv'
<1>1. /\ At(c, "states") /\ Keeping(c)
      /\ UNCHANGED <<node, money, list, shared, reloads, meddled>>
      /\ stored' = stored /\ current' = current /\ info' = info /\ tx' = tx
  BY GetStatesFacts DEF context, money
<1>2. PICK p \in {"error", "infos"} : Turn(c, p)
  BY GetStatesFacts
<1>3. /\ current \in Contexts /\ stored \subseteq Routers
      /\ info \in [Assets -> {"none", "read", "unknown"}]
  BY DEF TypeInv, VarTypes
<1>4. thread[c].moved => (Kind(c) = "deposit" => tx[c] = "mined")
  BY DEF TypeInv, CallInv
<1>5. CallInv(c)'
  BY <1>1, <1>2, CallKept DEF At, Keeping
<1>6. KindsInv(c)'
  BY <1>1, <1>2 DEF KindsInv, Turn, At, Kind, TypeInv
<1>7. ReadInv(c)'
  BY <1>2, FarRead DEF Pieces
<1> QED
  BY <1>1, <1>2, <1>3, <1>5, <1>6, <1>7, CalmType DEF Pieces

LEMMA GetAssetInfosFacts ==
    ASSUME TypeInv, NEW c \in Calls, GetAssetInfos(c)
    PROVE  /\ At(c, "infos") /\ Keeping(c) /\ Turn(c, "done")
           /\ info' \in [Assets -> {"none", "read", "unknown"}]
           /\ UNCHANGED <<node, money, stored, context, reloads, meddled>>
<1>1. /\ thread \in [Calls -> Thread] /\ info \in [Assets -> {"none", "read", "unknown"}]
      /\ At(c, "infos") /\ Ends(c)
      /\ UNCHANGED <<node, money, stored, context, reloads, meddled>>
  BY DEF GetAssetInfos, TypeInv, VarTypes
<1>2. info' \in [Assets -> {"none", "read", "unknown"}]
  <2>1. info' = info \/ info' \in [Assets -> {"read", "unknown"}]
    BY DEF GetAssetInfos
  <2> QED
    BY <1>1, <2>1
<1> QED
  BY <1>1, <1>2, EndsTurn

LEMMA GetAssetInfosType ==
    ASSUME TypeInv, NEW c \in Calls, GetAssetInfos(c)
    PROVE  TypeInv'
<1>1. /\ At(c, "infos") /\ Keeping(c) /\ Turn(c, "done")
      /\ info' \in [Assets -> {"none", "read", "unknown"}]
      /\ UNCHANGED <<node, money, list, shared, reloads, meddled>>
      /\ stored' = stored /\ current' = current /\ tx' = tx
  BY GetAssetInfosFacts DEF context, money
<1>2. current \in Contexts /\ stored \subseteq Routers
  BY DEF TypeInv, VarTypes
<1>3. CallInv(c)'
  BY <1>1, CallKept DEF At, Keeping
<1>4. KindsInv(c)' /\ ReadInv(c)'
  BY <1>1, PastInvs
<1> QED
  BY <1>1, <1>2, <1>3, <1>4, CalmType DEF Pieces

\* A call that starts was not there, and has nothing.
LEMMA StartFacts ==
    ASSUME TypeInv, NEW c \in Calls, NEW ask \in Asks, NEW chain \in Chains,
           Start(c, ask, chain)
    PROVE  /\ At(c, "no") /\ ~thread[c].moved /\ tx[c] = "none"
           /\ thread' \in [Calls -> Thread] /\ \A d \in Calls : d # c => thread'[d] = thread[d]
           /\ thread'[c].ask = ask /\ thread'[c].channel = ask.channel
           /\ thread'[c].on = chain /\ ~thread'[c].moved
           /\ thread'[c].pc = CASE ask.kind = "initialize" -> "channels"
                                [] ask.kind = "create" -> "router"
                                [] ask.kind = "withdraw" -> "withdraw"
                                [] ask.kind = "balances" -> "states"
                                [] OTHER -> "mined"
           /\ tx' = IF ask.kind \in {"deposit", "mint"} THEN [tx EXCEPT ![c] = "pending"] ELSE tx
           /\ ask.channel \in Channels /\ ask.kind \in
                  {"initialize", "create", "deposit", "withdraw", "balances", "mint"}
           /\ UNCHANGED <<node, wallet, landed, balance, stored, context, info, reloads>>
           /\ meddled' \subseteq Calls
<1> DEFINE first == CASE ask.kind = "initialize" -> "channels"
                      [] ask.kind = "create" -> "router"
                      [] ask.kind = "withdraw" -> "withdraw"
                      [] ask.kind = "balances" -> "states"
                      [] OTHER -> "mined"
           G == Seq([channel : Channels, amount : [Assets -> Nat]])
           t == [Idle EXCEPT !.pc = first, !.ask = ask, !.captured = current,
                             !.channel = ask.channel, !.on = chain]
<1>1. /\ thread \in [Calls -> Thread] /\ At(c, "no") /\ tx[c] = "none" /\ current \in Contexts
      /\ ~thread[c].moved /\ meddled \subseteq Calls
  BY DEF Start, TypeInv, VarTypes, CallInv, At, Thread
<1>2. ask.channel \in Channels /\ ask.kind \in
          {"initialize", "create", "deposit", "withdraw", "balances", "mint"}
  BY StateChannelsAssumption DEF Ask
<1>3. first \in Pieces
  BY <1>2 DEF Pieces
<1>4. <<>> \in G
  OBVIOUS
<1>5. /\ Becomes(c, t)
      /\ tx' = IF ask.kind \in {"deposit", "mint"} THEN [tx EXCEPT ![c] = "pending"] ELSE tx
      /\ UNCHANGED <<node, wallet, landed, balance, stored, context, info, reloads>>
      /\ meddled' \subseteq Calls
  <2>1. Becomes(c, t)
    BY DEF Start
  <2>2. meddled' \subseteq Calls
    BY <1>1 DEF Start
  <2> HIDE DEF t
  <2> QED
    BY <2>1, <2>2 DEF Start
<1>6. /\ t \in Thread /\ t.pc = first /\ t.ask = ask /\ t.channel = ask.channel
      /\ t.on = chain /\ ~t.moved
  <2> HIDE DEF first, G
  <2>1. Idle \in Thread /\ ~Idle.moved
    BY <1>4 DEF Idle, Thread, Pieces, Contexts, G
  <2> HIDE DEF t
  <2>2. t = [Idle EXCEPT !.pc = first, !.ask = ask, !.captured = current,
                         !.channel = ask.channel, !.on = chain]
    BY DEF t
  <2> QED
    BY <1>1, <1>2, <1>3, <2>1, <2>2 DEF Thread
<1> HIDE DEF t
<1>7. thread' \in [Calls -> Thread] /\ thread'[c] = t
      /\ \A d \in Calls : d # c => thread'[d] = thread[d]
  BY <1>1, <1>5, <1>6, BecomesFacts
<1> QED
  BY <1>1, <1>2, <1>5, <1>6, <1>7 DEF first

LEMMA StartType ==
    ASSUME TypeInv, NEW c \in Calls, NEW ask \in Asks, NEW chain \in Chains,
           Start(c, ask, chain)
    PROVE  TypeInv'
<1>1. /\ At(c, "no") /\ tx[c] = "none"
      /\ thread' \in [Calls -> Thread] /\ \A d \in Calls : d # c => thread'[d] = thread[d]
      /\ thread'[c].ask = ask /\ thread'[c].channel = ask.channel
      /\ thread'[c].on = chain /\ ~thread'[c].moved
      /\ thread'[c].pc = CASE ask.kind = "initialize" -> "channels"
                           [] ask.kind = "create" -> "router"
                           [] ask.kind = "withdraw" -> "withdraw"
                           [] ask.kind = "balances" -> "states"
                           [] OTHER -> "mined"
      /\ tx' = IF ask.kind \in {"deposit", "mint"} THEN [tx EXCEPT ![c] = "pending"] ELSE tx
      /\ ask.channel \in Channels /\ ask.kind \in
             {"initialize", "create", "deposit", "withdraw", "balances", "mint"}
      /\ UNCHANGED <<node, wallet, landed, balance, stored, context, info, reloads>>
      /\ meddled' \subseteq Calls
  BY StartFacts
<1>2. /\ opened' = opened /\ known' = known /\ wallet' = wallet /\ landed' = landed
      /\ balance' = balance /\ stored' = stored /\ list' = list /\ shared' = shared
      /\ current' = current /\ info' = info /\ reloads' = reloads
  BY <1>1 DEF node, context
<1>3. tx \in [Calls -> {"none", "pending", "mined", "reverted"}]
  BY DEF TypeInv, VarTypes
<1>4. /\ tx' \in [Calls -> {"none", "pending", "mined", "reverted"}]
      /\ \A d \in Calls : d # c => tx'[d] = tx[d]
      /\ tx'[c] = IF ask.kind \in {"deposit", "mint"} THEN "pending" ELSE "none"
  BY <1>1, <1>3
<1>5. VarTypes'
  BY <1>1, <1>2, <1>4 DEF TypeInv, VarTypes
<1>6. KindsInv(c)'
  BY <1>1, <1>4 DEF KindsInv, Kind, At
<1>7. CallInv(c)'
  BY <1>1, <1>4 DEF CallInv, Kind, At
<1>8. ReadInv(c)'
  BY <1>1 DEF ReadInv, Adding, Replacing, Listing, At
<1>9. Initialized => Initialized'
  BY <1>2 DEF Initialized
<1>10. \A d \in Calls : KindsInv(d)' /\ CallInv(d)' /\ ReadInv(d)'
  BY <1>1, <1>2, <1>4, <1>6, <1>7, <1>8, <1>9, OthersKept
<1>11. /\ shared' => list'["context"] = list'["initialized"]
       /\ \A x \in Contexts : list'[x] # None => \A i \in DOMAIN list'[x] : list'[x][i] \in known'
  BY <1>2 DEF TypeInv
<1> QED
  BY <1>5, <1>10, <1>11 DEF TypeInv

LEMMA ReloadFacts ==
    ASSUME TypeInv, Reload
    PROVE  /\ thread' \in [Calls -> Thread]
           /\ \A d \in Calls : /\ thread'[d].pc = (IF At(d, "no") THEN "no" ELSE "lost")
                               /\ thread'[d].ask = thread[d].ask /\ thread'[d].on = thread[d].on
                               /\ thread'[d].channel = thread[d].channel
                               /\ thread'[d].moved = thread[d].moved
           /\ known' \in {known, {}} /\ list' = [x \in Contexts |-> None] /\ ~shared'
           /\ current' = "context" /\ info' = [a \in Assets |-> "none"]
           /\ UNCHANGED <<opened, money, stored, meddled>>
           /\ reloads' \in 0..MaxReloads
<1>1. thread \in [Calls -> Thread] /\ reloads \in 0..MaxReloads
  BY DEF TypeInv, VarTypes
<1>2. ASSUME NEW d \in Calls
      PROVE  /\ thread'[d] \in Thread
             /\ thread'[d].pc = (IF At(d, "no") THEN "no" ELSE "lost")
             /\ thread'[d].ask = thread[d].ask /\ thread'[d].on = thread[d].on
             /\ thread'[d].channel = thread[d].channel
             /\ thread'[d].moved = thread[d].moved
  <2> DEFINE th == thread[d]
             e == Ended(th, "lost")
  <2>1. thread'[d] = IF At(d, "no") THEN th ELSE e
    BY DEF Reload
  <2>2. th \in Thread
    BY <1>1
  <2> HIDE DEF th
  <2>3. /\ e \in Thread /\ e.pc = "lost" /\ e.ask = th.ask /\ e.on = th.on
        /\ e.channel = th.channel /\ e.moved = th.moved
    BY <2>2, EndedFacts DEF Pieces
  <2> HIDE DEF e
  <2> QED
    BY <2>1, <2>2, <2>3 DEF th, At
<1>3. thread' \in [Calls -> Thread]
  BY <1>2 DEF Reload
<1> QED
  BY <1>1, <1>2, <1>3, StateChannelsAssumption DEF Reload

LEMMA ReloadType ==
    ASSUME TypeInv, Reload
    PROVE  TypeInv'
<1>1. /\ thread' \in [Calls -> Thread]
      /\ \A d \in Calls : /\ thread'[d].pc = (IF At(d, "no") THEN "no" ELSE "lost")
                          /\ thread'[d].ask = thread[d].ask /\ thread'[d].on = thread[d].on
                          /\ thread'[d].channel = thread[d].channel
                          /\ thread'[d].moved = thread[d].moved
      /\ known' \in {known, {}} /\ list' = [x \in Contexts |-> None] /\ ~shared'
      /\ current' = "context" /\ info' = [a \in Assets |-> "none"]
      /\ UNCHANGED <<opened, money, stored, meddled>>
      /\ reloads' \in 0..MaxReloads
  BY ReloadFacts
<1>2. /\ wallet' = wallet /\ landed' = landed /\ balance' = balance /\ tx' = tx
      /\ opened' = opened /\ stored' = stored /\ meddled' = meddled
  BY <1>1 DEF money
<1>3. IsFiniteSet(known') /\ known' \subseteq opened
  BY <1>1, FS_EmptySet DEF TypeInv, VarTypes
<1>4. list' \in [Contexts -> Lists0] /\ ~shared' /\ \A x \in Contexts : list'[x] = None
  BY <1>1 DEF Lists0
<1>5. /\ current' \in Contexts /\ info' \in [Assets -> {"none", "read", "unknown"}]
      /\ shared' \in BOOLEAN
  <2>1. shared' \in BOOLEAN
    BY DEF Reload
  <2> QED
    BY <1>1, <2>1 DEF Contexts
<1>6. VarTypes'
  BY <1>1, <1>2, <1>3, <1>4, <1>5 DEF TypeInv, VarTypes
<1>7. ASSUME NEW d \in Calls
      PROVE  KindsInv(d)' /\ CallInv(d)' /\ ReadInv(d)'
  <2>1. CallInv(d)
    BY DEF TypeInv
  <2>2. KindsInv(d)' /\ ReadInv(d)'
    BY <1>1 DEF KindsInv, ReadInv, At, Adding, Replacing, Listing
  <2>3. CallInv(d)'
    BY <1>1, <1>2, <2>1 DEF CallInv, At, Kind
  <2> QED
    BY <2>2, <2>3
<1> QED
  BY <1>4, <1>6, <1>7 DEF TypeInv

LEMMA InitType ==
    ASSUME Init
    PROVE  TypeInv
<1>1. Idle \in Thread
  <2> DEFINE G == Seq([channel : Channels, amount : [Assets -> Nat]])
  <2>1. <<>> \in G
    OBVIOUS
  <2> QED
    BY <2>1 DEF Idle, Thread, Pieces, Contexts, G
<1>2. \A c \in Calls : thread[c] = Idle /\ tx[c] = "none"
  BY DEF Init
<1>3. thread \in [Calls -> Thread]
  BY <1>1 DEF Init
<1>4. /\ opened \in Earlier /\ known = opened /\ stored = {ch[1] : ch \in opened}
      /\ opened \subseteq Channels /\ IsFiniteSet(known) /\ stored \subseteq Routers
  <2>1. opened \in Earlier /\ known = opened /\ stored = {ch[1] : ch \in opened}
    BY DEF Init
  <2>2. opened \subseteq Channels /\ IsFiniteSet(known)
    BY <2>1, StateChannelsAssumption
  <2>3. \A ch \in opened : ch[1] \in Routers
    BY <2>2 DEF Channels
  <2>4. stored \subseteq Routers
    <3>1. SUFFICES ASSUME NEW r \in stored PROVE r \in Routers
      OBVIOUS
    <3>2. PICK ch \in opened : r = ch[1]
      BY <2>1
    <3> QED
      BY <2>3, <3>2
  <2> QED
    BY <2>1, <2>2, <2>4
<1>5. /\ wallet \in [Assets -> Nat] /\ landed \in [Channels -> [Assets -> Nat]]
      /\ balance \in [Channels -> [Assets -> Nat]]
  BY StateChannelsAssumption DEF Init
<1>8. /\ list \in [Contexts -> Lists0] /\ current \in Contexts /\ shared \in BOOLEAN
      /\ info \in [Assets -> {"none", "read", "unknown"}]
      /\ tx \in [Calls -> {"none", "pending", "mined", "reverted"}]
      /\ meddled \subseteq Calls
  BY DEF Init, Lists0, Contexts
<1>10. reloads \in 0..MaxReloads
  BY StateChannelsAssumption DEF Init
<1>9. VarTypes
  BY <1>3, <1>4, <1>5, <1>8, <1>10 DEF VarTypes
<1>6. ~shared /\ \A x \in Contexts : list[x] = None
  BY DEF Init
<1>7. \A c \in Calls : KindsInv(c) /\ CallInv(c) /\ ReadInv(c)
  BY <1>2 DEF KindsInv, CallInv, ReadInv, Adding, Replacing, Listing, At, Idle
<1> QED
  BY <1>6, <1>7, <1>9 DEF TypeInv

LEMMA StepType ==
    ASSUME TypeInv, NEW c \in Calls, Step(c)
    PROVE  TypeInv'
BY GetActiveStateChannelsType, SetContextType, FindListedType, SetUpType, RestoreType,
   GetActiveRoutersType, AddActiveRouterType, WaitType, ReconcileType, WithdrawType,
   GetStatesType, GetAssetInfosType DEF Step

LEMMA NextType ==
    ASSUME TypeInv, Next
    PROVE  TypeInv'
BY StartType, StepType, MineType, ReloadType DEF Next

LEMMA StayType ==
    ASSUME TypeInv, UNCHANGED vars
    PROVE  TypeInv'
<1>1. /\ opened' = opened /\ known' = known /\ wallet' = wallet /\ landed' = landed
      /\ balance' = balance /\ tx' = tx /\ stored' = stored /\ list' = list
      /\ shared' = shared /\ current' = current /\ info' = info /\ thread' = thread
      /\ reloads' = reloads /\ meddled' = meddled
  BY DEF vars, node, money, context
<1>2. VarTypes'
  BY <1>1 DEF TypeInv, VarTypes
<1>3. \A c \in Calls : KindsInv(c)' /\ CallInv(c)' /\ ReadInv(c)'
  BY <1>1 DEF TypeInv, KindsInv, CallInv, ReadInv, Adding, Replacing, At, Kind, Initialized
<1> QED
  BY <1>1, <1>2, <1>3 DEF TypeInv

-----------------------------------------------------------------------------
(* Money. *)

\* Nothing that is counted changes for a call.
Steady(d) ==
    \/ /\ thread'[d].ask = thread[d].ask /\ thread'[d].on = thread[d].on
       /\ thread'[d].moved = thread[d].moved /\ tx'[d] = tx[d]
       /\ thread'[d].channel = thread[d].channel \/ Kind(d) = "create"
    \/ /\ ~thread[d].moved /\ ~thread'[d].moved /\ tx[d] # "mined" /\ tx'[d] # "mined"

LEMMA SteadySets ==
    ASSUME \A d \in Calls : Steady(d), NEW ch, NEW a
    PROVE  Mined(ch, a)' = Mined(ch, a) /\ Counted(ch, a)' = Counted(ch, a)
           /\ Withdrawn(ch, a)' = Withdrawn(ch, a)
BY DEF Steady, Mined, Counted, Withdrawn, Kind

LEMMA SteadyMoney ==
    ASSUME MoneyInv, \A d \in Calls : Steady(d), UNCHANGED <<balance, landed>>
    PROVE  MoneyInv'
BY SteadySets DEF MoneyInv, Accounted

LEMMA TurnSteady ==
    ASSUME NEW c \in Calls, NEW p, Turn(c, p), tx' = tx, thread'[c].moved = thread[c].moved,
           thread'[c].channel = thread[c].channel \/ Kind(c) = "create"
    PROVE  \A d \in Calls : Steady(d)
BY DEF Turn, Steady

\* The sets are finite, and what was reported was mined.
LEMMA SetFacts ==
    ASSUME TypeInv, NEW ch, NEW a
    PROVE  /\ IsFiniteSet(Mined(ch, a)) /\ Cardinality(Mined(ch, a)) \in Nat
           /\ IsFiniteSet(Counted(ch, a)) /\ Cardinality(Counted(ch, a)) \in Nat
           /\ IsFiniteSet(Withdrawn(ch, a)) /\ Cardinality(Withdrawn(ch, a)) \in Nat
           /\ Counted(ch, a) \subseteq Mined(ch, a)
           /\ IsFiniteSet(Mined(ch, a) \ Counted(ch, a))
           /\ Cardinality(Mined(ch, a) \ Counted(ch, a)) \in Nat
<1>1. /\ Mined(ch, a) \subseteq Calls /\ Counted(ch, a) \subseteq Calls
      /\ Withdrawn(ch, a) \subseteq Calls /\ (Mined(ch, a) \ Counted(ch, a)) \subseteq Calls
  BY DEF Mined, Counted, Withdrawn
<1>2. \A s : s \subseteq Calls => IsFiniteSet(s) /\ Cardinality(s) \in Nat
  BY StateChannelsAssumption, FS_Subset, FS_CardinalityType
<1>3. Counted(ch, a) \subseteq Mined(ch, a)
  BY DEF TypeInv, CallInv, Counted, Mined
<1> QED
  BY <1>1, <1>2, <1>3

LEMMA MineMoney ==
    ASSUME TypeInv, MoneyInv, NEW c \in Calls, Mine(c)
    PROVE  MoneyInv'
<1>0. PICK ch \in Channels, a \in Assets : ch = thread[c].channel /\ a = thread[c].ask.asset
  BY MineFacts
<1>1. /\ tx[c] = "pending" /\ Kind(c) \in {"deposit", "mint"} /\ thread' = thread /\ balance' = balance
  BY MineFacts
<1>2. tx \in [Calls -> {"none", "pending", "mined", "reverted"}]
  BY DEF TypeInv, VarTypes
<1>3. \A y, b : Counted(y, b)' = Counted(y, b) /\ Withdrawn(y, b)' = Withdrawn(y, b)
  BY <1>1 DEF Counted, Withdrawn, Kind
<1>4. PICK m \in {"mined", "reverted"} :
          /\ tx' = [tx EXCEPT ![c] = m]
          /\ \/ /\ m = "mined" /\ Kind(c) = "deposit" /\ thread[c].on = ch[2]
                /\ OneMore(landed, landed', ch, a)
             \/ /\ ~(m = "mined" /\ Kind(c) = "deposit" /\ thread[c].on = ch[2])
                /\ landed' = landed
  BY <1>0, MineFacts
<1>5. tx'[c] = m /\ \A d \in Calls : d # c => tx'[d] = tx[d]
  BY <1>2, <1>4
<1>6. CASE /\ ~(m = "mined" /\ Kind(c) = "deposit" /\ thread[c].on = ch[2])
           /\ landed' = landed
  <2>1. \A y, b : Mined(y, b)' = Mined(y, b)
    BY <1>0, <1>1, <1>5, <1>6 DEF Mined, Kind
  <2> QED
    BY <1>1, <1>3, <1>6, <2>1 DEF MoneyInv, Accounted
<1>7. CASE /\ m = "mined" /\ Kind(c) = "deposit" /\ thread[c].on = ch[2]
           /\ OneMore(landed, landed', ch, a)
  <2>1. ~thread[c].moved
    BY <1>0, <1>1, <1>7 DEF TypeInv, CallInv
  <2>2. c \notin Mined(ch, a) /\ c \notin Counted(ch, a)
    BY <1>1, <2>1 DEF Mined, Counted
  <2>3. Mined(ch, a)' = Mined(ch, a) \cup {c}
    BY <1>0, <1>1, <1>5, <1>7 DEF Mined, Kind
  <2>4. \A y, b : y # ch \/ b # a => Mined(y, b)' = Mined(y, b)
    BY <1>0, <1>1, <1>5 DEF Mined, Kind
  <2> SUFFICES ASSUME NEW y \in Channels, NEW b \in Assets
               PROVE  Accounted(y, b)'
    BY DEF MoneyInv
  <2>5. Accounted(y, b) /\ balance[y][b] \in Nat /\ landed[y][b] \in Nat
    BY DEF MoneyInv, TypeInv, VarTypes
  <2>6. CASE y # ch \/ b # a
    <3>1. landed'[y][b] = landed[y][b]
      BY <1>7, <2>6 DEF OneMore
    <3>2. Mined(y, b)' = Mined(y, b)
      BY <2>4, <2>6
    <3> QED
      BY <1>1, <1>3, <2>5, <3>1, <3>2 DEF Accounted
  <2>7. CASE y = ch /\ b = a
    <3> DEFINE M == Mined(ch, a)
               C == Counted(ch, a)
    <3>1. /\ IsFiniteSet(M) /\ Cardinality(M) \in Nat /\ IsFiniteSet(M \ C)
          /\ Cardinality(M \ C) \in Nat
      BY SetFacts
    <3>2. Cardinality(Withdrawn(ch, a)) \in Nat
      BY SetFacts
    <3>3. landed'[y][b] = landed[y][b] + 1
      BY <1>7, <2>7 DEF OneMore
    <3>4. c \notin M /\ c \notin C /\ Mined(ch, a)' = M \cup {c} /\ Counted(ch, a)' = C
      BY <1>3, <2>2, <2>3
    <3> HIDE DEF M, C
    <3>5. (M \cup {c}) \ C = (M \ C) \cup {c} /\ c \notin M \ C
      BY <3>4
    <3>6. /\ Cardinality(M \cup {c}) = Cardinality(M) + 1
          /\ Cardinality((M \cup {c}) \ C) = Cardinality(M \ C) + 1
      BY <3>1, <3>4, <3>5, FS_AddElement
    <3>7. /\ balance[y][b] + landed[y][b] + Cardinality(Withdrawn(ch, a)) = Cardinality(M)
          /\ landed[y][b] <= Cardinality(M \ C)
      BY <2>5, <2>7 DEF Accounted, M, C
    <3>8. Withdrawn(ch, a)' = Withdrawn(ch, a) /\ balance'[y][b] = balance[y][b]
      BY <1>1, <1>3
    <3>9. /\ balance'[y][b] + landed'[y][b] + Cardinality(Withdrawn(ch, a)) = Cardinality(M \cup {c})
          /\ landed'[y][b] <= Cardinality((M \cup {c}) \ C)
      BY <2>5, <3>1, <3>2, <3>3, <3>6, <3>7, <3>8
    <3> QED
      BY <2>7, <3>4, <3>8, <3>9 DEF Accounted
  <2> QED
    BY <2>6, <2>7
<1> QED
  BY <1>4, <1>6, <1>7

LEMMA ReconcileMoney ==
    ASSUME TypeInv, MoneyInv, NEW c \in Calls, ReconcileDeposit(c)
    PROVE  MoneyInv'
<1>0. PICK ch \in Channels, a \in Assets : ch = thread[c].channel /\ a = thread[c].ask.asset
  BY ReconcileFacts
<1>1. /\ Kind(c) = "deposit" /\ tx[c] = "mined" /\ ~thread[c].moved
      /\ tx' = tx
  BY ReconcileFacts
<1>2. CASE Turn(c, "error") /\ Keeping(c) /\ balance' = balance /\ landed' = landed
  BY <1>0, <1>1, <1>2, TurnSteady, SteadyMoney DEF Keeping
<1>3. CASE /\ Turn(c, "states") /\ thread'[c].channel = ch /\ thread'[c].moved
           /\ \A y \in Channels, b \in Assets :
                  IF y = ch /\ b = a
                  THEN balance'[y][b] = balance[y][b] + landed[y][b] /\ landed'[y][b] = 0
                  ELSE balance'[y][b] = balance[y][b] /\ landed'[y][b] = landed[y][b]
  <2>1. \A y, b : Mined(y, b)' = Mined(y, b) /\ Withdrawn(y, b)' = Withdrawn(y, b)
    BY <1>0, <1>1, <1>3 DEF Turn, Mined, Withdrawn, Kind
  <2>2. \A y, b : y # ch \/ b # a => Counted(y, b)' = Counted(y, b)
    BY <1>0, <1>1, <1>3 DEF Turn, Counted, Kind
  <2> SUFFICES ASSUME NEW y \in Channels, NEW b \in Assets
               PROVE  Accounted(y, b)'
    BY DEF MoneyInv
  <2>3. Accounted(y, b) /\ balance[y][b] \in Nat /\ landed[y][b] \in Nat
    BY DEF MoneyInv, TypeInv, VarTypes
  <2>4. CASE y # ch \/ b # a
    BY <1>3, <2>1, <2>2, <2>3, <2>4 DEF Accounted
  <2>5. CASE y = ch /\ b = a
    <3>1. balance'[y][b] = balance[y][b] + landed[y][b] /\ landed'[y][b] = 0
      BY <1>3, <2>5
    <3>2. TypeInv'
      BY ReconcileType
    <3>3. Cardinality(Mined(y, b)' \ Counted(y, b)') \in Nat
      <4>1. (Mined(y, b)' \ Counted(y, b)') \subseteq Calls
        BY DEF Mined
      <4> QED
        BY <4>1, StateChannelsAssumption, FS_Subset, FS_CardinalityType
    <3>4. Cardinality(Withdrawn(y, b)) \in Nat
      BY SetFacts
    <3> QED
      BY <2>1, <2>3, <3>1, <3>3, <3>4 DEF Accounted
  <2> QED
    BY <2>4, <2>5
<1> QED
  BY <1>0, <1>2, <1>3, ReconcileFacts

LEMMA WithdrawMoney ==
    ASSUME TypeInv, MoneyInv, NEW c \in Calls, Withdraw(c)
    PROVE  MoneyInv'
<1>0. PICK ch \in Channels, a \in Assets : ch = thread[c].channel /\ a = thread[c].ask.asset
  BY WithdrawFacts
<1>1. /\ Kind(c) = "withdraw" /\ ~thread[c].moved /\ landed' = landed
      /\ tx' = tx
      /\ balance' \in [Channels -> [Assets -> Nat]]
  BY WithdrawFacts
<1>2. CASE Turn(c, "error") /\ Keeping(c) /\ balance' = balance
  BY <1>0, <1>1, <1>2, TurnSteady, SteadyMoney DEF Keeping
<1>3. CASE /\ Turn(c, "states") /\ thread'[c].channel = ch /\ thread'[c].moved
           /\ OneMore(balance', balance, ch, a)
  <2>1. \A y, b : Mined(y, b)' = Mined(y, b) /\ Counted(y, b)' = Counted(y, b)
    BY <1>0, <1>1, <1>3 DEF Turn, Mined, Counted, Kind
  <2>2. \A y, b : y # ch \/ b # a => Withdrawn(y, b)' = Withdrawn(y, b)
    BY <1>0, <1>1, <1>3 DEF Turn, Withdrawn, Kind
  <2>3. Withdrawn(ch, a)' = Withdrawn(ch, a) \cup {c} /\ c \notin Withdrawn(ch, a)
    BY <1>0, <1>1, <1>3 DEF Turn, Withdrawn, Kind
  <2> SUFFICES ASSUME NEW y \in Channels, NEW b \in Assets
               PROVE  Accounted(y, b)'
    BY DEF MoneyInv
  <2>4. /\ Accounted(y, b) /\ balance[y][b] \in Nat /\ landed[y][b] \in Nat
        /\ balance'[y][b] \in Nat
    BY <1>1 DEF MoneyInv, TypeInv, VarTypes
  <2>5. CASE y # ch \/ b # a
    <3>1. balance'[y][b] = balance[y][b]
      BY <1>3, <2>5 DEF OneMore
    <3> QED
      BY <1>1, <2>1, <2>2, <2>4, <2>5, <3>1 DEF Accounted
  <2>6. CASE y = ch /\ b = a
    <3>1. balance[y][b] = balance'[y][b] + 1
      BY <1>3, <2>6 DEF OneMore
    <3>2. Cardinality(Withdrawn(y, b)) \in Nat /\ Cardinality(Mined(y, b)) \in Nat
      BY SetFacts
    <3>3. Cardinality(Withdrawn(y, b)') = Cardinality(Withdrawn(y, b)) + 1
      <4>1. IsFiniteSet(Withdrawn(ch, a))
        BY SetFacts
      <4> QED
        BY <2>3, <2>6, <4>1, FS_AddElement
    <3>4. /\ balance[y][b] + landed[y][b] + Cardinality(Withdrawn(y, b))
               = Cardinality(Mined(y, b))
          /\ landed[y][b] <= Cardinality(Mined(y, b) \ Counted(y, b))
      BY <2>4 DEF Accounted
    <3>5. balance'[y][b] + landed[y][b] + Cardinality(Withdrawn(y, b)')
              = Cardinality(Mined(y, b))
      BY <2>4, <3>1, <3>2, <3>3, <3>4
    <3> QED
      BY <1>1, <2>1, <3>4, <3>5 DEF Accounted
  <2> QED
    BY <2>5, <2>6
<1> QED
  BY <1>0, <1>2, <1>3, WithdrawFacts

LEMMA GetActiveStateChannelsFacts ==
    ASSUME TypeInv, NEW c \in Calls, GetActiveStateChannels(c)
    PROVE  /\ At(c, "channels") /\ Kind(c) = "initialize" /\ ~thread[c].moved
           /\ UNCHANGED <<node, money, list, meddled>>
           /\ Keeping(c)
           /\ \/ Turn(c, "error")
              \/ Turn(c, "routers") /\ thread'[c].saw = known
<1>1. /\ thread \in [Calls -> Thread] /\ At(c, "channels") /\ Kind(c) = "initialize"
      /\ ~thread[c].moved /\ known \subseteq Channels
      /\ UNCHANGED <<node, money, list, meddled>>
  BY DEF GetActiveStateChannels, TypeInv, VarTypes, KindsInv, CallInv, At
<1>2. CASE Fails(c)
  BY <1>1, <1>2, FailsTurn
<1>3. CASE Becomes(c, [thread[c] EXCEPT !.pc = "routers", !.saw = known])
  BY <1>1, <1>3, SawTurn DEF Pieces
<1> QED
  BY <1>2, <1>3 DEF GetActiveStateChannels

LEMMA SetContextTurn ==
    ASSUME TypeInv, NEW c \in Calls, SetContext(c)
    PROVE  Turn(c, "done") /\ Keeping(c) /\ UNCHANGED <<node, money, meddled>>
<1> DEFINE q == SetToSeq(thread[c].saw)
<1>1. q = SetToSeq(thread[c].saw)
  OBVIOUS
<1> HIDE DEF q
<1> QED
  BY <1>1, SetContextFacts

\* The pieces that set up channels, wait and read move no money.
LEMMA NoMoney ==
    ASSUME TypeInv, MoneyInv, NEW c \in Calls,
           \/ GetActiveStateChannels(c) \/ SetContext(c) \/ FindListed(c) \/ SetUp(c)
           \/ RestoreState(c) \/ GetActiveRouters(c) \/ AddActiveRouter(c)
           \/ WaitForTransaction(c) \/ GetStates(c) \/ GetAssetInfos(c)
    PROVE  MoneyInv'
<1>1. CASE GetActiveStateChannels(c)
  <2>1. UNCHANGED money /\ Keeping(c) /\ (Turn(c, "error") \/ Turn(c, "routers"))
    BY <1>1, GetActiveStateChannelsFacts
  <2> QED
    BY <2>1, TurnSteady, SteadyMoney DEF money, Keeping
<1>2. CASE SetContext(c)
  BY <1>2, SetContextTurn, TurnSteady, SteadyMoney DEF money, Keeping
<1>3. CASE FindListed(c)
  <2>1. /\ UNCHANGED money /\ thread'[c].moved = thread[c].moved /\ Kind(c) = "create"
        /\ Turn(c, "error") \/ Turn(c, "done") \/ Turn(c, "setup")
    BY <1>3, FindListedFacts
  <2> QED
    BY <2>1, TurnSteady, SteadyMoney DEF money
<1>4. CASE SetUp(c)
  <2>1. UNCHANGED money /\ Keeping(c) /\ (Turn(c, "routers") \/ Turn(c, "restore"))
    BY <1>4, SetUpFacts
  <2> QED
    BY <2>1, TurnSteady, SteadyMoney DEF money, Keeping
<1>5. CASE RestoreState(c)
  <2>1. UNCHANGED money /\ Keeping(c) /\ (Turn(c, "routers") \/ Turn(c, "error"))
    BY <1>5, RestoreFacts
  <2> QED
    BY <2>1, TurnSteady, SteadyMoney DEF money, Keeping
<1>6. CASE GetActiveRouters(c)
  <2>1. UNCHANGED money /\ Keeping(c) /\ (Turn(c, "write") \/ Turn(c, "error"))
    BY <1>6, GetActiveRoutersFacts
  <2> QED
    BY <2>1, TurnSteady, SteadyMoney DEF money, Keeping
<1>7. CASE AddActiveRouter(c)
  <2>1. UNCHANGED money /\ Keeping(c) /\ Turn(c, "done")
    BY <1>7, AddActiveRouterFacts
  <2> QED
    BY <2>1, TurnSteady, SteadyMoney DEF money, Keeping
<1>8. CASE WaitForTransaction(c)
  <2>1. UNCHANGED money /\ Keeping(c)
        /\ (Turn(c, "error") \/ Turn(c, "done") \/ Turn(c, "reconcile"))
    BY <1>8, WaitFacts
  <2> QED
    BY <2>1, TurnSteady, SteadyMoney DEF money, Keeping
<1>9. CASE GetStates(c)
  <2>1. UNCHANGED money /\ Keeping(c) /\ (Turn(c, "error") \/ Turn(c, "infos"))
    BY <1>9, GetStatesFacts
  <2> QED
    BY <2>1, TurnSteady, SteadyMoney DEF money, Keeping
<1>10. CASE GetAssetInfos(c)
  BY <1>10, GetAssetInfosFacts, TurnSteady, SteadyMoney DEF money, Keeping
<1> QED
  BY <1>1, <1>2, <1>3, <1>4, <1>5, <1>6, <1>7, <1>8, <1>9, <1>10

LEMMA StepMoney ==
    ASSUME TypeInv, MoneyInv, NEW c \in Calls, Step(c)
    PROVE  MoneyInv'
BY NoMoney, ReconcileMoney, WithdrawMoney DEF Step

LEMMA StartMoney ==
    ASSUME TypeInv, MoneyInv, NEW c \in Calls, NEW ask \in Asks, NEW chain \in Chains,
           Start(c, ask, chain)
    PROVE  MoneyInv'
<1>1. /\ ~thread[c].moved /\ ~thread'[c].moved /\ tx[c] = "none"
      /\ \A d \in Calls : d # c => thread'[d] = thread[d]
      /\ tx' = IF ask.kind \in {"deposit", "mint"} THEN [tx EXCEPT ![c] = "pending"] ELSE tx
      /\ UNCHANGED <<balance, landed>>
  BY StartFacts
<1>2. tx \in [Calls -> {"none", "pending", "mined", "reverted"}]
  BY DEF TypeInv, VarTypes
<1>3. tx'[c] # "mined" /\ \A d \in Calls : d # c => tx'[d] = tx[d]
  BY <1>1, <1>2
<1>4. \A d \in Calls : Steady(d)
  BY <1>1, <1>3 DEF Steady
<1> QED
  BY <1>1, <1>4, SteadyMoney

LEMMA ReloadMoney ==
    ASSUME TypeInv, MoneyInv, Reload
    PROVE  MoneyInv'
<1>1. /\ \A d \in Calls : /\ thread'[d].ask = thread[d].ask /\ thread'[d].on = thread[d].on
                          /\ thread'[d].channel = thread[d].channel
                          /\ thread'[d].moved = thread[d].moved
      /\ balance' = balance /\ landed' = landed /\ tx' = tx
  BY ReloadFacts DEF money
<1>2. \A d \in Calls : Steady(d)
  BY <1>1 DEF Steady
<1> QED
  BY <1>1, <1>2, SteadyMoney

LEMMA InitMoney ==
    ASSUME Init
    PROVE  MoneyInv
<1>1. \A c \in Calls : ~thread[c].moved /\ tx[c] # "mined"
  BY DEF Init, Idle
<1>2. \A y, b : Mined(y, b) = {} /\ Counted(y, b) = {} /\ Withdrawn(y, b) = {}
  BY <1>1 DEF Mined, Counted, Withdrawn
<1>3. \A y \in Channels, b \in Assets : landed[y][b] = 0 /\ balance[y][b] = 0
  BY DEF Init
<1>4. Cardinality({}) = 0 /\ {} \ {} = {}
  BY FS_EmptySet
<1> QED
  BY <1>2, <1>3, <1>4 DEF MoneyInv, Accounted

\* What the property says of the sets of calls.
LEMMA CountedInBalance ==
    ASSUME TypeInv, MoneyInv, NEW y \in Channels, NEW b \in Assets
    PROVE  balance[y][b] >= Cardinality(Counted(y, b)) - Cardinality(Withdrawn(y, b))
<1> DEFINE M == Mined(y, b)
           C == Counted(y, b)
<1>1. /\ IsFiniteSet(C) /\ IsFiniteSet(M \ C) /\ C \subseteq M
      /\ Cardinality(C) \in Nat /\ Cardinality(M \ C) \in Nat
      /\ Cardinality(Withdrawn(y, b)) \in Nat
  BY SetFacts
<1>2. /\ balance[y][b] + landed[y][b] + Cardinality(Withdrawn(y, b)) = Cardinality(M)
      /\ landed[y][b] <= Cardinality(M \ C)
  BY DEF MoneyInv, Accounted
<1>3. balance[y][b] \in Nat /\ landed[y][b] \in Nat
  BY DEF TypeInv, VarTypes
<1> HIDE DEF M, C
<1>4. M = C \cup (M \ C) /\ C \cap (M \ C) = {}
  BY <1>1
<1>5. Cardinality(M) = Cardinality(C) + Cardinality(M \ C) - Cardinality({})
  BY <1>1, <1>4, FS_Union
<1>6. Cardinality({}) = 0
  BY FS_EmptySet
<1>7. balance[y][b] >= Cardinality(C) - Cardinality(Withdrawn(y, b))
  BY <1>1, <1>2, <1>3, <1>5, <1>6
<1> QED
  BY <1>7 DEF C

LEMMA MoneyCounted ==
    ASSUME TypeInv, MoneyInv
    PROVE  DepositsAreCounted
<1>1. \A y \in Channels, b \in Assets :
          balance[y][b] >= Cardinality(Counted(y, b)) - Cardinality(Withdrawn(y, b))
  BY CountedInBalance
<1> QED
  BY <1>1 DEF DepositsAreCounted, Counted, Withdrawn, Kind

-----------------------------------------------------------------------------
(* The list. *)

\* What a piece of c leaves alone: which calls work on the list.
LEMMA AloneTurn ==
    ASSUME ListInv, NEW c \in Calls, NEW p, Running(c), Turn(c, p), meddled' = meddled
    PROVE  AloneInv'
BY DEF ListInv, AloneInv, Lists, Running, Turn

LEMMA AllAloneBefore ==
    ASSUME NEW c \in Calls, NEW p, Running(c), Turn(c, p), p # "lost", meddled' = meddled,
           meddled \subseteq Calls, AllAlone'
    PROVE  AllAlone /\ c \notin meddled
BY DEF AllAlone, At, Turn, Running, Over

\* Who is alone has the list to itself.
LEMMA NoOther ==
    ASSUME ListInv, NEW c \in Calls, c \notin meddled, Lists(c), NEW d \in Calls, d # c
    PROVE  ~Lists(d)
BY DEF ListInv, AloneInv

LEMMA WorkLists ==
    ASSUME TypeInv, NEW d \in Calls, Adding(d) \/ Replacing(d)
    PROVE  Lists(d)
BY DEF TypeInv, KindsInv, Adding, Replacing, Listing, Lists, Running, Over, At, Kind

\* What holds of the other calls as long as the list stays and the store grows.
LEMMA OthersListed ==
    ASSUME TypeInv, ListInv, NEW c \in Calls, NEW p, Running(c), Turn(c, p), p # "lost",
           list' = list, known \subseteq known', meddled' = meddled
    PROVE  /\ \A d \in Calls : d # c /\ Returned(d)' =>
                  /\ Returned(d) /\ thread'[d].channel = thread[d].channel
                  /\ thread'[d].channel \in known' /\ InList(d)'
           /\ \A d \in Calls : d # c => (Replacing(d)' <=> Replacing(d))
                                        /\ thread'[d].saw = thread[d].saw
           /\ \A d \in Calls : d # c => (Adding(d)' <=> Adding(d)) /\ (InList(d)' <=> InList(d))
           /\ ~Returned(c)
<1>1. ~Returned(c)
  BY DEF Returned, Running, Over, At
<1>2. \A d \in Calls : d # c => thread'[d] = thread[d]
  BY DEF Turn
<1>3. \A d \in Calls : d # c => (InList(d)' <=> InList(d))
  BY <1>2 DEF InList, Initialized
<1>4. \A d \in Calls : d # c => /\ Adding(d)' <=> Adding(d)
                                /\ Replacing(d)' <=> Replacing(d)
                                /\ Returned(d)' <=> Returned(d)
  BY <1>2 DEF Adding, Replacing, Returned, At, Kind
<1> QED
  BY <1>1, <1>2, <1>3, <1>4 DEF ListInv, ReturnedInv

\* A piece that ends a call otherwise than by returning a channel, or of a call that
\* does not work on the list.
LEMMA FarList ==
    ASSUME TypeInv, ListInv, NEW c \in Calls,
           NEW p \in Pieces \ {"setup", "restore", "routers", "write", "lost"},
           Running(c), Turn(c, p), p = "done" => Kind(c) # "create",
           list' = list, known \subseteq known', meddled' = meddled
    PROVE  ListInv'
<1>1. AloneInv'
  BY AloneTurn
<1>2. ~Returned(c)' /\ ~Replacing(c)' /\ ~Adding(c)'
  BY DEF Returned, Replacing, Adding, Listing, Turn, At, Kind
<1>3. ReturnedInv'
  BY <1>2, OthersListed DEF ReturnedInv
<1>4. SawInv'
  BY <1>2, OthersListed DEF SawInv, ListInv
<1>5. OnceInv'
  <2> SUFFICES ASSUME AllAlone'
               PROVE  /\ Initialized' => IsInjective(list'["initialized"])
                      /\ \A d \in Calls : Adding(d)' => ~InList(d)'
    BY DEF OnceInv
  <2>1. AllAlone
    BY AllAloneBefore DEF TypeInv, VarTypes
  <2> QED
    BY <1>2, <2>1, OthersListed DEF ListInv, OnceInv, Initialized
<1> QED
  BY <1>1, <1>3, <1>4, <1>5 DEF ListInv

\* A call goes on setting up its channel.
LEMMA AddingList ==
    ASSUME TypeInv, ListInv, NEW c \in Calls, NEW p \in {"restore", "routers", "write"},
           Adding(c), Kind(c) = "create", Turn(c, p),
           thread'[c].channel = thread[c].channel,
           list' = list, known \subseteq known', meddled' = meddled
    PROVE  ListInv'
<1>0. Running(c)
  BY DEF Adding, Listing, Running, Over, At
<1>1. AloneInv'
  BY <1>0, AloneTurn
<1>2. ~Returned(c)' /\ ~Replacing(c)'
  BY DEF Returned, Replacing, Turn, At, Kind
<1>3. ReturnedInv'
  BY <1>0, <1>2, OthersListed DEF ReturnedInv
<1>4. SawInv'
  BY <1>0, <1>2, OthersListed DEF SawInv, ListInv
<1>5. OnceInv'
  <2> SUFFICES ASSUME AllAlone'
               PROVE  /\ Initialized' => IsInjective(list'["initialized"])
                      /\ \A d \in Calls : Adding(d)' => ~InList(d)'
    BY DEF OnceInv
  <2>1. AllAlone
    BY <1>0, AllAloneBefore DEF TypeInv, VarTypes
  <2>2. ~InList(c)'
    BY <2>1 DEF ListInv, OnceInv, InList, Initialized
  <2> QED
    BY <1>0, <2>1, <2>2, OthersListed DEF ListInv, OnceInv, Initialized
<1> QED
  BY <1>1, <1>3, <1>4, <1>5 DEF ListInv

LEMMA GetActiveStateChannelsList ==
    ASSUME TypeInv, ListInv, NEW c \in Calls, GetActiveStateChannels(c)
    PROVE  ListInv'
<1>1. /\ At(c, "channels") /\ Kind(c) = "initialize" /\ Running(c)
      /\ known' = known /\ list' = list /\ meddled' = meddled
      /\ thread'[c].channel = thread[c].channel
  BY GetActiveStateChannelsFacts DEF node, Keeping, Running, Over, At
<1>2. CASE Turn(c, "error")
  BY <1>1, <1>2, FarList DEF Pieces
<1>3. CASE Turn(c, "routers") /\ thread'[c].saw = known
  <2>1. AloneInv'
    BY <1>1, <1>3, AloneTurn
  <2>2. ~Returned(c)' /\ ~Adding(c)'
    BY <1>1, <1>3 DEF Returned, Adding, Listing, Turn, At, Kind
  <2>3. ReturnedInv'
    BY <1>1, <1>3, <2>2, OthersListed DEF ReturnedInv
  <2>4. SawInv'
    BY <1>1, <1>3, <2>2, OthersListed DEF SawInv, ListInv, ReturnedInv
  <2>5. OnceInv'
    <3> SUFFICES ASSUME AllAlone'
                 PROVE  /\ Initialized' => IsInjective(list'["initialized"])
                        /\ \A d \in Calls : Adding(d)' => ~InList(d)'
      BY DEF OnceInv
    <3>1. AllAlone
      BY <1>1, <1>3, AllAloneBefore DEF TypeInv, VarTypes
    <3> QED
      BY <1>1, <1>3, <2>2, <3>1, OthersListed DEF ListInv, OnceInv, Initialized
  <2> QED
    BY <2>1, <2>3, <2>4, <2>5 DEF ListInv
<1> QED
  BY <1>2, <1>3, GetActiveStateChannelsFacts

LEMMA FindListedList ==
    ASSUME TypeInv, ListInv, NEW c \in Calls, FindListed(c)
    PROVE  ListInv'
<1> DEFINE l == list["initialized"]
<1>1. /\ At(c, "router") /\ Kind(c) = "create" /\ Running(c) /\ Lists(c) /\ Initialized
      /\ known' = known /\ list' = list /\ meddled' = meddled
  BY FindListedFacts DEF node, Running, Over, At, Lists, Kind
<1>2. CASE Turn(c, "error")
  BY <1>1, <1>2, FarList DEF Pieces
<1>3. CASE /\ Turn(c, "done")
           /\ \E i \in DOMAIN l : l[i] = thread'[c].channel
  <2>1. AloneInv'
    BY <1>1, <1>3, AloneTurn
  <2>2. ~Replacing(c)' /\ ~Adding(c)'
    BY <1>1, <1>3 DEF Replacing, Adding, Listing, Turn, At, Kind
  <2>3. thread'[c].channel \in known /\ InList(c)'
    BY <1>1, <1>3 DEF TypeInv, InList, Initialized, Contexts
  <2>4. ReturnedInv'
    BY <1>1, <1>3, <2>3, OthersListed DEF ReturnedInv
  <2>5. ASSUME Returned(c)', NEW d \in Calls, d # c, Replacing(d)' PROVE FALSE
    <3>1. c \notin meddled
      BY <1>1, <2>5 DEF Returned
    <3>2. Replacing(d)
      BY <1>1, <1>3, <2>5, OthersListed
    <3> QED
      BY <1>1, <2>5, <3>1, <3>2, NoOther, WorkLists
  <2>6. SawInv'
    BY <1>1, <1>3, <2>2, <2>5, OthersListed DEF SawInv, ListInv
  <2>7. OnceInv'
    <3> SUFFICES ASSUME AllAlone'
                 PROVE  /\ Initialized' => IsInjective(list'["initialized"])
                        /\ \A d \in Calls : Adding(d)' => ~InList(d)'
      BY DEF OnceInv
    <3>1. AllAlone
      BY <1>1, <1>3, AllAloneBefore DEF TypeInv, VarTypes
    <3> QED
      BY <1>1, <1>3, <2>2, <3>1, OthersListed DEF ListInv, OnceInv, Initialized
  <2> QED
    BY <2>1, <2>4, <2>6, <2>7 DEF ListInv
<1>4. CASE /\ Turn(c, "setup")
           /\ \A i \in DOMAIN l : l[i] # thread'[c].channel
  <2>1. AloneInv'
    BY <1>1, <1>4, AloneTurn
  <2>2. ~Returned(c)' /\ ~Replacing(c)' /\ ~InList(c)'
    BY <1>1, <1>4 DEF Returned, Replacing, InList, Turn, At, Kind
  <2>3. ReturnedInv'
    BY <1>1, <1>4, <2>2, OthersListed DEF ReturnedInv
  <2>4. SawInv'
    BY <1>1, <1>4, <2>2, OthersListed DEF SawInv, ListInv
  <2>5. OnceInv'
    <3> SUFFICES ASSUME AllAlone'
                 PROVE  /\ Initialized' => IsInjective(list'["initialized"])
                        /\ \A d \in Calls : Adding(d)' => ~InList(d)'
      BY DEF OnceInv
    <3>1. AllAlone
      BY <1>1, <1>4, AllAloneBefore DEF TypeInv, VarTypes
    <3> QED
      BY <1>1, <1>4, <2>2, <3>1, OthersListed DEF ListInv, OnceInv, Initialized
  <2> QED
    BY <2>1, <2>3, <2>4, <2>5 DEF ListInv
<1> QED
  BY <1>2, <1>3, <1>4, FindListedFacts

LEMMA SetUpList ==
    ASSUME TypeInv, ListInv, NEW c \in Calls, SetUp(c)
    PROVE  ListInv'
<1>1. /\ Adding(c) /\ Kind(c) = "create" /\ thread'[c].channel = thread[c].channel
      /\ list' = list /\ known \subseteq known' /\ meddled' = meddled
      /\ Turn(c, "routers") \/ Turn(c, "restore")
  BY SetUpFacts DEF Adding, Listing, At, Keeping
<1> QED
  BY <1>1, AddingList

LEMMA RestoreList ==
    ASSUME TypeInv, ListInv, NEW c \in Calls, RestoreState(c)
    PROVE  ListInv'
<1>1. /\ Adding(c) /\ Kind(c) = "create" /\ thread'[c].channel = thread[c].channel
      /\ list' = list /\ known \subseteq known' /\ meddled' = meddled /\ Running(c)
      /\ (Turn(c, "routers") \/ Turn(c, "error"))
  BY RestoreFacts DEF Adding, Listing, At, Keeping, Running, Over
<1>2. CASE Turn(c, "error")
  BY <1>1, <1>2, FarList DEF Pieces
<1> QED
  BY <1>1, <1>2, AddingList

LEMMA GetActiveRoutersList ==
    ASSUME TypeInv, ListInv, NEW c \in Calls, GetActiveRouters(c)
    PROVE  ListInv'
<1>1. /\ Adding(c) /\ Kind(c) = "create" /\ thread'[c].channel = thread[c].channel
      /\ list' = list /\ known = known' /\ meddled' = meddled /\ Running(c)
      /\ (Turn(c, "write") \/ Turn(c, "error"))
  BY GetActiveRoutersFacts DEF Adding, Listing, At, Keeping, node, Running, Over
<1>2. CASE Turn(c, "error")
  BY <1>1, <1>2, FarList DEF Pieces
<1> QED
  BY <1>1, <1>2, AddingList

LEMMA SetContextList ==
    ASSUME TypeInv, ListInv, NEW c \in Calls, SetContext(c)
    PROVE  ListInv'
<1> DEFINE q == SetToSeq(thread[c].saw)
<1>0. q = SetToSeq(thread[c].saw)
  OBVIOUS
<1> HIDE DEF q
<1>1. /\ Replacing(c) /\ Turn(c, "done") /\ known' = known /\ meddled' = meddled
      /\ q \in Seq(Channels) /\ IsInjective(q)
      /\ \A e \in thread[c].saw : \E i \in DOMAIN q : q[i] = e
      /\ \A x \in Contexts : list'[x] = q \/ (Initialized /\ list'[x] = list[x])
  BY <1>0, SetContextFacts DEF node
<1>2. Running(c) /\ Lists(c)
  BY <1>1 DEF Replacing, Running, Over, Lists, At, Kind
<1>3. AloneInv'
  BY <1>1, <1>2, AloneTurn
<1>4. ~Returned(c)' /\ ~Replacing(c)' /\ ~Adding(c)'
  BY <1>1 DEF Returned, Replacing, Adding, Listing, Turn, At, Kind
<1>5. \A d \in Calls : d # c => thread'[d] = thread[d]
  BY <1>1 DEF Turn
<1>6. \A d \in Calls : d # c => /\ Adding(d)' <=> Adding(d)
                                /\ Replacing(d)' <=> Replacing(d)
                                /\ Returned(d)' <=> Returned(d)
  BY <1>1, <1>5 DEF Adding, Replacing, Returned, At, Kind
<1>7. \/ list'["initialized"] = q
      \/ Initialized /\ list'["initialized"] = list["initialized"]
  BY <1>1 DEF Contexts
<1>8. q # None
  BY <1>1, StateChannelsAssumption
<1>9. ASSUME NEW d \in Calls, Returned(d)'
      PROVE  thread'[d].channel \in known' /\ InList(d)'
  <2>1. d # c /\ Returned(d) /\ thread'[d] = thread[d]
    BY <1>4, <1>5, <1>6, <1>9
  <2>2. thread[d].channel \in known /\ InList(d) /\ thread[d].channel \in thread[c].saw
    BY <1>1, <2>1 DEF ListInv, ReturnedInv, SawInv
  <2> QED
    BY <1>1, <1>7, <1>8, <2>1, <2>2 DEF InList, Initialized
<1>10. ReturnedInv'
  BY <1>9 DEF ReturnedInv
<1>11. SawInv'
  BY <1>4, <1>5, <1>6 DEF SawInv, ListInv
<1>12. OnceInv'
  <2> SUFFICES ASSUME AllAlone'
               PROVE  /\ Initialized' => IsInjective(list'["initialized"])
                      /\ \A d \in Calls : Adding(d)' => ~InList(d)'
    BY DEF OnceInv
  <2>1. AllAlone /\ c \notin meddled
    BY <1>1, <1>2, AllAloneBefore DEF TypeInv, VarTypes
  <2>2. \A d \in Calls : ~Adding(d)'
    BY <1>2, <1>4, <1>6, <2>1, NoOther, WorkLists
  <2> QED
    BY <1>1, <1>7, <2>1, <2>2 DEF ListInv, OnceInv, Initialized
<1> QED
  BY <1>3, <1>10, <1>11, <1>12 DEF ListInv

LEMMA AddActiveRouterList ==
    ASSUME TypeInv, ListInv, NEW c \in Calls, AddActiveRouter(c)
    PROVE  ListInv'
<1> DEFINE l == list["initialized"]
<1>0. PICK ch \in Channels : ch = thread[c].channel
  BY AddActiveRouterFacts
<1>1. /\ At(c, "write") /\ Kind(c) = "create" /\ Turn(c, "done") /\ ch \in known
      /\ Initialized /\ known' = known /\ meddled' = meddled /\ thread'[c].channel = ch
      /\ l \in Seq(Channels) /\ list'["initialized"] = Append(l, ch)
  BY <1>0, AddActiveRouterFacts DEF node, Keeping, Contexts
<1>2. Running(c) /\ Lists(c) /\ Adding(c)
  BY <1>1 DEF Running, Over, Lists, At, Kind, Adding, Listing
<1>3. AloneInv'
  BY <1>1, <1>2, AloneTurn
<1>4. ~Replacing(c)' /\ ~Adding(c)'
  BY <1>1 DEF Replacing, Adding, Listing, Turn, At, Kind
<1>5. \A d \in Calls : d # c => thread'[d] = thread[d]
  BY <1>1 DEF Turn
<1>6. \A d \in Calls : d # c => /\ Adding(d)' <=> Adding(d)
                                /\ Replacing(d)' <=> Replacing(d)
                                /\ Returned(d)' <=> Returned(d)
  BY <1>1, <1>5 DEF Adding, Replacing, Returned, At, Kind
<1>7. PICK t \in Seq(Channels) : t = Append(l, ch)
  BY <1>0, <1>1, AppendFacts
<1>8. /\ DOMAIN t = 1..(Len(l) + 1) /\ DOMAIN l = 1..Len(l) /\ Len(l) \in Nat
      /\ t[Len(l) + 1] = ch /\ \A i \in DOMAIN l : i \in DOMAIN t /\ t[i] = l[i]
  <2> HIDE DEF l
  <2> QED
    BY <1>0, <1>1, <1>7, AppendFacts
<1>9. Initialized' /\ list'["initialized"] = t
  BY <1>1, <1>7, StateChannelsAssumption DEF Initialized
<1>10. InList(c)'
  BY <1>1, <1>8, <1>9 DEF InList
<1>11. ASSUME NEW d \in Calls, d # c, InList(d) PROVE InList(d)'
  BY <1>5, <1>8, <1>9, <1>11 DEF InList
<1>12. ReturnedInv'
  BY <1>1, <1>5, <1>6, <1>10, <1>11 DEF ListInv, ReturnedInv
<1>13. ASSUME Returned(c)', NEW d \in Calls, Replacing(d)' PROVE FALSE
  <2>1. c \notin meddled /\ d # c /\ Replacing(d)
    BY <1>1, <1>4, <1>6, <1>13 DEF Returned
  <2> QED
    BY <1>2, <2>1, NoOther, WorkLists
<1>14. SawInv'
  BY <1>4, <1>5, <1>6, <1>13 DEF SawInv, ListInv
<1>15. OnceInv'
  <2> SUFFICES ASSUME AllAlone'
               PROVE  /\ Initialized' => IsInjective(list'["initialized"])
                      /\ \A d \in Calls : Adding(d)' => ~InList(d)'
    BY DEF OnceInv
  <2>1. AllAlone /\ c \notin meddled
    BY <1>1, <1>2, AllAloneBefore DEF TypeInv, VarTypes
  <2>2. \A d \in Calls : ~Adding(d)'
    BY <1>2, <1>4, <1>6, <2>1, NoOther, WorkLists
  <2>3. IsInjective(l) /\ \A i \in DOMAIN l : l[i] # ch
    BY <1>0, <1>1, <1>2, <2>1 DEF ListInv, OnceInv, InList
  <2>4. IsInjective(t)
    <3> HIDE DEF l
    <3> QED
      BY <1>8, <2>3 DEF IsInjective
  <2> QED
    BY <1>9, <2>2, <2>4
<1> QED
  BY <1>3, <1>12, <1>14, <1>15 DEF ListInv

\* Calls about money and balances do not work on the list.
LEMMA OtherPiecesList ==
    ASSUME TypeInv, ListInv, NEW c \in Calls,
           \/ WaitForTransaction(c) \/ ReconcileDeposit(c) \/ Withdraw(c)
           \/ GetStates(c) \/ GetAssetInfos(c)
    PROVE  ListInv'
<1>1. KindsInv(c)
  BY DEF TypeInv
<1>2. /\ Running(c) /\ Kind(c) # "create"
      /\ list' = list /\ known' = known /\ meddled' = meddled
      /\ \E p \in {"error", "done", "reconcile", "states", "infos"} : Turn(c, p)
  <2>1. CASE WaitForTransaction(c)
    BY <1>1, <2>1, WaitFacts DEF KindsInv, Running, Over, At, node, context
  <2>2. CASE ReconcileDeposit(c)
    BY <1>1, <2>2, ReconcileFacts DEF KindsInv, Running, Over, At, node, context
  <2>3. CASE Withdraw(c)
    BY <1>1, <2>3, WithdrawFacts DEF KindsInv, Running, Over, At, node, context
  <2>4. CASE GetStates(c)
    BY <1>1, <2>4, GetStatesFacts DEF KindsInv, Running, Over, At, node, context
  <2>5. CASE GetAssetInfos(c)
    BY <1>1, <2>5, GetAssetInfosFacts DEF KindsInv, Running, Over, At, node, context
  <2> QED
    BY <2>1, <2>2, <2>3, <2>4, <2>5
<1> QED
  BY <1>2, FarList DEF Pieces

LEMMA StepList ==
    ASSUME TypeInv, ListInv, NEW c \in Calls, Step(c)
    PROVE  ListInv'
BY GetActiveStateChannelsList, SetContextList, FindListedList, SetUpList, RestoreList,
   GetActiveRoutersList, AddActiveRouterList, OtherPiecesList DEF Step

LEMMA StartList ==
    ASSUME TypeInv, ListInv, NEW c \in Calls, NEW ask \in Asks, NEW chain \in Chains,
           Start(c, ask, chain)
    PROVE  ListInv'
<1>1. /\ At(c, "no") /\ \A d \in Calls : d # c => thread'[d] = thread[d]
      /\ thread'[c].ask = ask
      /\ thread'[c].pc \in {"channels", "router", "withdraw", "states", "mined"}
      /\ known' = known /\ list' = list
  BY StartFacts DEF node, context
<1>2. \/ /\ ask.kind \in {"initialize", "create"} /\ \E d \in Calls : Lists(d)
         /\ meddled' = meddled \cup {c} \cup {d \in Calls : Lists(d)}
      \/ /\ ~(ask.kind \in {"initialize", "create"} /\ \E d \in Calls : Lists(d))
         /\ meddled' = meddled
  BY DEF Start
<1>3. ~Lists(c) /\ ~Returned(c) /\ ~Returned(c)' /\ ~Replacing(c)' /\ ~Adding(c)'
  BY <1>1 DEF Lists, Running, Over, Returned, Replacing, Adding, Listing, At
<1>4. Lists(c)' => ask.kind \in {"initialize", "create"}
  BY <1>1 DEF Lists
<1>5. \A d \in Calls : d # c => /\ Lists(d)' <=> Lists(d)
                                /\ Adding(d)' <=> Adding(d)
                                /\ Replacing(d)' <=> Replacing(d)
                                /\ InList(d)' <=> InList(d)
                                /\ Returned(d)' => Returned(d)
  BY <1>1, <1>2 DEF Lists, Running, Adding, Replacing, InList, Initialized, Returned, At, Kind
<1>6. AloneInv'
  <2>1. CASE meddled' = meddled \cup {c} \cup {d \in Calls : Lists(d)}
    BY <1>5, <2>1 DEF AloneInv
  <2>2. CASE /\ ~(ask.kind \in {"initialize", "create"} /\ \E d \in Calls : Lists(d))
             /\ meddled' = meddled
    BY <1>4, <1>5, <2>2 DEF AloneInv, ListInv
  <2> QED
    BY <1>2, <2>1, <2>2
<1>7. ReturnedInv'
  BY <1>1, <1>3, <1>5 DEF ReturnedInv, ListInv
<1>8. SawInv'
  BY <1>1, <1>3, <1>5 DEF SawInv, ListInv
<1>9. OnceInv'
  <2> SUFFICES ASSUME AllAlone'
               PROVE  /\ Initialized' => IsInjective(list'["initialized"])
                      /\ \A d \in Calls : Adding(d)' => ~InList(d)'
    BY DEF OnceInv
  <2>1. c \notin meddled'
    BY <1>1 DEF AllAlone, At
  <2>2. AllAlone
    BY <1>1, <1>2, <2>1 DEF AllAlone, At, TypeInv, VarTypes
  <2> QED
    BY <1>1, <1>3, <1>5, <2>2 DEF ListInv, OnceInv, Initialized
<1> QED
  BY <1>6, <1>7, <1>8, <1>9 DEF ListInv

LEMMA MineList ==
    ASSUME TypeInv, ListInv, NEW c \in Calls, Mine(c)
    PROVE  ListInv'
<1>1. /\ thread' = thread /\ known' = known /\ list' = list /\ meddled' = meddled
  BY MineFacts DEF node, context
<1> QED
  BY <1>1 DEF ListInv, AloneInv, ReturnedInv, SawInv, OnceInv, AllAlone, Lists, Running,
              Returned, Replacing, Adding, InList, Initialized, At, Kind

\* Nothing is left of the lists and of the calls.
LEMMA ReloadList ==
    ASSUME TypeInv, ListInv, Reload
    PROVE  ListInv'
<1>1. /\ \A d \in Calls : thread'[d].pc \in {"no", "lost"}
      /\ list'["initialized"] = None
  BY ReloadFacts DEF Contexts
<1>2. ~Initialized'
  BY <1>1 DEF Initialized
<1>3. \A d \in Calls : ~Lists(d)' /\ ~Returned(d)' /\ ~Replacing(d)' /\ ~Adding(d)'
  BY <1>1 DEF Lists, Running, Over, Returned, Replacing, Adding, Listing, At
<1> QED
  BY <1>2, <1>3 DEF ListInv, AloneInv, ReturnedInv, SawInv, OnceInv

LEMMA InitList ==
    ASSUME Init
    PROVE  ListInv
<1>1. \A d \in Calls : thread[d].pc = "no"
  BY DEF Init, Idle
<1>2. ~Initialized
  BY DEF Init, Initialized, Contexts
<1>3. \A d \in Calls : ~Lists(d) /\ ~Returned(d) /\ ~Replacing(d) /\ ~Adding(d)
  BY <1>1 DEF Lists, Running, Over, Returned, Replacing, Adding, Listing, At
<1> QED
  BY <1>2, <1>3 DEF ListInv, AloneInv, ReturnedInv, SawInv, OnceInv

-----------------------------------------------------------------------------
(* All of it. *)

LEMMA StaysSound ==
    ASSUME Inv, [Next]_vars
    PROVE  Inv'
<1>1. CASE Next
  <2>1. TypeInv'
    BY <1>1, NextType DEF Inv
  <2>2. MoneyInv'
    BY <1>1, StartMoney, StepMoney, MineMoney, ReloadMoney DEF Inv, Next
  <2>3. ListInv'
    BY <1>1, StartList, StepList, MineList, ReloadList DEF Inv, Next
  <2> QED
    BY <2>1, <2>2, <2>3 DEF Inv
<1>2. CASE UNCHANGED vars
  <2>1. TypeInv'
    BY <1>2, StayType DEF Inv
  <2>2. /\ thread' = thread /\ known' = known /\ list' = list /\ meddled' = meddled
        /\ tx' = tx /\ balance' = balance /\ landed' = landed
    BY <1>2 DEF vars, node, money, context
  <2>3. MoneyInv'
    BY <2>2, SteadyMoney DEF Inv, Steady
  <2>4. ListInv'
    BY <2>2 DEF Inv, ListInv, AloneInv, ReturnedInv, SawInv, OnceInv, AllAlone, Lists, Running,
                Returned, Replacing, Adding, InList, Initialized, At, Kind
  <2> QED
    BY <2>1, <2>3, <2>4 DEF Inv
<1> QED
  BY <1>1, <1>2

\* The inductive invariant: what calls at each piece have read, the account of each
\* channel, and what there is about the list and those that replace or extend it.
THEOREM ChannelsStaySound == Spec => []Inv
<1>1. Init => Inv
  BY InitType, InitMoney, InitList DEF Inv
<1>2. Inv /\ [Next]_vars => Inv'
  BY StaysSound
<1> QED
  BY <1>1, <1>2, PTL DEF Spec

LEMMA TypesOK ==
    ASSUME TypeInv
    PROVE  TypeOK
<1>1. \A x \in Contexts : list[x] = None \/ list[x] \in Seq(opened)
  <2> SUFFICES ASSUME NEW x \in Contexts, list[x] # None PROVE list[x] \in Seq(opened)
    OBVIOUS
  <2>1. list[x] \in Seq(Channels)
    BY DEF TypeInv, VarTypes, Lists0
  <2>2. \A i \in DOMAIN list[x] : list[x][i] \in opened
    BY DEF TypeInv, VarTypes
  <2> DEFINE s == list[x]
  <2>3. s \in Seq(Channels) /\ \A i \in DOMAIN s : s[i] \in opened
    BY <2>1, <2>2
  <2> HIDE DEF s
  <2>4. DOMAIN s = 1..Len(s) /\ Len(s) \in Nat
    BY <2>3
  <2>5. s \in [1..Len(s) -> opened]
    BY <2>3, <2>4
  <2>6. s \in Seq(opened)
    BY <2>4, <2>5
  <2> QED
    BY <2>6 DEF s
<1>2. \A c \in Calls : thread[c].pc \in Pieces /\ (Running(c) => thread[c].ask \in Asks)
  BY DEF TypeInv, VarTypes, Thread, CallInv, Running, Over, At
<1> QED
  BY <1>1, <1>2 DEF TypeInv, VarTypes, TypeOK

\* The variables have their types; in particular no wallet and no channel goes below
\* zero, the channels of the store and of the lists are ones the routers know, and
\* the two lists are the same as long as they are one array.
THEOREM ChannelTypes == Spec => []TypeOK
<1>1. Inv => TypeOK
  BY TypesOK DEF Inv
<1> QED
  BY <1>1, ChannelsStaySound, PTL

\* What depositFunds reported is in the channel, for any number of deposits and
\* withdrawals of any channels, and however often the page is loaded again.
THEOREM DepositsStayCounted == Spec => []DepositsAreCounted
<1>1. Inv => DepositsAreCounted
  BY MoneyCounted DEF Inv
<1> QED
  BY <1>1, ChannelsStaySound, PTL

LEMMA ListedAlone ==
    ASSUME TypeInv, ListInv
    PROVE  AloneIsListed
<1> DEFINE l == list["initialized"]
<1> SUFFICES ASSUME NEW c \in Calls, Returned(c)
             PROVE  LET places == {i \in DOMAIN l : l[i] = thread[c].channel}
                    IN  /\ thread[c].channel \in known /\ places # {}
                        /\ (\A d \in meddled : At(d, "lost")) => Cardinality(places) = 1
  BY DEF AloneIsListed, Returned, Kind
<1>1. thread[c].channel \in known /\ Initialized
  BY DEF ListInv, ReturnedInv, InList
<1>2. PICK i \in DOMAIN l : l[i] = thread[c].channel
  BY DEF ListInv, ReturnedInv, InList
<1>3. ASSUME AllAlone PROVE {k \in DOMAIN l : l[k] = thread[c].channel} = {i}
  BY <1>1, <1>2, <1>3 DEF ListInv, OnceInv, IsInjective
<1>4. Cardinality({i}) = 1
  BY FS_Singleton
<1> QED
  BY <1>1, <1>2, <1>3, <1>4 DEF AllAlone

\* A channel that was returned is listed, and once if no calls of the page overlapped,
\* for any number of calls, channels and reloads.
THEOREM AloneStaysListed == Spec => []AloneIsListed
<1>1. Inv => AloneIsListed
  BY ListedAlone DEF Inv
<1> QED
  BY <1>1, ChannelsStaySound, PTL

=============================================================================
