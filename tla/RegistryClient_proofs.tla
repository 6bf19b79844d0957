----------------------- MODULE RegistryClient_proofs -----------------------
(***************************************************************************)
(* What RegistryClient keeps, for any number of operations and registries  *)
(* and any methods of the repository. The argument has three parts:        *)
(*                                                                         *)
(*   the pieces of every method come in an order that makes sense          *)
(*   (GoodRun): an object is made for writing before it sends, the field   *)
(*   is reading when a module is listed, a mint comes before its claim.    *)
(*   Concatenation keeps that, so it is shown of the parts of the methods; *)
(*   where an operation is in its method says what it has sent (OpsOK);    *)
(*   for an operation that was never in progress together with another     *)
(*   one, where it is says also what the shared fields are (Tracked).      *)
(***************************************************************************)
EXTENDS RegistryClient, SequenceTheorems, TLAPS

-----------------------------------------------------------------------------
(* The methods. *)

Kinds == {"read", "list", "call", "write", "create", "again", "send", "hypertoken",
          "approve", "pay", "batch", "make", "load", "mint", "claim", "drop", "throw"}

\* Of the first n pieces of a method: one of them is of that kind; since an object
\* was made for writing none was made for reading, and the other way round.
Has(run, n, kind) == \E j \in 1..n : run[j] = kind

Writing(run, n) ==
    \E j \in 1..n : run[j] \in {"write", "create"} /\ \A i \in (j + 1)..n : run[i] # "read"

Reading(run, n) ==
    \E j \in 1..n : run[j] = "read" /\ \A i \in (j + 1)..n : run[i] \notin {"write", "create"}

\* What the proofs need to know of a piece of a method m that comes after n others.
GoodPiece(run, n, kind, m) ==
    /\ kind = "send" => Writing(run, n)
    /\ kind = "list" => Reading(run, n)
    /\ kind = "claim" => Has(run, n, "mint")
    /\ kind = "approve" => Has(run, n, "create")
    /\ kind = "pay" => IF m = "createRegistryByToken" THEN Has(run, n, "hypertoken")
                                                      ELSE Has(run, n, "approve")
    /\ kind \in {"create", "approve"} => m # "createRegistryByToken"
    /\ kind = "hypertoken" => m = "createRegistryByToken"

GoodRun(run, m) ==
    /\ run \in Seq(Kinds) /\ run # <<>>
    /\ \A k \in 1..Len(run) : GoodPiece(run, k - 1, run[k], m)

\* Two sequences, one after the other.
LEMMA Joined ==
    ASSUME NEW s \in Seq(Kinds), NEW t \in Seq(Kinds)
    PROVE  /\ s \o t \in Seq(Kinds) /\ Len(s \o t) = Len(s) + Len(t)
           /\ \A i \in 1..Len(s) : (s \o t)[i] = s[i]
           /\ \A i \in 1..Len(t) : (s \o t)[Len(s) + i] = t[i]
  OBVIOUS

LEMMA PrefixStaysGood ==
    ASSUME NEW s, NEW u, NEW n \in Nat, NEW kind, NEW m,
           \A i \in 1..n : u[i] = s[i], GoodPiece(s, n, kind, m)
    PROVE  GoodPiece(u, n, kind, m)
<1>1. Has(s, n, "mint") => Has(u, n, "mint")
  BY DEF Has
<1>2. Has(s, n, "create") => Has(u, n, "create")
  BY DEF Has
<1>3. Has(s, n, "hypertoken") => Has(u, n, "hypertoken")
  BY DEF Has
<1>4. Has(s, n, "approve") => Has(u, n, "approve")
  BY DEF Has
<1>5. Writing(s, n) => Writing(u, n)
  BY DEF Writing
<1>6. Reading(s, n) => Reading(u, n)
  BY DEF Reading
<1> QED
  BY <1>1, <1>2, <1>3, <1>4, <1>5, <1>6 DEF GoodPiece

LEMMA SuffixStaysGood ==
    ASSUME NEW t, NEW u, NEW n \in Nat, NEW l \in Nat, NEW kind, NEW m,
           \A i \in 1..n : u[l + i] = t[i], GoodPiece(t, n, kind, m)
    PROVE  GoodPiece(u, l + n, kind, m)
<1>1. ASSUME NEW x, Has(t, n, x) PROVE Has(u, l + n, x)
  <2>1. PICK j \in 1..n : t[j] = x
    BY <1>1 DEF Has
  <2> QED
    BY <2>1, l + j \in 1..(l + n) DEF Has
<1>2. Writing(t, n) => Writing(u, l + n)
  <2> SUFFICES ASSUME Writing(t, n) PROVE Writing(u, l + n)
    OBVIOUS
  <2>1. PICK j \in 1..n : t[j] \in {"write", "create"} /\ \A i \in (j + 1)..n : t[i] # "read"
    BY DEF Writing
  <2>2. ASSUME NEW i \in (l + j + 1)..(l + n) PROVE u[i] # "read"
    BY <2>1, i - l \in (j + 1)..n, l + (i - l) = i, u[l + (i - l)] = t[i - l]
  <2> QED
    BY <2>1, <2>2, l + j \in 1..(l + n), u[l + j] = t[j] DEF Writing
<1>3. Reading(t, n) => Reading(u, l + n)
  <2> SUFFICES ASSUME Reading(t, n) PROVE Reading(u, l + n)
    OBVIOUS
  <2>1. PICK j \in 1..n : t[j] = "read" /\ \A i \in (j + 1)..n : t[i] \notin {"write", "create"}
    BY DEF Reading
  <2>2. ASSUME NEW i \in (l + j + 1)..(l + n) PROVE u[i] \notin {"write", "create"}
    BY <2>1, i - l \in (j + 1)..n, l + (i - l) = i, u[l + (i - l)] = t[i - l]
  <2> QED
    BY <2>1, <2>2, l + j \in 1..(l + n), u[l + j] = t[j] DEF Reading
<1> QED
  BY <1>1, <1>2, <1>3 DEF GoodPiece

\* Two good runs make a good one.
LEMMA JoinedRuns ==
    ASSUME NEW s, NEW t, NEW m, GoodRun(s, m), GoodRun(t, m)
    PROVE  GoodRun(s \o t, m)
<1> DEFINE u == s \o t
<1>1. /\ s \in Seq(Kinds) /\ t \in Seq(Kinds) /\ Len(s) \in Nat /\ Len(t) \in Nat
      /\ s # <<>> /\ Len(s) > 0
  BY DEF GoodRun
<1>2. /\ u \in Seq(Kinds) /\ Len(u) = Len(s) + Len(t)
      /\ \A i \in 1..Len(s) : u[i] = s[i]
      /\ \A i \in 1..Len(t) : u[Len(s) + i] = t[i]
  BY <1>1, Joined
<1>3. u # <<>>
  BY <1>1, <1>2
<1> HIDE DEF u
<1>4. ASSUME NEW k \in 1..Len(s) PROVE GoodPiece(u, k - 1, u[k], m)
  <2>1. GoodPiece(s, k - 1, u[k], m) /\ k - 1 \in Nat /\ \A i \in 1..(k - 1) : u[i] = s[i]
    BY <1>1, <1>2 DEF GoodRun
  <2> QED
    BY <2>1, PrefixStaysGood
<1>5. ASSUME NEW k \in 1..Len(t) PROVE GoodPiece(u, Len(s) + (k - 1), u[Len(s) + k], m)
  <2>1. /\ GoodPiece(t, k - 1, u[Len(s) + k], m) /\ k - 1 \in Nat
        /\ \A i \in 1..(k - 1) : u[Len(s) + i] = t[i]
    BY <1>1, <1>2 DEF GoodRun
  <2> QED
    BY <1>1, <2>1, SuffixStaysGood
<1>6. ASSUME NEW k \in 1..Len(u) PROVE GoodPiece(u, k - 1, u[k], m)
  <2>1. CASE k <= Len(s)
    BY <1>1, <1>4, <2>1
  <2>2. CASE k > Len(s)
    <3> DEFINE i == k - Len(s)
    <3>1. i \in 1..Len(t) /\ Len(s) + i = k /\ Len(s) + (i - 1) = k - 1
      BY <1>1, <1>2, <2>2
    <3>2. GoodPiece(u, Len(s) + (i - 1), u[Len(s) + i], m)
      BY <1>5, <3>1
    <3> QED
      BY <3>1, <3>2
  <2> QED
    BY <1>1, <1>2, <2>1, <2>2
<1> QED
  BY <1>2, <1>3, <1>6 DEF GoodRun, u

\* The parts of the methods.
LEMMA Reads ==
    ASSUME NEW m
    PROVE  /\ GoodRun(<<"read">>, m) /\ GoodRun(<<"read", "list", "list">>, m)
           /\ GoodRun(<<"read", "call", "call">>, m)
<1>1. GoodRun(<<"read">>, m)
  BY DEF GoodRun, GoodPiece, Kinds
<1>2. GoodRun(<<"read", "list", "list">>, m)
  BY DEF GoodRun, GoodPiece, Kinds, Reading
<1>3. GoodRun(<<"read", "call", "call">>, m)
  BY DEF GoodRun, GoodPiece, Kinds
<1> QED
  BY <1>1, <1>2, <1>3

LEMMA Writes ==
    ASSUME NEW m
    PROVE  /\ GoodRun(<<"write", "send">>, m) /\ GoodRun(<<"write", "send", "call">>, m)
           /\ GoodRun(<<"write", "call", "send", "call">>, m)
           /\ GoodRun(<<"write", "again", "send">>, m)
<1>1. GoodRun(<<"write", "send">>, m)
  BY DEF GoodRun, GoodPiece, Kinds, Writing
<1>2. GoodRun(<<"write", "send", "call">>, m)
  BY DEF GoodRun, GoodPiece, Kinds, Writing
<1>3. GoodRun(<<"write", "call", "send", "call">>, m)
  BY DEF GoodRun, GoodPiece, Kinds, Writing
<1>4. GoodRun(<<"write", "again", "send">>, m)
  BY DEF GoodRun, GoodPiece, Kinds, Writing
<1> QED
  BY <1>1, <1>2, <1>3, <1>4

LEMMA Creates ==
    ASSUME NEW m, m # "createRegistryByToken"
    PROVE  /\ GoodRun(<<"create", "send">>, m)
           /\ GoodRun(<<"create", "approve", "pay", "call", "send">>, m)
<1>1. GoodRun(<<"create", "send">>, m)
  BY DEF GoodRun, GoodPiece, Kinds, Writing
<1>2. GoodRun(<<"create", "approve", "pay", "call", "send">>, m)
  BY DEF GoodRun, GoodPiece, Kinds, Writing, Has
<1> QED
  BY <1>1, <1>2

LEMMA Others ==
    ASSUME NEW m
    PROVE  /\ GoodRun(<<"batch">>, m) /\ GoodRun(<<"make">>, m) /\ GoodRun(<<"throw">>, m)
           /\ GoodRun(<<"load", "mint", "load", "claim">>, m) /\ GoodRun(<<"load", "drop">>, m)
           /\ GoodRun(<<"hypertoken", "pay", "make">>, "createRegistryByToken")
<1>1. GoodRun(<<"batch">>, m)
  BY DEF GoodRun, GoodPiece, Kinds
<1>2. GoodRun(<<"make">>, m)
  BY DEF GoodRun, GoodPiece, Kinds
<1>3. GoodRun(<<"throw">>, m)
  BY DEF GoodRun, GoodPiece, Kinds
<1>4. GoodRun(<<"load", "mint", "load", "claim">>, m)
  BY DEF GoodRun, GoodPiece, Kinds, Has
<1>5. GoodRun(<<"load", "drop">>, m)
  BY DEF GoodRun, GoodPiece, Kinds
<1>6. GoodRun(<<"hypertoken", "pay", "make">>, "createRegistryByToken")
  BY DEF GoodRun, GoodPiece, Kinds, Has
<1> QED
  BY <1>1, <1>2, <1>3, <1>4, <1>5, <1>6

LEMMA RegistryReads ==
    ASSUME NEW m
    PROVE  /\ GoodRun(GetRegistryModules, m) /\ GoodRun(GetRegistryByName, m)
           /\ GoodRun(GetRegistryModules \o GetRegistryByName, m)
<1>1. GoodRun(GetRegistryModules, m)
  BY Reads DEF GetRegistryModules
<1>2. GoodRun(GetRegistryByName, m)
  BY <1>1, Reads, JoinedRuns DEF GetRegistryByName
<1> QED
  BY <1>1, <1>2, JoinedRuns

\* What the methods do is in an order that makes sense.
LEMMA RunsAreGood ==
    ASSUME NEW r, NEW m \in DOMAIN Runs(r), NEW run \in Runs(r)[m]
    PROVE  GoodRun(run, m)
<1>1. CASE m \in {"getRegistryByName", "getRegistryByAddress", "getRegistries"}
  <2>1. run = GetRegistryModules \o <<"read">>
    BY <1>1 DEF Runs, GetRegistryByName, GetRegistryByAddress, GetRegistries
  <2> QED
    BY <2>1, RegistryReads, Reads, JoinedRuns
<1>2. CASE m \in {"getRegistryEntriesTotalCount", "getRegistryEntries",
                  "getRegistryEntryByOwnerAddress", "getRegistryEntryDetailByTokenId",
                  "getRegistryEntryListByOwnerAddress"}
  <2>1. run = <<"read">> \/ run = <<"read", "call", "call">>
    BY <1>2 DEF Runs, GetRegistryEntriesTotalCount, GetRegistryEntries,
                GetRegistryEntryByOwnerAddress, GetRegistryEntryDetailByTokenId,
                GetRegistryEntryListByOwnerAddress
  <2> QED
    BY <2>1, Reads
<1>3. CASE m \in {"updateRegistryEntryTokenURI", "updateRegistryEntryLabel",
                  "transferRegistryEntry", "burnRegistryEntry"}
  <2>1. \/ run = GetRegistryByName \o <<"write", "send", "call">>
        \/ run = GetRegistryByName \o <<"write", "call", "send", "call">>
        \/ run = GetRegistryByName \o <<"write", "send">>
    BY <1>3 DEF Runs, UpdateRegistryEntryTokenURI, UpdateRegistryEntryLabel,
                TransferRegistryEntry, BurnRegistryEntry
  <2>2. GoodRun(GetRegistryByName \o <<"write", "send", "call">>, m)
    BY RegistryReads, Writes, JoinedRuns
  <2>3. GoodRun(GetRegistryByName \o <<"write", "call", "send", "call">>, m)
    BY RegistryReads, Writes, JoinedRuns
  <2>4. GoodRun(GetRegistryByName \o <<"write", "send">>, m)
    BY RegistryReads, Writes, JoinedRuns
  <2> QED
    BY <2>1, <2>2, <2>3, <2>4
<1>4. CASE m = "updateRegistryParams"
  <2>1. run = (GetRegistryByName \o <<"write", "send">>) \o GetRegistryByName
    BY <1>4 DEF Runs, UpdateRegistryParams
  <2> QED
    BY <2>1, RegistryReads, Writes, JoinedRuns
<1>5. CASE m = "createRegistryEntry"
  <2>1. \/ run = GetRegistryByName \o <<"create", "send">>
        \/ run = GetRegistryByName \o <<"create", "approve", "pay", "call", "send">>
    BY <1>5 DEF Runs, CreateRegistryEntry
  <2>2. GoodRun(GetRegistryByName \o <<"create", "send">>, m)
    BY <1>5, RegistryReads, Creates, JoinedRuns
  <2>3. GoodRun(GetRegistryByName \o <<"create", "approve", "pay", "call", "send">>, m)
    BY <1>5, RegistryReads, Creates, JoinedRuns
  <2> QED
    BY <2>1, <2>2, <2>3
<1>6. CASE m = "createRegistryByToken"
  <2>1. run = <<"make">> \/ run = <<"hypertoken", "pay", "make">>
    BY <1>6 DEF Runs, CreateRegistryByToken
  <2> QED
    BY <1>6, <2>1, Others
<1>7. CASE m \in {"grantRegistrarRole", "revokeRegistrarRole", "renounceRegistrarRole"}
  <2>1. run = GetRegistryByName \o <<"write", "again", "send">>
    BY <1>7 DEF Runs, GrantRegistrarRole, RevokeRegistrarRole, RenounceRegistrarRole
  <2> QED
    BY <2>1, RegistryReads, Writes, JoinedRuns
<1>8. CASE m = "createBatchRegistryEntry"
  <2>1. run = (GetRegistryModules \o GetRegistryByName) \o <<"batch">>
    BY <1>8 DEF Runs, CreateBatchRegistryEntry
  <2> QED
    BY <2>1, RegistryReads, Others, JoinedRuns
<1>9. CASE m = "submitLazyMintSignature"
  <2>1. run = GetRegistryByName \o <<"throw">>
    BY <1>9 DEF Runs, SubmitLazyMintSignature
  <2> QED
    BY <2>1, RegistryReads, Others, JoinedRuns
<1>10. CASE m = "executeLazyMint"
  <2>1. run = GetRegistryModules \o <<"load", "mint", "load", "claim">>
    BY <1>10 DEF Runs, ExecuteLazyMint
  <2> QED
    BY <2>1, RegistryReads, Others, JoinedRuns
<1>11. CASE m = "revokeLazyMintSignature"
  <2>1. run = <<"load", "drop">>
    BY <1>11 DEF Runs, RevokeLazyMintSignature
  <2> QED
    BY <2>1, Others
<1> QED
  BY <1>1, <1>2, <1>3, <1>4, <1>5, <1>6, <1>7, <1>8, <1>9, <1>10, <1>11 DEF Runs

-----------------------------------------------------------------------------
(* The invariant. *)

Operation == [method : Methods \cup {None}, registry : Registries, signature : Signatures,
              run : Seq(Kinds), left : Seq(Kinds), this : Ops \cup {None}, pays : Coins,
              copy : SUBSET Entry, answer : {"none", "done", "error", "thrown"}]

\* How many pieces of its method an operation is past.
Passed(o) == Len(op[o].run) - Len(op[o].left)

IsSuffix(l, run) ==
    /\ Len(l) <= Len(run)
    /\ \A k \in 1..Len(l) : l[k] = run[Len(run) - Len(l) + k]

KindsOf(run, n) == {run[k] : k \in 1..n}
SentBy(o) == {t.kind : t \in {x \in sent : x.by = o}}

Types ==
    /\ TypeOK
    /\ op \in [Ops -> Operation]
    /\ sent \subseteq [by : Ops, kind : Transactions, to : Registries \cup Coins]

\* An operation is somewhere in its method, and has sent what comes before.
OpsOK ==
    \A o \in Ops :
        /\ op[o].method = None =>
               op[o].left = <<>> /\ op[o].answer = "none" /\ \A t \in sent : t.by # o
        /\ op[o].method # None =>
               GoodRun(op[o].run, op[o].method) /\ (op[o].left = <<>> => op[o].answer # "none")
        /\ op[o].left # <<>> =>
               /\ IsSuffix(op[o].left, op[o].run)
               /\ SentBy(o) = KindsOf(op[o].run, Passed(o)) \cap Transactions
        /\ op[o].answer = "done" =>
               SentBy(o) = KindsOf(op[o].run, Len(op[o].run)) \cap Transactions

\* No copy of the store says more than the store may say.
StoreOK ==
    /\ \A e \in store : e.claimed => e.signature \in Minted
    /\ \A o \in Ops : \A e \in op[o].copy : e.claimed => e.signature \in Minted

\* Operations that are in progress together know of it.
CompanyOK == \A o, p \in InProgress : o = p \/ o \in overlapped

\* What the shared fields are for an operation that is alone.
Tracked(o) ==
    /\ Writing(op[o].run, Passed(o)) =>
           field = o /\ op[o].this = o /\ at[o] = op[o].registry
    /\ Reading(op[o].run, Passed(o)) => field = None
    /\ op[o].method # "createRegistryByToken" /\ Has(op[o].run, Passed(o), "create") =>
           coin = CoinOf[op[o].registry]
    /\ op[o].method # "createRegistryByToken" /\ Has(op[o].run, Passed(o), "approve") =>
           op[o].pays = CoinOf[op[o].registry]
    /\ op[o].method = "createRegistryByToken" /\ Has(op[o].run, Passed(o), "hypertoken") =>
           op[o].pays = Hypertoken

AloneOK == \A o \in InProgress : o \in overlapped \/ Tracked(o)

Inv == Types /\ OpsOK /\ StoreOK /\ CompanyOK /\ AloneOK /\ AloneHitsItsTarget

-----------------------------------------------------------------------------
(* Steps through a method. *)

\* Operation o does a piece of its method: what changes of it.
Advances(o) ==
    /\ op' \in [Ops -> Operation]
    /\ \A p \in Ops : p # o => op'[p] = op[p]
    /\ op'[o].method = op[o].method /\ op'[o].registry = op[o].registry
    /\ op'[o].signature = op[o].signature /\ op'[o].run = op[o].run
    /\ op'[o].left = Tail(op[o].left)
    /\ op'[o].answer = IF Len(op[o].left) = 1 THEN "done" ELSE op[o].answer

\* The transactions of a piece of that kind.
Sends(o, kind) ==
    IF kind \in Transactions
    THEN \E to : sent' = sent \cup {[by |-> o, kind |-> kind, to |-> to]}
    ELSE sent' = sent

LEMMA HasStep ==
    ASSUME NEW run, NEW n \in Nat, NEW x
    PROVE  Has(run, n + 1, x) <=> Has(run, n, x) \/ run[n + 1] = x
  BY DEF Has

LEMMA WritingStep ==
    ASSUME NEW run, NEW n \in Nat, Writing(run, n + 1)
    PROVE  \/ run[n + 1] \in {"write", "create"}
           \/ Writing(run, n) /\ run[n + 1] # "read"
<1>1. PICK j \in 1..(n + 1) :
          run[j] \in {"write", "create"} /\ \A i \in (j + 1)..(n + 1) : run[i] # "read"
  BY DEF Writing
<1>2. CASE j = n + 1
  BY <1>1, <1>2
<1>3. CASE j # n + 1
  BY <1>1, <1>3, j \in 1..n, n + 1 \in (j + 1)..(n + 1) DEF Writing
<1> QED
  BY <1>2, <1>3

LEMMA ReadingStep ==
    ASSUME NEW run, NEW n \in Nat, Reading(run, n + 1)
    PROVE  \/ run[n + 1] = "read"
           \/ Reading(run, n) /\ run[n + 1] \notin {"write", "create"}
<1>1. PICK j \in 1..(n + 1) :
          run[j] = "read" /\ \A i \in (j + 1)..(n + 1) : run[i] \notin {"write", "create"}
  BY DEF Reading
<1>2. CASE j = n + 1
  BY <1>1, <1>2
<1>3. CASE j # n + 1
  BY <1>1, <1>3, j \in 1..n, n + 1 \in (j + 1)..(n + 1) DEF Reading
<1> QED
  BY <1>2, <1>3

LEMMA KindsStep ==
    ASSUME NEW run, NEW n \in Nat
    PROVE  KindsOf(run, n + 1) = KindsOf(run, n) \cup {run[n + 1]}
  BY DEF KindsOf

LEMMA SuffixStep ==
    ASSUME NEW run \in Seq(Kinds), NEW l \in Seq(Kinds), l # <<>>, IsSuffix(l, run)
    PROVE  /\ IsSuffix(Tail(l), run) /\ Tail(l) \in Seq(Kinds) /\ Len(Tail(l)) = Len(l) - 1
           /\ Len(run) - Len(l) \in Nat /\ Len(run) \in Nat /\ Len(l) \in Nat \ {0}
           /\ Len(run) - Len(l) + 1 \in 1..Len(run)
           /\ Head(l) = run[Len(run) - Len(l) + 1]
           /\ Len(run) - Len(Tail(l)) = (Len(run) - Len(l)) + 1
           /\ (Tail(l) = <<>>) <=> (Len(l) = 1)
<1>1. /\ Len(l) \in Nat \ {0} /\ Tail(l) \in Seq(Kinds) /\ Len(Tail(l)) = Len(l) - 1
      /\ Head(l) = l[1] /\ Len(run) \in Nat /\ Len(l) <= Len(run)
  BY DEF IsSuffix
<1>2. \A k \in 1..Len(Tail(l)) : Tail(l)[k] = l[k + 1]
  BY <1>1
<1>3. ASSUME NEW k \in 1..Len(Tail(l))
      PROVE  Tail(l)[k] = run[Len(run) - Len(Tail(l)) + k]
  BY <1>1, <1>2, k + 1 \in 1..Len(l),
     Len(run) - Len(l) + (k + 1) = Len(run) - Len(Tail(l)) + k DEF IsSuffix
<1>4. (Tail(l) = <<>>) <=> (Len(Tail(l)) = 0)
  BY <1>1, EmptySeq
<1> QED
  BY <1>1, <1>3, <1>4 DEF IsSuffix

\* Where an operation is in its method.
LEMMA Place ==
    ASSUME Inv, NEW o \in Ops, op[o].left # <<>>
    PROVE  /\ op[o] \in Operation /\ op[o].method # None /\ op[o].method \in Methods
           /\ op[o].answer = "none" /\ Passed(o) \in Nat
           /\ Passed(o) + 1 \in 1..Len(op[o].run)
           /\ op[o].run[Passed(o) + 1] = Head(op[o].left)
           /\ GoodPiece(op[o].run, Passed(o), Head(op[o].left), op[o].method)
           /\ (o \in overlapped \/ Tracked(o))
<1>1. /\ op[o] \in Operation /\ op[o].method # None /\ op[o].answer = "none"
      /\ op[o].run \in Seq(Kinds) /\ op[o].left \in Seq(Kinds)
      /\ IsSuffix(op[o].left, op[o].run) /\ GoodRun(op[o].run, op[o].method)
  BY DEF Inv, Types, TypeOK, OpsOK, Operation
<1>2. op[o].method \in Methods
  BY <1>1 DEF Operation
<1>3. /\ Passed(o) \in Nat /\ Passed(o) + 1 \in 1..Len(op[o].run)
      /\ op[o].run[Passed(o) + 1] = Head(op[o].left)
  BY <1>1, SuffixStep DEF Passed
<1>4. GoodPiece(op[o].run, Passed(o), Head(op[o].left), op[o].method)
  BY <1>1, <1>3 DEF GoodRun
<1>5. o \in overlapped \/ Tracked(o)
  BY DEF Inv, AloneOK, InProgress
<1> QED
  BY <1>1, <1>2, <1>3, <1>4, <1>5

\* What a piece leaves in the record of its operation.
LEMMA Moving ==
    ASSUME Inv, NEW o \in Ops, NEW X \in Operation, op' = [op EXCEPT ![o] = X],
           X.method = op[o].method, X.registry = op[o].registry,
           X.signature = op[o].signature, X.run = op[o].run,
           X.left = Tail(op[o].left),
           X.answer = IF Len(op[o].left) = 1 THEN "done" ELSE op[o].answer
    PROVE  Advances(o) /\ op'[o] = X
<1>1. op \in [Ops -> Operation]
  BY DEF Inv, Types
<1>2. op'[o] = X /\ op' \in [Ops -> Operation] /\ \A p \in Ops : p # o => op'[p] = op[p]
  BY <1>1
<1> QED
  BY <1>2 DEF Advances

LEMMA Rest ==
    ASSUME Inv, NEW o \in Ops, op[o].left # <<>>
    PROVE  /\ op[o] \in Operation /\ op[o].answer = "none" /\ Tail(op[o].left) \in Seq(Kinds)
           /\ op[o].this \in Ops \cup {None} /\ op[o].pays \in Coins
           /\ op[o].copy \in SUBSET Entry
<1>1. op[o] \in Operation /\ op[o].answer = "none"
  BY Place
<1>2. op[o].left \in Seq(Kinds)
  BY <1>1 DEF Operation
<1> QED
  BY <1>1, <1>2 DEF Operation

LEMMA Proceeding ==
    ASSUME Inv, NEW o \in Ops, op[o].left # <<>>,
           Proceed(o)
    PROVE  /\ Advances(o)
           /\ op'[o].this = op[o].this /\ op'[o].pays = op[o].pays
           /\ op'[o].copy = op[o].copy
<1> DEFINE X == Done(o)
<1>1. X \in Operation
  BY Rest DEF Done, Operation
<1>2. /\ X.method = op[o].method /\ X.registry = op[o].registry
      /\ X.signature = op[o].signature /\ X.run = op[o].run
      /\ X.left = Tail(op[o].left)
      /\ X.answer = IF Len(op[o].left) = 1 THEN "done" ELSE op[o].answer
      /\ X.this = op[o].this /\ X.pays = op[o].pays /\ X.copy = op[o].copy
  BY Rest DEF Done, Operation
<1>3. op' = [op EXCEPT ![o] = X]
  BY DEF Proceed
<1> HIDE DEF X
<1> QED
  BY <1>1, <1>2, <1>3, Moving

LEMMA Entering ==
    ASSUME Inv, NEW o \in Ops, op[o].left # <<>>, NEW object \in Ops \cup {None},
           In(o, object)
    PROVE  /\ Advances(o)
           /\ op'[o].this = object /\ op'[o].pays = op[o].pays
           /\ op'[o].copy = op[o].copy
<1> DEFINE X == [Done(o) EXCEPT !.this = object]
<1>1. X \in Operation
  BY Rest DEF Done, Operation
<1>2. /\ X.method = op[o].method /\ X.registry = op[o].registry
      /\ X.signature = op[o].signature /\ X.run = op[o].run
      /\ X.left = Tail(op[o].left)
      /\ X.answer = IF Len(op[o].left) = 1 THEN "done" ELSE op[o].answer
      /\ X.this = object /\ X.pays = op[o].pays /\ X.copy = op[o].copy
  BY Rest DEF Done, Operation
<1>3. op' = [op EXCEPT ![o] = X]
  BY DEF In
<1> HIDE DEF X
<1> QED
  BY <1>1, <1>2, <1>3, Moving

LEMMA Paying ==
    ASSUME Inv, NEW o \in Ops, op[o].left # <<>>, NEW money \in Coins,
           op' = [op EXCEPT ![o] = [Done(o) EXCEPT !.pays = money]]
    PROVE  /\ Advances(o)
           /\ op'[o].this = op[o].this /\ op'[o].pays = money
           /\ op'[o].copy = op[o].copy
<1> DEFINE X == [Done(o) EXCEPT !.pays = money]
<1>1. X \in Operation
  BY Rest DEF Done, Operation
<1>2. /\ X.method = op[o].method /\ X.registry = op[o].registry
      /\ X.signature = op[o].signature /\ X.run = op[o].run
      /\ X.left = Tail(op[o].left)
      /\ X.answer = IF Len(op[o].left) = 1 THEN "done" ELSE op[o].answer
      /\ X.this = op[o].this /\ X.pays = money /\ X.copy = op[o].copy
  BY Rest DEF Done, Operation
<1>3. op' = [op EXCEPT ![o] = X]
  OBVIOUS
<1> HIDE DEF X
<1> QED
  BY <1>1, <1>2, <1>3, Moving

LEMMA Loading ==
    ASSUME Inv, NEW o \in Ops, op[o].left # <<>>, NEW entries \in SUBSET Entry,
           op' = [op EXCEPT ![o] = [Done(o) EXCEPT !.copy = entries]]
    PROVE  /\ Advances(o)
           /\ op'[o].this = op[o].this /\ op'[o].pays = op[o].pays
           /\ op'[o].copy = entries
<1> DEFINE X == [Done(o) EXCEPT !.copy = entries]
<1>1. X \in Operation
  BY Rest DEF Done, Operation
<1>2. /\ X.method = op[o].method /\ X.registry = op[o].registry
      /\ X.signature = op[o].signature /\ X.run = op[o].run
      /\ X.left = Tail(op[o].left)
      /\ X.answer = IF Len(op[o].left) = 1 THEN "done" ELSE op[o].answer
      /\ X.this = op[o].this /\ X.pays = op[o].pays /\ X.copy = entries
  BY Rest DEF Done, Operation
<1>3. op' = [op EXCEPT ![o] = X]
  OBVIOUS
<1> HIDE DEF X
<1> QED
  BY <1>1, <1>2, <1>3, Moving

\* After a piece the operation is one further, and has sent what it should.
LEMMA AdvancesOps ==
    ASSUME Inv, NEW o \in Ops, op[o].left # <<>>, Advances(o), Sends(o, Head(op[o].left))
    PROVE  /\ OpsOK' /\ Passed(o)' = Passed(o) + 1
           /\ \A p \in Ops : op'[p].left # <<>> => op'[p].answer = "none"
           /\ \A p \in Ops : op'[p].left # <<>> => op[p].left # <<>>
<1> DEFINE kind == Head(op[o].left)
<1>1. /\ op[o] \in Operation /\ op[o].method # None /\ op[o].answer = "none"
      /\ Passed(o) \in Nat /\ Passed(o) + 1 \in 1..Len(op[o].run)
      /\ op[o].run[Passed(o) + 1] = kind
  BY Place
<1>2. /\ op[o].run \in Seq(Kinds) /\ op[o].left \in Seq(Kinds)
      /\ IsSuffix(op[o].left, op[o].run)
      /\ SentBy(o) = KindsOf(op[o].run, Passed(o)) \cap Transactions
      /\ GoodRun(op[o].run, op[o].method)
  BY <1>1 DEF Inv, OpsOK, Operation
<1>3. /\ IsSuffix(Tail(op[o].left), op[o].run) /\ Len(Tail(op[o].left)) = Len(op[o].left) - 1
      /\ Len(op[o].left) \in Nat \ {0} /\ Len(op[o].run) \in Nat
      /\ Tail(op[o].left) \in Seq(Kinds)
      /\ (Tail(op[o].left) = <<>>) <=> (Len(op[o].left) = 1)
      /\ Len(op[o].run) - Len(Tail(op[o].left)) = (Len(op[o].run) - Len(op[o].left)) + 1
  BY <1>2, SuffixStep
<1>4. /\ op'[o].method = op[o].method /\ op'[o].run = op[o].run
      /\ op'[o].left = Tail(op[o].left)
      /\ op'[o].answer = IF Len(op[o].left) = 1 THEN "done" ELSE "none"
      /\ \A p \in Ops : p # o => op'[p] = op[p]
  BY <1>1 DEF Advances
<1>5. Passed(o)' = Passed(o) + 1
  <2>1. Passed(o)' = Len(op[o].run) - Len(Tail(op[o].left))
    BY <1>4 DEF Passed
  <2> QED
    BY <1>3, <2>1 DEF Passed
<1>6. SentBy(o)' = KindsOf(op[o].run, Passed(o) + 1) \cap Transactions
  <2>1. KindsOf(op[o].run, Passed(o) + 1) = KindsOf(op[o].run, Passed(o)) \cup {kind}
    BY <1>1, KindsStep
  <2>2. CASE kind \in Transactions
    <3>1. PICK to : sent' = sent \cup {[by |-> o, kind |-> kind, to |-> to]}
      BY <2>2 DEF Sends
    <3>2. PICK r : r.by = o /\ r.kind = kind /\ sent' = sent \cup {r}
      BY <3>1
    <3>3. {x \in sent' : x.by = o} = {x \in sent : x.by = o} \cup {r}
      BY <3>2
    <3>4. SentBy(o)' = SentBy(o) \cup {kind}
      BY <3>2, <3>3 DEF SentBy
    <3> QED
      BY <1>2, <2>1, <2>2, <3>4
  <2>3. CASE kind \notin Transactions
    BY <1>2, <2>1, <2>3 DEF Sends, SentBy
  <2> QED
    BY <2>2, <2>3
<1>7. ASSUME NEW p \in Ops, p # o
      PROVE  SentBy(p)' = SentBy(p) /\ \A t \in sent' : t.by = p => t \in sent
  <2>1. {x \in sent' : x.by = p} = {x \in sent : x.by = p}
    BY <1>7 DEF Sends
  <2> QED
    BY <2>1 DEF SentBy
<1>8. Len(op[o].left) = 1 => Passed(o) + 1 = Len(op[o].run)
  BY <1>3 DEF Passed
<1>9. OpsOK'
  <2> SUFFICES ASSUME NEW p \in Ops
               PROVE
        /\ op'[p].method = None =>
               op'[p].left = <<>> /\ op'[p].answer = "none" /\ \A t \in sent' : t.by # p
        /\ op'[p].method # None =>
               GoodRun(op'[p].run, op'[p].method)
               /\ (op'[p].left = <<>> => op'[p].answer # "none")
        /\ op'[p].left # <<>> =>
               /\ IsSuffix(op'[p].left, op'[p].run)
               /\ SentBy(p)' = KindsOf(op'[p].run, Passed(p)') \cap Transactions
        /\ op'[p].answer = "done" =>
               SentBy(p)' = KindsOf(op'[p].run, Len(op'[p].run)) \cap Transactions
    BY DEF OpsOK
  <2>1. CASE p = o
    BY <1>1, <1>2, <1>3, <1>4, <1>5, <1>3, <1>6, <1>8, <2>1
  <2>2. CASE p # o
    <3>1. op'[p] = op[p] /\ Passed(p)' = Passed(p)
      BY <1>4, <2>2 DEF Passed
    <3> QED
      BY <1>7, <2>2, <3>1 DEF Inv, OpsOK
  <2> QED
    BY <2>1, <2>2
<1> QED
  BY <1>1, <1>3, <1>4, <1>5, <1>9 DEF Inv, Types, TypeOK

LEMMA MintedGrows ==
    ASSUME Inv, sent \subseteq sent',
           \A p \in Ops : op[p].method # None => op'[p].signature = op[p].signature
    PROVE  Minted \subseteq Minted'
<1>1. \A t \in sent : t.by \in Ops /\ op[t.by].method # None
  BY DEF Inv, Types, OpsOK
<1> QED
  BY <1>1 DEF Minted

LEMMA TargetsStay ==
    ASSUME Inv, NEW t \in sent,
           \A p \in Ops : op[p].method # None =>
               op'[p].method = op[p].method /\ op'[p].registry = op[p].registry
    PROVE  Target(t)' = Target(t)
<1>1. \A x \in sent : x.by \in Ops /\ op[x.by].method # None
  BY DEF Inv, Types, OpsOK
<1> QED
  BY <1>1 DEF Target

\* A piece of that kind keeps what is known for an operation that is alone.
KeepsTrack(o, kind) ==
    /\ kind \in {"write", "create"} \/ (Writing(op[o].run, Passed(o)) /\ kind # "read") =>
           field' = o /\ op'[o].this = o /\ at'[o] = op[o].registry
    /\ kind = "read" \/ (Reading(op[o].run, Passed(o)) /\ kind \notin {"write", "create"}) =>
           field' = None
    /\ op[o].method # "createRegistryByToken" =>
           /\ Has(op[o].run, Passed(o), "create") \/ kind = "create" =>
                  coin' = CoinOf[op[o].registry]
           /\ Has(op[o].run, Passed(o), "approve") \/ kind = "approve" =>
                  op'[o].pays = CoinOf[op[o].registry]
    /\ op[o].method = "createRegistryByToken" =>
           (Has(op[o].run, Passed(o), "hypertoken") \/ kind = "hypertoken" =>
               op'[o].pays = Hypertoken)

LEMMA TrackedStep ==
    ASSUME Inv, NEW o \in Ops, op[o].left # <<>>, Advances(o), Passed(o)' = Passed(o) + 1,
           NEW kind, kind = Head(op[o].left), KeepsTrack(o, kind)
    PROVE  Tracked(o)'
<1> DEFINE n == Passed(o)
           run == op[o].run
<1>1. n \in Nat /\ run[n + 1] = kind
  BY Place
<1>2. /\ op'[o].run = run /\ op'[o].method = op[o].method
      /\ op'[o].registry = op[o].registry
  BY DEF Advances
<1>3. /\ Writing(run, n + 1) =>
             kind \in {"write", "create"} \/ (Writing(run, n) /\ kind # "read")
      /\ Reading(run, n + 1) =>
             kind = "read" \/ (Reading(run, n) /\ kind \notin {"write", "create"})
      /\ Has(run, n + 1, "create") <=> Has(run, n, "create") \/ kind = "create"
      /\ Has(run, n + 1, "approve") <=> Has(run, n, "approve") \/ kind = "approve"
      /\ Has(run, n + 1, "hypertoken") <=> Has(run, n, "hypertoken") \/ kind = "hypertoken"
  <2>1. Writing(run, n + 1) =>
            run[n + 1] \in {"write", "create"} \/ (Writing(run, n) /\ run[n + 1] # "read")
    BY <1>1, WritingStep
  <2>2. Reading(run, n + 1) =>
            run[n + 1] = "read" \/ (Reading(run, n) /\ run[n + 1] \notin {"write", "create"})
    BY <1>1, ReadingStep
  <2>3. \A x : Has(run, n + 1, x) <=> Has(run, n, x) \/ kind = x
    BY <1>1, HasStep
  <2> QED
    BY <1>1, <2>1, <2>2, <2>3
<1> HIDE DEF n, run
<1>4. /\ Writing(run, n + 1) => field' = o /\ op'[o].this = o /\ at'[o] = op[o].registry
      /\ Reading(run, n + 1) => field' = None
      /\ op[o].method # "createRegistryByToken" /\ Has(run, n + 1, "create")
             => coin' = CoinOf[op[o].registry]
      /\ op[o].method # "createRegistryByToken" /\ Has(run, n + 1, "approve")
             => op'[o].pays = CoinOf[op[o].registry]
      /\ op[o].method = "createRegistryByToken" /\ Has(run, n + 1, "hypertoken")
             => op'[o].pays = Hypertoken
  BY <1>3 DEF KeepsTrack, n, run
<1> QED
  BY <1>2, <1>4 DEF Tracked, n, run

LEMMA StoreStays ==
    ASSUME Inv, NEW o \in Ops, op[o].left # <<>>, Advances(o), sent \subseteq sent',
           op'[o].copy \in {op[o].copy, store}, store' = store
    PROVE  StoreOK'
<1>1. \A p \in Ops : op'[p].signature = op[p].signature
  BY DEF Advances
<1>2. Minted \subseteq Minted'
  BY <1>1, MintedGrows
<1>3. \A p \in Ops : op'[p].copy \in {op[p].copy, store}
  BY DEF Advances
<1> QED
  BY <1>2, <1>3 DEF Inv, StoreOK

\* A piece keeps the invariant when it keeps these parts of it.
LEMMA PieceInv ==
    ASSUME Inv, NEW o \in Ops, op[o].left # <<>>, Advances(o), Sends(o, Head(op[o].left)),
           overlapped' = overlapped, field' \in Ops \cup {None},
           at' \in [Ops -> Registries], coin' \in Coins, store' \subseteq Entry, StoreOK',
           o \in overlapped \/ Tracked(o)',
           \A t \in sent' \ sent :
               t.to \in Registries \cup Coins /\ (o \in overlapped \/ t.to = Target(t)')
    PROVE  Inv'
<1>1. /\ OpsOK' /\ \A p \in Ops : op'[p].left # <<>> => op'[p].answer = "none"
      /\ \A p \in Ops : op'[p].left # <<>> => op[p].left # <<>>
  BY AdvancesOps
<1>2. /\ op' \in [Ops -> Operation]
      /\ \A p \in Ops : p # o => op'[p] = op[p]
      /\ \A p \in Ops : op'[p].method = op[p].method /\ op'[p].registry = op[p].registry
  BY DEF Advances
<1>3. \A t \in sent' : t \in sent \/ (t.by = o /\ \E to : t = [by |-> o, kind |-> t.kind, to |-> to]
                                       /\ t.kind \in Transactions)
  BY DEF Sends
<1>4. sent' \subseteq [by : Ops, kind : Transactions, to : Registries \cup Coins]
  <2> SUFFICES ASSUME NEW t \in sent', t \notin sent
               PROVE  t \in [by : Ops, kind : Transactions, to : Registries \cup Coins]
    BY DEF Inv, Types
  <2>1. PICK to : t = [by |-> o, kind |-> t.kind, to |-> to] /\ t.kind \in Transactions
    BY <1>3
  <2>2. t.to = to
    BY <2>1
  <2> QED
    BY <2>1, <2>2
<1>5. ASSUME NEW p \in Ops PROVE
           /\ op'[p].registry \in Registries /\ op'[p].signature \in Signatures
           /\ op'[p].this \in Ops \cup {None} /\ op'[p].pays \in Coins
           /\ op'[p].copy \subseteq Entry
           /\ op'[p].answer \in {"none", "done", "error", "thrown"}
           /\ op'[p].left # <<>> => op'[p].answer = "none"
  <2>1. op'[p] \in Operation
    BY <1>2
  <2> QED
    BY <1>1, <2>1 DEF Operation
<1>6. TypeOK'
  BY <1>5 DEF Inv, Types, TypeOK, Coins
<1>7. Types'
  BY <1>2, <1>4, <1>6 DEF Types, Operation, Coins, Entry
<1>8. CompanyOK' /\ AloneOK'
  <2>1. InProgress' \subseteq InProgress
    BY <1>1 DEF InProgress
  <2>2. CompanyOK'
    BY <2>1 DEF Inv, CompanyOK
  <2>3. ASSUME NEW p \in InProgress', p \notin overlapped PROVE Tracked(p)'
    <3>1. p = o
      BY <2>1, <2>3 DEF Inv, CompanyOK, InProgress
    <3> QED
      BY <2>3, <3>1
  <2> QED
    BY <2>2, <2>3 DEF AloneOK
<1>9. AloneHitsItsTarget'
  <2> SUFFICES ASSUME NEW t \in sent' PROVE t.by \in overlapped \/ t.to = Target(t)'
    BY DEF AloneHitsItsTarget
  <2>1. CASE t \in sent
    <3>1. Target(t)' = Target(t)
      BY <1>2, <2>1, TargetsStay
    <3> QED
      BY <2>1, <3>1 DEF Inv, AloneHitsItsTarget
  <2>2. CASE t \notin sent
    BY <1>3, <2>2
  <2> QED
    BY <2>1, <2>2
<1> QED
  BY <1>1, <1>7, <1>8, <1>9 DEF Inv

LEMMA QuietPieceInv ==
    ASSUME Inv, NEW o \in Ops, op[o].left # <<>>, Advances(o),
           Head(op[o].left) \notin Transactions, sent' = sent,
           overlapped' = overlapped, field' \in Ops \cup {None},
           at' \in [Ops -> Registries], coin' \in Coins, store' \subseteq Entry, StoreOK',
           o \in overlapped \/ Tracked(o)'
    PROVE  Inv'
  BY PieceInv DEF Sends

\* A transaction goes where it should, if the operation is alone.
LEMMA SendingPieceInv ==
    ASSUME Inv, NEW o \in Ops, op[o].left # <<>>, Proceed(o),
           NEW kind \in Transactions, kind = Head(op[o].left),
           NEW to \in Registries \cup Coins,
           sent' = sent \cup {[by |-> o, kind |-> kind, to |-> to]},
           \/ o \in overlapped
           \/ to = IF kind = "pay"
                   THEN IF op[o].method = "createRegistryByToken" THEN Hypertoken
                        ELSE CoinOf[op[o].registry]
                   ELSE op[o].registry,
           UNCHANGED <<field, at, coin, store, overlapped>>
    PROVE  Inv'
<1>1. /\ Advances(o) /\ op'[o].this = op[o].this /\ op'[o].pays = op[o].pays
      /\ op'[o].copy = op[o].copy
  BY Proceeding
<1>2. op'[o].method = op[o].method /\ op'[o].registry = op[o].registry
  BY <1>1 DEF Advances
<1>3. Sends(o, Head(op[o].left))
  BY DEF Sends
<1>4. Passed(o)' = Passed(o) + 1
  BY <1>1, <1>3, AdvancesOps
<1>5. o \in overlapped \/ Tracked(o)'
  <2> SUFFICES ASSUME o \notin overlapped PROVE Tracked(o)'
    OBVIOUS
  <2>1. Tracked(o) /\ kind \notin {"write", "create", "read", "approve", "hypertoken"}
    BY Place DEF Transactions
  <2>9. KeepsTrack(o, kind)
    BY <1>1, <1>4, <2>1 DEF KeepsTrack, Tracked
  <2> QED
    BY <1>1, <1>4, <2>9, TrackedStep
<1>6. StoreOK'
  BY <1>1, StoreStays
<1>7. ASSUME NEW t \in sent' \ sent
      PROVE  t.to \in Registries \cup Coins /\ (o \in overlapped \/ t.to = Target(t)')
  <2>1. t.by = o /\ t.kind = kind /\ t.to = to
    OBVIOUS
  <2> QED
    BY <1>2, <2>1 DEF Target
<1>8. /\ field' \in Ops \cup {None} /\ at' \in [Ops -> Registries]
      /\ coin' \in Coins /\ store' \subseteq Entry
  BY DEF Inv, Types, TypeOK
<1> QED
  BY <1>1, <1>3, <1>5, <1>6, <1>7, <1>8, PieceInv

LEMMA ReadInv ==
    ASSUME Inv, NEW o \in Ops, MakeForReading(o)
    PROVE  Inv'
<1>1. op[o].left # <<>> /\ Head(op[o].left) = "read"
  BY DEF MakeForReading, AtPiece
<1>2. /\ Advances(o) /\ op'[o].this = None /\ op'[o].pays = op[o].pays
      /\ op'[o].copy = op[o].copy
  BY <1>1, Entering DEF MakeForReading
<1>3. /\ field' = None /\ at' = at /\ coin' = coin /\ sent' = sent /\ store' = store
      /\ overlapped' = overlapped
  BY DEF MakeForReading
<1>4. Passed(o)' = Passed(o) + 1
  BY <1>1, <1>2, <1>3, AdvancesOps DEF Sends, Transactions
<1>5. o \in overlapped \/ Tracked(o)'
  <2> SUFFICES ASSUME o \notin overlapped PROVE Tracked(o)'
    OBVIOUS
  <2>1. Tracked(o)
    BY <1>1, Place
  <2>9. KeepsTrack(o, "read")
    BY <1>1, <1>2, <1>3, <1>4, <2>1 DEF KeepsTrack, Tracked
  <2> QED
    BY <1>1, <1>2, <1>3, <1>4, <2>9, TrackedStep
<1>6. StoreOK'
  BY <1>1, <1>2, <1>3, StoreStays
<1>7. /\ field' \in Ops \cup {None} /\ at' \in [Ops -> Registries]
      /\ coin' \in Coins /\ store' \subseteq Entry
  BY <1>3 DEF Inv, Types, TypeOK
<1> QED
  BY <1>1, <1>2, <1>3, <1>5, <1>6, <1>7, QuietPieceInv DEF Transactions

LEMMA MovedAt ==
    ASSUME Inv, NEW object \in Ops \cup {None}, NEW r \in Registries
    PROVE  /\ Moved(object, r) \in [Ops -> Registries]
           /\ object # None => Moved(object, r)[object] = r
           /\ \A p \in Ops : p # object => Moved(object, r)[p] = at[p]
  BY DEF Inv, Types, TypeOK, Moved

LEMMA CallInv ==
    ASSUME Inv, NEW o \in Ops, CallField(o)
    PROVE  Inv'
<1>1. PICK kind \in {"list", "call"} :
          /\ AtPiece(o, kind)
          /\ at' = Moved(field, IF kind = "list" THEN ModulesNfr ELSE op[o].registry)
          /\ In(o, field)
          /\ UNCHANGED <<field, coin, sent, store, overlapped>>
  BY DEF CallField
<1>2. /\ op[o].left # <<>> /\ Head(op[o].left) = kind /\ field \in Ops \cup {None}
      /\ kind \notin Transactions
  BY <1>1 DEF AtPiece, Inv, Types, TypeOK, Transactions
<1>3. /\ Advances(o) /\ op'[o].this = field /\ op'[o].pays = op[o].pays
      /\ op'[o].copy = op[o].copy
  BY <1>1, <1>2, Entering
<1>4. op[o].registry \in Registries /\ None \notin Ops
  BY ClientAssumption DEF Inv, Types, TypeOK
<1>5. /\ at' \in [Ops -> Registries]
      /\ field # None /\ kind = "call" => at'[field] = op[o].registry
  BY <1>1, <1>2, <1>4, ClientAssumption, MovedAt
<1>6. Passed(o)' = Passed(o) + 1
  BY <1>1, <1>2, <1>3, AdvancesOps DEF Sends
<1>7. o \in overlapped \/ Tracked(o)'
  <2> SUFFICES ASSUME o \notin overlapped PROVE Tracked(o)'
    OBVIOUS
  <2>1. Tracked(o) /\ (kind = "list" => field = None)
    BY <1>2, Place DEF GoodPiece, Tracked
  <2>2. kind = "list" => ~Writing(op[o].run, Passed(o))
    BY <1>4, <2>1 DEF Tracked
  <2>9. KeepsTrack(o, kind)
    BY <1>1, <1>2, <1>3, <1>4, <1>5, <1>6, <2>1, <2>2 DEF KeepsTrack, Tracked
  <2> QED
    BY <1>1, <1>2, <1>3, <1>4, <1>5, <1>6, <2>9, TrackedStep
<1>8. StoreOK'
  BY <1>1, <1>2, <1>3, StoreStays
<1>9. field' \in Ops \cup {None} /\ coin' \in Coins /\ store' \subseteq Entry
  BY <1>1 DEF Inv, Types, TypeOK
<1> QED
  BY <1>1, <1>2, <1>3, <1>5, <1>7, <1>8, <1>9, QuietPieceInv

LEMMA WriteInv ==
    ASSUME Inv, NEW o \in Ops, MakeForWriting(o)
    PROVE  Inv'
<1>1. PICK kind \in {"write", "create"} :
          /\ AtPiece(o, kind)
          /\ field' = o /\ at' = Moved(o, op[o].registry) /\ In(o, o)
          /\ coin' = IF kind = "create" THEN CoinOf[op[o].registry] ELSE coin
          /\ UNCHANGED <<sent, store, overlapped>>
  BY DEF MakeForWriting
<1>2. /\ op[o].left # <<>> /\ Head(op[o].left) = kind /\ kind \notin Transactions
  BY <1>1 DEF AtPiece, Transactions
<1>3. /\ Advances(o) /\ op'[o].this = o /\ op'[o].pays = op[o].pays
      /\ op'[o].copy = op[o].copy
  BY <1>1, <1>2, Entering
<1>4. op[o].registry \in Registries /\ None \notin Ops
  BY ClientAssumption DEF Inv, Types, TypeOK
<1>5. at' \in [Ops -> Registries] /\ at'[o] = op[o].registry
  BY <1>1, <1>4, MovedAt
<1>6. Passed(o)' = Passed(o) + 1
  BY <1>1, <1>2, <1>3, AdvancesOps DEF Sends
<1>7. o \in overlapped \/ Tracked(o)'
  <2> SUFFICES ASSUME o \notin overlapped PROVE Tracked(o)'
    OBVIOUS
  <2>1. Tracked(o)
    BY <1>2, Place
  <2>9. KeepsTrack(o, kind)
    BY <1>1, <1>2, <1>3, <1>5, <1>6, <2>1 DEF KeepsTrack, Tracked
  <2> QED
    BY <1>1, <1>2, <1>3, <1>5, <1>6, <2>9, TrackedStep
<1>8. StoreOK'
  BY <1>1, <1>2, <1>3, StoreStays
<1>9. field' \in Ops \cup {None} /\ coin' \in Coins /\ store' \subseteq Entry
  BY <1>1, <1>4 DEF Inv, Types, TypeOK, Coins
<1> QED
  BY <1>1, <1>2, <1>3, <1>5, <1>7, <1>8, <1>9, QuietPieceInv

LEMMA AgainInv ==
    ASSUME Inv, NEW o \in Ops, CallAgain(o)
    PROVE  Inv'
<1>1. /\ op[o].left # <<>> /\ Head(op[o].left) = "again" /\ "again" \notin Transactions
      /\ at' = Moved(op[o].this, op[o].registry)
      /\ UNCHANGED <<field, coin, sent, store, overlapped>>
  BY DEF CallAgain, AtPiece, Transactions
<1>2. /\ Advances(o) /\ op'[o].this = op[o].this /\ op'[o].pays = op[o].pays
      /\ op'[o].copy = op[o].copy
  BY <1>1, Proceeding DEF CallAgain
<1>3. /\ op[o].registry \in Registries /\ op[o].this \in Ops \cup {None} /\ None \notin Ops
  BY ClientAssumption DEF Inv, Types, TypeOK
<1>4. at' \in [Ops -> Registries] /\ (op[o].this = o => at'[o] = op[o].registry)
  BY <1>1, <1>3, MovedAt
<1>5. Passed(o)' = Passed(o) + 1
  BY <1>1, <1>2, AdvancesOps DEF Sends
<1>6. o \in overlapped \/ Tracked(o)'
  <2> SUFFICES ASSUME o \notin overlapped PROVE Tracked(o)'
    OBVIOUS
  <2>1. Tracked(o)
    BY <1>1, Place
  <2>9. KeepsTrack(o, "again")
    BY <1>1, <1>2, <1>4, <1>5, <2>1 DEF KeepsTrack, Tracked
  <2> QED
    BY <1>1, <1>2, <1>4, <1>5, <2>9, TrackedStep
<1>7. StoreOK'
  BY <1>1, <1>2, StoreStays
<1>8. field' \in Ops \cup {None} /\ coin' \in Coins /\ store' \subseteq Entry
  BY <1>1 DEF Inv, Types, TypeOK
<1> QED
  BY <1>1, <1>2, <1>4, <1>6, <1>7, <1>8, QuietPieceInv

LEMMA CoinInv ==
    ASSUME Inv, NEW o \in Ops, UseHypertoken(o) \/ Approve(o)
    PROVE  Inv'
<1>1. CASE UseHypertoken(o)
  <2>1. /\ op[o].left # <<>> /\ Head(op[o].left) = "hypertoken"
        /\ "hypertoken" \notin Transactions /\ Hypertoken \in Coins /\ coin' = Hypertoken
        /\ UNCHANGED <<field, at, sent, store, overlapped>>
    BY <1>1 DEF UseHypertoken, AtPiece, Transactions, Coins
  <2>2. /\ Advances(o) /\ op'[o].this = op[o].this /\ op'[o].pays = Hypertoken
        /\ op'[o].copy = op[o].copy
    BY <1>1, <2>1, Paying DEF UseHypertoken
  <2>3. Passed(o)' = Passed(o) + 1
    BY <2>1, <2>2, AdvancesOps DEF Sends
  <2>4. o \in overlapped \/ Tracked(o)'
    <3> SUFFICES ASSUME o \notin overlapped PROVE Tracked(o)'
      OBVIOUS
    <3>1. Tracked(o) /\ op[o].method = "createRegistryByToken"
      BY <2>1, Place DEF GoodPiece
    <3>2. KeepsTrack(o, "hypertoken")
      BY <2>1, <2>2, <3>1 DEF KeepsTrack, Tracked
    <3> QED
      BY <2>1, <2>2, <2>3, <3>2, TrackedStep
  <2>5. StoreOK'
    BY <2>1, <2>2, StoreStays
  <2>6. /\ field' \in Ops \cup {None} /\ at' \in [Ops -> Registries]
        /\ store' \subseteq Entry
    BY <2>1 DEF Inv, Types, TypeOK
  <2> QED
    BY <2>1, <2>2, <2>4, <2>5, <2>6, QuietPieceInv
<1>2. CASE Approve(o)
  <2>1. /\ op[o].left # <<>> /\ Head(op[o].left) = "approve"
        /\ "approve" \notin Transactions /\ coin \in Coins
        /\ UNCHANGED <<field, at, coin, sent, store, overlapped>>
    BY <1>2 DEF Approve, AtPiece, Transactions, Inv, Types, TypeOK
  <2>2. /\ Advances(o) /\ op'[o].this = op[o].this /\ op'[o].pays = coin
        /\ op'[o].copy = op[o].copy
    BY <1>2, <2>1, Paying DEF Approve
  <2>3. Passed(o)' = Passed(o) + 1
    BY <2>1, <2>2, AdvancesOps DEF Sends
  <2>4. o \in overlapped \/ Tracked(o)'
    <3> SUFFICES ASSUME o \notin overlapped PROVE Tracked(o)'
      OBVIOUS
    <3>1. /\ Tracked(o) /\ op[o].method # "createRegistryByToken"
          /\ Has(op[o].run, Passed(o), "create")
      BY <2>1, Place DEF GoodPiece
    <3>2. KeepsTrack(o, "approve")
      BY <2>1, <2>2, <3>1 DEF KeepsTrack, Tracked
    <3> QED
      BY <2>1, <2>2, <2>3, <3>2, TrackedStep
  <2>5. StoreOK'
    BY <2>1, <2>2, StoreStays
  <2>6. /\ field' \in Ops \cup {None} /\ at' \in [Ops -> Registries]
        /\ store' \subseteq Entry
    BY <2>1 DEF Inv, Types, TypeOK
  <2> QED
    BY <2>1, <2>2, <2>4, <2>5, <2>6, QuietPieceInv
<1> QED
  BY <1>1, <1>2

LEMMA TransactionInv ==
    ASSUME Inv, NEW o \in Ops, Send(o) \/ Pay(o) \/ SendOfItsOwn(o) \/ LazyRegister(o)
    PROVE  Inv'
<1>1. op[o].left # <<>>
  BY DEF Send, Pay, SendOfItsOwn, LazyRegister, AtPiece
<1>2. /\ op[o].registry \in Registries /\ op[o].this \in Ops \cup {None}
      /\ op[o].pays \in Coins /\ at \in [Ops -> Registries]
      /\ (o \in overlapped \/ Tracked(o))
      /\ GoodPiece(op[o].run, Passed(o), Head(op[o].left), op[o].method)
  BY <1>1, Place DEF Inv, Types, TypeOK
<1>3. CASE Send(o)
  <2> DEFINE to == at[op[o].this]
  <2>1. /\ Head(op[o].left) = "send" /\ op[o].this # None
        /\ sent' = sent \cup {[by |-> o, kind |-> "send", to |-> to]}
        /\ Proceed(o) /\ UNCHANGED <<field, at, coin, store, overlapped>>
    BY <1>3 DEF Send, AtPiece
  <2>2. to \in Registries
    BY <1>2, <2>1
  <2>3. o \in overlapped \/ to = op[o].registry
    BY <1>2, <2>1 DEF Tracked, GoodPiece
  <2> HIDE DEF to
  <2> QED
    BY <1>1, <2>1, <2>2, <2>3, SendingPieceInv DEF Transactions
<1>4. CASE Pay(o)
  <2>1. /\ Head(op[o].left) = "pay"
        /\ sent' = sent \cup {[by |-> o, kind |-> "pay", to |-> op[o].pays]}
        /\ Proceed(o) /\ UNCHANGED <<field, at, coin, store, overlapped>>
    BY <1>4 DEF Pay, AtPiece
  <2>2. \/ o \in overlapped
        \/ op[o].pays = IF op[o].method = "createRegistryByToken" THEN Hypertoken
                        ELSE CoinOf[op[o].registry]
    BY <1>2, <2>1 DEF Tracked, GoodPiece
  <2> QED
    BY <1>1, <1>2, <2>1, <2>2, SendingPieceInv DEF Transactions
<1>5. CASE SendOfItsOwn(o)
  <2>1. PICK kind \in {"batch", "make"} :
            /\ AtPiece(o, kind)
            /\ sent' = sent \cup {[by |-> o, kind |-> kind, to |-> op[o].registry]}
            /\ Proceed(o) /\ UNCHANGED <<field, at, coin, store, overlapped>>
    BY <1>5 DEF SendOfItsOwn
  <2>2. Head(op[o].left) = kind /\ kind \in Transactions /\ kind # "pay"
    BY <2>1 DEF AtPiece, Transactions
  <2> QED
    BY <1>1, <1>2, <2>1, <2>2, SendingPieceInv
<1>6. CASE LazyRegister(o)
  <2>1. /\ Head(op[o].left) = "mint"
        /\ sent' = sent \cup {[by |-> o, kind |-> "mint", to |-> op[o].registry]}
        /\ Proceed(o) /\ UNCHANGED <<field, at, coin, store, overlapped>>
    BY <1>6 DEF LazyRegister, AtPiece
  <2> QED
    BY <1>1, <1>2, <2>1, SendingPieceInv DEF Transactions
<1> QED
  BY <1>3, <1>4, <1>5, <1>6

\* What a piece that touches only the store, or the copy, has to show.
LEMMA StorePieceInv ==
    ASSUME Inv, NEW o \in Ops, op[o].left # <<>>, Advances(o),
           Head(op[o].left) \in {"load", "claim", "drop"},
           op'[o].this = op[o].this, op'[o].pays = op[o].pays,
           UNCHANGED <<field, at, coin, sent, overlapped>>,
           store' \subseteq Entry, StoreOK'
    PROVE  Inv'
<1>1. Head(op[o].left) \notin Transactions
  BY DEF Transactions
<1>2. Passed(o)' = Passed(o) + 1
  BY <1>1, AdvancesOps DEF Sends
<1>3. o \in overlapped \/ Tracked(o)'
  <2> SUFFICES ASSUME o \notin overlapped PROVE Tracked(o)'
    OBVIOUS
  <2>1. Tracked(o)
    BY Place
  <2>2. KeepsTrack(o, Head(op[o].left))
    BY <2>1 DEF KeepsTrack, Tracked
  <2> QED
    BY <1>2, <2>2, TrackedStep
<1>4. field' \in Ops \cup {None} /\ at' \in [Ops -> Registries] /\ coin' \in Coins
  BY DEF Inv, Types, TypeOK
<1> QED
  BY <1>1, <1>3, <1>4, QuietPieceInv

LEMMA LoadInv ==
    ASSUME Inv, NEW o \in Ops, Load(o)
    PROVE  Inv'
<1>1. /\ op[o].left # <<>> /\ Head(op[o].left) = "load" /\ store \in SUBSET Entry
      /\ UNCHANGED <<field, at, coin, sent, store, overlapped>>
  BY DEF Load, AtPiece, Inv, Types, TypeOK
<1>2. /\ Advances(o) /\ op'[o].this = op[o].this /\ op'[o].pays = op[o].pays
      /\ op'[o].copy = store
  BY <1>1, Loading DEF Load
<1>3. StoreOK'
  BY <1>1, <1>2, StoreStays
<1> QED
  BY <1>1, <1>2, <1>3, StorePieceInv

\* A claim comes after the mint of the same operation; a drop claims nothing.
LEMMA WriteBackInv ==
    ASSUME Inv, NEW o \in Ops, Claim(o) \/ Drop(o)
    PROVE  Inv'
<1>1. /\ op[o].left # <<>> /\ Head(op[o].left) \in {"claim", "drop"} /\ Proceed(o)
      /\ UNCHANGED <<field, at, coin, sent, overlapped>>
      /\ op[o].copy \subseteq Entry
  BY DEF Claim, Drop, AtPiece, Inv, Types, TypeOK
<1>2. /\ Advances(o) /\ op'[o].this = op[o].this /\ op'[o].pays = op[o].pays
      /\ op'[o].copy = op[o].copy
  BY <1>1, Proceeding
<1>3. Minted \subseteq Minted'
  BY <1>1, <1>2, MintedGrows DEF Advances
<1>4. \A p \in Ops : op'[p].copy = op[p].copy
  BY <1>2 DEF Advances
<1>5. store' \subseteq Entry /\ \A e \in store' : e.claimed => e.signature \in Minted
  <2>1. CASE Drop(o)
    BY <1>1, <2>1 DEF Drop, Inv, StoreOK
  <2>2. CASE Claim(o)
    <3>1. /\ Head(op[o].left) = "claim"
          /\ store' = {[e EXCEPT !.claimed = @ \/ e.signature = op[o].signature] :
                           e \in op[o].copy}
      BY <2>2 DEF Claim, AtPiece
    <3>2. Has(op[o].run, Passed(o), "mint") /\ Passed(o) \in Nat
      BY <1>1, <3>1, Place DEF GoodPiece
    <3>3. "mint" \in SentBy(o)
      BY <1>1, <3>2 DEF Has, KindsOf, Inv, OpsOK, Transactions
    <3>4. op[o].signature \in Minted
      BY <3>3 DEF SentBy, Minted
    <3>5. ASSUME NEW e \in op[o].copy,
                 NEW f, f = [e EXCEPT !.claimed = @ \/ e.signature = op[o].signature]
          PROVE  f \in Entry /\ (f.claimed => f.signature \in Minted)
      <4>1. e \in [signature : Signatures, claimed : BOOLEAN]
        BY <1>1 DEF Entry
      <4>2. e.claimed => e.signature \in Minted
        BY DEF Inv, StoreOK
      <4>3. /\ f.signature = e.signature /\ f \in [signature : Signatures, claimed : BOOLEAN]
            /\ f.claimed = (e.claimed \/ e.signature = op[o].signature)
        BY <3>5, <4>1
      <4> QED
        BY <3>4, <4>2, <4>3 DEF Entry
    <3> QED
      BY <3>1, <3>5
  <2> QED
    BY <2>1, <2>2
<1>6. StoreOK'
  BY <1>3, <1>4, <1>5 DEF Inv, StoreOK
<1> QED
  BY <1>1, <1>2, <1>5, <1>6, StorePieceInv

\* An operation that ends with an error, or an exception, leaves everything as it is.
LEMMA GivenUpInv ==
    ASSUME Inv, NEW o \in Ops, op[o].left # <<>>, NEW reply \in {"error", "thrown"},
           op' = [op EXCEPT ![o].left = <<>>, ![o].answer = reply],
           UNCHANGED <<field, at, coin, sent, store, overlapped>>
    PROVE  Inv'
<1> DEFINE X == [op[o] EXCEPT !.left = <<>>, !.answer = reply]
<1>1. op \in [Ops -> Operation] /\ op[o] \in Operation /\ op[o].method # None
  BY Place DEF Inv, Types
<1>2. X \in Operation
  <2>1. <<>> \in Seq(Kinds)
    OBVIOUS
  <2> QED
    BY <1>1, <2>1 DEF Operation
<1>3. /\ X.method = op[o].method /\ X.registry = op[o].registry
      /\ X.signature = op[o].signature /\ X.run = op[o].run /\ X.left = <<>>
      /\ X.this = op[o].this /\ X.pays = op[o].pays /\ X.copy = op[o].copy
      /\ X.answer = reply
  BY <1>1 DEF Operation
<1>4. op'[o] = X /\ op' \in [Ops -> Operation] /\ \A p \in Ops : p # o => op'[p] = op[p]
  BY <1>1, <1>2
<1> HIDE DEF X
<1>5. \A p \in Ops : /\ op'[p].method = op[p].method /\ op'[p].registry = op[p].registry
                     /\ op'[p].signature = op[p].signature /\ op'[p].copy = op[p].copy
  BY <1>3, <1>4
<1>6. ASSUME NEW p \in Ops PROVE
           /\ op'[p].registry \in Registries /\ op'[p].signature \in Signatures
           /\ op'[p].this \in Ops \cup {None} /\ op'[p].pays \in Coins
           /\ op'[p].copy \subseteq Entry
           /\ op'[p].answer \in {"none", "done", "error", "thrown"}
           /\ op'[p].left # <<>> => op'[p].answer = "none"
  BY <1>3, <1>4 DEF Inv, Types, TypeOK
<1>7. Types'
  BY <1>4, <1>6 DEF Inv, Types, TypeOK, Operation, Coins, Entry
<1>8. OpsOK'
  <2>1. \A p \in Ops : SentBy(p)' = SentBy(p)
    BY DEF SentBy
  <2>2. \A p \in Ops : p # o => Passed(p)' = Passed(p)
    BY <1>4 DEF Passed
  <2> SUFFICES ASSUME NEW p \in Ops
               PROVE
        /\ op'[p].method = None =>
               op'[p].left = <<>> /\ op'[p].answer = "none" /\ \A t \in sent' : t.by # p
        /\ op'[p].method # None =>
               GoodRun(op'[p].run, op'[p].method)
               /\ (op'[p].left = <<>> => op'[p].answer # "none")
        /\ op'[p].left # <<>> =>
               /\ IsSuffix(op'[p].left, op'[p].run)
               /\ SentBy(p)' = KindsOf(op'[p].run, Passed(p)') \cap Transactions
        /\ op'[p].answer = "done" =>
               SentBy(p)' = KindsOf(op'[p].run, Len(op'[p].run)) \cap Transactions
    BY DEF OpsOK
  <2>3. CASE p = o
    BY <1>1, <1>3, <1>4, <2>3 DEF Inv, OpsOK
  <2>4. CASE p # o
    BY <1>4, <2>1, <2>2, <2>4 DEF Inv, OpsOK
  <2> QED
    BY <2>3, <2>4
<1>9. Minted' = Minted
  BY <1>5 DEF Minted, Inv, Types
<1>10. StoreOK'
  BY <1>5, <1>9 DEF Inv, StoreOK
<1>11. InProgress' \subseteq InProgress \ {o}
  BY <1>3, <1>4 DEF InProgress
<1>12. CompanyOK'
  BY <1>11 DEF Inv, CompanyOK
<1>13. AloneOK'
  <2> SUFFICES ASSUME NEW p \in InProgress', p \notin overlapped PROVE Tracked(p)'
    BY DEF AloneOK
  <2>1. p \in Ops /\ p # o /\ op'[p] = op[p] /\ Tracked(p)
    BY <1>4, <1>11 DEF Inv, AloneOK, InProgress
  <2>2. Passed(p)' = Passed(p)
    BY <2>1 DEF Passed
  <2> QED
    BY <2>1, <2>2 DEF Tracked
<1>14. AloneHitsItsTarget'
  <2>1. \A t \in sent : Target(t)' = Target(t)
    BY <1>5, TargetsStay
  <2> QED
    BY <2>1 DEF Inv, AloneHitsItsTarget
<1> QED
  BY <1>7, <1>8, <1>10, <1>12, <1>13, <1>14 DEF Inv

LEMMA StartInv ==
    ASSUME Inv, NEW o \in Ops, NEW m \in Methods, NEW r \in Registries, NEW s \in Signatures,
           Start(o, m, r, s)
    PROVE  Inv'
<1>1. PICK run \in Runs(r)[m] :
          op' = [op EXCEPT ![o] = [Idle EXCEPT
              !.method = m, !.registry = r, !.signature = s, !.run = run, !.left = run]]
  BY DEF Start
<1>2. /\ op[o].method = None /\ op[o].left = <<>> /\ \A t \in sent : t.by # o
      /\ op \in [Ops -> Operation] /\ UNCHANGED <<field, at, coin, sent, store>>
  BY DEF Start, Inv, Types, OpsOK
<1>3. /\ GoodRun(run, m) /\ run \in Seq(Kinds) /\ run # <<>> /\ m # None
      /\ Len(run) \in Nat
  BY MethodsAssumption, RunsAreGood DEF GoodRun
<1> DEFINE X == [Idle EXCEPT
              !.method = m, !.registry = r, !.signature = s, !.run = run, !.left = run]
<1>4. /\ X.method = m /\ X.registry = r /\ X.signature = s /\ X.run = run /\ X.left = run
      /\ X.this = None /\ X.pays = None /\ X.copy = {} /\ X.answer = "none"
  BY DEF Idle
<1>5. X \in Operation
  BY <1>3 DEF Idle, Operation, Coins, Entry
<1>6. op'[o] = X /\ op' \in [Ops -> Operation] /\ \A p \in Ops : p # o => op'[p] = op[p]
  BY <1>1, <1>2, <1>5
<1> HIDE DEF X
<1>7. \A p \in Ops : op[p].method # None =>
          /\ op'[p].method = op[p].method /\ op'[p].registry = op[p].registry
          /\ op'[p].signature = op[p].signature
  BY <1>2, <1>6
<1>8. overlapped \subseteq overlapped' /\ overlapped' \subseteq Ops
  BY DEF Start, Inv, Types, TypeOK, InProgress
<1>9. ASSUME NEW p \in Ops PROVE
           /\ op'[p].registry \in Registries /\ op'[p].signature \in Signatures
           /\ op'[p].this \in Ops \cup {None} /\ op'[p].pays \in Coins
           /\ op'[p].copy \subseteq Entry
           /\ op'[p].answer \in {"none", "done", "error", "thrown"}
           /\ op'[p].left # <<>> => op'[p].answer = "none"
  BY <1>4, <1>6 DEF Inv, Types, TypeOK, Coins
<1>10. Types'
  BY <1>2, <1>6, <1>8, <1>9 DEF Inv, Types, TypeOK, Operation, Coins, Entry
<1>11. OpsOK'
  <2>1. \A p \in Ops : SentBy(p)' = SentBy(p)
    BY <1>2 DEF SentBy
  <2>2. \A p \in Ops : p # o => Passed(p)' = Passed(p)
    BY <1>6 DEF Passed
  <2>3. Passed(o)' = 0
    BY <1>3, <1>4, <1>6 DEF Passed
  <2>4. SentBy(o) = {} /\ KindsOf(run, 0) = {}
    BY <1>2 DEF SentBy, KindsOf
  <2>5. IsSuffix(run, run)
    BY <1>3 DEF IsSuffix
  <2> SUFFICES ASSUME NEW p \in Ops
               PROVE
        /\ op'[p].method = None =>
               op'[p].left = <<>> /\ op'[p].answer = "none" /\ \A t \in sent' : t.by # p
        /\ op'[p].method # None =>
               GoodRun(op'[p].run, op'[p].method)
               /\ (op'[p].left = <<>> => op'[p].answer # "none")
        /\ op'[p].left # <<>> =>
               /\ IsSuffix(op'[p].left, op'[p].run)
               /\ SentBy(p)' = KindsOf(op'[p].run, Passed(p)') \cap Transactions
        /\ op'[p].answer = "done" =>
               SentBy(p)' = KindsOf(op'[p].run, Len(op'[p].run)) \cap Transactions
    BY DEF OpsOK
  <2>6. CASE p = o
    BY <1>3, <1>4, <1>6, <2>1, <2>3, <2>4, <2>5, <2>6
  <2>7. CASE p # o
    BY <1>2, <1>6, <2>1, <2>2, <2>7 DEF Inv, OpsOK
  <2> QED
    BY <2>6, <2>7
<1>12. StoreOK'
  <2>1. Minted \subseteq Minted'
    BY <1>2, <1>7, MintedGrows
  <2>2. \A p \in Ops : op'[p].copy = op[p].copy \/ op'[p].copy = {}
    BY <1>4, <1>6
  <2> QED
    BY <1>2, <2>1, <2>2 DEF Inv, StoreOK
<1>13. InProgress' = InProgress \cup {o} /\ o \notin InProgress
  BY <1>2, <1>3, <1>4, <1>6 DEF InProgress
<1>14. CompanyOK'
  BY <1>13 DEF Inv, CompanyOK, Start
<1>15. AloneOK'
  <2> SUFFICES ASSUME NEW p \in InProgress', p \notin overlapped' PROVE Tracked(p)'
    BY DEF AloneOK
  <2>1. p = o
    BY <1>13 DEF Start
  <2>2. Passed(o)' = 0
    BY <1>3, <1>4, <1>6 DEF Passed
  <2>3. ~Writing(run, 0) /\ ~Reading(run, 0) /\ \A x : ~Has(run, 0, x)
    BY DEF Writing, Reading, Has
  <2> QED
    BY <1>4, <1>6, <2>1, <2>2, <2>3 DEF Tracked
<1>16. AloneHitsItsTarget'
  <2>1. \A t \in sent : Target(t)' = Target(t)
    BY <1>7, TargetsStay
  <2> QED
    BY <1>2, <1>8, <2>1 DEF Inv, AloneHitsItsTarget
<1> QED
  BY <1>10, <1>11, <1>12, <1>14, <1>15, <1>16 DEF Inv

LEMMA InitInv == Init => Inv
<1> SUFFICES ASSUME Init PROVE Inv
  OBVIOUS
<1>1. /\ Idle \in Operation /\ Idle.method = None /\ Idle.left = <<>> /\ Idle.copy = {}
      /\ Idle.answer = "none" /\ \A o \in Ops : op[o] = Idle
      /\ Idle.registry = ModulesNfr /\ Idle.this = None /\ Idle.pays = None
      /\ Idle.signature \in Signatures
  <2>1. (CHOOSE s \in Signatures : TRUE) \in Signatures
    BY ClientAssumption
  <2>2. <<>> \in Seq(Kinds)
    OBVIOUS
  <2> QED
    BY <2>1, <2>2, ClientAssumption DEF Init, Idle, Operation, Coins
<1>2. Types
  BY <1>1, ClientAssumption DEF Init, Types, TypeOK, Coins, Entry
<1>3. OpsOK /\ StoreOK /\ AloneHitsItsTarget
  BY <1>1 DEF Init, OpsOK, StoreOK, AloneHitsItsTarget
<1>4. InProgress = {}
  BY <1>1 DEF InProgress
<1> QED
  BY <1>2, <1>3, <1>4 DEF Inv, CompanyOK, AloneOK

\* The operations keep the invariant, in any order of their pieces.
THEOREM ClientStaysSound == Spec => []Inv
<1>1. Inv /\ [Next]_vars => Inv'
  <2> SUFFICES ASSUME Inv, [Next]_vars PROVE Inv'
    OBVIOUS
  <2>1. CASE Next
    <3>1. PICK o \in Ops :
              \/ \E m \in Methods, r \in Registries, s \in Signatures : Start(o, m, r, s)
              \/ Piece(o) \/ Fail(o)
      BY <2>1 DEF Next
    <3>2. CASE \E m \in Methods, r \in Registries, s \in Signatures : Start(o, m, r, s)
      BY <3>2, StartInv
    <3>3. CASE Fail(o)
      BY <3>3, GivenUpInv DEF Fail
    <3>4. CASE Throw(o)
      BY <3>4, GivenUpInv DEF Throw, AtPiece
    <3>5. CASE MakeForReading(o) \/ CallField(o) \/ MakeForWriting(o) \/ CallAgain(o)
      BY <3>5, ReadInv, CallInv, WriteInv, AgainInv
    <3>6. CASE UseHypertoken(o) \/ Approve(o)
      BY <3>6, CoinInv
    <3>7. CASE Send(o) \/ Pay(o) \/ SendOfItsOwn(o) \/ LazyRegister(o)
      BY <3>7, TransactionInv
    <3>8. CASE Load(o) \/ Claim(o) \/ Drop(o)
      BY <3>8, LoadInv, WriteBackInv
    <3> QED
      BY <3>1, <3>2, <3>3, <3>4, <3>5, <3>6, <3>7, <3>8 DEF Piece
  <2>2. CASE UNCHANGED vars
    <3>1. UNCHANGED <<field, at, coin, op, sent, store, overlapped>>
      BY <2>2 DEF vars
    <3>2. /\ Types' = Types /\ OpsOK' = OpsOK /\ StoreOK' = StoreOK
      BY <3>1 DEF Types, TypeOK, OpsOK, StoreOK, Minted, SentBy, Passed
    <3>3. CompanyOK' = CompanyOK /\ AloneOK' = AloneOK
      BY <3>1 DEF CompanyOK, AloneOK, InProgress, Tracked, Passed
    <3>4. AloneHitsItsTarget' = AloneHitsItsTarget
      BY <3>1 DEF AloneHitsItsTarget, Target
    <3> QED
      BY <3>2, <3>3, <3>4 DEF Inv
  <2> QED
    BY <2>1, <2>2
<1> QED
  BY InitInv, <1>1, PTL DEF Spec

\* The shared fields and the operations have their types (RegistryRepository).
THEOREM ClientTypes == Spec => []TypeOK
<1>1. Inv => TypeOK
  BY DEF Inv, Types
<1> QED
  BY <1>1, ClientStaysSound, PTL

\* As long as an operation is alone, it writes to its registry and approves its
\* coin: the objects that earlier operations left behind in the shared fields of
\* RegistryRepository mislead no later one.
THEOREM AloneStaysRight == Spec => []AloneHitsItsTarget
<1>1. Inv => AloneHitsItsTarget
  BY DEF Inv
<1> QED
  BY <1>1, ClientStaysSound, PTL

\* An operation that reports success has sent each transaction of its method.
THEOREM DoneStaysWritten == Spec => []DoneIsWritten
<1>1. Inv => DoneIsWritten
  <2> SUFFICES ASSUME Inv, NEW o \in Ops, op[o].answer = "done"
               PROVE  {t.kind : t \in {x \in sent : x.by = o}}
                          = {op[o].run[k] : k \in DOMAIN op[o].run} \cap Transactions
    BY DEF DoneIsWritten
  <2>1. op[o].run \in Seq(Kinds)
    BY DEF Inv, Types, Operation
  <2>2. DOMAIN op[o].run = 1..Len(op[o].run)
    BY <2>1
  <2> QED
    BY <2>2 DEF Inv, OpsOK, SentBy, KindsOf
<1> QED
  BY <1>1, ClientStaysSound, PTL

\* A signature marked as claimed has been used to mint: updateLazyMintingSignature-
\* TokenClaimed comes after the mint, and what it writes back is no newer than that.
THEOREM ClaimedStaysMinted == Spec => []ClaimedIsMinted
<1>1. Inv => ClaimedIsMinted
  BY DEF Inv, StoreOK, ClaimedIsMinted
<1> QED
  BY <1>1, ClientStaysSound, PTL
=============================================================================
