------------------------- MODULE RemoteCore_proofs -------------------------
(***************************************************************************)
(* The core in its iframe keeps its types, and no piece of a call is       *)
(* without the provider that it needs, for any number of calls that        *)
(* overlap in any way, any chains, and whatever the page asks for.         *)
(*                                                                         *)
(* What a thread has left of its method says what it has behind it: the    *)
(* pieces of BlockchainProvider come in their order (Linked), and those    *)
(* that need the provider come after the context got a chain with one      *)
(* (Covered). That is shown of the methods (GoodRun), stays so of every    *)
(* rest, and steps of other threads spoil nothing: a chain that has a      *)
(* provider keeps it, and a context only gets such chains (Drift).         *)
(*                                                                         *)
(* An initialization that is alone in the core does what it says: what a   *)
(* thread has behind it has its effect (Effect), and the threads beside it *)
(* aim at the same chain and spoil none (Steady). That is shown last, by a *)
(* second invariant, of the calls that nothing has overlapped (AloneInv).  *)
(***************************************************************************)
EXTENDS RemoteCore, SequenceTheorems, TLAPS

Pieces == {"provider", "choose", "connect", "key", "main", "context", "switch", "signer",
    "listen", "registries", "names", "waitForNames", "registriesDone", "governance",
    "governanceDone", "payments", "accounts", "node", "ids", "listeners", "paymentsDone",
    "forkRest", "forkDone", "join", "initialized", "channel", "waitAny", "waitRegistries",
    "waitGovernance", "waitPayments", "useRegistry", "useGovernance", "useProvider",
    "useNode", "useNames", "useGateways", "throw", "answer"}

\* The pieces that only run right after another one.
FollowedBy == [provider |-> "choose", choose |-> "connect", connect |-> "key", key |-> "main",
               main |-> "context", switch |-> "signer"]
Before == [choose |-> "provider", connect |-> "choose", key |-> "connect", main |-> "key",
           context |-> "main", channel |-> "initialized"]
Middle == {"choose", "connect", "key", "main", "context"}

Linked(s) ==
    \A i \in 1..Len(s) :
        /\ s[i] \in DOMAIN FollowedBy => i + 1 <= Len(s) /\ s[i + 1] = FollowedBy[s[i]]
        /\ s[i] \in DOMAIN Before /\ i # 1 => s[i - 1] = Before[s[i]]

\* Pieces of a method that come after one of another kind.
Covered(s, pieces, cover) ==
    \A i \in 1..Len(s) : s[i] \in pieces => \E j \in 1..(i - 1) : s[j] = cover

\* Those that need the provider; and those that go back to the context around.
Needing == {"listen", "registries", "names", "registriesDone", "governance", "governanceDone",
            "payments", "accounts", "ids", "listeners", "paymentsDone"}
Homing == {"accounts", "ids", "listeners", "paymentsDone"}

Forks == {"forkRest", "forkDone"}
Forking(s) == \E i \in 1..Len(s) : s[i] \in Forks
ForksOnce(s) == \A i, j \in 1..Len(s) : s[i] \in Forks /\ s[j] \in Forks => i = j

ThreadType ==
    [left : Seq(Pieces), asked : Chains \cup {None}, g : Chains, captured : Contexts,
     outer : Contexts, home : Chains, ended : Ends]

\* The chain of a thread in BlockchainProvider; of its context, and of the one around.
MiddleOK(th) == IF th.asked = None THEN chainOf[th.captured] \in ready \cup {th.g}
                ELSE th.g = th.asked
CapturedOK(th) == HasProvider /\ chainOf[th.captured] \in ready
OuterOK(th) == chainOf[th.outer] \in ready

\* What is known of a thread, by the pieces that it has left.
ThreadInv(th) ==
    /\ th \in ThreadType
    /\ Linked(th.left) /\ ForksOnce(th.left)
    /\ chainOf[th.captured] # None /\ chainOf[th.outer] # None
    /\ th.left # <<>> =>
          /\ th.ended = "none"
          /\ Head(th.left) \in Middle => MiddleOK(th)
          /\ Head(th.left) = "context" => th.g \in ready
          /\ Head(th.left) = "channel" => chainOf["initialized"] # None
    /\ ~Covered(th.left, Needing, "context") => CapturedOK(th)
    /\ ~Covered(th.left, Homing, "payments") => OuterOK(th)

\* The variables of the core.
StateInv ==
    /\ wallet \in Chains
    /\ modal \in {None, "injected", "walletconnect"}
    /\ provider \in Providers /\ metamask \in BOOLEAN /\ ready \subseteq Chains
    /\ governanceProvider \in Chains \cup {"main", None} /\ governanceSigner \in Providers
    /\ ready # {} => governanceProvider \in Chains \cup {"main"}
    /\ chainOf \in [Contexts -> Chains \cup {None}] /\ context \in Contexts
    /\ chainOf["context"] # None /\ chainOf["initialized"] \in ready \cup {None}
    /\ Chain # None
    /\ registry \in Contract \cup {None} /\ governance \in Contract \cup {None}
    /\ names \in Chains \cup {None}
    /\ account \in BOOLEAN /\ node \in {"none", "starting", "started", "failed"}
    /\ done \in [Kinds -> SUBSET Chains] /\ listeners \in 0..MaxListeners

\* Who is asked is where the answer takes it on.
AskInv ==
    /\ asker # None => asker \in Threads /\ At(asker, "choose")
    /\ keyAsker # None => keyAsker \in Threads /\ At(keyAsker, "key")

\* The threads of a call's parts are free until it forks, and do not fork themselves.
ForkInv ==
    \A c \in Calls, k \in Kinds :
        /\ ~Forking(thread[<<c, k>>].left)
        /\ Forking(thread[<<c, "call">>].left) => thread[<<c, k>>].left = <<>>

CoreInv ==
    /\ StateInv /\ AskInv /\ ForkInv
    /\ thread \in [Threads -> ThreadType]
    /\ \A t \in Threads : ThreadInv(thread[t])

\* A call that the core has not received has no thread, and comes once.
Fresh(calls, c) == calls[c].state \in {"none", "sent"}

Untouched(calls, threads) ==
    \A c \in Calls, x \in Kinds \cup {"call"} : Fresh(calls, c) => threads[<<c, x>>] = Idle

Queued(queue, calls) ==
    /\ queue \in Seq(Calls)
    /\ \A i \in 1..Len(queue) : calls[queue[i]].state = "sent"
    /\ \A i, j \in 1..Len(queue) : queue[i] = queue[j] => i = j

Messages == [call : Calls \cup {None}, end : Kinds \cup {"any", "done", "error"}]

Message(message, calls) ==
    /\ message \in Messages
    /\ IF message.call = None THEN message.end \in Kinds \cup {"any"}
       ELSE ~Fresh(calls, message.call) /\ message.end \in {"done", "error"}

Told(messages, calls) ==
    /\ messages \in Seq(Messages)
    /\ \A i \in 1..Len(messages) : Message(messages[i], calls)

Page == [Calls -> [method : STRING \cup {"none"}, chain : Chains \cup {None}, state : States]]

PageInv ==
    /\ active \in {"no", "yes", "failed"} /\ flags \subseteq Kinds \cup {"any"}
    /\ scene \in Scenes /\ overlapped \subseteq Calls
    /\ page \in Page /\ Queued(toCore, page) /\ Told(toPage, page) /\ Untouched(page, thread)

-----------------------------------------------------------------------------
(* Sequences of pieces: what is left of one, and one after another.        *)

Rest(s, k) == SubSeq(s, k, Len(s))

LEMMA FirstPiece ==
    ASSUME NEW s \in Seq(Pieces), s # <<>>
    PROVE  Head(s) = s[1] /\ Len(s) \in Nat /\ Len(s) >= 1 /\ 1 \in 1..Len(s)
<1>1. Len(s) \in Nat \ {0}
  BY EmptySeq
<1>. QED
  BY <1>1

LEMMA RestIs ==
    ASSUME NEW s \in Seq(Pieces), NEW k \in 1..Len(s)
    PROVE  /\ Rest(s, k) \in Seq(Pieces) /\ Rest(s, k) # <<>>
           /\ Len(s) \in Nat /\ Len(Rest(s, k)) = Len(s) - k + 1
           /\ \A i \in 1..Len(Rest(s, k)) :
                 i + k - 1 \in 1..Len(s) /\ Rest(s, k)[i] = s[i + k - 1]
           /\ Head(Rest(s, k)) = s[k]
<1>1. Len(s) \in Nat /\ \A i \in k..Len(s) : s[i] \in Pieces
  BY LenProperties, ElementOfSeq
<1>2. /\ Rest(s, k) \in Seq(Pieces)
      /\ Len(Rest(s, k)) = Len(s) - k + 1
      /\ \A i \in 1..(Len(s) - k + 1) : Rest(s, k)[i] = s[k + i - 1]
  BY <1>1, SubSeqProperties DEF Rest
<1>3. Rest(s, k) # <<>>
  BY <1>1, <1>2, EmptySeq
<1>4. Head(Rest(s, k)) = s[k]
  BY <1>1, <1>2, <1>3, FirstPiece
<1>. QED
  BY <1>1, <1>2, <1>3, <1>4

LEMMA RestLinked ==
    ASSUME NEW s \in Seq(Pieces), NEW k \in 1..Len(s), Linked(s)
    PROVE  Linked(Rest(s, k))
<1>. DEFINE r == Rest(s, k)
<1>. SUFFICES ASSUME NEW i \in 1..Len(r)
              PROVE  /\ r[i] \in DOMAIN FollowedBy => i + 1 <= Len(r) /\ r[i + 1] = FollowedBy[r[i]]
                     /\ r[i] \in DOMAIN Before /\ i # 1 => r[i - 1] = Before[r[i]]
  BY DEF Linked
<1>1. /\ Len(s) \in Nat /\ Len(r) = Len(s) - k + 1
      /\ \A j \in 1..Len(r) : j + k - 1 \in 1..Len(s) /\ r[j] = s[j + k - 1]
  BY RestIs
<1>. HIDE DEF r
<1>. DEFINE n == i + k - 1
<1>2. n \in 1..Len(s) /\ r[i] = s[n]
  BY <1>1
<1>3. /\ s[n] \in DOMAIN FollowedBy => n + 1 <= Len(s) /\ s[n + 1] = FollowedBy[s[n]]
      /\ s[n] \in DOMAIN Before /\ n # 1 => s[n - 1] = Before[s[n]]
  BY <1>2 DEF Linked
<1>4. n + 1 <= Len(s) => i + 1 <= Len(r) /\ r[i + 1] = s[n + 1]
  <2>1. n + 1 <= Len(s) => i + 1 \in 1..Len(r)
    BY <1>1
  <2>2. i + 1 \in 1..Len(r) => r[i + 1] = s[(i + 1) + k - 1]
    BY <1>1
  <2>3. (i + 1) + k - 1 = n + 1
    BY <1>1
  <2>. QED
    BY <1>1, <2>1, <2>2, <2>3
<1>5. i # 1 => n # 1 /\ r[i - 1] = s[n - 1]
  <2>1. i # 1 => i - 1 \in 1..Len(r) /\ n # 1
    BY <1>1
  <2>2. i - 1 \in 1..Len(r) => r[i - 1] = s[(i - 1) + k - 1]
    BY <1>1
  <2>3. (i - 1) + k - 1 = n - 1
    BY <1>1
  <2>. QED
    BY <2>1, <2>2, <2>3
<1>. QED
  BY <1>2, <1>3, <1>4, <1>5

\* What is uncovered in the rest was so before, unless the cover is gone.
LEMMA RestCovered ==
    ASSUME NEW s \in Seq(Pieces), NEW k \in 1..Len(s), NEW pieces, NEW cover,
           Covered(s, pieces, cover), \A j \in 1..(k - 1) : s[j] # cover
    PROVE  Covered(Rest(s, k), pieces, cover)
<1>. DEFINE r == Rest(s, k)
<1>. SUFFICES ASSUME NEW i \in 1..Len(r), r[i] \in pieces
              PROVE  \E j \in 1..(i - 1) : r[j] = cover
  BY DEF Covered
<1>1. /\ Len(s) \in Nat /\ Len(r) = Len(s) - k + 1
      /\ \A j \in 1..Len(r) : j + k - 1 \in 1..Len(s) /\ r[j] = s[j + k - 1]
  BY RestIs
<1>. HIDE DEF r
<1>2. PICK m \in 1..(i + k - 1 - 1) : s[m] = cover
  <2>1. i + k - 1 \in 1..Len(s) /\ s[i + k - 1] \in pieces
    BY <1>1
  <2>. QED
    BY <2>1 DEF Covered
<1>3. m >= k
  BY <1>1, <1>2
<1>. DEFINE j == m - k + 1
<1>4. j \in 1..(i - 1) /\ j \in 1..Len(r) /\ j + k - 1 = m
  BY <1>1, <1>2, <1>3
<1>5. r[j] = s[j + k - 1]
  BY <1>1, <1>4
<1>. QED
  BY <1>2, <1>4, <1>5

LEMMA RestForks ==
    ASSUME NEW s \in Seq(Pieces), NEW k \in 1..Len(s)
    PROVE  /\ Forking(Rest(s, k)) => Forking(s)
           /\ ForksOnce(s) => ForksOnce(Rest(s, k))
           /\ ForksOnce(s) /\ (\E j \in 1..(k - 1) : s[j] \in Forks) => ~Forking(Rest(s, k))
<1>. DEFINE r == Rest(s, k)
<1>1. /\ Len(s) \in Nat /\ Len(r) = Len(s) - k + 1
      /\ \A j \in 1..Len(r) : j + k - 1 \in 1..Len(s) /\ r[j] = s[j + k - 1]
  BY RestIs
<1>. HIDE DEF r
<1>2. Forking(r) => Forking(s)
  BY <1>1 DEF Forking
<1>3. ASSUME ForksOnce(s) PROVE ForksOnce(r)
  <2>. SUFFICES ASSUME NEW i \in 1..Len(r), NEW j \in 1..Len(r), r[i] \in Forks, r[j] \in Forks
                PROVE  i = j
    BY DEF ForksOnce
  <2>1. i + k - 1 = j + k - 1
    BY <1>1, <1>3 DEF ForksOnce
  <2>. QED
    BY <1>1, <2>1
<1>4. ASSUME ForksOnce(s), NEW j \in 1..(k - 1), s[j] \in Forks, Forking(r) PROVE FALSE
  <2>1. PICK i \in 1..Len(r) : r[i] \in Forks
    BY <1>4 DEF Forking
  <2>2. i + k - 1 \in 1..Len(s) /\ s[i + k - 1] \in Forks /\ j \in 1..Len(s)
    BY <1>1, <2>1
  <2>3. i + k - 1 = j
    BY <1>4, <2>2 DEF ForksOnce
  <2>. QED
    BY <1>1, <2>3
<1>. QED
  BY <1>2, <1>3, <1>4 DEF r

\* What comes after the first pieces must not begin with one that follows another.
Opens(s) == Len(s) > 0 /\ s[1] \notin DOMAIN Before

LEMMA ConcatLinked ==
    ASSUME NEW s \in Seq(Pieces), NEW t \in Seq(Pieces), Linked(s), Linked(t), Opens(t)
    PROVE  Linked(s \o t)
<1>. DEFINE u == s \o t
            m == Len(s)
<1>1. /\ m \in Nat /\ Len(t) \in Nat /\ Len(u) = m + Len(t)
      /\ \A i \in 1..(m + Len(t)) : u[i] = IF i <= m THEN s[i] ELSE t[i - m]
  BY ConcatProperties, LenProperties
<1>. HIDE DEF u, m
<1>. SUFFICES ASSUME NEW i \in 1..(m + Len(t))
              PROVE  /\ u[i] \in DOMAIN FollowedBy => i + 1 <= m + Len(t) /\ u[i + 1] = FollowedBy[u[i]]
                     /\ u[i] \in DOMAIN Before /\ i # 1 => u[i - 1] = Before[u[i]]
  BY <1>1 DEF Linked, u
<1>2. CASE i <= m
  <2>1. i \in 1..m /\ u[i] = s[i]
    BY <1>1, <1>2
  <2>2. /\ s[i] \in DOMAIN FollowedBy => i + 1 <= m /\ s[i + 1] = FollowedBy[s[i]]
        /\ s[i] \in DOMAIN Before /\ i # 1 => s[i - 1] = Before[s[i]]
    BY <2>1 DEF Linked, m
  <2>3. i + 1 <= m => i + 1 \in 1..(m + Len(t)) /\ u[i + 1] = s[i + 1]
    BY <1>1, <2>1
  <2>4. i # 1 => u[i - 1] = s[i - 1]
    BY <1>1, <2>1
  <2>. QED
    BY <1>1, <2>1, <2>2, <2>3, <2>4
<1>3. CASE i > m
  <2>. DEFINE n == i - m
  <2>1. n \in 1..Len(t) /\ u[i] = t[n]
    BY <1>1, <1>3
  <2>2. /\ t[n] \in DOMAIN FollowedBy => n + 1 <= Len(t) /\ t[n + 1] = FollowedBy[t[n]]
        /\ t[n] \in DOMAIN Before /\ n # 1 => t[n - 1] = Before[t[n]]
    BY <2>1 DEF Linked
  <2>3. n + 1 <= Len(t) => i + 1 <= m + Len(t) /\ u[i + 1] = t[n + 1]
    <3>1. n + 1 <= Len(t) => i + 1 \in 1..(m + Len(t)) /\ ~(i + 1 <= m) /\ (i + 1) - m = n + 1
      BY <1>1, <1>3
    <3>. QED
      BY <1>1, <3>1
  <2>4. n # 1 => u[i - 1] = t[n - 1]
    <3>1. n # 1 => i - 1 \in 1..(m + Len(t)) /\ ~(i - 1 <= m) /\ (i - 1) - m = n - 1
      BY <1>1, <1>3
    <3>. QED
      BY <1>1, <3>1
  <2>5. n = 1 => t[n] \notin DOMAIN Before
    BY DEF Opens
  <2>. QED
    BY <2>1, <2>2, <2>3, <2>4, <2>5
<1>. QED
  BY <1>1, <1>2, <1>3

LEMMA ConcatCovered ==
    ASSUME NEW s \in Seq(Pieces), NEW t \in Seq(Pieces), NEW pieces, NEW cover,
           Covered(s, pieces, cover),
           Covered(t, pieces, cover) \/ \E j \in 1..Len(s) : s[j] = cover
    PROVE  Covered(s \o t, pieces, cover)
<1>. DEFINE u == s \o t
            m == Len(s)
<1>1. /\ m \in Nat /\ Len(t) \in Nat /\ Len(u) = m + Len(t)
      /\ \A i \in 1..(m + Len(t)) : u[i] = IF i <= m THEN s[i] ELSE t[i - m]
  BY ConcatProperties, LenProperties
<1>. HIDE DEF u, m
<1>. SUFFICES ASSUME NEW i \in 1..(m + Len(t)), u[i] \in pieces
              PROVE  \E j \in 1..(i - 1) : u[j] = cover
  BY <1>1 DEF Covered, u
<1>2. CASE i <= m
  <2>1. PICK j \in 1..(i - 1) : s[j] = cover
    BY <1>1, <1>2 DEF Covered, m
  <2>. QED
    BY <1>1, <1>2, <2>1
<1>3. CASE i > m
  <2>1. CASE \E j \in 1..m : s[j] = cover
    BY <1>1, <1>3, <2>1
  <2>2. CASE Covered(t, pieces, cover)
    <3>1. i - m \in 1..Len(t) /\ t[i - m] \in pieces
      BY <1>1, <1>3
    <3>2. PICK j \in 1..(i - m - 1) : t[j] = cover
      BY <2>2, <3>1 DEF Covered
    <3>3. j + m \in 1..(i - 1) /\ j + m \in 1..(m + Len(t)) /\ ~(j + m <= m) /\ (j + m) - m = j
      BY <1>1, <3>1, <3>2
    <3>4. u[j + m] = t[(j + m) - m]
      BY <1>1, <3>3
    <3>. QED
      BY <3>2, <3>3, <3>4
  <2>. QED
    BY <2>1, <2>2 DEF m
<1>. QED
  BY <1>1, <1>2, <1>3

LEMMA ConcatForks ==
    ASSUME NEW s \in Seq(Pieces), NEW t \in Seq(Pieces), ~Forking(s)
    PROVE  /\ ~Forking(t) => ~Forking(s \o t)
           /\ ForksOnce(t) => ForksOnce(s \o t)
<1>. DEFINE u == s \o t
            m == Len(s)
<1>1. /\ m \in Nat /\ Len(t) \in Nat /\ Len(u) = m + Len(t)
      /\ \A i \in 1..(m + Len(t)) : u[i] = IF i <= m THEN s[i] ELSE t[i - m]
  BY ConcatProperties, LenProperties
<1>. HIDE DEF u, m
<1>2. ASSUME NEW i \in 1..Len(u), u[i] \in Forks
      PROVE  i - m \in 1..Len(t) /\ t[i - m] \in Forks
  <2>1. CASE i <= m
    BY <1>1, <1>2, <2>1 DEF Forking, m
  <2>2. CASE i > m
    BY <1>1, <1>2, <2>2
  <2>. QED
    BY <1>1, <2>1, <2>2
<1>3. ~Forking(t) => ~Forking(u)
  BY <1>2 DEF Forking
<1>4. ASSUME ForksOnce(t), NEW i \in 1..Len(u), NEW j \in 1..Len(u), u[i] \in Forks, u[j] \in Forks
      PROVE  i = j
  <2>1. i - m = j - m
    BY <1>2, <1>4 DEF ForksOnce
  <2>. QED
    BY <1>1, <2>1
<1>. QED
  BY <1>3, <1>4 DEF ForksOnce, u

-----------------------------------------------------------------------------
(* The runs of the methods.                                                *)

HasPiece(s, x) == \E i \in 1..Len(s) : s[i] = x

GoodRun(s) ==
    /\ s \in Seq(Pieces) /\ s # <<>> /\ s[1] \notin Middle \cup {"channel"}
    /\ Linked(s) /\ ForksOnce(s)
    /\ Covered(s, Needing, "context") /\ Covered(s, Homing, "payments")

LEMMA LinkNames ==
    /\ DOMAIN FollowedBy = {"provider", "choose", "connect", "key", "main", "switch"}
    /\ DOMAIN Before = {"choose", "connect", "key", "main", "context", "channel"}
    /\ FollowedBy["provider"] = "choose" /\ FollowedBy["choose"] = "connect"
    /\ FollowedBy["connect"] = "key" /\ FollowedBy["key"] = "main"
    /\ FollowedBy["main"] = "context" /\ FollowedBy["switch"] = "signer"
    /\ Before["choose"] = "provider" /\ Before["connect"] = "choose"
    /\ Before["key"] = "connect" /\ Before["main"] = "key" /\ Before["context"] = "main"
    /\ Before["channel"] = "initialized"
  BY DEF FollowedBy, Before

\* Pieces none of which follows or is followed by a certain one.
LEMMA FreePieces ==
    ASSUME NEW s, \A i \in 1..Len(s) : s[i] \notin DOMAIN FollowedBy \cup DOMAIN Before
    PROVE  Linked(s)
  BY DEF Linked

LEMMA ProviderRun ==
    /\ GoodRun(InitializeBlockchainProvider)
    /\ HasPiece(InitializeBlockchainProvider, "context") /\ ~Forking(InitializeBlockchainProvider)
<1>. DEFINE s == InitializeBlockchainProvider
<1>0. s \in Seq(Pieces)
  BY DEF InitializeBlockchainProvider, Pieces
<1>1. /\ s \in Seq(Pieces) /\ Len(s) = 9 /\ s # <<>>
      /\ s[1] = "provider" /\ s[2] = "choose" /\ s[3] = "connect" /\ s[4] = "key"
      /\ s[5] = "main" /\ s[6] = "context" /\ s[7] = "switch" /\ s[8] = "signer" /\ s[9] = "listen"
  <2>1. Len(s) = 9
    BY DEF InitializeBlockchainProvider
  <2>2. /\ s[1] = "provider" /\ s[2] = "choose" /\ s[3] = "connect" /\ s[4] = "key"
        /\ s[5] = "main" /\ s[6] = "context" /\ s[7] = "switch" /\ s[8] = "signer" /\ s[9] = "listen"
    BY DEF InitializeBlockchainProvider
  <2>. QED
    BY <1>0, <2>1, <2>2
<1>. HIDE DEF s
<1>2. Linked(s)
  <2>. SUFFICES ASSUME NEW i \in 1..9
                PROVE  /\ s[i] \in DOMAIN FollowedBy => i + 1 <= 9 /\ s[i + 1] = FollowedBy[s[i]]
                       /\ s[i] \in DOMAIN Before /\ i # 1 => s[i - 1] = Before[s[i]]
    BY <1>1 DEF Linked
  <2>1. i = 1 \/ i = 2 \/ i = 3 \/ i = 4 \/ i = 5 \/ i = 6 \/ i = 7 \/ i = 8 \/ i = 9
    OBVIOUS
  <2>. QED
    BY <1>1, <2>1, LinkNames
<1>3. \A i \in 1..9 : s[i] \notin Forks \cup Homing /\ (s[i] \in Needing => i = 9)
  <2>. SUFFICES ASSUME NEW i \in 1..9
                PROVE  s[i] \notin Forks \cup Homing /\ (s[i] \in Needing => i = 9)
    OBVIOUS
  <2>1. i = 1 \/ i = 2 \/ i = 3 \/ i = 4 \/ i = 5 \/ i = 6 \/ i = 7 \/ i = 8 \/ i = 9
    OBVIOUS
  <2>. QED
    BY <1>1, <2>1 DEF Forks, Homing, Needing
<1>4. ForksOnce(s) /\ ~Forking(s) /\ HasPiece(s, "context")
  BY <1>1, <1>3 DEF ForksOnce, Forking, HasPiece
<1>5. Covered(s, Needing, "context") /\ Covered(s, Homing, "payments")
  BY <1>1, <1>3 DEF Covered
<1>. QED
  BY <1>1, <1>2, <1>4, <1>5 DEF GoodRun, Middle, s

LEMMA GoodConcat ==
    ASSUME NEW s, GoodRun(s), ~Forking(s), HasPiece(s, "context"),
           NEW t \in Seq(Pieces), Linked(t), ForksOnce(t), Opens(t),
           HasPiece(s, "payments") \/ Covered(t, Homing, "payments")
    PROVE  /\ GoodRun(s \o t) /\ HasPiece(s \o t, "context")
           /\ HasPiece(s, "payments") \/ HasPiece(t, "payments") => HasPiece(s \o t, "payments")
           /\ ~Forking(t) => ~Forking(s \o t)
<1>1. /\ s \o t \in Seq(Pieces) /\ Len(s) \in Nat /\ Len(t) \in Nat
      /\ Len(s \o t) = Len(s) + Len(t)
      /\ \A i \in 1..(Len(s) + Len(t)) : (s \o t)[i] = IF i <= Len(s) THEN s[i] ELSE t[i - Len(s)]
  BY ConcatProperties, LenProperties DEF GoodRun
<1>2. \A x : HasPiece(s, x) => HasPiece(s \o t, x)
  BY <1>1 DEF HasPiece
<1>3. ASSUME NEW x, HasPiece(t, x) PROVE HasPiece(s \o t, x)
  <2>1. PICK i \in 1..Len(t) : t[i] = x
    BY <1>3 DEF HasPiece
  <2>2. i + Len(s) \in 1..(Len(s) + Len(t)) /\ ~(i + Len(s) <= Len(s)) /\ (i + Len(s)) - Len(s) = i
    BY <1>1
  <2>3. (s \o t)[i + Len(s)] = t[(i + Len(s)) - Len(s)]
    BY <1>1, <2>2
  <2>. QED
    BY <1>1, <2>1, <2>2, <2>3 DEF HasPiece
<1>4. (s \o t)[1] = s[1] /\ s \o t # <<>>
  <2>1. 1 \in 1..Len(s)
    BY FirstPiece DEF GoodRun
  <2>2. (s \o t)[1] = s[1] /\ Len(s \o t) > 0
    BY <1>1, <2>1
  <2>. QED
    BY <2>2
<1>5. Linked(s \o t)
  BY ConcatLinked DEF GoodRun
<1>6. ForksOnce(s \o t) /\ (~Forking(t) => ~Forking(s \o t))
  BY ConcatForks DEF GoodRun
<1>7. Covered(s \o t, Needing, "context") /\ Covered(s \o t, Homing, "payments")
  BY ConcatCovered DEF GoodRun, HasPiece
<1>. QED
  BY <1>1, <1>2, <1>3, <1>4, <1>5, <1>6, <1>7 DEF GoodRun

\* Pieces that are neither linked to others nor fork.
Free(s) ==
    s \in Seq(Pieces) /\ s # <<>> /\
    \A i \in 1..Len(s) : s[i] \notin DOMAIN FollowedBy \cup DOMAIN Before \cup Forks

LEMMA FreeIs ==
    ASSUME NEW s, Free(s)
    PROVE  Linked(s) /\ ForksOnce(s) /\ ~Forking(s) /\ Opens(s)
<1>1. Linked(s) /\ ForksOnce(s) /\ ~Forking(s)
  BY FreePieces DEF Free, ForksOnce, Forking
<1>2. Len(s) > 0 /\ 1 \in 1..Len(s)
  BY FirstPiece DEF Free
<1>. QED
  BY <1>1, <1>2 DEF Opens, Free

LEMMA FreeTails ==
    /\ Free(<<"registries", "names", "registriesDone">>)
    /\ Free(<<"governance", "governanceDone">>)
    /\ Free(<<"payments">>) /\ HasPiece(<<"payments">>, "payments")
    /\ Free(<<"accounts", "node", "ids", "listeners", "paymentsDone">>)
<1>1. Free(<<"registries", "names", "registriesDone">>)
  <2>. DEFINE s == <<"registries", "names", "registriesDone">>
  <2>1. s \in Seq(Pieces) /\ s # <<>> /\ Len(s) = 3
        /\ s[1] = "registries" /\ s[2] = "names" /\ s[3] = "registriesDone"
    BY DEF Pieces
  <2>. HIDE DEF s
  <2>2. \A i \in 1..3 : i = 1 \/ i = 2 \/ i = 3
    OBVIOUS
  <2>. QED
    BY <2>1, <2>2, LinkNames DEF Free, Forks
<1>2. Free(<<"governance", "governanceDone">>)
  <2>. DEFINE s == <<"governance", "governanceDone">>
  <2>1. s \in Seq(Pieces) /\ s # <<>> /\ Len(s) = 2 /\ s[1] = "governance" /\ s[2] = "governanceDone"
    BY DEF Pieces
  <2>. HIDE DEF s
  <2>2. \A i \in 1..2 : i = 1 \/ i = 2
    OBVIOUS
  <2>. QED
    BY <2>1, <2>2, LinkNames DEF Free, Forks
<1>3. Free(<<"payments">>) /\ HasPiece(<<"payments">>, "payments")
  <2>. DEFINE s == <<"payments">>
  <2>1. s \in Seq(Pieces) /\ s # <<>> /\ Len(s) = 1 /\ s[1] = "payments"
    BY DEF Pieces
  <2>. HIDE DEF s
  <2>2. \A i \in 1..1 : i = 1
    OBVIOUS
  <2>3. Free(s)
    BY <2>1, <2>2, LinkNames DEF Free, Forks
  <2>4. HasPiece(s, "payments")
    <3>1. 1 \in 1..Len(s)
      BY <2>1
    <3>. QED
      BY <2>1, <3>1 DEF HasPiece
  <2>. QED
    BY <2>3, <2>4 DEF s
<1>4. Free(<<"accounts", "node", "ids", "listeners", "paymentsDone">>)
  <2>. DEFINE s == <<"accounts", "node", "ids", "listeners", "paymentsDone">>
  <2>1. s \in Seq(Pieces) /\ s # <<>> /\ Len(s) = 5 /\ s[1] = "accounts" /\ s[2] = "node"
        /\ s[3] = "ids" /\ s[4] = "listeners" /\ s[5] = "paymentsDone"
    BY DEF Pieces
  <2>. HIDE DEF s
  <2>. DEFINE S == {"accounts", "node", "ids", "listeners", "paymentsDone"}
  <2>2. \A i \in 1..5 : s[i] \in S
    <3>1. \A i \in 1..5 : i = 1 \/ i = 2 \/ i = 3 \/ i = 4 \/ i = 5
      OBVIOUS
    <3>. QED
      BY <2>1, <3>1
  <2>3. \A x \in S : x \notin DOMAIN FollowedBy \cup DOMAIN Before \cup Forks
    BY LinkNames DEF Forks
  <2>. HIDE DEF S
  <2>4. Free(s)
    BY <2>1, <2>2, <2>3 DEF Free
  <2>. QED
    BY <2>4 DEF s
<1>. QED
  BY <1>1, <1>2, <1>3, <1>4

LEMMA KindRuns ==
    ASSUME NEW k \in Kinds
    PROVE  GoodRun(RunOf(k)) /\ ~Forking(RunOf(k)) /\ HasPiece(RunOf(k), "context")
<1>. DEFINE p == InitializeBlockchainProvider
            names3 == <<"registries", "names", "registriesDone">>
            two == <<"governance", "governanceDone">>
            five == <<"accounts", "node", "ids", "listeners", "paymentsDone">>
            one == <<"payments">>
<1>1. /\ GoodRun(p) /\ HasPiece(p, "context") /\ ~Forking(p)
      /\ Free(names3) /\ Free(two) /\ Free(five) /\ Free(one) /\ HasPiece(one, "payments")
  BY ProviderRun, FreeTails
<1>2. Covered(names3, Homing, "payments")
  <2>1. Len(names3) = 3 /\ names3[1] = "registries" /\ names3[2] = "names"
        /\ names3[3] = "registriesDone"
    OBVIOUS
  <2>. HIDE DEF names3
  <2>. QED
    BY <2>1 DEF Covered, Homing
<1>3. Covered(two, Homing, "payments")
  <2>1. Len(two) = 2 /\ two[1] = "governance" /\ two[2] = "governanceDone"
    OBVIOUS
  <2>. HIDE DEF two
  <2>. QED
    BY <2>1 DEF Covered, Homing
<1>4. Covered(one, Homing, "payments")
  <2>1. Len(one) = 1 /\ one[1] = "payments"
    OBVIOUS
  <2>. HIDE DEF one
  <2>. QED
    BY <2>1 DEF Covered, Homing
<1>. HIDE DEF p, names3, two, five, one
<1>5. GoodRun(p \o names3) /\ ~Forking(p \o names3) /\ HasPiece(p \o names3, "context")
  BY <1>1, <1>2, FreeIs, GoodConcat DEF Free
<1>6. GoodRun(p \o two) /\ ~Forking(p \o two) /\ HasPiece(p \o two, "context")
  BY <1>1, <1>3, FreeIs, GoodConcat DEF Free
<1>7. /\ GoodRun(p \o one) /\ ~Forking(p \o one) /\ HasPiece(p \o one, "context")
      /\ HasPiece(p \o one, "payments")
  BY <1>1, <1>4, FreeIs, GoodConcat DEF Free
<1>8. /\ p \o names3 \in Seq(Pieces) /\ Linked(p \o names3) /\ ForksOnce(p \o names3)
      /\ Opens(p \o names3)
  <2>1. (p \o names3)[1] \notin Middle \cup {"channel"}
    BY <1>5 DEF GoodRun
  <2>2. Len(p \o names3) > 0
    BY <1>5, FirstPiece DEF GoodRun
  <2>. QED
    BY <1>5, <2>1, <2>2, LinkNames DEF GoodRun, Opens, Middle
<1>9. LET r == (p \o one) \o (p \o names3)
      IN  GoodRun(r) /\ ~Forking(r) /\ HasPiece(r, "context") /\ HasPiece(r, "payments")
  BY <1>5, <1>7, <1>8, GoodConcat
<1>10. LET r == ((p \o one) \o (p \o names3)) \o five
       IN  GoodRun(r) /\ ~Forking(r) /\ HasPiece(r, "context")
  BY <1>1, <1>9, FreeIs, GoodConcat DEF Free
<1>11. /\ RunOf("registries") = p \o names3 /\ RunOf("governance") = p \o two
       /\ RunOf("payments") = ((p \o one) \o (p \o names3)) \o five
  BY DEF RunOf, InitializeRegistries, InitializeGovernance, InitializePayments,
         p, names3, two, one, five
<1>. QED
  BY <1>5, <1>6, <1>10, <1>11 DEF Kinds

LEMMA SmallRun ==
    ASSUME NEW s \in Seq(Pieces), s # <<>>, s[1] \notin Middle \cup {"channel"},
           Linked(s), ForksOnce(s), \A i \in 1..Len(s) : s[i] \notin Needing
    PROVE  GoodRun(s)
  BY DEF GoodRun, Covered, Needing, Homing

Single == {"waitAny", "waitRegistries", "waitGovernance", "waitPayments", "useGateways",
           "throw", "useNames", "useRegistry", "useGovernance", "useProvider", "answer",
           "waitForNames"}

LEMMA SingleRun ==
    ASSUME NEW x \in Single
    PROVE  GoodRun(<<x>>) /\ ~Forking(<<x>>)
<1>. DEFINE s == <<x>>
<1>1. s \in Seq(Pieces) /\ s # <<>> /\ Len(s) = 1 /\ s[1] = x
  <2>1. x \in Pieces
    BY DEF Single, Pieces
  <2>. QED
    BY <2>1
<1>. HIDE DEF s
<1>2. \A i \in 1..1 : i = 1
  OBVIOUS
<1>3. x \notin DOMAIN FollowedBy \cup DOMAIN Before \cup Forks \cup Needing
           \cup Middle \cup {"channel"}
  BY LinkNames DEF Single, Forks, Needing, Middle
<1>4. Linked(s) /\ ForksOnce(s) /\ \A i \in 1..Len(s) : s[i] \notin Needing
  BY <1>1, <1>2, <1>3 DEF Linked, ForksOnce
<1>5. GoodRun(s) /\ ~Forking(s)
  BY <1>1, <1>2, <1>3, <1>4, SmallRun DEF Forking
<1>. QED
  BY <1>5 DEF s

LEMMA PairRun ==
    ASSUME NEW x, NEW y,
           \/ x = "switch" /\ y = "signer"
           \/ x = "initialized" /\ y \in {"channel", "answer"}
           \/ x = "node" /\ y = "useNode"
    PROVE  GoodRun(<<x, y>>)
<1>. DEFINE s == <<x, y>>
<1>1. s \in Seq(Pieces) /\ s # <<>> /\ Len(s) = 2 /\ s[1] = x /\ s[2] = y
  <2>1. x \in Pieces /\ y \in Pieces
    BY DEF Pieces
  <2>. QED
    BY <2>1
<1>. HIDE DEF s
<1>2. \A i \in 1..2 : i = 1 \/ i = 2
  OBVIOUS
<1>3. /\ x \notin Forks \cup Needing \cup Middle \cup {"channel"} \cup DOMAIN Before
      /\ y \notin Forks \cup Needing \cup DOMAIN FollowedBy
      /\ x \in DOMAIN FollowedBy => y = FollowedBy[x]
      /\ y \in DOMAIN Before => x = Before[y]
  BY LinkNames DEF Forks, Needing, Middle
<1>4. Linked(s)
  <2>. SUFFICES ASSUME NEW i \in 1..2
                PROVE  /\ s[i] \in DOMAIN FollowedBy => i + 1 <= 2 /\ s[i + 1] = FollowedBy[s[i]]
                       /\ s[i] \in DOMAIN Before /\ i # 1 => s[i - 1] = Before[s[i]]
    BY <1>1 DEF Linked
  <2>1. i = 1 \/ i = 2
    BY <1>2
  <2>. QED
    BY <1>1, <1>3, <2>1
<1>5. ForksOnce(s) /\ \A i \in 1..Len(s) : s[i] \notin Needing
  BY <1>1, <1>2, <1>3 DEF ForksOnce
<1>6. GoodRun(s)
  BY <1>1, <1>3, <1>4, <1>5, SmallRun
<1>. QED
  BY <1>6 DEF s

LEMMA ForChainRun == GoodRun(<<"forkDone", "join", "switch", "signer">>)
<1>. DEFINE s == <<"forkDone", "join", "switch", "signer">>
<1>1. s \in Seq(Pieces) /\ s # <<>> /\ Len(s) = 4 /\ s[1] = "forkDone" /\ s[2] = "join"
      /\ s[3] = "switch" /\ s[4] = "signer"
  BY DEF Pieces
<1>. HIDE DEF s
<1>2. \A i \in 1..4 : i = 1 \/ i = 2 \/ i = 3 \/ i = 4
  OBVIOUS
<1>3. \A i \in 1..4 : s[i] \notin Needing /\ s[i] \notin DOMAIN Before
                      /\ (s[i] \in Forks => i = 1) /\ (s[i] \in DOMAIN FollowedBy => i = 3)
  <2>. SUFFICES ASSUME NEW i \in 1..4
                PROVE  s[i] \notin Needing /\ s[i] \notin DOMAIN Before
                       /\ (s[i] \in Forks => i = 1) /\ (s[i] \in DOMAIN FollowedBy => i = 3)
    OBVIOUS
  <2>1. i = 1 \/ i = 2 \/ i = 3 \/ i = 4
    BY <1>2
  <2>. QED
    BY <1>1, <2>1, LinkNames DEF Needing, Forks
<1>4. Linked(s) /\ ForksOnce(s)
  BY <1>1, <1>3, LinkNames DEF Linked, ForksOnce
<1>5. GoodRun(s)
  BY <1>1, <1>3, <1>4, SmallRun DEF Middle
<1>. QED
  BY <1>5 DEF s

LEMMA InitializeRun == GoodRun(Initialize)
<1>. DEFINE s == InitializeRegistries
            t == <<"forkRest", "join">>
<1>1. GoodRun(s) /\ ~Forking(s) /\ HasPiece(s, "context")
  BY KindRuns DEF RunOf, Kinds
<1>2. t \in Seq(Pieces) /\ t # <<>> /\ Len(t) = 2 /\ t[1] = "forkRest" /\ t[2] = "join"
  BY DEF Pieces
<1>3. \A i \in 1..2 : i = 1 \/ i = 2
  OBVIOUS
<1>. HIDE DEF s, t
<1>4. Linked(t) /\ ForksOnce(t) /\ Opens(t) /\ Covered(t, Homing, "payments")
  BY <1>2, <1>3, LinkNames DEF Linked, ForksOnce, Opens, Covered, Forks, Homing
<1>5. GoodRun(s \o t)
  BY <1>1, <1>2, <1>4, GoodConcat
<1>. QED
  BY <1>5 DEF s, t, Initialize

LEMMA MethodRuns ==
    ASSUME NEW m
    PROVE  GoodRun(Run(m))
<1>2. /\ GoodRun(InitializeRegistries) /\ GoodRun(InitializeGovernance)
      /\ GoodRun(InitializePayments)
  <2>1. /\ RunOf("registries") = InitializeRegistries /\ RunOf("governance") = InitializeGovernance
        /\ RunOf("payments") = InitializePayments
    BY DEF RunOf
  <2>. QED
    BY <2>1, KindRuns DEF Kinds
<1>3. /\ GoodRun(InitializeForChainId) /\ GoodRun(SwitchProviderNetwork)
      /\ GoodRun(CreateStateChannel)
  BY ForChainRun, PairRun DEF InitializeForChainId, SwitchProviderNetwork, CreateStateChannel
<1>4. GoodRun(<<"initialized", "answer">>) /\ GoodRun(<<"node", "useNode">>)
  BY PairRun
<1>5. /\ GoodRun(<<"waitAny">>) /\ GoodRun(<<"waitRegistries">>)
      /\ GoodRun(<<"waitGovernance">>) /\ GoodRun(<<"waitPayments">>)
      /\ GoodRun(<<"useGateways">>) /\ GoodRun(<<"throw">>) /\ GoodRun(<<"useNames">>)
      /\ GoodRun(<<"useRegistry">>) /\ GoodRun(<<"useGovernance">>)
      /\ GoodRun(<<"useProvider">>) /\ GoodRun(<<"answer">>)
  BY SingleRun DEF Single
<1>. QED
  BY <1>2, <1>3, <1>4, <1>5, InitializeRun DEF Run

-----------------------------------------------------------------------------
(* How threads go on.                                                      *)

LEMMA TailIs ==
    ASSUME NEW s \in Seq(Pieces), s # <<>>, Len(s) # 1
    PROVE  2 \in 1..Len(s) /\ Tail(s) = Rest(s, 2)
<1>1. Len(s) \in Nat /\ Len(s) >= 2
  <2>1. Len(s) \in Nat /\ Len(s) >= 1
    BY FirstPiece
  <2>2. \A n \in Nat : n >= 1 /\ n # 1 => n >= 2
    OBVIOUS
  <2>. QED
    BY <2>1, <2>2
<1>2. /\ Tail(s) \in Seq(Pieces) /\ Len(Tail(s)) = Len(s) - 1
      /\ \A i \in 1..(Len(s) - 1) : Tail(s)[i] = s[i + 1]
  BY HeadTailProperties
<1>3. /\ Rest(s, 2) \in Seq(Pieces) /\ Len(Rest(s, 2)) = Len(s) - 1
      /\ \A i \in 1..(Len(s) - 1) : Rest(s, 2)[i] = s[i + 1]
  <2>1. 2 \in 1..Len(s) /\ Len(s) - 2 + 1 = Len(s) - 1
    BY <1>1
  <2>2. /\ Rest(s, 2) \in Seq(Pieces) /\ Len(Rest(s, 2)) = Len(s) - 2 + 1
        /\ \A i \in 1..Len(Rest(s, 2)) : Rest(s, 2)[i] = s[i + 2 - 1]
    BY <2>1, RestIs
  <2>3. \A i \in 1..(Len(s) - 1) : i + 2 - 1 = i + 1
    BY <1>1
  <2>. QED
    BY <2>1, <2>2, <2>3
<1>4. Tail(s) = Rest(s, 2)
  BY <1>1, <1>2, <1>3, SeqEqual
<1>. QED
  BY <1>1, <1>4

LEMMA SkipIs ==
    ASSUME NEW th \in ThreadType, NEW k \in 1..Len(th.left), NEW piece,
           th.left[k] = piece, \A j \in 1..(k - 1) : th.left[j] # piece
    PROVE  SkipTo(th, piece) = [th EXCEPT !.left = Rest(th.left, k)]
<1>. DEFINE First(i) == th.left[i] = piece /\ \A j \in 1..(i - 1) : th.left[j] # piece
            first == CHOOSE i \in DOMAIN th.left : First(i)
<1>1. th.left \in Seq(Pieces) /\ Len(th.left) \in Nat /\ DOMAIN th.left = 1..Len(th.left)
  BY LenProperties DEF ThreadType
<1>2. first \in DOMAIN th.left /\ First(first)
  BY <1>1
<1>3. first = k
  <2>1. first \in Nat /\ k \in Nat /\ first >= 1 /\ k >= 1
    BY <1>1, <1>2
  <2>. HIDE DEF first
  <2>2. ~(first < k)
    BY <1>2, <2>1
  <2>3. ~(k < first)
    BY <1>2, <2>1
  <2>. QED
    BY <2>1, <2>2, <2>3
<1>4. SkipTo(th, piece) = [th EXCEPT !.left = SubSeq(th.left, first, Len(th.left))]
  BY DEF SkipTo
<1>. QED
  BY <1>3, <1>4 DEF Rest

\* The pieces of BlockchainProvider, from one of them on.
LEMMA NextPiece ==
    ASSUME NEW s \in Seq(Pieces), Linked(s), NEW i \in 1..Len(s)
    PROVE  /\ s[i] = "provider" => i + 1 \in 1..Len(s) /\ s[i + 1] = "choose"
           /\ s[i] = "choose" => i + 1 \in 1..Len(s) /\ s[i + 1] = "connect"
           /\ s[i] = "connect" => i + 1 \in 1..Len(s) /\ s[i + 1] = "key"
           /\ s[i] = "key" => i + 1 \in 1..Len(s) /\ s[i + 1] = "main"
           /\ s[i] = "main" => i + 1 \in 1..Len(s) /\ s[i + 1] = "context"
           /\ s[i] = "switch" => i + 1 \in 1..Len(s) /\ s[i + 1] = "signer"
<1>1. Len(s) \in Nat /\ i \in Nat /\ i >= 1
  BY LenProperties
<1>2. s[i] \in DOMAIN FollowedBy => i + 1 <= Len(s) /\ s[i + 1] = FollowedBy[s[i]]
  BY DEF Linked
<1>. QED
  BY <1>1, <1>2, LinkNames

LEMMA PieceBefore ==
    ASSUME NEW s \in Seq(Pieces), Linked(s), NEW i \in 1..Len(s), i # 1
    PROVE  /\ s[i] = "choose" => s[i - 1] = "provider"
           /\ s[i] = "connect" => s[i - 1] = "choose"
           /\ s[i] = "key" => s[i - 1] = "connect"
           /\ s[i] = "main" => s[i - 1] = "key"
           /\ s[i] = "context" => s[i - 1] = "main"
           /\ s[i] = "channel" => s[i - 1] = "initialized"
<1>1. s[i] \in DOMAIN Before => s[i - 1] = Before[s[i]]
  BY DEF Linked
<1>. QED
  BY <1>1, LinkNames

\* What a step of another thread may do to the chains.
Drift ==
    /\ ready \subseteq ready'
    /\ \A x \in Contexts : chainOf'[x] = chainOf[x] \/ chainOf'[x] \in ready'
    /\ context' = context \/ chainOf'[context'] \in ready'

LEMMA Drifted ==
    ASSUME StateInv, StateInv', Drift
    PROVE  /\ \A x \in Contexts : /\ chainOf[x] # None => chainOf'[x] # None
                                  /\ chainOf[x] \in ready => chainOf'[x] \in ready'
           /\ HasProvider => HasProvider'
<1>1. None \notin Chains
  BY CoreAssumption
<1>2. ready' \subseteq Chains /\ context \in Contexts
  BY DEF StateInv
<1>. QED
  BY <1>1, <1>2 DEF Drift, HasProvider, Chain

LEMMA ThreadStays ==
    ASSUME StateInv, StateInv', Drift, NEW th, ThreadInv(th)
    PROVE  ThreadInv(th)'
<1>1. th \in ThreadType /\ th.captured \in Contexts /\ th.outer \in Contexts
  BY DEF ThreadInv, ThreadType
<1>2. chainOf'[th.captured] # None /\ chainOf'[th.outer] # None
  BY <1>1, Drifted DEF ThreadInv
<1>3. MiddleOK(th) => MiddleOK(th)'
  BY <1>1 DEF MiddleOK, Drift
<1>4. th.g \in ready => th.g \in ready'
  BY DEF Drift
<1>5. chainOf["initialized"] # None => chainOf'["initialized"] # None
  BY Drifted DEF Contexts
<1>6. (CapturedOK(th) => CapturedOK(th)') /\ (OuterOK(th) => OuterOK(th)')
  BY <1>1, Drifted DEF CapturedOK, OuterOK
<1>. QED
  BY <1>1, <1>2, <1>3, <1>4, <1>5, <1>6 DEF ThreadInv

\* A thread goes on with its piece k.
LEMMA Moved ==
    ASSUME StateInv, StateInv', Drift, NEW th, ThreadInv(th), th.left # <<>>,
           NEW k \in 1..Len(th.left), NEW new \in ThreadType,
           new.left = Rest(th.left, k), new.ended = th.ended,
           new.captured = th.captured \/ new.captured = context',
           new.outer = th.outer \/ chainOf'[new.outer] \in ready',
           (\E j \in 1..(k - 1) : th.left[j] = "context") => CapturedOK(new)',
           (\E j \in 1..(k - 1) : th.left[j] = "payments") => OuterOK(new)',
           th.left[k] \in Middle => MiddleOK(new)',
           th.left[k] = "context" => new.g \in ready',
           th.left[k] = "channel" => chainOf'["initialized"] # None
    PROVE  ThreadInv(new)' /\ (Forking(new.left) => Forking(th.left))
<1>1. /\ th \in ThreadType /\ th.left \in Seq(Pieces) /\ th.captured \in Contexts
      /\ th.outer \in Contexts /\ new.captured \in Contexts /\ new.outer \in Contexts
  BY DEF ThreadInv, ThreadType
<1>2. new.left # <<>> /\ Head(new.left) = th.left[k]
  BY <1>1, RestIs
<1>3. Linked(new.left) /\ ForksOnce(new.left) /\ (Forking(new.left) => Forking(th.left))
  BY <1>1, RestLinked, RestForks DEF ThreadInv
<1>4. None \notin Chains /\ ready' \subseteq Chains /\ chainOf'[context'] # None
  BY CoreAssumption DEF StateInv, Chain
<1>5. chainOf'[new.captured] # None /\ chainOf'[new.outer] # None
  BY <1>1, <1>4, Drifted DEF ThreadInv
<1>6. ASSUME ~Covered(new.left, Needing, "context") PROVE CapturedOK(new)'
  <2>1. CASE \E j \in 1..(k - 1) : th.left[j] = "context"
    BY <2>1
  <2>2. CASE \A j \in 1..(k - 1) : th.left[j] # "context"
    <3>1. ~Covered(th.left, Needing, "context")
      BY <1>1, <1>6, <2>2, RestCovered
    <3>2. CapturedOK(th)
      BY <3>1 DEF ThreadInv
    <3>3. HasProvider' /\ chainOf'[th.captured] \in ready'
      BY <1>1, <3>2, Drifted DEF CapturedOK
    <3>. QED
      BY <3>3 DEF CapturedOK, HasProvider, Chain
  <2>. QED
    BY <2>1, <2>2
<1>7. ASSUME ~Covered(new.left, Homing, "payments") PROVE OuterOK(new)'
  <2>1. CASE \E j \in 1..(k - 1) : th.left[j] = "payments"
    BY <2>1
  <2>2. CASE \A j \in 1..(k - 1) : th.left[j] # "payments"
    <3>1. ~Covered(th.left, Homing, "payments")
      BY <1>1, <1>7, <2>2, RestCovered
    <3>2. OuterOK(th)
      BY <3>1 DEF ThreadInv
    <3>3. chainOf'[th.outer] \in ready'
      BY <1>1, <3>2, Drifted DEF OuterOK
    <3>. QED
      BY <3>3 DEF OuterOK
  <2>. QED
    BY <2>1, <2>2
<1>. QED
  BY <1>2, <1>3, <1>5, <1>6, <1>7 DEF ThreadInv

\* One thread goes on, by itself.
LEMMA ThreadStep ==
    ASSUME CoreInv, StateInv', Drift, NEW t \in Threads, thread[t].left # <<>>, NEW new,
           thread' = [thread EXCEPT ![t] = new], ThreadInv(new)',
           Forking(new.left) => Forking(thread[t].left),
           asker' # None => \/ asker' = asker /\ asker # t
                            \/ asker' = t /\ new.left # <<>> /\ Head(new.left) = "choose",
           keyAsker' # None => \/ keyAsker' = keyAsker /\ keyAsker # t
                               \/ keyAsker' = t /\ new.left # <<>> /\ Head(new.left) = "key"
    PROVE  CoreInv'
<1>1. thread \in [Threads -> ThreadType] /\ new \in ThreadType
  BY DEF CoreInv, ThreadInv
<1>2. /\ thread' \in [Threads -> ThreadType] /\ thread'[t] = new
      /\ \A u \in Threads : u # t => thread'[u] = thread[u]
  BY <1>1
<1>3. ASSUME NEW u \in Threads PROVE ThreadInv(thread[u])'
  <2>1. CASE u = t
    <3>1. thread'[u] = new
      BY <1>2, <2>1
    <3>. QED
      BY <3>1 DEF ThreadInv, MiddleOK, CapturedOK, OuterOK
  <2>2. CASE u # t
    <3>1. PICK th : th = thread[u]
      OBVIOUS
    <3>2. ThreadInv(th)
      BY <3>1 DEF CoreInv
    <3>3. ThreadInv(th)'
      BY <3>2, ThreadStays DEF CoreInv
    <3>4. thread'[u] = th
      BY <1>2, <2>2, <3>1
    <3>. QED
      BY <3>3, <3>4 DEF ThreadInv, MiddleOK, CapturedOK, OuterOK
  <2>. QED
    BY <2>1, <2>2
<1>4. AskInv'
  BY <1>2 DEF CoreInv, AskInv, At
<1>5. ForkInv'
  <2>. SUFFICES ASSUME NEW c \in Calls, NEW k \in Kinds
                PROVE  /\ ~Forking(thread'[<<c, k>>].left)
                       /\ Forking(thread'[<<c, "call">>].left) => thread'[<<c, k>>].left = <<>>
    BY DEF ForkInv
  <2>1. <<c, k>> \in Threads /\ <<c, "call">> \in Threads /\ <<c, k>> # <<c, "call">>
    BY DEF Threads, Kinds
  <2>2. /\ ~Forking(thread[<<c, k>>].left)
        /\ Forking(thread[<<c, "call">>].left) => thread[<<c, k>>].left = <<>>
    BY DEF CoreInv, ForkInv
  <2>3. CASE t = <<c, "call">>
    BY <1>2, <2>1, <2>2, <2>3
  <2>4. CASE t = <<c, k>>
    BY <1>2, <2>1, <2>2, <2>4
  <2>5. CASE t # <<c, "call">> /\ t # <<c, k>>
    BY <1>2, <2>1, <2>2, <2>5
  <2>. QED
    BY <2>3, <2>4, <2>5
<1>. QED
  BY <1>2, <1>3, <1>4, <1>5 DEF CoreInv

LEMMA EndsWell ==
    ASSUME StateInv', NEW end \in Ends
    PROVE  /\ ThreadInv(Ended(end))' /\ Ended(end).left = <<>>
           /\ ~Forking(Ended(end).left)
<1>. DEFINE new == Ended(end)
<1>1. /\ new \in ThreadType /\ new.left = <<>>
      /\ new.captured = "context" /\ new.outer = "context"
  <2>1. <<>> \in Seq(Pieces)
    BY EmptySeq
  <2>. QED
    BY <2>1, CoreAssumption DEF Ended, Idle, ThreadType, Contexts
<1>. HIDE DEF new
<1>2. Len(new.left) = 0
  BY <1>1
<1>3. /\ Linked(new.left) /\ ForksOnce(new.left) /\ ~Forking(new.left)
      /\ Covered(new.left, Needing, "context") /\ Covered(new.left, Homing, "payments")
  BY <1>2 DEF Linked, ForksOnce, Forking, Covered
<1>4. chainOf'["context"] # None
  BY DEF StateInv
<1>5. ThreadInv(new)'
  BY <1>1, <1>3, <1>4 DEF ThreadInv
<1>. QED
  BY <1>1, <1>3, <1>5 DEF new

\* A thread goes on to its next piece, or ends.
LEMMA GoesOn ==
    ASSUME StateInv, StateInv', Drift, NEW th, ThreadInv(th), th.left # <<>>,
           NEW w \in ThreadType, w.left = th.left, w.ended = th.ended,
           w.captured = th.captured \/ w.captured = context',
           w.outer = th.outer \/ chainOf'[w.outer] \in ready',
           Head(th.left) \in Middle \cup {"provider"} => MiddleOK(w)',
           Head(th.left) = "main" => w.g \in ready',
           Head(th.left) = "context" => CapturedOK(w)',
           Head(th.left) = "payments" => OuterOK(w)',
           Head(th.left) = "initialized" => chainOf'["initialized"] # None
    PROVE  /\ ThreadInv(GoOn(w))' /\ (Forking(GoOn(w).left) => Forking(th.left))
           /\ Len(th.left) # 1 => GoOn(w).left = Rest(th.left, 2)
           /\ Len(th.left) = 1 => GoOn(w).left = <<>>
<1>1. th.left \in Seq(Pieces) /\ Linked(th.left)
  BY DEF ThreadInv, ThreadType
<1>2. CASE Len(th.left) = 1
  <2>1. GoOn(w) = Ended("done") /\ "done" \in Ends
    BY <1>2 DEF GoOn, Ends
  <2>. QED
    BY <1>2, <2>1, EndsWell
<1>3. CASE Len(th.left) # 1
  <2>1. 2 \in 1..Len(th.left) /\ Tail(th.left) = Rest(th.left, 2)
    BY <1>1, <1>3, TailIs
  <2>2. GoOn(w) = [w EXCEPT !.left = Rest(th.left, 2)]
    BY <1>3, <2>1 DEF GoOn
  <2>3. Rest(th.left, 2) \in Seq(Pieces)
    BY <1>1, <2>1, RestIs
  <2>. DEFINE new == GoOn(w)
  <2>4. /\ new \in ThreadType /\ new.left = Rest(th.left, 2) /\ new.ended = th.ended
        /\ new.captured = w.captured /\ new.outer = w.outer /\ new.asked = w.asked /\ new.g = w.g
    BY <2>2, <2>3 DEF ThreadType
  <2>. HIDE DEF new
  <2>5. Head(th.left) = th.left[1] /\ \A j \in 1..(2 - 1) : j = 1
    BY <1>1, FirstPiece
  <2>6. /\ th.left[2] \in Middle => th.left[1] \in Middle \cup {"provider"}
        /\ th.left[2] = "context" => th.left[1] = "main"
        /\ th.left[2] = "channel" => th.left[1] = "initialized"
    <3>1. 2 - 1 = 1 /\ 2 # 1
      OBVIOUS
    <3>. QED
      BY <1>1, <2>1, <3>1, PieceBefore DEF Middle
  <2>7. /\ MiddleOK(w)' => MiddleOK(new)'
        /\ CapturedOK(w)' => CapturedOK(new)'
        /\ OuterOK(w)' => OuterOK(new)'
    BY <2>4 DEF MiddleOK, CapturedOK, OuterOK
  <2>8. /\ (\E j \in 1..(2 - 1) : th.left[j] = "context") => CapturedOK(new)'
        /\ (\E j \in 1..(2 - 1) : th.left[j] = "payments") => OuterOK(new)'
    BY <2>5, <2>7
  <2>9. /\ th.left[2] \in Middle => MiddleOK(new)'
        /\ th.left[2] = "context" => new.g \in ready'
        /\ th.left[2] = "channel" => chainOf'["initialized"] # None
    BY <2>4, <2>5, <2>6, <2>7
  <2>10. ThreadInv(new)' /\ (Forking(new.left) => Forking(th.left))
    BY <2>1, <2>4, <2>8, <2>9, Moved
  <2>. QED
    BY <1>3, <2>4, <2>10 DEF new
<1>. QED
  BY <1>2, <1>3

LEMMA Proceeds ==
    ASSUME CoreInv, StateInv', Drift, NEW t \in Threads, NEW th, th = thread[t],
           th.left # <<>>, NEW w \in ThreadType, w.left = th.left, w.ended = th.ended,
           w.captured = th.captured \/ w.captured = context',
           w.outer = th.outer \/ chainOf'[w.outer] \in ready',
           Head(th.left) \in Middle \cup {"provider"} => MiddleOK(w)',
           Head(th.left) = "main" => w.g \in ready',
           Head(th.left) = "context" => CapturedOK(w)',
           Head(th.left) = "payments" => OuterOK(w)',
           Head(th.left) = "initialized" => chainOf'["initialized"] # None,
           thread' = [thread EXCEPT ![t] = GoOn(w)],
           Head(th.left) # "choose", asker' = asker,
           keyAsker' = IF Head(th.left) = "key" THEN None ELSE keyAsker
    PROVE  CoreInv'
<1>1. ThreadInv(th) /\ StateInv
  BY DEF CoreInv
<1>2. ThreadInv(GoOn(w))' /\ (Forking(GoOn(w).left) => Forking(th.left))
  BY <1>1, GoesOn
<1>3. asker' # None => asker' = asker /\ asker # t
  BY DEF CoreInv, AskInv, At
<1>4. keyAsker' # None => keyAsker' = keyAsker /\ keyAsker # t
  BY DEF CoreInv, AskInv, At
<1>. QED
  BY <1>2, <1>3, <1>4, ThreadStep

\* A thread ends.
LEMMA EndsThere ==
    ASSUME CoreInv, StateInv', Drift, NEW t \in Threads, thread[t].left # <<>>,
           Head(thread[t].left) \notin {"choose", "key"},
           NEW end \in Ends, thread' = [thread EXCEPT ![t] = Ended(end)], UNCHANGED asked
    PROVE  CoreInv'
<1>1. asker' = asker /\ keyAsker' = keyAsker
  BY DEF asked
<1>2. (asker # None => asker # t) /\ (keyAsker # None => keyAsker # t)
  BY DEF CoreInv, AskInv, At
<1>. QED
  BY <1>1, <1>2, EndsWell, ThreadStep

-----------------------------------------------------------------------------
(* The pieces of BlockchainProvider.                                       *)

LEMMA Positions ==
    ASSUME NEW s \in Seq(Pieces), s # <<>>, Linked(s)
    PROVE  /\ s[1] = "provider" => /\ 2 \in 1..Len(s) /\ 3 \in 1..Len(s) /\ 6 \in 1..Len(s)
                                   /\ s[2] = "choose" /\ s[3] = "connect" /\ s[4] = "key"
                                   /\ s[5] = "main" /\ s[6] = "context"
           /\ s[1] = "choose" => /\ 2 \in 1..Len(s) /\ 3 \in 1..Len(s)
                                 /\ s[2] = "connect" /\ s[3] = "key"
           /\ s[1] = "connect" => /\ 2 \in 1..Len(s) /\ 3 \in 1..Len(s)
                                  /\ s[2] = "key" /\ s[3] = "main"
<1>1. 1 \in 1..Len(s)
  BY FirstPiece
<1>2. 1 + 1 = 2 /\ 2 + 1 = 3 /\ 3 + 1 = 4 /\ 4 + 1 = 5 /\ 5 + 1 = 6
  OBVIOUS
<1>3. ASSUME s[1] = "provider"
      PROVE  /\ 2 \in 1..Len(s) /\ 3 \in 1..Len(s) /\ 6 \in 1..Len(s)
             /\ s[2] = "choose" /\ s[3] = "connect" /\ s[4] = "key"
             /\ s[5] = "main" /\ s[6] = "context"
  <2>1. 2 \in 1..Len(s) /\ s[2] = "choose"
    BY <1>1, <1>2, <1>3, NextPiece
  <2>2. 3 \in 1..Len(s) /\ s[3] = "connect"
    BY <1>2, <2>1, NextPiece
  <2>3. 4 \in 1..Len(s) /\ s[4] = "key"
    BY <1>2, <2>2, NextPiece
  <2>4. 5 \in 1..Len(s) /\ s[5] = "main"
    BY <1>2, <2>3, NextPiece
  <2>5. 6 \in 1..Len(s) /\ s[6] = "context"
    BY <1>2, <2>4, NextPiece
  <2>. QED
    BY <2>1, <2>2, <2>3, <2>4, <2>5
<1>4. ASSUME s[1] = "choose"
      PROVE  2 \in 1..Len(s) /\ 3 \in 1..Len(s) /\ s[2] = "connect" /\ s[3] = "key"
  <2>1. 2 \in 1..Len(s) /\ s[2] = "connect"
    BY <1>1, <1>2, <1>4, NextPiece
  <2>. QED
    BY <1>2, <2>1, NextPiece
<1>5. ASSUME s[1] = "connect"
      PROVE  2 \in 1..Len(s) /\ 3 \in 1..Len(s) /\ s[2] = "key" /\ s[3] = "main"
  <2>1. 2 \in 1..Len(s) /\ s[2] = "key"
    BY <1>1, <1>2, <1>5, NextPiece
  <2>. QED
    BY <1>2, <2>1, NextPiece
<1>. QED
  BY <1>3, <1>4, <1>5

\* A thread skips to its piece k, within BlockchainProvider.
LEMMA Skips ==
    ASSUME StateInv, StateInv', Drift, NEW th, ThreadInv(th), th.left # <<>>,
           NEW w \in ThreadType, w.left = th.left, w.ended = th.ended,
           w.captured = th.captured \/ w.captured = context', w.outer = th.outer,
           NEW k \in 1..Len(th.left), NEW piece \in Middle, th.left[k] = piece,
           \A j \in 1..(k - 1) : th.left[j] \notin {piece, "context", "payments"},
           MiddleOK(w)', piece = "context" => w.g \in ready'
    PROVE  /\ ThreadInv(SkipTo(w, piece))'
           /\ Forking(SkipTo(w, piece).left) => Forking(th.left)
           /\ SkipTo(w, piece).left # <<>> /\ Head(SkipTo(w, piece).left) = piece
<1>1. SkipTo(w, piece) = [w EXCEPT !.left = Rest(th.left, k)]
  BY SkipIs
<1>. DEFINE new == SkipTo(w, piece)
<1>2. th.left \in Seq(Pieces)
  BY DEF ThreadInv, ThreadType
<1>3. Rest(th.left, k) \in Seq(Pieces) /\ Rest(th.left, k) # <<>> /\ Head(Rest(th.left, k)) = piece
  BY <1>2, RestIs
<1>4. /\ new \in ThreadType /\ new.left = Rest(th.left, k) /\ new.ended = th.ended
      /\ new.captured = w.captured /\ new.outer = w.outer /\ new.asked = w.asked /\ new.g = w.g
  BY <1>1, <1>3 DEF ThreadType
<1>. HIDE DEF new
<1>5. MiddleOK(new)'
  BY <1>4 DEF MiddleOK
<1>6. piece # "channel"
  BY DEF Middle
<1>7. ThreadInv(new)' /\ (Forking(new.left) => Forking(th.left))
  BY <1>4, <1>5, <1>6, Moved
<1>. QED
  BY <1>3, <1>4, <1>7 DEF new

\* Steps that leave the state of the core alone.
LEMMA SameState ==
    ASSUME StateInv, UNCHANGED <<blockchain, contextVars, contracts, payments, done>>
    PROVE  StateInv' /\ Drift
  BY DEF StateInv, Drift, Chain, blockchain, contextVars, contracts, payments

LEMMA GetProviderStep ==
    ASSUME CoreInv, NEW t \in Threads, GetProvider(t)
    PROVE  CoreInv'
<1>1. PICK th : th = thread[t]
  OBVIOUS
<1>2. /\ StateInv /\ ThreadInv(th) /\ th \in ThreadType /\ th.left # <<>> /\ Head(th.left) = "provider"
      /\ th.left \in Seq(Pieces) /\ Linked(th.left)
  BY <1>1 DEF CoreInv, GetProvider, At, ThreadInv, ThreadType
<1>3. /\ th.left[1] = "provider" /\ 2 \in 1..Len(th.left) /\ 3 \in 1..Len(th.left)
      /\ 6 \in 1..Len(th.left) /\ th.left[2] = "choose" /\ th.left[3] = "connect"
      /\ th.left[4] = "key" /\ th.left[5] = "main" /\ th.left[6] = "context"
  BY <1>2, FirstPiece, Positions
<1>4. PICK g : g = IF th.asked = None THEN Chain ELSE th.asked
  OBVIOUS
<1>5. g \in Chains
  BY <1>2, <1>4 DEF StateInv, ThreadType, Chain
<1>15. PICK w : w = [th EXCEPT !.g = g, !.captured = context]
  OBVIOUS
<1>6. /\ w \in ThreadType /\ w.left = th.left /\ w.ended = th.ended /\ w.captured = context
      /\ w.outer = th.outer /\ w.asked = th.asked /\ w.g = g
  BY <1>2, <1>5, <1>15 DEF ThreadType, StateInv
<1>7. \/ /\ g \in ready /\ governanceProvider' = g /\ governanceSigner' = provider
         /\ Becomes(t, SkipTo(w, "context")) /\ asker' = asker
      \/ /\ UNCHANGED <<governanceProvider, governanceSigner>> /\ modal = None
         /\ Becomes(t, SkipTo(w, "choose")) /\ asker' = t
      \/ /\ UNCHANGED <<governanceProvider, governanceSigner>> /\ modal # None
         /\ Becomes(t, SkipTo(w, "connect")) /\ asker' = asker
  BY <1>1, <1>4, <1>15 DEF GetProvider, asked
<1>8. UNCHANGED <<wallet, modal, provider, metamask, ready, keyAsker, contextVars,
                  contracts, payments, done>>
  BY DEF GetProvider
<1>9. StateInv' /\ Drift
  <2>1. /\ UNCHANGED <<registry, governance, names, account, node, listeners, chainOf, context>>
        /\ provider \in Providers /\ governanceProvider' \in {governanceProvider, g}
        /\ governanceSigner' \in {governanceSigner, provider}
        /\ (ready # {} => governanceProvider' \in Chains \cup {"main"})
    BY <1>2, <1>5, <1>7, <1>8 DEF StateInv, contextVars, contracts, payments
  <2>2. governanceProvider' \in Chains \cup {"main", None} /\ governanceSigner' \in Providers
    BY <1>2, <1>5, <2>1 DEF StateInv
  <2>. QED
    BY <1>2, <1>8, <2>1, <2>2 DEF StateInv, Drift, Chain
<1>10. MiddleOK(w)' /\ w.captured = context'
  BY <1>4, <1>6, <1>8 DEF MiddleOK, Chain, contextVars
<1>11. (asker # None => asker # t) /\ (keyAsker # None => keyAsker # t)
  BY <1>1, <1>2 DEF CoreInv, AskInv, At
<1>12. CASE g \in ready /\ Becomes(t, SkipTo(w, "context")) /\ asker' = asker
  <2>1. \A j \in 1..(6 - 1) : th.left[j] \notin {"context", "payments"}
    <3>1. \A j \in 1..(6 - 1) : j = 1 \/ j = 2 \/ j = 3 \/ j = 4 \/ j = 5
      OBVIOUS
    <3>. QED
      BY <1>3, <3>1
  <2>2. ThreadInv(SkipTo(w, "context"))' /\ (Forking(SkipTo(w, "context").left) => Forking(th.left))
    <3>1. "context" \in Middle /\ w.g \in ready'
      BY <1>6, <1>8, <1>12 DEF Middle
    <3>. QED
      BY <1>2, <1>3, <1>6, <1>9, <1>10, <2>1, <3>1, Skips
  <2>. QED
    BY <1>1, <1>2, <1>8, <1>9, <1>11, <1>12, <2>2, ThreadStep DEF Becomes
<1>13. CASE Becomes(t, SkipTo(w, "choose")) /\ asker' = t
  <2>1. \A j \in 1..(2 - 1) : th.left[j] \notin {"choose", "context", "payments"}
    <3>1. \A j \in 1..(2 - 1) : j = 1
      OBVIOUS
    <3>. QED
      BY <1>3, <3>1
  <2>2. /\ ThreadInv(SkipTo(w, "choose"))' /\ (Forking(SkipTo(w, "choose").left) => Forking(th.left))
        /\ SkipTo(w, "choose").left # <<>> /\ Head(SkipTo(w, "choose").left) = "choose"
    <3>1. "choose" \in Middle
      BY DEF Middle
    <3>. QED
      BY <1>2, <1>3, <1>6, <1>9, <1>10, <2>1, <3>1, Skips
  <2>. QED
    BY <1>1, <1>2, <1>8, <1>9, <1>11, <1>13, <2>2, ThreadStep DEF Becomes
<1>14. CASE Becomes(t, SkipTo(w, "connect")) /\ asker' = asker
  <2>1. \A j \in 1..(3 - 1) : th.left[j] \notin {"connect", "context", "payments"}
    <3>1. \A j \in 1..(3 - 1) : j = 1 \/ j = 2
      OBVIOUS
    <3>. QED
      BY <1>3, <3>1
  <2>2. ThreadInv(SkipTo(w, "connect"))' /\ (Forking(SkipTo(w, "connect").left) => Forking(th.left))
    <3>1. "connect" \in Middle
      BY DEF Middle
    <3>. QED
      BY <1>2, <1>3, <1>6, <1>9, <1>10, <2>1, <3>1, Skips
  <2>. QED
    BY <1>1, <1>2, <1>8, <1>9, <1>11, <1>14, <2>2, ThreadStep DEF Becomes
<1>. QED
  BY <1>7, <1>12, <1>13, <1>14

\* What the piece that a thread is at says of its contexts.
LEMMA HeadNeeds ==
    ASSUME NEW th, ThreadInv(th), th.left # <<>>
    PROVE  /\ th \in ThreadType /\ th.left \in Seq(Pieces) /\ Linked(th.left) /\ th.ended = "none"
           /\ Head(th.left) = th.left[1] /\ 1 \in 1..Len(th.left)
           /\ chainOf[th.captured] # None /\ chainOf[th.outer] # None
           /\ Head(th.left) \in Needing => CapturedOK(th)
           /\ Head(th.left) \in Homing => OuterOK(th)
           /\ Head(th.left) \in Middle => MiddleOK(th)
           /\ Head(th.left) = "context" => th.g \in ready
           /\ Head(th.left) = "channel" => chainOf["initialized"] # None
<1>1. th \in ThreadType /\ th.left \in Seq(Pieces)
  BY DEF ThreadInv, ThreadType
<1>2. Head(th.left) = th.left[1] /\ 1 \in 1..Len(th.left)
  BY <1>1, FirstPiece
<1>3. ASSUME NEW pieces, NEW cover, th.left[1] \in pieces
      PROVE  ~Covered(th.left, pieces, cover)
  <2>1. \A j \in 1..(1 - 1) : FALSE
    OBVIOUS
  <2>. QED
    BY <1>2, <1>3, <2>1 DEF Covered
<1>. QED
  BY <1>1, <1>2, <1>3 DEF ThreadInv

LEMMA ConnectStep ==
    ASSUME CoreInv, NEW t \in Threads, Connect(t)
    PROVE  CoreInv'
<1>1. PICK th : th = thread[t]
  OBVIOUS
<1>2. /\ StateInv /\ ThreadInv(th) /\ th.left # <<>> /\ Head(th.left) = "connect"
  BY <1>1 DEF CoreInv, Connect, At
<1>3. /\ th \in ThreadType /\ th.left \in Seq(Pieces) /\ Linked(th.left)
      /\ th.left[1] = "connect" /\ MiddleOK(th)
  BY <1>2, HeadNeeds DEF Middle
<1>4. /\ 2 \in 1..Len(th.left) /\ 3 \in 1..Len(th.left)
      /\ th.left[2] = "key" /\ th.left[3] = "main"
  BY <1>2, <1>3, Positions
<1>5. UNCHANGED <<wallet, ready, governanceProvider, governanceSigner, asker, contextVars,
                  contracts, payments, done>>
  BY DEF Connect
<1>6. \/ /\ modal' \in {"injected", "walletconnect", modal} /\ provider' = "wallet"
         /\ metamask' \in BOOLEAN /\ Becomes(t, SkipTo(th, "main")) /\ keyAsker' = keyAsker
      \/ /\ Becomes(t, SkipTo(th, "key")) /\ keyAsker' = t
         /\ UNCHANGED <<modal, provider, metamask>>
  BY <1>1 DEF Connect, AskForKey
<1>7. /\ modal' \in {None, "injected", "walletconnect"} /\ provider' \in Providers
      /\ metamask' \in BOOLEAN
  BY <1>2, <1>6 DEF StateInv, Providers
<1>8. StateInv' /\ Drift
  BY <1>2, <1>5, <1>7 DEF StateInv, Drift, Chain, contextVars, contracts, payments
<1>9. MiddleOK(th)'
  BY <1>3, <1>5 DEF MiddleOK, contextVars
<1>10. (asker # None => asker # t) /\ (keyAsker # None => keyAsker # t)
  BY <1>1, <1>2 DEF CoreInv, AskInv, At
<1>11. CASE Becomes(t, SkipTo(th, "main")) /\ keyAsker' = keyAsker
  <2>1. \A j \in 1..(3 - 1) : th.left[j] \notin {"main", "context", "payments"}
    <3>1. \A j \in 1..(3 - 1) : j = 1 \/ j = 2
      OBVIOUS
    <3>. QED
      BY <1>3, <1>4, <3>1
  <2>2. ThreadInv(SkipTo(th, "main"))' /\ (Forking(SkipTo(th, "main").left) => Forking(th.left))
    <3>1. "main" \in Middle
      BY DEF Middle
    <3>. QED
      BY <1>2, <1>3, <1>4, <1>8, <1>9, <2>1, <3>1, Skips
  <2>. QED
    BY <1>1, <1>2, <1>5, <1>8, <1>10, <1>11, <2>2, ThreadStep DEF Becomes
<1>12. CASE Becomes(t, SkipTo(th, "key")) /\ keyAsker' = t
  <2>1. \A j \in 1..(2 - 1) : th.left[j] \notin {"key", "context", "payments"}
    <3>1. \A j \in 1..(2 - 1) : j = 1
      OBVIOUS
    <3>. QED
      BY <1>3, <3>1
  <2>2. /\ ThreadInv(SkipTo(th, "key"))' /\ (Forking(SkipTo(th, "key").left) => Forking(th.left))
        /\ SkipTo(th, "key").left # <<>> /\ Head(SkipTo(th, "key").left) = "key"
    <3>1. "key" \in Middle
      BY DEF Middle
    <3>. QED
      BY <1>2, <1>3, <1>4, <1>8, <1>9, <2>1, <3>1, Skips
  <2>. QED
    BY <1>1, <1>2, <1>5, <1>8, <1>10, <1>12, <2>2, ThreadStep DEF Becomes
<1>. QED
  BY <1>6, <1>11, <1>12

LEMMA AnswerSteps ==
    ASSUME CoreInv, SupplyProviderId \/ RejectProviderIdRequest
    PROVE  CoreInv'
<1>1. PICK t \in Threads : t = asker
  BY DEF CoreInv, AskInv, SupplyProviderId, RejectProviderIdRequest
<1>2. PICK th : th = thread[t]
  OBVIOUS
<1>3. asker # None /\ asker' = None
  BY DEF SupplyProviderId, RejectProviderIdRequest
<1>4. /\ StateInv /\ ThreadInv(th) /\ th.left # <<>> /\ Head(th.left) = "choose"
  BY <1>1, <1>2, <1>3 DEF CoreInv, AskInv, At
<1>5. /\ th \in ThreadType /\ th.left \in Seq(Pieces) /\ Linked(th.left)
      /\ th.left[1] = "choose" /\ MiddleOK(th)
  BY <1>4, HeadNeeds DEF Middle
<1>6. /\ 2 \in 1..Len(th.left) /\ 3 \in 1..Len(th.left)
      /\ th.left[2] = "connect" /\ th.left[3] = "key"
  BY <1>4, <1>5, Positions
<1>7. UNCHANGED <<blockchain, contextVars, contracts, payments, done>>
  BY DEF SupplyProviderId, RejectProviderIdRequest
<1>8. \/ Becomes(t, SkipTo(th, "connect")) /\ keyAsker' = keyAsker
      \/ Becomes(t, SkipTo(th, "key")) /\ keyAsker' = t
  BY <1>1, <1>2 DEF SupplyProviderId, RejectProviderIdRequest, AskForKey
<1>9. StateInv' /\ Drift
  BY <1>4, <1>7, SameState
<1>10. MiddleOK(th)'
  BY <1>5, <1>7 DEF MiddleOK, contextVars, blockchain
<1>11. keyAsker # None => keyAsker # t
  BY <1>2, <1>4 DEF CoreInv, AskInv, At
<1>12. CASE Becomes(t, SkipTo(th, "connect")) /\ keyAsker' = keyAsker
  <2>1. \A j \in 1..(2 - 1) : th.left[j] \notin {"connect", "context", "payments"}
    <3>1. \A j \in 1..(2 - 1) : j = 1
      OBVIOUS
    <3>. QED
      BY <1>5, <3>1
  <2>2. ThreadInv(SkipTo(th, "connect"))' /\ (Forking(SkipTo(th, "connect").left) => Forking(th.left))
    <3>1. "connect" \in Middle
      BY DEF Middle
    <3>. QED
      BY <1>4, <1>5, <1>6, <1>9, <1>10, <2>1, <3>1, Skips
  <2>. QED
    BY <1>2, <1>3, <1>4, <1>9, <1>11, <1>12, <2>2, ThreadStep DEF Becomes
<1>13. CASE Becomes(t, SkipTo(th, "key")) /\ keyAsker' = t
  <2>1. \A j \in 1..(3 - 1) : th.left[j] \notin {"key", "context", "payments"}
    <3>1. \A j \in 1..(3 - 1) : j = 1 \/ j = 2
      OBVIOUS
    <3>. QED
      BY <1>5, <1>6, <3>1
  <2>2. /\ ThreadInv(SkipTo(th, "key"))' /\ (Forking(SkipTo(th, "key").left) => Forking(th.left))
        /\ SkipTo(th, "key").left # <<>> /\ Head(SkipTo(th, "key").left) = "key"
    <3>1. "key" \in Middle
      BY DEF Middle
    <3>. QED
      BY <1>4, <1>5, <1>6, <1>9, <1>10, <2>1, <3>1, Skips
  <2>. QED
    BY <1>2, <1>3, <1>4, <1>9, <1>11, <1>13, <2>2, ThreadStep DEF Becomes
<1>. QED
  BY <1>8, <1>12, <1>13

LEMMA CredentialsStep ==
    ASSUME CoreInv, SupplyPrivateCredentials
    PROVE  CoreInv'
<1>1. PICK t \in Threads : t = keyAsker
  BY DEF CoreInv, AskInv, SupplyPrivateCredentials
<1>2. PICK th : th = thread[t]
  OBVIOUS
<1>3. keyAsker # None /\ keyAsker' = None /\ asker' = asker
  BY DEF SupplyPrivateCredentials
<1>4. /\ StateInv /\ ThreadInv(th) /\ th.left # <<>> /\ Head(th.left) = "key"
  BY <1>1, <1>2, <1>3 DEF CoreInv, AskInv, At
<1>5. th \in ThreadType /\ MiddleOK(th)
  BY <1>4, HeadNeeds DEF Middle
<1>6. UNCHANGED <<wallet, modal, metamask, ready, governanceProvider, governanceSigner,
                  contextVars, contracts, payments, done>> /\ provider' = Chain
  BY DEF SupplyPrivateCredentials
<1>7. provider' \in Providers
  BY <1>4, <1>6 DEF StateInv, Providers, Chain
<1>8. StateInv' /\ Drift
  BY <1>4, <1>6, <1>7 DEF StateInv, Drift, Chain, contextVars, contracts, payments
<1>9. MiddleOK(th)'
  BY <1>5, <1>6 DEF MiddleOK, contextVars
<1>10. thread' = [thread EXCEPT ![t] = GoOn(th)]
  BY <1>1, <1>2 DEF SupplyPrivateCredentials, Becomes
<1>. QED
  BY <1>2, <1>3, <1>4, <1>5, <1>8, <1>9, <1>10, Proceeds

LEMMA PlainStep ==
    ASSUME CoreInv, StateInv', Drift, NEW t \in Threads, NEW th, th = thread[t],
           th.left # <<>>, Head(th.left) \notin Middle \cup {"provider", "payments", "initialized"},
           thread' = [thread EXCEPT ![t] = GoOn(th)], UNCHANGED asked
    PROVE  CoreInv'
<1>1. th \in ThreadType
  BY DEF CoreInv, ThreadInv
<1>2. /\ Head(th.left) \notin Middle \cup {"provider"} /\ Head(th.left) # "main"
      /\ Head(th.left) # "context" /\ Head(th.left) # "payments" /\ Head(th.left) # "initialized"
      /\ Head(th.left) # "choose" /\ Head(th.left) # "key"
  BY DEF Middle
<1>3. asker' = asker /\ keyAsker' = keyAsker
  BY DEF asked
<1>. QED
  BY <1>1, <1>2, <1>3, Proceeds

LEMMA UseMainProviderStep ==
    ASSUME CoreInv, NEW t \in Threads, UseMainProvider(t)
    PROVE  CoreInv'
<1>1. PICK th : th = thread[t]
  OBVIOUS
<1>2. /\ StateInv /\ ThreadInv(th) /\ th.left # <<>> /\ Head(th.left) = "main"
  BY <1>1 DEF CoreInv, UseMainProvider, At
<1>3. th \in ThreadType /\ th.g \in Chains /\ MiddleOK(th)
  BY <1>2, HeadNeeds DEF Middle, ThreadType
<1>4. /\ governanceProvider' = th.g /\ governanceSigner' \in {provider, governanceSigner}
      /\ ready' = ready \cup {th.g} /\ thread' = [thread EXCEPT ![t] = GoOn(th)]
      /\ UNCHANGED <<wallet, modal, provider, metamask, asked, contextVars,
                     contracts, payments, done>>
  BY <1>1 DEF UseMainProvider, Proceed, Becomes
<1>5. governanceSigner' \in Providers
  BY <1>2, <1>4 DEF StateInv
<1>6. StateInv' /\ Drift
  BY <1>2, <1>3, <1>4, <1>5 DEF StateInv, Drift, Chain, contextVars, contracts, payments
<1>7. MiddleOK(th)' /\ th.g \in ready'
  BY <1>3, <1>4 DEF MiddleOK, contextVars
<1>8. asker' = asker /\ keyAsker' = keyAsker
  BY <1>4 DEF asked
<1>. QED
  BY <1>1, <1>2, <1>3, <1>4, <1>6, <1>7, <1>8, Proceeds

LEMMA SetChainStep ==
    ASSUME CoreInv, NEW t \in Threads, SetChain(t)
    PROVE  CoreInv'
<1>1. PICK th : th = thread[t]
  OBVIOUS
<1>2. /\ StateInv /\ ThreadInv(th) /\ th.left # <<>> /\ Head(th.left) = "context"
  BY <1>1 DEF CoreInv, SetChain, At
<1>3. /\ th \in ThreadType /\ th.captured \in Contexts /\ th.asked \in Chains \cup {None}
      /\ MiddleOK(th) /\ th.g \in ready
  BY <1>2, HeadNeeds DEF Middle, ThreadType
<1>4. /\ chainOf' = IF th.asked = None THEN chainOf ELSE [chainOf EXCEPT ![th.captured] = th.asked]
      /\ context' = th.captured /\ thread' = [thread EXCEPT ![t] = GoOn(th)]
      /\ UNCHANGED <<blockchain, asked, contracts, payments, done>>
  BY <1>1 DEF SetChain, Proceed, Becomes
<1>5. chainOf \in [Contexts -> Chains \cup {None}] /\ ready \subseteq Chains /\ None \notin Chains
  BY <1>2, CoreAssumption DEF StateInv
<1>6. /\ chainOf' \in [Contexts -> Chains \cup {None}] /\ chainOf'[th.captured] \in ready
      /\ \A x \in Contexts : chainOf'[x] = chainOf[x] \/ chainOf'[x] \in ready
      /\ th.asked = None => chainOf' = chainOf
  BY <1>3, <1>4, <1>5 DEF MiddleOK
<1>7. ready' = ready
  BY <1>4 DEF blockchain
<1>8. /\ chainOf'["context"] # None /\ chainOf'["initialized"] \in ready \cup {None}
  BY <1>2, <1>5, <1>6 DEF StateInv, Contexts
<1>9. StateInv' /\ Drift
  BY <1>2, <1>3, <1>4, <1>5, <1>6, <1>7, <1>8
     DEF StateInv, Drift, Chain, blockchain, contracts, payments
<1>10. MiddleOK(th)'
  BY <1>3, <1>6, <1>7 DEF MiddleOK
<1>11. CapturedOK(th)'
  BY <1>4, <1>6, <1>7 DEF CapturedOK, HasProvider, Chain
<1>12. asker' = asker /\ keyAsker' = keyAsker
  BY <1>4 DEF asked
<1>. QED
  BY <1>1, <1>2, <1>3, <1>4, <1>9, <1>10, <1>11, <1>12, Proceeds

LEMMA SwitchNetworkStep ==
    ASSUME CoreInv, NEW t \in Threads, SwitchNetwork(t)
    PROVE  CoreInv'
<1>1. PICK th : th = thread[t]
  OBVIOUS
<1>2. /\ StateInv /\ ThreadInv(th) /\ th.left # <<>> /\ Head(th.left) = "switch"
  BY <1>1 DEF CoreInv, SwitchNetwork, At
<1>3. /\ th \in ThreadType /\ th.g \in Chains /\ th.left \in Seq(Pieces) /\ Linked(th.left)
      /\ th.left[1] = "switch" /\ 1 \in 1..Len(th.left) /\ th.ended = "none"
  BY <1>2, HeadNeeds DEF ThreadType
<1>4. UNCHANGED <<modal, provider, metamask, ready, governanceProvider, governanceSigner,
                  asked, contextVars, contracts, payments, done>>
  BY DEF SwitchNetwork
<1>5. /\ wallet' \in {wallet, th.g}
      /\ \/ thread' = [thread EXCEPT ![t] = Ended("thrown")]
         \/ thread' = [thread EXCEPT ![t] = GoOn(th)]
         \/ thread' = [thread EXCEPT ![t] = GoOn(GoOn(th))]
  BY <1>1 DEF SwitchNetwork, Proceed, Becomes
<1>6. wallet' \in Chains
  BY <1>2, <1>3, <1>5 DEF StateInv
<1>7. StateInv' /\ Drift
  BY <1>2, <1>4, <1>6 DEF StateInv, Drift, Chain, contextVars, contracts, payments
<1>8. CASE thread' = [thread EXCEPT ![t] = Ended("thrown")]
  <2>1. Head(thread[t].left) \notin {"choose", "key"} /\ "thrown" \in Ends
    BY <1>1, <1>2 DEF Ends
  <2>. QED
    BY <1>1, <1>2, <1>4, <1>7, <1>8, <2>1, EndsThere
<1>9. CASE thread' = [thread EXCEPT ![t] = GoOn(th)]
  <2>1. Head(th.left) \notin Middle \cup {"provider", "payments", "initialized"}
    BY <1>2 DEF Middle
  <2>. QED
    BY <1>1, <1>2, <1>4, <1>7, <1>9, <2>1, PlainStep
<1>10. CASE thread' = [thread EXCEPT ![t] = GoOn(GoOn(th))]
  <2>1. 2 \in 1..Len(th.left) /\ th.left[2] = "signer" /\ Len(th.left) # 1
    <3>1. 1 + 1 = 2
      OBVIOUS
    <3>2. 2 \in 1..Len(th.left) /\ th.left[2] = "signer"
      BY <1>3, <3>1, NextPiece
    <3>3. Len(th.left) \in Nat
      BY <1>3, LenProperties
    <3>. QED
      BY <3>2, <3>3
  <2>2. PICK next : next = GoOn(th)
    OBVIOUS
  <2>3. /\ ThreadInv(next)' /\ (Forking(next.left) => Forking(th.left))
        /\ next.left = Rest(th.left, 2)
    <3>1. /\ Head(th.left) \notin Middle \cup {"provider"} /\ Head(th.left) # "main"
          /\ Head(th.left) # "context" /\ Head(th.left) # "payments"
          /\ Head(th.left) # "initialized"
      BY <1>2 DEF Middle
    <3>. QED
      BY <1>2, <1>3, <1>7, <2>1, <2>2, <3>1, GoesOn
  <2>4. ThreadInv(next)
    BY <1>4, <2>3 DEF ThreadInv, MiddleOK, CapturedOK, OuterOK, HasProvider, Chain, contextVars
  <2>5. next.left # <<>> /\ Head(next.left) = "signer" /\ next \in ThreadType
    BY <1>3, <2>1, <2>3, <2>4, RestIs DEF ThreadInv
  <2>6. ThreadInv(GoOn(next))' /\ (Forking(GoOn(next).left) => Forking(next.left))
    <3>1. /\ Head(next.left) \notin Middle \cup {"provider"} /\ Head(next.left) # "main"
          /\ Head(next.left) # "context" /\ Head(next.left) # "payments"
          /\ Head(next.left) # "initialized"
      BY <2>5 DEF Middle
    <3>. QED
      BY <1>2, <1>7, <2>4, <2>5, <3>1, GoesOn
  <2>7. (asker # None => asker # t) /\ (keyAsker # None => keyAsker # t)
    BY <1>1, <1>2 DEF CoreInv, AskInv, At
  <2>8. asker' = asker /\ keyAsker' = keyAsker
    BY <1>4 DEF asked
  <2>. QED
    BY <1>1, <1>2, <1>7, <1>10, <2>2, <2>3, <2>6, <2>7, <2>8, ThreadStep
<1>. QED
  BY <1>5, <1>8, <1>9, <1>10

LEMMA SignerStep ==
    ASSUME CoreInv, NEW t \in Threads, SetGovernanceSigner(t)
    PROVE  CoreInv'
<1>1. PICK th : th = thread[t]
  OBVIOUS
<1>2. /\ StateInv /\ th.left # <<>> /\ Head(th.left) = "signer"
  BY <1>1 DEF CoreInv, SetGovernanceSigner, At
<1>3. /\ UNCHANGED <<wallet, modal, provider, metamask, ready, asked,
                     contextVars, contracts, payments, done>>
      /\ governanceProvider' \in {"main", governanceProvider}
      /\ governanceSigner' \in {provider, governanceSigner}
      /\ thread' = [thread EXCEPT ![t] = GoOn(th)]
  BY <1>1 DEF SetGovernanceSigner, Proceed, Becomes
<1>4. /\ governanceProvider' \in Chains \cup {"main", None} /\ governanceSigner' \in Providers
      /\ (ready # {} => governanceProvider' \in Chains \cup {"main"})
  BY <1>2, <1>3 DEF StateInv
<1>5. StateInv' /\ Drift
  BY <1>2, <1>3, <1>4 DEF StateInv, Drift, Chain, contextVars, contracts, payments
<1>6. Head(th.left) \notin Middle \cup {"provider", "payments", "initialized"}
  BY <1>2 DEF Middle
<1>. QED
  BY <1>1, <1>2, <1>3, <1>5, <1>6, PlainStep

\* Steps that only go on.
LEMMA ListenStep ==
    ASSUME CoreInv, NEW t \in Threads, Listen(t)
    PROVE  CoreInv'
<1>1. PICK th : th = thread[t]
  OBVIOUS
<1>2. /\ StateInv /\ th.left # <<>> /\ Head(th.left) = "listen"
      /\ thread' = [thread EXCEPT ![t] = GoOn(th)]
      /\ UNCHANGED <<blockchain, asked, contextVars, contracts, payments, done>>
  BY <1>1 DEF CoreInv, Listen, At, Proceed, Becomes
<1>3. StateInv' /\ Drift
  BY <1>2, SameState
<1>4. Head(th.left) \notin Middle \cup {"provider", "payments", "initialized"}
  BY <1>2 DEF Middle
<1>. QED
  BY <1>1, <1>2, <1>3, <1>4, PlainStep

\* The contracts are made where there is a provider.
LEMMA ContractsAre ==
    ASSUME StateInv, HasProvider
    PROVE  ContractsNow \in Contract /\ Chain \in Chains
<1>1. Chain \in Chains /\ governanceProvider \in Chains \cup {"main"} /\ governanceSigner \in Providers
  BY DEF StateInv, HasProvider
<1>. QED
  BY <1>1 DEF ContractsNow, Contract

LEMMA RegistryContractsStep ==
    ASSUME CoreInv, NEW t \in Threads, MakeRegistryContracts(t)
    PROVE  CoreInv'
<1>1. PICK th : th = thread[t]
  OBVIOUS
<1>2. /\ StateInv /\ ThreadInv(th) /\ th \in ThreadType /\ th.left # <<>>
      /\ Head(th.left) = "registries" /\ HasProvider
  BY <1>1 DEF CoreInv, MakeRegistryContracts, At, ThreadInv
<1>3. registry' \in Contract /\ Chain \in Chains
  BY <1>2, ContractsAre DEF MakeRegistryContracts
<1>4. PICK w : w = [th EXCEPT !.captured = context, !.g = Chain]
  OBVIOUS
<1>5. /\ thread' = [thread EXCEPT ![t] = GoOn(w)]
      /\ UNCHANGED <<blockchain, asked, contextVars, governance, names, payments, done>>
  BY <1>1, <1>4 DEF MakeRegistryContracts, Becomes
<1>6. StateInv' /\ Drift
  BY <1>2, <1>3, <1>5 DEF StateInv, Drift, Chain, blockchain, contextVars, payments
<1>7. /\ w \in ThreadType /\ w.left = th.left /\ w.ended = th.ended /\ w.captured = context
      /\ w.outer = th.outer
  BY <1>2, <1>3, <1>4 DEF ThreadType, StateInv
<1>8. /\ Head(th.left) \notin Middle \cup {"provider"} /\ Head(th.left) # "main"
      /\ Head(th.left) # "context" /\ Head(th.left) # "payments" /\ Head(th.left) # "initialized"
      /\ Head(th.left) # "choose" /\ Head(th.left) # "key"
  BY <1>2 DEF Middle
<1>9. asker' = asker /\ keyAsker' = keyAsker /\ context' = context
  BY <1>5 DEF asked, contextVars
<1>. QED
  BY <1>1, <1>2, <1>5, <1>6, <1>7, <1>8, <1>9, Proceeds

\* A thread that waits for the names for good.
LEMMA ReadNamesStep ==
    ASSUME CoreInv, NEW t \in Threads, ReadNames(t)
    PROVE  CoreInv'
<1>1. PICK th : th = thread[t]
  OBVIOUS
<1>2. /\ StateInv /\ ThreadInv(th) /\ th \in ThreadType /\ th.left # <<>>
      /\ Head(th.left) = "names" /\ th.g \in Chains
      /\ th.captured \in Contexts /\ th.outer \in Contexts /\ th.ended = "none"
  BY <1>1 DEF CoreInv, ReadNames, At, ThreadInv, ThreadType
<1>3. PICK s : s = <<"waitForNames">>
  OBVIOUS
<1>4. PICK w : w = [th EXCEPT !.left = s]
  OBVIOUS
<1>5. /\ names' \in {names, th.g}
      /\ UNCHANGED <<blockchain, asked, contextVars, registry, governance, payments, done>>
      /\ \/ thread' = [thread EXCEPT ![t] = GoOn(th)]
         \/ thread' = [thread EXCEPT ![t] = w]
  BY <1>1, <1>3, <1>4 DEF ReadNames, Proceed, Becomes
<1>6. names' \in Chains \cup {None}
  BY <1>2, <1>5 DEF StateInv
<1>7. StateInv' /\ Drift
  BY <1>2, <1>5, <1>6 DEF StateInv, Drift, Chain, blockchain, contextVars, payments
<1>8. CASE thread' = [thread EXCEPT ![t] = GoOn(th)]
  <2>1. Head(th.left) \notin Middle \cup {"provider", "payments", "initialized"}
    BY <1>2 DEF Middle
  <2>. QED
    BY <1>1, <1>2, <1>5, <1>7, <1>8, <2>1, PlainStep
<1>9. CASE thread' = [thread EXCEPT ![t] = w]
  <2>1. GoodRun(s) /\ ~Forking(s) /\ Head(s) = "waitForNames"
    BY <1>3, SingleRun DEF Single
  <2>2. /\ w \in ThreadType /\ w.left = s /\ w.captured = th.captured /\ w.outer = th.outer
        /\ w.ended = "none"
    BY <1>2, <1>4, <2>1 DEF ThreadType, GoodRun
  <2>3. chainOf'[th.captured] # None /\ chainOf'[th.outer] # None
    BY <1>2, <1>7, Drifted DEF ThreadInv
  <2>4. Head(s) \notin Middle
    BY <2>1 DEF Middle
  <2>5. ThreadInv(w)' /\ ~Forking(w.left)
    BY <2>1, <2>2, <2>3, <2>4 DEF ThreadInv, GoodRun
  <2>6. (asker # None => asker # t) /\ (keyAsker # None => keyAsker # t)
    BY <1>1, <1>2 DEF CoreInv, AskInv, At
  <2>7. asker' = asker /\ keyAsker' = keyAsker
    BY <1>5 DEF asked
  <2>. QED
    BY <1>1, <1>2, <1>7, <1>9, <2>5, <2>6, <2>7, ThreadStep
<1>. QED
  BY <1>5, <1>8, <1>9

\* A kind is initialized: the context becomes one with a provider for its chain.
LEMMA DoneKeeps ==
    ASSUME StateInv, NEW k \in Kinds, NEW g \in Chains, NEW x \in Contexts, chainOf[x] \in ready,
           done' = [done EXCEPT ![k] = @ \cup {g}], context' = x,
           UNCHANGED <<blockchain, chainOf, contracts, payments>>
    PROVE  StateInv' /\ Drift
<1>1. done' \in [Kinds -> SUBSET Chains]
  BY DEF StateInv
<1>2. ready' = ready /\ chainOf'[context'] \in ready /\ ready \subseteq Chains /\ None \notin Chains
  BY CoreAssumption DEF blockchain, StateInv
<1>. QED
  BY <1>1, <1>2 DEF StateInv, Drift, Chain, blockchain, contracts, payments

LEMMA DoneSteps ==
    ASSUME CoreInv, NEW t \in Threads, RegistriesDone(t) \/ GovernanceDone(t) \/ PaymentsDone(t)
    PROVE  CoreInv'
<1>1. PICK th : th = thread[t]
  OBVIOUS
<1>2. /\ StateInv /\ ThreadInv(th) /\ th \in ThreadType /\ th.left # <<>>
      /\ Head(th.left) \in {"registriesDone", "governanceDone", "paymentsDone"}
  BY <1>1 DEF CoreInv, RegistriesDone, GovernanceDone, PaymentsDone, At, ThreadInv
<1>3. /\ th.captured \in Contexts /\ th.outer \in Contexts /\ th.asked \in Chains \cup {None}
      /\ th.g \in Chains /\ th.home \in Chains
  BY <1>2 DEF ThreadType
<1>4. /\ chainOf[th.captured] \in ready /\ ready \subseteq Chains
      /\ Head(th.left) = "paymentsDone" => chainOf[th.outer] \in ready
  BY <1>2, HeadNeeds DEF Needing, Homing, CapturedOK, OuterOK, StateInv
<1>5. /\ UNCHANGED <<blockchain, asked, chainOf, contracts, payments>>
      /\ thread' = [thread EXCEPT ![t] = GoOn(th)]
  BY <1>1 DEF RegistriesDone, GovernanceDone, PaymentsDone, Proceed, Becomes
<1>6. StateInv' /\ Drift
  <2>1. CASE RegistriesDone(t)
    <3>1. PICK g : g = IF th.asked = None THEN chainOf[th.captured] ELSE th.asked
      OBVIOUS
    <3>2. /\ g \in Chains /\ done' = [done EXCEPT !["registries"] = @ \cup {g}]
          /\ context' = th.captured /\ "registries" \in Kinds
      BY <1>1, <1>3, <1>4, <2>1, <3>1 DEF RegistriesDone, Kinds
    <3>. QED
      BY <1>2, <1>3, <1>4, <1>5, <3>2, DoneKeeps
  <2>2. CASE GovernanceDone(t)
    <3>1. /\ done' = [done EXCEPT !["governance"] = @ \cup {th.g}]
          /\ context' = th.captured /\ "governance" \in Kinds
      BY <1>1, <2>2 DEF GovernanceDone, Kinds
    <3>. QED
      BY <1>2, <1>3, <1>4, <1>5, <3>1, DoneKeeps
  <2>3. CASE PaymentsDone(t)
    <3>1. /\ done' = [done EXCEPT !["payments"] = @ \cup {th.home}]
          /\ context' = th.outer /\ "payments" \in Kinds /\ chainOf[th.outer] \in ready
      BY <1>1, <1>4, <2>3 DEF PaymentsDone, Kinds, At
    <3>. QED
      BY <1>2, <1>3, <1>5, <3>1, DoneKeeps
  <2>. QED
    BY <2>1, <2>2, <2>3
<1>7. Head(th.left) \notin Middle \cup {"provider", "payments", "initialized"}
  BY <1>2 DEF Middle
<1>. QED
  BY <1>1, <1>2, <1>5, <1>6, <1>7, PlainStep

LEMMA GovernanceContractsStep ==
    ASSUME CoreInv, NEW t \in Threads, MakeGovernanceContracts(t)
    PROVE  CoreInv'
<1>1. PICK th : th = thread[t]
  OBVIOUS
<1>2. /\ StateInv /\ ThreadInv(th) /\ th \in ThreadType /\ th.left # <<>>
      /\ Head(th.left) = "governance" /\ HasProvider
  BY <1>1 DEF CoreInv, MakeGovernanceContracts, At, ThreadInv
<1>3. governance' \in Contract
  BY <1>2, ContractsAre DEF MakeGovernanceContracts
<1>4. chainOf[th.captured] \in Chains /\ th.asked \in Chains \cup {None}
  BY <1>2, HeadNeeds DEF Needing, CapturedOK, StateInv, ThreadType
<1>5. PICK w : w = [th EXCEPT !.g = IF th.asked = None THEN chainOf[th.captured] ELSE th.asked]
  OBVIOUS
<1>6. /\ thread' = [thread EXCEPT ![t] = GoOn(w)]
      /\ UNCHANGED <<blockchain, asked, contextVars, registry, names, payments, done>>
  BY <1>1, <1>5 DEF MakeGovernanceContracts, Becomes
<1>7. StateInv' /\ Drift
  BY <1>2, <1>3, <1>6 DEF StateInv, Drift, Chain, blockchain, contextVars, payments
<1>8. /\ w \in ThreadType /\ w.left = th.left /\ w.ended = th.ended /\ w.captured = th.captured
      /\ w.outer = th.outer
  BY <1>2, <1>4, <1>5 DEF ThreadType
<1>9. /\ Head(th.left) \notin Middle \cup {"provider"} /\ Head(th.left) # "main"
      /\ Head(th.left) # "context" /\ Head(th.left) # "payments" /\ Head(th.left) # "initialized"
      /\ Head(th.left) # "choose" /\ Head(th.left) # "key"
  BY <1>2 DEF Middle
<1>10. asker' = asker /\ keyAsker' = keyAsker
  BY <1>6 DEF asked
<1>. QED
  BY <1>1, <1>2, <1>6, <1>7, <1>8, <1>9, <1>10, Proceeds

LEMMA PaymentsBeginStep ==
    ASSUME CoreInv, NEW t \in Threads, PaymentsBegin(t)
    PROVE  CoreInv'
<1>1. PICK th : th = thread[t]
  OBVIOUS
<1>2. /\ StateInv /\ ThreadInv(th) /\ th \in ThreadType /\ th.left # <<>>
      /\ Head(th.left) = "payments"
  BY <1>1 DEF CoreInv, PaymentsBegin, At, ThreadInv
<1>3. /\ chainOf[th.captured] \in ready /\ ready \subseteq Chains /\ th.captured \in Contexts
      /\ th.asked \in Chains \cup {None}
  BY <1>2, HeadNeeds DEF Needing, CapturedOK, StateInv, ThreadType
<1>4. PICK w : w = [th EXCEPT !.outer = th.captured,
                       !.home = IF th.asked = None THEN chainOf[th.captured] ELSE th.asked]
  OBVIOUS
<1>5. /\ thread' = [thread EXCEPT ![t] = GoOn(w)]
      /\ UNCHANGED <<blockchain, asked, contextVars, contracts, payments, done>>
  BY <1>1, <1>4 DEF PaymentsBegin, Becomes
<1>6. StateInv' /\ Drift
  BY <1>2, <1>5, SameState
<1>7. /\ w \in ThreadType /\ w.left = th.left /\ w.ended = th.ended /\ w.captured = th.captured
      /\ w.outer = th.captured
  BY <1>2, <1>3, <1>4 DEF ThreadType
<1>8. OuterOK(w)' /\ chainOf'[w.outer] \in ready'
  BY <1>3, <1>5, <1>7 DEF OuterOK, contextVars, blockchain
<1>9. /\ Head(th.left) \notin Middle \cup {"provider"} /\ Head(th.left) # "main"
      /\ Head(th.left) # "context" /\ Head(th.left) # "initialized"
      /\ Head(th.left) # "choose" /\ Head(th.left) # "key"
  BY <1>2 DEF Middle
<1>10. asker' = asker /\ keyAsker' = keyAsker
  BY <1>5 DEF asked
<1>. QED
  BY <1>1, <1>2, <1>5, <1>6, <1>7, <1>8, <1>9, <1>10, Proceeds

LEMMA AccountsSteps ==
    ASSUME CoreInv, NEW t \in Threads, GetAccounts(t) \/ GetIdentifier(t)
    PROVE  CoreInv'
<1>1. PICK th : th = thread[t]
  OBVIOUS
<1>2. /\ StateInv /\ ThreadInv(th) /\ th \in ThreadType /\ th.left # <<>>
      /\ Head(th.left) \in {"accounts", "ids"}
  BY <1>1 DEF CoreInv, GetAccounts, GetIdentifier, At, ThreadInv
<1>3. chainOf[th.outer] \in ready /\ th.outer \in Contexts
  BY <1>2, HeadNeeds DEF Homing, OuterOK, ThreadType
<1>4. /\ UNCHANGED <<blockchain, asked, contracts, done, node, listeners>>
      /\ account' \in {TRUE, account} /\ context' = th.outer
      /\ \/ chainOf' = chainOf
         \/ /\ chainOf["initialized"] = None
            /\ chainOf' = [chainOf EXCEPT !["initialized"] = chainOf[th.outer]]
      /\ thread' = [thread EXCEPT ![t] = GoOn(th)]
  BY <1>1 DEF GetAccounts, GetIdentifier, Proceed, Becomes, payments
<1>5. /\ ready' = ready /\ ready \subseteq Chains /\ None \notin Chains
      /\ chainOf \in [Contexts -> Chains \cup {None}]
  BY <1>2, <1>4, CoreAssumption DEF blockchain, StateInv
<1>6. /\ chainOf' \in [Contexts -> Chains \cup {None}] /\ chainOf'[th.outer] \in ready
      /\ \A x \in Contexts : chainOf'[x] = chainOf[x] \/ chainOf'[x] \in ready
      /\ chainOf'["context"] # None /\ chainOf'["initialized"] \in ready \cup {None}
  <2>1. CASE chainOf' = chainOf
    BY <1>2, <1>3, <1>5, <2>1 DEF StateInv
  <2>2. CASE chainOf' = [chainOf EXCEPT !["initialized"] = chainOf[th.outer]]
    <3>1. chainOf' \in [Contexts -> Chains \cup {None}]
      BY <1>3, <1>5, <2>2
    <3>2. \A x \in Contexts : chainOf'[x] = chainOf[x] \/ chainOf'[x] = chainOf[th.outer]
      BY <1>5, <2>2
    <3>3. chainOf'["initialized"] = chainOf[th.outer] /\ chainOf'["context"] = chainOf["context"]
      BY <1>5, <2>2 DEF Contexts
    <3>. QED
      BY <1>2, <1>3, <1>5, <3>1, <3>2, <3>3 DEF StateInv
  <2>. QED
    BY <1>4, <2>1, <2>2
<1>7. account' \in BOOLEAN
  BY <1>2, <1>4 DEF StateInv
<1>8. StateInv' /\ Drift
  BY <1>2, <1>3, <1>4, <1>5, <1>6, <1>7 DEF StateInv, Drift, Chain, blockchain, contracts
<1>9. Head(th.left) \notin Middle \cup {"provider", "payments", "initialized"}
  BY <1>2 DEF Middle
<1>. QED
  BY <1>1, <1>2, <1>4, <1>8, <1>9, PlainStep

\* The browser node and the listeners do not concern the chains.
LEMMA PaymentsKeep ==
    ASSUME StateInv, UNCHANGED <<blockchain, contextVars, contracts, account, done>>,
           node' \in {"none", "starting", "started", "failed"}, listeners' \in 0..MaxListeners
    PROVE  StateInv' /\ Drift
  BY DEF StateInv, Drift, Chain, blockchain, contextVars, contracts

LEMMA NodeSteps ==
    ASSUME CoreInv, NEW t \in Threads, StartNode(t) \/ Subscribe(t)
    PROVE  CoreInv'
<1>1. PICK th : th = thread[t]
  OBVIOUS
<1>2. /\ StateInv /\ th.left # <<>> /\ Head(th.left) \in {"node", "listeners"}
  BY <1>1 DEF CoreInv, StartNode, Subscribe, At
<1>3. /\ UNCHANGED <<blockchain, asked, contextVars, contracts, account, done>>
      /\ node' \in {node, "starting", "failed"}
      /\ listeners' = listeners \/ (listeners < MaxListeners /\ listeners' = listeners + 1)
      /\ thread' = [thread EXCEPT ![t] = GoOn(th)]
  BY <1>1 DEF StartNode, Subscribe, Proceed, Becomes
<1>4. /\ node' \in {"none", "starting", "started", "failed"} /\ listeners' \in 0..MaxListeners
  BY <1>2, <1>3, CoreAssumption DEF StateInv
<1>5. StateInv' /\ Drift
  BY <1>2, <1>3, <1>4, PaymentsKeep
<1>6. Head(th.left) \notin Middle \cup {"provider", "payments", "initialized"}
  BY <1>2 DEF Middle
<1>. QED
  BY <1>1, <1>2, <1>3, <1>5, <1>6, PlainStep

LEMMA WaitInitializedStep ==
    ASSUME CoreInv, NEW t \in Threads, WaitInitialized(t)
    PROVE  CoreInv'
<1>1. PICK th : th = thread[t]
  OBVIOUS
<1>2. /\ StateInv /\ th.left # <<>> /\ Head(th.left) = "initialized" /\ th \in ThreadType
      /\ chainOf["initialized"] # None
      /\ thread' = [thread EXCEPT ![t] = GoOn(th)]
      /\ UNCHANGED <<blockchain, asked, contextVars, contracts, payments, done>>
  BY <1>1 DEF CoreInv, WaitInitialized, At, Proceed, Becomes, ThreadInv
<1>3. StateInv' /\ Drift
  BY <1>2, SameState
<1>4. /\ Head(th.left) \notin Middle \cup {"provider"} /\ Head(th.left) # "main"
      /\ Head(th.left) # "context" /\ Head(th.left) # "payments"
      /\ Head(th.left) # "choose" /\ Head(th.left) # "key"
  BY <1>2 DEF Middle
<1>5. asker' = asker /\ keyAsker' = keyAsker /\ chainOf'["initialized"] # None
  BY <1>2 DEF asked, contextVars
<1>. QED
  BY <1>1, <1>2, <1>3, <1>4, <1>5, Proceeds

LEMMA AddChannelStep ==
    ASSUME CoreInv, NEW t \in Threads, AddChannel(t)
    PROVE  CoreInv'
<1>1. PICK th : th = thread[t]
  OBVIOUS
<1>2. /\ StateInv /\ ThreadInv(th) /\ th.left # <<>> /\ Head(th.left) = "channel"
      /\ context' \in {"initialized", context}
      /\ thread' = [thread EXCEPT ![t] = GoOn(th)]
      /\ UNCHANGED <<blockchain, asked, chainOf, contracts, payments, done>>
  BY <1>1 DEF CoreInv, AddChannel, At, Proceed, Becomes
<1>3. chainOf["initialized"] # None
  BY <1>2, HeadNeeds
<1>4. chainOf["initialized"] \in ready /\ ready' = ready
  BY <1>2, <1>3 DEF StateInv, blockchain
<1>5. StateInv' /\ Drift
  <2>1. context' \in Contexts /\ chainOf[context'] # None
    BY <1>2, <1>3 DEF StateInv, Chain, Contexts
  <2>2. context' = context \/ chainOf'[context'] \in ready'
    BY <1>2, <1>4
  <2>. QED
    BY <1>2, <1>4, <2>1, <2>2 DEF StateInv, Drift, Chain, blockchain, contracts, payments
<1>6. Head(th.left) \notin Middle \cup {"provider", "payments", "initialized"}
  BY <1>2 DEF Middle
<1>. QED
  BY <1>1, <1>2, <1>5, <1>6, PlainStep

LEMMA OtherSteps ==
    ASSUME CoreInv, NEW t \in Threads, Other(t) \/ Fails(t) \/ WaitForNames(t)
    PROVE  CoreInv'
<1>1. PICK th : th = thread[t]
  OBVIOUS
<1>2. StateInv /\ UNCHANGED <<blockchain, asked, contextVars, contracts, payments, done>>
  BY DEF CoreInv, Other, Fails, WaitForNames, WaitFor, Use
<1>3. StateInv' /\ Drift
  BY <1>2, SameState
<1>4. \/ /\ th.left # <<>>
         /\ Head(th.left) \in {"waitAny", "waitRegistries", "waitGovernance", "waitPayments"}
         /\ thread' = [thread EXCEPT ![t] = GoOn(th)]
      \/ /\ th.left # <<>> /\ Head(th.left) \notin {"choose", "key"}
         /\ \E end \in Ends : thread' = [thread EXCEPT ![t] = Ended(end)]
  <2>1. CASE Other(t)
    BY <1>1, <2>1 DEF Other, WaitFor, Use, At, Proceed, Becomes, Ends
  <2>2. CASE Fails(t)
    BY <1>1, <2>2 DEF Fails, MayFail, At, Becomes, Ends
  <2>3. CASE WaitForNames(t)
    BY <1>1, <2>3 DEF WaitForNames, At, Becomes, Ends
  <2>. QED
    BY <2>1, <2>2, <2>3
<1>5. CASE /\ th.left # <<>>
           /\ Head(th.left) \in {"waitAny", "waitRegistries", "waitGovernance", "waitPayments"}
           /\ thread' = [thread EXCEPT ![t] = GoOn(th)]
  <2>1. Head(th.left) \notin Middle \cup {"provider", "payments", "initialized"}
    BY <1>5 DEF Middle
  <2>. QED
    BY <1>1, <1>2, <1>3, <1>5, <2>1, PlainStep
<1>6. CASE /\ th.left # <<>> /\ Head(th.left) \notin {"choose", "key"}
           /\ \E end \in Ends : thread' = [thread EXCEPT ![t] = Ended(end)]
  BY <1>1, <1>2, <1>3, <1>6, EndsThere
<1>. QED
  BY <1>4, <1>5, <1>6

\* A thread that begins with a method.
LEMMA Begins ==
    ASSUME StateInv', NEW new \in ThreadType, GoodRun(new.left), new.captured = "context",
           new.outer = "context", new.ended = "none"
    PROVE  ThreadInv(new)'
<1>1. new.left \in Seq(Pieces) /\ new.left # <<>> /\ new.left[1] \notin Middle \cup {"channel"}
  BY DEF GoodRun
<1>2. Head(new.left) \notin Middle \cup {"channel"}
  BY <1>1, FirstPiece
<1>3. chainOf'["context"] # None
  BY DEF StateInv
<1>4. Head(new.left) # "context"
  BY <1>2 DEF Middle
<1>. QED
  BY <1>2, <1>3, <1>4 DEF ThreadInv, GoodRun

LEMMA IdleIsWell ==
    ASSUME StateInv'
    PROVE  ThreadInv(Idle)' /\ Idle.left = <<>> /\ ~Forking(Idle.left)
<1>1. Ended("none") = Idle
  BY DEF Ended, Idle
<1>2. "none" \in Ends
  BY DEF Ends
<1>. QED
  BY <1>1, <1>2, EndsWell

LEMMA ForkKeeps ==
    ASSUME CoreInv, NEW t \in Threads, NEW kinds \in SUBSET Kinds, Fork(t, kinds),
           thread[t].left # <<>>, Head(thread[t].left) \in Forks,
           UNCHANGED <<blockchain, asked, contextVars, contracts, payments, done>>
    PROVE  CoreInv'
<1>1. PICK th : th = thread[t]
  OBVIOUS
<1>2. /\ StateInv /\ ThreadInv(th) /\ th.left # <<>> /\ th \in ThreadType
      /\ th.left \in Seq(Pieces) /\ th.left[1] \in Forks /\ 1 \in 1..Len(th.left)
      /\ ForksOnce(th.left) /\ th.asked \in Chains \cup {None} /\ Head(th.left) = th.left[1]
  BY <1>1, HeadNeeds DEF CoreInv, ThreadInv, ThreadType
<1>3. StateInv' /\ Drift
  BY <1>2, SameState
<1>4. PICK c \in Calls : t = <<c, "call">>
  <2>1. PICK c \in Calls, x \in Kinds \cup {"call"} : t = <<c, x>>
    BY DEF Threads
  <2>2. Forking(th.left)
    BY <1>2 DEF Forking
  <2>3. x \notin Kinds
    BY <1>1, <2>1, <2>2 DEF CoreInv, ForkInv
  <2>. QED
    BY <2>1, <2>3
<1>5. \A k \in Kinds : thread[<<c, k>>].left = <<>>
  <2>1. Forking(th.left)
    BY <1>2 DEF Forking
  <2>. QED
    BY <1>1, <1>4, <2>1 DEF CoreInv, ForkInv
<1>6. PICK next : next = GoOn(th)
  OBVIOUS
<1>7. ThreadInv(next)' /\ ~Forking(next.left)
  <2>1. /\ Head(th.left) \notin Middle \cup {"provider"} /\ Head(th.left) # "main"
        /\ Head(th.left) # "context" /\ Head(th.left) # "payments"
        /\ Head(th.left) # "initialized"
    BY <1>2 DEF Middle, Forks
  <2>2. /\ ThreadInv(next)'
        /\ Len(th.left) # 1 => next.left = Rest(th.left, 2)
        /\ Len(th.left) = 1 => next.left = <<>>
    BY <1>2, <1>3, <1>6, <2>1, GoesOn
  <2>3. CASE Len(th.left) = 1
    <3>1. Len(next.left) = 0
      BY <2>2, <2>3
    <3>. QED
      BY <2>2, <3>1 DEF Forking
  <2>4. CASE Len(th.left) # 1
    <3>1. 2 \in 1..Len(th.left) /\ 1 \in 1..(2 - 1)
      BY <1>2, <2>4, TailIs
    <3>. QED
      BY <1>2, <2>2, <2>4, <3>1, RestForks
  <2>. QED
    BY <2>3, <2>4
<1>8. \A u \in Threads : thread'[u] = CASE u = t -> next
            [] u[1] = c /\ u[2] \in kinds -> [Idle EXCEPT !.left = RunOf(u[2]), !.asked = th.asked]
            [] OTHER -> thread[u]
  BY <1>1, <1>4, <1>6 DEF Fork
<1>9. /\ thread'[t] = next
      /\ \A k \in kinds : thread'[<<c, k>>] = [Idle EXCEPT !.left = RunOf(k), !.asked = th.asked]
      /\ \A u \in Threads : u # t /\ ~(u[1] = c /\ u[2] \in kinds) => thread'[u] = thread[u]
  <2>1. thread'[t] = next
    <3>1. ~(t[1] = c /\ t[2] \in kinds)
      BY <1>4 DEF Kinds
    <3>. QED
      BY <1>8, <3>1
  <2>2. ASSUME NEW k \in kinds
        PROVE  thread'[<<c, k>>] = [Idle EXCEPT !.left = RunOf(k), !.asked = th.asked]
    <3>1. <<c, k>> \in Threads /\ <<c, k>> # t /\ <<c, k>>[1] = c /\ <<c, k>>[2] = k
      BY <1>4 DEF Threads, Kinds
    <3>. QED
      BY <1>8, <3>1
  <2>3. \A u \in Threads : u # t /\ ~(u[1] = c /\ u[2] \in kinds) => thread'[u] = thread[u]
    BY <1>8
  <2>. QED
    BY <2>1, <2>2, <2>3
<1>10. ASSUME NEW k \in kinds
       PROVE  ThreadInv(thread[<<c, k>>])' /\ ~Forking(thread'[<<c, k>>].left)
  <2>1. PICK new : new = [Idle EXCEPT !.left = RunOf(k), !.asked = th.asked]
    OBVIOUS
  <2>2. GoodRun(RunOf(k)) /\ ~Forking(RunOf(k)) /\ RunOf(k) \in Seq(Pieces)
    BY KindRuns DEF GoodRun
  <2>3. /\ new \in ThreadType /\ new.left = RunOf(k) /\ new.captured = "context"
        /\ new.outer = "context" /\ new.ended = "none"
    BY <1>2, <2>1, <2>2, CoreAssumption DEF Idle, ThreadType, Contexts, Ends
  <2>4. ThreadInv(new)'
    BY <1>3, <2>2, <2>3, Begins
  <2>5. thread'[<<c, k>>] = new
    BY <1>9, <2>1
  <2>. QED
    BY <2>2, <2>3, <2>4, <2>5 DEF ThreadInv, MiddleOK, CapturedOK, OuterOK
<1>11. ASSUME NEW u \in Threads PROVE ThreadInv(thread[u])'
  <2>1. CASE u = t
    <3>1. thread'[u] = next
      BY <1>9, <2>1
    <3>. QED
      BY <1>7, <3>1 DEF ThreadInv, MiddleOK, CapturedOK, OuterOK
  <2>2. CASE u[1] = c /\ u[2] \in kinds
    <3>1. PICK k \in kinds : u = <<c, k>>
      BY <2>2 DEF Threads
    <3>2. ThreadInv(thread[<<c, k>>])'
      BY <1>10
    <3>3. thread'[u] = thread'[<<c, k>>]
      BY <3>1
    <3>. QED
      BY <3>2, <3>3 DEF ThreadInv, MiddleOK, CapturedOK, OuterOK
  <2>3. CASE u # t /\ ~(u[1] = c /\ u[2] \in kinds)
    <3>1. PICK old : old = thread[u]
      OBVIOUS
    <3>2. ThreadInv(old)' /\ thread'[u] = old
      BY <1>3, <1>9, <2>3, <3>1, ThreadStays DEF CoreInv
    <3>. QED
      BY <3>2 DEF ThreadInv, MiddleOK, CapturedOK, OuterOK
  <2>. QED
    BY <2>1, <2>2, <2>3
<1>12. \A u \in Threads : thread'[u] \in ThreadType
  BY <1>11 DEF ThreadInv
<1>13. thread' \in [Threads -> ThreadType]
  <2>. DEFINE G(u) == CASE u = t -> GoOn(thread[t])
                        [] u[1] = t[1] /\ u[2] \in kinds ->
                               [Idle EXCEPT !.left = RunOf(u[2]), !.asked = thread[t].asked]
                        [] OTHER -> thread[u]
  <2>1. thread' = [u \in Threads |-> G(u)]
    BY Zenon DEF Fork
  <2>. HIDE DEF G
  <2>2. \A u \in Threads : G(u) = thread'[u]
    BY <2>1
  <2>3. \A u \in Threads : G(u) \in ThreadType
    BY <1>12, <2>2
  <2>. QED
    BY <2>1, <2>3
<1>14. AskInv'
  <2>1. ASSUME NEW u \in Threads, thread[u].left # <<>>, Head(thread[u].left) \notin Forks
        PROVE  thread'[u] = thread[u]
    <3>1. u # t
      BY <2>1
    <3>2. ~(u[1] = c /\ u[2] \in kinds)
      BY <1>5, <2>1 DEF Threads
    <3>. QED
      BY <1>9, <3>1, <3>2
  <2>2. asker' = asker /\ keyAsker' = keyAsker /\ "choose" \notin Forks /\ "key" \notin Forks
    BY DEF asked, Forks
  <2>. QED
    BY <2>1, <2>2 DEF CoreInv, AskInv, At
<1>15. ForkInv'
  <2>. SUFFICES ASSUME NEW d \in Calls, NEW k \in Kinds
                PROVE  /\ ~Forking(thread'[<<d, k>>].left)
                       /\ Forking(thread'[<<d, "call">>].left) => thread'[<<d, k>>].left = <<>>
    BY DEF ForkInv
  <2>1. /\ <<d, k>> \in Threads /\ <<d, "call">> \in Threads /\ <<d, k>> # t
        /\ <<d, k>>[1] = d /\ <<d, k>>[2] = k /\ <<d, "call">>[1] = d
        /\ <<d, "call">>[2] \notin kinds
    BY <1>4 DEF Threads, Kinds
  <2>2. /\ ~Forking(thread[<<d, k>>].left)
        /\ Forking(thread[<<d, "call">>].left) => thread[<<d, k>>].left = <<>>
    BY DEF CoreInv, ForkInv
  <2>3. ~Forking(thread'[<<d, k>>].left)
    <3>1. CASE d = c /\ k \in kinds
      BY <1>10, <3>1
    <3>2. CASE ~(d = c /\ k \in kinds)
      BY <1>9, <2>1, <2>2, <3>2
    <3>. QED
      BY <3>1, <3>2
  <2>4. CASE d = c
    BY <1>4, <1>7, <1>9, <2>3, <2>4
  <2>5. CASE d # c
    <3>1. <<d, "call">> # t
      BY <1>4, <2>5
    <3>. QED
      BY <1>9, <2>1, <2>2, <2>3, <2>5, <3>1
  <2>. QED
    BY <2>4, <2>5
<1>. QED
  BY <1>3, <1>11, <1>13, <1>14, <1>15 DEF CoreInv

LEMMA ForkSteps ==
    ASSUME CoreInv, NEW t \in Threads, ForkRest(t) \/ ForkDone(t)
    PROVE  CoreInv'
<1>1. CASE ForkRest(t)
  <2>1. {"governance", "payments"} \in SUBSET Kinds /\ "forkRest" \in Forks
    BY DEF Kinds, Forks
  <2>. QED
    BY <1>1, <2>1, ForkKeeps DEF ForkRest, At
<1>2. CASE ForkDone(t)
  <2>1. {k \in Kinds : done[k] # {}} \in SUBSET Kinds /\ "forkDone" \in Forks
    BY DEF Forks
  <2>. QED
    BY <1>2, <2>1, ForkKeeps DEF ForkDone, At
<1>. QED
  BY <1>1, <1>2

LEMMA JoinStep ==
    ASSUME CoreInv, NEW t \in Threads, Join(t)
    PROVE  CoreInv'
<1>1. PICK th : th = thread[t]
  OBVIOUS
<1>2. /\ StateInv /\ ThreadInv(th) /\ th \in ThreadType /\ th.left # <<>> /\ Head(th.left) = "join"
      /\ UNCHANGED <<blockchain, asked, contextVars, contracts, payments, done>>
  BY <1>1 DEF CoreInv, Join, At, ThreadInv
<1>3. StateInv' /\ Drift
  BY <1>2, SameState
<1>4. PICK next : next = IF \E v \in {u \in Threads : u[1] = t[1] /\ u # t} : thread[v].ended = "error"
                         THEN Ended("error") ELSE GoOn(th)
  OBVIOUS
<1>5. ThreadInv(next)' /\ (Forking(next.left) => Forking(th.left))
  <2>1. /\ Head(th.left) \notin Middle \cup {"provider"} /\ Head(th.left) # "main"
        /\ Head(th.left) # "context" /\ Head(th.left) # "payments"
        /\ Head(th.left) # "initialized" /\ "error" \in Ends
    BY <1>2 DEF Middle, Ends
  <2>2. ThreadInv(GoOn(th))' /\ (Forking(GoOn(th).left) => Forking(th.left))
    BY <1>2, <1>3, <2>1, GoesOn
  <2>3. ThreadInv(Ended("error"))' /\ ~Forking(Ended("error").left)
    BY <1>3, <2>1, EndsWell
  <2>4. next = Ended("error") \/ next = GoOn(th)
    BY <1>4
  <2>5. CASE next = Ended("error")
    BY <2>3, <2>5
  <2>6. CASE next = GoOn(th)
    BY <2>2, <2>6
  <2>. QED
    BY <2>4, <2>5, <2>6
<1>6. /\ \A u \in Threads : u[1] = t[1] /\ u # t => thread[u].left = <<>> /\ thread'[u] = Idle
      /\ thread'[t] = next
      /\ \A u \in Threads : u[1] # t[1] => thread'[u] = thread[u]
  BY <1>1, <1>4 DEF Join
<1>7. ThreadInv(Idle)' /\ Idle.left = <<>> /\ ~Forking(Idle.left)
  BY <1>3, IdleIsWell
<1>8. ASSUME NEW u \in Threads PROVE ThreadInv(thread[u])'
  <2>1. CASE u = t
    BY <1>5, <1>6, <2>1 DEF ThreadInv, MiddleOK, CapturedOK, OuterOK
  <2>2. CASE u[1] = t[1] /\ u # t
    BY <1>6, <1>7, <2>2 DEF ThreadInv, MiddleOK, CapturedOK, OuterOK
  <2>3. CASE u[1] # t[1]
    <3>1. PICK old : old = thread[u]
      OBVIOUS
    <3>2. ThreadInv(old)' /\ thread'[u] = old
      BY <1>3, <1>6, <2>3, <3>1, ThreadStays DEF CoreInv
    <3>. QED
      BY <3>2 DEF ThreadInv, MiddleOK, CapturedOK, OuterOK
  <2>. QED
    BY <2>1, <2>2, <2>3
<1>9. thread' \in [Threads -> ThreadType]
  <2>1. \A u \in Threads : thread'[u] \in ThreadType
    BY <1>8 DEF ThreadInv
  <2>2. PICK f : f = thread'
    OBVIOUS
  <2>3. f = [u \in Threads |-> f[u]]
    BY <2>2 DEF Join
  <2>. QED
    BY <2>1, <2>2, <2>3
<1>10. AskInv'
  <2>1. ASSUME NEW u \in Threads, thread[u].left # <<>>, Head(thread[u].left) # "join"
        PROVE  thread'[u] = thread[u]
    BY <1>1, <1>2, <1>6, <2>1
  <2>2. asker' = asker /\ keyAsker' = keyAsker
    BY <1>2 DEF asked
  <2>. QED
    BY <2>1, <2>2 DEF CoreInv, AskInv, At
<1>11. ForkInv'
  <2>. SUFFICES ASSUME NEW d \in Calls, NEW k \in Kinds
                PROVE  /\ ~Forking(thread'[<<d, k>>].left)
                       /\ Forking(thread'[<<d, "call">>].left) => thread'[<<d, k>>].left = <<>>
    BY DEF ForkInv
  <2>1. /\ <<d, k>> \in Threads /\ <<d, "call">> \in Threads /\ <<d, "call">> # <<d, k>>
        /\ <<d, k>>[1] = d /\ <<d, "call">>[1] = d
    BY DEF Threads, Kinds
  <2>2. /\ ~Forking(thread[<<d, k>>].left)
        /\ Forking(thread[<<d, "call">>].left) => thread[<<d, k>>].left = <<>>
    BY DEF CoreInv, ForkInv
  <2>3. CASE t = <<d, "call">>
    BY <1>6, <1>7, <2>1, <2>3
  <2>4. CASE t = <<d, k>>
    BY <1>1, <1>5, <1>6, <1>7, <2>1, <2>2, <2>4
  <2>5. CASE t[1] = d /\ t # <<d, "call">> /\ t # <<d, k>>
    BY <1>6, <1>7, <2>1, <2>5
  <2>6. CASE t[1] # d
    BY <1>6, <2>1, <2>2, <2>6
  <2>. QED
    BY <2>1, <2>3, <2>4, <2>5, <2>6
<1>. QED
  BY <1>3, <1>8, <1>9, <1>10, <1>11 DEF CoreInv

LEMMA StepKeeps ==
    ASSUME CoreInv, NEW t \in Threads, Step(t)
    PROVE  CoreInv'
  BY GetProviderStep, ConnectStep, UseMainProviderStep, SetChainStep, SwitchNetworkStep,
     SignerStep, ListenStep, RegistryContractsStep, ReadNamesStep, DoneSteps,
     GovernanceContractsStep, PaymentsBeginStep, AccountsSteps, NodeSteps, ForkSteps,
     JoinStep, WaitInitializedStep, AddChannelStep, OtherSteps DEF Step

\* The browser node, and the user's wallet.
LEMMA OutsideSteps ==
    ASSUME CoreInv, NodeStarts \/ WalletMoves
    PROVE  CoreInv'
<1>1. StateInv /\ UNCHANGED <<thread, asked, ready, chainOf, context>>
  BY DEF CoreInv, NodeStarts, WalletMoves, blockchain, contextVars
<1>2. StateInv' /\ Drift
  <2>1. CASE NodeStarts
    <3>1. /\ UNCHANGED <<blockchain, contextVars, contracts, account, done, listeners>>
          /\ node' \in {"none", "starting", "started", "failed"}
      BY <2>1 DEF NodeStarts
    <3>2. listeners' \in 0..MaxListeners
      BY <1>1, <3>1 DEF StateInv
    <3>. QED
      BY <1>1, <3>1, <3>2, PaymentsKeep
  <2>2. CASE WalletMoves
    <3>1. /\ wallet' \in Chains
          /\ UNCHANGED <<modal, provider, metamask, ready, governanceProvider, governanceSigner,
                         contextVars, contracts, payments, done>>
      BY <2>2 DEF WalletMoves
    <3>. QED
      BY <1>1, <3>1 DEF StateInv, Drift, Chain, contextVars, contracts, payments
  <2>. QED
    BY <2>1, <2>2
<1>3. ASSUME NEW u \in Threads PROVE ThreadInv(thread[u])'
  <2>1. ThreadInv(thread[u])
    BY DEF CoreInv
  <2>. QED
    BY <1>1, <2>1 DEF ThreadInv, MiddleOK, CapturedOK, OuterOK, HasProvider, Chain
<1>4. AskInv' /\ ForkInv'
  BY <1>1 DEF CoreInv, AskInv, ForkInv, At, asked
<1>. QED
  BY <1>1, <1>2, <1>3, <1>4 DEF CoreInv

\* A step of a call leaves the threads of the others alone.
LEMMA StepIsOwn ==
    ASSUME NEW t \in Threads, Step(t)
    PROVE  /\ thread[t].left # <<>>
           /\ \A u \in Threads : u[1] # t[1] => thread'[u] = thread[u]
<1>1. CASE \/ ForkRest(t) \/ ForkDone(t) \/ Join(t)
  <2>1. thread[t].left # <<>>
    BY <1>1 DEF ForkRest, ForkDone, Join, At
  <2>2. \A u \in Threads : u[1] # t[1] => u # t
    OBVIOUS
  <2>3. CASE Join(t)
    BY <2>1, <2>2, <2>3 DEF Join
  <2>4. ASSUME NEW kinds, Fork(t, kinds)
        PROVE  \A u \in Threads : u[1] # t[1] => thread'[u] = thread[u]
    BY <2>2, <2>4 DEF Fork
  <2>. QED
    BY <1>1, <2>1, <2>3, <2>4 DEF ForkRest, ForkDone
<1>2. CASE ~(ForkRest(t) \/ ForkDone(t) \/ Join(t))
  <2>1. thread[t].left # <<>>
    BY <1>2 DEF Step, GetProvider, Connect, UseMainProvider, SetChain, SwitchNetwork,
       SetGovernanceSigner, Listen, MakeRegistryContracts, ReadNames, WaitForNames,
       RegistriesDone, MakeGovernanceContracts, GovernanceDone, PaymentsBegin, GetAccounts,
       StartNode, GetIdentifier, Subscribe, PaymentsDone, WaitInitialized, AddChannel,
       Other, WaitFor, Use, Fails, MayFail, At
  <2>2. \E new : thread' = [thread EXCEPT ![t] = new]
    <3>1. CASE \/ GetProvider(t) \/ Connect(t) \/ UseMainProvider(t) \/ SetChain(t)
               \/ SwitchNetwork(t) \/ SetGovernanceSigner(t) \/ Listen(t)
      BY <3>1 DEF GetProvider, Connect, AskForKey, UseMainProvider, SetChain, SwitchNetwork,
         SetGovernanceSigner, Listen, Proceed, Becomes
    <3>2. CASE \/ MakeRegistryContracts(t) \/ ReadNames(t) \/ WaitForNames(t)
               \/ RegistriesDone(t) \/ MakeGovernanceContracts(t) \/ GovernanceDone(t)
      BY <3>2 DEF MakeRegistryContracts, ReadNames, WaitForNames, RegistriesDone,
         MakeGovernanceContracts, GovernanceDone, Proceed, Becomes
    <3>3. CASE \/ PaymentsBegin(t) \/ GetAccounts(t) \/ StartNode(t) \/ GetIdentifier(t)
               \/ Subscribe(t) \/ PaymentsDone(t) \/ WaitInitialized(t) \/ AddChannel(t)
      BY <3>3 DEF PaymentsBegin, GetAccounts, StartNode, GetIdentifier, Subscribe,
         PaymentsDone, WaitInitialized, AddChannel, Proceed, Becomes
    <3>4. CASE Other(t) \/ Fails(t)
      BY <3>4 DEF Other, WaitFor, Use, Fails, Proceed, Becomes
    <3>. QED
      BY <1>2, <3>1, <3>2, <3>3, <3>4 DEF Step
  <2>. QED
    BY <2>1, <2>2
<1>. QED
  BY <1>1, <1>2

\* A call that the core receives, of which there is no thread.
LEMMA BeginKeeps ==
    ASSUME CoreInv, NEW c \in Calls, \A x \in Kinds \cup {"call"} : thread[<<c, x>>] = Idle,
           NEW run, GoodRun(run), NEW chain \in Chains \cup {None}, Begin(c, run, chain),
           UNCHANGED <<blockchain, asked, contextVars, contracts, payments, done>>
    PROVE  CoreInv'
<1>1. StateInv' /\ StateInv /\ Drift
  BY SameState DEF CoreInv
<1>2. PICK t : t = <<c, "call">>
  OBVIOUS
<1>3. PICK new : new = [Idle EXCEPT !.left = run, !.asked = chain,
                                    !.g = IF chain = None THEN Chain ELSE chain]
  OBVIOUS
<1>4. Chain \in Chains
  BY <1>1 DEF StateInv, Chain
<1>5. /\ new \in ThreadType /\ new.left = run /\ new.captured = "context"
      /\ new.outer = "context" /\ new.ended = "none"
  BY <1>3, <1>4, CoreAssumption DEF GoodRun, Idle, ThreadType, Contexts, Ends
<1>6. ThreadInv(new)'
  BY <1>1, <1>5, Begins
<1>7. t \in Threads /\ thread' = [thread EXCEPT ![t] = new] /\ thread \in [Threads -> ThreadType]
  BY <1>2, <1>3 DEF Begin, Becomes, Threads, CoreInv
<1>8. thread'[t] = new /\ \A u \in Threads : u # t => thread'[u] = thread[u]
  BY <1>7
<1>9. thread' \in [Threads -> ThreadType]
  BY <1>5, <1>7
<1>10. ASSUME NEW u \in Threads PROVE ThreadInv(thread[u])'
  <2>1. CASE u = t
    BY <1>6, <1>8, <2>1 DEF ThreadInv, MiddleOK, CapturedOK, OuterOK
  <2>2. CASE u # t
    <3>1. PICK old : old = thread[u]
      OBVIOUS
    <3>2. ThreadInv(old)' /\ thread'[u] = old
      BY <1>1, <1>8, <2>2, <3>1, ThreadStays DEF CoreInv
    <3>. QED
      BY <3>2 DEF ThreadInv, MiddleOK, CapturedOK, OuterOK
  <2>. QED
    BY <2>1, <2>2
<1>11. thread[t].left = <<>> /\ \A k \in Kinds : thread[<<c, k>>].left = <<>>
  BY <1>2 DEF Idle
<1>12. AskInv'
  <2>1. asker' = asker /\ keyAsker' = keyAsker
    BY DEF asked
  <2>. QED
    BY <1>8, <1>11, <2>1 DEF CoreInv, AskInv, At
<1>13. ForkInv'
  <2>. SUFFICES ASSUME NEW d \in Calls, NEW k \in Kinds
                PROVE  /\ ~Forking(thread'[<<d, k>>].left)
                       /\ Forking(thread'[<<d, "call">>].left) => thread'[<<d, k>>].left = <<>>
    BY DEF ForkInv
  <2>1. /\ <<d, k>> \in Threads /\ <<d, "call">> \in Threads /\ <<d, k>> # t
    BY <1>2 DEF Threads, Kinds
  <2>2. /\ ~Forking(thread[<<d, k>>].left)
        /\ Forking(thread[<<d, "call">>].left) => thread[<<d, k>>].left = <<>>
    BY DEF CoreInv, ForkInv
  <2>3. thread'[<<d, k>>] = thread[<<d, k>>]
    BY <1>8, <2>1
  <2>4. CASE d = c
    BY <1>11, <2>2, <2>3, <2>4
  <2>5. CASE d # c
    <3>1. <<d, "call">> # t
      BY <1>2, <2>5
    <3>. QED
      BY <1>8, <2>1, <2>2, <2>3, <3>1
  <2>. QED
    BY <2>4, <2>5
<1>. QED
  BY <1>1, <1>9, <1>10, <1>12, <1>13 DEF CoreInv

\* A thread that has ended is free again.
LEMMA FreeAgain ==
    ASSUME CoreInv, NEW t \in Threads, thread[t].left = <<>>,
           thread' = [thread EXCEPT ![t] = Idle],
           UNCHANGED <<blockchain, asked, contextVars, contracts, payments, done>>
    PROVE  CoreInv'
<1>1. StateInv' /\ StateInv /\ Drift
  BY SameState DEF CoreInv
<1>2. ThreadInv(Idle)' /\ Idle.left = <<>> /\ ~Forking(Idle.left)
  BY <1>1, IdleIsWell
<1>3. /\ thread \in [Threads -> ThreadType] /\ Idle \in ThreadType
      /\ thread'[t] = Idle /\ \A u \in Threads : u # t => thread'[u] = thread[u]
  BY <1>2 DEF CoreInv, ThreadInv
<1>4. thread' \in [Threads -> ThreadType]
  BY <1>3
<1>5. ASSUME NEW u \in Threads PROVE ThreadInv(thread[u])'
  <2>1. CASE u = t
    BY <1>2, <1>3, <2>1 DEF ThreadInv, MiddleOK, CapturedOK, OuterOK
  <2>2. CASE u # t
    <3>1. PICK old : old = thread[u]
      OBVIOUS
    <3>2. ThreadInv(old)' /\ thread'[u] = old
      BY <1>1, <1>3, <2>2, <3>1, ThreadStays DEF CoreInv
    <3>. QED
      BY <3>2 DEF ThreadInv, MiddleOK, CapturedOK, OuterOK
  <2>. QED
    BY <2>1, <2>2
<1>6. \A u \in Threads : thread'[u].left = thread[u].left
  BY <1>2, <1>3
<1>7. AskInv'
  <2>1. asker' = asker /\ keyAsker' = keyAsker
    BY DEF asked
  <2>. QED
    BY <1>6, <2>1 DEF CoreInv, AskInv, At
<1>8. ForkInv'
  <2>1. \A c \in Calls, x \in Kinds \cup {"call"} : <<c, x>> \in Threads
    BY DEF Threads
  <2>. QED
    BY <1>6, <2>1 DEF CoreInv, ForkInv
<1>. QED
  BY <1>1, <1>4, <1>5, <1>7, <1>8 DEF CoreInv

Inv == CoreInv /\ PageInv

\* The queues, as they grow and shrink.
LEMMA QueueGrows ==
    ASSUME NEW queue, NEW calls \in Page, Queued(queue, calls), NEW c \in Calls,
           calls[c].state # "sent", NEW next \in Page, next[c].state = "sent",
           \A d \in Calls : d # c => next[d] = calls[d]
    PROVE  Queued(Append(queue, c), next)
<1>1. /\ queue \in Seq(Calls) /\ Len(queue) \in Nat
      /\ \A i \in 1..Len(queue) : queue[i] \in Calls /\ calls[queue[i]].state = "sent"
  BY ElementOfSeq, LenProperties DEF Queued
<1>. DEFINE longer == Append(queue, c)
<1>2. /\ longer \in Seq(Calls) /\ Len(longer) = Len(queue) + 1
      /\ \A i \in 1..Len(queue) : longer[i] = queue[i]
      /\ longer[Len(queue) + 1] = c
  BY <1>1, AppendProperties
<1>. HIDE DEF longer
<1>3. \A i \in 1..Len(longer) : i \in 1..Len(queue) \/ i = Len(queue) + 1
  BY <1>1, <1>2
<1>4. \A i \in 1..Len(queue) : longer[i] \in Calls /\ longer[i] # c /\ next[longer[i]].state = "sent"
  BY <1>1, <1>2
<1>5. \A i \in 1..Len(longer) : next[longer[i]].state = "sent"
  BY <1>2, <1>3, <1>4
<1>6. \A i, j \in 1..Len(longer) : longer[i] = longer[j] => i = j
  <2>. SUFFICES ASSUME NEW i \in 1..Len(longer), NEW j \in 1..Len(longer), longer[i] = longer[j]
                PROVE  i = j
    OBVIOUS
  <2>1. CASE i \in 1..Len(queue) /\ j \in 1..Len(queue)
    BY <1>2, <2>1 DEF Queued
  <2>2. CASE i = Len(queue) + 1 /\ j = Len(queue) + 1
    BY <2>2
  <2>3. CASE i = Len(queue) + 1 /\ j \in 1..Len(queue)
    BY <1>2, <1>4, <2>3
  <2>4. CASE j = Len(queue) + 1 /\ i \in 1..Len(queue)
    BY <1>2, <1>4, <2>4
  <2>. QED
    BY <1>3, <2>1, <2>2, <2>3, <2>4
<1>. QED
  BY <1>2, <1>5, <1>6 DEF Queued, longer

LEMMA QueueShrinks ==
    ASSUME NEW queue, NEW calls \in Page, Queued(queue, calls), queue # <<>>,
           NEW next \in Page, \A d \in Calls : d # Head(queue) => next[d] = calls[d]
    PROVE  /\ Head(queue) \in Calls /\ calls[Head(queue)].state = "sent"
           /\ Queued(Tail(queue), next)
<1>1. /\ queue \in Seq(Calls) /\ Len(queue) \in Nat
      /\ \A i \in 1..Len(queue) : queue[i] \in Calls /\ calls[queue[i]].state = "sent"
  BY ElementOfSeq, LenProperties DEF Queued
<1>2. Len(queue) \in Nat \ {0}
  BY <1>1, EmptySeq
<1>3. 1 \in 1..Len(queue) /\ Head(queue) = queue[1]
  BY <1>1, <1>2
<1>. DEFINE rest == Tail(queue)
<1>4. /\ rest \in Seq(Calls) /\ Len(rest) = Len(queue) - 1
      /\ \A i \in 1..Len(rest) : rest[i] = queue[i + 1]
  BY <1>1, HeadTailProperties
<1>. HIDE DEF rest
<1>5. \A i \in 1..Len(rest) : i + 1 \in 1..Len(queue) /\ i + 1 # 1
  BY <1>2, <1>4
<1>6. \A i \in 1..Len(rest) : rest[i] \in Calls /\ rest[i] # Head(queue) /\ calls[rest[i]].state = "sent"
  <2>. SUFFICES ASSUME NEW i \in 1..Len(rest)
                PROVE  rest[i] \in Calls /\ rest[i] # Head(queue) /\ calls[rest[i]].state = "sent"
    OBVIOUS
  <2>1. i + 1 \in 1..Len(queue) /\ i + 1 # 1 /\ rest[i] = queue[i + 1]
    BY <1>4, <1>5
  <2>2. queue[i + 1] # queue[1]
    BY <1>3, <2>1 DEF Queued
  <2>. QED
    BY <1>1, <1>3, <2>1, <2>2
<1>7. \A i, j \in 1..Len(rest) : rest[i] = rest[j] => i = j
  <2>. SUFFICES ASSUME NEW i \in 1..Len(rest), NEW j \in 1..Len(rest), rest[i] = rest[j]
                PROVE  i = j
    OBVIOUS
  <2>1. queue[i + 1] = queue[j + 1] /\ i + 1 \in 1..Len(queue) /\ j + 1 \in 1..Len(queue)
    BY <1>4, <1>5
  <2>2. i + 1 = j + 1
    BY <2>1 DEF Queued
  <2>. QED
    BY <1>4, <2>2
<1>. QED
  BY <1>1, <1>3, <1>4, <1>6, <1>7 DEF Queued, rest

LEMMA ToldStays ==
    ASSUME NEW messages, NEW calls, NEW next, Told(messages, calls),
           \A c \in Calls : Fresh(next, c) => Fresh(calls, c)
    PROVE  Told(messages, next)
<1>. SUFFICES ASSUME NEW i \in 1..Len(messages) PROVE Message(messages[i], next)
  BY DEF Told
<1>1. Message(messages[i], calls)
  BY DEF Told
<1>. QED
  BY <1>1 DEF Message, Messages

LEMMA ToldGrows ==
    ASSUME NEW messages, NEW more, NEW calls, Told(messages, calls), Told(more, calls)
    PROVE  Told(messages \o more, calls)
<1>. DEFINE u == messages \o more
            m == Len(messages)
<1>1. messages \in Seq(Messages) /\ more \in Seq(Messages)
  BY DEF Told
<1>2. /\ u \in Seq(Messages) /\ Len(u) = m + Len(more) /\ m \in Nat /\ Len(more) \in Nat
      /\ \A i \in 1..(m + Len(more)) : u[i] = IF i <= m THEN messages[i] ELSE more[i - m]
  BY <1>1, ConcatProperties, LenProperties
<1>. HIDE DEF u, m
<1>3. ASSUME NEW i \in 1..Len(u) PROVE Message(u[i], calls)
  <2>1. CASE i <= m
    <3>1. i \in 1..m /\ u[i] = messages[i]
      BY <1>2, <2>1
    <3>. QED
      BY <3>1 DEF Told, m
  <2>2. CASE i > m
    <3>1. i - m \in 1..Len(more) /\ u[i] = more[i - m]
      BY <1>2, <2>2
    <3>. QED
      BY <3>1 DEF Told
  <2>. QED
    BY <1>2, <2>1, <2>2
<1>. QED
  BY <1>2, <1>3 DEF Told, u

LEMMA ToldShrinks ==
    ASSUME NEW messages, NEW calls, Told(messages, calls), messages # <<>>
    PROVE  Message(Head(messages), calls) /\ Told(Tail(messages), calls)
<1>1. messages \in Seq(Messages) /\ Len(messages) \in Nat \ {0}
  BY EmptySeq DEF Told
<1>2. 1 \in 1..Len(messages) /\ Head(messages) = messages[1]
  BY <1>1
<1>. DEFINE rest == Tail(messages)
<1>3. /\ rest \in Seq(Messages) /\ Len(rest) = Len(messages) - 1
      /\ \A i \in 1..Len(rest) : rest[i] = messages[i + 1]
  BY <1>1, HeadTailProperties
<1>. HIDE DEF rest
<1>4. \A i \in 1..Len(rest) : i + 1 \in 1..Len(messages)
  BY <1>1, <1>3
<1>5. \A i \in 1..Len(rest) : Message(rest[i], calls)
  BY <1>3, <1>4 DEF Told
<1>. QED
  BY <1>2, <1>3, <1>5 DEF Told, rest

LEMMA OneTold ==
    ASSUME NEW message, NEW calls, Message(message, calls)
    PROVE  Told(<<message>>, calls)
<1>1. message \in Messages
  BY DEF Message
<1>2. <<message>> \in Seq(Messages) /\ Len(<<message>>) = 1 /\ <<message>>[1] = message
  BY <1>1
<1>3. \A i \in 1..1 : i = 1
  OBVIOUS
<1>. QED
  BY <1>2, <1>3 DEF Told

\* The core stays as it is.
LEMMA CoreStutters ==
    ASSUME CoreInv, UNCHANGED coreVars
    PROVE  CoreInv'
<1>1. UNCHANGED <<blockchain, asked, contextVars, contracts, payments, done, thread>>
  BY DEF coreVars
<1>2. StateInv' /\ AskInv' /\ ForkInv'
  <2>1. StateInv'
    BY <1>1, SameState DEF CoreInv
  <2>. QED
    BY <1>1, <2>1 DEF CoreInv, AskInv, ForkInv, At, asked
<1>3. ASSUME NEW t \in Threads PROVE ThreadInv(thread[t])'
  <2>1. ThreadInv(thread[t])
    BY DEF CoreInv
  <2>2. UNCHANGED <<chainOf, context, ready, thread>>
    BY <1>1 DEF blockchain, contextVars
  <2>. QED
    BY <2>1, <2>2 DEF ThreadInv, MiddleOK, CapturedOK, OuterOK, HasProvider, Chain
<1>. QED
  BY <1>1, <1>2, <1>3 DEF CoreInv

LEMMA CallKeeps ==
    ASSUME Inv, NEW c \in Calls, NEW ask \in scene[c].asks, Call(c, ask[1], ask[2])
    PROVE  Inv'
<1>1. ask[1] \in STRING /\ ask[2] \in Chains \cup {None}
  <2>1. scene[c].asks \subseteq STRING \X (Chains \cup {None})
    BY ScenesAssumption DEF Inv, PageInv
  <2>. QED
    BY <2>1
<1>2. PICK state : /\ state \in {"local", "sent", "done", "error"}
                   /\ page' = [page EXCEPT ![c] = [method |-> ask[1], chain |-> ask[2], state |-> state]]
                   /\ toCore' = IF state = "sent" THEN Append(toCore, c) ELSE toCore
  BY DEF Call
<1>3. /\ page[c].state = "none"
      /\ UNCHANGED <<coreVars, scene, active, toPage, flags, overlapped>>
  BY DEF Call
<1>4. page \in Page
  BY DEF Inv, PageInv
<1>5. /\ page' \in Page /\ page'[c].state = state /\ \A d \in Calls : d # c => page'[d] = page[d]
  BY <1>1, <1>2, <1>4 DEF States, Page
<1>6. Queued(toCore', page')
  <2>1. CASE state = "sent"
    <3>1. Queued(Append(toCore, c), page')
      BY <1>3, <1>4, <1>5, <2>1, QueueGrows DEF Inv, PageInv
    <3>. QED
      BY <1>2, <2>1, <3>1
  <2>2. CASE state # "sent"
    <3>1. \A i \in 1..Len(toCore) : toCore[i] \in Calls
      BY ElementOfSeq DEF Inv, PageInv, Queued
    <3>2. \A i \in 1..Len(toCore) : toCore[i] # c /\ page'[toCore[i]].state = "sent"
      BY <1>3, <1>5, <3>1 DEF Inv, PageInv, Queued
    <3>. QED
      BY <1>2, <2>2, <3>2 DEF Inv, PageInv, Queued
  <2>. QED
    BY <2>1, <2>2
<1>7. \A d \in Calls : Fresh(page', d) => Fresh(page, d)
  BY <1>3, <1>5 DEF Fresh
<1>8. Told(toPage', page')
  BY <1>3, <1>7, ToldStays DEF Inv, PageInv
<1>9. Untouched(page', thread')
  <2>1. thread' = thread
    BY <1>3 DEF coreVars
  <2>. QED
    BY <1>7, <2>1 DEF Inv, PageInv, Untouched
<1>10. CoreInv'
  BY <1>3, CoreStutters DEF Inv
<1>. QED
  BY <1>3, <1>5, <1>6, <1>8, <1>9, <1>10 DEF Inv, PageInv

LEMMA ReceiveKeeps ==
    ASSUME Inv, Receive
    PROVE  Inv'
<1>1. PICK c : c = Head(toCore)
  OBVIOUS
<1>2. /\ toCore # <<>> /\ page \in Page /\ Queued(toCore, page) /\ Told(toPage, page)
      /\ Untouched(page, thread) /\ CoreInv
  BY DEF Receive, Inv, PageInv
<1>3. c \in Calls /\ page[c].state = "sent"
  BY <1>1, <1>2, QueueShrinks
<1>4. /\ toCore' = Tail(toCore) /\ page' = [page EXCEPT ![c].state = "inCore"]
      /\ UNCHANGED <<blockchain, asked, contextVars, contracts, payments, done,
                     scene, active, toPage, flags>>
  BY <1>1 DEF Receive
<1>5. page' \in Page /\ page'[c].state = "inCore" /\ \A d \in Calls : d # c => page'[d] = page[d]
  BY <1>2, <1>3, <1>4 DEF Page, States
<1>6. Queued(toCore', page')
  BY <1>1, <1>2, <1>4, <1>5, QueueShrinks
<1>7. \A d \in Calls : Fresh(page', d) => Fresh(page, d) /\ d # c
  BY <1>5 DEF Fresh
<1>8. Told(toPage', page')
  BY <1>2, <1>4, <1>7, ToldStays
<1>9. overlapped' \subseteq Calls
  <2>1. Running \subseteq Calls
    BY DEF Running
  <2>. QED
    BY <1>1, <1>3, <2>1 DEF Receive, Inv, PageInv
<1>10. CASE thread' = thread
  <2>1. CoreInv'
    BY <1>2, <1>4, <1>10, CoreStutters DEF coreVars
  <2>2. Untouched(page', thread')
    BY <1>2, <1>7, <1>10 DEF Untouched
  <2>. QED
    BY <1>4, <1>5, <1>6, <1>8, <1>9, <2>1, <2>2 DEF Inv, PageInv
<1>11. CASE thread' # thread
  <2>5. PICK run : run = Run(page[c].method)
    OBVIOUS
  <2>1. PICK chain \in Chains \cup {None} : GoodRun(run) /\ Begin(c, run, chain)
    <3>1. page[c].chain \in Chains \cup {None}
      BY <1>2, <1>3 DEF Page
    <3>2. PICK chain : chain = IF page[c].method = "waitInitialized" THEN None ELSE page[c].chain
      OBVIOUS
    <3>3. Begin(c, Run(page[c].method), chain) /\ chain \in Chains \cup {None}
      BY <1>1, <1>11, <3>1, <3>2 DEF Receive
    <3>4. GoodRun(Run(page[c].method))
      BY MethodRuns
    <3>. QED
      BY <2>5, <3>3, <3>4
  <2>2. \A x \in Kinds \cup {"call"} : thread[<<c, x>>] = Idle
    BY <1>2, <1>3 DEF Untouched, Fresh
  <2>3. CoreInv'
    BY <1>2, <1>3, <1>4, <2>1, <2>2, BeginKeeps
  <2>4. Untouched(page', thread')
    <3>. SUFFICES ASSUME NEW d \in Calls, NEW x \in Kinds \cup {"call"}, Fresh(page', d)
                  PROVE  thread'[<<d, x>>] = Idle
      BY DEF Untouched
    <3>1. d # c /\ thread[<<d, x>>] = Idle
      BY <1>2, <1>7 DEF Untouched
    <3>2. <<d, x>> \in Threads /\ <<d, x>> # <<c, "call">>
      BY <3>1 DEF Threads
    <3>3. \E new : thread' = [thread EXCEPT ![<<c, "call">>] = new]
      BY <2>1 DEF Begin, Becomes
    <3>4. DOMAIN thread = Threads
      BY <1>2 DEF CoreInv
    <3>. QED
      BY <3>1, <3>2, <3>3, <3>4
  <2>. QED
    BY <1>4, <1>5, <1>6, <1>8, <1>9, <2>3, <2>4 DEF Inv, PageInv
<1>. QED
  BY <1>10, <1>11

LEMMA ReplyKeeps ==
    ASSUME Inv, NEW c \in Calls, Reply(c)
    PROVE  Inv'
<1>1. PICK t : t = <<c, "call">>
  OBVIOUS
<1>2. PICK end : end = thread[t].ended
  OBVIOUS
<1>3. /\ CoreInv /\ page \in Page /\ Queued(toCore, page) /\ Told(toPage, page)
      /\ Untouched(page, thread) /\ t \in Threads
  BY <1>1 DEF Inv, PageInv, Threads
<1>4. /\ end # "none" /\ thread' = [thread EXCEPT ![t] = Idle]
      /\ toPage' = (IF end = "thrown" \/ page[c].method \in Silent THEN toPage
                    ELSE Append(toPage, [call |-> c, end |-> end]))
      /\ UNCHANGED <<blockchain, asked, contextVars, contracts, payments, done,
                     scene, active, page, toCore, flags, overlapped>>
  BY <1>1, <1>2 DEF Reply
<1>5. thread[t].left = <<>> /\ end \in Ends
  BY <1>2, <1>3, <1>4 DEF CoreInv, ThreadInv, ThreadType
<1>6. CoreInv'
  BY <1>3, <1>4, <1>5, FreeAgain
<1>7. ~Fresh(page, c)
  <2>1. thread[t] # Idle
    BY <1>2, <1>4 DEF Idle
  <2>. QED
    BY <1>1, <1>3, <2>1 DEF Untouched
<1>8. Told(toPage', page)
  <2>1. CASE end = "thrown" \/ page[c].method \in Silent
    BY <1>3, <1>4, <2>1
  <2>2. CASE ~(end = "thrown" \/ page[c].method \in Silent)
    <3>1. PICK message : message = [call |-> c, end |-> end]
      OBVIOUS
    <3>2. end \in {"done", "error"} /\ c # None
      BY <1>4, <1>5, <2>2, CoreAssumption DEF Ends
    <3>3. Message(message, page)
      BY <1>7, <3>1, <3>2 DEF Message, Messages
    <3>4. Told(toPage \o <<message>>, page)
      BY <1>3, <3>3, OneTold, ToldGrows
    <3>5. Append(toPage, message) = toPage \o <<message>>
      BY <1>3, <3>3, AppendIsConcat DEF Told, Message
    <3>. QED
      BY <1>4, <2>2, <3>1, <3>4, <3>5
  <2>. QED
    BY <2>1, <2>2
<1>9. Untouched(page, thread')
  <2>. SUFFICES ASSUME NEW d \in Calls, NEW x \in Kinds \cup {"call"}, Fresh(page, d)
                PROVE  thread'[<<d, x>>] = Idle
    BY DEF Untouched
  <2>1. thread[<<d, x>>] = Idle /\ <<d, x>> \in Threads
    BY <1>3 DEF Untouched, Threads
  <2>. QED
    BY <1>3, <1>4, <2>1 DEF CoreInv
<1>. QED
  BY <1>3, <1>4, <1>6, <1>8, <1>9 DEF Inv, PageInv

LEMMA SettleKeeps ==
    ASSUME Inv, Settle
    PROVE  Inv'
<1>1. PICK message : message = Head(toPage)
  OBVIOUS
<1>2. /\ CoreInv /\ page \in Page /\ Queued(toCore, page) /\ Told(toPage, page)
      /\ Untouched(page, thread) /\ toPage # <<>>
  BY DEF Inv, PageInv, Settle
<1>3. Message(message, page) /\ Told(Tail(toPage), page)
  BY <1>1, <1>2, ToldShrinks
<1>4. /\ toPage' = Tail(toPage) /\ UNCHANGED <<coreVars, scene, active, toCore, overlapped>>
      /\ IF message.call # None
         THEN page' = [page EXCEPT ![message.call].state = message.end] /\ flags' = flags
         ELSE /\ flags' = flags \cup {message.end}
              /\ page' = [c \in Calls |->
                     IF page[c].state = "local" /\ KindOf[page[c].method] = message.end
                     THEN [page[c] EXCEPT !.state = "done"] ELSE page[c]]
  BY <1>1 DEF Settle
<1>5. /\ page' \in Page /\ flags' \subseteq Kinds \cup {"any"}
      /\ \A d \in Calls : Fresh(page', d) => page'[d] = page[d]
      /\ \A d \in Calls : Fresh(page, d) => page'[d] = page[d]
  <2>1. CASE message.call # None
    <3>1. /\ message.call \in Calls /\ message.end \in {"done", "error"}
          /\ ~Fresh(page, message.call)
      BY <1>3, <2>1 DEF Message, Messages
    <3>2. page' \in Page
      BY <1>2, <1>4, <2>1, <3>1 DEF Page, States
    <3>3. /\ page'[message.call].state = message.end
          /\ \A d \in Calls : d # message.call => page'[d] = page[d]
      BY <1>2, <1>4, <2>1, <3>1 DEF Page
    <3>. QED
      BY <1>4, <2>1, <3>1, <3>2, <3>3 DEF Fresh, Inv, PageInv
  <2>2. CASE message.call = None
    <3>1. message.end \in Kinds \cup {"any"}
      BY <1>3, <2>2 DEF Message
    <3>2. \A c \in Calls : \/ page'[c] = page[c]
                           \/ /\ page[c].state = "local"
                              /\ page'[c] = [page[c] EXCEPT !.state = "done"]
      BY <1>4, <2>2
    <3>3. \A c \in Calls : page[c] \in [method : STRING \cup {"none"}, chain : Chains \cup {None}, state : States]
      BY <1>2 DEF Page
    <3>4. \A c \in Calls :
              /\ page'[c] \in [method : STRING \cup {"none"}, chain : Chains \cup {None}, state : States]
              /\ page'[c] = page[c] \/ (page[c].state = "local" /\ page'[c].state = "done")
      <4>. SUFFICES ASSUME NEW c \in Calls
                    PROVE  /\ page'[c] \in [method : STRING \cup {"none"}, chain : Chains \cup {None}, state : States]
                           /\ page'[c] = page[c] \/ (page[c].state = "local" /\ page'[c].state = "done")
        OBVIOUS
      <4>1. PICK old \in [method : STRING \cup {"none"}, chain : Chains \cup {None}, state : States] : old = page[c]
        BY <3>3
      <4>2. "done" \in States
        BY DEF States
      <4>3. \/ page'[c] = old
            \/ old.state = "local" /\ page'[c] = [old EXCEPT !.state = "done"]
        BY <3>2, <4>1
      <4>4. CASE page'[c] = old
        BY <4>1, <4>4
      <4>5. CASE old.state = "local" /\ page'[c] = [old EXCEPT !.state = "done"]
        BY <4>1, <4>2, <4>5
      <4>. QED
        BY <4>3, <4>4, <4>5
    <3>5. page' \in Page
      <4>1. DOMAIN page' = Calls /\ page' = [c \in Calls |-> page'[c]]
        BY <1>4, <2>2
      <4>. QED
        BY <3>4, <4>1 DEF Page
    <3>. QED
      BY <1>4, <2>2, <3>1, <3>4, <3>5 DEF Fresh, Inv, PageInv
  <2>. QED
    BY <2>1, <2>2
<1>6. Queued(toCore', page')
  <2>1. \A i \in 1..Len(toCore) : toCore[i] \in Calls /\ page[toCore[i]].state = "sent"
    BY <1>2, ElementOfSeq DEF Queued
  <2>2. \A i \in 1..Len(toCore) : page'[toCore[i]].state = "sent"
    BY <1>5, <2>1 DEF Fresh
  <2>. QED
    BY <1>2, <1>4, <2>2 DEF Queued
<1>7. \A d \in Calls : Fresh(page', d) => Fresh(page, d)
  BY <1>5 DEF Fresh
<1>8. Told(toPage', page')
  BY <1>3, <1>4, <1>7, ToldStays
<1>9. Untouched(page', thread')
  <2>1. thread' = thread
    BY <1>4 DEF coreVars
  <2>. QED
    BY <1>2, <1>7, <2>1 DEF Untouched
<1>10. CoreInv'
  BY <1>2, <1>4, CoreStutters
<1>. QED
  BY <1>4, <1>5, <1>6, <1>8, <1>9, <1>10 DEF Inv, PageInv

LEMMA EventsAre ==
    ASSUME NEW calls
    PROVE  Told(Events, calls)
<1>. DEFINE event(kind) == [call |-> None, end |-> kind]
            new == {k \in Kinds : DefaultChain \in done'[k] \ done[k]}
            first == \A k \in Kinds : DefaultChain \notin done[k]
            picked == CHOOSE k \in new : TRUE
<1>1. ASSUME NEW kind \in Kinds \cup {"any"} PROVE Told(<<event(kind)>>, calls)
  <2>1. Message(event(kind), calls)
    BY DEF Message, Messages
  <2>. QED
    BY <2>1, OneTold
<1>2. Told(<<>>, calls)
  <2>1. <<>> \in Seq(Messages) /\ Len(<<>>) = 0
    BY EmptySeq
  <2>. QED
    BY <2>1 DEF Told
<1>3. Events = IF new = {} THEN <<>>
               ELSE <<event(picked)>> \o (IF first THEN <<event("any")>> ELSE <<>>)
  BY DEF Events
<1>4. new # {} => picked \in Kinds
  OBVIOUS
<1>. HIDE DEF event, new, first, picked
<1>5. CASE new = {}
  BY <1>2, <1>3, <1>5
<1>6. CASE new # {}
  <2>1. Told(<<event(picked)>>, calls) /\ Told(<<event("any")>>, calls)
    BY <1>1, <1>4, <1>6
  <2>2. Told(IF first THEN <<event("any")>> ELSE <<>>, calls)
    BY <1>2, <2>1
  <2>3. Told(<<event(picked)>> \o (IF first THEN <<event("any")>> ELSE <<>>), calls)
    BY <2>1, <2>2, ToldGrows
  <2>. QED
    BY <1>3, <1>6, <2>3
<1>. QED
  BY <1>5, <1>6

\* A step of the core, with what it tells the page.
LEMMA InCoreKeeps ==
    ASSUME Inv, CoreInv', Untouched(page, thread'), toPage' = toPage \o Events,
           UNCHANGED <<scene, active, page, toCore, flags, overlapped>>
    PROVE  Inv'
<1>1. Told(toPage', page)
  BY EventsAre, ToldGrows DEF Inv, PageInv
<1>. QED
  BY <1>1 DEF Inv, PageInv

LEMMA StepInCore ==
    ASSUME Inv, NEW t \in Threads, InCore(Step(t))
    PROVE  Inv'
<1>1. Step(t) /\ toPage' = toPage \o Events /\ UNCHANGED <<scene, active, page, toCore, flags, overlapped>>
  BY DEF InCore
<1>2. CoreInv'
  BY <1>1, StepKeeps DEF Inv
<1>3. Untouched(page, thread')
  <2>. SUFFICES ASSUME NEW c \in Calls, NEW x \in Kinds \cup {"call"}, Fresh(page, c)
                PROVE  thread'[<<c, x>>] = Idle
    BY DEF Untouched
  <2>1. thread[<<c, x>>] = Idle /\ <<c, x>> \in Threads /\ <<c, x>>[1] = c
    BY DEF Inv, PageInv, Untouched, Threads
  <2>2. t[1] # c
    <3>1. PICK d \in Calls, y \in Kinds \cup {"call"} : t = <<d, y>>
      BY DEF Threads
    <3>2. thread[t].left # <<>>
      BY <1>1, StepIsOwn
    <3>3. d = c => thread[t].left = <<>>
      BY <3>1 DEF Inv, PageInv, Untouched, Idle
    <3>. QED
      BY <3>1, <3>2, <3>3
  <2>. QED
    BY <1>1, <2>1, <2>2, StepIsOwn
<1>. QED
  BY <1>1, <1>2, <1>3, InCoreKeeps

LEMMA AnswersInCore ==
    ASSUME Inv, InCore(Answers)
    PROVE  Inv'
<1>1. /\ Answers /\ toPage' = toPage \o Events
      /\ UNCHANGED <<scene, active, page, toCore, flags, overlapped>>
  BY DEF InCore
<1>2. CoreInv'
  BY <1>1, AnswerSteps, CredentialsStep DEF Inv, Answers
<1>3. PICK t \in Threads : /\ thread[t].left # <<>>
                           /\ \E new : thread' = [thread EXCEPT ![t] = new]
  <2>1. CASE SupplyProviderId \/ RejectProviderIdRequest
    BY <2>1 DEF Inv, CoreInv, AskInv, At, SupplyProviderId, RejectProviderIdRequest,
       AskForKey, Becomes
  <2>2. CASE SupplyPrivateCredentials
    BY <2>2 DEF Inv, CoreInv, AskInv, At, SupplyPrivateCredentials, Becomes
  <2>. QED
    BY <1>1, <2>1, <2>2 DEF Answers
<1>4. Untouched(page, thread')
  <2>. SUFFICES ASSUME NEW c \in Calls, NEW x \in Kinds \cup {"call"}, Fresh(page, c)
                PROVE  thread'[<<c, x>>] = Idle
    BY DEF Untouched
  <2>1. thread[<<c, x>>] = Idle /\ <<c, x>> \in Threads
    BY DEF Inv, PageInv, Untouched, Threads
  <2>2. <<c, x>> # t
    BY <1>3, <2>1 DEF Idle
  <2>. QED
    BY <1>3, <2>1, <2>2
<1>. QED
  BY <1>1, <1>2, <1>4, InCoreKeeps

LEMMA OutsideInCore ==
    ASSUME Inv, InCore(NodeStarts) \/ InCore(WalletMoves)
    PROVE  Inv'
<1>1. /\ NodeStarts \/ WalletMoves
      /\ toPage' = toPage \o Events
      /\ UNCHANGED <<scene, active, page, toCore, flags, overlapped>>
  BY DEF InCore
<1>2. thread' = thread
  BY <1>1 DEF NodeStarts, WalletMoves
<1>3. CoreInv'
  BY <1>1, OutsideSteps DEF Inv
<1>4. Untouched(page, thread')
  BY <1>2 DEF Inv, PageInv
<1>. QED
  BY <1>1, <1>3, <1>4, InCoreKeeps

-----------------------------------------------------------------------------
(* The theorems.                                                           *)

LEMMA InitIsSound == Init => Inv
<1>. SUFFICES ASSUME Init PROVE Inv
  OBVIOUS
<1>1. StateInv
  <2>1. DefaultChain \in Chains /\ DefaultChain # None /\ 0 \in 0..MaxListeners
    BY CoreAssumption
  <2>2. /\ chainOf \in [Contexts -> Chains \cup {None}] /\ context = "context"
        /\ chainOf["context"] = DefaultChain /\ chainOf["initialized"] = None
    BY <2>1 DEF Init, CoreInit, Contexts
  <2>3. wallet \in Chains /\ modal \in {None, "injected", "walletconnect"} /\ ready = {}
    BY DEF Init, CoreInit
  <2>4. done \in [Kinds -> SUBSET Chains]
    BY DEF Init, CoreInit
  <2>. QED
    BY <2>1, <2>2, <2>3, <2>4 DEF Init, CoreInit, StateInv, Providers, Contexts, Chain
<1>2. Idle \in ThreadType /\ Idle.left = <<>> /\ Idle.captured = "context" /\ Idle.outer = "context"
  <2>1. <<>> \in Seq(Pieces)
    BY EmptySeq
  <2>. QED
    BY <2>1, CoreAssumption DEF Idle, ThreadType, Contexts, Ends
<1>3. /\ thread \in [Threads -> ThreadType] /\ \A t \in Threads : thread[t] = Idle
  BY <1>2 DEF Init, CoreInit
<1>4. Len(Idle.left) = 0
  BY <1>2
<1>5. ThreadInv(Idle) /\ ~Forking(Idle.left)
  <2>1. /\ Linked(Idle.left) /\ ForksOnce(Idle.left) /\ ~Forking(Idle.left)
        /\ Covered(Idle.left, Needing, "context") /\ Covered(Idle.left, Homing, "payments")
    BY <1>4 DEF Linked, ForksOnce, Forking, Covered
  <2>. QED
    BY <1>1, <1>2, <2>1 DEF ThreadInv, StateInv
<1>6. ASSUME NEW t \in Threads PROVE ThreadInv(thread[t])
  BY <1>3, <1>5
<1>7. AskInv
  BY DEF Init, CoreInit, AskInv
<1>8. ForkInv
  <2>1. \A c \in Calls, x \in Kinds \cup {"call"} : thread[<<c, x>>] = Idle
    BY <1>3 DEF Threads
  <2>. QED
    BY <1>5, <2>1 DEF ForkInv
<1>9. Untouched(page, thread)
  BY <1>3 DEF Untouched, Threads
<1>10. Queued(toCore, page) /\ Told(toPage, page)
  <2>1. toCore = <<>> /\ toPage = <<>> /\ <<>> \in Seq(Calls) /\ <<>> \in Seq(Messages) /\ Len(<<>>) = 0
    BY EmptySeq DEF Init
  <2>. QED
    BY <2>1 DEF Queued, Told
<1>11. page \in Page
  <2>1. NoCall \in [method : STRING \cup {"none"}, chain : Chains \cup {None}, state : States]
    BY DEF NoCall, States
  <2>. QED
    BY <2>1 DEF Init, Page
<1>. QED
  BY <1>1, <1>3, <1>6, <1>7, <1>8, <1>9, <1>10, <1>11 DEF Inv, CoreInv, PageInv, Init

LEMMA NextIsSound == Inv /\ [Next]_vars => Inv'
<1>. SUFFICES ASSUME Inv, [Next]_vars PROVE Inv'
  OBVIOUS
<1>1. CASE UNCHANGED vars
  <2>1. UNCHANGED coreVars /\ UNCHANGED frameVars /\ thread' = thread
    BY <1>1 DEF vars, coreVars
  <2>2. CoreInv'
    BY <2>1, CoreStutters DEF Inv
  <2>. QED
    BY <2>1, <2>2 DEF Inv, PageInv, frameVars
<1>2. CASE Activate
  <2>1. UNCHANGED coreVars /\ thread' = thread
    BY <1>2 DEF Activate, coreVars
  <2>2. CoreInv'
    BY <2>1, CoreStutters DEF Inv
  <2>. QED
    BY <1>2, <2>1, <2>2 DEF Inv, PageInv, Activate
<1>3. CASE \E c \in Calls : \E ask \in scene[c].asks : Call(c, ask[1], ask[2])
  BY <1>3, CallKeeps
<1>4. CASE Receive \/ (\E c \in Calls : Reply(c)) \/ Settle
  BY <1>4, ReceiveKeeps, ReplyKeeps, SettleKeeps
<1>5. CASE InCore(WalletMoves) \/ InCore(Answers) \/ InCore(NodeStarts)
  BY <1>5, OutsideInCore, AnswersInCore
<1>6. CASE \E t \in Threads : InCore(Step(t))
  BY <1>6, StepInCore
<1>. QED
  BY <1>1, <1>2, <1>3, <1>4, <1>5, <1>6 DEF Next

\* The inductive invariant: what every thread knows of its context and its provider,
\* whose answer the user gives, which calls fork, and what is on the way between page
\* and core, whatever calls overlap (HypernetCore, CoreListener).
THEOREM CoreStaysSound == Spec => []Inv
<1>1. Init => Inv
  BY InitIsSound
<1>2. Inv /\ [Next]_vars => Inv'
  BY NextIsSound
<1>. QED
  BY <1>1, <1>2, PTL DEF Spec

\* Every variable has its type; in particular the context always has a chain, and an
\* answer of the user goes to a thread that asked, not to one that has gone on.
THEOREM RemoteTypes == Spec => []TypeOK
<1>1. Inv => TypeOK
  <2>. SUFFICES ASSUME Inv PROVE TypeOK
    OBVIOUS
  <2>1. CoreTypeOK
    <3>1. \A t \in Threads : thread[t].left # <<>> => thread[t].ended = "none"
      BY DEF Inv, CoreInv, ThreadInv
    <3>2. asker \in Threads \cup {None} /\ keyAsker \in Threads \cup {None}
      BY DEF Inv, CoreInv, AskInv
    <3>. QED
      BY <3>1, <3>2 DEF Inv, CoreInv, StateInv, CoreTypeOK, Chain
  <2>2. \A c \in Calls : page[c].chain \in Chains \cup {None} /\ page[c].state \in States
    BY DEF Inv, PageInv, Page
  <2>. QED
    BY <2>1, <2>2 DEF Inv, PageInv, TypeOK
<1>. QED
  BY <1>1, CoreStaysSound, PTL

\* getProvider() and its like do not throw in an initialization, for any number of
\* overlapping calls for any chains (initializeBlockchainProvider sets the chain of
\* the context only after BlockchainProvider has a provider for it).
THEOREM ProviderStays == Spec => []ProviderIsThere
<1>1. Inv => ProviderIsThere
  <2>. SUFFICES ASSUME Inv, NEW t \in Threads,
                       NEW piece \in {"listen", "registries", "governance", "accounts", "listeners"},
                       At(t, piece)
                PROVE  HasProvider
    BY DEF ProviderIsThere
  <2>1. ThreadInv(thread[t]) /\ thread[t].left # <<>> /\ Head(thread[t].left) \in Needing
    BY DEF Inv, CoreInv, At, Needing
  <2>. QED
    BY <2>1, HeadNeeds DEF CapturedOK
<1>. QED
  BY <1>1, CoreStaysSound, PTL

-----------------------------------------------------------------------------
(* A call that is alone in the core. The context stays what it is; each    *)
(* piece has its effect, and the pieces of the same call that run beside   *)
(* it spoil none, since they aim at the same chain (Steady). What a thread *)
(* has behind it for good is what it does not have left (Behind).          *)

Reaching == {"provider", "choose", "connect", "key", "main"}
Settled == {"registries", "governance", "registriesDone", "governanceDone"} \cup Homing
Opening == {"context", "payments"}

\* What is done once the context has its chain comes after that, and what goes back
\* to the context of the payments after those began; a join comes right after a fork.
Ordered(s) ==
    /\ \A i, j \in 1..Len(s) : s[i] \in Settled /\ s[j] \in Opening => j < i
    /\ \A i \in 1..Len(s) : s[i] = "join" /\ i # 1 => s[i - 1] \in Forks

PiecesOf(s) == {s[i] : i \in 1..Len(s)}

Busy(th) == th.left # <<>> \/ th.ended # "none"
Alone(c) ==
    /\ c \notin overlapped /\ page[c].method \in Initializers
    /\ \E x \in Kinds \cup {"call"} : Busy(thread[<<c, x>>])

Goal(c) == IF page[c].chain = None THEN Chain ELSE page[c].chain
Reached(goal) == Chain = goal /\ governanceProvider \in {goal, "main"}
Made(contract, goal) ==
    contract \in Contract /\ contract.chain = goal /\ contract.provider \in {goal, "main"}

\* What a thread of a call is to do: a kind, if it is a part, or the method of the page.
Roles == Kinds \cup Initializers
Role(u) == IF u[2] = "call" THEN page[u[1]].method ELSE u[2]
RunFor(role) == IF role \in Kinds THEN RunOf(role) ELSE Run(role)
Collects == "initializeForChainId"

\* What a piece has brought about, for good.
Effect(goal, role, piece) ==
    /\ piece = "context" => Reached(goal)
    /\ piece = "registries" => Made(registry, goal)
    /\ piece = "registriesDone" => goal \in done["registries"]
    /\ piece = "governance" => Made(governance, goal)
    /\ piece = "governanceDone" => goal \in done["governance"]
    /\ piece = "ids" => chainOf["initialized"] # None
    /\ piece = "paymentsDone" => goal \in done["payments"]
    /\ piece = "join" /\ role = Collects =>
          /\ \A k \in Kinds : done[k] # {} => goal \in done[k]
          /\ (\E k \in Kinds : done[k] # {}) => Chain = goal
    /\ piece = "join" /\ role # Collects =>
          /\ Made(governance, goal) /\ goal \in done["governance"]
          /\ goal \in done["payments"] /\ chainOf["initialized"] # None

\* The pieces that a thread has behind it for good: none if it waits to fail.
Succeeds(th) == IF th.left = <<>> THEN th.ended = "done" ELSE Head(th.left) # "waitForNames"
Behind(th, piece) == Succeeds(th) /\ ~HasPiece(th.left, piece)

Right(goal, role, th) ==
    /\ \A i \in 1..Len(th.left) : th.left[i] \in PiecesOf(RunFor(role)) \cup {"waitForNames"}
    /\ Ordered(th.left)
    /\ \A piece \in PiecesOf(RunFor(role)) : Behind(th, piece) => Effect(goal, role, piece)
    /\ role \in Kinds => th.ended # "thrown"
    /\ th.left # <<>> /\ role # Collects =>
          /\ Head(th.left) # "provider" => th.captured = context /\ th.g = goal
          /\ Head(th.left) \notin Reaching => ready # {}
          /\ Head(th.left) = "context" => governanceProvider \in {goal, "main"}
    /\ th.left # <<>> /\ "payments" \in PiecesOf(RunFor(role)) /\ Behind(th, "payments") =>
          th.outer = context /\ th.home = goal

RightThread(u) ==
    /\ Right(Goal(u[1]), Role(u), thread[u])
    /\ thread[u].left # <<>> => thread[u].asked = page[u[1]].chain

\* The parts of a call that waits for them.
Joins(c) ==
    LET th == thread[<<c, "call">>] part(k) == thread[<<c, k>>] IN
    th.left # <<>> /\ Head(th.left) = "join" =>
        IF page[c].method = Collects
        THEN /\ \A k \in Kinds : done[k] # {} => Busy(part(k)) \/ Goal(c) \in done[k]
             /\ (\E k \in Kinds : done[k] # {}) => \E k \in Kinds : Busy(part(k))
        ELSE Busy(part("governance")) /\ Busy(part("payments"))

AllRight(c) ==
    /\ \A u \in Threads : Busy(thread[u]) => u[1] = c
    /\ \A u \in Threads : u[1] = c => RightThread(u)
    /\ Joins(c)

AloneInv == \A c \in Calls : Alone(c) => AllRight(c)

\* What the steps of an alone call may do to the core.
Steady(goal) ==
    /\ context' = context /\ Chain' \in {Chain, goal} /\ ready \subseteq ready'
    /\ governanceProvider' \in {governanceProvider, goal, "main"}
    /\ registry' = registry \/ Made(registry', goal)
    /\ governance' = governance \/ Made(governance', goal)
    /\ \A k \in Kinds : \/ done'[k] = done[k]
                        \/ done'[k] = done[k] \cup {goal} /\ Chain' = goal
    /\ chainOf["initialized"] # None => chainOf'["initialized"] # None

SamePage(c) == page'[c].method = page[c].method /\ page'[c].chain = page[c].chain

-----------------------------------------------------------------------------
(* What is ordered, and which pieces there are, in rests and concatenations. *)

LEMMA PieceIs ==
    ASSUME NEW s, NEW x
    PROVE  HasPiece(s, x) <=> x \in PiecesOf(s)
  BY DEF HasPiece, PiecesOf

LEMMA RestPieces ==
    ASSUME NEW s \in Seq(Pieces), NEW k \in 1..Len(s)
    PROVE  /\ PiecesOf(Rest(s, k)) \subseteq PiecesOf(s)
           /\ \A x : HasPiece(s, x) /\ (\A j \in 1..(k - 1) : s[j] # x) => HasPiece(Rest(s, k), x)
<1>. DEFINE r == Rest(s, k)
<1>1. /\ Len(s) \in Nat /\ Len(r) = Len(s) - k + 1
      /\ \A j \in 1..Len(r) : j + k - 1 \in 1..Len(s) /\ r[j] = s[j + k - 1]
  BY RestIs
<1>. HIDE DEF r
<1>2. PiecesOf(r) \subseteq PiecesOf(s)
  BY <1>1 DEF PiecesOf
<1>3. ASSUME NEW x, HasPiece(s, x), \A j \in 1..(k - 1) : s[j] # x
      PROVE  HasPiece(r, x)
  <2>1. PICK i \in 1..Len(s) : s[i] = x
    BY <1>3 DEF HasPiece
  <2>2. i >= k
    BY <1>1, <1>3, <2>1
  <2>3. i - k + 1 \in 1..Len(r) /\ (i - k + 1) + k - 1 = i
    BY <1>1, <2>1, <2>2
  <2>. QED
    BY <1>1, <2>1, <2>3 DEF HasPiece
<1>. QED
  BY <1>2, <1>3 DEF r

LEMMA RestOrdered ==
    ASSUME NEW s \in Seq(Pieces), NEW k \in 1..Len(s), Ordered(s)
    PROVE  Ordered(Rest(s, k))
<1>. DEFINE r == Rest(s, k)
<1>1. /\ Len(s) \in Nat /\ Len(r) = Len(s) - k + 1
      /\ \A j \in 1..Len(r) : j + k - 1 \in 1..Len(s) /\ r[j] = s[j + k - 1]
  BY RestIs
<1>. HIDE DEF r
<1>2. ASSUME NEW i \in 1..Len(r), NEW j \in 1..Len(r), r[i] \in Settled, r[j] \in Opening
      PROVE  j < i
  <2>1. j + k - 1 < i + k - 1
    BY <1>1, <1>2 DEF Ordered
  <2>. QED
    BY <1>1, <2>1
<1>3. ASSUME NEW i \in 1..Len(r), r[i] = "join", i # 1 PROVE r[i - 1] \in Forks
  <2>1. i - 1 \in 1..Len(r) /\ (i - 1) + k - 1 = (i + k - 1) - 1 /\ i + k - 1 # 1
    BY <1>1, <1>3
  <2>2. i + k - 1 \in 1..Len(s) /\ s[i + k - 1] = "join"
    BY <1>1, <1>3
  <2>3. s[(i + k - 1) - 1] \in Forks
    BY <2>1, <2>2 DEF Ordered
  <2>. QED
    BY <1>1, <2>1, <2>3
<1>4. Ordered(r)
  BY <1>2, <1>3 DEF Ordered
<1>. QED
  BY <1>4 DEF r

LEMMA ConcatPieces ==
    ASSUME NEW s \in Seq(Pieces), NEW t \in Seq(Pieces)
    PROVE  PiecesOf(s \o t) = PiecesOf(s) \cup PiecesOf(t)
<1>. DEFINE u == s \o t
            m == Len(s)
            n == Len(t)
<1>1. /\ m \in Nat /\ n \in Nat /\ Len(u) = m + n
      /\ \A i \in 1..(m + n) : u[i] = IF i <= m THEN s[i] ELSE t[i - m]
  BY ConcatProperties, LenProperties
<1>. HIDE DEF u, m, n
<1>2. ASSUME NEW i \in 1..Len(u)
      PROVE  (\E j \in 1..m : u[i] = s[j]) \/ (\E j \in 1..n : u[i] = t[j])
  <2>1. CASE i <= m
    BY <1>1, <2>1
  <2>2. CASE i > m
    <3>1. i - m \in 1..n
      BY <1>1, <2>2
    <3>. QED
      BY <1>1, <2>2, <3>1
  <2>. QED
    BY <1>1, <2>1, <2>2
<1>3. \A j \in 1..m : j \in 1..Len(u) /\ u[j] = s[j]
  BY <1>1
<1>4. ASSUME NEW j \in 1..n PROVE j + m \in 1..Len(u) /\ u[j + m] = t[j]
  <2>1. j + m \in 1..(m + n) /\ ~(j + m <= m) /\ (j + m) - m = j
    BY <1>1
  <2>. QED
    BY <1>1, <2>1
<1>5. PiecesOf(u) = {s[j] : j \in 1..m} \cup {t[j] : j \in 1..n}
  <2>1. \A x \in PiecesOf(u) : x \in {s[j] : j \in 1..m} \cup {t[j] : j \in 1..n}
    BY <1>2 DEF PiecesOf
  <2>2. \A x \in {s[j] : j \in 1..m} : x \in PiecesOf(u)
    BY <1>3 DEF PiecesOf
  <2>3. \A x \in {t[j] : j \in 1..n} : x \in PiecesOf(u)
    BY <1>4 DEF PiecesOf
  <2>. QED
    BY <2>1, <2>2, <2>3
<1>. QED
  BY <1>5 DEF PiecesOf, u, m, n

LEMMA ConcatOrdered ==
    ASSUME NEW s \in Seq(Pieces), NEW t \in Seq(Pieces), Ordered(s), Ordered(t),
           t # <<>>, t[1] # "join",
           PiecesOf(s) \cap Settled = {} \/ PiecesOf(t) \cap Opening = {}
    PROVE  Ordered(s \o t)
<1>. DEFINE u == s \o t
            m == Len(s)
            n == Len(t)
<1>1. /\ m \in Nat /\ n \in Nat /\ Len(u) = m + n
      /\ \A i \in 1..(m + n) : u[i] = IF i <= m THEN s[i] ELSE t[i - m]
  BY ConcatProperties, LenProperties
<1>2. /\ \A i \in 1..m : s[i] \in PiecesOf(s)
      /\ \A i \in 1..n : t[i] \in PiecesOf(t)
  BY DEF PiecesOf
<1>3. /\ \A i, j \in 1..m : s[i] \in Settled /\ s[j] \in Opening => j < i
      /\ \A i, j \in 1..n : t[i] \in Settled /\ t[j] \in Opening => j < i
      /\ \A i \in 1..m : s[i] = "join" /\ i # 1 => s[i - 1] \in Forks
      /\ \A i \in 1..n : t[i] = "join" /\ i # 1 => t[i - 1] \in Forks
  BY DEF Ordered
<1>. HIDE DEF u, m, n
<1>4. ASSUME NEW i \in 1..Len(u)
      PROVE  \/ i \in 1..m /\ u[i] = s[i]
             \/ i > m /\ i - m \in 1..n /\ u[i] = t[i - m]
  BY <1>1
<1>5. ASSUME NEW i \in 1..Len(u), NEW j \in 1..Len(u), u[i] \in Settled, u[j] \in Opening
      PROVE  j < i
  <2>1. CASE i \in 1..m /\ u[i] = s[i] /\ j \in 1..m /\ u[j] = s[j]
    BY <1>3, <1>5, <2>1
  <2>2. CASE i \in 1..m /\ u[i] = s[i] /\ j > m /\ j - m \in 1..n /\ u[j] = t[j - m]
    BY <1>2, <1>5, <2>2
  <2>3. CASE i > m /\ j \in 1..m
    BY <1>1, <2>3
  <2>4. CASE /\ i > m /\ i - m \in 1..n /\ u[i] = t[i - m]
             /\ j > m /\ j - m \in 1..n /\ u[j] = t[j - m]
    <3>1. j - m < i - m
      BY <1>3, <1>5, <2>4
    <3>. QED
      BY <1>1, <3>1
  <2>. QED
    BY <1>4, <2>1, <2>2, <2>3, <2>4
<1>6. ASSUME NEW i \in 1..Len(u), u[i] = "join", i # 1 PROVE u[i - 1] \in Forks
  <2>1. CASE i \in 1..m /\ u[i] = s[i]
    <3>1. i - 1 \in 1..(m + n) /\ i - 1 <= m
      BY <1>1, <1>6, <2>1
    <3>. QED
      BY <1>1, <1>3, <1>6, <2>1, <3>1
  <2>2. CASE i > m /\ i - m \in 1..n /\ u[i] = t[i - m]
    <3>1. i - m # 1
      BY <1>6, <2>2
    <3>2. t[(i - m) - 1] \in Forks
      BY <1>3, <1>6, <2>2, <3>1
    <3>3. i - 1 \in 1..(m + n) /\ ~(i - 1 <= m) /\ (i - 1) - m = (i - m) - 1
      BY <1>1, <2>2, <3>1
    <3>. QED
      BY <1>1, <3>2, <3>3
  <2>. QED
    BY <1>4, <1>6, <2>1, <2>2
<1>7. Ordered(u)
  BY <1>5, <1>6 DEF Ordered
<1>. QED
  BY <1>7 DEF u

\* The pieces of the methods that initialize.
ProviderPieces == {"provider", "choose", "connect", "key", "main", "context", "switch",
                   "signer", "listen"}
RegistryPieces == ProviderPieces \cup {"registries", "names", "registriesDone"}
GovernancePieces == ProviderPieces \cup {"governance", "governanceDone"}
PaymentPieces == RegistryPieces \cup
    {"payments", "accounts", "node", "ids", "listeners", "paymentsDone"}

\* A sequence without what has an order is ordered.
LEMMA FreeOrdered ==
    ASSUME NEW s, PiecesOf(s) \cap Settled = {} \/ PiecesOf(s) \cap Opening = {},
           "join" \notin PiecesOf(s)
    PROVE  Ordered(s)
<1>1. \A i \in 1..Len(s) : s[i] \in PiecesOf(s)
  BY DEF PiecesOf
<1>. QED
  BY <1>1 DEF Ordered

LEMMA TailPieces ==
    /\ PiecesOf(InitializeBlockchainProvider) = ProviderPieces
    /\ PiecesOf(<<"registries", "names", "registriesDone">>) =
           {"registries", "names", "registriesDone"}
    /\ PiecesOf(<<"governance", "governanceDone">>) = {"governance", "governanceDone"}
    /\ PiecesOf(<<"payments">>) = {"payments"}
    /\ PiecesOf(<<"accounts", "node", "ids", "listeners", "paymentsDone">>) =
           {"accounts", "node", "ids", "listeners", "paymentsDone"}
    /\ PiecesOf(<<"forkRest", "join">>) = {"forkRest", "join"}
    /\ PiecesOf(<<"forkDone", "join", "switch", "signer">>) = {"forkDone", "join", "switch", "signer"}
<1>1. PiecesOf(InitializeBlockchainProvider) = ProviderPieces
  <2>. DEFINE s == InitializeBlockchainProvider
  <2>1. /\ Len(s) = 9 /\ s[1] = "provider" /\ s[2] = "choose" /\ s[3] = "connect"
        /\ s[4] = "key" /\ s[5] = "main" /\ s[6] = "context" /\ s[7] = "switch"
        /\ s[8] = "signer" /\ s[9] = "listen"
    BY DEF InitializeBlockchainProvider
  <2>. HIDE DEF s
  <2>2. \A i \in 1..9 : \/ i = 1 \/ i = 2 \/ i = 3 \/ i = 4 \/ i = 5
                       \/ i = 6 \/ i = 7 \/ i = 8 \/ i = 9
    OBVIOUS
  <2>3. \A i \in 1..9 : s[i] \in ProviderPieces
    BY <2>1, <2>2 DEF ProviderPieces
  <2>. DEFINE S == PiecesOf(s)
  <2>4. \A i \in 1..9 : s[i] \in S
    BY <2>1 DEF PiecesOf
  <2>5. 1 \in 1..9 /\ 2 \in 1..9 /\ 3 \in 1..9 /\ 4 \in 1..9 /\ 5 \in 1..9
        /\ 6 \in 1..9 /\ 7 \in 1..9 /\ 8 \in 1..9 /\ 9 \in 1..9
    OBVIOUS
  <2>6. S \subseteq ProviderPieces
    BY <2>1, <2>3 DEF PiecesOf
  <2>. HIDE DEF S
  <2>7. /\ s[1] \in S /\ s[2] \in S /\ s[3] \in S /\ s[4] \in S /\ s[5] \in S
        /\ s[6] \in S /\ s[7] \in S /\ s[8] \in S /\ s[9] \in S
    BY <2>4, <2>5
  <2>8. ProviderPieces \subseteq S
    BY <2>1, <2>7 DEF ProviderPieces
  <2>9. S = ProviderPieces
    BY <2>6, <2>8
  <2>. QED
    BY <2>9 DEF S, s
<1>2. PiecesOf(<<"registries", "names", "registriesDone">>) =
          {"registries", "names", "registriesDone"}
  <2>. DEFINE s == <<"registries", "names", "registriesDone">>
  <2>1. Len(s) = 3 /\ s[1] = "registries" /\ s[2] = "names" /\ s[3] = "registriesDone"
        /\ 1..3 = {1, 2, 3}
    OBVIOUS
  <2>. HIDE DEF s
  <2>2. PiecesOf(s) = {s[1], s[2], s[3]}
    BY <2>1 DEF PiecesOf
  <2>. QED
    BY <2>1, <2>2 DEF s
<1>3. PiecesOf(<<"governance", "governanceDone">>) = {"governance", "governanceDone"}
  <2>. DEFINE s == <<"governance", "governanceDone">>
  <2>1. Len(s) = 2 /\ s[1] = "governance" /\ s[2] = "governanceDone" /\ 1..2 = {1, 2}
    OBVIOUS
  <2>. HIDE DEF s
  <2>2. PiecesOf(s) = {s[1], s[2]}
    BY <2>1 DEF PiecesOf
  <2>. QED
    BY <2>1, <2>2 DEF s
<1>4. PiecesOf(<<"payments">>) = {"payments"}
  <2>. DEFINE s == <<"payments">>
  <2>1. Len(s) = 1 /\ s[1] = "payments" /\ 1..1 = {1}
    OBVIOUS
  <2>. HIDE DEF s
  <2>2. PiecesOf(s) = {s[1]}
    BY <2>1 DEF PiecesOf
  <2>. QED
    BY <2>1, <2>2 DEF s
<1>5. PiecesOf(<<"accounts", "node", "ids", "listeners", "paymentsDone">>) =
          {"accounts", "node", "ids", "listeners", "paymentsDone"}
  <2>. DEFINE s == <<"accounts", "node", "ids", "listeners", "paymentsDone">>
  <2>1. Len(s) = 5 /\ s[1] = "accounts" /\ s[2] = "node" /\ s[3] = "ids"
        /\ s[4] = "listeners" /\ s[5] = "paymentsDone" /\ 1..5 = {1, 2, 3, 4, 5}
    OBVIOUS
  <2>. HIDE DEF s
  <2>2. PiecesOf(s) = {s[1], s[2], s[3], s[4], s[5]}
    BY <2>1 DEF PiecesOf
  <2>. QED
    BY <2>1, <2>2 DEF s
<1>6. PiecesOf(<<"forkRest", "join">>) = {"forkRest", "join"}
  <2>. DEFINE s == <<"forkRest", "join">>
  <2>1. Len(s) = 2 /\ s[1] = "forkRest" /\ s[2] = "join" /\ 1..2 = {1, 2}
    OBVIOUS
  <2>. HIDE DEF s
  <2>2. PiecesOf(s) = {s[1], s[2]}
    BY <2>1 DEF PiecesOf
  <2>. QED
    BY <2>1, <2>2 DEF s
<1>7. PiecesOf(<<"forkDone", "join", "switch", "signer">>) = {"forkDone", "join", "switch", "signer"}
  <2>. DEFINE s == <<"forkDone", "join", "switch", "signer">>
  <2>1. Len(s) = 4 /\ s[1] = "forkDone" /\ s[2] = "join" /\ s[3] = "switch"
        /\ s[4] = "signer" /\ 1..4 = {1, 2, 3, 4}
    OBVIOUS
  <2>. HIDE DEF s
  <2>2. PiecesOf(s) = {s[1], s[2], s[3], s[4]}
    BY <2>1 DEF PiecesOf
  <2>. QED
    BY <2>1, <2>2 DEF s
<1>. QED
  BY <1>1, <1>2, <1>3, <1>4, <1>5, <1>6, <1>7

\* How a method begins that is alone or a part: asking for the provider, or forking.
WellOrdered(s, pieces, first) ==
    s \in Seq(Pieces) /\ s # <<>> /\ Ordered(s) /\ PiecesOf(s) = pieces /\ s[1] = first

LEMMA WellConcat ==
    ASSUME NEW s, NEW t, NEW p, NEW q, NEW x, NEW y,
           WellOrdered(s, p, x), WellOrdered(t, q, y), y # "join",
           p \cap Settled = {} \/ q \cap Opening = {}
    PROVE  WellOrdered(s \o t, p \cup q, x)
<1>1. s \in Seq(Pieces) /\ t \in Seq(Pieces) /\ s # <<>> /\ t # <<>>
  BY DEF WellOrdered
<1>2. Ordered(s \o t) /\ PiecesOf(s \o t) = p \cup q
  BY <1>1, ConcatOrdered, ConcatPieces DEF WellOrdered
<1>3. s \o t \in Seq(Pieces) /\ s \o t # <<>> /\ (s \o t)[1] = s[1]
  <2>1. /\ s \o t \in Seq(Pieces) /\ Len(s \o t) = Len(s) + Len(t)
        /\ \A i \in 1..(Len(s) + Len(t)) :
              (s \o t)[i] = IF i <= Len(s) THEN s[i] ELSE t[i - Len(s)]
    BY <1>1, ConcatProperties
  <2>2. Len(s) \in Nat /\ Len(s) >= 1 /\ Len(t) \in Nat
    BY <1>1, FirstPiece
  <2>3. 1 \in 1..(Len(s) + Len(t)) /\ Len(s \o t) # 0 /\ 1 <= Len(s)
    BY <2>1, <2>2
  <2>4. (s \o t)[1] = s[1]
    BY <2>1, <2>3
  <2>5. s \o t # <<>>
    BY <2>1, <2>3
  <2>. QED
    BY <2>1, <2>4, <2>5
<1>. QED
  BY <1>2, <1>3 DEF WellOrdered

LEMMA InitializersOrdered ==
    /\ WellOrdered(InitializeRegistries, RegistryPieces, "provider")
    /\ WellOrdered(InitializeGovernance, GovernancePieces, "provider")
    /\ WellOrdered(InitializePayments, PaymentPieces, "provider")
    /\ WellOrdered(Initialize, RegistryPieces \cup {"forkRest", "join"}, "provider")
    /\ WellOrdered(InitializeForChainId, {"forkDone", "join", "switch", "signer"}, "forkDone")
<1>. DEFINE p == InitializeBlockchainProvider
            names3 == <<"registries", "names", "registriesDone">>
            two == <<"governance", "governanceDone">>
            five == <<"accounts", "node", "ids", "listeners", "paymentsDone">>
            one == <<"payments">>
            rest == <<"forkRest", "join">>
            all == <<"forkDone", "join", "switch", "signer">>
<1>1. /\ PiecesOf(p) = ProviderPieces /\ PiecesOf(names3) = {"registries", "names", "registriesDone"}
      /\ PiecesOf(two) = {"governance", "governanceDone"} /\ PiecesOf(one) = {"payments"}
      /\ PiecesOf(five) = {"accounts", "node", "ids", "listeners", "paymentsDone"}
      /\ PiecesOf(rest) = {"forkRest", "join"}
      /\ PiecesOf(all) = {"forkDone", "join", "switch", "signer"}
  BY TailPieces
<1>2. /\ p \in Seq(Pieces) /\ p # <<>> /\ p[1] = "provider"
      /\ names3 \in Seq(Pieces) /\ names3 # <<>> /\ names3[1] = "registries"
      /\ two \in Seq(Pieces) /\ two # <<>> /\ two[1] = "governance"
      /\ five \in Seq(Pieces) /\ five # <<>> /\ five[1] = "accounts"
      /\ one \in Seq(Pieces) /\ one # <<>> /\ one[1] = "payments"
      /\ rest \in Seq(Pieces) /\ rest # <<>> /\ rest[1] = "forkRest"
      /\ all \in Seq(Pieces) /\ all # <<>> /\ all[1] = "forkDone"
  BY DEF InitializeBlockchainProvider, Pieces
<1>3. Len(rest) = 2 /\ rest[2] = "join" /\ Len(all) = 4 /\ all[2] = "join"
      /\ all[3] = "switch" /\ all[4] = "signer"
  OBVIOUS
<1>. HIDE DEF p, names3, two, five, one, rest, all
<1>4. /\ Ordered(p) /\ Ordered(names3) /\ Ordered(two) /\ Ordered(five) /\ Ordered(one)
  <2>1. ProviderPieces \cap Settled = {} /\ "join" \notin ProviderPieces
    BY DEF ProviderPieces, Settled, Homing
  <2>2. \A S : S \cap Opening = {} <=> "context" \notin S /\ "payments" \notin S
    BY DEF Opening
  <2>3. {"payments"} \cap Settled = {}
    BY DEF Settled, Homing
  <2>. QED
    BY <1>1, <2>1, <2>2, <2>3, FreeOrdered
<1>5. Ordered(rest) /\ Ordered(all)
  <2>1. /\ \A i \in 1..2 : i = 1 \/ i = 2
        /\ \A i \in 1..4 : i = 1 \/ i = 2 \/ i = 3 \/ i = 4
        /\ 2 - 1 = 1 /\ Len(rest) = 2 /\ Len(all) = 4
    BY <1>3
  <2>2. \A i \in 1..2 : rest[i] \notin Opening /\ (rest[i] = "join" => i = 2)
    BY <1>2, <1>3, <2>1 DEF Opening
  <2>3. \A i \in 1..4 : all[i] \notin Opening /\ (all[i] = "join" => i = 2)
    BY <1>2, <1>3, <2>1 DEF Opening
  <2>4. Ordered(rest)
    BY <1>2, <2>1, <2>2 DEF Ordered, Forks
  <2>5. Ordered(all)
    BY <1>2, <2>1, <2>3 DEF Ordered, Forks
  <2>. QED
    BY <2>4, <2>5
<1>6. /\ WellOrdered(p, ProviderPieces, "provider")
      /\ WellOrdered(names3, {"registries", "names", "registriesDone"}, "registries")
      /\ WellOrdered(two, {"governance", "governanceDone"}, "governance")
      /\ WellOrdered(five, {"accounts", "node", "ids", "listeners", "paymentsDone"}, "accounts")
      /\ WellOrdered(one, {"payments"}, "payments")
      /\ WellOrdered(rest, {"forkRest", "join"}, "forkRest")
      /\ WellOrdered(all, {"forkDone", "join", "switch", "signer"}, "forkDone")
  BY <1>1, <1>2, <1>4, <1>5 DEF WellOrdered
<1>7. ProviderPieces \cap Settled = {} /\ \A S : S \cap Opening = {} <=> "context" \notin S /\ "payments" \notin S
  BY DEF ProviderPieces, Settled, Homing, Opening
<1>8. WellOrdered(p \o names3, RegistryPieces, "provider")
  BY <1>6, <1>7, WellConcat DEF RegistryPieces
<1>9. WellOrdered(p \o two, GovernancePieces, "provider")
  BY <1>6, <1>7, WellConcat DEF GovernancePieces
<1>10. WellOrdered(p \o one, ProviderPieces \cup {"payments"}, "provider")
  BY <1>6, <1>7, WellConcat
<1>11. (ProviderPieces \cup {"payments"}) \cap Settled = {}
  BY DEF ProviderPieces, Settled, Homing
<1>12. WellOrdered((p \o one) \o (p \o names3), (ProviderPieces \cup {"payments"}) \cup RegistryPieces,
                   "provider")
  BY <1>8, <1>10, <1>11, WellConcat
<1>13. WellOrdered(((p \o one) \o (p \o names3)) \o five,
                   ((ProviderPieces \cup {"payments"}) \cup RegistryPieces) \cup
                       {"accounts", "node", "ids", "listeners", "paymentsDone"}, "provider")
  BY <1>6, <1>7, <1>12, WellConcat
<1>14. ((ProviderPieces \cup {"payments"}) \cup RegistryPieces) \cup
           {"accounts", "node", "ids", "listeners", "paymentsDone"} = PaymentPieces
  BY DEF PaymentPieces, RegistryPieces
<1>15. WellOrdered((p \o names3) \o rest, RegistryPieces \cup {"forkRest", "join"}, "provider")
  BY <1>6, <1>7, <1>8, WellConcat
<1>16. /\ InitializeRegistries = p \o names3 /\ InitializeGovernance = p \o two
       /\ InitializePayments = ((p \o one) \o (p \o names3)) \o five
       /\ Initialize = (p \o names3) \o rest /\ InitializeForChainId = all
  BY DEF InitializeRegistries, InitializeGovernance, InitializePayments, Initialize,
         InitializeForChainId, p, names3, two, one, five, rest, all
<1>. QED
  BY <1>6, <1>8, <1>9, <1>13, <1>14, <1>15, <1>16

-----------------------------------------------------------------------------
(* What the other threads of an alone call keep, when one of them steps.   *)

LEMMA AimsStay ==
    ASSUME NEW c \in Calls, SamePage(c), Steady(Goal(c))
    PROVE  Goal(c)' = Goal(c) /\ \A u \in Threads : u[1] = c => Role(u)' = Role(u)
<1>1. Goal(c)' = Goal(c)
  <2>1. CASE page[c].chain = None
    BY <2>1 DEF Goal, SamePage, Steady
  <2>2. CASE page[c].chain # None
    BY <2>2 DEF Goal, SamePage
  <2>. QED
    BY <2>1, <2>2
<1>2. \A u \in Threads : u[1] = c => Role(u)' = Role(u)
  BY DEF Role, SamePage
<1>. QED
  BY <1>1, <1>2

LEMMA EffectStays ==
    ASSUME NEW goal, NEW role, NEW piece, Effect(goal, role, piece), Steady(goal)
    PROVE  Effect(goal, role, piece)'
<1>1. /\ Reached(goal) => Reached(goal)'
      /\ Made(registry, goal) => Made(registry, goal)'
      /\ Made(governance, goal) => Made(governance, goal)'
      /\ chainOf["initialized"] # None => chainOf'["initialized"] # None
  BY DEF Steady, Reached, Made
<1>2. \A k \in Kinds : goal \in done[k] => goal \in done'[k]
  BY DEF Steady
<1>3. "registries" \in Kinds /\ "governance" \in Kinds /\ "payments" \in Kinds
  BY DEF Kinds
<1>4. ASSUME \A k \in Kinds : done[k] # {} => goal \in done[k]
      PROVE  \A k \in Kinds : done'[k] # {} => goal \in done'[k]
  BY <1>4 DEF Steady
<1>5. ASSUME (\E k \in Kinds : done[k] # {}) => Chain = goal
      PROVE  (\E k \in Kinds : done'[k] # {}) => Chain' = goal
  <2>. SUFFICES ASSUME NEW k \in Kinds, done'[k] # {} PROVE Chain' = goal
    OBVIOUS
  <2>1. CASE done'[k] = done[k]
    BY <1>5, <2>1 DEF Steady
  <2>2. CASE done'[k] # done[k]
    BY <2>2 DEF Steady
  <2>. QED
    BY <2>1, <2>2
<1>6. /\ piece = "context" => Reached(goal)'
      /\ piece = "registries" => Made(registry, goal)'
      /\ piece = "registriesDone" => goal \in done'["registries"]
      /\ piece = "governance" => Made(governance, goal)'
      /\ piece = "governanceDone" => goal \in done'["governance"]
      /\ piece = "ids" => chainOf'["initialized"] # None
      /\ piece = "paymentsDone" => goal \in done'["payments"]
  BY <1>1, <1>2, <1>3 DEF Effect
<1>7. ASSUME piece = "join", role = Collects
      PROVE  /\ \A k \in Kinds : done'[k] # {} => goal \in done'[k]
             /\ (\E k \in Kinds : done'[k] # {}) => Chain' = goal
  <2>1. /\ \A k \in Kinds : done[k] # {} => goal \in done[k]
        /\ (\E k \in Kinds : done[k] # {}) => Chain = goal
    BY <1>7 DEF Effect
  <2>. QED
    BY <1>4, <1>5, <2>1
<1>8. ASSUME piece = "join", role # Collects
      PROVE  /\ Made(governance, goal)' /\ goal \in done'["governance"]
             /\ goal \in done'["payments"] /\ chainOf'["initialized"] # None
  BY <1>1, <1>2, <1>3, <1>8 DEF Effect
<1>. QED
  BY <1>6, <1>7, <1>8 DEF Effect

LEMMA RightStays ==
    ASSUME NEW goal, NEW role, NEW th, Right(goal, role, th), Steady(goal)
    PROVE  Right(goal, role, th)'
<1>1. ASSUME NEW piece \in PiecesOf(RunFor(role)), Behind(th, piece)
      PROVE  Effect(goal, role, piece)'
  BY <1>1, EffectStays DEF Right
<1>2. /\ context' = context /\ (ready # {} => ready' # {})
      /\ governanceProvider \in {goal, "main"} => governanceProvider' \in {goal, "main"}
  BY DEF Steady
<1>. QED
  BY <1>1, <1>2 DEF Right

LEMMA ThreadRight ==
    ASSUME NEW c \in Calls, SamePage(c), Steady(Goal(c)), NEW u \in Threads, u[1] = c,
           NEW goal, goal = Goal(c), NEW role, role = Role(u), NEW new, thread'[u] = new,
           Right(goal, role, new)', new.left # <<>> => new.asked = page[c].chain
    PROVE  RightThread(u)'
<1>1. Goal(c)' = goal /\ Role(u)' = role /\ page'[c].chain = page[c].chain
  BY AimsStay DEF SamePage
<1>2. Right(goal, role, new)'
  OBVIOUS
<1>. QED
  BY <1>1, <1>2 DEF RightThread, Right, Effect, Reached

-----------------------------------------------------------------------------
(* How a thread of an alone call goes on.                                  *)

Lasting == {"context", "registries", "registriesDone", "governance", "governanceDone", "ids",
            "paymentsDone", "join"}

LEMMA NoEffect ==
    ASSUME NEW goal, NEW role, NEW piece, piece \notin Lasting
    PROVE  Effect(goal, role, piece)'
  BY DEF Effect, Lasting

LEMMA RightMoved ==
    ASSUME NEW goal, NEW role, NEW th \in ThreadType, th.left # <<>>, Succeeds(th),
           Right(goal, role, th), Steady(goal),
           NEW k \in 1..Len(th.left), NEW new, new.left = Rest(th.left, k),
           new.ended = th.ended,
           \A j \in 1..(k - 1) : Effect(goal, role, th.left[j])',
           role # Collects =>
               /\ th.left[k] # "provider" => new.captured = context' /\ new.g = goal
               /\ th.left[k] \notin Reaching => ready' # {}
               /\ th.left[k] = "context" => governanceProvider' \in {goal, "main"},
           \/ new.outer = context' /\ new.home = goal
           \/ /\ new.outer = th.outer /\ new.home = th.home
              /\ \A j \in 1..(k - 1) : th.left[j] # "payments"
    PROVE  Right(goal, role, new)'
<1>1. /\ th.left \in Seq(Pieces) /\ new.left \in Seq(Pieces) /\ new.left # <<>>
      /\ Head(new.left) = th.left[k]
  BY RestIs DEF ThreadType
<1>2. \A i \in 1..Len(new.left) : new.left[i] \in PiecesOf(RunFor(role)) \cup {"waitForNames"}
  <2>1. PiecesOf(new.left) \subseteq PiecesOf(th.left)
    BY <1>1, RestPieces
  <2>2. PiecesOf(th.left) \subseteq PiecesOf(RunFor(role)) \cup {"waitForNames"}
    BY DEF Right, PiecesOf
  <2>3. \A i \in 1..Len(new.left) : new.left[i] \in PiecesOf(new.left)
    BY DEF PiecesOf
  <2>. QED
    BY <2>1, <2>2, <2>3
<1>3. Ordered(new.left)
  BY <1>1, RestOrdered DEF Right
<1>4. \A piece : Behind(new, piece) =>
          Behind(th, piece) \/ \E j \in 1..(k - 1) : th.left[j] = piece
  BY <1>1, RestPieces DEF Behind
<1>5. ASSUME NEW piece \in PiecesOf(RunFor(role)), Behind(new, piece)
      PROVE  Effect(goal, role, piece)'
  <2>1. CASE Behind(th, piece)
    BY <2>1, EffectStays DEF Right
  <2>2. CASE \E j \in 1..(k - 1) : th.left[j] = piece
    BY <2>2
  <2>. QED
    BY <1>4, <1>5, <2>1, <2>2
<1>6. role \in Kinds => new.ended # "thrown"
  BY DEF Right
<1>7. "payments" \in PiecesOf(RunFor(role)) /\ Behind(new, "payments") =>
          new.outer = context' /\ new.home = goal
  BY <1>4 DEF Right, Steady
<1>. QED
  BY <1>1, <1>2, <1>3, <1>5, <1>6, <1>7 DEF Right

\* A thread that has ended, or does nothing.
LEMMA RightEnds ==
    ASSUME NEW goal, NEW role, NEW end, end = "thrown" => role \notin Kinds,
           end = "done" => \A piece \in PiecesOf(RunFor(role)) : Effect(goal, role, piece)'
    PROVE  Right(goal, role, Ended(end))'
<1>. DEFINE new == Ended(end)
<1>1. new.left = <<>> /\ new.ended = end
  BY DEF Ended, Idle
<1>. HIDE DEF new
<1>2. Len(new.left) = 0
  BY <1>1
<1>3. Ordered(new.left)
  BY <1>2 DEF Ordered
<1>4. \A piece : Behind(new, piece) => end = "done"
  BY <1>1 DEF Behind, Succeeds
<1>5. Right(goal, role, new)'
  BY <1>1, <1>2, <1>3, <1>4 DEF Right
<1>. QED
  BY <1>5 DEF new

LEMMA RightGoesOn ==
    ASSUME NEW goal, NEW role, NEW th \in ThreadType, th.left # <<>>, Linked(th.left),
           th.ended = "none", Head(th.left) # "waitForNames",
           Right(goal, role, th), Steady(goal),
           NEW w \in ThreadType, w.left = th.left, w.ended = th.ended,
           Effect(goal, role, Head(th.left))',
           role # Collects =>
               /\ w.captured = context' /\ w.g = goal
               /\ Head(th.left) \notin {"provider", "choose", "connect", "key"} => ready' # {}
               /\ Head(th.left) = "main" => governanceProvider' \in {goal, "main"},
           \/ w.outer = context' /\ w.home = goal
           \/ w.outer = th.outer /\ w.home = th.home /\ Head(th.left) # "payments"
    PROVE  /\ Right(goal, role, GoOn(w))' /\ Busy(GoOn(w))
           /\ GoOn(w).left # <<>> => /\ GoOn(w).asked = w.asked
                                     /\ Head(GoOn(w).left) = "join" => Head(th.left) \in Forks
<1>1. th.left \in Seq(Pieces) /\ Succeeds(th) /\ Head(th.left) = th.left[1] /\ 1 \in 1..Len(th.left)
  BY FirstPiece DEF ThreadType, Succeeds
<1>2. CASE Len(th.left) = 1
  <2>1. GoOn(w) = Ended("done")
    BY <1>2 DEF GoOn
  <2>2. ASSUME NEW piece \in PiecesOf(RunFor(role)) PROVE Effect(goal, role, piece)'
    <3>1. CASE piece = th.left[1]
      BY <1>1, <3>1
    <3>2. CASE piece # th.left[1]
      <4>1. ~HasPiece(th.left, piece)
        BY <1>2, <3>2 DEF HasPiece
      <4>2. Effect(goal, role, piece)
        BY <1>1, <4>1 DEF Right, Behind
      <4>. QED
        BY <4>2, EffectStays
    <3>. QED
      BY <3>1, <3>2
  <2>3. Right(goal, role, Ended("done"))'
    BY <2>2, RightEnds
  <2>4. Ended("done").ended = "done" /\ Ended("done").left = <<>>
    BY DEF Ended, Idle
  <2>. QED
    BY <2>1, <2>3, <2>4 DEF Busy
<1>3. CASE Len(th.left) # 1
  <2>1. 2 \in 1..Len(th.left) /\ Tail(th.left) = Rest(th.left, 2)
    BY <1>1, <1>3, TailIs
  <2>2. GoOn(w) = [w EXCEPT !.left = Rest(th.left, 2)]
    BY <1>3, <2>1 DEF GoOn
  <2>. DEFINE new == GoOn(w)
  <2>3. /\ new.left = Rest(th.left, 2) /\ new.ended = th.ended /\ new.asked = w.asked
        /\ new.captured = w.captured /\ new.outer = w.outer /\ new.g = w.g /\ new.home = w.home
    BY <2>2 DEF ThreadType
  <2>. HIDE DEF new
  <2>4. \A j \in 1..(2 - 1) : j = 1
    OBVIOUS
  <2>5. /\ th.left[2] \notin Reaching => th.left[1] \notin {"provider", "choose", "connect", "key"}
        /\ th.left[2] = "context" => th.left[1] = "main"
    <3>1. 1 + 1 = 2 /\ 2 - 1 = 1 /\ 2 # 1
      OBVIOUS
    <3>2. th.left[1] \in {"provider", "choose", "connect", "key"} => th.left[2] \in Reaching
      BY <1>1, <3>1, NextPiece DEF Reaching
    <3>. QED
      BY <1>1, <2>1, <3>1, <3>2, PieceBefore
  <2>6. Right(goal, role, new)'
    BY <1>1, <2>1, <2>3, <2>4, <2>5, RightMoved
  <2>7. new.left # <<>> /\ Head(new.left) = th.left[2]
    BY <1>1, <2>1, <2>3, RestIs
  <2>8. th.left[2] = "join" => th.left[1] \in Forks
    <3>1. 2 - 1 = 1 /\ 2 # 1
      OBVIOUS
    <3>. QED
      BY <2>1, <3>1 DEF Right, Ordered
  <2>. QED
    BY <1>1, <2>3, <2>6, <2>7, <2>8 DEF new, Busy
<1>. QED
  BY <1>2, <1>3

LEMMA RightSkips ==
    ASSUME NEW goal, NEW role, NEW th \in ThreadType, th.left # <<>>, Right(goal, role, th),
           Steady(goal), Head(th.left) # "waitForNames",
           NEW w \in ThreadType, w.left = th.left, w.ended = th.ended,
           w.outer = th.outer, w.home = th.home,
           role # Collects => w.captured = context' /\ w.g = goal,
           NEW k \in 1..Len(th.left), NEW piece \in Middle, th.left[k] = piece,
           \A j \in 1..(k - 1) : th.left[j] \in Reaching \ {piece},
           piece = "context" /\ role # Collects =>
               ready' # {} /\ governanceProvider' \in {goal, "main"}
    PROVE  /\ Right(goal, role, SkipTo(w, piece))' /\ Busy(SkipTo(w, piece))
           /\ SkipTo(w, piece).asked = w.asked /\ Head(SkipTo(w, piece).left) = piece
<1>1. SkipTo(w, piece) = [w EXCEPT !.left = Rest(th.left, k)]
  BY SkipIs
<1>. DEFINE new == SkipTo(w, piece)
<1>2. /\ new.left = Rest(th.left, k) /\ new.ended = th.ended /\ new.asked = w.asked
      /\ new.captured = w.captured /\ new.outer = w.outer /\ new.g = w.g /\ new.home = w.home
  BY <1>1 DEF ThreadType
<1>. HIDE DEF new
<1>3. th.left \in Seq(Pieces) /\ Succeeds(th)
  BY DEF ThreadType, Succeeds
<1>4. new.left # <<>> /\ Head(new.left) = piece
  BY <1>2, <1>3, RestIs
<1>5. \A j \in 1..(k - 1) : Effect(goal, role, th.left[j])' /\ th.left[j] # "payments"
  <2>1. Reaching \cap (Lasting \cup {"payments"}) = {}
    BY DEF Reaching, Lasting
  <2>. QED
    BY <2>1, NoEffect
<1>6. piece \notin Reaching => piece = "context"
  BY DEF Middle, Reaching
<1>7. Right(goal, role, new)'
  BY <1>2, <1>3, <1>5, <1>6, RightMoved
<1>. QED
  BY <1>2, <1>4, <1>7 DEF new, Busy

\* A thread that waits for the names, to fail.
LEMMA RightWaits ==
    ASSUME NEW goal, NEW role, NEW th \in ThreadType, th.left # <<>>, Right(goal, role, th),
           Steady(goal), Head(th.left) = "names"
    PROVE  Right(goal, role, [th EXCEPT !.left = <<"waitForNames">>])'
<1>. DEFINE new == [th EXCEPT !.left = <<"waitForNames">>]
<1>1. /\ new.left = <<"waitForNames">> /\ new.ended = th.ended
      /\ new.captured = th.captured /\ new.g = th.g
  BY DEF ThreadType
<1>. HIDE DEF new
<1>2. Len(new.left) = 1 /\ new.left[1] = "waitForNames" /\ Head(new.left) = "waitForNames"
      /\ new.left # <<>> /\ \A i \in 1..1 : i = 1
  BY <1>1
<1>3. Ordered(new.left)
  BY <1>2 DEF Ordered, Opening
<1>4. \A piece : ~Behind(new, piece)
  BY <1>2 DEF Behind, Succeeds
<1>5. /\ role \in Kinds => new.ended # "thrown"
      /\ role # Collects => new.captured = context' /\ new.g = goal /\ ready' # {}
  BY <1>1 DEF Right, Steady, Reaching
<1>6. Right(goal, role, new)'
  BY <1>2, <1>3, <1>4, <1>5 DEF Right
<1>. QED
  BY <1>6 DEF new

\* One thread of an alone call makes a step, and does not come to wait for the others.
LEMMA OneMoves ==
    ASSUME NEW c \in Calls, AllRight(c), SamePage(c), Steady(Goal(c)),
           thread \in [Threads -> ThreadType], NEW t \in Threads, t[1] = c,
           NEW new, thread' = [thread EXCEPT ![t] = new],
           NEW goal, goal = Goal(c), NEW role, role = Role(t),
           Right(goal, role, new)', Busy(new),
           new.left # <<>> => new.asked = page[c].chain /\ Head(new.left) # "join"
    PROVE  AllRight(c)'
<1>1. thread'[t] = new /\ \A u \in Threads : u # t => thread'[u] = thread[u]
  OBVIOUS
<1>2. ASSUME NEW u \in Threads, Busy(thread'[u]) PROVE u[1] = c
  BY <1>1, <1>2 DEF AllRight
<1>3. ASSUME NEW u \in Threads, u[1] = c PROVE RightThread(u)'
  <2>1. CASE u = t
    BY <1>1, <2>1, ThreadRight
  <2>2. CASE u # t
    <3>1. PICK mine : mine = Role(u)
      OBVIOUS
    <3>2. PICK old : old = thread[u]
      OBVIOUS
    <3>3. Right(goal, mine, old) /\ (old.left # <<>> => old.asked = page[c].chain)
      BY <1>3, <3>1, <3>2 DEF AllRight, RightThread
    <3>4. Right(goal, mine, old)'
      BY <3>3, RightStays
    <3>5. thread'[u] = old
      BY <1>1, <2>2, <3>2
    <3>. QED
      BY <1>3, <3>1, <3>3, <3>4, <3>5, ThreadRight
  <2>. QED
    BY <2>1, <2>2
<1>4. Joins(c)'
  <2>. DEFINE call == <<c, "call">>
  <2>1. call \in Threads /\ \A k \in Kinds : <<c, k>> \in Threads /\ <<c, k>> # call
    BY DEF Threads, Kinds
  <2>2. Goal(c)' = goal /\ page'[c].method = page[c].method
    BY AimsStay DEF SamePage
  <2>3. CASE t = call
    <3>1. ~(thread'[call].left # <<>> /\ Head(thread'[call].left) = "join")
      BY <1>1, <2>3
    <3>. QED
      BY <3>1 DEF Joins
  <2>4. CASE t # call
    <3>1. thread'[call] = thread[call]
      BY <1>1, <2>1, <2>4
    <3>2. PICK k \in Kinds : t = <<c, k>>
      BY <2>4 DEF Threads
    <3>3. Busy(thread'[<<c, k>>])
      BY <1>1, <3>2
    <3>4. \A j \in Kinds : Busy(thread[<<c, j>>]) => Busy(thread'[<<c, j>>])
      BY <1>1, <2>1
    <3>5. \A j \in Kinds : done'[j] = done[j] \/ goal \in done'[j]
      BY DEF Steady
    <3>6. \A j \in Kinds : goal \in done[j] => goal \in done'[j]
      BY DEF Steady
    <3>7. "governance" \in Kinds /\ "payments" \in Kinds
      BY DEF Kinds
    <3>. SUFFICES ASSUME thread[call].left # <<>> /\ Head(thread[call].left) = "join"
                  PROVE  IF page[c].method = Collects
                         THEN /\ \A j \in Kinds : done'[j] # {} =>
                                     Busy(thread'[<<c, j>>]) \/ goal \in done'[j]
                              /\ (\E j \in Kinds : done'[j] # {}) =>
                                     \E j \in Kinds : Busy(thread'[<<c, j>>])
                         ELSE Busy(thread'[<<c, "governance">>]) /\ Busy(thread'[<<c, "payments">>])
      BY <2>2, <3>1 DEF Joins, Busy
    <3>8. CASE page[c].method = Collects
      <4>1. \A j \in Kinds : done[j] # {} => Busy(thread[<<c, j>>]) \/ goal \in done[j]
        BY <3>8 DEF AllRight, Joins
      <4>2. \A j \in Kinds : done'[j] # {} => Busy(thread'[<<c, j>>]) \/ goal \in done'[j]
        BY <3>4, <3>5, <3>6, <4>1
      <4>. QED
        BY <3>3, <3>8, <4>2
    <3>9. CASE page[c].method # Collects
      <4>1. Busy(thread[<<c, "governance">>]) /\ Busy(thread[<<c, "payments">>])
        BY <3>9 DEF AllRight, Joins
      <4>. QED
        BY <3>4, <3>7, <3>9, <4>1
    <3>. QED
      BY <3>8, <3>9
  <2>. QED
    BY <2>3, <2>4
<1>. QED
  BY <1>2, <1>3, <1>4 DEF AllRight, Busy

\* What the threads of an alone call begin with.
LEMMA RoleRuns ==
    /\ RunFor("registries") = InitializeRegistries
    /\ RunFor("initializeRegistries") = InitializeRegistries
    /\ RunFor("governance") = InitializeGovernance
    /\ RunFor("initializeGovernance") = InitializeGovernance
    /\ RunFor("payments") = InitializePayments
    /\ RunFor("initializePayments") = InitializePayments
    /\ RunFor("initialize") = Initialize /\ RunFor(Collects) = InitializeForChainId
    /\ Roles = {"registries", "governance", "payments", "initialize", "initializeRegistries",
                "initializeGovernance", "initializePayments", Collects}
<1>1. Roles = {"registries", "governance", "payments", "initialize", "initializeRegistries",
               "initializeGovernance", "initializePayments", Collects}
  BY DEF Roles, Kinds, Initializers, Collects
<1>2. \A m \in Initializers : m \notin Kinds /\ m \notin Waits \cup ContextCalls \cup NodeCalls \cup
          GatewayCalls \cup NotWritten \cup GovernanceCalls \cup RegistryCalls \cup ProviderCalls
  BY DEF Initializers, Kinds, Waits, ContextCalls, NodeCalls, GatewayCalls, NotWritten,
         GovernanceCalls, RegistryCalls, RegistryReads, RegistryWrites, ProviderCalls
<1>3. /\ Run("initialize") = Initialize /\ Run("initializeRegistries") = InitializeRegistries
      /\ Run("initializeGovernance") = InitializeGovernance
      /\ Run("initializePayments") = InitializePayments
      /\ Run("initializeForChainId") = InitializeForChainId
  <2>1. {"initialize", "initializeRegistries", "initializeGovernance", "initializePayments",
         "initializeForChainId"} = Initializers
    BY DEF Initializers
  <2>. QED
    BY <1>2, <2>1 DEF Run, Waits
<1>4. /\ RunOf("registries") = InitializeRegistries /\ RunOf("governance") = InitializeGovernance
      /\ RunOf("payments") = InitializePayments
  BY DEF RunOf
<1>5. /\ RunFor("registries") = InitializeRegistries
      /\ RunFor("initializeRegistries") = InitializeRegistries
      /\ RunFor("governance") = InitializeGovernance
      /\ RunFor("initializeGovernance") = InitializeGovernance
      /\ RunFor("payments") = InitializePayments
      /\ RunFor("initializePayments") = InitializePayments
      /\ RunFor("initialize") = Initialize /\ RunFor(Collects) = InitializeForChainId
  BY <1>3, <1>4 DEF RunFor, Kinds, Collects
<1>. QED
  BY <1>1, <1>5

LEMMA RunsOrdered ==
    ASSUME NEW role \in Roles
    PROVE  WellOrdered(RunFor(role), PiecesOf(RunFor(role)),
                       IF role = Collects THEN "forkDone" ELSE "provider")
<1>1. Collects \notin {"registries", "governance", "payments", "initialize",
          "initializeRegistries", "initializeGovernance", "initializePayments"}
  BY DEF Collects
<1>2. \A s, p, x : WellOrdered(s, p, x) => WellOrdered(s, PiecesOf(s), x)
  BY DEF WellOrdered
<1>. QED
  BY <1>1, <1>2, RoleRuns, InitializersOrdered

\* Which pieces a thread of an alone call may come to.
LEMMA RolePieces ==
    /\ \A role \in {"registries", "initializeRegistries"} : PiecesOf(RunFor(role)) = RegistryPieces
    /\ \A role \in {"governance", "initializeGovernance"} : PiecesOf(RunFor(role)) = GovernancePieces
    /\ \A role \in {"payments", "initializePayments"} : PiecesOf(RunFor(role)) = PaymentPieces
    /\ PiecesOf(RunFor("initialize")) = RegistryPieces \cup {"forkRest", "join"}
    /\ PiecesOf(RunFor(Collects)) = {"forkDone", "join", "switch", "signer"}
    /\ Roles = {"registries", "governance", "payments", "initialize", "initializeRegistries",
                "initializeGovernance", "initializePayments", Collects}
  BY RoleRuns, InitializersOrdered DEF WellOrdered

LEMMA PieceRoles ==
    ASSUME NEW role \in Roles, NEW piece \in PiecesOf(RunFor(role))
    PROVE  /\ piece \in RegistryPieces \cup GovernancePieces \cup PaymentPieces \cup
                  {"forkRest", "forkDone", "join"}
           /\ piece \notin {"forkDone", "join", "switch", "signer"} => role # Collects
           /\ piece = "forkRest" => role = "initialize"
           /\ piece = "forkDone" => role = Collects
           /\ piece = "join" => role \in {"initialize", Collects}
           /\ piece \in Settled => "context" \in PiecesOf(RunFor(role))
           /\ piece \in Homing => "payments" \in PiecesOf(RunFor(role))
<1>1. /\ "context" \in RegistryPieces /\ "context" \in GovernancePieces
      /\ "context" \in PaymentPieces /\ "payments" \in PaymentPieces
  BY DEF RegistryPieces, GovernancePieces, PaymentPieces, ProviderPieces
<1>2. /\ {"forkRest", "forkDone", "join"} \cap
             (RegistryPieces \cup GovernancePieces \cup PaymentPieces) = {}
      /\ {"forkRest", "forkDone", "join", "switch", "signer"} \cap Settled = {}
      /\ Homing \cap (RegistryPieces \cup GovernancePieces) = {} /\ Homing \subseteq Settled
  BY DEF RegistryPieces, GovernancePieces, PaymentPieces, ProviderPieces, Settled, Homing
<1>3. \/ role \in {"registries", "initializeRegistries"} /\ PiecesOf(RunFor(role)) = RegistryPieces
      \/ role \in {"governance", "initializeGovernance"} /\ PiecesOf(RunFor(role)) = GovernancePieces
      \/ role \in {"payments", "initializePayments"} /\ PiecesOf(RunFor(role)) = PaymentPieces
      \/ /\ role = "initialize"
         /\ PiecesOf(RunFor(role)) = RegistryPieces \cup {"forkRest", "join"}
      \/ role = Collects /\ PiecesOf(RunFor(role)) = {"forkDone", "join", "switch", "signer"}
  BY RolePieces
<1>4. /\ Collects \notin {"registries", "initializeRegistries", "governance",
             "initializeGovernance", "payments", "initializePayments", "initialize"}
  BY DEF Collects
<1>. DEFINE P == PiecesOf(RunFor(role))
<1>. HIDE DEF P
<1>5. CASE P \in {RegistryPieces, GovernancePieces, PaymentPieces} /\ role # Collects
  BY <1>1, <1>2, <1>5 DEF P
<1>6. CASE role = "initialize" /\ P = RegistryPieces \cup {"forkRest", "join"}
  <2>1. CASE piece \in RegistryPieces
    BY <1>1, <1>2, <1>4, <1>6, <2>1 DEF P
  <2>2. CASE piece \in {"forkRest", "join"}
    BY <1>1, <1>2, <1>4, <1>6, <2>2 DEF P
  <2>3. piece \in RegistryPieces \/ piece \in {"forkRest", "join"}
    BY <1>6 DEF P
  <2>. QED
    BY <2>1, <2>2, <2>3
<1>7. CASE role = Collects /\ P = {"forkDone", "join", "switch", "signer"}
  <2>1. piece \in {"forkDone", "join", "switch", "signer"}
    BY <1>7 DEF P
  <2>2. piece \notin Settled /\ piece \notin Homing /\ piece # "forkRest"
    BY <1>2, <2>1
  <2>3. piece \in RegistryPieces \cup {"forkDone", "join"}
    BY <2>1 DEF RegistryPieces, ProviderPieces
  <2>. QED
    BY <1>7, <2>1, <2>2, <2>3
<1>. QED
  BY <1>3, <1>4, <1>5, <1>6, <1>7 DEF P

LEMMA HeadOrder ==
    ASSUME NEW s \in Seq(Pieces), s # <<>>, Ordered(s), Head(s) \in Settled
    PROVE  ~HasPiece(s, "context") /\ ~HasPiece(s, "payments")
<1>1. Head(s) = s[1] /\ 1 \in 1..Len(s) /\ Len(s) \in Nat
  BY FirstPiece
<1>2. \A j \in 1..Len(s) : s[j] \in Opening => j < 1
  BY <1>1 DEF Ordered
<1>3. \A j \in 1..Len(s) : ~(j < 1)
  BY <1>1
<1>. QED
  BY <1>2, <1>3 DEF HasPiece, Opening

\* What is known of a thread of an alone call that is not done.
LEMMA AloneThread ==
    ASSUME CoreInv, NEW c \in Calls, AllRight(c), page[c].method \in Initializers,
           page[c].chain \in Chains \cup {None},
           NEW t \in Threads, t[1] = c, NEW th, th = thread[t], th.left # <<>>,
           NEW goal, goal = Goal(c), NEW role, role = Role(t)
    PROVE  /\ th \in ThreadType /\ th.left \in Seq(Pieces) /\ Linked(th.left)
           /\ th.ended = "none" /\ th.asked = page[c].chain
           /\ Right(goal, role, th) /\ role \in Roles
           /\ goal = (IF th.asked = None THEN Chain ELSE th.asked) /\ goal \in Chains
           /\ Head(th.left) # "waitForNames" =>
                 /\ Head(th.left) \in PiecesOf(RunFor(role)) /\ Succeeds(th)
                 /\ Head(th.left) \in Settled => Reached(goal)
                 /\ Head(th.left) \in Homing => th.outer = context /\ th.home = goal
           /\ thread \in [Threads -> ThreadType] /\ StateInv
<1>1. /\ th \in ThreadType /\ th.left \in Seq(Pieces) /\ Linked(th.left) /\ th.ended = "none"
      /\ thread \in [Threads -> ThreadType] /\ StateInv
  BY DEF CoreInv, ThreadInv, ThreadType
<1>2. Right(goal, role, th) /\ th.asked = page[c].chain
  BY DEF AllRight, RightThread
<1>3. role \in Roles
  <2>1. t[2] \in Kinds \cup {"call"}
    BY DEF Threads
  <2>. QED
    BY <2>1 DEF Role, Roles
<1>4. goal = (IF th.asked = None THEN Chain ELSE th.asked) /\ goal \in Chains
  BY <1>1, <1>2 DEF Goal, StateInv, Chain
<1>5. ASSUME Head(th.left) # "waitForNames"
      PROVE  /\ Head(th.left) \in PiecesOf(RunFor(role)) /\ Succeeds(th)
             /\ Head(th.left) \in Settled => Reached(goal)
             /\ Head(th.left) \in Homing => th.outer = context /\ th.home = goal
  <2>1. Head(th.left) \in PiecesOf(RunFor(role)) /\ Succeeds(th)
    BY <1>1, <1>2, <1>5, FirstPiece DEF Right, Succeeds
  <2>2. ASSUME Head(th.left) \in Settled PROVE Reached(goal)
    <3>1. Behind(th, "context")
      BY <1>1, <1>2, <2>1, <2>2, HeadOrder DEF Right, Behind
    <3>2. "context" \in PiecesOf(RunFor(role))
      BY <1>3, <2>1, <2>2, PieceRoles
    <3>3. Effect(goal, role, "context")
      BY <1>2, <3>1, <3>2 DEF Right
    <3>. QED
      BY <3>3 DEF Effect
  <2>3. ASSUME Head(th.left) \in Homing PROVE th.outer = context /\ th.home = goal
    <3>1. Head(th.left) \in Settled
      BY <2>3 DEF Settled
    <3>2. Behind(th, "payments")
      BY <1>1, <1>2, <2>1, <3>1, HeadOrder DEF Right, Behind
    <3>3. "payments" \in PiecesOf(RunFor(role))
      BY <1>3, <2>1, <2>3, PieceRoles
    <3>. QED
      BY <1>2, <3>2, <3>3 DEF Right
  <2>. QED
    BY <2>1, <2>2, <2>3
<1>. QED
  BY <1>1, <1>2, <1>3, <1>4, <1>5

\* The call c, alone in the core, of which t steps. (Assumed of every step below.)
Stepping(c, t) ==
    /\ CoreInv /\ AllRight(c) /\ page[c].method \in Initializers
    /\ page[c].chain \in Chains \cup {None} /\ SamePage(c)
    /\ t[1] = c /\ thread[t].left # <<>>

LEMMA AloneGoesOn ==
    ASSUME NEW c \in Calls, NEW t \in Threads, Stepping(c, t), Steady(Goal(c)),
           NEW th, th = thread[t], NEW goal, goal = Goal(c), NEW role, role = Role(t),
           Head(th.left) \notin Forks \cup {"waitForNames"},
           NEW w \in ThreadType, w.left = th.left, w.ended = th.ended, w.asked = th.asked,
           thread' = [thread EXCEPT ![t] = GoOn(w)],
           Effect(goal, role, Head(th.left))',
           role # Collects =>
               /\ w.captured = context' /\ w.g = goal
               /\ Head(th.left) \notin {"provider", "choose", "connect", "key"} => ready' # {}
               /\ Head(th.left) = "main" => governanceProvider' \in {goal, "main"},
           \/ w.outer = context' /\ w.home = goal
           \/ w.outer = th.outer /\ w.home = th.home /\ Head(th.left) # "payments"
    PROVE  AllRight(c)'
<1>1. /\ th \in ThreadType /\ Linked(th.left) /\ th.ended = "none" /\ Right(goal, role, th)
      /\ th.asked = page[c].chain /\ thread \in [Threads -> ThreadType] /\ th.left # <<>>
      /\ AllRight(c) /\ SamePage(c) /\ t[1] = c
  BY AloneThread DEF Stepping
<1>2. PICK new : new = GoOn(w)
  OBVIOUS
<1>3. /\ Right(goal, role, new)' /\ Busy(new)
      /\ new.left # <<>> => /\ new.asked = w.asked
                            /\ Head(new.left) = "join" => Head(th.left) \in Forks
  BY <1>1, <1>2, RightGoesOn
<1>4. thread' = [thread EXCEPT ![t] = new]
  BY <1>2
<1>. QED
  BY <1>1, <1>3, <1>4, OneMoves

\* A piece that changes nothing of its thread.
LEMMA AlonePlain ==
    ASSUME NEW c \in Calls, NEW t \in Threads, Stepping(c, t), Steady(Goal(c)),
           Head(thread[t].left) \notin Reaching \cup Forks \cup {"payments", "waitForNames"},
           NEW th, th = thread[t], NEW goal, goal = Goal(c), NEW role, role = Role(t),
           Effect(goal, role, Head(th.left))',
           Proceed(t)
    PROVE  AllRight(c)'
<1>1. /\ th \in ThreadType /\ Right(goal, role, th) /\ th.left # <<>>
  BY AloneThread DEF Stepping
<1>2. role # Collects => th.captured = context' /\ th.g = goal /\ ready' # {}
  BY <1>1 DEF Right, Steady, Reaching
<1>3. Head(th.left) # "main" /\ Head(th.left) # "payments"
  BY DEF Reaching
<1>4. thread' = [thread EXCEPT ![t] = GoOn(th)]
  BY DEF Proceed, Becomes
<1>. QED
  BY <1>1, <1>2, <1>3, <1>4, AloneGoesOn

LEMMA AloneEnds ==
    ASSUME NEW c \in Calls, NEW t \in Threads, Stepping(c, t), Steady(Goal(c)),
           NEW end \in {"error", "thrown"}, end = "thrown" => Role(t) \notin Kinds,
           Becomes(t, Ended(end))
    PROVE  AllRight(c)'
<1>1. PICK goal, role, th : goal = Goal(c) /\ role = Role(t) /\ th = thread[t]
  OBVIOUS
<1>2. /\ AllRight(c) /\ SamePage(c) /\ t[1] = c /\ thread \in [Threads -> ThreadType]
  BY DEF Stepping, CoreInv
<1>3. PICK new : new = Ended(end)
  OBVIOUS
<1>4. new.left = <<>> /\ Busy(new)
  BY <1>3 DEF Ended, Idle, Busy
<1>5. Right(goal, role, new)'
  BY <1>1, <1>3, RightEnds
<1>6. thread' = [thread EXCEPT ![t] = new]
  BY <1>3 DEF Becomes
<1>. QED
  BY <1>1, <1>2, <1>4, <1>5, <1>6, OneMoves

\* A thread skips to the piece k of its method.
LEMMA AloneSkips ==
    ASSUME NEW c \in Calls, NEW t \in Threads, Stepping(c, t), Steady(Goal(c)),
           NEW th, th = thread[t], NEW goal, goal = Goal(c), NEW role, role = Role(t),
           Head(th.left) # "waitForNames",
           NEW w \in ThreadType, w.left = th.left, w.ended = th.ended, w.asked = th.asked,
           w.outer = th.outer, w.home = th.home,
           role # Collects => w.captured = context' /\ w.g = goal,
           NEW k \in 1..Len(th.left), NEW piece \in Middle, th.left[k] = piece,
           \A j \in 1..(k - 1) : th.left[j] \in Reaching \ {piece},
           piece = "context" /\ role # Collects =>
               ready' # {} /\ governanceProvider' \in {goal, "main"},
           Becomes(t, SkipTo(w, piece))
    PROVE  AllRight(c)'
<1>1. /\ th \in ThreadType /\ Right(goal, role, th) /\ th.left # <<>>
      /\ th.asked = page[c].chain /\ thread \in [Threads -> ThreadType]
      /\ AllRight(c) /\ SamePage(c) /\ t[1] = c
  BY AloneThread DEF Stepping
<1>2. PICK new : new = SkipTo(w, piece)
  OBVIOUS
<1>3. Right(goal, role, new)' /\ Busy(new) /\ new.asked = w.asked /\ Head(new.left) = piece
  BY <1>1, <1>2, RightSkips
<1>4. thread' = [thread EXCEPT ![t] = new] /\ piece # "join"
  BY <1>2 DEF Becomes, Middle
<1>. QED
  BY <1>1, <1>3, <1>4, OneMoves

-----------------------------------------------------------------------------
(* The pieces of BlockchainProvider, in an alone call.                     *)

LEMMA SteadySame ==
    ASSUME NEW goal, UNCHANGED <<ready, governanceProvider, contextVars, registry, governance, done>>
    PROVE  Steady(goal)
  BY DEF Steady, Chain, contextVars

LEMMA AloneGetProvider ==
    ASSUME NEW c \in Calls, NEW t \in Threads, Stepping(c, t), GetProvider(t)
    PROVE  AllRight(c)'
<1>1. PICK goal, role, th : goal = Goal(c) /\ role = Role(t) /\ th = thread[t]
  OBVIOUS
<1>2. Head(th.left) = "provider" /\ th.left # <<>>
  BY <1>1 DEF GetProvider, At
<1>3. /\ th \in ThreadType /\ th.left \in Seq(Pieces) /\ Linked(th.left) /\ StateInv
      /\ goal = (IF th.asked = None THEN Chain ELSE th.asked) /\ goal \in Chains
  BY <1>1, AloneThread DEF Stepping
<1>4. /\ th.left[1] = "provider" /\ 2 \in 1..Len(th.left) /\ 3 \in 1..Len(th.left)
      /\ 6 \in 1..Len(th.left) /\ th.left[2] = "choose" /\ th.left[3] = "connect"
      /\ th.left[4] = "key" /\ th.left[5] = "main" /\ th.left[6] = "context"
  BY <1>2, <1>3, FirstPiece, Positions
<1>5. PICK w : w = [th EXCEPT !.g = goal, !.captured = context]
  OBVIOUS
<1>6. /\ w \in ThreadType /\ w.left = th.left /\ w.ended = th.ended /\ w.captured = context
      /\ w.outer = th.outer /\ w.home = th.home /\ w.asked = th.asked /\ w.g = goal
  BY <1>3, <1>5 DEF ThreadType, StateInv
<1>7. \/ /\ goal \in ready /\ governanceProvider' = goal /\ Becomes(t, SkipTo(w, "context"))
      \/ /\ governanceProvider' = governanceProvider /\ Becomes(t, SkipTo(w, "choose"))
      \/ /\ governanceProvider' = governanceProvider /\ Becomes(t, SkipTo(w, "connect"))
  BY <1>1, <1>3, <1>5 DEF GetProvider
<1>8. UNCHANGED <<ready, contextVars, registry, governance, done>> /\ context' = context
  BY DEF GetProvider, contracts, contextVars
<1>9. Steady(goal)
  BY <1>7, <1>8 DEF Steady, Chain, contextVars
<1>10. {"context", "choose", "connect"} \subseteq Middle
  BY DEF Middle
<1>11. CASE goal \in ready /\ governanceProvider' = goal /\ Becomes(t, SkipTo(w, "context"))
  <2>1. \A j \in 1..(6 - 1) : th.left[j] \in Reaching \ {"context"}
    <3>1. \A j \in 1..(6 - 1) : j = 1 \/ j = 2 \/ j = 3 \/ j = 4 \/ j = 5
      OBVIOUS
    <3>. QED
      BY <1>4, <3>1 DEF Reaching
  <2>2. ready' # {} /\ governanceProvider' \in {goal, "main"}
    BY <1>8, <1>11
  <2>3. "context" \in Middle /\ th.left[6] = "context" /\ 6 \in 1..Len(th.left)
    BY <1>4, <1>10
  <2>4. Head(th.left) # "waitForNames" /\ w.captured = context' /\ Becomes(t, SkipTo(w, "context"))
    BY <1>2, <1>6, <1>8, <1>11
  <2>. QED
    BY <1>1, <1>6, <1>9, <2>1, <2>2, <2>3, <2>4, AloneSkips
<1>12. CASE Becomes(t, SkipTo(w, "choose"))
  <2>1. \A j \in 1..(2 - 1) : th.left[j] \in Reaching \ {"choose"}
    <3>1. \A j \in 1..(2 - 1) : j = 1
      OBVIOUS
    <3>. QED
      BY <1>4, <3>1 DEF Reaching
  <2>. QED
    BY <1>1, <1>2, <1>4, <1>6, <1>8, <1>9, <1>10, <1>12, <2>1, AloneSkips
<1>13. CASE Becomes(t, SkipTo(w, "connect"))
  <2>1. \A j \in 1..(3 - 1) : th.left[j] \in Reaching \ {"connect"}
    <3>1. \A j \in 1..(3 - 1) : j = 1 \/ j = 2
      OBVIOUS
    <3>. QED
      BY <1>4, <3>1 DEF Reaching
  <2>2. "connect" \in Middle /\ th.left[3] = "connect" /\ 3 \in 1..Len(th.left)
    BY <1>4, <1>10
  <2>3. Head(th.left) # "waitForNames" /\ w.captured = context' /\ "connect" # "context"
    BY <1>2, <1>6, <1>8
  <2>. QED
    BY <1>1, <1>6, <1>9, <1>13, <2>1, <2>2, <2>3, AloneSkips
<1>. QED
  BY <1>7, <1>11, <1>12, <1>13

\* From a piece within BlockchainProvider: the context and the chain are known.
LEMMA WithinProvider ==
    ASSUME NEW c \in Calls, NEW t \in Threads, Stepping(c, t),
           NEW th, th = thread[t], NEW goal, goal = Goal(c), NEW role, role = Role(t),
           Head(th.left) \in Middle
    PROVE  /\ th \in ThreadType /\ th.left # <<>> /\ th.left \in Seq(Pieces) /\ Linked(th.left)
           /\ th.left[1] = Head(th.left) /\ th.captured = context /\ th.g = goal
           /\ role # Collects /\ goal \in Chains /\ Right(goal, role, th) /\ StateInv
           /\ goal = (IF th.asked = None THEN Chain ELSE th.asked)
<1>1. /\ th \in ThreadType /\ th.left # <<>> /\ th.left \in Seq(Pieces) /\ Linked(th.left)
      /\ Right(goal, role, th) /\ role \in Roles /\ goal \in Chains /\ StateInv
      /\ goal = (IF th.asked = None THEN Chain ELSE th.asked)
      /\ Head(th.left) # "waitForNames" => Head(th.left) \in PiecesOf(RunFor(role))
  BY AloneThread DEF Stepping
<1>2. Head(th.left) \notin {"waitForNames", "forkDone", "join", "switch", "signer", "provider"}
  BY DEF Middle
<1>3. role # Collects
  BY <1>1, <1>2, PieceRoles
<1>. QED
  BY <1>1, <1>2, <1>3, FirstPiece DEF Right

LEMMA AloneConnect ==
    ASSUME NEW c \in Calls, NEW t \in Threads, Stepping(c, t), Connect(t)
    PROVE  AllRight(c)'
<1>1. PICK goal, role, th : goal = Goal(c) /\ role = Role(t) /\ th = thread[t]
  OBVIOUS
<1>2. Head(th.left) = "connect" /\ Head(th.left) \in Middle
  BY <1>1 DEF Connect, At, Middle
<1>3. /\ th \in ThreadType /\ th.left # <<>> /\ th.left \in Seq(Pieces) /\ Linked(th.left)
      /\ th.left[1] = Head(th.left) /\ th.captured = context /\ th.g = goal
  BY <1>1, <1>2, WithinProvider
<1>4. /\ 2 \in 1..Len(th.left) /\ 3 \in 1..Len(th.left)
      /\ th.left[2] = "key" /\ th.left[3] = "main"
  BY <1>2, <1>3, Positions
<1>5. Becomes(t, SkipTo(th, "main")) \/ Becomes(t, SkipTo(th, "key"))
  BY <1>1 DEF Connect, AskForKey
<1>6. /\ UNCHANGED <<ready, governanceProvider, contextVars, registry, governance, done>>
      /\ context' = context
  BY DEF Connect, contracts, contextVars
<1>7. Steady(goal)
  BY <1>6, SteadySame
<1>8. {"main", "key"} \subseteq Middle
  BY DEF Middle
<1>9. CASE Becomes(t, SkipTo(th, "main"))
  <2>1. \A j \in 1..(3 - 1) : th.left[j] \in Reaching \ {"main"}
    <3>1. \A j \in 1..(3 - 1) : j = 1 \/ j = 2
      OBVIOUS
    <3>. QED
      BY <1>2, <1>3, <1>4, <3>1 DEF Reaching
  <2>. QED
    BY <1>1, <1>2, <1>3, <1>4, <1>6, <1>7, <1>8, <1>9, <2>1, AloneSkips
<1>10. CASE Becomes(t, SkipTo(th, "key"))
  <2>1. \A j \in 1..(2 - 1) : th.left[j] \in Reaching \ {"key"}
    <3>1. \A j \in 1..(2 - 1) : j = 1
      OBVIOUS
    <3>. QED
      BY <1>2, <1>3, <3>1 DEF Reaching
  <2>. QED
    BY <1>1, <1>2, <1>3, <1>4, <1>6, <1>7, <1>8, <1>10, <2>1, AloneSkips
<1>. QED
  BY <1>5, <1>9, <1>10

\* The answers of the user.
LEMMA AloneAnswer ==
    ASSUME NEW c \in Calls, NEW t \in Threads, Stepping(c, t), t = asker,
           SupplyProviderId \/ RejectProviderIdRequest
    PROVE  AllRight(c)'
<1>1. PICK goal, role, th : goal = Goal(c) /\ role = Role(t) /\ th = thread[t]
  OBVIOUS
<1>2. Head(th.left) = "choose" /\ Head(th.left) \in Middle
  BY <1>1 DEF Stepping, CoreInv, AskInv, At, SupplyProviderId, RejectProviderIdRequest, Middle
<1>3. /\ th \in ThreadType /\ th.left # <<>> /\ th.left \in Seq(Pieces) /\ Linked(th.left)
      /\ th.left[1] = Head(th.left) /\ th.captured = context /\ th.g = goal
  BY <1>1, <1>2, WithinProvider
<1>4. /\ 2 \in 1..Len(th.left) /\ 3 \in 1..Len(th.left)
      /\ th.left[2] = "connect" /\ th.left[3] = "key"
  BY <1>2, <1>3, Positions
<1>5. Becomes(t, SkipTo(th, "connect")) \/ Becomes(t, SkipTo(th, "key"))
  BY <1>1 DEF SupplyProviderId, RejectProviderIdRequest, AskForKey
<1>6. /\ UNCHANGED <<ready, governanceProvider, contextVars, registry, governance, done>>
      /\ context' = context
  BY DEF SupplyProviderId, RejectProviderIdRequest, contracts, contextVars, blockchain
<1>7. Steady(goal)
  BY <1>6, SteadySame
<1>8. {"connect", "key"} \subseteq Middle
  BY DEF Middle
<1>9. CASE Becomes(t, SkipTo(th, "key"))
  <2>1. \A j \in 1..(3 - 1) : th.left[j] \in Reaching \ {"key"}
    <3>1. \A j \in 1..(3 - 1) : j = 1 \/ j = 2
      OBVIOUS
    <3>. QED
      BY <1>2, <1>3, <1>4, <3>1 DEF Reaching
  <2>. QED
    BY <1>1, <1>2, <1>3, <1>4, <1>6, <1>7, <1>8, <1>9, <2>1, AloneSkips
<1>10. CASE Becomes(t, SkipTo(th, "connect"))
  <2>1. \A j \in 1..(2 - 1) : th.left[j] \in Reaching \ {"connect"}
    <3>1. \A j \in 1..(2 - 1) : j = 1
      OBVIOUS
    <3>. QED
      BY <1>2, <1>3, <3>1 DEF Reaching
  <2>. QED
    BY <1>1, <1>2, <1>3, <1>4, <1>6, <1>7, <1>8, <1>10, <2>1, AloneSkips
<1>. QED
  BY <1>5, <1>9, <1>10

LEMMA AloneCredentials ==
    ASSUME NEW c \in Calls, NEW t \in Threads, Stepping(c, t), t = keyAsker,
           SupplyPrivateCredentials
    PROVE  AllRight(c)'
<1>1. PICK goal, role, th : goal = Goal(c) /\ role = Role(t) /\ th = thread[t]
  OBVIOUS
<1>2. Head(th.left) = "key" /\ Head(th.left) \in Middle
  BY <1>1 DEF Stepping, CoreInv, AskInv, At, SupplyPrivateCredentials, Middle
<1>3. th \in ThreadType /\ th.captured = context /\ th.g = goal
  BY <1>1, <1>2, WithinProvider
<1>4. /\ UNCHANGED <<ready, governanceProvider, contextVars, registry, governance, done>>
      /\ context' = context
  BY DEF SupplyPrivateCredentials, contracts, contextVars
<1>5. Steady(goal)
  BY <1>4, SteadySame
<1>6. thread' = [thread EXCEPT ![t] = GoOn(th)]
  BY <1>1 DEF SupplyPrivateCredentials, Becomes
<1>7. Effect(goal, role, Head(th.left))'
  BY <1>2, NoEffect DEF Lasting
<1>8. Head(th.left) \notin Forks \cup {"waitForNames"}
  BY <1>2 DEF Forks
<1>. QED
  BY <1>1, <1>2, <1>3, <1>4, <1>5, <1>6, <1>7, <1>8, AloneGoesOn

LEMMA AloneUseMainProvider ==
    ASSUME NEW c \in Calls, NEW t \in Threads, Stepping(c, t), UseMainProvider(t)
    PROVE  AllRight(c)'
<1>1. PICK goal, role, th : goal = Goal(c) /\ role = Role(t) /\ th = thread[t]
  OBVIOUS
<1>2. Head(th.left) = "main" /\ Head(th.left) \in Middle
  BY <1>1 DEF UseMainProvider, At, Middle
<1>3. th \in ThreadType /\ th.captured = context /\ th.g = goal
  BY <1>1, <1>2, WithinProvider
<1>4. /\ UNCHANGED <<contextVars, registry, governance, done>> /\ context' = context
      /\ governanceProvider' = goal /\ ready' = ready \cup {goal}
  BY <1>1, <1>3 DEF UseMainProvider, contracts, contextVars
<1>5. Steady(goal)
  BY <1>4 DEF Steady, Chain, contextVars
<1>6. thread' = [thread EXCEPT ![t] = GoOn(th)]
  BY <1>1 DEF UseMainProvider, Proceed, Becomes
<1>7. Effect(goal, role, Head(th.left))'
  BY <1>2, NoEffect DEF Lasting
<1>8. Head(th.left) \notin Forks \cup {"waitForNames", "payments"} /\ ready' # {}
  BY <1>2, <1>4 DEF Forks
<1>. QED
  BY <1>1, <1>2, <1>3, <1>4, <1>5, <1>6, <1>7, <1>8, AloneGoesOn

LEMMA AloneSetChain ==
    ASSUME NEW c \in Calls, NEW t \in Threads, Stepping(c, t), SetChain(t)
    PROVE  AllRight(c)'
<1>1. PICK goal, role, th : goal = Goal(c) /\ role = Role(t) /\ th = thread[t]
  OBVIOUS
<1>2. Head(th.left) = "context" /\ Head(th.left) \in Middle
  BY <1>1 DEF SetChain, At, Middle
<1>3. /\ th \in ThreadType /\ th.captured = context /\ th.g = goal /\ role # Collects
      /\ Right(goal, role, th) /\ StateInv /\ goal \in Chains /\ th.left # <<>>
      /\ goal = (IF th.asked = None THEN Chain ELSE th.asked)
  BY <1>1, <1>2, WithinProvider
<1>4. /\ chainOf' = IF th.asked = None THEN chainOf ELSE [chainOf EXCEPT ![context] = goal]
      /\ context' = context
      /\ UNCHANGED <<ready, governanceProvider, registry, governance, done>>
  BY <1>1, <1>3 DEF SetChain, blockchain, contracts
<1>5. Chain' = goal
  BY <1>3, <1>4 DEF StateInv, Chain
<1>6. chainOf["initialized"] # None => chainOf'["initialized"] # None
  <2>1. None \notin Chains
    BY CoreAssumption
  <2>. QED
    BY <1>3, <1>4, <2>1 DEF StateInv, Contexts
<1>7. Steady(goal)
  BY <1>4, <1>5, <1>6 DEF Steady
<1>8. governanceProvider' \in {goal, "main"} /\ ready' # {}
  BY <1>2, <1>3, <1>4 DEF Right, Reaching
<1>9. Effect(goal, role, Head(th.left))'
  BY <1>2, <1>5, <1>8 DEF Effect, Reached
<1>10. thread' = [thread EXCEPT ![t] = GoOn(th)]
  BY <1>1 DEF SetChain, Proceed, Becomes
<1>11. Head(th.left) \notin Forks \cup {"waitForNames", "payments"}
  BY <1>2 DEF Forks
<1>. QED
  BY <1>1, <1>2, <1>3, <1>4, <1>7, <1>8, <1>9, <1>10, <1>11, AloneGoesOn

-----------------------------------------------------------------------------
(* The other pieces of initializeBlockchainProvider, and the contracts.    *)

\* From a piece that comes after BlockchainProvider, or that is none of it.
LEMMA AloneAt ==
    ASSUME NEW c \in Calls, NEW t \in Threads, Stepping(c, t),
           NEW th, th = thread[t], NEW goal, goal = Goal(c), NEW role, role = Role(t),
           Head(th.left) \notin Reaching \cup {"waitForNames"}
    PROVE  /\ th \in ThreadType /\ th.left # <<>> /\ th.left \in Seq(Pieces) /\ Linked(th.left)
           /\ th.ended = "none" /\ th.left[1] = Head(th.left) /\ 1 \in 1..Len(th.left)
           /\ th.asked = page[c].chain /\ goal \in Chains /\ StateInv
           /\ goal = (IF th.asked = None THEN Chain ELSE th.asked)
           /\ Right(goal, role, th) /\ role \in Roles /\ Head(th.left) \in PiecesOf(RunFor(role))
           /\ role # Collects => th.captured = context /\ th.g = goal /\ ready # {}
           /\ Head(th.left) \in Settled => Reached(goal) /\ role # Collects
           /\ Head(th.left) \in Homing => th.outer = context /\ th.home = goal
<1>1. /\ th \in ThreadType /\ th.left # <<>> /\ th.left \in Seq(Pieces) /\ Linked(th.left)
      /\ th.ended = "none" /\ th.asked = page[c].chain /\ goal \in Chains /\ StateInv
      /\ goal = (IF th.asked = None THEN Chain ELSE th.asked)
      /\ Right(goal, role, th) /\ role \in Roles /\ Head(th.left) \in PiecesOf(RunFor(role))
      /\ Head(th.left) \in Settled => Reached(goal)
      /\ Head(th.left) \in Homing => th.outer = context /\ th.home = goal
  BY AloneThread DEF Stepping
<1>2. role # Collects => th.captured = context /\ th.g = goal /\ ready # {}
  BY <1>1 DEF Right, Reaching
<1>3. Head(th.left) \in Settled => role # Collects
  <2>1. {"forkDone", "join", "switch", "signer"} \cap Settled = {}
    BY DEF Settled, Homing
  <2>. QED
    BY <1>1, <2>1, PieceRoles
<1>. QED
  BY <1>1, <1>2, <1>3, FirstPiece

LEMMA AloneSwitch ==
    ASSUME NEW c \in Calls, NEW t \in Threads, Stepping(c, t), SwitchNetwork(t)
    PROVE  AllRight(c)'
<1>1. PICK goal, role, th : goal = Goal(c) /\ role = Role(t) /\ th = thread[t]
  OBVIOUS
<1>2. Head(th.left) = "switch"
  BY <1>1 DEF SwitchNetwork, At
<1>3. Head(th.left) \notin Reaching \cup Forks \cup {"payments", "waitForNames"}
  BY <1>2 DEF Reaching, Forks
<1>4. /\ th \in ThreadType /\ th.left # <<>> /\ th.left \in Seq(Pieces) /\ Linked(th.left)
      /\ th.ended = "none" /\ th.left[1] = "switch" /\ 1 \in 1..Len(th.left)
      /\ Right(goal, role, th) /\ th.asked = page[c].chain
      /\ role # Collects => th.captured = context /\ th.g = goal /\ ready # {}
  BY <1>1, <1>2, <1>3, AloneAt
<1>5. /\ UNCHANGED <<ready, governanceProvider, contextVars, registry, governance, done>>
      /\ context' = context /\ chainOf' = chainOf
  BY DEF SwitchNetwork, contracts, contextVars
<1>6. Steady(goal) /\ Effect(goal, role, "switch")' /\ Effect(goal, role, "signer")'
  BY <1>5, SteadySame, NoEffect DEF Lasting
<1>7. \/ ready = {} /\ Becomes(t, Ended("thrown"))
      \/ Proceed(t)
      \/ Becomes(t, GoOn(GoOn(th)))
  BY <1>1 DEF SwitchNetwork
<1>8. CASE ready = {} /\ Becomes(t, Ended("thrown"))
  <2>1. Collects \notin Kinds
    BY DEF Collects, Kinds
  <2>. QED
    BY <1>1, <1>4, <1>6, <1>8, <2>1, AloneEnds
<1>9. CASE Proceed(t)
  BY <1>1, <1>2, <1>3, <1>6, <1>9, AlonePlain
<1>10. CASE Becomes(t, GoOn(GoOn(th)))
  <2>1. 2 \in 1..Len(th.left) /\ th.left[2] = "signer" /\ Len(th.left) # 1
    <3>1. 1 + 1 = 2
      OBVIOUS
    <3>2. 2 \in 1..Len(th.left) /\ th.left[2] = "signer"
      BY <1>4, <3>1, NextPiece
    <3>3. Len(th.left) \in Nat
      BY <1>4, LenProperties
    <3>. QED
      BY <3>2, <3>3
  <2>2. PICK next : next = GoOn(th)
    OBVIOUS
  <2>3. next = [th EXCEPT !.left = Rest(th.left, 2)]
    BY <1>4, <2>1, <2>2, TailIs DEF GoOn
  <2>4. /\ next.left = Rest(th.left, 2) /\ next.ended = th.ended /\ next.asked = th.asked
        /\ next.captured = th.captured /\ next.outer = th.outer /\ next.g = th.g
        /\ next.home = th.home
    BY <1>4, <2>3 DEF ThreadType
  <2>5. /\ next.left \in Seq(Pieces) /\ next.left # <<>> /\ Head(next.left) = "signer"
        /\ Linked(next.left) /\ next \in ThreadType
    <3>1. next.left \in Seq(Pieces) /\ next.left # <<>> /\ Head(next.left) = "signer"
      BY <1>4, <2>1, <2>4, RestIs
    <3>2. Linked(next.left)
      BY <1>4, <2>1, <2>4, RestLinked
    <3>3. next \in ThreadType
      BY <1>4, <2>3, <2>4, <3>1 DEF ThreadType
    <3>. QED
      BY <3>1, <3>2, <3>3
  <2>6. Right(goal, role, next)'
    <3>1. Head(th.left) # "waitForNames" /\ Head(th.left) # "payments" /\ Head(th.left) # "main"
      BY <1>2
    <3>2. role # Collects => th.captured = context' /\ th.g = goal /\ ready' # {}
      BY <1>4, <1>5
    <3>3. Effect(goal, role, Head(th.left))'
      BY <1>2, <1>6
    <3>4. Right(goal, role, GoOn(th))'
      BY <1>4, <1>6, <3>1, <3>2, <3>3, RightGoesOn
    <3>. QED
      BY <2>2, <3>4
  <2>7. Right(goal, role, next)
    BY <1>5, <2>6 DEF Right, Effect, Reached, Made, Chain, contextVars
  <2>8. PICK new : new = GoOn(next)
    OBVIOUS
  <2>9. /\ Right(goal, role, new)' /\ Busy(new)
        /\ new.left # <<>> => new.asked = next.asked /\ Head(new.left) # "join"
    <3>1. /\ Head(next.left) # "waitForNames" /\ Head(next.left) # "payments"
          /\ Head(next.left) # "main" /\ Head(next.left) \notin Forks
      BY <2>5 DEF Forks
    <3>2. role # Collects => next.captured = context' /\ next.g = goal /\ ready' # {}
      BY <1>4, <1>5, <2>4
    <3>3. Effect(goal, role, Head(next.left))'
      BY <1>6, <2>5
    <3>4. /\ Right(goal, role, GoOn(next))' /\ Busy(GoOn(next))
          /\ GoOn(next).left # <<>> =>
                /\ GoOn(next).asked = next.asked
                /\ Head(GoOn(next).left) = "join" => Head(next.left) \in Forks
      BY <1>4, <1>6, <2>4, <2>5, <2>7, <3>1, <3>2, <3>3, RightGoesOn
    <3>. QED
      BY <2>8, <3>1, <3>4
  <2>10. thread' = [thread EXCEPT ![t] = new]
    BY <1>10, <2>2, <2>8 DEF Becomes
  <2>11. AllRight(c) /\ SamePage(c) /\ t[1] = c /\ thread \in [Threads -> ThreadType]
    BY DEF Stepping, CoreInv
  <2>. QED
    BY <1>1, <1>4, <1>6, <2>4, <2>9, <2>10, <2>11, OneMoves
<1>. QED
  BY <1>7, <1>8, <1>9, <1>10

LEMMA AloneSigner ==
    ASSUME NEW c \in Calls, NEW t \in Threads, Stepping(c, t), SetGovernanceSigner(t)
    PROVE  AllRight(c)'
<1>1. PICK goal, role, th : goal = Goal(c) /\ role = Role(t) /\ th = thread[t]
  OBVIOUS
<1>2. Head(th.left) = "signer" /\ Proceed(t)
  BY <1>1 DEF SetGovernanceSigner, At
<1>3. Head(th.left) \notin Reaching \cup Forks \cup {"payments", "waitForNames"}
  BY <1>2 DEF Reaching, Forks
<1>4. Steady(goal) /\ Effect(goal, role, "signer")'
  <2>1. /\ UNCHANGED <<ready, contextVars, registry, governance, done>> /\ context' = context
        /\ chainOf' = chainOf /\ governanceProvider' \in {governanceProvider, "main"}
    BY DEF SetGovernanceSigner, contracts, contextVars
  <2>. QED
    BY <2>1, NoEffect DEF Steady, Chain, Lasting
<1>. QED
  BY <1>1, <1>2, <1>3, <1>4, AlonePlain

\* Steps that change nothing of what is told here, and go on.
LEMMA AloneIdles ==
    ASSUME NEW c \in Calls, NEW t \in Threads, Stepping(c, t),
           UNCHANGED <<ready, governanceProvider, contextVars, registry, governance, done>>,
           Head(thread[t].left) \in {"listen", "names", "node", "listeners"}, Proceed(t)
    PROVE  AllRight(c)'
<1>1. PICK goal, role, th : goal = Goal(c) /\ role = Role(t) /\ th = thread[t]
  OBVIOUS
<1>2. Head(th.left) \notin Reaching \cup Forks \cup {"payments", "waitForNames"} \cup Lasting
  BY <1>1 DEF Reaching, Forks, Lasting
<1>3. Steady(goal) /\ Effect(goal, role, Head(th.left))'
  BY <1>2, SteadySame, NoEffect
<1>. QED
  BY <1>1, <1>2, <1>3, AlonePlain

LEMMA AloneListen ==
    ASSUME NEW c \in Calls, NEW t \in Threads, Stepping(c, t), Listen(t)
    PROVE  AllRight(c)'
<1>1. /\ UNCHANGED <<ready, governanceProvider, contextVars, registry, governance, done>>
      /\ Head(thread[t].left) = "listen" /\ Proceed(t)
  BY DEF Listen, blockchain, contracts, At
<1>. QED
  BY <1>1, AloneIdles

LEMMA AloneMakesRegistry ==
    ASSUME NEW c \in Calls, NEW t \in Threads, Stepping(c, t), MakeRegistryContracts(t)
    PROVE  AllRight(c)'
<1>1. PICK goal, role, th : goal = Goal(c) /\ role = Role(t) /\ th = thread[t]
  OBVIOUS
<1>2. Head(th.left) = "registries" /\ HasProvider
  BY <1>1 DEF MakeRegistryContracts, At
<1>3. /\ Head(th.left) \notin Reaching \cup Forks \cup {"payments", "waitForNames"}
      /\ Head(th.left) \in Settled
  BY <1>2 DEF Reaching, Forks, Settled
<1>4. /\ th \in ThreadType /\ Reached(goal) /\ role # Collects /\ StateInv /\ ready # {}
  BY <1>1, <1>3, AloneAt
<1>5. PICK w : w = [th EXCEPT !.captured = context, !.g = Chain]
  OBVIOUS
<1>6. /\ UNCHANGED <<ready, governanceProvider, contextVars, governance, done>>
      /\ context' = context /\ chainOf' = chainOf /\ registry' = ContractsNow
      /\ thread' = [thread EXCEPT ![t] = GoOn(w)]
  BY <1>1, <1>5 DEF MakeRegistryContracts, blockchain, contextVars, Becomes
<1>7. Made(registry', goal)
  <2>1. ContractsNow \in Contract
    BY <1>2, <1>4, ContractsAre
  <2>2. ContractsNow.chain = goal /\ ContractsNow.provider \in {goal, "main"}
    BY <1>4 DEF ContractsNow, Reached
  <2>. QED
    BY <1>6, <2>1, <2>2 DEF Made
<1>8. Steady(goal)
  BY <1>6, <1>7 DEF Steady, Chain
<1>9. Effect(goal, role, Head(th.left))'
  BY <1>2, <1>7 DEF Effect, Made
<1>10. /\ w \in ThreadType /\ w.left = th.left /\ w.ended = th.ended /\ w.asked = th.asked
       /\ w.captured = context /\ w.g = goal /\ w.outer = th.outer /\ w.home = th.home
  <2>1. Chain = goal /\ goal \in Chains
    BY <1>1, <1>4, <1>3, AloneAt DEF Reached
  <2>. QED
    BY <1>4, <1>5, <2>1 DEF ThreadType, StateInv
<1>11. /\ Head(th.left) \notin Forks \cup {"waitForNames"} /\ Head(th.left) # "main"
       /\ Head(th.left) # "payments" /\ ready' # {} /\ w.captured = context'
  BY <1>3, <1>4, <1>6, <1>10 DEF Reaching
<1>. QED
  BY <1>1, <1>6, <1>8, <1>9, <1>10, <1>11, AloneGoesOn

LEMMA AloneReadsNames ==
    ASSUME NEW c \in Calls, NEW t \in Threads, Stepping(c, t), ReadNames(t)
    PROVE  AllRight(c)'
<1>1. PICK goal, role, th : goal = Goal(c) /\ role = Role(t) /\ th = thread[t]
  OBVIOUS
<1>2. /\ Head(th.left) = "names"
      /\ UNCHANGED <<ready, governanceProvider, contextVars, registry, governance, done>>
      /\ Proceed(t) \/ thread' = [thread EXCEPT ![t] = [th EXCEPT !.left = <<"waitForNames">>]]
  BY <1>1 DEF ReadNames, At, blockchain, Becomes
<1>3. CASE Proceed(t)
  BY <1>1, <1>2, <1>3, AloneIdles
<1>4. CASE thread' = [thread EXCEPT ![t] = [th EXCEPT !.left = <<"waitForNames">>]]
  <2>1. PICK new : new = [th EXCEPT !.left = <<"waitForNames">>]
    OBVIOUS
  <2>2. Steady(goal)
    BY <1>2, SteadySame
  <2>3. Head(th.left) \notin Reaching \cup {"waitForNames"}
    BY <1>2 DEF Reaching
  <2>4. /\ th \in ThreadType /\ th.left # <<>> /\ th.asked = page[c].chain
        /\ Right(goal, role, th)
    BY <1>1, <2>3, AloneAt
  <2>5. Right(goal, role, new)'
    BY <1>2, <2>1, <2>2, <2>4, RightWaits
  <2>6. Busy(new) /\ new.asked = page[c].chain /\ Head(new.left) # "join"
    <3>1. new.left = <<"waitForNames">> /\ new.asked = th.asked
      BY <2>1, <2>4 DEF ThreadType
    <3>. QED
      BY <2>4, <3>1 DEF Busy
  <2>7. AllRight(c) /\ SamePage(c) /\ t[1] = c /\ thread \in [Threads -> ThreadType]
    BY DEF Stepping, CoreInv
  <2>8. thread' = [thread EXCEPT ![t] = new]
    BY <1>4, <2>1
  <2>. QED
    BY <1>1, <2>2, <2>5, <2>6, <2>7, <2>8, OneMoves
<1>. QED
  BY <1>2, <1>3, <1>4

\* Steps that end in an error.
LEMMA AloneFails ==
    ASSUME NEW c \in Calls, NEW t \in Threads, Stepping(c, t), WaitForNames(t) \/ Fails(t)
    PROVE  AllRight(c)'
<1>1. /\ UNCHANGED <<ready, governanceProvider, contextVars, registry, governance, done>>
      /\ Becomes(t, Ended("error"))
  BY DEF WaitForNames, Fails, blockchain, contracts
<1>2. Steady(Goal(c))
  BY <1>1, SteadySame
<1>. QED
  BY <1>1, <1>2, AloneEnds

-----------------------------------------------------------------------------
(* The kinds, in an alone call.                                            *)

\* A kind is done for the chain of the call.
LEMMA DoneMore ==
    ASSUME NEW goal, StateInv, Chain = goal, NEW kind \in Kinds,
           done' = [done EXCEPT ![kind] = @ \cup {goal}],
           context' = context, chainOf' = chainOf,
           UNCHANGED <<ready, governanceProvider, registry, governance>>
    PROVE  Steady(goal) /\ goal \in done'[kind]
<1>1. done \in [Kinds -> SUBSET Chains]
  BY DEF StateInv
<1>2. \A k \in Kinds : done'[k] = IF k = kind THEN done[k] \cup {goal} ELSE done[k]
  BY <1>1
<1>3. Chain' = goal
  BY DEF Chain
<1>. QED
  BY <1>2, <1>3 DEF Steady

LEMMA AloneRegistriesDone ==
    ASSUME NEW c \in Calls, NEW t \in Threads, Stepping(c, t), RegistriesDone(t)
    PROVE  AllRight(c)'
<1>1. PICK goal, role, th : goal = Goal(c) /\ role = Role(t) /\ th = thread[t]
  OBVIOUS
<1>2. Head(th.left) = "registriesDone" /\ Proceed(t)
  BY <1>1 DEF RegistriesDone, At
<1>3. /\ Head(th.left) \notin Reaching \cup Forks \cup {"payments", "waitForNames"}
      /\ Head(th.left) \in Settled
  BY <1>2 DEF Reaching, Forks, Settled
<1>4. /\ Reached(goal) /\ role # Collects /\ StateInv /\ th.captured = context
      /\ goal = (IF th.asked = None THEN Chain ELSE th.asked)
  BY <1>1, <1>3, AloneAt
<1>5. /\ UNCHANGED <<ready, governanceProvider, registry, governance>>
      /\ context' = context /\ chainOf' = chainOf
      /\ done' = [done EXCEPT !["registries"] = @ \cup {goal}]
  BY <1>1, <1>4 DEF RegistriesDone, blockchain, contracts, Chain
<1>6. Steady(goal) /\ goal \in done'["registries"]
  <2>1. "registries" \in Kinds
    BY DEF Kinds
  <2>. QED
    BY <1>4, <1>5, <2>1, DoneMore DEF Reached
<1>7. Effect(goal, role, Head(th.left))'
  BY <1>2, <1>6 DEF Effect
<1>. QED
  BY <1>1, <1>2, <1>3, <1>6, <1>7, AlonePlain

LEMMA AloneMakesGovernance ==
    ASSUME NEW c \in Calls, NEW t \in Threads, Stepping(c, t), MakeGovernanceContracts(t)
    PROVE  AllRight(c)'
<1>1. PICK goal, role, th : goal = Goal(c) /\ role = Role(t) /\ th = thread[t]
  OBVIOUS
<1>2. Head(th.left) = "governance" /\ HasProvider
  BY <1>1 DEF MakeGovernanceContracts, At
<1>3. /\ Head(th.left) \notin Reaching \cup Forks \cup {"payments", "waitForNames"}
      /\ Head(th.left) \in Settled
  BY <1>2 DEF Reaching, Forks, Settled
<1>4. /\ th \in ThreadType /\ Reached(goal) /\ role # Collects /\ StateInv /\ ready # {}
      /\ th.captured = context /\ goal \in Chains
      /\ goal = (IF th.asked = None THEN Chain ELSE th.asked)
  BY <1>1, <1>3, AloneAt
<1>5. PICK w : w = [th EXCEPT !.g = goal]
  OBVIOUS
<1>6. /\ UNCHANGED <<ready, governanceProvider, contextVars, registry, done>>
      /\ context' = context /\ chainOf' = chainOf /\ governance' = ContractsNow
      /\ thread' = [thread EXCEPT ![t] = GoOn(w)]
  <2>1. goal = IF th.asked = None THEN chainOf[th.captured] ELSE th.asked
    BY <1>4 DEF Chain
  <2>. QED
    BY <1>1, <1>5, <2>1 DEF MakeGovernanceContracts, blockchain, contextVars, Becomes
<1>7. Made(governance', goal)
  <2>1. ContractsNow \in Contract
    BY <1>2, <1>4, ContractsAre
  <2>2. ContractsNow.chain = goal /\ ContractsNow.provider \in {goal, "main"}
    BY <1>4 DEF ContractsNow, Reached
  <2>. QED
    BY <1>6, <2>1, <2>2 DEF Made
<1>8. Steady(goal)
  BY <1>6, <1>7 DEF Steady, Chain
<1>9. Effect(goal, role, Head(th.left))'
  BY <1>2, <1>7 DEF Effect, Made
<1>10. /\ w \in ThreadType /\ w.left = th.left /\ w.ended = th.ended /\ w.asked = th.asked
       /\ w.captured = context /\ w.g = goal /\ w.outer = th.outer /\ w.home = th.home
  BY <1>4, <1>5 DEF ThreadType
<1>11. /\ Head(th.left) \notin Forks \cup {"waitForNames"} /\ Head(th.left) # "main"
       /\ Head(th.left) # "payments" /\ ready' # {} /\ w.captured = context'
  BY <1>3, <1>4, <1>6, <1>10 DEF Reaching
<1>. QED
  BY <1>1, <1>6, <1>8, <1>9, <1>10, <1>11, AloneGoesOn

LEMMA AloneGovernanceDone ==
    ASSUME NEW c \in Calls, NEW t \in Threads, Stepping(c, t), GovernanceDone(t)
    PROVE  AllRight(c)'
<1>1. PICK goal, role, th : goal = Goal(c) /\ role = Role(t) /\ th = thread[t]
  OBVIOUS
<1>2. Head(th.left) = "governanceDone" /\ Proceed(t)
  BY <1>1 DEF GovernanceDone, At
<1>3. /\ Head(th.left) \notin Reaching \cup Forks \cup {"payments", "waitForNames"}
      /\ Head(th.left) \in Settled
  BY <1>2 DEF Reaching, Forks, Settled
<1>4. Reached(goal) /\ role # Collects /\ StateInv /\ th.captured = context /\ th.g = goal
  BY <1>1, <1>3, AloneAt
<1>5. /\ UNCHANGED <<ready, governanceProvider, registry, governance>>
      /\ context' = context /\ chainOf' = chainOf
      /\ done' = [done EXCEPT !["governance"] = @ \cup {goal}]
  BY <1>1, <1>4 DEF GovernanceDone, blockchain, contracts
<1>6. Steady(goal) /\ goal \in done'["governance"]
  <2>1. "governance" \in Kinds
    BY DEF Kinds
  <2>. QED
    BY <1>4, <1>5, <2>1, DoneMore DEF Reached
<1>7. Effect(goal, role, Head(th.left))'
  BY <1>2, <1>6 DEF Effect
<1>. QED
  BY <1>1, <1>2, <1>3, <1>6, <1>7, AlonePlain

LEMMA AlonePaymentsBegin ==
    ASSUME NEW c \in Calls, NEW t \in Threads, Stepping(c, t), PaymentsBegin(t)
    PROVE  AllRight(c)'
<1>1. PICK goal, role, th : goal = Goal(c) /\ role = Role(t) /\ th = thread[t]
  OBVIOUS
<1>2. Head(th.left) = "payments"
  BY <1>1 DEF PaymentsBegin, At
<1>3. /\ Head(th.left) \notin Reaching \cup {"waitForNames"}
      /\ Head(th.left) \notin {"forkDone", "join", "switch", "signer"}
  BY <1>2 DEF Reaching
<1>4. /\ th \in ThreadType /\ StateInv /\ goal \in Chains
      /\ goal = (IF th.asked = None THEN Chain ELSE th.asked)
      /\ role \in Roles /\ Head(th.left) \in PiecesOf(RunFor(role))
      /\ role # Collects => th.captured = context /\ th.g = goal /\ ready # {}
  BY <1>1, <1>3, AloneAt
<1>5. th.captured = context /\ th.g = goal /\ ready # {}
  BY <1>3, <1>4, PieceRoles
<1>6. PICK w : w = [th EXCEPT !.outer = context, !.home = goal]
  OBVIOUS
<1>7. /\ w \in ThreadType /\ w.left = th.left /\ w.ended = th.ended /\ w.asked = th.asked
      /\ w.captured = context /\ w.g = goal /\ w.outer = context /\ w.home = goal
  BY <1>4, <1>5, <1>6 DEF ThreadType, StateInv
<1>8. /\ UNCHANGED <<ready, governanceProvider, contextVars, registry, governance, done>>
      /\ context' = context /\ thread' = [thread EXCEPT ![t] = GoOn(w)]
  <2>1. goal = IF th.asked = None THEN chainOf[th.captured] ELSE th.asked
    BY <1>4, <1>5 DEF Chain
  <2>. QED
    BY <1>1, <1>5, <1>6, <2>1 DEF PaymentsBegin, blockchain, contracts, contextVars, Becomes
<1>9. Steady(goal) /\ Effect(goal, role, Head(th.left))'
  BY <1>2, <1>8, SteadySame, NoEffect DEF Lasting
<1>10. /\ Head(th.left) \notin Forks \cup {"waitForNames"} /\ Head(th.left) # "main"
       /\ ready' # {} /\ w.captured = context' /\ w.outer = context'
  BY <1>2, <1>5, <1>7, <1>8 DEF Forks
<1>. QED
  BY <1>1, <1>7, <1>8, <1>9, <1>10, AloneGoesOn

LEMMA AloneGetsAccounts ==
    ASSUME NEW c \in Calls, NEW t \in Threads, Stepping(c, t), GetAccounts(t)
    PROVE  AllRight(c)'
<1>1. PICK goal, role, th : goal = Goal(c) /\ role = Role(t) /\ th = thread[t]
  OBVIOUS
<1>2. Head(th.left) = "accounts" /\ Proceed(t)
  BY <1>1 DEF GetAccounts, At
<1>3. /\ Head(th.left) \notin Reaching \cup Forks \cup {"payments", "waitForNames"}
      /\ Head(th.left) \in Homing
  BY <1>2 DEF Reaching, Forks, Homing
<1>4. th.outer = context
  BY <1>1, <1>3, AloneAt
<1>5. /\ UNCHANGED <<ready, governanceProvider, contextVars, registry, governance, done>>
  BY <1>1, <1>4 DEF GetAccounts, blockchain, contracts, contextVars
<1>6. Steady(goal) /\ Effect(goal, role, Head(th.left))'
  BY <1>2, <1>5, SteadySame, NoEffect DEF Lasting
<1>. QED
  BY <1>1, <1>2, <1>3, <1>6, AlonePlain

LEMMA AloneNode ==
    ASSUME NEW c \in Calls, NEW t \in Threads, Stepping(c, t), StartNode(t) \/ Subscribe(t)
    PROVE  AllRight(c)'
<1>1. /\ UNCHANGED <<ready, governanceProvider, contextVars, registry, governance, done>>
      /\ Head(thread[t].left) \in {"node", "listeners"} /\ Proceed(t)
  BY DEF StartNode, Subscribe, blockchain, contracts, At
<1>. QED
  BY <1>1, AloneIdles

LEMMA AloneGetsIdentifier ==
    ASSUME NEW c \in Calls, NEW t \in Threads, Stepping(c, t), GetIdentifier(t)
    PROVE  AllRight(c)'
<1>1. PICK goal, role, th : goal = Goal(c) /\ role = Role(t) /\ th = thread[t]
  OBVIOUS
<1>2. Head(th.left) = "ids" /\ Proceed(t)
  BY <1>1 DEF GetIdentifier, At
<1>3. /\ Head(th.left) \notin Reaching \cup Forks \cup {"payments", "waitForNames"}
      /\ Head(th.left) \in Homing
  BY <1>2 DEF Reaching, Forks, Homing
<1>4. th.outer = context /\ StateInv
  BY <1>1, <1>3, AloneAt
<1>5. /\ UNCHANGED <<ready, governanceProvider, registry, governance, done>>
      /\ context' = context
      /\ chainOf' = IF chainOf["initialized"] # None THEN chainOf
                    ELSE [chainOf EXCEPT !["initialized"] = Chain]
  BY <1>1, <1>4 DEF GetIdentifier, blockchain, contracts, Chain
<1>6. Chain' = Chain /\ chainOf'["initialized"] # None
  BY <1>4, <1>5 DEF StateInv, Chain, Contexts
<1>7. Steady(goal) /\ Effect(goal, role, Head(th.left))'
  BY <1>2, <1>5, <1>6 DEF Steady, Effect
<1>. QED
  BY <1>1, <1>2, <1>3, <1>7, AlonePlain

LEMMA AlonePaymentsDone ==
    ASSUME NEW c \in Calls, NEW t \in Threads, Stepping(c, t), PaymentsDone(t)
    PROVE  AllRight(c)'
<1>1. PICK goal, role, th : goal = Goal(c) /\ role = Role(t) /\ th = thread[t]
  OBVIOUS
<1>2. Head(th.left) = "paymentsDone" /\ Proceed(t)
  BY <1>1 DEF PaymentsDone, At
<1>3. /\ Head(th.left) \notin Reaching \cup Forks \cup {"payments", "waitForNames"}
      /\ Head(th.left) \in Homing /\ Head(th.left) \in Settled
  BY <1>2 DEF Reaching, Forks, Homing, Settled
<1>4. Reached(goal) /\ StateInv /\ th.outer = context /\ th.home = goal
  BY <1>1, <1>3, AloneAt
<1>5. /\ UNCHANGED <<ready, governanceProvider, registry, governance>>
      /\ context' = context /\ chainOf' = chainOf
      /\ done' = [done EXCEPT !["payments"] = @ \cup {goal}]
  BY <1>1, <1>4 DEF PaymentsDone, blockchain, contracts
<1>6. Steady(goal) /\ goal \in done'["payments"]
  <2>1. "payments" \in Kinds
    BY DEF Kinds
  <2>. QED
    BY <1>4, <1>5, <2>1, DoneMore DEF Reached
<1>7. Effect(goal, role, Head(th.left))'
  BY <1>2, <1>6 DEF Effect
<1>. QED
  BY <1>1, <1>2, <1>3, <1>6, <1>7, AlonePlain

-----------------------------------------------------------------------------
(* Forks and joins, in an alone call.                                      *)

\* A thread that begins.
LEMMA RightStarts ==
    ASSUME NEW goal, NEW role \in Roles, NEW new, new.left = RunFor(role), new.ended = "none"
    PROVE  Right(goal, role, new)' /\ Busy(new) /\ Head(new.left) # "join"
<1>1. /\ WellOrdered(RunFor(role), PiecesOf(RunFor(role)),
                     IF role = Collects THEN "forkDone" ELSE "provider")
  BY RunsOrdered
<1>2. /\ new.left \in Seq(Pieces) /\ new.left # <<>> /\ Ordered(new.left)
      /\ Head(new.left) = IF role = Collects THEN "forkDone" ELSE "provider"
  BY <1>1, FirstPiece DEF WellOrdered
<1>3. \A i \in 1..Len(new.left) : new.left[i] \in PiecesOf(RunFor(role))
  BY DEF PiecesOf
<1>4. \A piece \in PiecesOf(RunFor(role)) : ~Behind(new, piece)
  BY PieceIs DEF Behind
<1>5. role # Collects => Head(new.left) = "provider" /\ Head(new.left) \in Reaching
  BY <1>2 DEF Reaching
<1>6. role \in Kinds => new.ended # "thrown"
  OBVIOUS
<1>7. Right(goal, role, new)'
  BY <1>2, <1>3, <1>4, <1>5, <1>6 DEF Right
<1>. QED
  BY <1>2, <1>7 DEF Busy

\* Only the call's own thread forks and joins.
LEMMA CallThread ==
    ASSUME NEW t \in Threads, Role(t) \in {"initialize", Collects}
    PROVE  t = <<t[1], "call">> /\ Role(t) = page[t[1]].method
<1>1. PICK c \in Calls, x \in Kinds \cup {"call"} : t = <<c, x>>
  BY DEF Threads
<1>2. Kinds \cap {"initialize", Collects} = {}
  BY DEF Kinds, Collects
<1>3. t[1] = c /\ t[2] = x
  BY <1>1
<1>4. x = "call"
  BY <1>1, <1>2, <1>3 DEF Role
<1>. QED
  BY <1>1, <1>3, <1>4 DEF Role

LEMMA AloneForks ==
    ASSUME NEW c \in Calls, NEW t \in Threads, Stepping(c, t), ForkRest(t) \/ ForkDone(t)
    PROVE  AllRight(c)'
<1>1. PICK goal, role, th : goal = Goal(c) /\ role = Role(t) /\ th = thread[t]
  OBVIOUS
<1>2. PICK kinds : /\ kinds \in SUBSET Kinds /\ Fork(t, kinds)
                   /\ \/ Head(th.left) = "forkRest" /\ kinds = {"governance", "payments"}
                      \/ Head(th.left) = "forkDone" /\ kinds = {k \in Kinds : done[k] # {}}
  <2>1. {"governance", "payments"} \in SUBSET Kinds /\ {k \in Kinds : done[k] # {}} \in SUBSET Kinds
    BY DEF Kinds
  <2>. QED
    BY <1>1, <2>1 DEF ForkRest, ForkDone, At
<1>3. /\ UNCHANGED <<ready, governanceProvider, contextVars, registry, governance, done>>
      /\ context' = context
  BY DEF ForkRest, ForkDone, blockchain, contracts, contextVars
<1>4. Head(th.left) \notin Reaching \cup Lasting \cup {"waitForNames", "payments"}
  BY <1>2 DEF Reaching, Lasting
<1>5. Steady(goal) /\ Effect(goal, role, Head(th.left))'
  BY <1>3, <1>4, SteadySame, NoEffect
<1>6. /\ th \in ThreadType /\ th.left # <<>> /\ Linked(th.left) /\ th.ended = "none"
      /\ th.asked = page[c].chain /\ Right(goal, role, th) /\ role \in Roles
      /\ Head(th.left) \in PiecesOf(RunFor(role))
      /\ role # Collects => th.captured = context /\ th.g = goal /\ ready # {}
  BY <1>1, <1>4, AloneAt
<1>7. /\ Head(th.left) = "forkRest" => role = "initialize"
      /\ Head(th.left) = "forkDone" => role = Collects
  BY <1>6, PieceRoles
<1>8. AllRight(c) /\ SamePage(c) /\ t[1] = c
  BY DEF Stepping
<1>9. t = <<c, "call">> /\ role = page[c].method
  BY <1>1, <1>2, <1>7, <1>8, CallThread
<1>10. PICK next : next = GoOn(th)
  OBVIOUS
<1>11. /\ Right(goal, role, next)'
       /\ next.left # <<>> => next.asked = page[c].chain
  <2>1. /\ Head(th.left) # "waitForNames" /\ Head(th.left) # "payments" /\ Head(th.left) # "main"
    BY <1>4 DEF Reaching
  <2>2. role # Collects => th.captured = context' /\ th.g = goal /\ ready' # {}
    BY <1>3, <1>6
  <2>3. /\ Right(goal, role, GoOn(th))'
        /\ GoOn(th).left # <<>> => GoOn(th).asked = th.asked
    BY <1>5, <1>6, <2>1, <2>2, RightGoesOn
  <2>. QED
    BY <1>6, <1>10, <2>3
<1>12. \A u \in Threads : thread'[u] = CASE u = t -> next
            [] u[1] = c /\ u[2] \in kinds -> [Idle EXCEPT !.left = RunOf(u[2]), !.asked = th.asked]
            [] OTHER -> thread[u]
  BY <1>1, <1>2, <1>8, <1>10 DEF Fork
<1>13. /\ thread'[t] = next
       /\ \A k \in kinds : thread'[<<c, k>>] = [Idle EXCEPT !.left = RunOf(k), !.asked = th.asked]
       /\ \A u \in Threads : u # t /\ ~(u[1] = c /\ u[2] \in kinds) => thread'[u] = thread[u]
  <2>1. thread'[t] = next
    <3>1. ~(t[1] = c /\ t[2] \in kinds)
      BY <1>2, <1>9 DEF Kinds
    <3>. QED
      BY <1>12, <3>1
  <2>2. ASSUME NEW k \in kinds
        PROVE  thread'[<<c, k>>] = [Idle EXCEPT !.left = RunOf(k), !.asked = th.asked]
    <3>1. <<c, k>> \in Threads /\ <<c, k>> # t /\ <<c, k>>[1] = c /\ <<c, k>>[2] = k
      BY <1>2, <1>9 DEF Threads, Kinds
    <3>. QED
      BY <1>12, <3>1
  <2>3. \A u \in Threads : u # t /\ ~(u[1] = c /\ u[2] \in kinds) => thread'[u] = thread[u]
    BY <1>12
  <2>. QED
    BY <2>1, <2>2, <2>3
<1>14. ASSUME NEW k \in kinds
       PROVE  RightThread(<<c, k>>)' /\ Busy(thread'[<<c, k>>])
  <2>1. PICK new : new = [Idle EXCEPT !.left = RunOf(k), !.asked = th.asked]
    OBVIOUS
  <2>2. new.left = RunOf(k) /\ new.ended = "none" /\ new.asked = th.asked
    BY <2>1 DEF Idle
  <2>3. /\ k \in Kinds /\ k \in Roles /\ RunFor(k) = RunOf(k) /\ <<c, k>> \in Threads
        /\ <<c, k>>[1] = c /\ <<c, k>>[2] = k /\ k # "call"
    BY <1>2 DEF Roles, RunFor, Threads, Kinds
  <2>4. Right(goal, k, new)' /\ Busy(new)
    BY <2>2, <2>3, RightStarts
  <2>5. Role(<<c, k>>) = k
    BY <2>3 DEF Role
  <2>6. thread'[<<c, k>>] = new
    BY <1>13, <2>1
  <2>7. RightThread(<<c, k>>)'
    BY <1>1, <1>5, <1>6, <1>8, <2>2, <2>3, <2>4, <2>5, <2>6, ThreadRight
  <2>. QED
    BY <2>4, <2>6, <2>7
<1>15. ASSUME NEW u \in Threads, u[1] = c PROVE RightThread(u)'
  <2>1. CASE u = t
    BY <1>1, <1>5, <1>8, <1>11, <1>13, <2>1, ThreadRight
  <2>2. CASE u # t /\ u[2] \in kinds
    <3>1. u = <<c, u[2]>>
      BY <1>15 DEF Threads
    <3>. QED
      BY <1>14, <2>2, <3>1
  <2>3. CASE u # t /\ u[2] \notin kinds
    <3>1. PICK mine, old : mine = Role(u) /\ old = thread[u]
      OBVIOUS
    <3>2. Right(goal, mine, old) /\ (old.left # <<>> => old.asked = page[c].chain)
      BY <1>1, <1>8, <1>15, <3>1 DEF AllRight, RightThread
    <3>3. Right(goal, mine, old)'
      BY <1>5, <3>2, RightStays
    <3>4. thread'[u] = old
      BY <1>13, <2>3, <3>1
    <3>. QED
      BY <1>1, <1>5, <1>8, <1>15, <3>1, <3>2, <3>3, <3>4, ThreadRight
  <2>. QED
    BY <2>1, <2>2, <2>3
<1>16. ASSUME NEW u \in Threads, Busy(thread'[u]) PROVE u[1] = c
  BY <1>8, <1>13, <1>16 DEF AllRight
<1>17. Joins(c)'
  <2>1. page'[c].method = page[c].method
    BY <1>8 DEF SamePage
  <2>2. CASE role = Collects
    <3>1. Collects # "initialize"
      BY DEF Collects
    <3>2. kinds = {k \in Kinds : done[k] # {}}
      BY <1>2, <1>7, <2>2, <3>1
    <3>3. done' = done
      BY <1>3
    <3>4. \A k \in Kinds : done'[k] # {} => Busy(thread'[<<c, k>>])
      BY <1>14, <3>2, <3>3
    <3>. QED
      BY <1>9, <2>1, <2>2, <3>4 DEF Joins, Busy
  <2>3. CASE role # Collects
    <3>1. kinds = {"governance", "payments"}
      BY <1>2, <1>7, <2>3
    <3>. QED
      BY <1>9, <1>14, <2>1, <2>3, <3>1 DEF Joins, Busy
  <2>. QED
    BY <2>2, <2>3
<1>. QED
  BY <1>15, <1>16, <1>17 DEF AllRight, Busy

\* What a part has brought about when it is done.
LEMMA PartDone ==
    ASSUME NEW goal, NEW k \in Kinds, NEW th, Right(goal, k, th), th.left = <<>>,
           Busy(th), th.ended \in Ends \ {"error"}
    PROVE  /\ Chain = goal /\ goal \in done[k]
           /\ k = "governance" => Made(governance, goal)
           /\ k = "payments" => chainOf["initialized"] # None
<1>1. th.ended = "done"
  BY DEF Right, Busy, Ends
<1>2. \A piece : Behind(th, piece)
  <2>1. Len(th.left) = 0
    OBVIOUS
  <2>. QED
    BY <1>1, <2>1 DEF Behind, Succeeds, HasPiece
<1>3. \A piece \in PiecesOf(RunFor(k)) : Effect(goal, k, piece)
  BY <1>2 DEF Right
<1>4. /\ PiecesOf(RunFor("registries")) = RegistryPieces
      /\ PiecesOf(RunFor("governance")) = GovernancePieces
      /\ PiecesOf(RunFor("payments")) = PaymentPieces
  BY RolePieces
<1>5. k = "registries" \/ k = "governance" \/ k = "payments"
  BY DEF Kinds
<1>6. /\ "context" \in RegistryPieces /\ "context" \in GovernancePieces
      /\ "context" \in PaymentPieces /\ "registriesDone" \in RegistryPieces
      /\ "governance" \in GovernancePieces /\ "governanceDone" \in GovernancePieces
      /\ "ids" \in PaymentPieces /\ "paymentsDone" \in PaymentPieces
  BY DEF RegistryPieces, GovernancePieces, PaymentPieces, ProviderPieces
<1>7. Effect(goal, k, "context")
  BY <1>3, <1>4, <1>5, <1>6
<1>8. CASE k = "registries"
  <2>1. Effect(goal, k, "registriesDone")
    BY <1>3, <1>4, <1>6, <1>8
  <2>. QED
    BY <1>7, <1>8, <2>1 DEF Effect, Reached
<1>9. CASE k = "governance"
  <2>1. Effect(goal, k, "governance") /\ Effect(goal, k, "governanceDone")
    BY <1>3, <1>4, <1>6, <1>9
  <2>. QED
    BY <1>7, <1>9, <2>1 DEF Effect, Reached
<1>10. CASE k = "payments"
  <2>1. Effect(goal, k, "ids") /\ Effect(goal, k, "paymentsDone")
    BY <1>3, <1>4, <1>6, <1>10
  <2>. QED
    BY <1>7, <1>10, <2>1 DEF Effect, Reached
<1>. QED
  BY <1>5, <1>8, <1>9, <1>10

LEMMA AloneJoins ==
    ASSUME NEW c \in Calls, NEW t \in Threads, Stepping(c, t), Join(t)
    PROVE  AllRight(c)'
<1>1. PICK goal, role, th : goal = Goal(c) /\ role = Role(t) /\ th = thread[t]
  OBVIOUS
<1>2. Head(th.left) = "join"
  BY <1>1 DEF Join, At
<1>3. /\ UNCHANGED <<ready, governanceProvider, contextVars, registry, governance, done>>
      /\ context' = context
  BY DEF Join, blockchain, contracts, contextVars
<1>4. Head(th.left) \notin Reaching \cup Forks \cup {"waitForNames", "payments"}
  BY <1>2 DEF Reaching, Forks
<1>5. Steady(goal)
  BY <1>3, SteadySame
<1>6. /\ th \in ThreadType /\ th.left # <<>> /\ Linked(th.left) /\ th.ended = "none"
      /\ th.asked = page[c].chain /\ Right(goal, role, th) /\ role \in Roles
      /\ Head(th.left) \in PiecesOf(RunFor(role))
      /\ role # Collects => th.captured = context /\ th.g = goal /\ ready # {}
  BY <1>1, <1>4, AloneAt
<1>7. AllRight(c) /\ SamePage(c) /\ t[1] = c /\ CoreInv
  BY DEF Stepping
<1>8. role \in {"initialize", Collects} /\ t = <<c, "call">> /\ role = page[c].method
  BY <1>1, <1>2, <1>6, <1>7, PieceRoles, CallThread
<1>9. PICK fails : fails = \E v \in {u \in Threads : u[1] = t[1] /\ u # t} :
                              thread[v].ended = "error"
  OBVIOUS
<1>10. PICK next : next = IF fails THEN Ended("error") ELSE GoOn(th)
  OBVIOUS
<1>11. /\ \A u \in Threads : u[1] = c /\ u # t => thread[u].left = <<>> /\ thread'[u] = Idle
       /\ thread'[t] = next
       /\ \A u \in Threads : u[1] # c => thread'[u] = thread[u]
  BY <1>1, <1>7, <1>9, <1>10 DEF Join
<1>12. ASSUME ~fails, NEW k \in Kinds, Busy(thread[<<c, k>>])
       PROVE  /\ Chain = goal /\ goal \in done[k]
              /\ k = "governance" => Made(governance, goal)
              /\ k = "payments" => chainOf["initialized"] # None
  <2>1. /\ <<c, k>> \in Threads /\ <<c, k>>[1] = c /\ <<c, k>>[2] = k /\ k # "call"
        /\ <<c, k>> # t
    BY <1>8 DEF Threads, Kinds
  <2>2. PICK old : old = thread[<<c, k>>]
    OBVIOUS
  <2>3. old.left = <<>> /\ Busy(old)
    BY <1>11, <1>12, <2>1, <2>2
  <2>4. old.ended \in Ends /\ old.ended # "error"
    BY <1>7, <1>9, <1>12, <2>1, <2>2 DEF CoreInv, ThreadType
  <2>5. Right(goal, k, old)
    <3>1. RightThread(<<c, k>>)
      BY <1>7, <2>1 DEF AllRight
    <3>. QED
      BY <1>1, <2>1, <2>2, <3>1 DEF RightThread, Role
  <2>. QED
    BY <2>3, <2>4, <2>5, PartDone
<1>13. ~fails => Effect(goal, role, "join")
  <2>. SUFFICES ASSUME ~fails PROVE Effect(goal, role, "join")
    OBVIOUS
  <2>1. CASE role = Collects
    <3>1. /\ \A k \in Kinds : done[k] # {} => Busy(thread[<<c, k>>]) \/ goal \in done[k]
          /\ (\E k \in Kinds : done[k] # {}) => \E k \in Kinds : Busy(thread[<<c, k>>])
      BY <1>1, <1>2, <1>6, <1>7, <1>8, <2>1 DEF AllRight, Joins
    <3>2. \A k \in Kinds : done[k] # {} => goal \in done[k]
      BY <1>12, <3>1
    <3>3. (\E k \in Kinds : done[k] # {}) => Chain = goal
      BY <1>12, <3>1
    <3>. QED
      BY <2>1, <3>2, <3>3 DEF Effect
  <2>2. CASE role # Collects
    <3>1. Busy(thread[<<c, "governance">>]) /\ Busy(thread[<<c, "payments">>])
      BY <1>1, <1>2, <1>6, <1>7, <1>8, <2>2 DEF AllRight, Joins
    <3>2. "governance" \in Kinds /\ "payments" \in Kinds
      BY DEF Kinds
    <3>3. /\ Made(governance, goal) /\ goal \in done["governance"]
          /\ goal \in done["payments"] /\ chainOf["initialized"] # None
      BY <1>12, <3>1, <3>2
    <3>. QED
      BY <2>2, <3>3 DEF Effect
  <2>. QED
    BY <2>1, <2>2
<1>14. /\ Right(goal, role, next)' /\ Busy(next)
       /\ next.left # <<>> => next.asked = page[c].chain /\ Head(next.left) # "join"
  <2>1. CASE fails
    <3>1. Right(goal, role, Ended("error"))'
      BY RightEnds
    <3>2. Ended("error").left = <<>> /\ Ended("error").ended = "error"
      BY DEF Ended, Idle
    <3>. QED
      BY <1>10, <2>1, <3>1, <3>2 DEF Busy
  <2>2. CASE ~fails
    <3>1. Effect(goal, role, Head(th.left))'
      BY <1>2, <1>5, <1>13, <2>2, EffectStays
    <3>2. Head(th.left) # "waitForNames" /\ Head(th.left) # "payments" /\ Head(th.left) # "main"
      BY <1>2
    <3>3. role # Collects => th.captured = context' /\ th.g = goal /\ ready' # {}
      BY <1>3, <1>6
    <3>4. /\ Right(goal, role, GoOn(th))' /\ Busy(GoOn(th))
          /\ GoOn(th).left # <<>> =>
                /\ GoOn(th).asked = th.asked
                /\ Head(GoOn(th).left) = "join" => Head(th.left) \in Forks
      BY <1>5, <1>6, <3>1, <3>2, <3>3, RightGoesOn
    <3>. QED
      BY <1>4, <1>6, <1>10, <2>2, <3>4
  <2>. QED
    BY <2>1, <2>2
<1>15. ASSUME NEW u \in Threads, u[1] = c PROVE RightThread(u)'
  <2>1. CASE u = t
    BY <1>1, <1>5, <1>7, <1>11, <1>14, <2>1, ThreadRight
  <2>2. CASE u # t
    <3>1. PICK mine : mine = Role(u)
      OBVIOUS
    <3>2. PICK new : new = Ended("none")
      OBVIOUS
    <3>3. Right(goal, mine, new)'
      BY <3>2, RightEnds
    <3>4. thread'[u] = new /\ new.left = <<>>
      BY <1>11, <1>15, <2>2, <3>2 DEF Ended, Idle
    <3>. QED
      BY <1>1, <1>5, <1>7, <1>15, <3>1, <3>3, <3>4, ThreadRight
  <2>. QED
    BY <2>1, <2>2
<1>16. ASSUME NEW u \in Threads, Busy(thread'[u]) PROVE u[1] = c
  BY <1>7, <1>11, <1>16 DEF AllRight
<1>17. Joins(c)'
  <2>1. ~(thread'[<<c, "call">>].left # <<>> /\ Head(thread'[<<c, "call">>].left) = "join")
    BY <1>8, <1>11, <1>14
  <2>. QED
    BY <2>1 DEF Joins
<1>. QED
  BY <1>15, <1>16, <1>17 DEF AllRight, Busy

\* What an initialization does not do.
LEMMA AloneDoesNot ==
    ASSUME NEW c \in Calls, NEW t \in Threads, Stepping(c, t),
           WaitInitialized(t) \/ AddChannel(t) \/ Other(t)
    PROVE  FALSE
<1>1. PICK goal, role, th : goal = Goal(c) /\ role = Role(t) /\ th = thread[t]
  OBVIOUS
<1>2. Head(th.left) \in {"initialized", "channel", "waitAny", "waitRegistries",
          "waitGovernance", "waitPayments", "useRegistry", "useGovernance", "useProvider",
          "useNode", "useNames", "useGateways", "throw", "answer"}
  BY <1>1 DEF WaitInitialized, AddChannel, Other, WaitFor, Use, At
<1>3. /\ Head(th.left) \notin Reaching \cup {"waitForNames"}
      /\ Head(th.left) \notin RegistryPieces \cup GovernancePieces \cup PaymentPieces \cup
             {"forkRest", "forkDone", "join"}
  BY <1>2 DEF Reaching, RegistryPieces, GovernancePieces, PaymentPieces, ProviderPieces
<1>4. role \in Roles /\ Head(th.left) \in PiecesOf(RunFor(role))
  BY <1>1, <1>3, AloneAt
<1>. QED
  BY <1>3, <1>4, PieceRoles

LEMMA AloneSteps ==
    ASSUME NEW c \in Calls, NEW t \in Threads, Stepping(c, t), Step(t)
    PROVE  AllRight(c)'
  BY AloneGetProvider, AloneConnect, AloneUseMainProvider, AloneSetChain, AloneSwitch,
     AloneSigner, AloneListen, AloneMakesRegistry, AloneReadsNames, AloneFails,
     AloneRegistriesDone, AloneMakesGovernance, AloneGovernanceDone, AlonePaymentsBegin,
     AloneGetsAccounts, AloneNode, AloneGetsIdentifier, AlonePaymentsDone, AloneForks,
     AloneJoins, AloneDoesNot DEF Step

-----------------------------------------------------------------------------
(* The steps of the page and of the core, and calls that are alone.        *)

\* A thread that does nothing.
LEMMA RightIdle ==
    ASSUME NEW goal, NEW role, NEW new, new.left = <<>>, new.ended = "none"
    PROVE  Right(goal, role, new)'
<1>1. Len(new.left) = 0
  OBVIOUS
<1>2. Ordered(new.left)
  BY <1>1 DEF Ordered
<1>3. \A piece : ~Behind(new, piece)
  BY DEF Behind, Succeeds
<1>. QED
  BY <1>1, <1>2, <1>3 DEF Right

\* A call whose core, threads and message stay what they are.
LEMMA Unspoiled ==
    ASSUME NEW c \in Calls, AllRight(c), SamePage(c), thread' = thread,
           UNCHANGED <<ready, governanceProvider, contextVars, registry, governance, done>>
    PROVE  AllRight(c)'
<1>1. PICK goal : goal = Goal(c)
  OBVIOUS
<1>2. Steady(goal)
  BY SteadySame
<1>3. ASSUME NEW u \in Threads, u[1] = c PROVE RightThread(u)'
  <2>1. PICK mine, old : mine = Role(u) /\ old = thread[u]
    OBVIOUS
  <2>2. Right(goal, mine, old) /\ (old.left # <<>> => old.asked = page[c].chain)
    BY <1>1, <1>3, <2>1 DEF AllRight, RightThread
  <2>3. Right(goal, mine, old)'
    BY <1>2, <2>2, RightStays
  <2>. QED
    BY <1>1, <1>2, <1>3, <2>1, <2>2, <2>3, ThreadRight
<1>4. Joins(c)'
  <2>1. Goal(c)' = Goal(c) /\ page'[c].method = page[c].method
    BY <1>1, <1>2, AimsStay DEF SamePage
  <2>. QED
    BY <2>1 DEF AllRight, Joins, Busy
<1>. QED
  BY <1>3, <1>4 DEF AllRight, Busy

\* The thread that a step or an answer takes on.
LEMMA AloneMoves ==
    ASSUME Inv, AloneInv, NEW t \in Threads, thread[t].left # <<>>,
           \A u \in Threads : u[1] # t[1] => thread'[u] = thread[u],
           UNCHANGED <<page, overlapped>>,
           Stepping(t[1], t) => AllRight(t[1])',
           NEW c \in Calls, Alone(c)'
    PROVE  AllRight(c)'
<1>1. PICK x \in Kinds \cup {"call"} : Busy(thread'[<<c, x>>])
  BY DEF Alone, Busy
<1>2. c \notin overlapped /\ page[c].method \in Initializers /\ SamePage(c)
  BY DEF Alone, SamePage
<1>3. PICK d \in Calls, y \in Kinds \cup {"call"} : t = <<d, y>>
  BY DEF Threads
<1>4. t[1] = d /\ Busy(thread[t])
  BY <1>3 DEF Busy
<1>5. CASE c = d
  <2>1. Alone(c)
    BY <1>2, <1>3, <1>4, <1>5 DEF Alone
  <2>2. AllRight(c)
    BY <2>1 DEF AloneInv
  <2>3. page[c].chain \in Chains \cup {None}
    BY DEF Inv, PageInv, Page
  <2>4. Stepping(c, t)
    BY <1>2, <1>4, <1>5, <2>2, <2>3 DEF Stepping, Inv
  <2>. QED
    BY <1>4, <1>5, <2>4
<1>6. CASE c # d
  <2>1. <<c, x>> \in Threads /\ <<c, x>>[1] = c
    BY DEF Threads
  <2>2. thread'[<<c, x>>] = thread[<<c, x>>]
    BY <1>4, <1>6, <2>1
  <2>3. Alone(c)
    BY <1>1, <1>2, <2>2 DEF Alone
  <2>4. AllRight(c)
    BY <2>3 DEF AloneInv
  <2>. QED
    BY <1>4, <1>6, <2>4 DEF AllRight
<1>. QED
  BY <1>5, <1>6

LEMMA AloneInCore ==
    ASSUME Inv, AloneInv, NEW t \in Threads, InCore(Step(t))
    PROVE  AloneInv'
<1>1. Step(t) /\ UNCHANGED <<page, overlapped>>
  BY DEF InCore
<1>2. thread[t].left # <<>> /\ \A u \in Threads : u[1] # t[1] => thread'[u] = thread[u]
  BY <1>1, StepIsOwn
<1>3. t[1] \in Calls
  BY DEF Threads
<1>4. Stepping(t[1], t) => AllRight(t[1])'
  BY <1>1, <1>3, AloneSteps
<1>5. ASSUME NEW c \in Calls, Alone(c)' PROVE AllRight(c)'
  BY <1>1, <1>2, <1>4, <1>5, AloneMoves
<1>. QED
  BY <1>5 DEF AloneInv

LEMMA AloneAnswers ==
    ASSUME Inv, AloneInv, InCore(Answers)
    PROVE  AloneInv'
<1>1. Answers /\ UNCHANGED <<page, overlapped>>
  BY DEF InCore
<1>2. PICK t \in Threads : /\ thread[t].left # <<>>
                           /\ \E new : thread' = [thread EXCEPT ![t] = new]
                           /\ \/ t = asker /\ (SupplyProviderId \/ RejectProviderIdRequest)
                              \/ t = keyAsker /\ SupplyPrivateCredentials
  <2>1. CASE SupplyProviderId \/ RejectProviderIdRequest
    BY <2>1 DEF Inv, CoreInv, AskInv, At, SupplyProviderId, RejectProviderIdRequest,
       AskForKey, Becomes
  <2>2. CASE SupplyPrivateCredentials
    BY <2>2 DEF Inv, CoreInv, AskInv, At, SupplyPrivateCredentials, Becomes
  <2>. QED
    BY <1>1, <2>1, <2>2 DEF Answers
<1>3. t[1] \in Calls
  BY DEF Threads
<1>4. Stepping(t[1], t) => AllRight(t[1])'
  BY <1>2, <1>3, AloneAnswer, AloneCredentials
<1>5. \A u \in Threads : u[1] # t[1] => thread'[u] = thread[u]
  BY <1>2
<1>6. ASSUME NEW c \in Calls, Alone(c)' PROVE AllRight(c)'
  BY <1>1, <1>2, <1>4, <1>5, <1>6, AloneMoves
<1>. QED
  BY <1>6 DEF AloneInv

\* Steps that leave the threads, and what is told of the core.
LEMMA AloneOutside ==
    ASSUME AloneInv, thread' = thread, overlapped' = overlapped,
           UNCHANGED <<ready, governanceProvider, contextVars, registry, governance, done>>,
           \A c \in Calls, x \in Kinds \cup {"call"} : Busy(thread[<<c, x>>]) => SamePage(c)
    PROVE  AloneInv'
<1>. SUFFICES ASSUME NEW c \in Calls, Alone(c)' PROVE AllRight(c)'
  BY DEF AloneInv
<1>1. PICK x \in Kinds \cup {"call"} : Busy(thread[<<c, x>>])
  BY DEF Alone, Busy
<1>2. SamePage(c)
  BY <1>1
<1>3. Alone(c)
  BY <1>1, <1>2 DEF Alone, SamePage
<1>4. AllRight(c)
  BY <1>3 DEF AloneInv
<1>. QED
  BY <1>2, <1>4, Unspoiled

LEMMA AloneCalls ==
    ASSUME Inv, AloneInv, NEW c \in Calls, NEW ask \in scene[c].asks, Call(c, ask[1], ask[2])
    PROVE  AloneInv'
<1>1. /\ page[c].state = "none" /\ UNCHANGED <<coreVars, overlapped>>
      /\ \E new : page' = [page EXCEPT ![c] = new]
  BY DEF Call
<1>2. /\ thread' = thread
      /\ UNCHANGED <<ready, governanceProvider, contextVars, registry, governance, done>>
  BY <1>1 DEF coreVars, blockchain, contracts
<1>3. ASSUME NEW d \in Calls, NEW x \in Kinds \cup {"call"}, Busy(thread[<<d, x>>])
      PROVE  SamePage(d)
  <2>1. d # c
    <3>1. Fresh(page, c) => thread[<<c, x>>] = Idle
      BY DEF Inv, PageInv, Untouched
    <3>. QED
      BY <1>1, <1>3, <3>1 DEF Fresh, Idle, Busy
  <2>2. page \in Page
    BY DEF Inv, PageInv
  <2>. QED
    BY <1>1, <2>1, <2>2 DEF SamePage, Page
<1>. QED
  BY <1>1, <1>2, <1>3, AloneOutside

\* The page forgets nothing of a call.
LEMMA AloneSettles ==
    ASSUME Inv, AloneInv, Settle
    PROVE  AloneInv'
<1>1. UNCHANGED <<coreVars, overlapped>> /\ page \in Page
  BY DEF Settle, Inv, PageInv
<1>2. /\ thread' = thread
      /\ UNCHANGED <<ready, governanceProvider, contextVars, registry, governance, done>>
  BY <1>1 DEF coreVars, blockchain, contracts
<1>3. ASSUME NEW d \in Calls PROVE SamePage(d)
  <2>1. PICK message : message = Head(toPage)
    OBVIOUS
  <2>2. \/ page' = [page EXCEPT ![message.call].state = message.end]
        \/ page' = [c \in Calls |->
                       IF page[c].state = "local" /\ KindOf[page[c].method] = message.end
                       THEN [page[c] EXCEPT !.state = "done"] ELSE page[c]]
    BY <2>1 DEF Settle
  <2>3. CASE page' = [page EXCEPT ![message.call].state = message.end]
    BY <1>1, <2>3 DEF SamePage, Page
  <2>4. CASE page' = [c \in Calls |->
                         IF page[c].state = "local" /\ KindOf[page[c].method] = message.end
                         THEN [page[c] EXCEPT !.state = "done"] ELSE page[c]]
    <3>1. page'[d] = page[d] \/ page'[d] = [page[d] EXCEPT !.state = "done"]
      BY <2>4
    <3>. QED
      BY <1>1, <3>1 DEF SamePage, Page
  <2>. QED
    BY <2>2, <2>3, <2>4
<1>. QED
  BY <1>1, <1>2, <1>3, AloneOutside

LEMMA AloneReplies ==
    ASSUME Inv, AloneInv, NEW d \in Calls, Reply(d)
    PROVE  AloneInv'
<1>. SUFFICES ASSUME NEW c \in Calls, Alone(c)' PROVE AllRight(c)'
  BY DEF AloneInv
<1>1. PICK t : t = <<d, "call">>
  OBVIOUS
<1>2. /\ thread[t].ended # "none" /\ thread' = [thread EXCEPT ![t] = Idle]
      /\ UNCHANGED <<ready, governanceProvider, contextVars, registry, governance, done,
                     page, overlapped>>
  BY <1>1 DEF Reply, blockchain, contracts
<1>3. t \in Threads /\ t[1] = d /\ thread \in [Threads -> ThreadType] /\ Busy(thread[t])
  BY <1>1, <1>2 DEF Threads, Inv, CoreInv, Busy
<1>4. thread'[t] = Idle /\ \A u \in Threads : u # t => thread'[u] = thread[u]
  BY <1>2, <1>3
<1>5. Idle.left = <<>> /\ Idle.ended = "none"
  BY DEF Idle
<1>6. \A u \in Threads : Busy(thread'[u]) => Busy(thread[u])
  BY <1>4, <1>5 DEF Busy
<1>7. AllRight(c)
  <2>1. PICK x \in Kinds \cup {"call"} : Busy(thread'[<<c, x>>])
    BY DEF Alone, Busy
  <2>2. <<c, x>> \in Threads
    BY DEF Threads
  <2>3. Busy(thread[<<c, x>>])
    BY <1>6, <2>1, <2>2
  <2>4. Alone(c)
    BY <1>2, <2>3 DEF Alone
  <2>. QED
    BY <2>4 DEF AloneInv
<1>8. c = d
  BY <1>3, <1>7 DEF AllRight
<1>9. PICK goal : goal = Goal(c)
  OBVIOUS
<1>10. Steady(goal) /\ SamePage(c)
  BY <1>2, SteadySame DEF SamePage
<1>11. ASSUME NEW u \in Threads, u[1] = c PROVE RightThread(u)'
  <2>1. PICK mine, old : mine = Role(u) /\ old = thread[u]
    OBVIOUS
  <2>2. CASE u = t
    <3>1. PICK new : new = Idle
      OBVIOUS
    <3>2. Right(goal, mine, new)'
      BY <1>5, <3>1, RightIdle
    <3>3. thread'[u] = new /\ new.left = <<>>
      BY <1>4, <1>5, <2>2, <3>1
    <3>. QED
      BY <1>9, <1>10, <1>11, <2>1, <3>2, <3>3, ThreadRight
  <2>3. CASE u # t
    <3>1. Right(goal, mine, old) /\ (old.left # <<>> => old.asked = page[c].chain)
      BY <1>7, <1>9, <1>11, <2>1 DEF AllRight, RightThread
    <3>2. Right(goal, mine, old)'
      BY <1>10, <3>1, RightStays
    <3>3. thread'[u] = old
      BY <1>4, <2>1, <2>3
    <3>. QED
      BY <1>9, <1>10, <1>11, <2>1, <3>1, <3>2, <3>3, ThreadRight
  <2>. QED
    BY <2>2, <2>3
<1>12. Joins(c)'
  <2>1. thread'[<<c, "call">>].left = <<>>
    BY <1>1, <1>4, <1>5, <1>8
  <2>. QED
    BY <2>1 DEF Joins
<1>13. \A u \in Threads : Busy(thread'[u]) => u[1] = c
  BY <1>6, <1>7 DEF AllRight
<1>. QED
  BY <1>11, <1>12, <1>13 DEF AllRight, Busy

\* A call that comes when no other runs; those that it overlaps are not alone.
LEMMA AloneReceives ==
    ASSUME Inv, AloneInv, Receive
    PROVE  AloneInv'
<1>1. PICK d : d = Head(toCore)
  OBVIOUS
<1>2. /\ toCore # <<>> /\ page \in Page /\ Queued(toCore, page) /\ CoreInv
      /\ Untouched(page, thread) /\ thread \in [Threads -> ThreadType]
  BY DEF Receive, Inv, PageInv, CoreInv
<1>3. d \in Calls /\ page[d].state = "sent"
  BY <1>1, <1>2, QueueShrinks
<1>4. PICK m : m = page[d].method
  OBVIOUS
<1>5. PICK chain : chain = IF m = "waitInitialized" THEN None ELSE page[d].chain
  OBVIOUS
<1>6. /\ page' = [page EXCEPT ![d].state = "inCore"]
      /\ UNCHANGED <<ready, governanceProvider, contextVars, registry, governance, done>>
      /\ \/ thread' = thread /\ overlapped' = overlapped
         \/ /\ Begin(d, Run(m), chain)
            /\ overlapped' = IF Running = {} THEN overlapped
                             ELSE overlapped \cup Running \cup {d}
  BY <1>1, <1>4, <1>5 DEF Receive, blockchain, contracts
<1>7. \A c \in Calls : SamePage(c)
  BY <1>2, <1>6 DEF SamePage, Page
<1>8. CASE thread' = thread /\ overlapped' = overlapped
  BY <1>6, <1>7, <1>8, AloneOutside
<1>9. CASE /\ Begin(d, Run(m), chain)
           /\ overlapped' = IF Running = {} THEN overlapped
                            ELSE overlapped \cup Running \cup {d}
  <2>1. PICK t : t = <<d, "call">>
    OBVIOUS
  <2>2. PICK new : new = [Idle EXCEPT !.left = Run(m), !.asked = chain,
                              !.g = IF chain = None THEN Chain ELSE chain]
    OBVIOUS
  <2>3. t \in Threads /\ t[1] = d /\ t[2] = "call"
    BY <1>3, <2>1 DEF Threads
  <2>4. thread'[t] = new /\ \A u \in Threads : u # t => thread'[u] = thread[u]
    BY <1>2, <1>9, <2>1, <2>2, <2>3 DEF Begin, Becomes
  <2>5. new.left = Run(m) /\ new.asked = chain /\ new.ended = "none"
    BY <2>2 DEF Idle
  <2>6. \A u \in Threads : Busy(thread[u]) => u[1] \in Running
    <3>1. \A u \in Threads : u[1] \in Calls
      BY DEF Threads
    <3>. QED
      BY <3>1 DEF Running, Busy
  <2>. SUFFICES ASSUME NEW c \in Calls, Alone(c)' PROVE AllRight(c)'
    BY DEF AloneInv
  <2>7. PICK x \in Kinds \cup {"call"} : Busy(thread'[<<c, x>>])
    BY DEF Alone, Busy
  <2>8. <<c, x>> \in Threads /\ <<c, x>>[1] = c
    BY DEF Threads
  <2>9. c \notin overlapped' /\ page'[c].method \in Initializers
    BY DEF Alone
  <2>10. c = d /\ Running = {}
    <3>1. CASE Running = {}
      <4>1. <<c, x>> = t
        BY <2>4, <2>6, <2>7, <2>8, <3>1
      <4>. QED
        BY <2>3, <2>8, <3>1, <4>1
    <3>2. CASE Running # {}
      <4>1. c \notin Running /\ c # d
        BY <1>9, <2>9, <3>2
      <4>2. thread'[<<c, x>>] = thread[<<c, x>>]
        BY <2>3, <2>4, <2>8, <4>1
      <4>. QED
        BY <2>6, <2>7, <2>8, <4>1, <4>2
    <3>. QED
      BY <3>1, <3>2
  <2>11. \A u \in Threads : thread[u].left = <<>> /\ thread[u].ended = "none"
    BY <2>6, <2>10 DEF Busy
  <2>12. m \in Initializers /\ chain = page[c].chain
    <3>1. "waitInitialized" \notin Initializers
      BY DEF Initializers
    <3>. QED
      BY <1>4, <1>5, <1>7, <2>9, <2>10, <3>1 DEF SamePage
  <2>13. PICK goal : goal = Goal(c)
    OBVIOUS
  <2>14. Steady(goal) /\ SamePage(c)
    BY <1>6, <1>7, SteadySame
  <2>15. Right(goal, m, new)' /\ Head(new.left) # "join"
    <3>1. m \in Roles /\ RunFor(m) = Run(m)
      <4>1. m \notin Kinds
        BY <2>12 DEF Initializers, Kinds
      <4>. QED
        BY <2>12, <4>1 DEF Roles, RunFor
    <3>. QED
      BY <2>5, <3>1, RightStarts
  <2>16. ASSUME NEW u \in Threads, u[1] = c PROVE RightThread(u)'
    <3>1. CASE u = t
      <4>1. Role(u) = m
        BY <1>4, <2>3, <3>1 DEF Role
      <4>. QED
        BY <2>4, <2>5, <2>12, <2>13, <2>14, <2>15, <2>16, <3>1, <4>1, ThreadRight
    <3>2. CASE u # t
      <4>1. PICK mine, old : mine = Role(u) /\ old = thread[u]
        OBVIOUS
      <4>2. old.left = <<>> /\ old.ended = "none" /\ thread'[u] = old
        BY <2>4, <2>11, <3>2, <4>1
      <4>3. Right(goal, mine, old)'
        BY <4>2, RightIdle
      <4>. QED
        BY <2>13, <2>14, <2>16, <4>1, <4>2, <4>3, ThreadRight
    <3>. QED
      BY <3>1, <3>2
  <2>17. Joins(c)'
    <3>1. Head(thread'[<<c, "call">>].left) # "join"
      BY <2>1, <2>4, <2>3, <2>10, <2>15
    <3>. QED
      BY <3>1 DEF Joins
  <2>18. ASSUME NEW u \in Threads, Busy(thread'[u]) PROVE u[1] = c
    BY <2>3, <2>4, <2>6, <2>10, <2>18
  <2>. QED
    BY <2>16, <2>17, <2>18 DEF AllRight, Busy
<1>. QED
  BY <1>6, <1>8, <1>9

LEMMA AloneStays == Inv /\ AloneInv /\ [Next]_vars => AloneInv'
<1>. SUFFICES ASSUME Inv, AloneInv, [Next]_vars PROVE AloneInv'
  OBVIOUS
<1>1. CASE UNCHANGED vars \/ Activate
  <2>1. /\ thread' = thread /\ overlapped' = overlapped /\ page' = page
        /\ UNCHANGED <<ready, governanceProvider, contextVars, registry, governance, done>>
    BY <1>1 DEF vars, coreVars, frameVars, blockchain, contracts, Activate
  <2>. QED
    BY <2>1, AloneOutside DEF SamePage
<1>2. CASE \E c \in Calls : \E ask \in scene[c].asks : Call(c, ask[1], ask[2])
  BY <1>2, AloneCalls
<1>3. CASE Receive \/ (\E c \in Calls : Reply(c)) \/ Settle
  BY <1>3, AloneReceives, AloneReplies, AloneSettles
<1>4. CASE InCore(WalletMoves) \/ InCore(NodeStarts)
  <2>1. /\ thread' = thread /\ overlapped' = overlapped /\ page' = page
        /\ UNCHANGED <<ready, governanceProvider, contextVars, registry, governance, done>>
    BY <1>4 DEF InCore, WalletMoves, NodeStarts, blockchain, contracts
  <2>. QED
    BY <2>1, AloneOutside DEF SamePage
<1>5. CASE InCore(Answers)
  BY <1>5, AloneAnswers
<1>6. CASE \E t \in Threads : InCore(Step(t))
  BY <1>6, AloneInCore
<1>. QED
  BY <1>1, <1>2, <1>3, <1>4, <1>5, <1>6 DEF Next

LEMMA AloneBegins == Init => AloneInv
<1>1. \A c \in Calls, x \in Kinds \cup {"call"} : <<c, x>> \in Threads
  BY DEF Threads
<1>. QED
  BY <1>1 DEF Init, CoreInit, AloneInv, Alone, Busy, Idle

\* What is known of the core when the call is done.
LEMMA AloneDone ==
    ASSUME Inv, AloneInv, NEW c \in Calls, c \notin overlapped, NEW m, m = page[c].method,
           m \in Initializers, thread[<<c, "call">>].ended = "done", NEW goal, goal = Goal(c)
    PROVE  \A piece \in PiecesOf(RunFor(m)) : Effect(goal, m, piece)
<1>1. PICK t, th : t = <<c, "call">> /\ th = thread[t]
  OBVIOUS
<1>2. t \in Threads /\ t[1] = c /\ t[2] = "call"
  BY <1>1 DEF Threads
<1>3. Alone(c)
  BY DEF Alone, Busy
<1>4. Right(goal, m, th)
  <2>1. RightThread(t)
    BY <1>2, <1>3 DEF AloneInv, AllRight
  <2>. QED
    BY <1>1, <1>2, <2>1 DEF RightThread, Role
<1>5. th.left = <<>> /\ th.ended = "done"
  BY <1>1, <1>2 DEF Inv, CoreInv, ThreadInv
<1>6. \A piece : Behind(th, piece)
  <2>1. Len(th.left) = 0
    BY <1>5
  <2>. QED
    BY <1>5, <2>1 DEF Behind, Succeeds, HasPiece
<1>. QED
  BY <1>4, <1>6 DEF Right

LEMMA AloneGives == Inv /\ AloneInv => AloneInitializes
<1>. SUFFICES ASSUME Inv, AloneInv PROVE AloneInitializes
  OBVIOUS
<1>. SUFFICES ASSUME NEW c \in Calls, NEW m, m = page[c].method, NEW goal, goal = Goal(c),
                     m \in Initializers, c \notin overlapped,
                     thread[<<c, "call">>].ended = "done"
              PROVE  /\ (m = "initializeForChainId" => \E k \in Kinds : done[k] # {}) => Chain = goal
                     /\ m = "initializeForChainId" => \A k \in Kinds : done[k] # {} => goal \in done[k]
                     /\ m \in {"initialize", "initializeRegistries", "initializePayments"} =>
                            goal \in done["registries"] /\ Made(registry, goal)
                     /\ m \in {"initialize", "initializeGovernance"} =>
                            goal \in done["governance"] /\ Made(governance, goal)
                     /\ m \in {"initialize", "initializePayments"} =>
                            goal \in done["payments"] /\ chainOf["initialized"] # None
  BY DEF AloneInitializes, Goal, Made
<1>1. \A piece \in PiecesOf(RunFor(m)) : Effect(goal, m, piece)
  BY AloneDone
<1>2. /\ PiecesOf(RunFor("initializeRegistries")) = RegistryPieces
      /\ PiecesOf(RunFor("initializeGovernance")) = GovernancePieces
      /\ PiecesOf(RunFor("initializePayments")) = PaymentPieces
      /\ PiecesOf(RunFor("initialize")) = RegistryPieces \cup {"forkRest", "join"}
      /\ PiecesOf(RunFor(Collects)) = {"forkDone", "join", "switch", "signer"}
  BY RolePieces
<1>3. /\ {"context", "registries", "registriesDone"} \subseteq RegistryPieces
      /\ {"context", "governance", "governanceDone"} \subseteq GovernancePieces
      /\ RegistryPieces \cup {"ids", "paymentsDone"} \subseteq PaymentPieces
  BY DEF RegistryPieces, GovernancePieces, PaymentPieces, ProviderPieces
<1>4. CASE m = Collects
  <2>1. Effect(goal, m, "join")
    BY <1>1, <1>2, <1>4
  <2>. QED
    BY <1>4, <2>1 DEF Effect, Collects
<1>5. CASE m = "initialize"
  <2>1. /\ Effect(goal, m, "join") /\ Effect(goal, m, "context")
        /\ Effect(goal, m, "registries") /\ Effect(goal, m, "registriesDone")
    BY <1>1, <1>2, <1>3, <1>5
  <2>. QED
    BY <1>5, <2>1 DEF Effect, Collects, Reached
<1>6. CASE m = "initializeRegistries"
  <2>1. /\ Effect(goal, m, "context")
        /\ Effect(goal, m, "registries") /\ Effect(goal, m, "registriesDone")
    BY <1>1, <1>2, <1>3, <1>6
  <2>. QED
    BY <1>6, <2>1 DEF Effect, Reached
<1>7. CASE m = "initializeGovernance"
  <2>1. /\ Effect(goal, m, "context")
        /\ Effect(goal, m, "governance") /\ Effect(goal, m, "governanceDone")
    BY <1>1, <1>2, <1>3, <1>7
  <2>. QED
    BY <1>7, <2>1 DEF Effect, Reached
<1>8. CASE m = "initializePayments"
  <2>1. /\ Effect(goal, m, "context") /\ Effect(goal, m, "ids") /\ Effect(goal, m, "paymentsDone")
        /\ Effect(goal, m, "registries") /\ Effect(goal, m, "registriesDone")
    BY <1>1, <1>2, <1>3, <1>8
  <2>. QED
    BY <1>8, <2>1 DEF Effect, Reached
<1>. QED
  BY <1>4, <1>5, <1>6, <1>7, <1>8 DEF Initializers, Collects

\* An initialization that no other call overlaps, and that succeeds, has the context at
\* its chain, its contracts made for that chain, and its kinds initialized for it,
\* whatever calls came before it and whatever the user's wallet did meanwhile
\* (HypernetCore.initialize, initializeForChainId and the methods of the kinds).
THEOREM AloneIsRight == Spec => []AloneInitializes
<1>1. Init => AloneInv
  BY AloneBegins
<1>2. Inv /\ AloneInv /\ [Next]_vars => AloneInv'
  BY AloneStays
<1>3. Inv /\ AloneInv => AloneInitializes
  BY AloneGives
<1>. QED
  BY <1>1, <1>2, <1>3, CoreStaysSound, PTL DEF Spec

=============================================================================
