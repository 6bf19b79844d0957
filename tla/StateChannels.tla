---------------------------- MODULE StateChannels ----------------------------
(***************************************************************************)
(* The state channels of a core with its routers: AccountService and       *)
(* AccountsRepository set them up and keep the list of the context, move   *)
(* money between the wallet and the channels, and report the balances;     *)
(* ensureStateChannel does the same as createStateChannel for a gateway.   *)
(*                                                                         *)
(* A call is a sequence of pieces, and other calls run between them. The   *)
(* page may be loaded again at any time: the calls are lost, the context   *)
(* is empty, and transactions that were sent are mined all the same.       *)
(***************************************************************************)
EXTENDS Integers, FiniteSets, SequencesExt

CONSTANTS
    Calls,       \* calls of the page: a bound
    Asks,        \* what they may ask for: see Ask
    Routers, Chains, Assets, Gateways,
    Allows,      \* pairs of a router and a gateway that it allows, as registered
    Funds,       \* of each asset in the wallet at first
    Earlier,     \* sets of channels, one of which is there at first
    MaxReloads,  \* bound: times the page is loaded again
    None

Channels == Routers \X Chains

\* Of an ask its kind, and what that kind is about; each moves one unit.
Ask == [kind : {"initialize", "create", "deposit", "withdraw", "balances", "mint"},
        routers : SUBSET Routers, chain : Chains, gateway : Gateways \cup {None},
        channel : Channels, asset : Assets]

ASSUME StateChannelsAssumption ==
    /\ IsFiniteSet(Calls) /\ Asks \subseteq Ask /\ Allows \subseteq Routers \X Gateways
    /\ \A known0 \in Earlier : known0 \subseteq Channels /\ IsFiniteSet(known0)
    /\ Funds \in Nat /\ MaxReloads \in Nat
    /\ None \notin Routers \cup Gateways /\ None \notin Seq(Channels)

VARIABLES
    opened,   \* channels that the routers know
    known,    \* channels in the store of the browser node
    wallet,   \* by asset
    landed,   \* deposits on the channel's address that it does not count yet
    balance,  \* the core's, by channel and asset
    stored,   \* the active routers in storage
    list,     \* activeStateChannels of the context and of the initialized context
    shared,   \* whether they are one array
    current,  \* which of the two ContextProvider holds
    info,     \* assetInfo: "none", "read", or "unknown" if it could not be read
    tx,       \* by call: its transaction
    thread,
    reloads,
    meddled   \* calls that did not have the list to themselves (history)

node == <<opened, known>>
money == <<wallet, landed, balance, tx>>
context == <<list, shared, current>>
vars == <<node, money, stored, context, info, thread, reloads, meddled>>

Contexts == {"context", "initialized"}
Pieces == {"no", "router", "setup", "restore", "routers", "write", "channels", "mined",
           "reconcile", "withdraw", "states", "infos", "done", "error", "lost"}

\* captured is the context that it works on, on the chain of the wallet when it began,
\* saw what it read, moved whether its money has moved (history), got the states of the
\* channels that it reports.
Idle == [pc |-> "no", ask |-> None, channel |-> None, captured |-> "context", on |-> None,
         saw |-> {}, moved |-> FALSE, got |-> <<>>]
Over == {"no", "done", "error", "lost"}
Running(c) == thread[c].pc \notin Over

TypeOK ==
    /\ known \subseteq opened /\ opened \subseteq Channels
    /\ wallet \in [Assets -> Nat]
    /\ landed \in [Channels -> [Assets -> Nat]] /\ balance \in [Channels -> [Assets -> Nat]]
    /\ stored \subseteq Routers /\ current \in Contexts /\ shared \in BOOLEAN
    /\ info \in [Assets -> {"none", "read", "unknown"}]
    /\ tx \in [Calls -> {"none", "pending", "mined", "reverted"}]
    /\ \A x \in Contexts : list[x] = None \/ list[x] \in Seq(opened)
    /\ shared => list["context"] = list["initialized"]
    /\ \A c \in Calls : thread[c].pc \in Pieces /\ (Running(c) => thread[c].ask \in Asks)
    /\ reloads \in 0..MaxReloads /\ meddled \subseteq Calls

Init ==
    /\ opened \in Earlier /\ known = opened /\ stored = {ch[1] : ch \in opened}
    /\ wallet = [a \in Assets |-> Funds]
    /\ landed = [ch \in Channels |-> [a \in Assets |-> 0]] /\ balance = landed
    /\ list = [x \in Contexts |-> None] /\ shared = FALSE /\ current = "context"
    /\ info = [a \in Assets |-> "none"] /\ tx = [c \in Calls |-> "none"]
    /\ thread = [c \in Calls |-> Idle] /\ reloads = 0 /\ meddled = {}

-----------------------------------------------------------------------------
(* The threads. *)

At(c, piece) == thread[c].pc = piece
Becomes(c, th) == thread' = [thread EXCEPT ![c] = th]
GoTo(c, piece) == Becomes(c, [thread[c] EXCEPT !.pc = piece])
\* What a call read is gone with it.
Ended(th, piece) == [th EXCEPT !.pc = piece, !.captured = "context", !.saw = {}, !.got = <<>>]
Ends(c) == Becomes(c, Ended(thread[c], "done"))
Fails(c) == Becomes(c, Ended(thread[c], "error"))
Moved(c) == Becomes(c, [thread[c] EXCEPT !.pc = "states", !.moved = TRUE])

\* Those that read the list and later add to it or replace it.
Lists(c) == Running(c) /\ thread[c].ask.kind \in {"initialize", "create"}

\* The wallet is on any chain, which nobody compares with the chain of the channel.
\* The calls are taken in turn.
Fresh == CHOOSE c \in Calls : At(c, "no")
Start(c, ask, chain) ==
    /\ At(c, "no") /\ c = Fresh /\ (ask.kind # "deposit" => chain = ask.chain)
    /\ LET first == CASE ask.kind = "initialize" -> "channels"
                      [] ask.kind = "create" -> "router"
                      [] ask.kind = "withdraw" -> "withdraw"
                      [] ask.kind = "balances" -> "states"
                      [] OTHER -> "mined"
       IN  Becomes(c, [Idle EXCEPT !.pc = first, !.ask = ask, !.captured = current,
                                   !.channel = ask.channel, !.on = chain])
    /\ tx' = IF ask.kind \in {"deposit", "mint"} THEN [tx EXCEPT ![c] = "pending"] ELSE tx
    /\ IF ask.kind \in {"initialize", "create"} /\ \E d \in Calls : Lists(d)
       THEN meddled' = meddled \cup {c} \cup {d \in Calls : Lists(d)}
       ELSE UNCHANGED meddled
    /\ UNCHANGED <<node, wallet, landed, balance, stored, context, info, reloads>>

\* What asks for the initialized context waits for it.
Initialized == list["initialized"] # None

-----------------------------------------------------------------------------
(* The list of the channels. *)

\* initializePayments puts back the context that it got when it began, with the
\* account, reads the channels of the node, and puts the list of them into it. The
\* first time, the initialized context is made of it and has the same array.
GetActiveStateChannels(c) ==
    /\ At(c, "channels")
    /\ \/ Fails(c) /\ current' \in {current, thread[c].captured}
       \/ /\ Becomes(c, [thread[c] EXCEPT !.pc = "routers", !.saw = known])
          /\ current' = thread[c].captured
    /\ UNCHANGED <<node, money, stored, list, shared, info, reloads, meddled>>

\* (mutant) the initialized context is thought to share the array ever after
SetContextShares(c) ==
    LET read == SetToSeq(thread[c].saw) IN
    /\ At(c, "routers") /\ thread[c].ask.kind = "initialize"
    /\ Ends(c)
    /\ list' = IF Initialized THEN [list EXCEPT ![thread[c].captured] = read]
               ELSE [x \in Contexts |-> read]
    /\ shared' = TRUE
    /\ current' = thread[c].captured
    /\ UNCHANGED <<node, money, stored, info, reloads, meddled>>

SetContext(c) ==
    LET read == SetToSeq(thread[c].saw) IN
    /\ At(c, "routers") /\ thread[c].ask.kind = "initialize"
    /\ Ends(c)
    /\ list' = IF Initialized THEN [list EXCEPT ![thread[c].captured] = read]
               ELSE [x \in Contexts |-> read]
    /\ shared' = ~Initialized
    /\ current' = thread[c].captured
    /\ UNCHANGED <<node, money, stored, info, reloads, meddled>>

\* Where the list has a channel with one of the routers on the chain.
Matches(ask, channels) ==
    {i \in DOMAIN channels : channels[i][1] \in ask.routers /\ channels[i][2] = ask.chain}
Allowed(ask, r) == ask.gateway = None \/ <<r, ask.gateway>> \in Allows

\* For a gateway, the router has to allow it, whether or not its channel is listed;
\* what it allows may not be readable.
AssureGatewayAuthorized(c, r, piece) ==
    LET ask == thread[c].ask IN
    \/ /\ Allowed(ask, r)
       /\ Becomes(c, [Ended(thread[c], piece) EXCEPT !.channel = <<r, ask.chain>>])
    \/ ask.gateway # None /\ Fails(c)

\* (mutant) the list of the context is not looked at
FindListedNever(c) ==
    /\ At(c, "router") /\ Initialized
    /\ \E r \in thread[c].ask.routers : AssureGatewayAuthorized(c, r, "setup")
    /\ UNCHANGED <<node, money, stored, context, info, reloads, meddled>>

\* The first match of the list is returned. If there is none, a router is chosen at random.
FindListed(c) ==
    LET match == Matches(thread[c].ask, list["initialized"]) IN
    /\ At(c, "router") /\ Initialized
    /\ \/ \E i \in match :
              /\ \A j \in match : i <= j
              /\ AssureGatewayAuthorized(c, list["initialized"][i][1], "done")
       \/ match = {} /\ \E r \in thread[c].ask.routers : AssureGatewayAuthorized(c, r, "setup")
    /\ UNCHANGED <<node, money, stored, context, info, reloads, meddled>>

\* The repository looks into the list of the present context, which may be another
\* one. A channel that the router has already cannot be set up again.
SetUp(c) ==
    LET ch == thread[c].channel
        listed == list[current] # None /\ Contains(list[current], ch)
    IN  /\ At(c, "setup")
        /\ \/ /\ listed /\ GoTo(c, "routers")
              /\ UNCHANGED node
           \/ /\ ~listed /\ ch \notin opened
              /\ opened' = opened \cup {ch} /\ known' = known \cup {ch}
              /\ GoTo(c, "routers")
           \/ ~listed /\ GoTo(c, "restore") /\ UNCHANGED node
        /\ UNCHANGED <<money, stored, context, info, reloads, meddled>>

\* After a failure, the channel may be there all the same and is fetched from the
\* router. If there is none, the error of the first try is returned.
RestoreState(c) ==
    LET ch == thread[c].channel IN
    /\ At(c, "restore")
    /\ \/ Fails(c) /\ UNCHANGED node
       \/ ch \in opened /\ known' = known \cup {ch} /\ GoTo(c, "routers") /\ UNCHANGED opened
    /\ UNCHANGED <<money, stored, context, info, reloads, meddled>>

\* addActiveRouter reads the stored routers and writes them with the new one; a
\* write that fails is only logged.
GetActiveRouters(c) ==
    /\ At(c, "routers") /\ thread[c].ask.kind = "create"
    /\ \/ Fails(c)
       \/ Becomes(c, [thread[c] EXCEPT !.pc = "write", !.saw = stored])
    /\ UNCHANGED <<node, money, stored, context, info, reloads, meddled>>

\* Then the channel is appended to the list of the initialized context, which
\* becomes the present one.
AddActiveRouter(c) ==
    LET th == thread[c] IN
    /\ At(c, "write")
    /\ \/ th.channel[1] \notin th.saw /\ stored' = th.saw \cup {th.channel[1]}
       \/ UNCHANGED stored
    /\ list' = [x \in Contexts |-> IF x = "initialized" \/ shared
                                   THEN Append(list[x], th.channel) ELSE list[x]]
    /\ current' = "initialized"
    /\ Ends(c)
    /\ UNCHANGED <<node, money, shared, info, reloads, meddled>>

-----------------------------------------------------------------------------
(* The money. *)

\* A transaction is mined or reverted, whether or not the page is still there. What
\* is sent on another chain than the channel's lands nowhere.
Mine(c) ==
    LET ask == thread[c].ask IN
    /\ tx[c] = "pending"
    /\ \/ /\ ask.kind = "deposit" /\ thread[c].on = ask.channel[2] /\ wallet[ask.asset] > 0
          /\ tx' = [tx EXCEPT ![c] = "mined"]
          /\ wallet' = [wallet EXCEPT ![ask.asset] = @ - 1]
          /\ landed' = [landed EXCEPT ![ask.channel][ask.asset] = @ + 1]
       \/ /\ ask.kind = "deposit" /\ thread[c].on # ask.channel[2]
          /\ tx' = [tx EXCEPT ![c] = "mined"]
          /\ UNCHANGED <<wallet, landed>>
       \/ /\ ask.kind = "mint"
          /\ tx' = [tx EXCEPT ![c] = "mined"]
          /\ wallet' = [wallet EXCEPT ![ask.asset] = @ + 1]
          /\ UNCHANGED landed
       \/ tx' = [tx EXCEPT ![c] = "reverted"] /\ UNCHANGED <<wallet, landed>>
    /\ UNCHANGED <<balance, node, stored, context, info, thread, reloads, meddled>>

\* (mutant) the deposit is reconciled as soon as it is sent
WaitForTransactionNot(c) ==
    /\ At(c, "mined")
    /\ IF thread[c].ask.kind = "mint" THEN Ends(c) ELSE GoTo(c, "reconcile")
    /\ UNCHANGED <<node, money, stored, context, info, reloads, meddled>>

\* (mutant) what fails to be mined is waited for
WaitForTransactionMined(c) ==
    /\ At(c, "mined") /\ tx[c] = "mined"
    /\ IF thread[c].ask.kind = "mint" THEN Ends(c) ELSE GoTo(c, "reconcile")
    /\ UNCHANGED <<node, money, stored, context, info, reloads, meddled>>

WaitForTransaction(c) ==
    /\ At(c, "mined") /\ tx[c] # "pending"
    /\ IF tx[c] = "reverted" THEN Fails(c)
       ELSE IF thread[c].ask.kind = "mint" THEN Ends(c) ELSE GoTo(c, "reconcile")
    /\ UNCHANGED <<node, money, stored, context, info, reloads, meddled>>

\* The channel counts all that has landed, whoever sent it.
ReconcileDeposit(c) ==
    LET ch == thread[c].channel
        a == thread[c].ask.asset
    IN  /\ At(c, "reconcile")
        /\ \/ /\ ch \in known
              /\ balance' = [balance EXCEPT ![ch][a] = @ + landed[ch][a]]
              /\ landed' = [landed EXCEPT ![ch][a] = 0]
              /\ Moved(c)
           \/ Fails(c) /\ UNCHANGED <<balance, landed>>
        /\ UNCHANGED <<wallet, tx, node, stored, context, info, reloads, meddled>>

Withdraw(c) ==
    LET ch == thread[c].channel
        a == thread[c].ask.asset
    IN  /\ At(c, "withdraw") /\ Initialized
        /\ \/ /\ ch \in known /\ balance[ch][a] > 0
              /\ balance' = [balance EXCEPT ![ch][a] = @ - 1]
              /\ wallet' = [wallet EXCEPT ![a] = @ + 1]
              /\ Moved(c)
           \/ Fails(c) /\ UNCHANGED <<balance, wallet>>
        /\ UNCHANGED <<landed, tx, node, stored, context, info, reloads, meddled>>

\* getBalances reads the channels of the list, then what is not known of their
\* assets; what cannot be read is unknown for good.
GetStates(c) ==
    /\ At(c, "states") /\ Initialized
    /\ \/ Becomes(c, [thread[c] EXCEPT !.pc = "infos",
              !.got = [i \in 1..Len(list["initialized"]) |->
                          [channel |-> list["initialized"][i],
                           amount |-> balance[list["initialized"][i]]]]])
       \/ Fails(c)
    /\ UNCHANGED <<node, money, stored, context, info, reloads, meddled>>

GetAssetInfos(c) ==
    /\ At(c, "infos")
    /\ info' \in IF thread[c].got = <<>> THEN {info}
                 ELSE {f \in [Assets -> {"read", "unknown"}] :
                          \A a \in Assets : info[a] # "none" => f[a] = info[a]}
    /\ Ends(c)
    /\ UNCHANGED <<node, money, stored, context, reloads, meddled>>

\* The results are collected in one array for all channels, and those so far are
\* returned for each.
Reported(c) ==
    FlattenSeq([i \in 1..Len(thread[c].got) |-> SubSeq(thread[c].got, 1, i)])

-----------------------------------------------------------------------------
(* The page is loaded again, perhaps in another browser: the store of the node  *)
(* is then empty.                                                               *)
Reload ==
    /\ reloads < MaxReloads /\ reloads' = reloads + 1
    /\ thread' = [c \in Calls |-> IF At(c, "no") THEN thread[c]
                                  ELSE Ended(thread[c], "lost")]
    /\ known' \in {known, {}}
    /\ list' = [x \in Contexts |-> None] /\ shared' = FALSE /\ current' = "context"
    /\ info' = [a \in Assets |-> "none"]
    /\ UNCHANGED <<opened, money, stored, meddled>>

Step(c) ==
    \/ GetActiveStateChannels(c) \/ SetContext(c) \/ FindListed(c) \/ SetUp(c)
    \/ RestoreState(c) \/ GetActiveRouters(c) \/ AddActiveRouter(c) \/ WaitForTransaction(c)
    \/ ReconcileDeposit(c) \/ Withdraw(c) \/ GetStates(c) \/ GetAssetInfos(c)

Next ==
    \/ \E c \in Calls, ask \in Asks, chain \in Chains : Start(c, ask, chain)
    \/ \E c \in Calls : Step(c) \/ Mine(c)
    \/ Reload

Spec == Init /\ [][Next]_vars
FairSpec == Spec /\ \A c \in Calls : WF_vars(Step(c)) /\ WF_vars(Mine(c))

-----------------------------------------------------------------------------
(* Properties. *)

\* What depositFunds moved is in the channel, if the wallet was on its chain: the
\* deposits that were reconciled and the withdrawals account for no more than the
\* balance, whichever of the deposits the node counted when, and whatever was lost
\* with the page.
DepositsAreCounted ==
    \A ch \in Channels, a \in Assets :
        LET Past(kind) == {c \in Calls : /\ thread[c].moved /\ thread[c].ask.kind = kind
                                         /\ thread[c].ask.asset = a /\ thread[c].channel = ch
                                         /\ kind = "deposit" => thread[c].on = ch[2]}
        IN  balance[ch][a] >= Cardinality(Past("deposit")) - Cardinality(Past("withdraw"))

\* The channel that createStateChannel or ensureStateChannel returned is in the list
\* that balances and later calls go by until the page is loaded again; also if it was
\* there before, was restored from the router after a call that failed half way, or
\* the core is initialized again. It is there once, unless calls of this page overlapped
\* before. (Of two that overlap, none of this is so.)
AloneIsListed ==
    \A c \in Calls :
        At(c, "done") /\ thread[c].ask.kind = "create" /\ c \notin meddled =>
            LET places == {i \in DOMAIN list["initialized"] :
                               list["initialized"][i] = thread[c].channel}
            IN  /\ thread[c].channel \in known /\ places # {}
                /\ (\A d \in meddled : At(d, "lost")) => Cardinality(places) = 1

\* A call comes to an end, whatever fails, unless it waits for the core to be initialized.
CallsEnd == \A c \in Calls : Running(c) ~> (~Running(c) \/ ~Initialized)

\* Refuted. "Get all balances associated with this instance": each of them once.
ReportedOnce ==
    \A c \in Calls : At(c, "infos") => IsInjective(Reported(c))

\* Refuted: what was deposited is counted, if the page is loaded again at the wrong
\* moment, or the wallet is on another chain.
LandedIsCounted ==
    \A ch \in Channels, a \in Assets : landed[ch][a] > 0 ~> landed[ch][a] = 0

\* Refuted: whichever calls overlap, there is one channel of a chain for a choice of
\* routers, and it is listed once.
ListedOnce == Initialized => IsInjective(list["initialized"])
=============================================================================
