----------------------------- MODULE CoreStartup -----------------------------
(***************************************************************************)
(* How HypernetCore is initialized: the provider of the blockchain, the    *)
(* context with its governance chain, the contracts of the registries and  *)
(* of the governance, and the services of the payments, for one chain      *)
(* after another, by calls that may overlap.                               *)
(*                                                                         *)
(* A method is the sequence of what it does between two awaits (a piece),  *)
(* and an action is one piece of one thread. A call is one thread, and one *)
(* more for every initialization that it runs in parallel with others.     *)
(***************************************************************************)
EXTENDS Integers, Sequences

CONSTANTS
    Calls,        \* calls that reach the core: a bound
    Chains,       \* governance chains of the configuration
    DefaultChain,
    UserMoves,    \* whether the user connects the wallet to other chains
    MaxListeners, \* how often the listeners subscribe: a bound
    None

ASSUME CoreAssumption ==
    DefaultChain \in Chains /\ None \notin Chains \cup Calls /\ MaxListeners \in Nat \ {0}

VARIABLES
    wallet,      \* the chain that the user's wallet is connected to
    modal,       \* the wallet that Web3Modal remembers
    provider,    \* BlockchainProvider.provider: the wallet, or a node of a chain by key
    metamask,    \* _isMetamask
    ready,       \* chains with an initializeProviderResult
    governanceProvider,
    governanceSigner,
    asker,       \* the thread that the next provider id goes to
    keyAsker,    \* the thread that the next private credentials go to
    chainOf,     \* the governance chain of the context, and of the initialized
                 \* context, None until it is made
    context,     \* which of the two ContextProvider holds
    registry,    \* RegistryRepository's contracts: their chain, and who calls them
    governance,  \* GovernanceRepository's
    names,       \* the chain that the addresses of the registry names are from
    account,     \* the context has had an account
    node,        \* the browser node, which is started once
    done,        \* initializeStatus: the chains that each kind is initialized for
    listeners,   \* how often the listeners of the payments are subscribed
    thread

blockchain == <<wallet, modal, provider, metamask, ready,
                governanceProvider, governanceSigner>>
asked == <<asker, keyAsker>>
contextVars == <<chainOf, context>>
contracts == <<registry, governance, names>>
payments == <<account, node, listeners>>
coreVars == <<blockchain, asked, contextVars, contracts, payments, done, thread>>

Kinds == {"registries", "governance", "payments"}
Threads == Calls \X (Kinds \cup {"call"})
Contexts == {"context", "initialized"}
Providers == Chains \cup {"wallet", None}
Contract == [chain : Chains, provider : Chains \cup {"main"}, signer : Providers]
Ends == {"none", "done", "error", "thrown"}

\* asked is the chain that the caller asks for, None if it leaves it out; g the
\* chain in question; captured the context it works on; outer and home the context
\* and the chain of initializePayments around initializeRegistries.
Idle == [left |-> <<>>, asked |-> None, g |-> DefaultChain, captured |-> "context",
         outer |-> "context", home |-> DefaultChain, ended |-> "none"]

CoreTypeOK ==
    /\ wallet \in Chains
    /\ modal \in {None, "injected", "walletconnect"}
    /\ provider \in Providers /\ metamask \in BOOLEAN /\ ready \subseteq Chains
    /\ governanceProvider \in Chains \cup {"main", None} /\ governanceSigner \in Providers
    /\ asker \in Threads \cup {None} /\ keyAsker \in Threads \cup {None}
    /\ chainOf \in [Contexts -> Chains \cup {None}] /\ chainOf[context] # None
    /\ registry \in Contract \cup {None} /\ governance \in Contract \cup {None}
    /\ names \in Chains \cup {None} 
    /\ account \in BOOLEAN /\ node \in {"none", "starting", "started", "failed"}
    /\ done \in [Kinds -> SUBSET Chains] /\ listeners \in 0..MaxListeners
    /\ \A t \in Threads : thread[t].left # <<>> => thread[t].ended = "none"

CoreInit ==
    /\ wallet \in Chains
    /\ modal \in {None, "injected"}
    /\ provider = None /\ metamask = FALSE /\ ready = {}
    /\ governanceProvider = None /\ governanceSigner = None
    /\ asker = None /\ keyAsker = None
    /\ chainOf = [x \in Contexts |-> IF x = "context" THEN DefaultChain ELSE None]
    /\ context = "context"
    /\ registry = None /\ governance = None /\ names = None
    /\ account = FALSE /\ node = "none" /\ done = [k \in Kinds |-> {}] /\ listeners = 0
    /\ thread = [t \in Threads |-> Idle]

-----------------------------------------------------------------------------
(* The methods. *)

\* (mutant) the context gets its chain before there is a provider for it
InitializeBlockchainProviderLate ==
    <<"provider", "choose", "context", "connect", "key", "main", "switch", "signer", "listen">>

InitializeBlockchainProvider ==
    <<"provider", "choose", "connect", "key", "main", "context", "switch", "signer", "listen">>

InitializeRegistries ==
    InitializeBlockchainProvider \o <<"registries", "names", "registriesDone">>
InitializeGovernance ==
    InitializeBlockchainProvider \o <<"governance", "governanceDone">>
InitializePayments ==
    InitializeBlockchainProvider \o <<"payments">> \o InitializeRegistries \o
    <<"accounts", "node", "ids", "listeners", "paymentsDone">>
Initialize == InitializeRegistries \o <<"forkRest", "join">>

\* Every kind that is initialized for some chain is initialized for this one.
InitializeForChainId == <<"forkDone", "join", "switch", "signer">>
SwitchProviderNetwork == <<"switch", "signer">>
CreateStateChannel == <<"initialized", "channel">>

RunOf(kind) ==
    [registries |-> InitializeRegistries, governance |-> InitializeGovernance,
     payments |-> InitializePayments][kind]

-----------------------------------------------------------------------------
(* The threads. *)

At(t, piece) == thread[t].left # <<>> /\ Head(thread[t].left) = piece
Chain == chainOf[context]

\* getProvider and its like throw if the chain of the context has no provider.
HasProvider == Chain \in ready
MainChain == IF provider = "wallet" THEN wallet ELSE provider

Ended(end) == [Idle EXCEPT !.ended = end]
GoOn(th) == IF Len(th.left) = 1 THEN Ended("done") ELSE [th EXCEPT !.left = Tail(@)]
SkipTo(th, piece) ==
    LET first == CHOOSE i \in DOMAIN th.left :
                     th.left[i] = piece /\ \A j \in 1..(i - 1) : th.left[j] # piece
    IN  [th EXCEPT !.left = SubSeq(@, first, Len(@))]

Becomes(t, th) == thread' = [thread EXCEPT ![t] = th]
Proceed(t) == Becomes(t, GoOn(thread[t]))

Begin(c, run, chain) ==
    Becomes(<<c, "call">>,
        [Idle EXCEPT !.left = run, !.asked = chain, !.g = IF chain = None THEN Chain ELSE chain])

\* What can go wrong by itself in a piece, and is returned as an error. A combine
\* turns an exception of one of its parts into an error as well.
MayFail == {"main", "governance", "accounts", "listeners", "channel"}
Fails(t) ==
    /\ \/ \E piece \in MayFail : At(t, piece)
       \/ \E piece \in {"listen", "registries", "governance"} : At(t, piece) /\ ~HasProvider
       \/ \E piece \in {"ids", "useNode"} : At(t, piece) /\ node = "failed"
    /\ Becomes(t, Ended("error"))
    /\ UNCHANGED <<blockchain, asked, contextVars, contracts, payments, done>>

-----------------------------------------------------------------------------
(* BlockchainProvider.initialize *)

\* There is a provider for the chain: it is used, and the signer of the main
\* provider with it, whatever chain that is connected to. Or the wallet is asked
\* for, if Web3Modal does not remember one; the answer goes to the last to ask.
GetProvider(t) ==
    LET g == IF thread[t].asked = None THEN Chain ELSE thread[t].asked
        th == [thread[t] EXCEPT !.g = g, !.captured = context]
    IN  /\ At(t, "provider")
        /\ IF g \in ready
           THEN /\ governanceProvider' = g /\ governanceSigner' = provider
                /\ Becomes(t, SkipTo(th, "context"))
                /\ UNCHANGED asker
           ELSE /\ Becomes(t, SkipTo(th, IF modal = None THEN "choose" ELSE "connect"))
                /\ asker' = IF modal = None THEN t ELSE asker
                /\ UNCHANGED <<governanceProvider, governanceSigner>>
        /\ UNCHANGED <<wallet, modal, provider, metamask, ready, keyAsker,
                       contextVars, contracts, payments, done>>

\* The user chooses a wallet. Only the first answer counts: nobody is asking then.
SupplyProviderId ==
    /\ asker # None /\ asker' = None
    /\ Becomes(asker, SkipTo(thread[asker], "connect"))
    /\ UNCHANGED <<blockchain, keyAsker, contextVars, contracts, payments, done>>

\* (mutant) nobody is asked for a key
AskForKeyOfNobody(t) ==
    /\ Becomes(t, SkipTo(thread[t], "key"))
    /\ UNCHANGED keyAsker

\* No wallet: a private key is asked for, and this answer, too, goes to the last.
AskForKey(t) ==
    /\ Becomes(t, SkipTo(thread[t], "key"))
    /\ keyAsker' = t

RejectProviderIdRequest ==
    /\ asker # None /\ asker' = None
    /\ AskForKey(asker)
    /\ UNCHANGED <<blockchain, contextVars, contracts, payments, done>>

Connect(t) ==
    /\ At(t, "connect")
    /\ \/ /\ modal' \in IF modal = None THEN {"injected", "walletconnect"} ELSE {modal}
          /\ provider' = "wallet" /\ metamask' = (modal' = "injected")
          /\ Becomes(t, SkipTo(thread[t], "main"))
          /\ UNCHANGED keyAsker
       \/ AskForKey(t) /\ UNCHANGED <<modal, provider, metamask>>
    /\ UNCHANGED <<wallet, ready, governanceProvider, governanceSigner,
                   asker, contextVars, contracts, payments, done>>

\* The provider of a key is a node of the context's chain.
SupplyPrivateCredentials ==
    /\ keyAsker # None /\ keyAsker' = None
    /\ provider' = Chain
    /\ Becomes(keyAsker, GoOn(thread[keyAsker]))
    /\ UNCHANGED <<wallet, modal, metamask, ready, governanceProvider,
                   governanceSigner, asker, contextVars, contracts, payments, done>>

\* The governance chain gets a provider of its own, and the signer of the main
\* provider if that is on the chain. Otherwise the signer stays what it was.
UseMainProvider(t) ==
    LET g == thread[t].g IN
    /\ At(t, "main")
    /\ governanceProvider' = g
    /\ governanceSigner' = IF MainChain = g THEN provider ELSE governanceSigner
    /\ ready' = ready \cup {g}
    /\ Proceed(t)
    /\ UNCHANGED <<wallet, modal, provider, metamask, asked, contextVars,
                   contracts, payments, done>>

-----------------------------------------------------------------------------
(* The rest of initializeBlockchainProvider. *)

SetChain(t) ==
    LET th == thread[t] IN
    /\ At(t, "context")
    /\ chainOf' = IF th.asked = None THEN chainOf
                  ELSE [chainOf EXCEPT ![th.captured] = th.asked]
    /\ context' = th.captured
    /\ Proceed(t)
    /\ UNCHANGED <<blockchain, asked, contracts, payments, done>>

\* Metamask is asked to switch. The user may agree, the call may succeed without
\* a switch (a network to be added that is known already), or it is refused.
\* Other wallets are not asked.
SwitchNetwork(t) ==
    LET th == thread[t] IN
    /\ At(t, "switch")
    /\ \/ ready = {} /\ Becomes(t, Ended("thrown")) /\ UNCHANGED wallet
       \/ ready # {} /\ (metamask => HasProvider) /\ Proceed(t) /\ UNCHANGED wallet
       \/ metamask /\ HasProvider /\ Proceed(t) /\ wallet' = th.g
       \/ metamask /\ Becomes(t, GoOn(GoOn(th))) /\ UNCHANGED wallet
    /\ UNCHANGED <<modal, provider, metamask, ready, governanceProvider, governanceSigner,
                   asked, contextVars, contracts, payments, done>>

\* The wallet has to be on the chain, and to say so.
SetGovernanceSigner(t) ==
    /\ At(t, "signer")
    /\ \/ /\ MainChain = thread[t].g
          /\ governanceProvider' = "main" /\ governanceSigner' = provider
       \/ UNCHANGED <<governanceProvider, governanceSigner>>
    /\ Proceed(t)
    /\ UNCHANGED <<wallet, modal, provider, metamask, ready, asked,
                   contextVars, contracts, payments, done>>

\* BlockchainListener: of the events, only that it needs the provider.
Listen(t) ==
    /\ At(t, "listen") /\ HasProvider
    /\ Proceed(t)
    /\ UNCHANGED <<blockchain, asked, contextVars, contracts, payments, done>>

WalletMoves ==
    /\ UserMoves /\ wallet' \in Chains \ {wallet}
    /\ UNCHANGED <<modal, provider, metamask, ready, governanceProvider, governanceSigner,
                   asked, contextVars, contracts, payments, done, thread>>

-----------------------------------------------------------------------------
(* The kinds. *)

\* The contracts at the addresses of the context's chain, for reading through the
\* provider, and then for writing through the signer if there is one.
ContractsNow == [chain |-> Chain, provider |-> governanceProvider, signer |-> governanceSigner]

\* (mutant) the contracts are made once
MakeRegistryContractsOnce(t) ==
    /\ At(t, "registries") /\ HasProvider
    /\ registry' = IF registry = None THEN ContractsNow ELSE registry
    /\ Becomes(t, GoOn([thread[t] EXCEPT !.captured = context, !.g = Chain]))
    /\ UNCHANGED <<blockchain, asked, contextVars, governance, names, payments, done>>

MakeRegistryContracts(t) ==
    /\ At(t, "registries") /\ HasProvider
    /\ registry' = ContractsNow
    /\ Becomes(t, GoOn([thread[t] EXCEPT !.captured = context, !.g = Chain]))
    /\ UNCHANGED <<blockchain, asked, contextVars, governance, names, payments, done>>

\* The addresses of the names are read once, for the chain of that time. The token
\* information waits for them, so that a call which fails to read them does not
\* return before another one has.
ReadNames(t) ==
    /\ At(t, "names")
    /\ \/ names # None /\ Proceed(t) /\ UNCHANGED names
       \/ names = None /\ names' = thread[t].g /\ Proceed(t)
       \/ /\ names = None /\ UNCHANGED names
          /\ Becomes(t, [thread[t] EXCEPT !.left = <<"waitForNames">>])
    /\ UNCHANGED <<blockchain, asked, contextVars, registry, governance, payments, done>>
WaitForNames(t) ==
    /\ At(t, "waitForNames") /\ names # None
    /\ Becomes(t, Ended("error"))
    /\ UNCHANGED <<blockchain, asked, contextVars, contracts, payments, done>>

\* (mutant) the chain that was asked for, which may be none
RegistriesDoneAsAsked(t) ==
    /\ At(t, "registriesDone")
    /\ done' = [done EXCEPT !["registries"] = @ \cup {thread[t].asked}]
    /\ context' = thread[t].captured
    /\ Proceed(t)
    /\ UNCHANGED <<blockchain, asked, chainOf, contracts, payments>>

RegistriesDone(t) ==
    LET th == thread[t] IN
    /\ At(t, "registriesDone")
    /\ done' = [done EXCEPT !["registries"] =
                   @ \cup {IF th.asked = None THEN chainOf[th.captured] ELSE th.asked}]
    /\ context' = th.captured
    /\ Proceed(t)
    /\ UNCHANGED <<blockchain, asked, chainOf, contracts, payments>>

MakeGovernanceContracts(t) ==
    LET th == thread[t] IN
    /\ At(t, "governance") /\ HasProvider
    /\ governance' = ContractsNow
    /\ Becomes(t, GoOn([th EXCEPT !.g =
                      IF th.asked = None THEN chainOf[th.captured] ELSE th.asked]))
    /\ UNCHANGED <<blockchain, asked, contextVars, registry, names, payments, done>>
GovernanceDone(t) ==
    /\ At(t, "governanceDone")
    /\ done' = [done EXCEPT !["governance"] = @ \cup {thread[t].g}]
    /\ context' = thread[t].captured
    /\ Proceed(t)
    /\ UNCHANGED <<blockchain, asked, chainOf, contracts, payments>>

PaymentsBegin(t) ==
    LET th == thread[t] IN
    /\ At(t, "payments")
    /\ Becomes(t, GoOn([th EXCEPT !.outer = th.captured,
           !.home = IF th.asked = None THEN chainOf[th.captured] ELSE th.asked]))
    /\ UNCHANGED <<blockchain, asked, contextVars, contracts, payments, done>>
GetAccounts(t) ==
    /\ At(t, "accounts")
    /\ account' = TRUE
    /\ context' = thread[t].outer
    /\ Proceed(t)
    /\ UNCHANGED <<blockchain, asked, chainOf, contracts, node, listeners, done>>

\* The browser node is started by whoever needs it first. It needs the provider
\* then, and waits for an account; a failure is kept for everyone.
StartNode(t) ==
    /\ At(t, "node")
    /\ node' = IF node # "none" THEN node ELSE IF HasProvider THEN "starting" ELSE "failed"
    /\ Proceed(t)
    /\ UNCHANGED <<blockchain, asked, contextVars, contracts, account, listeners, done>>
NodeStarts ==
    /\ node = "starting" /\ account
    /\ node' \in {"started", "failed"}
    /\ UNCHANGED <<blockchain, asked, contextVars, contracts, account, listeners, done, thread>>

\* With the identifier and the channels the context is initialized: a copy of it
\* is made, once.
GetIdentifier(t) ==
    /\ At(t, "ids") /\ node = "started"
    /\ context' = thread[t].outer
    /\ chainOf' = IF chainOf["initialized"] # None THEN chainOf
                  ELSE [chainOf EXCEPT !["initialized"] = chainOf[thread[t].outer]]
    /\ Proceed(t)
    /\ UNCHANGED <<blockchain, asked, contracts, payments, done>>

\* The listeners subscribe every time.
Subscribe(t) ==
    /\ At(t, "listeners")
    /\ listeners' = IF listeners < MaxListeners THEN listeners + 1 ELSE listeners
    /\ Proceed(t)
    /\ UNCHANGED <<blockchain, asked, contextVars, contracts, account, node, done>>
PaymentsDone(t) ==
    /\ At(t, "paymentsDone")
    /\ done' = [done EXCEPT !["payments"] = @ \cup {thread[t].home}]
    /\ context' = thread[t].outer
    /\ Proceed(t)
    /\ UNCHANGED <<blockchain, asked, chainOf, contracts, payments>>

-----------------------------------------------------------------------------
(* Initializations in parallel, and the other methods. *)

Fork(t, kinds) ==
    LET c == t[1] IN
    thread' = [u \in Threads |->
        CASE u = t -> GoOn(thread[t])
          [] u[1] = c /\ u[2] \in kinds ->
                 [Idle EXCEPT !.left = RunOf(u[2]), !.asked = thread[t].asked]
          [] OTHER -> thread[u]]
ForkRest(t) ==
    /\ At(t, "forkRest") /\ Fork(t, {"governance", "payments"})
    /\ UNCHANGED <<blockchain, asked, contextVars, contracts, payments, done>>
ForkDone(t) ==
    /\ At(t, "forkDone") /\ Fork(t, {k \in Kinds : done[k] # {}})
    /\ UNCHANGED <<blockchain, asked, contextVars, contracts, payments, done>>

\* All are waited for, and an error of one is the error of the call.
Join(t) ==
    LET parts == {u \in Threads : u[1] = t[1] /\ u # t} IN
    /\ At(t, "join")
    /\ \A u \in parts : thread[u].left = <<>>
    /\ thread' = [u \in Threads |->
           CASE u \in parts -> Idle
             [] u = t -> IF \E v \in parts : thread[v].ended = "error"
                         THEN Ended("error") ELSE GoOn(thread[t])
             [] OTHER -> thread[u]]
    /\ UNCHANGED <<blockchain, asked, contextVars, contracts, payments, done>>

WaitInitialized(t) ==
    /\ At(t, "initialized") /\ chainOf["initialized"] # None
    /\ Proceed(t)
    /\ UNCHANGED <<blockchain, asked, contextVars, contracts, payments, done>>

\* The channel is put into the initialized context, which becomes the context,
\* unless there is one with the router already.
AddChannel(t) ==
    /\ At(t, "channel")
    /\ context' \in {"initialized", context}
    /\ Proceed(t)
    /\ UNCHANGED <<blockchain, asked, chainOf, contracts, payments, done>>

\* A promise of each kind and chain; waitInitialized takes the first of any kind.
WaitFor(t, piece, kinds) ==
    /\ At(t, piece) /\ \E k \in kinds : thread[t].g \in done[k]
    /\ Proceed(t)
    /\ UNCHANGED <<blockchain, asked, contextVars, contracts, payments, done>>

\* A method that uses the contracts or the provider throws if they are not there.
Use(t, piece, there) ==
    /\ At(t, piece)
    /\ \/ there /\ \E end \in {"done", "error"} : Becomes(t, Ended(end))
       \/ ~there /\ Becomes(t, Ended("thrown"))
    /\ UNCHANGED <<blockchain, asked, contextVars, contracts, payments, done>>

Other(t) ==
    \/ WaitFor(t, "waitAny", Kinds)
    \/ WaitFor(t, "waitRegistries", {"registries"})
    \/ WaitFor(t, "waitGovernance", {"governance"})
    \/ WaitFor(t, "waitPayments", {"payments"})
    \/ Use(t, "useRegistry", registry # None)
    \/ Use(t, "useGovernance", governance # None)
    \/ Use(t, "useProvider", HasProvider)
    \/ node = "started" /\ Use(t, "useNode", TRUE)
    \/ names # None /\ Use(t, "useNames", TRUE)
    \/ Use(t, "useGateways", listeners > 0)
    \/ Use(t, "throw", FALSE)
    \/ Use(t, "answer", TRUE)

Step(t) ==
    \/ GetProvider(t) \/ Connect(t) \/ UseMainProvider(t) \/ SetChain(t) \/ SwitchNetwork(t)
    \/ SetGovernanceSigner(t) \/ Listen(t) \/ MakeRegistryContracts(t) \/ ReadNames(t)
    \/ WaitForNames(t) \/ RegistriesDone(t) \/ MakeGovernanceContracts(t) \/ GovernanceDone(t)
    \/ PaymentsBegin(t) \/ GetAccounts(t) \/ StartNode(t) \/ GetIdentifier(t) \/ Subscribe(t) \/ PaymentsDone(t)
    \/ ForkRest(t) \/ ForkDone(t) \/ Join(t) \/ WaitInitialized(t) \/ AddChannel(t)
    \/ Other(t) \/ Fails(t)

=============================================================================
