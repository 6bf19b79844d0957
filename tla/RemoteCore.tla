----------------------------- MODULE RemoteCore -----------------------------
(***************************************************************************)
(* The core in its iframe, and the page that uses it: HypernetIFrameProxy  *)
(* posts a message for each method, CoreListener calls the core for it and *)
(* posts the result, with the id of the call, and some events of the core. *)
(* The messages of a frame arrive in the order in which they were posted.  *)
(***************************************************************************)
EXTENDS CoreStartup

\* What the page does is a bound: for each call the methods that it may be, with a
\* chain or None, and the calls that it waits for before.
CONSTANT Scenes

ASSUME ScenesAssumption ==
    \A s \in Scenes, c \in Calls : s[c].asks \subseteq STRING \X (Chains \cup {None})

VARIABLES
    scene,
    active,      \* the handshake of the proxy: "no", "yes", "failed"
    page,        \* the calls as the page sees them
    toCore,      \* messages on the way to the core
    toPage,      \* results on the way to the page
    flags,       \* what the page has heard to be initialized, of the default chain
    overlapped   \* calls that were not alone in the core (history)

frameVars == <<scene, active, page, toCore, toPage, flags, overlapped>>
vars == <<coreVars, frameVars>>

-----------------------------------------------------------------------------
(* The methods of the core, by what they need. *)

Initializers == {"initialize", "initializeRegistries", "initializeGovernance",
                 "initializePayments", "initializeForChainId"}
Waits == {"waitInitialized", "waitRegistriesInitialized", "waitGovernanceInitialized",
          "waitPaymentsInitialized"}

\* Those that wait for the initialized context, or for the browser node.
ContextCalls == {"getPublicIdentifier", "getActiveStateChannels", "withdrawFunds",
    "mintTestToken", "authorizeGateway"}
NodeCalls == {"getBalances", "depositFunds", "getLinks", "getActiveLinks", "acceptOffer",
    "pullFunds", "repairPayments"}

\* Those that need the authorized gateways to be activated, or throw.
GatewayCalls == {"deauthorizeGateway", "getGatewayTokenInfo", "closeGatewayIFrame",
    "getAuthorizedGatewaysConnectorsStatus", "displayGatewayIFrame"}
NotWritten == {"finalizePullPayment", "getGatewayRegistrationInfo"}

GovernanceCalls == {"getProposals", "createProposal", "delegateVote", "getProposalDetails",
    "castVote", "getProposalVotesReceipt", "getProposalsCount", "getProposalThreshold",
    "getVotingPower", "getHyperTokenBalance", "queueProposal", "cancelProposal",
    "executeProposal"}

RegistryReads == {"getRegistries", "getRegistryByName", "getRegistryByAddress",
    "getRegistryEntriesTotalCount", "getRegistryEntries", "getRegistryEntryDetailByTokenId",
    "updateRegistryEntryTokenURI", "updateRegistryEntryLabel", "getNumberOfRegistries",
    "updateRegistryParams", "createRegistryEntry", "transferRegistryEntry"}
RegistryWrites == {"burnRegistryEntry", "createRegistryByToken", "grantRegistrarRole",
    "revokeRegistrarRole", "renounceRegistrarRole", "getRegistryEntryByOwnerAddress",
    "getRegistryModules", "createBatchRegistryEntry", "getRegistryEntryListByOwnerAddress",
    "getRegistryEntryListByUsername", "submitLazyMintSignature",
    "retrieveLazyMintingSignatures", "executeLazyMint", "revokeLazyMintSignature"}
RegistryCalls == RegistryReads \cup RegistryWrites

ProviderCalls == {"getBlockNumber", "getEthereumAccounts"}

\* Here it is the thread of the core that runs.
Run(m) ==
    CASE m = "initialize" -> Initialize
      [] m = "initializeRegistries" -> InitializeRegistries
      [] m = "initializeGovernance" -> InitializeGovernance
      [] m = "initializePayments" -> InitializePayments
      [] m = "initializeForChainId" -> InitializeForChainId
      [] m = "switchProviderNetwork" -> SwitchProviderNetwork
      [] m = "createStateChannel" -> CreateStateChannel
      [] m = "waitInitialized" -> <<"waitAny">>
      [] m = "waitRegistriesInitialized" -> <<"waitRegistries">>
      [] m = "waitGovernanceInitialized" -> <<"waitGovernance">>
      [] m = "waitPaymentsInitialized" -> <<"waitPayments">>
      [] m \in ContextCalls -> <<"initialized", "answer">>
      [] m \in NodeCalls -> <<"node", "useNode">>
      [] m \in GatewayCalls -> <<"useGateways">>
      [] m \in NotWritten -> <<"throw">>
      [] m = "getGatewayEntryList" -> <<"useNames">>
      [] m \in RegistryCalls -> <<"useRegistry">>
      [] m \in GovernanceCalls -> <<"useGovernance">>
      [] m \in ProviderCalls -> <<"useProvider">>
      [] OTHER -> <<"answer">>

-----------------------------------------------------------------------------
(* The messages. *)

\* What the page sends, by the parts of the proxy, and what the core listens for.
PageMethods == {"initialized", "waitInitialized", "getEthereumAccounts", "initialize",
    "getInitializationStatus", "providePrivateCredentials", "getBlockNumber",
    "provideProviderId", "rejectProviderIdRequest", "retrieveChainInformationList",
    "retrieveGovernanceChainInformation", "initializeForChainId", "switchProviderNetwork",
    "getMainProviderChainId"}
PagePayments == {"paymentsInitialized", "waitPaymentsInitialized", "initializePayments",
    "getPublicIdentifier", "getActiveStateChannels", "createStateChannel", "depositFunds",
    "withdrawFunds", "getBalances", "getLinks", "getActiveLinks", "acceptOffer", "pullFunds"}
PageGateways == {"repairPayments", "mintTestToken", "authorizeGateway", "deauthorizeGateway",
    "getAuthorizedGateways", "getAuthorizedGatewaysConnectorsStatus", "getGatewayTokenInfo",
    "getGatewayRegistrationInfo", "getGatewayEntryList", "getTokenInformation",
    "getTokenInformationForChain", "getTokenInformationByAddress", "displayGatewayIFrame",
    "closeGatewayIFrame"}
PageGovernance == GovernanceCalls \cup {"governanceInitialized", "waitGovernanceInitialized",
    "initializeGovernance", "getProposalDescription"}
PageRegistries == RegistryReads \cup {"registriesInitialized", "waitRegistriesInitialized",
    "initializeRegistries"}
PageRegistryWrites == RegistryWrites
Sent == PageMethods \cup PagePayments \cup PageGateways \cup PageGovernance \cup
        PageRegistries \cup PageRegistryWrites

\* Handlers that answer, and handlers that do not.
HandledPayments == Waits \cup {"initialize", "initializeRegistries", "initializeGovernance",
    "initializePayments", "getInitializationStatus", "getEthereumAccounts",
    "getPublicIdentifier", "getActiveStateChannels", "createStateChannel", "depositFunds",
    "withdrawFunds", "getBalances", "getLinks", "getActiveLinks", "acceptOffer",
    "repairPayments", "authorizeGateway", "deauthorizeGateway"}
HandledRest == {"mintTestToken", "getAuthorizedGateways", "getGatewayTokenInfo",
    "getAuthorizedGatewaysConnectorsStatus", "getGatewayRegistrationInfo",
    "getGatewayEntryList", "providePrivateCredentials", "provideProviderId",
    "rejectProviderIdRequest", "getTokenInformation", "getTokenInformationForChain",
    "getTokenInformationByAddress", "getBlockNumber", "retrieveChainInformationList",
    "retrieveGovernanceChainInformation", "initializeForChainId", "switchProviderNetwork",
    "getMainProviderChainId", "getProposalDescription"}
HandledContracts == GovernanceCalls \cup RegistryCalls
Handled == HandledPayments \cup HandledRest \cup HandledContracts
Silent == {"closeGatewayIFrame", "displayGatewayIFrame"}

KindOf == [waitInitialized |-> "any", waitRegistriesInitialized |-> "registries",
           waitGovernanceInitialized |-> "governance", waitPaymentsInitialized |-> "payments"]

NoCall == [method |-> "none", chain |-> None, state |-> "none"]
States == {"none", "sent", "inCore", "local", "done", "error"}

TypeOK ==
    /\ CoreTypeOK
    /\ active \in {"no", "yes", "failed"} /\ flags \subseteq Kinds \cup {"any"}
    /\ \A c \in Calls : page[c].chain \in Chains \cup {None} /\ page[c].state \in States
    /\ overlapped \subseteq Calls

Init ==
    /\ CoreInit
    /\ scene \in Scenes /\ active = "no" /\ page = [c \in Calls |-> NoCall]
    /\ toCore = <<>> /\ toPage = <<>> /\ flags = {} /\ overlapped = {}

Activate ==
    /\ active = "no" /\ active' \in {"yes", "failed"}
    /\ UNCHANGED <<coreVars, scene, page, toCore, toPage, flags, overlapped>>

\* A wait for what has not been heard of waits for the event, which is about the
\* default chain. Before the handshake a call is an error, and nothing initialized.
Call(c, m, chain) ==
    LET local == m \in Waits /\ KindOf[m] \notin flags
        state == IF local THEN "local"
                 ELSE IF active = "yes" THEN "sent"
                 ELSE IF m = "initialized" THEN "done" ELSE "error"
    IN  /\ page[c].state = "none"
        /\ \A d \in scene[c].after : page[d].state \in {"done", "error"}
        /\ page' = [page EXCEPT ![c] = [method |-> m, chain |-> chain, state |-> state]]
        /\ toCore' = IF state = "sent" THEN Append(toCore, c) ELSE toCore
        /\ UNCHANGED <<coreVars, scene, active, toPage, flags, overlapped>>

\* The calls that run in the core.
Running == {c \in Calls : \E t \in Threads :
                t[1] = c /\ (thread[t].left # <<>> \/ thread[t].ended # "none")}

\* waitInitialized drops the chain. A message without a handler is dropped.
Receive ==
    LET c == Head(toCore)
        m == page[c].method
        chain == IF m = "waitInitialized" THEN None ELSE page[c].chain
    IN  /\ toCore # <<>>
        /\ toCore' = Tail(toCore)
        /\ page' = [page EXCEPT ![c].state = "inCore"]
        /\ IF m \in Handled \cup Silent
           THEN /\ Begin(c, Run(m), chain)
                /\ overlapped' = IF Running = {} THEN overlapped
                                 ELSE overlapped \cup Running \cup {c}
           ELSE UNCHANGED <<thread, overlapped>>
        /\ UNCHANGED <<blockchain, asked, contextVars, contracts, payments, done,
                       scene, active, toPage, flags>>

\* returnForModel: an exception is not answered.
Reply(c) ==
    LET end == thread[<<c, "call">>].ended IN
    /\ end # "none"
    /\ thread' = [thread EXCEPT ![<<c, "call">>] = Idle]
    /\ toPage' = IF end = "thrown" \/ page[c].method \in Silent THEN toPage
                 ELSE Append(toPage, [call |-> c, end |-> end])
    /\ UNCHANGED <<blockchain, asked, contextVars, contracts, payments, done,
                   scene, active, page, toCore, flags, overlapped>>

\* onModelActivated: the core tells when it is initialized for the default chain,
\* in the order of the answers; the calls that wait for that are over.
Events ==
    LET new == {k \in Kinds : DefaultChain \in done'[k] \ done[k]}
        first == \A k \in Kinds : DefaultChain \notin done[k]
        event(kind) == [call |-> None, end |-> kind]
    IN  IF new = {} THEN <<>>
        ELSE <<event(CHOOSE k \in new : TRUE)>> \o (IF first THEN <<event("any")>> ELSE <<>>)

Settle ==
    LET message == Head(toPage) IN
    /\ toPage # <<>>
    /\ toPage' = Tail(toPage)
    /\ IF message.call # None
       THEN page' = [page EXCEPT ![message.call].state = message.end] /\ UNCHANGED flags
       ELSE /\ flags' = flags \cup {message.end}
            /\ page' = [c \in Calls |->
                   IF page[c].state = "local" /\ KindOf[page[c].method] = message.end
                   THEN [page[c] EXCEPT !.state = "done"] ELSE page[c]]
    /\ UNCHANGED <<coreVars, scene, active, toCore, overlapped>>

\* Its step, with what it tells the page.
InCore(step) ==
    /\ step
    /\ toPage' = toPage \o Events
    /\ UNCHANGED <<scene, active, page, toCore, flags, overlapped>>

Answers == SupplyProviderId \/ RejectProviderIdRequest \/ SupplyPrivateCredentials

Next ==
    \/ Activate
    \/ \E c \in Calls : \E ask \in scene[c].asks : Call(c, ask[1], ask[2])
    \/ Receive \/ (\E c \in Calls : Reply(c)) \/ Settle
    \/ InCore(WalletMoves) \/ InCore(Answers) \/ InCore(NodeStarts)
    \/ \E t \in Threads : InCore(Step(t))

Spec == Init /\ [][Next]_vars

\* The pieces and the messages come, and the user answers what is asked. One
\* condition is enough: there are only so many calls, of so many pieces.
Progress == WF_vars(
    \/ Receive \/ Settle \/ (\E c \in Calls : Reply(c))
    \/ InCore(Answers) \/ InCore(NodeStarts) \/ \E t \in Threads : InCore(Step(t)))
FairSpec == Spec /\ Progress

-----------------------------------------------------------------------------
(* Properties. *)

\* Whatever calls overlap, a thread that has got past the start of its provider
\* finds one for the chain of the context: getProvider() and its like do not throw
\* "Initialization unsuccessful, you should not have called getProvider()".
ProviderIsThere ==
    \A t \in Threads, piece \in {"listen", "registries", "governance", "accounts", "listeners"} :
        At(t, piece) => HasProvider

\* An initialization that was alone in the core and succeeded leaves the context
\* and its contracts at its chain, and the contracts read from that chain or have
\* the wallet's signer, whatever was initialized before it for whatever chain.
AloneInitializes ==
    \A c \in Calls :
        LET m == page[c].method
            chain == IF page[c].chain = None THEN Chain ELSE page[c].chain
            Made(contract) == /\ contract.chain = chain
                              /\ contract.provider \in {chain, "main"}
        IN  m \in Initializers /\ c \notin overlapped
            /\ thread[<<c, "call">>].ended = "done" =>
                /\ (m = "initializeForChainId" => \E k \in Kinds : done[k] # {}) => Chain = chain
                /\ m = "initializeForChainId" => \A k \in Kinds : done[k] # {} => chain \in done[k]
                /\ m \in {"initialize", "initializeRegistries", "initializePayments"} =>
                       chain \in done["registries"] /\ Made(registry)
                /\ m \in {"initialize", "initializeGovernance"} =>
                       chain \in done["governance"] /\ Made(governance)
                /\ m \in {"initialize", "initializePayments"} =>
                       chain \in done["payments"] /\ chainOf["initialized"] # None

\* An initialization that is alone in the core is answered, if the user answers
\* what is asked, also with a refusal: with the result, or with an error. It hangs
\* only if the addresses of the registry names cannot be read. (Of those that
\* overlap, only the last to ask gets the user's answer, and initializeForChainId
\* overlaps with itself.)
AnswersCome ==
    \A c \in Calls :
        page[c].state = "inCore" /\ page[c].method \in Initializers \ {"initializeForChainId"}
        ~> \/ page[c].state \in {"done", "error"} \/ c \in overlapped
           \/ \E t \in Threads : t[1] = c /\ At(t, "waitForNames")

\* Refuted. BlockchainProvider says of a main provider that is not on the governance
\* chain that a signer will not be available: contracts are only made for writing
\* through the wallet when the wallet is on their chain.
WritesReachTheChain ==
    [][\A contract \in {registry', governance'} \ {registry, governance, None} :
           contract.signer = "wallet" => contract.chain = wallet]_vars
=============================================================================
