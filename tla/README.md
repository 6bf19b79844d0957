# A specification of the Hypernet Protocol

Hypernet pays through [Vector](https://github.com/connext/vector) state channels.
A *push payment* goes from a sender to a receiver and is supervised by a
*gateway*: the receiver puts up a stake (the insurance) that the gateway may
award to the sender. The two ends are browsers that run the same program,
`hypernet-core`; there is no server that keeps the state of a payment. The state
of a payment is *derived*, by each end for itself, from the Vector transfers that
carry the payment's id, and each end moves the payment on from the events of its
own channel. Around the payments there are the connectors of the gateways (code that
the user signs and that runs in an iframe of its own), the core's own startup
behind the iframe that a page puts it in, its state channels, and the registries,
contracts in which gateways, routers and users are listed.

Nearly all of it is chains of promises in one thread: anything may happen between
two awaits. Whether that is safe when events are late, calls overlap, writes
fail, and pages are loaded again is what this project is about.

Paths below are relative to `src/packages/hypernet-core/src/implementations/`
unless they start with `src/`.

## 1. Inventory

| Part | State | Operations | Interacts with | Module |
| --- | --- | --- | --- | --- |
| `business/PaymentService.ts` | none of its own | `sendFunds`, `acceptOffer`, `stakePosted`, `paymentPosted`, `paymentCompleted`, `offerResolved`, `insuranceResolved`, `advancePayments`, `resolveInsurance`, `repairPayments`; `authorizeFunds`, `pullFunds` | the repository below; the gateway's proxy | PaymentProtocol, TimedPayments |
| `data/PaymentRepository.ts` | `reservedPaymentMap` (in memory) | `getPaymentsByIds`, `createPushPayment`, `createPullPayment`, `createPullRecord`, `provideStake`, `provideAsset`, `acceptPayment`, `resolveInsurance`, `finalizePayment` | Vector node | PaymentProtocol, TimedPayments |
| `utilities/PaymentUtils.ts`, `utilities/VectorUtils.ts` | none | transfers to payment and state; create, resolve and cancel transfers | Vector node | PaymentTransfers, PaymentProtocol, TimedPayments |
| `utilities/BlockchainTimeUtils.ts` | time of the last block and of the last look | `getBlockchainTimestamp` | blockchain | TimedPayments |
| `api/VectorAPIListener.ts` | none | turns "transfer created/resolved" into a handler of PaymentService | Vector node | PaymentProtocol |
| Vector node and router (external) | transfers, one channel per party and router | create, forward, resolve, settle, set up, restore | both cores, transfer definitions | PaymentProtocol, StateChannels |
| transfer definitions (`src/packages/development/eth-provider/transferDefinitions`) | none (pure checks) | `create`, `resolve` | Vector node | PaymentTransfers, TimedPayments |
| `business/GatewayConnectorService.ts`, `data/GatewayConnectorRepository.ts`, `utilities/GatewayConnectorProxy.ts`, `src/packages/gateway-iframe` | authorized gateways (stored), proxies, cached activations, calls in progress | authorize, deauthorize, activate, validate, `ensureStateChannel` | storage, the wallet | GatewayConnectors, StateChannels |
| `api/GatewayConnectorListener.ts` | none | the gateway's requests; advances payments on activation | PaymentService | PaymentProtocol, TimedPayments |
| `HypernetCore.ts`, `utilities/ContextProvider.ts`, `utilities/BlockchainProvider.ts`, `utilities/BrowserNodeProvider.ts`, `data/utilities/RegistryUtils.ts` | contexts, providers and signers, what is initialized for which chain | `initialize`, `initializeRegistries`, `initializeGovernance`, `initializePayments`, the waits | all of the core | CoreStartup |
| `src/packages/iframe`, `src/packages/web-integration` | handshake, calls that wait, what the page heard | a remote call for each method | the core | RemoteCore |
| `business/AccountService.ts`, `data/AccountsRepository.ts`, `data/RouterRepository.ts` | list of channels (in the context), active routers (stored), asset info | create, deposit, withdraw, balances | Vector node, wallet | StateChannels |
| `data/RegistryRepository.ts`, `business/RegistryService.ts`, `src/packages/governance-sdk` | contract objects in fields, lazy signatures (stored) | read and write registries and entries | registries | RegistryClient |
| registries, factory, modules (`src/packages/contracts/contracts`) | on chain: owners, labels, stakes, roles | register, transfer, burn, buy, mint lazily, redeem | each other | Registries |
| `business/ControlService.ts`, `data/NatsMessagingRepository.ts` | `inControl`, last claim, timers | claim and yield control | not reachable at this commit | none |
| governor, hypertoken, vesting; `data/GovernanceRepository.ts` | on chain | vote, claim | | none |
| `src/packages/utils/src/ResultUtils.ts` | none | combine, race, serialise and retry results | everything | none |
| links, user interfaces, objects, development tools | none of interest | views | | none |

What makes each correct, in one line:

* **push payments**: the receiver takes a payment once, only while it is insured;
  the sender funds only what is staked as offered, and releases the insurance
  once and only after the money was taken; nothing stays locked for ever;
* **time and rates**: a push payment can be taken whole until it expires; what is pulled of
  another one is never more than has vested (this does not hold, section 3);
* **connectors**: only code that the user signed runs, one iframe per gateway, an
  authorization that was taken back is gone, startup ends;
* **the core**: a call that is alone gets an answer and finds what it needs, for the
  chain that it asked for;
* **channels**: what was deposited is counted, a channel that was set up is listed, calls end;
* **registries**: labels, names and ids are unique, stakes are backed and go with their
  token, which moves or is burned by its owner, someone that the owner approved, or a
  registrar, who may always do so;
* **their client**: an operation writes where it should, and only success is reported
  as success.

The hard behaviours are listed with their lines in `PROJECT.json` ("hazards").

## 2. What is modelled

| Module | Contents |
| --- | --- |
| `PaymentTransfers.tla` | pure operators: from a set of transfers to an `EPaymentState` (`GetPaymentState`), validity, the transfers a recovery cancels, and what the transfer contracts accept |
| `PaymentProtocol.tla` | the cores, their handlers, the channels and the router; all properties of push payments |
| `EscrowedPayment.tla` | the abstract specification: offered, insured, funded, taken, released, closed, each once and in this order |
| `TimedPayments.tla` | one payment, push or pull, with dates, rates, clocks, blocks and the cached time of the chain |
| `GatewayConnectors.tla` | authorizing, activating, looking up and deauthorizing connectors; the iframe at the other end |
| `StateChannels.tla` | setting up, funding, emptying and reporting channels |
| `CoreStartup.tla` | initialization of the core: providers, contexts, contracts, services |
| `RemoteCore.tla` | composes `CoreStartup` with the page's proxy and the listener in the iframe |
| `Registries.tla` | the contracts of registries, factory and modules |
| `RegistryClient.tla` | the core's repository of registries, with its shared contract objects |
| `MC_*.tla` | instances for TLC, and what is only meant for TLC |
| `PaymentProtocol_proofs.tla`, `TimedPayments_proofs.tla`, `GatewayConnectors_proofs.tla`, `StateChannels_proofs.tla`, `Registries_proofs.tla`, `RegistryClient_proofs.tla`, `RemoteCore_proofs.tla` | the proofs about each of them, section 4 |
| `SumLemmas.tla` | sums over finite sets: what a change of one term does to them, section 4 |

`PaymentProtocol` sees of the connectors only whether a core's proxy is there and
activated (`gateway`), which is what `GatewayConnectors` produces; of the balances
free amounts; of time nothing, which is `TimedPayments`. `RemoteCore` takes over the whole
of `CoreStartup` and adds the messages.

## 2.1 Push payments (`PaymentProtocol`)

### State

* `transfers` is the sequence of all Vector transfers, oldest first; `at[c]` is the
  transfer's status in the channel of core `c`. "Unseen" is not a state of the
  code: the router has not brought the transfer to that channel. The index of
  a transfer stands for `meta.createdAt` (clocks agree, no two are equal).
* `free` is the balance a core can still commit, in the payment token and in
  the hypertoken it stakes (two different assets).
* `unread`, `staking`, `funding`, `tasks` are the handlers that run. A handler is a
  chain of promises and anything may happen between two awaits, so it is split
  where the code reads state and later acts on it:

| Stage | Code | Next |
| --- | --- | --- |
| `unread[c][p]` | an event of `VectorAPIListener` (50-217), or `advancePayments`, has to read the payment | `Read`: becomes one of those below, or nothing |
| `funding[p]` | the sender saw Staked and will `provideAsset` | `ProvideAsset`, or `DelayAsset` while the connector is inactive |
| `staking[p]` | `acceptOffer` passed its checks and will `provideStake` | `ProvideStake` |
| "approve" | the receiver saw Approved | `AcceptPayment` reads again, then "take" |
| "take", "finalize", "release" | a transfer is chosen, to be resolved | `ResolveTransfer` |
| "recover", "repair" | what a recovery cancels, in the order of the code | `Cancel`, one transfer at a time |

  Handlers of `unread`, `staking` and `funding` are counted, since two of them have
  two effects. A second "approve", "take", ... with the same contents has none the
  first does not have, and `tasks` is a set.
* `gateway[c]` is the payments' gateway connector at core `c`: "pending" (no proxy,
  and `getGatewayProxy` makes a handler wait), "inactive" (payments are delayed),
  "active".
* `reserved` is `reservedPaymentMap`; `sends`, `accepts`, `used` count towards bounds.

### Actions

Each action names its function in a comment, and `PROJECT.json` ("map") gives the
lines of every definition. Points a reader may want to know:

* `Snapshot` is what `getPaymentsByIds` sees: the active transfers and those created
  since the oldest active one (`getTransfers(earliestDate, now)`); what ended
  before is *not* there. The model reads active transfers and the others at one
  moment; the code asks the node twice.
* `Read` merges an event with the first reading that its handler makes. The event
  can wait as long as it likes, so nothing is lost by it.
* The order in which the node lists transfers is not specified, and
  `PaymentUtils.getFirstTransfer` sorts by date for that reason. Where the code
  takes `[0]` without sorting (`acceptPayment`, `finalizePayment`), the model takes any.
* `Cancel` models the cancels of `_recoverPayment`: those of one kind run together,
  the next kind follows only if all succeeded (`ResultUtils.combine`).
* `Forward`, `Settle` and `Return` are the router: it carries a transfer to the
  responder, carries the resolution back, or gives an undelivered transfer
  back to its initiator (the sequence diagram `InsuranceCanceledRecovery`: "Transfer
  Canceled by Router"). Each transfer travels on its own.
* `Crash` is a reload of the page: memory is gone, the channel stays.
* The gateway's requests (`initiateSendFunds`, `sendFunds`, `resolveInsurance`) reach a
  core only while its connector is active, since `GatewayConnectorListener` subscribes
  to them on `onGatewayConnectorProxyActivated`. (`_validatePushPayment` means to
  check the same, but its `if` has no body.)
* `offerReceived` only tells the user and is left out. The balance refreshes and
  the events for the user interface are left out as well.

## 2.2 The other modules

**TimedPayments.** The gateway's request becomes an offer, a stake and a parameterized
transfer of one payment. `now` is the clock of the cores and `block` the time of the
latest block; a core reads it through a cache that it marks as fresh *before* the
block arrives (`checked`, `stamp`), so that another call in the same second gets an
older time. A call that waits for a block is a `job`. `Pays` and `CanResolve` are the
contract's integer arithmetic at a scale (`2^64` there, 16 here); `Vested` is the
core's own, which divides before it multiplies. `pulls` are the amounts of all pull
records, which stay; `AmountTransferred` is 0 whatever was pulled, since
`PaymentUtils.transfersToPullPayment` fills in "0" (`utilities/PaymentUtils.ts:291`), so that
`PullFunds` compares each amount alone with what has vested. `ForeignOffer` is a sender
whose ids say "pull" (this core's own say "push", `business/PaymentService.ts:158`).

**GatewayConnectors.** A flow (activation at startup, authorization, decline,
deauthorization) is a program counter, the iframe it talks to and what it
read. `frames` are the iframes with the code each fetched; `stored` the map of signed
versions, read and written as a whole; `cached` the results of activations;
`signed` and `told` are history. `Faults` says what may go wrong in an instance. A
handler that waits for what never comes is "hung".

**StateChannels.** A call is a program counter and what it read. Two contexts may share
one array (`list`, `shared`), which is what `ContextProvider.setContext` makes of
the first initialization and what later ones break up. Transactions are mined or
reverted whether or not the page is still there; the wallet may be on another chain
than the channel. A reload loses calls and contexts, and may find the store of the
browser node empty. The asset info of a token that could not be read is kept for good.

**CoreStartup, RemoteCore.** A method is the sequence of its pieces between awaits
(`Initialize`, `InitializePayments`, ...), a call is a thread and one more for each
initialization that it runs in parallel. The wallet may refuse, move to another chain,
or be replaced by a key; only the last thread to ask gets the user's answer, since the
promise's resolver is a field. The page's `flags` are what it heard of
`onInitialized` and its like. Methods of which nobody handles the message
(`Silent`), or whose handler throws, never answer.

**Registries.** An action is one successful transaction; what is reverted changes
nothing. What a call of a registry requires and does are functions of the state of
all registries, so that a module composes several in one step. The share that is burned
goes to any account or registry, the registry itself included, or nowhere when the
address is 0, where the coin's contract refuses it. Anyone may send coins to a registry
(`SendCoins`). Whoever makes a registry names its first registrar, any user or module. Each
setter of the factory is an action. ERC20, ERC721 and AccessControl of OpenZeppelin are
external.

**RegistryClient.** All methods share the fields `nonFungibleRegistryContract` and
`tokenERC20Contract`. An object has an address that each of its calls sets; a
transaction goes to where the object is when the price of gas has arrived. `run` is what
a method does, piece by piece, and each piece may fail.

## 3. The runs

Deadlock is not checked: every system here may have nothing left to do.

| Run | Instance | Shows |
| --- | --- | --- |
| `payments` | two cores; five scenes: two payments with funds for one; an offer accepted twice and a transfer given back; repairs at any time; a reload with connectors that start inactive; cores with different hypertokens | types (no balance is overdrawn); paid once, insured while paid, released once and after it; funded as staked |
| `payment_progress` | one accept, one fault (a reload or a returned transfer) at any point, fairness | an insured payment gets to its end, no collateral stays locked, every coin is accounted for, `EscrowedPayment` is implemented |
| `timed_payments` | times 0 to 6; dates soon and late; rates below, at and above one per second | push payments can be taken, the scaled division is exact |
| `connectors` | one gateway with two versions, three iframes, a reload and all faults but failing writes; two gateways with failing writes | only signed code runs, one live iframe per gateway, deauthorized is gone |
| `startup` | two iframes, faults of the registry, connector, code; two gateways whose handshakes may fail; fairness | startup ends |
| `core` | two chains, up to three calls in six scenes, a wallet that moves; fairness | a provider is there when it is used, an initialization that is alone does what it says and is answered |
| `state_channels` | two routers, two chains, three calls of eight kinds, one reload, channels from before or none; fairness | deposits are counted, a channel that was set up is listed (once if no call overlapped), calls end |
| `registries` | two registries, three accounts, two ids, labels and coins; five scenes: stakes (also with the share burned to the registry itself, and coins given to it), labels, modules, mints, factory | labels and names resolve, stakes are backed and owned, owners consent |
| `registry_client` | two operations of any method on three registries | one that is alone hits its target, done means written, claimed means minted |

Three runs end in a counterexample (`PROJECT.json`, "findings"):

| Run | Statement | What happens |
| --- | --- | --- |
| `funded_twice` | an approved payment is resolved immediately (`business/PaymentService.ts:1652`) | two handlers fund it, one transfer is cancelled, `acceptPayment` may choose that one, fails, and nothing tries again |
| `wrong_registry` | "Call the NFI contract of that address" (`data/RegistryRepository.ts:613`) | another operation moves the shared object while the first waits for the price of gas: the transaction goes to the other registry |
| `unavailable_signer` | "In this case, a signer will not be available" (`utilities/BlockchainProvider.ts:329`) | the signer of before stays, or the wallet's is taken unseen: contracts of one chain are made for writing through a wallet on another |

### Bounds

The bounds are the smallest at which the hazards happen: two stakes make the first
duplicate of insurance, two handlers (an activation and `stakePosted`, or two stakes)
the first duplicate of a funded transfer, one return a transfer that is tried again, one
reload every loss of memory; two overlapping calls the first lost update, and three
calls what one leaves to the next while another interferes. In `timed_payments` the
scale of 16 is more than the largest product of times, as `2^64` is in the contract; two
pulls are the first that exceed together what neither does alone.
In `core`, methods that run alike are represented by one. In `registries` each scene
opens the inputs of one concern; ids, labels and coins interact within a token, of
which there are two; BulkTransfer moves to one recipient; the VIEW leaves
out only `caller`, the sender of the last transaction, which no guard reads. In
`connectors`, failing writes are in the instance with two gateways only: with one, a
write that fails brings a deauthorized gateway back, as the code has it.

### Statements that do not hold

These are stated in the modules and were refuted by TLC; they are not among the runs, or
are the reason for a condition in a property above.

| Property | Module | What happens |
| --- | --- | --- |
| `TwoOffersAreNotPaid` | PaymentProtocol | the reserved id is never removed: `sendFunds` repeated makes a second offer, and the payment is taken, though two open offers are an invalid proposal (`utilities/PaymentUtils.ts:464`). `PaidOnce`, `ReleasedOnce` and the refinement are therefore for payments offered once (`MaxSends = 1`) |
| `OrphanStakeIsCanceled` | PaymentProtocol | `_cancelEverything` goes through the offers only, of which there are none (`business/PaymentService.ts:1343`) |
| `InvalidStakeIsResolved` | PaymentProtocol | nothing acts on InvalidStake, against `InvalidInsuranceRecovery.sequencediagram:19` |
| `AcceptedIsInsured` | PaymentProtocol | a stake of 0 is allowed (`business/PaymentService.ts:1874`), but the insurance contract wants at least 1 |
| `ExpiredIsNotPaid` | TimedPayments | the expiration of an offer is checked when it is made and never again; it is accepted, funded and taken after it |
| `PullsStayWithin` | TimedPayments | the amount of a pull is checked "to make sure we're not pulling too quickly" (`business/PaymentService.ts:335`), but against an amount transferred that is always "0" (`utilities/PaymentUtils.ts:291`): pulls of 1 and 1 pass when 1 has vested |
| `PayableVests` | TimedPayments | the core divides the amount by the period before it multiplies (`utilities/PaymentUtils.ts:240`): at a rate below one unit per second nothing ever vests, though the contract would pay |
| `AuthorizedIsStored` | GatewayConnectors | an authorization that found the gateway authorized is never taken out of `authorizationsInProgress`; later calls are told of its success when the gateway is long deauthorized. A failed write is reported as success as well |
| `LookupFindsLiveProxy` | GatewayConnectors | deauthorizing leaves the proxy in the cache; after a new authorization that stops half way, a lookup finds the one without an iframe |
| `CacheResolves` | GatewayConnectors | a retried activation puts its result into the cache, finds it there, and waits for itself |
| `WritesOneGateway` | GatewayConnectors | of two writers of the stored map the second undoes what the first did to another gateway |
| `StartupFinishes` with a user who refuses | GatewayConnectors | an update that is not signed makes the core ask a connector that was never activated to deauthorize; the timer that should end the wait makes a function and does not call it (`utilities/GatewayConnectorProxy.ts:118`). With `Faults = {"deny"}` startup never ends; the run `startup` leaves that fault out |
| `ListedOnce` | StateChannels | two overlapping `createStateChannel` or `ensureStateChannel` both find nothing, and list a channel twice or make two |
| `LandedIsCounted` | StateChannels | a page that is closed between the transfer and `reconcileDeposit`, or a wait that fails, leaves money on the channel's address; a wallet on another chain sends it where no channel is |
| `ReportedOnce` | StateChannels | `getBalances` collects the results of all channels in one array, so that the first channel's are reported again with each later one (`data/AccountsRepository.ts:287`) |

Hazards of the same kind for which no property is stated: a gateway-authorization
request is refused when its expiration lies in the *future*
(`api/GatewayConnectorListener.ts:447`); transfers made in the same second have the same
`createdAt`; the list of allowed gateways of a router is cached for good
(`data/RouterRepository.ts`), and so are the addresses of the registry names and a
browser node that failed to start; `initializePayments` subscribes the listeners again
each time; `submitLazyMintSignature` hashes a promise instead of a chain id and throws; a
lazy signature does not name its registry.

### Fairness

*Payments.* Weak fairness of what is bound to happen: a promise that can go on does
(per core and payment, so that one handler cannot be starved by another payment's),
the node and the router deliver, a proxy is created and activated, and the gateway
asks for the release of the insurance of an accepted payment
(`src/packages/hypernet-core/README.md`: "Gateway is responsible for releasing the
insurance"). *Connectors.* Calls between core, storage, wallet and iframe are answered,
unless the code never answers them. *Core.* Pieces and messages come, and the user
answers what is asked, if with a refusal; one weak-fairness condition is enough, since
there are only so many calls of so many pieces. *Channels.* Pieces go on and
transactions are mined or reverted. Nothing is assumed of calls, repairs, faults,
returns, moves of the wallet and reloads. No strong fairness is used.

## 4. The proofs

TLAPS checks these theorems for every value of the constants that satisfies the
module's assumptions:

* payments: `PaymentAssumption` (sender and receiver differ, amounts and stakes are
  natural numbers, ...) and `BoundAssumption` (the bounds are natural numbers: any number
  of cores, payments, calls, repairs, returns and reloads);
* time: `RequestsAssumption`, `TimeAssumption`, `BoundAssumption` (any offers, expiration,
  clock drift and length of the run) and `ScaleAssumption`: the contract's scale, 2^64, is
  more than any product of two periods in seconds;
* connectors: `FaultsAssumption`, `NoneAssumption` and `BoundsAssumption` (any gateways,
  versions, iframes, reloads, any of the faults);
* registries: `RegistriesAssumption`, `AmountsAssumption` and `ChoicesAssumption` (any
  registries, users, coins, names, labels, entries, batches and amounts, finitely many
  ids; the zero address and the empty label are no values, no account has the address of
  a registry; what is burned or given goes to any account or registry);
* clients: `ClientAssumption` and `MethodsAssumption` (any registries, operations,
  signatures and any of the repository's methods);
* channels: `StateChannelsAssumption` (any routers, chains, assets, requests and reloads,
  finitely many calls and earlier channels);
* the core: `CoreAssumption` and `ScenesAssumption` (any calls, chains, bound of listeners,
  and scenes, which are methods and chains that the page asks for).

| Theorem | Module | Property | Further assumption |
| --- | --- | --- | --- |
| `TypeCorrect` | `PaymentProtocol_proofs` | `TypeOK` | |
| `FundedIsStaked` | `PaymentProtocol_proofs` | `FundedMeansStaked` | |
| `ReleasedIsPaid` | `PaymentProtocol_proofs` | `ReleasedAfterPaid` | |
| `TakenOnce` | `PaymentProtocol_proofs` | `PaidOnce` | `MaxSends <= 1` |
| `StakeReleasedOnce` | `PaymentProtocol_proofs` | `ReleasedOnce` | `MaxSends <= 1` |
| `PaidIsInsured` | `PaymentProtocol_proofs` | `PaidMeansInsured` | |
| `RecoveryLeavesOne` | `PaymentProtocol_proofs` | `CancelLeavesOne` | a common hypertoken |
| `Implements` | `PaymentProtocol_proofs` | `ImplementsEscrow` | `MaxSends <= 1` |
| `CoinsAddUp` | `PaymentProtocol_proofs` | `FundsAddUp` | |
| `TimedTypes` | `TimedPayments_proofs` | `TypeOK` | |
| `PushStaysTakeable` | `TimedPayments_proofs` | `PushIsTakeable` | |
| `RateStaysExact` | `TimedPayments_proofs` | `RateIsExact` | |
| `ConnectorTypes` | `GatewayConnectors_proofs` | `TypeOK` | |
| `OnlySignedCode` | `GatewayConnectors_proofs` | `SignedCodeRuns` | |
| `OneFrameForAll` | `GatewayConnectors_proofs` | `OneFramePerGateway` | |
| `DeauthorizedStays` | `GatewayConnectors_proofs` | `DeauthorizedStaysGone` | writes arrive |
| `RegistryTypes` | `Registries_proofs` | `TypeOK` | |
| `LabelsStayInverse` | `Registries_proofs` | `LabelsAgree` | |
| `StakesHaveOwners` | `Registries_proofs` | `StakesOwned` | |
| `NamesLeadHome` | `Registries_proofs` | `NamesResolve` | |
| `StakesStayBacked` | `Registries_proofs` | `StakesBacked` | |
| `OwnersStayAsked` | `Registries_proofs` | `OwnerConsents` | |
| `ClientTypes` | `RegistryClient_proofs` | `TypeOK` | |
| `AloneStaysRight` | `RegistryClient_proofs` | `AloneHitsItsTarget` | |
| `DoneStaysWritten` | `RegistryClient_proofs` | `DoneIsWritten` | |
| `ClaimedStaysMinted` | `RegistryClient_proofs` | `ClaimedIsMinted` | |
| `ChannelTypes` | `StateChannels_proofs` | `TypeOK` | |
| `DepositsStayCounted` | `StateChannels_proofs` | `DepositsAreCounted` | |
| `AloneStaysListed` | `StateChannels_proofs` | `AloneIsListed` | |
| `RemoteTypes` | `RemoteCore_proofs` | `TypeOK` | |
| `ProviderStays` | `RemoteCore_proofs` | `ProviderIsThere` | |
| `AloneIsRight` | `RemoteCore_proofs` | `AloneInitializes` | |

`MaxSends <= 1` means that a payment is offered once. It is needed: with a repeated
`sendFunds` TLC finds two open offers of one payment (`TwoOffersAreNotPaid`), and then the
window of `getPaymentsByIds` may hide a payment that was taken already. The common
hypertoken is needed because a recovery does cancel a first stake whose token is not
the one of the offer; such a payment is never funded, so `PaidIsInsured` holds
without it. `DeauthorizedStays` needs `"write" \notin Faults`: after a failed write the
deauthorized gateway is still stored, and the next page activates it.

### The argument

*Payment types.* `TypeInv` is `TypeOK` with `AwardsBounded`: what a responder was awarded
is not more than the transfer holds. Without it the refund of `Settle` could be
negative. One lemma per action.

*Effects.* Every later proof about payments goes through three lemmas instead of the
actions: `StepEffect` (a step creates a transfer, changes one status of one transfer, or
leaves the channel alone), `TaskOrigin` (what a new task was made from, and what
its core had read) and `NewFunding`. `Growth` follows: a transfer keeps its terms, once
seen it stays seen, once ended it stays ended.

*Inductive invariants of payments.* None of the properties is inductive alone, since what
happens is decided when a core reads and happens later:

| Invariant | Says | Makes inductive |
| --- | --- | --- |
| `FundedInv` | a handler that will fund has seen the stake | `FundedMeansStaked` |
| `TargetInv` | a task is on its transfers' responder, which has seen them | all that follow |
| `ReleaseInv` | a task that will release has seen the payment resolved | `ReleasedAfterPaid` |
| `OfferInv` | one offer per payment, older than its other transfers | so that a core that sees the offer open sees all of the payment (`WholeView`) |
| `OnceInv` | of the transfers that tasks will take (release) at most one is active at its responder, and none once another one was taken (released) | `PaidOnce`, `ReleasedOnce` |
| `TermsInv`, `RecoveryInv` | what a recovery will cancel has an earlier one of its kind that its core has seen | `FirstInv` |
| `FirstInv` | the earliest transfer of a kind that its responder has seen is not canceled | `PaidMeansInsured`, `CancelLeavesOne` |
| `AwardInv`, `SettledInv`, `FinalInv` | what tasks award, where a resolution came from, finalize comes after the release | the refinement |
| `EndsInv` | a transfer is open at its initiator as long as it is at its responder | `FundsAddUp` |

The refinement maps a new first transfer of a kind to the abstract step that makes it,
a resolution by the responder to Take, Release or Close, and the rest to stuttering.

*Sums.* `FundsAddUp` and `StakesBacked` sum over any finite set. `SumLemmas` shows what a sum
does when one element comes, goes or changes. The library's induction theorems cannot be
instantiated here, but its theorem that a set of natural numbers has a least element
can be: the lemmas are about the smallest set for which they would be false.

*Time.* Subtracting a second in `provideAsset` matters: a transfer starts before the latest
block although the time is read from a cache, so that the contract's comparison of the
start with the block's time never refuses it. `QuotientIsLargest` (`k <= a \div b` just
when `k * b <= a`) turns the contract's and the core's divisions into inequalities;
`ScaledRates` and `VestedIsPaid` compare them, in the two orders of multiplication and
division that they use.

*Connectors.* `ReferencesAndSignatures` proves the inductive `Inv`. Its part `Core` says
that every reference to an iframe (of a proxy, a cached activation, a flow under way)
is to one of the same gateway, and that a flow which goes on to activate has a
signature of the version in that iframe. `Grows` (iframes keep gateway and code,
signatures are only added) is why one flow's step does not spoil what another knows.
That a gateway has one iframe needs a second one, `One`, about which flows can be under
way together: each phase of startup allows its own (`FlowsInPhase`), a flow that startup
took out does not come back (`TakenOut`), what is served is stored (`ServingIsStored`), and
of those that are about to make an iframe there is one and no iframe yet (`Lone`,
`CreatingIsFirst`).

*Registries.* `RecordsStayGood` proves the inductive `Inv`: every registry's record is
`Good` (the two label maps are inverse; a token that does not exist has neither label
nor stake), and the factory's names lead to registries that were made under them. There
is one lemma for each thing that a call does to a record, all of the form `Keeps(s, t)`;
a module, which does several in one transaction, chains them by `KeepsBoth`. A token
without a label takes the mapping of the empty label with it when it is burned: this is
why `LabelsAgree` is about non-empty labels only. For coins and consent (`AllInv`) most
calls are `Calm`: stakes stay, and so do the owners of tokens. The others change one stake
and the registry's balance in its coin, up by at least as much or down by no more, or move
a token whose owner the same call asked. The registry's balance is at least the sum of its stakes, and no more can be said: a
share burned to the registry itself stays there without a stake, and so does what it is
given. That a burn pays back in the coin that the stake was made in, not in the one the
registrar has set since, is what the proof rests on.

*Clients.* The pieces of every method come in an order that makes sense (`GoodRun`: an
object is made for writing before it sends, a mint comes before its claim). It is shown
of the parts of methods, and concatenation keeps it. Then where an operation is in its
method says what it has sent (`OpsOK`) and what is stored (`StoreOK`), and for one that was
never in progress together with another also what the shared fields are (`Tracked`,
`AloneOK`).

*Channels.* `MoneyInv` keeps an account for each channel: what landed on it is its balance,
what was withdrawn and what is still to be counted of deposits, each of a call of its own.
`ListInv` says why a channel that was returned is listed: whoever replaces the list has
read a store with that channel in it (`SawInv`), or overlapped the call. An attempt to
prove more was refuted: with the bound of three calls TLC had found no channel listed
twice by calls that overlap *others*, but the proof of it had a gap, and with four there
is one. `AloneIsListed` therefore says "once" only if no calls of the page overlapped.

*The core.* `CoreStaysSound` proves the inductive `Inv`, which reads off from what a thread
has left of its method what it has behind it: the pieces of `BlockchainProvider` follow
each other (`Linked`), a piece that needs the provider comes after the context got its
chain, one that goes back to the context around comes after "payments" (`Covered`). As
with the clients this is shown of the parts of the methods (`GoodRun`) and kept by
concatenation and by every step to a rest. The steps of other threads are summed up by
`Drift`: the chains with a provider grow, and a context that changes its chain gets one of
them. The rest is bookkeeping of who is asked (`AskInv`), which parts are under way
(`ForkInv`) and the messages between page and core (`PageInv`).

*Calls that are alone.* `AloneIsRight` needs a second invariant on top of that,
`AloneInv`, about the initializations that nothing has overlapped: no thread but theirs
is in the core, and every thread has the effect of each piece that it has behind it
(`Right`, `Effect`). Behind it means not left, so the pieces have to be in an order in
which that is final: a contract is made after the context got its chain, also in
`initializePayments`, which goes through `initializeBlockchainProvider` twice
(`Ordered`). Four things are not visible in what a thread has left and had to be added:
a thread that skips the wallet or the key has not run those pieces (they have no lasting
effect); one that waits for the addresses of the names has left its method, to fail, and
has nothing behind it (`Succeeds`); `initializeForChainId` does not go through
`initializeBlockchainProvider` itself, so that its own thread knows no context, and it
throws when there is no provider; a call that waits for its parts has each of them still
running, or ended and not collected, unless its kind was done for the chain before
(`Joins`). That parts run beside each other does no harm because all of them aim at the
same chain: a step of one may make a contract again, put the signer's provider in place
of the chain's, or go back to the context of the payments, but only to the same chain
and context (`Steady`), so that what the others have behind them stays. A call that
comes while another one runs makes neither of them alone, which is why `AloneInv` holds
of a call from its first piece (`AloneReceives`), and the events and answers of the page
change nothing it is about.

### What is only model-checked

Liveness under fairness is beyond the prover: `InsuredIsClosed`, `StakeComesBack`,
`StartupFinishes`, `AnswersCome`, `CallsEnd`. `TypesOK` is stated in an MC module of two
instances of connectors and has no theorem of its own; `ConnectorTypes` is the one for
one instance. Every other invariant and action property of the passing runs is proved.

## 5. What is not modelled

* **Control and messaging**: `claimControl` is never called, the listener of the
  messages is commented out of `HypernetCore`, the bodies of the interval's checks are
  empty. There is no behaviour to check.
* **Governor, hypertoken, vesting** and their client: OpenZeppelin's logic with a
  proposal threshold, one formula for a linear share, and proxies of one call each on
  objects of their own.
* **ResultUtils**: no state; each module takes over what its combinators mean (what was
  started goes on when one fails; results are read when all are there).
* **Links**: views of payments, without state.
* **Parts of modelled components**: recovery of a pull payment; requests of connectors other than for funds and insurance, signing for
  gateways, displaying iframes; `tokenURI`, schemas, royalties, role administration and
  `NFTAccessControl` of the registries; the governance chain kept in local storage;
  listeners subscribed twice; events of the core that only tell the user something.
* Payment ids that do not parse, payments to or from other Hypernet users: the ids of the
  model are those of payments between two given cores.
* Failures of the node other than the ones named here (a transfer that cannot be made
  or resolved, one that is returned). A call whose reply is lost while its effect
  stays is seen by the other core only, as after a reload.
* **User interfaces, the mobile app, data classes, generated contract bindings, ABIs,
  deployment copies, tests and scripts**. They are most of the repository's lines
  (`src/packages/objects/src/typing/typechain`, `web-ui`, `mobileApp`, ...): rendering,
  generated code and declarations, nothing whose steps could be interleaved or
  ordered wrongly. This is why the map covers a good third to nine tenths of the
  files that carry the protocol, and less than a fifth of all lines.

## 6. The plan

Done: payments, connectors, time, channels, startup, registries and their client. What
is left, in this order:

1. Pull payments in `PaymentProtocol`: their recovery.
2. The remaining requests of `GatewayConnectorListener`, and the display of iframes.
3. `tokenURI`, royalties and the token roles of the registries, which survive a burn.
