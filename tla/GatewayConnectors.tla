------------------------- MODULE GatewayConnectors -------------------------
(***************************************************************************)
(* How one core authorizes, activates, looks up and deauthorizes gateway   *)
(* connectors: GatewayConnectorService with its repository (the stored map *)
(* of authorizations, the proxies that exist) and its proxies, and the     *)
(* gateway iframe at the other end of each proxy.                          *)
(*                                                                         *)
(* Every flow of the service is a chain of asynchronous calls, so that two *)
(* of them interleave between any two calls. A flow is a record of its     *)
(* program counter, the iframe it talks to and what it read earlier.       *)
(*   activate     _activateAuthorizedGateway, at startup, one by one       *)
(*   authorize    authorizeGateway                                         *)
(*   decline      _deauthorizeGateway on behalf of an activation whose     *)
(*                user refused to sign the new code                        *)
(*   deauthorize  deauthorizeGateway                                       *)
(***************************************************************************)
EXTENDS Naturals, Sequences

CONSTANTS
    Gateways,   \* the gateway urls
    Versions,   \* versions of a gateway's connector code, each signed by it
    MaxFrames,  \* bound: iframes a core makes before it is loaded again
    MaxReloads, \* bound: times the page is loaded again
    Faults,     \* what may go wrong: see FaultKinds
    None

FaultKinds == {
    "handshake",  \* the iframe does not answer the handshake
    "registry",   \* registration info cannot be read
    "connector",  \* the code of the gateway does not evaluate to a connector
    "deny",       \* the user refuses to sign
    "read",       \* storage cannot be read
    "write",      \* storage cannot be written
    "update"}     \* the gateway publishes new code

ASSUME FaultsAssumption == Faults \subseteq FaultKinds
ASSUME NoneAssumption == None \notin Versions
ASSUME BoundsAssumption == MaxFrames \in Nat /\ MaxReloads \in Nat

Kinds == {"activate", "authorize", "decline", "deauthorize"}
Pcs == {"idle", "checking", "creating", "validating", "signing", "reading",
        "storing", "connecting", "declining", "looking", "waiting", "asking",
        "retrying", "hung"}

VARIABLES
    published,  \* the version each gateway serves, its signature registered
    stored,     \* AuthorizedGateways in storage: the version the user signed
    signed,     \* versions the user ever signed (history)
    told,       \* the last success the user was told of, unless something he
                \* asked for since or before is still under way (history)
    startup,    \* "before", "running" or "done": activateAuthorizedGatewaysResult
    todo,       \* gateways activateAuthorizedGateways still has to activate
    known,      \* what it read in storage when it began
    cached,     \* authorizedGatewayProxies: pending, ok with a proxy, an error
    frames,     \* the iframes made, in order, with the proxy of each
    live,       \* existingProxies: the frame of a gateway, 0 for none
    flow,       \* the flows, by kind and gateway
    inProgress, \* authorizationsInProgress
    reloads

vars == <<published, stored, signed, told, startup, todo, known, cached, frames,
          live, flow, inProgress, reloads>>

Idle == [pc |-> "idle", frame |-> 0, version |-> None,
         map |-> [g \in Gateways |-> None]]
NotCached == [st |-> "none", frame |-> 0]

TypeOK ==
    /\ published \in [Gateways -> Versions]
    /\ stored \in [Gateways -> Versions \cup {None}]
    /\ signed \in [Gateways -> SUBSET Versions]
    /\ told \in [Gateways -> {"nothing", "authorized", "deauthorized"}]
    /\ startup \in {"before", "running", "done"}
    /\ todo \subseteq Gateways
    /\ known \in [Gateways -> Versions \cup {None}]
    /\ cached \in [Gateways ->
           [st : {"none", "pending", "ok", "proxy", "plain", "denied"},
            frame : 0..MaxFrames]]
    /\ frames \in Seq([gateway : Gateways, code : Versions, valid : BOOLEAN,
                       alive : BOOLEAN, active : BOOLEAN])
    /\ Len(frames) <= MaxFrames
    /\ live \in [Gateways -> 0..Len(frames)]
    /\ flow \in [Kinds -> [Gateways ->
           [pc : Pcs, frame : 0..MaxFrames, version : Versions \cup {None},
            map : [Gateways -> Versions \cup {None}]]]]
    /\ inProgress \subseteq Gateways
    /\ reloads \in 0..MaxReloads

Init ==
    /\ published \in [Gateways -> Versions]
    /\ stored \in [Gateways -> Versions \cup {None}]
    /\ signed = [g \in Gateways |-> {stored[g]} \ {None}]
    /\ told = [g \in Gateways |-> "nothing"]
    /\ startup = "before"
    /\ todo = {}
    /\ known = [g \in Gateways |-> None]
    /\ cached = [g \in Gateways |-> NotCached]
    /\ frames = <<>>
    /\ live = [g \in Gateways |-> 0]
    /\ flow = [k \in Kinds |-> [g \in Gateways |-> Idle]]
    /\ inProgress = {}
    /\ reloads = 0

-----------------------------------------------------------------------------
(* Parts of steps. *)

Pc(k, g) == flow[k][g].pc
Frame(k, g) == frames[flow[k][g].frame]
Goto(k, g, pc) == [flow EXCEPT ![k][g].pc = pc]
Ended(k, g) == [flow EXCEPT ![k][g] = Idle]

\* (mutant) the proxy is forgotten, its iframe stays
DestroyedFramesOnPaper(g) == frames

\* destroyProxy: the proxy of g, if there is one, loses its iframe. A proxy
\* that left existingProxies before is not reached.
DestroyedFrames(g) ==
    IF live[g] = 0 THEN frames ELSE [frames EXCEPT ![live[g]].alive = FALSE]

DestroyProxy(g) ==
    /\ frames' = DestroyedFrames(g)
    /\ live' = [live EXCEPT ![g] = 0]

\* createGatewayProxy hands out the proxy that exists, or begins to make one.
Launched(k, g, v) ==
    [flow EXCEPT ![k][g] =
        [pc |-> IF live[g] = 0 THEN "creating" ELSE "validating",
         frame |-> live[g], version |-> v, map |-> Idle.map]]

\* (mutant) a failure is put in the cache, but its result never resolves
ActivationHangs(g, e) ==
    /\ cached' = [cached EXCEPT ![g] = [st |-> e, frame |-> 0]]
    /\ flow' = [flow EXCEPT !["activate"][g] = [Idle EXCEPT !.pc = "hung"],
                            !["decline"][g] = Idle]
    /\ UNCHANGED <<frames, live, inProgress>>

\* The end of an activation that failed with error e: it stays cached. Errors of
\* the iframe arrive as plain objects, so that only a ProxyError of this side
\* makes the core destroy the proxy.
ActivationFailed(g, e) ==
    /\ cached' = [cached EXCEPT ![g] = [st |-> e, frame |-> 0]]
    /\ flow' = [flow EXCEPT !["activate"][g] = Idle, !["decline"][g] = Idle]
    /\ IF e = "proxy" THEN DestroyProxy(g) ELSE UNCHANGED <<frames, live>>
    /\ UNCHANGED inProgress

\* The end of an authorization that failed, whatever the error.
AuthorizationFailed(g) ==
    /\ DestroyProxy(g)
    /\ inProgress' = inProgress \ {g}
    /\ flow' = Ended("authorize", g)
    /\ UNCHANGED cached

Fail(k, g, e) ==
    IF k = "activate" THEN ActivationFailed(g, e) ELSE AuthorizationFailed(g)

\* A call on a proxy: an error at once when the proxy was destroyed.
Call(k, g, pc) ==
    IF Frame(k, g).alive
    THEN /\ flow' = Goto(k, g, pc)
         /\ UNCHANGED <<cached, frames, live, inProgress>>
    ELSE Fail(k, g, "proxy")

-----------------------------------------------------------------------------
(* Startup. *)

\* activateAuthorizedGateways is called once; what it needs has been read.
ActivateAuthorizedGateways ==
    /\ startup = "before"
    /\ \/ /\ startup' = "running"
          /\ known' = stored
          /\ todo' = {g \in Gateways : stored[g] # None}
       \/ /\ "read" \in Faults
          /\ startup' = "running"
          /\ known' = [g \in Gateways |-> None]
          /\ todo' = {}
       \/ /\ "registry" \in Faults
          /\ startup' = "done"
          /\ UNCHANGED <<known, todo>>
    /\ UNCHANGED <<published, stored, signed, told, cached, frames, live, flow,
                   inProgress, reloads>>

Activating == {g \in Gateways : Pc("activate", g) # "idle"}

\* _activateAuthorizedGateway, one gateway after the other.
ActivateAuthorizedGateway(g) ==
    /\ startup = "running" /\ Activating = {} /\ g \in todo
    /\ todo' = todo \ {g}
    /\ IF cached[g].st = "none"
       THEN /\ cached' = [cached EXCEPT ![g] = [st |-> "pending", frame |-> 0]]
            /\ flow' = Launched("activate", g, published[g])
       ELSE UNCHANGED <<cached, flow>>
    /\ UNCHANGED <<published, stored, signed, told, startup, known, frames, live,
                   inProgress, reloads>>

StartupEnds ==
    /\ startup = "running" /\ Activating = {} /\ todo = {}
    /\ startup' = "done"
    /\ UNCHANGED <<published, stored, signed, told, todo, known, cached, frames,
                   live, flow, inProgress, reloads>>

-----------------------------------------------------------------------------
(* Authorization. *)

\* A call while one is in progress gets the result of that one. If that one is
\* over and was never taken out, the caller is told of its success again.
AuthorizeGateway(g) ==
    /\ startup # "before"
    /\ IF g \in inProgress
       THEN /\ Pc("authorize", g) = "idle"
            /\ told' = [told EXCEPT ![g] = "authorized"]
            /\ UNCHANGED <<flow, inProgress>>
       ELSE /\ inProgress' = inProgress \cup {g}
            /\ flow' = Goto("authorize", g, "checking")
            /\ told' = [told EXCEPT ![g] = "nothing"]
    /\ UNCHANGED <<published, stored, signed, startup, todo, known, cached,
                   frames, live, reloads>>

\* The stored map has arrived: g is authorized already, or an iframe is made.
AuthorizeChecked(g) ==
    /\ Pc("authorize", g) = "checking"
    /\ IF stored[g] # None
       THEN /\ flow' = Ended("authorize", g)
            /\ told' = [told EXCEPT ![g] = "authorized"]
       ELSE /\ flow' = Launched("authorize", g, published[g])
            /\ UNCHANGED told
    /\ UNCHANGED <<published, stored, signed, startup, todo, known, cached,
                   frames, live, inProgress, reloads>>

AuthorizeCheckFails(g) ==
    /\ "registry" \in Faults
    /\ Pc("authorize", g) = "checking"
    /\ flow' = Ended("authorize", g)
    /\ inProgress' = inProgress \ {g}
    /\ UNCHANGED <<published, stored, signed, told, startup, todo, known, cached,
                   frames, live, reloads>>

-----------------------------------------------------------------------------
(* From the proxy to the activated connector, for both flows. *)

\* The handshake is done. The iframe fetches the code and checks it against the
\* signature that the core read in the registry.
FrameUp(k, g) ==
    /\ Pc(k, g) = "creating" /\ Len(frames) < MaxFrames
    /\ frames' = Append(frames,
           [gateway |-> g, code |-> published[g],
            valid |-> published[g] = flow[k][g].version,
            alive |-> TRUE, active |-> FALSE])
    /\ live' = [live EXCEPT ![g] = Len(frames) + 1]
    /\ flow' = [flow EXCEPT ![k][g].pc = "validating",
                            ![k][g].frame = Len(frames) + 1]
    /\ UNCHANGED <<published, stored, signed, told, startup, todo, known, cached,
                   inProgress, reloads>>

FrameFails(k, g) ==
    /\ "handshake" \in Faults
    /\ Pc(k, g) = "creating"
    /\ Fail(k, g, "proxy")
    /\ UNCHANGED <<published, stored, signed, told, startup, todo, known, reloads>>

\* (mutant) any signature will do
ApprovedAtAll(k, g) == k = "activate"

\* Whether the signature the user gave is one of this code.
Approved(k, g) == k = "activate" /\ known[g] = Frame(k, g).code

\* The iframe has answered getValidatedSignature. The user has to sign the code,
\* unless this very code was authorized before.
Validated(k, g) ==
    /\ Pc(k, g) = "validating" /\ Frame(k, g).alive
    /\ IF ~Frame(k, g).valid
       THEN Fail(k, g, "plain")
       ELSE IF Approved(k, g)
            THEN Call(k, g, "connecting")
            ELSE /\ flow' = Goto(k, g, "signing")
                 /\ UNCHANGED <<cached, frames, live, inProgress>>
    /\ UNCHANGED <<published, stored, signed, told, startup, todo, known, reloads>>

Sign(k, g) ==
    /\ Pc(k, g) = "signing"
    /\ signed' = [signed EXCEPT ![g] = @ \cup {Frame(k, g).code}]
    /\ flow' = Goto(k, g, "reading")
    /\ UNCHANGED <<published, stored, told, startup, todo, known, cached, frames,
                   live, inProgress, reloads>>

\* No new signature, or no map to put it in. An activation deauthorizes the
\* gateway then: its deauthorize call, which the iframe answers only when its
\* connector is active, begins.
Refused(k, g) ==
    /\ \/ "deny" \in Faults /\ Pc(k, g) = "signing"
       \/ "read" \in Faults /\ Pc(k, g) = "reading"
    /\ IF k = "activate"
       THEN /\ flow' = [flow EXCEPT
                  ![k][g].pc = "declining",
                  !["decline"][g] =
                      [pc |-> IF Frame(k, g).alive THEN "asking" ELSE "reading",
                       frame |-> flow[k][g].frame,
                       version |-> None, map |-> Idle.map]]
            /\ UNCHANGED <<cached, frames, live, inProgress>>
       ELSE Fail(k, g, "plain")
    /\ UNCHANGED <<published, stored, signed, told, startup, todo, known, reloads>>

\* addAuthorizedGateway and deauthorizeGateway of the repository read the map,
ReadMap(k, g) ==
    /\ Pc(k, g) = "reading"
    /\ flow' = [flow EXCEPT ![k][g].pc = "storing", ![k][g].map = stored]
    /\ UNCHANGED <<published, stored, signed, told, startup, todo, known, cached,
                   frames, live, inProgress, reloads>>

\* and write it back, changed at g. A write that fails is logged, no more.
WriteMap(k, g, v) ==
    \/ stored' = [flow[k][g].map EXCEPT ![g] = v]
    \/ "write" \in Faults /\ UNCHANGED stored

StoreAuthorization(k, g) ==
    /\ Pc(k, g) = "storing"
    /\ WriteMap(k, g, Frame(k, g).code)
    /\ Call(k, g, "connecting")
    /\ UNCHANGED <<published, signed, told, startup, todo, known, reloads>>

\* The iframe runs the connector and says so; the core keeps the proxy.
Connected(k, g) ==
    /\ Pc(k, g) = "connecting" /\ Frame(k, g).alive
    /\ frames' = [frames EXCEPT ![flow[k][g].frame].active = TRUE]
    /\ cached' = [cached EXCEPT ![g] = [st |-> "ok", frame |-> flow[k][g].frame]]
    /\ flow' = Ended(k, g)
    /\ IF k = "authorize"
       THEN /\ inProgress' = inProgress \ {g}
            /\ told' = [told EXCEPT ![g] = "authorized"]
       ELSE UNCHANGED <<inProgress, told>>
    /\ UNCHANGED <<published, stored, signed, startup, todo, known, live, reloads>>

ConnectFails(k, g) ==
    /\ "connector" \in Faults
    /\ Pc(k, g) = "connecting" /\ Frame(k, g).alive
    /\ Fail(k, g, "plain")
    /\ UNCHANGED <<published, stored, signed, told, startup, todo, known, reloads>>

-----------------------------------------------------------------------------
(* Lookups and deauthorization. *)

\* _getActivatedGatewayProxy finds a ProxyError and tries again: it cleans up and
\* puts the result of a new activation in the cache before that has begun.
Retried(g) ==
    /\ DestroyProxy(g)
    /\ cached' = [cached EXCEPT ![g] = [st |-> "pending", frame |-> 0]]

\* Any use of the proxy of an authorized gateway: a payment or a balance to tell
\* it of, its iframe to show. Only a ProxyError changes something.
UseProxy(g) ==
    /\ startup = "done" /\ stored[g] # None /\ cached[g].st = "proxy"
    /\ Retried(g)
    /\ flow' = [flow EXCEPT !["activate"][g].pc = "retrying"]
    /\ UNCHANGED <<published, stored, signed, told, startup, todo, known,
                   inProgress, reloads>>

\* What the new activation needs has been read, or not. It takes the result that
\* is in the cache for its own, which it is: it waits for itself.
Reactivate(g) ==
    /\ Pc("activate", g) = "retrying"
    /\ \/ /\ flow' = IF cached[g].st = "none"
                    THEN Launched("activate", g, published[g])
                    ELSE Goto("activate", g, "hung")
          /\ cached' = IF cached[g].st = "none"
                      THEN [cached EXCEPT ![g].st = "pending"] ELSE cached
       \/ /\ "registry" \in Faults
          /\ flow' = Ended("activate", g)
          /\ cached' = [cached EXCEPT ![g] = [st |-> "plain", frame |-> 0]]
    /\ UNCHANGED <<published, stored, signed, told, startup, todo, known, frames,
                   live, inProgress, reloads>>

DeauthorizeGateway(g) ==
    /\ startup # "before" /\ Pc("deauthorize", g) = "idle"
    /\ flow' = Goto("deauthorize", g, "looking")
    /\ told' = [told EXCEPT ![g] = "nothing"]
    /\ UNCHANGED <<published, stored, signed, startup, todo, known, cached,
                   frames, live, inProgress, reloads>>

DeauthorizeRead(g) ==
    /\ Pc("deauthorize", g) = "looking"
    /\ flow' = [flow EXCEPT !["deauthorize"][g].pc = "waiting",
                            !["deauthorize"][g].map = stored]
    /\ UNCHANGED <<published, stored, signed, told, startup, todo, known, cached,
                   frames, live, inProgress, reloads>>

\* Startup is over and the lookup of the proxy has an outcome: the gateway is
\* not authorized or its activation failed (the caller gets the error), there
\* is no proxy, the proxy is asked to deauthorize, or an activation that failed
\* with a ProxyError is tried again and waited for.
DeauthorizeLookup(g) ==
    LET c == cached[g] IN
    /\ Pc("deauthorize", g) = "waiting" /\ startup = "done"
    /\ IF flow["deauthorize"][g].map[g] = None \/ c.st \in {"plain", "denied"}
       THEN flow' = Ended("deauthorize", g) /\ UNCHANGED <<cached, frames, live>>
       ELSE \/ /\ (c.st = "none") \/ (c.st = "ok" /\ ~frames[c.frame].alive)
               /\ flow' = Goto("deauthorize", g, "reading")
               /\ UNCHANGED <<cached, frames, live>>
            \/ /\ c.st = "ok" /\ frames[c.frame].alive
               /\ flow' = [flow EXCEPT !["deauthorize"][g].pc = "asking",
                                       !["deauthorize"][g].frame = c.frame]
               /\ UNCHANGED <<cached, frames, live>>
            \/ /\ c.st = "proxy"
               /\ Retried(g)
               /\ flow' = [flow EXCEPT !["activate"][g].pc = "retrying"]
    /\ UNCHANGED <<published, stored, signed, told, startup, todo, known,
                   inProgress, reloads>>

\* The connector has answered, well or not. The timer that should end the wait
\* never does.
Asked(k, g) ==
    /\ Pc(k, g) = "asking" /\ Frame(k, g).alive /\ Frame(k, g).active
    /\ flow' = Goto(k, g, "reading")
    /\ UNCHANGED <<published, stored, signed, told, startup, todo, known, cached,
                   frames, live, inProgress, reloads>>

\* (mutant) the proxy survives the authorization
RemoveAuthorizationOnly(k, g) ==
    /\ Pc(k, g) = "storing" /\ k = "deauthorize"
    /\ WriteMap(k, g, None)
    /\ flow' = Ended(k, g)
    /\ told' = [told EXCEPT ![g] =
           IF Pc("authorize", g) = "idle" THEN "deauthorized" ELSE "nothing"]
    /\ UNCHANGED <<published, signed, startup, todo, known, cached, frames, live,
                   inProgress, reloads>>

RemoveAuthorization(k, g) ==
    /\ Pc(k, g) = "storing"
    /\ WriteMap(k, g, None)
    /\ IF k = "deauthorize"
       THEN /\ DestroyProxy(g)
            /\ flow' = Ended(k, g)
            /\ told' = [told EXCEPT ![g] =
                   IF Pc("authorize", g) = "idle" THEN "deauthorized" ELSE "nothing"]
            /\ UNCHANGED cached
       ELSE /\ DestroyProxy(g)
            /\ flow' = [flow EXCEPT !["activate"][g] = Idle, ![k][g] = Idle]
            /\ cached' = [cached EXCEPT ![g] = [st |-> "denied", frame |-> 0]]
            /\ UNCHANGED told
    /\ UNCHANGED <<published, signed, startup, todo, known, inProgress, reloads>>

-----------------------------------------------------------------------------
(* The environment. *)

Publish(g, v) ==
    /\ "update" \in Faults
    /\ published' = [published EXCEPT ![g] = v]
    /\ UNCHANGED <<stored, signed, told, startup, todo, known, cached, frames,
                   live, flow, inProgress, reloads>>

\* (mutant) the proxies are remembered though their iframes are gone
ReloadButProxies ==
    /\ reloads < MaxReloads /\ startup # "before"
    /\ reloads' = reloads + 1
    /\ startup' = "before" /\ todo' = {} /\ frames' = <<>> /\ inProgress' = {}
    /\ known' = [g \in Gateways |-> None]
    /\ cached' = [g \in Gateways |-> NotCached]
    /\ flow' = [k \in Kinds |-> [g \in Gateways |-> Idle]]
    /\ told' = [g \in Gateways |-> "nothing"]
    /\ UNCHANGED <<published, stored, signed, live>>

\* The page is loaded again: what was in memory is gone.
Reload ==
    /\ reloads < MaxReloads /\ startup # "before"
    /\ reloads' = reloads + 1
    /\ startup' = "before" /\ todo' = {} /\ frames' = <<>> /\ inProgress' = {}
    /\ known' = [g \in Gateways |-> None]
    /\ cached' = [g \in Gateways |-> NotCached]
    /\ live' = [g \in Gateways |-> 0]
    /\ flow' = [k \in Kinds |-> [g \in Gateways |-> Idle]]
    /\ told' = [g \in Gateways |-> "nothing"]
    /\ UNCHANGED <<published, stored, signed>>

\* The next step of a flow, once the call it waits for is answered.
FlowStep(k, g) ==
    \/ ReadMap(k, g)
    \/ /\ k \in {"activate", "authorize"}
       /\ \/ FrameUp(k, g) \/ FrameFails(k, g) \/ Validated(k, g) \/ Sign(k, g)
          \/ Refused(k, g) \/ StoreAuthorization(k, g) \/ Connected(k, g)
          \/ ConnectFails(k, g)
    \/ k = "activate" /\ Reactivate(g)
    \/ k = "authorize" /\ (AuthorizeChecked(g) \/ AuthorizeCheckFails(g))
    \/ k = "deauthorize" /\ (DeauthorizeRead(g) \/ DeauthorizeLookup(g))
    \/ k \in {"decline", "deauthorize"} /\ (Asked(k, g) \/ RemoveAuthorization(k, g))

Next ==
    \/ ActivateAuthorizedGateways \/ StartupEnds \/ Reload
    \/ \E g \in Gateways :
           \/ ActivateAuthorizedGateway(g)
           \/ AuthorizeGateway(g) \/ DeauthorizeGateway(g) \/ UseProxy(g)
           \/ \E k \in Kinds : FlowStep(k, g)
           \/ \E v \in Versions \ {published[g]} : Publish(g, v)

Spec == Init /\ [][Next]_vars

\* Calls between the core, its storage, the wallet and an iframe are answered
\* sooner or later, unless the code never answers them. The user and the events
\* of the core owe nothing.
FairSpec ==
    /\ Spec
    /\ WF_vars(ActivateAuthorizedGateways) /\ WF_vars(StartupEnds)
    /\ \A g \in Gateways :
           /\ WF_vars(ActivateAuthorizedGateway(g))
           /\ \A k \in Kinds : WF_vars(FlowStep(k, g))

-----------------------------------------------------------------------------
(* Properties. *)

\* Only code the user has signed runs as a connector: whatever the gateway
\* publishes, and whatever flows meet, the iframe of an activated connector
\* holds a version for which _validateConnector or authorizeGateway got a
\* signature of the user.
SignedCodeRuns ==
    \A i \in 1..Len(frames) :
        frames[i].active => frames[i].code \in signed[frames[i].gateway]

\* Two flows of one gateway never both make its iframe: createGatewayProxy
\* checks existingProxies first and fills it much later, so that this depends on
\* which flows can be under way together.
OneFramePerGateway ==
    \A i, j \in 1..Len(frames) :
        /\ i # j
        /\ frames[i].alive /\ frames[j].alive
        => frames[i].gateway # frames[j].gateway

\* What the user was told stays true until he asks for something else:
\* an authorization that was reported is in storage...
AuthorizedIsStored ==
    \A g \in Gateways : told[g] = "authorized" => stored[g] # None

\* ... and a gateway that was reported deauthorized is not, and has no iframe.
DeauthorizedIsGone ==
    \A g \in Gateways :
        told[g] = "deauthorized"
        => /\ stored[g] = None
           /\ \A i \in 1..Len(frames) : frames[i].gateway = g => ~frames[i].alive

\* With a single gateway stored, nothing brings it back. With several, the lost
\* updates of the stored map may, since addAuthorizedGateway and deauthorizeGateway
\* read the map, change it and write all of it.
DeauthorizedStaysGone ==
    (\A g, h \in DOMAIN stored : g = h) => DeauthorizedIsGone

\* What _getActivatedGatewayProxy returns for an authorized gateway ("The goal of
\* this method is to return an activated gateway proxy") still has its iframe.
LookupFindsLiveProxy ==
    \A g \in Gateways :
        startup = "done" /\ stored[g] # None /\ cached[g].st = "ok"
        => frames[cached[g].frame].alive

\* Startup comes to an end, whatever fails: payments, balances and
\* deauthorizations all wait for activateAuthorizedGatewaysResult.
StartupFinishes == (startup = "running") ~> (startup = "done" \/ startup = "before")

\* A result in authorizedGatewayProxies resolves, the one of a second try ("This
\* is retryable") included: notifications and deauthorizations wait for it.
CacheResolves ==
    \A g \in Gateways :
        (cached[g].st = "pending") ~> (cached[g].st # "pending")

\* Writing the map of authorizations changes one gateway: authorizing or
\* deauthorizing one never touches what the user decided about another.
WritesOneGateway ==
    [][\A g, h \in Gateways :
        stored'[g] # stored[g] /\ stored'[h] # stored[h] => g = h]_vars

=============================================================================
