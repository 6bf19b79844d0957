---------------------- MODULE GatewayConnectors_proofs ----------------------
(***************************************************************************)
(* Types are correct, only signed code runs, a gateway has one iframe, and *)
(* a gateway that was taken back stays away, for any gateways, versions    *)
(* and bounds, and whatever goes wrong.                                    *)
(*                                                                         *)
(* What a flow will do was decided when it read: a signature before the    *)
(* iframe had its code, the map of authorizations before it is written     *)
(* back. The invariant says of each flow, proxy and cached result that the *)
(* iframe it refers to is one of its gateway, and of a flow that is past   *)
(* signing that the user signed the code of that iframe. Steps keep this   *)
(* because an iframe never changes its code, and no signature is unmade.   *)
(* That two flows never both make an iframe depends on which of them can   *)
(* be under way together: the second invariant, One, says it.              *)
(***************************************************************************)
EXTENDS GatewayConnectors, TLAPS

FrameRec == [gateway : Gateways, code : Versions, valid : BOOLEAN,
             alive : BOOLEAN, active : BOOLEAN]
Map == [Gateways -> Versions \cup {None}]
CacheRec == [st : {"none", "pending", "ok", "proxy", "plain", "denied"}, frame : 0..MaxFrames]
FlowRec == [pc : Pcs, frame : 0..MaxFrames, version : Versions \cup {None}, map : Map]

\* The iframes fs under the signatures sg: only signed code is active.
FramesOK(fs, sg) ==
    /\ fs \in Seq(FrameRec) /\ Len(fs) <= MaxFrames
    /\ \A i \in 1..Len(fs) : fs[i].active => fs[i].code \in sg[fs[i].gateway]

\* A stored map holds what was signed.
MapOK(m, sg) == m \in Map /\ \A g \in Gateways : m[g] # None => m[g] \in sg[g]

\* A reference of g is none, or to an iframe of g.
RefOK(i, g, fs) == i \in 0..Len(fs) /\ (i # 0 => fs[i].gateway = g)

CacheOK(c, g, fs) == c \in CacheRec /\ RefOK(c.frame, g, fs)

Connecting == {"activate", "authorize"}
Framed == {"validating", "signing", "reading", "storing", "connecting"}
Past == {"reading", "storing", "connecting"}

FlowOK(k, g, r, fs, sg) ==
    /\ r \in FlowRec /\ MapOK(r.map, sg) /\ RefOK(r.frame, g, fs)
    /\ k \in Connecting =>
           /\ r.pc \in Framed => r.frame # 0
           /\ r.pc \in Past => fs[r.frame].code \in sg[g]

\* All that refers to iframes and signatures.
Core(fs, sg, lv, ch, fl) ==
    /\ FramesOK(fs, sg)
    /\ lv \in [Gateways -> Nat] /\ \A g \in Gateways : RefOK(lv[g], g, fs)
    /\ ch \in [Gateways -> CacheRec] /\ \A g \in Gateways : CacheOK(ch[g], g, fs)
    /\ fl \in [Kinds -> [Gateways -> FlowRec]]
    /\ \A k \in Kinds, g \in Gateways : FlowOK(k, g, fl[k][g], fs, sg)

Rest ==
    /\ published \in [Gateways -> Versions]
    /\ signed \in [Gateways -> SUBSET Versions]
    /\ told \in [Gateways -> {"nothing", "authorized", "deauthorized"}]
    /\ startup \in {"before", "running", "done"}
    /\ todo \subseteq Gateways
    /\ inProgress \subseteq Gateways
    /\ reloads \in 0..MaxReloads
    /\ MapOK(stored, signed) /\ MapOK(known, signed)

Inv == Rest /\ Core(frames, signed, live, cached, flow)

\* Iframes keep their gateway and code, and signatures are only added.
Grows(fs, gs, sg, th) ==
    /\ Len(fs) <= Len(gs)
    /\ \A i \in 1..Len(fs) : gs[i].gateway = fs[i].gateway /\ gs[i].code = fs[i].code
    /\ \A g \in Gateways : sg[g] \subseteq th[g]

-----------------------------------------------------------------------------
(* Records of which one field changes. *)

LEMMA PcSet ==
    ASSUME NEW r \in FlowRec, NEW pc \in Pcs
    PROVE  LET s == [r EXCEPT !.pc = pc] IN
           /\ s \in FlowRec /\ s.pc = pc
           /\ s.frame = r.frame /\ s.map = r.map /\ s.version = r.version
BY DEF FlowRec

LEMMA FrameSet ==
    ASSUME NEW r \in FlowRec, NEW i \in 0..MaxFrames
    PROVE  [r EXCEPT !.frame = i]
           = [pc |-> r.pc, frame |-> i, version |-> r.version, map |-> r.map]
<1>1. r = [pc |-> r.pc, frame |-> r.frame, version |-> r.version, map |-> r.map]
  BY DEF FlowRec
<1> QED
  BY <1>1

LEMMA MapSet ==
    ASSUME NEW r \in FlowRec, NEW m \in Map
    PROVE  [r EXCEPT !.map = m]
           = [pc |-> r.pc, frame |-> r.frame, version |-> r.version, map |-> m]
<1>1. r = [pc |-> r.pc, frame |-> r.frame, version |-> r.version, map |-> r.map]
  BY DEF FlowRec
<1> QED
  BY <1>1

LEMMA AliveSet ==
    ASSUME NEW r \in FrameRec
    PROVE  LET s == [r EXCEPT !.alive = FALSE] IN
           /\ s \in FrameRec
           /\ s.gateway = r.gateway /\ s.code = r.code /\ s.active = r.active
BY DEF FrameRec

LEMMA ActiveSet ==
    ASSUME NEW r \in FrameRec
    PROVE  LET s == [r EXCEPT !.active = TRUE] IN
           s \in FrameRec /\ s.gateway = r.gateway /\ s.code = r.code
BY DEF FrameRec

-----------------------------------------------------------------------------
(* What is kept while iframes and signatures grow. *)

LEMMA MapGrows ==
    ASSUME NEW m, NEW fs, NEW gs, NEW sg, NEW th, Grows(fs, gs, sg, th), MapOK(m, sg)
    PROVE  MapOK(m, th)
BY DEF Grows, MapOK

LEMMA RefGrows ==
    ASSUME NEW i, NEW g, NEW fs \in Seq(FrameRec), NEW gs \in Seq(FrameRec), NEW sg, NEW th,
           Grows(fs, gs, sg, th), RefOK(i, g, fs)
    PROVE  RefOK(i, g, gs)
<1>1. Len(fs) \in Nat /\ Len(gs) \in Nat /\ Len(fs) <= Len(gs)
  BY DEF Grows
<1>2. i \in 0..Len(gs)
  BY <1>1 DEF RefOK
<1>3. ASSUME i # 0 PROVE gs[i].gateway = g
  <2>1. i \in 1..Len(fs)
    BY <1>1, <1>3 DEF RefOK
  <2> QED
    BY <1>3, <2>1 DEF RefOK, Grows
<1> QED
  BY <1>2, <1>3 DEF RefOK

LEMMA FlowGrows ==
    ASSUME NEW k, NEW g \in Gateways, NEW r, NEW fs \in Seq(FrameRec),
           NEW gs \in Seq(FrameRec), NEW sg, NEW th,
           Grows(fs, gs, sg, th), FlowOK(k, g, r, fs, sg)
    PROVE  FlowOK(k, g, r, gs, th)
<1>1. r \in FlowRec /\ MapOK(r.map, th) /\ RefOK(r.frame, g, gs)
  BY MapGrows, RefGrows DEF FlowOK
<1>2. ASSUME k \in Connecting, r.pc \in Framed PROVE r.frame # 0
  BY <1>2 DEF FlowOK
<1>3. ASSUME k \in Connecting, r.pc \in Past PROVE gs[r.frame].code \in th[g]
  <2>1. r.frame # 0 /\ fs[r.frame].code \in sg[g]
    BY <1>3 DEF FlowOK, Past, Framed
  <2>2. r.frame \in 1..Len(fs)
    BY <2>1 DEF FlowOK, RefOK
  <2> QED
    BY <2>1, <2>2 DEF Grows
<1> QED
  BY <1>1, <1>2, <1>3 DEF FlowOK

\* The iframes and the signatures grow, and nothing else changes.
LEMMA CoreGrows ==
    ASSUME NEW fs, NEW gs, NEW sg, NEW th, NEW lv, NEW ch, NEW fl,
           Core(fs, sg, lv, ch, fl), FramesOK(gs, th), Grows(fs, gs, sg, th)
    PROVE  Core(gs, th, lv, ch, fl)
<1>1. fs \in Seq(FrameRec) /\ gs \in Seq(FrameRec)
  BY DEF Core, FramesOK
<1>2. \A g \in Gateways : RefOK(lv[g], g, gs)
  BY <1>1, RefGrows DEF Core
<1>3. \A g \in Gateways : CacheOK(ch[g], g, gs)
  BY <1>1, RefGrows DEF Core, CacheOK
<1>4. \A k \in Kinds, g \in Gateways : FlowOK(k, g, fl[k][g], gs, th)
  BY <1>1, FlowGrows DEF Core
<1> QED
  BY <1>2, <1>3, <1>4 DEF Core

\* One more or one other flow, reference or result.
LEMMA CoreFlow ==
    ASSUME NEW fs, NEW sg, NEW lv, NEW ch, NEW fl, NEW k \in Kinds, NEW g \in Gateways, NEW r,
           Core(fs, sg, lv, ch, fl), FlowOK(k, g, r, fs, sg)
    PROVE  Core(fs, sg, lv, ch, [fl EXCEPT ![k][g] = r])
<1> DEFINE new == [fl EXCEPT ![k][g] = r]
<1>1. r \in FlowRec /\ fl \in [Kinds -> [Gateways -> FlowRec]]
  BY DEF Core, FlowOK
<1>2. new \in [Kinds -> [Gateways -> FlowRec]]
  BY <1>1
<1>3. \A j \in Kinds, h \in Gateways :
          new[j][h] = IF j = k /\ h = g THEN r ELSE fl[j][h]
  BY <1>1
<1>4. \A j \in Kinds, h \in Gateways : FlowOK(j, h, new[j][h], fs, sg)
  BY <1>3 DEF Core
<1> QED
  BY <1>2, <1>4 DEF Core

LEMMA CoreLive ==
    ASSUME NEW fs, NEW sg, NEW lv, NEW ch, NEW fl, NEW g \in Gateways, NEW i,
           Core(fs, sg, lv, ch, fl), RefOK(i, g, fs)
    PROVE  Core(fs, sg, [lv EXCEPT ![g] = i], ch, fl)
<1> DEFINE new == [lv EXCEPT ![g] = i]
<1>1. i \in Nat /\ lv \in [Gateways -> Nat]
  BY DEF Core, RefOK
<1>2. new \in [Gateways -> Nat] /\ \A h \in Gateways : new[h] = IF h = g THEN i ELSE lv[h]
  BY <1>1
<1>3. \A h \in Gateways : RefOK(new[h], h, fs)
  BY <1>2 DEF Core
<1> QED
  BY <1>2, <1>3 DEF Core

LEMMA CoreCache ==
    ASSUME NEW fs, NEW sg, NEW lv, NEW ch, NEW fl, NEW g \in Gateways, NEW c,
           Core(fs, sg, lv, ch, fl), CacheOK(c, g, fs)
    PROVE  Core(fs, sg, lv, [ch EXCEPT ![g] = c], fl)
<1> DEFINE new == [ch EXCEPT ![g] = c]
<1>1. c \in CacheRec /\ ch \in [Gateways -> CacheRec]
  BY DEF Core, CacheOK
<1>2. new \in [Gateways -> CacheRec] /\ \A h \in Gateways : new[h] = IF h = g THEN c ELSE ch[h]
  BY <1>1
<1>3. \A h \in Gateways : CacheOK(new[h], h, fs)
  BY <1>2 DEF Core
<1> QED
  BY <1>2, <1>3 DEF Core

\* An iframe that is taken away.
LEMMA CoreDestroyed ==
    ASSUME NEW fs, NEW sg, NEW lv, NEW ch, NEW fl, NEW i,
           Core(fs, sg, lv, ch, fl), i \in 1..Len(fs)
    PROVE  Core([fs EXCEPT ![i].alive = FALSE], sg, lv, ch, fl)
<1> DEFINE gs == [fs EXCEPT ![i].alive = FALSE]
<1>1. fs \in Seq(FrameRec) /\ Len(fs) <= MaxFrames
  BY DEF Core, FramesOK
<1>2. gs \in Seq(FrameRec) /\ Len(gs) = Len(fs)
  <2>1. fs[i] \in FrameRec /\ [fs[i] EXCEPT !.alive = FALSE] \in FrameRec
    BY <1>1, AliveSet
  <2> QED
    BY <1>1, <2>1
<1>3. \A j \in 1..Len(fs) : /\ gs[j].gateway = fs[j].gateway /\ gs[j].code = fs[j].code
                            /\ gs[j].active = fs[j].active
  <2> SUFFICES ASSUME NEW j \in 1..Len(fs)
               PROVE  /\ gs[j].gateway = fs[j].gateway /\ gs[j].code = fs[j].code
                      /\ gs[j].active = fs[j].active
    OBVIOUS
  <2>1. gs[j] = IF j = i THEN [fs[i] EXCEPT !.alive = FALSE] ELSE fs[j]
    BY <1>1
  <2>2. fs[i] \in FrameRec
    BY <1>1
  <2> QED
    BY <2>1, <2>2, AliveSet
<1>4. FramesOK(gs, sg)
  BY <1>1, <1>2, <1>3 DEF Core, FramesOK
<1>5. Grows(fs, gs, sg, sg)
  BY <1>1, <1>2, <1>3 DEF Grows
<1> QED
  BY <1>4, <1>5, CoreGrows

-----------------------------------------------------------------------------
(* The parts of steps. *)

LEMMA IdleOK ==
    ASSUME NEW k, NEW g, NEW fs \in Seq(FrameRec), NEW sg
    PROVE  FlowOK(k, g, Idle, fs, sg)
<1>1. Len(fs) \in Nat
  OBVIOUS
<1>2. Idle \in FlowRec
  BY BoundsAssumption DEF Idle, FlowRec, Pcs, Map
<1>3. MapOK(Idle.map, sg)
  BY DEF Idle, MapOK, Map
<1>4. RefOK(Idle.frame, g, fs)
  BY <1>1 DEF Idle, RefOK
<1> QED
  BY <1>2, <1>3, <1>4 DEF FlowOK, Idle, Framed, Past

\* A flow gets another program counter, and has what it needs there.
LEMMA CoreGoto ==
    ASSUME NEW fs, NEW sg, NEW lv, NEW ch, NEW fl, NEW k \in Kinds, NEW g \in Gateways,
           NEW pc \in Pcs, Core(fs, sg, lv, ch, fl),
           k \in Connecting /\ pc \in Framed => fl[k][g].frame # 0,
           k \in Connecting /\ pc \in Past => fs[fl[k][g].frame].code \in sg[g]
    PROVE  Core(fs, sg, lv, ch, [fl EXCEPT ![k][g].pc = pc])
<1> DEFINE r == [fl[k][g] EXCEPT !.pc = pc]
<1>1. fl \in [Kinds -> [Gateways -> FlowRec]] /\ FlowOK(k, g, fl[k][g], fs, sg)
  BY DEF Core
<1>2. r \in FlowRec /\ r.pc = pc /\ r.frame = fl[k][g].frame /\ r.map = fl[k][g].map
  <2>1. fl[k][g] \in FlowRec
    BY <1>1
  <2> QED
    BY <2>1, PcSet
<1>3. FlowOK(k, g, r, fs, sg)
  BY <1>1, <1>2 DEF FlowOK
<1>4. [fl EXCEPT ![k][g].pc = pc] = [fl EXCEPT ![k][g] = r]
  BY <1>1
<1> QED
  BY <1>3, <1>4, CoreFlow

\* Two flows of a gateway change at once.
LEMMA CoreTwoFlows ==
    ASSUME NEW fs, NEW sg, NEW lv, NEW ch, NEW fl, NEW k \in Kinds, NEW j \in Kinds,
           NEW g \in Gateways, NEW r, NEW s, Core(fs, sg, lv, ch, fl),
           FlowOK(k, g, r, fs, sg), FlowOK(j, g, s, fs, sg)
    PROVE  Core(fs, sg, lv, ch, [fl EXCEPT ![k][g] = r, ![j][g] = s])
<1> DEFINE fm == [fl EXCEPT ![k][g] = r]
<1>1. Core(fs, sg, lv, ch, fm)
  BY CoreFlow
<1>2. Core(fs, sg, lv, ch, [fm EXCEPT ![j][g] = s])
  BY <1>1, CoreFlow
<1> QED
  BY <1>2

LEMMA DestroyKeeps ==
    ASSUME NEW sg, NEW ch, NEW fl, NEW g \in Gateways,
           Core(frames, sg, live, ch, fl), DestroyProxy(g)
    PROVE  Core(frames', sg, live', ch, fl)
<1>1. frames \in Seq(FrameRec) /\ RefOK(live[g], g, frames)
  BY DEF Core, FramesOK
<1>2. Core(frames', sg, live, ch, fl)
  <2>1. CASE live[g] = 0
    BY <2>1 DEF DestroyProxy, DestroyedFrames
  <2>2. CASE live[g] # 0
    <3>1. live[g] \in 1..Len(frames)
      BY <1>1, <2>2 DEF RefOK
    <3>2. frames' = [frames EXCEPT ![live[g]].alive = FALSE]
      BY <2>2 DEF DestroyProxy, DestroyedFrames
    <3> QED
      BY <3>1, <3>2, CoreDestroyed
  <2> QED
    BY <2>1, <2>2
<1>3. RefOK(0, g, frames')
  <2>1. Len(frames') \in Nat
    BY <1>2 DEF Core, FramesOK
  <2> QED
    BY <2>1 DEF RefOK
<1> QED
  BY <1>2, <1>3, CoreLive DEF DestroyProxy

Errors == {"proxy", "plain", "denied"}

LEMMA ErrorOK ==
    ASSUME NEW e \in Errors \cup {"pending"}, NEW g, NEW fs \in Seq(FrameRec)
    PROVE  CacheOK([st |-> e, frame |-> 0], g, fs)
<1>1. Len(fs) \in Nat
  OBVIOUS
<1> QED
  BY <1>1, BoundsAssumption DEF CacheOK, CacheRec, RefOK, Errors

LEMMA FailKeeps ==
    ASSUME Inv, NEW k \in Connecting, NEW g \in Gateways, NEW e \in Errors, Fail(k, g, e)
    PROVE  Core(frames', signed, live', cached', flow') /\ inProgress' \subseteq Gateways
<1>1. Core(frames, signed, live, cached, flow) /\ inProgress \subseteq Gateways
  BY DEF Inv, Rest
<1>2. frames \in Seq(FrameRec)
  BY <1>1 DEF Core, FramesOK
<1>3. CASE k = "activate"
  <2>1. ActivationFailed(g, e)
    BY <1>3 DEF Fail
  <2>2. Core(frames, signed, live, cached', flow)
    BY <1>1, <1>2, <2>1, ErrorOK, CoreCache DEF ActivationFailed
  <2>3. Core(frames, signed, live, cached', flow')
    <3>1. "activate" \in Kinds /\ "decline" \in Kinds
      BY DEF Kinds
    <3>2. FlowOK("activate", g, Idle, frames, signed) /\ FlowOK("decline", g, Idle, frames, signed)
      BY <1>2, IdleOK
    <3>3. Core(frames, signed, live, cached',
               [flow EXCEPT !["activate"][g] = Idle, !["decline"][g] = Idle])
      BY <2>2, <3>1, <3>2, CoreTwoFlows
    <3> QED
      BY <2>1, <3>3 DEF ActivationFailed
  <2>4. Core(frames', signed, live', cached', flow')
    BY <2>1, <2>3, DestroyKeeps DEF ActivationFailed
  <2> QED
    BY <1>1, <2>1, <2>4 DEF ActivationFailed
<1>4. CASE k # "activate"
  <2>1. AuthorizationFailed(g)
    BY <1>4 DEF Fail
  <2>2. Core(frames, signed, live, cached', flow')
    <3>1. FlowOK("authorize", g, Idle, frames, signed) /\ "authorize" \in Kinds
      BY <1>2, IdleOK DEF Kinds
    <3> QED
      BY <1>1, <2>1, <3>1, CoreFlow DEF AuthorizationFailed, Ended
  <2>3. Core(frames', signed, live', cached', flow')
    BY <2>1, <2>2, DestroyKeeps DEF AuthorizationFailed
  <2> QED
    BY <1>1, <2>1, <2>3 DEF AuthorizationFailed
<1> QED
  BY <1>3, <1>4

LEMMA CallKeeps ==
    ASSUME Inv, NEW k \in Connecting, NEW g \in Gateways, NEW pc \in Pcs,
           flow[k][g].frame # 0,
           pc \in Past => Frame(k, g).code \in signed[g],
           Call(k, g, pc)
    PROVE  Core(frames', signed, live', cached', flow') /\ inProgress' \subseteq Gateways
<1>1. CASE Frame(k, g).alive
  <2>1. Core(frames, signed, live, cached, flow) /\ inProgress \subseteq Gateways /\ k \in Kinds
    BY DEF Inv, Rest, Connecting, Kinds
  <2>2. Core(frames, signed, live, cached, Goto(k, g, pc))
    BY <2>1, CoreGoto DEF Goto, Frame
  <2> QED
    BY <1>1, <2>1, <2>2 DEF Call
<1>2. CASE ~Frame(k, g).alive
  BY <1>2, FailKeeps DEF Call, Errors
<1> QED
  BY <1>1, <1>2

-----------------------------------------------------------------------------
(* The actions. *)

LEMMA Facts ==
    ASSUME Inv, NEW k \in Kinds, NEW g \in Gateways
    PROVE  /\ Core(frames, signed, live, cached, flow)
           /\ frames \in Seq(FrameRec) /\ Len(frames) \in Nat
           /\ FlowOK(k, g, flow[k][g], frames, signed)
           /\ flow[k][g] \in FlowRec
           /\ CacheOK(cached[g], g, frames) /\ RefOK(live[g], g, frames)
BY DEF Inv, Core, FramesOK, FlowOK

LEMMA ConnectingKinds == Connecting \subseteq Kinds
BY DEF Connecting, Kinds

LEMMA LaunchedKeeps ==
    ASSUME Inv, NEW k \in Kinds, NEW g \in Gateways, NEW v \in Versions
    PROVE  Core(frames, signed, live, cached, Launched(k, g, v))
<1> DEFINE r == [pc |-> IF live[g] = 0 THEN "creating" ELSE "validating",
                 frame |-> live[g], version |-> v, map |-> Idle.map]
<1>1. /\ Core(frames, signed, live, cached, flow)
      /\ frames \in Seq(FrameRec) /\ Len(frames) \in Nat /\ RefOK(live[g], g, frames)
  BY Facts
<1>2. live[g] \in 0..MaxFrames
  <2>1. Len(frames) <= MaxFrames
    BY <1>1 DEF Core, FramesOK
  <2> QED
    BY <1>1, <2>1, BoundsAssumption DEF RefOK
<1>3. Idle.map \in Map /\ MapOK(Idle.map, signed)
  BY DEF Idle, MapOK, Map
<1>4. FlowOK(k, g, r, frames, signed)
  BY <1>1, <1>2, <1>3 DEF FlowOK, FlowRec, Pcs, Framed, Past
<1> QED
  BY <1>1, <1>4, CoreFlow DEF Launched

LEMMA EndedKeeps ==
    ASSUME NEW lv, NEW ch, NEW fs, NEW k \in Kinds, NEW g \in Gateways,
           Core(fs, signed, lv, ch, flow)
    PROVE  Core(fs, signed, lv, ch, Ended(k, g))
<1>1. FlowOK(k, g, Idle, fs, signed)
  BY IdleOK DEF Core, FramesOK
<1> QED
  BY <1>1, CoreFlow DEF Ended

\* A program counter at which nothing is needed.
LEMMA GotoKeeps ==
    ASSUME NEW lv, NEW ch, NEW fs, NEW k \in Kinds, NEW g \in Gateways,
           NEW pc \in Pcs, pc \notin Framed,
           Core(fs, signed, lv, ch, flow)
    PROVE  Core(fs, signed, lv, ch, Goto(k, g, pc))
BY CoreGoto DEF Goto, Framed, Past

LEMMA ActivateAllKeeps ==
    ASSUME Inv, ActivateAuthorizedGateways PROVE Inv'
<1>1. Core(frames, signed, live, cached, flow)' 
  BY DEF Inv, ActivateAuthorizedGateways
<1>2. MapOK([g \in Gateways |-> None], signed)
  BY DEF MapOK, Map
<1>3. Rest'
  BY <1>2 DEF Inv, Rest, ActivateAuthorizedGateways
<1> QED
  BY <1>1, <1>3 DEF Inv

LEMMA ActivateKeeps ==
    ASSUME Inv, NEW g \in Gateways, ActivateAuthorizedGateway(g) PROVE Inv'
<1>1. Rest'
  BY DEF Inv, Rest, ActivateAuthorizedGateway
<1>2. "activate" \in Kinds /\ published[g] \in Versions
  BY DEF Kinds, Inv, Rest
<1>3. CASE cached[g].st = "none"
  <2>1. Core(frames, signed, live, cached, flow')
    BY <1>2, <1>3, LaunchedKeeps DEF ActivateAuthorizedGateway
  <2>2. CacheOK([st |-> "pending", frame |-> 0], g, frames)
    BY <1>2, Facts, ErrorOK
  <2>3. Core(frames, signed, live, cached', flow')
    BY <1>3, <2>1, <2>2, CoreCache DEF ActivateAuthorizedGateway
  <2> QED
    BY <1>1, <2>3 DEF Inv, ActivateAuthorizedGateway
<1>4. CASE cached[g].st # "none"
  BY <1>1, <1>4 DEF Inv, ActivateAuthorizedGateway
<1> QED
  BY <1>3, <1>4

LEMMA StartupEndsKeeps ==
    ASSUME Inv, StartupEnds PROVE Inv'
BY DEF Inv, Rest, StartupEnds

LEMMA AuthorizeKeeps ==
    ASSUME Inv, NEW g \in Gateways, AuthorizeGateway(g) PROVE Inv'
<1>1. Rest'
  BY DEF Inv, Rest, AuthorizeGateway
<1>2. Core(frames, signed, live, cached, flow')
  <2>1. Core(frames, signed, live, cached, flow)
    BY DEF Inv
  <2>2. Core(frames, signed, live, cached, Goto("authorize", g, "checking"))
    BY <2>1, GotoKeeps DEF Kinds, Pcs, Framed
  <2> QED
    BY <2>1, <2>2 DEF AuthorizeGateway
<1> QED
  BY <1>1, <1>2 DEF Inv, AuthorizeGateway

LEMMA AuthorizeCheckedKeeps ==
    ASSUME Inv, NEW g \in Gateways, AuthorizeChecked(g) PROVE Inv'
<1>1. Rest'
  BY DEF Inv, Rest, AuthorizeChecked
<1>2. Core(frames, signed, live, cached, flow')
  <2>1. Core(frames, signed, live, cached, flow) /\ "authorize" \in Kinds
        /\ published[g] \in Versions
    BY DEF Inv, Kinds, Rest
  <2> QED
    BY <2>1, EndedKeeps, LaunchedKeeps DEF AuthorizeChecked
<1> QED
  BY <1>1, <1>2 DEF Inv, AuthorizeChecked

LEMMA AuthorizeCheckFailsKeeps ==
    ASSUME Inv, NEW g \in Gateways, AuthorizeCheckFails(g) PROVE Inv'
<1>1. Rest'
  BY DEF Inv, Rest, AuthorizeCheckFails
<1>2. Core(frames, signed, live, cached, flow')
  BY EndedKeeps DEF Inv, Kinds, AuthorizeCheckFails
<1> QED
  BY <1>1, <1>2 DEF Inv, AuthorizeCheckFails

\* A flow goes on with an iframe of its gateway.
LEMMA CoreGotoFrame ==
    ASSUME NEW fs, NEW sg, NEW lv, NEW ch, NEW fl, NEW k \in Kinds, NEW g \in Gateways,
           NEW pc \in Pcs, pc \notin Past, NEW i \in 0..MaxFrames,
           Core(fs, sg, lv, ch, fl), RefOK(i, g, fs), pc \in Framed => i # 0
    PROVE  Core(fs, sg, lv, ch, [fl EXCEPT ![k][g].pc = pc, ![k][g].frame = i])
<1> DEFINE old == fl[k][g]
           r == [pc |-> pc, frame |-> i, version |-> old.version, map |-> old.map]
<1>1. fl \in [Kinds -> [Gateways -> FlowRec]] /\ FlowOK(k, g, old, fs, sg)
  BY DEF Core
<1>2. old \in FlowRec
  BY <1>1
<1>3. FlowOK(k, g, r, fs, sg)
  BY <1>1, <1>2 DEF FlowOK, FlowRec
<1>4. [fl EXCEPT ![k][g].pc = pc, ![k][g].frame = i] = [fl EXCEPT ![k][g] = r]
  <2> DEFINE mid == [old EXCEPT !.pc = pc]
             fm == [fl EXCEPT ![k][g] = mid]
  <2>1. mid \in FlowRec /\ r = [mid EXCEPT !.frame = i]
    <3>1. mid \in FlowRec /\ mid.pc = pc /\ mid.frame = old.frame
          /\ mid.map = old.map /\ mid.version = old.version
      BY <1>2, PcSet
    <3> HIDE DEF mid
    <3> QED
      BY <3>1, FrameSet
  <2>2. [fl EXCEPT ![k][g].pc = pc] = fm
    BY <1>1
  <2>3. fm \in [Kinds -> [Gateways -> FlowRec]] /\ fm[k][g] = mid
    BY <1>1, <2>1
  <2>4. [fm EXCEPT ![k][g].frame = i] = [fm EXCEPT ![k][g] = r]
    <3> HIDE DEF fm, mid
    <3> QED
      BY <2>1, <2>3
  <2>5. [fm EXCEPT ![k][g] = r] = [fl EXCEPT ![k][g] = r]
    BY <1>1
  <2> QED
    BY <2>2, <2>4, <2>5
<1> QED
  BY <1>3, <1>4, CoreFlow

\* A flow goes on with a copy of the stored map.
LEMMA CoreGotoMap ==
    ASSUME NEW fs, NEW sg, NEW lv, NEW ch, NEW fl, NEW k \in Kinds, NEW g \in Gateways,
           NEW pc \in Pcs, NEW m, MapOK(m, sg), Core(fs, sg, lv, ch, fl),
           k \in Connecting /\ pc \in Framed => fl[k][g].frame # 0,
           k \in Connecting /\ pc \in Past => fs[fl[k][g].frame].code \in sg[g]
    PROVE  Core(fs, sg, lv, ch, [fl EXCEPT ![k][g].pc = pc, ![k][g].map = m])
<1> DEFINE old == fl[k][g]
           r == [pc |-> pc, frame |-> old.frame, version |-> old.version, map |-> m]
<1>1. fl \in [Kinds -> [Gateways -> FlowRec]] /\ FlowOK(k, g, old, fs, sg)
  BY DEF Core
<1>2. old \in FlowRec
  BY <1>1
<1>3. FlowOK(k, g, r, fs, sg)
  BY <1>1, <1>2 DEF FlowOK, FlowRec, MapOK
<1>4. [fl EXCEPT ![k][g].pc = pc, ![k][g].map = m] = [fl EXCEPT ![k][g] = r]
  <2> DEFINE mid == [old EXCEPT !.pc = pc]
             fm == [fl EXCEPT ![k][g] = mid]
  <2>1. mid \in FlowRec /\ r = [mid EXCEPT !.map = m]
    <3>1. mid \in FlowRec /\ mid.pc = pc /\ mid.frame = old.frame
          /\ mid.map = old.map /\ mid.version = old.version
      BY <1>2, PcSet
    <3> HIDE DEF mid
    <3> QED
      BY <3>1, MapSet DEF MapOK
  <2>2. [fl EXCEPT ![k][g].pc = pc] = fm
    BY <1>1
  <2>3. fm \in [Kinds -> [Gateways -> FlowRec]] /\ fm[k][g] = mid
    BY <1>1, <2>1
  <2>4. [fm EXCEPT ![k][g].map = m] = [fm EXCEPT ![k][g] = r]
    <3> HIDE DEF fm, mid
    <3> QED
      BY <2>1, <2>3
  <2>5. [fm EXCEPT ![k][g] = r] = [fl EXCEPT ![k][g] = r]
    BY <1>1
  <2> QED
    BY <2>2, <2>4, <2>5
<1> QED
  BY <1>3, <1>4, CoreFlow

\* An iframe that is made, its connector not yet active.
LEMMA CoreAppended ==
    ASSUME NEW fs, NEW sg, NEW lv, NEW ch, NEW fl, NEW f \in FrameRec, ~f.active,
           Core(fs, sg, lv, ch, fl), Len(fs) < MaxFrames
    PROVE  Core(Append(fs, f), sg, lv, ch, fl) /\ Len(Append(fs, f)) = Len(fs) + 1
<1> DEFINE gs == Append(fs, f)
<1>1. fs \in Seq(FrameRec) /\ Len(fs) \in Nat
  BY DEF Core, FramesOK
<1>2. gs \in Seq(FrameRec) /\ Len(gs) = Len(fs) + 1
  BY <1>1
<1>3. \A i \in 1..Len(fs) : gs[i] = fs[i]
  BY <1>1
<1>4. gs[Len(fs) + 1] = f
  BY <1>1
<1>5. FramesOK(gs, sg)
  <2>1. \A i \in 1..Len(gs) : i \in 1..Len(fs) \/ i = Len(fs) + 1
    BY <1>1, <1>2
  <2> HIDE DEF gs
  <2>2. \A i \in 1..Len(gs) : gs[i].active => gs[i].code \in sg[gs[i].gateway]
    BY <1>3, <1>4, <2>1 DEF Core, FramesOK
  <2>3. Len(gs) <= MaxFrames
    BY <1>1, <1>2, BoundsAssumption
  <2> QED
    BY <1>2, <2>2, <2>3 DEF FramesOK
<1>6. Grows(fs, gs, sg, sg)
  <2> HIDE DEF gs
  <2> QED
    BY <1>1, <1>2, <1>3 DEF Grows
<1> QED
  BY <1>2, <1>5, <1>6, CoreGrows

LEMMA FrameUpKeeps ==
    ASSUME Inv, NEW k \in Connecting, NEW g \in Gateways, FrameUp(k, g) PROVE Inv'
<1> DEFINE f == [gateway |-> g, code |-> published[g],
                 valid |-> published[g] = flow[k][g].version,
                 alive |-> TRUE, active |-> FALSE]
           n == Len(frames) + 1
<1>1. Rest'
  BY DEF Inv, Rest, FrameUp
<1>2. k \in Kinds /\ f \in FrameRec /\ ~f.active /\ f.gateway = g
  BY ConnectingKinds DEF Inv, Rest, FrameRec
<1>3. /\ Core(frames, signed, live, cached, flow) /\ frames \in Seq(FrameRec)
      /\ Len(frames) \in Nat /\ Len(frames) < MaxFrames /\ n \in 1..MaxFrames
  BY <1>2, Facts, BoundsAssumption DEF FrameUp
<1>4. frames' = Append(frames, f)
  BY DEF FrameUp
<1>5. Core(frames', signed, live, cached, flow) /\ Len(frames') = n
  BY <1>2, <1>3, <1>4, CoreAppended
<1>6. RefOK(n, g, frames')
  <2>1. frames'[n] = f
    BY <1>3, <1>4
  <2> HIDE DEF f
  <2> QED
    BY <1>2, <1>3, <1>5, <2>1 DEF RefOK
<1>7. Core(frames', signed, live', cached, flow)
  BY <1>5, <1>6, CoreLive DEF FrameUp
<1>8. Core(frames', signed, live', cached, flow')
  <2>1. "validating" \in Pcs /\ "validating" \notin Past
    BY DEF Pcs, Past
  <2>2. n \in 0..MaxFrames /\ n # 0
    BY <1>3
  <2>3. flow' = [flow EXCEPT ![k][g].pc = "validating", ![k][g].frame = n]
    BY DEF FrameUp
  <2> HIDE DEF n
  <2> QED
    BY <1>2, <1>6, <1>7, <2>1, <2>2, <2>3, CoreGotoFrame
<1> QED
  BY <1>1, <1>8 DEF Inv, FrameUp

\* A step that does no more than a Fail or a Call.
Others == <<published, stored, signed, told, startup, todo, known, reloads>>

LEMMA OthersKeep ==
    ASSUME Inv, UNCHANGED Others, inProgress' \subseteq Gateways,
           Core(frames', signed, live', cached', flow')
    PROVE  Inv'
BY DEF Inv, Rest, Others

LEMMA FrameFailsKeeps ==
    ASSUME Inv, NEW k \in Connecting, NEW g \in Gateways, FrameFails(k, g) PROVE Inv'
BY FailKeeps, OthersKeep DEF FrameFails, Errors, Others

LEMMA ConnectFailsKeeps ==
    ASSUME Inv, NEW k \in Connecting, NEW g \in Gateways, ConnectFails(k, g) PROVE Inv'
BY FailKeeps, OthersKeep DEF ConnectFails, Errors, Others

\* What an activation knows of the gateway was signed by the user.
LEMMA ValidatedKeeps ==
    ASSUME Inv, NEW k \in Connecting, NEW g \in Gateways, Validated(k, g) PROVE Inv'
<1>1. /\ k \in Kinds /\ Core(frames, signed, live, cached, flow)
      /\ FlowOK(k, g, flow[k][g], frames, signed)
  BY ConnectingKinds, Facts
<1>2. flow[k][g].frame # 0
  BY <1>1 DEF Validated, Pc, FlowOK, Framed
<1>3. UNCHANGED Others
  BY DEF Validated, Others
<1>4. CASE ~Frame(k, g).valid
  BY <1>3, <1>4, FailKeeps, OthersKeep DEF Validated, Errors
<1>5. CASE Frame(k, g).valid /\ Approved(k, g)
  <2>1. Frame(k, g).code \in signed[g]
    <3>1. frames[flow[k][g].frame] \in FrameRec
      BY <1>1, <1>2 DEF Core, FramesOK, FlowOK, RefOK
    <3>2. Frame(k, g).code \in Versions
      BY <3>1 DEF Frame, FrameRec
    <3> QED
      BY <1>5, <3>2, NoneAssumption DEF Approved, Inv, Rest, MapOK
  <2>2. "connecting" \in Pcs
    BY DEF Pcs
  <2>3. Call(k, g, "connecting")
    BY <1>5 DEF Validated
  <2> QED
    BY <1>2, <1>3, <2>1, <2>2, <2>3, CallKeeps, OthersKeep
<1>6. CASE Frame(k, g).valid /\ ~Approved(k, g)
  <2>1. Core(frames, signed, live, cached, Goto(k, g, "signing"))
    BY <1>1, <1>2, CoreGoto DEF Goto, Pcs, Past
  <2> QED
    BY <1>3, <1>6, <2>1, OthersKeep DEF Validated, Inv, Rest
<1> QED
  BY <1>4, <1>5, <1>6

LEMMA SignKeeps ==
    ASSUME Inv, NEW k \in Connecting, NEW g \in Gateways, Sign(k, g) PROVE Inv'
<1> DEFINE c == Frame(k, g).code
<1>1. /\ k \in Kinds /\ Core(frames, signed, live, cached, flow)
      /\ frames \in Seq(FrameRec) /\ FlowOK(k, g, flow[k][g], frames, signed)
  BY ConnectingKinds, Facts
<1>2. flow[k][g].frame # 0 /\ flow[k][g].frame \in 1..Len(frames)
  BY <1>1 DEF Sign, Pc, FlowOK, Framed, RefOK
<1>3. frames[flow[k][g].frame] \in FrameRec
  BY <1>1, <1>2
<1>4. c \in Versions
  BY <1>3 DEF Frame, FrameRec
<1>5. signed \in [Gateways -> SUBSET Versions] /\ signed' = [signed EXCEPT ![g] = @ \cup {c}]
  BY DEF Inv, Rest, Sign
<1>6. /\ signed' \in [Gateways -> SUBSET Versions] /\ c \in signed'[g]
      /\ \A h \in Gateways : signed[h] \subseteq signed'[h]
  BY <1>4, <1>5
<1>7. Grows(frames, frames, signed, signed')
  BY <1>1, <1>6 DEF Grows
<1>8. FramesOK(frames, signed')
  <2> SUFFICES ASSUME NEW i \in 1..Len(frames), frames[i].active
               PROVE  frames[i].code \in signed'[frames[i].gateway]
    BY <1>1 DEF Core, FramesOK
  <2>1. frames[i] \in FrameRec
    BY <1>1
  <2>2. frames[i].gateway \in Gateways
    BY <2>1 DEF FrameRec
  <2> QED
    BY <1>1, <1>6, <2>2 DEF Core, FramesOK
<1>9. Core(frames, signed', live, cached, flow)
  BY <1>1, <1>7, <1>8, CoreGrows
<1>10. Core(frames, signed', live, cached, Goto(k, g, "reading"))
  <2>1. "reading" \in Pcs
    BY DEF Pcs
  <2>2. frames[flow[k][g].frame].code \in signed'[g]
    BY <1>6 DEF Frame
  <2> QED
    BY <1>1, <1>2, <1>9, <2>1, <2>2, CoreGoto DEF Goto
<1>11. Rest'
  <2>1. MapOK(stored, signed') /\ MapOK(known, signed')
    BY <1>6 DEF Inv, Rest, MapOK
  <2> QED
    BY <1>6, <2>1 DEF Inv, Rest, Sign
<1> QED
  BY <1>10, <1>11 DEF Inv, Sign

LEMMA RefusedKeeps ==
    ASSUME Inv, NEW k \in Connecting, NEW g \in Gateways, Refused(k, g) PROVE Inv'
<1>1. /\ k \in Kinds /\ Core(frames, signed, live, cached, flow)
      /\ frames \in Seq(FrameRec) /\ FlowOK(k, g, flow[k][g], frames, signed)
      /\ flow[k][g] \in FlowRec
  BY ConnectingKinds, Facts
<1>2. UNCHANGED Others
  BY DEF Refused, Others
<1>3. CASE k = "activate"
  <2> DEFINE r == [pc |-> IF Frame(k, g).alive THEN "asking" ELSE "reading",
                   frame |-> flow[k][g].frame, version |-> None, map |-> Idle.map]
             fm == [flow EXCEPT ![k][g].pc = "declining"]
  <2>1. Core(frames, signed, live, cached, fm)
    BY <1>1, CoreGoto DEF Pcs, Framed, Past
  <2>2. Idle.map \in Map /\ MapOK(Idle.map, signed)
    BY DEF Idle, MapOK, Map
  <2>3. FlowOK("decline", g, r, frames, signed)
    BY <1>1, <2>2 DEF FlowOK, FlowRec, Pcs, Connecting
  <2>4. Core(frames, signed, live, cached, [fm EXCEPT !["decline"][g] = r])
    <3>1. "decline" \in Kinds
      BY DEF Kinds
    <3> HIDE DEF fm, r
    <3> QED
      BY <2>1, <2>3, <3>1, CoreFlow
  <2>5. flow' = [fm EXCEPT !["decline"][g] = r]
    BY <1>3 DEF Refused
  <2> HIDE DEF fm, r
  <2> QED
    BY <1>2, <1>3, <2>4, <2>5, OthersKeep DEF Refused, Inv, Rest
<1>4. CASE k # "activate"
  <2>1. Fail(k, g, "plain") /\ "plain" \in Errors
    BY <1>4 DEF Refused, Errors
  <2> QED
    BY <1>2, <2>1, FailKeeps, OthersKeep
<1> QED
  BY <1>3, <1>4

LEMMA ReadMapKeeps ==
    ASSUME Inv, NEW k \in Kinds, NEW g \in Gateways, ReadMap(k, g) PROVE Inv'
<1>1. /\ Core(frames, signed, live, cached, flow) /\ FlowOK(k, g, flow[k][g], frames, signed)
      /\ MapOK(stored, signed)
  BY Facts DEF Inv, Rest
<1>2. k \in Connecting => flow[k][g].frame # 0 /\ frames[flow[k][g].frame].code \in signed[g]
  BY <1>1 DEF ReadMap, Pc, FlowOK, Framed, Past
<1>3. "storing" \in Pcs
  BY DEF Pcs
<1>4. Core(frames, signed, live, cached,
           [flow EXCEPT ![k][g].pc = "storing", ![k][g].map = stored])
  BY <1>1, <1>2, <1>3, CoreGotoMap
<1>5. Rest'
  BY DEF Inv, Rest, ReadMap
<1> QED
  BY <1>4, <1>5 DEF Inv, ReadMap

\* The stored map keeps its type and holds what was signed.
LEMMA WriteKeeps ==
    ASSUME Inv, NEW k \in Kinds, NEW g \in Gateways, NEW v \in Versions \cup {None},
           v # None => v \in signed[g], WriteMap(k, g, v)
    PROVE  MapOK(stored', signed)
<1>1. MapOK(stored, signed) /\ MapOK(flow[k][g].map, signed)
  BY Facts DEF Inv, Rest, FlowOK
<1> QED
  BY <1>1 DEF WriteMap, MapOK, Map

LEMMA StoreAuthorizationKeeps ==
    ASSUME Inv, NEW k \in Connecting, NEW g \in Gateways, StoreAuthorization(k, g) PROVE Inv'
<1>1. /\ k \in Kinds /\ frames \in Seq(FrameRec)
      /\ FlowOK(k, g, flow[k][g], frames, signed)
  BY ConnectingKinds, Facts
<1>2. flow[k][g].frame # 0 /\ Frame(k, g).code \in signed[g]
  BY <1>1 DEF StoreAuthorization, Pc, FlowOK, Framed, Past, Frame
<1>3. Frame(k, g).code \in Versions \cup {None}
  BY <1>2 DEF Inv, Rest
<1>4. MapOK(stored', signed)
  BY <1>1, <1>2, <1>3, WriteKeeps DEF StoreAuthorization
<1>5. Core(frames', signed, live', cached', flow') /\ inProgress' \subseteq Gateways
  <2>1. "connecting" \in Pcs
    BY DEF Pcs
  <2> QED
    BY <1>2, <2>1, CallKeeps DEF StoreAuthorization
<1> QED
  BY <1>4, <1>5 DEF Inv, Rest, StoreAuthorization

\* The connector of an iframe whose code was signed becomes active.
LEMMA ConnectedKeeps ==
    ASSUME Inv, NEW k \in Connecting, NEW g \in Gateways, Connected(k, g) PROVE Inv'
<1> DEFINE i == flow[k][g].frame
<1>1. /\ k \in Kinds /\ Core(frames, signed, live, cached, flow)
      /\ frames \in Seq(FrameRec) /\ FlowOK(k, g, flow[k][g], frames, signed)
  BY ConnectingKinds, Facts
<1>2. i # 0 /\ i \in 1..Len(frames) /\ frames[i].code \in signed[g] /\ frames[i].gateway = g
  BY <1>1 DEF Connected, Pc, FlowOK, Framed, Past, RefOK
<1>3. frames[i] \in FrameRec
  BY <1>1, <1>2
<1>4. frames' = [frames EXCEPT ![i] = [frames[i] EXCEPT !.active = TRUE]]
  BY DEF Connected
<1>5. [frames[i] EXCEPT !.active = TRUE] \in FrameRec
  BY <1>3, ActiveSet
<1>6. frames' \in Seq(FrameRec) /\ Len(frames') = Len(frames)
  BY <1>1, <1>2, <1>4, <1>5
<1>7. \A j \in 1..Len(frames) :
          /\ frames'[j].gateway = frames[j].gateway /\ frames'[j].code = frames[j].code
          /\ j # i => frames'[j] = frames[j]
  <2> SUFFICES ASSUME NEW j \in 1..Len(frames)
               PROVE  /\ frames'[j].gateway = frames[j].gateway
                      /\ frames'[j].code = frames[j].code
                      /\ j # i => frames'[j] = frames[j]
    OBVIOUS
  <2>1. frames'[j] = IF j = i THEN [frames[i] EXCEPT !.active = TRUE] ELSE frames[j]
    BY <1>1, <1>4
  <2> QED
    BY <1>3, <2>1, ActiveSet
<1>8. FramesOK(frames', signed) /\ Grows(frames, frames', signed, signed)
  <2> HIDE DEF i
  <2>1. \A j \in 1..Len(frames') : frames'[j].active => frames'[j].code \in signed[frames'[j].gateway]
    BY <1>1, <1>2, <1>6, <1>7 DEF Core, FramesOK
  <2> QED
    BY <1>1, <1>6, <1>7, <2>1 DEF Core, FramesOK, Grows
<1>9. Core(frames', signed, live, cached, flow)
  BY <1>1, <1>8, CoreGrows
<1>10. Core(frames', signed, live, cached', flow)
  <2>1. CacheOK([st |-> "ok", frame |-> i], g, frames')
    <3>1. flow[k][g] \in FlowRec
      BY <1>1 DEF FlowOK
    <3>2. i \in 0..MaxFrames
      BY <3>1 DEF FlowRec
    <3>3. RefOK(i, g, frames')
      BY <1>2, <1>6, <1>7 DEF RefOK
    <3> QED
      BY <3>2, <3>3 DEF CacheOK, CacheRec
  <2> QED
    BY <1>9, <2>1, CoreCache DEF Connected
<1>11. Core(frames', signed, live, cached', Ended(k, g))
  BY <1>1, <1>10, EndedKeeps
<1>12. Rest'
  BY DEF Inv, Rest, Connected
<1> QED
  BY <1>11, <1>12 DEF Inv, Connected

\* A new activation is put in the cache and begins.
LEMMA RetriedKeeps ==
    ASSUME Inv, NEW g \in Gateways, Retried(g),
           flow' = [flow EXCEPT !["activate"][g].pc = "retrying"]
    PROVE  Core(frames', signed, live', cached', flow')
<1>1. Core(frames, signed, live, cached, flow) /\ frames \in Seq(FrameRec)
  BY Facts DEF Inv, Core, FramesOK
<1>2. Core(frames, signed, live, cached, flow')
  BY <1>1, CoreGoto DEF Kinds, Pcs, Framed, Past
<1>3. Core(frames, signed, live, cached', flow')
  <2>1. CacheOK([st |-> "pending", frame |-> 0], g, frames)
    BY <1>1, ErrorOK
  <2> QED
    BY <1>2, <2>1, CoreCache DEF Retried
<1> QED
  BY <1>3, DestroyKeeps DEF Retried

LEMMA UseProxyKeeps ==
    ASSUME Inv, NEW g \in Gateways, UseProxy(g) PROVE Inv'
<1>1. Core(frames', signed, live', cached', flow')
  BY RetriedKeeps DEF UseProxy
<1>2. UNCHANGED Others /\ inProgress' \subseteq Gateways
  BY DEF UseProxy, Others, Inv, Rest
<1> QED
  BY <1>1, <1>2, OthersKeep

LEMMA ReactivateKeeps ==
    ASSUME Inv, NEW g \in Gateways, Reactivate(g) PROVE Inv'
<1>1. /\ Core(frames, signed, live, cached, flow) /\ frames \in Seq(FrameRec)
      /\ "activate" \in Kinds /\ published[g] \in Versions
      /\ cached \in [Gateways -> CacheRec] /\ CacheOK(cached[g], g, frames)
  BY DEF Inv, Rest, Core, FramesOK, Kinds
<1>2. UNCHANGED Others /\ inProgress' \subseteq Gateways /\ UNCHANGED <<frames, live>>
  BY DEF Reactivate, Others, Inv, Rest
<1>3. CASE /\ flow' = IF cached[g].st = "none"
                      THEN Launched("activate", g, published[g])
                      ELSE Goto("activate", g, "hung")
           /\ cached' = IF cached[g].st = "none"
                        THEN [cached EXCEPT ![g].st = "pending"] ELSE cached
  <2>1. Core(frames, signed, live, cached, flow')
    BY <1>1, <1>3, LaunchedKeeps, GotoKeeps DEF Pcs, Framed
  <2>2. Core(frames, signed, live, cached', flow')
    <3> DEFINE c == [cached[g] EXCEPT !.st = "pending"]
    <3>1. c \in CacheRec /\ c.frame = cached[g].frame
      <4>1. cached[g] \in CacheRec
        BY <1>1
      <4> QED
        BY <4>1 DEF CacheRec
    <3>2. CacheOK(c, g, frames)
      BY <1>1, <3>1 DEF CacheOK
    <3>3. [cached EXCEPT ![g].st = "pending"] = [cached EXCEPT ![g] = c]
      BY <1>1
    <3>4. Core(frames, signed, live, [cached EXCEPT ![g].st = "pending"], flow')
      <4> HIDE DEF c
      <4> QED
        BY <2>1, <3>2, <3>3, CoreCache
    <3> QED
      BY <1>3, <2>1, <3>4
  <2> QED
    BY <1>2, <2>2, OthersKeep
<1>4. CASE /\ flow' = Ended("activate", g)
           /\ cached' = [cached EXCEPT ![g] = [st |-> "plain", frame |-> 0]]
  <2>1. Core(frames, signed, live, cached, flow')
    BY <1>1, <1>4, EndedKeeps
  <2>2. Core(frames, signed, live, cached', flow')
    BY <1>1, <1>4, <2>1, ErrorOK, CoreCache DEF Errors
  <2> QED
    BY <1>2, <2>2, OthersKeep
<1> QED
  BY <1>3, <1>4 DEF Reactivate

LEMMA DeauthorizeKeeps ==
    ASSUME Inv, NEW g \in Gateways, DeauthorizeGateway(g) PROVE Inv'
<1>1. Core(frames, signed, live, cached, Goto("deauthorize", g, "looking"))
  BY GotoKeeps DEF Inv, Kinds, Pcs, Framed
<1>2. Rest'
  BY DEF Inv, Rest, DeauthorizeGateway
<1> QED
  BY <1>1, <1>2 DEF Inv, DeauthorizeGateway

LEMMA DeauthorizeReadKeeps ==
    ASSUME Inv, NEW g \in Gateways, DeauthorizeRead(g) PROVE Inv'
<1>1. Core(frames, signed, live, cached, flow')
  BY CoreGotoMap DEF DeauthorizeRead, Inv, Rest, Kinds, Pcs, Connecting
<1>2. Rest'
  BY DEF Inv, Rest, DeauthorizeRead
<1> QED
  BY <1>1, <1>2 DEF Inv, DeauthorizeRead

LEMMA DeauthorizeLookupKeeps ==
    ASSUME Inv, NEW g \in Gateways, DeauthorizeLookup(g) PROVE Inv'
<1> DEFINE c == cached[g]
<1>1. /\ Core(frames, signed, live, cached, flow) /\ CacheOK(c, g, frames)
      /\ c \in CacheRec /\ "deauthorize" \in Kinds
  BY DEF Inv, Core, Kinds
<1>2. UNCHANGED Others /\ inProgress' \subseteq Gateways
  BY DEF DeauthorizeLookup, Others, Inv, Rest
<1>3. CASE flow' = Ended("deauthorize", g) /\ UNCHANGED <<cached, frames, live>>
  BY <1>1, <1>2, <1>3, EndedKeeps, OthersKeep
<1>4. CASE flow' = Goto("deauthorize", g, "reading") /\ UNCHANGED <<cached, frames, live>>
  <2>1. Core(frames, signed, live, cached, flow')
    BY <1>1, <1>4, CoreGoto DEF Goto, Pcs, Connecting
  <2> QED
    BY <1>2, <1>4, <2>1, OthersKeep
<1>5. CASE /\ flow' = [flow EXCEPT !["deauthorize"][g].pc = "asking",
                                   !["deauthorize"][g].frame = c.frame]
           /\ UNCHANGED <<cached, frames, live>>
  <2>1. c.frame \in 0..MaxFrames /\ RefOK(c.frame, g, frames)
    BY <1>1 DEF CacheOK, CacheRec
  <2>2. "asking" \in Pcs /\ "asking" \notin Past /\ "asking" \notin Framed
    BY DEF Pcs, Past, Framed
  <2>3. Core(frames, signed, live, cached, flow')
    <3> HIDE DEF c
    <3> QED
      BY <1>1, <1>5, <2>1, <2>2, CoreGotoFrame
  <2> QED
    BY <1>2, <1>5, <2>3, OthersKeep
<1>6. CASE Retried(g) /\ flow' = [flow EXCEPT !["activate"][g].pc = "retrying"]
  BY <1>2, <1>6, RetriedKeeps, OthersKeep
<1> QED
  BY <1>3, <1>4, <1>5, <1>6 DEF DeauthorizeLookup

LEMMA AskedKeeps ==
    ASSUME Inv, NEW k \in {"decline", "deauthorize"}, NEW g \in Gateways, Asked(k, g) PROVE Inv'
<1>1. Core(frames, signed, live, cached, Goto(k, g, "reading"))
  BY CoreGoto DEF Goto, Inv, Kinds, Pcs, Connecting
<1>2. Rest'
  BY DEF Inv, Rest, Asked
<1> QED
  BY <1>1, <1>2 DEF Inv, Asked

LEMMA RemoveAuthorizationKeeps ==
    ASSUME Inv, NEW k \in {"decline", "deauthorize"}, NEW g \in Gateways,
           RemoveAuthorization(k, g)
    PROVE  Inv'
<1>1. /\ Core(frames, signed, live, cached, flow) /\ frames \in Seq(FrameRec)
      /\ k \in Kinds /\ "activate" \in Kinds
  BY DEF Inv, Core, FramesOK, Kinds
<1>2. MapOK(stored', signed)
  BY <1>1, WriteKeeps DEF RemoveAuthorization
<1>3. DestroyProxy(g)
  BY DEF RemoveAuthorization
<1>4. CASE k = "deauthorize"
  <2>1. flow' = Ended(k, g) /\ UNCHANGED cached
    BY <1>4 DEF RemoveAuthorization
  <2>2. Core(frames', signed, live', cached', flow')
    BY <1>1, <1>3, <2>1, EndedKeeps, DestroyKeeps
  <2>3. Rest'
    BY <1>2, <1>4 DEF Inv, Rest, RemoveAuthorization
  <2> QED
    BY <2>2, <2>3 DEF Inv, RemoveAuthorization
<1>5. CASE k # "deauthorize"
  <2>1. /\ flow' = [flow EXCEPT !["activate"][g] = Idle, ![k][g] = Idle]
        /\ cached' = [cached EXCEPT ![g] = [st |-> "denied", frame |-> 0]]
    BY <1>5 DEF RemoveAuthorization
  <2>2. FlowOK("activate", g, Idle, frames, signed) /\ FlowOK(k, g, Idle, frames, signed)
    BY <1>1, IdleOK
  <2>3. Core(frames, signed, live, cached, flow')
    BY <1>1, <2>1, <2>2, CoreTwoFlows
  <2>4. Core(frames, signed, live, cached', flow')
    BY <1>1, <2>1, <2>3, ErrorOK, CoreCache DEF Errors
  <2>5. Core(frames', signed, live', cached', flow')
    BY <1>3, <2>4, DestroyKeeps
  <2>6. Rest'
    BY <1>2, <1>5 DEF Inv, Rest, RemoveAuthorization
  <2> QED
    BY <2>5, <2>6 DEF Inv, RemoveAuthorization
<1> QED
  BY <1>4, <1>5

LEMMA PublishKeeps ==
    ASSUME Inv, NEW g \in Gateways, NEW v \in Versions, Publish(g, v) PROVE Inv'
BY DEF Inv, Rest, Publish

LEMMA NoFrame ==
    ASSUME NEW g, NEW fs \in Seq(FrameRec) PROVE RefOK(0, g, fs)
<1>1. Len(fs) \in Nat
  OBVIOUS
<1> QED
  BY <1>1 DEF RefOK

LEMMA InitialKeeps ==
    ASSUME MapOK(stored, signed), published \in [Gateways -> Versions],
           signed \in [Gateways -> SUBSET Versions],
           told = [g \in Gateways |-> "nothing"],
           startup = "before", todo = {}, known = [g \in Gateways |-> None],
           cached = [g \in Gateways |-> NotCached],
           frames = <<>>, live = [g \in Gateways |-> 0],
           flow = [k \in Kinds |-> [g \in Gateways |-> Idle]],
           inProgress = {}, reloads \in 0..MaxReloads
    PROVE  Inv
<1>1. Rest
  BY DEF Rest, MapOK, Map
<1>2. FramesOK(frames, signed) /\ frames \in Seq(FrameRec) /\ Len(frames) = 0
  BY BoundsAssumption DEF FramesOK
<1>3. \A g \in Gateways : RefOK(0, g, frames)
  BY <1>2, NoFrame
<1>4. NotCached \in CacheRec /\ NotCached.frame = 0
  BY BoundsAssumption DEF NotCached, CacheRec
<1>5. \A k \in Kinds, g \in Gateways : FlowOK(k, g, Idle, frames, signed)
  BY <1>2, IdleOK
<1>6. flow \in [Kinds -> [Gateways -> FlowRec]]
  <2>1. Idle \in FlowRec
    BY BoundsAssumption DEF Idle, FlowRec, Pcs, Map
  <2> QED
    BY <2>1
<1>7. \A k \in Kinds, g \in Gateways : flow[k][g] = Idle
  OBVIOUS
<1>8. \A g \in Gateways : cached[g] \in CacheRec /\ cached[g].frame = 0 /\ live[g] = 0
  BY <1>4
<1> QED
  BY <1>1, <1>2, <1>3, <1>5, <1>6, <1>7, <1>8 DEF Inv, Core, CacheOK

LEMMA InitInv == Init => Inv
<1> SUFFICES ASSUME Init PROVE Inv
  OBVIOUS
<1>1. MapOK(stored, signed) /\ signed \in [Gateways -> SUBSET Versions]
  BY DEF Init, MapOK, Map
<1> QED
  BY <1>1, InitialKeeps, BoundsAssumption DEF Init

\* What was in memory is gone, what the user signed is not.
LEMMA ReloadKeeps ==
    ASSUME Inv, Reload PROVE Inv'
<1>1. MapOK(stored', signed') /\ reloads' \in 0..MaxReloads
  BY BoundsAssumption DEF Inv, Rest, Reload
<1>2. FramesOK(frames', signed') /\ frames' = <<>>
  BY BoundsAssumption DEF FramesOK, Reload
<1>3. Rest'
  BY <1>1 DEF Inv, Rest, Reload, MapOK, Map
<1>4. frames' \in Seq(FrameRec) /\ Len(frames') = 0
  BY <1>2
<1>5. \A g \in Gateways : RefOK(0, g, frames')
  BY <1>4 DEF RefOK
<1>6. NotCached \in CacheRec /\ NotCached.frame = 0
  BY BoundsAssumption DEF NotCached, CacheRec
<1>7. \A k \in Kinds, g \in Gateways : FlowOK(k, g, Idle, frames', signed')
  BY <1>4, IdleOK
<1>8. flow' \in [Kinds -> [Gateways -> FlowRec]]
  <2>1. Idle \in FlowRec
    BY BoundsAssumption DEF Idle, FlowRec, Pcs, Map
  <2> QED
    BY <2>1 DEF Reload
<1>9. \A k \in Kinds, g \in Gateways : flow'[k][g] = Idle
  BY DEF Reload
<1>10. /\ cached' \in [Gateways -> CacheRec] /\ live' \in [Gateways -> Nat]
       /\ \A g \in Gateways : cached'[g].frame = 0 /\ cached'[g] \in CacheRec /\ live'[g] = 0
  BY <1>6 DEF Reload
<1>11. Core(frames', signed', live', cached', flow')
  BY <1>2, <1>5, <1>7, <1>8, <1>9, <1>10 DEF Core, CacheOK
<1> QED
  BY <1>3, <1>11 DEF Inv

-----------------------------------------------------------------------------
(* The theorems. *)

LEMMA FlowStepKeeps ==
    ASSUME Inv, NEW k \in Kinds, NEW g \in Gateways, FlowStep(k, g) PROVE Inv'
<1>1. CASE ReadMap(k, g)
  BY <1>1, ReadMapKeeps
<1>2. CASE /\ k \in {"activate", "authorize"}
           /\ \/ FrameUp(k, g) \/ FrameFails(k, g) \/ Validated(k, g) \/ Sign(k, g)
              \/ Refused(k, g) \/ StoreAuthorization(k, g) \/ Connected(k, g)
              \/ ConnectFails(k, g)
  <2>1. k \in Connecting
    BY <1>2 DEF Connecting
  <2> QED
    BY <1>2, <2>1, FrameUpKeeps, FrameFailsKeeps, ValidatedKeeps, SignKeeps, RefusedKeeps,
       StoreAuthorizationKeeps, ConnectedKeeps, ConnectFailsKeeps
<1>3. CASE Reactivate(g)
  BY <1>3, ReactivateKeeps
<1>4. CASE AuthorizeChecked(g) \/ AuthorizeCheckFails(g)
  BY <1>4, AuthorizeCheckedKeeps, AuthorizeCheckFailsKeeps
<1>5. CASE DeauthorizeRead(g) \/ DeauthorizeLookup(g)
  BY <1>5, DeauthorizeReadKeeps, DeauthorizeLookupKeeps
<1>6. CASE k \in {"decline", "deauthorize"} /\ (Asked(k, g) \/ RemoveAuthorization(k, g))
  BY <1>6, AskedKeeps, RemoveAuthorizationKeeps
<1> QED
  BY <1>1, <1>2, <1>3, <1>4, <1>5, <1>6 DEF FlowStep

LEMMA NextInv ==
    ASSUME Inv, [Next]_vars PROVE Inv'
<1>1. CASE UNCHANGED vars
  BY <1>1 DEF vars, Inv, Rest
<1>2. CASE ActivateAuthorizedGateways \/ StartupEnds \/ Reload
  BY <1>2, ActivateAllKeeps, StartupEndsKeeps, ReloadKeeps
<1>3. ASSUME NEW g \in Gateways,
             \/ ActivateAuthorizedGateway(g)
             \/ AuthorizeGateway(g) \/ DeauthorizeGateway(g) \/ UseProxy(g)
             \/ \E k \in Kinds : FlowStep(k, g)
             \/ \E v \in Versions \ {published[g]} : Publish(g, v)
      PROVE  Inv'
  BY <1>3, ActivateKeeps, AuthorizeKeeps, DeauthorizeKeeps, UseProxyKeeps, FlowStepKeeps,
     PublishKeeps
<1> QED
  BY <1>1, <1>2, <1>3 DEF Next

\* The inductive invariant: iframes, proxies, cached results and flows refer to
\* iframes of their own gateway, and what was stored, known and connected was
\* signed, whatever fails.
THEOREM ReferencesAndSignatures == Spec => []Inv
<1> QED
  BY InitInv, NextInv, PTL DEF Spec

LEMMA InvTypes == Inv => TypeOK
<1> SUFFICES ASSUME Inv PROVE TypeOK
  OBVIOUS
<1>1. live \in [Gateways -> 0..Len(frames)]
  BY DEF Inv, Core, RefOK
<1>2. frames \in Seq(FrameRec) /\ Len(frames) <= MaxFrames
  BY DEF Inv, Core, FramesOK
<1>3. cached \in [Gateways -> CacheRec] /\ flow \in [Kinds -> [Gateways -> FlowRec]]
  BY DEF Inv, Core
<1> QED
  BY <1>1, <1>2, <1>3 DEF TypeOK, Inv, Rest, MapOK, Map, FrameRec, CacheRec, FlowRec

LEMMA InvSigned == Inv => SignedCodeRuns
BY DEF Inv, Core, FramesOK, SignedCodeRuns

\* Every variable has its type: in particular a proxy that exists has one of the
\* iframes of this page, whatever was destroyed or loaded again.
THEOREM ConnectorTypes == Spec => []TypeOK
<1> QED
  BY ReferencesAndSignatures, InvTypes, PTL

\* Only code the user has signed runs as a connector, for any number of gateways
\* and versions and however their flows meet: _validateConnector and
\* authorizeGateway let no iframe run code of another version, of another gateway
\* or of an earlier stored map.
THEOREM OnlySignedCode == Spec => []SignedCodeRuns
<1> QED
  BY ReferencesAndSignatures, InvSigned, PTL

-----------------------------------------------------------------------------
(* One iframe for a gateway.                                               *)
(*                                                                         *)
(* Activation and authorization both make the iframe of a gateway that has *)
(* none. They never do at once, for reasons that lie far apart: while the  *)
(* service starts, what it still has to activate is stored, nobody has a   *)
(* map without it to write back, and an authorization of what is stored    *)
(* ends before it makes an iframe; after that nothing is activated any     *)
(* more, because a second try finds its own result in the cache.           *)

\* What the flow k of a gateway may do in a phase of the service, with c in the
\* cache of the gateway.
PhaseOK(su, k, pc, c) ==
    /\ su = "before" => pc = "idle"
    /\ su = "running" => /\ k = "activate" => pc \notin {"retrying", "hung"}
                         /\ k = "deauthorize" => pc \in {"idle", "looking", "waiting"}
    /\ su = "done" /\ k = "activate" => /\ pc \in {"idle", "retrying", "hung"}
                                        /\ pc = "retrying" => c # "none"

FlowsInPhase ==
    /\ \A k \in Kinds, g \in Gateways : PhaseOK(startup, k, Pc(k, g), cached[g].st)
    /\ \A g \in Gateways : Pc("decline", g) # "idle" => Pc("activate", g) = "declining"

\* What is being activated at startup was taken out of what is to do.
TakenOut ==
    \A g \in Gateways : startup = "running" /\ Pc("activate", g) # "idle" => g \notin todo

\* g is yet to be activated at startup, or is being activated.
Serving(g) == startup = "running" /\ (g \in todo \/ Pc("activate", g) # "idle")

ServingIsStored ==
    \A g \in Gateways :
        Serving(g) => /\ stored[g] # None
                      /\ \A k \in Kinds, h \in Gateways :
                             Pc(k, h) = "storing" => flow[k][h].map[g] # None
                      /\ Pc("authorize", g) \in {"idle", "checking"}

\* An iframe that is there is the one of its gateway's proxy.
Lone(fs, lv) == \A i \in 1..Len(fs) : fs[i].alive => lv[fs[i].gateway] = i

CreatingIsFirst ==
    \A k \in Connecting, g \in Gateways : Pc(k, g) = "creating" => live[g] = 0

One ==
    /\ FlowsInPhase /\ TakenOut /\ ServingIsStored
    /\ Lone(frames, live) /\ CreatingIsFirst

\* The program counter of flow k of g becomes pc and its map m, nothing else.
Turned(k, g, pc, m) ==
    \A j \in Kinds, h \in Gateways :
        /\ flow'[j][h].pc = IF j = k /\ h = g THEN pc ELSE flow[j][h].pc
        /\ flow'[j][h].map = IF j = k /\ h = g THEN m ELSE flow[j][h].map

\* A step that changes only flows, results and the proxy of g.
OnlyOf(g) ==
    /\ startup' = startup /\ todo' \subseteq todo
    /\ \A j \in Kinds, h \in Gateways \ {g} :
           flow'[j][h].pc = flow[j][h].pc /\ flow'[j][h].map = flow[j][h].map
    /\ \A h \in Gateways : cached[h].st # "none" => cached'[h].st # "none"
    /\ \A h \in Gateways \ {g} : live'[h] = live[h]

LEMMA OneKeeps ==
    ASSUME One, NEW g \in Gateways, OnlyOf(g),
           \A j \in Kinds : PhaseOK(startup, j, flow'[j][g].pc, cached'[g].st),
           flow'["decline"][g].pc # "idle" => flow'["activate"][g].pc = "declining",
           startup = "running" /\ flow'["activate"][g].pc # "idle" => g \notin todo',
           Serving(g)' => Serving(g) /\ flow'["authorize"][g].pc \in {"idle", "checking"},
           \A h \in Gateways : Serving(h)' => stored'[h] # None,
           \A j \in Kinds : flow'[j][g].pc = "storing"
               => \/ flow[j][g].pc = "storing" /\ flow'[j][g].map = flow[j][g].map
                  \/ flow'[j][g].map = stored,
           Lone(frames', live'),
           \A j \in Connecting : flow'[j][g].pc = "creating" => live'[g] = 0
    PROVE  One'
<1>1. FlowsInPhase'
  <2>1. ASSUME NEW k \in Kinds, NEW h \in Gateways
        PROVE  PhaseOK(startup', k, flow'[k][h].pc, cached'[h].st)
    <3>1. CASE h = g
      BY <3>1 DEF OnlyOf
    <3>2. CASE h # g
      <4>1. PhaseOK(startup, k, flow[k][h].pc, cached[h].st)
        BY DEF One, FlowsInPhase, Pc
      <4> QED
        BY <3>2, <4>1 DEF OnlyOf, PhaseOK
    <3> QED
      BY <3>1, <3>2
  <2>2. ASSUME NEW h \in Gateways, flow'["decline"][h].pc # "idle"
        PROVE  flow'["activate"][h].pc = "declining"
    <3>1. "decline" \in Kinds /\ "activate" \in Kinds
      BY DEF Kinds
    <3>2. CASE h = g
      BY <2>2, <3>2
    <3>3. CASE h # g
      BY <2>2, <3>1, <3>3 DEF OnlyOf, One, FlowsInPhase, Pc
    <3> QED
      BY <3>2, <3>3
  <2> QED
    BY <2>1, <2>2 DEF FlowsInPhase, Pc
<1>2. \A h \in Gateways : Serving(h)' => Serving(h)
  <2>1. "activate" \in Kinds
    BY DEF Kinds
  <2> QED
    BY <2>1 DEF OnlyOf, Serving, Pc
<1>3. ServingIsStored'
  <2> SUFFICES ASSUME NEW h \in Gateways, Serving(h)'
               PROVE  /\ stored'[h] # None
                      /\ \A k \in Kinds, i \in Gateways :
                             flow'[k][i].pc = "storing" => flow'[k][i].map[h] # None
                      /\ flow'["authorize"][h].pc \in {"idle", "checking"}
    BY DEF ServingIsStored, Pc
  <2>1. stored'[h] # None
    OBVIOUS
  <2>2. /\ stored[h] # None /\ flow["authorize"][h].pc \in {"idle", "checking"}
        /\ \A k \in Kinds, i \in Gateways :
               flow[k][i].pc = "storing" => flow[k][i].map[h] # None
    BY <1>2 DEF One, ServingIsStored, Pc
  <2>3. ASSUME NEW k \in Kinds, NEW i \in Gateways, flow'[k][i].pc = "storing"
        PROVE  flow'[k][i].map[h] # None
    <3>1. CASE i = g
      BY <2>2, <2>3, <3>1
    <3>2. CASE i # g
      BY <2>2, <2>3, <3>2 DEF OnlyOf
    <3> QED
      BY <3>1, <3>2
  <2>4. flow'["authorize"][h].pc \in {"idle", "checking"}
    <3>1. "authorize" \in Kinds
      BY DEF Kinds
    <3> QED
      BY <2>2, <3>1 DEF OnlyOf
  <2> QED
    BY <2>1, <2>3, <2>4
<1>4. CreatingIsFirst'
  <2>1. ASSUME NEW k \in Connecting, NEW h \in Gateways, flow'[k][h].pc = "creating"
        PROVE  live'[h] = 0
    <3>1. k \in Kinds
      BY ConnectingKinds
    <3> QED
      BY <2>1, <3>1 DEF OnlyOf, One, CreatingIsFirst, Pc
  <2> QED
    BY <2>1 DEF CreatingIsFirst, Pc
<1>5. TakenOut'
  <2>1. "activate" \in Kinds
    BY DEF Kinds
  <2> QED
    BY <2>1 DEF OnlyOf, One, TakenOut, Pc
<1> QED
  BY <1>1, <1>3, <1>4, <1>5 DEF One

\* One flow moves on.
LEMMA FlowMoves ==
    ASSUME One, NEW k \in Kinds, NEW g \in Gateways, NEW pc, NEW m, Turned(k, g, pc, m),
           startup' = startup, todo' \subseteq todo,
           \A h \in Gateways : cached[h].st # "none" => cached'[h].st # "none",
           \A h \in Gateways \ {g} : live'[h] = live[h],
           PhaseOK(startup, k, pc, cached'[g].st),
           k = "decline" /\ pc # "idle" => Pc("activate", g) = "declining",
           k = "activate" => Pc("decline", g) = "idle",
           k = "activate" /\ pc # "idle" /\ startup = "running" => Serving(g) /\ g \notin todo',
           k = "authorize" /\ pc \notin {"idle", "checking"} => ~ Serving(g),
           pc = "storing" => m = stored,
           \A h \in Gateways : Serving(h) => stored'[h] # None,
           Lone(frames', live'),
           k \in Connecting /\ pc = "creating" => live'[g] = 0,
           \A j \in Connecting \ {k} : Pc(j, g) = "creating" => live'[g] = 0
    PROVE  One'
<1>1. /\ "activate" \in Kinds /\ "authorize" \in Kinds /\ "decline" \in Kinds
      /\ Connecting \subseteq Kinds
  BY ConnectingKinds DEF Kinds
<1>2. OnlyOf(g)
  BY DEF OnlyOf, Turned
<1>3. \A j \in Kinds : PhaseOK(startup, j, flow'[j][g].pc, cached'[g].st)
  <2> SUFFICES ASSUME NEW j \in Kinds
               PROVE  PhaseOK(startup, j, flow'[j][g].pc, cached'[g].st)
    OBVIOUS
  <2>1. CASE j = k
    BY <2>1 DEF Turned
  <2>2. CASE j # k
    <3>1. PhaseOK(startup, j, flow[j][g].pc, cached[g].st)
      BY DEF One, FlowsInPhase, Pc
    <3>2. flow'[j][g].pc = flow[j][g].pc
      BY <2>2 DEF Turned
    <3> QED
      BY <3>1, <3>2 DEF PhaseOK
  <2> QED
    BY <2>1, <2>2
<1>4. flow'["decline"][g].pc # "idle" => flow'["activate"][g].pc = "declining"
  BY <1>1 DEF Turned, One, FlowsInPhase, Pc
<1>5. Serving(g)' => Serving(g)
  BY <1>1 DEF Turned, Serving, Pc
<1>6. Serving(g)' => flow'["authorize"][g].pc \in {"idle", "checking"}
  BY <1>1, <1>5 DEF Turned, One, ServingIsStored, Pc
<1>7. \A h \in Gateways : Serving(h)' => stored'[h] # None
  BY <1>1, <1>2, <1>5 DEF OnlyOf, Serving, Pc
<1>8. \A j \in Kinds : flow'[j][g].pc = "storing"
          => \/ flow[j][g].pc = "storing" /\ flow'[j][g].map = flow[j][g].map
             \/ flow'[j][g].map = stored
  BY DEF Turned
<1>9. \A j \in Connecting : flow'[j][g].pc = "creating" => live'[g] = 0
  BY <1>1 DEF Turned, Pc
<1>10. startup = "running" /\ flow'["activate"][g].pc # "idle" => g \notin todo'
  BY <1>1 DEF Turned, One, TakenOut, Pc
<1> QED
  BY <1>2, <1>3, <1>4, <1>5, <1>6, <1>7, <1>8, <1>9, <1>10, OneKeeps

\* The shapes flows move in.
LEMMA GotoTurns ==
    ASSUME Inv, NEW k \in Kinds, NEW g \in Gateways, NEW pc \in Pcs, flow' = Goto(k, g, pc)
    PROVE  Turned(k, g, pc, flow[k][g].map)
<1>1. flow \in [Kinds -> [Gateways -> FlowRec]]
  BY DEF Inv, Core
<1>2. flow[k][g] \in FlowRec
  BY <1>1
<1>3. flow' = [flow EXCEPT ![k][g] = [flow[k][g] EXCEPT !.pc = pc]]
  BY <1>1 DEF Goto
<1>4. /\ [flow[k][g] EXCEPT !.pc = pc].pc = pc
      /\ [flow[k][g] EXCEPT !.pc = pc].map = flow[k][g].map
  BY <1>2, PcSet
<1> QED
  BY <1>1, <1>3, <1>4 DEF Turned

LEMMA RecordTurns ==
    ASSUME Inv, NEW k \in Kinds, NEW g \in Gateways, NEW r,
           flow' = [flow EXCEPT ![k][g] = r]
    PROVE  Turned(k, g, r.pc, r.map)
<1>1. flow \in [Kinds -> [Gateways -> FlowRec]]
  BY DEF Inv, Core
<1> QED
  BY <1>1 DEF Turned

LEMMA FieldsTurn ==
    ASSUME Inv, NEW k \in Kinds, NEW g \in Gateways, NEW pc \in Pcs
    PROVE  /\ \A i : flow' = [flow EXCEPT ![k][g].pc = pc, ![k][g].frame = i]
                     => Turned(k, g, pc, flow[k][g].map)
           /\ \A m : flow' = [flow EXCEPT ![k][g].pc = pc, ![k][g].map = m]
                     => Turned(k, g, pc, m)
<1>1. flow \in [Kinds -> [Gateways -> FlowRec]]
  BY DEF Inv, Core
<1>2. flow[k][g] \in FlowRec
  BY <1>1
<1> DEFINE mid == [flow[k][g] EXCEPT !.pc = pc]
           fm == [flow EXCEPT ![k][g] = mid]
<1>3. mid \in FlowRec /\ mid.pc = pc /\ mid.map = flow[k][g].map
  BY <1>2, PcSet
<1>4. [flow EXCEPT ![k][g].pc = pc] = fm
  BY <1>1
<1>5. fm \in [Kinds -> [Gateways -> FlowRec]] /\ fm[k][g] = mid
  BY <1>1, <1>3
<1>6. \A j \in Kinds, h \in Gateways : j # k \/ h # g => fm[j][h] = flow[j][h]
  BY <1>1
<1>7. ASSUME NEW i, flow' = [flow EXCEPT ![k][g].pc = pc, ![k][g].frame = i]
      PROVE  Turned(k, g, pc, flow[k][g].map)
  <2>1. flow' = [fm EXCEPT ![k][g].frame = i]
    BY <1>4, <1>7
  <2> HIDE DEF fm, mid
  <2>2. /\ \A j \in Kinds, h \in Gateways : j # k \/ h # g => flow'[j][h] = fm[j][h]
        /\ flow'[k][g] = [mid EXCEPT !.frame = i]
    BY <1>5, <2>1
  <2>3. [mid EXCEPT !.frame = i].pc = mid.pc /\ [mid EXCEPT !.frame = i].map = mid.map
    BY <1>3 DEF FlowRec
  <2>4. flow'[k][g].pc = pc /\ flow'[k][g].map = flow[k][g].map
    BY <1>3, <2>2, <2>3
  <2>5. \A j \in Kinds, h \in Gateways : j # k \/ h # g => flow'[j][h] = flow[j][h]
    BY <1>6, <2>2
  <2> QED
    BY <2>4, <2>5 DEF Turned
<1>8. ASSUME NEW m, flow' = [flow EXCEPT ![k][g].pc = pc, ![k][g].map = m]
      PROVE  Turned(k, g, pc, m)
  <2>1. flow' = [fm EXCEPT ![k][g].map = m]
    BY <1>4, <1>8
  <2> HIDE DEF fm, mid
  <2>2. /\ \A j \in Kinds, h \in Gateways : j # k \/ h # g => flow'[j][h] = fm[j][h]
        /\ flow'[k][g] = [mid EXCEPT !.map = m]
    BY <1>5, <2>1
  <2>3. [mid EXCEPT !.map = m].pc = mid.pc /\ [mid EXCEPT !.map = m].map = m
    BY <1>3 DEF FlowRec
  <2>4. flow'[k][g].pc = pc /\ flow'[k][g].map = m
    BY <1>3, <2>2, <2>3
  <2>5. \A j \in Kinds, h \in Gateways : j # k \/ h # g => flow'[j][h] = flow[j][h]
    BY <1>6, <2>2
  <2> QED
    BY <2>4, <2>5 DEF Turned
<1> QED
  BY <1>7, <1>8

\* A flow between its proxy and its activated connector, and the other one that
\* could be there.
Working == {"creating", "validating", "signing", "reading", "storing", "connecting"}

LEMMA AtWork ==
    ASSUME Inv, One, NEW k \in Connecting, NEW g \in Gateways, Pc(k, g) \in Working
    PROVE  /\ startup # "before"
           /\ k = "activate" => /\ startup = "running" /\ Serving(g) /\ g \notin todo
                                /\ Pc("decline", g) = "idle"
                                /\ Pc("authorize", g) \in {"idle", "checking"}
           /\ k = "authorize" => /\ ~ Serving(g)
                                 /\ Pc("activate", g) \in {"idle", "retrying", "hung"}
           /\ \A j \in Connecting \ {k} : Pc(j, g) # "creating"
<1>1. /\ k \in Kinds /\ "activate" \in Kinds /\ "authorize" \in Kinds
      /\ startup \in {"before", "running", "done"}
  BY ConnectingKinds DEF Kinds, Inv, Rest
<1>2. startup # "before"
  BY <1>1 DEF One, FlowsInPhase, PhaseOK, Working
<1>3. ASSUME k = "activate"
      PROVE  /\ startup = "running" /\ Serving(g) /\ g \notin todo /\ Pc("decline", g) = "idle"
             /\ Pc("authorize", g) \in {"idle", "checking"}
  <2>1. startup = "running"
    BY <1>1, <1>2, <1>3 DEF One, FlowsInPhase, PhaseOK, Working
  <2>2. Serving(g)
    BY <1>3, <2>1 DEF Serving, Working
  <2>3. Pc("decline", g) = "idle"
    BY <1>3 DEF One, FlowsInPhase, Working
  <2>4. g \notin todo
    BY <1>3, <2>1 DEF One, TakenOut, Working
  <2> QED
    BY <2>1, <2>2, <2>3, <2>4 DEF One, ServingIsStored
<1>4. ASSUME k = "authorize"
      PROVE  ~ Serving(g) /\ Pc("activate", g) \in {"idle", "retrying", "hung"}
  <2>1. ~ Serving(g)
    BY <1>4 DEF One, ServingIsStored, Working
  <2>2. CASE startup = "running"
    BY <2>1, <2>2 DEF Serving
  <2>3. CASE startup = "done"
    BY <1>1, <2>1, <2>3 DEF One, FlowsInPhase, PhaseOK
  <2> QED
    BY <1>1, <1>2, <2>1, <2>2, <2>3
<1>5. \A j \in Connecting \ {k} : Pc(j, g) # "creating"
  BY <1>3, <1>4 DEF Connecting
<1> QED
  BY <1>2, <1>3, <1>4, <1>5

LEMMA StoredIsServed ==
    ASSUME One PROVE \A h \in Gateways : Serving(h) => stored[h] # None
BY DEF One, ServingIsStored

\* destroyProxy leaves no iframe of g.
LEMMA DestroyIsLone ==
    ASSUME Inv, Lone(frames, live), NEW g \in Gateways, DestroyProxy(g)
    PROVE  /\ Lone(frames', live') /\ live'[g] = 0
           /\ \A h \in Gateways \ {g} : live'[h] = live[h]
<1>1. /\ frames \in Seq(FrameRec) /\ Len(frames) \in Nat /\ RefOK(live[g], g, frames)
      /\ live \in [Gateways -> Nat]
  BY DEF Inv, Core, FramesOK
<1>2. live'[g] = 0 /\ \A h \in Gateways \ {g} : live'[h] = live[h]
  BY <1>1 DEF DestroyProxy
<1>3. CASE live[g] = 0
  <2>1. frames' = frames /\ \A h \in Gateways : live'[h] = live[h]
    BY <1>2, <1>3 DEF DestroyProxy, DestroyedFrames
  <2>2. \A i \in 1..Len(frames) : frames[i].gateway \in Gateways
    <3>1. \A i \in 1..Len(frames) : frames[i] \in FrameRec
      BY <1>1
    <3> QED
      BY <3>1 DEF FrameRec
  <2> QED
    BY <1>2, <2>1, <2>2 DEF Lone
<1>4. CASE live[g] # 0
  <2> DEFINE n == live[g]
  <2>1. n \in 1..Len(frames) /\ frames[n].gateway = g
    BY <1>1, <1>4 DEF RefOK
  <2>2. frames' = [frames EXCEPT ![n] = [frames[n] EXCEPT !.alive = FALSE]]
    BY <1>4 DEF DestroyProxy, DestroyedFrames
  <2>3. frames[n] \in FrameRec
    BY <1>1, <2>1
  <2>4. ~ [frames[n] EXCEPT !.alive = FALSE].alive
    BY <2>3 DEF FrameRec
  <2>5. Len(frames') = Len(frames)
        /\ \A i \in 1..Len(frames) : i # n => frames'[i] = frames[i]
    BY <1>1, <2>1, <2>2
  <2>6. ~ frames'[n].alive
    BY <1>1, <2>1, <2>2, <2>4
  <2>7. ASSUME NEW i \in 1..Len(frames'), frames'[i].alive
        PROVE  live'[frames'[i].gateway] = i
    <3>1. i # n /\ i \in 1..Len(frames) /\ frames'[i] = frames[i]
      BY <2>5, <2>6, <2>7
    <3>2. live[frames[i].gateway] = i
      BY <2>7, <3>1 DEF Lone
    <3>3. frames[i].gateway \in Gateways
      <4>1. frames[i] \in FrameRec
        BY <1>1, <3>1
      <4> QED
        BY <4>1 DEF FrameRec
    <3> QED
      BY <1>2, <3>1, <3>2, <3>3
  <2> QED
    BY <1>2, <2>7 DEF Lone
<1> QED
  BY <1>2, <1>3, <1>4

-----------------------------------------------------------------------------
(* The actions leave one iframe. *)

\* A flow moves on without making an iframe, and nothing else changes.
LEMMA StillMoves ==
    ASSUME One, NEW k \in Kinds, NEW g \in Gateways, NEW pc, NEW m, Turned(k, g, pc, m),
           UNCHANGED <<startup, todo, stored, cached, frames, live>>,
           PhaseOK(startup, k, pc, cached[g].st), pc # "creating",
           k = "decline" /\ pc # "idle" => Pc("activate", g) = "declining",
           k = "activate" => Pc("decline", g) = "idle",
           k = "activate" /\ pc # "idle" /\ startup = "running" => Serving(g) /\ g \notin todo,
           k = "authorize" /\ pc \notin {"idle", "checking"} => ~ Serving(g),
           pc = "storing" => m = stored
    PROVE  One'
<1>1. Lone(frames', live')
  BY DEF One
<1>2. \A j \in Connecting \ {k} : Pc(j, g) = "creating" => live'[g] = 0
  BY DEF One, CreatingIsFirst
<1>3. \A h \in Gateways : Serving(h) => stored'[h] # None
  BY StoredIsServed
<1> QED
  BY <1>1, <1>2, <1>3, FlowMoves

LEMMA OneActivateAll ==
    ASSUME One, ActivateAuthorizedGateways PROVE One'
<1>1. startup = "before" /\ startup' \in {"running", "done"}
      /\ UNCHANGED <<stored, cached, frames, live, flow>>
  BY DEF ActivateAuthorizedGateways
<1>2. \A k \in Kinds, g \in Gateways : Pc(k, g) = "idle"
  BY <1>1 DEF One, FlowsInPhase, PhaseOK
<1>3. \A k \in Kinds, g \in Gateways : Pc(k, g)' = "idle"
  BY <1>1, <1>2 DEF Pc
<1>4. "activate" \in Kinds /\ "decline" \in Kinds /\ "authorize" \in Kinds /\ Connecting \subseteq Kinds
  BY ConnectingKinds DEF Kinds
<1>5. FlowsInPhase'
  <2>1. ASSUME NEW k \in Kinds, NEW g \in Gateways
        PROVE  PhaseOK(startup', k, Pc(k, g)', cached'[g].st)
    BY <1>1, <1>3 DEF PhaseOK
  <2> QED
    BY <1>3, <1>4, <2>1 DEF FlowsInPhase
<1>6. \A g \in Gateways : Serving(g)' => stored'[g] # None
  <2> SUFFICES ASSUME NEW g \in Gateways, Serving(g)' PROVE stored'[g] # None
    OBVIOUS
  <2>1. startup' = "running" /\ g \in todo'
    BY <1>3, <1>4 DEF Serving
  <2> QED
    BY <1>1, <2>1 DEF ActivateAuthorizedGateways
<1>7. ServingIsStored'
  BY <1>3, <1>4, <1>6 DEF ServingIsStored
<1>8. TakenOut'
  BY <1>3, <1>4 DEF TakenOut
<1>9. CreatingIsFirst'
  BY <1>3, <1>4 DEF CreatingIsFirst
<1>10. Lone(frames, live)'
  BY <1>1 DEF One
<1> QED
  BY <1>5, <1>7, <1>8, <1>9, <1>10 DEF One

LEMMA OneStartupEnds ==
    ASSUME One, StartupEnds PROVE One'
<1>1. /\ startup = "running" /\ startup' = "done" /\ Activating = {}
      /\ UNCHANGED <<stored, todo, cached, frames, live, flow>>
  BY DEF StartupEnds
<1>2. \A g \in Gateways : Pc("activate", g) = "idle"
  BY <1>1 DEF Activating
<1>3. FlowsInPhase'
  <2>1. ASSUME NEW k \in Kinds, NEW g \in Gateways
        PROVE  PhaseOK(startup', k, Pc(k, g)', cached'[g].st)
    <3>1. Pc(k, g)' = Pc(k, g)
      BY <1>1 DEF Pc
    <3> QED
      BY <1>1, <1>2, <3>1 DEF PhaseOK
  <2>2. \A g \in Gateways : Pc("decline", g)' # "idle" => Pc("activate", g)' = "declining"
    BY <1>1 DEF One, FlowsInPhase, Pc
  <2> QED
    BY <2>1, <2>2 DEF FlowsInPhase
<1>4. ServingIsStored' /\ TakenOut'
  BY <1>1 DEF ServingIsStored, Serving, TakenOut
<1>5. Lone(frames, live)' /\ CreatingIsFirst'
  BY <1>1 DEF One, CreatingIsFirst, Pc
<1> QED
  BY <1>3, <1>4, <1>5 DEF One

\* A core that was just loaded has no flow.
LEMMA OneInitially ==
    ASSUME startup = "before", frames = <<>>, live = [g \in Gateways |-> 0],
           flow = [k \in Kinds |-> [g \in Gateways |-> Idle]]
    PROVE  One
<1>1. \A k \in Kinds, g \in Gateways : Pc(k, g) = "idle"
  BY DEF Pc, Idle
<1>2. "activate" \in Kinds /\ "decline" \in Kinds /\ Connecting \subseteq Kinds
  BY ConnectingKinds DEF Kinds
<1>3. FlowsInPhase
  BY <1>1, <1>2 DEF FlowsInPhase, PhaseOK
<1>4. ServingIsStored /\ TakenOut
  BY DEF ServingIsStored, Serving, TakenOut
<1>5. Lone(frames, live)
  BY DEF Lone
<1>6. CreatingIsFirst
  BY DEF CreatingIsFirst
<1> QED
  BY <1>3, <1>4, <1>5, <1>6 DEF One

LEMMA OneReload ==
    ASSUME Reload PROVE One'
<1>1. \A k \in Kinds, g \in Gateways : Pc(k, g)' = "idle"
  BY DEF Pc, Idle, Reload
<1>2. "activate" \in Kinds /\ "decline" \in Kinds /\ Connecting \subseteq Kinds
  BY ConnectingKinds DEF Kinds
<1>3. startup' = "before" /\ frames' = <<>> /\ \A g \in Gateways : live'[g] = 0
  BY DEF Reload
<1>4. FlowsInPhase'
  BY <1>1, <1>2, <1>3 DEF FlowsInPhase, PhaseOK
<1>5. ServingIsStored' /\ TakenOut'
  BY <1>3 DEF ServingIsStored, Serving, TakenOut
<1>6. Lone(frames', live')
  BY <1>3 DEF Lone
<1>7. CreatingIsFirst'
  BY <1>3 DEF CreatingIsFirst
<1> QED
  BY <1>4, <1>5, <1>6, <1>7 DEF One

LEMMA OneActivate ==
    ASSUME Inv, One, NEW g \in Gateways, ActivateAuthorizedGateway(g) PROVE One'
<1>1. /\ startup = "running" /\ Pc("activate", g) = "idle" /\ g \in todo
      /\ todo' = todo \ {g} /\ UNCHANGED <<startup, stored, frames, live>>
  BY DEF ActivateAuthorizedGateway, Activating
<1>2. "activate" \in Kinds /\ "decline" \in Kinds /\ cached \in [Gateways -> CacheRec]
  BY DEF Kinds, Inv, Core
<1>3. Pc("decline", g) = "idle" /\ Serving(g)
  BY <1>1 DEF One, FlowsInPhase, Serving
<1>4. \A h \in Gateways : cached[h].st # "none" => cached'[h].st # "none"
  BY <1>2 DEF ActivateAuthorizedGateway
<1>5. /\ Lone(frames', live') /\ \A h \in Gateways : live'[h] = live[h]
      /\ \A h \in Gateways : Serving(h) => stored'[h] # None
      /\ \A j \in Connecting : Pc(j, g) = "creating" => live'[g] = 0
  BY <1>1, StoredIsServed DEF One, CreatingIsFirst
<1>6. ASSUME NEW pc, NEW m, Turned("activate", g, pc, m),
             pc \in {"idle", "creating", "validating"}, pc = "creating" => live[g] = 0
      PROVE  One'
  <2>1. PhaseOK(startup, "activate", pc, cached'[g].st)
    BY <1>1, <1>6 DEF PhaseOK
  <2> QED
    BY <1>1, <1>2, <1>3, <1>4, <1>5, <1>6, <2>1, FlowMoves
<1>7. CASE cached[g].st = "none"
  <2> DEFINE r == [pc |-> IF live[g] = 0 THEN "creating" ELSE "validating",
                   frame |-> live[g], version |-> published[g], map |-> Idle.map]
  <2>1. flow' = [flow EXCEPT !["activate"][g] = r]
    BY <1>7 DEF ActivateAuthorizedGateway, Launched
  <2>2. r.pc \in {"creating", "validating"} /\ (r.pc = "creating" => live[g] = 0)
    OBVIOUS
  <2>3. Turned("activate", g, r.pc, r.map)
    <3> HIDE DEF r
    <3> QED
      BY <1>2, <2>1, RecordTurns
  <2> HIDE DEF r
  <2> QED
    BY <1>6, <2>2, <2>3
<1>8. CASE cached[g].st # "none"
  <2>1. flow' = flow
    BY <1>8 DEF ActivateAuthorizedGateway
  <2>2. Turned("activate", g, "idle", flow["activate"][g].map)
    BY <1>1, <2>1 DEF Turned, Pc
  <2> QED
    BY <1>6, <2>2
<1> QED
  BY <1>7, <1>8

LEMMA OneAuthorize ==
    ASSUME Inv, One, NEW g \in Gateways, AuthorizeGateway(g) PROVE One'
<1>1. startup # "before" /\ UNCHANGED <<startup, todo, stored, cached, frames, live>>
  BY DEF AuthorizeGateway
<1>2. "authorize" \in Kinds /\ "checking" \in Pcs
  BY DEF Kinds, Pcs
<1>3. CASE g \in inProgress
  <2>1. flow' = flow /\ Pc("authorize", g) = "idle"
    BY <1>3 DEF AuthorizeGateway
  <2>2. Turned("authorize", g, "idle", flow["authorize"][g].map)
    BY <2>1 DEF Turned, Pc
  <2>3. PhaseOK(startup, "authorize", "idle", cached[g].st)
    BY DEF PhaseOK
  <2> QED
    BY <1>1, <1>2, <2>2, <2>3, StillMoves
<1>4. CASE g \notin inProgress
  <2>1. flow' = Goto("authorize", g, "checking")
    BY <1>4 DEF AuthorizeGateway
  <2>2. Turned("authorize", g, "checking", flow["authorize"][g].map)
    BY <1>2, <2>1, GotoTurns
  <2>3. PhaseOK(startup, "authorize", "checking", cached[g].st)
    BY <1>1 DEF PhaseOK
  <2> QED
    BY <1>1, <1>2, <2>2, <2>3, StillMoves
<1> QED
  BY <1>3, <1>4

\* A flow that ends, when nothing else changes.
LEMMA OneEnds ==
    ASSUME Inv, One, NEW k \in Kinds, NEW g \in Gateways, flow' = Ended(k, g),
           k = "activate" => Pc("decline", g) = "idle",
           UNCHANGED <<startup, todo, stored, cached, frames, live>>
    PROVE  One'
<1>1. Turned(k, g, Idle.pc, Idle.map)
  BY RecordTurns DEF Ended
<1>2. Idle.pc = "idle"
  BY DEF Idle
<1>3. PhaseOK(startup, k, "idle", cached[g].st)
  BY DEF PhaseOK
<1> QED
  BY <1>1, <1>2, <1>3, StillMoves

\* An authorization makes an iframe only of a gateway that is not stored, so
\* that it is not being activated.
LEMMA OneAuthorizeChecked ==
    ASSUME Inv, One, NEW g \in Gateways, AuthorizeChecked(g) PROVE One'
<1>1. /\ Pc("authorize", g) = "checking" /\ "authorize" \in Kinds
      /\ UNCHANGED <<startup, todo, stored, cached, frames, live>>
  BY DEF AuthorizeChecked, Kinds
<1>2. CASE stored[g] # None
  <2>1. flow' = Ended("authorize", g)
    BY <1>2 DEF AuthorizeChecked
  <2> QED
    BY <1>1, <2>1, OneEnds
<1>3. CASE stored[g] = None
  <2> DEFINE r == [pc |-> IF live[g] = 0 THEN "creating" ELSE "validating",
                   frame |-> live[g], version |-> published[g], map |-> Idle.map]
  <2>1. flow' = [flow EXCEPT !["authorize"][g] = r]
    BY <1>3 DEF AuthorizeChecked, Launched
  <2>2. r.pc \in {"creating", "validating"} /\ (r.pc = "creating" => live[g] = 0)
    OBVIOUS
  <2>3. Turned("authorize", g, r.pc, r.map)
    <3> HIDE DEF r
    <3> QED
      BY <1>1, <2>1, RecordTurns
  <2>4. ~ Serving(g)
    BY <1>3 DEF One, ServingIsStored
  <2> HIDE DEF r
  <2>5. PhaseOK(startup, "authorize", r.pc, cached'[g].st)
    BY <1>1 DEF One, FlowsInPhase, PhaseOK
  <2>6. /\ Lone(frames', live') /\ \A h \in Gateways : Serving(h) => stored'[h] # None
        /\ \A j \in Connecting : Pc(j, g) = "creating" => live'[g] = 0
    BY <1>1, StoredIsServed DEF One, CreatingIsFirst
  <2> QED
    BY <1>1, <2>2, <2>3, <2>4, <2>5, <2>6, FlowMoves
<1> QED
  BY <1>2, <1>3

LEMMA OneAuthorizeCheckFails ==
    ASSUME Inv, One, NEW g \in Gateways, AuthorizeCheckFails(g) PROVE One'
<1>1. flow' = Ended("authorize", g) /\ "authorize" \in Kinds
      /\ UNCHANGED <<startup, todo, stored, cached, frames, live>>
  BY DEF AuthorizeCheckFails, Kinds
<1> QED
  BY <1>1, OneEnds

\* The iframe is made while the gateway has none, and nobody else is making it.
LEMMA OneFrameUp ==
    ASSUME Inv, One, NEW k \in Connecting, NEW g \in Gateways, FrameUp(k, g) PROVE One'
<1> DEFINE f == [gateway |-> g, code |-> published[g],
                 valid |-> published[g] = flow[k][g].version,
                 alive |-> TRUE, active |-> FALSE]
           n == Len(frames) + 1
<1>1. /\ Pc(k, g) = "creating" /\ frames' = Append(frames, f)
      /\ live' = [live EXCEPT ![g] = n]
      /\ flow' = [flow EXCEPT ![k][g].pc = "validating", ![k][g].frame = n]
      /\ UNCHANGED <<startup, todo, stored, cached>>
  BY DEF FrameUp
<1>2. /\ k \in Kinds /\ "validating" \in Pcs /\ frames \in Seq(FrameRec) /\ Len(frames) \in Nat
      /\ live \in [Gateways -> Nat]
  BY ConnectingKinds DEF Inv, Core, FramesOK, Pcs
<1>3. /\ startup # "before"
      /\ k = "activate" => /\ startup = "running" /\ Serving(g) /\ g \notin todo
                           /\ Pc("decline", g) = "idle"
      /\ k = "authorize" => ~ Serving(g)
      /\ \A j \in Connecting \ {k} : Pc(j, g) # "creating"
  BY <1>1, AtWork DEF Working
<1>4. live[g] = 0
  BY <1>1 DEF One, CreatingIsFirst
<1>5. Turned(k, g, "validating", flow[k][g].map)
  <2> HIDE DEF n
  <2> QED
    BY <1>1, <1>2, FieldsTurn
<1>6. PhaseOK(startup, k, "validating", cached'[g].st)
  BY <1>3 DEF PhaseOK, Connecting
<1>7. live'[g] = n /\ \A h \in Gateways \ {g} : live'[h] = live[h]
  BY <1>1, <1>2
<1>8. Lone(frames', live')
  <2>1. Len(frames') = n /\ frames'[n] = f /\ \A i \in 1..Len(frames) : frames'[i] = frames[i]
    BY <1>1, <1>2
  <2>2. f.gateway = g
    OBVIOUS
  <2>3. \A i \in 1..n : i \in 1..Len(frames) \/ i = n
    BY <1>2
  <2>4. \A i \in 1..Len(frames) : frames[i] \in FrameRec /\ i # 0
    BY <1>2
  <2> HIDE DEF f, n
  <2>5. ASSUME NEW i \in 1..n, frames'[i].alive PROVE live'[frames'[i].gateway] = i
    <3>1. CASE i = n
      BY <1>7, <2>1, <2>2, <3>1
    <3>2. CASE i \in 1..Len(frames)
      <4>1. frames'[i] = frames[i] /\ live[frames[i].gateway] = i
        BY <2>1, <2>5, <3>2 DEF One, Lone
      <4>2. frames[i].gateway \in Gateways
        <5>1. frames[i] \in FrameRec
          BY <2>4, <3>2
        <5> QED
          BY <5>1 DEF FrameRec
      <4>3. frames[i].gateway # g
        BY <1>4, <2>4, <3>2, <4>1
      <4> QED
        BY <1>7, <4>1, <4>2, <4>3
    <3> QED
      BY <2>3, <3>1, <3>2
  <2> QED
    BY <2>1, <2>5 DEF Lone
<1>9. \A h \in Gateways : Serving(h) => stored'[h] # None
  BY <1>1, StoredIsServed
<1>10. "validating" \notin {"idle", "storing", "creating"}
  OBVIOUS
<1>11. k \in {"activate", "authorize"}
  BY DEF Connecting
<1> HIDE DEF n, f
<1> QED
  BY <1>1, <1>2, <1>3, <1>5, <1>6, <1>7, <1>8, <1>9, <1>10, <1>11, FlowMoves

\* A flow that fails takes the iframe with it, or leaves it.
LEMMA OneFail ==
    ASSUME Inv, One, NEW k \in Connecting, NEW g \in Gateways, NEW e \in Errors,
           Pc(k, g) \in Working, Fail(k, g, e), UNCHANGED <<startup, todo>>,
           \A h \in Gateways : Serving(h) => stored'[h] # None
    PROVE  One'
<1>1. /\ k \in Kinds /\ "activate" \in Kinds /\ "authorize" \in Kinds /\ "decline" \in Kinds
      /\ cached \in [Gateways -> CacheRec]
  BY ConnectingKinds DEF Kinds, Inv, Core
<1>2. Lone(frames, live) /\ \A j \in Connecting : Pc(j, g) = "creating" => live[g] = 0
  BY DEF One, CreatingIsFirst
<1>3. /\ Lone(frames', live') /\ \A h \in Gateways \ {g} : live'[h] = live[h]
      /\ \A j \in Connecting : Pc(j, g) = "creating" => live'[g] = 0
  <2>1. CASE DestroyProxy(g)
    BY <1>2, <2>1, DestroyIsLone
  <2>2. CASE UNCHANGED <<frames, live>>
    BY <1>2, <2>2
  <2> QED
    BY <2>1, <2>2 DEF Fail, ActivationFailed, AuthorizationFailed
<1>4. \A h \in Gateways : cached[h].st # "none" => cached'[h].st # "none"
  BY <1>1 DEF Fail, ActivationFailed, AuthorizationFailed, Errors
<1>5. CASE k = "activate"
  <2>1. flow' = [flow EXCEPT !["activate"][g] = Idle, !["decline"][g] = Idle]
    BY <1>5 DEF Fail, ActivationFailed
  <2>2. /\ flow'["activate"][g].pc = "idle" /\ flow'["decline"][g].pc = "idle"
        /\ \A i \in Kinds, h \in Gateways :
               h # g \/ (i # "activate" /\ i # "decline") => flow'[i][h] = flow[i][h]
    <3>1. flow \in [Kinds -> [Gateways -> FlowRec]]
      BY DEF Inv, Core
    <3> QED
      BY <1>1, <2>1, <3>1 DEF Idle
  <2>3. OnlyOf(g)
    BY <1>3, <1>4, <2>2 DEF OnlyOf
  <2>4. ASSUME NEW j \in Kinds PROVE PhaseOK(startup, j, flow'[j][g].pc, cached'[g].st)
    <3>1. CASE j \in {"activate", "decline"}
      BY <2>2, <3>1 DEF PhaseOK
    <3>2. CASE j \notin {"activate", "decline"}
      <4>1. PhaseOK(startup, j, flow[j][g].pc, cached[g].st)
        BY DEF One, FlowsInPhase, Pc
      <4>2. flow'[j][g].pc = flow[j][g].pc
        BY <2>2, <3>2
      <4> QED
        BY <3>2, <4>1, <4>2 DEF PhaseOK
    <3> QED
      BY <3>1, <3>2
  <2>5. g \notin todo
    BY <1>5, AtWork
  <2>6. ~ Serving(g)'
    BY <1>1, <2>2, <2>5 DEF Serving, Pc
  <2>7. \A h \in Gateways : Serving(h)' => stored'[h] # None
    BY <1>1, <2>2, <2>6 DEF Serving, Pc
  <2>8. \A j \in Kinds : flow'[j][g].pc = "storing"
            => flow[j][g].pc = "storing" /\ flow'[j][g].map = flow[j][g].map
    BY <2>2
  <2>9. \A j \in Connecting : flow'[j][g].pc = "creating" => live'[g] = 0
    BY <1>1, <1>3, <2>2 DEF Connecting, Pc
  <2> QED
    BY <1>3, <2>2, <2>3, <2>4, <2>5, <2>6, <2>7, <2>8, <2>9, OneKeeps
<1>6. CASE k = "authorize"
  <2>1. flow' = [flow EXCEPT !["authorize"][g] = Idle]
    BY <1>6 DEF Fail, AuthorizationFailed, Ended
  <2>2. Turned("authorize", g, Idle.pc, Idle.map) /\ Idle.pc = "idle"
    <3>1. Idle.pc = "idle"
      BY DEF Idle
    <3> QED
      BY <1>1, <2>1, <3>1, RecordTurns
  <2>3. PhaseOK(startup, "authorize", "idle", cached'[g].st)
    BY DEF PhaseOK
  <2> QED
    BY <1>1, <1>3, <1>4, <2>2, <2>3, FlowMoves
<1> QED
  BY <1>5, <1>6 DEF Connecting

\* A flow at work goes on with its work.
LEMMA OneGoesOn ==
    ASSUME Inv, One, NEW k \in Connecting, NEW g \in Gateways, Pc(k, g) \in Working,
           NEW pc \in Working \ {"creating", "storing"}, flow' = Goto(k, g, pc),
           UNCHANGED <<startup, todo, cached, frames, live>>,
           \A h \in Gateways : Serving(h) => stored'[h] # None
    PROVE  One'
<1>1. k \in Kinds /\ pc \in Pcs
  BY ConnectingKinds DEF Working, Pcs
<1>2. Turned(k, g, pc, flow[k][g].map)
  BY <1>1, GotoTurns
<1>3. /\ startup # "before"
      /\ k = "activate" => /\ startup = "running" /\ Serving(g) /\ g \notin todo
                           /\ Pc("decline", g) = "idle"
      /\ k = "authorize" => ~ Serving(g)
  BY AtWork
<1>4. PhaseOK(startup, k, pc, cached'[g].st)
  BY <1>3 DEF PhaseOK, Working, Connecting
<1>5. Lone(frames', live') /\ \A j \in Connecting : Pc(j, g) = "creating" => live'[g] = 0
  BY DEF One, CreatingIsFirst
<1>6. k # "decline"
  BY DEF Connecting
<1>7. pc # "storing" /\ pc # "creating"
  OBVIOUS
<1> QED
  BY <1>1, <1>2, <1>3, <1>4, <1>5, <1>6, <1>7, FlowMoves

LEMMA OneCall ==
    ASSUME Inv, One, NEW k \in Connecting, NEW g \in Gateways, Pc(k, g) \in Working,
           NEW pc \in Working \ {"creating", "storing"}, Call(k, g, pc),
           UNCHANGED <<startup, todo>>, \A h \in Gateways : Serving(h) => stored'[h] # None
    PROVE  One'
<1>1. CASE Frame(k, g).alive
  BY <1>1, OneGoesOn DEF Call
<1>2. CASE ~ Frame(k, g).alive
  BY <1>2, OneFail DEF Call, Errors
<1> QED
  BY <1>1, <1>2

LEMMA OneFails ==
    ASSUME Inv, One, NEW k \in Connecting, NEW g \in Gateways,
           FrameFails(k, g) \/ ConnectFails(k, g)
    PROVE  One'
<1>1. /\ Fail(k, g, "proxy") \/ Fail(k, g, "plain")
      /\ UNCHANGED <<startup, todo, stored>>
  BY DEF FrameFails, ConnectFails, Working
<1>2. Pc(k, g) \in Working
  BY DEF FrameFails, ConnectFails, Working
<1> QED
  BY <1>1, <1>2, OneFail, StoredIsServed DEF Errors

LEMMA OneValidated ==
    ASSUME Inv, One, NEW k \in Connecting, NEW g \in Gateways, Validated(k, g) PROVE One'
<1>1. Pc(k, g) \in Working /\ UNCHANGED <<startup, todo, stored>>
  BY DEF Validated, Working
<1>2. \A h \in Gateways : Serving(h) => stored'[h] # None
  BY <1>1, StoredIsServed
<1>3. CASE ~ Frame(k, g).valid
  BY <1>1, <1>2, <1>3, OneFail DEF Validated, Errors
<1>4. CASE Frame(k, g).valid /\ Approved(k, g)
  BY <1>1, <1>2, <1>4, OneCall DEF Validated, Working
<1>5. CASE Frame(k, g).valid /\ ~ Approved(k, g)
  BY <1>1, <1>2, <1>5, OneGoesOn DEF Validated, Working
<1> QED
  BY <1>3, <1>4, <1>5

LEMMA OneSign ==
    ASSUME Inv, One, NEW k \in Connecting, NEW g \in Gateways, Sign(k, g) PROVE One'
<1>1. /\ Pc(k, g) \in Working /\ flow' = Goto(k, g, "reading")
      /\ "reading" \in Working \ {"creating", "storing"}
      /\ UNCHANGED <<startup, todo, stored, cached, frames, live>>
  BY DEF Sign, Working
<1> QED
  BY <1>1, StoredIsServed, OneGoesOn

\* The activation of a gateway that is declined waits for that.
LEMMA OneRefused ==
    ASSUME Inv, One, NEW k \in Connecting, NEW g \in Gateways, Refused(k, g) PROVE One'
<1>1. Pc(k, g) \in Working /\ UNCHANGED <<startup, todo, stored>>
  BY DEF Refused, Working
<1>2. CASE k = "activate"
  <2> DEFINE q == IF Frame(k, g).alive THEN "asking" ELSE "reading"
             r == [pc |-> q, frame |-> flow[k][g].frame, version |-> None, map |-> Idle.map]
             a == [flow["activate"][g] EXCEPT !.pc = "declining"]
             fm == [flow EXCEPT !["activate"][g].pc = "declining"]
  <2>1. flow' = [fm EXCEPT !["decline"][g] = r] /\ UNCHANGED <<cached, frames, live>>
    BY <1>2 DEF Refused
  <2>2. /\ flow \in [Kinds -> [Gateways -> FlowRec]] /\ "activate" \in Kinds
        /\ "decline" \in Kinds /\ Connecting \subseteq Kinds
    BY ConnectingKinds DEF Inv, Core, Kinds
  <2>3. a \in FlowRec /\ a.pc = "declining"
    <3>1. flow["activate"][g] \in FlowRec /\ "declining" \in Pcs
      BY <2>2 DEF Pcs
    <3> QED
      BY <3>1, PcSet
  <2>4. /\ fm \in [Kinds -> [Gateways -> FlowRec]] /\ fm["activate"][g] = a
        /\ \A i \in Kinds, h \in Gateways : h # g \/ i # "activate" => fm[i][h] = flow[i][h]
    BY <2>2, <2>3
  <2>5. /\ flow'["activate"][g] = a /\ flow'["decline"][g] = r
        /\ \A i \in Kinds, h \in Gateways :
               h # g \/ (i # "activate" /\ i # "decline") => flow'[i][h] = flow[i][h]
    <3> HIDE DEF fm, r, a
    <3> QED
      BY <2>1, <2>2, <2>4
  <2>6. r.pc \in {"asking", "reading"}
    OBVIOUS
  <2> HIDE DEF r, a, fm, q
  <2>7. OnlyOf(g)
    BY <1>1, <2>1, <2>5 DEF OnlyOf
  <2>8. startup = "running" /\ Serving(g) /\ g \notin todo
        /\ Pc("authorize", g) \in {"idle", "checking"}
    BY <1>1, <1>2, AtWork
  <2>9. ASSUME NEW j \in Kinds PROVE PhaseOK(startup, j, flow'[j][g].pc, cached'[g].st)
    <3>1. CASE j \in {"activate", "decline"}
      BY <2>3, <2>5, <2>6, <2>8, <3>1 DEF PhaseOK
    <3>2. CASE j \notin {"activate", "decline"}
      <4>1. PhaseOK(startup, j, flow[j][g].pc, cached[g].st)
        BY DEF One, FlowsInPhase, Pc
      <4>2. flow'[j][g].pc = flow[j][g].pc
        BY <2>5, <3>2
      <4> QED
        BY <2>1, <4>1, <4>2
    <3> QED
      BY <3>1, <3>2
  <2>10. flow'["authorize"][g].pc \in {"idle", "checking"}
    <3>1. "authorize" \in Kinds
      BY DEF Kinds
    <3> QED
      BY <2>5, <2>8, <3>1 DEF Pc
  <2>11. \A h \in Gateways : Serving(h)' => stored'[h] # None
    BY <1>1, <2>2, <2>5, <2>8, StoredIsServed DEF Serving, Pc
  <2>12. \A j \in Kinds : flow'[j][g].pc = "storing"
            => flow[j][g].pc = "storing" /\ flow'[j][g].map = flow[j][g].map
    <3>1. flow'["activate"][g].pc # "storing" /\ flow'["decline"][g].pc # "storing"
      BY <2>3, <2>5, <2>6
    <3> QED
      BY <2>5, <3>1
  <2>13. \A j \in Connecting : flow'[j][g].pc = "creating" => live'[g] = 0
    <3>1. \A j \in Connecting : Pc(j, g) = "creating" => live[g] = 0
      BY DEF One, CreatingIsFirst
    <3>2. flow'["activate"][g].pc # "creating"
      BY <2>3, <2>5
    <3> QED
      BY <2>1, <2>2, <2>5, <3>1, <3>2 DEF Connecting, Pc
  <2>14. Lone(frames', live')
    BY <2>1 DEF One
  <2>15. flow'["activate"][g].pc = "declining"
    BY <2>3, <2>5
  <2> QED
    BY <1>1, <2>7, <2>8, <2>9, <2>10, <2>11, <2>12, <2>13, <2>14, <2>15, OneKeeps
<1>3. CASE k # "activate"
  <2>1. Fail(k, g, "plain") /\ "plain" \in Errors
    BY <1>3 DEF Refused, Errors
  <2> QED
    BY <1>1, <2>1, OneFail, StoredIsServed
<1> QED
  BY <1>2, <1>3

LEMMA OneReadMap ==
    ASSUME Inv, One, NEW k \in Kinds, NEW g \in Gateways, ReadMap(k, g) PROVE One'
<1>1. /\ Pc(k, g) = "reading" /\ UNCHANGED <<startup, todo, stored, cached, frames, live>>
      /\ flow' = [flow EXCEPT ![k][g].pc = "storing", ![k][g].map = stored]
  BY DEF ReadMap
<1>2. /\ "storing" \in Pcs /\ "activate" \in Kinds /\ "authorize" \in Kinds
      /\ startup \in {"before", "running", "done"}
  BY DEF Pcs, Kinds, Inv, Rest
<1>3. Turned(k, g, "storing", stored)
  BY <1>1, <1>2, FieldsTurn
<1>4. PhaseOK(startup, k, "reading", cached[g].st)
  BY <1>1 DEF One, FlowsInPhase
<1>5. PhaseOK(startup, k, "storing", cached[g].st)
  BY <1>4 DEF PhaseOK
<1>6. k = "decline" => Pc("activate", g) = "declining"
  BY <1>1 DEF One, FlowsInPhase
<1>7. k \in Connecting
      => /\ k = "activate" => Serving(g) /\ g \notin todo /\ Pc("decline", g) = "idle"
         /\ k = "authorize" => ~ Serving(g)
  BY <1>1, AtWork DEF Working
<1>8. k \in {"activate", "authorize"} <=> k \in Connecting
  BY DEF Connecting
<1> QED
  BY <1>1, <1>3, <1>5, <1>6, <1>7, <1>8, StillMoves

\* What is being activated stays stored, whoever writes the map back.
LEMMA WriteIsServed ==
    ASSUME Inv, One, NEW k \in Kinds, NEW g \in Gateways, Pc(k, g) = "storing", NEW v,
           WriteMap(k, g, v)
    PROVE  \A h \in Gateways : Serving(h) /\ (h # g \/ v # None) => stored'[h] # None
<1> SUFFICES ASSUME NEW h \in Gateways, Serving(h), h # g \/ v # None
             PROVE  stored'[h] # None
  OBVIOUS
<1>1. stored[h] # None /\ flow[k][g].map[h] # None
  BY DEF One, ServingIsStored
<1>2. flow[k][g].map \in Map
  BY Facts DEF FlowOK, MapOK
<1> QED
  BY <1>1, <1>2 DEF WriteMap, Map

LEMMA OneStoreAuthorization ==
    ASSUME Inv, One, NEW k \in Connecting, NEW g \in Gateways, StoreAuthorization(k, g)
    PROVE  One'
<1>1. /\ k \in Kinds /\ Pc(k, g) = "storing" /\ WriteMap(k, g, Frame(k, g).code)
      /\ Call(k, g, "connecting") /\ UNCHANGED <<startup, todo>>
  BY ConnectingKinds DEF StoreAuthorization
<1>2. Frame(k, g).code \in signed[g]
  BY <1>1, Facts DEF Pc, FlowOK, Framed, Past, Frame
<1>3. Frame(k, g).code # None
  BY <1>2, NoneAssumption DEF Inv, Rest
<1>4. \A h \in Gateways : Serving(h) => stored'[h] # None
  BY <1>1, <1>3, WriteIsServed
<1> QED
  BY <1>1, <1>4, OneCall DEF Working

LEMMA OneConnected ==
    ASSUME Inv, One, NEW k \in Connecting, NEW g \in Gateways, Connected(k, g) PROVE One'
<1> DEFINE i == flow[k][g].frame
<1>1. /\ Pc(k, g) = "connecting" /\ flow' = [flow EXCEPT ![k][g] = Idle]
      /\ frames' = [frames EXCEPT ![i] = [frames[i] EXCEPT !.active = TRUE]]
      /\ cached' = [cached EXCEPT ![g] = [st |-> "ok", frame |-> i]]
      /\ UNCHANGED <<startup, todo, stored, live>>
  BY DEF Connected, Ended
<1>2. /\ k \in Kinds /\ k # "decline" /\ frames \in Seq(FrameRec)
      /\ cached \in [Gateways -> CacheRec]
  BY ConnectingKinds DEF Inv, Core, FramesOK, Connecting
<1>3. i \in 1..Len(frames)
  BY <1>1, <1>2, Facts DEF FlowOK, Pc, Framed, RefOK
<1>4. \A j \in 1..Len(frames) :
          frames'[j].gateway = frames[j].gateway /\ frames'[j].alive = frames[j].alive
  <2> SUFFICES ASSUME NEW j \in 1..Len(frames)
               PROVE  /\ frames'[j].gateway = frames[j].gateway
                      /\ frames'[j].alive = frames[j].alive
    OBVIOUS
  <2>1. frames'[j] = IF j = i THEN [frames[i] EXCEPT !.active = TRUE] ELSE frames[j]
    BY <1>1, <1>2
  <2>2. frames[i] \in FrameRec
    BY <1>2, <1>3
  <2> HIDE DEF i
  <2> QED
    BY <2>1, <2>2 DEF FrameRec
<1>5. Len(frames') = Len(frames)
  BY <1>1, <1>2
<1>6. Lone(frames', live')
  BY <1>1, <1>4, <1>5 DEF One, Lone
<1>7. Turned(k, g, Idle.pc, Idle.map) /\ Idle.pc = "idle"
  <2>1. Idle.pc = "idle"
    BY DEF Idle
  <2> QED
    BY <1>1, <1>2, <2>1, RecordTurns
<1>8. \A h \in Gateways : cached[h].st # "none" => cached'[h].st # "none"
  BY <1>1, <1>2
<1>9. PhaseOK(startup, k, "idle", cached'[g].st)
  BY DEF PhaseOK
<1>10. k = "activate" => Pc("decline", g) = "idle"
  BY <1>1, AtWork DEF Working
<1>11. /\ \A h \in Gateways : Serving(h) => stored'[h] # None
       /\ \A j \in Connecting : Pc(j, g) = "creating" => live'[g] = 0
  BY <1>1, StoredIsServed DEF One, CreatingIsFirst
<1> HIDE DEF i
<1> QED
  BY <1>1, <1>2, <1>6, <1>7, <1>8, <1>9, <1>10, <1>11, FlowMoves

\* A second try begins when startup is over, and goes no further.
LEMMA OneRetried ==
    ASSUME Inv, One, NEW g \in Gateways, startup = "done", Retried(g),
           flow' = [flow EXCEPT !["activate"][g].pc = "retrying"],
           UNCHANGED <<startup, todo, stored>>
    PROVE  One'
<1>1. /\ "activate" \in Kinds /\ "decline" \in Kinds /\ "retrying" \in Pcs
      /\ cached \in [Gateways -> CacheRec]
  BY DEF Kinds, Pcs, Inv, Core
<1>2. Turned("activate", g, "retrying", flow["activate"][g].map)
  BY <1>1, GotoTurns DEF Goto
<1>3. cached'[g].st = "pending"
  BY <1>1 DEF Retried
<1>4. \A h \in Gateways : cached[h].st # "none" => cached'[h].st # "none"
  BY <1>1 DEF Retried
<1>5. PhaseOK(startup, "activate", "retrying", cached'[g].st)
  BY <1>3 DEF PhaseOK
<1>6. /\ Lone(frames', live') /\ live'[g] = 0 /\ \A h \in Gateways \ {g} : live'[h] = live[h]
  BY DestroyIsLone DEF One, Retried
<1>7. Pc("decline", g) = "idle"
  BY <1>1 DEF One, FlowsInPhase, PhaseOK
<1>8. \A h \in Gateways : Serving(h) => stored'[h] # None
  BY StoredIsServed
<1> QED
  BY <1>1, <1>2, <1>4, <1>5, <1>6, <1>7, <1>8, FlowMoves

LEMMA OneUseProxy ==
    ASSUME Inv, One, NEW g \in Gateways, UseProxy(g) PROVE One'
BY OneRetried DEF UseProxy

LEMMA OneReactivate ==
    ASSUME Inv, One, NEW g \in Gateways, Reactivate(g) PROVE One'
<1>1. /\ Pc("activate", g) = "retrying" /\ "activate" \in Kinds /\ "hung" \in Pcs
      /\ startup \in {"before", "running", "done"} /\ cached \in [Gateways -> CacheRec]
      /\ UNCHANGED <<startup, todo, stored, frames, live>>
  BY DEF Reactivate, Kinds, Pcs, Inv, Rest, Core
<1>2. startup = "done" /\ cached[g].st # "none"
  BY <1>1 DEF One, FlowsInPhase, PhaseOK
<1>3. Pc("decline", g) = "idle"
  BY <1>1 DEF One, FlowsInPhase
<1>4. /\ Lone(frames', live') /\ \A h \in Gateways : Serving(h) => stored'[h] # None
      /\ \A j \in Connecting : Pc(j, g) = "creating" => live'[g] = 0
      /\ \A h \in Gateways \ {g} : live'[h] = live[h]
  BY <1>1, StoredIsServed DEF One, CreatingIsFirst
<1>5. ASSUME NEW pc \in {"hung", "idle"}, NEW m, Turned("activate", g, pc, m),
             \A h \in Gateways : cached[h].st # "none" => cached'[h].st # "none"
      PROVE  One'
  <2>1. PhaseOK(startup, "activate", pc, cached'[g].st)
    BY <1>2 DEF PhaseOK
  <2> QED
    BY <1>1, <1>2, <1>3, <1>4, <1>5, <2>1, FlowMoves
<1>6. CASE flow' = Goto("activate", g, "hung") /\ cached' = cached
  BY <1>1, <1>5, <1>6, GotoTurns
<1>7. CASE /\ flow' = Ended("activate", g)
           /\ cached' = [cached EXCEPT ![g] = [st |-> "plain", frame |-> 0]]
  <2>1. Turned("activate", g, Idle.pc, Idle.map)
    BY <1>1, <1>7, RecordTurns DEF Ended
  <2>2. Idle.pc = "idle"
    BY DEF Idle
  <2>3. \A h \in Gateways : cached[h].st # "none" => cached'[h].st # "none"
    BY <1>1, <1>7
  <2> QED
    BY <1>5, <2>1, <2>2, <2>3
<1> QED
  BY <1>2, <1>6, <1>7 DEF Reactivate

LEMMA OneDeauthorize ==
    ASSUME Inv, One, NEW g \in Gateways, DeauthorizeGateway(g) PROVE One'
<1>1. /\ startup # "before" /\ UNCHANGED <<startup, todo, stored, cached, frames, live>>
      /\ "deauthorize" \in Kinds /\ "looking" \in Pcs
      /\ flow' = Goto("deauthorize", g, "looking")
  BY DEF DeauthorizeGateway, Kinds, Pcs
<1>2. Turned("deauthorize", g, "looking", flow["deauthorize"][g].map)
  BY <1>1, GotoTurns
<1>3. PhaseOK(startup, "deauthorize", "looking", cached[g].st)
  BY <1>1 DEF PhaseOK
<1> QED
  BY <1>1, <1>2, <1>3, StillMoves

LEMMA OneDeauthorizeRead ==
    ASSUME Inv, One, NEW g \in Gateways, DeauthorizeRead(g) PROVE One'
<1>1. /\ Pc("deauthorize", g) = "looking" /\ "deauthorize" \in Kinds /\ "waiting" \in Pcs
      /\ UNCHANGED <<startup, todo, stored, cached, frames, live>>
      /\ flow' = [flow EXCEPT !["deauthorize"][g].pc = "waiting",
                              !["deauthorize"][g].map = stored]
  BY DEF DeauthorizeRead, Kinds, Pcs
<1>2. Turned("deauthorize", g, "waiting", stored)
  BY <1>1, FieldsTurn
<1>3. PhaseOK(startup, "deauthorize", "waiting", cached[g].st)
  BY <1>1 DEF One, FlowsInPhase, PhaseOK
<1> QED
  BY <1>1, <1>2, <1>3, StillMoves

LEMMA OneDeauthorizeLookup ==
    ASSUME Inv, One, NEW g \in Gateways, DeauthorizeLookup(g) PROVE One'
<1>1. /\ Pc("deauthorize", g) = "waiting" /\ startup = "done" /\ "deauthorize" \in Kinds
      /\ "reading" \in Pcs /\ "asking" \in Pcs /\ UNCHANGED <<startup, todo, stored>>
  BY DEF DeauthorizeLookup, Kinds, Pcs
<1>2. ASSUME NEW pc \in {"reading", "asking"}, NEW m, Turned("deauthorize", g, pc, m),
             UNCHANGED <<cached, frames, live>>
      PROVE  One'
  <2>1. PhaseOK(startup, "deauthorize", pc, cached[g].st)
    BY <1>1 DEF PhaseOK
  <2> QED
    BY <1>1, <1>2, <2>1, StillMoves
<1>3. CASE flow' = Ended("deauthorize", g) /\ UNCHANGED <<cached, frames, live>>
  BY <1>1, <1>3, OneEnds
<1>4. CASE flow' = Goto("deauthorize", g, "reading") /\ UNCHANGED <<cached, frames, live>>
  <2>1. Turned("deauthorize", g, "reading", flow["deauthorize"][g].map)
    BY <1>1, <1>4, GotoTurns
  <2> QED
    BY <1>2, <1>4, <2>1
<1>5. CASE /\ flow' = [flow EXCEPT !["deauthorize"][g].pc = "asking",
                                   !["deauthorize"][g].frame = cached[g].frame]
           /\ UNCHANGED <<cached, frames, live>>
  <2>1. Turned("deauthorize", g, "asking", flow["deauthorize"][g].map)
    BY <1>1, <1>5, FieldsTurn
  <2> QED
    BY <1>2, <1>5, <2>1
<1>6. CASE Retried(g) /\ flow' = [flow EXCEPT !["activate"][g].pc = "retrying"]
  BY <1>1, <1>6, OneRetried
<1> QED
  BY <1>3, <1>4, <1>5, <1>6 DEF DeauthorizeLookup

LEMMA OneAsked ==
    ASSUME Inv, One, NEW k \in {"decline", "deauthorize"}, NEW g \in Gateways, Asked(k, g)
    PROVE  One'
<1>1. /\ Pc(k, g) = "asking" /\ k \in Kinds /\ "reading" \in Pcs
      /\ flow' = Goto(k, g, "reading")
      /\ UNCHANGED <<startup, todo, stored, cached, frames, live>>
  BY DEF Asked, Kinds, Pcs
<1>2. Turned(k, g, "reading", flow[k][g].map)
  BY <1>1, GotoTurns
<1>3. PhaseOK(startup, k, "asking", cached[g].st)
  BY <1>1 DEF One, FlowsInPhase
<1>4. PhaseOK(startup, k, "reading", cached[g].st)
  BY <1>3 DEF PhaseOK
<1>5. k = "decline" => Pc("activate", g) = "declining"
  BY <1>1 DEF One, FlowsInPhase
<1> QED
  BY <1>1, <1>2, <1>4, <1>5, StillMoves

\* What is taken out of the stored map is no longer being activated.
LEMMA OneRemoveAuthorization ==
    ASSUME Inv, One, NEW k \in {"decline", "deauthorize"}, NEW g \in Gateways,
           RemoveAuthorization(k, g)
    PROVE  One'
<1>1. /\ Pc(k, g) = "storing" /\ WriteMap(k, g, None) /\ DestroyProxy(g)
      /\ UNCHANGED <<startup, todo>>
  BY DEF RemoveAuthorization
<1>2. /\ k \in Kinds /\ "activate" \in Kinds /\ "authorize" \in Kinds /\ "decline" \in Kinds
      /\ Connecting \subseteq Kinds /\ cached \in [Gateways -> CacheRec]
      /\ startup \in {"before", "running", "done"} /\ flow \in [Kinds -> [Gateways -> FlowRec]]
  BY ConnectingKinds DEF Kinds, Inv, Rest, Core
<1>3. PhaseOK(startup, k, "storing", cached[g].st)
  BY <1>1, <1>2 DEF One, FlowsInPhase
<1>4. \A h \in Gateways : Serving(h) /\ h # g => stored'[h] # None
  BY <1>1, <1>2, WriteIsServed
<1>5. /\ Lone(frames', live') /\ live'[g] = 0 /\ \A h \in Gateways \ {g} : live'[h] = live[h]
  BY <1>1, DestroyIsLone DEF One
<1>6. CASE k = "deauthorize"
  <2>1. flow' = [flow EXCEPT ![k][g] = Idle] /\ UNCHANGED cached
    BY <1>6 DEF RemoveAuthorization, Ended
  <2>2. Turned(k, g, Idle.pc, Idle.map) /\ Idle.pc = "idle"
    <3>1. Idle.pc = "idle"
      BY DEF Idle
    <3> QED
      BY <1>2, <2>1, <3>1, RecordTurns
  <2>3. startup = "done"
    BY <1>2, <1>3, <1>6 DEF PhaseOK
  <2>4. PhaseOK(startup, k, "idle", cached'[g].st)
    BY DEF PhaseOK
  <2>5. \A h \in Gateways : Serving(h) => stored'[h] # None
    BY <2>3 DEF Serving
  <2> QED
    BY <1>1, <1>2, <1>5, <1>6, <2>1, <2>2, <2>4, <2>5, FlowMoves
<1>7. CASE k = "decline"
  <2>1. /\ flow' = [flow EXCEPT !["activate"][g] = Idle, !["decline"][g] = Idle]
        /\ cached' = [cached EXCEPT ![g] = [st |-> "denied", frame |-> 0]]
    BY <1>7 DEF RemoveAuthorization
  <2>2. /\ flow'["activate"][g].pc = "idle" /\ flow'["decline"][g].pc = "idle"
        /\ \A i \in Kinds, h \in Gateways :
               h # g \/ (i # "activate" /\ i # "decline") => flow'[i][h] = flow[i][h]
    BY <1>2, <2>1 DEF Idle
  <2>3. \A h \in Gateways : cached[h].st # "none" => cached'[h].st # "none"
    BY <1>2, <2>1
  <2>4. OnlyOf(g)
    BY <1>1, <1>5, <2>2, <2>3 DEF OnlyOf
  <2>5. ASSUME NEW j \in Kinds PROVE PhaseOK(startup, j, flow'[j][g].pc, cached'[g].st)
    <3>1. CASE j \in {"activate", "decline"}
      BY <2>2, <3>1 DEF PhaseOK
    <3>2. CASE j \notin {"activate", "decline"}
      <4>1. PhaseOK(startup, j, flow[j][g].pc, cached[g].st)
        BY DEF One, FlowsInPhase, Pc
      <4>2. flow'[j][g].pc = flow[j][g].pc
        BY <2>2, <3>2
      <4> QED
        BY <3>2, <4>1, <4>2 DEF PhaseOK
    <3> QED
      BY <3>1, <3>2
  <2>6. Pc("activate", g) = "declining"
    BY <1>1, <1>7 DEF One, FlowsInPhase
  <2>7. startup = "running" => g \notin todo
    BY <2>6 DEF One, TakenOut
  <2>8. ~ Serving(g)'
    BY <1>1, <2>2, <2>7 DEF Serving, Pc
  <2>9. \A h \in Gateways : Serving(h)' => stored'[h] # None
    BY <1>1, <1>2, <1>4, <2>2, <2>8 DEF Serving, Pc
  <2>10. \A j \in Kinds : flow'[j][g].pc = "storing"
             => flow[j][g].pc = "storing" /\ flow'[j][g].map = flow[j][g].map
    BY <2>2
  <2> QED
    BY <1>5, <2>2, <2>4, <2>5, <2>8, <2>9, <2>10, OneKeeps
<1> QED
  BY <1>6, <1>7

LEMMA OnePublish ==
    ASSUME One, NEW g \in Gateways, NEW v \in Versions, Publish(g, v) PROVE One'
<1>1. UNCHANGED <<startup, todo, stored, cached, frames, live, flow>>
  BY DEF Publish
<1> QED
  BY <1>1 DEF One, FlowsInPhase, TakenOut, ServingIsStored, Serving, CreatingIsFirst, Pc

LEMMA OneFlowStep ==
    ASSUME Inv, One, NEW k \in Kinds, NEW g \in Gateways, FlowStep(k, g) PROVE One'
<1>1. CASE ReadMap(k, g)
  BY <1>1, OneReadMap
<1>2. CASE /\ k \in {"activate", "authorize"}
           /\ \/ FrameUp(k, g) \/ FrameFails(k, g) \/ Validated(k, g) \/ Sign(k, g)
              \/ Refused(k, g) \/ StoreAuthorization(k, g) \/ Connected(k, g)
              \/ ConnectFails(k, g)
  <2>1. k \in Connecting
    BY <1>2 DEF Connecting
  <2> QED
    BY <1>2, <2>1, OneFrameUp, OneFails, OneValidated, OneSign, OneRefused,
       OneStoreAuthorization, OneConnected
<1>3. CASE Reactivate(g)
  BY <1>3, OneReactivate
<1>4. CASE AuthorizeChecked(g) \/ AuthorizeCheckFails(g)
  BY <1>4, OneAuthorizeChecked, OneAuthorizeCheckFails
<1>5. CASE DeauthorizeRead(g) \/ DeauthorizeLookup(g)
  BY <1>5, OneDeauthorizeRead, OneDeauthorizeLookup
<1>6. CASE k \in {"decline", "deauthorize"} /\ (Asked(k, g) \/ RemoveAuthorization(k, g))
  BY <1>6, OneAsked, OneRemoveAuthorization
<1> QED
  BY <1>1, <1>2, <1>3, <1>4, <1>5, <1>6 DEF FlowStep

LEMMA NextOne ==
    ASSUME Inv, One, [Next]_vars PROVE One'
<1>1. CASE UNCHANGED vars
  BY <1>1 DEF vars, One, FlowsInPhase, TakenOut, ServingIsStored, Serving, CreatingIsFirst, Pc
<1>2. CASE ActivateAuthorizedGateways \/ StartupEnds \/ Reload
  BY <1>2, OneActivateAll, OneStartupEnds, OneReload
<1>3. ASSUME NEW g \in Gateways,
             \/ ActivateAuthorizedGateway(g)
             \/ AuthorizeGateway(g) \/ DeauthorizeGateway(g) \/ UseProxy(g)
             \/ \E k \in Kinds : FlowStep(k, g)
             \/ \E v \in Versions \ {published[g]} : Publish(g, v)
      PROVE  One'
  BY <1>3, OneActivate, OneAuthorize, OneDeauthorize, OneUseProxy, OneFlowStep, OnePublish
<1> QED
  BY <1>1, <1>2, <1>3 DEF Next

\* Activation and authorization of a gateway keep out of each other's way: every
\* iframe that is there is the one of its gateway's proxy, and a flow that waits
\* for a handshake waits for the first.
THEOREM FlowsKeepApart == Spec => []One
<1>1. Init => One
  BY OneInitially DEF Init
<1>2. Inv /\ One /\ [Next]_vars => One'
  BY NextOne
<1> QED
  BY <1>1, <1>2, ReferencesAndSignatures, PTL DEF Spec

\* createGatewayProxy and existingProxies never leave a gateway with two iframes,
\* though the proxy is looked for long before it is put there: the property the
\* run Connectors checks on one and two gateways, for any number, with lost
\* updates of the stored map and any faults.
THEOREM OneFrameForAll == Spec => []OneFramePerGateway
<1>1. Inv /\ One => OneFramePerGateway
  <2> SUFFICES ASSUME Inv, One, NEW i \in 1..Len(frames), NEW j \in 1..Len(frames),
                      i # j, frames[i].alive, frames[j].alive
               PROVE  frames[i].gateway # frames[j].gateway
    BY DEF OneFramePerGateway
  <2>1. live[frames[i].gateway] = i /\ live[frames[j].gateway] = j
    BY DEF One, Lone
  <2> QED
    BY <2>1
<1> QED
  BY <1>1, ReferencesAndSignatures, FlowsKeepApart, PTL

-----------------------------------------------------------------------------
(* What the user was told. *)

\* A gateway that was reported deauthorized is stored nowhere, has no proxy, and
\* nothing that would bring it back is under way.
Gone ==
    \A g \in Gateways :
        told[g] = "deauthorized"
        => /\ stored[g] = None /\ live[g] = 0 /\ startup = "done"
           /\ Pc("authorize", g) = "idle" /\ Pc("deauthorize", g) = "idle"

\* No flow of a deauthorized gateway does more than wait for itself.
LEMMA GoneFlows ==
    ASSUME Inv, One, Gone, NEW g \in Gateways, told[g] = "deauthorized", NEW k \in Kinds
    PROVE  Pc(k, g) \in {"idle", "retrying", "hung"}
<1>1. startup = "done" /\ Pc("authorize", g) = "idle" /\ Pc("deauthorize", g) = "idle"
  BY DEF Gone
<1>2. "activate" \in Kinds /\ "decline" \in Kinds
  BY DEF Kinds
<1>3. Pc("activate", g) \in {"idle", "retrying", "hung"}
  BY <1>1, <1>2 DEF One, FlowsInPhase, PhaseOK
<1>4. Pc("decline", g) = "idle"
  BY <1>3 DEF One, FlowsInPhase
<1> QED
  BY <1>1, <1>3, <1>4 DEF Kinds

\* What a step has to show when it says nothing new.
LEMMA GoneKept ==
    ASSUME Gone, \A g \in Gateways : told'[g] = "deauthorized" =>
               /\ told[g] = "deauthorized"
               /\ stored'[g] = stored[g] /\ live'[g] = live[g] /\ startup' = startup
               /\ flow'["authorize"][g].pc = "idle" /\ flow'["deauthorize"][g].pc = "idle"
    PROVE  Gone'
BY DEF Gone, Pc

LEMMA GoneFlowStep ==
    ASSUME Inv, One, Gone, NEW g, Gateways = {g}, "write" \notin Faults, NEW k \in Kinds,
           FlowStep(k, g)
    PROVE  Gone'
<1>1. /\ g \in Gateways /\ told \in [Gateways -> {"nothing", "authorized", "deauthorized"}]
      /\ flow \in [Kinds -> [Gateways -> FlowRec]] /\ startup \in {"before", "running", "done"}
      /\ live \in [Gateways -> Nat] /\ "authorize" \in Kinds /\ "deauthorize" \in Kinds
  BY DEF Inv, Rest, Core, Kinds
<1>2. CASE RemoveAuthorization(k, g) /\ k = "deauthorize"
  <2>1. /\ Pc(k, g) = "storing" /\ WriteMap(k, g, None) /\ DestroyProxy(g)
        /\ flow' = [flow EXCEPT ![k][g] = Idle] /\ startup' = startup
        /\ told' = [told EXCEPT ![g] =
               IF Pc("authorize", g) = "idle" THEN "deauthorized" ELSE "nothing"]
    BY <1>2 DEF RemoveAuthorization, Ended
  <2>2. startup = "done"
    <3>1. PhaseOK(startup, k, "storing", cached[g].st)
      BY <1>1, <2>1 DEF One, FlowsInPhase
    <3> QED
      BY <1>1, <1>2, <3>1 DEF PhaseOK
  <2>3. stored'[g] = None
    <3>1. flow[k][g].map \in Map
      BY <1>1, Facts DEF FlowOK, MapOK
    <3>2. stored' = [flow[k][g].map EXCEPT ![g] = None]
      BY <2>1 DEF WriteMap
    <3> QED
      BY <1>1, <3>1, <3>2 DEF Map
  <2>4. live'[g] = 0
    BY <1>1, <2>1 DEF DestroyProxy
  <2>5. flow'["deauthorize"][g].pc = "idle" /\ flow'["authorize"][g] = flow["authorize"][g]
    BY <1>1, <1>2, <2>1 DEF Idle
  <2>6. told'[g] = "deauthorized" => Pc("authorize", g) = "idle"
    BY <1>1, <2>1
  <2> QED
    BY <1>1, <2>1, <2>2, <2>3, <2>4, <2>5, <2>6 DEF Gone, Pc
<1>3. CASE ~ (RemoveAuthorization(k, g) /\ k = "deauthorize")
  <2> SUFFICES ASSUME told'[g] = "deauthorized"
               PROVE  /\ told[g] = "deauthorized"
                      /\ stored'[g] = stored[g] /\ live'[g] = live[g] /\ startup' = startup
                      /\ flow'["authorize"][g].pc = "idle"
                      /\ flow'["deauthorize"][g].pc = "idle"
    BY GoneKept
  <2>1. told[g] = "deauthorized"
    BY <1>1, <1>3 DEF FlowStep, ReadMap, FrameUp, FrameFails, Validated, Sign, Refused,
       StoreAuthorization, Connected, ConnectFails, Reactivate, AuthorizeChecked,
       AuthorizeCheckFails, DeauthorizeRead, DeauthorizeLookup, Asked, RemoveAuthorization
  <2>2. Pc(k, g) \in {"idle", "retrying", "hung"}
    BY <1>1, <2>1, GoneFlows
  <2>3. k = "activate" /\ Reactivate(g)
    <3>1. Pc("authorize", g) = "idle" /\ Pc("deauthorize", g) = "idle"
      BY <1>1, <2>1 DEF Gone
    <3> QED
      BY <1>3, <2>2, <3>1 DEF FlowStep, ReadMap, FrameUp, FrameFails, Validated, Sign, Refused,
         StoreAuthorization, Connected, ConnectFails, AuthorizeChecked,
         AuthorizeCheckFails, DeauthorizeRead, DeauthorizeLookup, Asked, RemoveAuthorization
  <2>4. /\ UNCHANGED <<stored, live, startup>> /\ "activate" \in Kinds
        /\ Pc("authorize", g) = "idle" /\ Pc("deauthorize", g) = "idle"
    BY <1>1, <2>1, <2>3 DEF Reactivate, Gone
  <2>5. /\ flow'["authorize"][g] = flow["authorize"][g]
        /\ flow'["deauthorize"][g] = flow["deauthorize"][g]
    BY <1>1, <2>3, <2>4 DEF Reactivate, Launched, Goto, Ended
  <2> QED
    BY <2>1, <2>4, <2>5 DEF Pc
<1> QED
  BY <1>2, <1>3

LEMMA NextGone ==
    ASSUME Inv, One, Gone, NEW u, Gateways = {u}, "write" \notin Faults, [Next]_vars
    PROVE  Gone'
<1>1. CASE UNCHANGED vars
  BY <1>1 DEF vars, Gone, Pc
<1>2. CASE Reload
  BY <1>2 DEF Reload, Gone
<1>3. CASE ActivateAuthorizedGateways \/ StartupEnds
  BY <1>3 DEF ActivateAuthorizedGateways, StartupEnds, Gone
<1>4. /\ u \in Gateways /\ told \in [Gateways -> {"nothing", "authorized", "deauthorized"}]
  BY DEF Inv, Rest
<1>5. CASE ActivateAuthorizedGateway(u)
  BY <1>5 DEF ActivateAuthorizedGateway, Gone
<1>6. CASE AuthorizeGateway(u)
  BY <1>4, <1>6, GoneKept DEF AuthorizeGateway
<1>7. CASE DeauthorizeGateway(u)
  BY <1>4, <1>7, GoneKept DEF DeauthorizeGateway
<1>8. CASE UseProxy(u)
  <2>1. told[u] # "deauthorized" /\ told' = told
    BY <1>4, <1>8 DEF UseProxy, Gone
  <2> QED
    BY <2>1, GoneKept
<1>9. ASSUME NEW v \in Versions, Publish(u, v) PROVE Gone'
  BY <1>9 DEF Publish, Gone, Pc
<1>10. ASSUME NEW k \in Kinds, FlowStep(k, u) PROVE Gone'
  BY <1>10, GoneFlowStep
<1> QED
  BY <1>1, <1>2, <1>3, <1>5, <1>6, <1>7, <1>8, <1>9, <1>10 DEF Next

\* With one gateway and writes that arrive, what deauthorizeGateway reports stays
\* true until the user asks for something else: the gateway is not stored and has
\* no iframe, whatever was under way, however often the page is loaded. With two
\* gateways the lost updates of the stored map bring one back, and a write that
\* fails was reported all the same.
LEMMA OneStaysGone ==
    ASSUME NEW u, Gateways = {u}, "write" \notin Faults
    PROVE  Spec => []DeauthorizedIsGone
<1>1. Init => Gone
  BY DEF Init, Gone
<1>2. Inv /\ One /\ Gone /\ [Next]_vars => Gone'
  BY NextGone
<1>3. Inv /\ One /\ Gone => DeauthorizedIsGone
  <2> SUFFICES ASSUME One, Gone, NEW g \in Gateways, told[g] = "deauthorized",
                      NEW i \in 1..Len(frames), frames[i].gateway = g, frames[i].alive, Inv
               PROVE  FALSE
    BY DEF DeauthorizedIsGone, Gone
  <2>1. live[g] = i
    BY DEF One, Lone
  <2>2. live[g] = 0 /\ Len(frames) \in Nat
    BY DEF Gone, Inv, Core, FramesOK
  <2> QED
    BY <2>1, <2>2
<1> QED
  BY <1>1, <1>2, <1>3, ReferencesAndSignatures, FlowsKeepApart, PTL DEF Spec

\* What deauthorizeGateway reports of the only gateway stays true, whatever is
\* under way and however often the page is loaded, as long as writes arrive.
THEOREM DeauthorizedStays ==
    ASSUME "write" \notin Faults
    PROVE  Spec => []DeauthorizedStaysGone
<1>1. CASE \E u : Gateways = {u}
  <2>1. PICK u : Gateways = {u}
    BY <1>1
  <2>2. Spec => []DeauthorizedIsGone
    BY <2>1, OneStaysGone
  <2>3. DeauthorizedIsGone => DeauthorizedStaysGone
    BY DEF DeauthorizedStaysGone
  <2> QED
    BY <2>2, <2>3, PTL
<1>2. CASE ~ \E u : Gateways = {u}
  <2>1. CASE Gateways = {}
    <3>1. DeauthorizedStaysGone
      BY <2>1 DEF DeauthorizedStaysGone, DeauthorizedIsGone
    <3> QED
      BY <3>1, PTL
  <2>2. CASE Gateways # {}
    <3>0. PICK a : a \in Gateways
      BY <2>2
    <3>1. PICK b \in Gateways : a # b
      <4>1. Gateways # {a}
        BY <1>2, Zenon
      <4> QED
        BY <3>0, <4>1
    <3>2. TypeOK => DeauthorizedStaysGone
      BY <3>0, <3>1 DEF TypeOK, DeauthorizedStaysGone
    <3> QED
      BY <3>2, ConnectorTypes, PTL
  <2> QED
    BY <2>1, <2>2
<1> QED
  BY <1>1, <1>2

=============================================================================
