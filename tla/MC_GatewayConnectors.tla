------------------------ MODULE MC_GatewayConnectors ------------------------
(* Two small instances of GatewayConnectors in one run: one gateway, with  *)
(* the bounds of the constants, and two gateways that share a stored map.  *)
(* scene never changes and says which of the two it is.                    *)
EXTENDS GatewayConnectors

CONSTANTS g1, g2, v1, v2,
    FaultsOfTwo \* what may go wrong when there are two gateways

VARIABLE scene

sceneVars == <<vars, scene>>

Two == INSTANCE GatewayConnectors WITH
    Gateways <- {g1, g2}, Versions <- {v1}, MaxFrames <- 2, MaxReloads <- 0,
    Faults <- FaultsOfTwo

SceneInit == \/ scene = "one" /\ Init
             \/ scene = "two" /\ Two!Init
SceneNext ==
    /\ \/ scene = "one" /\ Next
       \/ scene = "two" /\ Two!Next
    /\ UNCHANGED scene
SceneSpec == SceneInit /\ [][SceneNext]_sceneVars

Begun == \/ scene = "one" /\ ActivateAuthorizedGateways
         \/ scene = "two" /\ Two!ActivateAuthorizedGateways
Ends == \/ scene = "one" /\ StartupEnds
        \/ scene = "two" /\ Two!StartupEnds
Served(g) ==
    \/ scene = "one" /\ g = g1 /\ ActivateAuthorizedGateway(g)
    \/ scene = "two" /\ Two!ActivateAuthorizedGateway(g)
Stepped(k, g) ==
    \/ scene = "one" /\ g = g1 /\ FlowStep(k, g)
    \/ scene = "two" /\ Two!FlowStep(k, g)

\* The fairness of FairSpec, for the scene it is.
FairSceneSpec ==
    /\ SceneSpec
    /\ WF_vars(Begun)
    /\ WF_vars(Ends)
    /\ \A g \in {g1, g2} :
           /\ WF_vars(Served(g))
           /\ \A k \in Kinds : WF_vars(Stepped(k, g))

\* Every variable has its type, with one gateway or with two; in particular a
\* proxy that is known has an iframe, and no flow talks to one of an earlier page.
TypesOK == IF scene = "one" THEN TypeOK ELSE Two!TypeOK
=============================================================================
