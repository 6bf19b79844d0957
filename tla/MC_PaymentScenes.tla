------------------------- MODULE MC_PaymentScenes -------------------------
(* Five small instances of PaymentProtocol in one run: they share the      *)
(* variables, and scene, which never changes, says whose bounds hold.      *)
EXTENDS MC_PaymentProtocol

VARIABLE scene

sceneVars == <<vars, scene>>

Duplicates == INSTANCE PaymentProtocol WITH Funds <- 2, MaxReturns <- 1
Repairs == INSTANCE PaymentProtocol WITH Funds <- 2, MaxRepairs <- 1
Reload == INSTANCE PaymentProtocol WITH
    Funds <- 2, MaxAccepts <- MCOnce, MaxCrashes <- 1, Started <- {}
Mismatch == INSTANCE PaymentProtocol WITH
    Funds <- 2, Hypertoken <- MCTwoHypertokens, MaxRepairs <- 1, MaxReturns <- 1

\* Only the payments of the constants themselves include p2.
OnlyP1 == reserved'[p2] = "new"

SceneInit ==
    \/ scene = "two payments" /\ Init
    \/ scene = "duplicates" /\ Duplicates!Init
    \/ scene = "repairs" /\ Repairs!Init
    \/ scene = "reload" /\ Reload!Init
    \/ scene = "mismatch" /\ Mismatch!Init

SceneNext ==
    /\ \/ scene = "two payments" /\ Next
       \/ scene = "duplicates" /\ Duplicates!Next /\ OnlyP1
       \/ scene = "repairs" /\ Repairs!Next /\ OnlyP1
       \/ scene = "reload" /\ Reload!Next /\ OnlyP1
       \/ scene = "mismatch" /\ Mismatch!Next /\ OnlyP1
    /\ UNCHANGED scene

SceneSpec == SceneInit /\ [][SceneNext]_sceneVars
=============================================================================
