-------------------------- MODULE MC_RegistryClient --------------------------
(* Two operations, each any method on any of three registries: one with a  *)
(* registration token, one without, and the one that lists the modules.    *)
EXTENDS RegistryClient

CONSTANTS r1, r2, modules, x

MCCoinOf == [r \in {r1, r2, modules} |-> IF r = r1 THEN x ELSE None]
MCMethods == DOMAIN Runs(r1)
=============================================================================
