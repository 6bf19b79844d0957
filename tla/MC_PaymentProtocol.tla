------------------------- MODULE MC_PaymentProtocol -------------------------
(* Small instances of PaymentProtocol for TLC.                             *)
EXTENDS PaymentProtocol

CONSTANTS alice, bob, p1, p2, hyper, other, dai

\* p1 goes from alice to bob, p2 (where it is used) the other way; p2 is offered
\* and never accepted.
MCFrom == [p \in Payments |-> IF p = p1 THEN alice ELSE bob]
MCTo == [p \in Payments |-> IF p = p1 THEN bob ELSE alice]
MCAmount == [p \in Payments |-> 1]
MCStake == [p \in Payments |-> 1]
MCNoStake == [p \in Payments |-> 0]
MCOnce == [p \in Payments |-> IF p = p1 THEN 1 ELSE 0]
MCTwice == [p \in Payments |-> IF p = p1 THEN 2 ELSE 0]
MCHypertoken == [c \in Cores |-> hyper]
MCTwoHypertokens == [c \in Cores |-> IF c = alice THEN hyper ELSE other]
=============================================================================
