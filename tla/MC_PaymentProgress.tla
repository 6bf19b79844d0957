------------------------ MODULE MC_PaymentProgress ------------------------
(* The liveness of PaymentProtocol with one fault: a core is loaded again  *)
(* or the router gives one transfer back.                                  *)
EXTENDS MC_PaymentProtocol

OneFault == used'.returns + used'.crashes <= 1

OneFaultSpec == Init /\ [][Next /\ OneFault]_vars /\ Fairness
=============================================================================
