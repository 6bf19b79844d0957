-------------------------- MODULE MC_TimedPayments --------------------------
(* A small instance of TimedPayments for TLC.                               *)
EXTENDS TimedPayments

\* Expiration dates that are soon and that are far; a slow rate, and rates at and
\* above one coin per second.
MCRequests ==
    {[amount |-> 2, expires |-> e, deltaAmount |-> r[1], deltaTime |-> r[2]] :
        e \in {3, 6}, r \in {<<1, 2>>, <<1, 1>>, <<3, 2>>}}
=============================================================================
