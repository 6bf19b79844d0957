-------------------------- MODULE EscrowedPayment --------------------------
(***************************************************************************)
(* What a push payment promises its two parties and its gateway, whatever  *)
(* happens to the transfers it is made of: it is offered, insured, funded, *)
(* taken, released and closed, in this order, each of them once; taking it *)
(* moves the whole amount, releasing it moves at most the stake.           *)
(***************************************************************************)
EXTENDS Naturals

CONSTANTS Payments, Amount, Stake

VARIABLES
    offered, insured, funded, closed,  \* the payments that got this far
    receipts,  \* receipts[p]: what the receiver took, as [id, amount] records
    awards     \* awards[p]: what the sender took of the stake, likewise

vars == <<offered, insured, funded, closed, receipts, awards>>

Init ==
    /\ offered = {} /\ insured = {} /\ funded = {} /\ closed = {}
    /\ receipts = [p \in Payments |-> {}]
    /\ awards = [p \in Payments |-> {}]

Offer(p) ==
    /\ p \notin offered
    /\ offered' = offered \cup {p}
    /\ UNCHANGED <<insured, funded, closed, receipts, awards>>

Insure(p) ==
    /\ p \in offered \ insured
    /\ insured' = insured \cup {p}
    /\ UNCHANGED <<offered, funded, closed, receipts, awards>>

Fund(p) ==
    /\ p \in insured \ funded
    /\ funded' = funded \cup {p}
    /\ UNCHANGED <<offered, insured, closed, receipts, awards>>

Take(p) ==
    /\ p \in funded /\ receipts[p] = {}
    /\ \E r \in receipts'[p] :
          r.amount = Amount[p] /\ receipts' = [receipts EXCEPT ![p] = {r}]
    /\ UNCHANGED <<offered, insured, funded, closed, awards>>

Release(p) ==
    /\ receipts[p] # {} /\ awards[p] = {}
    /\ \E r \in awards'[p] :
          r.amount \in 0..Stake[p] /\ awards' = [awards EXCEPT ![p] = {r}]
    /\ UNCHANGED <<offered, insured, funded, closed, receipts>>

Close(p) ==
    /\ awards[p] # {} /\ p \notin closed
    /\ closed' = closed \cup {p}
    /\ UNCHANGED <<offered, insured, funded, receipts, awards>>

Next ==
    \E p \in Payments :
        Offer(p) \/ Insure(p) \/ Fund(p) \/ Take(p) \/ Release(p) \/ Close(p)

Spec == Init /\ [][Next]_vars
=============================================================================
