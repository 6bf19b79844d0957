-------------------------- MODULE PaymentTransfers --------------------------
(***************************************************************************)
(* A Hypernet payment has no state of its own: it is derived from the      *)
(* Vector transfers that carry its id.  This module is that derivation     *)
(* (PaymentUtils and VectorUtils of hypernet-core) together with the rules *)
(* the three transfer contracts put on creating a transfer.                *)
(*                                                                         *)
(* A "snapshot" is what one core sees of one payment at one moment: a set  *)
(* of records                                                              *)
(*   [id, kind, status, amount, token]                                     *)
(* where ids grow with the time of creation.  "terms" is the content of    *)
(* the offer message: [stake, stakeToken, amount, paymentToken].           *)
(***************************************************************************)
EXTENDS Integers

Kinds == {"Offer", "Insurance", "Parameterized"}

\* ETransferState.  "Unseen" is not a state of the code: the transfer has not
\* reached this party's channel yet, so the party's node does not list it.
Statuses == {"Unseen", "Active", "Resolved", "Canceled"}

PaymentStates == {"Proposed", "Rejected", "Staked", "InvalidStake", "Approved",
                  "InvalidFunds", "Accepted", "InsuranceReleased", "Finalized",
                  "Borked", "Canceled"}

OfKind(snap, k) == {t \in snap : t.kind = k}

\* "Canceled transfers are irrelevant; artifacts of things gone wonky."
Live(snap, k) == {t \in OfKind(snap, k) : t.status # "Canceled"}

Many(S) == \E t, u \in S : t # u

\* What Regular would be if duplicates of a kind were not looked for (mutants).
RegularButForPayments(snap) ==
    /\ OfKind(snap, "Offer") # {}
    /\ \A k \in Kinds \ {"Parameterized"} : ~Many(Live(snap, k))

RegularButForInsurance(snap) ==
    /\ OfKind(snap, "Offer") # {}
    /\ \A k \in Kinds \ {"Insurance"} : ~Many(Live(snap, k))

\* There is an offer, and at most one live transfer of each kind.
Regular(snap) ==
    /\ OfKind(snap, "Offer") # {}
    /\ \A k \in Kinds : ~Many(Live(snap, k))

\* The one live transfer of kind k has status s; "None" when there is none.
Is(snap, k, s) ==
    IF s = "None" THEN Live(snap, k) = {} ELSE \E t \in Live(snap, k) : t.status = s

\* The check of the stake without that of its asset (mutant).
ValidateStakeAmount(t, terms) == t.amount = terms.stake

ValidateInsuranceTransfer(t, terms) ==
    t.amount = terms.stake /\ t.token = terms.stakeToken

ValidatePaymentTransfer(t, terms) ==
    t.amount = terms.amount /\ t.token = terms.paymentToken

InsuranceValid(snap, terms) ==
    \A t \in Live(snap, "Insurance") : ValidateInsuranceTransfer(t, terms)

PaymentValid(snap, terms) ==
    \A t \in Live(snap, "Parameterized") : ValidatePaymentTransfer(t, terms)

Shape(snap, offer, insurance, parameterized) ==
    /\ Regular(snap)
    /\ Is(snap, "Offer", offer)
    /\ Is(snap, "Insurance", insurance)
    /\ Is(snap, "Parameterized", parameterized)

\* The flowchart that takes a payment's transfers to its EPaymentState.
GetPaymentState(snap, terms) ==
    LET staked == InsuranceValid(snap, terms)
        funded == PaymentValid(snap, terms)
    IN  CASE ~Regular(snap) -> "Borked"
          [] Regular(snap) /\ Is(snap, "Offer", "None") -> "Canceled"
          [] Shape(snap, "Active", "None", "None") -> "Proposed"
          [] Shape(snap, "Resolved", "None", "None") -> "Rejected"
          [] Shape(snap, "Active", "Active", "None")
               -> IF staked THEN "Staked" ELSE "InvalidStake"
          [] Shape(snap, "Active", "Active", "Active") /\ staked
               -> IF funded THEN "Approved" ELSE "InvalidFunds"
          [] Shape(snap, "Active", "Active", "Resolved") /\ staked /\ funded
               -> "Accepted"
          [] Shape(snap, "Active", "Resolved", "Resolved") /\ staked /\ funded
               -> "InsuranceReleased"
          [] Shape(snap, "Resolved", "Resolved", "Resolved") /\ staked /\ funded
               -> "Finalized"
          [] OTHER -> "Borked"

\* A recovery that spares no transfer (mutant).
FirstAndBeyond(snap, k) == OfKind(snap, k)

\* The transfers of kind k that are not the earliest one.
BeyondFirst(snap, k) ==
    {t \in OfKind(snap, k) : \E u \in OfKind(snap, k) : u.id < t.id}

ActiveIds(S) == {t.id : t \in {u \in S : u.status = "Active"}}

\* _recoverPayment cancels what is active beyond the first transfer of a kind,
\* and the first one (whatever its status) when it does not match the offer.
\* It looks at a kind only when there is more than one transfer of it.
ExtraInsurance(snap, terms) ==
    LET all == OfKind(snap, "Insurance")
    IN  IF Many(all)
        THEN ActiveIds(BeyondFirst(snap, "Insurance"))
               \cup {t.id : t \in {u \in all \ BeyondFirst(snap, "Insurance") :
                                      ~ValidateInsuranceTransfer(u, terms)}}
        ELSE {}

ExtraPayments(snap, terms) ==
    LET all == OfKind(snap, "Parameterized")
    IN  IF Many(all)
        THEN ActiveIds(BeyondFirst(snap, "Parameterized"))
               \cup {t.id : t \in {u \in all \ BeyondFirst(snap, "Parameterized") :
                                      ~ValidatePaymentTransfer(u, terms)}}
        ELSE {}

ExtraOffers(snap) == ActiveIds(BeyondFirst(snap, "Offer"))

\* What the contracts (and the sanity checks of VectorUtils before them) accept:
\* an Insurance transfer needs a collateral of at least 1 wei, a Parameterized
\* one an amount that is not zero, a MessageTransfer nothing.
CanCreate(kind, amount) == kind = "Offer" \/ amount >= 1

\* The amount that goes to the responder when it resolves a transfer with
\* "asked": never more than was put in.
CanResolve(amount, asked) == asked \in 0..amount
=============================================================================
