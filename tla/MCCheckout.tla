------------------------------ MODULE MCCheckout -----------------------------
(***************************************************************************)
(* Orders that are placed, get old and are reaped, in one of two           *)
(* environments, settled at the start: either checkouts race and nobody    *)
(* pays, or orders are paid and declined and there is one checkout at a    *)
(* time.                                                                   *)
(***************************************************************************)
EXTENDS MCOrders

VARIABLE paying

OneAtATime == Cardinality({b \in Buyers : placing'[b] # None}) <= 1

CheckoutNext ==
  /\ \/ PlaceStep /\ (paying => OneAtATime)
     \/ paying /\ PaymentStep
     \/ \E k \in Keys : Age(k)
     \/ ReapStep
  /\ UNCHANGED paying

CheckoutSpec ==
  /\ FilledInit /\ paying \in BOOLEAN
  /\ [][CheckoutNext]_<<vars, paying>>
  /\ ReapFairness
=============================================================================
