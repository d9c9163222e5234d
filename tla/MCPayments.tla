----------------------------- MODULE MCPayments ------------------------------
(***************************************************************************)
(* Instances of Payments for TLC.                                          *)
(***************************************************************************)
EXTENDS Payments

\* A total whose pence matter.
Total == [pounds |-> 1, hundredths |-> 5]

OneTotal == {Total}
=============================================================================
