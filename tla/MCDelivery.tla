----------------------------- MODULE MCDelivery -----------------------------
(***************************************************************************)
(* Values for model checking Delivery.                                     *)
(***************************************************************************)
EXTENDS Delivery

CONSTANTS a, b, c, f1, f2

=============================================================================
