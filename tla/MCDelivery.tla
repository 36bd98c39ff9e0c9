----------------------------- MODULE MCDelivery -----------------------------
(***************************************************************************)
(* A small instance of Delivery for what a client that goes away leaves;   *)
(* MCLiveServices has the others.                                              *)
(***************************************************************************)
EXTENDS Delivery
=============================================================================
