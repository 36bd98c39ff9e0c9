-------------------------- MODULE MCReconcileFeed --------------------------
(***************************************************************************)
(* A small instance of ReconcileFeed with two runs at once; MCServices has *)
(* those with one run, and with two feeds. Object ids are ordered, so only *)
(* runs are symmetric.                                                     *)
(***************************************************************************)
EXTENDS ReconcileFeed, TLC

Symmetry == Permutations(Run)
=============================================================================
