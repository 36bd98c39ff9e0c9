---------------------------- MODULE MCPipeline ----------------------------
(***************************************************************************)
(* Small instances of Pipeline.                                            *)
(***************************************************************************)
EXTENDS Pipeline, TLC

\* A late mark is seen, and what would follow it is not: the properties except it.
UntilLateMark == "mark" \notin lost

Symmetry == Permutations(Exec)
=============================================================================
