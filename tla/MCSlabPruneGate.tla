-------------------------- MODULE MCSlabPruneGate --------------------------
(***************************************************************************)
(* Small instances of SlabPruneGate. Both runs have a liveness property or *)
(* a trace to tell apart, so uploads and processes are not symmetric.      *)
(***************************************************************************)
EXTENDS SlabPruneGate

\* All processes are alike and so are all uploads: every behaviour is, up to their
\* names, one in which a given process runs a given upload.
NamedInit ==
    /\ Init
    /\ owner[CHOOSE u \in Upload : TRUE] = CHOOSE p \in Process : TRUE

NamedSpec == NamedInit /\ [][Next]_vars /\ Fairness
=============================================================================
