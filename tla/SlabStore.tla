----------------------------- MODULE SlabStore -----------------------------
(***************************************************************************)
(* What the prune gate promises about the account's slabs: a prune takes   *)
(* only slabs no pinned object references, and an object is pinned only    *)
(* over slabs that no prune has taken.                                     *)
(***************************************************************************)
CONSTANT Upload

VARIABLE state

SlabStates == {"absent", "stored", "stripped", "pinned"}

TypeOK == state \in [Upload -> SlabStates]

Init == state = [u \in Upload |-> "absent"]

Move(u, from, to) ==
    /\ state[u] = from
    /\ state' = [state EXCEPT ![u] = to]

Store(u) == Move(u, "absent", "stored")
Pin(u) == Move(u, "stored", "pinned")
Unpin(u) == Move(u, "pinned", "stored")

Prune(S) ==
    /\ \A u \in S : state[u] = "stored"
    /\ state' = [u \in Upload |-> IF u \in S THEN "stripped" ELSE state[u]]

Next ==
    \/ \E u \in Upload : Store(u) \/ Pin(u) \/ Unpin(u)
    \/ \E S \in SUBSET Upload : Prune(S)

Spec == Init /\ [][Next]_state
=============================================================================
