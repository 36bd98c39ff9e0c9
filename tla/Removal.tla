------------------------------- MODULE Removal -------------------------------
(***************************************************************************)
(* A sequence without some of its elements, as filter leaves an array and  *)
(* delete an insertion-ordered Map. It is SelectSeq, as a function that is *)
(* recursive over the prefixes, which can be reasoned about by induction.  *)
(***************************************************************************)
EXTENDS Naturals, Sequences

Without(s, gone) ==
    LET kept[n \in 0 .. Len(s)] ==
            IF n = 0 THEN <<>>
            ELSE IF s[n] \in gone THEN kept[n - 1] ELSE Append(kept[n - 1], s[n])
    IN  kept[Len(s)]
=============================================================================
