------------------------------ MODULE Filtering ------------------------------
(***************************************************************************)
(* Picking elements out of a sequence, in their order.  Defined by a       *)
(* recursive function on the length of the sequence, whose unfolding       *)
(* FilterTheorems proves.                                                  *)
(***************************************************************************)
EXTENDS Naturals, Sequences

\* The subsequence of the elements of s that are in S.
Filter(s, S) ==
  LET kept[n \in 0 .. Len(s)] ==
        IF n = 0 THEN << >>
        ELSE IF s[n] \in S THEN Append(kept[n - 1], s[n])
        ELSE kept[n - 1]
  IN  kept[Len(s)]
=============================================================================
