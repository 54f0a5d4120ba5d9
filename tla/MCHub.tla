------------------------------- MODULE MCHub -------------------------------
(***************************************************************************)
(* Hub on a small instance: one run of the source agent and two of the     *)
(* target agent, who are interchangeable.                                  *)
(***************************************************************************)
EXTENDS Hub, TLC

CONSTANTS s1, t1, t2

OneSource  == {s1}
TwoTargets == {t1, t2}

TargetsAlike == Permutations(TwoTargets)

\* The events of the last call are not state the next step reads.
WithoutEvents == <<orch, manager, room, wires, people, counted>>
=============================================================================
