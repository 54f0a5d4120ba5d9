----------------------------- MODULE Handover -----------------------------
(***************************************************************************)
(* What a migration promises about the staked identity, without sockets,   *)
(* steps or tasks: which validators run under it, and whether the source's *)
(* copy of its key is still on disk.                                       *)
(*                                                                         *)
(* On the way forward the source releases the identity, the target is then *)
(* allowed to take it over, and never do the two hold it at once.  Giving  *)
(* up brings the source back.  If the target had not been allowed to take  *)
(* over by then, it never will; if it had, a takeover already under way    *)
(* may still succeed: this is the case that may leave two holders.         *)
(***************************************************************************)
EXTENDS Naturals

VARIABLES
  holders,   \* the validators that run under the staked identity
  stage,     \* "release", "takeover", and after giving up "undo", "undo_late"
  sourceKey  \* the source still has the key file

handoverVars == <<holders, stage, sourceKey>>

HandoverInit == holders = {"source"} /\ stage = "release" /\ sourceKey = TRUE

\* A release under way when the migration is given up may still happen.
Release ==
  /\ stage \in {"release", "undo"}
  /\ holders' = holders \ {"source"}
  /\ UNCHANGED <<stage, sourceKey>>

Authorise ==
  /\ stage = "release" /\ holders = {}
  /\ stage' = "takeover"
  /\ UNCHANGED <<holders, sourceKey>>

TakeOver ==
  /\ stage \in {"takeover", "undo_late"}
  /\ holders' = holders \cup {"target"}
  /\ UNCHANGED <<stage, sourceKey>>

\* The key is destroyed only once the target runs under the identity.
Wipe ==
  /\ stage \in {"takeover", "undo_late"} /\ "target" \in holders
  /\ sourceKey' = FALSE
  /\ UNCHANGED <<holders, stage>>

GiveUp ==
  /\ \/ stage = "release" /\ stage' = "undo"
     \/ stage = "takeover" /\ stage' = "undo_late"
  /\ UNCHANGED <<holders, sourceKey>>

\* The source comes back with the key it still has.
Restore ==
  /\ stage \in {"undo", "undo_late"} /\ sourceKey
  /\ holders' = holders \cup {"source"}
  /\ UNCHANGED <<stage, sourceKey>>

HandoverNext == Release \/ Authorise \/ TakeOver \/ Wipe \/ GiveUp \/ Restore

HandoverSpec == HandoverInit /\ [][HandoverNext]_handoverVars
=============================================================================
