----------------------------- MODULE Lifecycle -----------------------------
(***************************************************************************)
(* What a session's lifecycle promises to whoever watches it, without      *)
(* saying which call causes what: a phase, and the step the agents were    *)
(* last told to run.                                                       *)
(*                                                                         *)
(* The pairing phases may be left and entered again as agents come and go. *)
(* Once the operator has started the migration there is no way back: the   *)
(* steps are dispatched one after another from 1 to 9, the session is      *)
(* complete only after the ninth, or fails at whatever step it had         *)
(* reached, and what has ended stays ended.                                *)
(***************************************************************************)
EXTENDS MigrationSteps

VARIABLES
  phase,   \* a state of the session
  step     \* the last step dispatched, 0 before the migration starts

lifecycleVars == <<phase, step>>

LifecycleTypeOK == phase \in States \ {"ROLLBACK"} /\ step \in 0 .. TotalSteps

LifecycleInit == phase = "IDLE" /\ step = 0

\* One phase of the preparation gives way to another; nothing is dispatched.
Prepare ==
  /\ phase \in {"IDLE", "PAIRING", "PREFLIGHT"}
  /\ phase' \in {"IDLE", "PAIRING", "PREFLIGHT", "AWAITING_WINDOW"}
  /\ <<phase, phase'>> \in AllowedTransitions
  /\ UNCHANGED step

Start ==
  /\ phase = "AWAITING_WINDOW"
  /\ phase' = "MIGRATING"
  /\ step' = 1

DispatchNext ==
  /\ phase = "MIGRATING" /\ step < TotalSteps
  /\ step' = step + 1
  /\ UNCHANGED phase

Finish ==
  /\ phase = "MIGRATING" /\ step = TotalSteps
  /\ phase' = "COMPLETE"
  /\ UNCHANGED step

Fail ==
  /\ phase \notin Terminal
  /\ phase' = "FAILED"
  /\ UNCHANGED step

LifecycleNext == Prepare \/ Start \/ DispatchNext \/ Finish \/ Fail

LifecycleSpec == LifecycleInit /\ [][LifecycleNext]_lifecycleVars
=============================================================================
