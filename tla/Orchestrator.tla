---------------------------- MODULE Orchestrator ----------------------------
(***************************************************************************)
(* The methods of MigrationOrchestrator                                    *)
(* (packages/hub/src/orchestrator/state-machine.ts), one action each.      *)
(*                                                                         *)
(* An orchestrator is a record; a method takes the object it is called on  *)
(* and gives the object it leaves behind (orch') and, in order, the events *)
(* it emitted to its listeners before returning (emitted').  Methods are   *)
(* synchronous, so a call is one step.  The object is a parameter because  *)
(* the session manager may call a method on an object it has only just     *)
(* created; OrchestratorSpec and the modules of the hub say who calls what *)
(* and when.                                                               *)
(***************************************************************************)
EXTENDS MigrationSteps

VARIABLES
  orch,      \* the orchestrator object
  emitted    \* the events of the last call, oldest first

-----------------------------------------------------------------------------
(* The object and its events.                                              *)

\* Fields of a new MigrationOrchestrator.  A role's preflight report is kept
\* as whether every check of it passed; acks is the map of bilateral acks.
Fresh ==
  [ state          |-> "IDLE",
    agents         |-> [r \in Roles |-> FALSE],
    sas            |-> [r \in Roles |-> FALSE],
    preflight      |-> [r \in Roles |-> "none"],
    currentStep    |-> 0,
    stepsCompleted |-> 0,
    acks           |-> [s \in BilateralSteps |-> {}] ]

\* Whether every check of one agent's preflight report passed.
Verdicts == {"ok", "failed"}

Orchestrators ==
  [ state : States,
    agents : [Roles -> BOOLEAN],
    sas : [Roles -> BOOLEAN],
    preflight : [Roles -> Verdicts \cup {"none"}],
    currentStep : 0 .. TotalSteps,
    stepsCompleted : 0 .. TotalSteps,
    acks : [BilateralSteps -> SUBSET Roles] ]

StateChange(from, to) == [event |-> "state_change", from |-> from, to |-> to]
ExecuteStep(step)     == [event |-> "execute_step", step |-> step]
StepCompleted(step)   == [event |-> "step_completed", step |-> step]
StepFailedEvent(step, role) ==
  [event |-> "step_failed_event", step |-> step, role |-> role]
Rollback(name)        == [event |-> "rollback", name |-> name]
SessionComplete       == [event |-> "session_complete"]
SessionFailed         == [event |-> "session_failed"]
CriticalAlert         == [event |-> "critical_alert"]
\* An exception that leaves the method instead of an event.
Thrown                == [event |-> "throw"]

Events ==
  [event : {"state_change"}, from : States, to : States]
    \cup [event : {"execute_step", "step_completed"}, step : Steps]
    \cup [event : {"step_failed_event"}, step : Steps, role : Roles]
    \cup [event : {"rollback"}, name : RollbackNames]
    \cup [event : {"session_complete", "session_failed", "critical_alert", "throw"}]

IsTerminal(o) == o.state \in Terminal

\* The method leaves the object as o, having emitted events.
Return(o, events) == orch' = o /\ emitted' = events

\* transition(): staying is no change, and an edge outside the table throws,
\* after whatever the method had already changed or emitted.
Transition(o, to, before, after) ==
  LET allowed == <<o.state, to>> \in AllowedTransitions IN
  \/ o.state = to /\ Return(o, before \o after)
  \/ /\ o.state # to /\ allowed
     /\ Return([o EXCEPT !.state = to], before \o <<StateChange(o.state, to)>> \o after)
  \/ /\ o.state # to /\ ~allowed
     /\ Return(o, Append(before, Thrown))

-----------------------------------------------------------------------------
(* Rollback: announce it, dispatch every step of it, and fail, in one call.*)

\* Mutant: the second change is announced from the state read on entry.
BeginRollbackStaleFrom(o, before) ==
  LET names == GetRollbackSteps(o.currentStep) IN
  Return([o EXCEPT !.state = "FAILED"],
         before \o <<StateChange(o.state, "ROLLBACK")>>
                \o [i \in 1 .. Len(names) |-> Rollback(names[i])]
                \o <<StateChange(o.state, "FAILED"), SessionFailed>>)

BeginRollback(o, before) ==
  LET names == GetRollbackSteps(o.currentStep) IN
  IF <<o.state, "ROLLBACK">> \in AllowedTransitions
  THEN Return([o EXCEPT !.state = "FAILED"],
              before \o <<StateChange(o.state, "ROLLBACK")>>
                     \o [i \in 1 .. Len(names) |-> Rollback(names[i])]
                     \o <<StateChange("ROLLBACK", "FAILED"), SessionFailed>>)
  ELSE Return(o, Append(before, Thrown))

-----------------------------------------------------------------------------
(* Operator commands.                                                      *)

\* Mutant: a late abort of an ended session is not recognised.
AbortEnded(o) ==
  \/ /\ o.state = "MIGRATING" /\ ShouldRollback(o.currentStep)
     /\ BeginRollback(o, << >>)
  \/ /\ ~(o.state = "MIGRATING" /\ ShouldRollback(o.currentStep))
     /\ Transition(o, "FAILED", << >>, <<SessionFailed>>)

Abort(o) ==
  \/ IsTerminal(o) /\ Return(o, << >>)
  \/ /\ o.state = "MIGRATING" /\ ShouldRollback(o.currentStep)
     /\ BeginRollback(o, << >>)
  \/ /\ ~IsTerminal(o)
     /\ ~(o.state = "MIGRATING" /\ ShouldRollback(o.currentStep))
     /\ Transition(o, "FAILED", << >>, <<SessionFailed>>)

StartMigration(o) ==
  \/ /\ o.state # "AWAITING_WINDOW"
     /\ Return(o, <<Thrown>>)
  \/ /\ o.state = "AWAITING_WINDOW"
     /\ Transition([o EXCEPT !.currentStep = 1], "MIGRATING",
                   << >>, <<ExecuteStep(1)>>)

-----------------------------------------------------------------------------
(* Agent connectivity.                                                     *)

OnAgentConnected(o, role) ==
  LET seen == [o EXCEPT !.agents[role] = TRUE] IN
  \/ /\ o.state = "IDLE" /\ \A r \in Roles : seen.agents[r]
     /\ Transition(seen, "PAIRING", << >>, << >>)
  \/ /\ ~(o.state = "IDLE" /\ \A r \in Roles : seen.agents[r])
     /\ Return(seen, << >>)

\* Mutant: the confirmations survive the return to IDLE.
DisconnectKeepsSas(o, role) ==
  LET gone == [o EXCEPT !.agents[role] = FALSE] IN
  \/ /\ o.state \in {"PAIRING", "PREFLIGHT"}
     /\ Transition([gone EXCEPT !.preflight = Fresh.preflight], "IDLE", << >>, << >>)
  \/ /\ o.state \notin {"PAIRING", "PREFLIGHT"}
     /\ Return(gone, << >>)

\* Mutant: only PAIRING falls back to IDLE.
DisconnectKeepsPreflight(o, role) ==
  LET gone == [o EXCEPT !.agents[role] = FALSE] IN
  \/ /\ o.state = "PAIRING"
     /\ Transition([gone EXCEPT !.sas = Fresh.sas, !.preflight = Fresh.preflight],
                   "IDLE", << >>, << >>)
  \/ /\ o.state # "PAIRING"
     /\ Return(gone, << >>)

OnAgentDisconnected(o, role) ==
  LET gone  == [o EXCEPT !.agents[role] = FALSE]
      reset == [gone EXCEPT !.sas = Fresh.sas, !.preflight = Fresh.preflight]
      lostSource == o.state = "MIGRATING" /\ role = "source" /\ o.currentStep < 5
      lostTarget == o.state = "MIGRATING" /\ role = "target" /\ o.currentStep >= 5
  IN
  \/ /\ o.state \in {"PAIRING", "PREFLIGHT"}
     /\ Transition(reset, "IDLE", << >>, << >>)
  \/ lostSource /\ BeginRollback(gone, << >>)
  \/ lostTarget /\ Return(gone, <<CriticalAlert>>)
  \/ /\ o.state \notin {"PAIRING", "PREFLIGHT"} /\ ~lostSource /\ ~lostTarget
     /\ Return(gone, << >>)

-----------------------------------------------------------------------------
(* Pairing and preflight.                                                  *)

OnSasConfirmed(o, role) ==
  LET confirmed == [o EXCEPT !.sas[role] = TRUE] IN
  \/ o.state # "PAIRING" /\ Return(o, << >>)
  \/ /\ o.state = "PAIRING" /\ \A r \in Roles : confirmed.sas[r]
     /\ Transition(confirmed, "PREFLIGHT", << >>, << >>)
  \/ /\ o.state = "PAIRING" /\ ~\A r \in Roles : confirmed.sas[r]
     /\ Return(confirmed, << >>)

OnPreflightResult(o, role, verdict) ==
  LET told == [o EXCEPT !.preflight[role] = verdict]
      Has(v) == \E r \in Roles : told.preflight[r] = v
  IN
  \/ o.state # "PREFLIGHT" /\ Return(o, << >>)
  \/ o.state = "PREFLIGHT" /\ Has("none") /\ Return(told, << >>)
  \/ /\ o.state = "PREFLIGHT" /\ ~Has("none") /\ Has("failed")
     /\ Transition(told, "FAILED", << >>, <<SessionFailed>>)
  \/ /\ o.state = "PREFLIGHT" /\ ~Has("none") /\ ~Has("failed")
     /\ Transition(told, "AWAITING_WINDOW", << >>, << >>)

-----------------------------------------------------------------------------
(* Step results.                                                           *)

\* The step is done: tell the listeners, then dispatch the next or finish.
\* The events of a finished step come before those of the next one.
\* Mutant: the last step is not recognised.
AdvanceForever(o, step) ==
  Return([o EXCEPT !.stepsCompleted = @ + 1, !.currentStep = step + 1],
         <<StepCompleted(step), ExecuteStep(step + 1)>>)

\* Mutant: the session is complete once the target is verified.
AdvanceSkipsCleanup(o, step) ==
  LET done == [o EXCEPT !.stepsCompleted = @ + 1] IN
  \/ /\ step >= 8
     /\ Transition(done, "COMPLETE", <<StepCompleted(step)>>, <<SessionComplete>>)
  \/ /\ step < 8
     /\ Return([done EXCEPT !.currentStep = step + 1],
               <<StepCompleted(step), ExecuteStep(step + 1)>>)

Advance(o, step) ==
  LET done == [o EXCEPT !.stepsCompleted = @ + 1] IN
  \/ /\ step + 1 \notin Steps
     /\ Transition(done, "COMPLETE", <<StepCompleted(step)>>, <<SessionComplete>>)
  \/ /\ step + 1 \in Steps
     /\ Return([done EXCEPT !.currentStep = step + 1],
               <<StepCompleted(step), ExecuteStep(step + 1)>>)

\* Mutant: a stale or repeated acknowledgement advances the migration.
OnStepCompleteStale(o, step, role) ==
  \/ o.state # "MIGRATING" /\ Return(o, << >>)
  \/ /\ o.state = "MIGRATING" /\ step \in BilateralSteps
     /\ o.acks[step] \cup {role} # Roles
     /\ Return([o EXCEPT !.acks[step] = @ \cup {role}], << >>)
  \/ /\ o.state = "MIGRATING"
     /\ step \in BilateralSteps => o.acks[step] \cup {role} = Roles
     /\ Advance(o, step)

\* Mutant: no step waits for a second acknowledgement.
OnStepCompleteUngated(o, step, role) ==
  \/ ~(o.state = "MIGRATING" /\ step = o.currentStep) /\ Return(o, << >>)
  \/ /\ o.state = "MIGRATING" /\ step = o.currentStep
     /\ Advance(o, step)

\* A unilateral step advances on one acknowledgement, whatever role sent it.
OnStepComplete(o, step, role) ==
  LET current == o.state = "MIGRATING" /\ step = o.currentStep
      acks    == o.acks[step] \cup {role}
  IN
  \/ ~current /\ Return(o, << >>)
  \/ /\ current /\ step \notin BilateralSteps
     /\ Advance(o, step)
  \/ /\ current /\ step \in BilateralSteps /\ acks # Roles
     /\ Return([o EXCEPT !.acks[step] = acks], << >>)
  \/ /\ current /\ step \in BilateralSteps /\ acks = Roles
     /\ Advance([o EXCEPT !.acks[step] = {}], step)

OnStepFailed(o, step, role) ==
  LET current  == o.state = "MIGRATING" /\ step = o.currentStep
      reported == <<StepFailedEvent(step, role)>>
  IN
  \/ ~current /\ Return(o, << >>)
  \/ current /\ ShouldRollback(step) /\ BeginRollback(o, reported)
  \/ /\ current /\ ~ShouldRollback(step)
     /\ Transition(o, "FAILED", reported, <<SessionFailed>>)
=============================================================================
