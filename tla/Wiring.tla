------------------------------ MODULE Wiring ------------------------------
(***************************************************************************)
(* What the hub makes of an orchestrator's events: wireOrchestrator of     *)
(* packages/hub/src/session-manager.ts.  Its listeners run inside the call *)
(* that emitted the event, so the messages to an agent and the state       *)
(* written to the session's row are functions of the call's events.        *)
(*                                                                         *)
(* hub:rollback, which an agent only logs, and what goes to dashboards are *)
(* left out.                                                               *)
(***************************************************************************)
EXTENDS Orchestrator, Filtering

\* Mutant: the agent of the step alone is told, as if no step were bilateral.
RecipientsUnilateral(e) ==
  CASE e.event = "execute_step" -> {Executor(e.step)}
    [] e.event = "rollback"     -> {RollbackExecutor(e.name)}
    [] e.event = "state_change" -> IF e.to = "PREFLIGHT" THEN Roles ELSE {}
    [] OTHER                    -> {}

\* Mutant: every step is broadcast, as the bilateral ones are.
RecipientsBroadcast(e) ==
  CASE e.event = "execute_step" -> Roles
    [] e.event = "rollback"     -> {RollbackExecutor(e.name)}
    [] e.event = "state_change" -> IF e.to = "PREFLIGHT" THEN Roles ELSE {}
    [] OTHER                    -> {}

\* Mutant: every rollback step is taken for the source's.
RecipientsUndoAtSource(e) ==
  CASE e.event = "execute_step" ->
         IF e.step \in BilateralSteps THEN Roles ELSE {Executor(e.step)}
    [] e.event = "rollback"     -> {"source"}
    [] e.event = "state_change" -> IF e.to = "PREFLIGHT" THEN Roles ELSE {}
    [] OTHER                    -> {}

\* The agents an event is passed on to.
Recipients(e) ==
  CASE e.event = "execute_step" ->
         IF e.step \in BilateralSteps THEN Roles ELSE {Executor(e.step)}
    [] e.event = "rollback"     -> {RollbackExecutor(e.name)}
    [] e.event = "state_change" -> IF e.to = "PREFLIGHT" THEN Roles ELSE {}
    [] OTHER                    -> {}

RunStep(step) == [type |-> "execute_step", step |-> step]
Undo(name)    == [type |-> "execute_rollback_step", name |-> name]
RunPreflight  == [type |-> "run_preflight"]

MessageOf(e) ==
  CASE e.event = "execute_step" -> RunStep(e.step)
    [] e.event = "rollback"     -> Undo(e.name)
    [] e.event = "state_change" -> RunPreflight

\* What the agent of a role is sent, in order, when events are emitted.
MessagesTo(role, events) ==
  LET passed == Filter(events, {e \in Events : role \in Recipients(e)})
  IN  [i \in DOMAIN passed |-> MessageOf(passed[i])]

\* The events whose listeners write the state column of the session's row, and
\* what each writes.  session_complete and session_failed write the state that
\* the change before them wrote.
RowEvents ==
  {e \in Events : e.event \in {"state_change", "session_complete", "session_failed"}}

Written(e) ==
  CASE e.event = "state_change"     -> e.to
    [] e.event = "session_complete" -> "COMPLETE"
    [] e.event = "session_failed"   -> "FAILED"

\* The state column after the same events: what the last of them wrote.
RowAfter(row, events) ==
  LET writes == Filter(events, RowEvents)
  IN  IF writes = << >> THEN row ELSE Written(writes[Len(writes)])
=============================================================================
