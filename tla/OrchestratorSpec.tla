-------------------------- MODULE OrchestratorSpec --------------------------
(***************************************************************************)
(* One orchestrator under every order of calls.                            *)
(*                                                                         *)
(* The sockets, the relay and two independent agents decide which method   *)
(* is called next, so any method may be called in any state: late,         *)
(* repeated, for the wrong step or by the wrong role.  What is promised    *)
(* here is promised whatever the rest of the system does.                  *)
(*                                                                         *)
(* The history variables record what has been said to and by the object;  *)
(* no method reads them.                                                   *)
(***************************************************************************)
EXTENDS Orchestrator, Filtering

VARIABLES
  acked,       \* <<step, role>>: role reported step complete while it was current
  consent,     \* roles that confirmed the SAS since an agent last dropped out
  cleared,     \* roles whose last preflight report, since then, was all ok
  dispatched,  \* steps dispatched to the agents, in order
  rolledBack   \* rollback steps dispatched to the agents, in order

history == <<acked, consent, cleared, dispatched, rolledBack>>
vars == <<orch, emitted, history>>

Init ==
  /\ orch = Fresh /\ emitted = << >>
  /\ acked = {} /\ consent = {} /\ cleared = {}
  /\ dispatched = << >> /\ rolledBack = << >>

-----------------------------------------------------------------------------
(* Reading a call's events.                                                *)

Occurrences(kind, events) == Filter(events, {e \in Events : e.event = kind})

StepsIn(events) ==
  LET es == Occurrences("execute_step", events)
  IN  [i \in DOMAIN es |-> es[i].step]

RollbacksIn(events) ==
  LET es == Occurrences("rollback", events)
  IN  [i \in DOMAIN es |-> es[i].name]

Record ==
  /\ dispatched' = dispatched \o StepsIn(emitted')
  /\ rolledBack' = rolledBack \o RollbacksIn(emitted')

-----------------------------------------------------------------------------
(* Calls.                                                                  *)

Preparing == orch.state \in {"IDLE", "PAIRING", "PREFLIGHT"}

AgentConnected(role) ==
  /\ OnAgentConnected(orch, role)
  /\ Record
  /\ UNCHANGED <<acked, consent, cleared>>

AgentDisconnected(role) ==
  /\ OnAgentDisconnected(orch, role)
  /\ Record
  /\ consent' = IF Preparing THEN {} ELSE consent
  /\ cleared' = IF Preparing THEN {} ELSE cleared
  /\ UNCHANGED acked

SasConfirmed(role) ==
  /\ OnSasConfirmed(orch, role)
  /\ Record
  /\ consent' = IF orch.state = "PAIRING" THEN consent \cup {role} ELSE consent
  /\ UNCHANGED <<acked, cleared>>

PreflightResult(role, verdict) ==
  /\ OnPreflightResult(orch, role, verdict)
  /\ Record
  /\ cleared' = IF orch.state # "PREFLIGHT" THEN cleared
                ELSE IF verdict = "ok" THEN cleared \cup {role}
                ELSE cleared \ {role}
  /\ UNCHANGED <<acked, consent>>

StepComplete(step, role) ==
  /\ OnStepComplete(orch, step, role)
  /\ Record
  /\ acked' = IF orch.state = "MIGRATING" /\ step = orch.currentStep
              THEN acked \cup {<<step, role>>} ELSE acked
  /\ UNCHANGED <<consent, cleared>>

StepFailed(step, role) ==
  /\ OnStepFailed(orch, step, role)
  /\ Record
  /\ UNCHANGED <<acked, consent, cleared>>

OperatorStart == StartMigration(orch) /\ Record /\ UNCHANGED <<acked, consent, cleared>>

OperatorAbort == Abort(orch) /\ Record /\ UNCHANGED <<acked, consent, cleared>>

\* What an agent's socket may call.
AgentCalls(role) ==
  \/ AgentConnected(role)
  \/ AgentDisconnected(role)
  \/ SasConfirmed(role)
  \/ \E verdict \in Verdicts : PreflightResult(role, verdict)
  \/ \E step \in Steps : StepComplete(step, role) \/ StepFailed(step, role)

Next ==
  \/ \E role \in Roles : AgentCalls(role)
  \/ OperatorStart
  \/ OperatorAbort

Spec == Init /\ [][Next]_vars

-----------------------------------------------------------------------------
(* Properties.                                                             *)

\* Every field of the object and every event keeps its type.
TypeOK ==
  /\ orch \in Orchestrators
  /\ emitted \in Seq(Events)
  /\ acked \subseteq Steps \X Roles
  /\ consent \subseteq Roles /\ cleared \subseteq Roles

\* The race the bilateral gate was added for: no step past a transfer is
\* reached before both agents have reported that transfer, and no step at
\* all before someone has reported each step below it.
StepGate ==
  orch.state \in {"MIGRATING", "COMPLETE"} =>
    \A s \in Steps :
      (s < orch.currentStep \/ orch.state = "COMPLETE") =>
        IF s \in BilateralSteps THEN \A r \in Roles : <<s, r>> \in acked
                                ELSE \E r \in Roles : <<s, r>> \in acked

\* A confirmation or a checklist from before an agent dropped out never
\* counts towards the pairing that follows: past PAIRING both agents have
\* confirmed since, and past PREFLIGHT both have passed since.
FreshConsent ==
  /\ orch.state \in {"PREFLIGHT", "AWAITING_WINDOW", "MIGRATING", "COMPLETE"} =>
       consent = Roles
  /\ orch.state \in {"AWAITING_WINDOW", "MIGRATING", "COMPLETE"} => cleared = Roles

\* While the agents are being paired or are running their checklists, both
\* are connected: a session never waits in these states for an absent agent.
BothPresentToPair ==
  orch.state \in {"PAIRING", "PREFLIGHT"} => \A r \in Roles : orch.agents[r]

\* Steps go out in order and at most once each, whatever is acknowledged
\* twice, late or out of turn; the summary's count agrees with them.
StepsInOrder ==
  /\ dispatched = [i \in 1 .. orch.currentStep |-> i]
  /\ orch.state = "COMPLETE" => orch.stepsCompleted = TotalSteps

\* However a session fails (abort, lost agent, failed step, in any order),
\* the source's rollback is dispatched, once, whole and in order, if step 2
\* was ever sent to it, and not a step of it otherwise.
RollbackIffDeactivated ==
  rolledBack =
    IF orch.state = "FAILED" /\ \E i \in DOMAIN dispatched : dispatched[i] = 2
    THEN RollbackSequence ELSE << >>

\* Only startMigration, called in the wrong state, ever throws: no other
\* method asks for a transition that the table refuses, so neither an agent's
\* message nor a lost socket nor an abort brings an exception into the socket
\* code, whose listeners do not catch it.
OnlyStartThrows ==
  [][(OperatorAbort \/ \E role \in Roles : AgentCalls(role)) =>
       \A i \in DOMAIN emitted' : emitted'[i] # Thrown]_vars

\* The state changes a call announces start from the state it found and
\* chain, edge by allowed edge, to the state it leaves.
ChangesChain ==
  [][LET changes == Occurrences("state_change", emitted')
         from(i) == IF i = 1 THEN orch.state ELSE changes[i - 1].to
     IN  /\ \A i \in DOMAIN changes :
              /\ changes[i].from = from(i)
              /\ <<changes[i].from, changes[i].to>> \in AllowedTransitions
         /\ orch'.state = from(Len(changes) + 1)]_vars

\* The lifecycle the orchestrator implements.
L == INSTANCE Lifecycle WITH phase <- orch.state, step <- orch.currentStep

\* Every call is a step of the lifecycle or leaves it alone.
ImplementsLifecycle == L!LifecycleSpec
=============================================================================
