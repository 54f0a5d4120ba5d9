------------------------- MODULE OrchestratorProofs -------------------------
(***************************************************************************)
(* What the orchestrator promises for every sequence of calls, of any      *)
(* length: its step gate, the freshness of its consents, the presence of   *)
(* both agents while they are paired, and that it implements Lifecycle.    *)
(*                                                                         *)
(* And what its listeners hear: the steps go out in order, the rollback    *)
(* goes out once and whole if and only if it is due, the announced changes *)
(* of state chain along edges of the table, and only startMigration ever   *)
(* throws.                                                                 *)
(***************************************************************************)
EXTENDS OrchestratorSpec, OrchestratorMethods, FilterTheorems

-----------------------------------------------------------------------------
(* The inductive invariant.                                                *)

ObjectOK ==
  /\ orch \in Orchestrators
  /\ acked \subseteq Steps \X Roles
  /\ consent \subseteq Roles /\ cleared \subseteq Roles

\* The counters of a migration follow its state, and ROLLBACK is never
\* seen between two calls.
Counters ==
  /\ orch.state # "ROLLBACK"
  /\ orch.state \in {"IDLE", "PAIRING", "PREFLIGHT", "AWAITING_WINDOW"} =>
       orch.currentStep = 0 /\ orch.stepsCompleted = 0
  /\ orch.state = "MIGRATING" =>
       orch.currentStep \in Steps /\ orch.stepsCompleted = orch.currentStep - 1

\* The object remembers no acknowledgement that was not made.
AcksReal == \A s \in BilateralSteps : \A r \in orch.acks[s] : <<s, r>> \in acked

\* The object remembers no confirmation and no report of an earlier pairing.
ConsentReal ==
  /\ orch.state = "IDLE" => \A r \in Roles : ~orch.sas[r]
  /\ orch.state = "PAIRING" => \A r \in Roles : orch.sas[r] => r \in consent
  /\ orch.state \in {"IDLE", "PAIRING"} => \A r \in Roles : orch.preflight[r] = "none"
  /\ orch.state = "PREFLIGHT" =>
       \A r \in Roles : orch.preflight[r] = "ok" => r \in cleared

IInv ==
  /\ ObjectOK
  /\ Counters
  /\ AcksReal
  /\ ConsentReal
  /\ StepGate
  /\ FreshConsent
  /\ BothPresentToPair

-----------------------------------------------------------------------------
USE DEF Roles, Terminal, BilateralSteps, Steps, TotalSteps, IsTerminal

\* A new orchestrator satisfies the strengthened invariant.
LEMMA InitInv == Init => IInv
  BY DEF Init, IInv, ObjectOK, Counters, AcksReal, ConsentReal, StepGate,
         FreshConsent, BothPresentToPair, Fresh, Orchestrators, States, Verdicts

-----------------------------------------------------------------------------
(* Each call preserves the invariant.                                      *)

USE DEF IInv, ObjectOK, Counters, AcksReal, ConsentReal, FreshConsent,
        BothPresentToPair, SamePairing, SameProgress, Unchanged, Moved

\* A call that leaves the object where it was, or ends the session, and
\* records nothing new.
LEMMA EndInv ==
  ASSUME IInv, UNCHANGED <<acked, consent, cleared>>,
         Unchanged(orch) \/ Moved(orch, "FAILED")
  PROVE  IInv'
<1>1. ObjectOK' /\ Counters'
  OBVIOUS
<1>2. AcksReal'
  OBVIOUS
<1>3. ConsentReal'
  OBVIOUS
<1>4. StepGate'
  BY DEF StepGate
<1>5. FreshConsent' /\ BothPresentToPair'
  OBVIOUS
<1>6. QED
  BY <1>1, <1>2, <1>3, <1>4, <1>5

\* onAgentConnected() preserves the strengthened invariant.
LEMMA ConnectedInv ==
  ASSUME NEW role \in Roles, IInv, AgentConnected(role)
  PROVE  IInv'
<1>1. UNCHANGED <<acked, consent, cleared>> /\ OnAgentConnected(orch, role)
  BY DEF AgentConnected
<1>2. /\ orch' \in Orchestrators /\ SameProgress(orch)
      /\ orch'.agents = [orch.agents EXCEPT ![role] = TRUE]
      /\ orch'.sas = orch.sas /\ orch'.preflight = orch.preflight
      /\ \/ orch'.state = orch.state
         \/ /\ orch.state = "IDLE" /\ orch'.state = "PAIRING"
            /\ \A r \in Roles : orch'.agents[r]
  BY <1>1, ConnectedShape
<1>3. ObjectOK' /\ Counters'
  BY <1>1, <1>2
<1>4. AcksReal'
  BY <1>1, <1>2
<1>5. ConsentReal'
  BY <1>1, <1>2
<1>6. StepGate'
  BY <1>1, <1>2 DEF StepGate
<1>7. FreshConsent'
  BY <1>1, <1>2
<1>8. BothPresentToPair'
  BY <1>2 DEF Orchestrators
<1>9. QED
  BY <1>3, <1>4, <1>5, <1>6, <1>7, <1>8

\* onAgentDisconnected() preserves the strengthened invariant.
LEMMA DisconnectedInv ==
  ASSUME NEW role \in Roles, IInv, AgentDisconnected(role)
  PROVE  IInv'
<1>1. /\ UNCHANGED acked /\ OnAgentDisconnected(orch, role)
      /\ consent' = IF Preparing THEN {} ELSE consent
      /\ cleared' = IF Preparing THEN {} ELSE cleared
  BY DEF AgentDisconnected
<1>2. /\ orch' \in Orchestrators /\ SameProgress(orch)
      /\ \/ /\ orch.state \in {"PAIRING", "PREFLIGHT"} /\ orch'.state = "IDLE"
            /\ \A r \in Roles : ~orch'.sas[r] /\ orch'.preflight[r] = "none"
         \/ /\ orch.state \notin {"PAIRING", "PREFLIGHT"}
            /\ \/ orch'.state = orch.state
               \/ orch.state = "MIGRATING" /\ orch'.state = "FAILED"
            /\ orch'.sas = orch.sas /\ orch'.preflight = orch.preflight
  BY <1>1, DisconnectedShape
<1>3. ObjectOK' /\ Counters'
  BY <1>1, <1>2
<1>4. AcksReal'
  BY <1>1, <1>2
<1>5. ConsentReal'
  BY <1>1, <1>2
<1>6. StepGate'
  BY <1>1, <1>2 DEF StepGate
<1>7. FreshConsent'
  BY <1>1, <1>2 DEF Preparing
<1>8. BothPresentToPair'
  BY <1>2
<1>9. QED
  BY <1>3, <1>4, <1>5, <1>6, <1>7, <1>8

\* onSasConfirmed() preserves the strengthened invariant.
LEMMA SasInv ==
  ASSUME NEW role \in Roles, IInv, SasConfirmed(role)
  PROVE  IInv'
<1>1. /\ UNCHANGED <<acked, cleared>> /\ OnSasConfirmed(orch, role)
      /\ consent' = IF orch.state = "PAIRING" THEN consent \cup {role} ELSE consent
  BY DEF SasConfirmed
<1>2. /\ orch' \in Orchestrators /\ SameProgress(orch)
      /\ orch'.agents = orch.agents /\ orch'.preflight = orch.preflight
      /\ \/ orch.state # "PAIRING" /\ orch'.state = orch.state /\ orch'.sas = orch.sas
         \/ /\ orch.state = "PAIRING" /\ orch'.sas = [orch.sas EXCEPT ![role] = TRUE]
            /\ \/ orch'.state = "PAIRING"
               \/ orch'.state = "PREFLIGHT" /\ \A r \in Roles : orch'.sas[r]
  BY <1>1, SasShape
<1>3. ObjectOK' /\ Counters'
  BY <1>1, <1>2
<1>4. AcksReal'
  BY <1>1, <1>2
<1>5. orch.state = "PAIRING" => \A r \in Roles : orch'.sas[r] => r \in consent'
  BY <1>1, <1>2 DEF Orchestrators
<1>6. ConsentReal'
  BY <1>1, <1>2, <1>5
<1>7. StepGate'
  BY <1>1, <1>2 DEF StepGate
<1>8. FreshConsent'
  BY <1>1, <1>2, <1>5
<1>9. BothPresentToPair'
  BY <1>2
<1>10. QED
  BY <1>3, <1>4, <1>6, <1>7, <1>8, <1>9

\* onPreflightResult() preserves the strengthened invariant.
LEMMA PreflightInv ==
  ASSUME NEW role \in Roles, NEW verdict \in Verdicts, IInv,
         PreflightResult(role, verdict)
  PROVE  IInv'
<1>1. /\ UNCHANGED <<acked, consent>> /\ OnPreflightResult(orch, role, verdict)
      /\ cleared' = IF orch.state # "PREFLIGHT" THEN cleared
                    ELSE IF verdict = "ok" THEN cleared \cup {role}
                    ELSE cleared \ {role}
  BY DEF PreflightResult
<1>2. /\ orch' \in Orchestrators /\ SameProgress(orch)
      /\ orch'.agents = orch.agents /\ orch'.sas = orch.sas
      /\ \/ orch.state # "PREFLIGHT" /\ Unchanged(orch)
         \/ /\ orch.state = "PREFLIGHT"
            /\ orch'.preflight = [orch.preflight EXCEPT ![role] = verdict]
            /\ \/ orch'.state \in {"PREFLIGHT", "FAILED"}
               \/ /\ orch'.state = "AWAITING_WINDOW"
                  /\ \A r \in Roles : orch'.preflight[r] = "ok"
  BY <1>1, PreflightShape
<1>3. CASE orch.state # "PREFLIGHT"
  BY <1>1, <1>2, <1>3, EndInv
<1>4. CASE orch.state = "PREFLIGHT"
  <2>1. ObjectOK' /\ Counters'
    BY <1>1, <1>2, <1>4
  <2>2. AcksReal'
    BY <1>1, <1>2
  <2>3. \A r \in Roles : orch'.preflight[r] = "ok" => r \in cleared'
    BY <1>1, <1>2, <1>4 DEF Orchestrators
  <2>4. ConsentReal'
    BY <1>1, <1>2, <1>4, <2>3
  <2>5. StepGate'
    BY <1>1, <1>2, <1>4 DEF StepGate
  <2>6. FreshConsent'
    BY <1>1, <1>2, <1>4, <2>3
  <2>7. BothPresentToPair'
    BY <1>2, <1>4
  <2>8. QED
    BY <2>1, <2>2, <2>4, <2>5, <2>6, <2>7
<1>5. QED
  BY <1>3, <1>4

\* startMigration() preserves the strengthened invariant.
LEMMA StartInv ==
  ASSUME IInv, OperatorStart
  PROVE  IInv'
<1>1. UNCHANGED <<acked, consent, cleared>> /\ StartMigration(orch)
  BY DEF OperatorStart
<1>2. \/ orch.state # "AWAITING_WINDOW" /\ Unchanged(orch)
      \/ /\ orch.state = "AWAITING_WINDOW" /\ orch'.state = "MIGRATING"
         /\ orch' \in Orchestrators /\ SamePairing(orch)
         /\ orch'.currentStep = 1
         /\ orch'.stepsCompleted = orch.stepsCompleted /\ orch'.acks = orch.acks
  BY <1>1, StartShape
<1>3. CASE orch.state # "AWAITING_WINDOW"
  BY <1>1, <1>2, <1>3, EndInv
<1>4. CASE orch.state = "AWAITING_WINDOW"
  <2>1. ObjectOK' /\ Counters'
    BY <1>1, <1>2, <1>4
  <2>2. AcksReal' /\ ConsentReal'
    BY <1>1, <1>2, <1>4
  <2>3. StepGate'
    BY <1>1, <1>2, <1>4 DEF StepGate
  <2>4. FreshConsent' /\ BothPresentToPair'
    BY <1>1, <1>2, <1>4
  <2>5. QED
    BY <2>1, <2>2, <2>3, <2>4
<1>5. QED
  BY <1>3, <1>4

\* abort() preserves the strengthened invariant.
LEMMA AbortInv ==
  ASSUME IInv, OperatorAbort
  PROVE  IInv'
<1>1. UNCHANGED <<acked, consent, cleared>> /\ Abort(orch)
  BY DEF OperatorAbort
<1>2. Unchanged(orch) \/ Moved(orch, "FAILED")
  BY <1>1, AbortShape
<1>3. QED
  BY <1>1, <1>2, EndInv

\* onStepFailed() preserves the strengthened invariant.
LEMMA StepFailedInv ==
  ASSUME NEW step \in Steps, NEW role \in Roles, IInv, StepFailed(step, role)
  PROVE  IInv'
<1>1. UNCHANGED <<acked, consent, cleared>> /\ OnStepFailed(orch, step, role)
  BY DEF StepFailed
<1>2. Unchanged(orch) \/ Moved(orch, "FAILED")
  BY <1>1, StepFailedShape
<1>3. QED
  BY <1>1, <1>2, EndInv

\* onStepComplete() preserves the strengthened invariant.
LEMMA StepCompleteInv ==
  ASSUME NEW step \in Steps, NEW role \in Roles, IInv, StepComplete(step, role)
  PROVE  IInv'
<1>1. /\ UNCHANGED <<consent, cleared>> /\ OnStepComplete(orch, step, role)
      /\ acked' = IF orch.state = "MIGRATING" /\ step = orch.currentStep
                  THEN acked \cup {<<step, role>>} ELSE acked
  BY DEF StepComplete
<1>2. CASE ~(orch.state = "MIGRATING" /\ step = orch.currentStep)
  <2>1. Unchanged(orch)
    BY <1>1, <1>2, StepCompleteShape
  <2>2. QED
    BY <1>1, <1>2, <2>1, EndInv
<1>3. CASE orch.state = "MIGRATING" /\ step = orch.currentStep
  <2>0. acked' = acked \cup {<<step, role>>}
    BY <1>1, <1>3
  <2>1. /\ orch' \in Orchestrators /\ SamePairing(orch)
        /\ Waits(orch, step, role) \/ Advances(orch, step, role)
    <3>1. StepReported(orch, step, role)
      BY <1>1, <1>3, StepCompleteShape
    <3>2. QED
      BY <3>1 DEF StepReported
  <2>2. ObjectOK' /\ Counters'
    BY <1>1, <1>3, <2>0, <2>1 DEF Waits, Advances
  <2>3. AcksReal'
    <3> SUFFICES ASSUME NEW s \in BilateralSteps, NEW r \in orch'.acks[s]
                 PROVE  <<s, r>> \in acked'
      OBVIOUS
    <3>1. r \in orch.acks[s] \/ (s = step /\ r = role)
      BY <2>1 DEF Waits, Advances
    <3>2. QED
      BY <2>0, <3>1
  <2>4. ConsentReal' /\ FreshConsent' /\ BothPresentToPair'
    BY <1>1, <1>3, <2>1 DEF Waits, Advances
  <2>5. StepGate'
    \* Every step below the current one was reported before; the current one
    \* has been too when the migration moves past it.
    <3>1. \A s \in Steps : s < step =>
            IF s \in BilateralSteps THEN \A r \in Roles : <<s, r>> \in acked'
                                    ELSE \E r \in Roles : <<s, r>> \in acked'
      BY <1>3, <2>0 DEF StepGate
    <3>2. CASE Waits(orch, step, role)
      BY <1>3, <3>1, <3>2 DEF StepGate, Waits
    <3>3. CASE Advances(orch, step, role)
      <4>1. IF step \in BilateralSteps THEN \A r \in Roles : <<step, r>> \in acked'
                                       ELSE \E r \in Roles : <<step, r>> \in acked'
        BY <2>0, <3>3 DEF Advances
      <4>2. \A s \in Steps :
              (s < orch'.currentStep \/ orch'.state = "COMPLETE") => s < step \/ s = step
        BY <3>3 DEF Advances
      <4>3. QED
        BY <3>1, <4>1, <4>2 DEF StepGate
    <3>4. QED
      BY <2>1, <3>2, <3>3
  <2>6. QED
    BY <2>2, <2>3, <2>4, <2>5
<1>4. QED
  BY <1>2, <1>3

\* Every call preserves the strengthened invariant.
LEMMA NextInv == IInv /\ [Next]_vars => IInv'
<1> SUFFICES ASSUME IInv, [Next]_vars PROVE IInv'
  OBVIOUS
<1>1. ASSUME NEW role \in Roles, AgentConnected(role) PROVE IInv'
  BY <1>1, ConnectedInv
<1>2. ASSUME NEW role \in Roles, AgentDisconnected(role) PROVE IInv'
  BY <1>2, DisconnectedInv
<1>3. ASSUME NEW role \in Roles, SasConfirmed(role) PROVE IInv'
  BY <1>3, SasInv
<1>4. ASSUME NEW role \in Roles, NEW verdict \in Verdicts, PreflightResult(role, verdict)
      PROVE  IInv'
  BY <1>4, PreflightInv
<1>5. ASSUME NEW role \in Roles, NEW step \in Steps, StepComplete(step, role) PROVE IInv'
  BY <1>5, StepCompleteInv
<1>6. ASSUME NEW role \in Roles, NEW step \in Steps, StepFailed(step, role) PROVE IInv'
  BY <1>6, StepFailedInv
<1>7. CASE OperatorStart
  BY <1>7, StartInv
<1>8. CASE OperatorAbort
  BY <1>8, AbortInv
<1>9. CASE UNCHANGED vars
  BY <1>9 DEF vars, history, StepGate
<1>10. QED
  BY <1>1, <1>2, <1>3, <1>4, <1>5, <1>6, <1>7, <1>8, <1>9 DEF Next, AgentCalls

\* The strengthened invariant holds in every reachable state.
THEOREM Inductive == Spec => []IInv
  BY InitInv, NextInv, PTL DEF Spec

\* No migration passes a transfer that both agents have not reported, nor a
\* step that nobody has, however reports are repeated, delayed or misdirected.
THEOREM StepGateHolds == Spec => []StepGate
<1>1. IInv => StepGate
  OBVIOUS
<1>2. QED
  BY <1>1, Inductive, PTL

\* A confirmation or a report from before an agent dropped out never counts.
THEOREM FreshConsentHolds == Spec => []FreshConsent
<1>1. IInv => FreshConsent
  OBVIOUS
<1>2. QED
  BY <1>1, Inductive, PTL

\* A session is in PAIRING or PREFLIGHT only while both agents are connected.
THEOREM BothPresentHolds == Spec => []BothPresentToPair
<1>1. IInv => BothPresentToPair
  OBVIOUS
<1>2. QED
  BY <1>1, Inductive, PTL

-----------------------------------------------------------------------------
(* The orchestrator implements Lifecycle.                                  *)

\* Every call is a step of Lifecycle or leaves its variables as they were.
LEMMA RefinementStep == IInv /\ [Next]_vars => [L!LifecycleNext]_(L!lifecycleVars)
<1> SUFFICES ASSUME IInv, [Next]_vars
             PROVE  [L!LifecycleNext]_(L!lifecycleVars)
  OBVIOUS
<1> USE DEF L!LifecycleNext, L!lifecycleVars
<1>a. orch.state \in States
  BY DEF Orchestrators
<1>1. CASE Unchanged(orch) \/ (orch.state \notin Terminal /\ Moved(orch, "FAILED"))
  BY <1>1 DEF L!Fail, L!Terminal
<1>2. ASSUME NEW role \in Roles, AgentConnected(role)
      PROVE  [L!LifecycleNext]_(L!lifecycleVars)
  <2>1. /\ SameProgress(orch)
        /\ \/ orch'.state = orch.state
           \/ orch.state = "IDLE" /\ orch'.state = "PAIRING"
    BY <1>2, ConnectedShape DEF AgentConnected
  <2>2. QED
    BY <2>1 DEF L!Prepare, L!AllowedTransitions
<1>3. ASSUME NEW role \in Roles, AgentDisconnected(role)
      PROVE  [L!LifecycleNext]_(L!lifecycleVars)
  <2>1. /\ SameProgress(orch)
        /\ \/ orch.state \in {"PAIRING", "PREFLIGHT"} /\ orch'.state = "IDLE"
           \/ orch'.state = orch.state
           \/ orch.state = "MIGRATING" /\ orch'.state = "FAILED"
    BY <1>3, DisconnectedShape DEF AgentDisconnected
  <2>2. QED
    BY <2>1 DEF L!Prepare, L!Fail, L!Terminal, L!AllowedTransitions
<1>4. ASSUME NEW role \in Roles, SasConfirmed(role)
      PROVE  [L!LifecycleNext]_(L!lifecycleVars)
  <2>1. /\ SameProgress(orch)
        /\ \/ orch'.state = orch.state
           \/ orch.state = "PAIRING" /\ orch'.state = "PREFLIGHT"
    BY <1>4, SasShape DEF SasConfirmed
  <2>2. QED
    BY <2>1 DEF L!Prepare, L!AllowedTransitions
<1>5. ASSUME NEW role \in Roles, NEW verdict \in Verdicts, PreflightResult(role, verdict)
      PROVE  [L!LifecycleNext]_(L!lifecycleVars)
  <2>1. /\ SameProgress(orch)
        /\ \/ orch'.state = orch.state
           \/ orch.state = "PREFLIGHT" /\ orch'.state \in {"FAILED", "AWAITING_WINDOW"}
    BY <1>5, PreflightShape DEF PreflightResult
  <2>2. QED
    BY <2>1 DEF L!Prepare, L!Fail, L!Terminal, L!AllowedTransitions
<1>6. ASSUME NEW role \in Roles, NEW step \in Steps, StepComplete(step, role)
      PROVE  [L!LifecycleNext]_(L!lifecycleVars)
  <2>1. OnStepComplete(orch, step, role)
    BY <1>6 DEF StepComplete
  <2>2. CASE orch.state = "MIGRATING" /\ step = orch.currentStep
    <3>1. StepReported(orch, step, role)
      BY <2>1, <2>2, StepCompleteShape
    <3>2. QED
      BY <2>2, <3>1 DEF StepReported, Waits, Advances,
                        L!DispatchNext, L!Finish, L!TotalSteps
  <2>3. CASE ~(orch.state = "MIGRATING" /\ step = orch.currentStep)
    <3>1. Unchanged(orch)
      BY <2>1, <2>3, StepCompleteShape
    <3>2. QED
      BY <1>1, <3>1
  <2>4. QED
    BY <2>2, <2>3
<1>7. ASSUME NEW role \in Roles, NEW step \in Steps, StepFailed(step, role)
      PROVE  [L!LifecycleNext]_(L!lifecycleVars)
  <2>1. \/ Unchanged(orch)
        \/ orch.state = "MIGRATING" /\ Moved(orch, "FAILED")
    BY <1>7, StepFailedShape DEF StepFailed
  <2>2. QED
    BY <1>1, <2>1
<1>8. CASE OperatorStart
  <2>1. \/ Unchanged(orch)
        \/ /\ orch.state = "AWAITING_WINDOW" /\ orch'.state = "MIGRATING"
           /\ orch'.currentStep = 1
    BY <1>8, StartShape DEF OperatorStart
  <2>2. QED
    BY <1>1, <2>1 DEF L!Start
<1>9. CASE OperatorAbort
  <2>1. \/ Unchanged(orch)
        \/ orch.state \notin Terminal /\ Moved(orch, "FAILED")
    BY <1>9, AbortShape DEF OperatorAbort
  <2>2. QED
    BY <1>1, <2>1
<1>10. CASE UNCHANGED vars
  BY <1>10 DEF vars
<1>11. QED
  BY <1>2, <1>3, <1>4, <1>5, <1>6, <1>7, <1>8, <1>9, <1>10 DEF Next, AgentCalls

\* Whatever is called in whatever order, a session's state and step follow
\* the lifecycle: nothing is dispatched out of turn and no ended session moves.
THEOREM OrchestratorImplementsLifecycle == Spec => ImplementsLifecycle
<1>1. Init => L!LifecycleInit
  BY DEF Init, Fresh, L!LifecycleInit
<1>2. QED
  BY <1>1, RefinementStep, Inductive, PTL DEF Spec, ImplementsLifecycle, L!LifecycleSpec

-----------------------------------------------------------------------------
(* Type correctness: what the methods emit.                                *)

\* Every call emits only events of the event map.
LEMMA CallEmits == IInv /\ Next => emitted' \in Seq(Events)
<1> SUFFICES ASSUME IInv, Next PROVE emitted' \in Seq(Events)
  OBVIOUS
<1>1. /\ "PAIRING" \in States /\ "IDLE" \in States /\ "PREFLIGHT" \in States
      /\ "FAILED" \in States /\ "AWAITING_WINDOW" \in States /\ "MIGRATING" \in States
  BY DEF States
<1>2. ASSUME NEW role \in Roles, OnAgentConnected(orch, role) PROVE emitted' \in Seq(Events)
  <2>1. [orch EXCEPT !.agents[role] = TRUE] \in Orchestrators
    BY PutAgent
  <2>2. QED
    BY <1>1, <1>2, <2>1, EventLists, ReturnEmits, TransitionEmits DEF OnAgentConnected
<1>3. ASSUME NEW role \in Roles, OnAgentDisconnected(orch, role) PROVE emitted' \in Seq(Events)
  <2> DEFINE p == [orch EXCEPT !.agents[role] = FALSE]
             q == [p EXCEPT !.sas = Fresh.sas, !.preflight = Fresh.preflight]
  <2>1. p \in Orchestrators
    BY PutAgent
  <2>2. q \in Orchestrators
    <3> HIDE DEF p
    <3> QED BY <2>1, PutReset
  <2>3. \/ Transition(q, "IDLE", << >>, << >>)
        \/ BeginRollback(p, << >>)
        \/ Return(p, <<CriticalAlert>>)
        \/ Return(p, << >>)
    BY <1>3 DEF OnAgentDisconnected
  <2> HIDE DEF p, q
  <2>4. QED
    BY <1>1, <2>1, <2>2, <2>3, EventLists, ReturnEmits, RollbackEmits, TransitionEmits
<1>4. ASSUME NEW role \in Roles, OnSasConfirmed(orch, role) PROVE emitted' \in Seq(Events)
  <2>1. [orch EXCEPT !.sas[role] = TRUE] \in Orchestrators
    BY PutSas
  <2>2. QED
    BY <1>1, <1>4, <2>1, EventLists, ReturnEmits, TransitionEmits DEF OnSasConfirmed
<1>5. ASSUME NEW role \in Roles, NEW verdict \in Verdicts, OnPreflightResult(orch, role, verdict)
      PROVE  emitted' \in Seq(Events)
  <2> DEFINE p == [orch EXCEPT !.preflight[role] = verdict]
  <2>1. p \in Orchestrators
    BY DEF Orchestrators, Verdicts
  <2>2. \/ Return(orch, << >>) \/ Return(p, << >>)
        \/ Transition(p, "FAILED", << >>, <<SessionFailed>>)
        \/ Transition(p, "AWAITING_WINDOW", << >>, << >>)
    BY <1>5 DEF OnPreflightResult
  <2> HIDE DEF p
  <2>3. QED
    BY <1>1, <2>1, <2>2, EventLists, ReturnEmits, TransitionEmits
<1>6. ASSUME NEW role \in Roles, NEW step \in Steps, OnStepComplete(orch, step, role)
      PROVE  emitted' \in Seq(Events)
  <2>1. CASE Return(orch, << >>) \/ Return([orch EXCEPT !.acks[step] = orch.acks[step] \cup {role}], << >>)
    BY <2>1, EventLists, ReturnEmits
  <2>2. CASE orch.state = "MIGRATING" /\ step = orch.currentStep /\ Advance(orch, step)
    BY <2>2, AdvanceEmits
  <2>3. CASE /\ orch.state = "MIGRATING" /\ step = orch.currentStep
             /\ step \in BilateralSteps
             /\ Advance([orch EXCEPT !.acks[step] = {}], step)
    <3> DEFINE p == [orch EXCEPT !.acks[step] = {}]
    <3>0. {} \in SUBSET Roles
      OBVIOUS
    <3>1. p \in Orchestrators /\ p.stepsCompleted < TotalSteps
      BY <2>3, <3>0, PutAcks
    <3>2. Advance(p, step)
      BY <2>3
    <3> HIDE DEF p
    <3>3. QED
      BY <3>1, <3>2, AdvanceEmits
  <2>4. QED
    BY <1>6, <2>1, <2>2, <2>3 DEF OnStepComplete
<1>7. ASSUME NEW role \in Roles, NEW step \in Steps, OnStepFailed(orch, step, role)
      PROVE  emitted' \in Seq(Events)
  BY <1>1, <1>7, EventLists, ReturnEmits, RollbackEmits, TransitionEmits DEF OnStepFailed
<1>8. CASE StartMigration(orch)
  <2> DEFINE p == [orch EXCEPT !.currentStep = 1]
  <2>1. p \in Orchestrators
    <3>1. 1 \in 0 .. TotalSteps
      OBVIOUS
    <3>2. QED
      BY <3>1, PutStep
  <2>2. \/ Return(orch, <<Thrown>>)
        \/ Transition(p, "MIGRATING", << >>, <<ExecuteStep(1)>>)
    BY <1>8 DEF StartMigration
  <2> HIDE DEF p
  <2>3. QED
    BY <1>1, <2>1, <2>2, EventLists, ReturnEmits, TransitionEmits
<1>9. CASE Abort(orch)
  BY <1>1, <1>9, EventLists, ReturnEmits, RollbackEmits, TransitionEmits DEF Abort
<1>10. QED
  BY <1>2, <1>3, <1>4, <1>5, <1>6, <1>7, <1>8, <1>9
     DEF Next, AgentCalls, AgentConnected, AgentDisconnected, SasConfirmed, PreflightResult,
         StepComplete, StepFailed, OperatorStart, OperatorAbort

\* Every field of the object keeps its type and every call emits only events
\* of the orchestrator's event map.
THEOREM TypeCorrect == Spec => []TypeOK
<1>1. Init => TypeOK
  BY InitInv, EventLists DEF Init, TypeOK
<1>2. IInv /\ TypeOK /\ [Next]_vars => TypeOK'
  <2> SUFFICES ASSUME IInv, TypeOK, [Next]_vars PROVE TypeOK'
    OBVIOUS
  <2>1. ObjectOK'
    BY NextInv
  <2>2. emitted' \in Seq(Events)
    BY CallEmits DEF TypeOK, vars
  <2>3. QED
    BY <2>1, <2>2 DEF TypeOK
<1>3. QED
  BY <1>1, <1>2, Inductive, PTL DEF Spec

HIDE DEF IInv, ObjectOK, Counters, AcksReal, ConsentReal, FreshConsent,
         BothPresentToPair, SamePairing, SameProgress, Unchanged, Moved

-----------------------------------------------------------------------------
(* Reading the events of a call.                                           *)

\* Of one event, of two and of three, those of a kind are picked one by one.
LEMMA PickOne ==
  ASSUME NEW kind, NEW a \in Events
  PROVE  Occurrences(kind, <<a>>) = IF a.event = kind THEN <<a>> ELSE << >>
<1> DEFINE S == {e \in Events : e.event = kind}
<1>1. a \in S <=> a.event = kind
  OBVIOUS
<1> HIDE DEF S
<1>2. Filter(<<a>>, S) = IF a \in S THEN <<a>> ELSE << >>
  BY FilterOne
<1>3. QED
  BY <1>1, <1>2 DEF Occurrences, S

\* Of two lists, those of a kind.
LEMMA PickConcat ==
  ASSUME NEW kind, NEW s \in Seq(Events), NEW t \in Seq(Events)
  PROVE  Occurrences(kind, s \o t) = Occurrences(kind, s) \o Occurrences(kind, t)
<1> DEFINE S == {x \in Events : x.event = kind}
<1>1. Filter(s \o t, S) = Filter(s, S) \o Filter(t, S)
  BY FilterConcat
<1>2. QED
  BY <1>1 DEF Occurrences

\* What is picked out of events are events.
LEMMA PickEvents ==
  ASSUME NEW kind, NEW s \in Seq(Events)
  PROVE  Occurrences(kind, s) \in Seq(Events)
<1> DEFINE S == {e \in Events : e.event = kind}
<1>1. Filter(s, S) \in Seq(Events \cap S)
  <2> HIDE DEF S
  <2>1. QED
    BY FilterElements
<1>2. Events \cap S \subseteq Events
  OBVIOUS
<1> HIDE DEF S
<1>3. Filter(s, S) \in Seq(Events)
  BY <1>1, <1>2, SeqMonotonic
<1>4. QED
  BY <1>3 DEF Occurrences, S

\* Nothing is picked out of nothing.
LEMMA PickNone ==
  ASSUME NEW kind
  PROVE  Occurrences(kind, << >>) = << >>
  BY FilterEmpty DEF Occurrences

-----------------------------------------------------------------------------
(* The lists of events a method emits, read by kind.                       *)

\* The changes, the steps and the rollback steps among the events.
Reads(events, changes, orders, undos) ==
  /\ events \in Seq(Events \ {Thrown})
  /\ Occurrences("state_change", events) = changes
  /\ Occurrences("execute_step", events) = orders
  /\ Occurrences("rollback", events) = undos

\* The kinds of the events.
LEMMA KindsOfEvents ==
  /\ \A a, b : StateChange(a, b).event = "state_change"
  /\ \A n : ExecuteStep(n).event = "execute_step" /\ StepCompleted(n).event = "step_completed"
  /\ \A n, r : StepFailedEvent(n, r).event = "step_failed_event"
  /\ \A name : Rollback(name).event = "rollback"
  /\ SessionComplete.event = "session_complete" /\ SessionFailed.event = "session_failed"
  /\ CriticalAlert.event = "critical_alert" /\ Thrown.event = "throw"
  BY DEF StateChange, ExecuteStep, StepCompleted, StepFailedEvent, Rollback,
         SessionComplete, SessionFailed, CriticalAlert, Thrown

\* Two lists after each other read as their readings do.
LEMMA ReadsConcat ==
  ASSUME NEW s, NEW t, NEW c1, NEW c2, NEW o1, NEW o2, NEW u1, NEW u2,
         Reads(s, c1, o1, u1), Reads(t, c2, o2, u2)
  PROVE  Reads(s \o t, c1 \o c2, o1 \o o2, u1 \o u2)
<1>1. s \o t \in Seq(Events \ {Thrown})
  BY ConcatProperties DEF Reads
<1>2. s \in Seq(Events) /\ t \in Seq(Events)
  BY SeqMonotonic DEF Reads
<1>3. QED
  BY <1>1, <1>2, PickConcat DEF Reads

\* A call that says nothing, or only raises an alert.
LEMMA ReadsSilent ==
  Reads(<< >>, << >>, << >>, << >>) /\ Reads(<<CriticalAlert>>, << >>, << >>, << >>)
<1>1. << >> \in Seq(Events \ {Thrown}) /\ <<CriticalAlert>> \in Seq(Events \ {Thrown})
  BY EventTypes, KindsOfEvents, EmptySeq
<1>2. QED
  BY <1>1, EventTypes, KindsOfEvents, PickNone, PickOne DEF Reads

\* One change of state.
LEMMA ReadsChange ==
  ASSUME NEW a \in States, NEW b \in States
  PROVE  Reads(<<StateChange(a, b)>>, <<StateChange(a, b)>>, << >>, << >>)
<1>1. StateChange(a, b) \in Events \ {Thrown}
  BY EventTypes, KindsOfEvents
<1>2. <<StateChange(a, b)>> \in Seq(Events \ {Thrown})
  BY <1>1
<1>3. QED
  BY <1>1, <1>2, KindsOfEvents, PickOne DEF Reads

\* A prelude.
LEMMA ReadsPrelude ==
  ASSUME NEW before \in Preludes
  PROVE  Reads(before, << >>, << >>, << >>)
<1>1. CASE before = << >>
  BY <1>1, ReadsSilent
<1>2. ASSUME NEW s \in Steps, NEW r \in Roles, before = <<StepFailedEvent(s, r)>>
      PROVE  Reads(before, << >>, << >>, << >>)
  <2>1. StepFailedEvent(s, r) \in Events \ {Thrown}
    BY EventTypes, KindsOfEvents
  <2>2. <<StepFailedEvent(s, r)>> \in Seq(Events \ {Thrown})
    BY <2>1
  <2>3. QED
    BY <1>2, <2>1, <2>2, KindsOfEvents, PickOne DEF Reads
<1>3. QED
  BY <1>1, <1>2 DEF Preludes

\* One event of none of the three kinds.
LEMMA ReadsOther ==
  ASSUME NEW e \in Events,
         e.event \notin {"state_change", "execute_step", "rollback", "throw"}
  PROVE  Reads(<<e>>, << >>, << >>, << >>)
<1>1. e \in Events \ {Thrown}
  BY KindsOfEvents
<1>2. <<e>> \in Seq(Events \ {Thrown})
  BY <1>1
<1>3. QED
  BY <1>1, <1>2, PickOne DEF Reads

\* One step.
LEMMA ReadsStep ==
  ASSUME NEW n \in Steps
  PROVE  Reads(<<ExecuteStep(n)>>, << >>, <<ExecuteStep(n)>>, << >>)
<1>1. ExecuteStep(n) \in Events \ {Thrown}
  BY EventTypes, KindsOfEvents
<1>2. <<ExecuteStep(n)>> \in Seq(Events \ {Thrown})
  BY <1>1
<1>3. QED
  BY <1>1, <1>2, KindsOfEvents, PickOne DEF Reads

\* Two events of which the first, the second or neither is read.
LEMMA ReadsTwo ==
  ASSUME NEW a, NEW b, NEW c1, NEW c2, NEW o1, NEW o2,
         Reads(<<a>>, c1, o1, << >>), Reads(<<b>>, c2, o2, << >>)
  PROVE  Reads(<<a, b>>, c1 \o c2, o1 \o o2, << >>)
<1>1. Reads(<<a>> \o <<b>>, c1 \o c2, o1 \o o2, << >> \o << >>)
  BY ReadsConcat
<1>2. <<a>> \o <<b>> = <<a, b>>
  BY EventPairs
<1>3. << >> \o << >> = << >>
  BY EventPairs
<1>4. QED
  BY <1>1, <1>2, <1>3

\* A change of state and the end of the session.
LEMMA ReadsEnd ==
  ASSUME NEW a \in States, NEW b \in States, NEW e \in {SessionFailed, SessionComplete}
  PROVE  Reads(<<StateChange(a, b), e>>, <<StateChange(a, b)>>, << >>, << >>)
<1>1. e \in Events /\ e.event \notin {"state_change", "execute_step", "rollback", "throw"}
  BY EventTypes, KindsOfEvents
<1>2. Reads(<<e>>, << >>, << >>, << >>)
  BY <1>1, ReadsOther
<1>3. Reads(<<StateChange(a, b), e>>, <<StateChange(a, b)>> \o << >>, << >> \o << >>, << >>)
  BY <1>2, ReadsChange, ReadsTwo
<1>4. <<StateChange(a, b)>> \o << >> = <<StateChange(a, b)>> /\ << >> \o << >> = << >>
  BY EventPairs
<1>5. QED
  BY <1>3, <1>4

\* The start of the migration, and every later step after its predecessor.
LEMMA ReadsDispatch ==
  ASSUME NEW n \in Steps
  PROVE  /\ \A m \in Steps :
              Reads(<<StepCompleted(m), ExecuteStep(n)>>, << >>, <<ExecuteStep(n)>>, << >>)
         /\ \A a, b \in States :
              Reads(<<StateChange(a, b), ExecuteStep(n)>>,
                    <<StateChange(a, b)>>, <<ExecuteStep(n)>>, << >>)
<1>1. \A x : /\ << >> \o << >> = << >> /\ << >> \o <<x>> = <<x>> /\ <<x>> \o << >> = <<x>>
  BY EventPairs
<1>2. ASSUME NEW m \in Steps
      PROVE  Reads(<<StepCompleted(m), ExecuteStep(n)>>, << >>, <<ExecuteStep(n)>>, << >>)
  <2>1. Reads(<<StepCompleted(m)>>, << >>, << >>, << >>)
    BY EventTypes, KindsOfEvents, ReadsOther
  <2>2. Reads(<<StepCompleted(m), ExecuteStep(n)>>,
              << >> \o << >>, << >> \o <<ExecuteStep(n)>>, << >>)
    BY <2>1, ReadsStep, ReadsTwo
  <2>3. QED
    BY <1>1, <2>2
<1>3. ASSUME NEW a \in States, NEW b \in States
      PROVE  Reads(<<StateChange(a, b), ExecuteStep(n)>>,
                   <<StateChange(a, b)>>, <<ExecuteStep(n)>>, << >>)
  <2>1. Reads(<<StateChange(a, b), ExecuteStep(n)>>,
              <<StateChange(a, b)>> \o << >>, << >> \o <<ExecuteStep(n)>>, << >>)
    BY ReadsChange, ReadsStep, ReadsTwo
  <2>2. QED
    BY <1>1, <2>1
<1>4. QED
  BY <1>2, <1>3

\* The rollback steps are nothing but rollback steps.
LEMMA ReadsRollback ==
  ASSUME NEW n \in Nat
  PROVE  Reads(RollbackEvents(n), << >>, << >>, RollbackEvents(n))
<1> DEFINE us == RollbackEvents(n)
<1>1. us \in Seq(Rollbacks)
  BY RollbackEventsAre
<1>2. Rollbacks \subseteq Events \ {Thrown}
  BY EventTypes, KindsOfEvents DEF Rollbacks
<1>3. Rollbacks \subseteq {e \in Events : e.event = "rollback"}
  BY EventTypes, KindsOfEvents DEF Rollbacks
<1>4. /\ Rollbacks \cap {e \in Events : e.event = "state_change"} = {}
      /\ Rollbacks \cap {e \in Events : e.event = "execute_step"} = {}
  BY KindsOfEvents DEF Rollbacks
<1> HIDE DEF us
<1>5. us \in Seq(Events \ {Thrown}) /\ us \in Seq({e \in Events : e.event = "rollback"})
  BY <1>1, <1>2, <1>3, SeqMonotonic
<1>6. QED
  BY <1>1, <1>4, <1>5, FilterAll, FilterNone DEF Reads, Occurrences, us

\* A failure without a rollback: one change, and no step of either kind.
LEMMA ReadsFailure ==
  ASSUME NEW before \in Preludes, orch.state \in States, FailsNow(orch, before)
  PROVE  Reads(emitted', <<StateChange(orch.state, "FAILED")>>, << >>, << >>)
<1> DEFINE sc == StateChange(orch.state, "FAILED")
<1>1. Reads(before, << >>, << >>, << >>)
  BY ReadsPrelude
<1>2. Reads(<<sc, SessionFailed>>, <<sc>>, << >>, << >>)
  BY ReadsEnd DEF States
<1>3. emitted' = before \o <<sc, SessionFailed>>
  BY DEF FailsNow
<1> HIDE DEF sc
<1>4. << >> \o <<sc>> = <<sc>> /\ << >> \o << >> = << >>
  BY EventPairs
<1>5. Reads(before \o <<sc, SessionFailed>>, << >> \o <<sc>>, << >> \o << >>, << >> \o << >>)
  BY <1>1, <1>2, ReadsConcat
<1>6. QED
  BY <1>3, <1>4, <1>5 DEF sc

\* A failure by way of the rollback: two changes, and its steps.
LEMMA ReadsRollingBack ==
  ASSUME NEW before \in Preludes, orch.currentStep \in Nat, RollsBack(orch, before)
  PROVE  Reads(emitted',
               <<StateChange("MIGRATING", "ROLLBACK"), StateChange("ROLLBACK", "FAILED")>>,
               << >>, RollbackEvents(orch.currentStep))
<1> DEFINE sc == StateChange("MIGRATING", "ROLLBACK")
           sf == StateChange("ROLLBACK", "FAILED")
           us == RollbackEvents(orch.currentStep)
<1>1. Reads(before, << >>, << >>, << >>)
  BY ReadsPrelude
<1>2. Reads(<<sc>>, <<sc>>, << >>, << >>)
  BY ReadsChange DEF States
<1>3. Reads(us, << >>, << >>, us)
  BY ReadsRollback
<1>4. Reads(<<sf, SessionFailed>>, <<sf>>, << >>, << >>)
  BY ReadsEnd DEF States
<1>5. emitted' = before \o <<sc>> \o us \o <<sf, SessionFailed>>
  BY DEF RollsBack
<1>6. us \in Seq(Events)
  <2>1. Occurrences("rollback", us) \in Seq(Events \cap {e \in Events : e.event = "rollback"})
    BY <1>3, FilterElements, SeqMonotonic DEF Reads, Occurrences
  <2>2. QED
    BY <1>3, SeqMonotonic DEF Reads
<1> HIDE DEF sc, sf, us
<1>7. << >> \o << >> = << >> /\ << >> \o us = us /\ us \o << >> = us
  BY <1>6, EmptySeq, ConcatEmptySeq
<1>8. << >> \o <<sc>> = <<sc>> /\ <<sc>> \o << >> = <<sc>> /\ <<sc>> \o <<sf>> = <<sc, sf>>
  BY EventPairs
<1>9. Reads(before \o <<sc>>, << >> \o <<sc>>, << >> \o << >>, << >> \o << >>)
  BY <1>1, <1>2, ReadsConcat
<1>10. Reads(before \o <<sc>>, <<sc>>, << >>, << >>)
  BY <1>7, <1>8, <1>9
<1>11. Reads(before \o <<sc>> \o us, <<sc>> \o << >>, << >> \o << >>, << >> \o us)
  BY <1>3, <1>10, ReadsConcat
<1>12. Reads(before \o <<sc>> \o us, <<sc>>, << >>, us)
  BY <1>7, <1>8, <1>11
<1>13. Reads(before \o <<sc>> \o us \o <<sf, SessionFailed>>,
             <<sc>> \o <<sf>>, << >> \o << >>, us \o << >>)
  BY <1>4, <1>12, ReadsConcat
<1>14. QED
  BY <1>5, <1>7, <1>8, <1>13 DEF sc, sf, us

\* The end of the ninth step: one change, and no step of either kind.
LEMMA ReadsFinish ==
  ASSUME Finishes(orch)
  PROVE  Reads(emitted', <<StateChange("MIGRATING", "COMPLETE")>>, << >>, << >>)
<1> DEFINE sc == StateChange("MIGRATING", "COMPLETE")
<1>1. TotalSteps \in Steps
  OBVIOUS
<1>2. Reads(<<StepCompleted(TotalSteps)>>, << >>, << >>, << >>)
  BY <1>1, EventTypes, KindsOfEvents, ReadsOther
<1>3. Reads(<<sc, SessionComplete>>, <<sc>>, << >>, << >>)
  BY ReadsEnd DEF States
<1>4. emitted' = <<StepCompleted(TotalSteps), sc, SessionComplete>>
  BY DEF Finishes
<1> HIDE DEF sc
<1>5. << >> \o <<sc>> = <<sc>> /\ << >> \o << >> = << >>
  BY EventPairs
<1>6. Reads(<<StepCompleted(TotalSteps)>> \o <<sc, SessionComplete>>,
            << >> \o <<sc>>, << >> \o << >>, << >> \o << >>)
  BY <1>2, <1>3, ReadsConcat
<1>7. <<StepCompleted(TotalSteps)>> \o <<sc, SessionComplete>>
        = <<StepCompleted(TotalSteps), sc, SessionComplete>>
  BY ListsOfThree
<1>8. QED
  BY <1>4, <1>5, <1>6, <1>7 DEF sc

-----------------------------------------------------------------------------
(* What each call says, in the states a session can be in.                 *)

USE DEF IInv, ObjectOK, Counters, SamePairing, SameProgress, Unchanged, Moved

Says ==
  \/ /\ Silent(orch) /\ orch'.currentStep = orch.currentStep
     /\ orch.state # "MIGRATING" => orch'.stepsCompleted = orch.stepsCompleted
  \/ Changes(orch) /\ orch'.currentStep = orch.currentStep
  \/ /\ \E before \in Preludes : FailsNow(orch, before)
     /\ orch'.currentStep = orch.currentStep /\ orch.currentStep < 2
  \/ /\ \E before \in Preludes : RollsBack(orch, before)
     /\ orch'.currentStep = orch.currentStep
  \/ Dispatches(orch)
  \/ /\ Finishes(orch) /\ orch'.currentStep = orch.currentStep
     /\ orch'.stepsCompleted = TotalSteps

\* An agent's call, or an abort, says one of these things.
LEMMA CallSays ==
  ASSUME IInv, OperatorAbort \/ \E role \in Roles : AgentCalls(role)
  PROVE  Says
<1>1. << >> \in Preludes /\ \A s \in Steps, r \in Roles : <<StepFailedEvent(s, r)>> \in Preludes
  BY DEF Preludes
<1>2. ASSUME NEW role \in Roles, AgentConnected(role) PROVE Says
  BY <1>2, ConnectedSays, ConnectedShape DEF AgentConnected, Says
<1>3. ASSUME NEW role \in Roles, AgentDisconnected(role) PROVE Says
  BY <1>1, <1>3, DisconnectedSays, DisconnectedShape DEF AgentDisconnected, Says
<1>4. ASSUME NEW role \in Roles, SasConfirmed(role) PROVE Says
  BY <1>4, SasSays, SasShape DEF SasConfirmed, Says
<1>5. ASSUME NEW role \in Roles, NEW verdict \in Verdicts, PreflightResult(role, verdict)
      PROVE  Says
  <2>1. /\ SameProgress(orch)
        /\ Silent(orch) \/ Changes(orch) \/ FailsNow(orch, << >>)
        /\ orch.state = "PREFLIGHT" \/ orch'.state = orch.state
    BY <1>5, PreflightSays, PreflightShape DEF PreflightResult
  <2>2. FailsNow(orch, << >>) => orch.state = "PREFLIGHT"
    BY <2>1 DEF FailsNow, AllowedTransitions
  <2>3. orch.state = "PREFLIGHT" => orch.currentStep < 2
    OBVIOUS
  <2>4. QED
    BY <1>1, <2>1, <2>2, <2>3 DEF Says
<1>6. ASSUME NEW role \in Roles, NEW step \in Steps, StepComplete(step, role) PROVE Says
  <2>1. orch.state = "MIGRATING" => orch.stepsCompleted < TotalSteps
    OBVIOUS
  <2>2. \/ Silent(orch) /\ orch'.currentStep = orch.currentStep
        \/ step = orch.currentStep /\ (Dispatches(orch) \/ Finishes(orch))
    BY <1>6, <2>1, StepCompleteSays DEF StepComplete
  <2>3. CASE step = orch.currentStep /\ Finishes(orch)
    <3>1. orch.state = "MIGRATING" /\ orch'.state = "COMPLETE"
      BY <2>3 DEF Finishes
    <3>2. StepReported(orch, step, role)
      BY <1>6, <2>3, <3>1, StepCompleteShape DEF StepComplete
    <3>3. orch'.currentStep = orch.currentStep /\ orch'.stepsCompleted = TotalSteps
      BY <2>3, <3>1, <3>2 DEF StepReported, Waits, Advances
    <3>4. QED
      BY <2>3, <3>3 DEF Says
  <2>4. orch.state # "MIGRATING" => Unchanged(orch)
    BY <1>6, StepCompleteShape DEF StepComplete
  <2>5. QED
    BY <2>2, <2>3, <2>4 DEF Says
<1>7. ASSUME NEW role \in Roles, NEW step \in Steps, StepFailed(step, role) PROVE Says
  BY <1>1, <1>7, StepFailedSays, StepFailedShape DEF StepFailed, Says
<1>8. CASE OperatorAbort
  <2>1. SameProgress(orch) /\ orch.state \in States
    BY <1>8, AbortShape DEF OperatorAbort, Orchestrators
  <2>2. \/ Silent(orch) \/ RollsBack(orch, << >>)
        \/ ~(orch.state = "MIGRATING" /\ orch.currentStep >= 2) /\ FailsNow(orch, << >>)
    BY <1>8, AbortSays DEF OperatorAbort
  <2>3. FailsNow(orch, << >>) => orch.state \notin Terminal
    BY DEF FailsNow, AllowedTransitions
  <2>4. orch.state \notin Terminal \cup {"MIGRATING"} => orch.currentStep = 0
    BY <2>1 DEF States
  <2>5. QED
    BY <1>1, <2>1, <2>2, <2>3, <2>4 DEF Says
<1>9. QED
  BY <1>2, <1>3, <1>4, <1>5, <1>6, <1>7, <1>8 DEF AgentCalls

\* startMigration() says that it threw, or that the migration starts.
LEMMA StartCallSays ==
  ASSUME IInv, OperatorStart
  PROVE  \/ Throws(orch) /\ orch'.currentStep = orch.currentStep
         \/ Starts(orch) /\ orch.currentStep = 0
<1>1. CASE orch.state = "AWAITING_WINDOW"
  BY <1>1, StartSays DEF OperatorStart
<1>2. CASE orch.state # "AWAITING_WINDOW"
  BY <1>2, StartSays, StartShape DEF OperatorStart, Starts
<1>3. QED
  BY <1>1, <1>2

-----------------------------------------------------------------------------
(* Exceptions.                                                             *)

\* What is said has a reading without an exception in it.
LEMMA SaysReads ==
  ASSUME IInv, Says
  PROVE  \E changes, orders, undos : Reads(emitted', changes, orders, undos)
<1>1. orch.state \in States /\ orch.currentStep \in Nat
  BY DEF Orchestrators
<1>2. CASE Silent(orch)
  BY <1>2, ReadsSilent DEF Silent
<1>3. CASE Changes(orch)
  <2>1. orch'.state \in States
    BY <1>3 DEF Changes, States
  <2>2. QED
    BY <1>1, <1>3, <2>1, ReadsChange DEF Changes
<1>4. CASE \E before \in Preludes : FailsNow(orch, before)
  BY <1>1, <1>4, ReadsFailure
<1>5. CASE \E before \in Preludes : RollsBack(orch, before)
  BY <1>1, <1>5, ReadsRollingBack
<1>6. CASE Dispatches(orch)
  <2>1. orch.currentStep \in Steps /\ orch.currentStep + 1 \in Steps
    BY <1>6 DEF Dispatches
  <2>2. QED
    BY <1>6, <2>1, ReadsDispatch DEF Dispatches
<1>7. CASE Finishes(orch)
  BY <1>7, ReadsFinish
<1>8. QED
  BY <1>2, <1>3, <1>4, <1>5, <1>6, <1>7 DEF Says

\* An exception leaves startMigration() only: no report of an agent, no lost
\* socket and no abort asks for a transition the table refuses.
THEOREM OnlyStartThrowsHolds == Spec => OnlyStartThrows
<1> DEFINE NoThrow == (OperatorAbort \/ \E role \in Roles : AgentCalls(role)) =>
                        \A i \in DOMAIN emitted' : emitted'[i] # Thrown
<1>1. IInv /\ [Next]_vars => [NoThrow]_vars
  <2> SUFFICES ASSUME IInv, OperatorAbort \/ \E role \in Roles : AgentCalls(role)
               PROVE  \A i \in DOMAIN emitted' : emitted'[i] # Thrown
    OBVIOUS
  <2>1. emitted' \in Seq(Events \ {Thrown})
    BY CallSays, SaysReads DEF Reads
  <2>2. \A i \in DOMAIN emitted' : emitted'[i] \in Events \ {Thrown}
    BY <2>1, ElementOfSeq, LenProperties
  <2>3. QED
    BY <2>2
<1> HIDE DEF NoThrow
<1>2. Spec => [][NoThrow]_vars
  BY <1>1, Inductive, PTL DEF Spec
<1>3. QED
  BY <1>2 DEF OnlyStartThrows, NoThrow

-----------------------------------------------------------------------------
(* Changes of state.                                                       *)

\* The changes start where the call found the session, chain along edges of
\* the table and end where it leaves it.
Chained(changes) ==
  /\ \A i \in DOMAIN changes :
       /\ changes[i].from = IF i = 1 THEN orch.state ELSE changes[i - 1].to
       /\ <<changes[i].from, changes[i].to>> \in AllowedTransitions
  /\ orch'.state = IF changes = << >> THEN orch.state ELSE changes[Len(changes)].to

\* No change, one and two of them.
LEMMA ChainsOfTwo ==
  /\ orch'.state = orch.state => Chained(<< >>)
  /\ <<orch.state, orch'.state>> \in AllowedTransitions =>
       Chained(<<StateChange(orch.state, orch'.state)>>)
  /\ orch.state = "MIGRATING" /\ orch'.state = "FAILED" =>
       Chained(<<StateChange("MIGRATING", "ROLLBACK"), StateChange("ROLLBACK", "FAILED")>>)
<1>1. orch'.state = orch.state => Chained(<< >>)
  BY DEF Chained
<1>2. ASSUME <<orch.state, orch'.state>> \in AllowedTransitions
      PROVE  Chained(<<StateChange(orch.state, orch'.state)>>)
  BY <1>2 DEF Chained, StateChange
<1>3. ASSUME orch.state = "MIGRATING", orch'.state = "FAILED"
      PROVE  Chained(<<StateChange("MIGRATING", "ROLLBACK"), StateChange("ROLLBACK", "FAILED")>>)
  BY <1>3 DEF Chained, StateChange, AllowedTransitions
<1>4. QED
  BY <1>1, <1>2, <1>3

\* The changes among the events of any call are such a chain.
LEMMA CallChains ==
  ASSUME IInv, Next
  PROVE  Chained(Occurrences("state_change", emitted'))
<1>1. orch.state \in States /\ orch.currentStep \in Nat
  BY DEF Orchestrators
<1>2. ASSUME NEW changes, NEW orders, NEW undos,
             Reads(emitted', changes, orders, undos), Chained(changes)
      PROVE  Chained(Occurrences("state_change", emitted'))
  BY <1>2 DEF Reads
<1>3. CASE Silent(orch)
  BY <1>2, <1>3, ReadsSilent, ChainsOfTwo DEF Silent
<1>4. CASE Changes(orch)
  <2>1. orch'.state \in States
    BY <1>4 DEF Changes, States
  <2>2. QED
    BY <1>1, <1>2, <1>4, <2>1, ReadsChange, ChainsOfTwo DEF Changes
<1>5. CASE \E before \in Preludes : FailsNow(orch, before)
  <2>1. orch'.state = "FAILED" /\ <<orch.state, "FAILED">> \in AllowedTransitions
    BY <1>5 DEF FailsNow
  <2>2. QED
    BY <1>1, <1>2, <1>5, <2>1, ReadsFailure, ChainsOfTwo
<1>6. CASE \E before \in Preludes : RollsBack(orch, before)
  <2>1. orch.state = "MIGRATING" /\ orch'.state = "FAILED"
    BY <1>6 DEF RollsBack
  <2>2. QED
    BY <1>1, <1>2, <1>6, <2>1, ReadsRollingBack, ChainsOfTwo
<1>7. CASE Dispatches(orch)
  <2>1. orch.currentStep \in Steps /\ orch.currentStep + 1 \in Steps
    BY <1>7 DEF Dispatches
  <2>2. QED
    BY <1>2, <1>7, <2>1, ReadsDispatch, ChainsOfTwo DEF Dispatches
<1>8. CASE Finishes(orch)
  <2>1. orch.state = "MIGRATING" /\ orch'.state = "COMPLETE"
    BY <1>8 DEF Finishes
  <2>2. <<"MIGRATING", "COMPLETE">> \in AllowedTransitions
    BY DEF AllowedTransitions
  <2>3. QED
    BY <1>2, <1>8, <2>1, <2>2, ReadsFinish, ChainsOfTwo
<1>9. CASE Throws(orch)
  <2>1. Occurrences("state_change", <<Thrown>>) = << >>
    BY PickOne, EventTypes, KindsOfEvents
  <2>2. QED
    BY <1>9, <2>1, ChainsOfTwo DEF Throws
<1>10. CASE Starts(orch)
  <2>1. orch.state = "AWAITING_WINDOW" /\ orch'.state = "MIGRATING" /\ 1 \in Steps
    BY <1>10 DEF Starts
  <2>2. /\ <<"AWAITING_WINDOW", "MIGRATING">> \in AllowedTransitions
        /\ "AWAITING_WINDOW" \in States /\ "MIGRATING" \in States
    BY DEF AllowedTransitions, States
  <2>3. Reads(<<StateChange("AWAITING_WINDOW", "MIGRATING"), ExecuteStep(1)>>,
              <<StateChange("AWAITING_WINDOW", "MIGRATING")>>, <<ExecuteStep(1)>>, << >>)
    BY <2>1, <2>2, ReadsDispatch
  <2>4. QED
    BY <1>2, <1>10, <2>1, <2>2, <2>3, ChainsOfTwo DEF Starts
<1>11. CASE OperatorStart
  BY <1>9, <1>10, <1>11, StartCallSays
<1>12. QED
  BY <1>3, <1>4, <1>5, <1>6, <1>7, <1>8, <1>11, CallSays DEF Says, Next

\* Whatever is called, the changes of state the listeners are told of start
\* from the state the call found and chain, edge by edge, to the one it leaves.
THEOREM ChangesChainHolds == Spec => ChangesChain
<1> DEFINE changes == Occurrences("state_change", emitted')
           from(i) == IF i = 1 THEN orch.state ELSE changes[i - 1].to
           Chain == /\ \A i \in DOMAIN changes :
                         /\ changes[i].from = from(i)
                         /\ <<changes[i].from, changes[i].to>> \in AllowedTransitions
                    /\ orch'.state = from(Len(changes) + 1)
<1>1. IInv /\ [Next]_vars => [Chain]_vars
  <2> SUFFICES ASSUME IInv, Next PROVE Chain
    OBVIOUS
  <2>1. Chained(changes)
    BY CallChains
  <2>2. changes \in Seq(Events)
    <3>1. emitted' \in Seq(Events)
      BY CallEmits
    <3>2. QED
      BY <3>1, PickEvents
  <2> HIDE DEF changes
  <2>3. Len(changes) \in Nat /\ (changes = << >> <=> Len(changes) = 0)
    BY <2>2, LenProperties, EmptySeq
  <2>4. \A i \in DOMAIN changes :
          /\ changes[i].from = from(i)
          /\ <<changes[i].from, changes[i].to>> \in AllowedTransitions
    BY <2>1 DEF Chained
  <2>5. orch'.state = from(Len(changes) + 1)
    <3>1. orch'.state = IF changes = << >> THEN orch.state ELSE changes[Len(changes)].to
      BY <2>1 DEF Chained
    <3>2. /\ (Len(changes) + 1) - 1 = Len(changes)
          /\ Len(changes) + 1 = 1 <=> changes = << >>
      BY <2>3
    <3>3. QED
      BY <3>1, <3>2
  <2>6. QED
    BY <2>4, <2>5
<1> HIDE DEF Chain
<1>2. Spec => [][Chain]_vars
  BY <1>1, Inductive, PTL DEF Spec
<1>3. QED
  BY <1>2 DEF ChangesChain, Chain

-----------------------------------------------------------------------------
(* Steps and rollback steps.                                               *)

\* What has been dispatched to the agents so far.
Told ==
  /\ dispatched = [i \in 1 .. orch.currentStep |-> i]
  /\ rolledBack = IF orch.state = "FAILED" /\ orch.currentStep >= 2
                  THEN RollbackSequence ELSE << >>
  /\ orch.state = "COMPLETE" =>
       orch.currentStep = TotalSteps /\ orch.stepsCompleted = TotalSteps

\* A list of events without steps adds none; a list with one adds its number;
\* the rollback adds the names of its steps.
LEMMA ReadingsDispatched ==
  ASSUME NEW events, NEW changes
  PROVE  /\ Reads(events, changes, << >>, << >>) =>
              StepsIn(events) = << >> /\ RollbacksIn(events) = << >>
         /\ \A n \in Steps : Reads(events, changes, <<ExecuteStep(n)>>, << >>) =>
              StepsIn(events) = <<n>> /\ RollbacksIn(events) = << >>
         /\ \A n \in Nat : Reads(events, changes, << >>, RollbackEvents(n)) =>
              /\ StepsIn(events) = << >>
              /\ RollbacksIn(events) = IF n >= 2 THEN RollbackSequence ELSE << >>
<1>1. [i \in DOMAIN << >> |-> << >>[i].step] = << >> /\ [i \in DOMAIN << >> |-> << >>[i].name] = << >>
  OBVIOUS
<1>2. ASSUME NEW n \in Steps
      PROVE  [i \in DOMAIN <<ExecuteStep(n)>> |-> <<ExecuteStep(n)>>[i].step] = <<n>>
  BY DEF ExecuteStep
<1>3. ASSUME NEW n \in Nat
      PROVE  [i \in DOMAIN RollbackEvents(n) |-> RollbackEvents(n)[i].name]
               = IF n >= 2 THEN RollbackSequence ELSE << >>
  <2>1. CASE n >= 2
    <3>1. RollbackEvents(n) = [i \in 1 .. 4 |-> Rollback(RollbackSequence[i])]
      BY <2>1 DEF RollbackEvents, GetRollbackSteps, ShouldRollback, RollbackSequence
    <3>2. [i \in DOMAIN RollbackEvents(n) |-> RollbackEvents(n)[i].name]
            = [i \in 1 .. 4 |-> RollbackSequence[i]]
      BY <3>1 DEF Rollback
    <3>3. RollbackSequence = [i \in 1 .. 4 |-> RollbackSequence[i]]
      BY DEF RollbackSequence
    <3>4. QED
      BY <2>1, <3>2, <3>3
  <2>2. CASE ~(n >= 2)
    <3>1. RollbackEvents(n) = << >>
      BY <2>2 DEF RollbackEvents, GetRollbackSteps, ShouldRollback
    <3>2. QED
      BY <1>1, <2>2, <3>1
  <2>3. QED
    BY <2>1, <2>2
<1>4. ASSUME Reads(events, changes, << >>, << >>)
      PROVE  StepsIn(events) = << >> /\ RollbacksIn(events) = << >>
  BY <1>1, <1>4 DEF Reads, StepsIn, RollbacksIn
<1>5. ASSUME NEW n \in Steps, Reads(events, changes, <<ExecuteStep(n)>>, << >>)
      PROVE  StepsIn(events) = <<n>> /\ RollbacksIn(events) = << >>
  BY <1>1, <1>2, <1>5 DEF Reads, StepsIn, RollbacksIn
<1>6. ASSUME NEW n \in Nat, Reads(events, changes, << >>, RollbackEvents(n))
      PROVE  /\ StepsIn(events) = << >>
             /\ RollbacksIn(events) = IF n >= 2 THEN RollbackSequence ELSE << >>
  BY <1>1, <1>3, <1>6 DEF Reads, StepsIn, RollbacksIn
<1>7. QED
  BY <1>4, <1>5, <1>6

\* A call that dispatches nothing leaves what has been dispatched.
LEMMA NothingTold ==
  ASSUME Told, Record, orch.currentStep \in Nat,
         orch'.currentStep = orch.currentStep,
         orch'.state = "FAILED" /\ orch.currentStep >= 2 => orch.state = "FAILED",
         orch.state = "FAILED" => orch'.state = "FAILED",
         orch'.state = "COMPLETE" =>
           orch'.stepsCompleted = TotalSteps /\ orch'.currentStep = TotalSteps,
         StepsIn(emitted') = << >>, RollbacksIn(emitted') = << >>
  PROVE  Told'
<1>1. dispatched \in Seq(Nat) /\ rolledBack \in Seq(RollbackNames)
  <2>1. RollbackSequence \in Seq(RollbackNames)
    BY DEF RollbackSequence, RollbackNames
  <2>2. [i \in 1 .. orch.currentStep |-> i] \in Seq(Nat)
    BY IsASeq
  <2>3. QED
    BY <2>1, <2>2, EmptySeq DEF Told
<1>2. dispatched' = dispatched /\ rolledBack' = rolledBack
  BY <1>1, ConcatEmptySeq DEF Record
<1>3. QED
  BY <1>2 DEF Told

\* A call that dispatches the step after the current one.
LEMMA OneMoreTold ==
  ASSUME Told, Record, orch.currentStep \in Nat,
         orch'.currentStep = orch.currentStep + 1,
         orch.state # "FAILED", orch'.state = "MIGRATING",
         StepsIn(emitted') = <<orch.currentStep + 1>>, RollbacksIn(emitted') = << >>
  PROVE  Told'
<1> DEFINE n == orch.currentStep
           s == [i \in 1 .. n |-> i]
<1>1. s \in Seq(Nat) /\ Len(s) = n
  BY IsASeq
<1>2. [i \in 1 .. n + 1 |-> i] = Append(s, n + 1)
  BY <1>1
<1>3. Append(s, n + 1) = s \o <<n + 1>>
  BY <1>1, AppendIsConcat
<1>4. dispatched = s /\ rolledBack = << >>
  BY DEF Told
<1>5. dispatched' = [i \in 1 .. n + 1 |-> i]
  BY <1>2, <1>3, <1>4 DEF Record
<1>6. rolledBack' = << >>
  BY <1>4, EventPairs DEF Record
<1>7. QED
  BY <1>5, <1>6 DEF Told

\* An agent's call, or an abort, keeps the list of steps in order and the
\* rollback in its place.
LEMMA CallTold ==
  ASSUME IInv, Told, Says, Record
  PROVE  Told'
<1>1. orch.state \in States /\ orch.currentStep \in Nat
  BY DEF Orchestrators
<1>2. CASE /\ Silent(orch) /\ orch'.currentStep = orch.currentStep
           /\ orch.state # "MIGRATING" => orch'.stepsCompleted = orch.stepsCompleted
  <2>1. StepsIn(emitted') = << >> /\ RollbacksIn(emitted') = << >>
    BY <1>2, ReadsSilent, ReadingsDispatched DEF Silent
  <2>2. orch'.state = orch.state
    BY <1>2 DEF Silent
  <2>3. orch.state = "COMPLETE" => orch.stepsCompleted = TotalSteps /\ orch.currentStep = TotalSteps
    BY DEF Told
  <2>4. QED
    BY <1>1, <1>2, <2>1, <2>2, <2>3, NothingTold
<1>3. CASE Changes(orch) /\ orch'.currentStep = orch.currentStep
  <2>1. orch'.state \in States \ {"FAILED", "COMPLETE"} /\ orch.state # "FAILED"
    BY <1>3 DEF Changes, States, AllowedTransitions
  <2>2. StepsIn(emitted') = << >> /\ RollbacksIn(emitted') = << >>
    BY <1>1, <1>3, <2>1, ReadsChange, ReadingsDispatched DEF Changes
  <2>3. QED
    BY <1>1, <1>3, <2>1, <2>2, NothingTold
<1>4. CASE /\ \E before \in Preludes : FailsNow(orch, before)
           /\ orch'.currentStep = orch.currentStep /\ orch.currentStep < 2
  <2>1. orch'.state = "FAILED"
    BY <1>4 DEF FailsNow
  <2>2. StepsIn(emitted') = << >> /\ RollbacksIn(emitted') = << >>
    BY <1>1, <1>4, ReadsFailure, ReadingsDispatched
  <2>3. QED
    BY <1>1, <1>4, <2>1, <2>2, NothingTold
<1>5. CASE /\ \E before \in Preludes : RollsBack(orch, before)
           /\ orch'.currentStep = orch.currentStep
  <2>1. orch.state = "MIGRATING" /\ orch'.state = "FAILED"
    BY <1>5 DEF RollsBack
  <2>2. /\ StepsIn(emitted') = << >>
        /\ RollbacksIn(emitted') = IF orch.currentStep >= 2 THEN RollbackSequence ELSE << >>
    BY <1>1, <1>5, ReadsRollingBack, ReadingsDispatched
  <2>3. rolledBack = << >> /\ dispatched = [i \in 1 .. orch.currentStep |-> i]
    BY <2>1 DEF Told
  <2>4. dispatched \in Seq(Nat) /\ RollbackSequence \in Seq(RollbackNames)
    <3>1. [i \in 1 .. orch.currentStep |-> i] \in Seq(Nat)
      BY <1>1, IsASeq
    <3>2. QED
      BY <2>3, <3>1 DEF RollbackSequence, RollbackNames
  <2>5. dispatched' = dispatched
    BY <2>2, <2>4, ConcatEmptySeq DEF Record
  <2>6. rolledBack' = IF orch.currentStep >= 2 THEN RollbackSequence ELSE << >>
    BY <2>2, <2>3, <2>4, ConcatEmptySeq, EventPairs DEF Record
  <2>7. QED
    BY <1>5, <2>1, <2>3, <2>5, <2>6 DEF Told
<1>6. CASE Dispatches(orch)
  <2>1. /\ orch.state = "MIGRATING" /\ orch'.state = "MIGRATING"
        /\ orch.currentStep \in Steps /\ orch.currentStep + 1 \in Steps
        /\ orch'.currentStep = orch.currentStep + 1
        /\ emitted' = <<StepCompleted(orch.currentStep), ExecuteStep(orch.currentStep + 1)>>
    BY <1>6 DEF Dispatches
  <2>2. StepsIn(emitted') = <<orch.currentStep + 1>> /\ RollbacksIn(emitted') = << >>
    <3>1. Reads(emitted', << >>, <<ExecuteStep(orch.currentStep + 1)>>, << >>)
      BY <2>1, ReadsDispatch
    <3>2. QED
      BY <2>1, <3>1, ReadingsDispatched
  <2>3. QED
    BY <1>1, <2>1, <2>2, OneMoreTold DEF Told
<1>7. CASE /\ Finishes(orch) /\ orch'.currentStep = orch.currentStep
           /\ orch'.stepsCompleted = TotalSteps
  <2>1. /\ orch.state = "MIGRATING" /\ orch'.state = "COMPLETE"
        /\ orch.currentStep = TotalSteps
    BY <1>7 DEF Finishes
  <2>2. StepsIn(emitted') = << >> /\ RollbacksIn(emitted') = << >>
    BY <1>7, ReadsFinish, ReadingsDispatched
  <2>3. QED
    BY <1>1, <1>7, <2>1, <2>2, NothingTold
<1>8. QED
  BY <1>2, <1>3, <1>4, <1>5, <1>6, <1>7 DEF Says

\* startMigration() puts step 1 first, or dispatches nothing.
LEMMA StartTold ==
  ASSUME IInv, Told, OperatorStart
  PROVE  Told'
<1>1. orch.currentStep \in Nat /\ Record
  BY DEF Orchestrators, OperatorStart
<1>2. CASE Throws(orch) /\ orch'.currentStep = orch.currentStep
  <2>1. orch'.state = orch.state
    BY <1>2 DEF Throws
  <2>2. StepsIn(emitted') = << >> /\ RollbacksIn(emitted') = << >>
    <3>1. /\ Occurrences("execute_step", emitted') = << >>
          /\ Occurrences("rollback", emitted') = << >>
      BY <1>2, PickOne, EventTypes, KindsOfEvents DEF Throws
    <3>2. QED
      BY <3>1 DEF StepsIn, RollbacksIn
  <2>3. orch.state = "COMPLETE" => orch'.stepsCompleted = TotalSteps /\ orch'.currentStep = TotalSteps
    BY <1>2, StartShape DEF Told, OperatorStart
  <2>4. QED
    BY <1>1, <1>2, <2>1, <2>2, <2>3, NothingTold
<1>3. CASE Starts(orch) /\ orch.currentStep = 0
  <2>1. /\ orch.state = "AWAITING_WINDOW" /\ orch'.state = "MIGRATING"
        /\ orch'.currentStep = orch.currentStep + 1 /\ 1 \in Steps
        /\ emitted' = <<StateChange("AWAITING_WINDOW", "MIGRATING"), ExecuteStep(1)>>
    BY <1>3 DEF Starts
  <2>2. "AWAITING_WINDOW" \in States /\ "MIGRATING" \in States
    BY DEF States
  <2>3. StepsIn(emitted') = <<1>> /\ RollbacksIn(emitted') = << >>
    <3>1. Reads(emitted', <<StateChange("AWAITING_WINDOW", "MIGRATING")>>,
                <<ExecuteStep(1)>>, << >>)
      BY <2>1, <2>2, ReadsDispatch
    <3>2. QED
      BY <2>1, <3>1, ReadingsDispatched
  <2>4. QED
    BY <1>1, <1>3, <2>1, <2>3, OneMoreTold DEF Told
<1>4. QED
  BY <1>2, <1>3, StartCallSays

\* What has been dispatched follows the session in every reachable state.
LEMMA ToldHolds == Spec => []Told
<1>1. Init => Told
  <2>1. [i \in 1 .. 0 |-> i] = << >>
    OBVIOUS
  <2>2. QED
    BY <2>1 DEF Init, Told, Fresh
<1>2. IInv /\ Told /\ [Next]_vars => Told'
  <2> SUFFICES ASSUME IInv, Told, [Next]_vars PROVE Told'
    OBVIOUS
  <2>1. CASE OperatorAbort
    BY <2>1, CallSays, CallTold DEF OperatorAbort
  <2>2. CASE \E role \in Roles : AgentCalls(role)
    <3>1. Record
      BY <2>2 DEF AgentCalls, AgentConnected, AgentDisconnected, SasConfirmed,
                  PreflightResult, StepComplete, StepFailed
    <3>2. QED
      BY <2>2, <3>1, CallSays, CallTold
  <2>3. CASE OperatorStart
    BY <2>3, StartTold
  <2>4. CASE UNCHANGED vars
    BY <2>4 DEF vars, history, Told
  <2>5. QED
    BY <2>1, <2>2, <2>3, <2>4 DEF Next
<1>3. QED
  BY <1>1, <1>2, Inductive, PTL DEF Spec

\* However the reports repeat or are misdirected, the agents are sent each
\* step up to the current one exactly once and in order, and a completed
\* session has counted nine.
THEOREM StepsInOrderHolds == Spec => []StepsInOrder
<1>1. Told => StepsInOrder
  BY DEF Told, StepsInOrder
<1>2. QED
  BY <1>1, ToldHolds, PTL

\* However a session fails, the agents are sent the whole rollback, once and
\* in order, if step 2 was ever dispatched, and nothing of it otherwise.
THEOREM RollbackHolds == Spec => []RollbackIffDeactivated
<1>1. IInv /\ Told => RollbackIffDeactivated
  <2> SUFFICES ASSUME IInv, Told PROVE RollbackIffDeactivated
    OBVIOUS
  <2>1. orch.currentStep \in Nat
    BY DEF Orchestrators
  <2>2. (\E i \in DOMAIN dispatched : dispatched[i] = 2) <=> orch.currentStep >= 2
    BY <2>1 DEF Told
  <2>3. QED
    BY <2>2 DEF Told, RollbackIffDeactivated
<1>2. QED
  BY <1>1, Inductive, ToldHolds, PTL
=============================================================================
