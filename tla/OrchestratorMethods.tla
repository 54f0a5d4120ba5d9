------------------------- MODULE OrchestratorMethods -------------------------
(***************************************************************************)
(* What each method of the orchestrator does to the object it is called on *)
(* and which events it emits, for every object: the facts that the proofs  *)
(* about the orchestrator alone and about the systems built on it share.   *)
(***************************************************************************)
EXTENDS Orchestrator, SequenceTheorems, TLAPS

USE DEF Roles, Terminal, BilateralSteps, Steps, TotalSteps, IsTerminal

-----------------------------------------------------------------------------
(* Updating one field of an object leaves the others as they were.         *)

\* Assigning the state (transition()) touches no other field.
LEMMA PutState ==
  ASSUME NEW o \in Orchestrators, NEW s \in States
  PROVE  LET p == [o EXCEPT !.state = s] IN
         /\ p \in Orchestrators /\ p.state = s
         /\ p.agents = o.agents /\ p.sas = o.sas /\ p.preflight = o.preflight
         /\ p.currentStep = o.currentStep /\ p.stepsCompleted = o.stepsCompleted
         /\ p.acks = o.acks
  BY DEF Orchestrators

\* Marking an agent connected or gone touches no other field.
LEMMA PutAgent ==
  ASSUME NEW o \in Orchestrators, NEW r \in Roles, NEW b \in BOOLEAN
  PROVE  LET p == [o EXCEPT !.agents[r] = b] IN
         /\ p \in Orchestrators /\ p.agents = [o.agents EXCEPT ![r] = b]
         /\ p.state = o.state /\ p.sas = o.sas /\ p.preflight = o.preflight
         /\ p.currentStep = o.currentStep /\ p.stepsCompleted = o.stepsCompleted
         /\ p.acks = o.acks
  BY DEF Orchestrators

\* Clearing the confirmations and the reports leaves none of either, and
\* the rest of the object as it was.
LEMMA PutReset ==
  ASSUME NEW o \in Orchestrators
  PROVE  LET p == [o EXCEPT !.sas = Fresh.sas, !.preflight = Fresh.preflight] IN
         /\ p \in Orchestrators
         /\ \A r \in Roles : ~p.sas[r] /\ p.preflight[r] = "none"
         /\ p.state = o.state /\ p.agents = o.agents
         /\ p.currentStep = o.currentStep /\ p.stepsCompleted = o.stepsCompleted
         /\ p.acks = o.acks
  BY DEF Orchestrators, Fresh, Verdicts

\* Recording a confirmation touches no other field.
LEMMA PutSas ==
  ASSUME NEW o \in Orchestrators, NEW r \in Roles
  PROVE  LET p == [o EXCEPT !.sas[r] = TRUE] IN
         /\ p \in Orchestrators /\ p.sas = [o.sas EXCEPT ![r] = TRUE]
         /\ p.state = o.state /\ p.agents = o.agents /\ p.preflight = o.preflight
         /\ p.currentStep = o.currentStep /\ p.stepsCompleted = o.stepsCompleted
         /\ p.acks = o.acks
  BY DEF Orchestrators

\* Setting currentStep touches no other field.
LEMMA PutStep ==
  ASSUME NEW o \in Orchestrators, NEW n \in 0 .. TotalSteps
  PROVE  LET p == [o EXCEPT !.currentStep = n] IN
         /\ p \in Orchestrators /\ p.currentStep = n
         /\ p.state = o.state /\ p.agents = o.agents /\ p.sas = o.sas
         /\ p.preflight = o.preflight /\ p.stepsCompleted = o.stepsCompleted
         /\ p.acks = o.acks
  BY DEF Orchestrators

\* Counting a completed step touches no other field, and below the last
\* step the count keeps its type.
LEMMA PutDone ==
  ASSUME NEW o \in Orchestrators, o.stepsCompleted < TotalSteps
  PROVE  LET p == [o EXCEPT !.stepsCompleted = @ + 1] IN
         /\ p \in Orchestrators /\ p.stepsCompleted = o.stepsCompleted + 1
         /\ p.state = o.state /\ p.agents = o.agents /\ p.sas = o.sas
         /\ p.preflight = o.preflight /\ p.currentStep = o.currentStep
         /\ p.acks = o.acks
  BY DEF Orchestrators

\* Assigning the acknowledgements of a bilateral step touches no other field.
LEMMA PutAcks ==
  ASSUME NEW o \in Orchestrators, NEW s \in BilateralSteps, NEW R \in SUBSET Roles
  PROVE  LET p == [o EXCEPT !.acks[s] = R] IN
         /\ p \in Orchestrators /\ p.acks = [o.acks EXCEPT ![s] = R]
         /\ p.state = o.state /\ p.agents = o.agents /\ p.sas = o.sas
         /\ p.preflight = o.preflight /\ p.currentStep = o.currentStep
         /\ p.stepsCompleted = o.stepsCompleted
  BY DEF Orchestrators

-----------------------------------------------------------------------------
(* What each method does to the object, field by field.                    *)

SamePairing(o) ==
  orch'.agents = o.agents /\ orch'.sas = o.sas /\ orch'.preflight = o.preflight

SameProgress(o) ==
  /\ orch'.currentStep = o.currentStep
  /\ orch'.stepsCompleted = o.stepsCompleted
  /\ orch'.acks = o.acks

Unchanged(o) ==
  orch' \in Orchestrators /\ orch'.state = o.state /\ SamePairing(o) /\ SameProgress(o)

Moved(o, to) ==
  orch' \in Orchestrators /\ orch'.state = to /\ SamePairing(o) /\ SameProgress(o)

\* Along an edge of the table transition() changes the state alone.
LEMMA TransitionShape ==
  ASSUME NEW o \in Orchestrators, NEW to \in States, NEW before, NEW after,
         <<o.state, to>> \in AllowedTransitions, Transition(o, to, before, after)
  PROVE  Moved(o, to)
<1>1. orch' = [o EXCEPT !.state = to]
  BY DEF Transition, Return, AllowedTransitions
<1>2. QED
  BY <1>1, PutState DEF Moved, SamePairing, SameProgress

\* beginRollback() takes a migrating session to FAILED before it returns and
\* changes nothing else of the object.
LEMMA RollbackShape ==
  ASSUME NEW o \in Orchestrators, NEW before, o.state = "MIGRATING",
         BeginRollback(o, before)
  PROVE  Moved(o, "FAILED")
<1>1. orch' = [o EXCEPT !.state = "FAILED"]
  BY DEF BeginRollback, Return, AllowedTransitions
<1>2. "FAILED" \in States
  BY DEF States
<1>3. QED
  BY <1>1, <1>2, PutState DEF Moved, SamePairing, SameProgress

\* A method that only emits leaves the object alone.
LEMMA ReturnShape ==
  ASSUME NEW o \in Orchestrators, NEW events, Return(o, events)
  PROVE  Unchanged(o)
  BY DEF Return, Unchanged, SamePairing, SameProgress

\* abort() ignores a session that has ended and fails any other.
LEMMA AbortShape ==
  ASSUME NEW o \in Orchestrators, o.state # "ROLLBACK", Abort(o)
  PROVE  \/ o.state \in Terminal /\ Unchanged(o)
         \/ o.state \notin Terminal /\ Moved(o, "FAILED")
<1>1. o.state \in States /\ "FAILED" \in States
  BY DEF Orchestrators, States
<1>2. CASE o.state \in Terminal
  BY <1>2, ReturnShape DEF Abort
<1>3. CASE o.state = "MIGRATING" /\ ShouldRollback(o.currentStep)
  BY <1>3, RollbackShape DEF Abort
<1>4. CASE o.state \notin Terminal /\ ~(o.state = "MIGRATING" /\ ShouldRollback(o.currentStep))
  <2>1. <<o.state, "FAILED">> \in AllowedTransitions
    BY <1>1, <1>4 DEF AllowedTransitions, States
  <2>2. QED
    BY <1>1, <1>4, <2>1, TransitionShape DEF Abort
<1>5. QED
  BY <1>2, <1>3, <1>4

\* startMigration() either throws without effect or starts step 1.
LEMMA StartShape ==
  ASSUME NEW o \in Orchestrators, StartMigration(o)
  PROVE  \/ o.state # "AWAITING_WINDOW" /\ Unchanged(o)
         \/ /\ o.state = "AWAITING_WINDOW" /\ orch'.state = "MIGRATING"
            /\ orch' \in Orchestrators /\ SamePairing(o)
            /\ orch'.currentStep = 1
            /\ orch'.stepsCompleted = o.stepsCompleted /\ orch'.acks = o.acks
<1>1. CASE o.state # "AWAITING_WINDOW"
  BY <1>1, ReturnShape DEF StartMigration
<1>2. CASE o.state = "AWAITING_WINDOW"
  <2> DEFINE p == [o EXCEPT !.currentStep = 1]
  <2>1. 1 \in 0 .. TotalSteps
    OBVIOUS
  <2>2. /\ p \in Orchestrators /\ p.currentStep = 1 /\ p.state = o.state
        /\ p.agents = o.agents /\ p.sas = o.sas /\ p.preflight = o.preflight
        /\ p.stepsCompleted = o.stepsCompleted /\ p.acks = o.acks
    BY <2>1, PutStep
  <2>3. Transition(p, "MIGRATING", << >>, <<ExecuteStep(1)>>)
    BY <1>2 DEF StartMigration
  <2> HIDE DEF p
  <2>4. Moved(p, "MIGRATING")
    <3>1. <<p.state, "MIGRATING">> \in AllowedTransitions /\ "MIGRATING" \in States
      BY <1>2, <2>2 DEF AllowedTransitions, States
    <3>2. QED
      BY <2>2, <2>3, <3>1, TransitionShape
  <2>5. QED
    BY <1>2, <2>2, <2>4 DEF Moved, SamePairing, SameProgress
<1>3. QED
  BY <1>1, <1>2

\* onAgentConnected() marks the agent, and enters PAIRING only from IDLE with
\* both agents there.
LEMMA ConnectedShape ==
  ASSUME NEW o \in Orchestrators, NEW role \in Roles, OnAgentConnected(o, role)
  PROVE  /\ orch' \in Orchestrators /\ SameProgress(o)
         /\ orch'.agents = [o.agents EXCEPT ![role] = TRUE]
         /\ orch'.sas = o.sas /\ orch'.preflight = o.preflight
         /\ \/ orch'.state = o.state
            \/ /\ o.state = "IDLE" /\ orch'.state = "PAIRING"
               /\ \A r \in Roles : orch'.agents[r]
<1> DEFINE p == [o EXCEPT !.agents[role] = TRUE]
<1>1. /\ p \in Orchestrators /\ p.agents = [o.agents EXCEPT ![role] = TRUE]
      /\ p.state = o.state /\ p.sas = o.sas /\ p.preflight = o.preflight
      /\ p.currentStep = o.currentStep /\ p.stepsCompleted = o.stepsCompleted
      /\ p.acks = o.acks
  BY PutAgent
<1>2. \/ Return(p, << >>)
      \/ /\ o.state = "IDLE" /\ \A r \in Roles : p.agents[r]
         /\ Transition(p, "PAIRING", << >>, << >>)
  BY DEF OnAgentConnected
<1> HIDE DEF p
<1>3. CASE Return(p, << >>)
  BY <1>1, <1>3, ReturnShape DEF Unchanged, SamePairing, SameProgress
<1>4. CASE /\ o.state = "IDLE" /\ \A r \in Roles : p.agents[r]
           /\ Transition(p, "PAIRING", << >>, << >>)
  <2>1. <<p.state, "PAIRING">> \in AllowedTransitions /\ "PAIRING" \in States
    BY <1>1, <1>4 DEF AllowedTransitions, States
  <2>2. Moved(p, "PAIRING")
    BY <1>1, <1>4, <2>1, TransitionShape
  <2>3. QED
    BY <1>1, <1>4, <2>2 DEF Moved, SamePairing, SameProgress
<1>5. QED
  BY <1>2, <1>3, <1>4

\* onAgentDisconnected() clears the confirmations and reports when it leaves
\* PAIRING or PREFLIGHT, and may otherwise only fail a migration.
LEMMA DisconnectedShape ==
  ASSUME NEW o \in Orchestrators, NEW role \in Roles, OnAgentDisconnected(o, role)
  PROVE  /\ orch' \in Orchestrators /\ SameProgress(o)
         /\ orch'.agents = [o.agents EXCEPT ![role] = FALSE]
         /\ \/ /\ o.state \in {"PAIRING", "PREFLIGHT"} /\ orch'.state = "IDLE"
               /\ \A r \in Roles : ~orch'.sas[r] /\ orch'.preflight[r] = "none"
            \/ /\ o.state \notin {"PAIRING", "PREFLIGHT"}
               /\ \/ orch'.state = o.state
                  \/ o.state = "MIGRATING" /\ orch'.state = "FAILED"
               /\ orch'.sas = o.sas /\ orch'.preflight = o.preflight
<1> DEFINE p == [o EXCEPT !.agents[role] = FALSE]
           q == [p EXCEPT !.sas = Fresh.sas, !.preflight = Fresh.preflight]
<1>1. /\ p \in Orchestrators /\ p.agents = [o.agents EXCEPT ![role] = FALSE]
      /\ p.state = o.state /\ p.sas = o.sas /\ p.preflight = o.preflight
      /\ p.currentStep = o.currentStep /\ p.stepsCompleted = o.stepsCompleted
      /\ p.acks = o.acks
  BY PutAgent
<1>2. \/ o.state \in {"PAIRING", "PREFLIGHT"} /\ Transition(q, "IDLE", << >>, << >>)
      \/ o.state = "MIGRATING" /\ BeginRollback(p, << >>)
      \/ /\ o.state \notin {"PAIRING", "PREFLIGHT"}
         /\ Return(p, <<CriticalAlert>>) \/ Return(p, << >>)
  BY DEF OnAgentDisconnected
<1> HIDE DEF p
<1>3. /\ q \in Orchestrators
      /\ \A r \in Roles : ~q.sas[r] /\ q.preflight[r] = "none"
      /\ q.state = p.state /\ q.agents = p.agents
      /\ q.currentStep = p.currentStep /\ q.stepsCompleted = p.stepsCompleted
      /\ q.acks = p.acks
  BY <1>1, PutReset
<1> HIDE DEF q
<1>4. CASE o.state \in {"PAIRING", "PREFLIGHT"} /\ Transition(q, "IDLE", << >>, << >>)
  <2>1. <<q.state, "IDLE">> \in AllowedTransitions /\ "IDLE" \in States
    BY <1>1, <1>3, <1>4 DEF AllowedTransitions, States
  <2>2. Moved(q, "IDLE")
    BY <1>3, <1>4, <2>1, TransitionShape
  <2>3. QED
    BY <1>1, <1>3, <1>4, <2>2 DEF Moved, SamePairing, SameProgress
<1>5. CASE o.state = "MIGRATING" /\ BeginRollback(p, << >>)
  <2>1. Moved(p, "FAILED")
    BY <1>1, <1>5, RollbackShape
  <2>2. QED
    BY <1>1, <1>5, <2>1 DEF Moved, SamePairing, SameProgress
<1>6. CASE /\ o.state \notin {"PAIRING", "PREFLIGHT"}
           /\ Return(p, <<CriticalAlert>>) \/ Return(p, << >>)
  BY <1>1, <1>6, ReturnShape DEF Unchanged, SamePairing, SameProgress
<1>7. QED
  BY <1>2, <1>4, <1>5, <1>6

\* onSasConfirmed() counts in PAIRING only, and lets a session into PREFLIGHT
\* only with both confirmations.
LEMMA SasShape ==
  ASSUME NEW o \in Orchestrators, NEW role \in Roles, OnSasConfirmed(o, role)
  PROVE  /\ orch' \in Orchestrators /\ SameProgress(o)
         /\ orch'.agents = o.agents /\ orch'.preflight = o.preflight
         /\ \/ o.state # "PAIRING" /\ orch'.state = o.state /\ orch'.sas = o.sas
            \/ /\ o.state = "PAIRING" /\ orch'.sas = [o.sas EXCEPT ![role] = TRUE]
               /\ \/ orch'.state = "PAIRING"
                  \/ orch'.state = "PREFLIGHT" /\ \A r \in Roles : orch'.sas[r]
<1> DEFINE p == [o EXCEPT !.sas[role] = TRUE]
<1>1. /\ p \in Orchestrators /\ p.sas = [o.sas EXCEPT ![role] = TRUE]
      /\ p.state = o.state /\ p.agents = o.agents /\ p.preflight = o.preflight
      /\ p.currentStep = o.currentStep /\ p.stepsCompleted = o.stepsCompleted
      /\ p.acks = o.acks
  BY PutSas
<1>2. \/ o.state # "PAIRING" /\ Return(o, << >>)
      \/ /\ o.state = "PAIRING" /\ \A r \in Roles : p.sas[r]
         /\ Transition(p, "PREFLIGHT", << >>, << >>)
      \/ o.state = "PAIRING" /\ Return(p, << >>)
  BY DEF OnSasConfirmed
<1> HIDE DEF p
<1>3. CASE o.state # "PAIRING" /\ Return(o, << >>)
  BY <1>3, ReturnShape DEF Unchanged, SamePairing, SameProgress
<1>4. CASE /\ o.state = "PAIRING" /\ \A r \in Roles : p.sas[r]
           /\ Transition(p, "PREFLIGHT", << >>, << >>)
  <2>1. <<p.state, "PREFLIGHT">> \in AllowedTransitions /\ "PREFLIGHT" \in States
    BY <1>1, <1>4 DEF AllowedTransitions, States
  <2>2. Moved(p, "PREFLIGHT")
    BY <1>1, <1>4, <2>1, TransitionShape
  <2>3. QED
    BY <1>1, <1>4, <2>2 DEF Moved, SamePairing, SameProgress
<1>5. CASE o.state = "PAIRING" /\ Return(p, << >>)
  BY <1>1, <1>5, ReturnShape DEF Unchanged, SamePairing, SameProgress
<1>6. QED
  BY <1>2, <1>3, <1>4, <1>5

\* onPreflightResult() counts in PREFLIGHT only, and opens the window only
\* when both reports passed.
LEMMA PreflightShape ==
  ASSUME NEW o \in Orchestrators, NEW role \in Roles, NEW verdict \in Verdicts,
         OnPreflightResult(o, role, verdict)
  PROVE  /\ orch' \in Orchestrators /\ SameProgress(o)
         /\ orch'.agents = o.agents /\ orch'.sas = o.sas
         /\ \/ o.state # "PREFLIGHT" /\ Unchanged(o)
            \/ /\ o.state = "PREFLIGHT"
               /\ orch'.preflight = [o.preflight EXCEPT ![role] = verdict]
               /\ \/ orch'.state \in {"PREFLIGHT", "FAILED"}
                  \/ /\ orch'.state = "AWAITING_WINDOW"
                     /\ \A r \in Roles : orch'.preflight[r] = "ok"
<1> DEFINE p == [o EXCEPT !.preflight[role] = verdict]
<1>1. /\ p \in Orchestrators /\ p.preflight = [o.preflight EXCEPT ![role] = verdict]
      /\ p.state = o.state /\ p.agents = o.agents /\ p.sas = o.sas
      /\ p.currentStep = o.currentStep /\ p.stepsCompleted = o.stepsCompleted
      /\ p.acks = o.acks
  BY DEF Orchestrators, Verdicts
<1>2. \/ o.state # "PREFLIGHT" /\ Return(o, << >>)
      \/ o.state = "PREFLIGHT" /\ Return(p, << >>)
      \/ o.state = "PREFLIGHT" /\ Transition(p, "FAILED", << >>, <<SessionFailed>>)
      \/ /\ o.state = "PREFLIGHT" /\ Transition(p, "AWAITING_WINDOW", << >>, << >>)
         /\ ~\E r \in Roles : p.preflight[r] = "none"
         /\ ~\E r \in Roles : p.preflight[r] = "failed"
  BY DEF OnPreflightResult
<1> HIDE DEF p
<1>3. CASE o.state # "PREFLIGHT" /\ Return(o, << >>)
  BY <1>3, ReturnShape DEF Unchanged, SamePairing, SameProgress
<1>4. CASE o.state = "PREFLIGHT" /\ Return(p, << >>)
  BY <1>1, <1>4, ReturnShape DEF Unchanged, SamePairing, SameProgress
<1>5. CASE o.state = "PREFLIGHT" /\ Transition(p, "FAILED", << >>, <<SessionFailed>>)
  <2>1. <<p.state, "FAILED">> \in AllowedTransitions /\ "FAILED" \in States
    BY <1>1, <1>5 DEF AllowedTransitions, States
  <2>2. Moved(p, "FAILED")
    BY <1>1, <1>5, <2>1, TransitionShape
  <2>3. QED
    BY <1>1, <1>5, <2>2 DEF Moved, SamePairing, SameProgress
<1>6. CASE /\ o.state = "PREFLIGHT" /\ Transition(p, "AWAITING_WINDOW", << >>, << >>)
           /\ ~\E r \in Roles : p.preflight[r] = "none"
           /\ ~\E r \in Roles : p.preflight[r] = "failed"
  <2>1. <<p.state, "AWAITING_WINDOW">> \in AllowedTransitions /\ "AWAITING_WINDOW" \in States
    BY <1>1, <1>6 DEF AllowedTransitions, States
  <2>2. Moved(p, "AWAITING_WINDOW")
    BY <1>1, <1>6, <2>1, TransitionShape
  <2>3. \A r \in Roles : p.preflight[r] = "ok"
    BY <1>1, <1>6 DEF Orchestrators, Verdicts
  <2>4. QED
    BY <1>1, <1>6, <2>2, <2>3 DEF Moved, SamePairing, SameProgress
<1>7. QED
  BY <1>2, <1>3, <1>4, <1>5, <1>6

\* Advancing past the current step dispatches the next one, or completes the
\* session after the ninth.
LEMMA AdvanceShape ==
  ASSUME NEW o \in Orchestrators, o.state = "MIGRATING", o.currentStep \in Steps,
         o.stepsCompleted = o.currentStep - 1, Advance(o, o.currentStep)
  PROVE  /\ orch' \in Orchestrators /\ SamePairing(o)
         /\ orch'.acks = o.acks /\ orch'.stepsCompleted = o.currentStep
         /\ \/ /\ o.currentStep < TotalSteps /\ orch'.state = "MIGRATING"
               /\ orch'.currentStep = o.currentStep + 1
            \/ /\ o.currentStep = TotalSteps /\ orch'.state = "COMPLETE"
               /\ orch'.currentStep = o.currentStep
<1> DEFINE step == o.currentStep
           p == [o EXCEPT !.stepsCompleted = @ + 1]
           q == [p EXCEPT !.currentStep = step + 1]
<1>1. /\ p \in Orchestrators /\ p.stepsCompleted = step
      /\ p.state = o.state /\ p.agents = o.agents /\ p.sas = o.sas
      /\ p.preflight = o.preflight /\ p.currentStep = step /\ p.acks = o.acks
  BY PutDone
<1>2. \/ /\ step = TotalSteps
         /\ Transition(p, "COMPLETE", <<StepCompleted(step)>>, <<SessionComplete>>)
      \/ /\ step < TotalSteps
         /\ Return(q, <<StepCompleted(step), ExecuteStep(step + 1)>>)
  BY DEF Advance
<1> HIDE DEF p
<1>3. CASE /\ step = TotalSteps
           /\ Transition(p, "COMPLETE", <<StepCompleted(step)>>, <<SessionComplete>>)
  <2>1. <<p.state, "COMPLETE">> \in AllowedTransitions /\ "COMPLETE" \in States
    BY <1>1 DEF AllowedTransitions, States
  <2>2. Moved(p, "COMPLETE")
    BY <1>1, <1>3, <2>1, TransitionShape
  <2>3. QED
    BY <1>1, <1>3, <2>2 DEF Moved, SamePairing, SameProgress
<1>4. CASE /\ step < TotalSteps
           /\ Return(q, <<StepCompleted(step), ExecuteStep(step + 1)>>)
  <2>1. step + 1 \in 0 .. TotalSteps
    BY <1>4
  <2>2. /\ q \in Orchestrators /\ q.currentStep = step + 1
        /\ q.state = p.state /\ q.agents = p.agents /\ q.sas = p.sas
        /\ q.preflight = p.preflight /\ q.stepsCompleted = p.stepsCompleted
        /\ q.acks = p.acks
    BY <1>1, <2>1, PutStep
  <2> HIDE DEF q
  <2>3. Unchanged(q)
    BY <1>4, <2>2, ReturnShape
  <2>4. QED
    BY <1>1, <1>4, <2>2, <2>3 DEF Unchanged, SamePairing, SameProgress
<1>5. QED
  BY <1>2, <1>3, <1>4

\* The effect of a report on the step the object is waiting for: it is kept
\* until the other role's arrives, or the migration advances.
Waits(o, step, role) ==
  /\ step \in BilateralSteps
  /\ \A s \in BilateralSteps :
       orch'.acks[s] = IF s = step THEN o.acks[s] \cup {role} ELSE o.acks[s]
  /\ orch'.state = o.state /\ orch'.currentStep = o.currentStep
  /\ orch'.stepsCompleted = o.stepsCompleted

Advances(o, step, role) ==
  /\ step \notin BilateralSteps \/ o.acks[step] \cup {role} = Roles
  /\ \A s \in BilateralSteps : orch'.acks[s] = IF s = step THEN {} ELSE o.acks[s]
  /\ orch'.stepsCompleted = step
  /\ \/ step < TotalSteps /\ orch'.state = "MIGRATING" /\ orch'.currentStep = step + 1
     \/ step = TotalSteps /\ orch'.state = "COMPLETE" /\ orch'.currentStep = step

StepReported(o, step, role) ==
  /\ orch' \in Orchestrators /\ SamePairing(o)
  /\ Waits(o, step, role) \/ Advances(o, step, role)

\* onStepComplete() ignores what is not about the current step; otherwise it
\* either waits for the other agent or advances.
LEMMA StepCompleteShape ==
  ASSUME NEW o \in Orchestrators, NEW step \in Steps, NEW role \in Roles,
         o.state = "MIGRATING" =>
           o.currentStep \in Steps /\ o.stepsCompleted = o.currentStep - 1,
         OnStepComplete(o, step, role)
  PROVE  IF o.state = "MIGRATING" /\ step = o.currentStep
         THEN StepReported(o, step, role) ELSE Unchanged(o)
<1>1. CASE ~(o.state = "MIGRATING" /\ step = o.currentStep)
  BY <1>1, ReturnShape DEF OnStepComplete
<1>2. CASE /\ o.state = "MIGRATING" /\ step = o.currentStep
           /\ step \notin BilateralSteps /\ Advance(o, step)
  BY <1>2, AdvanceShape DEF StepReported, Advances
<1>3. CASE /\ o.state = "MIGRATING" /\ step = o.currentStep /\ step \in BilateralSteps
           /\ Return([o EXCEPT !.acks[step] = o.acks[step] \cup {role}], << >>)
  <2> DEFINE R == o.acks[step] \cup {role}
             p == [o EXCEPT !.acks[step] = R]
  <2>1. R \in SUBSET Roles
    BY <1>3 DEF Orchestrators
  <2> HIDE DEF R
  <2>2. /\ p \in Orchestrators /\ p.acks = [o.acks EXCEPT ![step] = R]
        /\ p.state = o.state /\ p.agents = o.agents /\ p.sas = o.sas
        /\ p.preflight = o.preflight /\ p.currentStep = o.currentStep
        /\ p.stepsCompleted = o.stepsCompleted
    BY <1>3, <2>1, PutAcks
  <2>3. Return(p, << >>)
    BY <1>3 DEF R
  <2> HIDE DEF p
  <2>4. Unchanged(p)
    BY <2>2, <2>3, ReturnShape
  <2>5. QED
    BY <1>3, <2>2, <2>4 DEF Unchanged, SamePairing, SameProgress, R, Orchestrators,
                                 StepReported, Waits
<1>4. CASE /\ o.state = "MIGRATING" /\ step = o.currentStep /\ step \in BilateralSteps
           /\ o.acks[step] \cup {role} = Roles
           /\ Advance([o EXCEPT !.acks[step] = {}], step)
  <2> DEFINE p == [o EXCEPT !.acks[step] = {}]
  <2>1. /\ p \in Orchestrators /\ p.acks = [o.acks EXCEPT ![step] = {}]
        /\ p.state = o.state /\ p.agents = o.agents /\ p.sas = o.sas
        /\ p.preflight = o.preflight /\ p.currentStep = o.currentStep
        /\ p.stepsCompleted = o.stepsCompleted
    <3>1. {} \in SUBSET Roles
      OBVIOUS
    <3>2. QED
      BY <1>4, <3>1, PutAcks
  <2>2. Advance(p, p.currentStep)
    BY <1>4, <2>1
  <2> HIDE DEF p
  <2>3. QED
    BY <1>4, <2>1, <2>2, AdvanceShape DEF SamePairing, Orchestrators,
                                             StepReported, Advances
<1>5. QED
  BY <1>1, <1>2, <1>3, <1>4 DEF OnStepComplete

\* onStepFailed() ignores what is not about the current step, and otherwise
\* ends the session as FAILED.
LEMMA StepFailedShape ==
  ASSUME NEW o \in Orchestrators, NEW step \in Steps, NEW role \in Roles,
         OnStepFailed(o, step, role)
  PROVE  \/ Unchanged(o)
         \/ o.state = "MIGRATING" /\ Moved(o, "FAILED")
<1>1. CASE ~(o.state = "MIGRATING" /\ step = o.currentStep)
  BY <1>1, ReturnShape DEF OnStepFailed
<1>2. CASE /\ o.state = "MIGRATING" /\ BeginRollback(o, <<StepFailedEvent(step, role)>>)
  BY <1>2, RollbackShape
<1>3. CASE /\ o.state = "MIGRATING"
           /\ Transition(o, "FAILED", <<StepFailedEvent(step, role)>>, <<SessionFailed>>)
  <2>1. <<o.state, "FAILED">> \in AllowedTransitions /\ "FAILED" \in States
    BY <1>3 DEF AllowedTransitions, States
  <2>2. QED
    BY <1>3, <2>1, TransitionShape
<1>4. QED
  BY <1>1, <1>2, <1>3 DEF OnStepFailed

-----------------------------------------------------------------------------
(* Type correctness: what the methods emit.                                *)

\* Every event a method builds is one of the event map.
LEMMA EventTypes ==
  /\ \A a, b \in States : StateChange(a, b) \in Events
  /\ \A n \in Steps : ExecuteStep(n) \in Events /\ StepCompleted(n) \in Events
  /\ \A n \in Steps, r \in Roles : StepFailedEvent(n, r) \in Events
  /\ \A name \in RollbackNames : Rollback(name) \in Events
  /\ SessionComplete \in Events /\ SessionFailed \in Events
  /\ CriticalAlert \in Events /\ Thrown \in Events
  BY DEF Events, StateChange, ExecuteStep, StepCompleted, StepFailedEvent, Rollback,
         SessionComplete, SessionFailed, CriticalAlert, Thrown

\* transition() emits only events, whether it succeeds or throws.
LEMMA TransitionEmits ==
  ASSUME NEW o \in Orchestrators, NEW to \in States,
         NEW before \in Seq(Events), NEW after \in Seq(Events),
         Transition(o, to, before, after)
  PROVE  emitted' \in Seq(Events)
<1>1. CASE emitted' = before \o <<StateChange(o.state, to)>> \o after
  <2>1. StateChange(o.state, to) \in Events
    BY EventTypes DEF Orchestrators
  <2>2. <<StateChange(o.state, to)>> \in Seq(Events)
    BY <2>1
  <2>3. before \o <<StateChange(o.state, to)>> \in Seq(Events)
    BY <2>2, ConcatProperties
  <2>4. QED
    BY <1>1, <2>3, ConcatProperties
<1>2. CASE emitted' = Append(before, Thrown)
  BY <1>2, EventTypes, AppendProperties
<1>3. CASE emitted' = before \o after
  BY <1>3, ConcatProperties
<1>4. QED
  BY <1>1, <1>2, <1>3 DEF Transition, Return

\* beginRollback() emits only events.
LEMMA RollbackEmits ==
  ASSUME NEW o \in Orchestrators, NEW before \in Seq(Events), BeginRollback(o, before)
  PROVE  emitted' \in Seq(Events)
<1> DEFINE names == GetRollbackSteps(o.currentStep)
           steps == [i \in 1 .. Len(names) |-> Rollback(names[i])]
           start == <<StateChange(o.state, "ROLLBACK")>>
           end   == <<StateChange("ROLLBACK", "FAILED"), SessionFailed>>
<1>1. names \in Seq(RollbackNames)
  <2>1. RollbackSequence \in Seq(RollbackNames)
    BY DEF RollbackSequence, RollbackNames
  <2>2. QED
    BY <2>1 DEF GetRollbackSteps
<1>2. steps \in Seq(Events)
  <2> HIDE DEF names
  <2>1. \A i \in 1 .. Len(names) : Rollback(names[i]) \in Events
    BY <1>1, EventTypes, ElementOfSeq
  <2>2. Len(names) \in Nat
    BY <1>1, LenProperties
  <2>3. QED
    BY <2>1, <2>2, IsASeq
<1>3. start \in Seq(Events) /\ end \in Seq(Events)
  <2>1. /\ StateChange(o.state, "ROLLBACK") \in Events
        /\ StateChange("ROLLBACK", "FAILED") \in Events /\ SessionFailed \in Events
    BY EventTypes DEF Orchestrators, States
  <2>2. QED
    BY <2>1
<1>4. \/ emitted' = before \o start \o steps \o end
      \/ emitted' = Append(before, Thrown)
  BY DEF BeginRollback, Return
<1> HIDE DEF steps, start, end
<1>5. before \o start \in Seq(Events)
  BY <1>3, ConcatProperties
<1>6. before \o start \o steps \in Seq(Events)
  BY <1>2, <1>5, ConcatProperties
<1>7. before \o start \o steps \o end \in Seq(Events)
  BY <1>3, <1>6, ConcatProperties
<1>8. Append(before, Thrown) \in Seq(Events)
  BY EventTypes, AppendProperties
<1>9. QED
  BY <1>4, <1>7, <1>8

\* A method that returns a list of events emits only those.
LEMMA ReturnEmits ==
  ASSUME NEW o, NEW events \in Seq(Events), Return(o, events)
  PROVE  emitted' \in Seq(Events)
  BY DEF Return

\* The fixed event lists of the methods.
LEMMA EventLists ==
  /\ << >> \in Seq(Events) /\ <<SessionFailed>> \in Seq(Events)
  /\ <<SessionComplete>> \in Seq(Events) /\ <<Thrown>> \in Seq(Events)
  /\ <<CriticalAlert>> \in Seq(Events) /\ <<ExecuteStep(1)>> \in Seq(Events)
  /\ \A n \in Steps : <<StepCompleted(n)>> \in Seq(Events)
  /\ \A n \in Steps, r \in Roles : <<StepFailedEvent(n, r)>> \in Seq(Events)
<1>1. /\ SessionComplete \in Events /\ SessionFailed \in Events
      /\ CriticalAlert \in Events /\ Thrown \in Events /\ ExecuteStep(1) \in Events
      /\ \A n \in Steps : StepCompleted(n) \in Events
      /\ \A n \in Steps, r \in Roles : StepFailedEvent(n, r) \in Events
  BY EventTypes
<1>2. QED
  BY <1>1

\* Advancing emits only events; the step after the last is never dispatched.
LEMMA AdvanceEmits ==
  ASSUME NEW o \in Orchestrators, NEW step \in Steps, o.stepsCompleted < TotalSteps,
         Advance(o, step)
  PROVE  emitted' \in Seq(Events)
<1> DEFINE p == [o EXCEPT !.stepsCompleted = @ + 1]
<1>1. p \in Orchestrators
  BY PutDone
<1>2. CASE Transition(p, "COMPLETE", <<StepCompleted(step)>>, <<SessionComplete>>)
  <2>1. "COMPLETE" \in States
    BY DEF States
  <2> HIDE DEF p
  <2>2. QED
    BY <1>1, <1>2, <2>1, EventLists, TransitionEmits
<1>3. CASE step + 1 \in Steps /\ emitted' = <<StepCompleted(step), ExecuteStep(step + 1)>>
  <2>1. StepCompleted(step) \in Events /\ ExecuteStep(step + 1) \in Events
    BY <1>3, EventTypes
  <2>2. QED
    BY <1>3, <2>1
<1>4. QED
  BY <1>2, <1>3 DEF Advance, Return
-----------------------------------------------------------------------------
(* What each method says.                                                  *)

\* The state stays and nothing is said of it.
Silent(o) == orch'.state = o.state /\ emitted' \in {<< >>, <<CriticalAlert>>}

\* An exception, and nothing else.
Throws(o) == orch'.state = o.state /\ emitted' = <<Thrown>>

\* One change of state along an edge of the table, before the migration.
Changes(o) ==
  /\ <<o.state, orch'.state>> \in AllowedTransitions
  /\ orch'.state \in {"IDLE", "PAIRING", "PREFLIGHT", "AWAITING_WINDOW"}
  /\ emitted' = <<StateChange(o.state, orch'.state)>>

\* What onStepFailed() says before the session fails, and the others do not.
Preludes == {<< >>} \cup {<<StepFailedEvent(s, r)>> : s \in Steps, r \in Roles}

\* The session fails without a rollback, after what was said before.
FailsNow(o, before) ==
  /\ orch'.state = "FAILED" /\ <<o.state, "FAILED">> \in AllowedTransitions
  /\ emitted' = before \o <<StateChange(o.state, "FAILED"), SessionFailed>>

\* The rollback steps dispatched when the current step has the number n.
RollbackEvents(n) ==
  LET names == GetRollbackSteps(n) IN [i \in 1 .. Len(names) |-> Rollback(names[i])]

Rollbacks == {Rollback(name) : name \in RollbackNames}

\* The session fails by way of ROLLBACK, after what was said before.
RollsBack(o, before) ==
  /\ o.state = "MIGRATING" /\ orch'.state = "FAILED"
  /\ emitted' = before \o <<StateChange("MIGRATING", "ROLLBACK")>>
                       \o RollbackEvents(o.currentStep)
                       \o <<StateChange("ROLLBACK", "FAILED"), SessionFailed>>

\* The migration starts with step 1.
Starts(o) ==
  /\ o.state = "AWAITING_WINDOW" /\ orch'.state = "MIGRATING" /\ orch'.currentStep = 1
  /\ emitted' = <<StateChange("AWAITING_WINDOW", "MIGRATING"), ExecuteStep(1)>>

\* The current step is done and the next one is dispatched.
Dispatches(o) ==
  /\ o.state = "MIGRATING" /\ orch'.state = "MIGRATING"
  /\ o.currentStep \in Steps /\ o.currentStep < TotalSteps
  /\ orch'.currentStep = o.currentStep + 1
  /\ emitted' = <<StepCompleted(o.currentStep), ExecuteStep(o.currentStep + 1)>>

\* The last step is done and the session complete.
Finishes(o) ==
  /\ o.state = "MIGRATING" /\ orch'.state = "COMPLETE" /\ o.currentStep = TotalSteps
  /\ emitted' = <<StepCompleted(TotalSteps), StateChange("MIGRATING", "COMPLETE"),
                  SessionComplete>>

\* Lists of one or two events, put together.
LEMMA ListsOfTwo ==
  ASSUME NEW X, NEW a \in X, NEW b \in X
  PROVE  /\ << >> \o <<a>> = <<a>> /\ <<a>> \o << >> = <<a>>
         /\ << >> \o <<a, b>> = <<a, b>>
         /\ <<a>> \o <<b>> = <<a, b>>
<1>1. << >> \o <<a>> = <<a>> /\ <<a>> \o << >> = <<a>> /\ << >> \o <<a, b>> = <<a, b>>
  OBVIOUS
<1>2. <<a>> \in Seq(X) /\ <<b>> \in Seq(X)
  OBVIOUS
<1>3. <<a, b>> = Append(<<a>>, b)
  OBVIOUS
<1>4. QED
  BY <1>1, <1>2, <1>3, AppendIsConcat

\* The same, whatever the events are, and with nothing on either side.
LEMMA EventPairs ==
  \A a, b : /\ << >> \o << >> = << >>
            /\ << >> \o <<a>> = <<a>> /\ <<a>> \o << >> = <<a>>
            /\ <<a>> \o <<b>> = <<a, b>>
            /\ << >> \o <<a>> \o << >> = <<a>>
            /\ << >> \o <<a>> \o <<b>> = << >> \o <<a, b>>
            /\ << >> \o <<a, b>> = <<a, b>>
<1> TAKE a, b
<1>1. a \in {a, b} /\ b \in {a, b}
  OBVIOUS
<1>2. << >> \o << >> = << >>
  BY EmptySeq, ConcatEmptySeq
<1>3. QED
  BY <1>1, <1>2, ListsOfTwo

\* A list of three events, put together in either order.
LEMMA ListsOfThree ==
  \A a, b, c : /\ <<a>> \o <<b>> \o <<c>> = <<a, b, c>>
               /\ <<a>> \o <<b>> \o <<c>> = <<a>> \o <<b, c>>
               /\ <<a>> \o <<b, c>> = <<a, b, c>>
<1> TAKE a, b, c
<1> DEFINE X == {a, b, c}
<1>1. /\ a \in X /\ b \in X /\ c \in X
      /\ <<a>> \in Seq(X) /\ <<b>> \in Seq(X) /\ <<c>> \in Seq(X) /\ <<a, b>> \in Seq(X)
  OBVIOUS
<1>2. <<a, b, c>> = Append(<<a, b>>, c)
  OBVIOUS
<1> HIDE DEF X
<1>3. <<a>> \o <<b>> = <<a, b>> /\ <<b>> \o <<c>> = <<b, c>>
  BY <1>1, ListsOfTwo
<1>4. Append(<<a, b>>, c) = <<a, b>> \o <<c>>
  BY <1>1, AppendIsConcat
<1>5. (<<a>> \o <<b>>) \o <<c>> = <<a>> \o (<<b>> \o <<c>>)
  BY <1>1, ConcatAssociative
<1>6. QED
  BY <1>2, <1>3, <1>4, <1>5

\* Along an edge of the table transition() announces the change between what
\* its caller had to say before and after it.
LEMMA TransitionSays ==
  ASSUME NEW o \in Orchestrators, NEW to \in States, NEW before, NEW after,
         <<o.state, to>> \in AllowedTransitions, Transition(o, to, before, after)
  PROVE  /\ orch'.state = to
         /\ emitted' = before \o <<StateChange(o.state, to)>> \o after
<1>1. o.state # to
  BY DEF AllowedTransitions
<1>2. Return([o EXCEPT !.state = to], before \o <<StateChange(o.state, to)>> \o after)
  BY <1>1 DEF Transition
<1>3. QED
  BY <1>2 DEF Return, Orchestrators

\* The steps dispatched by beginRollback() are steps of the rollback.
LEMMA RollbackEventsAre ==
  ASSUME NEW n
  PROVE  RollbackEvents(n) \in Seq(Rollbacks)
<1> DEFINE names == GetRollbackSteps(n)
<1>1. names \in Seq(RollbackNames)
  <2>1. RollbackSequence \in Seq(RollbackNames)
    BY DEF RollbackSequence, RollbackNames
  <2>2. QED
    BY <2>1, EmptySeq DEF GetRollbackSteps
<1> HIDE DEF names
<1>2. Len(names) \in Nat /\ \A i \in 1 .. Len(names) : Rollback(names[i]) \in Rollbacks
  BY <1>1, ElementOfSeq, LenProperties DEF Rollbacks
<1>3. [i \in 1 .. Len(names) |-> Rollback(names[i])] \in Seq(Rollbacks)
  BY <1>2, IsASeq
<1>4. QED
  BY <1>3 DEF RollbackEvents, names

\* beginRollback() of a migrating session announces and dispatches it all.
LEMMA RollbackSays ==
  ASSUME NEW o \in Orchestrators, NEW before, o.state = "MIGRATING",
         BeginRollback(o, before)
  PROVE  RollsBack(o, before)
<1>1. <<"MIGRATING", "ROLLBACK">> \in AllowedTransitions
  BY DEF AllowedTransitions
<1>2. QED
  BY <1>1 DEF BeginRollback, Return, RollsBack, RollbackEvents, Orchestrators

\* onAgentConnected() is silent but for the start of the pairing.
LEMMA ConnectedSays ==
  ASSUME NEW o \in Orchestrators, NEW role \in Roles, OnAgentConnected(o, role)
  PROVE  Silent(o) \/ Changes(o)
<1> DEFINE p == [o EXCEPT !.agents[role] = TRUE]
<1>1. p \in Orchestrators /\ p.state = o.state
  BY PutAgent
<1>2. \/ Return(p, << >>)
      \/ o.state = "IDLE" /\ Transition(p, "PAIRING", << >>, << >>)
  BY DEF OnAgentConnected
<1> HIDE DEF p
<1>3. CASE Return(p, << >>)
  BY <1>1, <1>3 DEF Return, Silent
<1>4. CASE o.state = "IDLE" /\ Transition(p, "PAIRING", << >>, << >>)
  <2>1. <<p.state, "PAIRING">> \in AllowedTransitions /\ "PAIRING" \in States
    BY <1>1, <1>4 DEF AllowedTransitions, States
  <2>2. /\ orch'.state = "PAIRING"
        /\ emitted' = << >> \o <<StateChange(p.state, "PAIRING")>> \o << >>
    BY <1>1, <1>4, <2>1, TransitionSays
  <2>3. QED
    BY <1>1, <2>1, <2>2 DEF Changes
<1>5. QED
  BY <1>2, <1>3, <1>4

\* onAgentDisconnected() returns to IDLE, rolls back, or says no change.
LEMMA DisconnectedSays ==
  ASSUME NEW o \in Orchestrators, NEW role \in Roles, OnAgentDisconnected(o, role)
  PROVE  Silent(o) \/ Changes(o) \/ RollsBack(o, << >>)
<1> DEFINE p == [o EXCEPT !.agents[role] = FALSE]
           q == [p EXCEPT !.sas = Fresh.sas, !.preflight = Fresh.preflight]
<1>1. p \in Orchestrators /\ p.state = o.state /\ p.currentStep = o.currentStep
  BY PutAgent
<1>2. \/ o.state \in {"PAIRING", "PREFLIGHT"} /\ Transition(q, "IDLE", << >>, << >>)
      \/ o.state = "MIGRATING" /\ BeginRollback(p, << >>)
      \/ Return(p, <<CriticalAlert>>)
      \/ Return(p, << >>)
  BY DEF OnAgentDisconnected
<1> HIDE DEF p
<1>3. q \in Orchestrators /\ q.state = p.state
  BY <1>1, PutReset
<1> HIDE DEF q
<1>4. CASE o.state \in {"PAIRING", "PREFLIGHT"} /\ Transition(q, "IDLE", << >>, << >>)
  <2>1. <<q.state, "IDLE">> \in AllowedTransitions /\ "IDLE" \in States
    BY <1>1, <1>3, <1>4 DEF AllowedTransitions, States
  <2>2. /\ orch'.state = "IDLE"
        /\ emitted' = << >> \o <<StateChange(q.state, "IDLE")>> \o << >>
    BY <1>3, <1>4, <2>1, TransitionSays
  <2>3. QED
    BY <1>1, <1>3, <2>1, <2>2 DEF Changes
<1>5. CASE o.state = "MIGRATING" /\ BeginRollback(p, << >>)
  BY <1>1, <1>5, RollbackSays DEF RollsBack
<1>6. CASE Return(p, <<CriticalAlert>>) \/ Return(p, << >>)
  BY <1>1, <1>6 DEF Return, Silent
<1>7. QED
  BY <1>2, <1>4, <1>5, <1>6

\* onSasConfirmed() is silent but for the change to PREFLIGHT.
LEMMA SasSays ==
  ASSUME NEW o \in Orchestrators, NEW role \in Roles, OnSasConfirmed(o, role)
  PROVE  Silent(o) \/ Changes(o)
<1> DEFINE p == [o EXCEPT !.sas[role] = TRUE]
<1>1. p \in Orchestrators /\ p.state = o.state
  BY PutSas
<1>2. \/ Return(o, << >>) \/ Return(p, << >>)
      \/ o.state = "PAIRING" /\ Transition(p, "PREFLIGHT", << >>, << >>)
  BY DEF OnSasConfirmed
<1> HIDE DEF p
<1>3. CASE Return(o, << >>) \/ Return(p, << >>)
  BY <1>1, <1>3 DEF Return, Silent
<1>4. CASE o.state = "PAIRING" /\ Transition(p, "PREFLIGHT", << >>, << >>)
  <2>1. <<p.state, "PREFLIGHT">> \in AllowedTransitions /\ "PREFLIGHT" \in States
    BY <1>1, <1>4 DEF AllowedTransitions, States
  <2>2. /\ orch'.state = "PREFLIGHT"
        /\ emitted' = << >> \o <<StateChange(p.state, "PREFLIGHT")>> \o << >>
    BY <1>1, <1>4, <2>1, TransitionSays
  <2>3. QED
    BY <1>1, <2>1, <2>2 DEF Changes
<1>5. QED
  BY <1>2, <1>3, <1>4

\* onPreflightResult() is silent, opens the window, or fails the session.
LEMMA PreflightSays ==
  ASSUME NEW o \in Orchestrators, NEW role \in Roles, NEW verdict \in Verdicts,
         OnPreflightResult(o, role, verdict)
  PROVE  Silent(o) \/ Changes(o) \/ FailsNow(o, << >>)
<1> DEFINE p == [o EXCEPT !.preflight[role] = verdict]
<1>1. p \in Orchestrators /\ p.state = o.state
  BY DEF Orchestrators, Verdicts
<1>2. \/ Return(o, << >>) \/ Return(p, << >>)
      \/ o.state = "PREFLIGHT" /\ Transition(p, "FAILED", << >>, <<SessionFailed>>)
      \/ o.state = "PREFLIGHT" /\ Transition(p, "AWAITING_WINDOW", << >>, << >>)
  BY DEF OnPreflightResult
<1> HIDE DEF p
<1>3. CASE Return(o, << >>) \/ Return(p, << >>)
  BY <1>1, <1>3 DEF Return, Silent
<1>4. CASE o.state = "PREFLIGHT" /\ Transition(p, "FAILED", << >>, <<SessionFailed>>)
  <2>1. <<p.state, "FAILED">> \in AllowedTransitions /\ "FAILED" \in States
    BY <1>1, <1>4 DEF AllowedTransitions, States
  <2>2. /\ orch'.state = "FAILED"
        /\ emitted' = << >> \o <<StateChange(p.state, "FAILED")>> \o <<SessionFailed>>
    BY <1>1, <1>4, <2>1, TransitionSays
  <2>3. QED
    BY <1>1, <2>1, <2>2, EventPairs DEF FailsNow
<1>5. CASE o.state = "PREFLIGHT" /\ Transition(p, "AWAITING_WINDOW", << >>, << >>)
  <2>1. <<p.state, "AWAITING_WINDOW">> \in AllowedTransitions /\ "AWAITING_WINDOW" \in States
    BY <1>1, <1>5 DEF AllowedTransitions, States
  <2>2. /\ orch'.state = "AWAITING_WINDOW"
        /\ emitted' = << >> \o <<StateChange(p.state, "AWAITING_WINDOW")>> \o << >>
    BY <1>1, <1>5, <2>1, TransitionSays
  <2>3. QED
    BY <1>1, <2>1, <2>2 DEF Changes
<1>6. QED
  BY <1>2, <1>3, <1>4, <1>5

\* startMigration() throws, or dispatches step 1.
LEMMA StartSays ==
  ASSUME NEW o \in Orchestrators, StartMigration(o)
  PROVE  \/ o.state # "AWAITING_WINDOW" /\ Throws(o)
         \/ Starts(o)
<1> DEFINE p == [o EXCEPT !.currentStep = 1]
<1>1. p \in Orchestrators /\ p.state = o.state /\ p.currentStep = 1
  <2>1. 1 \in 0 .. TotalSteps
    OBVIOUS
  <2>2. QED
    BY <2>1, PutStep
<1>2. \/ o.state # "AWAITING_WINDOW" /\ Return(o, <<Thrown>>)
      \/ o.state = "AWAITING_WINDOW" /\ Transition(p, "MIGRATING", << >>, <<ExecuteStep(1)>>)
  BY DEF StartMigration
<1> HIDE DEF p
<1>3. CASE o.state # "AWAITING_WINDOW" /\ Return(o, <<Thrown>>)
  BY <1>3 DEF Return, Throws
<1>4. CASE o.state = "AWAITING_WINDOW" /\ Transition(p, "MIGRATING", << >>, <<ExecuteStep(1)>>)
  <2>1. <<p.state, "MIGRATING">> \in AllowedTransitions /\ "MIGRATING" \in States
    BY <1>1, <1>4 DEF AllowedTransitions, States
  <2>2. emitted' = << >> \o <<StateChange(p.state, "MIGRATING")>> \o <<ExecuteStep(1)>>
    BY <1>1, <1>4, <2>1, TransitionSays
  <2>3. Moved(p, "MIGRATING")
    BY <1>1, <1>4, <2>1, TransitionShape
  <2>4. QED
    BY <1>1, <1>4, <2>2, <2>3, EventPairs DEF Starts, Moved, SameProgress
<1>5. QED
  BY <1>2, <1>3, <1>4

\* abort() is silent on a session that has ended; else it rolls back from
\* step 2 on, and only fails before.
LEMMA AbortSays ==
  ASSUME NEW o \in Orchestrators, o.state # "ROLLBACK", Abort(o)
  PROVE  \/ o.state \in Terminal /\ Silent(o)
         \/ o.state = "MIGRATING" /\ o.currentStep >= 2 /\ RollsBack(o, << >>)
         \/ ~(o.state = "MIGRATING" /\ o.currentStep >= 2) /\ FailsNow(o, << >>)
<1>1. o.state \in States /\ "FAILED" \in States
  BY DEF Orchestrators, States
<1>2. CASE o.state \in Terminal
  BY <1>2 DEF Abort, Return, Silent
<1>3. CASE o.state = "MIGRATING" /\ o.currentStep >= 2
  BY <1>3, RollbackSays DEF Abort, ShouldRollback
<1>4. CASE o.state \notin Terminal /\ ~(o.state = "MIGRATING" /\ o.currentStep >= 2)
  <2>1. <<o.state, "FAILED">> \in AllowedTransitions
    BY <1>1, <1>4 DEF AllowedTransitions, States
  <2>2. Transition(o, "FAILED", << >>, <<SessionFailed>>)
    BY <1>4 DEF Abort, ShouldRollback
  <2>3. /\ orch'.state = "FAILED"
        /\ emitted' = << >> \o <<StateChange(o.state, "FAILED")>> \o <<SessionFailed>>
    BY <1>1, <2>1, <2>2, TransitionSays
  <2>4. QED
    BY <1>4, <2>1, <2>3, EventPairs DEF FailsNow
<1>5. QED
  BY <1>2, <1>3, <1>4

\* Advancing dispatches the next step, or finishes after the last.
LEMMA AdvanceSays ==
  ASSUME NEW o \in Orchestrators, o.state = "MIGRATING", o.currentStep \in Steps,
         o.stepsCompleted < TotalSteps, Advance(o, o.currentStep)
  PROVE  Dispatches(o) \/ Finishes(o)
<1> DEFINE step == o.currentStep
           p == [o EXCEPT !.stepsCompleted = @ + 1]
<1>1. p \in Orchestrators /\ p.state = o.state /\ p.currentStep = step
  BY PutDone
<1>2. CASE /\ step + 1 \notin Steps
           /\ Transition(p, "COMPLETE", <<StepCompleted(step)>>, <<SessionComplete>>)
  <2>1. <<p.state, "COMPLETE">> \in AllowedTransitions /\ "COMPLETE" \in States
    BY <1>1 DEF AllowedTransitions, States
  <2> HIDE DEF p
  <2>2. /\ orch'.state = "COMPLETE"
        /\ emitted' = <<StepCompleted(step)>> \o <<StateChange(p.state, "COMPLETE")>>
                                             \o <<SessionComplete>>
    BY <1>1, <1>2, <2>1, TransitionSays
  <2>3. step = TotalSteps
    BY <1>2
  <2>4. emitted' = <<StepCompleted(step), StateChange("MIGRATING", "COMPLETE"),
                     SessionComplete>>
    BY <1>1, <2>2, ListsOfThree
  <2>5. QED
    BY <2>2, <2>3, <2>4 DEF Finishes
<1>3. CASE /\ step + 1 \in Steps
           /\ Return([p EXCEPT !.currentStep = step + 1],
                     <<StepCompleted(step), ExecuteStep(step + 1)>>)
  <2> HIDE DEF p
  <2>1. step + 1 \in 0 .. TotalSteps
    BY <1>3
  <2>2. QED
    BY <1>1, <1>3, <2>1, PutStep DEF Return, Dispatches
<1>4. QED
  BY <1>2, <1>3 DEF Advance

\* onStepComplete() says nothing of a report it does not act on or that waits
\* for the other agent's; else it dispatches the next step or finishes.
LEMMA StepCompleteSays ==
  ASSUME NEW o \in Orchestrators, NEW step \in Steps, NEW role \in Roles,
         o.state = "MIGRATING" => o.stepsCompleted < TotalSteps,
         OnStepComplete(o, step, role)
  PROVE  \/ Silent(o) /\ orch'.currentStep = o.currentStep
         \/ step = o.currentStep /\ (Dispatches(o) \/ Finishes(o))
<1>1. CASE Return(o, << >>)
  BY <1>1 DEF Return, Silent
<1>2. CASE o.state = "MIGRATING" /\ step = o.currentStep /\ Advance(o, step)
  BY <1>2, AdvanceSays
<1>3. CASE /\ step \in BilateralSteps
           /\ Return([o EXCEPT !.acks[step] = o.acks[step] \cup {role}], << >>)
  <2> DEFINE R == o.acks[step] \cup {role}
             p == [o EXCEPT !.acks[step] = R]
  <2>1. R \in SUBSET Roles
    BY <1>3 DEF Orchestrators
  <2> HIDE DEF R
  <2>2. p.state = o.state /\ p.currentStep = o.currentStep
    BY <1>3, <2>1, PutAcks
  <2>3. Return(p, << >>)
    BY <1>3 DEF R
  <2> HIDE DEF p
  <2>4. QED
    BY <2>2, <2>3 DEF Return, Silent
<1>4. CASE /\ o.state = "MIGRATING" /\ step = o.currentStep /\ step \in BilateralSteps
           /\ Advance([o EXCEPT !.acks[step] = {}], step)
  <2> DEFINE p == [o EXCEPT !.acks[step] = {}]
  <2>1. /\ p \in Orchestrators /\ p.acks = [o.acks EXCEPT ![step] = {}]
        /\ p.state = o.state /\ p.agents = o.agents /\ p.sas = o.sas
        /\ p.preflight = o.preflight /\ p.currentStep = o.currentStep
        /\ p.stepsCompleted = o.stepsCompleted
    <3>1. {} \in SUBSET Roles
      OBVIOUS
    <3>2. QED
      BY <1>4, <3>1, PutAcks
  <2>2. Advance(p, p.currentStep)
    BY <1>4, <2>1
  <2> HIDE DEF p
  <2>3. Dispatches(p) \/ Finishes(p)
    BY <1>4, <2>1, <2>2, AdvanceSays
  <2>4. QED
    BY <1>4, <2>1, <2>3 DEF Dispatches, Finishes
<1>5. QED
  BY <1>1, <1>2, <1>3, <1>4 DEF OnStepComplete

\* onStepFailed() says nothing of a stale report; else it rolls back from
\* step 2 on, and only fails before.
LEMMA StepFailedSays ==
  ASSUME NEW o \in Orchestrators, NEW step \in Steps, NEW role \in Roles,
         OnStepFailed(o, step, role)
  PROVE  \/ Silent(o)
         \/ /\ o.state = "MIGRATING" /\ o.currentStep >= 2
            /\ RollsBack(o, <<StepFailedEvent(step, role)>>)
         \/ /\ o.state = "MIGRATING" /\ o.currentStep < 2
            /\ FailsNow(o, <<StepFailedEvent(step, role)>>)
<1> DEFINE said == <<StepFailedEvent(step, role)>>
<1>1. CASE Return(o, << >>)
  BY <1>1 DEF Return, Silent
<1>2. CASE o.state = "MIGRATING" /\ o.currentStep >= 2 /\ BeginRollback(o, said)
  BY <1>2, RollbackSays
<1>3. CASE /\ o.state = "MIGRATING" /\ o.currentStep < 2
           /\ Transition(o, "FAILED", said, <<SessionFailed>>)
  <2>1. <<o.state, "FAILED">> \in AllowedTransitions /\ "FAILED" \in States
    BY <1>3 DEF AllowedTransitions, States
  <2>2. /\ orch'.state = "FAILED"
        /\ emitted' = said \o <<StateChange(o.state, "FAILED")>> \o <<SessionFailed>>
    BY <1>3, <2>1, TransitionSays
  <2>3. emitted' = said \o <<StateChange(o.state, "FAILED"), SessionFailed>>
    BY <2>2, ListsOfThree
  <2>4. QED
    BY <1>3, <2>1, <2>2, <2>3 DEF FailsNow
<1>4. QED
  BY <1>1, <1>2, <1>3 DEF OnStepFailed, ShouldRollback, Orchestrators
=============================================================================
