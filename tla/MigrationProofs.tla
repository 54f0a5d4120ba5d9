--------------------------- MODULE MigrationProofs ---------------------------
(***************************************************************************)
(* What a migration promises for every history of the hub, the agents and  *)
(* the sockets between them: every invariant that the run on Migration     *)
(* checks, and that it implements Handover.                                *)
(*                                                                         *)
(* The queues between the hub and the agents are unbounded, and the        *)
(* argument never looks into one: what matters of a queue is what is left  *)
(* of it when everything but one kind of message is filtered out.          *)
(***************************************************************************)
EXTENDS Migration, WiringTheorems

-----------------------------------------------------------------------------
(* The inductive invariant.                                                *)

Outcomes == {StepDone(n) : n \in Steps} \cup {StepBroken(n) : n \in Steps}

Notice == Relayed("voting_confirmed")
News   == Payload("voting_confirmed")

\* What the queues hold of the orders, the results, the rollback and the
\* target's confirmation.
Ordered(role) == Filter(toAgent[role], RunSteps)
Told(role)    == Filter(toHub[role], Outcomes)
ToUndo(role)  == Filter(toAgent[role], Undos)
Notices       == Filter(toAgent["source"], {RunStep(9), Notice})
NewsOf        == Filter(toHub["target"], {StepDone(8), News})

Current == orch.currentStep

Typed ==
  /\ orch \in Orchestrators /\ emitted \in Seq(Events) /\ hub \in {"up", "down"}
  /\ conn \in [Roles -> {"open", "lost", "gone"}]
  /\ toAgent \in [Roles -> Seq(Messages)] /\ toHub \in [Roles -> Seq(Reports)]
  /\ agent \in [Roles -> {"up", "deaf", "exited"}]
  /\ running \in [Roles -> SUBSET Steps] /\ passed \subseteq {6, 9}
  /\ undoing \in [Roles -> SUBSET RollbackNames]
  /\ payloads \subseteq {"tower", "identity"} /\ confirmed \in BOOLEAN
  /\ identity \in [Roles -> {"staked", "unstaked"}]
  /\ voter \in [Roles -> BOOLEAN] /\ tower \in [Roles -> BOOLEAN]
  /\ keyFile \in BOOLEAN /\ tmpKey \in BOOLEAN
  /\ seen \in {"voting", "quiet"} /\ captured \in BOOLEAN /\ stale \in BOOLEAN

\* The session is past its pairing, and its counters follow its state.
HubOK ==
  /\ orch.state \in {"AWAITING_WINDOW", "MIGRATING", "COMPLETE", "FAILED"}
  /\ orch.state = "AWAITING_WINDOW" => Current = 0 /\ orch.stepsCompleted = 0
  /\ orch.state = "MIGRATING" => Current \in Steps /\ orch.stepsCompleted = Current - 1
  /\ orch.state = "COMPLETE" => Current = TotalSteps

\* Between the hub and an agent there is at most one trace of a step, and of
\* the current one: its order, its task or its result.
Idle(role) == Ordered(role) = << >> /\ running[role] = {} /\ Told(role) = << >>

AtWork(role) ==
  \/ Ordered(role) = <<RunStep(Current)>> /\ running[role] = {} /\ Told(role) = << >>
  \/ Ordered(role) = << >> /\ running[role] = {Current} /\ Told(role) = << >>
  \/ /\ Ordered(role) = << >> /\ running[role] = {}
     /\ Told(role) \in {<<StepDone(Current)>>, <<StepBroken(Current)>>}

OneToken(role) ==
  \/ Idle(role)
  \/ Current \in StepsOf(role) /\ orch.state # "COMPLETE" /\ AtWork(role)

\* An agent that has acknowledged a bilateral step is done with it.
AcksOK == \A s \in BilateralSteps : \A r \in orch.acks[s] : s = Current /\ Idle(r)

TokenInv == (\A r \in Roles : OneToken(r)) /\ AcksOK

UndoneOnlyAfterFailure ==
  \A r \in Roles : ToUndo(r) # << >> \/ undoing[r] # {} => orch.state = "FAILED"

\* An agent that has given up on the hub has no socket, and a hub that has
\* stopped reads nothing.
Cut ==
  /\ \A r \in Roles : agent[r] # "up" => conn[r] # "open"
  /\ hub = "down" => \A r \in Roles : toHub[r] = << >>

\* The agent of a role has reported a step as done, read or not.
Succeeded(s, role) ==
  \/ s < Current \/ orch.state = "COMPLETE"
  \/ Told(role) = <<StepDone(s)>>
  \/ s \in BilateralSteps /\ role \in orch.acks[s]

\* The target keeps the received keypair for as long as its agent is there.
KeyThere == tmpKey \/ agent["target"] = "exited"

\* What a reported step has brought about: undone by a rollback only,
Forward ==
  orch.state # "FAILED" =>
    /\ Succeeded(2, "source") => identity["source"] = "unstaked"
    /\ Succeeded(3, "source") => ~voter["source"]
    /\ Succeeded(4, "target") => tower["target"]
    /\ Succeeded(5, "target") => KeyThere
    /\ ~stale

\* or by nothing at all.
Lasting ==
  /\ Succeeded(6, "target") => identity["target"] = "staked"
  /\ Succeeded(7, "target") => voter["target"]
  /\ Succeeded(9, "source") => ~keyFile

\* And nothing of it comes about before its step.
NotEarly ==
  /\ captured => Current >= 4
  /\ identity["target"] = "staked" => Current >= 6
  /\ voter["target"] => Current >= 7
  /\ ~keyFile => Current = 9

Milestones == Forward /\ Lasting /\ NotEarly

\* The target's confirmation stays ahead of the result of step 8, and then
\* of the order for step 9, all the way to the source, or the source has it.
Notified ==
  confirmed \/ conn["source"] # "open" \/ (Notices # << >> /\ Head(Notices) = Notice)

NoticeFirst ==
  /\ NewsOf # << >> => Head(NewsOf) = News \/ Notified
  /\ Notices # << >> => Head(Notices) = Notice \/ confirmed
  /\ 9 \in running["source"] => confirmed

IInv ==
  /\ Typed /\ HubOK /\ TokenInv /\ UndoneOnlyAfterFailure /\ Cut
  /\ Milestones /\ NoticeFirst

USE DEF Roles, Terminal, BilateralSteps, Steps, TotalSteps, IsTerminal

-----------------------------------------------------------------------------
(* Messages.                                                               *)

\* The kinds of messages to an agent are apart.
LEMMA MessageKinds ==
  /\ \A n \in Steps : /\ RunStep(n) \in Messages /\ RunStep(n) \in RunSteps
                      /\ RunStep(n) \notin Undos /\ RunStep(n) # Notice
  /\ \A m, n \in Steps : RunStep(m) = RunStep(n) => m = n
  /\ RunSteps \subseteq Messages /\ Undos \subseteq Messages
  /\ Undos \cap RunSteps = {} /\ Undos \cap {RunStep(9), Notice} = {}
  /\ \A kind \in {"tower", "identity", "voting_confirmed"} :
       /\ Relayed(kind) \in Messages /\ Relayed(kind) \notin RunSteps
       /\ Relayed(kind) \notin Undos /\ Relayed(kind) # RunStep(9)
       /\ kind # "voting_confirmed" => Relayed(kind) # Notice
  /\ Notice \in Messages /\ Notice \notin RunSteps /\ Notice \notin Undos
  /\ \A m \in Messages : m.type = "execute_step" =>
       m.step \in Steps /\ m = RunStep(m.step) /\ m \in RunSteps /\ m \notin Undos
  /\ \A m \in Messages : m.type = "execute_rollback_step" =>
       /\ m.name \in RollbackNames /\ m \in Undos /\ m \notin RunSteps
       /\ m # RunStep(9) /\ m # Notice
  /\ \A m \in Messages : m.type = "relay_payload" =>
       /\ m.kind \in {"tower", "identity", "voting_confirmed"} /\ m = Relayed(m.kind)
       /\ m \notin RunSteps /\ m \notin Undos /\ m # RunStep(9)
       /\ m.kind # "voting_confirmed" => m # Notice
  /\ \A m \in Messages :
       m.type \in {"execute_step", "execute_rollback_step", "relay_payload"}
<1>1. \A n \in Steps : RunStep(n).type = "execute_step" /\ RunStep(n).step = n
  BY DEF RunStep
<1>2. \A name \in RollbackNames :
        Undo(name).type = "execute_rollback_step" /\ Undo(name).name = name
  BY DEF Undo
<1>3. \A kind : Relayed(kind).type = "relay_payload" /\ Relayed(kind).kind = kind
  BY DEF Relayed
<1>4. \A x \in RunSteps : x.type = "execute_step"
  BY <1>1 DEF RunSteps
<1>5. \A x \in Undos : x.type = "execute_rollback_step"
  BY <1>2 DEF Undos
<1>6. Notice.type = "relay_payload" /\ Notice.kind = "voting_confirmed"
  BY <1>3 DEF Notice
<1>7. \A n \in Steps : RunStep(n) \in Messages /\ RunStep(n) \in RunSteps
  BY DEF Messages, RunStep, RunSteps
<1>8. \A name \in RollbackNames : Undo(name) \in Messages /\ Undo(name) \in Undos
  BY DEF Messages, Undo, Undos
<1>9. \A kind \in {"tower", "identity", "voting_confirmed"} : Relayed(kind) \in Messages
  BY DEF Messages, Relayed
<1>10. RunSteps \subseteq Messages /\ Undos \subseteq Messages
  BY <1>7, <1>8 DEF RunSteps, Undos
<1>11. ASSUME NEW m \in Messages, m.type = "execute_step"
       PROVE  m.step \in Steps /\ m = RunStep(m.step)
  BY <1>11 DEF Messages, RunStep
<1>12. ASSUME NEW m \in Messages, m.type = "execute_rollback_step"
       PROVE  m.name \in RollbackNames /\ m = Undo(m.name)
  BY <1>12 DEF Messages, Undo
<1>13. ASSUME NEW m \in Messages, m.type = "relay_payload"
       PROVE  /\ m.kind \in {"tower", "identity", "voting_confirmed"}
              /\ m = Relayed(m.kind)
  BY <1>13 DEF Messages, Relayed
<1>14. \A m \in Messages :
         m.type \in {"execute_step", "execute_rollback_step", "relay_payload"}
  BY DEF Messages
<1>15. Notice \in Messages
  BY <1>9 DEF Notice
<1>16. /\ \A n \in Steps : RunStep(n) \notin Undos /\ RunStep(n) # Notice
       /\ \A m, n \in Steps : RunStep(m) = RunStep(n) => m = n
       /\ Undos \cap RunSteps = {} /\ Undos \cap {RunStep(9), Notice} = {}
  BY <1>1, <1>4, <1>5, <1>6
<1>17. \A kind \in {"tower", "identity", "voting_confirmed"} :
         /\ Relayed(kind) \notin RunSteps
         /\ Relayed(kind) \notin Undos /\ Relayed(kind) # RunStep(9)
         /\ kind # "voting_confirmed" => Relayed(kind) # Notice
  BY <1>1, <1>3, <1>4, <1>5, <1>6
<1>18. Notice \notin RunSteps /\ Notice \notin Undos
  BY <1>4, <1>5, <1>6
<1>19. \A m \in Messages : m.type = "execute_step" =>
         m.step \in Steps /\ m = RunStep(m.step) /\ m \in RunSteps /\ m \notin Undos
  BY <1>5, <1>7, <1>11
<1>20. \A m \in Messages : m.type = "execute_rollback_step" =>
         /\ m.name \in RollbackNames /\ m \in Undos /\ m \notin RunSteps
         /\ m # RunStep(9) /\ m # Notice
  BY <1>1, <1>4, <1>6, <1>8, <1>12
<1>21. \A m \in Messages : m.type = "relay_payload" =>
         /\ m.kind \in {"tower", "identity", "voting_confirmed"} /\ m = Relayed(m.kind)
         /\ m \notin RunSteps /\ m \notin Undos /\ m # RunStep(9)
         /\ m.kind # "voting_confirmed" => m # Notice
  BY <1>1, <1>4, <1>5, <1>6, <1>13
<1>22. QED
  BY <1>7, <1>9, <1>10, <1>14, <1>15, <1>16, <1>17, <1>18, <1>19, <1>20, <1>21

\* The kinds of messages to the hub are apart.
LEMMA ReportKinds ==
  /\ Outcomes \subseteq Reports
  /\ \A n \in Steps : StepDone(n) \in Outcomes /\ StepBroken(n) \in Outcomes
                      /\ StepDone(n) # News /\ StepBroken(n) # News
  /\ \A m, n \in Steps : StepDone(m) # StepBroken(n)
  /\ \A m, n \in Steps : StepDone(m) = StepDone(n) => m = n
  /\ \A kind \in {"tower", "identity", "voting_confirmed"} :
       Payload(kind) \in Reports /\ Payload(kind) \notin Outcomes
       /\ \A n \in Steps : Payload(kind) # StepDone(n)
  /\ Payload("tower") # News /\ Payload("identity") # News
  /\ \A m \in Reports : m.type # "encrypted_payload" => m \in Outcomes /\ m # News
  /\ \A m \in Reports : m.type = "encrypted_payload" =>
       /\ m \notin Outcomes /\ m = Payload(m.kind) /\ m # StepDone(8)
       /\ m.kind \in {"tower", "identity", "voting_confirmed"}
  /\ \A m \in Reports : m.type = "step_complete" => m.step \in Steps /\ m = StepDone(m.step)
  /\ \A m \in Reports : m.type = "step_failed" => m.step \in Steps /\ m = StepBroken(m.step)
<1>1. /\ Outcomes \subseteq Reports
      /\ \A n \in Steps : StepDone(n) \in Outcomes /\ StepBroken(n) \in Outcomes
                          /\ StepDone(n) # News /\ StepBroken(n) # News
  BY DEF Outcomes, Reports, StepDone, StepBroken, News, Payload
<1>2. /\ \A m, n \in Steps : StepDone(m) # StepBroken(n)
      /\ \A m, n \in Steps : StepDone(m) = StepDone(n) => m = n
  BY DEF StepDone, StepBroken
<1>3. /\ \A kind \in {"tower", "identity", "voting_confirmed"} :
           Payload(kind) \in Reports /\ Payload(kind) \notin Outcomes
           /\ \A n \in Steps : Payload(kind) # StepDone(n)
      /\ Payload("tower") # News /\ Payload("identity") # News
  BY DEF Outcomes, Reports, StepDone, StepBroken, News, Payload
<1>4. \A m \in Reports : m.type # "encrypted_payload" => m \in Outcomes /\ m # News
  BY DEF Outcomes, Reports, StepDone, StepBroken, News, Payload
<1>5. \A m \in Reports : m.type = "encrypted_payload" =>
        /\ m \notin Outcomes /\ m = Payload(m.kind) /\ m # StepDone(8)
        /\ m.kind \in {"tower", "identity", "voting_confirmed"}
  BY DEF Outcomes, Reports, StepDone, StepBroken, Payload
<1>6. /\ \A m \in Reports : m.type = "step_complete" =>
           m.step \in Steps /\ m = StepDone(m.step)
      /\ \A m \in Reports : m.type = "step_failed" =>
           m.step \in Steps /\ m = StepBroken(m.step)
  BY DEF Reports, StepDone, StepBroken
<1>7. QED
  BY <1>1, <1>2, <1>3, <1>4, <1>5, <1>6

-----------------------------------------------------------------------------
(* Queues: what adding to one, reading from it and cutting it short leave  *)
(* of a kind of message.                                                   *)

\* Adding nothing, or only messages of other kinds, changes nothing.
LEMMA NothingAdded ==
  ASSUME NEW X, NEW s \in Seq(X), NEW t \in Seq(X), NEW S, Filter(t, S) = << >>
  PROVE  Filter(s \o t, S) = Filter(s, S)
<1>1. Filter(s \o t, S) = Filter(s, S) \o Filter(t, S)
  <2>1. \A w \in Seq(X) : Filter(s \o w, S) = Filter(s, S) \o Filter(w, S)
    BY FilterConcat
  <2>2. QED
    BY <2>1
<1>2. Filter(s, S) \in Seq(X \cap S)
  BY FilterElements
<1>3. Filter(s, S) \o << >> = Filter(s, S)
  BY <1>2, ConcatEmptySeq
<1>4. QED
  BY <1>1, <1>3

\* What the hub's messages add to an agent's queue.
LEMMA Delivered ==
  ASSUME Typed, NEW messages, \A r \in Roles : messages[r] \in Seq(Messages),
         Deliver(messages)
  PROVE  /\ toAgent' \in [Roles -> Seq(Messages)]
         /\ \A r \in Roles :
              toAgent'[r] = IF conn[r] = "open" THEN toAgent[r] \o messages[r]
                                                ELSE toAgent[r]
         /\ \A r \in Roles : \A S :
              /\ Filter(messages[r], S) = << >> =>
                   Filter(toAgent'[r], S) = Filter(toAgent[r], S)
              /\ conn[r] # "open" => Filter(toAgent'[r], S) = Filter(toAgent[r], S)
              /\ conn[r] = "open" =>
                   Filter(toAgent'[r], S) = Filter(toAgent[r], S) \o Filter(messages[r], S)
<1>1. /\ \A r \in Roles : toAgent[r] \in Seq(Messages)
      /\ toAgent \in [Roles -> Seq(Messages)]
  BY DEF Typed
<1>2. toAgent' = [r \in Roles |-> IF conn[r] = "open" THEN toAgent[r] \o messages[r]
                                                     ELSE toAgent[r]]
  BY DEF Deliver
<1>3. \A r \in Roles : toAgent[r] \o messages[r] \in Seq(Messages)
  BY <1>1, ConcatProperties
<1>4. toAgent' \in [Roles -> Seq(Messages)]
  BY <1>1, <1>2, <1>3
<1>5. ASSUME NEW r \in Roles
      PROVE  toAgent'[r] = IF conn[r] = "open" THEN toAgent[r] \o messages[r]
                                               ELSE toAgent[r]
  BY <1>2
<1>6. ASSUME NEW r \in Roles, NEW S
      PROVE  /\ Filter(messages[r], S) = << >> =>
                  Filter(toAgent'[r], S) = Filter(toAgent[r], S)
             /\ conn[r] # "open" => Filter(toAgent'[r], S) = Filter(toAgent[r], S)
             /\ conn[r] = "open" =>
                  Filter(toAgent'[r], S) = Filter(toAgent[r], S) \o Filter(messages[r], S)
  <2>1. CASE conn[r] = "open"
    <3>1. toAgent'[r] = toAgent[r] \o messages[r]
      BY <1>5, <2>1
    <3> DEFINE q == toAgent[r]
               t == messages[r]
    <3>2. q \in Seq(Messages) /\ t \in Seq(Messages)
      BY <1>1
    <3> HIDE DEF q, t
    <3>3. Filter(q \o t, S) = Filter(q, S) \o Filter(t, S)
      BY <3>2, FilterConcat
    <3>4. Filter(t, S) = << >> => Filter(q \o t, S) = Filter(q, S)
      BY <3>2, NothingAdded
    <3>5. QED
      BY <2>1, <3>1, <3>3, <3>4 DEF q, t
  <2>2. CASE conn[r] # "open"
    BY <1>5, <2>2
  <2>3. QED
    BY <2>1, <2>2
<1>7. QED
  BY <1>4, <1>5, <1>6

\* What an agent's messages add to its queue, unless they are lost.
LEMMA SentOn ==
  ASSUME Typed, NEW role \in Roles, NEW messages \in Seq(Reports), Send(role, messages)
  PROVE  /\ toHub' \in [Roles -> Seq(Reports)]
         /\ \A r \in Roles : r # role => toHub'[r] = toHub[r]
         /\ hub = "down" => toHub' = toHub
         /\ \A S : \/ Filter(toHub'[role], S) = Filter(toHub[role], S)
                   \/ Filter(toHub'[role], S) =
                        Filter(toHub[role], S) \o Filter(messages, S)
<1>1. toHub \in [Roles -> Seq(Reports)] /\ toHub[role] \in Seq(Reports)
  BY DEF Typed
<1>2. CASE toHub' = toHub
  BY <1>1, <1>2
<1>3. CASE hub # "down" /\ toHub' = [toHub EXCEPT ![role] = @ \o messages]
  <2> DEFINE q == toHub[role]
  <2>1. q \in Seq(Reports) /\ q \o messages \in Seq(Reports)
    BY <1>1, ConcatProperties
  <2>2. toHub' \in [Roles -> Seq(Reports)] /\ toHub'[role] = q \o messages
    BY <1>1, <1>3, <2>1
  <2>3. \A r \in Roles : r # role => toHub'[r] = toHub[r]
    BY <1>1, <1>3
  <2> HIDE DEF q
  <2>4. ASSUME NEW S PROVE Filter(q \o messages, S) = Filter(q, S) \o Filter(messages, S)
    BY <2>1, FilterConcat
  <2>5. \A S : Filter(toHub'[role], S) = Filter(toHub[role], S) \o Filter(messages, S)
    BY <2>2, <2>4 DEF q
  <2>6. QED
    BY <1>3, <2>2, <2>3, <2>5
<1>4. hub = "up" \/ hub = "down"
  BY DEF Typed
<1>5. QED
  BY <1>2, <1>3, <1>4 DEF Send

\* What is left of a cut queue is its beginning, and of a single message of a
\* kind either that or nothing.
LEMMA CutShort ==
  ASSUME NEW X, NEW s \in Seq(X), NEW t \in Prefixes(s)
  PROVE  /\ t \in Seq(X)
         /\ \A S : Filter(s, S) = << >> => Filter(t, S) = << >>
         /\ \A S, e : Filter(s, S) = <<e>> => Filter(t, S) \in {<< >>, <<e>>}
         /\ \A S : Filter(t, S) # << >> =>
              Filter(s, S) # << >> /\ Head(Filter(t, S)) = Head(Filter(s, S))
<1>1. PICK n \in 0 .. Len(s) : t = SubSeq(s, 1, n)
  BY DEF Prefixes
<1>2. QED
  BY <1>1, FilterCut

-----------------------------------------------------------------------------
(* The calls of the orchestrator's methods that a migration makes.         *)

\* The migration goes on as before, and no agent hears of the call.
Stays ==
  /\ orch' \in Orchestrators /\ orch'.state = orch.state /\ SameProgress(orch)
  /\ emitted' \in Seq(Muted)

\* The session fails where it is, with or without a rollback.
GivesUp ==
  /\ orch' \in Orchestrators /\ ~IsTerminal(orch) /\ orch'.state = "FAILED"
  /\ SameProgress(orch)
  /\ emitted' \in Seq(Muted \cup Rollbacks)

\* A step is dispatched.
Begins(step) ==
  /\ orch' \in Orchestrators /\ orch'.state = "MIGRATING" /\ step \in Steps
  /\ orch'.currentStep = step /\ orch'.stepsCompleted = step - 1
  /\ \E a \in Muted : emitted' = <<a, ExecuteStep(step)>>

\* One of the two acknowledgements of a bilateral step is recorded.
Awaits(role) ==
  /\ orch' \in Orchestrators /\ Current \in BilateralSteps
  /\ orch.state = "MIGRATING" /\ orch'.state = "MIGRATING"
  /\ orch'.currentStep = Current /\ orch'.stepsCompleted = orch.stepsCompleted
  /\ \A s \in BilateralSteps :
       orch'.acks[s] = IF s = Current THEN orch.acks[s] \cup {role} ELSE orch.acks[s]
  /\ emitted' \in Seq(Muted)

\* The migration is complete.
Completes ==
  /\ orch' \in Orchestrators /\ Current = TotalSteps
  /\ orch'.state = "COMPLETE" /\ orch'.currentStep = TotalSteps
  /\ emitted' \in Seq(Muted)

\* The current step has every acknowledgement it needs, and they are cleared.
Gate(role) ==
  /\ Current \notin BilateralSteps \/ orch.acks[Current] \cup {role} = Roles
  /\ \A s \in BilateralSteps : orch'.acks[s] = IF s = Current THEN {} ELSE orch.acks[s]

\* startMigration() dispatches the first step.
LEMMA StartCall ==
  ASSUME Typed, HubOK, orch.state = "AWAITING_WINDOW", StartMigration(orch)
  PROVE  Begins(1) /\ orch'.acks = orch.acks
<1>1. orch \in Orchestrators /\ Current = 0 /\ orch.stepsCompleted = 0
  BY DEF Typed, HubOK
<1>2. Starts(orch)
  BY <1>1, StartSays
<1>3. /\ orch' \in Orchestrators /\ orch'.state = "MIGRATING" /\ orch'.currentStep = 1
      /\ orch'.stepsCompleted = 0 /\ orch'.acks = orch.acks
  BY <1>1, StartShape
<1>4. StateChange("AWAITING_WINDOW", "MIGRATING") \in Muted
  BY Addressed DEF States
<1>5. QED
  BY <1>2, <1>3, <1>4 DEF Starts, Begins

\* abort() gives up a migration that has not ended.
LEMMA AbortCall ==
  ASSUME Typed, HubOK, ~IsTerminal(orch), Abort(orch)
  PROVE  GivesUp
<1>1. orch \in Orchestrators /\ orch.state \in States /\ orch.state # "ROLLBACK"
  BY DEF Typed, HubOK, Orchestrators
<1>2. Moved(orch, "FAILED")
  BY <1>1, AbortShape
<1>3. RollsBack(orch, << >>) \/ FailsNow(orch, << >>)
  BY <1>1, AbortSays
<1>4. << >> \in Seq(Muted)
  BY MutedLists
<1>5. RollsBack(orch, << >>) => emitted' \in Seq(Muted \cup Rollbacks)
  BY <1>4, RollingBackSends
<1>6. FailsNow(orch, << >>) => emitted' \in Seq(Muted)
  BY <1>1, <1>4, FailureSends
<1>7. Seq(Muted) \subseteq Seq(Muted \cup Rollbacks)
  BY SeqMonotonic
<1>8. QED
  BY <1>2, <1>3, <1>5, <1>6, <1>7 DEF Moved, GivesUp

\* onAgentDisconnected() gives up a migration or lets it go on.
LEMMA CloseCall ==
  ASSUME Typed, HubOK, ~IsTerminal(orch), NEW role \in Roles,
         OnAgentDisconnected(orch, role)
  PROVE  Stays \/ GivesUp
<1>1. /\ orch \in Orchestrators
      /\ orch.state \notin {"PAIRING", "PREFLIGHT"} /\ orch.state # "FAILED"
  BY DEF Typed, HubOK
<1>2. /\ orch' \in Orchestrators /\ SameProgress(orch)
      /\ orch'.state = orch.state \/ orch'.state = "FAILED"
  BY <1>1, DisconnectedShape
<1>3. Silent(orch) \/ Changes(orch) \/ RollsBack(orch, << >>)
  BY <1>1, DisconnectedSays
<1>4. CASE Silent(orch)
  <2>1. emitted' \in Seq(Muted)
    BY <1>1, <1>4, SilentSends
  <2>2. QED
    BY <1>2, <1>4, <2>1 DEF Silent, Stays
<1>5. CASE Changes(orch)
  <2>1. orch'.state = orch.state
    BY <1>2, <1>5 DEF Changes
  <2>2. <<orch.state, orch.state>> \notin AllowedTransitions
    BY DEF AllowedTransitions
  <2>3. QED
    BY <1>5, <2>1, <2>2 DEF Changes
<1>6. CASE RollsBack(orch, << >>)
  <2>1. emitted' \in Seq(Muted \cup Rollbacks)
    BY <1>6, MutedLists, RollingBackSends
  <2>2. QED
    BY <1>2, <1>6, <2>1 DEF RollsBack, GivesUp
<1>7. QED
  BY <1>3, <1>4, <1>5, <1>6

\* onStepFailed() gives up the migration or ignores the report.
LEMMA BrokenCall ==
  ASSUME Typed, HubOK, ~IsTerminal(orch), NEW step \in Steps, NEW role \in Roles,
         OnStepFailed(orch, step, role)
  PROVE  Stays \/ GivesUp
<1> DEFINE before == <<StepFailedEvent(step, role)>>
<1>1. orch \in Orchestrators /\ orch.state \in States /\ orch.state # "FAILED"
  BY DEF Typed, HubOK, Orchestrators
<1>2. Unchanged(orch) \/ Moved(orch, "FAILED")
  BY <1>1, StepFailedShape
<1>3. Silent(orch) \/ RollsBack(orch, before) \/ FailsNow(orch, before)
  BY <1>1, StepFailedSays
<1>4. before \in Seq(Muted)
  BY Addressed, MutedLists
<1> HIDE DEF before
<1>5. Seq(Muted) \subseteq Seq(Muted \cup Rollbacks)
  BY SeqMonotonic
<1>6. CASE Silent(orch)
  <2>1. emitted' \in Seq(Muted)
    BY <1>1, <1>6, SilentSends
  <2>2. orch'.state = orch.state
    BY <1>6 DEF Silent
  <2>3. QED
    BY <1>1, <1>2, <2>1, <2>2 DEF Unchanged, Moved, Stays
<1>7. CASE RollsBack(orch, before)
  <2>1. emitted' \in Seq(Muted \cup Rollbacks)
    BY <1>4, <1>7, RollingBackSends
  <2>2. orch'.state = "FAILED"
    BY <1>7 DEF RollsBack
  <2>3. QED
    BY <1>1, <1>2, <2>1, <2>2 DEF Unchanged, Moved, GivesUp
<1>8. CASE FailsNow(orch, before)
  <2>1. emitted' \in Seq(Muted \cup Rollbacks)
    BY <1>1, <1>4, <1>5, <1>8, FailureSends
  <2>2. orch'.state = "FAILED"
    BY <1>8 DEF FailsNow
  <2>3. QED
    BY <1>1, <1>2, <2>1, <2>2 DEF Unchanged, Moved, GivesUp
<1>9. QED
  BY <1>3, <1>6, <1>7, <1>8

\* onStepComplete() acts on the current step only: it waits for the other
\* agent, dispatches the next step or completes the migration.
LEMMA DoneCall ==
  ASSUME Typed, HubOK, ~IsTerminal(orch), NEW step \in Steps, NEW role \in Roles,
         OnStepComplete(orch, step, role)
  PROVE  \/ Stays
         \/ /\ orch.state = "MIGRATING" /\ step = Current
            /\ \/ Awaits(role)
               \/ Gate(role) /\ ((Current < TotalSteps /\ Begins(Current + 1)) \/ Completes)
<1>1. /\ orch \in Orchestrators
      /\ orch.state = "MIGRATING" => Current \in Steps /\ orch.stepsCompleted = Current - 1
      /\ orch.state = "MIGRATING" => orch.stepsCompleted < TotalSteps
  BY DEF Typed, HubOK
<1>2. IF orch.state = "MIGRATING" /\ step = Current
      THEN StepReported(orch, step, role) ELSE Unchanged(orch)
  BY <1>1, StepCompleteShape DEF Current
<1>3. \/ Silent(orch) /\ orch'.currentStep = Current
      \/ step = Current /\ (Dispatches(orch) \/ Finishes(orch))
  BY <1>1, StepCompleteSays DEF Current
<1>4. Silent(orch) => emitted' \in Seq(Muted)
  BY <1>1, SilentSends
<1>5. CASE ~(orch.state = "MIGRATING" /\ step = Current)
  <2>1. Unchanged(orch)
    BY <1>2, <1>5
  <2>2. orch'.state = orch.state
    BY <2>1 DEF Unchanged
  <2>3. Silent(orch)
    BY <1>3, <1>5 DEF Dispatches, Finishes
  <2>4. QED
    BY <1>4, <2>1, <2>3 DEF Unchanged, Stays
<1>6. CASE orch.state = "MIGRATING" /\ step = Current
  <2>1. orch' \in Orchestrators /\ (Waits(orch, step, role) \/ Advances(orch, step, role))
    BY <1>2, <1>6 DEF StepReported
  <2>2. CASE Waits(orch, step, role)
    <3>1. /\ step \in BilateralSteps /\ orch'.state = "MIGRATING"
          /\ orch'.currentStep = Current /\ orch'.stepsCompleted = orch.stepsCompleted
          /\ \A s \in BilateralSteps :
               orch'.acks[s] = IF s = step THEN orch.acks[s] \cup {role} ELSE orch.acks[s]
      BY <1>6, <2>2 DEF Waits, Current
    <3>2. Silent(orch)
      BY <1>1, <1>3, <1>6, <3>1 DEF Dispatches, Finishes, Current
    <3>3. QED
      BY <1>4, <1>6, <2>1, <3>1, <3>2 DEF Awaits
  <2>3. CASE Advances(orch, step, role)
    <3>1. Gate(role)
      BY <1>6, <2>3 DEF Advances, Gate
    <3>2. CASE /\ step < TotalSteps /\ orch'.state = "MIGRATING"
               /\ orch'.currentStep = step + 1
      <4>1. Dispatches(orch)
        BY <1>1, <1>3, <1>6, <3>2 DEF Finishes, Current
      <4>2. emitted' = <<StepCompleted(Current), ExecuteStep(Current + 1)>>
        BY <4>1 DEF Dispatches, Current
      <4>3. StepCompleted(Current) \in Muted
        BY <1>6, Addressed
      <4>4. Current + 1 \in Steps /\ orch'.stepsCompleted = (Current + 1) - 1
        BY <1>1, <1>6, <2>3, <3>2 DEF Advances
      <4>5. Begins(Current + 1)
        BY <1>6, <2>1, <3>2, <4>2, <4>3, <4>4 DEF Begins
      <4>6. QED
        BY <1>6, <3>1, <3>2, <4>5
    <3>3. CASE /\ step = TotalSteps /\ orch'.state = "COMPLETE"
               /\ orch'.currentStep = step
      <4>1. Finishes(orch)
        BY <1>3, <1>6, <3>3 DEF Dispatches, Silent
      <4>2. emitted' \in Seq(Muted)
        BY <4>1, FinishSends
      <4>3. QED
        BY <1>6, <2>1, <3>1, <3>3, <4>2 DEF Completes
    <3>4. QED
      BY <2>3, <3>2, <3>3 DEF Advances
  <2>4. QED
    BY <2>1, <2>2, <2>3
<1>7. QED
  BY <1>5, <1>6

-----------------------------------------------------------------------------
(* What those calls send to the agents.                                    *)

\* A call that no agent hears of leaves their queues alone.
LEMMA MutedDelivers ==
  ASSUME Typed, emitted' \in Seq(Muted), DeliverEmitted
  PROVE  toAgent' = toAgent /\ emitted' \in Seq(Events)
<1> DEFINE messages == [r \in Roles |-> MessagesTo(r, emitted')]
<1>1. \A r \in Roles : messages[r] = << >>
  BY MutedMessages
<1>2. Deliver(messages)
  BY DEF DeliverEmitted
<1>3. toAgent \in [Roles -> Seq(Messages)]
  BY DEF Typed
<1> HIDE DEF messages
<1>4. \A r \in Roles : toAgent[r] \o << >> = toAgent[r]
  BY <1>3, ConcatEmptySeq
<1>5. toAgent' = [r \in Roles |-> IF conn[r] = "open" THEN toAgent[r] \o messages[r]
                                                     ELSE toAgent[r]]
  BY <1>2 DEF Deliver
<1>6. toAgent' = [r \in Roles |-> toAgent[r]]
  BY <1>1, <1>4, <1>5
<1>7. toAgent' = toAgent
  BY <1>3, <1>6
<1>8. QED
  BY <1>7, SentAreEvents

\* Giving up adds rollback steps to the queues, and nothing else.
LEMMA GivesUpDelivers ==
  ASSUME Typed, GivesUp, DeliverEmitted
  PROVE  /\ toAgent' \in [Roles -> Seq(Messages)] /\ emitted' \in Seq(Events)
         /\ \A r \in Roles : Ordered(r)' = Ordered(r)
         /\ Notices' = Notices
<1> DEFINE messages == [r \in Roles |-> MessagesTo(r, emitted')]
<1>1. \A r \in Roles : messages[r] \in Seq(Undos)
  BY RollbackMessages DEF GivesUp
<1>2. Deliver(messages)
  BY DEF DeliverEmitted
<1> HIDE DEF messages
<1>3. \A r \in Roles : messages[r] \in Seq(Messages)
  BY <1>1, MessageKinds, SeqMonotonic
<1>4. /\ toAgent' \in [Roles -> Seq(Messages)]
      /\ \A r \in Roles : \A S : Filter(messages[r], S) = << >> =>
           Filter(toAgent'[r], S) = Filter(toAgent[r], S)
  BY <1>2, <1>3, Delivered
<1>5. \A r \in Roles : Filter(messages[r], RunSteps) = << >>
  BY <1>1, MessageKinds, FilterNone
<1>6. Filter(messages["source"], {RunStep(9), Notice}) = << >>
  BY <1>1, MessageKinds, FilterNone
<1>7. \A r \in Roles : Ordered(r)' = Ordered(r)
  BY <1>4, <1>5 DEF Ordered
<1>8. Notices' = Notices
  BY <1>4, <1>6 DEF Notices
<1>9. emitted' \in Seq(Events)
  BY SentAreEvents DEF GivesUp
<1>10. QED
  BY <1>4, <1>7, <1>8, <1>9

\* Dispatching a step adds its order to the queues of its agents.
LEMMA BeginsDelivers ==
  ASSUME Typed, NEW step \in Steps, Begins(step), DeliverEmitted
  PROVE  /\ toAgent' \in [Roles -> Seq(Messages)] /\ emitted' \in Seq(Events)
         /\ \A r \in Roles : ToUndo(r)' = ToUndo(r)
         /\ \A r \in Roles : Ordered(r) = << >> =>
              Ordered(r)' = << >> \/ (step \in StepsOf(r) /\ Ordered(r)' = <<RunStep(step)>>)
         /\ step # 9 => Notices' = Notices
         /\ Notices' # Notices =>
              conn["source"] = "open" /\ Notices' = Notices \o <<RunStep(9)>>
<1>1. PICK a \in Muted : emitted' = <<a, ExecuteStep(step)>>
  BY DEF Begins
<1> DEFINE messages == [r \in Roles |-> MessagesTo(r, emitted')]
           m == RunStep(step)
<1>2. \A r \in Roles : messages[r] = IF step \in StepsOf(r) THEN <<m>> ELSE << >>
  BY <1>1, DispatchMessages
<1>3. Deliver(messages)
  BY DEF DeliverEmitted
<1>4. m \in Messages /\ m \in RunSteps /\ m \notin Undos /\ m # Notice
  BY MessageKinds
<1>5. m = RunStep(9) <=> step = 9
  BY MessageKinds
<1>6. emitted' \in Seq(Events)
  <2>1. a \in Events /\ ExecuteStep(step) \in Events
    BY EventTypes DEF Muted
  <2>2. QED
    BY <1>1, <2>1
<1> HIDE DEF messages, m
<1>7. \A r \in Roles : messages[r] \in Seq(Messages)
  <2>1. << >> \in Seq(Messages) /\ <<m>> \in Seq(Messages)
    BY <1>4
  <2>2. QED
    BY <2>1, <1>2
<1>8. /\ toAgent' \in [Roles -> Seq(Messages)]
      /\ \A r \in Roles : \A S :
           /\ Filter(messages[r], S) = << >> =>
                Filter(toAgent'[r], S) = Filter(toAgent[r], S)
           /\ conn[r] # "open" => Filter(toAgent'[r], S) = Filter(toAgent[r], S)
           /\ conn[r] = "open" =>
                Filter(toAgent'[r], S) = Filter(toAgent[r], S) \o Filter(messages[r], S)
  BY <1>3, <1>7, Delivered
<1>9. \A r \in Roles : \A S :
        Filter(messages[r], S) = IF m \in S /\ step \in StepsOf(r) THEN <<m>> ELSE << >>
  <2>1. \A S : Filter(<<m>>, S) = IF m \in S THEN <<m>> ELSE << >>
    BY <1>4, FilterOne
  <2>2. QED
    BY <1>2, <2>1, FilterEmpty
<1>10. \A r \in Roles : ToUndo(r)' = ToUndo(r)
  BY <1>4, <1>8, <1>9 DEF ToUndo
<1>11. ASSUME NEW r \in Roles, Ordered(r) = << >>
       PROVE  Ordered(r)' = << >> \/ (step \in StepsOf(r) /\ Ordered(r)' = <<m>>)
  <2>1. << >> \o <<m>> = <<m>>
    OBVIOUS
  <2>2. Filter(toAgent[r], RunSteps) = << >>
    BY <1>11 DEF Ordered
  <2>3. Filter(toAgent'[r], RunSteps) = << >>
        \/ (step \in StepsOf(r) /\ Filter(toAgent'[r], RunSteps) = <<m>>)
    BY <1>4, <1>8, <1>9, <2>1, <2>2
  <2>4. QED
    BY <2>3 DEF Ordered
<1>12. step # 9 => Notices' = Notices
  BY <1>4, <1>5, <1>8, <1>9 DEF Notices
<1>13. Notices' # Notices =>
         conn["source"] = "open" /\ Notices' = Notices \o <<RunStep(9)>>
  BY <1>4, <1>5, <1>8, <1>9 DEF Notices
<1>14. QED
  BY <1>6, <1>8, <1>10, <1>11, <1>12, <1>13 DEF m

\* A relayed payload is no order and no rollback step.
LEMMA RelayDelivers ==
  ASSUME Typed, NEW role \in Roles, NEW kind \in {"tower", "identity", "voting_confirmed"},
         Relay(role, kind)
  PROVE  /\ toAgent' \in [Roles -> Seq(Messages)] /\ emitted' \in Seq(Events)
         /\ orch' = orch
         /\ \A r \in Roles : Ordered(r)' = Ordered(r) /\ ToUndo(r)' = ToUndo(r)
         /\ IF role = "target" /\ kind = "voting_confirmed" /\ conn["source"] = "open"
            THEN Notices' = Notices \o <<Notice>> ELSE Notices' = Notices
<1> DEFINE m == Relayed(kind)
           messages == [r \in Roles |-> IF r = Peer(role) THEN <<m>> ELSE << >>]
<1>1. Deliver(messages) /\ orch' = orch /\ emitted' = << >>
  BY DEF Relay
<1>2. \A r \in Roles : messages[r] = IF r = Peer(role) THEN <<m>> ELSE << >>
  OBVIOUS
<1>3. m \in Messages /\ m \notin RunSteps /\ m \notin Undos /\ m # RunStep(9)
  BY MessageKinds
<1>4. m = Notice <=> kind = "voting_confirmed"
  BY MessageKinds DEF Notice
<1> HIDE DEF messages, m
<1>5. \A r \in Roles : messages[r] \in Seq(Messages)
  <2>1. << >> \in Seq(Messages) /\ <<m>> \in Seq(Messages)
    BY <1>3
  <2>2. QED
    BY <2>1, <1>2
<1>6. /\ toAgent' \in [Roles -> Seq(Messages)]
      /\ \A r \in Roles : \A S :
           /\ Filter(messages[r], S) = << >> =>
                Filter(toAgent'[r], S) = Filter(toAgent[r], S)
           /\ conn[r] # "open" => Filter(toAgent'[r], S) = Filter(toAgent[r], S)
           /\ conn[r] = "open" =>
                Filter(toAgent'[r], S) = Filter(toAgent[r], S) \o Filter(messages[r], S)
  BY <1>1, <1>5, Delivered
<1>7. \A r \in Roles : \A S :
        Filter(messages[r], S) = IF m \in S /\ r = Peer(role) THEN <<m>> ELSE << >>
  <2>1. \A S : Filter(<<m>>, S) = IF m \in S THEN <<m>> ELSE << >>
    BY <1>3, FilterOne
  <2>2. QED
    BY <1>2, <2>1, FilterEmpty
<1>8. \A r \in Roles : Ordered(r)' = Ordered(r) /\ ToUndo(r)' = ToUndo(r)
  BY <1>3, <1>6, <1>7 DEF Ordered, ToUndo
<1>9. IF role = "target" /\ kind = "voting_confirmed" /\ conn["source"] = "open"
      THEN Notices' = Notices \o <<Notice>> ELSE Notices' = Notices
  <2>1. "source" = Peer(role) <=> role = "target"
    BY DEF Peer
  <2>2. QED
    BY <1>3, <1>4, <1>6, <1>7, <2>1 DEF Notices
<1>10. QED
  BY <1>1, <1>6, <1>8, <1>9, EventLists

-----------------------------------------------------------------------------
(* Reading a message.                                                      *)

\* The head of a queue is the first of its kind there.
LEMMA FirstOfKind ==
  ASSUME NEW X, NEW s \in Seq(X), s # << >>, NEW S
  PROVE  /\ Head(s) \in X /\ Tail(s) \in Seq(X)
         /\ Head(s) \in S => Filter(s, S) # << >> /\ Head(Filter(s, S)) = Head(s)
         /\ Head(s) \notin S => Filter(Tail(s), S) = Filter(s, S)
<1> DEFINE h == Head(s)
           hs == <<h>>
           v == Filter(Tail(s), S)
<1>1. h \in X /\ Tail(s) \in Seq(X)
  BY FilterHead
<1>2. /\ h \in S => Filter(s, S) = hs \o v
      /\ h \notin S => Filter(s, S) = v
  BY FilterHead
<1>3. hs \in Seq(X) /\ hs # << >> /\ Head(hs) = h
  BY <1>1
<1>4. v \in Seq(X)
  <2>1. v \in Seq(X \cap S) /\ X \cap S \subseteq X
    BY <1>1, FilterElements
  <2>2. QED
    BY <2>1, SeqMonotonic
<1> HIDE DEF h, hs, v
<1>5. hs \o v # << >> /\ Head(hs \o v) = h
  BY <1>3, <1>4, HeadOfConcat
<1>6. QED
  BY <1>1, <1>2, <1>5 DEF h, v

HubReads(role)   == toHub[role] # << >> /\ toHub' = [toHub EXCEPT ![role] = Tail(@)]
AgentReads(role) == toAgent[role] # << >> /\ toAgent' = [toAgent EXCEPT ![role] = Tail(@)]

\* What the hub reads: a result is the only one of its agent, and the first
\* of its kind in the queue.
LEMMA Heard ==
  ASSUME Typed, NEW role \in Roles, OneToken(role), HubReads(role)
  PROVE  LET msg == Head(toHub[role]) IN
         /\ toHub' \in [Roles -> Seq(Reports)] /\ msg \in Reports
         /\ \A r \in Roles : r # role => Told(r)' = Told(r)
         /\ msg \in Outcomes => Told(role) = <<msg>> /\ Told(role)' = << >>
         /\ msg \notin Outcomes => Told(role)' = Told(role)
         /\ role # "target" \/ msg \notin {StepDone(8), News} => NewsOf' = NewsOf
         /\ role = "target" /\ msg \in {StepDone(8), News} =>
              NewsOf # << >> /\ Head(NewsOf) = msg
<1> DEFINE q == toHub[role]
<1>1. toHub \in [Roles -> Seq(Reports)] /\ q \in Seq(Reports) /\ q # << >>
  BY DEF Typed, HubReads
<1>2. /\ toHub'[role] = Tail(q)
      /\ \A r \in Roles : r # role => toHub'[r] = toHub[r]
  BY <1>1 DEF HubReads
<1>3. Head(q) \in Reports /\ Tail(q) \in Seq(Reports)
  BY <1>1, FirstOfKind
<1>4. toHub' \in [Roles -> Seq(Reports)]
  BY <1>1, <1>3 DEF HubReads
<1>5. \E e : Filter(q, Outcomes) \in {<< >>, <<e>>}
  BY DEF OneToken, Idle, AtWork, Told
<1> HIDE DEF q
<1>6. /\ Head(q) \in Outcomes =>
           Filter(q, Outcomes) = <<Head(q)>> /\ Filter(Tail(q), Outcomes) = << >>
      /\ Head(q) \notin Outcomes => Filter(Tail(q), Outcomes) = Filter(q, Outcomes)
  BY <1>1, <1>5, FilterPopOnly
<1>7. /\ Head(q) \in {StepDone(8), News} =>
           /\ Filter(q, {StepDone(8), News}) # << >>
           /\ Head(Filter(q, {StepDone(8), News})) = Head(q)
      /\ Head(q) \notin {StepDone(8), News} =>
           Filter(Tail(q), {StepDone(8), News}) = Filter(q, {StepDone(8), News})
  BY <1>1, FirstOfKind
<1>8. \A r \in Roles : r # role => Told(r)' = Told(r)
  BY <1>2 DEF Told
<1>9. /\ Head(q) \in Outcomes => Told(role) = <<Head(q)>> /\ Told(role)' = << >>
      /\ Head(q) \notin Outcomes => Told(role)' = Told(role)
  BY <1>2, <1>6 DEF Told, q
<1>10. /\ role # "target" => NewsOf' = NewsOf
       /\ role = "target" /\ Head(q) \notin {StepDone(8), News} => NewsOf' = NewsOf
       /\ role = "target" /\ Head(q) \in {StepDone(8), News} =>
            NewsOf # << >> /\ Head(NewsOf) = Head(q)
  BY <1>2, <1>7 DEF NewsOf, q
<1>11. QED
  BY <1>3, <1>4, <1>8, <1>9, <1>10 DEF q

\* What an agent reads: an order is the only one in its queue.
LEMMA Read ==
  ASSUME Typed, NEW role \in Roles, OneToken(role), AgentReads(role)
  PROVE  LET msg == Head(toAgent[role]) IN
         /\ toAgent' \in [Roles -> Seq(Messages)] /\ msg \in Messages
         /\ \A r \in Roles : r # role => Ordered(r)' = Ordered(r) /\ ToUndo(r)' = ToUndo(r)
         /\ msg \in RunSteps => Ordered(role) = <<msg>> /\ Ordered(role)' = << >>
         /\ msg \notin RunSteps => Ordered(role)' = Ordered(role)
         /\ msg \in Undos => ToUndo(role) # << >>
         /\ msg \notin Undos => ToUndo(role)' = ToUndo(role)
         /\ role # "source" \/ msg \notin {RunStep(9), Notice} => Notices' = Notices
         /\ role = "source" /\ msg \in {RunStep(9), Notice} =>
              Notices # << >> /\ Head(Notices) = msg
<1> DEFINE q == toAgent[role]
<1>1. toAgent \in [Roles -> Seq(Messages)] /\ q \in Seq(Messages) /\ q # << >>
  BY DEF Typed, AgentReads
<1>2. /\ toAgent'[role] = Tail(q)
      /\ \A r \in Roles : r # role => toAgent'[r] = toAgent[r]
  BY <1>1 DEF AgentReads
<1>3. Head(q) \in Messages /\ Tail(q) \in Seq(Messages)
  BY <1>1, FirstOfKind
<1>4. toAgent' \in [Roles -> Seq(Messages)]
  BY <1>1, <1>3 DEF AgentReads
<1>5. \E e : Filter(q, RunSteps) \in {<< >>, <<e>>}
  BY DEF OneToken, Idle, AtWork, Ordered
<1> HIDE DEF q
<1>6. /\ Head(q) \in RunSteps =>
           Filter(q, RunSteps) = <<Head(q)>> /\ Filter(Tail(q), RunSteps) = << >>
      /\ Head(q) \notin RunSteps => Filter(Tail(q), RunSteps) = Filter(q, RunSteps)
  BY <1>1, <1>5, FilterPopOnly
<1>7. /\ Head(q) \in {RunStep(9), Notice} =>
           /\ Filter(q, {RunStep(9), Notice}) # << >>
           /\ Head(Filter(q, {RunStep(9), Notice})) = Head(q)
      /\ Head(q) \notin {RunStep(9), Notice} =>
           Filter(Tail(q), {RunStep(9), Notice}) = Filter(q, {RunStep(9), Notice})
  BY <1>1, FirstOfKind
<1>8. /\ Head(q) \in Undos => Filter(q, Undos) # << >>
      /\ Head(q) \notin Undos => Filter(Tail(q), Undos) = Filter(q, Undos)
  BY <1>1, FirstOfKind
<1>9. \A r \in Roles : r # role => Ordered(r)' = Ordered(r) /\ ToUndo(r)' = ToUndo(r)
  BY <1>2 DEF Ordered, ToUndo
<1>10. /\ Head(q) \in RunSteps => Ordered(role) = <<Head(q)>> /\ Ordered(role)' = << >>
       /\ Head(q) \notin RunSteps => Ordered(role)' = Ordered(role)
  BY <1>2, <1>6 DEF Ordered, q
<1>11. /\ Head(q) \in Undos => ToUndo(role) # << >>
       /\ Head(q) \notin Undos => ToUndo(role)' = ToUndo(role)
  BY <1>2, <1>8 DEF ToUndo, q
<1>12. /\ role # "source" => Notices' = Notices
       /\ role = "source" /\ Head(q) \notin {RunStep(9), Notice} => Notices' = Notices
       /\ role = "source" /\ Head(q) \in {RunStep(9), Notice} =>
            Notices # << >> /\ Head(Notices) = Head(q)
  BY <1>2, <1>7 DEF Notices, q
<1>13. QED
  BY <1>3, <1>4, <1>9, <1>10, <1>11, <1>12 DEF q

-----------------------------------------------------------------------------
(* Calls and losses that start nothing: the invariant survives whatever is *)
(* dropped from the queues and the tasks.                                  *)

\* The session's progress stays as it is, and the session too or it fails.
NoProgress ==
  /\ orch' \in Orchestrators /\ SameProgress(orch)
  /\ orch'.state = orch.state \/ orch'.state = "FAILED"

\* Orders, tasks and results stay as they are or go.
TracesDrop ==
  \A r \in Roles : /\ Ordered(r)' = Ordered(r) \/ Ordered(r)' = << >>
                   /\ running'[r] = running[r] \/ running'[r] = {}
                   /\ Told(r)' = Told(r) \/ Told(r)' = << >>

\* A trace that goes leaves its agent idle, and no second one comes.
LEMMA TokenDrops ==
  ASSUME HubOK, TokenInv, NoProgress, TracesDrop
  PROVE  HubOK' /\ TokenInv'
<1>1. /\ orch'.currentStep = Current /\ Current' = Current
      /\ orch'.stepsCompleted = orch.stepsCompleted /\ orch'.acks = orch.acks
      /\ orch'.state = orch.state \/ orch'.state = "FAILED"
  BY DEF NoProgress, SameProgress, Current
<1>2. HubOK'
  BY <1>1 DEF HubOK
<1>3. ASSUME NEW r \in Roles PROVE OneToken(r)'
  <2>1. Idle(r) => Idle(r)'
    BY DEF TracesDrop, Idle
  <2>2. CASE Current \in StepsOf(r) /\ orch.state # "COMPLETE" /\ AtWork(r)
    <3>1. AtWork(r)' \/ Idle(r)'
      BY <1>1, <2>2 DEF TracesDrop, Idle, AtWork
    <3>2. QED
      BY <1>1, <2>2, <3>1 DEF OneToken
  <2>3. QED
    BY <2>1, <2>2 DEF TokenInv, OneToken
<1>4. AcksOK'
  <2>1. \A r \in Roles : Idle(r) => Idle(r)'
    BY DEF TracesDrop, Idle
  <2>2. \A s \in BilateralSteps : orch.acks[s] \subseteq Roles
    BY DEF NoProgress, SameProgress, Orchestrators
  <2>3. QED
    BY <1>1, <2>1, <2>2 DEF AcksOK, TokenInv
<1>5. QED
  BY <1>2, <1>3, <1>4 DEF TokenInv

\* No milestone is passed by losing a result.
LEMMA SucceededDrops ==
  ASSUME NoProgress, NEW r \in Roles, Told(r)' = Told(r) \/ Told(r)' = << >>,
         NEW s \in Steps, Succeeded(s, r)'
  PROVE  Succeeded(s, r)
<1>1. /\ orch'.currentStep = orch.currentStep /\ orch'.acks = orch.acks
      /\ orch'.state = "COMPLETE" => orch.state = "COMPLETE"
  BY DEF NoProgress, SameProgress
<1>2. << >> # <<StepDone(s)>>
  OBVIOUS
<1>3. \/ s < orch'.currentStep \/ orch'.state = "COMPLETE"
      \/ Told(r)' = <<StepDone(s)>>
      \/ s \in BilateralSteps /\ r \in orch'.acks[s]
  BY DEF Succeeded, Current
<1>4. Told(r)' = <<StepDone(s)>> => Told(r) = <<StepDone(s)>>
  BY <1>2
<1>5. QED
  BY <1>1, <1>3, <1>4 DEF Succeeded, Current

\* The milestones of validators that nothing happens to stay reached.
LEMMA MilestonesStand ==
  ASSUME Milestones, NoProgress,
         \A r \in Roles : Told(r)' = Told(r) \/ Told(r)' = << >>,
         UNCHANGED <<identity, voter, tower, keyFile, captured, stale>>,
         KeyThere => KeyThere'
  PROVE  Milestones'
<1>1. \A r \in Roles, s \in Steps : Succeeded(s, r)' => Succeeded(s, r)
  BY SucceededDrops
<1>2. Current' = Current /\ (orch'.state # "FAILED" => orch.state # "FAILED")
  BY DEF NoProgress, SameProgress, Current
<1>3. Forward'
  BY <1>1, <1>2 DEF Milestones, Forward
<1>4. Lasting'
  BY <1>1 DEF Milestones, Lasting
<1>5. NotEarly'
  BY <1>2 DEF Milestones, NotEarly
<1>6. QED
  BY <1>3, <1>4, <1>5 DEF Milestones

\* What is left of the target's news still starts with the confirmation, or
\* the source is notified.
NewsAhead == NewsOf' # << >> => Head(NewsOf') = News \/ Notified

\* The notices keep their head, or all of them go.
NoticesAhead ==
  Notices' # << >> => Notices # << >> /\ Head(Notices') = Head(Notices)

\* The confirmation stays ahead of what it must overtake.
LEMMA NoticeStands ==
  ASSUME NoticeFirst, confirmed => confirmed', NoticesAhead,
         NewsOf' # << >> => NewsAhead /\ (Notified => Notified'),
         9 \in running'["source"] => 9 \in running["source"]
  PROVE  NoticeFirst'
<1>1. NewsOf' # << >> => Head(NewsOf') = News \/ Notified'
  BY DEF NewsAhead
<1>2. Notices' # << >> => Head(Notices') = Notice \/ confirmed'
  BY DEF NoticeFirst, NoticesAhead
<1>3. 9 \in running'["source"] => confirmed'
  BY DEF NoticeFirst
<1>4. QED
  BY <1>1, <1>2, <1>3 DEF NoticeFirst, News, Payload, Notice, Relayed

\* Without anything read or sent, the news stays as it is.
LEMMA NewsStays ==
  ASSUME NoticeFirst, NewsOf' = NewsOf
  PROVE  NewsAhead
  BY DEF NewsAhead, NoticeFirst

\* A source that keeps its queue, or whose socket closes, stays notified.
LEMMA StillNotified ==
  ASSUME confirmed => confirmed', Notified,
         conn'["source"] # "open" \/ (Notices' = Notices /\ conn'["source"] = conn["source"])
  PROVE  Notified'
  BY DEF Notified, Notice, Relayed

\* Rollback steps come with a failure, and go with the process.
LEMMA UndoneDrops ==
  ASSUME UndoneOnlyAfterFailure, orch'.state = orch.state \/ orch'.state = "FAILED",
         \A r \in Roles : orch'.state = "FAILED" \/
                          /\ ToUndo(r)' # << >> => ToUndo(r) # << >>
                          /\ undoing'[r] # {} => undoing[r] # {} \/ ToUndo(r) # << >>
  PROVE  UndoneOnlyAfterFailure'
  BY DEF UndoneOnlyAfterFailure

-----------------------------------------------------------------------------
(* The hub.                                                                *)

\* The hub takes its turn: it reads at most one message, and it sees at most
\* one socket close.
HubTurn ==
  /\ hub = "up" /\ toHub' \in [Roles -> Seq(Reports)]
  /\ conn' \in [Roles -> {"open", "lost", "gone"}]
  /\ \A r \in Roles : conn'[r] = conn[r] \/ conn'[r] # "open"
  /\ \A r \in Roles : Told(r)' = Told(r) \/ Told(r)' = << >>
  /\ UNCHANGED AgentSide

\* The types and the cuts after a turn of the hub.
LEMMA TurnTyped ==
  ASSUME Typed, Cut, HubTurn, orch' \in Orchestrators,
         toAgent' \in [Roles -> Seq(Messages)], emitted' \in Seq(Events)
  PROVE  Typed' /\ Cut'
<1>1. Typed'
  BY DEF Typed, HubTurn, AgentSide, tasks, received, hosts
<1>2. Cut'
  BY DEF Cut, HubTurn, AgentSide
<1>3. QED
  BY <1>1, <1>2

\* A turn that dispatches no step and relays no confirmation.
LEMMA TurnInv ==
  ASSUME IInv, HubTurn, NoProgress, NewsAhead, Notices' = Notices,
         toAgent' \in [Roles -> Seq(Messages)], emitted' \in Seq(Events),
         \A r \in Roles : /\ Ordered(r)' = Ordered(r)
                          /\ ToUndo(r)' = ToUndo(r) \/ orch'.state = "FAILED"
  PROVE  IInv'
<1>1. Typed' /\ Cut'
  BY TurnTyped DEF IInv, NoProgress
<1>2. /\ UNCHANGED <<running, undoing, confirmed>>
      /\ UNCHANGED <<identity, voter, tower, keyFile, captured, stale>>
      /\ KeyThere' = KeyThere
  BY DEF HubTurn, AgentSide, tasks, received, hosts, KeyThere
<1>3. HubOK' /\ TokenInv'
  <2>1. TracesDrop
    BY <1>2 DEF HubTurn, TracesDrop
  <2>2. QED
    BY <2>1, TokenDrops DEF IInv
<1>4. UndoneOnlyAfterFailure'
  BY <1>2, UndoneDrops DEF IInv, NoProgress
<1>5. Milestones'
  BY <1>2, MilestonesStand DEF IInv, HubTurn
<1>6. NoticeFirst'
  <2>1. Notified => Notified'
    BY <1>2, StillNotified DEF HubTurn
  <2>2. NoticesAhead
    BY DEF NoticesAhead
  <2>3. QED
    BY <1>2, <2>1, <2>2, NoticeStands DEF IInv
<1>7. QED
  BY <1>1, <1>3, <1>4, <1>5, <1>6 DEF IInv

\* The steps whose milestones the invariant speaks of, with their agents.
Checked == {<<2, "source">>, <<3, "source">>, <<4, "target">>, <<5, "target">>,
            <<6, "target">>, <<7, "target">>, <<9, "source">>}

\* Every agent is done with the current step, read or about to be read.
AllDone ==
  \A r \in Roles : Ordered(r) = << >> /\ running[r] = {} /\ Told(r)' = << >>

\* Dispatching the next step, once all are done with the last.
LEMMA BeginsInv ==
  ASSUME IInv, HubTurn, conn' = conn, NEW step \in Steps, Begins(step), DeliverEmitted,
         orch.state # "FAILED", Current < step, AllDone,
         \A s \in BilateralSteps : orch'.acks[s] = {},
         \A c \in Checked : c[1] < step => Succeeded(c[1], c[2]),
         NewsAhead, step = 9 => Notified
  PROVE  IInv'
<1>1. /\ toAgent' \in [Roles -> Seq(Messages)] /\ emitted' \in Seq(Events)
      /\ \A r \in Roles : ToUndo(r)' = ToUndo(r)
      /\ \A r \in Roles : Ordered(r)' = << >> \/ (step \in StepsOf(r) /\ Ordered(r)' = <<RunStep(step)>>)
      /\ step # 9 => Notices' = Notices
      /\ Notices' # Notices => conn["source"] = "open" /\ Notices' = Notices \o <<RunStep(9)>>
  BY BeginsDelivers DEF IInv, AllDone
<1>2. /\ UNCHANGED <<running, undoing, confirmed>>
      /\ UNCHANGED <<identity, voter, tower, keyFile, captured, stale>>
      /\ KeyThere' = KeyThere
  BY DEF HubTurn, AgentSide, tasks, received, hosts, KeyThere
<1>3. /\ orch' \in Orchestrators /\ orch'.state = "MIGRATING" /\ Current' = step
      /\ orch'.stepsCompleted = step - 1
  BY DEF Begins, Current
<1>4. Typed' /\ Cut'
  BY <1>1, <1>3, TurnTyped DEF IInv
<1>5. HubOK'
  BY <1>3 DEF HubOK
<1>6. TokenInv'
  <2>1. ASSUME NEW r \in Roles PROVE OneToken(r)'
    <3>1. running'[r] = {} /\ Told(r)' = << >>
      BY <1>2 DEF AllDone
    <3>2. CASE Ordered(r)' = << >>
      BY <3>1, <3>2 DEF OneToken, Idle
    <3>3. CASE step \in StepsOf(r) /\ Ordered(r)' = <<RunStep(step)>>
      <4>1. AtWork(r)'
        BY <1>3, <3>1, <3>3 DEF AtWork
      <4>2. Current' \in StepsOf(r)
        BY <1>3, <3>3
      <4>3. QED
        BY <1>3, <4>1, <4>2 DEF OneToken
    <3>4. QED
      BY <1>1, <3>2, <3>3
  <2>2. AcksOK'
    BY DEF AcksOK
  <2>3. QED
    BY <2>1, <2>2 DEF TokenInv
<1>7. UndoneOnlyAfterFailure'
  BY <1>1, <1>2 DEF IInv, UndoneOnlyAfterFailure
<1>8. Milestones'
  <2>1. ASSUME NEW c \in Checked, Succeeded(c[1], c[2])' PROVE Succeeded(c[1], c[2])
    <3>1. Told(c[2])' = << >> /\ << >> # <<StepDone(c[1])>>
      BY DEF AllDone, Checked
    <3>2. c[1] < step
      BY <1>3, <2>1, <3>1 DEF Succeeded
    <3>3. QED
      BY <3>2
  <2>2. /\ Succeeded(2, "source")' => Succeeded(2, "source")
        /\ Succeeded(3, "source")' => Succeeded(3, "source")
        /\ Succeeded(4, "target")' => Succeeded(4, "target")
        /\ Succeeded(5, "target")' => Succeeded(5, "target")
        /\ Succeeded(6, "target")' => Succeeded(6, "target")
        /\ Succeeded(7, "target")' => Succeeded(7, "target")
        /\ Succeeded(9, "source")' => Succeeded(9, "source")
    <3>1. /\ <<2, "source">> \in Checked /\ <<3, "source">> \in Checked
          /\ <<4, "target">> \in Checked /\ <<5, "target">> \in Checked
          /\ <<6, "target">> \in Checked
          /\ <<7, "target">> \in Checked /\ <<9, "source">> \in Checked
      BY DEF Checked
    <3>2. QED
      BY <2>1, <3>1
  <2>3. Forward'
    BY <1>2, <2>2 DEF IInv, Milestones, Forward
  <2>4. Lasting'
    BY <1>2, <2>2 DEF IInv, Milestones, Lasting
  <2>5. NotEarly'
    <3>1. Current \in Int
      BY DEF IInv, Typed, Orchestrators, Current
    <3>2. QED
      BY <1>2, <1>3, <3>1 DEF IInv, Milestones, NotEarly
  <2>6. QED
    BY <2>3, <2>4, <2>5 DEF Milestones
<1>9. NoticeFirst'
  <2>1. CASE Notices' = Notices
    <3>1. Notified => Notified'
      BY <1>2, <2>1, StillNotified
    <3>2. QED
      BY <1>2, <2>1, <3>1, NoticeStands DEF IInv, NoticesAhead
  <2>2. CASE Notices' # Notices
    <3>1. Notices' = Notices \o <<RunStep(9)>> /\ conn["source"] = "open" /\ Notified
      BY <1>1, <2>2
    <3> DEFINE q == Notices
               m == <<RunStep(9)>>
    <3>2. q \in Seq(Messages)
      <4>1. q \in Seq(Messages \cap {RunStep(9), Notice})
        BY FilterElements DEF IInv, Typed, Notices
      <4>2. Messages \cap {RunStep(9), Notice} \subseteq Messages
        OBVIOUS
      <4>3. QED
        BY <4>1, <4>2, SeqMonotonic
    <3>3. m \in Seq(Messages)
      BY MessageKinds
    <3> HIDE DEF q, m
    <3>4. q # << >> => q \o m # << >> /\ Head(q \o m) = Head(q)
      BY <3>2, <3>3, HeadOfConcat
    <3>5. confirmed \/ (q # << >> /\ Head(q) = Notice)
      BY <3>1 DEF Notified, q
    <3>6. confirmed \/ (Notices' # << >> /\ Head(Notices') = Notice)
      BY <3>1, <3>4, <3>5 DEF q, m
    <3>7. Notified' /\ (Notices' # << >> => Head(Notices') = Notice \/ confirmed')
      BY <1>2, <3>6 DEF Notified, Notice, Relayed
    <3>8. NewsOf' # << >> => Head(NewsOf') = News \/ Notified'
      BY <3>7
    <3>9. 9 \in running'["source"] => confirmed'
      BY <1>2 DEF IInv, NoticeFirst
    <3>10. QED
      BY <3>7, <3>8, <3>9 DEF NoticeFirst, News, Payload, Notice, Relayed
  <2>3. QED
    BY <2>1, <2>2
<1>10. QED
  BY <1>4, <1>5, <1>6, <1>7, <1>8, <1>9 DEF IInv

\* Recording the acknowledgement of an agent that is done with a transfer.
LEMMA AwaitsInv ==
  ASSUME IInv, HubTurn, UNCHANGED <<conn, toAgent>>, NEW role \in Roles, Awaits(role),
         Told(role) = <<StepDone(Current)>>, Told(role)' = << >>,
         \A r \in Roles : r # role => Told(r)' = Told(r),
         NewsAhead
  PROVE  IInv'
<1>1. /\ toAgent' \in [Roles -> Seq(Messages)] /\ emitted' \in Seq(Events)
      /\ \A r \in Roles : Ordered(r)' = Ordered(r) /\ ToUndo(r)' = ToUndo(r)
      /\ Notices' = Notices
  <2>1. emitted' \in Seq(Events)
    BY SentAreEvents DEF Awaits
  <2>2. QED
    BY <2>1 DEF IInv, Typed, Ordered, ToUndo, Notices
<1>2. /\ UNCHANGED <<running, undoing, confirmed>>
      /\ UNCHANGED <<identity, voter, tower, keyFile, captured, stale>>
      /\ KeyThere' = KeyThere
  BY DEF HubTurn, AgentSide, tasks, received, hosts, KeyThere
<1>3. /\ orch' \in Orchestrators /\ orch'.state = "MIGRATING" /\ orch.state = "MIGRATING"
      /\ Current' = Current /\ orch'.currentStep = Current
      /\ orch'.stepsCompleted = orch.stepsCompleted
      /\ Current \in BilateralSteps
      /\ \A s \in BilateralSteps :
           orch'.acks[s] = IF s = Current THEN orch.acks[s] \cup {role} ELSE orch.acks[s]
  BY DEF Awaits, Current
<1>4. Typed' /\ Cut'
  BY <1>1, <1>3, TurnTyped DEF IInv
<1>5. HubOK'
  BY <1>3 DEF IInv, HubOK
<1>6. \A r \in Roles : OneToken(r)
  BY DEF IInv, TokenInv
<1>7. Ordered(role) = << >> /\ running[role] = {}
  <2>1. << >> # <<StepDone(Current)>>
    OBVIOUS
  <2>2. QED
    BY <1>6, <2>1 DEF OneToken, Idle, AtWork
<1>8. Idle(role)'
  BY <1>1, <1>2, <1>7 DEF Idle
<1>9. \A r \in Roles : Idle(r) => Idle(r)'
  BY <1>1, <1>2, <1>8 DEF Idle
<1>10. TokenInv'
  <2>1. ASSUME NEW r \in Roles, r # role PROVE OneToken(r)'
    <3>1. AtWork(r) => AtWork(r)'
      BY <1>1, <1>2, <1>3, <2>1 DEF AtWork
    <3>2. QED
      BY <1>3, <1>6, <1>9, <3>1 DEF OneToken
  <2>2. OneToken(role)'
    BY <1>8 DEF OneToken
  <2>3. AcksOK'
    <3>1. \A s \in BilateralSteps : orch.acks[s] \subseteq Roles
      BY DEF IInv, Typed, Orchestrators
    <3>2. QED
      BY <1>3, <1>8, <1>9, <3>1 DEF IInv, TokenInv, AcksOK
  <2>4. QED
    BY <2>1, <2>2, <2>3 DEF TokenInv
<1>11. UndoneOnlyAfterFailure'
  BY <1>1, <1>2, <1>3 DEF IInv, UndoneOnlyAfterFailure
<1>12. Milestones'
  <2>1. ASSUME NEW s \in Steps, NEW r \in Roles, Succeeded(s, r)' PROVE Succeeded(s, r)
    <3>1. \/ s < Current \/ Told(r)' = <<StepDone(s)>>
          \/ s \in BilateralSteps /\ r \in orch'.acks[s]
      BY <1>3, <2>1 DEF Succeeded
    <3>2. Told(r)' = <<StepDone(s)>> => Told(r) = <<StepDone(s)>>
      <4>1. << >> # <<StepDone(s)>>
        OBVIOUS
      <4>2. QED
        BY <4>1
    <3>3. CASE s \in BilateralSteps /\ r \in orch'.acks[s]
      <4>1. r \in orch.acks[s] \/ (s = Current /\ r = role)
        BY <1>3, <3>3
      <4>2. QED
        BY <3>3, <4>1 DEF Succeeded
    <3>4. QED
      BY <3>1, <3>2, <3>3 DEF Succeeded
  <2>2. Forward'
    BY <1>2, <1>3, <2>1 DEF IInv, Milestones, Forward
  <2>3. Lasting'
    BY <1>2, <2>1 DEF IInv, Milestones, Lasting
  <2>4. NotEarly'
    BY <1>2, <1>3 DEF IInv, Milestones, NotEarly
  <2>5. QED
    BY <2>2, <2>3, <2>4 DEF Milestones
<1>13. NoticeFirst'
  <2>1. Notified => Notified'
    BY <1>1, <1>2, StillNotified
  <2>2. QED
    BY <1>1, <1>2, <2>1, NoticeStands DEF IInv, NoticesAhead
<1>14. QED
  BY <1>4, <1>5, <1>10, <1>11, <1>12, <1>13 DEF IInv

\* Completing the session, once the source has wiped its key.
LEMMA CompletesInv ==
  ASSUME IInv, HubTurn, UNCHANGED <<conn, toAgent>>, Completes, orch.state # "FAILED",
         AllDone, \A s \in BilateralSteps : orch'.acks[s] = {},
         Succeeded(9, "source"), NewsAhead
  PROVE  IInv'
<1>1. /\ toAgent' \in [Roles -> Seq(Messages)] /\ emitted' \in Seq(Events)
      /\ \A r \in Roles : Ordered(r)' = Ordered(r) /\ ToUndo(r)' = ToUndo(r)
      /\ Notices' = Notices
  <2>1. emitted' \in Seq(Events)
    BY SentAreEvents DEF Completes
  <2>2. QED
    BY <2>1 DEF IInv, Typed, Ordered, ToUndo, Notices
<1>2. /\ UNCHANGED <<running, undoing, confirmed>>
      /\ UNCHANGED <<identity, voter, tower, keyFile, captured, stale>>
      /\ KeyThere' = KeyThere
  BY DEF HubTurn, AgentSide, tasks, received, hosts, KeyThere
<1>3. /\ orch' \in Orchestrators /\ orch'.state = "COMPLETE"
      /\ Current = 9 /\ Current' = 9
  BY DEF Completes, Current
<1>4. Typed' /\ Cut'
  BY <1>1, <1>3, TurnTyped DEF IInv
<1>5. HubOK'
  BY <1>3 DEF HubOK
<1>6. TokenInv'
  <2>1. \A r \in Roles : Idle(r)'
    BY <1>1, <1>2 DEF AllDone, Idle
  <2>2. QED
    BY <2>1 DEF TokenInv, OneToken, AcksOK
<1>7. UndoneOnlyAfterFailure'
  BY <1>1, <1>2 DEF IInv, UndoneOnlyAfterFailure
<1>8. Milestones'
  <2>1. /\ Succeeded(2, "source") /\ Succeeded(3, "source") /\ Succeeded(4, "target")
        /\ Succeeded(5, "target") /\ Succeeded(6, "target") /\ Succeeded(7, "target")
    BY <1>3 DEF Succeeded
  <2>2. Forward'
    BY <1>2, <2>1 DEF IInv, Milestones, Forward
  <2>3. Lasting'
    BY <1>2, <2>1 DEF IInv, Milestones, Lasting
  <2>4. NotEarly'
    BY <1>3 DEF NotEarly
  <2>5. QED
    BY <2>2, <2>3, <2>4 DEF Milestones
<1>9. NoticeFirst'
  <2>1. Notified => Notified'
    BY <1>1, <1>2, StillNotified
  <2>2. QED
    BY <1>1, <1>2, <2>1, NoticeStands DEF IInv, NoticesAhead
<1>10. QED
  BY <1>4, <1>5, <1>6, <1>7, <1>8, <1>9 DEF IInv

\* Relaying the target's confirmation to the source.
LEMMA NewsRelayedInv ==
  ASSUME IInv, HubTurn, conn' = conn, Relay("target", "voting_confirmed")
  PROVE  IInv'
<1>1. /\ toAgent' \in [Roles -> Seq(Messages)] /\ emitted' \in Seq(Events)
      /\ orch' = orch
      /\ \A r \in Roles : Ordered(r)' = Ordered(r) /\ ToUndo(r)' = ToUndo(r)
      /\ IF conn["source"] = "open"
         THEN Notices' = Notices \o <<Notice>> ELSE Notices' = Notices
  BY RelayDelivers DEF IInv
<1>2. /\ UNCHANGED <<running, undoing, confirmed>>
      /\ UNCHANGED <<identity, voter, tower, keyFile, captured, stale>>
      /\ KeyThere' = KeyThere
  BY DEF HubTurn, AgentSide, tasks, received, hosts, KeyThere
<1>3. NoProgress /\ orch' \in Orchestrators
  BY <1>1 DEF IInv, Typed, NoProgress, SameProgress
<1>4. Typed' /\ Cut'
  BY <1>1, <1>3, TurnTyped DEF IInv
<1>5. HubOK' /\ TokenInv'
  <2>1. TracesDrop
    BY <1>1, <1>2 DEF HubTurn, TracesDrop
  <2>2. QED
    BY <1>3, <2>1, TokenDrops DEF IInv
<1>6. UndoneOnlyAfterFailure'
  BY <1>1, <1>2 DEF IInv, UndoneOnlyAfterFailure
<1>7. Milestones'
  BY <1>2, <1>3, MilestonesStand DEF IInv, HubTurn
<1>8. Notified' /\ (Notices' # << >> => Head(Notices') = Notice \/ confirmed')
  <2>1. CASE conn["source"] # "open"
    <3>1. Notices' = Notices
      BY <1>1, <2>1
    <3>2. Notices # << >> => Head(Notices) = Notice \/ confirmed
      BY DEF IInv, NoticeFirst
    <3>3. QED
      BY <1>2, <2>1, <3>1, <3>2 DEF Notified, Notice, Relayed
  <2>2. CASE conn["source"] = "open"
    <3> DEFINE q == Notices
               m == <<Notice>>
    <3>1. Notices' = q \o m
      BY <1>1, <2>2
    <3>2. q \in Seq(Messages)
      <4>1. q \in Seq(Messages \cap {RunStep(9), Notice})
        BY FilterElements DEF IInv, Typed, Notices
      <4>2. Messages \cap {RunStep(9), Notice} \subseteq Messages
        OBVIOUS
      <4>3. QED
        BY <4>1, <4>2, SeqMonotonic
    <3>3. m \in Seq(Messages) /\ Head(m) = Notice /\ m # << >>
      BY MessageKinds
    <3>4. q # << >> => Head(q) = Notice \/ confirmed
      BY DEF IInv, NoticeFirst
    <3> HIDE DEF q, m
    <3>5. q # << >> => q \o m # << >> /\ Head(q \o m) = Head(q)
      BY <3>2, <3>3, HeadOfConcat
    <3>6. q = << >> => q \o m = m
      BY <3>3, ConcatEmptySeq
    <3>7. q \o m # << >> /\ (Head(q \o m) = Notice \/ confirmed)
      BY <3>3, <3>4, <3>5, <3>6
    <3>8. QED
      BY <1>2, <3>1, <3>7 DEF Notified, Notice, Relayed
  <2>3. QED
    BY <2>1, <2>2
<1>9. NoticeFirst'
  <2>1. NewsOf' # << >> => Head(NewsOf') = News \/ Notified'
    BY <1>8
  <2>2. 9 \in running'["source"] => confirmed'
    BY <1>2 DEF IInv, NoticeFirst
  <2>3. QED
    BY <1>8, <2>1, <2>2 DEF NoticeFirst, News, Payload, Notice, Relayed
<1>10. QED
  BY <1>4, <1>5, <1>6, <1>7, <1>9 DEF IInv

\* A turn in which the hub reads nothing.
LEMMA UnreadTurn ==
  ASSUME IInv, hub = "up", UNCHANGED <<toHub, AgentSide>>,
         conn' \in [Roles -> {"open", "lost", "gone"}],
         \A r \in Roles : conn'[r] = conn[r] \/ conn'[r] # "open"
  PROVE  HubTurn /\ NewsAhead /\ \A r \in Roles : Told(r)' = Told(r)
<1>1. toHub' \in [Roles -> Seq(Reports)] /\ NewsOf' = NewsOf
      /\ \A r \in Roles : Told(r)' = Told(r)
  BY DEF IInv, Typed, NewsOf, Told
<1>2. NewsAhead
  BY <1>1, NewsStays DEF IInv
<1>3. HubTurn
  BY <1>1 DEF HubTurn
<1>4. QED
  BY <1>1, <1>2, <1>3

\* Nothing sent: the queues of the agents hold what they held.
LEMMA SameQueues ==
  ASSUME Typed, toAgent' = toAgent
  PROVE  /\ toAgent' \in [Roles -> Seq(Messages)] /\ Notices' = Notices
         /\ \A r \in Roles : Ordered(r)' = Ordered(r) /\ ToUndo(r)' = ToUndo(r)
  BY DEF Typed, Ordered, ToUndo, Notices

\* A turn that gives the migration up, or lets it go on.
LEMMA CallInv ==
  ASSUME IInv, HubTurn, NewsAhead, Stays \/ GivesUp, DeliverEmitted
  PROVE  IInv'
<1>1. CASE Stays
  <2>1. toAgent' = toAgent /\ emitted' \in Seq(Events)
    BY <1>1, MutedDelivers DEF IInv, Stays
  <2>2. NoProgress
    BY <1>1 DEF Stays, NoProgress
  <2>3. QED
    BY <2>1, <2>2, SameQueues, TurnInv DEF IInv
<1>2. CASE GivesUp
  <2>1. /\ toAgent' \in [Roles -> Seq(Messages)] /\ emitted' \in Seq(Events)
        /\ \A r \in Roles : Ordered(r)' = Ordered(r)
        /\ Notices' = Notices
    BY <1>2, GivesUpDelivers DEF IInv
  <2>2. NoProgress /\ orch'.state = "FAILED"
    BY <1>2 DEF GivesUp, NoProgress
  <2>3. QED
    BY <2>1, <2>2, TurnInv
<1>3. QED
  BY <1>1, <1>2

\* A turn that ignores what was read: the session has ended.
LEMMA IgnoredInv ==
  ASSUME IInv, HubTurn, NewsAhead, orch' = orch, emitted' = << >>, toAgent' = toAgent
  PROVE  IInv'
<1>1. NoProgress
  BY DEF IInv, Typed, NoProgress, SameProgress
<1>2. emitted' \in Seq(Events)
  BY EventLists
<1>3. QED
  BY <1>1, <1>2, SameQueues, TurnInv DEF IInv

\* The operator's start dispatches step 1 to agents that have done nothing.
LEMMA OperatorStartInv ==
  ASSUME IInv, hub = "up", OperatorStart
  PROVE  IInv'
<1>1. /\ orch.state = "AWAITING_WINDOW" /\ StartMigration(orch) /\ DeliverEmitted
      /\ UNCHANGED <<conn, toHub, AgentSide>>
  BY DEF OperatorStart
<1>2. Begins(1) /\ orch'.acks = orch.acks
  BY <1>1, StartCall DEF IInv
<1>3. HubTurn /\ NewsAhead /\ \A r \in Roles : Told(r)' = Told(r)
  BY <1>1, UnreadTurn DEF IInv, Typed
<1>4. Current = 0
  BY <1>1 DEF IInv, HubOK
<1>5. \A r \in Roles : Idle(r)
  <2>1. \A r \in Roles : 0 \notin StepsOf(r)
    BY DEF StepsOf
  <2>2. QED
    BY <1>4, <2>1 DEF IInv, TokenInv, OneToken
<1>6. AllDone
  BY <1>3, <1>5 DEF AllDone, Idle
<1>7. \A s \in BilateralSteps : orch'.acks[s] = {}
  <2>1. \A s \in BilateralSteps : s # Current
    BY <1>4
  <2>2. QED
    BY <1>2, <2>1 DEF IInv, TokenInv, AcksOK
<1>8. \A c \in Checked : ~(c[1] < 1)
  BY DEF Checked
<1>9. QED
  BY <1>1, <1>2, <1>3, <1>4, <1>6, <1>7, <1>8, BeginsInv

\* The operator's abort only gives the migration up.
LEMMA OperatorAbortInv ==
  ASSUME IInv, hub = "up", OperatorAbort
  PROVE  IInv'
<1>1. /\ ~IsTerminal(orch) /\ Abort(orch) /\ DeliverEmitted
      /\ UNCHANGED <<conn, toHub, AgentSide>>
  BY DEF OperatorAbort
<1>2. GivesUp
  BY <1>1, AbortCall DEF IInv
<1>3. HubTurn /\ NewsAhead
  BY <1>1, UnreadTurn DEF IInv, Typed
<1>4. QED
  BY <1>1, <1>2, <1>3, CallInv

\* The close of a socket gives the migration up or lets it go on.
LEMMA HubSeesCloseInv ==
  ASSUME IInv, hub = "up", NEW role \in Roles, HubSeesClose(role)
  PROVE  IInv'
<1>1. conn' = [conn EXCEPT ![role] = "gone"] /\ UNCHANGED <<toHub, AgentSide>>
  BY DEF HubSeesClose
<1>2. HubTurn /\ NewsAhead
  <2>1. conn \in [Roles -> {"open", "lost", "gone"}]
    BY DEF IInv, Typed
  <2>2. /\ conn' \in [Roles -> {"open", "lost", "gone"}]
        /\ \A r \in Roles : conn'[r] = conn[r] \/ conn'[r] # "open"
    BY <1>1, <2>1
  <2>3. QED
    BY <1>1, <2>2, UnreadTurn
<1>3. CASE IsTerminal(orch)
  BY <1>2, <1>3, IgnoredInv DEF HubSeesClose
<1>4. CASE ~IsTerminal(orch)
  <2>1. OnAgentDisconnected(orch, role) /\ DeliverEmitted
    BY <1>4 DEF HubSeesClose
  <2>2. Stays \/ GivesUp
    BY <1>4, <2>1, CloseCall DEF IInv
  <2>3. QED
    BY <1>2, <2>1, <2>2, CallInv
<1>5. QED
  BY <1>3, <1>4

\* A result of the current step, read while the migration runs: the other
\* agent is waited for, the next step dispatched, or the session completed.
LEMMA DoneInv ==
  ASSUME IInv, HubTurn, UNCHANGED conn, NewsAhead, DeliverEmitted,
         NEW role \in Roles, orch.state = "MIGRATING",
         Told(role) = <<StepDone(Current)>>, Told(role)' = << >>,
         \A r \in Roles : r # role => Told(r)' = Told(r),
         role = "target" /\ Current = 8 => Notified,
         \/ Awaits(role)
         \/ Gate(role) /\ ((Current < TotalSteps /\ Begins(Current + 1)) \/ Completes)
  PROVE  IInv'
<1>1. CASE Awaits(role)
  <2>1. toAgent' = toAgent
    BY <1>1, MutedDelivers DEF IInv, Awaits
  <2>2. QED
    BY <1>1, <2>1, AwaitsInv
<1>2. CASE Gate(role) /\ ((Current < TotalSteps /\ Begins(Current + 1)) \/ Completes)
  <2>1. << >> # <<StepDone(Current)>>
    OBVIOUS
  <2>2. \A r \in Roles : OneToken(r)
    BY DEF IInv, TokenInv
  <2>3. Ordered(role) = << >> /\ running[role] = {} /\ Current \in StepsOf(role)
    BY <2>1, <2>2 DEF OneToken, Idle, AtWork
  <2>4. Current \in Steps
    BY DEF IInv, HubOK
  <2>5. ASSUME NEW r \in Roles, r # role PROVE Idle(r)
    <3>1. CASE Current \in BilateralSteps
      <4>1. r \in orch.acks[Current]
        BY <1>2, <2>5, <3>1 DEF Gate
      <4>2. QED
        BY <3>1, <4>1 DEF IInv, TokenInv, AcksOK
    <3>2. CASE Current \notin BilateralSteps
      <4>1. Current \notin StepsOf(r)
        BY <2>3, <2>4, <2>5, <3>2 DEF StepsOf
      <4>2. QED
        BY <2>2, <4>1 DEF OneToken
    <3>3. QED
      BY <3>1, <3>2
  <2>6. AllDone
    BY <2>3, <2>5 DEF AllDone, Idle
  <2>7. \A s \in BilateralSteps : orch'.acks[s] = {}
    <3>1. \A s \in BilateralSteps : orch.acks[s] \subseteq Roles
      BY DEF IInv, Typed, Orchestrators
    <3>2. \A s \in BilateralSteps : s # Current => orch.acks[s] = {}
      BY <3>1 DEF IInv, TokenInv, AcksOK
    <3>3. QED
      BY <1>2, <3>2 DEF Gate
  <2>8. ASSUME NEW c \in Checked, c[1] < Current + 1 PROVE Succeeded(c[1], c[2])
    <3>1. c[1] \in StepsOf(c[2]) /\ c[2] \in Roles /\ c[1] \in Steps
      BY DEF Checked, StepsOf
    <3>2. CASE c[1] < Current
      BY <3>2 DEF Succeeded
    <3>3. CASE c[1] = Current /\ c[2] = role
      BY <3>3 DEF Succeeded
    <3>4. CASE c[1] = Current /\ c[2] # role
      <4>1. Current \in BilateralSteps
        BY <2>3, <2>4, <3>1, <3>4 DEF StepsOf
      <4>2. c[2] \in orch.acks[Current]
        BY <1>2, <3>1, <3>4, <4>1 DEF Gate
      <4>3. QED
        BY <3>4, <4>1, <4>2 DEF Succeeded
    <3>5. QED
      BY <2>4, <2>8, <3>1, <3>2, <3>3, <3>4
  <2>9. CASE Current < TotalSteps /\ Begins(Current + 1)
    <3>1. Current + 1 = 9 => role = "target" /\ Current = 8
      BY <2>3, <2>4 DEF StepsOf
    <3>2. Current + 1 \in Steps /\ Current < Current + 1 /\ orch.state # "FAILED"
      BY <2>4, <2>9
    <3>3. QED
      BY <2>6, <2>7, <2>8, <2>9, <3>1, <3>2, BeginsInv
  <2>10. CASE Completes
    <3>1. Current = 9
      BY <2>10 DEF Completes
    <3>2. Succeeded(9, "source")
      <4>1. <<9, "source">> \in Checked /\ 9 < Current + 1
        BY <3>1 DEF Checked
      <4>2. QED
        BY <2>8, <4>1
    <3>3. toAgent' = toAgent
      BY <2>10, MutedDelivers DEF IInv, Completes
    <3>4. QED
      BY <2>6, <2>7, <2>10, <3>2, <3>3, CompletesInv
  <2>11. QED
    BY <1>2, <2>9, <2>10
<1>3. QED
  BY <1>1, <1>2

\* Whatever the hub reads from an agent preserves the invariant.
LEMMA HubReceivesInv ==
  ASSUME IInv, hub = "up", NEW role \in Roles, HubReceives(role)
  PROVE  IInv'
<1> DEFINE msg == Head(toHub[role])
<1>1. HubReads(role) /\ UNCHANGED <<conn, AgentSide>>
  BY DEF HubReceives, HubReads
<1>2. OneToken(role) /\ Typed
  BY DEF IInv, TokenInv
<1>3. /\ toHub' \in [Roles -> Seq(Reports)] /\ msg \in Reports
      /\ \A r \in Roles : r # role => Told(r)' = Told(r)
      /\ msg \in Outcomes => Told(role) = <<msg>> /\ Told(role)' = << >>
      /\ msg \notin Outcomes => Told(role)' = Told(role)
      /\ role # "target" \/ msg \notin {StepDone(8), News} => NewsOf' = NewsOf
      /\ role = "target" /\ msg \in {StepDone(8), News} =>
           NewsOf # << >> /\ Head(NewsOf) = msg
  BY <1>1, <1>2, Heard
<1>4. HubTurn
  <2>1. conn \in [Roles -> {"open", "lost", "gone"}]
    BY <1>2 DEF Typed
  <2>2. \A r \in Roles : Told(r)' = Told(r) \/ Told(r)' = << >>
    BY <1>3
  <2>3. QED
    BY <1>1, <1>3, <2>1, <2>2 DEF HubTurn
<1>5. \/ msg.type = "encrypted_payload" /\ Relay(role, msg.kind)
      \/ /\ msg.type # "encrypted_payload" /\ IsTerminal(orch)
         /\ orch' = orch /\ emitted' = << >> /\ UNCHANGED toAgent
      \/ /\ msg.type = "step_complete" /\ ~IsTerminal(orch)
         /\ OnStepComplete(orch, msg.step, role) /\ DeliverEmitted
      \/ /\ msg.type = "step_failed" /\ ~IsTerminal(orch)
         /\ OnStepFailed(orch, msg.step, role) /\ DeliverEmitted
  BY DEF HubReceives
<1> HIDE DEF msg
\* A result of step 8 is read only when the source is notified.
<1>6. msg # News => NewsAhead /\ (role = "target" /\ msg = StepDone(8) => Notified)
  <2>1. role = "target" /\ msg = StepDone(8) => Notified
    <3>1. StepDone(8) # News
      BY ReportKinds
    <3>2. QED
      BY <1>3, <3>1 DEF IInv, NoticeFirst
  <2>2. ASSUME msg # News PROVE NewsAhead
    <3>1. CASE role = "target" /\ msg = StepDone(8)
      BY <2>1, <3>1 DEF NewsAhead
    <3>2. CASE ~(role = "target" /\ msg = StepDone(8))
      BY <1>3, <2>2, <3>2, NewsStays DEF IInv
    <3>3. QED
      BY <3>1, <3>2
  <2>3. QED
    BY <2>1, <2>2
<1>7. CASE msg.type = "encrypted_payload" /\ Relay(role, msg.kind)
  <2>1. /\ msg \notin Outcomes /\ msg = Payload(msg.kind) /\ msg # StepDone(8)
        /\ msg.kind \in {"tower", "identity", "voting_confirmed"}
    BY <1>3, <1>7, ReportKinds
  <2>2. CASE role = "target" /\ msg.kind = "voting_confirmed"
    BY <1>1, <1>4, <1>7, <2>2, NewsRelayedInv
  <2>3. CASE ~(role = "target" /\ msg.kind = "voting_confirmed")
    <3>1. NewsOf' = NewsOf
      <4>1. msg.kind # "voting_confirmed" => msg # News
        BY <2>1, ReportKinds
      <4>2. QED
        BY <1>3, <2>1, <2>3, <4>1
    <3>2. NewsAhead
      BY <3>1, NewsStays DEF IInv
    <3>3. /\ toAgent' \in [Roles -> Seq(Messages)] /\ emitted' \in Seq(Events)
          /\ orch' = orch
          /\ \A r \in Roles : Ordered(r)' = Ordered(r) /\ ToUndo(r)' = ToUndo(r)
          /\ Notices' = Notices
      BY <1>2, <1>7, <2>1, <2>3, RelayDelivers
    <3>4. NoProgress
      BY <1>2, <3>3 DEF Typed, NoProgress, SameProgress
    <3>5. QED
      BY <1>4, <3>2, <3>3, <3>4, TurnInv
  <2>4. QED
    BY <2>2, <2>3
<1>8. CASE /\ msg.type # "encrypted_payload" /\ IsTerminal(orch)
           /\ orch' = orch /\ emitted' = << >> /\ UNCHANGED toAgent
  <2>1. msg # News
    BY <1>3, <1>8, ReportKinds
  <2>2. QED
    BY <1>4, <1>6, <1>8, <2>1, IgnoredInv
<1>9. CASE /\ msg.type = "step_complete" /\ ~IsTerminal(orch)
           /\ OnStepComplete(orch, msg.step, role) /\ DeliverEmitted
  <2>1. msg.step \in Steps /\ msg = StepDone(msg.step) /\ msg \in Outcomes /\ msg # News
    BY <1>3, <1>9, ReportKinds
  <2>2. NewsAhead
    BY <1>6, <2>1
  <2>3. \/ Stays
        \/ /\ orch.state = "MIGRATING" /\ msg.step = Current
           /\ \/ Awaits(role)
              \/ Gate(role) /\ ((Current < TotalSteps /\ Begins(Current + 1)) \/ Completes)
    BY <1>2, <1>9, <2>1, DoneCall DEF IInv
  <2>4. CASE Stays
    BY <1>4, <1>9, <2>2, <2>4, CallInv
  <2>5. CASE /\ orch.state = "MIGRATING" /\ msg.step = Current
             /\ \/ Awaits(role)
                \/ Gate(role) /\ ((Current < TotalSteps /\ Begins(Current + 1)) \/ Completes)
    <3>1. Told(role) = <<StepDone(Current)>> /\ Told(role)' = << >>
      BY <1>3, <2>1, <2>5
    <3>2. role = "target" /\ Current = 8 => Notified
      BY <1>6, <2>1, <2>5
    <3>3. QED
      BY <1>1, <1>3, <1>4, <1>9, <2>2, <2>5, <3>1, <3>2, DoneInv
  <2>6. QED
    BY <2>3, <2>4, <2>5
<1>10. CASE /\ msg.type = "step_failed" /\ ~IsTerminal(orch)
            /\ OnStepFailed(orch, msg.step, role) /\ DeliverEmitted
  <2>1. msg.step \in Steps /\ msg = StepBroken(msg.step) /\ msg # News
    BY <1>3, <1>10, ReportKinds
  <2>2. Stays \/ GivesUp
    BY <1>2, <1>10, <2>1, BrokenCall DEF IInv
  <2>3. QED
    BY <1>4, <1>6, <1>10, <2>1, <2>2, CallInv
<1>11. QED
  BY <1>5, <1>7, <1>8, <1>9, <1>10

-----------------------------------------------------------------------------
(* Losing the hub, or an agent.                                            *)

\* A step in which the session does not change, nothing is dispatched or
\* reported, and nothing happens to the validators.
LEMMA StandInv ==
  ASSUME IInv, orch' = orch, Typed', Cut', TracesDrop,
         UNCHANGED <<identity, voter, tower, keyFile, captured, stale>>,
         KeyThere => KeyThere',
         \A r \in Roles : /\ ToUndo(r)' # << >> => ToUndo(r) # << >>
                          /\ undoing'[r] # {} => undoing[r] # {} \/ ToUndo(r) # << >>,
         NoticeFirst'
  PROVE  IInv'
<1>1. NoProgress
  BY DEF IInv, Typed, NoProgress, SameProgress
<1>2. HubOK' /\ TokenInv'
  BY <1>1, TokenDrops DEF IInv
<1>3. UndoneOnlyAfterFailure'
  BY UndoneDrops DEF IInv
<1>4. Milestones'
  BY <1>1, MilestonesStand DEF IInv, TracesDrop
<1>5. QED
  BY <1>2, <1>3, <1>4 DEF IInv

\* A queue is cut short, emptied or left alone.
Shorter(new, old) == new \in Prefixes(old) \cup {<< >>, old}

\* What a cut leaves of any kind of message.
LEMMA ShorterKeeps ==
  ASSUME NEW X, NEW s \in Seq(X), NEW t, Shorter(t, s)
  PROVE  /\ t \in Seq(X)
         /\ \A S : Filter(s, S) = << >> => Filter(t, S) = << >>
         /\ \A S, e : Filter(s, S) = <<e>> => Filter(t, S) \in {<< >>, <<e>>}
         /\ \A S : Filter(t, S) # << >> =>
              Filter(s, S) # << >> /\ Head(Filter(t, S)) = Head(Filter(s, S))
<1>1. CASE t \in Prefixes(s)
  BY <1>1, CutShort
<1>2. CASE t = << >>
  <2>1. << >> \in Seq(X)
    OBVIOUS
  <2>2. QED
    BY <1>2, <2>1, FilterEmpty
<1>3. CASE t = s
  BY <1>3
<1>4. QED
  BY <1>1, <1>2, <1>3 DEF Shorter

\* What a cut of an agent's queue leaves: the order or nothing, no rollback
\* step that was not there, and of the notices a beginning.
LEMMA AgentCut ==
  ASSUME Typed, NEW role \in Roles, OneToken(role), Shorter(toAgent'[role], toAgent[role])
  PROVE  /\ toAgent'[role] \in Seq(Messages)
         /\ Ordered(role)' = Ordered(role) \/ Ordered(role)' = << >>
         /\ ToUndo(role)' # << >> => ToUndo(role) # << >>
         /\ role = "source" => NoticesAhead
<1> DEFINE s == toAgent[role]
           t == toAgent'[role]
<1>1. s \in Seq(Messages)
  BY DEF Typed
<1>2. Filter(s, RunSteps) = << >> \/ \E e : Filter(s, RunSteps) = <<e>>
  BY DEF OneToken, Idle, AtWork, Ordered
<1>3. Shorter(t, s)
  OBVIOUS
<1> HIDE DEF s, t
<1>4. /\ t \in Seq(Messages)
      /\ \A S : Filter(s, S) = << >> => Filter(t, S) = << >>
      /\ \A S, e : Filter(s, S) = <<e>> => Filter(t, S) \in {<< >>, <<e>>}
      /\ \A S : Filter(t, S) # << >> =>
           Filter(s, S) # << >> /\ Head(Filter(t, S)) = Head(Filter(s, S))
  BY <1>1, <1>3, ShorterKeeps
<1>5. Filter(t, RunSteps) = Filter(s, RunSteps) \/ Filter(t, RunSteps) = << >>
  BY <1>2, <1>4
<1>6. Filter(t, Undos) # << >> => Filter(s, Undos) # << >>
  BY <1>4
<1>7. Filter(t, {RunStep(9), Notice}) # << >> =>
        /\ Filter(s, {RunStep(9), Notice}) # << >>
        /\ Head(Filter(t, {RunStep(9), Notice})) = Head(Filter(s, {RunStep(9), Notice}))
  BY <1>4
<1>8. QED
  BY <1>4, <1>5, <1>6, <1>7 DEF s, t, Ordered, ToUndo, NoticesAhead, Notices

\* What a cut of the hub's queue leaves: the result or nothing, and of the
\* news a beginning.
LEMMA HubCut ==
  ASSUME Typed, NEW role \in Roles, OneToken(role), Shorter(toHub'[role], toHub[role])
  PROVE  /\ toHub'[role] \in Seq(Reports)
         /\ Told(role)' = Told(role) \/ Told(role)' = << >>
         /\ role = "target" =>
              (NewsOf' # << >> => NewsOf # << >> /\ Head(NewsOf') = Head(NewsOf))
<1> DEFINE s == toHub[role]
           t == toHub'[role]
<1>1. s \in Seq(Reports)
  BY DEF Typed
<1>2. Filter(s, Outcomes) = << >> \/ \E e : Filter(s, Outcomes) = <<e>>
  BY DEF OneToken, Idle, AtWork, Told
<1>3. Shorter(t, s)
  OBVIOUS
<1> HIDE DEF s, t
<1>4. /\ t \in Seq(Reports)
      /\ \A S : Filter(s, S) = << >> => Filter(t, S) = << >>
      /\ \A S, e : Filter(s, S) = <<e>> => Filter(t, S) \in {<< >>, <<e>>}
      /\ \A S : Filter(t, S) # << >> =>
           Filter(s, S) # << >> /\ Head(Filter(t, S)) = Head(Filter(s, S))
  BY <1>1, <1>3, ShorterKeeps
<1>5. Filter(t, Outcomes) = Filter(s, Outcomes) \/ Filter(t, Outcomes) = << >>
  BY <1>2, <1>4
<1>6. Filter(t, {StepDone(8), News}) # << >> =>
        /\ Filter(s, {StepDone(8), News}) # << >>
        /\ Head(Filter(t, {StepDone(8), News})) = Head(Filter(s, {StepDone(8), News}))
  BY <1>4
<1>7. QED
  BY <1>4, <1>5, <1>6 DEF s, t, Told, NewsOf

\* The hub's process stops: the orchestrator's messages are cut, and nothing
\* of what the agents sent is left to read.
LEMMA HubStopsInv ==
  ASSUME IInv, HubStops
  PROVE  IInv'
<1>1. /\ hub' = "down" /\ toHub' = [r \in Roles |-> << >>] /\ emitted' = << >>
      /\ UNCHANGED <<orch, conn, agent, tasks, received, hosts, seen, captured, stale>>
  BY DEF HubStops
<1>2. /\ toAgent' = [r \in Roles |-> toAgent'[r]]
      /\ \A r \in Roles : Shorter(toAgent'[r], toAgent[r])
  <2>1. PICK s \in Prefixes(toAgent["source"]), t \in Prefixes(toAgent["target"]) :
          toAgent' = [r \in Roles |-> IF r = "source" THEN s ELSE t]
    BY DEF HubStops
  <2>2. QED
    BY <2>1 DEF Shorter
<1>3. \A r \in Roles : OneToken(r)
  BY DEF IInv, TokenInv
<1>4. \A r \in Roles :
        /\ toAgent'[r] \in Seq(Messages)
        /\ Ordered(r)' = Ordered(r) \/ Ordered(r)' = << >>
        /\ ToUndo(r)' # << >> => ToUndo(r) # << >>
  BY <1>2, <1>3, AgentCut DEF IInv
<1>5. NoticesAhead
  BY <1>2, <1>3, AgentCut DEF IInv
<1>6. (\A r \in Roles : Told(r)' = << >>) /\ NewsOf' = << >>
  BY <1>1, FilterEmpty DEF Told, NewsOf
<1>7. Typed'
  <2>1. toAgent' \in [Roles -> Seq(Messages)]
    BY <1>2, <1>4
  <2>2. toHub' \in [Roles -> Seq(Reports)] /\ emitted' \in Seq(Events)
    BY <1>1, EventLists
  <2>3. QED
    BY <1>1, <2>1, <2>2 DEF IInv, Typed, tasks, received, hosts
<1>8. Cut'
  BY <1>1 DEF IInv, Cut
<1>9. TracesDrop
  BY <1>1, <1>4, <1>6 DEF TracesDrop, tasks
<1>10. NoticeFirst'
  BY <1>1, <1>5, <1>6, NoticeStands DEF IInv, tasks, received
<1>11. KeyThere' = KeyThere
  BY <1>1 DEF KeyThere, hosts
<1>12. QED
  BY <1>1, <1>4, <1>7, <1>8, <1>9, <1>10, <1>11, StandInv DEF tasks, received, hosts

\* An agent's socket is gone, and with it what was on its way.
LEMMA SeveredInv ==
  ASSUME IInv, NEW role \in Roles, orch' = orch, emitted' = << >>,
         UNCHANGED <<hub, received, seen, captured, stale>>,
         UNCHANGED <<identity, voter, tower, keyFile>>,
         conn' \in [Roles -> {"open", "lost", "gone"}], conn'[role] # "open",
         agent' \in [Roles -> {"up", "deaf", "exited"}],
         \A r \in Roles : r # role => conn'[r] = conn[r] /\ agent'[r] = agent[r],
         running' \in [Roles -> SUBSET Steps], undoing' \in [Roles -> SUBSET RollbackNames],
         \A r \in Roles : /\ running'[r] = running[r] \/ running'[r] = {}
                          /\ undoing'[r] = undoing[r] \/ undoing'[r] = {},
         passed' \subseteq passed, tmpKey' \in BOOLEAN, KeyThere => KeyThere',
         toAgent' \in [Roles -> {toAgent'["source"], toAgent'["target"]}],
         toHub' \in [Roles -> {toHub'["source"], toHub'["target"]}],
         Shorter(toAgent'[role], toAgent[role]), Shorter(toHub'[role], toHub[role]),
         \A r \in Roles : r # role => toAgent'[r] = toAgent[r] /\ toHub'[r] = toHub[r]
  PROVE  IInv'
<1>1. Typed /\ (\A r \in Roles : OneToken(r)) /\ NoticeFirst /\ Cut
  BY DEF IInv, TokenInv
<1>2. \A r \in Roles : Shorter(toAgent'[r], toAgent[r]) /\ Shorter(toHub'[r], toHub[r])
  BY DEF Shorter
<1>3. \A r \in Roles :
        /\ toAgent'[r] \in Seq(Messages)
        /\ Ordered(r)' = Ordered(r) \/ Ordered(r)' = << >>
        /\ ToUndo(r)' # << >> => ToUndo(r) # << >>
        /\ r = "source" => NoticesAhead
  BY <1>1, <1>2, AgentCut
<1>4. \A r \in Roles :
        /\ toHub'[r] \in Seq(Reports)
        /\ Told(r)' = Told(r) \/ Told(r)' = << >>
        /\ r = "target" =>
              (NewsOf' # << >> => NewsOf # << >> /\ Head(NewsOf') = Head(NewsOf))
  BY <1>1, <1>2, HubCut
<1>5. Typed'
  <2>1. toAgent' \in [Roles -> Seq(Messages)]
    BY <1>3
  <2>2. toHub' \in [Roles -> Seq(Reports)] /\ emitted' \in Seq(Events)
    BY <1>4, EventLists
  <2>3. QED
    BY <1>1, <2>1, <2>2 DEF Typed, received
<1>6. Cut'
  <2>1. \A r \in Roles : agent'[r] # "up" => conn'[r] # "open"
    BY <1>1 DEF Cut
  <2>2. hub' = "down" => \A r \in Roles : toHub'[r] = << >>
    <3>1. ASSUME hub = "down", NEW r \in Roles PROVE toHub'[r] = << >>
      <4>1. toHub[r] = << >>
        BY <1>1, <3>1 DEF Cut
      <4>2. ASSUME NEW t \in Prefixes(<< >>) PROVE t = << >>
        <5>1. PICK n \in 0 .. Len(<< >>) : t = SubSeq(<< >>, 1, n)
          BY DEF Prefixes
        <5>2. 0 .. Len(<< >>) = {0} /\ SubSeq(<< >>, 1, 0) = << >>
          OBVIOUS
        <5>3. QED
          BY <5>1, <5>2
      <4>3. QED
        BY <1>2, <4>1, <4>2 DEF Shorter
    <3>2. QED
      BY <3>1
  <2>3. QED
    BY <2>1, <2>2 DEF Cut
<1>7. TracesDrop
  BY <1>3, <1>4 DEF TracesDrop
<1>8. NoticeFirst'
  <2>1. NoticesAhead
    BY <1>3
  <2>2. NewsAhead
    BY <1>1, <1>4 DEF NoticeFirst, NewsAhead
  <2>3. Notified => Notified'
    <3>1. CASE role = "source"
      BY <3>1 DEF Notified
    <3>2. CASE role # "source"
      <4>1. Notices' = Notices /\ conn'["source"] = conn["source"]
        BY <3>2 DEF Notices
      <4>2. QED
        BY <4>1, StillNotified DEF received
    <3>3. QED
      BY <3>1, <3>2
  <2>4. 9 \in running'["source"] => 9 \in running["source"]
    OBVIOUS
  <2>5. QED
    BY <1>1, <2>1, <2>2, <2>3, <2>4, NoticeStands DEF received
<1>9. QED
  BY <1>3, <1>5, <1>6, <1>7, <1>8, StandInv

\* The end of an agent's process takes its tasks with it.
LEMMA AgentExitsInv ==
  ASSUME IInv, NEW role \in Roles, AgentExits(role)
  PROVE  IInv'
<1>1. /\ agent' = [agent EXCEPT ![role] = "exited"]
      /\ running' = [running EXCEPT ![role] = {}]
      /\ undoing' = [undoing EXCEPT ![role] = {}]
      /\ passed' \subseteq passed
      /\ toAgent' = [toAgent EXCEPT ![role] = << >>]
      /\ tmpKey' \in IF role = "target" THEN {tmpKey, FALSE} ELSE {tmpKey}
      /\ emitted' = << >>
      /\ UNCHANGED <<HubSide, received, identity, voter, tower, keyFile>>
  BY DEF AgentExits
<1>2. Typed
  BY DEF IInv
<1>3. /\ conn' \in [Roles -> {"open", "lost", "gone"}] /\ conn'[role] # "open"
      /\ toHub' \in [Roles -> {toHub'["source"], toHub'["target"]}]
      /\ Shorter(toHub'[role], toHub[role])
      /\ \A r \in Roles : r # role => toHub'[r] = toHub[r] /\ conn'[r] = conn[r]
  <2>1. CASE conn[role] = "open"
    <3>1. PICK s \in Prefixes(toHub[role]) : toHub' = [toHub EXCEPT ![role] = s]
      BY <2>1 DEF AgentExits
    <3>2. conn' = [conn EXCEPT ![role] = "lost"]
      BY <2>1 DEF AgentExits
    <3>3. QED
      BY <1>2, <3>1, <3>2 DEF Typed, Shorter
  <2>2. CASE conn[role] # "open"
    <3>1. UNCHANGED <<conn, toHub>>
      BY <2>2 DEF AgentExits
    <3>2. QED
      BY <1>2, <2>2, <3>1 DEF Typed, Shorter
  <2>3. QED
    BY <2>1, <2>2
<1>4. /\ agent' \in [Roles -> {"up", "deaf", "exited"}]
      /\ running' \in [Roles -> SUBSET Steps] /\ undoing' \in [Roles -> SUBSET RollbackNames]
      /\ \A r \in Roles : /\ running'[r] = running[r] \/ running'[r] = {}
                          /\ undoing'[r] = undoing[r] \/ undoing'[r] = {}
      /\ \A r \in Roles : r # role => agent'[r] = agent[r]
      /\ tmpKey' \in BOOLEAN
  BY <1>1, <1>2 DEF Typed
<1>5. /\ toAgent' \in [Roles -> {toAgent'["source"], toAgent'["target"]}]
      /\ Shorter(toAgent'[role], toAgent[role])
      /\ \A r \in Roles : r # role => toAgent'[r] = toAgent[r]
  BY <1>1, <1>2 DEF Typed, Shorter
<1>6. KeyThere => KeyThere'
  BY <1>1, <1>2 DEF Typed, KeyThere
<1>7. QED
  BY <1>1, <1>3, <1>4, <1>5, <1>6, SeveredInv DEF HubSide

\* An agent that gives up on the hub keeps its tasks.
LEMMA HeartbeatTimeoutInv ==
  ASSUME IInv, NEW role \in Roles, HeartbeatTimeout(role)
  PROVE  IInv'
<1>1. /\ agent' = [agent EXCEPT ![role] = "deaf"]
      /\ conn' = [conn EXCEPT ![role] = "lost"]
      /\ emitted' = << >>
      /\ UNCHANGED <<HubSide, tasks, received, hosts>>
  BY DEF HeartbeatTimeout
<1>2. PICK s \in Prefixes(toHub[role]) : toHub' = [toHub EXCEPT ![role] = s]
  BY DEF HeartbeatTimeout
<1>3. PICK t \in Prefixes(toAgent[role]) : toAgent' = [toAgent EXCEPT ![role] = t]
  BY DEF HeartbeatTimeout
<1>4. Typed
  BY DEF IInv
<1>5. /\ toHub' \in [Roles -> {toHub'["source"], toHub'["target"]}]
      /\ Shorter(toHub'[role], toHub[role])
      /\ \A r \in Roles : r # role => toHub'[r] = toHub[r]
  BY <1>2, <1>4 DEF Typed, Shorter
<1>6. /\ toAgent' \in [Roles -> {toAgent'["source"], toAgent'["target"]}]
      /\ Shorter(toAgent'[role], toAgent[role])
      /\ \A r \in Roles : r # role => toAgent'[r] = toAgent[r]
  BY <1>3, <1>4 DEF Typed, Shorter
<1>7. /\ conn' \in [Roles -> {"open", "lost", "gone"}] /\ conn'[role] # "open"
      /\ agent' \in [Roles -> {"up", "deaf", "exited"}]
      /\ \A r \in Roles : r # role => conn'[r] = conn[r] /\ agent'[r] = agent[r]
  BY <1>1, <1>4 DEF Typed
<1>8. /\ running' = running /\ undoing' = undoing /\ passed' = passed /\ tmpKey' = tmpKey
      /\ running \in [Roles -> SUBSET Steps] /\ undoing \in [Roles -> SUBSET RollbackNames]
      /\ tmpKey \in BOOLEAN
  BY <1>1, <1>4 DEF Typed, tasks, hosts
<1>9. KeyThere => KeyThere'
  BY <1>1, <1>4, <1>8 DEF HeartbeatTimeout, Typed, KeyThere
<1>10. QED
  BY <1>1, <1>5, <1>6, <1>7, <1>8, <1>9, SeveredInv DEF HubSide, hosts

\* The cluster's report changes nothing else.
LEMMA ObserveInv ==
  ASSUME IInv, Observe
  PROVE  IInv'
<1>1. /\ UNCHANGED <<orch, hub, captured, stale, channels, agent, tasks, received, hosts>>
      /\ seen' \in {"voting", "quiet"} /\ emitted' = << >>
  BY DEF Observe
<1>2. /\ Typed' /\ Cut' /\ TracesDrop
      /\ \A r \in Roles : ToUndo(r)' = ToUndo(r) /\ undoing'[r] = undoing[r]
  <2>1. emitted' \in Seq(Events)
    BY <1>1, EventLists
  <2>2. Typed'
    BY <1>1, <2>1 DEF IInv, Typed, channels, tasks, received, hosts
  <2>3. Cut'
    BY <1>1 DEF IInv, Cut, channels
  <2>4. TracesDrop
    BY <1>1 DEF TracesDrop, Ordered, Told, channels, tasks
  <2>5. QED
    BY <1>1, <2>2, <2>3, <2>4 DEF ToUndo, channels, tasks
<1>3. NoticeFirst'
  BY <1>1 DEF IInv, NoticeFirst, Notified, Notices, NewsOf, Notice, Relayed, News, Payload,
              RunStep, StepDone, channels, tasks, received
<1>4. KeyThere' = KeyThere
  BY <1>1 DEF KeyThere, hosts
<1>5. QED
  BY <1>1, <1>2, <1>3, <1>4, StandInv DEF hosts

-----------------------------------------------------------------------------
(* An agent's messages.                                                    *)

\* A confirmation that has arrived settles everything about the notices.
LEMMA ConfirmedSettles ==
  ASSUME confirmed'
  PROVE  NoticeFirst'
  BY DEF NoticeFirst, Notified

\* An order for a step that is read becomes a task; the order for step 9 is
\* read only when the confirmation is there.
LEMMA OrderReadInv ==
  ASSUME IInv, NEW role \in Roles, AgentReceives(role),
         Head(toAgent[role]).type = "execute_step"
  PROVE  IInv'
<1> DEFINE msg == Head(toAgent[role])
<1>1. /\ AgentReads(role) /\ emitted' = << >>
      /\ running' = [running EXCEPT ![role] = @ \cup {msg.step}]
      /\ UNCHANGED <<undoing, received, HubSide, conn, toHub, agent, passed, hosts>>
  BY DEF AgentReceives, AgentReads
<1>2. Typed /\ (\A r \in Roles : OneToken(r)) /\ NoticeFirst /\ Cut
  BY DEF IInv, TokenInv
<1>3. /\ toAgent' \in [Roles -> Seq(Messages)] /\ msg \in Messages
      /\ \A r \in Roles : r # role => Ordered(r)' = Ordered(r) /\ ToUndo(r)' = ToUndo(r)
      /\ msg \in RunSteps => Ordered(role) = <<msg>> /\ Ordered(role)' = << >>
      /\ msg \notin Undos => ToUndo(role)' = ToUndo(role)
      /\ role # "source" \/ msg \notin {RunStep(9), Notice} => Notices' = Notices
      /\ role = "source" /\ msg \in {RunStep(9), Notice} =>
           Notices # << >> /\ Head(Notices) = msg
  BY <1>1, <1>2, Read
<1>4. msg.step \in Steps /\ msg = RunStep(msg.step) /\ msg \in RunSteps /\ msg \notin Undos
  BY <1>3, MessageKinds
<1> HIDE DEF msg
<1> DEFINE n == msg.step
<1>5. Ordered(role) = <<RunStep(n)>> /\ Ordered(role)' = << >> /\ n \in Steps
  BY <1>3, <1>4
<1> HIDE DEF n
<1>6. /\ Current \in StepsOf(role) /\ orch.state # "COMPLETE" /\ n = Current
      /\ running[role] = {} /\ Told(role) = << >> /\ ~Idle(role)
  <2>1. <<RunStep(n)>> # << >>
    OBVIOUS
  <2>2. /\ Current \in StepsOf(role) /\ orch.state # "COMPLETE"
        /\ Ordered(role) = <<RunStep(Current)>>
        /\ running[role] = {} /\ Told(role) = << >> /\ ~Idle(role)
    BY <1>2, <1>5, <2>1 DEF OneToken, Idle, AtWork
  <2>3. RunStep(n) = RunStep(Current) /\ Current \in Steps
    BY <1>5, <2>2 DEF StepsOf
  <2>4. QED
    BY <1>5, <2>2, <2>3, MessageKinds
<1>7. /\ orch' = orch /\ Current' = Current
      /\ running'[role] = {Current}
      /\ \A r \in Roles : r # role => running'[r] = running[r]
      /\ running' \in [Roles -> SUBSET Steps]
      /\ \A r \in Roles : Told(r)' = Told(r)
  <2>1. running \in [Roles -> SUBSET Steps]
    BY <1>2 DEF Typed
  <2>2. running' = [running EXCEPT ![role] = @ \cup {n}]
    BY <1>1 DEF n
  <2>3. QED
    BY <1>1, <1>5, <1>6, <2>1, <2>2 DEF HubSide, Told, Current
<1>8. Typed'
  <2>1. emitted' \in Seq(Events)
    BY <1>1, EventLists
  <2>2. QED
    BY <1>1, <1>2, <1>3, <1>7, <2>1 DEF Typed, HubSide, received, hosts
<1>9. Cut'
  BY <1>1, <1>2 DEF Cut, HubSide
<1>10. NoProgress
  BY <1>2, <1>7 DEF Typed, NoProgress, SameProgress
<1>11. HubOK'
  BY <1>7 DEF IInv, HubOK
<1>12. TokenInv'
  <2>1. \A r \in Roles : Idle(r) => r # role /\ Idle(r)'
    BY <1>3, <1>6, <1>7 DEF Idle
  <2>2. OneToken(role)'
    BY <1>5, <1>6, <1>7 DEF OneToken, AtWork
  <2>3. ASSUME NEW r \in Roles, r # role PROVE OneToken(r)'
    <3>1. AtWork(r) => AtWork(r)'
      BY <1>3, <1>7, <2>3 DEF AtWork
    <3>2. QED
      BY <1>2, <1>7, <2>1, <3>1 DEF OneToken
  <2>4. AcksOK'
    <3>1. \A s \in BilateralSteps : orch.acks[s] \subseteq Roles
      BY <1>2 DEF Typed, Orchestrators
    <3>2. QED
      BY <1>7, <2>1, <3>1 DEF IInv, TokenInv, AcksOK
  <2>5. QED
    BY <2>2, <2>3, <2>4 DEF TokenInv
<1>13. UndoneOnlyAfterFailure'
  <2>1. \A r \in Roles : ToUndo(r)' = ToUndo(r)
    BY <1>3, <1>4
  <2>2. QED
    BY <1>1, <1>7, <2>1 DEF IInv, UndoneOnlyAfterFailure
<1>14. Milestones'
  <2>1. KeyThere' = KeyThere
    BY <1>1 DEF KeyThere, hosts
  <2>2. QED
    BY <1>1, <1>7, <1>10, <2>1, MilestonesStand DEF IInv, HubSide, hosts
<1>15. NoticeFirst'
  <2>1. CASE role = "source" /\ msg = RunStep(9)
    <3>1. Head(Notices) = RunStep(9) /\ Notices # << >> /\ RunStep(9) # Notice
      BY <1>3, <2>1, MessageKinds
    <3>2. confirmed'
      BY <1>1, <1>2, <3>1 DEF NoticeFirst, received
    <3>3. QED
      BY <3>2, ConfirmedSettles
  <2>2. CASE ~(role = "source" /\ msg = RunStep(9))
    <3>1. msg # Notice
      BY <1>4, MessageKinds
    <3>2. Notices' = Notices
      BY <1>3, <2>2, <3>1
    <3>3. NewsAhead
      BY <1>1, <1>2, NewsStays DEF NewsOf
    <3>4. 9 \in running'["source"] => 9 \in running["source"]
      <4>1. CASE role = "source"
        <5>1. Current # 9
          BY <1>4, <1>6, <2>2, <4>1 DEF n
        <5>2. QED
          BY <1>7, <4>1, <5>1
      <4>2. CASE role # "source"
        BY <1>7, <4>2
      <4>3. QED
        BY <4>1, <4>2
    <3>5. Notified => Notified'
      BY <1>1, <3>2, StillNotified DEF received
    <3>6. QED
      BY <1>1, <1>2, <3>2, <3>3, <3>4, <3>5, NoticeStands DEF NoticesAhead, received
  <2>3. QED
    BY <2>1, <2>2
<1>16. QED
  BY <1>8, <1>9, <1>11, <1>12, <1>13, <1>14, <1>15 DEF IInv

\* Any other message an agent reads changes what it has to undo or has
\* received, and nothing else.
LEMMA OtherReadInv ==
  ASSUME IInv, NEW role \in Roles, AgentReceives(role),
         Head(toAgent[role]).type # "execute_step"
  PROVE  IInv'
<1> DEFINE msg == Head(toAgent[role])
<1>1. /\ AgentReads(role) /\ emitted' = << >>
      /\ UNCHANGED <<running, HubSide, conn, toHub, agent, passed, hosts>>
  BY DEF AgentReceives, AgentReads
<1>2. Typed /\ OneToken(role) /\ NoticeFirst /\ Cut
  BY DEF IInv, TokenInv
<1>3. /\ toAgent' \in [Roles -> Seq(Messages)] /\ msg \in Messages
      /\ \A r \in Roles : r # role => Ordered(r)' = Ordered(r) /\ ToUndo(r)' = ToUndo(r)
      /\ msg \notin RunSteps => Ordered(role)' = Ordered(role)
      /\ msg \in Undos => ToUndo(role) # << >>
      /\ msg \notin Undos => ToUndo(role)' = ToUndo(role)
      /\ role # "source" \/ msg \notin {RunStep(9), Notice} => Notices' = Notices
  BY <1>1, <1>2, Read
<1>4. msg \notin RunSteps /\ msg # RunStep(9)
  BY <1>3, MessageKinds
<1>5. \/ /\ msg.type = "execute_rollback_step"
         /\ undoing' = [undoing EXCEPT ![role] = @ \cup {msg.name}]
         /\ UNCHANGED received
      \/ /\ msg.type = "relay_payload" /\ msg.kind = "voting_confirmed"
         /\ confirmed' = TRUE /\ UNCHANGED <<undoing, payloads>>
      \/ /\ msg.type = "relay_payload" /\ msg.kind # "voting_confirmed"
         /\ payloads' = payloads \cup {msg.kind} /\ UNCHANGED <<undoing, confirmed>>
  BY DEF AgentReceives
<1> HIDE DEF msg
<1>6. /\ undoing' \in [Roles -> SUBSET RollbackNames]
      /\ payloads' \subseteq {"tower", "identity"} /\ confirmed' \in BOOLEAN
      /\ \A r \in Roles : undoing'[r] # {} => undoing[r] # {} \/ ToUndo(r) # << >>
  <2>1. CASE /\ msg.type = "execute_rollback_step"
             /\ undoing' = [undoing EXCEPT ![role] = @ \cup {msg.name}]
             /\ UNCHANGED received
    <3>1. msg.name \in RollbackNames /\ msg \in Undos
      BY <1>3, <2>1, MessageKinds
    <3>2. QED
      BY <1>2, <1>3, <2>1, <3>1 DEF Typed, received
  <2>2. CASE /\ msg.type = "relay_payload" /\ msg.kind = "voting_confirmed"
             /\ confirmed' = TRUE /\ UNCHANGED <<undoing, payloads>>
    BY <1>2, <2>2 DEF Typed
  <2>3. CASE /\ msg.type = "relay_payload" /\ msg.kind # "voting_confirmed"
             /\ payloads' = payloads \cup {msg.kind} /\ UNCHANGED <<undoing, confirmed>>
    <3>1. msg.kind \in {"tower", "identity"}
      BY <1>3, <2>3, MessageKinds
    <3>2. QED
      BY <1>2, <2>3, <3>1 DEF Typed
  <2>4. QED
    BY <1>5, <2>1, <2>2, <2>3
<1>7. Typed'
  <2>1. emitted' \in Seq(Events)
    BY <1>1, EventLists
  <2>2. QED
    BY <1>1, <1>2, <1>3, <1>6, <2>1 DEF Typed, HubSide, hosts
<1>8. Cut'
  BY <1>1, <1>2 DEF Cut, HubSide
<1>9. TracesDrop
  BY <1>1, <1>3, <1>4 DEF TracesDrop, Told
<1>10. \A r \in Roles : ToUndo(r)' # << >> => ToUndo(r) # << >>
  BY <1>3
<1>11. NoticeFirst'
  <2>1. CASE confirmed'
    BY <2>1, ConfirmedSettles
  <2>2. CASE ~confirmed'
    <3>1. msg # Notice
      BY <1>3, <1>5, <2>2, MessageKinds DEF Notice, Relayed
    <3>2. Notices' = Notices
      BY <1>3, <1>4, <3>1
    <3>3. NewsAhead
      BY <1>1, <1>2, NewsStays DEF NewsOf
    <3>4. confirmed => confirmed'
      BY <1>5 DEF received
    <3>5. Notified => Notified'
      BY <1>1, <3>2, <3>4, StillNotified
    <3>6. QED
      BY <1>1, <1>2, <3>2, <3>3, <3>4, <3>5, NoticeStands DEF NoticesAhead
  <2>3. QED
    BY <2>1, <2>2
<1>12. KeyThere' = KeyThere
  BY <1>1 DEF KeyThere, hosts
<1>13. QED
  BY <1>1, <1>6, <1>7, <1>8, <1>9, <1>10, <1>11, <1>12, StandInv DEF HubSide, hosts

-----------------------------------------------------------------------------
(* The steps of the migration.                                             *)

NewsKinds == {StepDone(8), News}

\* What the reports of a task are made of.
LEMMA ReportLists ==
  ASSUME NEW n \in Steps
  PROVE  /\ <<StepDone(n)>> \in Seq(Reports) /\ <<StepBroken(n)>> \in Seq(Reports)
         /\ Filter(<<StepDone(n)>>, Outcomes) = <<StepDone(n)>>
         /\ Filter(<<StepBroken(n)>>, Outcomes) = <<StepBroken(n)>>
         /\ n # 8 => Filter(<<StepDone(n)>>, NewsKinds) = << >>
         /\ Filter(<<StepBroken(n)>>, NewsKinds) = << >>
         /\ \A kind \in {"tower", "identity", "voting_confirmed"} :
              /\ <<Payload(kind), StepDone(n)>> \in Seq(Reports)
              /\ Filter(<<Payload(kind), StepDone(n)>>, Outcomes) = <<StepDone(n)>>
<1> DEFINE d == StepDone(n)
           b == StepBroken(n)
<1>1. d \in Outcomes /\ b \in Outcomes /\ Outcomes \subseteq Reports
  BY ReportKinds
<1>2. (n # 8 => d \notin NewsKinds) /\ b \notin NewsKinds
  BY ReportKinds DEF NewsKinds
<1> HIDE DEF d, b
<1>3. d \in Reports /\ b \in Reports
  BY <1>1
<1>4. <<d>> \in Seq(Reports) /\ <<b>> \in Seq(Reports)
  BY <1>3
<1>5. /\ \A S : Filter(<<d>>, S) = IF d \in S THEN <<d>> ELSE << >>
      /\ \A S : Filter(<<b>>, S) = IF b \in S THEN <<b>> ELSE << >>
  BY <1>3, FilterOne
<1>6. ASSUME NEW kind \in {"tower", "identity", "voting_confirmed"}
      PROVE  /\ <<Payload(kind), d>> \in Seq(Reports)
             /\ Filter(<<Payload(kind), d>>, Outcomes) = <<d>>
  <2> DEFINE p == Payload(kind)
  <2>1. p \in Reports /\ p \notin Outcomes
    BY ReportKinds
  <2> HIDE DEF p
  <2>2. <<p, d>> \in Seq(Reports)
    BY <1>3, <2>1
  <2>3. Filter(<<p>>, Outcomes) = << >>
    BY <2>1, FilterOne
  <2>4. Filter(<<p, d>>, Outcomes) = Append(Filter(<<p>>, Outcomes), d)
    BY <1>1, <1>3, <2>1, FilterTwo
  <2>5. Append(<< >>, d) = <<d>>
    OBVIOUS
  <2>6. QED
    BY <2>2, <2>3, <2>4, <2>5 DEF p
<1>7. QED
  BY <1>1, <1>2, <1>4, <1>5, <1>6 DEF d, b

\* The report of step 8 starts with the news.
LEMMA NewsFirst ==
  /\ Filter(<<News, StepDone(8)>>, NewsKinds) # << >>
  /\ Head(Filter(<<News, StepDone(8)>>, NewsKinds)) = News
<1> DEFINE n == News
           d == StepDone(8)
<1>1. n \in Reports /\ d \in Reports
  BY ReportKinds DEF News
<1>2. n \in NewsKinds /\ d \in NewsKinds
  BY DEF NewsKinds
<1> HIDE DEF n, d
<1>3. Filter(<<n>>, NewsKinds) = <<n>>
  BY <1>1, <1>2, FilterOne
<1>4. Filter(<<n, d>>, NewsKinds) = Append(Filter(<<n>>, NewsKinds), d)
  BY <1>1, <1>2, FilterTwo
<1>5. Append(<<n>>, d) # << >> /\ Head(Append(<<n>>, d)) = n
  OBVIOUS
<1>6. QED
  BY <1>3, <1>4, <1>5 DEF n, d

\* What an agent sends does not come between the news and what follows it.
LEMMA NewsSent ==
  ASSUME Typed, NoticeFirst, NEW role \in Roles, NEW messages \in Seq(Reports),
         Send(role, messages),
         role = "target" => \/ Filter(messages, NewsKinds) = << >>
                            \/ /\ Filter(messages, NewsKinds) # << >>
                               /\ Head(Filter(messages, NewsKinds)) = News
  PROVE  NewsAhead
<1> DEFINE q == NewsOf
           m == Filter(messages, NewsKinds)
<1>1. /\ \A r \in Roles : r # role => toHub'[r] = toHub[r]
      /\ \/ Filter(toHub'[role], NewsKinds) = Filter(toHub[role], NewsKinds)
         \/ Filter(toHub'[role], NewsKinds) = Filter(toHub[role], NewsKinds) \o m
  BY SentOn
<1>2. q \in Seq(Reports) /\ m \in Seq(Reports)
  <2>1. q \in Seq(Reports \cap NewsKinds) /\ m \in Seq(Reports \cap NewsKinds)
    BY FilterElements DEF Typed, NewsOf, NewsKinds
  <2>2. Reports \cap NewsKinds \subseteq Reports
    OBVIOUS
  <2>3. QED
    BY <2>1, <2>2, SeqMonotonic
<1>3. CASE role # "target"
  <2>1. NewsOf' = NewsOf
    BY <1>1, <1>3 DEF NewsOf
  <2>2. QED
    BY <2>1, NewsStays
<1>4. CASE role = "target"
  <2>1. NewsOf' = q \/ NewsOf' = q \o m
    BY <1>1, <1>4 DEF NewsOf, NewsKinds
  <2>2. m = << >> \/ (m # << >> /\ Head(m) = News)
    BY <1>4
  <2>3. q # << >> => Head(q) = News \/ Notified
    BY DEF NoticeFirst
  <2> HIDE DEF q, m
  <2>4. q # << >> => Head(q \o m) = Head(q)
    BY <1>2, HeadOfConcat
  <2>5. q = << >> => q \o m = m
    BY <1>2, ConcatEmptySeq
  <2>6. QED
    BY <2>1, <2>2, <2>3, <2>4, <2>5 DEF NewsAhead
<1>5. QED
  BY <1>3, <1>4

\* The end of a task: it was the current step's, and what is left of it is at
\* most its report.
LEMMA TaskTrace ==
  ASSUME IInv, NEW role \in Roles, NEW step \in Steps, NEW messages \in Seq(Reports),
         NEW result \in {StepDone(step), StepBroken(step)},
         Filter(messages, Outcomes) = <<result>>,
         EndStep(role, step, messages), UNCHANGED <<orch, hub, conn, toAgent, agent>>
  PROVE  /\ step = Current /\ Current \in StepsOf(role)
         /\ \A r \in Roles : r # role => Told(r)' = Told(r)
         /\ Told(role)' \in {<< >>, <<result>>}
         /\ \A r \in Roles : running'[r] = running[r] \/ running'[r] = {}
         /\ running' \in [Roles -> SUBSET Steps] /\ passed' \subseteq {6, 9}
         /\ toHub' \in [Roles -> Seq(Reports)]
         /\ HubOK' /\ TokenInv' /\ UndoneOnlyAfterFailure' /\ Cut'
<1>1. /\ step \in running[role]
      /\ running' = [running EXCEPT ![role] = @ \ {step}]
      /\ passed' = passed \ {step} /\ undoing' = undoing
      /\ Send(role, messages)
  BY DEF EndStep
<1>2. Typed /\ \A r \in Roles : OneToken(r)
  BY DEF IInv, TokenInv
<1>3. /\ Current \in StepsOf(role) /\ orch.state # "COMPLETE" /\ ~Idle(role)
      /\ Ordered(role) = << >> /\ running[role] = {Current} /\ Told(role) = << >>
  BY <1>1, <1>2 DEF OneToken, Idle, AtWork
<1>4. step = Current
  BY <1>1, <1>3
<1>5. /\ toHub' \in [Roles -> Seq(Reports)]
      /\ \A r \in Roles : r # role => toHub'[r] = toHub[r]
      /\ hub = "down" => toHub' = toHub
      /\ \/ Filter(toHub'[role], Outcomes) = Filter(toHub[role], Outcomes)
         \/ Filter(toHub'[role], Outcomes) =
              Filter(toHub[role], Outcomes) \o Filter(messages, Outcomes)
  BY <1>1, <1>2, SentOn
<1>6. Told(role)' \in {<< >>, <<result>>}
  <2>1. << >> \o <<result>> = <<result>>
    OBVIOUS
  <2>2. QED
    BY <1>3, <1>5, <2>1 DEF Told
<1>7. \A r \in Roles : r # role => Told(r)' = Told(r)
  BY <1>5 DEF Told
<1>8. /\ running'[role] = {}
      /\ \A r \in Roles : r # role => running'[r] = running[r]
      /\ running' \in [Roles -> SUBSET Steps] /\ passed' \subseteq {6, 9}
  <2>1. running \in [Roles -> SUBSET Steps] /\ passed \subseteq {6, 9}
    BY <1>2 DEF Typed
  <2>2. QED
    BY <1>1, <1>3, <1>4, <2>1
<1>9. /\ \A r \in Roles : Ordered(r)' = Ordered(r) /\ ToUndo(r)' = ToUndo(r)
      /\ Current' = Current
  BY DEF Ordered, ToUndo, Current
<1>10. HubOK'
  BY <1>9 DEF IInv, HubOK
<1>11. TokenInv'
  <2>1. \A r \in Roles : Idle(r) => r # role /\ Idle(r)'
    BY <1>3, <1>7, <1>8, <1>9 DEF Idle
  <2>2. OneToken(role)'
    <3>1. CASE Told(role)' = << >>
      BY <1>3, <1>8, <1>9, <3>1 DEF OneToken, Idle
    <3>2. CASE Told(role)' = <<result>>
      BY <1>3, <1>4, <1>8, <1>9, <3>2 DEF OneToken, AtWork
    <3>3. QED
      BY <1>6, <3>1, <3>2
  <2>3. ASSUME NEW r \in Roles, r # role PROVE OneToken(r)'
    <3>1. AtWork(r) => AtWork(r)'
      BY <1>7, <1>8, <1>9, <2>3 DEF AtWork
    <3>2. QED
      BY <1>2, <1>9, <2>1, <3>1 DEF OneToken
  <2>4. AcksOK'
    <3>1. \A s \in BilateralSteps : orch.acks[s] \subseteq Roles
      BY <1>2 DEF Typed, Orchestrators
    <3>2. QED
      BY <1>9, <2>1, <3>1 DEF IInv, TokenInv, AcksOK
  <2>5. QED
    BY <2>2, <2>3, <2>4 DEF TokenInv
<1>12. UndoneOnlyAfterFailure'
  BY <1>1, <1>9 DEF IInv, UndoneOnlyAfterFailure
<1>13. Cut'
  BY <1>5 DEF IInv, Cut
<1>14. QED
  BY <1>3, <1>4, <1>5, <1>6, <1>7, <1>8, <1>10, <1>11, <1>12, <1>13

\* Nothing that a report stands for is undone, but by a rollback.
Onward ==
  /\ identity["target"] = "staked" => identity'["target"] = "staked"
  /\ voter["target"] => voter'["target"]
  /\ ~keyFile => ~keyFile'
  /\ orch.state # "FAILED" =>
       /\ identity["source"] = "unstaked" => identity'["source"] = "unstaked"
       /\ voter'["source"] => voter["source"]
       /\ tower["target"] => tower'["target"]
       /\ KeyThere => KeyThere'

\* Nothing comes about before its step.
InTime(step) ==
  /\ captured' => captured \/ step = 4
  /\ identity'["target"] = "staked" => identity["target"] = "staked" \/ step = 6
  /\ voter'["target"] => voter["target"] \/ step = 7
  /\ ~keyFile' => ~keyFile \/ step = 9

\* What a step has brought about once its agent reports it as done.
Brought(step, role) ==
  /\ step = 2 /\ role = "source" => identity'["source"] = "unstaked"
  /\ step = 3 /\ role = "source" => ~voter'["source"]
  /\ step = 4 /\ role = "target" => tower'["target"]
  /\ step = 5 /\ role = "target" => tmpKey'
  /\ step = 6 /\ role = "target" => identity'["target"] = "staked"
  /\ step = 7 /\ role = "target" => voter'["target"]
  /\ step = 9 /\ role = "source" => ~keyFile'

\* The milestones after a step of an agent: the source's votes never make the
\* tower stale, as it has stopped before the tower is read.
LEMMA MilestonesAdvance ==
  ASSUME Milestones, orch' = orch, Current \in Int, Remember, Onward, InTime(Current),
         identity'["source"] \in {"staked", "unstaked"},
         \A s \in Steps, r \in Roles : Succeeded(s, r)' => Succeeded(s, r) \/ Brought(s, r)
  PROVE  Milestones'
<1>1. /\ Succeeded(2, "source")' => Succeeded(2, "source") \/ Brought(2, "source")
      /\ Succeeded(3, "source")' => Succeeded(3, "source") \/ Brought(3, "source")
      /\ Succeeded(4, "target")' => Succeeded(4, "target") \/ Brought(4, "target")
      /\ Succeeded(5, "target")' => Succeeded(5, "target") \/ Brought(5, "target")
      /\ Succeeded(6, "target")' => Succeeded(6, "target") \/ Brought(6, "target")
      /\ Succeeded(7, "target")' => Succeeded(7, "target") \/ Brought(7, "target")
      /\ Succeeded(9, "source")' => Succeeded(9, "source") \/ Brought(9, "source")
  OBVIOUS
<1>2. Current' = Current
  BY DEF Current
<1>3. NotEarly'
  BY <1>2 DEF Milestones, NotEarly, InTime
<1>4. Lasting'
  BY <1>1 DEF Milestones, Lasting, Onward, Brought
<1>5. Forward'
  <2> SUFFICES ASSUME orch.state # "FAILED"
               PROVE  /\ Succeeded(2, "source")' => identity'["source"] = "unstaked"
                      /\ Succeeded(3, "source")' => ~voter'["source"]
                      /\ Succeeded(4, "target")' => tower'["target"]
                      /\ Succeeded(5, "target")' => KeyThere'
                      /\ ~stale'
    BY DEF Forward
  <2>1. Succeeded(2, "source")' => identity'["source"] = "unstaked"
    BY <1>1 DEF Milestones, Forward, Onward, Brought
  <2>2. Succeeded(3, "source")' => ~voter'["source"]
    BY <1>1 DEF Milestones, Forward, Onward, Brought
  <2>3. Succeeded(4, "target")' => tower'["target"]
    BY <1>1 DEF Milestones, Forward, Onward, Brought
  <2>4. Succeeded(5, "target")' => KeyThere'
    BY <1>1 DEF Milestones, Forward, Onward, Brought, KeyThere
  <2>5. ~stale'
    <3>1. ~stale
      BY DEF Milestones, Forward
    <3>2. captured' => identity'["source"] = "unstaked"
      <4>1. captured' => Current' >= 4
        BY <1>3 DEF NotEarly
      <4>2. Current >= 4 => 2 < Current
        OBVIOUS
      <4>3. captured' => Succeeded(2, "source")
        BY <1>2, <4>1, <4>2 DEF Succeeded
      <4>4. QED
        BY <4>3 DEF Milestones, Forward, Onward
    <3>3. stale' = (stale \/ (captured' /\ identity'["source"] = "staked" /\ voter'["source"]))
      BY DEF Remember, Voting
    <3>4. QED
      BY <3>1, <3>2, <3>3
  <2>6. QED
    BY <2>1, <2>2, <2>3, <2>4, <2>5
<1>6. QED
  BY <1>3, <1>4, <1>5 DEF Milestones

\* A step of an agent's tasks leaves the hub and the sockets alone.
Alone ==
  /\ Remember /\ emitted' = << >>
  /\ UNCHANGED <<orch, hub, conn, toAgent, agent, seen>>

\* The validators and what is on their disks keep their types.
HostsTyped ==
  /\ identity' \in [Roles -> {"staked", "unstaked"}]
  /\ voter' \in [Roles -> BOOLEAN] /\ tower' \in [Roles -> BOOLEAN]
  /\ keyFile' \in BOOLEAN /\ tmpKey' \in BOOLEAN /\ captured' \in BOOLEAN
  /\ payloads' \subseteq {"tower", "identity"}

\* The end of a task preserves the invariant, if what it did is what its step
\* is for and what it reports is what it did.
LEMMA TaskInv ==
  ASSUME IInv, NEW role \in Roles, NEW step \in Steps, NEW messages \in Seq(Reports),
         NEW result \in {StepDone(step), StepBroken(step)},
         Filter(messages, Outcomes) = <<result>>,
         role = "target" => \/ Filter(messages, NewsKinds) = << >>
                            \/ /\ Filter(messages, NewsKinds) # << >>
                               /\ Head(Filter(messages, NewsKinds)) = News,
         EndStep(role, step, messages), Alone, HostsTyped, confirmed' = confirmed,
         Onward, InTime(step), result = StepDone(step) => Brought(step, role)
  PROVE  IInv'
<1>1. UNCHANGED <<orch, hub, conn, toAgent, agent, seen>> /\ emitted' = << >> /\ Remember
  BY DEF Alone
<1>2. undoing' = undoing /\ Send(role, messages)
  BY DEF EndStep
<1>3. /\ step = Current
      /\ \A r \in Roles : r # role => Told(r)' = Told(r)
      /\ Told(role)' \in {<< >>, <<result>>}
      /\ \A r \in Roles : running'[r] = running[r] \/ running'[r] = {}
      /\ running' \in [Roles -> SUBSET Steps] /\ passed' \subseteq {6, 9}
      /\ toHub' \in [Roles -> Seq(Reports)]
      /\ HubOK' /\ TokenInv' /\ UndoneOnlyAfterFailure' /\ Cut'
  BY <1>1, TaskTrace
<1>4. Typed'
  <2>1. emitted' \in Seq(Events)
    BY <1>1, EventLists
  <2>2. stale' \in BOOLEAN
    BY <1>1 DEF Remember
  <2>3. QED
    BY <1>1, <1>2, <1>3, <2>1, <2>2 DEF IInv, Typed, HostsTyped
<1>5. Milestones'
  <2>1. ASSUME NEW s \in Steps, NEW r \in Roles, Succeeded(s, r)'
        PROVE  Succeeded(s, r) \/ Brought(s, r)
    <3>1. \/ s < Current \/ orch.state = "COMPLETE"
          \/ Told(r)' = <<StepDone(s)>>
          \/ s \in BilateralSteps /\ r \in orch.acks[s]
      BY <1>1, <2>1 DEF Succeeded, Current
    <3>2. CASE Told(r)' = <<StepDone(s)>> /\ r # role
      BY <1>3, <3>2 DEF Succeeded
    <3>3. CASE Told(r)' = <<StepDone(s)>> /\ r = role
      <4>1. << >> # <<StepDone(s)>>
        OBVIOUS
      <4>2. StepDone(s) = result
        BY <1>3, <3>3, <4>1
      <4>3. s = step /\ result = StepDone(step)
        BY <4>2, ReportKinds
      <4>4. QED
        BY <3>3, <4>3
    <3>4. QED
      BY <3>1, <3>2, <3>3 DEF Succeeded
  <2>2. Current \in Int /\ identity'["source"] \in {"staked", "unstaked"}
    BY <1>3 DEF HostsTyped
  <2>3. QED
    BY <1>1, <1>3, <2>1, <2>2, MilestonesAdvance DEF IInv
<1>6. NoticeFirst'
  <2>1. NewsAhead
    BY <1>2, NewsSent DEF IInv
  <2>2. Notices' = Notices
    BY <1>1 DEF Notices
  <2>3. Notified => Notified'
    BY <1>1, <2>2, StillNotified
  <2>4. 9 \in running'["source"] => 9 \in running["source"]
    BY <1>3
  <2>5. QED
    BY <2>1, <2>2, <2>3, <2>4, NoticeStands DEF IInv, NoticesAhead
<1>7. QED
  BY <1>3, <1>4, <1>5, <1>6 DEF IInv

\* A task that reports its step as done, whatever else it sends to the hub.
LEMMA DoneTaskInv ==
  ASSUME IInv, NEW role \in Roles, NEW step \in Steps,
         role = "target" => step # 8,
         EndStep(role, step, <<StepDone(step)>>), Alone, HostsTyped, confirmed' = confirmed,
         Onward, InTime(step), Brought(step, role)
  PROVE  IInv'
<1> DEFINE messages == <<StepDone(step)>>
<1>1. /\ messages \in Seq(Reports) /\ Filter(messages, Outcomes) = <<StepDone(step)>>
      /\ step # 8 => Filter(messages, NewsKinds) = << >>
  BY ReportLists
<1>2. EndStep(role, step, messages)
  OBVIOUS
<1> HIDE DEF messages
<1>3. QED
  BY <1>1, <1>2, TaskInv

\* A task that reports its step as failed, whether its command ran or not.
LEMMA BrokenTaskInv ==
  ASSUME IInv, NEW role \in Roles, NEW step \in Steps,
         EndStep(role, step, <<StepBroken(step)>>), Alone, HostsTyped, confirmed' = confirmed,
         Onward, InTime(step)
  PROVE  IInv'
<1> DEFINE messages == <<StepBroken(step)>>
<1>1. /\ messages \in Seq(Reports) /\ Filter(messages, Outcomes) = <<StepBroken(step)>>
      /\ Filter(messages, NewsKinds) = << >>
  BY ReportLists
<1>2. EndStep(role, step, messages) /\ StepBroken(step) # StepDone(step)
  BY ReportKinds
<1> HIDE DEF messages
<1>3. QED
  BY <1>1, <1>2, TaskInv

\* A command has taken effect, and its task reports either.
LEMMA ReportedInv ==
  ASSUME IInv, NEW role \in Roles, NEW step \in Steps, role = "target" => step # 8,
         Reported(role, step), Alone, HostsTyped, confirmed' = confirmed,
         Onward, InTime(step), Brought(step, role)
  PROVE  IInv'
<1>1. \/ EndStep(role, step, <<StepDone(step)>>)
      \/ EndStep(role, step, <<StepBroken(step)>>)
  BY DEF Reported, Report
<1>2. QED
  BY <1>1, DoneTaskInv, BrokenTaskInv

\* A task of the source that sends a payload and then its report.
LEMMA PayloadTaskInv ==
  ASSUME IInv, NEW step \in Steps, NEW kind \in {"tower", "identity"},
         EndStep("source", step, <<Payload(kind), StepDone(step)>>), Alone, HostsTyped,
         confirmed' = confirmed, Onward, InTime(step), Brought(step, "source")
  PROVE  IInv'
<1> DEFINE messages == <<Payload(kind), StepDone(step)>>
<1>1. messages \in Seq(Reports) /\ Filter(messages, Outcomes) = <<StepDone(step)>>
  BY ReportLists
<1>2. EndStep("source", step, messages)
  OBVIOUS
<1> HIDE DEF messages
<1>3. QED
  BY <1>1, <1>2, TaskInv

\* A check that has succeeded leaves its task at the operator's prompt.
LEMMA PassedInv ==
  ASSUME IInv, Alone, NEW n \in {6, 9}, passed' = passed \cup {n},
         UNCHANGED <<running, undoing, received, hosts, captured, toHub>>
  PROVE  IInv'
<1>1. UNCHANGED <<orch, hub, conn, toAgent, agent, seen>> /\ emitted' = << >> /\ Remember
  BY DEF Alone
<1>2. /\ \A r \in Roles : Ordered(r)' = Ordered(r) /\ Told(r)' = Told(r)
      /\ \A r \in Roles : ToUndo(r)' = ToUndo(r)
      /\ Notices' = Notices /\ NewsOf' = NewsOf /\ Current' = Current
  BY <1>1 DEF Ordered, Told, ToUndo, Notices, NewsOf, Current
<1>3. Typed'
  <2>1. emitted' \in Seq(Events) /\ stale' \in BOOLEAN
    BY <1>1, EventLists DEF Remember
  <2>2. QED
    BY <1>1, <2>1 DEF IInv, Typed, received, hosts
<1>4. HubOK' /\ TokenInv'
  <2>1. NoProgress /\ TracesDrop
    BY <1>1, <1>2 DEF IInv, Typed, NoProgress, SameProgress, TracesDrop
  <2>2. QED
    BY <2>1, TokenDrops DEF IInv
<1>5. UndoneOnlyAfterFailure' /\ Cut'
  BY <1>1, <1>2 DEF IInv, UndoneOnlyAfterFailure, Cut
<1>6. Milestones'
  <2>1. \A s \in Steps, r \in Roles : Succeeded(s, r)' => Succeeded(s, r)
    BY <1>1, <1>2 DEF Succeeded
  <2>2. Onward /\ InTime(Current)
    BY <1>1 DEF Onward, InTime, hosts, KeyThere
  <2>3. Current \in Int /\ identity'["source"] \in {"staked", "unstaked"}
    BY <1>3 DEF IInv, Typed, Orchestrators, Current
  <2>4. QED
    BY <1>1, <2>1, <2>2, <2>3, MilestonesAdvance DEF IInv
<1>7. NoticeFirst'
  <2>1. NewsAhead
    BY <1>2, NewsStays DEF IInv
  <2>2. Notified => Notified'
    BY <1>1, <1>2, StillNotified DEF received
  <2>3. QED
    BY <1>2, <2>1, <2>2, NoticeStands DEF IInv, NoticesAhead, received
<1>8. QED
  BY <1>3, <1>4, <1>5, <1>6, <1>7 DEF IInv

\* Each step of the source's tasks.
LEMMA SourceStepInv ==
  ASSUME IInv, Alone, SourceStep
  PROVE  IInv'
<1> USE DEF Onward, InTime, Brought, KeyThere, Alone
<1>1. Typed
  BY DEF IInv
<1>2. CASE WindowReached
  <2>1. EndStep("source", 1, <<StepDone(1)>>) /\ UNCHANGED <<received, hosts, captured>>
    BY <1>2 DEF WindowReached
  <2>2. HostsTyped /\ confirmed' = confirmed
    BY <1>1, <2>1 DEF Typed, HostsTyped, received, hosts
  <2>3. Onward /\ InTime(1)
    BY <2>1 DEF hosts
  <2>4. QED
    BY <2>1, <2>2, <2>3, DoneTaskInv
<1>3. CASE Deactivate
  <2>1. /\ Reported("source", 2) /\ identity' = [identity EXCEPT !["source"] = "unstaked"]
        /\ UNCHANGED <<received, voter, tower, keyFile, tmpKey, captured>>
    BY <1>3 DEF Deactivate, SetIdentity
  <2>2. HostsTyped /\ confirmed' = confirmed
    BY <1>1, <2>1 DEF Typed, HostsTyped, received
  <2>3. identity'["source"] = "unstaked" /\ identity'["target"] = identity["target"]
    BY <1>1, <2>1 DEF Typed
  <2>4. Onward /\ InTime(2) /\ Brought(2, "source")
    BY <2>1, <2>3
  <2>5. QED
    BY <2>1, <2>2, <2>4, ReportedInv
<1>4. CASE RemoveVoters
  <2>1. /\ Reported("source", 3) /\ voter' = [voter EXCEPT !["source"] = FALSE]
        /\ UNCHANGED <<received, identity, tower, keyFile, tmpKey, captured>>
    BY <1>4 DEF RemoveVoters, RemoveAllAuthorizedVoters
  <2>2. HostsTyped /\ confirmed' = confirmed
    BY <1>1, <2>1 DEF Typed, HostsTyped, received
  <2>3. ~voter'["source"] /\ voter'["target"] = voter["target"]
    BY <1>1, <2>1 DEF Typed
  <2>4. Onward /\ InTime(3) /\ Brought(3, "source")
    BY <2>1, <2>3
  <2>5. QED
    BY <2>1, <2>2, <2>4, ReportedInv
<1>5. CASE SendTower
  <2>1. /\ EndStep("source", 4, <<Payload("tower"), StepDone(4)>>)
        /\ captured' = TRUE /\ UNCHANGED <<received, hosts>>
    BY <1>5 DEF SendTower
  <2>2. HostsTyped /\ confirmed' = confirmed
    BY <1>1, <2>1 DEF Typed, HostsTyped, received, hosts
  <2>3. Onward /\ InTime(4) /\ Brought(4, "source")
    BY <2>1 DEF hosts
  <2>4. QED
    BY <2>1, <2>2, <2>3, PayloadTaskInv
<1>6. CASE SendIdentity
  <2>1. /\ EndStep("source", 5, <<Payload("identity"), StepDone(5)>>)
        /\ UNCHANGED <<received, hosts, captured>>
    BY <1>6 DEF SendIdentity
  <2>2. HostsTyped /\ confirmed' = confirmed
    BY <1>1, <2>1 DEF Typed, HostsTyped, received, hosts
  <2>3. Onward /\ InTime(5) /\ Brought(5, "source")
    BY <2>1 DEF hosts
  <2>4. QED
    BY <2>1, <2>2, <2>3, PayloadTaskInv
<1>7. CASE PeerConfirmed
  BY <1>7, PassedInv DEF PeerConfirmed
<1>8. CASE WipeKey
  <2>1. /\ Reported("source", 9) /\ keyFile' = FALSE
        /\ UNCHANGED <<received, identity, voter, tower, tmpKey, captured>>
    BY <1>8 DEF WipeKey
  <2>2. HostsTyped /\ confirmed' = confirmed
    BY <1>1, <2>1 DEF Typed, HostsTyped, received
  <2>3. Onward /\ InTime(9) /\ Brought(9, "source")
    BY <2>1
  <2>4. QED
    BY <2>1, <2>2, <2>3, ReportedInv
<1>9. QED
  BY <1>2, <1>3, <1>4, <1>5, <1>6, <1>7, <1>8 DEF SourceStep

\* Each step of the target's tasks.
LEMMA TargetStepInv ==
  ASSUME IInv, Alone, TargetStep
  PROVE  IInv'
<1> USE DEF Onward, InTime, Brought, KeyThere, Alone
<1>1. Typed
  BY DEF IInv
<1>2. CASE WriteTower
  <2>1. /\ EndStep("target", 4, <<StepDone(4)>>)
        /\ payloads' = payloads \ {"tower"} /\ tower' = [tower EXCEPT !["target"] = TRUE]
        /\ UNCHANGED <<confirmed, identity, voter, keyFile, tmpKey, captured>>
    BY <1>2 DEF WriteTower, TakePending
  <2>2. HostsTyped /\ confirmed' = confirmed
    BY <1>1, <2>1 DEF Typed, HostsTyped
  <2>3. tower'["target"]
    BY <1>1, <2>1 DEF Typed
  <2>4. Onward /\ InTime(4) /\ Brought(4, "target")
    BY <2>1, <2>3
  <2>5. QED
    BY <2>1, <2>2, <2>4, DoneTaskInv
<1>3. CASE WriteIdentity
  <2>1. /\ EndStep("target", 5, <<StepDone(5)>>)
        /\ payloads' = payloads \ {"identity"} /\ tmpKey' = TRUE
        /\ UNCHANGED <<confirmed, identity, voter, tower, keyFile, captured>>
    BY <1>3 DEF WriteIdentity, TakePending
  <2>2. HostsTyped /\ confirmed' = confirmed
    BY <1>1, <2>1 DEF Typed, HostsTyped
  <2>3. Onward /\ InTime(5) /\ Brought(5, "target")
    BY <2>1
  <2>4. QED
    BY <2>1, <2>2, <2>3, DoneTaskInv
<1>4. CASE QuietSeen
  BY <1>4, PassedInv DEF QuietSeen
<1>5. CASE Activate
  <2>1. /\ Reported("target", 6) /\ identity' = [identity EXCEPT !["target"] = "staked"]
        /\ UNCHANGED <<received, voter, tower, keyFile, tmpKey, captured>>
    BY <1>5 DEF Activate, SetIdentity
  <2>2. HostsTyped /\ confirmed' = confirmed
    BY <1>1, <2>1 DEF Typed, HostsTyped, received
  <2>3. identity'["target"] = "staked" /\ identity'["source"] = identity["source"]
    BY <1>1, <2>1 DEF Typed
  <2>4. Onward /\ InTime(6) /\ Brought(6, "target")
    BY <2>1, <2>3
  <2>5. QED
    BY <2>1, <2>2, <2>4, ReportedInv
<1>6. CASE AddVoter
  <2>1. /\ Reported("target", 7) /\ voter' = [voter EXCEPT !["target"] = TRUE]
        /\ UNCHANGED <<received, identity, tower, keyFile, tmpKey, captured>>
    BY <1>6 DEF AddVoter, AddAuthorizedVoter
  <2>2. HostsTyped /\ confirmed' = confirmed
    BY <1>1, <2>1 DEF Typed, HostsTyped, received
  <2>3. voter'["target"] /\ voter'["source"] = voter["source"]
    BY <1>1, <2>1 DEF Typed
  <2>4. Onward /\ InTime(7) /\ Brought(7, "target")
    BY <2>1, <2>3
  <2>5. QED
    BY <2>1, <2>2, <2>4, ReportedInv
<1>7. CASE VotingSeen
  <2> DEFINE messages == <<News, StepDone(8)>>
  <2>1. EndStep("target", 8, messages) /\ UNCHANGED <<received, hosts, captured>>
    BY <1>7 DEF VotingSeen, News
  <2>2. HostsTyped /\ confirmed' = confirmed
    BY <1>1, <2>1 DEF Typed, HostsTyped, received, hosts
  <2>3. Onward /\ InTime(8) /\ Brought(8, "target")
    BY <2>1 DEF hosts
  <2>4. messages \in Seq(Reports) /\ Filter(messages, Outcomes) = <<StepDone(8)>>
    BY ReportLists DEF News
  <2>5. Filter(messages, NewsKinds) # << >> /\ Head(Filter(messages, NewsKinds)) = News
    BY NewsFirst
  <2> HIDE DEF messages
  <2>6. QED
    BY <2>1, <2>2, <2>3, <2>4, <2>5, TaskInv
<1>8. QED
  BY <1>2, <1>3, <1>4, <1>5, <1>6, <1>7 DEF TargetStep

\* A task that changes nothing and reports a failure.
LEMMA StepFailureInv ==
  ASSUME IInv, NEW role \in Roles, StepFailure(role)
  PROVE  IInv'
<1>1. PICK step \in Steps : StepFails(role, step)
  BY DEF StepFailure
<1>2. Alone
  BY DEF StepFailure, Alone
<1>3. /\ EndStep(role, step, <<StepBroken(step)>>) /\ UNCHANGED <<received, hosts, captured>>
  BY <1>1 DEF StepFails
<1>4. HostsTyped /\ confirmed' = confirmed
  BY <1>3 DEF IInv, Typed, HostsTyped, received, hosts
<1>5. Onward /\ InTime(step)
  BY <1>2, <1>3 DEF Onward, InTime, hosts, KeyThere, Alone
<1>6. QED
  BY <1>2, <1>3, <1>4, <1>5, BrokenTaskInv

\* A task that takes effect.
LEMMA StepTaskInv ==
  ASSUME IInv, NEW role \in Roles, StepTask(role)
  PROVE  IInv'
<1>1. Alone
  BY DEF StepTask, Alone
<1>2. SourceStep \/ TargetStep
  BY DEF StepTask
<1>3. QED
  BY <1>1, <1>2, SourceStepInv, TargetStepInv

-----------------------------------------------------------------------------
(* The steps of the rollback.                                              *)

\* A rollback step has work only in a failed session, and brings back to the
\* source what it finds there: the target and the key file are not touched.
LEMMA UndoEffect ==
  ASSUME IInv, NEW role \in Roles, UndoTask(role)
  PROVE  /\ orch.state = "FAILED"
         /\ \E name \in RollbackNames : EndUndo(role, name)
         /\ identity' \in [Roles -> {"staked", "unstaked"}]
         /\ voter' \in [Roles -> BOOLEAN] /\ tower' \in [Roles -> BOOLEAN]
         /\ tmpKey' \in BOOLEAN /\ keyFile' = keyFile
         /\ identity'["target"] = identity["target"] /\ voter'["target"] = voter["target"]
<1>1. Typed
  BY DEF IInv
<1>2. {"restore_source_identity", "readd_authorized_voter_source",
       "remove_transferred_files_target", "verify_source_voting"} \subseteq RollbackNames
  BY DEF RollbackNames, RollbackSequence
<1>3. /\ \E name \in RollbackNames : EndUndo(role, name)
      /\ identity' \in [Roles -> {"staked", "unstaked"}]
      /\ voter' \in [Roles -> BOOLEAN] /\ tower' \in [Roles -> BOOLEAN]
      /\ tmpKey' \in BOOLEAN /\ keyFile' = keyFile
      /\ identity'["target"] = identity["target"] /\ voter'["target"] = voter["target"]
  <2>1. CASE role = "source" /\ RestoreIdentity
    BY <1>1, <1>2, <2>1 DEF Typed, RestoreIdentity, SetIdentity
  <2>2. CASE role = "source" /\ ReaddVoter
    BY <1>1, <1>2, <2>2 DEF Typed, ReaddVoter, AddAuthorizedVoter
  <2>3. CASE role = "source" /\ VerifyVoting
    BY <1>1, <1>2, <2>3 DEF Typed, VerifyVoting, hosts
  <2>4. CASE role = "target" /\ RemoveFiles
    <3>1. /\ EndUndo("target", "remove_transferred_files_target")
          /\ tmpKey' \in {tmpKey, FALSE}
          /\ tower' \in {tower, [tower EXCEPT !["target"] = FALSE]}
          /\ UNCHANGED <<identity, voter, keyFile>>
      BY <2>4 DEF RemoveFiles
    <3>2. QED
      BY <1>1, <1>2, <2>4, <3>1 DEF Typed
  <2>5. CASE \E name \in RollbackNames : UndoFails(role, name)
    BY <1>1, <2>5 DEF Typed, UndoFails, hosts
  <2>6. QED
    BY <2>1, <2>2, <2>3, <2>4, <2>5 DEF UndoTask
<1>4. undoing[role] # {}
  BY <1>3 DEF EndUndo
<1>5. orch.state = "FAILED"
  BY <1>4 DEF IInv, UndoneOnlyAfterFailure
<1>6. QED
  BY <1>3, <1>5

\* The end of a rollback step, and with it that of an agent which has given
\* up on the hub.
LEMMA UndoTaskInv ==
  ASSUME IInv, NEW role \in Roles, UndoTask(role)
  PROVE  IInv'
<1>1. /\ orch.state = "FAILED"
      /\ \E name \in RollbackNames : EndUndo(role, name)
      /\ identity' \in [Roles -> {"staked", "unstaked"}]
      /\ voter' \in [Roles -> BOOLEAN] /\ tower' \in [Roles -> BOOLEAN]
      /\ tmpKey' \in BOOLEAN /\ keyFile' = keyFile
      /\ identity'["target"] = identity["target"] /\ voter'["target"] = voter["target"]
  BY UndoEffect
<1>2. /\ captured' = captured /\ Remember /\ emitted' = << >>
      /\ UNCHANGED <<orch, hub, conn, toHub, seen, received>>
  BY DEF UndoTask
<1>3. Typed /\ (\A r \in Roles : OneToken(r)) /\ Cut /\ NoticeFirst
  BY DEF IInv, TokenInv
<1>4. /\ agent' \in [Roles -> {"up", "deaf", "exited"}]
      /\ running' \in [Roles -> SUBSET Steps] /\ passed' \subseteq {6, 9}
      /\ undoing' \in [Roles -> SUBSET RollbackNames]
      /\ toAgent' \in [Roles -> Seq(Messages)]
      /\ Shorter(toAgent'[role], toAgent[role])
      /\ toAgent'[role] = toAgent[role] \/ conn[role] # "open"
      /\ \A r \in Roles : /\ running'[r] = running[r] \/ running'[r] = {}
                          /\ undoing'[r] # {} => undoing[r] # {}
                          /\ agent'[r] # "up" => agent[r] # "up"
                          /\ r # role => toAgent'[r] = toAgent[r]
  <2>1. PICK name \in RollbackNames : EndUndo(role, name)
    BY <1>1
  <2>2. CASE agent[role] = "deaf"
    <3>1. /\ agent' = [agent EXCEPT ![role] = "exited"]
          /\ running' = [running EXCEPT ![role] = {}]
          /\ undoing' = [undoing EXCEPT ![role] = {}]
          /\ passed' \subseteq passed
          /\ toAgent' = [toAgent EXCEPT ![role] = << >>]
      BY <2>1, <2>2 DEF EndUndo
    <3>2. conn[role] # "open" /\ << >> \in Seq(Messages)
      BY <1>3, <2>2 DEF Cut
    <3>3. QED
      BY <1>3, <2>2, <3>1, <3>2 DEF Typed, Shorter
  <2>3. CASE agent[role] # "deaf"
    <3>1. /\ undoing' = [undoing EXCEPT ![role] = @ \ {name}]
          /\ name \in undoing[role]
          /\ UNCHANGED <<agent, running, passed, toAgent>>
      BY <2>1, <2>3 DEF EndUndo
    <3>2. QED
      BY <1>3, <3>1 DEF Typed, Shorter
  <2>4. QED
    BY <2>2, <2>3
<1>5. /\ Ordered(role)' = Ordered(role) \/ Ordered(role)' = << >>
      /\ ToUndo(role)' # << >> => ToUndo(role) # << >>
      /\ role = "source" => NoticesAhead
  BY <1>3, <1>4, AgentCut
<1>6. /\ \A r \in Roles : r # role => Ordered(r)' = Ordered(r) /\ ToUndo(r)' = ToUndo(r)
      /\ role # "source" => Notices' = Notices
      /\ \A r \in Roles : Told(r)' = Told(r)
      /\ NewsOf' = NewsOf /\ Current' = Current
  BY <1>2, <1>4 DEF Ordered, ToUndo, Notices, NewsOf, Told, Current
<1>7. Typed'
  <2>1. emitted' \in Seq(Events) /\ stale' \in BOOLEAN
    BY <1>2, EventLists DEF Remember
  <2>2. QED
    BY <1>1, <1>2, <1>3, <1>4, <2>1 DEF Typed, received
<1>8. Cut'
  BY <1>2, <1>3, <1>4 DEF Cut
<1>9. HubOK' /\ TokenInv'
  <2>1. NoProgress /\ TracesDrop
    BY <1>2, <1>3, <1>4, <1>5, <1>6 DEF Typed, NoProgress, SameProgress, TracesDrop
  <2>2. QED
    BY <2>1, TokenDrops DEF IInv
<1>10. UndoneOnlyAfterFailure'
  BY <1>1, <1>2 DEF UndoneOnlyAfterFailure
<1>11. Milestones'
  <2>1. \A s \in Steps, r \in Roles : Succeeded(s, r)' => Succeeded(s, r)
    BY <1>2, <1>6 DEF Succeeded
  <2>2. Onward /\ InTime(Current)
    BY <1>1, <1>2 DEF Onward, InTime
  <2>3. Current \in Int /\ identity'["source"] \in {"staked", "unstaked"}
    BY <1>1, <1>3 DEF Typed, Orchestrators, Current
  <2>4. QED
    BY <1>2, <2>1, <2>2, <2>3, MilestonesAdvance DEF IInv
<1>12. NoticeFirst'
  <2>1. NewsAhead
    BY <1>3, <1>6, NewsStays
  <2>2. NoticesAhead
    BY <1>5, <1>6 DEF NoticesAhead
  <2>3. Notified => Notified'
    <3>1. Notices' = Notices \/ conn'["source"] # "open"
      BY <1>2, <1>4, <1>6 DEF Notices
    <3>2. QED
      BY <1>2, <3>1, StillNotified DEF received
  <2>4. 9 \in running'["source"] => 9 \in running["source"]
    BY <1>4
  <2>5. QED
    BY <1>2, <1>3, <2>1, <2>2, <2>3, <2>4, NoticeStands DEF received
<1>13. QED
  BY <1>7, <1>8, <1>9, <1>10, <1>11, <1>12 DEF IInv

-----------------------------------------------------------------------------
(* The invariant, of every behaviour.                                      *)

\* The invariant holds when the operator may first start the migration.
LEMMA InitInv == Init => IInv
<1> SUFFICES ASSUME Init PROVE IInv
  OBVIOUS
<1>1. /\ orch = Prepared /\ emitted = << >> /\ hub = "up"
      /\ conn = [r \in Roles |-> "open"]
      /\ toAgent = [r \in Roles |-> << >>] /\ toHub = [r \in Roles |-> << >>]
      /\ agent = [r \in Roles |-> "up"]
      /\ running = [r \in Roles |-> {}] /\ undoing = [r \in Roles |-> {}]
      /\ passed = {} /\ payloads = {} /\ confirmed = FALSE
      /\ identity = [r \in Roles |-> IF r = "source" THEN "staked" ELSE "unstaked"]
      /\ voter = [r \in Roles |-> r = "source"]
      /\ tower = [r \in Roles |-> r = "source"]
      /\ keyFile = TRUE /\ tmpKey = FALSE
      /\ seen = "voting" /\ captured = FALSE /\ stale = FALSE
  BY DEF Init
<1>2. /\ orch \in Orchestrators /\ orch.state = "AWAITING_WINDOW" /\ Current = 0
      /\ orch.stepsCompleted = 0 /\ \A s \in BilateralSteps : orch.acks[s] = {}
  <2>1. orch = [state |-> "AWAITING_WINDOW",
                agents |-> [r \in Roles |-> TRUE], sas |-> [r \in Roles |-> TRUE],
                preflight |-> [r \in Roles |-> "ok"], currentStep |-> 0,
                stepsCompleted |-> 0, acks |-> [s \in BilateralSteps |-> {}]]
    BY <1>1 DEF Prepared, Fresh
  <2>2. orch \in Orchestrators
    BY <2>1 DEF Orchestrators, States, Verdicts
  <2>3. /\ orch.state = "AWAITING_WINDOW" /\ Current = 0 /\ orch.stepsCompleted = 0
        /\ orch.acks = [s \in BilateralSteps |-> {}]
    BY <2>1 DEF Current
  <2>4. QED
    BY <2>2, <2>3
<1>3. Typed
  <2>1. emitted \in Seq(Events) /\ << >> \in Seq(Messages) /\ << >> \in Seq(Reports)
    BY <1>1, EventLists
  <2>2. QED
    BY <1>1, <1>2, <2>1 DEF Typed
<1>4. HubOK
  BY <1>2 DEF HubOK
<1>5. /\ \A r \in Roles : Ordered(r) = << >> /\ Told(r) = << >> /\ ToUndo(r) = << >>
      /\ Notices = << >> /\ NewsOf = << >>
  BY <1>1, FilterEmpty DEF Ordered, Told, ToUndo, Notices, NewsOf
<1>6. TokenInv
  BY <1>1, <1>2, <1>5 DEF TokenInv, OneToken, Idle, AcksOK
<1>7. UndoneOnlyAfterFailure /\ Cut
  BY <1>1, <1>5 DEF UndoneOnlyAfterFailure, Cut
<1>8. Milestones
  <2>1. ASSUME NEW s \in Steps, NEW r \in Roles PROVE ~Succeeded(s, r)
    <3>1. << >> # <<StepDone(s)>>
      OBVIOUS
    <3>2. ~(s < Current) /\ orch.state # "COMPLETE"
      BY <1>2
    <3>3. Told(r) # <<StepDone(s)>>
      BY <1>5, <3>1
    <3>4. ~(s \in BilateralSteps /\ r \in orch.acks[s])
      BY <1>2
    <3>5. QED
      BY <3>2, <3>3, <3>4 DEF Succeeded
  <2>2. /\ ~Succeeded(2, "source") /\ ~Succeeded(3, "source") /\ ~Succeeded(4, "target")
        /\ ~Succeeded(5, "target") /\ ~Succeeded(6, "target")
        /\ ~Succeeded(7, "target") /\ ~Succeeded(9, "source")
    BY <2>1
  <2>3. /\ identity["target"] = "unstaked" /\ ~voter["target"]
        /\ keyFile /\ ~captured /\ ~stale
    BY <1>1
  <2>4. QED
    BY <2>2, <2>3 DEF Milestones, Forward, Lasting, NotEarly
<1>9. NoticeFirst
  BY <1>1, <1>5 DEF NoticeFirst
<1>10. QED
  BY <1>3, <1>4, <1>6, <1>7, <1>8, <1>9 DEF IInv

\* A step in which nothing happens.
LEMMA StutterInv ==
  ASSUME IInv, UNCHANGED vars
  PROVE  IInv'
<1>1. /\ Typed' /\ Cut' /\ TracesDrop /\ orch' = orch
      /\ UNCHANGED <<identity, voter, tower, keyFile, captured, stale>>
      /\ KeyThere' = KeyThere
      /\ \A r \in Roles : ToUndo(r)' = ToUndo(r) /\ undoing'[r] = undoing[r]
  <2>1. UNCHANGED <<orch, emitted, hub, conn, toAgent, toHub, agent, running, passed, undoing>>
    BY DEF vars, channels, tasks
  <2>2. UNCHANGED <<payloads, confirmed, identity, voter, tower, keyFile, tmpKey, seen,
                    captured, stale>>
    BY DEF vars, received, hosts
  <2>3. Typed'
    BY <2>1, <2>2 DEF IInv, Typed
  <2>4. QED
    BY <2>1, <2>2, <2>3 DEF IInv, Cut, TracesDrop, Ordered, Told, ToUndo, KeyThere
<1>2. NoticeFirst'
  BY DEF IInv, NoticeFirst, Notified, Notices, NewsOf, Notice, Relayed, News, Payload,
         RunStep, StepDone, vars, channels, tasks, received
<1>3. QED
  BY <1>1, <1>2, StandInv

\* Every step of the system preserves the invariant.
LEMMA NextInv ==
  ASSUME IInv, [Next]_vars
  PROVE  IInv'
<1>1. CASE UNCHANGED vars
  BY <1>1, StutterInv
<1>2. CASE hub = "up" /\ (OperatorStart \/ OperatorAbort)
  BY <1>2, OperatorStartInv, OperatorAbortInv
<1>3. CASE HubStops
  BY <1>3, HubStopsInv
<1>4. ASSUME NEW role \in Roles,
             \/ hub = "up" /\ (HubReceives(role) \/ HubSeesClose(role))
             \/ AgentExits(role) \/ HeartbeatTimeout(role)
             \/ AgentReceives(role)
             \/ StepTask(role) \/ StepFailure(role) \/ UndoTask(role)
      PROVE  IInv'
  <2>1. CASE hub = "up" /\ (HubReceives(role) \/ HubSeesClose(role))
    BY <2>1, HubReceivesInv, HubSeesCloseInv
  <2>2. CASE AgentExits(role) \/ HeartbeatTimeout(role)
    BY <2>2, AgentExitsInv, HeartbeatTimeoutInv
  <2>3. CASE AgentReceives(role)
    BY <2>3, OrderReadInv, OtherReadInv
  <2>4. CASE StepTask(role) \/ StepFailure(role)
    BY <2>4, StepTaskInv, StepFailureInv
  <2>5. CASE UndoTask(role)
    BY <2>5, UndoTaskInv
  <2>6. QED
    BY <1>4, <2>1, <2>2, <2>3, <2>4, <2>5
<1>5. CASE Observe
  BY <1>5, ObserveInv
<1>6. QED
  BY <1>1, <1>2, <1>3, <1>4, <1>5 DEF Next

\* The invariant is one of the system.
THEOREM Inductive == Spec => []IInv
<1>1. IInv /\ [Next]_vars => IInv'
  BY NextInv
<1>2. QED
  BY InitInv, <1>1, PTL DEF Spec

-----------------------------------------------------------------------------
(* What a migration promises.                                              *)

\* What the step that is reached says of those before it.
LEMMA StepsBefore ==
  ASSUME IInv, orch.state # "FAILED"
  PROVE  /\ Current >= 3 => identity["source"] = "unstaked"
         /\ Current >= 4 => ~voter["source"]
         /\ Current >= 5 => tower["target"]
<1>1. Current \in Int
  BY DEF IInv, Typed, Orchestrators, Current
<1>2. /\ Current >= 3 => Succeeded(2, "source")
      /\ Current >= 4 => Succeeded(3, "source")
      /\ Current >= 5 => Succeeded(4, "target")
  BY <1>1 DEF Succeeded
<1>3. QED
  BY <1>2 DEF IInv, Milestones, Forward

\* Every variable of the hub, the agents and the validators keeps its type;
\* no step is dispatched to an agent that has no part in it.
THEOREM TypeCorrect == Spec => []TypeOK
<1>1. IInv => TypeOK
  <2> SUFFICES ASSUME IInv PROVE TypeOK
    OBVIOUS
  <2>1. Typed /\ (\A r \in Roles : OneToken(r))
    BY DEF IInv, TokenInv
  <2>2. \A r \in Roles : running[r] \subseteq StepsOf(r)
    BY <2>1 DEF OneToken, Idle, AtWork
  <2>3. running["source"] \subseteq {1, 2, 3, 4, 5, 9} /\ running["target"] \subseteq 4 .. 8
    BY <2>2 DEF StepsOf
  <2>4. QED
    BY <2>1, <2>3 DEF Typed, TypeOK
<1>2. QED
  BY <1>1, Inductive, PTL

\* As long as the migration is not given up, the target takes over only from
\* a source that has stopped, and with its last vote.
THEOREM CleanTakeoverHolds == Spec => []CleanTakeover
<1>1. IInv => CleanTakeover
  <2> SUFFICES ASSUME IInv, orch.state # "FAILED", identity["target"] = "staked"
               PROVE  /\ identity["source"] = "unstaked" /\ ~voter["source"]
                      /\ tower["target"] /\ ~stale
    BY DEF CleanTakeover
  <2>1. Current >= 6 /\ Current \in Int
    BY DEF IInv, Milestones, NotEarly, Typed, Orchestrators, Current
  <2>2. Current >= 3 /\ Current >= 4 /\ Current >= 5
    BY <2>1
  <2>3. ~stale
    BY DEF IInv, Milestones, Forward
  <2>4. QED
    BY <2>2, <2>3, StepsBefore
<1>2. QED
  BY <1>1, Inductive, PTL

\* Two validators run under one identity only after a failure at step 6 or
\* later; after an earlier one, the target never starts to vote and the
\* source keeps its key.
THEOREM DualOnlyAfterLateFailureHolds == Spec => []DualOnlyAfterLateFailure
<1>1. IInv => DualOnlyAfterLateFailure
  <2> SUFFICES ASSUME IInv PROVE DualOnlyAfterLateFailure
    OBVIOUS
  <2>1. /\ Current \in Int
        /\ identity["target"] = "staked" => Current >= 6
        /\ voter["target"] => Current >= 7
        /\ ~keyFile => Current = 9
        /\ identity["target"] \in {"staked", "unstaked"}
    BY DEF IInv, Milestones, NotEarly, Typed, Orchestrators, Current
  <2>2. ASSUME \A r \in Roles : identity[r] = "staked"
        PROVE  orch.state = "FAILED" /\ orch.currentStep >= 6
    <3>1. Current >= 6 /\ Current >= 3
      BY <2>1, <2>2
    <3>2. orch.state = "FAILED"
      BY <2>2, <3>1, StepsBefore
    <3>3. QED
      BY <3>1, <3>2 DEF Current
  <2>3. ASSUME orch.state = "FAILED" /\ orch.currentStep < 6
        PROVE  identity["target"] = "unstaked" /\ ~voter["target"] /\ keyFile
    BY <2>1, <2>3 DEF Current
  <2>4. QED
    BY <2>2, <2>3 DEF DualOnlyAfterLateFailure
<1>2. QED
  BY <1>1, Inductive, PTL

\* The source's key is destroyed only once the target runs under the identity
\* and can vote.
THEOREM WipeOnlyAfterTakeoverHolds == Spec => []WipeOnlyAfterTakeover
<1>1. IInv => WipeOnlyAfterTakeover
  <2> SUFFICES ASSUME IInv, ~keyFile PROVE identity["target"] = "staked" /\ voter["target"]
    BY DEF WipeOnlyAfterTakeover
  <2>1. Current = 9
    BY DEF IInv, Milestones, NotEarly
  <2>2. Succeeded(6, "target") /\ Succeeded(7, "target")
    BY <2>1 DEF Succeeded
  <2>3. QED
    BY <2>2 DEF IInv, Milestones, Lasting
<1>2. QED
  BY <1>1, Inductive, PTL

\* The staked keypair is on one of the two disks at least, unless the target's
\* agent has ended or the session failed at step 9: the source wipes its own
\* once the target has reported the copy of step 5, and that copy stays.
THEOREM KeyOnDiskHolds == Spec => []KeyOnDisk
<1>1. IInv => KeyOnDisk
  <2> SUFFICES ASSUME IInv, ~keyFile, ~(orch.state = "FAILED" /\ Current = 9)
               PROVE  KeyThere
    BY DEF KeyOnDisk, KeyThere, Current
  <2>1. Current = 9 /\ orch.state # "FAILED"
    BY DEF IInv, Milestones, NotEarly
  <2>2. Succeeded(5, "target")
    BY <2>1 DEF Succeeded
  <2>3. QED
    BY <2>1, <2>2 DEF IInv, Milestones, Forward
<1>2. QED
  BY <1>1, Inductive, PTL

\* When step 9 starts, the source has the target's confirmation.
THEOREM ConfirmedBeforeCleanupHolds == Spec => []ConfirmedBeforeCleanup
<1>1. IInv => ConfirmedBeforeCleanup
  BY DEF IInv, NoticeFirst, ConfirmedBeforeCleanup
<1>2. QED
  BY <1>1, Inductive, PTL

\* A completed session is a completed handover.
THEOREM CompleteIsHandedOverHolds == Spec => []CompleteIsHandedOver
<1>1. IInv => CompleteIsHandedOver
  <2> SUFFICES ASSUME IInv, orch.state = "COMPLETE"
               PROVE  /\ Voting("target") /\ identity["source"] = "unstaked"
                      /\ ~voter["source"] /\ ~keyFile
    BY DEF CompleteIsHandedOver
  <2>1. \A s \in Steps, r \in Roles : Succeeded(s, r)
    BY DEF Succeeded
  <2>2. identity["source"] = "unstaked" /\ ~voter["source"]
    BY <2>1 DEF IInv, Milestones, Forward
  <2>3. identity["target"] = "staked" /\ voter["target"] /\ ~keyFile
    BY <2>1 DEF IInv, Milestones, Lasting
  <2>4. QED
    BY <2>2, <2>3 DEF Voting
<1>2. QED
  BY <1>1, Inductive, PTL

\* Until the migration is given up, an agent has at most the current step
\* under way.
THEOREM OneStepAtATimeHolds == Spec => []OneStepAtATime
<1>1. IInv => OneStepAtATime
  <2> SUFFICES ASSUME IInv, NEW r \in Roles PROVE running[r] \subseteq {orch.currentStep}
    BY DEF OneStepAtATime
  <2>1. OneToken(r)
    BY DEF IInv, TokenInv
  <2>2. QED
    BY <2>1 DEF OneToken, Idle, AtWork, Current
<1>2. QED
  BY <1>1, Inductive, PTL

-----------------------------------------------------------------------------
(* The refinement: the staked identity is handed over as Handover says.    *)

Holding == {r \in Roles : identity[r] = "staked"}

\* Nothing that the handover speaks of changes.
Aside == Holding' = Holding /\ Stage' = Stage /\ keyFile' = keyFile

\* The steps of the handover, in terms of the system.
LEMMA HandoverSays ==
  /\ H!Release <=> /\ Stage \in {"release", "undo"} /\ Holding' = Holding \ {"source"}
                   /\ Stage' = Stage /\ keyFile' = keyFile
  /\ H!Authorise <=> /\ Stage = "release" /\ Holding = {} /\ Stage' = "takeover"
                     /\ Holding' = Holding /\ keyFile' = keyFile
  /\ H!TakeOver <=> /\ Stage \in {"takeover", "undo_late"}
                    /\ Holding' = Holding \cup {"target"}
                    /\ Stage' = Stage /\ keyFile' = keyFile
  /\ H!Wipe <=> /\ Stage \in {"takeover", "undo_late"} /\ "target" \in Holding
                /\ keyFile' = FALSE /\ Holding' = Holding /\ Stage' = Stage
  /\ H!GiveUp <=> /\ \/ Stage = "release" /\ Stage' = "undo"
                     \/ Stage = "takeover" /\ Stage' = "undo_late"
                  /\ Holding' = Holding /\ keyFile' = keyFile
  /\ H!Restore <=> /\ Stage \in {"undo", "undo_late"} /\ keyFile
                   /\ Holding' = Holding \cup {"source"}
                   /\ Stage' = Stage /\ keyFile' = keyFile
  BY DEF Holding, H!Release, H!Authorise, H!TakeOver, H!Wipe,
         H!GiveUp, H!Restore

\* A task of an agent is one of the current step.
LEMMA TaskIsCurrent ==
  ASSUME IInv, NEW role \in Roles, NEW step, step \in running[role]
  PROVE  step = Current
<1>1. OneToken(role)
  BY DEF IInv, TokenInv
<1>2. QED
  BY <1>1 DEF OneToken, Idle, AtWork

\* What a turn of the hub is to the handover: going on to the takeover, once
\* the source has stopped, or giving up.
LEMMA TurnHandsOver ==
  ASSUME IInv, UNCHANGED AgentSide,
         \/ orch' = orch \/ Stays \/ GivesUp
         \/ orch.state = "AWAITING_WINDOW" /\ Begins(1)
         \/ orch.state = "MIGRATING" /\ ((\E role \in Roles : Awaits(role))
                                         \/ Begins(Current + 1) \/ Completes)
  PROVE  H!HandoverNext \/ Aside
<1>1. Holding' = Holding /\ keyFile' = keyFile
  BY DEF AgentSide, hosts, Holding
<1>2. Current \in Int /\ orch.state \in States
  BY DEF IInv, Typed, Orchestrators, Current
<1>3. CASE orch' = orch \/ Stays
  <2>1. orch'.state = orch.state /\ orch'.currentStep = orch.currentStep
    BY <1>3 DEF Stays, SameProgress
  <2>2. Stage' = Stage
    BY <2>1 DEF Stage
  <2>3. QED
    BY <1>1, <2>2 DEF Aside
<1>4. CASE GivesUp
  <2>1. /\ orch.state # "FAILED" /\ orch'.state = "FAILED"
        /\ orch'.currentStep = orch.currentStep
    BY <1>4 DEF GivesUp, SameProgress
  <2>2. \/ Stage = "release" /\ Stage' = "undo"
        \/ Stage = "takeover" /\ Stage' = "undo_late"
    BY <2>1 DEF Stage
  <2>3. H!GiveUp
    BY <1>1, <2>2, HandoverSays
  <2>4. QED
    BY <2>3 DEF H!HandoverNext
<1>5. CASE orch.state = "AWAITING_WINDOW" /\ Begins(1)
  <2>1. orch'.state = "MIGRATING" /\ orch'.currentStep = 1 /\ orch.currentStep = 0
    BY <1>5 DEF Begins, IInv, HubOK, Current
  <2>2. Stage' = "release" /\ Stage = "release"
    BY <1>5, <2>1 DEF Stage
  <2>3. QED
    BY <1>1, <2>2 DEF Aside
<1>6. CASE orch.state = "MIGRATING" /\ \E role \in Roles : Awaits(role)
  <2>1. orch'.state = "MIGRATING" /\ orch'.currentStep = orch.currentStep
    BY <1>6 DEF Awaits, Current
  <2>2. Stage' = Stage
    BY <1>6, <2>1 DEF Stage
  <2>3. QED
    BY <1>1, <2>2 DEF Aside
<1>7. CASE orch.state = "MIGRATING" /\ Begins(Current + 1)
  <2>1. orch'.state = "MIGRATING" /\ orch'.currentStep = Current + 1
    BY <1>7 DEF Begins
  <2>2. CASE Current = 5
    <3>1. Stage = "release" /\ Stage' = "takeover"
      BY <1>7, <2>1, <2>2 DEF Stage, Current
    <3>2. identity["target"] # "staked"
      BY <2>2 DEF IInv, Milestones, NotEarly
    <3>3. identity["source"] = "unstaked"
      BY <1>7, <2>2, StepsBefore
    <3>4. Holding = {}
      BY <3>2, <3>3 DEF Holding
    <3>5. H!Authorise
      BY <1>1, <3>1, <3>4, HandoverSays
    <3>6. QED
      BY <3>5 DEF H!HandoverNext
  <2>3. CASE Current # 5
    <3>1. Stage' = Stage
      BY <1>2, <1>7, <2>1, <2>3 DEF Stage, Current
    <3>2. QED
      BY <1>1, <3>1 DEF Aside
  <2>4. QED
    BY <2>2, <2>3
<1>8. CASE orch.state = "MIGRATING" /\ Completes
  <2>1. orch'.state = "COMPLETE" /\ orch'.currentStep = 9 /\ orch.currentStep = 9
    BY <1>8 DEF Completes, Current
  <2>2. Stage' = Stage
    BY <1>8, <2>1 DEF Stage
  <2>3. QED
    BY <1>1, <2>2 DEF Aside
<1>9. QED
  BY <1>3, <1>4, <1>5, <1>6, <1>7, <1>8

\* The hub's actions are turns of that kind.
LEMMA HubHandsOver ==
  ASSUME IInv,
         \/ OperatorStart \/ OperatorAbort
         \/ \E role \in Roles : HubReceives(role) \/ HubSeesClose(role)
  PROVE  H!HandoverNext \/ Aside
<1>0. Typed /\ HubOK
  BY DEF IInv
<1>1. CASE OperatorStart
  <2>1. orch.state = "AWAITING_WINDOW" /\ StartMigration(orch) /\ UNCHANGED AgentSide
    BY <1>1 DEF OperatorStart
  <2>2. Begins(1)
    BY <1>0, <2>1, StartCall
  <2>3. QED
    BY <2>1, <2>2, TurnHandsOver
<1>2. CASE OperatorAbort
  <2>1. ~IsTerminal(orch) /\ Abort(orch) /\ UNCHANGED AgentSide
    BY <1>2 DEF OperatorAbort
  <2>2. GivesUp
    BY <1>0, <2>1, AbortCall
  <2>3. QED
    BY <2>1, <2>2, TurnHandsOver
<1>3. ASSUME NEW role \in Roles, HubSeesClose(role) PROVE H!HandoverNext \/ Aside
  <2>1. /\ UNCHANGED AgentSide
        /\ orch' = orch \/ (~IsTerminal(orch) /\ OnAgentDisconnected(orch, role))
    BY <1>3 DEF HubSeesClose
  <2>2. orch' = orch \/ Stays \/ GivesUp
    BY <1>0, <2>1, CloseCall
  <2>3. QED
    BY <2>1, <2>2, TurnHandsOver
<1>4. ASSUME NEW role \in Roles, HubReceives(role) PROVE H!HandoverNext \/ Aside
  <2> DEFINE msg == Head(toHub[role])
  <2>1. /\ UNCHANGED AgentSide /\ toHub[role] # << >>
        /\ \/ orch' = orch
           \/ /\ msg.type = "step_complete" /\ ~IsTerminal(orch)
              /\ OnStepComplete(orch, msg.step, role)
           \/ /\ msg.type = "step_failed" /\ ~IsTerminal(orch)
              /\ OnStepFailed(orch, msg.step, role)
    BY <1>4 DEF HubReceives, Relay
  <2>2. msg \in Reports
    BY <1>0, <2>1, HeadTailProperties DEF Typed
  <2> HIDE DEF msg
  <2>3. CASE orch' = orch
    BY <2>1, <2>3, TurnHandsOver
  <2>4. CASE /\ msg.type = "step_complete" /\ ~IsTerminal(orch)
             /\ OnStepComplete(orch, msg.step, role)
    <3>1. msg.step \in Steps
      BY <2>2, <2>4, ReportKinds
    <3>2. \/ Stays
          \/ /\ orch.state = "MIGRATING"
             /\ Awaits(role) \/ Begins(Current + 1) \/ Completes
      BY <1>0, <2>4, <3>1, DoneCall
    <3>3. QED
      BY <2>1, <3>2, TurnHandsOver
  <2>5. CASE /\ msg.type = "step_failed" /\ ~IsTerminal(orch)
             /\ OnStepFailed(orch, msg.step, role)
    <3>1. msg.step \in Steps
      BY <2>2, <2>5, ReportKinds
    <3>2. Stays \/ GivesUp
      BY <1>0, <2>5, <3>1, BrokenCall
    <3>3. QED
      BY <2>1, <3>2, TurnHandsOver
  <2>6. QED
    BY <2>1, <2>3, <2>4, <2>5
<1>5. QED
  BY <1>1, <1>2, <1>3, <1>4

\* Of the steps of the migration, step 2 releases the identity, step 6 takes
\* it over and step 9 wipes the source's key.
LEMMA StepHandsOver ==
  ASSUME IInv, NEW role \in Roles, StepTask(role)
  PROVE  H!HandoverNext \/ Aside
<1>1. /\ SourceStep \/ TargetStep
      /\ orch' = orch /\ Stage' = Stage
  BY DEF StepTask, Stage
<1>2. Typed
  BY DEF IInv
<1>3. CASE Deactivate
  <2>1. /\ 2 \in running["source"] /\ identity' = [identity EXCEPT !["source"] = "unstaked"]
        /\ keyFile' = keyFile
    BY <1>3 DEF Deactivate, Reported, EndStep, SetIdentity
  <2>2. Current = 2
    BY <2>1, TaskIsCurrent
  <2>3. Stage \in {"release", "undo"}
    BY <2>2 DEF Stage, Current
  <2>4. Holding' = Holding \ {"source"}
    BY <1>2, <2>1 DEF Typed, Holding
  <2>5. H!Release
    BY <1>1, <2>1, <2>3, <2>4, HandoverSays
  <2>6. QED
    BY <2>5 DEF H!HandoverNext
<1>4. CASE Activate
  <2>1. /\ 6 \in running["target"] /\ identity' = [identity EXCEPT !["target"] = "staked"]
        /\ keyFile' = keyFile
    BY <1>4 DEF Activate, Reported, EndStep, SetIdentity
  <2>2. Current = 6
    BY <2>1, TaskIsCurrent
  <2>3. Stage \in {"takeover", "undo_late"}
    BY <2>2 DEF Stage, Current
  <2>4. Holding' = Holding \cup {"target"}
    BY <1>2, <2>1 DEF Typed, Holding
  <2>5. H!TakeOver
    BY <1>1, <2>1, <2>3, <2>4, HandoverSays
  <2>6. QED
    BY <2>5 DEF H!HandoverNext
<1>5. CASE WipeKey
  <2>1. 9 \in running["source"] /\ keyFile' = FALSE /\ identity' = identity
    BY <1>5 DEF WipeKey, Reported, EndStep
  <2>2. Current = 9
    BY <2>1, TaskIsCurrent
  <2>3. Stage \in {"takeover", "undo_late"}
    BY <2>2 DEF Stage, Current
  <2>4. Succeeded(6, "target")
    BY <2>2 DEF Succeeded
  <2>5. "target" \in Holding /\ Holding' = Holding
    BY <2>1, <2>4 DEF IInv, Milestones, Lasting, Holding
  <2>6. H!Wipe
    BY <1>1, <2>1, <2>3, <2>5, HandoverSays
  <2>7. QED
    BY <2>6 DEF H!HandoverNext
<1>6. CASE ~(Deactivate \/ Activate \/ WipeKey)
  <2>1. identity' = identity /\ keyFile' = keyFile
    BY <1>1, <1>6 DEF SourceStep, TargetStep, WindowReached, RemoveVoters, SendTower,
                      SendIdentity, PeerConfirmed, WriteTower, WriteIdentity, QuietSeen,
                      AddVoter, VotingSeen, hosts
  <2>2. Holding' = Holding
    BY <2>1 DEF Holding
  <2>3. QED
    BY <1>1, <2>1, <2>2 DEF Aside
<1>7. QED
  BY <1>3, <1>4, <1>5, <1>6

\* Of the steps of the rollback, one brings the source back.
LEMMA UndoHandsOver ==
  ASSUME IInv, NEW role \in Roles, UndoTask(role)
  PROVE  H!HandoverNext \/ Aside
<1>1. orch.state = "FAILED" /\ keyFile' = keyFile
  BY UndoEffect
<1>2. Stage' = Stage
  BY DEF UndoTask, Stage
<1>3. CASE RestoreIdentity
  <2>1. keyFile /\ identity' = [identity EXCEPT !["source"] = "staked"]
    BY <1>3 DEF RestoreIdentity, SetIdentity
  <2>2. Stage \in {"undo", "undo_late"}
    BY <1>1 DEF Stage
  <2>3. Holding' = Holding \cup {"source"}
    BY <2>1 DEF IInv, Typed, Holding
  <2>4. H!Restore
    BY <1>1, <1>2, <2>1, <2>2, <2>3, HandoverSays
  <2>5. QED
    BY <2>4 DEF H!HandoverNext
<1>4. CASE ~RestoreIdentity
  <2>1. identity' = identity
    BY <1>4 DEF UndoTask, ReaddVoter, VerifyVoting, RemoveFiles, UndoFails, hosts
  <2>2. QED
    BY <1>1, <1>2, <2>1 DEF Aside, Holding
<1>5. QED
  BY <1>3, <1>4

\* Every step of the system is a step of the handover, or none.
LEMMA RefinementStep ==
  ASSUME IInv, [Next]_vars
  PROVE  [H!HandoverNext]_(H!handoverVars)
<1>1. H!HandoverNext \/ Aside
  <2>1. CASE \/ OperatorStart \/ OperatorAbort
             \/ \E role \in Roles : HubReceives(role) \/ HubSeesClose(role)
    BY <2>1, HubHandsOver
  <2>2. CASE \E role \in Roles : StepTask(role)
    BY <2>2, StepHandsOver
  <2>3. CASE \E role \in Roles : UndoTask(role)
    BY <2>3, UndoHandsOver
  <2>4. CASE UNCHANGED <<orch, identity, keyFile>>
    BY <2>4 DEF Aside, Holding, Stage
  <2>5. HubStops => UNCHANGED <<orch, identity, keyFile>>
    BY DEF HubStops, hosts
  <2>6. Observe => UNCHANGED <<orch, identity, keyFile>>
    BY DEF Observe, hosts
  <2>7. UNCHANGED vars => UNCHANGED <<orch, identity, keyFile>>
    BY DEF vars, hosts
  <2>8. \A role \in Roles :
          AgentExits(role) \/ HeartbeatTimeout(role) \/ AgentReceives(role) =>
            UNCHANGED <<orch, identity, keyFile>>
    BY DEF AgentExits, HeartbeatTimeout, AgentReceives, HubSide, hosts
  <2>9. \A role \in Roles : StepFailure(role) => UNCHANGED <<orch, identity, keyFile>>
    BY DEF StepFailure, StepFails, hosts
  <2>10. QED
    BY <2>1, <2>2, <2>3, <2>4, <2>5, <2>6, <2>7, <2>8, <2>9 DEF Next
<1>2. Aside => UNCHANGED H!handoverVars
  BY DEF Aside, Holding, H!handoverVars
<1>3. QED
  BY <1>1, <1>2

\* The hub, the agents and the validators implement the handover: the staked
\* identity is released, taken over, wiped and restored as Handover allows.
THEOREM MigrationImplementsHandover == Spec => ImplementsHandover
<1>1. Init => H!HandoverInit
  <2> SUFFICES ASSUME Init PROVE H!HandoverInit
    OBVIOUS
  <2>1. /\ identity = [r \in Roles |-> IF r = "source" THEN "staked" ELSE "unstaked"]
        /\ keyFile = TRUE /\ orch = Prepared
    BY DEF Init
  <2>2. orch.state = "AWAITING_WINDOW" /\ orch.currentStep = 0
    BY <2>1 DEF Prepared, Fresh
  <2>3. {r \in Roles : identity[r] = "staked"} = {"source"}
    BY <2>1
  <2>4. Stage = "release"
    BY <2>2 DEF Stage
  <2>5. QED
    BY <2>1, <2>3, <2>4 DEF H!HandoverInit
<1>2. IInv /\ [Next]_vars => [H!HandoverNext]_(H!handoverVars)
  BY RefinementStep
<1>3. QED
  BY <1>1, <1>2, Inductive, PTL DEF Spec, ImplementsHandover, H!HandoverSpec
=============================================================================
