----------------------------- MODULE Migration -----------------------------
(***************************************************************************)
(* A migration from the moment the operator may start it: the hub, its two *)
(* agents (packages/agent/src/commands/agent.ts), the sockets between them *)
(* and the two validators the agents drive.                                *)
(*                                                                         *)
(* An agent starts a task for every hub:execute_step and for every         *)
(* hub:execute_rollback_step, awaits none of them before it takes the next *)
(* message, and cancels none: tasks of one agent run side by side.  A task *)
(* ends in one step, in which a command takes effect or not and the result *)
(* is sent; the two tasks that check something and then ask the operator   *)
(* before they act (6 and 9) do so in two.                                 *)
(*                                                                         *)
(* In this stage an agent never reconnects: its socket closes once, or its *)
(* heartbeat gives up once, or it dies.  Once the session has ended, the   *)
(* manager hands what still arrives to a new object, which ignores it.     *)
(*                                                                         *)
(* The hub's process may stop at any time.  The orchestrator is lost with  *)
(* it, no rollback is sent, and the agents learn of it as of a lost        *)
(* connection; what they have under way goes on.  A hub started again      *)
(* never hears of this migration's agents, so that `orch' stays what the   *)
(* session had come to.                                                    *)
(***************************************************************************)
EXTENDS Wiring, FiniteSets

CONSTANTS
  HasVoteKeypair,   \* the source was given --vote-account-keypair
  SkipQuietGate,    \* the target was given --unsafe-skip-quiet-gate
  Losable,          \* bound: the roles whose agents may be lost
  HubMayStop        \* bound: whether the hub's process may stop

ASSUME OptionsAssumption == HasVoteKeypair \in BOOLEAN /\ SkipQuietGate \in BOOLEAN
ASSUME LossAssumption == Losable \subseteq Roles /\ HubMayStop \in BOOLEAN

VARIABLES
  hub,        \* whether the hub's process is up or down
  conn,       \* a role's socket: open, lost (the hub has not noticed), gone
  toAgent,    \* what the hub has sent and the agent not read
  toHub,      \* what the agent has sent and the hub not read
  agent,      \* up, deaf (gave up on the hub, still running) or exited
  running,    \* steps each agent has under way
  passed,     \* of 6 and 9, those past their check, at the operator's prompt
  undoing,    \* rollback steps each agent has under way
  payloads,   \* kinds of the relayed payloads the target has not consumed
  confirmed,  \* peerVotingConfirmed of the source
  identity,   \* what each validator runs as
  voter,      \* whether each validator holds the authorised voter
  tower,      \* whether each ledger holds the tower of the staked identity
  keyFile,    \* the staked keypair at the source's --keypair
  tmpKey,     \* the received keypair in the target's /tmp
  seen,       \* what the cluster reports of the staked identity
  captured,   \* history: the source's tower has been read for the transfer
  stale       \* history: the source has voted since then

channels == <<conn, toAgent, toHub>>
tasks    == <<running, passed, undoing>>
received == <<payloads, confirmed>>
hosts    == <<identity, voter, tower, keyFile, tmpKey>>
vars == <<orch, emitted, hub, channels, agent, tasks, received, hosts, seen, captured, stale>>

\* Where the pairing and the preflight leave the session.
Prepared ==
  [Fresh EXCEPT !.state = "AWAITING_WINDOW",
                !.agents = [r \in Roles |-> TRUE],
                !.sas = [r \in Roles |-> TRUE],
                !.preflight = [r \in Roles |-> "ok"]]

Init ==
  /\ orch = Prepared /\ emitted = << >> /\ hub = "up"
  /\ conn = [r \in Roles |-> "open"]
  /\ toAgent = [r \in Roles |-> << >>] /\ toHub = [r \in Roles |-> << >>]
  /\ agent = [r \in Roles |-> "up"]
  /\ running = [r \in Roles |-> {}] /\ undoing = [r \in Roles |-> {}]
  /\ passed = {} /\ payloads = {} /\ confirmed = FALSE
  /\ identity = [r \in Roles |-> IF r = "source" THEN "staked" ELSE "unstaked"]
  /\ voter = [r \in Roles |-> r = "source"]
  /\ tower = [r \in Roles |-> r = "source"]
  /\ keyFile = TRUE /\ tmpKey = FALSE
  /\ seen = "voting" /\ captured = FALSE /\ stale = FALSE

\* A validator signs votes of the vote account.
Voting(role) == identity[role] = "staked" /\ voter[role]

-----------------------------------------------------------------------------
(* Messages.  A send on a socket that is not open, or whose hub has gone,  *)
(* is lost or throws.                                                      *)

StepDone(step)    == [type |-> "step_complete", step |-> step]
StepBroken(step)  == [type |-> "step_failed", step |-> step]
Payload(kind)     == [type |-> "encrypted_payload", kind |-> kind]
Relayed(kind)     == [type |-> "relay_payload", kind |-> kind]

\* The hub's messages to both agents.
Deliver(messages) ==
  toAgent' = [r \in Roles |-> IF conn[r] = "open" THEN toAgent[r] \o messages[r]
                                                  ELSE toAgent[r]]

DeliverEmitted == Deliver([r \in Roles |-> MessagesTo(r, emitted')])

\* An agent's messages to the hub.
Send(role, messages) ==
  toHub' = IF conn[role] = "open" /\ hub = "up"
           THEN [toHub EXCEPT ![role] = @ \o messages]
           ELSE toHub

Prefixes(s) == {SubSeq(s, 1, n) : n \in 0 .. Len(s)}

-----------------------------------------------------------------------------
(* The hub.                                                                *)

AgentSide == <<hub, agent, tasks, received, hosts, seen, captured, stale>>

OperatorStart ==
  /\ orch.state = "AWAITING_WINDOW"
  /\ StartMigration(orch)
  /\ DeliverEmitted
  /\ UNCHANGED <<conn, toHub, AgentSide>>

OperatorAbort ==
  /\ ~IsTerminal(orch)
  /\ Abort(orch)
  /\ DeliverEmitted
  /\ UNCHANGED <<conn, toHub, AgentSide>>

Relay(role, kind) ==
  /\ Deliver([r \in Roles |-> IF r = Peer(role) THEN <<Relayed(kind)>> ELSE << >>])
  /\ orch' = orch /\ emitted' = << >>

HubReceives(role) ==
  /\ toHub[role] # << >>
  /\ toHub' = [toHub EXCEPT ![role] = Tail(@)]
  /\ LET msg == Head(toHub[role]) IN
     \/ msg.type = "encrypted_payload" /\ Relay(role, msg.kind)
     \/ /\ msg.type # "encrypted_payload" /\ IsTerminal(orch)
        /\ orch' = orch /\ emitted' = << >> /\ UNCHANGED toAgent
     \/ /\ msg.type = "step_complete" /\ ~IsTerminal(orch)
        /\ OnStepComplete(orch, msg.step, role) /\ DeliverEmitted
     \/ /\ msg.type = "step_failed" /\ ~IsTerminal(orch)
        /\ OnStepFailed(orch, msg.step, role) /\ DeliverEmitted
  /\ UNCHANGED <<conn, AgentSide>>

\* The close of a socket, read after all that came before it.
HubSeesClose(role) ==
  /\ conn[role] = "lost" /\ toHub[role] = << >>
  /\ conn' = [conn EXCEPT ![role] = "gone"]
  /\ IF IsTerminal(orch)
     THEN orch' = orch /\ emitted' = << >> /\ UNCHANGED toAgent
     ELSE OnAgentDisconnected(orch, role) /\ DeliverEmitted
  /\ UNCHANGED <<toHub, AgentSide>>

-----------------------------------------------------------------------------
(* Losing the hub, or an agent.                                            *)

\* A signal, an exception or a crash: the orchestrator and what the hub had not
\* read are lost, and what was on its way to an agent may be.
HubStops ==
  /\ HubMayStop /\ hub = "up"
  /\ hub' = "down"
  /\ toHub' = [r \in Roles |-> << >>]
  /\ \E s \in Prefixes(toAgent["source"]), t \in Prefixes(toAgent["target"]) :
       toAgent' = [r \in Roles |-> IF r = "source" THEN s ELSE t]
  /\ emitted' = << >>
  /\ UNCHANGED <<orch, conn, agent, tasks, received, hosts, seen, captured, stale>>

HubSide == <<orch, hub, seen, captured, stale>>

\* A connection is lost within the bound, and to a hub that has stopped.
MayBeLost(role) == role \in Losable \/ hub = "down"

\* The socket closes (disconnected_unsafe), a signal arrives or the process
\* is killed: all tasks go, and the keypair in /tmp is wiped, unless the
\* process was killed or the wipe fails.  What was on its way to the hub may
\* be cut short.
AgentExits(role) ==
  /\ MayBeLost(role) /\ agent[role] # "exited"
  /\ agent' = [agent EXCEPT ![role] = "exited"]
  /\ running' = [running EXCEPT ![role] = {}]
  /\ undoing' = [undoing EXCEPT ![role] = {}]
  /\ passed' = passed \ (IF role = "target" THEN {6} ELSE {9})
  /\ toAgent' = [toAgent EXCEPT ![role] = << >>]
  /\ IF conn[role] = "open"
     THEN /\ conn' = [conn EXCEPT ![role] = "lost"]
          /\ \E s \in Prefixes(toHub[role]) : toHub' = [toHub EXCEPT ![role] = s]
     ELSE UNCHANGED <<conn, toHub>>
  /\ tmpKey' \in IF role = "target" THEN {tmpKey, FALSE} ELSE {tmpKey}
  /\ emitted' = << >>
  /\ UNCHANGED <<HubSide, received, identity, voter, tower, keyFile>>

\* No pong for two heartbeats: the client closes its socket by itself, which
\* is not reported as a lost connection, and the agent carries on alone.
HeartbeatTimeout(role) ==
  /\ MayBeLost(role) /\ agent[role] = "up" /\ conn[role] = "open"
  /\ agent' = [agent EXCEPT ![role] = "deaf"]
  /\ conn' = [conn EXCEPT ![role] = "lost"]
  /\ \E s \in Prefixes(toHub[role]) : toHub' = [toHub EXCEPT ![role] = s]
  /\ \E s \in Prefixes(toAgent[role]) : toAgent' = [toAgent EXCEPT ![role] = s]
  /\ emitted' = << >>
  /\ UNCHANGED <<HubSide, tasks, received, hosts>>

-----------------------------------------------------------------------------
(* An agent's messages.                                                    *)

AgentReceives(role) ==
  /\ agent[role] # "exited" /\ toAgent[role] # << >>
  /\ toAgent' = [toAgent EXCEPT ![role] = Tail(@)]
  /\ LET msg == Head(toAgent[role]) IN
     \/ /\ msg.type = "execute_step"
        /\ running' = [running EXCEPT ![role] = @ \cup {msg.step}]
        /\ UNCHANGED <<undoing, received>>
     \/ /\ msg.type = "execute_rollback_step"
        /\ undoing' = [undoing EXCEPT ![role] = @ \cup {msg.name}]
        /\ UNCHANGED <<running, received>>
     \/ /\ msg.type = "relay_payload" /\ msg.kind = "voting_confirmed"
        /\ confirmed' = TRUE
        /\ UNCHANGED <<running, undoing, payloads>>
     \/ /\ msg.type = "relay_payload" /\ msg.kind # "voting_confirmed"
        /\ payloads' = payloads \cup {msg.kind}
        /\ UNCHANGED <<running, undoing, confirmed>>
  /\ emitted' = << >>
  /\ UNCHANGED <<HubSide, conn, toHub, agent, passed, hosts>>

-----------------------------------------------------------------------------
(* The steps of the migration.                                             *)

\* A task ends: it leaves the set of tasks and its messages are sent.  The
\* step_complete and step_failed of an agent without a socket are dropped.
EndStep(role, step, messages) ==
  /\ step \in running[role]
  /\ running' = [running EXCEPT ![role] = @ \ {step}]
  /\ passed' = passed \ {step}
  /\ Send(role, messages)
  /\ UNCHANGED undoing

\* A command has taken effect; its task may still report a failure, when the
\* command was killed by the timeout or ended with an error code.
Report(step) == {<<StepDone(step)>>, <<StepBroken(step)>>}

Reported(role, step) == \E report \in Report(step) : EndStep(role, step, report)

\* takePendingOfKind: the target waits until a payload of the kind is queued.
TakePending(kind) == kind \in payloads /\ payloads' = payloads \ {kind}

\* agave-validator set-identity; authorized-voter add and remove-all
SetIdentity(role, to) == identity' = [identity EXCEPT ![role] = to]
AddAuthorizedVoter(role) == voter' = [voter EXCEPT ![role] = TRUE]
RemoveAllAuthorizedVoters(role) == voter' = [voter EXCEPT ![role] = FALSE]

\* What `solana validators` says of the staked identity.
IsVoting == seen = "voting"
IsQuiet  == seen = "quiet"

\* Mutant: the error of a step is caught and forgotten.
StepFailsSilently(role, step) ==
  /\ EndStep(role, step, <<StepDone(step)>>)
  /\ UNCHANGED <<received, hosts, captured>>

\* Nothing was changed: the operator declined, a wait or a check timed out,
\* a file or a hash was wrong, or the command did not run.
StepFails(role, step) ==
  /\ EndStep(role, step, <<StepBroken(step)>>)
  /\ UNCHANGED <<received, hosts, captured>>

\* 1. waitForRestartWindow
WindowReached ==
  /\ EndStep("source", 1, <<StepDone(1)>>)
  /\ UNCHANGED <<received, hosts, captured>>

\* 2. set-identity to an unstaked keypair
Deactivate ==
  /\ Reported("source", 2)
  /\ SetIdentity("source", "unstaked")
  /\ UNCHANGED <<received, voter, tower, keyFile, tmpKey, captured>>

\* Mutant: the command is not awaited; the report leaves before it has run.
RemoveVotersUnawaited ==
  /\ Reported("source", 3)
  /\ UNCHANGED <<received, hosts, captured>>

\* 3. authorized-voter remove-all
RemoveVoters ==
  /\ Reported("source", 3)
  /\ RemoveAllAuthorizedVoters("source")
  /\ UNCHANGED <<received, identity, tower, keyFile, tmpKey, captured>>

\* 4. the source reads its tower and sends it
SendTower ==
  /\ keyFile /\ tower["source"] /\ conn["source"] = "open"
  /\ EndStep("source", 4, <<Payload("tower"), StepDone(4)>>)
  /\ captured' = TRUE
  /\ UNCHANGED <<received, hosts>>

\* 4. the target waits for the tower and writes it
WriteTower ==
  /\ TakePending("tower")
  /\ EndStep("target", 4, <<StepDone(4)>>)
  /\ tower' = [tower EXCEPT !["target"] = TRUE]
  /\ UNCHANGED <<confirmed, identity, voter, keyFile, tmpKey, captured>>

\* Mutant: the key is destroyed as soon as it has been sent.
SendIdentityThenWipe ==
  /\ keyFile /\ conn["source"] = "open"
  /\ EndStep("source", 5, <<Payload("identity"), StepDone(5)>>)
  /\ keyFile' = FALSE
  /\ UNCHANGED <<received, identity, voter, tower, tmpKey, captured>>

\* 5. the source sends its staked keypair
SendIdentity ==
  /\ keyFile /\ conn["source"] = "open"
  /\ EndStep("source", 5, <<Payload("identity"), StepDone(5)>>)
  /\ UNCHANGED <<received, hosts, captured>>

\* 5. the target waits for the keypair and writes it to /tmp
WriteIdentity ==
  /\ TakePending("identity")
  /\ EndStep("target", 5, <<StepDone(5)>>)
  /\ tmpKey' = TRUE
  /\ UNCHANGED <<confirmed, identity, voter, tower, keyFile, captured>>

\* 6. waitForSourceQuiet, after which the operator is asked
QuietSeen ==
  /\ 6 \in running["target"]
  /\ SkipQuietGate \/ IsQuiet
  /\ passed' = passed \cup {6}
  /\ UNCHANGED <<running, undoing, received, hosts, captured, toHub>>

\* 6. set-identity --require-tower to the received keypair
Activate ==
  /\ 6 \in passed /\ tmpKey /\ tower["target"]
  /\ Reported("target", 6)
  /\ SetIdentity("target", "staked")
  /\ UNCHANGED <<received, voter, tower, keyFile, tmpKey, captured>>

\* Mutant: the received keypair is removed once the validator runs on it.
AddVoterThenRemove ==
  /\ tmpKey
  /\ Reported("target", 7)
  /\ AddAuthorizedVoter("target")
  /\ tmpKey' = FALSE
  /\ UNCHANGED <<received, identity, tower, keyFile, captured>>

\* 7. authorized-voter add
AddVoter ==
  /\ tmpKey
  /\ Reported("target", 7)
  /\ AddAuthorizedVoter("target")
  /\ UNCHANGED <<received, identity, tower, keyFile, tmpKey, captured>>

\* Mutant: the step is reported before the source is told.
VotingSeenLateNotice ==
  /\ IsVoting /\ conn["target"] = "open"
  /\ EndStep("target", 8, <<StepDone(8), Payload("voting_confirmed")>>)
  /\ UNCHANGED <<received, hosts, captured>>

\* 8. the staked identity is seen to vote: tell the source, through the relay
VotingSeen ==
  /\ IsVoting /\ conn["target"] = "open"
  /\ EndStep("target", 8, <<Payload("voting_confirmed"), StepDone(8)>>)
  /\ UNCHANGED <<received, hosts, captured>>

\* 9. the target's confirmation is there: the operator is asked
PeerConfirmed ==
  /\ 9 \in running["source"]
  /\ confirmed
  /\ passed' = passed \cup {9}
  /\ UNCHANGED <<running, undoing, received, hosts, captured, toHub>>

\* 9. secureWipe of the source's staked keypair
WipeKey ==
  /\ 9 \in passed /\ keyFile
  /\ Reported("source", 9)
  /\ keyFile' = FALSE
  /\ UNCHANGED <<received, identity, voter, tower, tmpKey, captured>>

SourceStep ==
  WindowReached \/ Deactivate \/ RemoveVoters \/ SendTower \/ SendIdentity
                \/ PeerConfirmed \/ WipeKey

TargetStep ==
  WriteTower \/ WriteIdentity \/ QuietSeen \/ Activate \/ AddVoter \/ VotingSeen

-----------------------------------------------------------------------------
(* The steps of the rollback.                                              *)

\* A task of the rollback reports on the socket without a handler for its
\* absence: on a deaf agent the rejection ends the process, with no cleanup.
EndUndo(role, name) ==
  /\ name \in undoing[role]
  /\ IF agent[role] = "deaf"
     THEN /\ agent' = [agent EXCEPT ![role] = "exited"]
          /\ running' = [running EXCEPT ![role] = {}]
          /\ undoing' = [undoing EXCEPT ![role] = {}]
          /\ passed' = passed \ (IF role = "target" THEN {6} ELSE {9})
          /\ toAgent' = [toAgent EXCEPT ![role] = << >>]
     ELSE /\ undoing' = [undoing EXCEPT ![role] = @ \ {name}]
          /\ UNCHANGED <<agent, running, passed, toAgent>>

\* An option or a file is missing, or the command did not run.
UndoFails(role, name) ==
  /\ EndUndo(role, name)
  /\ UNCHANGED hosts

\* set-identity to the staked keypair, without --require-tower if need be
RestoreIdentity ==
  /\ keyFile
  /\ EndUndo("source", "restore_source_identity")
  /\ SetIdentity("source", "staked")
  /\ UNCHANGED <<voter, tower, keyFile, tmpKey>>

ReaddVoter ==
  /\ HasVoteKeypair
  /\ EndUndo("source", "readd_authorized_voter_source")
  /\ AddAuthorizedVoter("source")
  /\ UNCHANGED <<identity, tower, keyFile, tmpKey>>

\* The files go, each unless its removal fails; the validator keeps the
\* identity it runs under.
RemoveFiles ==
  /\ EndUndo("target", "remove_transferred_files_target")
  /\ tmpKey' \in {tmpKey, FALSE}
  /\ tower' \in {tower, [tower EXCEPT !["target"] = FALSE]}
  /\ UNCHANGED <<identity, voter, keyFile>>

VerifyVoting ==
  /\ IsVoting
  /\ EndUndo("source", "verify_source_voting")
  /\ UNCHANGED hosts

-----------------------------------------------------------------------------
(* Progress of the tasks and of the cluster.                               *)

\* Votes the source casts after its tower was read make the copy stale.
Remember == stale' = (stale \/ (captured' /\ Voting("source")'))

StepTask(role) ==
  /\ IF role = "source" THEN SourceStep ELSE TargetStep
  /\ Remember
  /\ emitted' = << >>
  /\ UNCHANGED <<orch, hub, conn, toAgent, agent, seen>>

StepFailure(role) ==
  /\ \E step \in Steps : StepFails(role, step)
  /\ Remember
  /\ emitted' = << >>
  /\ UNCHANGED <<orch, hub, conn, toAgent, agent, seen>>

UndoTask(role) ==
  /\ \/ role = "source" /\ (RestoreIdentity \/ ReaddVoter \/ VerifyVoting)
     \/ role = "target" /\ RemoveFiles
     \/ \E name \in RollbackNames : UndoFails(role, name)
  /\ captured' = captured
  /\ Remember
  /\ emitted' = << >>
  /\ UNCHANGED <<orch, hub, conn, toHub, seen, received>>

\* The cluster's report of the staked identity follows the votes with a lag.
Observe ==
  /\ seen' = IF \E r \in Roles : Voting(r) THEN "voting" ELSE "quiet"
  /\ emitted' = << >>
  /\ UNCHANGED <<orch, hub, captured, stale, channels, agent, tasks, received, hosts>>

Next ==
  \/ hub = "up" /\ (OperatorStart \/ OperatorAbort)
  \/ HubStops
  \/ \E role \in Roles :
       \/ hub = "up" /\ (HubReceives(role) \/ HubSeesClose(role))
       \/ AgentExits(role) \/ HeartbeatTimeout(role)
       \/ AgentReceives(role)
       \/ StepTask(role) \/ StepFailure(role) \/ UndoTask(role)
  \/ Observe

Spec == Init /\ [][Next]_vars

\* Sockets deliver, the hub reads what arrives, and some task of an agent that
\* has any comes to an end: each wait has a timeout, and the operator answers
\* each prompt.  Nothing is assumed of the cluster, or of a lost socket.
Fairness ==
  \A role \in Roles :
    /\ WF_vars(hub = "up" /\ HubReceives(role)) /\ WF_vars(AgentReceives(role))
    /\ WF_vars((StepTask(role) \/ StepFailure(role)) /\ running'[role] # running[role])
    /\ WF_vars(UndoTask(role))

FairSpec == Spec /\ Fairness

-----------------------------------------------------------------------------
(* Properties.                                                             *)

Messages ==
  [type : {"execute_step"}, step : Steps]
    \cup [type : {"execute_rollback_step"}, name : RollbackNames]
    \cup [type : {"relay_payload"}, kind : {"tower", "identity", "voting_confirmed"}]

Reports ==
  [type : {"step_complete", "step_failed"}, step : Steps]
    \cup [type : {"encrypted_payload"}, kind : {"tower", "identity", "voting_confirmed"}]

\* Every variable keeps its type; no step is dispatched to an agent that has
\* no part in it, and the key and the tower never travel towards the source.
TypeOK ==
  /\ orch \in Orchestrators /\ emitted \in Seq(Events) /\ hub \in {"up", "down"}
  /\ conn \in [Roles -> {"open", "lost", "gone"}]
  /\ \A r \in Roles : toAgent[r] \in Seq(Messages) /\ toHub[r] \in Seq(Reports)
  /\ agent \in [Roles -> {"up", "deaf", "exited"}]
  /\ running["source"] \subseteq {1, 2, 3, 4, 5, 9}
  /\ running["target"] \subseteq 4 .. 8
  /\ passed \subseteq {6, 9}
  /\ undoing \in [Roles -> SUBSET RollbackNames]
  /\ payloads \subseteq {"tower", "identity"} /\ confirmed \in BOOLEAN
  /\ identity \in [Roles -> {"staked", "unstaked"}]
  /\ voter \in [Roles -> BOOLEAN] /\ tower \in [Roles -> BOOLEAN]
  /\ keyFile \in BOOLEAN /\ tmpKey \in BOOLEAN
  /\ seen \in {"voting", "quiet"} /\ captured \in BOOLEAN /\ stale \in BOOLEAN

\* As long as the migration has not been given up, the target takes the
\* identity only over a source that neither runs under it nor can vote, and
\* with a tower that holds the source's last vote.
CleanTakeover ==
  orch.state # "FAILED" /\ identity["target"] = "staked" =>
    /\ identity["source"] = "unstaked" /\ ~voter["source"]
    /\ tower["target"] /\ ~stale

\* Two validators run under one identity only in a session that failed at
\* step 6 or later: whatever is aborted, lost or late before that, the target
\* never starts to vote, and neither task nor message can bring it to.
DualOnlyAfterLateFailure ==
  /\ (\A r \in Roles : identity[r] = "staked") =>
       orch.state = "FAILED" /\ orch.currentStep >= 6
  /\ orch.state = "FAILED" /\ orch.currentStep < 6 =>
       /\ identity["target"] = "unstaked" /\ ~voter["target"]
       /\ keyFile

\* The source's keypair is destroyed only once the target has been activated
\* and given the voter, even when a rollback runs beside the wipe.
WipeOnlyAfterTakeover ==
  ~keyFile => identity["target"] = "staked" /\ voter["target"]

\* The staked keypair stays on one of the two disks at least, but for two cases.
\* The target's agent has ended, and its cleanup has wiped the copy in /tmp its
\* validator was started on; or the session failed at step 9, and the rollback
\* has removed that copy beside the wipe of the source's.
KeyOnDisk ==
  \/ keyFile \/ tmpKey
  \/ agent["target"] = "exited"
  \/ orch.state = "FAILED" /\ orch.currentStep = 9

\* The confirmation overtakes the order to clean up: when step 9 starts, the
\* source already has it, so the wipe never waits for its timeout.
ConfirmedBeforeCleanup == 9 \in running["source"] => confirmed

\* A completed session is a completed handover, whatever was lost on the way.
CompleteIsHandedOver ==
  orch.state = "COMPLETE" =>
    /\ Voting("target")
    /\ identity["source"] = "unstaked" /\ ~voter["source"]
    /\ ~keyFile

\* Until the migration is given up, an agent has at most the current step
\* under way: the next one is dispatched only after the report of the last.
OneStepAtATime ==
  orch.state = "MIGRATING" =>
    \A r \in Roles : running[r] \subseteq {orch.currentStep}

\* The staked identity's handover that the system implements.
Stage ==
  IF orch.state = "FAILED" THEN IF orch.currentStep >= 6 THEN "undo_late" ELSE "undo"
                           ELSE IF orch.currentStep >= 6 THEN "takeover" ELSE "release"

H == INSTANCE Handover WITH
       holders   <- {r \in Roles : identity[r] = "staked"},
       stage     <- Stage,
       sourceKey <- keyFile

\* Every step of the hub, the agents and the validators is a step of the
\* handover or leaves it alone.
ImplementsHandover == H!HandoverSpec

\* A migration whose agents keep their hub does not hang: it completes or
\* fails, whatever the tasks report.
SettlesUnlessCut ==
  (orch.state = "MIGRATING") ~>
    (IsTerminal(orch) \/ hub = "down" \/ \E r \in Roles : conn[r] # "open")

\* The state right after the call in which the hub gave the session up.
JustFailed == \E i \in DOMAIN emitted : emitted[i].event = "session_failed"

\* Whenever a session fails after step 2 was sent, the source starts to restore
\* its identity and the target to remove what it was sent, whatever else they
\* have under way, unless that agent or the hub is lost.
RollbackIsTakenUp ==
  \A name \in {"restore_source_identity", "remove_transferred_files_target"} :
    JustFailed /\ orch.currentStep >= 2 ~>
      \/ name \in undoing[RollbackExecutor(name)]
      \/ hub = "down" \/ conn[RollbackExecutor(name)] # "open"

-----------------------------------------------------------------------------
(* What the documentation and the comments say.                            *)

\* README: "an anti-dual-identity protocol guarantees only one server is ever
\* voting".
OneServerVoting == ~(Voting("source") /\ Voting("target"))
=============================================================================
