# ValidatorShift in TLA+

ValidatorShift moves a Solana validator's staked identity from one server to
another.  A **hub** drives the migration and relays encrypted payloads, an
**agent** on each server runs the commands, and a **dashboard** lets the operator
start and abort.  The danger is two servers voting with one identity, or none
being able to: what matters is the order in which messages, commands, failures
and lost connections may happen.  This directory models that, checks it with TLC
and proves its safety properties with TLAPS.

Paths below are relative to `src/packages/`.

## 1. The system and its parts

| part | state it keeps | operations | interacts with |
| --- | --- | --- | --- |
| Orchestrator `hub/src/orchestrator/state-machine.ts` | state, connected agents, SAS, checklist verdicts, current step, bilateral acks | `onAgent(Dis)connected`, `onSasConfirmed`, `onPreflightResult`, `startMigration`, `onStepComplete`, `onStepFailed`, `abort` | emits events inside the call; the session manager listens |
| Tables `orchestrator/steps.ts`, `rollback.ts` | none | executor of a step, next step, bilateral steps, rollback decision and sequence | read by the orchestrator |
| Session manager `hub/src/session-manager.ts` | orchestrators by session, dashboard tokens, SAS announcements | `create`, `getOrRevive`, `handleAgentMessage`, `handleAgentDisconnect`, `handleDashboardMessage`, `cancel`, event wiring | writes the row, sends to the room |
| Socket handler and rooms `hub/src/ws/` | registered socket and public key by role, dashboards, connection counts | hello, role conflict, relay, dispatch, `onGone`, dashboard snapshot, rate limit | calls the session manager |
| Hub process, REST, database `hub/src/index.ts`, `api/`, `db/` | the session's row, audit log | create, read, list, cancel; shutdown | call the session manager |
| Agent `agent/src/commands/agent.ts` | session key, queue of payloads, `peerVotingConfirmed`, received paths, tasks under way | pair, confirm SAS, checklist, nine steps, four rollback steps, cleanup | its socket, the Solana commands, the disk |
| Transport `agent/src/transport/ws-client.ts` | socket, stage, attempts, timers | connect, send, close, heartbeat, reconnect | events to the agent |
| Solana wrapper, keypairs `agent/src/solana/` | none of its own | spawn with timeout, parse; read, write, wipe files | the two validators |
| Crypto, terminal `agent/src/crypto/`, `ui/` | none | pure functions; prompts | the agent |
| Shared schemas `shared/src/` | none | message schemas, constants, redaction | all |
| Dashboard `web/` | the store (state, steps, logs, SAS), a reconnecting client per page | the store's listener and `reset`, connect, reconnect, create, start, abort | the hub's dashboard socket, the REST API |

What is hard to test, and what each part must get right because of it
(`PROJECT.json` lists the hazards line by line):

* **Agents run tasks side by side.** Every `hub:execute_step` and every
  `hub:execute_rollback_step` starts a promise that nobody awaits and nothing
  cancels.  A step may take effect after the rollback meant to undo it.  Correct
  means: no takeover over a live source, no wipe before the takeover, two holders
  only where the code really allows it.
* **Reports are not effects.** A command killed by its timeout may have taken
  effect; an agent that loses its heartbeat carries on unseen.
* **Acks race.** Both agents report steps 4 and 5; late and repeated reports
  arrive for steps long passed.  Correct means: each step once, in order, and
  never past a transfer that one side has not finished.
* **Sockets come and go while pairing.** Close events arrive after the socket was
  replaced, confirmations after the peer was.  Correct means: consent belongs to
  the pair that gave it, and the room and the orchestrator agree on who is there.
* **The hub restarts.** Rows survive, orchestrators do not and are revived in IDLE.
  In a migration nobody is left to order the next step or a rollback, and the tasks
  under way go on.  Correct means: what they leave behind is still one holder at most,
  with its key.
* **One client, many sockets.**  Every socket the agent's client has opened, its
  reconnection timer and its pong timer write the same fields, and a failed opening asks
  for a reconnection twice.  Correct means: one link at a time, none lost while attempts
  are left, none opened once a migration may have begun.
* **The hub refuses after the upgrade.**  To the client a refusal is a socket that opens
  and closes, so it asks again, and each refusal counts against the limit that caused it.
  Correct means: that ends; what passes within a window stays bounded; a code leads to
  its session even after the registry that allocates codes was lost.
* **Nothing has a timer in the hub.**  A session that nobody answers stays.
* **The tab is a copy.**  It is fed by a snapshot (the row, and a step from an
  orchestrator that may have been revived) and by changes, over links that are
  lost and opened again, and its store outlives pages and sessions.  Correct
  means: what it shows, once it has read everything, is what the hub holds.

## 2. Modules

| module | what it is |
| --- | --- |
| `MigrationSteps` | the tables: states and allowed transitions, executors, bilateral steps, rollback |
| `Orchestrator` | every handler of the class, as an operator on the object `orch` and the list `emitted` of the call's events |
| `OrchestratorSpec` | one orchestrator under every call in every order, with history variables for the properties |
| `Lifecycle` | abstract: phases of a session and the step last dispatched |
| `OrchestratorMethods` | TLAPS: what each handler does to the object and emits, for every object |
| `OrchestratorProofs` | TLAPS: theorems of `OrchestratorSpec`, about the object and about the events |
| `Filtering`, `FilterTheorems` | picking elements out of a sequence, and TLAPS: its laws, for sequences of any length |
| `Wiring` | `wireOrchestrator`: which agent an event is sent to, and what the row becomes |
| `Hub`, `MCHub` | pairing: session manager, room, socket handler, row, restarts, and agents that connect, confirm and report; `MCHub` names the agents of its runs |
| `WiringTheorems` | TLAPS: which messages and which row the events of each handler become |
| `HubProofs` | TLAPS: theorems of `Hub` |
| `Migration` | from the start on: hub, sockets, the agents' concurrent tasks, both validators and the files |
| `Dashboard` | one browser tab, its client and store, the snapshot and the changes the hub sends it, and the operator |
| `AgentTransport` | the agent's client, and `runAgent` up to the migration: sockets, timers, attempts, stages |
| `Admission` | composes `AgentTransport` with the hub's door: rate limiter, sessions and codes, expiry, restarts |
| `AdmissionProofs` | TLAPS: theorems of `Admission` |
| `MigrationProofs` | TLAPS: theorems of `Migration`, and that it implements `Handover` |
| `DashboardProofs` | TLAPS: theorems of `Dashboard` |
| `Handover` | abstract: who holds the staked identity, and whether the source still has the key |

`Wiring` extends `Orchestrator`, and `Hub`, `Migration` and `Dashboard` extend
`Wiring`: the same handlers run in every machine.  `Admission` takes over where these
three simplify: they let an agent reconnect or not, and refuse or not, without saying when.

### Correspondence

*A handler is an operator, not an action.*  The class's methods are synchronous
and its listeners run inside `emit`, so one call, with all it emits and all that
the listeners send and write, is atomic.  `OnStepComplete(orch, step, role)` gives
`orch'` and `emitted'`; the machine that uses it says what follows: `Hub` delivers
`MessagesTo(role, emitted')` to the registered sockets and sets
`row' = RowAfter(row, emitted')`.  A `throw` ends the list with the event `Thrown`.
ROLLBACK is therefore never visible between calls, and `Counters` of the proofs
says so.

*Data is abstracted to what the handlers look at.*  A checklist is its verdict; a
SAS equals the peer's when each agent derived its secret from the other's key; a
payload is its kind; a validator is what it runs as, whether it has the authorised
voter and whether its ledger has the tower.  `Voting(role)` needs both of the
first two.

*Sockets (`Hub`).*  A socket is open, cut (its peer is gone and the hub has not
noticed), closing (no longer `OPEN`, its close event still to come) or closed.
`RoleFree` reads `readyState` as the handler does, so a closing socket gives its
role away before its `onGone` has run; the stale close is then one `SocketClosed`
away.  An error event runs `onGone` and the close event runs it again.

*Agents in a migration (`Migration`).*  `running[r]` and `undoing[r]` are the tasks
under way.  A task ends in one action that has its effect and sends its report;
steps 6 and 9, which check something and then wait for the operator, take two
(`QuietSeen` then `Activate`, `PeerConfirmed` then `WipeKey`).  `Reported` lets a
command take effect and still be reported as failed.  `keyFile` is the source's keypair
and `tmpKey` the copy the target received, which its agent's exit wipes or, if the process
was killed, leaves behind.  `AgentExits` ends an agent
at any point, `HeartbeatTimeout` leaves it running but deaf, and a lost socket
keeps a prefix of what was on its way.  `HubStops` ends the hub's process: what it had
not read is gone, each agent keeps a prefix of what it was sent, and every agent may then
exit (its socket closed) or go deaf (its heartbeat gave up).  `orch` stays what the session
had come to; a hub started again plays no part, because no agent of a migration ever
connects again (`NeverReopens`).  `Observe` updates the cluster's report
of the identity at any later time, so both gates may read an old one.

*The client (`AgentTransport`).*  A variable is a field of `HubClient`; `timers` counts
the reconnection timers that are armed, also one the field no longer holds, and `socket`
says of each WebSocket whether it is opening, open or closing.  `Schedule` is
`scheduleReconnect`, `Reconnect` the condition under which the close handler and the
timer's `catch` call it; both are operators on a record because `OpeningFails` applies
them twice.  `pc` is the `await` that `runAgent` stands at.  A timer may fire at any time
after it was armed.  `NothingLeft` is Node's rule that a process without sockets, timers
or commands ends, whatever it awaits.

*The door (`Admission`).*  `Accepted` is one call of `handleAgentSocket`: the socket has
opened to the client, the connection is counted (`Connection`), and the socket gets a room
or not (`LetIn`); a socket without one is closed by the hub (`Outside`).  `window` is the
address's entry in `wsRate`, its age counted in ticks; a restart loses it, as it loses
`rooms`, the registry.  For the property alone, `recent` counts what was let pass in each
tick and `restarted` the stops of the hub: these are what happened, and a restart keeps
both.  `code` is the table's UNIQUE column.

*The tab (`Dashboard`).*  `wire` is what the hub has sent on the tab's present
socket, `up` what the tab has sent on it, `late` what it sent on sockets of the present
hub process that it has left since, which the hub may still read, in any order with `up`.  `client` is the
`DashboardClient` of the page: its stage and `reconnectAttempts`.  The hub refuses a
dashboard only after the upgrade, so the client's `onopen` runs first (stage
`refused`) and its attempts are reset.  It refuses one connection too many, which is a
fault of the moment; a token it has forgotten; and a session whose time is over and which
has no `completed_at`, from then on for ever (`Barred`).  Only `session_complete` writes
that column, so a session that failed is refused once it expires.  `expired` is set by the
first check that finds the time over: time is looked at there and nowhere else.  `shown` is the store, which survives a change
of page and a new session; only `reset` (`ClickMismatch`) empties it.  On the hub's
side `alive` says whether the session manager holds an orchestrator (`Live` is what
`getOrRevive` returns), and `row` is the column that the snapshot and `cancel` read.
The agents may call in any order, as in `OrchestratorSpec`: the tab must be right
whatever they do.  An exception of `startMigration` ends the process (`StartThrows`).

## 3. Runs

| run | cfg | asks | size |
| --- | --- | --- | --- |
| `orchestrator` | `Orchestrator.cfg` | gates, order, rollback decision, event chain, `Lifecycle` | 7 445 states |
| `migration` | `Migration.cfg` | takeover, wipe, the key on disk, confirmation, completion, `Handover` | 561 488 |
| `migration_live` | `MigrationLive.cfg` | a migration ends; a rollback is taken up | 107 856 |
| `hub` | `Hub.cfg` | pairing, consent, room against orchestrator, row, cancel | 662 370 |
| `dashboard` | `Dashboard.cfg` | what a tab shows against what the hub holds | 848 284 |
| `dashboard_live` | `DashboardLive.cfg` | the end of a session reaches the tab | 398 812 |
| `admission` | `Admission.cfg` | one link, no stranding, limiter, codes, progress | 1 056 248 |
| `one_server_voting` | `OneServerVoting.cfg` | violated: see section 6 | |
| `stale_close` | `StaleCloseIsIgnored.cfg` | violated: see section 6 | |
| `ended_stays_ended` | `EndedStaysEnded.cfg` | violated: see section 6 | |
| `repairs_cleanly` | `RepairsCleanly.cfg` | violated: see section 6 | |
| `start_only_when_ready` | `StartOnlyWhenReady.cfg` | violated: see section 6 | |

**Bounds.**  `OrchestratorSpec` has none: the object is finite and the history
variables only grow with it, so the run covers calls of any number.  `Migration`
follows one migration with at most one loss per agent: an agent never reconnects
in this stage, so a second loss cannot happen; queues are bounded by the steps.
Both its agents may be lost in the safety run (`Losable`); the liveness run
loses only the target, because a lost source ends what `SettlesUnlessCut` speaks of
and takes up no rollback.  The hub may stop once, at any time, in the safety run only (`HubMayStop`): the
liveness properties end where the hub does.  All runs give the source a vote keypair, which only adds behaviours (the
voter may be restored, or not), and keep the quiet gate, which is what the
documentation describes.  `Hub` has one source and two candidates for the target:
the least with a conflict over a role and a peer that is replaced; an agent opens
at most two sockets (a stale one and its successor) and three connections are
opened in all; the hub restarts at most once.  `EndedStaysEnded` needs four
connections (two, then two more after the end), with one socket for each agent.
`Dashboard` has two lives of an orchestrator (`MaxLives`: the first and a revived
one, or a second session), one migration (`MaxStarts`), and one link cut or connection
too many (`MaxFaults`) in the safety run, where the hub's process may also end at any time
and any number of times (`HubMayStop`): each is enough for a stale copy to meet a fresh authority, and the second life finds in the store what the first left there.
That a second migration runs over the steps of an earlier one is beyond these bounds:
`ShowsTheStepsHolds` covers it for any number of migrations.  `MaxAttempts` is 1, so
that giving up is reached; openings that fail are bounded by it, and refusals of a
barred session by nothing.  One unread message (`Backlog`)
may wait when the hub acts; a call emits several, so longer queues occur.  One command
is on its way at a time (`MaxCommands`): a double start still happens, since the
second click needs only that the first was handled and its state change not yet
read.  Two values of a SAS tell equal from different.  The liveness run keeps one
life and a hub that does not stop; twice its link is cut or a connection is one too many,
and the client reconnects, gives up after failed openings, or asks an expired session for
ever.

`Admission` has the real number of attempts, five, and a limit of two connections in a
window of one tick with three connections of others: enough to exceed the limit with and
without the agent's help, and to meet its border from both sides.  Two ids and two codes let
a second session draw the first one's code; one restart is what the registry needs to forget
it.  Two sockets are one more than `OneLinkAtATime` allows.

**Symmetry and view.**  In the safety run of `Hub` the two targets are exchangeable:
no action or property names one.  The view drops `emitted`, which no action
reads and which action properties of that run do not mention; the invariant
`TypeOK` looks at it in every state TLC keeps, and the orchestrator's runs look
at it in all.  `Dashboard`'s view drops what no later step and no property can tell
apart (`Relevant`, `ShutOut`, `StepsMatter`): `emitted`, who is connected once pairing is
over, the hub's side of a session that the tab is shut out of for good (its token is
forgotten, or it has expired and can no longer complete), the expiry of one that has
completed, and the steps shown once the last migration has failed.  Neither is used in a
run with fairness.  `dashboard_live` has a view of its own, `LiveView`, which drops only
`emitted` and the object of an ended session: no action and neither side of `EndIsShown`
reads them, and no action under fairness changes them alone.  Without it TLC comes to the
same answer on 1 822 056 states.

**Deadlock** is checked for `OrchestratorSpec` and `Migration`.  `Hub`, `Dashboard` and
`Admission` may stop: all agents have ended or have used their connections, or the
tab has given up.

**Fairness.**  `Migration`: what is sent on a socket that stays open arrives and is
handled, and a task that is under way ends, which every wait in the agent
guarantees (30 s for a payload, timeouts on every command and both gates, 60 s for
the verification) together with an operator who answers prompts.  Only that *some*
task of an agent ends is assumed, not which, nor how.  Nothing is assumed of lost
sockets, of the cluster or of an operator who aborts.  `Hub`, used by
`repairs_cleanly` only: the hub reads and notices closes, an agent starts,
reconnects, reads and runs its checklist, and an operator confirms a SAS that both
terminals show.
`Dashboard`: a socket opens or fails, a closed one is noticed, a timer fires and an
arrived message is handled, all of which the browser does; nothing is assumed of the
agents, the operator or the hub's calls.  `EndIsShown` speaks of an operator who
stays on the session page, and excepts a forgotten token, used-up attempts, and a tab that
is out of the room of a session that expired and did not complete.

`Admission`: timers fire, an opening succeeds or fails, a socket that the hub refused or
the client closed is closed, a hub that stopped is started again (its container restarts
it), and time passes.  Nothing is assumed of the network: openings may fail for ever, which
is why `LetInAgain` excepts an agent that has given up.

**What the passing runs show.**
* *Steps* (`StepGate`, `StepsInOrder`, `OneStepAtATime`): no late, repeated or
  missing report makes the hub skip, repeat or overlap a step.
* *Giving up* (`RollbackIffDeactivated`, `DualOnlyAfterLateFailure`): the rollback
  goes out exactly when step 2 had been sent; and if the session failed before
  step 6, whatever is still running or in flight cannot make the target vote.
* *Takeover* (`CleanTakeover`, `WipeOnlyAfterTakeover`, `CompleteIsHandedOver`,
  `ConfirmedBeforeCleanup`, `KeyOnDisk`): on the way forward the target takes over a silent
  source with a current tower; the key is destroyed only afterwards; COMPLETE means
  handed over, even if messages or agents were lost.  All of it but what is on the
  disks as one refinement: `ImplementsHandover`.  It holds through a stop of the hub at any point: the agents'
  tasks alone never make a second holder before a rollback was sent.  The key itself is
  on one disk or the other, with two exceptions that `KeyOnDisk` names and section 6
  describes: the target's agent has ended, or the session failed at step 9.
* *Pairing* (`FreshConsent`, `BothPresentToPair`, `PreflightByOnePair`,
  `OneSocketPerRole`, `PresentIsRegistered`): consent is never that of an earlier
  pair, and the room and the orchestrator agree, with one exception that section 6
  describes.
* *Row* (`RowLagsOnlyAfterRevival`, `CancelledBeforePreflight`): cancelling by the
  row is safe because it lags only where the orchestrator is still in IDLE.
* *Exceptions* (`OnlyStartThrows`): only a start in the wrong state throws.
* *The tab* (`ShowsTheRow`, `ShowsTheSteps`, `NoChangeMissed`, `AlertStays`): a tab that
  has read everything shows the row's state and the right steps, although the snapshot
  mixes the row with a possibly revived orchestrator and the store is never reset for
  a new session; a shown SAS mismatch is not taken back by the same session.
* *The link* (`OneLinkAtATime`, `NotStranded`, `NeverReopens`): the handlers of all sockets
  may share the client's fields, since no order of failed openings, refusals, late closes
  and pongs yields two sockets, or a socket and a timer; a link that is wanted is looked
  for until the attempts are spent; and no timer armed while pairing opens a socket in the
  migration.
* *The door* (`CodeLeadsHome`, `BurstIsBounded`): the UNIQUE column makes up for the
  registry's loss; the fixed window lets fewer than twice the limit pass in a stretch of its
  length, and one limit more for each stop of the hub in it, since the counts are in memory
  only.  Neither bound can be lowered: TLC finds a stretch one below each.
* *Progress* (`SettlesUnlessCut`, `RollbackIsTakenUp`, `EndIsShown`, `LetInAgain`): a
  migration whose links hold ends; after a failure from step 2 on the source starts to
  restore its identity and the target to remove its files, whatever tasks they have under
  way; and an agent whose own refusals are counted is not locked out for good.

Each property has a mutant in the module of the code it depends on (operators
marked `Mutant`), defined next to what it replaces: it violates the property.

## 4. Proofs

Everything here holds for every value of the constants and for behaviours of any
length; `PROJECT.json` lists the theorems.

### What the proofs share

*The handlers.*  `OrchestratorMethods` has three layers.  *Put* lemmas say what
assigning one field of the object leaves alone.  *Shape* lemmas say, for each handler,
which of its few outcomes the new object is (`TransitionShape`, `RollbackShape`,
`StepCompleteShape`, ...).  *Says* lemmas name the list of events that goes with each
outcome: `Silent`, `Changes`, `Starts`, `Dispatches`, `Finishes`, `FailsNow`, `RollsBack`,
`Throws`.  A handler's definition is expanded in these lemmas, and nowhere else; the
machines that call it use its outcomes.

*The events.*  What becomes of a call's events is read off with `Filter(s, S)`, the
elements of `s` that are in `S`: the dispatched steps (`Occurrences`), the messages to an
agent (`MessagesTo`), the row (`RowAfter`).  It is a recursive function, and
`FilterTheorems` proves what it does to sequences of any length: it distributes over
concatenation, what it keeps of a queue without its head, of a queue cut short.  That is an
induction on the length.  The library's induction theorem takes the property as an
operator, which the provers cannot instantiate; here the property is made a set of
numbers, and a set that contains 0 and is closed under successor contains every
natural number (`InductionInSet`, from the well-foundedness of `<` and `WFMin`).  `AdmissionProofs`
uses it for its sums.
`WiringTheorems` turns the events of each outcome into messages.

### The orchestrator

`OrchestratorProofs` proves all that the run `orchestrator` shows: `TypeCorrect`, `StepGateHolds`, `FreshConsentHolds`,
`BothPresentHolds`, `StepsInOrderHolds`, `RollbackHolds`, `OnlyStartThrowsHolds`,
`ChangesChainHolds` and the refinement `OrchestratorImplementsLifecycle`.  No assumption
is needed: `Orchestrator` has no constants.

They rest on `Inductive`, `Spec => []IInv`.  The safety properties are not inductive
alone.  `StepGate` speaks of what agents reported (the history `acked`), the handlers of
`orch.acks`; `AcksReal` says that the object holds no ack that was not made, and
`Counters` ties `currentStep` to the state, so that passing a bilateral step with both
acks extends the gate by one.  `FreshConsent` needs `ConsentReal`: a confirmation in
the object was made since the last disconnect, and IDLE has none left over; that is
where the reset in `onAgentDisconnected` matters.

The histories `dispatched` and `rolledBack` follow from a second invariant, `Told`: what
has been dispatched is the list 1 .. `currentStep`, and the rollback is what
`RollbackIffDeactivated` says.  A call either tells nothing of the kind, or one more
step, or the end of the session (`CallTold`, `StartTold`); `IInv` gives the counters it
starts from.

### A migration

`MigrationProofs` proves every invariant that the run `migration` checks (`TypeCorrect`,
`CleanTakeoverHolds`, `DualOnlyAfterLateFailureHolds`, `WipeOnlyAfterTakeoverHolds`,
`ConfirmedBeforeCleanupHolds`, `CompleteIsHandedOverHolds`, `KeyOnDiskHolds`,
`OneStepAtATimeHolds`) and the
refinement `MigrationImplementsHandover`.  `Migration`'s constants are booleans and a set of
agents that may be lost; the theorems hold for all of them, so also with
`SkipQuietGate` and without a vote keypair.

The queues are unbounded and hold messages of every kind.  The invariant never looks into
a queue: it speaks of what is left of one when all but one kind is filtered out.  `IInv` is
the conjunction of

* `TokenInv`: between the hub and an agent there is at most one trace of a step, of the
  current one: its order on the way, its task, or its report on the way.  A task's result
  therefore always is about `currentStep`, and no step overlaps another.  With `AcksOK`
  (who has acknowledged a bilateral step is idle) it is inductive, and nothing else in the
  model keeps the order: the agents take what they are sent.
* `Milestones`: what a reported step has brought about.  `Forward` is what only a rollback
  undoes (the source silent, its voter removed, the tower there) and holds until the session
  has failed; `Lasting` is what nothing undoes (the target's identity and voter, the wiped
  key); `NotEarly` says that none of it comes about before its step.  `Succeeded` takes a step
  as reported from the moment its report is sent, since the agent is then done with it.
* `UndoneOnlyAfterFailure`: neither an order to undo nor a task that undoes exists before the
  session has failed.  This is what makes `Forward` inductive.
* `KeyThere`: the target's copy of the key, from step 5 on, is there until its agent ends
  or the session has failed.  It is a milestone of `Forward`; with `NotEarly` for the
  source's wipe it gives `KeyOnDisk`.
* `NoticeFirst`: the target's confirmation is ahead of its report of step 8, and then of the
  order for step 9, on every leg of the way, or the source has it.  `ConfirmedBeforeCleanup`
  follows only from the whole way: each leg is first-in first-out, and what the hub relays it
  puts in front of what it dispatches later.
* `Cut`: an agent that is deaf or has exited has no socket, and a hub that has stopped
  reads nothing; `HubOK`: the counters follow the state; `Typed`.

There is one lemma for each kind of step: what the hub does when it reads a report, how an
agent takes an order, a step's task (`SourceStepInv`, `TargetStepInv`, `StepFailureInv`), a
rollback's (`UndoTaskInv`), and the losses.  For the refinement, every step of the servers
happens under a milestone that names `Handover`'s action; a wipe or a takeover whose session
has failed is one of the abstract late actions, and the rest stutters.

### Pairing

`HubProofs` proves what the run `hub` shows, for any number of agents of either role, of
sockets and of restarts: `TypeCorrect`, `RowLagsHolds`, `OneSocketHolds`, `PresentHolds`,
`CancelledBeforePreflightHolds`, `PreflightByPairsHolds`, `PreflightByOnePairHolds`.  The
assumptions are those of `Hub`: the two roles have different agents, and `None` is neither.
`IInv` is the conjunction of

* `ManagerOK`: types, `RowLagsOnlyAfterRevival`, and no step after the first.  It is what
  makes every abort and every loss a rollback without steps (`EmptyRollback`), so that
  agents are sent a key, the checklist, the first step or a cancellation, and nothing else.
* `RoomOK`: a greeted socket that is open is the registered one.  `OneSocketPerRole` is
  not inductive without it: a hello looks at the registered socket only.
* `PresentIsRegistered`: inductive, since a stale close takes an agent from the
  orchestrator but never the other way round.
* `PeopleOK`, `UpOK`, `DownOK`: an agent holds only a key of the other role, and the
  first it was sent; a confirmation is on its way only from an agent of a pair (`Mutual`:
  each holds the other's key).  Because the first key stays, a pair is never broken, not
  even by agents that have gone, and a confirmation is true however late it is read.
* `ConsentOK`: each confirmation in the orchestrator is that of such an agent of its role.

There is one lemma for every handler and every kind of step of an agent; a step that does
not open the checklist and sends no cancellation is `Plain`.

What `ConsentOK` gives is `PreflightByPairs`: whoever confirmed has somebody to have
compared the SAS with.  That it is the *same* pair takes a hypothesis: one of the roles has
a single run of the agent (`PreflightByOnePairHolds`; the run's instance has one source).
Section 6 describes what can happen otherwise; the hypothesis was found by looking for the
missing step of the proof.

### The agent's link and the hub's door

`AdmissionProofs` proves for any number of sockets, attempts, sessions, codes, restarts
and other connections what the run `admission` shows on one instance: `TypeCorrect`,
`OneLinkHolds`, `NotStrandedHolds`, `NeverReopensHolds`, `CodeLeadsHomeHolds`,
`BurstHolds`.  The assumptions are those of the modules: `None` is no socket, id or
code, and the bounds are natural numbers.

`IInv` has two halves that no action mixes.  *The client*: `OneLinkAtATime` and
`NotStranded` need `Guarded`.  A timer that fires while `connecting` is set opens nothing,
so the flag must not outlive a socket, or the timer would be the last link; `close()` works
on `ws`, which must not be a socket that has closed; and `pc = "migrating"` must entail
the stage, or a timer would still open a socket.  Every client action is one of three kinds,
each with a lemma: it ends the process (`ExitInv`), it needs the link or ends the process
(`SendInv`), or it has lost a socket (`LostInv`, with `ReconnectShape`, which is used twice
for an opening that fails).  *The table*: no two rows share a code (`TableInv`), whatever
the registry says; so the row that `getSessionByCode` finds is the agent's own.
`StepOfClient` says that the hub's actions are none of the client's business.

*The limiter* has an invariant of its own, `LimiterInv`.  A stretch without a stop of the
hub meets two windows at most: a window starts only when the one before is over, so what
the second before let pass has left the stretch by then.  It lets fewer than twice the
limit pass, because the connection that opened the first of two windows lies before the
stretch.  `Bound` says this of every length of the stretch: the present window's `Share`,
and what the one `Before` it may have let pass.  A stop loses the window, so the next may
start at once; each adds one window's worth, which `Passed` counts by `restarted`.  The
invariant speaks of prefix sums of the two histories (`Prefixes`), which every step changes
in a simple way; that the sum `MapThenSumSet` folds, in whatever order it chooses, is the
last prefix (`SumIsLast`) is an induction on the number of ticks and one on the size of a
set.

### The tab

`DashboardProofs` proves every safety property that the run `dashboard` checks, for any
number of sessions, restarts, lost links and commands and any `Backlog`: `TypeCorrect`,
`ShowsTheRowHolds`, `ShowsTheStepsHolds`, `NoChangeMissedHolds`, `AlertStaysHolds`.  The
assumptions are those of `Dashboard`: the bounds are natural numbers, `None` is no SAS.

The properties speak of a tab that has read everything; the invariant speaks of every other
tab too.  `ReadsTo(start, q, end)` says that a store `start` becomes `end` when it reads the
messages `q` one by one, and that each change of state among them starts where the store
then is, or in IDLE.  `IInv` is the conjunction of

* `OnTheWire`: what is shown reads to some `end`, and if the tab is in the room, `end`
  agrees with the row and the steps of the object (`Agrees`).  A call appends to the wire
  (`ReadBoth`), reading takes from it (`ReadOldest`), a snapshot starts it anew
  (`ReadSnapshot`: whatever the store held, the snapshot leads to what the row says), and a
  lost socket empties it.  With an empty wire `end` is what is shown.
* `RowFits`: `Follows`, the row is the object's state unless the object is a revived one
  still in IDLE; while the token is known, a session without an object has ended and a
  migration has its object.  Without it the snapshot could take the row from one session
  and the step from a fresh orchestrator.
* `OneCard`: a session's SAS is on the wire or on the card at most once, and only after
  `broadcast` was set.  Nothing else makes the alert last.
* `HubTyped`, `ExpiryTyped`, `LinkTyped`, `TabTyped`, and the counters of the object (`WellFormed`).

What a call broadcasts is worked out for each outcome of the handlers (`SilentTold`,
`ChangeTold`, `FailedTold`, `StartsTold`, `DispatchesTold`, `FinishesTold`,
`RollsBackTold`); `OutcomeTold` joins them, and every handler's action follows from it.

### Only model-checked

Liveness (`RollbackIsTakenUp`, `SettlesUnlessCut`, `EndIsShown`, `LetInAgain`), which is
beyond the prover, as ENABLED is.  Every other property of a passing run is stated by a
theorem.

## 5. Not modelled

* What dashboards are sent of the agents' status and of log lines, and the preflight
  list, which the hub never sends.
* The audit log and the table `migration_steps`: nothing reads the one back into the
  program, and nothing calls `recordStep`, which would write the other.
* The length of the client's delays, and the session codes' format.  The HTTP rate limiter
  is a library's.
* What is inside the checklist (`runPreflight`): a verdict that may be either.
* A second migration on servers that a first one has left half-way: planned.
* Cryptography, schemas, redaction, argument lists and output of commands: pure
  functions, taken to do what they say.
* Several sessions: they share only the tables they are kept in.
* The `--unsafe-skip-quiet-gate` option is a constant of `Migration`; no run sets it.

## 6. Where the code and what is said of it disagree

1. `one_server_voting`: `README.md:17` promises that only one server ever votes.  A
   failure or an abort at step 6 or later restores the source and takes nothing from
   the target.  `DualOnlyAfterLateFailure` shows that this is the only way.
2. `stale_close`: `handler.ts:297` keeps the room from a stale close, and line 302 tells
   the orchestrator all the same.
3. `ended_stays_ended`: `getOrRevive` starts an ended session again, and its row leaves
   the terminal state.
4. `repairs_cleanly`: an agent handles `hub:peer_connected` once, so one that stays
   while its peer is replaced can never confirm the new pair.
5. `start_only_when_ready`: `Step3Preflight.tsx:20` allows a start while the tab shows
   AWAITING_WINDOW; a second click, or one that crosses a change, makes
   `startMigration` throw out of a socket's listener, which ends the hub.

Read off the code, without a run of their own:

* `docs/SECURITY.md:50` promises a rollback whenever either agent is lost;
  `state-machine.ts:260` rolls back only for a source lost before step 5.
* `docs/SECURITY.md:63` says the key is wiped after the source is verified silent; step 9
  (`agent.ts:848`) looks at the target's confirmation only, and a rollback that arrives
  while its prompt is open restores the source.  The wipe then hits a source that votes,
  but never before the target has taken over (`WipeOnlyAfterTakeover`).
* `rollback.ts:22` wants the source voting before the target drops its files;
  `beginRollback` sends all steps at once.
* `docs/SECURITY.md:34` has both agents of a session derive the same SAS.
  `onSasConfirmed` (`state-machine.ts:289`) counts a confirmation for the role, not for the
  key that was compared.  With two runs of both agents, sources a, c and targets b, d: a and
  b meet and show one SAS, both lose their sockets, c and d meet and show another; d stays,
  c goes, a reconnects.  Then a's operator confirms what b showed and d's what c showed, and
  the session enters PREFLIGHT with two agents that do not hold each other's key.  TLC finds
  it with two runs of each, in 25 steps; `PreflightByOnePairHolds` says that one role with a
  single run is enough to exclude it.  What would be lost is the migration, not a key: the
  payloads of one cannot be decrypted by the other.
* The cap on reconnections of `web/lib/ws.ts:31` is undone by `onopen` (line 151) when the
  hub refuses the token after the upgrade.  The agent's client has the same: refused by an
  expired session it asks again about every second, for ever (`ws-client.ts:106`).
* `packages/web/app/submission/submission.md:101` says that on a hub restart agents
  reconnect and pick up where they left off.  While migrating they never reconnect; before,
  an opening that fails costs two of the five attempts, so a hub that stays away for about
  20 seconds is given up, and the agent's process then ends with code 0 and no message
  (`NothingLeft`).  The orchestrator is revived in IDLE whatever the row says.
* `docs/RECOVERY.md:229` says both agents enter SAFE mode when the hub crashes.  One whose
  socket hangs instead of closing ends by its heartbeat, which closes as if by hand: its
  stage stays `migrating` and its tasks go on (`HeartbeatTimeout`).
* `docs/THREAT_MODEL.md:14` says agents act on `hub:execute_step` only in the migrating
  stage and drop steps out of order or repeated; the agent looks at neither.  What keeps
  the order is the hub (`OneStepAtATime`).
* `docs/QUICKSTART.md:81` lists checks of the vote account, of disk space and of the
  target's identity; `runPreflight` (`agent.ts:452`) has none of the three.
* A dashboard of a session that expired without completing is refused for ever
  (`handler.ts:357`), also one that failed: a tab that was away at the end never learns of
  it, and asks again about every second (`ws.ts:151`).  Nothing says that a failed session
  can be read only until it expires.
* `docs/RECOVERY.md:18` has the voting validator keep its keypair after an outage between
  steps 5 and 9.  The target's agent writes the only copy it receives to /tmp, starts the
  validator on it there, and wipes it when its process ends (`agent.ts:413`), as it does
  when the connection is lost; once step 9 is done too, no file with the key is left
  (`KeyOnDisk`).
* `handler.ts:72` says "connections per minute per IP"; the fixed window lets almost twice
  as many through within a minute, and as many again for each restart (`BurstIsBounded`).
* `session-manager.ts:517` calls the UNIQUE column the durable backstop of a cheap check:
  after a restart it is the only check, and a collision is an INSERT that throws, which
  answers the request with an error instead of another draw.

## 7. Plan

Done: `MigrationSteps`, `Orchestrator`, `Lifecycle`, `OrchestratorSpec` and its proofs,
`Wiring`, `Hub` and its proofs, `Migration` with a hub that may stop and its proofs, `Handover`,
`Dashboard` and its proofs, `AgentTransport`, `Admission` and its proofs.

Next, in this order:

1. `Attempts`: migrations one after the other on the same two servers, each admitted by the
   checklist; what a failed one may leave that the next one's checklist lets through.
2. The pairing of `Hub` composed with `Migration`: an agent that takes over a role in
   AWAITING_WINDOW without having confirmed anything.
