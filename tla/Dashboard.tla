------------------------------ MODULE Dashboard ------------------------------
(***************************************************************************)
(* What the operator sees: one browser tab and the session it controls     *)
(* (packages/web/lib/store.ts, lib/ws.ts and the wizard's pages), the      *)
(* snapshot a dashboard is sent when it joins (hub/src/ws/handler.ts), and *)
(* the changes it is told of afterwards (wireOrchestrator and              *)
(* handleSasAnnouncement of hub/src/session-manager.ts).                   *)
(*                                                                         *)
(* The tab's store outlives its connections, its pages and its sessions.   *)
(* Agents may call the orchestrator in any order, as in OrchestratorSpec,  *)
(* but that an agent announces its SAS before it confirms it.  Left out:   *)
(* log lines, the agents' connection status, and the dashboard's           *)
(* confirm_sas, which the hub ignores.                                     *)
(***************************************************************************)
EXTENDS Wiring

CONSTANTS
  MaxAttempts,  \* MAX_RECONNECT_ATTEMPTS
  Sases,        \* values an agent may derive for its SAS
  None,         \* no value
  MaxLives,     \* bound: orchestrators created, with a session or revived
  MaxStarts,    \* bound: migrations started
  HubMayStop,   \* bound: whether the hub's process may end, at any times
  MaxFaults,    \* bound: links cut, and connections refused as one too many
  MaxCommands,  \* bound: commands on their way to the hub
  Backlog       \* bound: messages to the tab still unread when the hub acts

ASSUME DashboardAssumption ==
  /\ {MaxAttempts, MaxLives, MaxStarts, MaxFaults, MaxCommands,
     Backlog} \subseteq Nat
  /\ HubMayStop \in BOOLEAN
  /\ None \notin Sases

VARIABLES
  alive,      \* the session manager holds an orchestrator: orch
  row,        \* the state column of the session's row
  token,      \* the hub still knows the bearer token
  expired,    \* the check of a dashboard has found the row's expires_at past
  completed,  \* the row has a completed_at
  lives,      \* orchestrators created so far
  starts,     \* migrations started so far
  announced,  \* the SAS each role announced, until both are broadcast
  broadcast,  \* dashboards were told of both
  joined,     \* the tab's socket is in the room
  wire,       \* messages to the tab, oldest first
  up,         \* commands on the tab's present socket
  late,       \* commands on sockets the tab has left
  sessions,   \* sessions created so far
  page,       \* wizard, session or away
  session,    \* the store holds a session and its token
  client,     \* the page's DashboardClient
  shown,      \* the rest of the store
  faults,     \* links cut and connections refused as one too many so far
  cardOf      \* history: the session whose SAS the card shows

expiry == <<expired, completed>>
hub  == <<alive, row, token, expiry, lives, starts, announced, broadcast>>
link == <<joined, wire, up, late>>
tab  == <<sessions, page, session, client, shown, faults, cardOf>>
vars == <<orch, emitted, hub, link, tab>>

Pages == {"wizard", "session", "away"}

\* The client's stages: no connection wanted, socket opening, open, open but
\* about to be closed by the hub, waiting to reconnect, given up.
Stages == {"off", "connecting", "open", "refused", "waiting", "stopped"}

StepStatus == {"pending", "running", "complete", "failed"}

Stores == [state : States, steps : [Steps -> StepStatus], summary : BOOLEAN,
           card : {"none", "matches", "mismatch"}]

\* The store as initialState leaves it.  A step that is not in steps is
\* rendered as pending; the card is the SAS with its match flag.
Empty == [state   |-> "IDLE",
          steps   |-> [s \in Steps |-> "pending"],
          summary |-> FALSE,
          card    |-> "none"]

\* A client that has just been told to connect.
Connecting == [stage |-> "connecting", attempts |-> 0]
Off        == [stage |-> "off", attempts |-> 0]

Init ==
  /\ orch = Fresh /\ emitted = << >>
  /\ alive = TRUE /\ row = "IDLE" /\ token = TRUE /\ lives = 1 /\ starts = 0
  /\ expired = FALSE /\ completed = FALSE
  /\ announced = [r \in Roles |-> None] /\ broadcast = FALSE
  /\ joined = FALSE /\ wire = << >> /\ up = << >> /\ late = << >>
  /\ sessions = 1 /\ page = "wizard" /\ session = TRUE
  /\ client = Connecting /\ shown = Empty /\ faults = 0
  /\ cardOf = 0

-----------------------------------------------------------------------------
(* Messages to the tab.                                                    *)

StateMsg(from, to) == [type |-> "state_change", from |-> from, to |-> to]
Progress(step, status) == [type |-> "step_progress", step |-> step, status |-> status]
Complete == [type |-> "migration_complete"]
Sas(matches) == [type |-> "sas", matches |-> matches]

TabMessages ==
  [type : {"state_change"}, from : States, to : States]
    \cup [type : {"step_progress"}, step : Steps, status : StepStatus]
    \cup [type : {"migration_complete"}] \cup [type : {"sas"}, matches : BOOLEAN]

\* What dashboards are sent when an event is emitted.
IsShown(e) == e.event \in {"state_change", "execute_step", "step_completed",
                           "step_failed_event", "session_complete"}

ViewOf(e) ==
  CASE e.event = "state_change"      -> StateMsg(e.from, e.to)
    [] e.event = "execute_step"      -> Progress(e.step, "running")
    [] e.event = "step_completed"    -> Progress(e.step, "complete")
    [] e.event = "step_failed_event" -> Progress(e.step, "failed")
    [] e.event = "session_complete"  -> Complete

ShownEvents == {e \in Events : IsShown(e)}

Broadcasts(events) ==
  LET passed == Filter(events, ShownEvents)
  IN  [i \in DOMAIN passed |-> ViewOf(passed[i])]

\* getOrRevive: without an orchestrator the row is enough to start a new one.
Live == IF alive THEN orch ELSE Fresh

Revived ==
  \/ alive /\ lives' = lives
  \/ ~alive /\ lives < MaxLives /\ lives' = lives + 1

\* Mutant: the state is the orchestrator's, which may be a revived one.
SnapshotOfOrchestrator ==
  <<StateMsg(Live.state, Live.state)>>
    \o CASE row = "COMPLETE"  -> [s \in Steps |-> Progress(s, "complete")]
         [] row = "MIGRATING" ->
              [s \in 1 .. Live.currentStep |->
                 Progress(s, IF s < Live.currentStep THEN "complete" ELSE "running")]
         [] OTHER -> << >>

\* Mutant: the step under way is taken for a finished one.
SnapshotAhead ==
  <<StateMsg(row, row)>>
    \o CASE row \in {"COMPLETE", "MIGRATING"} ->
              [s \in 1 .. Live.currentStep |-> Progress(s, "complete")]
         [] OTHER -> << >>

\* Mutant: only the steps are replayed, and the state waits for its next change.
SnapshotOfSteps ==
  CASE row = "COMPLETE"  -> [s \in Steps |-> Progress(s, "complete")]
    [] row = "MIGRATING" ->
         [s \in 1 .. Live.currentStep |->
            Progress(s, IF s < Live.currentStep THEN "complete" ELSE "running")]
    [] OTHER -> << >>

\* What a dashboard is sent when it joins.
Snapshot ==
  <<StateMsg(row, row)>>
    \o CASE row = "COMPLETE"  -> [s \in Steps |-> Progress(s, "complete")]
         [] row = "MIGRATING" ->
              [s \in 1 .. Live.currentStep |->
                 Progress(s, IF s < Live.currentStep THEN "complete" ELSE "running")]
         [] OTHER -> << >>

-----------------------------------------------------------------------------
(* The hub.                                                                *)

Send(messages) == wire' = IF joined THEN wire \o messages ELSE wire

Ends(events) ==
  \E i \in DOMAIN events : events[i].event \in {"session_complete", "session_failed"}

Completes(events) == \E i \in DOMAIN events : events[i].event = "session_complete"

\* The listeners keep the row, tell the dashboards and drop the orchestrator
\* of an ended session.  Only one that completes is given its completed_at.
Recorded ==
  /\ Revived
  /\ row' = RowAfter(row, emitted')
  /\ alive' = ~Ends(emitted')
  /\ completed' = (completed \/ Completes(emitted'))
  /\ Send(Broadcasts(emitted'))
  /\ UNCHANGED <<token, expired, joined>>

HubMayAct == Len(wire) <= Backlog

\* What an agent's socket may call.  A report of any other step than the present
\* one changes and emits nothing, and is left out.
AgentCalls(role) ==
  /\ HubMayAct
  /\ \/ OnAgentConnected(Live, role)
     \/ OnAgentDisconnected(Live, role)
     \/ /\ broadcast \/ announced[role] # None
        /\ OnSasConfirmed(Live, role)
     \/ \E verdict \in Verdicts : OnPreflightResult(Live, role, verdict)
     \/ /\ Live.state = "MIGRATING"
        /\ \/ OnStepComplete(Live, Live.currentStep, role)
           \/ OnStepFailed(Live, Live.currentStep, role)
  /\ Recorded
  /\ UNCHANGED <<starts, announced, broadcast, up, late, tab>>

\* Mutant: every pair of announcements is broadcast, not just the first.
AnnounceEach(role, sas) ==
  LET said == [announced EXCEPT ![role] = sas] IN
  /\ HubMayAct
  /\ IF None \in {said[r] : r \in Roles}
     THEN announced' = said /\ UNCHANGED <<broadcast, wire>>
     ELSE /\ announced' = said /\ broadcast' = TRUE
          /\ Send(<<Sas(said["source"] = said["target"])>>)
  /\ Revived /\ orch' = Live /\ alive' = TRUE /\ emitted' = << >>
  /\ UNCHANGED <<row, token, expiry, starts, joined, up, late, tab>>

\* agent:sas_announcement.  The two values are not read again once broadcast.
Announce(role, sas) ==
  LET said == [announced EXCEPT ![role] = sas] IN
  /\ HubMayAct
  /\ \/ broadcast /\ UNCHANGED <<announced, broadcast, wire>>
     \/ /\ ~broadcast /\ \E r \in Roles : said[r] = None
        /\ announced' = said
        /\ UNCHANGED <<broadcast, wire>>
     \/ /\ ~broadcast /\ \A r \in Roles : said[r] # None
        /\ announced' = [r \in Roles |-> None] /\ broadcast' = TRUE
        /\ Send(<<Sas(said["source"] = said["target"])>>)
  /\ Revived /\ orch' = Live /\ alive' = TRUE /\ emitted' = << >>
  /\ UNCHANGED <<row, token, expiry, starts, joined, up, late, tab>>

\* DELETE /api/sessions/:id, by anyone.
Cancel ==
  /\ HubMayAct
  /\ row \in {"IDLE", "PAIRING"}
  /\ IF alive THEN Abort(orch) ELSE orch' = orch /\ emitted' = << >>
  /\ row' = "FAILED" /\ alive' = FALSE
  /\ Send(Broadcasts(emitted'))
  /\ UNCHANGED <<token, expiry, lives, starts, announced, broadcast, joined, up, late,
                 tab>>

\* The process ends and another starts with the rows.
ProcessEnds ==
  /\ HubMayStop
  /\ alive' = FALSE /\ token' = FALSE /\ orch' = Fresh
  /\ announced' = [r \in Roles |-> None] /\ broadcast' = FALSE
  /\ joined' = FALSE /\ up' = << >> /\ late' = << >>
  /\ UNCHANGED <<row, expiry, lives, starts, wire, tab>>

HubRestart == ProcessEnds /\ emitted' = << >>

\* dashboard:abort and dashboard:start_migration.  An exception leaves the
\* socket's listener and nothing catches it: the process ends.
Command(cmd) ==
  \/ /\ cmd = "abort"
     /\ Abort(Live) /\ Recorded
     /\ UNCHANGED <<starts, announced, broadcast, tab>>
  \/ /\ cmd = "start" /\ Live.state = "AWAITING_WINDOW"
     /\ starts < MaxStarts /\ starts' = starts + 1
     /\ StartMigration(Live) /\ Recorded
     /\ UNCHANGED <<announced, broadcast, tab>>

StartThrows(cmd) ==
  /\ cmd = "start" /\ Live.state # "AWAITING_WINDOW"
  /\ emitted' = <<Thrown>>
  /\ ProcessEnds

HandleCommand ==
  /\ HubMayAct
  /\ \/ /\ up # << >> /\ joined
        /\ \/ Command(Head(up)) /\ up' = Tail(up) /\ late' = late
           \/ StartThrows(Head(up))
     \/ /\ late # << >>
        /\ \/ Command(Head(late)) /\ late' = Tail(late) /\ up' = up
           \/ StartThrows(Head(late))

-----------------------------------------------------------------------------
(* The client.                                                             *)

HubSide == <<orch, hub>>

\* The socket is gone from the tab's side.  What was sent on it may arrive, if
\* it led to the present process of the hub.
LeaveSocket(sent) ==
  /\ joined' = FALSE /\ wire' = << >> /\ up' = << >>
  /\ late' = late \o (IF joined THEN sent ELSE << >>)

\* Mutant: a lost connection is not opened again.
ScheduleNever == [client EXCEPT !.stage = "stopped"]

\* scheduleReconnect
Scheduled ==
  IF client.attempts >= MaxAttempts
  THEN [client EXCEPT !.stage = "stopped"]
  ELSE [stage |-> "waiting", attempts |-> client.attempts + 1]

\* A link is cut, or the hub's limiter refuses a connection.  Sockets that do
\* not open need no bound: the client's attempts give them one.
Fault == faults < MaxFaults /\ faults' = faults + 1

\* An expired session takes no more dashboards, unless it completed: one that
\* failed, or that nobody ended, is refused for ever.
Barred == expired /\ ~completed

\* onopen, of a socket the hub's handler has let into the room.  The snapshot
\* of a migration asks the session manager for the step, which may revive.
Accepted ==
  /\ client.stage = "connecting" /\ token /\ ~Barred
  /\ client' = [stage |-> "open", attempts |-> 0]
  /\ joined' = TRUE /\ wire' = Snapshot
  /\ IF row = "MIGRATING"
     THEN Revived /\ orch' = Live /\ alive' = TRUE
     ELSE UNCHANGED <<orch, alive, lives>>
  /\ emitted' = << >>
  /\ UNCHANGED <<row, token, expiry, starts, announced, broadcast, up, late,
                 sessions, page, session, shown, faults, cardOf>>

\* onopen, of a socket that the handler closes at once: the token is unknown,
\* the session's time is over, which it may be at any check and is from then on,
\* or there were too many connections.  The client goes by the close alone.
Refused ==
  /\ client.stage = "connecting"
  /\ \/ ~token /\ UNCHANGED <<expired, faults>>
     \/ token /\ ~completed /\ expired' = TRUE /\ faults' = faults
     \/ token /\ ~Barred /\ Fault /\ expired' = expired
  /\ client' = [stage |-> "refused", attempts |-> 0]
  /\ emitted' = << >>
  /\ UNCHANGED <<orch, alive, row, token, completed, lives, starts, announced,
                 broadcast, link, sessions, page, session, shown, cardOf>>

\* onclose, of such a socket.
RefusalCloses ==
  /\ client.stage = "refused"
  /\ client' = Scheduled
  /\ emitted' = << >>
  /\ UNCHANGED <<HubSide, link, sessions, page, session, shown, faults, cardOf>>

\* onerror and onclose of a socket that never opened.
OpenFails ==
  /\ client.stage = "connecting"
  /\ client' = Scheduled
  /\ emitted' = << >>
  /\ UNCHANGED <<HubSide, link, sessions, page, session, shown, faults, cardOf>>

\* onclose of an open one: cut, or closed by a hub that went away.
SocketLost ==
  /\ client.stage = "open"
  /\ \/ ~joined /\ faults' = faults
     \/ joined /\ Fault
  /\ client' = Scheduled
  /\ \E n \in 0 .. Len(up) : LeaveSocket(SubSeq(up, 1, n))
  /\ emitted' = << >>
  /\ UNCHANGED <<HubSide, sessions, page, session, shown, cardOf>>

ReconnectTimer ==
  /\ client.stage = "waiting"
  /\ client' = [client EXCEPT !.stage = "connecting"]
  /\ emitted' = << >>
  /\ UNCHANGED <<HubSide, link, sessions, page, session, shown, faults, cardOf>>

-----------------------------------------------------------------------------
(* The store.                                                              *)

\* The listener of wireClientToStore: the store after a message.
Applied(store, msg) ==
  CASE msg.type = "state_change"       -> [store EXCEPT !.state = msg.to]
    [] msg.type = "step_progress"      -> [store EXCEPT !.steps[msg.step] = msg.status]
    [] msg.type = "migration_complete" -> [store EXCEPT !.summary = TRUE, !.state = "COMPLETE"]
    [] msg.type = "sas" ->
         [store EXCEPT !.card = IF msg.matches THEN "matches" ELSE "mismatch"]

Receive ==
  /\ client.stage = "open" /\ wire # << >>
  /\ shown' = Applied(shown, Head(wire))
  /\ cardOf' = IF Head(wire).type = "sas" THEN sessions ELSE cardOf
  /\ wire' = Tail(wire)
  /\ emitted' = << >>
  /\ UNCHANGED <<HubSide, joined, up, late, sessions, page, session, client, faults>>

-----------------------------------------------------------------------------
(* The operator.                                                           *)

\* dispatch: what cannot be sent now is dropped.
Sent(cmd) == IF client.stage = "open" THEN Append(up, cmd) ELSE up

MayCommand == Len(up) + Len(late) < MaxCommands

\* Step 3 lets the operator start when the state shown says so.  The session
\* page that the handler asks for comes later (GoTo), as the router gets there.
ClickStart ==
  /\ page = "wizard" /\ session /\ shown.state = "AWAITING_WINDOW"
  /\ MayCommand
  /\ up' = Sent("start")
  /\ emitted' = << >>
  /\ UNCHANGED <<HubSide, joined, wire, late, tab>>

ClickAbort ==
  /\ page = "session" /\ MayCommand
  /\ up' = Sent("abort")
  /\ emitted' = << >>
  /\ UNCHANGED <<HubSide, joined, wire, late, tab>>

\* "Does not match" on the wizard's SAS card: abort, then empty the store.
ClickMismatch ==
  /\ page = "wizard" /\ session /\ shown.card # "none"
  /\ shown.state \in {"PAIRING", "PREFLIGHT", "AWAITING_WINDOW"}
  /\ MayCommand
  /\ LeaveSocket(Sent("abort"))
  /\ shown' = Empty /\ session' = FALSE /\ client' = Off
  /\ emitted' = << >>
  /\ UNCHANGED <<HubSide, sessions, page, faults, cardOf>>

\* Another page: the old page's client is closed, the new one's connects.
GoTo(p) ==
  /\ page # p
  /\ page' = p
  /\ LeaveSocket(up)
  /\ client' = IF p # "away" /\ session THEN Connecting ELSE Off
  /\ emitted' = << >>
  /\ UNCHANGED <<HubSide, sessions, session, shown, faults, cardOf>>

\* Step 1: a new session takes the place of the old one in the store, and
\* nothing else of the store is reset.  The hub's side of the old session goes
\* on unseen; what is followed from here on is the new one.
CreateSession ==
  /\ page = "wizard" /\ lives < MaxLives
  /\ lives' = lives + 1 /\ sessions' = sessions + 1 /\ session' = TRUE
  /\ orch' = Fresh /\ alive' = TRUE /\ row' = "IDLE" /\ token' = TRUE
  /\ expired' = FALSE /\ completed' = FALSE
  /\ announced' = [r \in Roles |-> None] /\ broadcast' = FALSE
  /\ joined' = FALSE /\ wire' = << >> /\ up' = << >> /\ late' = << >>
  /\ client' = Connecting
  /\ emitted' = << >>
  /\ UNCHANGED <<starts, page, shown, faults, cardOf>>

-----------------------------------------------------------------------------
HubActs ==
  \/ \E role \in Roles : AgentCalls(role) \/ \E sas \in Sases : Announce(role, sas)
  \/ Cancel \/ HubRestart \/ HandleCommand

ClientActs ==
  \/ Accepted \/ Refused \/ RefusalCloses \/ OpenFails \/ SocketLost \/ ReconnectTimer
  \/ Receive

OperatorActs ==
  \/ ClickStart \/ ClickAbort \/ ClickMismatch
  \/ \E p \in Pages : GoTo(p)
  \/ CreateSession

Next == HubActs \/ ClientActs \/ OperatorActs

Spec == Init /\ [][Next]_vars

\* A socket opens or fails, a closed one is noticed, a timer fires and what
\* has arrived is handled.  Nothing is assumed of the hub's calls, nor of how
\* long a session that does not complete lasts.
Fairness ==
  /\ WF_vars(Accepted) /\ WF_vars(Refused \/ OpenFails) /\ WF_vars(RefusalCloses)
  /\ WF_vars(~joined /\ SocketLost)
  /\ WF_vars(ReconnectTimer) /\ WF_vars(Receive)

FairSpec == Spec /\ Fairness

\* What tells states apart.  No action reads emitted, nor the object of an
\* ended session.
LiveView == <<Live, hub, link, tab>>

\* Safety asks for less: who is connected matters no more once pairing is over;
\* nothing passes between the hub and a tab that is shut out for good, but what
\* is still on the wire; a session that completed has no use for its expiry;
\* and the steps shown matter no more when the last migration has failed.
Relevant(o) ==
  IF o.state \in {"IDLE", "PAIRING", "PREFLIGHT"} THEN o ELSE [o EXCEPT !.agents = Fresh.agents]

\* A barred session that is not in migration, nor about to start one, will not
\* complete any more.
ShutOut ==
  \/ ~token
  \/ /\ Barred /\ ~joined
     /\ Live.state # "MIGRATING" /\ \A i \in DOMAIN late : late[i] # "start"

StepsMatter == starts < MaxStarts \/ Live.state = "MIGRATING" \/ row = "COMPLETE"

View ==
  << IF ShutOut
     THEN <<wire, client.stage = "open">>
     ELSE <<Relevant(Live), alive, row, announced, broadcast, Barred, completed, link, client>>,
     token, lives, starts, sessions, page, session, faults, cardOf,
     IF StepsMatter THEN shown ELSE [shown EXCEPT !.steps = Empty.steps] >>

-----------------------------------------------------------------------------
(* Properties.                                                             *)

\* The variables keep their types.
TypeOK ==
  /\ orch \in Orchestrators /\ emitted \in Seq(Events)
  /\ alive \in BOOLEAN /\ row \in States /\ token \in BOOLEAN
  /\ expired \in BOOLEAN /\ completed \in BOOLEAN
  /\ announced \in [Roles -> Sases \cup {None}] /\ broadcast \in BOOLEAN
  /\ joined \in BOOLEAN
  /\ wire \in Seq(TabMessages)
  /\ up \in Seq({"start", "abort"}) /\ late \in Seq({"start", "abort"})
  /\ Len(up) + Len(late) <= MaxCommands
  /\ page \in Pages /\ session \in BOOLEAN
  /\ client \in [stage : Stages, attempts : 0 .. MaxAttempts]
  /\ shown \in Stores

\* A tab whose link is up and that has read everything.
UpToDate == client.stage = "open" /\ joined /\ wire = << >>

\* Through reconnections, revived orchestrators, cancelled and new sessions,
\* a tab that has read everything shows the state of the session's row.
ShowsTheRow == UpToDate => shown.state = row

\* It shows the steps passed as complete and the one under way as running,
\* whether it saw them happen, joined later, or still holds the steps of an
\* earlier migration.
ShowsTheSteps ==
  UpToDate =>
    /\ row = "MIGRATING" =>
         /\ shown.steps[orch.currentStep] = "running"
         /\ \A s \in 1 .. (orch.currentStep - 1) : shown.steps[s] = "complete"
    /\ row = "COMPLETE" => \A s \in Steps : shown.steps[s] = "complete"

\* No change of state is missed on a link: the next one the tab reads starts
\* from the state it shows, or from IDLE, where a revived orchestrator starts.
NoChangeMissed ==
  [][Receive /\ Head(wire).type = "state_change" /\ Head(wire).from # Head(wire).to
       => Head(wire).from \in {shown.state, "IDLE"}]_vars

\* A mismatch of the SAS, once shown, is not taken back by what the agents of
\* the same session announce later.
AlertStays ==
  [][shown.card = "mismatch" /\ cardOf = sessions /\ session' /\ sessions' = sessions
       => shown'.card = "mismatch"]_vars

\* The end of a session is shown to an operator who stays on its page, however
\* often the link was lost before, unless the hub has forgotten the token, the
\* client has used up its attempts, or the tab is out of the room of a session
\* that expired and did not complete, which the hub does not let it into again.
EndIsShown ==
  <>[](page = "session") =>
    (row \in Terminal) ~>
      \/ shown.state = row \/ row \notin Terminal
      \/ ~token \/ ~session
      \/ Barred /\ ~joined
      \/ client.stage = "stopped" /\ client.attempts = MaxAttempts

-----------------------------------------------------------------------------
(* What the comments say.                                                  *)

\* Step3Preflight.tsx: "Allow Start Migration when EITHER: the orchestrator has
\* already moved to AWAITING_WINDOW ...": no start then meets another state, in
\* which startMigration throws.
StartOnlyWhenReady == [][\A i \in DOMAIN emitted' : emitted'[i] # Thrown]_vars
=============================================================================
