-------------------------------- MODULE Hub --------------------------------
(***************************************************************************)
(* Pairing a session: the hub's session manager, room and socket handler   *)
(* (packages/hub/src/session-manager.ts, ws/handler.ts, ws/rooms.ts), the  *)
(* row it keeps in SQLite, and the agents that connect, compare their SAS  *)
(* and run their checklist, over sockets that may be cut and opened again. *)
(*                                                                         *)
(* An agent is one run of the program: it has a key pair of its own, and   *)
(* the hub tells agents of a role apart only by it.  The module follows a  *)
(* session until its migration is started; Migration takes over there.     *)
(***************************************************************************)
EXTENDS Wiring, FiniteSets

CONSTANTS
  SourceAgents, TargetAgents,  \* runs of the agent program, by role
  MaxSockets,                  \* bound: connections an agent opens
  MaxConnections,              \* bound: connections opened in all
  MaxRestarts,                 \* bound: restarts of the hub
  None                         \* no agent

ASSUME AgentsAssumption ==
  SourceAgents \cap TargetAgents = {} /\ None \notin SourceAgents \cup TargetAgents
ASSUME BoundsAssumption ==
  MaxSockets \in Nat \ {0} /\ MaxConnections \in Nat /\ MaxRestarts \in Nat

Agents == SourceAgents \cup TargetAgents

RoleOf(a) == IF a \in SourceAgents THEN "source" ELSE "target"

\* The connections an agent may open, one after the other.
Sockets == Agents \X (1 .. MaxSockets)

AgentOf(s) == s[1]

NoSocket == <<None, 0>>

VARIABLES
  alive,     \* the session manager holds an orchestrator: orch
  row,       \* the state column of the session's row
  token,     \* the hub still knows the dashboards' bearer token
  restarts,  \* restarts of the hub so far
  registered, \* room.agents: the socket registered for each role
  pubkey,    \* room.agentPubkeys: the agent whose key is on record
  sock,      \* each socket: new, open, cut (the hub has not noticed),
             \* closing (no longer OPEN, its close event still to come), closed
  greeted,   \* sockets whose hello was accepted
  up, down,  \* messages to the hub and to the agent, by socket
  stage,     \* off, waiting, prompt, confirmed, checking, reported or exited
  using,     \* the number of the socket the agent uses, 0 without one
  peer,      \* the agent whose key it was sent first
  counted    \* history: whose confirmation of the SAS was last counted

manager == <<alive, row, token, restarts>>
room    == <<registered, pubkey>>
wires   == <<sock, greeted, up, down>>
people  == <<stage, using, peer>>
vars == <<orch, emitted, manager, room, wires, people, counted>>

Init ==
  /\ orch = Fresh /\ emitted = << >>
  /\ alive = TRUE /\ row = "IDLE" /\ token = TRUE /\ restarts = 0
  /\ registered = [r \in Roles |-> NoSocket] /\ pubkey = [r \in Roles |-> None]
  /\ sock = [s \in Sockets |-> "new"] /\ greeted = {}
  /\ up = [s \in Sockets |-> << >>] /\ down = [s \in Sockets |-> << >>]
  /\ stage = [a \in Agents |-> "off"] /\ using = [a \in Agents |-> 0]
  /\ peer = [a \in Agents |-> None]
  /\ counted = [r \in Roles |-> None]

-----------------------------------------------------------------------------
(* Calls on the orchestrator.                                              *)

\* getOrRevive: without an orchestrator the row is enough to start a new one.
Live == IF alive THEN orch ELSE Fresh

Ends(events) ==
  \E i \in DOMAIN events : events[i].event \in {"session_complete", "session_failed"}

\* The listeners keep the row and drop the orchestrator of an ended session.
Recorded ==
  /\ row' = RowAfter(row, emitted')
  /\ alive' = ~Ends(emitted')
  /\ UNCHANGED <<token, restarts>>

\* readyState, as the hub sees it.
IsOpen(s) == s \in Sockets /\ sock[s] \in {"open", "cut"}

\* What is sent to both roles' registered sockets, where they are open.  A
\* cut socket still takes what is sent.
Deliver(where, messages) ==
  down' = [s \in Sockets |->
             IF sock[s] = "open" /\ \E r \in Roles : where[r] = s
             THEN down[s] \o messages[RoleOf(AgentOf(s))] ELSE down[s]]

DeliverEmitted == Deliver(registered, [r \in Roles |-> MessagesTo(r, emitted')])

NoCall == orch' = orch /\ emitted' = << >> /\ UNCHANGED <<alive, row, token, restarts>>

-----------------------------------------------------------------------------
(* The agent socket's handler.                                             *)

PeerConnected(a) == [type |-> "peer_connected", agent |-> a]

Takes(s, type) ==
  /\ IsOpen(s) /\ up[s] # << >> /\ Head(up[s]).type = type
  /\ up' = [up EXCEPT ![s] = Tail(@)]

\* A role is taken while another open socket is registered for it.
RoleFree(s) ==
  LET existing == registered[RoleOf(AgentOf(s))]
  IN  existing = s \/ ~IsOpen(existing)

\* agent:hello, refused.
HelloRefused(s) ==
  /\ Takes(s, "hello") /\ ~RoleFree(s)
  /\ sock' = [sock EXCEPT ![s] = "closing"]
  /\ NoCall
  /\ UNCHANGED <<room, greeted, down, people>>

\* agent:hello, accepted: register, tell the orchestrator, and when both
\* keys are known send each agent the other's.
Hello(s) ==
  LET role     == RoleOf(AgentOf(s))
      keys     == [pubkey EXCEPT ![role] = AgentOf(s)]
      complete == \A r \in Roles : keys[r] # None
  IN
  /\ Takes(s, "hello") /\ RoleFree(s)
  /\ registered' = [registered EXCEPT ![role] = s]
  /\ pubkey' = keys
  /\ greeted' = greeted \cup {s}
  /\ OnAgentConnected(Live, role) /\ Recorded
  /\ Deliver(registered',
             [r \in Roles |-> MessagesTo(r, emitted')
                \o IF complete THEN <<PeerConnected(keys[Peer(r)])>> ELSE << >>])
  /\ UNCHANGED <<sock, people>>

HandleSasConfirmed(s) ==
  /\ Takes(s, "sas_confirmed") /\ s \in greeted
  /\ OnSasConfirmed(Live, RoleOf(AgentOf(s))) /\ Recorded
  /\ DeliverEmitted
  /\ counted' = IF Live.state = "PAIRING"
                THEN [counted EXCEPT ![RoleOf(AgentOf(s))] = AgentOf(s)] ELSE counted
  /\ UNCHANGED <<room, sock, greeted, people>>

HandlePreflightResult(s) ==
  /\ Takes(s, "preflight_result") /\ s \in greeted
  /\ OnPreflightResult(Live, RoleOf(AgentOf(s)), Head(up[s]).verdict) /\ Recorded
  /\ DeliverEmitted
  /\ UNCHANGED <<room, sock, greeted, people>>

\* Mutant: the role is taken out of the room, whichever socket has it.
OnGoneByRole(s) ==
  LET role == RoleOf(AgentOf(s)) IN
  IF s \in greeted
  THEN /\ registered' = [registered EXCEPT ![role] = NoSocket]
       /\ pubkey' = [pubkey EXCEPT ![role] = None]
       /\ OnAgentDisconnected(Live, role) /\ Recorded
  ELSE NoCall /\ UNCHANGED room

\* Mutant: the orchestrator is not told.
OnGoneQuietly(s) ==
  LET role == RoleOf(AgentOf(s))
      Without(f, none) == IF registered[role] = s THEN [f EXCEPT ![role] = none] ELSE f
  IN
  /\ registered' = Without(registered, NoSocket)
  /\ pubkey' = Without(pubkey, None)
  /\ NoCall

\* onGone: only the registered socket is taken out of the room, but whichever
\* it was, the orchestrator is told that its role has disconnected.
OnGone(s) ==
  LET role == RoleOf(AgentOf(s))
      Without(f, none) == IF registered[role] = s THEN [f EXCEPT ![role] = none] ELSE f
  IN
  IF s \in greeted
  THEN /\ registered' = Without(registered, NoSocket)
       /\ pubkey' = Without(pubkey, None)
       /\ OnAgentDisconnected(Live, role) /\ Recorded
  ELSE NoCall /\ UNCHANGED room

\* The hub learns that a socket is going, with an error event or without.
SocketError(s) ==
  /\ sock[s] = "cut" /\ up[s] = << >>
  /\ sock' = [sock EXCEPT ![s] = "closing"]
  /\ OnGone(s)
  /\ Deliver(registered', [r \in Roles |-> MessagesTo(r, emitted')])
  /\ UNCHANGED <<greeted, up, people>>

SocketClosing(s) ==
  /\ sock[s] = "cut" /\ up[s] = << >>
  /\ sock' = [sock EXCEPT ![s] = "closing"]
  /\ NoCall
  /\ UNCHANGED <<room, greeted, up, down, people>>

SocketClosed(s) ==
  /\ sock[s] = "closing"
  /\ sock' = [sock EXCEPT ![s] = "closed"]
  /\ OnGone(s)
  /\ Deliver(registered', [r \in Roles |-> MessagesTo(r, emitted')])
  /\ UNCHANGED <<greeted, up, people>>

-----------------------------------------------------------------------------
(* Dashboards, the REST API and restarts.                                  *)

DashboardStart ==
  /\ token /\ Live.state = "AWAITING_WINDOW"
  /\ StartMigration(Live) /\ Recorded
  /\ DeliverEmitted
  /\ UNCHANGED <<room, sock, greeted, up, people>>

DashboardAbort ==
  /\ token
  /\ Abort(Live) /\ Recorded
  /\ DeliverEmitted
  /\ UNCHANGED <<room, sock, greeted, up, people>>

\* Mutant: the state of the row is not looked at.
CancelAnyState ==
  /\ IF alive THEN Abort(orch) ELSE orch' = orch /\ emitted' = << >>
  /\ row' = "FAILED" /\ alive' = FALSE
  /\ Deliver(registered,
             [r \in Roles |-> MessagesTo(r, emitted') \o <<[type |-> "session_cancelled"]>>])
  /\ UNCHANGED <<token, restarts, room, sock, greeted, up, people>>

\* Mutant: the orchestrator is not aborted.
CancelRowOnly ==
  /\ row \in {"IDLE", "PAIRING"}
  /\ orch' = orch /\ emitted' = << >>
  /\ row' = "FAILED"
  /\ Deliver(registered, [r \in Roles |-> <<[type |-> "session_cancelled"]>>])
  /\ UNCHANGED <<alive, token, restarts, room, sock, greeted, up, people>>

\* DELETE /api/sessions/:id
Cancel ==
  /\ row \in {"IDLE", "PAIRING"}
  /\ IF alive THEN Abort(orch) ELSE orch' = orch /\ emitted' = << >>
  /\ row' = "FAILED" /\ alive' = FALSE
  /\ Deliver(registered,
             [r \in Roles |-> MessagesTo(r, emitted') \o <<[type |-> "session_cancelled"]>>])
  /\ UNCHANGED <<token, restarts, room, sock, greeted, up, people>>

\* The process ends and another starts: the row is all that is left.  A
\* start_migration in the wrong state throws out of the socket's listener
\* and ends the process too.
HubRestart ==
  /\ restarts < MaxRestarts
  /\ restarts' = restarts + 1
  /\ alive' = FALSE /\ token' = FALSE /\ orch' = Fresh /\ emitted' = << >>
  /\ registered' = [r \in Roles |-> NoSocket] /\ pubkey' = [r \in Roles |-> None]
  /\ greeted' = {}
  /\ sock' = [s \in Sockets |-> IF sock[s] = "new" THEN "new" ELSE "closed"]
  /\ up' = [s \in Sockets |-> << >>]
  /\ UNCHANGED <<row, down, people>>

-----------------------------------------------------------------------------
(* The agents, as the hub and each other see them.                         *)

HubSide == <<orch, manager, room, greeted>>

Socket(a) == <<a, using[a]>>

\* An agent says something on its socket; closing sockets take no more.
Say(a, msg) ==
  up' = IF sock[Socket(a)] = "open" THEN [up EXCEPT ![Socket(a)] = Append(@, msg)] ELSE up

Connect(a) ==
  /\ Cardinality({s \in Sockets : sock[s] # "new"}) < MaxConnections
  /\ \E n \in 1 .. MaxSockets :
       /\ sock[<<a, n>>] = "new" /\ \A m \in 1 .. (n - 1) : sock[<<a, m>>] # "new"
       /\ sock' = [sock EXCEPT ![<<a, n>>] = "open"]
       /\ up' = [up EXCEPT ![<<a, n>>] = <<[type |-> "hello"]>>]
       /\ using' = [using EXCEPT ![a] = n]

AgentStarts(a) ==
  /\ stage[a] = "off"
  /\ stage' = [stage EXCEPT ![a] = "waiting"]
  /\ Connect(a)
  /\ emitted' = << >>
  /\ UNCHANGED <<HubSide, down, peer>>

\* Only while it pairs or prepares does an agent connect again.
AgentReconnects(a) ==
  /\ using[a] = 0 /\ stage[a] \in {"waiting", "prompt", "confirmed", "checking"}
  /\ Connect(a)
  /\ emitted' = << >>
  /\ UNCHANGED <<HubSide, down, stage, peer>>

\* Past the checklist a lost socket ends the agent.
WithoutSocket(a) ==
  /\ using' = [using EXCEPT ![a] = 0]
  /\ stage' = [stage EXCEPT ![a] = IF @ = "reported" THEN "exited" ELSE @]

\* A connection goes on the agent's side: the hub reads what it still can, or
\* nothing any more, before it notices.
Leave(a) ==
  /\ IF using[a] # 0 /\ sock[Socket(a)] = "open"
     THEN /\ sock' = [sock EXCEPT ![Socket(a)] = "cut"]
          /\ up' \in {up, [up EXCEPT ![Socket(a)] = << >>]}
     ELSE UNCHANGED <<sock, up>>
  /\ down' = IF using[a] # 0 THEN [down EXCEPT ![Socket(a)] = << >>] ELSE down

SocketCut(a) ==
  /\ using[a] # 0 /\ sock[Socket(a)] = "open"
  /\ Leave(a) /\ WithoutSocket(a)
  /\ emitted' = << >>
  /\ UNCHANGED <<HubSide, peer>>

\* The program ends, whatever it was doing.
AgentGone(a) ==
  /\ stage[a] \notin {"off", "exited"}
  /\ Leave(a)
  /\ using' = [using EXCEPT ![a] = 0]
  /\ stage' = [stage EXCEPT ![a] = "exited"]
  /\ emitted' = << >>
  /\ UNCHANGED <<HubSide, peer>>

\* The hub closed the socket, or went away.
AgentSeesClose(a) ==
  /\ using[a] # 0 /\ sock[Socket(a)] \in {"closing", "closed"}
  /\ down' = [down EXCEPT ![Socket(a)] = << >>]
  /\ WithoutSocket(a)
  /\ emitted' = << >>
  /\ UNCHANGED <<HubSide, sock, up, peer>>

AgentReceives(a) ==
  /\ using[a] # 0 /\ down[Socket(a)] # << >>
  /\ down' = [down EXCEPT ![Socket(a)] = Tail(@)]
  /\ LET msg == Head(down[Socket(a)]) IN
     \/ /\ msg.type = "peer_connected" /\ stage[a] = "waiting"
        /\ peer' = [peer EXCEPT ![a] = msg.agent]
        /\ stage' = [stage EXCEPT ![a] = "prompt"]
     \/ /\ msg.type = "run_preflight" /\ stage[a] = "confirmed"
        /\ stage' = [stage EXCEPT ![a] = "checking"]
        /\ UNCHANGED peer
     \/ /\ \/ msg.type = "peer_connected" /\ stage[a] # "waiting"
           \/ msg.type = "run_preflight" /\ stage[a] # "confirmed"
           \/ msg.type \in {"execute_step", "execute_rollback_step"}
        /\ UNCHANGED <<peer, stage>>
  /\ emitted' = << >>
  /\ UNCHANGED <<HubSide, sock, up, using>>

\* hub:session_cancelled ends the agent.
AgentCancelled(a) ==
  /\ using[a] # 0 /\ down[Socket(a)] # << >>
  /\ Head(down[Socket(a)]).type = "session_cancelled"
  /\ AgentGone(a)

\* Mutant: the SAS of the first two agents to meet is taken on trust.
AgentConfirmsUnseen(a) ==
  /\ stage[a] = "prompt"
  /\ using[a] # 0
  /\ Say(a, [type |-> "sas_confirmed"])
  /\ stage' = [stage EXCEPT ![a] = "confirmed"]
  /\ emitted' = << >>
  /\ UNCHANGED <<HubSide, sock, down, using, peer>>

\* The operator confirms a SAS that both terminals show.  Without a socket
\* the message cannot be sent and the agent ends.
AgentConfirms(a) ==
  /\ stage[a] = "prompt" /\ peer[peer[a]] = a
  /\ \/ /\ using[a] # 0
        /\ Say(a, [type |-> "sas_confirmed"])
        /\ stage' = [stage EXCEPT ![a] = "confirmed"]
     \/ /\ using[a] = 0
        /\ stage' = [stage EXCEPT ![a] = "exited"]
        /\ UNCHANGED up
  /\ emitted' = << >>
  /\ UNCHANGED <<HubSide, sock, down, using, peer>>

AgentReports(a, verdict) ==
  /\ stage[a] = "checking"
  /\ \/ /\ using[a] # 0
        /\ Say(a, [type |-> "preflight_result", verdict |-> verdict])
        /\ stage' = [stage EXCEPT ![a] = "reported"]
     \/ /\ using[a] = 0
        /\ stage' = [stage EXCEPT ![a] = "exited"]
        /\ UNCHANGED up
  /\ emitted' = << >>
  /\ UNCHANGED <<HubSide, sock, down, using, peer>>

-----------------------------------------------------------------------------
HubHandles(s) ==
  \/ HandleSasConfirmed(s)
  \/ /\ \/ HelloRefused(s) \/ Hello(s) \/ HandlePreflightResult(s)
        \/ SocketError(s) \/ SocketClosing(s) \/ SocketClosed(s)
     /\ UNCHANGED counted

Operator == DashboardStart \/ DashboardAbort \/ Cancel

AgentActs(a) ==
  \/ AgentStarts(a) \/ AgentReconnects(a) \/ AgentSeesClose(a)
  \/ AgentReceives(a) \/ AgentCancelled(a) \/ AgentConfirms(a)
  \/ \E verdict \in Verdicts : AgentReports(a, verdict)

Next ==
  \/ \E s \in Sockets : HubHandles(s)
  \/ (Operator \/ HubRestart) /\ UNCHANGED counted
  \/ \E a \in Agents : (AgentActs(a) \/ SocketCut(a) \/ AgentGone(a)) /\ UNCHANGED counted

Spec == Init /\ [][Next]_vars

\* The hub reads what arrives and notices what closes; an agent reads, starts,
\* reconnects while it may, runs its checklist, and its operator confirms a
\* SAS that both terminals show.
Fairness ==
  /\ \A s \in Sockets : WF_vars(HubHandles(s))
  /\ \A a \in Agents : WF_vars(AgentActs(a) /\ UNCHANGED counted)

FairSpec == Spec /\ Fairness

-----------------------------------------------------------------------------
(* Properties.                                                             *)

ToHub == [type : {"hello", "sas_confirmed"}]
           \cup [type : {"preflight_result"}, verdict : Verdicts]

ToAgent ==
  [type : {"peer_connected"}, agent : Agents]
    \cup [type : {"run_preflight", "session_cancelled"}]
    \cup [type : {"execute_step"}, step : {1}]

\* Every variable keeps its type, the queues' contents included: whatever is
\* called, aborted or lost up to the start, agents are sent no step but the
\* first, and no rollback step.
TypeOK ==
  /\ orch \in Orchestrators /\ emitted \in Seq(Events)
  /\ alive \in BOOLEAN /\ row \in States /\ token \in BOOLEAN
  /\ restarts \in 0 .. MaxRestarts
  /\ \A r \in Roles : registered[r] \in Sockets \cup {NoSocket}
  /\ pubkey \in [Roles -> Agents \cup {None}]
  /\ sock \in [Sockets -> {"new", "open", "cut", "closing", "closed"}]
  /\ greeted \subseteq Sockets
  /\ \A s \in Sockets : up[s] \in Seq(ToHub) /\ down[s] \in Seq(ToAgent)
  /\ stage \in [Agents -> {"off", "waiting", "prompt", "confirmed", "checking",
                            "reported", "exited"}]
  /\ using \in [Agents -> 0 .. MaxSockets]
  /\ peer \in [Agents -> Agents \cup {None}]
  /\ counted \in [Roles -> Agents \cup {None}]

\* The two confirmations that let a session into PREFLIGHT were given by two
\* agents that hold each other's key: a confirmation that was on its way when
\* its agent's peer was replaced never completes another pair.  It takes one of
\* the roles to have a single run: with two runs of both, one agent of each of
\* two pairs may be left, and their confirmations are counted together.
PreflightByOnePair ==
  [][(orch'.state = "PREFLIGHT" /\ orch.state # "PREFLIGHT") =>
       /\ peer[counted'["source"]] = counted'["target"]
       /\ peer[counted'["target"]] = counted'["source"]]_vars

\* The row and the orchestrator disagree only when the orchestrator was
\* started from a row that has outlived it, and then it is still in IDLE.
RowLagsOnlyAfterRevival == alive /\ row # orch.state => orch.state = "IDLE"

\* No agent is told that the session is cancelled by a route that looks at the
\* row only, while the orchestrator is past PAIRING: from PREFLIGHT on there is
\* no way out that does not go through the orchestrator.
CancelledBeforePreflight ==
  [][\A s \in Sockets :
       Len(down'[s]) > Len(down[s]) /\ down'[s][Len(down'[s])].type = "session_cancelled"
         => Live.state \in {"IDLE", "PAIRING"}]_vars

\* A role is never held by two sockets the hub takes to be open, and the key
\* on record is that of the agent on the registered socket.
OneSocketPerRole ==
  /\ \A s, t \in greeted :
       IsOpen(s) /\ IsOpen(t) /\ RoleOf(AgentOf(s)) = RoleOf(AgentOf(t)) => s = t
  /\ \A r \in Roles : pubkey[r] = registered[r][1]

\* An agent the orchestrator takes to be connected is registered in the room,
\* so what is sent to it has a socket to go to.
PresentIsRegistered ==
  alive => \A r \in Roles : orch.agents[r] => registered[r] # NoSocket

-----------------------------------------------------------------------------
(* What the comments of the code say.                                      *)

\* handler.ts: "Only detach this socket if it is still the registered one for
\* the role (a fresh reconnect could have replaced it)": the orchestrator does
\* not lose an agent whose registered socket is open and stays registered.
StaleCloseIsIgnored ==
  [][\A r \in Roles :
       alive /\ orch.agents[r] /\ IsOpen(registered[r]) /\ registered'[r] = registered[r]
         => orch'.agents[r]]_vars

\* state-machine.ts: "Terminal states -- no further transitions allowed".
EndedStaysEnded == [][(row \in Terminal) => UNCHANGED row]_vars

\* state-machine.ts: "Reset SAS / preflight state so we re-pair cleanly": two
\* agents that both stay connected do not stay in PAIRING.
RepairsCleanly ==
  ~<>[](alive /\ orch.state = "PAIRING" /\
        \A r \in Roles : registered[r] # NoSocket /\ sock[registered[r]] = "open"
                           /\ stage[AgentOf(registered[r])] # "exited")
=============================================================================
