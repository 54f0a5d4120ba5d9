------------------------------ MODULE HubProofs ------------------------------
(***************************************************************************)
(* What pairing promises, for any number of agents of either role, of      *)
(* sockets each of them opens, and of restarts of the hub: the room and    *)
(* the orchestrator agree on who is there, the row on where the session    *)
(* stands, and the two agents let into PREFLIGHT have compared their keys  *)
(* with each other.                                                        *)
(***************************************************************************)
EXTENDS Hub, WiringTheorems

-----------------------------------------------------------------------------
(* The inductive invariant.                                                *)

AgentsOf(role) == {a \in Agents : RoleOf(a) = role}

\* What the hub sends on a role's sockets while it pairs a session: the keys of
\* the other role's agents, the orders of the orchestrator, and a cancellation.
Orders          == {RunPreflight, RunStep(1)}
Cancelled       == [type |-> "session_cancelled"]
Calls(role)     == {PeerConnected(a) : a \in AgentsOf(Peer(role))} \cup Orders
ToAgentOf(role) == Calls(role) \cup {Cancelled}

\* Two agents that hold each other's key, so that their terminals show the
\* same SAS.  Only then does an agent confirm.
Mutual(a) == peer[a] \in Agents /\ peer[peer[a]] = a

Confirmation == [type |-> "sas_confirmed"]
FromAgent(a) == IF Mutual(a) THEN ToHub ELSE ToHub \ {Confirmation}

\* The row lags only behind an orchestrator in IDLE, and no step after the
\* first has been dispatched.
ManagerOK ==
  /\ orch \in Orchestrators /\ emitted \in Seq(Events)
  /\ alive \in BOOLEAN /\ row \in States /\ token \in BOOLEAN
  /\ restarts \in 0 .. MaxRestarts
  /\ alive => orch.state # "ROLLBACK" /\ orch.currentStep <= 1
  /\ RowLagsOnlyAfterRevival

\* A socket whose hello was accepted is registered as long as it is open.
RoomOK ==
  /\ registered \in [Roles -> Sockets \cup {NoSocket}]
  /\ pubkey \in [Roles -> Agents \cup {None}]
  /\ sock \in [Sockets -> {"new", "open", "cut", "closing", "closed"}]
  /\ greeted \subseteq Sockets
  /\ \A r \in Roles : registered[r] # NoSocket => RoleOf(AgentOf(registered[r])) = r
  /\ \A r \in Roles : pubkey[r] = registered[r][1]
  /\ \A s \in greeted : /\ sock[s] # "new"
                        /\ IsOpen(s) => registered[RoleOf(AgentOf(s))] = s

\* An agent holds a key of the other role, the first it was sent, from its
\* prompt on.
PeopleOK ==
  /\ stage \in [Agents -> {"off", "waiting", "prompt", "confirmed", "checking",
                            "reported", "exited"}]
  /\ using \in [Agents -> 0 .. MaxSockets]
  /\ peer \in [Agents -> Agents \cup {None}]
  /\ \A a \in Agents : /\ peer[a] # None => RoleOf(peer[a]) = Peer(RoleOf(a))
                       /\ stage[a] \in {"off", "waiting"} => peer[a] = None
                       /\ stage[a] = "prompt" => peer[a] # None

UpOK ==
  DOMAIN up = Sockets /\ \A s \in Sockets : up[s] \in Seq(FromAgent(AgentOf(s)))

DownOK ==
  DOMAIN down = Sockets /\ \A s \in Sockets : down[s] \in Seq(ToAgentOf(RoleOf(AgentOf(s))))

\* A confirmation that counts was given by an agent of the role that holds
\* the key of one that holds its own.
ConsentOK ==
  /\ counted \in [Roles -> Agents \cup {None}]
  /\ alive => \A r \in Roles : orch.sas[r] => counted[r] \in AgentsOf(r) /\ Mutual(counted[r])

IInv ==
  /\ ManagerOK /\ RoomOK /\ PresentIsRegistered
  /\ PeopleOK /\ UpOK /\ DownOK /\ ConsentOK

USE DEF Roles, Terminal, BilateralSteps, Steps, TotalSteps, IsTerminal

-----------------------------------------------------------------------------
(* Names and messages.                                                     *)

\* Agents have roles, sockets belong to agents, and None and NoSocket are apart.
LEMMA Names ==
  /\ \A a : RoleOf(a) \in Roles
  /\ None \notin Agents /\ NoSocket \notin Sockets /\ NoSocket[1] = None
  /\ \A s \in Sockets : AgentOf(s) \in Agents /\ s # NoSocket
  /\ \A s : AgentOf(s) = s[1]
  /\ \A a \in Agents, n \in 1 .. MaxSockets : <<a, n>> \in Sockets /\ AgentOf(<<a, n>>) = a
  BY AgentsAssumption DEF Sockets, AgentOf, NoSocket, Agents, RoleOf

\* The kinds of messages are apart, and all of them are messages.
LEMMA Kinds ==
  /\ \A r \in Roles : /\ ToAgentOf(r) \subseteq ToAgent /\ Orders \subseteq Calls(r)
                      /\ Calls(r) \subseteq ToAgentOf(r) /\ Cancelled \in ToAgentOf(r)
  /\ \A r \in Roles : \A a \in AgentsOf(Peer(r)) : PeerConnected(a) \in Calls(r)
  /\ \A r \in Roles : \A m \in Calls(r) : m.type # "session_cancelled"
  /\ \A r \in Roles : \A m \in ToAgentOf(r) :
       m.type = "peer_connected" => m.agent \in AgentsOf(Peer(r))
  /\ Confirmation \in ToHub /\ Confirmation.type = "sas_confirmed"
  /\ \A m \in ToHub : m.type = "sas_confirmed" => m = Confirmation
  /\ \A m \in ToHub : m.type = "preflight_result" => m.verdict \in Verdicts
  /\ \A v \in Verdicts :
       [type |-> "preflight_result", verdict |-> v] \in ToHub \ {Confirmation}
  /\ [type |-> "hello"] \in ToHub \ {Confirmation}
<1>1. \A a \in Agents : PeerConnected(a) \in ToAgent
  BY DEF ToAgent, PeerConnected
<1>2. Orders \subseteq ToAgent /\ Cancelled \in ToAgent
  BY DEF ToAgent, Orders, Cancelled, RunPreflight, RunStep
<1>3. \A m \in Orders : m.type \in {"run_preflight", "execute_step"}
  BY DEF Orders, RunPreflight, RunStep
<1>4. \A a : PeerConnected(a).type = "peer_connected" /\ PeerConnected(a).agent = a
  BY DEF PeerConnected
<1>5. Cancelled.type = "session_cancelled"
  BY DEF Cancelled
<1>6. /\ Confirmation \in ToHub /\ Confirmation.type = "sas_confirmed"
      /\ \A m \in ToHub : m.type = "sas_confirmed" => m = Confirmation
      /\ \A m \in ToHub : m.type = "preflight_result" => m.verdict \in Verdicts
      /\ [type |-> "hello"] \in ToHub \ {Confirmation}
  BY DEF ToHub, Confirmation
<1>7. \A v \in Verdicts :
        [type |-> "preflight_result", verdict |-> v] \in ToHub \ {Confirmation}
  BY DEF ToHub, Confirmation
<1>8. \A r \in Roles : AgentsOf(Peer(r)) \subseteq Agents
  BY DEF AgentsOf
<1>9. \A r \in Roles :
        /\ ToAgentOf(r) \subseteq ToAgent /\ Orders \subseteq Calls(r)
        /\ Calls(r) \subseteq ToAgentOf(r) /\ Cancelled \in ToAgentOf(r)
        /\ \A a \in AgentsOf(Peer(r)) : PeerConnected(a) \in Calls(r)
  BY <1>1, <1>2, <1>8 DEF ToAgentOf, Calls
<1>10. \A r \in Roles : \A m \in Calls(r) : m.type # "session_cancelled"
  BY <1>3, <1>4 DEF Calls
<1>11. \A r \in Roles : \A m \in ToAgentOf(r) :
         m.type = "peer_connected" => m.agent \in AgentsOf(Peer(r))
  BY <1>3, <1>4, <1>5 DEF ToAgentOf, Calls
<1>12. QED
  BY <1>6, <1>7, <1>9, <1>10, <1>11

-----------------------------------------------------------------------------
(* Calls on the orchestrator, and what the manager makes of them.          *)

\* While it pairs a session the orchestrator never finishes, and has nothing
\* to roll back.
PairingCall(o) ==
  \/ Silent(o) \/ Throws(o) \/ Changes(o) \/ Starts(o) \/ FailsNow(o, << >>)
  \/ RollsBack(o, << >>) /\ o.currentStep <= 1

\* A rollback before the second step has no steps, only its changes of state.
LEMMA EmptyRollback ==
  ASSUME NEW o \in Orchestrators, RollsBack(o, << >>), o.currentStep <= 1
  PROVE  /\ emitted' = <<StateChange("MIGRATING", "ROLLBACK"),
                         StateChange("ROLLBACK", "FAILED"), SessionFailed>>
         /\ emitted' \in Seq(Muted)
<1> DEFINE a == StateChange("MIGRATING", "ROLLBACK")
           b == StateChange("ROLLBACK", "FAILED")
<1>1. RollbackEvents(o.currentStep) = << >>
  <2>1. o.currentStep \in 0 .. TotalSteps
    BY DEF Orchestrators
  <2>2. GetRollbackSteps(o.currentStep) = << >>
    BY <2>1 DEF GetRollbackSteps, ShouldRollback
  <2>3. RollbackEvents(o.currentStep) = [i \in 1 .. Len(<< >>) |-> Rollback(<< >>[i])]
    BY <2>2 DEF RollbackEvents
  <2>4. [i \in 1 .. Len(<< >>) |-> Rollback(<< >>[i])] = << >>
    OBVIOUS
  <2>5. QED
    BY <2>3, <2>4
<1>2. emitted' = << >> \o <<a>> \o << >> \o <<b, SessionFailed>>
  BY <1>1 DEF RollsBack
<1>3. a \in Muted /\ b \in Muted /\ SessionFailed \in Muted
  BY Addressed DEF States
<1> HIDE DEF a, b
<1>4. << >> \o <<a>> \o << >> = <<a>> /\ <<a>> \o <<b, SessionFailed>> = <<a, b, SessionFailed>>
  BY EventPairs, ListsOfThree
<1>5. emitted' = <<a, b, SessionFailed>>
  BY <1>2, <1>4
<1>6. QED
  BY <1>3, <1>5, MutedLists DEF a, b

\* The lists of events of such a call: what agents are sent for them, what
\* they make of the row, and whether they end the session.
LEMMA CallEffect ==
  ASSUME NEW o \in Orchestrators, PairingCall(o)
  PROVE  /\ emitted' \in Seq(Events)
         /\ \A r \in Roles : MessagesTo(r, emitted') \in Seq(Orders)
         /\ \/ /\ orch'.state = o.state /\ ~Ends(emitted')
               /\ \A old : RowAfter(old, emitted') = old
            \/ /\ orch'.state \in {"IDLE", "PAIRING", "PREFLIGHT", "AWAITING_WINDOW",
                                   "MIGRATING"}
               /\ ~Ends(emitted') /\ \A old : RowAfter(old, emitted') = orch'.state
            \/ /\ Ends(emitted') /\ \A old : RowAfter(old, emitted') = "FAILED"
<1>0. /\ o.state \in States /\ << >> \in Seq(Orders) /\ \A m \in Orders : <<m>> \in Seq(Orders)
      /\ RunPreflight \in Orders /\ RunStep(1) \in Orders
  BY DEF Orchestrators, Orders
<1>1. CASE Silent(o) \/ Throws(o)
  <2>1. emitted' \in {<< >>, <<CriticalAlert>>, <<Thrown>>} /\ orch'.state = o.state
    BY <1>1 DEF Silent, Throws
  <2>2. emitted' \in Seq(Muted)
    BY <2>1, Addressed, MutedLists
  <2>3. ~Ends(emitted')
    BY <2>1 DEF Ends, CriticalAlert, Thrown
  <2>4. \A old : RowAfter(old, emitted') = old
    BY <2>1, RowOfLists
  <2>5. emitted' \in Seq(Events) /\ \A r \in Roles : MessagesTo(r, emitted') = << >>
    BY <2>2, SentAreEvents, MutedMessages
  <2>6. QED
    BY <1>0, <2>1, <2>3, <2>4, <2>5
<1>2. CASE Changes(o)
  <2>1. /\ emitted' = <<StateChange(o.state, orch'.state)>>
        /\ orch'.state \in {"IDLE", "PAIRING", "PREFLIGHT", "AWAITING_WINDOW"}
    BY <1>2 DEF Changes
  <2>2. orch'.state \in States
    BY <2>1 DEF States
  <2>3. ~Ends(emitted')
    BY <2>1 DEF Ends, StateChange
  <2>4. ASSUME NEW old PROVE RowAfter(old, emitted') = orch'.state
    <3>1. \A a, b \in States : RowAfter(old, <<StateChange(a, b)>>) = b
      BY RowOfLists
    <3>2. QED
      BY <1>0, <2>1, <2>2, <3>1
  <2>5. \A r \in Roles : MessagesTo(r, emitted') \in Seq(Orders)
    BY <1>0, <2>1, <2>2, ChangeMessages
  <2>6. emitted' \in Seq(Events)
    BY <1>0, <2>1, <2>2, EventTypes
  <2>7. QED
    BY <2>1, <2>3, <2>4, <2>5, <2>6
<1>3. CASE Starts(o)
  <2>1. /\ emitted' = <<StateChange("AWAITING_WINDOW", "MIGRATING"), ExecuteStep(1)>>
        /\ orch'.state = "MIGRATING"
    BY <1>3 DEF Starts
  <2>2. "AWAITING_WINDOW" \in States /\ "MIGRATING" \in States /\ 1 \in Steps
    BY DEF States
  <2>3. ~Ends(emitted')
    BY <2>1 DEF Ends, StateChange, ExecuteStep
  <2>4. ASSUME NEW old PROVE RowAfter(old, emitted') = "MIGRATING"
    <3>1. \A a, b \in States : RowAfter(old, <<StateChange(a, b), ExecuteStep(1)>>) = b
      BY RowOfLists
    <3>2. QED
      BY <2>1, <2>2, <3>1
  <2>5. StateChange("AWAITING_WINDOW", "MIGRATING") \in Muted
    BY <2>2, Addressed
  <2>6. \A r \in Roles : MessagesTo(r, emitted') \in {<< >>, <<RunStep(1)>>}
    BY <2>1, <2>2, <2>5, DispatchMessages
  <2>7. \A r \in Roles : MessagesTo(r, emitted') \in Seq(Orders)
    BY <1>0, <2>6
  <2>8. emitted' \in Seq(Events)
    BY <2>1, <2>2, EventTypes
  <2>9. QED
    BY <2>1, <2>3, <2>4, <2>7, <2>8
<1>4. CASE FailsNow(o, << >>)
  <2>1. << >> \in Seq(Muted)
    BY MutedLists
  <2>2. emitted' \in Seq(Muted)
    BY <1>0, <1>4, <2>1, FailureSends
  <2>3. emitted' = <<StateChange(o.state, "FAILED"), SessionFailed>>
    BY <1>4, EventPairs DEF FailsNow
  <2>4. Ends(emitted')
    <3>1. 2 \in DOMAIN emitted' /\ emitted'[2].event = "session_failed"
      BY <2>3 DEF SessionFailed
    <3>2. QED
      BY <3>1 DEF Ends
  <2>5. \A old : RowAfter(old, emitted') = "FAILED"
    <3>1. "FAILED" \in States /\ <<StateChange(o.state, "FAILED")>> \in Seq(Events)
      BY <1>0, EventTypes DEF States
    <3>2. emitted' = Append(<<StateChange(o.state, "FAILED")>>, SessionFailed)
      BY <2>3
    <3>3. QED
      BY <3>1, <3>2, RowOfLists
  <2>6. emitted' \in Seq(Events) /\ \A r \in Roles : MessagesTo(r, emitted') = << >>
    BY <2>2, SentAreEvents, MutedMessages
  <2>7. QED
    BY <1>0, <2>4, <2>5, <2>6
<1>5. CASE RollsBack(o, << >>) /\ o.currentStep <= 1
  <2>1. /\ emitted' = <<StateChange("MIGRATING", "ROLLBACK"),
                        StateChange("ROLLBACK", "FAILED"), SessionFailed>>
        /\ emitted' \in Seq(Muted)
    BY <1>5, EmptyRollback
  <2>2. Ends(emitted')
    <3>1. 3 \in DOMAIN emitted' /\ emitted'[3].event = "session_failed"
      BY <2>1 DEF SessionFailed
    <3>2. QED
      BY <3>1 DEF Ends
  <2>3. \A old : RowAfter(old, emitted') = "FAILED"
    <3> DEFINE s == <<StateChange("MIGRATING", "ROLLBACK"), StateChange("ROLLBACK", "FAILED")>>
    <3>1. s \in Seq(Events)
      BY EventTypes DEF States
    <3>2. emitted' = Append(s, SessionFailed)
      BY <2>1
    <3> HIDE DEF s
    <3>3. QED
      BY <3>1, <3>2, RowOfLists
  <2>4. emitted' \in Seq(Events) /\ \A r \in Roles : MessagesTo(r, emitted') = << >>
    BY <2>1, SentAreEvents, MutedMessages
  <2>5. QED
    BY <1>0, <2>2, <2>3, <2>4
<1>6. QED
  BY <1>1, <1>2, <1>3, <1>4, <1>5 DEF PairingCall

\* The orchestrator that a handler works on, revived or not.
LEMMA LiveIs ==
  ASSUME ManagerOK
  PROVE  /\ Live \in Orchestrators /\ Live.state # "ROLLBACK" /\ Live.currentStep <= 1
         /\ row # Live.state => Live.state = "IDLE"
         /\ alive => Live = orch
         /\ ~alive => /\ Live.state = "IDLE"
                      /\ \A r \in Roles : ~Live.agents[r] /\ ~Live.sas[r]
<1>1. Fresh \in Orchestrators
  BY DEF Fresh, Orchestrators, States
<1>2. /\ Fresh.state = "IDLE" /\ Fresh.currentStep = 0
      /\ \A r \in Roles : ~Fresh.agents[r] /\ ~Fresh.sas[r]
  BY DEF Fresh
<1>3. QED
  BY <1>1, <1>2 DEF Live, ManagerOK, RowLagsOnlyAfterRevival

\* Recording a call keeps the manager's part of the invariant: a call that
\* changes the state writes it, and one that does not finds the row as it was.
LEMMA RecordedInv ==
  ASSUME ManagerOK, PairingCall(Live), Recorded, orch' \in Orchestrators,
         orch'.state # "ROLLBACK", orch'.currentStep <= 1
  PROVE  /\ ManagerOK'
         /\ \A r \in Roles : MessagesTo(r, emitted') \in Seq(Orders)
<1>1. /\ row' = RowAfter(row, emitted') /\ alive' = ~Ends(emitted')
      /\ token' = token /\ restarts' = restarts
  BY DEF Recorded
<1>2. Live \in Orchestrators /\ (row # Live.state => Live.state = "IDLE")
  BY LiveIs
<1>3. /\ emitted' \in Seq(Events)
      /\ \A r \in Roles : MessagesTo(r, emitted') \in Seq(Orders)
      /\ \/ /\ orch'.state = Live.state /\ alive' = TRUE /\ row' = row
         \/ /\ orch'.state \in States
            /\ alive' = TRUE /\ row' = orch'.state
         \/ alive' = FALSE /\ row' = "FAILED"
  <2>1. DEFINE o == Live
  <2> HIDE DEF o
  <2>2. o \in Orchestrators /\ PairingCall(o)
    BY <1>2 DEF o
  <2>3. /\ emitted' \in Seq(Events)
        /\ \A r \in Roles : MessagesTo(r, emitted') \in Seq(Orders)
        /\ \/ /\ orch'.state = o.state /\ ~Ends(emitted')
              /\ \A old : RowAfter(old, emitted') = old
           \/ /\ orch'.state \in {"IDLE", "PAIRING", "PREFLIGHT", "AWAITING_WINDOW",
                                  "MIGRATING"}
              /\ ~Ends(emitted') /\ \A old : RowAfter(old, emitted') = orch'.state
           \/ /\ Ends(emitted') /\ \A old : RowAfter(old, emitted') = "FAILED"
    BY <2>2, CallEffect
  <2>4. orch'.state \in States
    BY DEF Orchestrators
  <2>5. QED
    BY <1>1, <2>3, <2>4 DEF o
<1>4. "FAILED" \in States /\ orch'.state \in States
  BY DEF States, Orchestrators
<1>5. ManagerOK'
  BY <1>1, <1>2, <1>3, <1>4 DEF ManagerOK, RowLagsOnlyAfterRevival
<1>6. QED
  BY <1>3, <1>5

\* Every call of a role's agent, of an operator who starts from the right
\* state, or of one who aborts: the manager's part holds on, agents are sent
\* orders at most, and only a confirmation brings the session to PREFLIGHT.
Kept ==
  /\ ManagerOK'
  /\ \A r \in Roles : MessagesTo(r, emitted') \in Seq(Orders)

\* onAgentConnected() marks the agent and confirms nothing.
LEMMA ConnectedCall ==
  ASSUME ManagerOK, NEW role \in Roles, OnAgentConnected(Live, role), Recorded
  PROVE  /\ Kept
         /\ orch'.agents = [Live.agents EXCEPT ![role] = TRUE] /\ orch'.sas = Live.sas
         /\ orch'.state = "PREFLIGHT" => Live.state = "PREFLIGHT"
<1>1. /\ Live \in Orchestrators /\ Live.state # "ROLLBACK" /\ Live.currentStep <= 1
  BY LiveIs
<1> DEFINE o == Live
<1> HIDE DEF o
<1>2. o \in Orchestrators /\ OnAgentConnected(o, role)
  BY <1>1 DEF o
<1>3. Silent(o) \/ Changes(o)
  BY <1>2, ConnectedSays
<1>4. /\ orch' \in Orchestrators /\ SameProgress(o)
      /\ orch'.agents = [o.agents EXCEPT ![role] = TRUE] /\ orch'.sas = o.sas
      /\ orch'.state = o.state \/ orch'.state = "PAIRING"
  BY <1>2, ConnectedShape
<1>5. PairingCall(Live) /\ orch'.state # "ROLLBACK" /\ orch'.currentStep <= 1
  BY <1>1, <1>3, <1>4 DEF PairingCall, SameProgress, o
<1>6. QED
  BY <1>4, <1>5, RecordedInv DEF Kept, o

\* onAgentDisconnected() marks the agent gone and adds no confirmation.
LEMMA DisconnectedCall ==
  ASSUME ManagerOK, NEW role \in Roles, OnAgentDisconnected(Live, role), Recorded
  PROVE  /\ Kept
         /\ orch'.agents = [Live.agents EXCEPT ![role] = FALSE]
         /\ \A r \in Roles : orch'.sas[r] => Live.sas[r]
         /\ orch'.state = "PREFLIGHT" => Live.state = "PREFLIGHT"
<1>1. /\ Live \in Orchestrators /\ Live.state # "ROLLBACK" /\ Live.currentStep <= 1
  BY LiveIs
<1> DEFINE o == Live
<1> HIDE DEF o
<1>2. o \in Orchestrators /\ OnAgentDisconnected(o, role)
  BY <1>1 DEF o
<1>3. Silent(o) \/ Changes(o) \/ RollsBack(o, << >>)
  BY <1>2, DisconnectedSays
<1>4. /\ orch' \in Orchestrators /\ SameProgress(o)
      /\ orch'.agents = [o.agents EXCEPT ![role] = FALSE]
      /\ \A r \in Roles : orch'.sas[r] => o.sas[r]
      /\ orch'.state \in {o.state, "IDLE", "FAILED"}
  BY <1>2, DisconnectedShape
<1>5. PairingCall(Live) /\ orch'.state # "ROLLBACK" /\ orch'.currentStep <= 1
  BY <1>1, <1>3, <1>4 DEF PairingCall, SameProgress, o
<1>6. QED
  BY <1>4, <1>5, RecordedInv DEF Kept, o

\* onSasConfirmed() marks the role's confirmation while the session is in
\* PAIRING, and brings it to PREFLIGHT with both of them.
LEMMA SasCall ==
  ASSUME ManagerOK, NEW role \in Roles, OnSasConfirmed(Live, role), Recorded
  PROVE  /\ Kept
         /\ orch'.agents = Live.agents
         /\ orch'.sas = IF Live.state = "PAIRING" THEN [Live.sas EXCEPT ![role] = TRUE]
                                                  ELSE Live.sas
         /\ orch'.state = "PREFLIGHT" =>
              Live.state = "PREFLIGHT" \/ \A r \in Roles : orch'.sas[r]
<1>1. /\ Live \in Orchestrators /\ Live.state # "ROLLBACK" /\ Live.currentStep <= 1
  BY LiveIs
<1> DEFINE o == Live
<1> HIDE DEF o
<1>2. o \in Orchestrators /\ OnSasConfirmed(o, role)
  BY <1>1 DEF o
<1>3. Silent(o) \/ Changes(o)
  BY <1>2, SasSays
<1>4. /\ orch' \in Orchestrators /\ SameProgress(o)
      /\ orch'.agents = o.agents
      /\ orch'.sas = IF o.state = "PAIRING" THEN [o.sas EXCEPT ![role] = TRUE] ELSE o.sas
      /\ \/ orch'.state = o.state
         \/ orch'.state = "PREFLIGHT" /\ \A r \in Roles : orch'.sas[r]
  BY <1>2, SasShape
<1>5. PairingCall(Live) /\ orch'.state # "ROLLBACK" /\ orch'.currentStep <= 1
  BY <1>1, <1>3, <1>4 DEF PairingCall, SameProgress, o
<1>6. QED
  BY <1>4, <1>5, RecordedInv DEF Kept, o

\* onPreflightResult() leaves presence and confirmations alone.
LEMMA PreflightCall ==
  ASSUME ManagerOK, NEW role \in Roles, NEW verdict \in Verdicts,
         OnPreflightResult(Live, role, verdict), Recorded
  PROVE  /\ Kept
         /\ orch'.agents = Live.agents /\ orch'.sas = Live.sas
         /\ orch'.state = "PREFLIGHT" => Live.state = "PREFLIGHT"
<1>1. /\ Live \in Orchestrators /\ Live.state # "ROLLBACK" /\ Live.currentStep <= 1
  BY LiveIs
<1> DEFINE o == Live
<1> HIDE DEF o
<1>2. o \in Orchestrators /\ OnPreflightResult(o, role, verdict)
  BY <1>1 DEF o
<1>3. Silent(o) \/ Changes(o) \/ FailsNow(o, << >>)
  BY <1>2, PreflightSays
<1>4. /\ orch' \in Orchestrators /\ SameProgress(o)
      /\ orch'.agents = o.agents /\ orch'.sas = o.sas
      /\ \/ o.state # "PREFLIGHT" /\ orch'.state = o.state
         \/ o.state = "PREFLIGHT" /\ orch'.state \in {"PREFLIGHT", "FAILED", "AWAITING_WINDOW"}
  BY <1>2, PreflightShape DEF Unchanged, SameProgress, SamePairing
<1>5. PairingCall(Live) /\ orch'.state # "ROLLBACK" /\ orch'.currentStep <= 1
  BY <1>1, <1>3, <1>4 DEF PairingCall, SameProgress, o
<1>6. QED
  BY <1>4, <1>5, RecordedInv DEF Kept, o

\* startMigration() in the right state leaves presence and confirmations alone.
LEMMA StartCall ==
  ASSUME ManagerOK, Live.state = "AWAITING_WINDOW", StartMigration(Live), Recorded
  PROVE  /\ Kept
         /\ orch'.agents = Live.agents /\ orch'.sas = Live.sas
         /\ orch'.state # "PREFLIGHT"
<1>1. /\ Live \in Orchestrators /\ Live.state # "ROLLBACK" /\ Live.currentStep <= 1
  BY LiveIs
<1> DEFINE o == Live
<1> HIDE DEF o
<1>2. o \in Orchestrators /\ o.state = "AWAITING_WINDOW" /\ StartMigration(o)
  BY <1>1 DEF o
<1>3. Starts(o)
  BY <1>2, StartSays
<1>4. /\ orch' \in Orchestrators /\ SamePairing(o)
      /\ orch'.currentStep = 1 /\ orch'.state = "MIGRATING"
  BY <1>2, StartShape
<1>5. PairingCall(Live) /\ orch'.state # "ROLLBACK" /\ orch'.currentStep <= 1
  BY <1>1, <1>3, <1>4 DEF PairingCall, o
<1>6. QED
  BY <1>4, <1>5, RecordedInv DEF Kept, SamePairing, o

\* abort() leaves presence and confirmations alone.  Before the second step it
\* only fails the session.
LEMMA AbortCall ==
  ASSUME ManagerOK, Abort(Live)
  PROVE  /\ PairingCall(Live) /\ orch' \in Orchestrators
         /\ orch'.agents = Live.agents /\ orch'.sas = Live.sas
         /\ orch'.state \notin {"PREFLIGHT", "ROLLBACK"} /\ orch'.currentStep <= 1
<1>1. /\ Live \in Orchestrators /\ Live.state # "ROLLBACK" /\ Live.currentStep <= 1
  BY LiveIs
<1> DEFINE o == Live
<1> HIDE DEF o
<1>2. o \in Orchestrators /\ o.state # "ROLLBACK" /\ o.currentStep <= 1 /\ Abort(o)
  BY <1>1 DEF o
<1>3. o.currentStep \in 0 .. TotalSteps
  BY <1>2 DEF Orchestrators
<1>4. Silent(o) \/ FailsNow(o, << >>)
  BY <1>2, <1>3, AbortSays
<1>5. \/ o.state \in Terminal /\ Unchanged(o)
      \/ o.state \notin Terminal /\ Moved(o, "FAILED")
  BY <1>2, AbortShape
<1>6. QED
  BY <1>2, <1>4, <1>5 DEF PairingCall, Unchanged, Moved, SamePairing, SameProgress, o

-----------------------------------------------------------------------------
(* Sockets, queues and parts of the invariant that a step does not touch.  *)

\* What the hub sends joins the queues of open registered sockets.
LEMMA DeliverInv ==
  ASSUME DownOK, NEW where, NEW messages,
         \A r \in Roles : messages[r] \in Seq(ToAgentOf(r)), Deliver(where, messages)
  PROVE  DownOK'
<1>1. down' = [s \in Sockets |->
                 IF sock[s] = "open" /\ \E r \in Roles : where[r] = s
                 THEN down[s] \o messages[RoleOf(AgentOf(s))] ELSE down[s]]
  BY DEF Deliver
<1>2. ASSUME NEW s \in Sockets PROVE down'[s] \in Seq(ToAgentOf(RoleOf(AgentOf(s))))
  <2> DEFINE R == RoleOf(AgentOf(s))
  <2>1. R \in Roles
    BY Names
  <2> HIDE DEF R
  <2>2. down[s] \in Seq(ToAgentOf(R)) /\ messages[R] \in Seq(ToAgentOf(R))
    BY <2>1 DEF DownOK, R
  <2>3. down[s] \o messages[R] \in Seq(ToAgentOf(R))
    BY <2>2, ConcatProperties
  <2>4. down'[s] \in {down[s], down[s] \o messages[R]}
    BY <1>1 DEF R
  <2>5. QED
    BY <2>2, <2>3, <2>4 DEF R
<1>3. DOMAIN down' = Sockets
  BY <1>1
<1>4. QED
  BY <1>2, <1>3 DEF DownOK

\* A message the hub takes is one its agent may send; the rest stays.
LEMMA TakesInv ==
  ASSUME UpOK, NEW s \in Sockets, NEW type, Takes(s, type), peer' = peer
  PROVE  /\ UpOK'
         /\ Head(up[s]) \in FromAgent(AgentOf(s)) /\ Head(up[s]).type = type
<1>1. up[s] \in Seq(FromAgent(AgentOf(s))) /\ up[s] # << >> /\ Head(up[s]).type = type
  BY DEF UpOK, Takes
<1>2. Head(up[s]) \in FromAgent(AgentOf(s)) /\ Tail(up[s]) \in Seq(FromAgent(AgentOf(s)))
  BY <1>1, HeadTailProperties
<1>3. up' = [up EXCEPT ![s] = Tail(up[s])]
  BY DEF Takes
<1>4. \A a : FromAgent(a)' = FromAgent(a)
  BY DEF FromAgent, Mutual
<1>5. UpOK'
  BY <1>2, <1>3, <1>4 DEF UpOK
<1>6. QED
  BY <1>1, <1>2, <1>5

\* A step that neither opens the checklist nor tells an agent of a cancellation.
NoneCancelled ==
  \A s \in Sockets : Len(down'[s]) > Len(down[s]) =>
                       down'[s][Len(down'[s])].type # "session_cancelled"

Plain == (orch'.state = "PREFLIGHT" => orch.state = "PREFLIGHT") /\ NoneCancelled

\* What the hub sends but for a cancellation ends in none.
LEMMA CallsSent ==
  ASSUME DownOK, NEW where, NEW messages,
         \A r \in Roles : messages[r] \in Seq(Calls(r)), Deliver(where, messages)
  PROVE  DownOK' /\ NoneCancelled
<1>1. down' = [s \in Sockets |->
                 IF sock[s] = "open" /\ \E r \in Roles : where[r] = s
                 THEN down[s] \o messages[RoleOf(AgentOf(s))] ELSE down[s]]
  BY DEF Deliver
<1>2. \A r \in Roles : messages[r] \in Seq(ToAgentOf(r))
  <2>1. \A r \in Roles : Calls(r) \subseteq ToAgentOf(r)
    BY Kinds
  <2>2. QED
    BY <2>1, SeqMonotonic
<1>3. ASSUME NEW s \in Sockets, Len(down'[s]) > Len(down[s])
      PROVE  down'[s][Len(down'[s])].type # "session_cancelled"
  <2> DEFINE R == RoleOf(AgentOf(s))
             q == down[s]
             m == messages[R]
  <2>1. R \in Roles
    BY Names
  <2>2. q \in Seq(ToAgentOf(R)) /\ m \in Seq(Calls(R)) /\ m \in Seq(ToAgentOf(R))
    BY <1>2, <2>1 DEF DownOK
  <2>3. down'[s] \in {q, q \o m}
    BY <1>1
  <2>4. Len(down'[s]) > Len(q)
    BY <1>3
  <2>5. \A x \in Calls(R) : x.type # "session_cancelled"
    BY <2>1, Kinds
  <2> HIDE DEF R, q, m
  <2>6. Len(q) \in Nat /\ Len(m) \in Nat
    BY <2>2, LenProperties
  <2>7. down'[s] = q \o m
    BY <2>3, <2>4, <2>6
  <2>8. /\ Len(q \o m) = Len(q) + Len(m)
        /\ \A i \in 1 .. Len(q) + Len(m) :
             (q \o m)[i] = IF i <= Len(q) THEN q[i] ELSE m[i - Len(q)]
    BY <2>2, ConcatProperties
  <2>9. Len(m) > 0
    BY <2>4, <2>6, <2>7, <2>8
  <2>10. (q \o m)[Len(q \o m)] = m[Len(m)]
    BY <2>6, <2>8, <2>9
  <2>11. m[Len(m)] \in Calls(R)
    BY <2>2, <2>6, <2>9, ElementOfSeq
  <2>12. QED
    BY <2>5, <2>7, <2>10, <2>11
<1>4. DownOK'
  BY <1>2, DeliverInv
<1>5. QED
  BY <1>3, <1>4 DEF NoneCancelled

\* The orders of a call may be sent.
LEMMA OrdersSent ==
  ASSUME DownOK, NEW where, \A r \in Roles : MessagesTo(r, emitted') \in Seq(Orders),
         Deliver(where, [r \in Roles |-> MessagesTo(r, emitted')])
  PROVE  DownOK' /\ NoneCancelled
<1> DEFINE messages == [r \in Roles |-> MessagesTo(r, emitted')]
<1>1. \A r \in Roles : Orders \subseteq Calls(r)
  BY Kinds
<1>2. \A r \in Roles : MessagesTo(r, emitted') \in Seq(Calls(r))
  BY <1>1, SeqMonotonic
<1>3. \A r \in Roles : messages[r] \in Seq(Calls(r))
  BY <1>2
<1>4. Deliver(where, messages)
  OBVIOUS
<1> HIDE DEF messages
<1>5. QED
  BY <1>3, <1>4, CallsSent

\* Parts of the invariant whose variables a step leaves alone.
LEMMA Frames ==
  /\ ManagerOK /\ orch' = orch /\ emitted' = << >> /\ UNCHANGED manager => ManagerOK'
  /\ PeopleOK /\ UNCHANGED people => PeopleOK'
  /\ UpOK /\ UNCHANGED <<up, peer>> => UpOK'
  /\ DownOK /\ UNCHANGED down => DownOK'
  /\ ConsentOK /\ UNCHANGED <<orch, alive, counted, peer>> => ConsentOK'
  /\ RoomOK /\ UNCHANGED <<room, sock, greeted>> => RoomOK'
  /\ PresentIsRegistered /\ UNCHANGED <<alive, orch, registered>> => PresentIsRegistered'
<1>1. << >> \in Seq(Events)
  OBVIOUS
<1>2. ManagerOK /\ orch' = orch /\ emitted' = << >> /\ UNCHANGED manager => ManagerOK'
  BY <1>1 DEF ManagerOK, RowLagsOnlyAfterRevival, manager
<1>3. PeopleOK /\ UNCHANGED people => PeopleOK'
  BY DEF PeopleOK, people
<1>4. UpOK /\ UNCHANGED <<up, peer>> => UpOK'
  BY DEF UpOK, FromAgent, Mutual
<1>5. DownOK /\ UNCHANGED down => DownOK'
  BY DEF DownOK
<1>6. ConsentOK /\ UNCHANGED <<orch, alive, counted, peer>> => ConsentOK'
  BY DEF ConsentOK, Mutual
<1>7. RoomOK /\ UNCHANGED <<room, sock, greeted>> => RoomOK'
  BY DEF RoomOK, room, IsOpen
<1>8. PresentIsRegistered /\ UNCHANGED <<alive, orch, registered>> => PresentIsRegistered'
  BY DEF PresentIsRegistered
<1>9. QED
  BY <1>2, <1>3, <1>4, <1>5, <1>6, <1>7, <1>8

\* A queue that is left alone, or loses its head or all it holds, ends in no
\* new cancellation.
LEMMA DownStays ==
  ASSUME DownOK,
         \A s \in Sockets : down'[s] = down[s] \/ down'[s] = << >>
                              \/ (down[s] # << >> /\ down'[s] = Tail(down[s]))
  PROVE  NoneCancelled
<1>1. ASSUME NEW s \in Sockets PROVE ~(Len(down'[s]) > Len(down[s]))
  <2> DEFINE T == ToAgentOf(RoleOf(AgentOf(s)))
             q == down[s]
             p == down'[s]
  <2>1. q \in Seq(T) /\ (p = q \/ p = << >> \/ (q # << >> /\ p = Tail(q)))
    BY DEF DownOK
  <2> HIDE DEF T, q, p
  <2>2. Len(q) \in Nat /\ Len(<< >>) = 0
    BY <2>1, LenProperties
  <2>3. q # << >> => Len(Tail(q)) = Len(q) - 1
    BY <2>1, HeadTailProperties
  <2>4. ~(Len(p) > Len(q))
    BY <2>1, <2>2, <2>3
  <2>5. QED
    BY <2>4 DEF p, q
<1>2. QED
  BY <1>1 DEF NoneCancelled

\* Presence and consent of the orchestrator that a handler works on.
LEMMA LiveAgrees ==
  ASSUME ManagerOK, PresentIsRegistered, ConsentOK
  PROVE  \A r \in Roles :
           /\ Live.agents[r] => registered[r] # NoSocket
           /\ Live.sas[r] => counted[r] \in AgentsOf(r) /\ Mutual(counted[r])
  BY LiveIs DEF PresentIsRegistered, ConsentOK, ManagerOK

\* A call that adds no presence and no confirmation keeps both agreements.
LEMMA AgreesStill ==
  ASSUME ManagerOK, PresentIsRegistered, ConsentOK, UNCHANGED <<registered, counted, peer>>,
         \A r \in Roles : /\ orch'.agents[r] => Live.agents[r]
                          /\ orch'.sas[r] => Live.sas[r]
  PROVE  PresentIsRegistered' /\ ConsentOK'
<1>1. \A r \in Roles :
        /\ orch'.agents[r] => registered[r] # NoSocket
        /\ orch'.sas[r] => counted[r] \in AgentsOf(r) /\ Mutual(counted[r])
  BY LiveAgrees
<1>2. QED
  BY <1>1 DEF PresentIsRegistered, ConsentOK, Mutual

-----------------------------------------------------------------------------
(* The socket handler keeps the invariant.                                 *)

\* A refused hello only starts to close the socket, which was never greeted
\* while another holds the role.
LEMMA HelloRefusedInv ==
  ASSUME IInv, NEW s \in Sockets, HelloRefused(s), UNCHANGED counted
  PROVE  IInv' /\ Plain
<1>1. /\ ManagerOK /\ RoomOK /\ PresentIsRegistered
      /\ PeopleOK /\ UpOK /\ DownOK /\ ConsentOK
  BY DEF IInv
<1>2. /\ Takes(s, "hello") /\ sock' = [sock EXCEPT ![s] = "closing"] /\ NoCall
      /\ UNCHANGED <<room, greeted, down, people>>
  BY DEF HelloRefused
<1>3. peer' = peer /\ UNCHANGED <<registered, pubkey>> /\ UNCHANGED <<orch, alive>>
  BY <1>2 DEF people, room, NoCall
<1>4. ManagerOK'
  BY <1>1, <1>2, Frames DEF NoCall, manager
<1>5. RoomOK'
  <2>1. \A x \in greeted : sock'[x] # "new" /\ (IsOpen(x)' => IsOpen(x))
    BY <1>1, <1>2 DEF RoomOK, IsOpen
  <2>2. QED
    BY <1>1, <1>2, <1>3, <2>1 DEF RoomOK
<1>6. IInv'
  BY <1>1, <1>2, <1>3, <1>4, <1>5, TakesInv, Frames DEF IInv
<1>7. QED
  BY <1>1, <1>2, <1>3, <1>6, DownStays DEF Plain

\* What an accepted hello does to the room: its socket is the one registered
\* for the role, and no other greeted socket of the role is open.
LEMMA HelloRoom ==
  ASSUME RoomOK, NEW s \in Sockets, IsOpen(s), RoleFree(s),
         registered' = [registered EXCEPT ![RoleOf(AgentOf(s))] = s],
         pubkey' = [pubkey EXCEPT ![RoleOf(AgentOf(s))] = AgentOf(s)],
         greeted' = greeted \cup {s}, sock' = sock
  PROVE  RoomOK'
<1> DEFINE role == RoleOf(AgentOf(s))
<1>1. role \in Roles /\ AgentOf(s) \in Agents /\ s # NoSocket /\ AgentOf(s) = s[1]
  BY Names
<1>2. registered' \in [Roles -> Sockets \cup {NoSocket}] /\ pubkey' \in [Roles -> Agents \cup {None}]
  BY <1>1 DEF RoomOK
<1>3. ASSUME NEW r \in Roles
      PROVE  /\ registered'[r] # NoSocket => RoleOf(AgentOf(registered'[r])) = r
             /\ pubkey'[r] = registered'[r][1]
  BY <1>1 DEF RoomOK
<1>4. ASSUME NEW x \in greeted'
      PROVE  sock'[x] # "new" /\ (IsOpen(x)' => registered'[RoleOf(AgentOf(x))] = x)
  <2>1. IsOpen(x)' <=> IsOpen(x)
    BY DEF IsOpen
  <2>2. RoleOf(AgentOf(x)) \in Roles
    BY Names
  <2>3. CASE x = s
    BY <1>1, <2>2, <2>3 DEF IsOpen, RoomOK
  <2>4. CASE x # s
    <3>1. x \in greeted /\ sock[x] # "new"
      BY <2>4, <1>4 DEF RoomOK
    <3>2. IsOpen(x) => registered[RoleOf(AgentOf(x))] = x
      BY <3>1 DEF RoomOK
    <3>3. IsOpen(x) => RoleOf(AgentOf(x)) # role
      BY <2>4, <3>2 DEF RoleFree
    <3>4. QED
      BY <1>1, <2>1, <2>2, <3>1, <3>2, <3>3 DEF RoomOK
  <2>5. QED
    BY <2>3, <2>4
<1>5. QED
  BY <1>2, <1>3, <1>4 DEF RoomOK

\* What is sent after a hello: the call's orders and, with both keys on
\* record, to each role the key of the other.
LEMMA HelloSends ==
  ASSUME RoomOK', NEW events, \A r \in Roles : MessagesTo(r, events) \in Seq(Orders),
         NEW keys, keys = pubkey', NEW complete \in BOOLEAN,
         complete => \A r \in Roles : keys[r] # None
  PROVE  \A r \in Roles :
           MessagesTo(r, events) \o (IF complete THEN <<PeerConnected(keys[Peer(r)])>> ELSE << >>)
             \in Seq(Calls(r))
<1> TAKE r \in Roles
<1> DEFINE m == MessagesTo(r, events)
           p == IF complete THEN <<PeerConnected(keys[Peer(r)])>> ELSE << >>
<1>1. Peer(r) \in Roles
  BY DEF Peer
<1>2. m \in Seq(Calls(r))
  <2>1. Orders \subseteq Calls(r)
    BY Kinds
  <2>2. QED
    BY <2>1, SeqMonotonic
<1>3. complete => keys[Peer(r)] \in AgentsOf(Peer(r))
  <2>1. ASSUME complete PROVE keys[Peer(r)] \in AgentsOf(Peer(r))
    <3>1. keys[Peer(r)] \in Agents /\ keys[Peer(r)] = registered'[Peer(r)][1]
      BY <1>1, <2>1 DEF RoomOK
    <3>2. registered'[Peer(r)] # NoSocket
      BY <3>1, Names
    <3>3. RoleOf(AgentOf(registered'[Peer(r)])) = Peer(r)
      BY <1>1, <3>2 DEF RoomOK
    <3>4. QED
      BY <3>1, <3>3, Names DEF AgentsOf
  <2>2. QED
    BY <2>1
<1>4. p \in Seq(Calls(r))
  <2>1. \A a \in AgentsOf(Peer(r)) : PeerConnected(a) \in Calls(r)
    BY Kinds
  <2>2. QED
    BY <1>3, <2>1
<1> HIDE DEF m, p
<1>5. m \o p \in Seq(Calls(r))
  BY <1>2, <1>4, ConcatProperties
<1>6. QED
  BY <1>5 DEF m, p

\* An accepted hello.
LEMMA HelloInv ==
  ASSUME IInv, NEW s \in Sockets, Hello(s), UNCHANGED counted
  PROVE  IInv' /\ Plain
<1> DEFINE role == RoleOf(AgentOf(s))
           keys == [pubkey EXCEPT ![role] = AgentOf(s)]
           complete == \A r \in Roles : keys[r] # None
           messages == [r \in Roles |-> MessagesTo(r, emitted')
                         \o IF complete THEN <<PeerConnected(keys[Peer(r)])>> ELSE << >>]
<1>1. /\ ManagerOK /\ RoomOK /\ PresentIsRegistered
      /\ PeopleOK /\ UpOK /\ DownOK /\ ConsentOK
  BY DEF IInv
<1>2. /\ Takes(s, "hello") /\ RoleFree(s)
      /\ registered' = [registered EXCEPT ![role] = s]
      /\ pubkey' = keys /\ greeted' = greeted \cup {s}
      /\ OnAgentConnected(Live, role) /\ Recorded
      /\ Deliver(registered', messages) /\ UNCHANGED <<sock, people>>
  BY DEF Hello
<1>3. role \in Roles /\ s # NoSocket
  BY Names
<1>4. peer' = peer /\ sock' = sock /\ IsOpen(s)
  BY <1>2 DEF people, Takes
<1>5. /\ Kept
      /\ orch'.agents = [Live.agents EXCEPT ![role] = TRUE] /\ orch'.sas = Live.sas
      /\ orch'.state = "PREFLIGHT" => Live.state = "PREFLIGHT"
  BY <1>1, <1>2, <1>3, ConnectedCall
<1>6. RoomOK'
  BY <1>1, <1>2, <1>4, HelloRoom
<1>7. PresentIsRegistered' /\ ConsentOK'
  <2>1. \A r \in Roles :
          /\ Live.agents[r] => registered[r] # NoSocket
          /\ Live.sas[r] => counted[r] \in AgentsOf(r) /\ Mutual(counted[r])
    BY <1>1, LiveAgrees
  <2>2. Live \in Orchestrators
    BY <1>1, LiveIs
  <2>3. \A r \in Roles : orch'.agents[r] => registered'[r] # NoSocket
    BY <1>1, <1>2, <1>3, <1>5, <2>1, <2>2 DEF RoomOK, Orchestrators
  <2>4. QED
    BY <1>1, <1>4, <1>5, <2>1, <2>3 DEF PresentIsRegistered, ConsentOK, Mutual
<1>8. \A r \in Roles : messages[r] \in Seq(Calls(r))
  <2>1. \A r \in Roles : MessagesTo(r, emitted') \in Seq(Orders)
    BY <1>5 DEF Kept
  <2>2. complete \in BOOLEAN /\ (complete => \A r \in Roles : keys[r] # None)
    OBVIOUS
  <2> DEFINE c == complete
             k == keys
  <2>3. k = pubkey' /\ c \in BOOLEAN /\ (c => \A r \in Roles : k[r] # None)
    BY <1>2, <2>2
  <2>4. messages = [r \in Roles |-> MessagesTo(r, emitted')
                      \o IF c THEN <<PeerConnected(k[Peer(r)])>> ELSE << >>]
    OBVIOUS
  <2> HIDE DEF c, k, complete, keys, messages
  <2>5. \A r \in Roles :
          MessagesTo(r, emitted') \o (IF c THEN <<PeerConnected(k[Peer(r)])>> ELSE << >>)
            \in Seq(Calls(r))
    BY <1>6, <2>1, <2>3, HelloSends
  <2>6. QED
    BY <2>4, <2>5
<1> HIDE DEF messages, keys, complete
<1>9. DownOK' /\ NoneCancelled
  BY <1>1, <1>2, <1>8, CallsSent
<1>10. UpOK' /\ PeopleOK'
  BY <1>1, <1>2, <1>4, TakesInv, Frames
<1>11. IInv'
  BY <1>5, <1>6, <1>7, <1>9, <1>10 DEF IInv, Kept
<1>12. orch'.state = "PREFLIGHT" => orch.state = "PREFLIGHT"
  BY <1>1, <1>5, LiveIs
<1>13. QED
  BY <1>9, <1>11, <1>12 DEF Plain

\* A confirmation that is taken was given by an agent that holds the key of
\* one that holds its own; it may complete the pair and open the checklist.
LEMMA SasInv ==
  ASSUME IInv, NEW s \in Sockets, HandleSasConfirmed(s)
  PROVE  /\ IInv' /\ NoneCancelled /\ peer' = peer
         /\ (orch'.state = "PREFLIGHT" /\ orch.state # "PREFLIGHT") =>
              \A r \in Roles : counted'[r] \in AgentsOf(r) /\ Mutual(counted'[r])
<1> DEFINE role == RoleOf(AgentOf(s))
<1>1. /\ ManagerOK /\ RoomOK /\ PresentIsRegistered
      /\ PeopleOK /\ UpOK /\ DownOK /\ ConsentOK
  BY DEF IInv
<1>2. /\ Takes(s, "sas_confirmed") /\ s \in greeted
      /\ OnSasConfirmed(Live, role) /\ Recorded /\ DeliverEmitted
      /\ counted' = IF Live.state = "PAIRING"
                    THEN [counted EXCEPT ![role] = AgentOf(s)] ELSE counted
      /\ UNCHANGED <<room, sock, greeted, people>>
  BY DEF HandleSasConfirmed
<1>3. role \in Roles /\ AgentOf(s) \in Agents /\ AgentOf(s) \in AgentsOf(role)
  BY Names DEF AgentsOf
<1>4. peer' = peer /\ registered' = registered /\ \A a : Mutual(a)' <=> Mutual(a)
  BY <1>2 DEF people, room, Mutual
<1>5. /\ Kept /\ orch'.agents = Live.agents
      /\ orch'.sas = IF Live.state = "PAIRING" THEN [Live.sas EXCEPT ![role] = TRUE]
                                               ELSE Live.sas
      /\ orch'.state = "PREFLIGHT" =>
           Live.state = "PREFLIGHT" \/ \A r \in Roles : orch'.sas[r]
  BY <1>1, <1>2, <1>3, SasCall
<1>6. Mutual(AgentOf(s)) /\ UpOK'
  <2>1. /\ UpOK' /\ Head(up[s]) \in FromAgent(AgentOf(s))
        /\ Head(up[s]).type = "sas_confirmed"
    BY <1>1, <1>2, <1>4, TakesInv
  <2>2. Mutual(AgentOf(s))
    BY <2>1, Kinds DEF FromAgent
  <2>3. QED
    BY <2>1, <2>2
<1>7. /\ counted' \in [Roles -> Agents \cup {None}]
      /\ \A r \in Roles : orch'.sas[r] => counted'[r] \in AgentsOf(r) /\ Mutual(counted'[r])
  <2>1. \A r \in Roles : Live.sas[r] => counted[r] \in AgentsOf(r) /\ Mutual(counted[r])
    BY <1>1, LiveAgrees
  <2>2. Live \in Orchestrators /\ counted \in [Roles -> Agents \cup {None}]
    BY <1>1, LiveIs DEF ConsentOK
  <2>3. CASE Live.state # "PAIRING"
    BY <1>2, <1>5, <2>1, <2>2, <2>3
  <2>4. CASE Live.state = "PAIRING"
    <3>1. counted' = [counted EXCEPT ![role] = AgentOf(s)]
      BY <1>2, <2>4
    <3>2. orch'.sas = [Live.sas EXCEPT ![role] = TRUE]
      BY <1>5, <2>4
    <3>3. ASSUME NEW r \in Roles, r # role
          PROVE  counted'[r] = counted[r] /\ orch'.sas[r] = Live.sas[r]
      BY <2>2, <3>1, <3>2, <3>3 DEF Orchestrators
    <3>4. counted'[role] = AgentOf(s)
      BY <1>3, <2>2, <3>1
    <3>5. counted' \in [Roles -> Agents \cup {None}]
      BY <1>3, <2>2, <3>1
    <3>6. QED
      BY <1>3, <1>6, <2>1, <3>3, <3>4, <3>5
  <2>5. QED
    BY <2>3, <2>4
<1>8. ConsentOK'
  BY <1>4, <1>7 DEF ConsentOK
<1>9. PresentIsRegistered'
  BY <1>1, <1>4, <1>5, LiveAgrees DEF PresentIsRegistered
<1>10. DownOK' /\ NoneCancelled
  BY <1>1, <1>2, <1>5, OrdersSent DEF DeliverEmitted, Kept
<1>11. RoomOK' /\ PeopleOK'
  BY <1>1, <1>2, Frames
<1>12. (orch'.state = "PREFLIGHT" /\ orch.state # "PREFLIGHT") => \A r \in Roles : orch'.sas[r]
  BY <1>1, <1>5, LiveIs
<1>13. QED
  BY <1>4, <1>5, <1>6, <1>7, <1>8, <1>9, <1>10, <1>11, <1>12 DEF IInv, Kept

\* A checklist's report.
LEMMA PreflightInv ==
  ASSUME IInv, NEW s \in Sockets, HandlePreflightResult(s), UNCHANGED counted
  PROVE  IInv' /\ Plain
<1> DEFINE role == RoleOf(AgentOf(s))
           verdict == Head(up[s]).verdict
<1>1. /\ ManagerOK /\ RoomOK /\ PresentIsRegistered
      /\ PeopleOK /\ UpOK /\ DownOK /\ ConsentOK
  BY DEF IInv
<1>2. /\ Takes(s, "preflight_result")
      /\ OnPreflightResult(Live, role, verdict) /\ Recorded /\ DeliverEmitted
      /\ UNCHANGED <<room, sock, greeted, people>>
  BY DEF HandlePreflightResult
<1>3. peer' = peer /\ registered' = registered /\ role \in Roles
  BY <1>2, Names DEF people, room
<1>4. UpOK' /\ Head(up[s]) \in FromAgent(AgentOf(s)) /\ Head(up[s]).type = "preflight_result"
  BY <1>1, <1>2, <1>3, TakesInv
<1>5. verdict \in Verdicts
  BY <1>4, Kinds DEF FromAgent
<1>6. /\ Kept /\ orch'.agents = Live.agents /\ orch'.sas = Live.sas
      /\ orch'.state = "PREFLIGHT" => Live.state = "PREFLIGHT"
  <2> HIDE DEF role, verdict
  <2>1. QED
    BY <1>1, <1>2, <1>3, <1>5, PreflightCall
<1>7. PresentIsRegistered' /\ ConsentOK'
  BY <1>1, <1>3, <1>6, AgreesStill
<1>8. DownOK' /\ NoneCancelled
  BY <1>1, <1>2, <1>6, OrdersSent DEF DeliverEmitted, Kept
<1>9. RoomOK' /\ PeopleOK'
  BY <1>1, <1>2, Frames
<1>10. orch'.state = "PREFLIGHT" => orch.state = "PREFLIGHT"
  BY <1>1, <1>6, LiveIs
<1>11. QED
  BY <1>4, <1>6, <1>7, <1>8, <1>9, <1>10 DEF IInv, Kept, Plain

\* Nothing is sent for a call that was not made.
LEMMA NothingSent ==
  ASSUME emitted' = << >>
  PROVE  \A r \in Roles : MessagesTo(r, emitted') \in Seq(Orders)
<1>1. << >> \in Seq(Muted) /\ << >> \in Seq(Orders)
  OBVIOUS
<1>2. QED
  BY <1>1, MutedMessages

\* A closing socket leaves the room if it is the one registered, and the
\* others as they were.
LEMMA GoneRoom ==
  ASSUME RoomOK, NEW s \in Sockets, sock' = [sock EXCEPT ![s] = sock'[s]],
         sock'[s] \in {"closing", "closed"}, greeted' = greeted,
         LET role == RoleOf(AgentOf(s)) IN
           \/ s \notin greeted /\ UNCHANGED room
           \/ registered[role] # s /\ UNCHANGED room
           \/ /\ registered[role] = s
              /\ registered' = [registered EXCEPT ![role] = NoSocket]
              /\ pubkey' = [pubkey EXCEPT ![role] = None]
  PROVE  RoomOK'
<1> DEFINE role == RoleOf(AgentOf(s))
<1>1. role \in Roles /\ NoSocket[1] = None /\ \A x \in Sockets : RoleOf(AgentOf(x)) \in Roles
  BY Names
<1>2. /\ sock' \in [Sockets -> {"new", "open", "cut", "closing", "closed"}]
      /\ \A x \in Sockets : x # s => sock'[x] = sock[x]
  BY DEF RoomOK
<1>3. \A x \in greeted : sock'[x] # "new" /\ (IsOpen(x)' => IsOpen(x) /\ x # s)
  BY <1>2 DEF RoomOK, IsOpen
<1>4. CASE UNCHANGED room
  BY <1>2, <1>3, <1>4 DEF RoomOK, room
<1>5. CASE /\ registered[role] = s
           /\ registered' = [registered EXCEPT ![role] = NoSocket]
           /\ pubkey' = [pubkey EXCEPT ![role] = None]
  <2>1. /\ registered' \in [Roles -> Sockets \cup {NoSocket}]
        /\ pubkey' \in [Roles -> Agents \cup {None}]
    BY <1>5 DEF RoomOK
  <2>2. registered'[role] = NoSocket /\ pubkey'[role] = None
    BY <1>1, <1>5 DEF RoomOK
  <2>3. \A r \in Roles : r # role => registered'[r] = registered[r] /\ pubkey'[r] = pubkey[r]
    BY <1>5 DEF RoomOK
  <2>4. \A r \in Roles : /\ registered'[r] # NoSocket => RoleOf(AgentOf(registered'[r])) = r
                         /\ pubkey'[r] = registered'[r][1]
    BY <1>1, <2>2, <2>3 DEF RoomOK
  <2>5. ASSUME NEW x \in greeted, IsOpen(x)'
        PROVE  registered'[RoleOf(AgentOf(x))] = x
    <3>1. x # s /\ registered[RoleOf(AgentOf(x))] = x /\ x \in Sockets
      BY <1>3, <2>5 DEF RoomOK
    <3>2. RoleOf(AgentOf(x)) # role
      BY <1>5, <3>1
    <3>3. QED
      BY <1>1, <2>3, <3>1, <3>2
  <2>6. QED
    BY <1>2, <1>3, <2>1, <2>4, <2>5 DEF RoomOK
<1>6. QED
  BY <1>4, <1>5

\* onGone(), on an error or a close: what is left of the room, the
\* orchestrator told or not, agrees as before.
LEMMA GoneInv ==
  ASSUME IInv, NEW s \in Sockets, OnGone(s),
         sock' = [sock EXCEPT ![s] = sock'[s]], sock'[s] \in {"closing", "closed"},
         Deliver(registered', [r \in Roles |-> MessagesTo(r, emitted')]),
         UNCHANGED <<greeted, up, people, counted>>
  PROVE  IInv' /\ Plain
<1> DEFINE role == RoleOf(AgentOf(s))
<1>1. /\ ManagerOK /\ RoomOK /\ PresentIsRegistered
      /\ PeopleOK /\ UpOK /\ DownOK /\ ConsentOK
  BY DEF IInv
<1>2. role \in Roles /\ peer' = peer /\ greeted' = greeted /\ counted' = counted
  BY Names DEF people
<1>3. UpOK' /\ PeopleOK'
  BY <1>1, <1>2, Frames
<1>4. CASE s \notin greeted
  <2>1. NoCall /\ UNCHANGED room
    BY <1>4 DEF OnGone
  <2>2. RoomOK'
    BY <1>1, <1>2, <1>4, <2>1, GoneRoom
  <2>3. /\ orch' = orch /\ emitted' = << >> /\ UNCHANGED manager /\ alive' = alive
        /\ registered' = registered
    BY <2>1 DEF NoCall, manager, room
  <2>4. DownOK' /\ NoneCancelled
    BY <1>1, <2>3, NothingSent, OrdersSent
  <2>5. ManagerOK' /\ PresentIsRegistered' /\ ConsentOK'
    BY <1>1, <1>2, <2>3, Frames
  <2>6. QED
    BY <1>3, <2>2, <2>3, <2>4, <2>5 DEF IInv, Plain
<1>5. CASE s \in greeted
  <2>1. /\ registered' = IF registered[role] = s THEN [registered EXCEPT ![role] = NoSocket]
                                                 ELSE registered
        /\ pubkey' = IF registered[role] = s THEN [pubkey EXCEPT ![role] = None] ELSE pubkey
        /\ OnAgentDisconnected(Live, role) /\ Recorded
    BY <1>5 DEF OnGone
  <2>2. RoomOK'
    BY <1>1, <1>2, <2>1, GoneRoom DEF room
  <2>3. /\ Kept /\ orch'.agents = [Live.agents EXCEPT ![role] = FALSE]
        /\ \A r \in Roles : orch'.sas[r] => Live.sas[r]
        /\ orch'.state = "PREFLIGHT" => Live.state = "PREFLIGHT"
    BY <1>1, <1>2, <2>1, DisconnectedCall
  <2>4. \A r \in Roles :
          /\ Live.agents[r] => registered[r] # NoSocket
          /\ Live.sas[r] => counted[r] \in AgentsOf(r) /\ Mutual(counted[r])
    BY <1>1, LiveAgrees
  <2>5. Live \in Orchestrators
    BY <1>1, LiveIs
  <2>6. ASSUME NEW r \in Roles, orch'.agents[r] PROVE registered'[r] # NoSocket
    <3>1. r # role /\ Live.agents[r]
      BY <1>2, <2>3, <2>5, <2>6 DEF Orchestrators
    <3>2. registered'[r] = registered[r]
      BY <1>1, <2>1, <3>1 DEF RoomOK
    <3>3. QED
      BY <2>4, <3>1, <3>2
  <2>7. PresentIsRegistered' /\ ConsentOK'
    BY <1>1, <1>2, <2>3, <2>4, <2>6 DEF PresentIsRegistered, ConsentOK, Mutual
  <2>8. DownOK' /\ NoneCancelled
    BY <1>1, <2>3, OrdersSent DEF Kept
  <2>9. orch'.state = "PREFLIGHT" => orch.state = "PREFLIGHT"
    BY <1>1, <2>3, LiveIs
  <2>10. QED
    BY <1>3, <2>2, <2>3, <2>7, <2>8, <2>9 DEF IInv, Kept, Plain
<1>6. QED
  BY <1>4, <1>5

\* The three ways in which the hub learns that a socket is going.
LEMMA ClosingInv ==
  ASSUME IInv, NEW s \in Sockets, UNCHANGED counted,
         SocketError(s) \/ SocketClosing(s) \/ SocketClosed(s)
  PROVE  IInv' /\ Plain
<1>1. sock \in [Sockets -> {"new", "open", "cut", "closing", "closed"}]
  BY DEF IInv, RoomOK
<1>2. CASE SocketError(s) \/ SocketClosed(s)
  <2>1. /\ \/ sock' = [sock EXCEPT ![s] = "closing"]
           \/ sock' = [sock EXCEPT ![s] = "closed"]
        /\ OnGone(s) /\ Deliver(registered', [r \in Roles |-> MessagesTo(r, emitted')])
        /\ UNCHANGED <<greeted, up, people>>
    BY <1>2 DEF SocketError, SocketClosed
  <2>2. sock' = [sock EXCEPT ![s] = sock'[s]] /\ sock'[s] \in {"closing", "closed"}
    BY <1>1, <2>1
  <2>3. QED
    BY <2>1, <2>2, GoneInv
<1>3. CASE SocketClosing(s)
  <2>1. /\ sock[s] = "cut" /\ sock' = [sock EXCEPT ![s] = "closing"] /\ NoCall
        /\ UNCHANGED <<room, greeted, up, down, people>>
    BY <1>3 DEF SocketClosing
  <2>2. /\ ManagerOK /\ RoomOK /\ PresentIsRegistered
        /\ PeopleOK /\ UpOK /\ DownOK /\ ConsentOK
    BY DEF IInv
  <2>3. /\ orch' = orch /\ emitted' = << >> /\ UNCHANGED manager /\ alive' = alive
        /\ UNCHANGED <<registered, pubkey, peer>>
    BY <2>1 DEF NoCall, manager, room, people
  <2>4. RoomOK'
    <3>1. \A x \in greeted : sock'[x] # "new" /\ (IsOpen(x)' => IsOpen(x))
      BY <2>1, <2>2 DEF RoomOK, IsOpen
    <3>2. QED
      BY <2>1, <2>2, <2>3, <3>1 DEF RoomOK
  <2>5. NoneCancelled
    BY <2>1, <2>2, DownStays
  <2>6. QED
    BY <2>1, <2>2, <2>3, <2>4, <2>5, Frames DEF IInv, Plain
<1>4. QED
  BY <1>2, <1>3

-----------------------------------------------------------------------------
(* Dashboards, the REST API and restarts keep the invariant.               *)

\* start_migration and abort_migration: a call that adds no presence and no
\* confirmation, whose orders are sent.
LEMMA DashboardInv ==
  ASSUME IInv, DashboardStart \/ DashboardAbort, UNCHANGED counted
  PROVE  IInv' /\ Plain
<1>1. /\ ManagerOK /\ RoomOK /\ PresentIsRegistered
      /\ PeopleOK /\ UpOK /\ DownOK /\ ConsentOK
  BY DEF IInv
<1>2. /\ DeliverEmitted /\ UNCHANGED <<room, sock, greeted, up, people>>
      /\ UNCHANGED <<registered, peer>>
  BY DEF DashboardStart, DashboardAbort, room, people
<1>3. /\ Kept /\ orch'.agents = Live.agents /\ orch'.sas = Live.sas
      /\ orch'.state # "PREFLIGHT"
  <2>1. CASE DashboardStart
    <3>1. Live.state = "AWAITING_WINDOW" /\ StartMigration(Live) /\ Recorded
      BY <2>1 DEF DashboardStart
    <3>2. QED
      BY <1>1, <3>1, StartCall
  <2>2. CASE DashboardAbort
    <3>1. Abort(Live) /\ Recorded
      BY <2>2 DEF DashboardAbort
    <3>2. /\ PairingCall(Live) /\ orch' \in Orchestrators
          /\ orch'.agents = Live.agents /\ orch'.sas = Live.sas
          /\ orch'.state \notin {"PREFLIGHT", "ROLLBACK"} /\ orch'.currentStep <= 1
      BY <1>1, <3>1, AbortCall
    <3>3. QED
      BY <1>1, <3>1, <3>2, RecordedInv DEF Kept
  <2>3. QED
    BY <2>1, <2>2
<1>4. PresentIsRegistered' /\ ConsentOK'
  BY <1>1, <1>2, <1>3, AgreesStill
<1>5. DownOK' /\ NoneCancelled
  BY <1>1, <1>2, <1>3, OrdersSent DEF DeliverEmitted, Kept
<1>6. RoomOK' /\ PeopleOK' /\ UpOK'
  BY <1>1, <1>2, Frames
<1>7. QED
  BY <1>3, <1>4, <1>5, <1>6 DEF IInv, Kept, Plain

\* DELETE /api/sessions/:id is the one step that tells agents of a
\* cancellation: the row it looks at and the orchestrator are both at most in
\* PAIRING.
LEMMA CancelInv ==
  ASSUME IInv, Cancel, UNCHANGED counted
  PROVE  /\ IInv' /\ Live.state \in {"IDLE", "PAIRING"}
         /\ orch'.state = "PREFLIGHT" => orch.state = "PREFLIGHT"
<1> DEFINE messages == [r \in Roles |-> MessagesTo(r, emitted')
                                          \o <<[type |-> "session_cancelled"]>>]
<1>1. /\ ManagerOK /\ RoomOK /\ PresentIsRegistered
      /\ PeopleOK /\ UpOK /\ DownOK /\ ConsentOK
  BY DEF IInv
<1>2. /\ row \in {"IDLE", "PAIRING"}
      /\ IF alive THEN Abort(orch) ELSE orch' = orch /\ emitted' = << >>
      /\ row' = "FAILED" /\ alive' = FALSE /\ UNCHANGED <<token, restarts>>
      /\ Deliver(registered, messages) /\ UNCHANGED <<room, sock, greeted, up, people>>
  BY DEF Cancel
<1>3. Live.state \in {"IDLE", "PAIRING"}
  BY <1>1, <1>2, LiveIs
<1>4. /\ orch' \in Orchestrators /\ emitted' \in Seq(Events)
      /\ \A r \in Roles : MessagesTo(r, emitted') \in Seq(Orders)
      /\ orch'.state = "PREFLIGHT" => orch.state = "PREFLIGHT"
  <2>1. CASE alive
    <3>1. Abort(Live)
      BY <1>1, <1>2, <2>1, LiveIs
    <3>2. PairingCall(Live) /\ orch' \in Orchestrators /\ orch'.state # "PREFLIGHT"
      BY <1>1, <3>1, AbortCall
    <3>3. Live \in Orchestrators
      BY <1>1, LiveIs
    <3> DEFINE o == Live
    <3> HIDE DEF o
    <3>4. emitted' \in Seq(Events) /\ \A r \in Roles : MessagesTo(r, emitted') \in Seq(Orders)
      <4>1. o \in Orchestrators /\ PairingCall(o)
        BY <3>2, <3>3 DEF o
      <4>2. QED
        BY <4>1, CallEffect
    <3>5. QED
      BY <3>2, <3>4
  <2>2. CASE ~alive
    <3>1. orch' = orch /\ emitted' = << >> /\ << >> \in Seq(Events)
      BY <1>2, <2>2
    <3>2. QED
      BY <1>1, <3>1, NothingSent DEF ManagerOK
  <2>3. QED
    BY <2>1, <2>2
<1>5. ManagerOK' /\ PresentIsRegistered'
  BY <1>1, <1>2, <1>4 DEF ManagerOK, RowLagsOnlyAfterRevival, PresentIsRegistered, States
<1>6. ConsentOK'
  BY <1>1, <1>2 DEF ConsentOK
<1>7. DownOK'
  <2>1. ASSUME NEW r \in Roles PROVE messages[r] \in Seq(ToAgentOf(r))
    <3> DEFINE m == MessagesTo(r, emitted')
    <3>1. Orders \subseteq ToAgentOf(r) /\ Cancelled \in ToAgentOf(r)
      BY Kinds
    <3>2. m \in Seq(ToAgentOf(r))
      BY <1>4, <3>1, SeqMonotonic
    <3>3. messages[r] = m \o <<Cancelled>>
      BY DEF Cancelled
    <3> HIDE DEF m, messages
    <3>4. <<Cancelled>> \in Seq(ToAgentOf(r))
      BY <3>1
    <3>5. QED
      BY <3>2, <3>3, <3>4, ConcatProperties
  <2> HIDE DEF messages
  <2>2. QED
    BY <1>1, <1>2, <2>1, DeliverInv
<1>8. RoomOK' /\ PeopleOK' /\ UpOK'
  <2>1. UNCHANGED peer
    BY <1>2 DEF people
  <2>2. QED
    BY <1>1, <1>2, <2>1, Frames
<1>9. QED
  BY <1>3, <1>4, <1>5, <1>6, <1>7, <1>8 DEF IInv

\* A restart empties the room; no socket is left open.
LEMMA RestartInv ==
  ASSUME IInv, HubRestart, UNCHANGED counted
  PROVE  IInv' /\ Plain
<1>1. /\ ManagerOK /\ RoomOK /\ PresentIsRegistered
      /\ PeopleOK /\ UpOK /\ DownOK /\ ConsentOK
  BY DEF IInv
<1>2. /\ restarts < MaxRestarts /\ restarts' = restarts + 1
      /\ alive' = FALSE /\ token' = FALSE /\ orch' = Fresh /\ emitted' = << >>
      /\ registered' = [r \in Roles |-> NoSocket] /\ pubkey' = [r \in Roles |-> None]
      /\ greeted' = {}
      /\ sock' = [s \in Sockets |-> IF sock[s] = "new" THEN "new" ELSE "closed"]
      /\ up' = [s \in Sockets |-> << >>]
      /\ UNCHANGED <<row, down, people>>
  BY DEF HubRestart
<1>3. Fresh \in Orchestrators /\ Fresh.state = "IDLE" /\ << >> \in Seq(Events)
  BY DEF Fresh, Orchestrators, States
<1>4. ManagerOK' /\ PresentIsRegistered'
  <2>1. restarts' \in 0 .. MaxRestarts
    BY <1>1, <1>2, BoundsAssumption DEF ManagerOK
  <2>2. orch' \in Orchestrators /\ emitted' \in Seq(Events) /\ row' \in States
    BY <1>1, <1>2, <1>3 DEF ManagerOK
  <2>3. ~alive' /\ alive' \in BOOLEAN /\ token' \in BOOLEAN
    BY <1>2
  <2>4. QED
    BY <2>1, <2>2, <2>3 DEF ManagerOK, RowLagsOnlyAfterRevival, PresentIsRegistered
<1>5. RoomOK'
  BY <1>2, Names DEF RoomOK
<1>6. UpOK'
  <2>1. \A a : << >> \in Seq(FromAgent(a)')
    OBVIOUS
  <2>2. QED
    BY <1>2, <2>1 DEF UpOK
<1>7. PeopleOK' /\ DownOK' /\ ConsentOK'
  BY <1>1, <1>2, Frames DEF ConsentOK
<1>8. NoneCancelled
  BY <1>1, <1>2, DownStays
<1>9. QED
  BY <1>2, <1>3, <1>4, <1>5, <1>6, <1>7, <1>8 DEF IInv, Plain

-----------------------------------------------------------------------------
(* The agents keep the invariant.                                          *)

\* What every step of an agent leaves to the hub: a socket is opened or cut,
\* messages are said or read, and nobody is dropped from a pair.
LEMMA AgentSide ==
  ASSUME IInv, PeopleOK', emitted' = << >>, UNCHANGED <<HubSide, counted>>,
         sock' \in [Sockets -> {"new", "open", "cut", "closing", "closed"}],
         \A s \in Sockets : sock[s] # "new" => sock'[s] # "new" /\ (IsOpen(s)' => IsOpen(s)),
         \A a \in Agents : Mutual(a) => Mutual(a)',
         DOMAIN up' = Sockets,
         \A s \in Sockets : up'[s] = up[s] \/ up'[s] \in Seq(FromAgent(AgentOf(s))),
         DOMAIN down' = Sockets,
         \A s \in Sockets : down'[s] = down[s] \/ down'[s] = << >>
                              \/ (down[s] # << >> /\ down'[s] = Tail(down[s]))
  PROVE  IInv' /\ Plain
<1>1. /\ ManagerOK /\ RoomOK /\ PresentIsRegistered
      /\ PeopleOK /\ UpOK /\ DownOK /\ ConsentOK
  BY DEF IInv
<1>2. UNCHANGED <<orch, alive, manager, registered, pubkey, greeted>>
  BY DEF HubSide, manager, room
<1>3. ManagerOK' /\ PresentIsRegistered'
  BY <1>1, <1>2, Frames
<1>4. RoomOK'
  BY <1>1, <1>2 DEF RoomOK
<1>5. ConsentOK'
  BY <1>1, <1>2 DEF ConsentOK, AgentsOf
<1>6. ASSUME NEW s \in Sockets PROVE up'[s] \in Seq(FromAgent(AgentOf(s)))'
  <2>1. AgentOf(s) \in Agents
    BY Names
  <2>2. FromAgent(AgentOf(s)) \subseteq FromAgent(AgentOf(s))'
    BY <2>1 DEF FromAgent
  <2>3. up'[s] \in Seq(FromAgent(AgentOf(s)))
    BY <1>1 DEF UpOK
  <2>4. QED
    BY <2>2, <2>3, SeqMonotonic
<1>7. ASSUME NEW s \in Sockets PROVE down'[s] \in Seq(ToAgentOf(RoleOf(AgentOf(s))))
  <2> DEFINE T == ToAgentOf(RoleOf(AgentOf(s)))
  <2>1. down[s] \in Seq(T)
    BY <1>1 DEF DownOK
  <2> HIDE DEF T
  <2>2. << >> \in Seq(T) /\ (down[s] # << >> => Tail(down[s]) \in Seq(T))
    BY <2>1, HeadTailProperties
  <2>3. QED
    BY <2>1, <2>2 DEF T
<1>8. UpOK' /\ DownOK'
  BY <1>6, <1>7 DEF UpOK, DownOK
<1>9. NoneCancelled
  BY <1>1, DownStays
<1>10. QED
  BY <1>2, <1>3, <1>4, <1>5, <1>8, <1>9 DEF IInv, Plain

\* The socket an agent uses is one of its own.
LEMMA OwnSocket ==
  ASSUME IInv, NEW a \in Agents, using[a] # 0
  PROVE  Socket(a) \in Sockets /\ AgentOf(Socket(a)) = a
  BY Names DEF IInv, PeopleOK, Socket

\* A step that keeps the peers: an agent moves on, or ends, and uses another
\* socket or none.
LEMMA PeopleStep ==
  ASSUME PeopleOK, NEW a \in Agents, peer' = peer, using' \in [Agents -> 0 .. MaxSockets],
         NEW to \in {"off", "waiting", "prompt", "confirmed", "checking", "reported", "exited"},
         stage' = [stage EXCEPT ![a] = to],
         to = stage[a] \/ to \notin {"off", "waiting", "prompt"}
           \/ (to = "waiting" /\ stage[a] = "off")
  PROVE  PeopleOK'
<1>1. stage' \in [Agents -> {"off", "waiting", "prompt", "confirmed", "checking",
                            "reported", "exited"}]
  BY DEF PeopleOK
<1>2. ASSUME NEW b \in Agents
      PROVE  /\ peer[b] # None => RoleOf(peer[b]) = Peer(RoleOf(b))
             /\ stage'[b] \in {"off", "waiting"} => peer[b] = None
             /\ stage'[b] = "prompt" => peer[b] # None
  <2>1. CASE b # a
    BY <2>1 DEF PeopleOK
  <2>2. CASE b = a
    <3>1. stage'[b] = to
      BY <2>2 DEF PeopleOK
    <3>2. QED
      BY <2>2, <3>1 DEF PeopleOK
  <2>3. QED
    BY <2>1, <2>2
<1>3. peer' \in [Agents -> Agents \cup {None}]
  BY DEF PeopleOK
<1>4. QED
  BY <1>1, <1>2, <1>3 DEF PeopleOK

\* A new connection, its hello already said.
LEMMA ConnectInv ==
  ASSUME IInv, NEW a \in Agents, AgentStarts(a) \/ AgentReconnects(a), UNCHANGED counted
  PROVE  IInv' /\ Plain
<1>1. PeopleOK /\ RoomOK /\ UpOK /\ DownOK
  BY DEF IInv
<1>2. /\ Connect(a) /\ emitted' = << >> /\ UNCHANGED <<HubSide, down, peer>>
      /\ stage' = stage \/ (stage[a] = "off" /\ stage' = [stage EXCEPT ![a] = "waiting"])
  BY DEF AgentStarts, AgentReconnects
<1>3. PICK n \in 1 .. MaxSockets :
        /\ sock[<<a, n>>] = "new" /\ sock' = [sock EXCEPT ![<<a, n>>] = "open"]
        /\ up' = [up EXCEPT ![<<a, n>>] = <<[type |-> "hello"]>>]
        /\ using' = [using EXCEPT ![a] = n]
  BY <1>2 DEF Connect
<1>4. <<a, n>> \in Sockets /\ AgentOf(<<a, n>>) = a
  BY Names
<1>5. PeopleOK'
  <2>1. using' \in [Agents -> 0 .. MaxSockets]
    BY <1>1, <1>3, BoundsAssumption DEF PeopleOK
  <2>2. stage' = [stage EXCEPT ![a] = stage[a]]
          \/ (stage[a] = "off" /\ stage' = [stage EXCEPT ![a] = "waiting"])
    BY <1>1, <1>2 DEF PeopleOK
  <2>3. stage[a] \in {"off", "waiting", "prompt", "confirmed", "checking", "reported", "exited"}
    BY <1>1 DEF PeopleOK
  <2>4. QED
    BY <1>1, <1>2, <2>1, <2>2, <2>3, PeopleStep
<1>6. \A s \in Sockets : up'[s] = up[s] \/ up'[s] \in Seq(FromAgent(AgentOf(s)))
  <2>1. [type |-> "hello"] \in FromAgent(a)
    BY Kinds DEF FromAgent
  <2>2. <<[type |-> "hello"]>> \in Seq(FromAgent(a))
    BY <2>1
  <2>3. QED
    BY <1>1, <1>3, <1>4, <2>2 DEF UpOK
<1>7. sock' \in [Sockets -> {"new", "open", "cut", "closing", "closed"}]
  BY <1>1, <1>3 DEF RoomOK
<1>8. \A s \in Sockets : sock[s] # "new" => sock'[s] = sock[s]
  BY <1>1, <1>3 DEF RoomOK
<1>9. DOMAIN up' = Sockets /\ DOMAIN down' = Sockets /\ down' = down
  BY <1>1, <1>2, <1>3 DEF UpOK, DownOK
<1>10. \A b \in Agents : Mutual(b) => Mutual(b)'
  BY <1>2 DEF Mutual
<1>11. QED
  BY <1>2, <1>5, <1>6, <1>7, <1>8, <1>9, <1>10, AgentSide DEF IsOpen

\* A connection that goes, or is seen to have gone, with its agent or not.
LEMMA LeaveInv ==
  ASSUME IInv, NEW a \in Agents, UNCHANGED counted,
         SocketCut(a) \/ AgentGone(a) \/ AgentSeesClose(a)
  PROVE  IInv' /\ Plain
<1>1. PeopleOK /\ RoomOK /\ UpOK /\ DownOK
  BY DEF IInv
<1>2. emitted' = << >> /\ UNCHANGED <<HubSide, peer>>
  BY DEF SocketCut, AgentGone, AgentSeesClose
<1>3. /\ using' = [using EXCEPT ![a] = 0]
      /\ \/ stage' = [stage EXCEPT ![a] = "exited"]
         \/ stage' = [stage EXCEPT ![a] = stage[a]]
  <2>1. CASE AgentGone(a)
    BY <2>1 DEF AgentGone
  <2>2. CASE SocketCut(a) \/ AgentSeesClose(a)
    <3>1. WithoutSocket(a)
      BY <2>2 DEF SocketCut, AgentSeesClose
    <3>2. QED
      BY <3>1 DEF WithoutSocket
  <2>3. QED
    BY <2>1, <2>2
<1>4. PeopleOK'
  <2>1. using' \in [Agents -> 0 .. MaxSockets]
    BY <1>1, <1>3, BoundsAssumption DEF PeopleOK
  <2>2. stage[a] \in {"off", "waiting", "prompt", "confirmed", "checking", "reported", "exited"}
    BY <1>1 DEF PeopleOK
  <2>3. QED
    BY <1>1, <1>2, <1>3, <2>1, <2>2, PeopleStep
<1>5. /\ \/ UNCHANGED <<sock, up>>
         \/ /\ using[a] # 0 /\ sock[Socket(a)] = "open"
            /\ sock' = [sock EXCEPT ![Socket(a)] = "cut"]
            /\ up' \in {up, [up EXCEPT ![Socket(a)] = << >>]}
      /\ down' \in {down, [down EXCEPT ![Socket(a)] = << >>]}
  BY DEF SocketCut, AgentGone, AgentSeesClose, Leave
<1>6. /\ sock' \in [Sockets -> {"new", "open", "cut", "closing", "closed"}]
      /\ \A s \in Sockets : sock'[s] = sock[s] \/ (sock[s] = "open" /\ sock'[s] = "cut")
  BY <1>1, <1>5 DEF RoomOK
<1>7. \A s \in Sockets : sock[s] # "new" => sock'[s] # "new" /\ (IsOpen(s)' => IsOpen(s))
  BY <1>6 DEF IsOpen
<1>8. /\ DOMAIN up' = Sockets /\ DOMAIN down' = Sockets
      /\ \A s \in Sockets : up'[s] \in {up[s], << >>} /\ down'[s] \in {down[s], << >>}
  BY <1>1, <1>5 DEF UpOK, DownOK
<1>9. \A s \in Sockets : up'[s] = up[s] \/ up'[s] \in Seq(FromAgent(AgentOf(s)))
  <2>1. \A b : << >> \in Seq(FromAgent(b))
    OBVIOUS
  <2>2. QED
    BY <1>8, <2>1
<1>10. \A b \in Agents : Mutual(b) => Mutual(b)'
  BY <1>2 DEF Mutual
<1>11. QED
  BY <1>2, <1>4, <1>6, <1>7, <1>8, <1>9, <1>10, AgentSide

\* An agent reads: the first key it is sent is its peer's from then on, so that
\* no pair is ever broken.
LEMMA ReceivesInv ==
  ASSUME IInv, NEW a \in Agents, AgentReceives(a), UNCHANGED counted
  PROVE  IInv' /\ Plain
<1> DEFINE msg == Head(down[Socket(a)])
<1>1. PeopleOK /\ RoomOK /\ UpOK /\ DownOK
  BY DEF IInv
<1>2. /\ using[a] # 0 /\ down[Socket(a)] # << >>
      /\ down' = [down EXCEPT ![Socket(a)] = Tail(@)]
      /\ \/ /\ msg.type = "peer_connected" /\ stage[a] = "waiting"
            /\ peer' = [peer EXCEPT ![a] = msg.agent]
            /\ stage' = [stage EXCEPT ![a] = "prompt"]
         \/ /\ stage[a] = "confirmed" /\ stage' = [stage EXCEPT ![a] = "checking"]
            /\ UNCHANGED peer
         \/ UNCHANGED <<peer, stage>>
      /\ emitted' = << >> /\ UNCHANGED <<HubSide, sock, up, using>>
  BY DEF AgentReceives
<1>3. Socket(a) \in Sockets /\ AgentOf(Socket(a)) = a /\ RoleOf(a) \in Roles
  BY <1>2, OwnSocket, Names
<1>4. msg \in ToAgentOf(RoleOf(a))
  BY <1>1, <1>2, <1>3, HeadTailProperties DEF DownOK
<1>5. msg.type = "peer_connected" => msg.agent \in AgentsOf(Peer(RoleOf(a)))
  BY <1>3, <1>4, Kinds
<1> HIDE DEF msg
<1>6. PeopleOK' /\ \A x \in Agents : Mutual(x) => Mutual(x)'
  <2>1. CASE /\ msg.type = "peer_connected" /\ stage[a] = "waiting"
             /\ peer' = [peer EXCEPT ![a] = msg.agent]
             /\ stage' = [stage EXCEPT ![a] = "prompt"]
    <3>1. /\ msg.agent \in Agents /\ msg.agent # None
          /\ RoleOf(msg.agent) = Peer(RoleOf(a))
      BY <1>5, <2>1, Names DEF AgentsOf
    <3>2. PeopleOK'
      BY <1>1, <1>2, <2>1, <3>1 DEF PeopleOK
    <3>3. peer[a] = None
      BY <1>1, <2>1 DEF PeopleOK
    <3>4. ASSUME NEW x \in Agents, Mutual(x) PROVE Mutual(x)'
      <4>1. peer[x] \in Agents /\ peer[peer[x]] = x
        BY <3>4 DEF Mutual
      <4>2. x # a /\ peer[x] # a
        BY <3>3, <4>1, Names
      <4>3. peer'[x] = peer[x] /\ peer'[peer[x]] = x
        BY <1>1, <2>1, <4>1, <4>2 DEF PeopleOK
      <4>4. QED
        BY <4>1, <4>3 DEF Mutual
    <3>5. QED
      BY <3>2, <3>4
  <2>2. CASE /\ UNCHANGED peer
             /\ \/ stage[a] = "confirmed" /\ stage' = [stage EXCEPT ![a] = "checking"]
                \/ UNCHANGED stage
    BY <1>1, <1>2, <2>2 DEF PeopleOK, Mutual
  <2>3. QED
    BY <1>2, <2>1, <2>2
<1>7. /\ DOMAIN down' = Sockets
      /\ \A s \in Sockets : down'[s] = down[s] \/ down'[s] = << >>
                              \/ (down[s] # << >> /\ down'[s] = Tail(down[s]))
  BY <1>1, <1>2 DEF DownOK
<1>8. DOMAIN up' = Sockets /\ \A s \in Sockets : up'[s] = up[s]
  BY <1>1, <1>2 DEF UpOK
<1>9. /\ sock' \in [Sockets -> {"new", "open", "cut", "closing", "closed"}]
      /\ \A s \in Sockets : sock'[s] = sock[s] /\ (IsOpen(s)' => IsOpen(s))
  BY <1>1, <1>2 DEF RoomOK, IsOpen
<1>10. QED
  BY <1>2, <1>6, <1>7, <1>8, <1>9, AgentSide

\* An agent says something it may say at that stage.
LEMMA SaysInv ==
  ASSUME IInv, NEW a \in Agents, NEW msg \in FromAgent(a), UNCHANGED counted,
         stage[a] \in {"prompt", "checking"},
         stage' \in {[stage EXCEPT ![a] = x] : x \in {"confirmed", "reported", "exited"}},
         (using[a] # 0 /\ Say(a, msg)) \/ UNCHANGED up,
         emitted' = << >>, UNCHANGED <<HubSide, sock, down, using, peer>>
  PROVE  IInv' /\ Plain
<1>1. PeopleOK /\ RoomOK /\ UpOK /\ DownOK
  BY DEF IInv
<1>2. PICK x \in {"confirmed", "reported", "exited"} : stage' = [stage EXCEPT ![a] = x]
  OBVIOUS
<1>3. PeopleOK'
  BY <1>1, <1>2 DEF PeopleOK
<1>4. DOMAIN up' = Sockets /\ \A s \in Sockets : up'[s] = up[s] \/ up'[s] \in Seq(FromAgent(AgentOf(s)))
  <2>1. CASE UNCHANGED up
    BY <1>1, <2>1 DEF UpOK
  <2>2. CASE using[a] # 0 /\ up' = [up EXCEPT ![Socket(a)] = Append(@, msg)]
    <3>1. Socket(a) \in Sockets /\ AgentOf(Socket(a)) = a
      BY <2>2, OwnSocket
    <3>2. Append(up[Socket(a)], msg) \in Seq(FromAgent(a))
      BY <1>1, <3>1, AppendProperties DEF UpOK
    <3>3. QED
      BY <1>1, <2>2, <3>1, <3>2 DEF UpOK
  <2>3. QED
    BY <2>1, <2>2 DEF Say
<1>5. DOMAIN down' = Sockets /\ \A s \in Sockets : down'[s] = down[s]
  BY <1>1 DEF DownOK
<1>6. /\ sock' \in [Sockets -> {"new", "open", "cut", "closing", "closed"}]
      /\ \A s \in Sockets : sock'[s] = sock[s] /\ (IsOpen(s)' => IsOpen(s))
  BY <1>1 DEF RoomOK, IsOpen
<1>7. \A b \in Agents : Mutual(b) => Mutual(b)'
  BY DEF Mutual
<1>8. QED
  BY <1>3, <1>4, <1>5, <1>6, <1>7, AgentSide

\* The operator confirms only what both terminals show.
LEMMA ConfirmsInv ==
  ASSUME IInv, NEW a \in Agents, AgentConfirms(a), UNCHANGED counted
  PROVE  IInv' /\ Plain
<1>1. /\ stage[a] = "prompt" /\ peer[peer[a]] = a
      /\ \/ /\ using[a] # 0 /\ Say(a, Confirmation)
            /\ stage' = [stage EXCEPT ![a] = "confirmed"]
         \/ stage' = [stage EXCEPT ![a] = "exited"] /\ UNCHANGED up
      /\ emitted' = << >> /\ UNCHANGED <<HubSide, sock, down, using, peer>>
  BY DEF AgentConfirms, Confirmation
<1>2. Mutual(a)
  BY <1>1 DEF IInv, PeopleOK, Mutual
<1>3. Confirmation \in FromAgent(a)
  BY <1>2, Kinds DEF FromAgent
<1>4. QED
  BY <1>1, <1>3, SaysInv

\* The checklist's report confirms nothing.
LEMMA ReportsInv ==
  ASSUME IInv, NEW a \in Agents, NEW verdict \in Verdicts, AgentReports(a, verdict),
         UNCHANGED counted
  PROVE  IInv' /\ Plain
<1> DEFINE msg == [type |-> "preflight_result", verdict |-> verdict]
<1>1. /\ stage[a] = "checking"
      /\ \/ /\ using[a] # 0 /\ Say(a, msg)
            /\ stage' = [stage EXCEPT ![a] = "reported"]
         \/ stage' = [stage EXCEPT ![a] = "exited"] /\ UNCHANGED up
      /\ emitted' = << >> /\ UNCHANGED <<HubSide, sock, down, using, peer>>
  BY DEF AgentReports
<1>2. msg \in FromAgent(a)
  BY Kinds DEF FromAgent
<1> HIDE DEF msg
<1>3. QED
  BY <1>1, <1>2, SaysInv

\* Every step an agent takes.
LEMMA AgentInv ==
  ASSUME IInv, NEW a \in Agents, AgentActs(a) \/ SocketCut(a) \/ AgentGone(a),
         UNCHANGED counted
  PROVE  IInv' /\ Plain
<1>1. CASE AgentStarts(a) \/ AgentReconnects(a)
  BY <1>1, ConnectInv
<1>2. CASE SocketCut(a) \/ AgentGone(a) \/ AgentSeesClose(a) \/ AgentCancelled(a)
  BY <1>2, LeaveInv DEF AgentCancelled
<1>3. CASE AgentReceives(a)
  BY <1>3, ReceivesInv
<1>4. CASE AgentConfirms(a)
  BY <1>4, ConfirmsInv
<1>5. CASE \E verdict \in Verdicts : AgentReports(a, verdict)
  BY <1>5, ReportsInv
<1>6. QED
  BY <1>1, <1>2, <1>3, <1>4, <1>5 DEF AgentActs

-----------------------------------------------------------------------------
(* The invariant, and what follows from it.                                *)

LEMMA InitInv == Init => IInv
<1> SUFFICES ASSUME Init PROVE IInv
  OBVIOUS
<1>1. Fresh \in Orchestrators /\ Fresh.state = "IDLE" /\ Fresh.currentStep = 0
      /\ \A r \in Roles : ~Fresh.agents[r] /\ ~Fresh.sas[r]
  BY DEF Fresh, Orchestrators, States
<1>2. << >> \in Seq(Events) /\ \A a : << >> \in Seq(FromAgent(a)) /\ << >> \in Seq(ToAgentOf(RoleOf(a)))
  OBVIOUS
<1>3. orch = Fresh /\ emitted = << >> /\ alive = TRUE /\ row = "IDLE" /\ token = TRUE /\ restarts = 0
  BY DEF Init
<1>4. ManagerOK
  BY <1>1, <1>2, <1>3, BoundsAssumption DEF ManagerOK, RowLagsOnlyAfterRevival, States
<1>5. RoomOK
  BY Names DEF Init, RoomOK
<1>6. PresentIsRegistered /\ ConsentOK
  BY <1>1, <1>3 DEF Init, PresentIsRegistered, ConsentOK
<1>7. PeopleOK
  BY BoundsAssumption DEF Init, PeopleOK
<1>8. UpOK /\ DownOK
  BY <1>2 DEF Init, UpOK, DownOK
<1>9. QED
  BY <1>4, <1>5, <1>6, <1>7, <1>8 DEF IInv

LEMMA StutterInv == IInv /\ UNCHANGED vars => IInv'
<1> SUFFICES ASSUME IInv, UNCHANGED vars PROVE IInv'
  OBVIOUS
<1>1. /\ ManagerOK /\ RoomOK /\ PresentIsRegistered
      /\ PeopleOK /\ UpOK /\ DownOK /\ ConsentOK
  BY DEF IInv
<1>2. UNCHANGED <<orch, emitted, alive, row, token, restarts, room, sock, greeted, up, down,
                  people, counted, peer, registered>>
  BY DEF vars, manager, room, wires, people
<1>3. ManagerOK'
  BY <1>1, <1>2 DEF ManagerOK, RowLagsOnlyAfterRevival
<1>4. QED
  BY <1>1, <1>2, <1>3, Frames DEF IInv

\* A step of Next keeps the invariant.  It opens the checklist only with two
\* confirmations of agents in pairs, without a change of anyone's peer, and
\* tells an agent of a cancellation only before PREFLIGHT.
Opens == orch'.state = "PREFLIGHT" /\ orch.state # "PREFLIGHT"

Consented ==
  peer' = peer /\ \A r \in Roles : counted'[r] \in AgentsOf(r) /\ Mutual(counted'[r])

LEMMA NextInv ==
  ASSUME IInv, Next
  PROVE  /\ IInv' /\ (Opens => Consented)
         /\ NoneCancelled \/ Live.state \in {"IDLE", "PAIRING"}
<1>1. ASSUME NEW s \in Sockets, HandleSasConfirmed(s)
      PROVE  IInv' /\ (Opens => Consented) /\ NoneCancelled
  BY <1>1, SasInv DEF Opens, Consented
<1>2. ASSUME Plain PROVE (Opens => Consented) /\ NoneCancelled
  BY <1>2 DEF Plain, Opens
<1>3. ASSUME NEW s \in Sockets, UNCHANGED counted,
             \/ HelloRefused(s) \/ Hello(s) \/ HandlePreflightResult(s)
             \/ SocketError(s) \/ SocketClosing(s) \/ SocketClosed(s)
      PROVE  IInv' /\ Plain
  <2>1. CASE HelloRefused(s)
    BY <1>3, <2>1, HelloRefusedInv
  <2>2. CASE Hello(s)
    BY <1>3, <2>2, HelloInv
  <2>3. CASE HandlePreflightResult(s)
    BY <1>3, <2>3, PreflightInv
  <2>4. CASE SocketError(s) \/ SocketClosing(s) \/ SocketClosed(s)
    BY <1>3, <2>4, ClosingInv
  <2>5. QED
    BY <1>3, <2>1, <2>2, <2>3, <2>4
<1>4. ASSUME UNCHANGED counted, DashboardStart \/ DashboardAbort \/ HubRestart
      PROVE  IInv' /\ Plain
  BY <1>4, DashboardInv, RestartInv
<1>5. ASSUME UNCHANGED counted, Cancel
      PROVE  IInv' /\ (Opens => Consented) /\ Live.state \in {"IDLE", "PAIRING"}
  BY <1>5, CancelInv DEF Opens
<1>6. ASSUME NEW a \in Agents, AgentActs(a) \/ SocketCut(a) \/ AgentGone(a), UNCHANGED counted
      PROVE  IInv' /\ Plain
  BY <1>6, AgentInv
<1>7. \/ \E s \in Sockets : HandleSasConfirmed(s)
      \/ \E s \in Sockets :
           /\ \/ HelloRefused(s) \/ Hello(s) \/ HandlePreflightResult(s)
              \/ SocketError(s) \/ SocketClosing(s) \/ SocketClosed(s)
           /\ UNCHANGED counted
      \/ (DashboardStart \/ DashboardAbort \/ HubRestart) /\ UNCHANGED counted
      \/ Cancel /\ UNCHANGED counted
      \/ \E a \in Agents : (AgentActs(a) \/ SocketCut(a) \/ AgentGone(a)) /\ UNCHANGED counted
  BY DEF Next, HubHandles, Operator
<1>8. QED
  BY <1>1, <1>2, <1>3, <1>4, <1>5, <1>6, <1>7

\* The invariant holds in every reachable state.
THEOREM Inductive == Spec => []IInv
<1>1. Init => IInv
  BY InitInv
<1>2. IInv /\ [Next]_vars => IInv'
  BY NextInv, StutterInv
<1>3. QED
  BY <1>1, <1>2, PTL DEF Spec

\* What crosses the sockets, and every other variable, keeps its type
\* whatever the agents and the hub do.
THEOREM TypeCorrect == Spec => []TypeOK
<1>1. IInv => TypeOK
  <2> SUFFICES ASSUME IInv PROVE TypeOK
    OBVIOUS
  <2>1. ManagerOK /\ RoomOK /\ PeopleOK /\ UpOK /\ DownOK /\ ConsentOK
    BY DEF IInv
  <2>2. ASSUME NEW s \in Sockets PROVE up[s] \in Seq(ToHub) /\ down[s] \in Seq(ToAgent)
    <3>1. FromAgent(AgentOf(s)) \subseteq ToHub
      BY DEF FromAgent
    <3>2. ToAgentOf(RoleOf(AgentOf(s))) \subseteq ToAgent
      BY Names, Kinds
    <3>3. /\ up[s] \in Seq(FromAgent(AgentOf(s)))
          /\ down[s] \in Seq(ToAgentOf(RoleOf(AgentOf(s))))
      BY <2>1 DEF UpOK, DownOK
    <3>4. QED
      BY <3>1, <3>2, <3>3, SeqMonotonic
  <2>3. \A r \in Roles : registered[r] \in Sockets \cup {NoSocket}
    BY <2>1 DEF RoomOK
  <2>4. QED
    BY <2>1, <2>2, <2>3 DEF TypeOK, ManagerOK, RoomOK, PeopleOK, ConsentOK
<1>2. QED
  BY <1>1, Inductive, PTL

\* The row disagrees with the orchestrator only while a revived one is in IDLE.
THEOREM RowLagsHolds == Spec => []RowLagsOnlyAfterRevival
<1>1. IInv => RowLagsOnlyAfterRevival
  BY DEF IInv, ManagerOK
<1>2. QED
  BY <1>1, Inductive, PTL

\* An agent the orchestrator counts on is registered in the room.
THEOREM PresentHolds == Spec => []PresentIsRegistered
<1>1. IInv => PresentIsRegistered
  BY DEF IInv
<1>2. QED
  BY <1>1, Inductive, PTL

\* The hub never takes two sockets of a role, greeted and open, for its agent,
\* and the key on record is the registered agent's.
THEOREM OneSocketHolds == Spec => []OneSocketPerRole
<1>1. IInv => OneSocketPerRole
  <2> SUFFICES ASSUME IInv PROVE OneSocketPerRole
    OBVIOUS
  <2>1. RoomOK
    BY DEF IInv
  <2>2. ASSUME NEW s \in greeted, NEW t \in greeted, IsOpen(s), IsOpen(t),
               RoleOf(AgentOf(s)) = RoleOf(AgentOf(t))
        PROVE  s = t
    <3>1. registered[RoleOf(AgentOf(s))] = s /\ registered[RoleOf(AgentOf(t))] = t
      BY <2>1, <2>2 DEF RoomOK
    <3>2. QED
      BY <2>2, <3>1
  <2>3. \A r \in Roles : pubkey[r] = registered[r][1]
    BY <2>1 DEF RoomOK
  <2>4. QED
    BY <2>2, <2>3 DEF OneSocketPerRole
<1>2. QED
  BY <1>1, Inductive, PTL

\* No agent is told by the route that looks at the row only that a session is
\* cancelled whose orchestrator is past PAIRING.
THEOREM CancelledBeforePreflightHolds == Spec => CancelledBeforePreflight
<1> DEFINE A == \A s \in Sockets :
                  Len(down'[s]) > Len(down[s])
                    /\ down'[s][Len(down'[s])].type = "session_cancelled"
                      => Live.state \in {"IDLE", "PAIRING"}
<1>1. IInv /\ [Next]_vars => [A]_vars
  <2>1. ASSUME IInv, Next PROVE A
    BY <2>1, NextInv DEF NoneCancelled
  <2>2. QED
    BY <2>1
<1>2. CancelledBeforePreflight <=> [][A]_vars
  BY DEF CancelledBeforePreflight
<1> HIDE DEF A
<1>3. QED
  BY <1>1, <1>2, Inductive, PTL DEF Spec

\* The two confirmations that let a session into PREFLIGHT were each given by
\* an agent of its role that holds the key of one that holds its own.
PreflightByPairs ==
  [][(orch'.state = "PREFLIGHT" /\ orch.state # "PREFLIGHT") =>
       \A r \in Roles : /\ RoleOf(counted'[r]) = r
                        /\ peer[counted'[r]] \in AgentsOf(Peer(r))
                        /\ peer[peer[counted'[r]]] = counted'[r]]_vars

\* Whoever confirmed had compared the SAS with somebody of the other role.
THEOREM PreflightByPairsHolds == Spec => PreflightByPairs
<1> DEFINE A == (orch'.state = "PREFLIGHT" /\ orch.state # "PREFLIGHT") =>
                  \A r \in Roles : /\ RoleOf(counted'[r]) = r
                                   /\ peer[counted'[r]] \in AgentsOf(Peer(r))
                                   /\ peer[peer[counted'[r]]] = counted'[r]
<1>1. IInv /\ [Next]_vars => [A]_vars
  <2>1. ASSUME IInv, Next, Opens
        PROVE  \A r \in Roles : /\ RoleOf(counted'[r]) = r
                                /\ peer[counted'[r]] \in AgentsOf(Peer(r))
                                /\ peer[peer[counted'[r]]] = counted'[r]
    <3>1. \A r \in Roles : counted'[r] \in AgentsOf(r) /\ Mutual(counted'[r])
      BY <2>1, NextInv DEF Consented
    <3>2. \A a \in Agents : peer[a] # None => RoleOf(peer[a]) = Peer(RoleOf(a))
      BY <2>1 DEF IInv, PeopleOK
    <3>3. QED
      BY <3>1, <3>2, Names DEF AgentsOf, Mutual
  <2>2. QED
    BY <2>1 DEF Opens
<1>2. PreflightByPairs <=> [][A]_vars
  BY DEF PreflightByPairs
<1> HIDE DEF A
<1>3. QED
  BY <1>1, <1>2, Inductive, PTL DEF Spec

\* Where one of the roles has only one run of the agent in the whole session,
\* the two confirmations are those of one pair.
THEOREM PreflightByOnePairHolds ==
  ASSUME NEW role \in Roles, \A a, b \in AgentsOf(role) : a = b
  PROVE  Spec => PreflightByOnePair
<1> DEFINE A == (orch'.state = "PREFLIGHT" /\ orch.state # "PREFLIGHT") =>
                  /\ peer[counted'["source"]] = counted'["target"]
                  /\ peer[counted'["target"]] = counted'["source"]
<1>1. IInv /\ [Next]_vars => [A]_vars
  <2>1. ASSUME IInv, Next, Opens
        PROVE  /\ peer[counted'["source"]] = counted'["target"]
               /\ peer[counted'["target"]] = counted'["source"]
    <3>1. \A r \in Roles : counted'[r] \in AgentsOf(r) /\ Mutual(counted'[r])
      BY <2>1, NextInv DEF Consented
    <3>2. \A a \in Agents : peer[a] # None => RoleOf(peer[a]) = Peer(RoleOf(a))
      BY <2>1 DEF IInv, PeopleOK
    <3>3. \A r \in Roles : peer[counted'[r]] \in AgentsOf(Peer(r)) /\ peer[peer[counted'[r]]] = counted'[r]
      BY <3>1, <3>2, Names DEF AgentsOf, Mutual
    <3>4. Peer("source") = "target" /\ Peer("target") = "source"
      BY DEF Peer
    <3>5. CASE role = "source"
      BY <3>1, <3>3, <3>4, <3>5
    <3>6. CASE role = "target"
      BY <3>1, <3>3, <3>4, <3>6
    <3>7. QED
      BY <3>5, <3>6
  <2>2. QED
    BY <2>1 DEF Opens
<1>2. PreflightByOnePair <=> [][A]_vars
  BY DEF PreflightByOnePair
<1> HIDE DEF A
<1>3. QED
  BY <1>1, <1>2, Inductive, PTL DEF Spec
=============================================================================
