----------------------------- MODULE Admission -----------------------------
(***************************************************************************)
(* An agent at the hub's door: the client of AgentTransport against what   *)
(* the hub checks when a socket opens (handleAgentSocket of                *)
(* packages/hub/src/ws/handler.ts), the sessions of its database           *)
(* (db/queries.ts, created by session-manager.ts) and its restarts.        *)
(*                                                                         *)
(* The hub accepts the upgrade of every connection and only then refuses,  *)
(* so that to the client a refusal is a socket that opens and closes.  The *)
(* agent shares its address with others, tabs or a second agent, whose     *)
(* connections count against the same limit.  Time is counted in ticks     *)
(* that divide the limiter's window; a session may expire at any time, for *)
(* its life is long compared with a window.                                *)
(***************************************************************************)
EXTENDS AgentTransport, FiniteSetsExt

CONSTANTS
  Ids, Codes,   \* session ids and session codes
  First,        \* the session whose code the agent was started with
  RateMax,      \* WS_RATE_MAX
  Window,       \* WS_RATE_WINDOW_MS, in ticks
  MaxOthers,    \* bound: connections of others from the agent's address
  MaxRestarts   \* bound: restarts of the hub

ASSUME AdmissionAssumption ==
  /\ First \in Ids /\ None \notin Ids \cup Codes
  /\ {RateMax, Window, MaxOthers, MaxRestarts} \subseteq Nat /\ RateMax > 0

VARIABLES
  hub,       \* up or down
  code,      \* the table: each session's code, None if it has no row
  rooms,     \* the registry: sessions that have a room
  expired,   \* the sessions whose expires_at has passed
  room,      \* the session whose room a socket was let into, or None
  window,    \* wsRate of the address: count and age of the window
  recent,    \* history: connections let pass in each of the last ticks
  restarted, \* history: stops of the hub in each of the last ticks
  others,    \* connections of others so far
  restarts   \* restarts so far

hubVars ==
  <<hub, code, rooms, expired, room, window, recent, restarted, others, restarts>>
vars == <<clientVars, hubVars>>

Ages == 0 .. Window + 1
NoWindow == [count |-> 0, age |-> Window + 1]
Quiet == [tick \in 0 .. Window |-> 0]

\* The first session has been created; its code is in the agent's command.
Init ==
  /\ ClientInit
  /\ hub = "up"
  /\ \E c \in Codes : code = [id \in Ids |-> IF id = First THEN c ELSE None]
  /\ rooms = {First} /\ expired = {}
  /\ room = [s \in Sockets |-> None]
  /\ window = NoWindow /\ recent = Quiet /\ restarted = Quiet
  /\ others = 0 /\ restarts = 0

\* A history with one more in the present tick, and one in a tick that begins.
OneMore(history) == [history EXCEPT ![0] = @ + 1]
Older(history) ==
  [tick \in 0 .. Window |-> IF tick = 0 THEN 0 ELSE history[tick - 1]]

-----------------------------------------------------------------------------
(* The limiter.  Only `count > WS_RATE_MAX' is ever asked, so the count     *)
(* stops at the first number above it.                                     *)

\* Mutant: a connection that is refused starts the window again.
CountedSliding ==
  IF window.age > Window \/ window.count >= RateMax
  THEN [count |-> IF window.age > Window THEN 1 ELSE RateMax + 1, age |-> 0]
  ELSE [window EXCEPT !.count = @ + 1]

\* Mutant: the window is started again where the connection is refused.
CountedFromRefusal ==
  IF window.age > Window \/ window.count > RateMax
  THEN [count |-> 1, age |-> 0]
  ELSE [window EXCEPT !.count = @ + 1]

\* wsRateLimitExceeded: refused connections count as well.
Counted ==
  IF window.age > Window THEN [count |-> 1, age |-> 0]
  ELSE [window EXCEPT !.count = IF @ > RateMax THEN @ ELSE @ + 1]

Exceeded == window.age <= Window /\ Counted.count > RateMax

Connection ==
  /\ window' = Counted
  /\ recent' = IF Exceeded THEN recent ELSE OneMore(recent)

Tick ==
  /\ window.age <= Window \/ recent # Quiet \/ restarted # Quiet
  /\ window' = IF window.age > Window THEN window ELSE [window EXCEPT !.age = @ + 1]
  /\ recent' = Older(recent) /\ restarted' = Older(restarted)
  /\ UNCHANGED <<clientVars, hub, code, rooms, expired, room, others, restarts>>

OthersConnect ==
  /\ hub = "up" /\ others < MaxOthers
  /\ others' = others + 1
  /\ Connection
  /\ UNCHANGED <<clientVars, hub, code, rooms, expired, room, restarted, restarts>>

-----------------------------------------------------------------------------
(* The sessions.                                                           *)

Rows == {id \in Ids : code[id] # None}
CodesOf(ids) == {code[id] : id \in ids}

\* Mutant: the column is not UNIQUE.
InsertAnyway(id, c) ==
  /\ code' = [code EXCEPT ![id] = c]
  /\ rooms' = rooms \cup {id}

\* INSERT INTO sessions, which throws on a code that is taken; only after it
\* does create() make the room.
InsertSession(id, c) ==
  IF c \in CodesOf(Rows) THEN UNCHANGED <<code, rooms>>
  ELSE code' = [code EXCEPT ![id] = c] /\ rooms' = rooms \cup {id}

\* POST /api/sessions.  allocateUniqueCode asks the registry, which knows the
\* sessions of this process only.  Its 16 draws are taken to find a free code
\* where there is one; without one, any code will do.
CreateSession(id, c) ==
  /\ hub = "up" /\ id \notin Rows
  /\ c \notin CodesOf(rooms) \/ Codes \subseteq CodesOf(rooms)
  /\ InsertSession(id, c)
  /\ UNCHANGED <<clientVars, hub, expired, room, window, recent, restarted, others,
                 restarts>>

Expire(id) ==
  /\ id \in Rows \ expired /\ expired' = expired \cup {id}
  /\ UNCHANGED <<clientVars, hub, code, rooms, room, window, recent, restarted, others,
                 restarts>>

\* getSessionByCode
SessionsByCode(c) == {id \in Rows : code[id] = c}

\* The process stops: the registry and the counts are lost, the rows are not,
\* nor what the counts let pass before.
HubStops ==
  /\ hub = "up" /\ restarts < MaxRestarts
  /\ hub' = "down" /\ restarts' = restarts + 1
  /\ rooms' = {} /\ room' = [s \in Sockets |-> None]
  /\ window' = NoWindow /\ restarted' = OneMore(restarted)
  /\ UNCHANGED <<clientVars, code, expired, recent, others>>

HubStarts ==
  /\ hub = "down" /\ hub' = "up"
  /\ UNCHANGED <<clientVars, code, rooms, expired, room, window, recent, restarted,
                 others, restarts>>

-----------------------------------------------------------------------------
(* The agent's socket.                                                     *)

\* Sockets that closed are in no room.
Leave == room' = [s \in Sockets |-> IF socket'[s] = "none" THEN None ELSE room[s]]

\* handleAgentSocket: rate, session, expiry; then the room.
LetIn(s) ==
  \/ /\ ~Exceeded
     /\ \E id \in SessionsByCode(code[First]) \ expired :
          room' = [room EXCEPT ![s] = id] /\ rooms' = rooms \cup {id}
  \/ /\ Exceeded \/ SessionsByCode(code[First]) \subseteq expired
     /\ UNCHANGED <<room, rooms>>

Accepted(s) ==
  /\ hub = "up"
  /\ SocketOpens(s)
  /\ Connection /\ LetIn(s)
  /\ UNCHANGED <<hub, code, expired, restarted, others, restarts>>

\* The hub cannot be reached, or the network fails.
Unreachable(s) == OpeningFails(s) /\ Leave

\* A socket that was refused, or whose hub has gone, closes; any may be cut.
Outside(s) == socket[s] = "open" /\ room[s] = None /\ SocketCloses(s) /\ Leave
Cut(s)     == socket[s] = "open" /\ room[s] # None /\ SocketCloses(s) /\ Leave
Closed(s)  == socket[s] = "closing" /\ SocketCloses(s) /\ Leave

\* What the hub tells an agent in a room.
Told == \E s \in Sockets : room[s] # None

AgentStep ==
  \/ ReconnectTimer \/ PongTimeout \/ NothingLeft
  \/ \E s \in Sockets : Pong(s)
  \/ Told /\ (PeerConnected \/ RunPreflight \/ SessionCancelled)
  \/ SasConfirmed \/ SasRejected \/ ChecklistSent

HubUnchanged ==
  UNCHANGED <<hub, code, rooms, expired, window, recent, restarted, others, restarts>>

Next ==
  \/ AgentStep /\ Leave /\ HubUnchanged
  \/ \E s \in Sockets :
       \/ Accepted(s)
       \/ (Unreachable(s) \/ Outside(s) \/ Cut(s) \/ Closed(s)) /\ HubUnchanged
  \/ OthersConnect \/ Tick
  \/ \E id \in Ids : Expire(id) \/ \E c \in Codes : CreateSession(id, c)
  \/ HubStops \/ HubStarts

Spec == Init /\ [][Next]_vars

\* Timers fire, an opening comes to an end, a socket without a peer closes,
\* the hub is started again, and time passes.
Fairness ==
  /\ WF_vars(ReconnectTimer /\ Leave /\ HubUnchanged)
  /\ WF_vars(\E s \in Sockets : Accepted(s) \/ (Unreachable(s) /\ HubUnchanged))
  /\ WF_vars(\E s \in Sockets : (Outside(s) \/ Closed(s)) /\ HubUnchanged)
  /\ WF_vars(HubStarts) /\ WF_vars(Tick)

FairSpec == Spec /\ Fairness

-----------------------------------------------------------------------------
(* Properties.                                                             *)

\* Every variable of the client and of the hub keeps its type.
TypeOK ==
  /\ socket \in [Sockets -> {"none", "opening", "open", "closing"}]
  /\ ws \in Sockets \cup {None}
  /\ connecting \in BOOLEAN /\ manualClose \in BOOLEAN /\ pongTimer \in BOOLEAN
  /\ attempts \in 0 .. MaxAttempts /\ timers \in 0 .. 1
  /\ stage \in Stages /\ pc \in Waits
  /\ hub \in {"up", "down"}
  /\ code \in [Ids -> Codes \cup {None}] /\ rooms \subseteq Ids
  /\ expired \subseteq Ids /\ room \in [Sockets -> Ids \cup {None}]
  /\ window \in [count : 0 .. RateMax + 1, age : Ages]
  /\ recent \in [0 .. Window -> Nat] /\ restarted \in [0 .. Window -> Nat]
  /\ others \in 0 .. MaxOthers /\ restarts \in 0 .. MaxRestarts

\* All the sockets share the client's fields, the two timers included.  That
\* is sound because there is never more than one socket, or a timer in its
\* place, and the pong timer runs only beside a socket: the close of one can
\* not erase another, nor a late pong of one close another.
OneLinkAtATime ==
  /\ \A s, t \in NotClosed : s = t
  /\ timers <= 1 /\ (timers > 0 => NotClosed = {})
  /\ pongTimer => NotClosed # {}
  /\ ~manualClose => \A s \in NotClosed : ws = s

\* An agent that is still pairing or at its checklist has a link, or a timer
\* that will look for one, until every attempt is spent or the client was
\* closed: no order of failures, refusals and restarts strands it earlier.
NotStranded ==
  Running /\ stage \in Reconnectable /\ ~manualClose =>
    NotClosed # {} \/ timers > 0 \/ attempts = MaxAttempts

\* An agent that has sent its checklist never opens another socket: a second
\* connection in the middle of a migration would be a stranger to the hub.
NeverReopens ==
  [][pc = "migrating" =>
       \A s \in Sockets : socket'[s] = "opening" => socket[s] = "opening"]_vars

\* A code leads to the session it was issued for, also when the registry that
\* allocates codes has been lost and another session is given one since.
CodeLeadsHome == \A s \in Sockets : room[s] \in {First, None}

\* Whatever the moment it begins at, a stretch of a window's length lets fewer
\* than twice the limit of one address pass, and one limit more for each stop of
\* the hub in it, for the counts are in memory only.
BurstIsBounded ==
  MapThenSumSet(LAMBDA tick : recent[tick], 0 .. Window)
    < (2 + MapThenSumSet(LAMBDA tick : restarted[tick], 0 .. Window)) * RateMax

\* The limit locks nobody out: an agent that keeps knocking, while refusals
\* count against it, is let in, unless its session expires, it gives up on a
\* hub it cannot reach, or it ends.
Knocking == Running /\ stage \in Reconnectable /\ ~manualClose /\ ~Told
GaveUp == NotClosed = {} /\ timers = 0
LetInAgain == Knocking ~> (Told \/ First \in expired \/ GaveUp \/ ~Running \/ manualClose)
=============================================================================
