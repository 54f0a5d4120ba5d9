-------------------------- MODULE AdmissionProofs --------------------------
(***************************************************************************)
(* What an agent's client promises for any number of sockets, attempts,    *)
(* sessions, codes, restarts and other connections: one link at a time,    *)
(* none lost before its attempts are spent, none opened in a migration;    *)
(* that a code leads to the session it was issued for, while it lives; and *)
(* how many connections the limiter lets pass in a stretch of time.        *)
(***************************************************************************)
EXTENDS Admission, FilterTheorems, FiniteSetTheorems

USE TransportAssumption, AdmissionAssumption DEF TransportAssumption, AdmissionAssumption

-----------------------------------------------------------------------------
(* The client.                                                             *)

Links == [attempts : 0 .. MaxAttempts, timers : 0 .. 1]

FlagsOK == connecting \in BOOLEAN /\ manualClose \in BOOLEAN /\ pongTimer \in BOOLEAN

ClientTypeOK ==
  /\ FlagsOK
  /\ socket \in [Sockets -> {"none", "opening", "open", "closing"}]
  /\ ws \in Sockets \cup {None}
  /\ attempts \in 0 .. MaxAttempts /\ timers \in 0 .. 1
  /\ stage \in Stages /\ pc \in Waits

\* The flag that bars a second opening does not outlive the first, the client
\* holds no socket that has closed, and it knows of the migration from the
\* moment runAgent waits for it.
Guarded ==
  /\ connecting => NotClosed # {}
  /\ ws # None => ws \in NotClosed
  /\ pc = "migrating" => stage = "migrating"

ClientInv ==
  /\ ClientTypeOK
  /\ OneLinkAtATime
  /\ NotStranded
  /\ Guarded

\* What the client and runAgent may do, whatever the hub does.
ClientNext ==
  \/ ReconnectTimer \/ PongTimeout \/ NothingLeft
  \/ \E s \in Sockets :
       Pong(s) \/ SocketOpens(s) \/ OpeningFails(s) \/ SocketCloses(s)
  \/ PeerConnected \/ SasConfirmed \/ SasRejected
  \/ RunPreflight \/ ChecklistSent \/ SessionCancelled

\* runAgent starts with one socket opening.
LEMMA ClientInitInv == ClientInit => ClientInv
<1> SUFFICES ASSUME ClientInit PROVE ClientInv
  OBVIOUS
<1>1. FlagsOK
  BY DEF ClientInit, FlagsOK
<1>2. PICK s \in Sockets : socket = [Unused EXCEPT ![s] = "opening"] /\ ws = s
  BY DEF ClientInit
<1>3. NotClosed = {s}
  BY <1>2 DEF NotClosed, Unused
<1>4. ClientTypeOK
  BY <1>1, <1>2 DEF ClientInit, ClientTypeOK, Unused, Stages, Waits
<1>5. QED
  BY <1>2, <1>3, <1>4 DEF ClientInit, ClientInv, OneLinkAtATime, NotStranded, Guarded

\* scheduleReconnect arms the timer, unless every attempt is spent.
LEMMA ScheduleShape ==
  ASSUME NEW link \in Links
  PROVE  /\ Schedule(link) \in Links
         /\ \/ Schedule(link).timers = 1
            \/ Schedule(link) = link /\ link.attempts = MaxAttempts
  BY DEF Links, Schedule

\* So does the loss of a link that is to be reconnected; any other leaves the
\* timer as it is.
LEMMA ReconnectShape ==
  ASSUME NEW link \in Links
  PROVE  /\ Reconnect(link) \in Links
         /\ manualClose \/ stage \notin Reconnectable => Reconnect(link) = link
         /\ ~manualClose /\ stage \in Reconnectable =>
              \/ Reconnect(link).timers = 1
              \/ Reconnect(link) = link /\ link.attempts = MaxAttempts
  BY ScheduleShape DEF Reconnect

\* The end of the process leaves nothing behind that could break a promise.
LEMMA ExitInv ==
  ASSUME ClientInv, Exit, manualClose' \in BOOLEAN, attempts' \in 0 .. MaxAttempts,
         stage' \in Stages
  PROVE  ClientInv'
<1>1. NotClosed' = {}
  BY DEF Exit, Unused, NotClosed
<1>2. FlagsOK'
  BY DEF Exit, FlagsOK
<1>3. ClientTypeOK'
  BY <1>2 DEF Exit, Unused, ClientInv, ClientTypeOK, Waits
<1>4. QED
  BY <1>1, <1>3 DEF Exit, ClientInv, OneLinkAtATime, NotStranded, Guarded, Running

\* A step of runAgent that needs the link either has it or ends the process.
LEMMA SendInv ==
  ASSUME ClientInv, NEW next \in Waits, SendAndWait(next),
         manualClose' = manualClose, attempts' = attempts,
         stage' \in Stages,
         stage' = stage \/ stage' \in {"preflight", "migrating"},
         CanSend /\ next = "migrating" => stage' = "migrating"
  PROVE  ClientInv'
<1>1. CASE Exit
  BY <1>1, ExitInv DEF ClientInv, ClientTypeOK, FlagsOK
<1>2. CASE CanSend /\ pc' = next /\ UNCHANGED <<socket, ws, connecting, timers, pongTimer>>
  <2>1. NotClosed' = NotClosed
    BY <1>2 DEF NotClosed
  <2>2. ws \in NotClosed
    BY <1>2 DEF CanSend, NotClosed, ClientInv, ClientTypeOK
  <2>3. QED
    BY <1>2, <2>1, <2>2 DEF ClientInv, ClientTypeOK, FlagsOK, OneLinkAtATime, NotStranded, Guarded
<1>3. QED
  BY <1>1, <1>2 DEF SendAndWait

\* A socket is gone, and the timer was armed if the link was still wanted.
LEMMA LostInv ==
  ASSUME ClientInv, NEW s \in Sockets, socket[s] # "none", Forget(s),
         NEW link \in Links, SetLink(link),
         ~manualClose /\ stage \in Reconnectable => link.timers = 1 \/ link.attempts = MaxAttempts,
         manualClose' = manualClose, UNCHANGED <<stage, pc>>
  PROVE  ClientInv'
<1>1. s \in NotClosed /\ NotClosed' = {}
  BY DEF Forget, NotClosed, ClientInv, ClientTypeOK, OneLinkAtATime
<1>2. ClientTypeOK'
  BY DEF Forget, SetLink, Links, ClientInv, ClientTypeOK, FlagsOK
<1>3. QED
  BY <1>1, <1>2 DEF Forget, SetLink, Links, ClientInv, OneLinkAtATime, NotStranded, Guarded

\* No step of the client or of runAgent breaks a promise, whatever the order.
LEMMA ClientNextInv == ClientInv /\ [ClientNext]_clientVars => ClientInv'
<1> SUFFICES ASSUME ClientInv, [ClientNext]_clientVars PROVE ClientInv'
  OBVIOUS
<1>1. CASE UNCHANGED clientVars
  <2>1. NotClosed' = NotClosed
    BY <1>1 DEF clientVars, NotClosed
  <2>2. QED
    BY <1>1, <2>1 DEF clientVars, ClientInv, ClientTypeOK, FlagsOK, OneLinkAtATime, NotStranded, Guarded, Running
<1>2. CASE ReconnectTimer
  <2>1. NotClosed = {} /\ ~connecting
    BY <1>2 DEF ReconnectTimer, ClientInv, ClientTypeOK, OneLinkAtATime, Guarded
  <2>2. CASE manualClose \/ stage \notin Reconnectable
    <3>1. UNCHANGED <<socket, ws, connecting>> /\ NotClosed' = NotClosed
      BY <1>2, <2>2 DEF ReconnectTimer, NotClosed
    <3>2. QED
      BY <1>2, <2>1, <2>2, <3>1
         DEF ReconnectTimer, ClientInv, ClientTypeOK, FlagsOK, OneLinkAtATime, NotStranded, Guarded, Running
  <2>3. CASE ~manualClose /\ stage \in Reconnectable
    <3>1. PICK s \in Sockets :
            socket' = [socket EXCEPT ![s] = "opening"] /\ ws' = s /\ connecting' = TRUE
      BY <1>2, <2>1, <2>3 DEF ReconnectTimer
    <3>2. NotClosed' = {s}
      BY <2>1, <3>1 DEF NotClosed, ClientInv, ClientTypeOK
    <3>3. ClientTypeOK'
      BY <1>2, <3>1 DEF ReconnectTimer, ClientInv, ClientTypeOK, FlagsOK
    <3>4. timers' = 0 /\ UNCHANGED <<manualClose, attempts, pongTimer, stage, pc>>
      BY <1>2 DEF ReconnectTimer, ClientInv, ClientTypeOK
    <3>5. QED
      BY <3>1, <3>2, <3>3, <3>4 DEF ClientInv, OneLinkAtATime, NotStranded, Guarded
  <2>4. QED
    BY <2>2, <2>3
<1>3. CASE PongTimeout
  <2>1. NotClosed' = NotClosed
    BY <1>3 DEF PongTimeout, Close, NotClosed, ClientInv, ClientTypeOK, FlagsOK, OneLinkAtATime, Guarded
  <2>2. FlagsOK'
    BY <1>3 DEF PongTimeout, Close, ClientInv, ClientTypeOK, FlagsOK
  <2>3. ClientTypeOK'
    BY <1>3, <2>2 DEF PongTimeout, Close, ClientInv, ClientTypeOK
  <2>4. QED
    BY <1>3, <2>1, <2>3 DEF PongTimeout, Close, ClientInv, OneLinkAtATime, NotStranded, Guarded
<1>4. CASE NothingLeft
  BY <1>4, ExitInv DEF NothingLeft, ClientInv, ClientTypeOK, FlagsOK
<1>5. ASSUME NEW s \in Sockets, Pong(s) PROVE ClientInv'
  <2>1. s \in NotClosed /\ NotClosed' = NotClosed
    BY <1>5 DEF Pong, NotClosed
  <2>2. QED
    BY <1>5, <2>1 DEF Pong, ClientInv, ClientTypeOK, FlagsOK, OneLinkAtATime, NotStranded, Guarded, Running
<1>6. ASSUME NEW s \in Sockets, SocketOpens(s) PROVE ClientInv'
  <2>1. s \in NotClosed /\ NotClosed' = NotClosed
    BY <1>6 DEF SocketOpens, NotClosed, ClientInv, ClientTypeOK
  <2>2. FlagsOK'
    BY <1>6 DEF SocketOpens, ClientInv, ClientTypeOK, FlagsOK
  <2>3. ClientTypeOK'
    BY <1>6, <2>2 DEF SocketOpens, ClientInv, ClientTypeOK, Waits
  <2>4. QED
    BY <1>6, <2>1, <2>3 DEF SocketOpens, ClientInv, OneLinkAtATime, NotStranded, Guarded
<1>7. ASSUME NEW s \in Sockets, OpeningFails(s) PROVE ClientInv'
  <2>1. CASE pc = "connect"
    BY <1>7, <2>1, ExitInv DEF OpeningFails, ClientInv, ClientTypeOK, FlagsOK
  <2>2. CASE pc # "connect"
    <3> DEFINE link == Reconnect(Reconnect(Link))
    <3>1. Link \in Links
      BY DEF Link, Links, ClientInv, ClientTypeOK
    <3>2. Reconnect(Link) \in Links
      BY <3>1, ReconnectShape
    <3>3. link \in Links
      BY <3>2, ReconnectShape
    <3>4. ~manualClose /\ stage \in Reconnectable => link.timers = 1 \/ link.attempts = MaxAttempts
      BY <3>2, ReconnectShape
    <3>5. Forget(s) /\ SetLink(link) /\ UNCHANGED <<manualClose, stage, pc>>
      BY <1>7, <2>2 DEF OpeningFails
    <3> HIDE DEF link
    <3>6. QED
      BY <1>7, <3>3, <3>4, <3>5, LostInv DEF OpeningFails
  <2>3. QED
    BY <2>1, <2>2
<1>8. ASSUME NEW s \in Sockets, SocketCloses(s) PROVE ClientInv'
  <2>1. CASE stage = "migrating" /\ ~manualClose
    BY <1>8, <2>1, ExitInv DEF SocketCloses, ClientInv, ClientTypeOK, FlagsOK, Stages
  <2>2. CASE ~(stage = "migrating" /\ ~manualClose)
    <3> DEFINE link == Reconnect(Link)
    <3>1. Link \in Links
      BY DEF Link, Links, ClientInv, ClientTypeOK
    <3>2. link \in Links
      BY <3>1, ReconnectShape
    <3>3. ~manualClose /\ stage \in Reconnectable => link.timers = 1 \/ link.attempts = MaxAttempts
      BY <3>1, ReconnectShape
    <3>4. Forget(s) /\ SetLink(link) /\ UNCHANGED <<manualClose, stage, pc>>
      BY <1>8, <2>2 DEF SocketCloses
    <3> HIDE DEF link
    <3>5. QED
      BY <1>8, <3>2, <3>3, <3>4, LostInv DEF SocketCloses
  <2>3. QED
    BY <2>1, <2>2
<1>9. CASE PeerConnected
  BY <1>9, SendInv DEF PeerConnected, ClientInv, ClientTypeOK, Waits
<1>10. CASE SasConfirmed
  BY <1>10, SendInv DEF SasConfirmed, ClientInv, ClientTypeOK, FlagsOK, Waits, Stages, Reconnectable
<1>11. CASE SasRejected
  BY <1>11, ExitInv DEF SasRejected, ClientInv, ClientTypeOK
<1>12. CASE RunPreflight
  <2>1. NotClosed' = NotClosed
    BY <1>12 DEF RunPreflight, NotClosed
  <2>2. QED
    BY <1>12, <2>1
       DEF RunPreflight, ClientInv, ClientTypeOK, FlagsOK, OneLinkAtATime, NotStranded, Guarded, Running, Waits
<1>13. CASE ChecklistSent
  BY <1>13, SendInv DEF ChecklistSent, ClientInv, ClientTypeOK, Waits, Stages, Reconnectable
<1>14. CASE SessionCancelled
  BY <1>14, ExitInv DEF SessionCancelled, ClientInv, ClientTypeOK
<1>15. QED
  BY <1>1, <1>2, <1>3, <1>4, <1>5, <1>6, <1>7, <1>8, <1>9, <1>10, <1>11, <1>12, <1>13, <1>14
     DEF ClientNext

-----------------------------------------------------------------------------
(* The hub's table and its rooms.                                          *)

\* No two rows share a code, the first session keeps its own, and the agent,
\* which asks by that code, is in no other session's room.
TableInv ==
  /\ code \in [Ids -> Codes \cup {None}]
  /\ code[First] # None
  /\ \A i, j \in Ids : code[i] = code[j] /\ code[i] # None => i = j
  /\ room \in [Sockets -> {First, None}]

IInv == ClientInv /\ TableInv

\* The table starts with the one row, and nobody in its room.
LEMMA InitInv == Init => IInv
<1> SUFFICES ASSUME Init PROVE IInv
  OBVIOUS
<1>1. ClientInv
  BY ClientInitInv DEF Init
<1>2. TableInv
  BY DEF Init, TableInv
<1>3. QED
  BY <1>1, <1>2 DEF IInv

\* Every step of the whole is a step of the client or none of its business.
LEMMA StepOfClient == [Next]_vars => [ClientNext]_clientVars
  BY DEF Next, vars, ClientNext, AgentStep, Accepted, Unreachable, Outside, Cut, Closed,
         OthersConnect, Tick, Expire, CreateSession, HubStops, HubStarts

\* Leaving is the only thing that happens to the rooms when a socket closes.
LEMMA LeaveTable ==
  ASSUME TableInv, Leave, UNCHANGED code
  PROVE  TableInv'
  BY DEF TableInv, Leave

\* Neither a new session nor an agent let in makes a code ambiguous.
LEMMA NextTable == TableInv /\ [Next]_vars => TableInv'
<1> SUFFICES ASSUME TableInv, [Next]_vars PROVE TableInv'
  OBVIOUS
<1>1. ASSUME UNCHANGED <<code, room>> PROVE TableInv'
  BY <1>1 DEF TableInv
<1>2. CASE AgentStep /\ Leave /\ HubUnchanged
  BY <1>2, LeaveTable DEF HubUnchanged
<1>3. ASSUME NEW s \in Sockets, Accepted(s) PROVE TableInv'
  <2>1. code' = code
    BY <1>3 DEF Accepted
  <2>2. CASE room' = room
    BY <1>1, <2>1, <2>2
  <2>3. ASSUME NEW id \in SessionsByCode(code[First]), room' = [room EXCEPT ![s] = id]
        PROVE  TableInv'
    <3>1. id = First
      BY <2>3 DEF SessionsByCode, Rows, TableInv
    <3>2. QED
      BY <2>1, <2>3, <3>1 DEF TableInv
  <2>4. QED
    BY <1>3, <2>2, <2>3 DEF Accepted, LetIn
<1>4. ASSUME NEW s \in Sockets,
             Unreachable(s) \/ Outside(s) \/ Cut(s) \/ Closed(s), HubUnchanged
      PROVE  TableInv'
  BY <1>4, LeaveTable DEF Unreachable, Outside, Cut, Closed, HubUnchanged
<1>5. ASSUME NEW id \in Ids, NEW c \in Codes, CreateSession(id, c) PROVE TableInv'
  <2>1. room' = room /\ id \notin Rows
    BY <1>5 DEF CreateSession
  <2>2. CASE code' = code
    BY <1>1, <2>1, <2>2
  <2>3. CASE c \notin CodesOf(Rows) /\ code' = [code EXCEPT ![id] = c]
    <3>1. id # First /\ c # None
      BY <2>1 DEF Rows, TableInv
    <3>2. \A i \in Ids : code[i] # c
      BY <2>3, <3>1 DEF CodesOf, Rows
    <3>3. QED
      BY <2>1, <2>3, <3>1, <3>2 DEF TableInv
  <2>4. QED
    BY <1>5, <2>2, <2>3 DEF CreateSession, InsertSession
<1>6. CASE OthersConnect \/ Tick \/ (\E id \in Ids : Expire(id)) \/ HubStarts
  BY <1>1, <1>6 DEF OthersConnect, Tick, Expire, HubStarts
<1>7. CASE HubStops
  BY <1>7 DEF HubStops, TableInv
<1>8. CASE UNCHANGED vars
  BY <1>1, <1>8 DEF vars, hubVars
<1>9. QED
  BY <1>2, <1>3, <1>4, <1>5, <1>6, <1>7, <1>8 DEF Next

-----------------------------------------------------------------------------
(* The theorems.                                                           *)

\* The inductive invariant: the client's promises with what guards them, and
\* the codes of the table.
THEOREM Inductive == Spec => []IInv
<1>1. IInv /\ [Next]_vars => IInv'
  BY StepOfClient, ClientNextInv, NextTable DEF IInv
<1>2. QED
  BY InitInv, <1>1, PTL DEF Spec

\* The limiter keeps its count within what it ever asks, whatever the calls.
LEMMA WindowTyped ==
  ASSUME window \in [count : 0 .. RateMax + 1, age : Ages],
         recent \in [0 .. Window -> Nat], restarted \in [0 .. Window -> Nat]
  PROVE  /\ Counted \in [count : 0 .. RateMax + 1, age : Ages]
         /\ NoWindow \in [count : 0 .. RateMax + 1, age : Ages]
         /\ Quiet \in [0 .. Window -> Nat]
         /\ OneMore(recent) \in [0 .. Window -> Nat]
         /\ OneMore(restarted) \in [0 .. Window -> Nat]
         /\ Older(recent) \in [0 .. Window -> Nat] /\ Older(restarted) \in [0 .. Window -> Nat]
<1>1. Counted \in [count : 0 .. RateMax + 1, age : Ages]
  <2>1. CASE window.age > Window
    BY <2>1 DEF Counted, Ages
  <2>2. CASE ~(window.age > Window)
    <3> DEFINE n == IF window.count > RateMax THEN window.count ELSE window.count + 1
    <3>1. n \in 0 .. RateMax + 1
      OBVIOUS
    <3>2. Counted = [window EXCEPT !.count = n]
      BY <2>2 DEF Counted
    <3> HIDE DEF n
    <3>3. QED
      BY <3>1, <3>2
  <2>3. QED
    BY <2>1, <2>2
<1>2. ASSUME NEW f \in [0 .. Window -> Nat] PROVE Older(f) \in [0 .. Window -> Nat]
  <2>1. \A tick \in 0 .. Window : tick # 0 => f[tick - 1] \in Nat
    OBVIOUS
  <2>2. QED
    BY <2>1 DEF Older
<1>3. /\ NoWindow \in [count : 0 .. RateMax + 1, age : Ages]
      /\ Quiet \in [0 .. Window -> Nat]
      /\ OneMore(recent) \in [0 .. Window -> Nat]
      /\ OneMore(restarted) \in [0 .. Window -> Nat]
  BY DEF NoWindow, Quiet, Ages, OneMore
<1>4. QED
  BY <1>1, <1>2, <1>3

\* Every variable of the client and of the hub keeps its type.
THEOREM TypeCorrect == Spec => []TypeOK
<1> DEFINE WindowOK == /\ window \in [count : 0 .. RateMax + 1, age : Ages]
                       /\ recent \in [0 .. Window -> Nat]
                       /\ restarted \in [0 .. Window -> Nat]
           RestOK   == /\ hub \in {"up", "down"}
                       /\ rooms \subseteq Ids /\ expired \subseteq Ids
                       /\ others \in 0 .. MaxOthers /\ restarts \in 0 .. MaxRestarts
<1>1. Init => WindowOK /\ RestOK
  BY DEF Init, NoWindow, Quiet, Ages
<1>2. WindowOK /\ [Next]_vars => WindowOK'
  <2> SUFFICES ASSUME WindowOK, [Next]_vars PROVE WindowOK'
    OBVIOUS
  <2>1. CASE UNCHANGED <<window, recent, restarted>>
    BY <2>1
  <2>2. CASE Connection /\ restarted' = restarted
    BY <2>2, WindowTyped DEF Connection
  <2>3. CASE Tick
    <3>1. window' \in [count : 0 .. RateMax + 1, age : Ages]
      <4>1. CASE window.age > Window
        BY <2>3, <4>1 DEF Tick
      <4>2. CASE ~(window.age > Window)
        <5>1. window.age + 1 \in Ages
          BY <4>2 DEF Ages
        <5>2. window' = [window EXCEPT !.age = window.age + 1]
          BY <2>3, <4>2 DEF Tick
        <5>3. QED
          BY <5>1, <5>2
      <4>3. QED
        BY <4>1, <4>2
    <3>2. recent' \in [0 .. Window -> Nat] /\ restarted' \in [0 .. Window -> Nat]
      BY <2>3, WindowTyped DEF Tick
    <3>3. QED
      BY <3>1, <3>2
  <2>4. CASE HubStops
    BY <2>4, WindowTyped DEF HubStops
  <2>5. QED
    BY <2>1, <2>2, <2>3, <2>4
       DEF Next, vars, hubVars, HubUnchanged, Accepted, OthersConnect, Expire,
           CreateSession, HubStarts
<1>3. RestOK /\ [Next]_vars => RestOK'
  <2> SUFFICES ASSUME RestOK, [Next]_vars PROVE RestOK'
    OBVIOUS
  <2>1. CASE UNCHANGED <<hub, rooms, expired, others, restarts>>
    BY <2>1
  <2>2. ASSUME NEW s \in Sockets, Accepted(s) PROVE RestOK'
    BY <2>2 DEF Accepted, LetIn, SessionsByCode, Rows
  <2>3. ASSUME NEW id \in Ids, NEW c \in Codes, CreateSession(id, c) PROVE RestOK'
    BY <2>3 DEF CreateSession, InsertSession
  <2>4. CASE OthersConnect \/ HubStops \/ HubStarts \/ \E id \in Ids : Expire(id)
    BY <2>4 DEF OthersConnect, HubStops, HubStarts, Expire
  <2>5. QED
    BY <2>1, <2>2, <2>3, <2>4 DEF Next, vars, hubVars, HubUnchanged, Tick
<1>4. IInv /\ WindowOK /\ RestOK => TypeOK
  BY DEF IInv, ClientInv, ClientTypeOK, FlagsOK, TableInv, TypeOK
<1> HIDE DEF WindowOK, RestOK
<1>5. QED
  BY <1>1, <1>2, <1>3, <1>4, Inductive, PTL DEF Spec

\* However openings fail, refusals, late closes and late pongs are ordered,
\* the client never has two sockets, or a timer beside one.
THEOREM OneLinkHolds == Spec => []OneLinkAtATime
<1>1. IInv => OneLinkAtATime
  BY DEF IInv, ClientInv
<1>2. QED
  BY <1>1, Inductive, PTL

\* An agent that wants its link has one, or a timer, or spent every attempt.
THEOREM NotStrandedHolds == Spec => []NotStranded
<1>1. IInv => NotStranded
  BY DEF IInv, ClientInv
<1>2. QED
  BY <1>1, Inductive, PTL

\* A code leads to the session it was issued for, whatever the registry knew
\* when later codes were drawn.
THEOREM CodeLeadsHomeHolds == Spec => []CodeLeadsHome
<1>1. IInv => CodeLeadsHome
  BY DEF IInv, TableInv, CodeLeadsHome
<1>2. QED
  BY <1>1, Inductive, PTL

\* After the checklist no socket is opened, whichever timer is still armed.
THEOREM NeverReopensHolds == Spec => NeverReopens
<1>1. ASSUME IInv, [Next]_vars, pc = "migrating", NEW s \in Sockets, socket'[s] = "opening"
      PROVE  socket[s] = "opening"
  <2>1. stage = "migrating" /\ socket \in [Sockets -> {"none", "opening", "open", "closing"}]
    BY <1>1 DEF IInv, ClientInv, ClientTypeOK, Guarded
  <2>2. [ClientNext]_clientVars
    BY <1>1, StepOfClient
  <2>3. QED
    BY <1>1, <2>1, <2>2
       DEF clientVars, ClientNext, ReconnectTimer, Reconnectable, PongTimeout, Close,
           NothingLeft, Pong, SocketOpens, OpeningFails, SocketCloses, Exit, Unused, Forget,
           PeerConnected, SasConfirmed, SasRejected, RunPreflight, ChecklistSent,
           SessionCancelled, SendAndWait
<1>2. IInv /\ [Next]_vars =>
        (pc = "migrating" =>
           \A s \in Sockets : socket'[s] = "opening" => socket[s] = "opening")
  BY <1>1
<1>3. QED
  BY <1>2, Inductive, PTL DEF Spec, NeverReopens

-----------------------------------------------------------------------------
(* The sum that MapThenSumSet folds in an order of its choice.             *)

\* The function that MapThenSumSet is the value of, at S.
Folds(f, S, total) ==
  total = [s \in SUBSET S |->
             IF s = {} THEN 0
             ELSE f[CHOOSE x \in s : TRUE] + total[s \ {CHOOSE x \in s : TRUE}]]

\* A function that sums f whichever element is taken first.
Sums(f, S, total) ==
  /\ total \in [SUBSET S -> Nat] /\ total[{}] = 0
  /\ \A s \in SUBSET S : \A x \in s : total[s] = f[x] + total[s \ {x}]

\* p[n] is the sum of f over the first n ticks, of k.
Prefixes(f, k, p) ==
  /\ p \in [0 .. k -> Nat] /\ p[0] = 0
  /\ \A n \in 0 .. k - 1 : p[n + 1] = p[n] + f[n]

\* What sums in any order is what folds.
LEMMA SumsFold ==
  ASSUME NEW f, NEW S, NEW total, Sums(f, S, total)
  PROVE  Folds(f, S, total)
<1>1. ASSUME NEW s \in SUBSET S
      PROVE  total[s] = IF s = {} THEN 0
                        ELSE f[CHOOSE x \in s : TRUE] + total[s \ {CHOOSE x \in s : TRUE}]
  <2>1. CASE s = {}
    BY <2>1 DEF Sums
  <2>2. CASE s # {}
    <3>1. (CHOOSE x \in s : TRUE) \in s
      BY <2>2
    <3>2. QED
      BY <2>2, <3>1 DEF Sums
  <2>3. QED
    BY <2>1, <2>2
<1>2. total = [s \in SUBSET S |-> total[s]]
  BY DEF Sums
<1>3. QED
  BY <1>1, <1>2 DEF Folds

\* There is one such function at most.
LEMMA FoldsUnique ==
  ASSUME NEW f, NEW S, IsFiniteSet(S), NEW g, NEW h, Folds(f, S, g), Folds(f, S, h)
  PROVE  g[S] = h[S]
<1> DEFINE T == {n \in Nat : \A s \in SUBSET S : Cardinality(s) = n => g[s] = h[s]}
<1>1. \A s \in SUBSET S : IsFiniteSet(s) /\ Cardinality(s) \in Nat
  BY FS_Subset, FS_CardinalityType
<1>2. 0 \in T
  <2>1. \A s \in SUBSET S : Cardinality(s) = 0 => s = {}
    BY <1>1, FS_EmptySet
  <2>2. g[{}] = 0 /\ h[{}] = 0
    BY DEF Folds
  <2>3. QED
    BY <2>1, <2>2
<1>3. ASSUME NEW n \in Nat, n \in T PROVE n + 1 \in T
  <2> SUFFICES ASSUME NEW s \in SUBSET S, Cardinality(s) = n + 1 PROVE g[s] = h[s]
    OBVIOUS
  <2> DEFINE x == CHOOSE x \in s : TRUE
  <2>1. s # {}
    <3>1. Cardinality(s) # 0
      OBVIOUS
    <3>2. QED
      BY <3>1, FS_EmptySet
  <2>2. x \in s
    BY <2>1
  <2>3. g[s] = f[x] + g[s \ {x}] /\ h[s] = f[x] + h[s \ {x}]
    BY <2>1 DEF Folds
  <2> HIDE DEF x
  <2>4. Cardinality(s \ {x}) = n /\ s \ {x} \in SUBSET S
    <3>1. Cardinality(s \ {x}) = Cardinality(s) - 1
      BY <1>1, <2>2, FS_RemoveElement
    <3>2. QED
      BY <3>1
  <2>5. g[s \ {x}] = h[s \ {x}]
    BY <1>3, <2>4
  <2>6. QED
    BY <2>3, <2>5
<1> HIDE DEF T
<1>4. Nat \subseteq T
  BY <1>2, <1>3, InductionInSet
<1>5. S \in SUBSET S /\ Cardinality(S) \in T
  BY <1>1, <1>4
<1>6. QED
  BY <1>5 DEF T

\* So MapThenSumSet is what it should be, if there is anything that sums.
LEMMA SumIs ==
  ASSUME NEW f, NEW S, IsFiniteSet(S), NEW total, Sums(f, S, total)
  PROVE  MapThenSumSet(LAMBDA x : f[x], S) = total[S]
<1> DEFINE chosen == CHOOSE g : Folds(f, S, g)
<1>1. Folds(f, S, total)
  BY SumsFold
<1>2. Folds(f, S, chosen)
  BY <1>1
<1>3. MapThenSumSet(LAMBDA x : f[x], S) = chosen[S]
  BY DEF MapThenSumSet, MapThenFoldSet, Folds
<1> HIDE DEF chosen
<1>4. QED
  BY <1>1, <1>2, <1>3, FoldsUnique

\* With one more tick there is.
LEMMA SumsMore ==
  ASSUME NEW f, NEW n \in Nat, \A x \in 0 .. n : f[x] \in Nat,
         NEW total, Sums(f, 0 .. n - 1, total)
  PROVE  \E more : Sums(f, 0 .. n, more) /\ more[0 .. n] = f[n] + total[0 .. n - 1]
<1> DEFINE more == [s \in SUBSET (0 .. n) |->
                      IF n \in s THEN f[n] + total[s \ {n}] ELSE total[s]]
<1>1. \A s \in SUBSET (0 .. n) : s \ {n} \in SUBSET (0 .. n - 1)
  OBVIOUS
<1>2. \A s \in SUBSET (0 .. n) : n \notin s => s \in SUBSET (0 .. n - 1)
  OBVIOUS
<1>3. \A s \in SUBSET (0 .. n - 1) : total[s] \in Nat
  BY DEF Sums
<1>4. more \in [SUBSET (0 .. n) -> Nat]
  BY <1>1, <1>2, <1>3
<1>5. \A s \in SUBSET (0 .. n) :
        more[s] = IF n \in s THEN f[n] + total[s \ {n}] ELSE total[s]
  OBVIOUS
<1> HIDE DEF more
<1>6. more[{}] = 0
  BY <1>5 DEF Sums
<1>7. ASSUME NEW s \in SUBSET (0 .. n), NEW x \in s
      PROVE  more[s] = f[x] + more[s \ {x}]
  <2>1. s \ {x} \in SUBSET (0 .. n)
    OBVIOUS
  <2>2. CASE n \notin s
    <3>1. total[s] = f[x] + total[s \ {x}]
      BY <1>2, <2>2 DEF Sums
    <3>2. QED
      BY <1>5, <2>1, <2>2, <3>1
  <2>3. CASE x = n
    <3>1. n \in s /\ n \notin s \ {x}
      BY <2>3
    <3>2. more[s] = f[n] + total[s \ {n}] /\ more[s \ {x}] = total[s \ {x}]
      BY <1>5, <2>1, <3>1
    <3>3. QED
      BY <2>3, <3>2
  <2>4. CASE n \in s /\ x # n
    <3> DEFINE r == s \ {n}
    <3>1. r \in SUBSET (0 .. n - 1) /\ x \in r
      BY <1>1, <2>4
    <3>2. total[r] = f[x] + total[r \ {x}]
      BY <3>1 DEF Sums
    <3>3. r \ {x} = (s \ {x}) \ {n} /\ n \in s \ {x}
      BY <2>4
    <3>4. more[s] = f[n] + total[r] /\ more[s \ {x}] = f[n] + total[r \ {x}]
      BY <1>5, <2>1, <2>4, <3>3
    <3>5. total[r] \in Nat /\ total[r \ {x}] \in Nat /\ r \ {x} \in SUBSET (0 .. n - 1)
      BY <1>3, <3>1
    <3>6. f[x] \in Nat /\ f[n] \in Nat
      OBVIOUS
    <3> HIDE DEF r
    <3>7. QED
      BY <3>2, <3>4, <3>5, <3>6
  <2>5. QED
    BY <2>2, <2>3, <2>4
<1>8. Sums(f, 0 .. n, more)
  BY <1>4, <1>6, <1>7 DEF Sums
<1>9. (0 .. n) \ {n} = 0 .. n - 1 /\ n \in 0 .. n /\ 0 .. n \in SUBSET (0 .. n)
  OBVIOUS
<1>10. more[0 .. n] = f[n] + total[0 .. n - 1]
  BY <1>5, <1>9
<1>11. QED
  BY <1>8, <1>10

\* The sum over all ticks is the last of the prefixes.
LEMMA SumIsLast ==
  ASSUME NEW k \in Nat, NEW f \in [0 .. k -> Nat], NEW p, Prefixes(f, k + 1, p)
  PROVE  MapThenSumSet(LAMBDA x : f[x], 0 .. k) = p[k + 1]
<1> DEFINE T == {n \in Nat : n <= k + 1 =>
                   \E total : Sums(f, 0 .. n - 1, total) /\ total[0 .. n - 1] = p[n]}
<1>1. 0 \in T
  <2> DEFINE none == [s \in SUBSET {} |-> 0]
  <2>1. 0 .. 0 - 1 = {} /\ {} \in SUBSET {}
    OBVIOUS
  <2>2. none \in [SUBSET {} -> Nat] /\ none[{}] = 0 /\ \A s \in SUBSET {} : s = {}
    OBVIOUS
  <2> HIDE DEF none
  <2>3. Sums(f, 0 .. 0 - 1, none) /\ none[0 .. 0 - 1] = p[0]
    BY <2>1, <2>2 DEF Sums, Prefixes
  <2>4. QED
    BY <2>3
<1>2. ASSUME NEW n \in Nat, n \in T PROVE n + 1 \in T
  <2> SUFFICES ASSUME n + 1 <= k + 1
               PROVE  \E total : Sums(f, 0 .. (n + 1) - 1, total)
                                   /\ total[0 .. (n + 1) - 1] = p[n + 1]
    OBVIOUS
  <2>1. n \in 0 .. k /\ (n + 1) - 1 = n /\ n <= k + 1 /\ n \in 0 .. (k + 1) - 1
    OBVIOUS
  <2>2. PICK total : Sums(f, 0 .. n - 1, total) /\ total[0 .. n - 1] = p[n]
    BY <1>2, <2>1
  <2>3. f[n] \in Nat /\ \A x \in 0 .. n : f[x] \in Nat
    BY <2>1
  <2>4. PICK more : Sums(f, 0 .. n, more) /\ more[0 .. n] = f[n] + total[0 .. n - 1]
    BY <2>2, <2>3, SumsMore
  <2>5. p[n + 1] = p[n] + f[n] /\ p[n] \in Nat
    BY <2>1 DEF Prefixes
  <2>6. more[0 .. n] = p[n + 1]
    BY <2>2, <2>3, <2>4, <2>5
  <2>7. QED
    BY <2>1, <2>4, <2>6
<1> HIDE DEF T
<1>3. k + 1 \in T
  BY <1>1, <1>2, InductionInSet
<1>4. PICK total : Sums(f, 0 .. (k + 1) - 1, total) /\ total[0 .. (k + 1) - 1] = p[k + 1]
  BY <1>3 DEF T
<1>5. (k + 1) - 1 = k /\ IsFiniteSet(0 .. k)
  BY FS_Interval
<1>6. Sums(f, 0 .. k, total) /\ total[0 .. k] = p[k + 1]
  BY <1>4, <1>5
<1>7. QED
  BY <1>5, <1>6, SumIs

-----------------------------------------------------------------------------
(* The limiter.                                                            *)

\* A tick later the sums are those of one tick less.
LEMMA OlderSums ==
  ASSUME NEW f \in [0 .. Window -> Nat], NEW p, Prefixes(f, Window + 1, p)
  PROVE  /\ Older(f) \in [0 .. Window -> Nat]
         /\ \E q : /\ Prefixes(Older(f), Window + 1, q)
                   /\ \A n \in 1 .. Window + 1 : q[n] = p[n - 1]
<1>1. /\ p \in [0 .. Window + 1 -> Nat] /\ p[0] = 0
      /\ \A n \in 0 .. Window : p[n + 1] = p[n] + f[n]
  BY DEF Prefixes
<1> DEFINE g == Older(f)
<1>2. g \in [0 .. Window -> Nat] /\ \A n \in 0 .. Window : g[n] = IF n = 0 THEN 0 ELSE f[n - 1]
  <2>1. \A tick \in 0 .. Window : tick # 0 => f[tick - 1] \in Nat
    OBVIOUS
  <2>2. QED
    BY <2>1 DEF Older
<1> DEFINE q == [n \in 0 .. Window + 1 |-> IF n = 0 THEN 0 ELSE p[n - 1]]
<1>3. /\ q \in [0 .. Window + 1 -> Nat] /\ q[0] = 0
      /\ \A n \in 1 .. Window + 1 : q[n] = p[n - 1]
  <2>1. \A n \in 1 .. Window + 1 : n - 1 \in 0 .. Window + 1
    OBVIOUS
  <2>2. QED
    BY <1>1, <2>1
<1> HIDE DEF g, q
<1>4. ASSUME NEW n \in 0 .. (Window + 1) - 1 PROVE q[n + 1] = q[n] + g[n]
  <2>1. n + 1 \in 1 .. Window + 1 /\ (n + 1) - 1 = n /\ n \in 0 .. Window
    OBVIOUS
  <2>2. q[n + 1] = p[n]
    BY <1>3, <2>1
  <2>3. CASE n = 0
    BY <1>1, <1>2, <1>3, <2>1, <2>2, <2>3
  <2>4. CASE n # 0
    <3>1. n \in 1 .. Window + 1 /\ n - 1 \in 0 .. Window /\ (n - 1) + 1 = n
      BY <2>4
    <3>2. p[(n - 1) + 1] = p[n - 1] + f[n - 1]
      BY <1>1, <3>1
    <3>3. q[n] = p[n - 1] /\ g[n] = f[n - 1] /\ p[n] = p[n - 1] + f[n - 1]
      BY <1>2, <1>3, <2>1, <2>4, <3>1, <3>2
    <3>4. QED
      BY <2>2, <3>3
  <2>5. QED
    BY <2>3, <2>4
<1>5. Prefixes(g, Window + 1, q)
  BY <1>3, <1>4 DEF Prefixes
<1>6. QED
  BY <1>2, <1>3, <1>5 DEF g

\* One more in this tick is one more in every sum.
LEMMA OneMoreSums ==
  ASSUME NEW f \in [0 .. Window -> Nat], NEW p, Prefixes(f, Window + 1, p)
  PROVE  /\ OneMore(f) \in [0 .. Window -> Nat]
         /\ \E q : /\ Prefixes(OneMore(f), Window + 1, q)
                   /\ \A n \in 1 .. Window + 1 : q[n] = p[n] + 1
<1> DEFINE g == OneMore(f)
<1>1. /\ p \in [0 .. Window + 1 -> Nat] /\ p[0] = 0
      /\ \A n \in 0 .. Window : p[n + 1] = p[n] + f[n]
  <2>1. (Window + 1) - 1 = Window
    OBVIOUS
  <2>2. QED
    BY <2>1 DEF Prefixes
<1>2. /\ g \in [0 .. Window -> Nat] /\ g[0] = f[0] + 1 /\ f[0] \in Nat
      /\ \A n \in 1 .. Window : g[n] = f[n]
  BY DEF OneMore
<1> DEFINE q == [n \in 0 .. Window + 1 |-> IF n = 0 THEN 0 ELSE p[n] + 1]
<1>3. /\ q \in [0 .. Window + 1 -> Nat] /\ q[0] = 0
      /\ \A n \in 1 .. Window + 1 : q[n] = p[n] + 1
  BY <1>1
<1> HIDE DEF g, q
<1>4. ASSUME NEW n \in 0 .. (Window + 1) - 1 PROVE q[n + 1] = q[n] + g[n]
  <2>1. p[n + 1] = p[n] + f[n] /\ p[n] \in Nat /\ f[n] \in Nat
    BY <1>1
  <2>2. q[n + 1] = p[n + 1] + 1
    BY <1>3
  <2>3. CASE n = 0
    BY <1>1, <1>2, <1>3, <2>1, <2>2, <2>3
  <2>4. CASE n # 0
    <3>1. n \in 1 .. Window /\ n \in 1 .. Window + 1
      BY <2>4
    <3>2. q[n] = p[n] + 1 /\ g[n] = f[n]
      BY <1>2, <1>3, <3>1
    <3>3. QED
      BY <2>1, <2>2, <3>2
  <2>5. QED
    BY <2>3, <2>4
<1>5. Prefixes(g, Window + 1, q)
  BY <1>3, <1>4 DEF Prefixes
<1>6. QED
  BY <1>2, <1>3, <1>5 DEF g

\* Nothing has happened yet.
LEMMA QuietSums ==
  /\ Quiet \in [0 .. Window -> Nat]
  /\ \E p : Prefixes(Quiet, Window + 1, p) /\ \A n \in 0 .. Window + 1 : p[n] = 0
<1> DEFINE p == [n \in 0 .. Window + 1 |-> 0]
<1>1. Quiet \in [0 .. Window -> Nat] /\ \A n \in 0 .. Window : Quiet[n] = 0
  BY DEF Quiet
<1>2. /\ p \in [0 .. Window + 1 -> Nat] /\ \A n \in 0 .. Window + 1 : p[n] = 0
      /\ \A n \in 0 .. (Window + 1) - 1 : p[n + 1] = p[n] + 0 /\ n \in 0 .. Window
  OBVIOUS
<1> HIDE DEF p
<1>3. p[0] = 0
  BY <1>2
<1>4. Prefixes(Quiet, Window + 1, p)
  BY <1>1, <1>2, <1>3 DEF Prefixes
<1>5. QED
  BY <1>1, <1>2, <1>4

Windows == [count : 0 .. RateMax + 1, age : Ages]

\* What a window let pass in the last n ticks, and the one before it: a window
\* is opened by a connection it lets pass, and one that ended did so before
\* these ticks or let that connection pass before them.
Share(w, n) ==
  (IF n <= w.age THEN 0 ELSE 1) + (IF w.count > RateMax THEN RateMax ELSE w.count) - 1

Before(n, age) == IF n > age + 1 THEN RateMax - 1 ELSE 0

Bound(w, n) ==
  IF w.age > Window THEN Before(n, 0) ELSE Before(n, w.age) + Share(w, n)

\* Each stop of the hub adds what one window may let pass.
Passed(p, q) ==
  /\ Prefixes(recent, Window + 1, p) /\ Prefixes(restarted, Window + 1, q)
  /\ \A n \in 0 .. Window + 1 : p[n] <= q[n] * RateMax + Bound(window, n)

LimiterInv ==
  /\ window \in Windows
  /\ window.age <= Window => window.count > 0
  /\ recent \in [0 .. Window -> Nat] /\ restarted \in [0 .. Window -> Nat]
  /\ \E p, q : Passed(p, q)

LEMMA Limits ==
  /\ RateMax \in Nat /\ RateMax > 0
  /\ \A m \in Nat : m * RateMax \in Nat /\ (m + 1) * RateMax = m * RateMax + RateMax
  /\ \A w \in Windows, n \in 0 .. Window + 1 :
       /\ Bound(w, n) \in Int
       /\ (w.age <= Window => w.count > 0) => Bound(w, n) >= 0 /\ Bound(w, n) < 2 * RateMax
<1>1. \A m \in Nat : m * RateMax \in Nat /\ (m + 1) * RateMax = m * RateMax + RateMax
  OBVIOUS
<1>2. ASSUME NEW w \in Windows, NEW n \in 0 .. Window + 1
      PROVE  /\ Bound(w, n) \in Int
             /\ (w.age <= Window => w.count > 0) =>
                  Bound(w, n) >= 0 /\ Bound(w, n) < 2 * RateMax
  <2>1. w.age \in Nat /\ w.count \in Nat
    BY DEF Windows, Ages
  <2>2. Before(n, 0) \in 0 .. RateMax - 1 /\ Before(n, w.age) \in 0 .. RateMax - 1
    BY <2>1 DEF Before
  <2>3. /\ Share(w, n) \in Int /\ Share(w, n) <= RateMax
        /\ w.count > 0 => Share(w, n) >= 0
    BY <2>1 DEF Share
  <2>4. QED
    BY <2>1, <2>2, <2>3 DEF Bound
<1>3. QED
  BY <1>1, <1>2

\* A connection is let pass or not.
LEMMA ConnectionInv ==
  ASSUME LimiterInv, Connection, restarted' = restarted
  PROVE  LimiterInv'
<1>1. /\ window \in Windows /\ window.age \in Nat /\ window.count \in Nat
      /\ window.age <= Window => window.count > 0
      /\ recent \in [0 .. Window -> Nat] /\ restarted \in [0 .. Window -> Nat]
  BY DEF LimiterInv, Windows, Ages
<1>2. PICK p, q : Passed(p, q)
  BY DEF LimiterInv
<1>3. /\ p \in [0 .. Window + 1 -> Nat] /\ p[0] = 0 /\ q \in [0 .. Window + 1 -> Nat]
      /\ Prefixes(recent, Window + 1, p) /\ Prefixes(restarted, Window + 1, q)
      /\ \A n \in 0 .. Window + 1 : p[n] <= q[n] * RateMax + Bound(window, n)
  BY <1>2 DEF Passed, Prefixes
<1>4. \A n \in 0 .. Window + 1 : q[n] * RateMax \in Nat /\ p[n] \in Nat
  BY <1>3, Limits
<1>5. window' \in Windows /\ window' = Counted
  BY <1>1, WindowTyped DEF Connection, Windows
<1>6. window'.age <= Window => window'.count > 0
  BY <1>1, <1>5 DEF Counted, Windows
<1>7. CASE Exceeded
  <2>1. /\ window.age <= Window /\ recent' = recent
        /\ window'.age = window.age /\ window'.count >= window.count
    BY <1>1, <1>5, <1>7 DEF Exceeded, Connection, Counted, Windows
  <2>2. \A n \in 0 .. Window + 1 : Bound(window', n) >= Bound(window, n)
    BY <1>1, <1>5, <2>1 DEF Bound, Share, Windows, Before
  <2>3. Passed(p, q)'
    <3>1. ASSUME NEW n \in 0 .. Window + 1 PROVE p[n] <= q[n] * RateMax + Bound(window', n)
      <4>1. Bound(window, n) \in Int /\ Bound(window', n) \in Int
        BY <1>1, <1>5, Limits
      <4>2. QED
        BY <1>3, <1>4, <2>2, <4>1
    <3>2. QED
      BY <1>3, <2>1, <3>1 DEF Passed
  <2>4. QED
    BY <1>1, <1>5, <1>6, <2>1, <2>3 DEF LimiterInv
<1>8. CASE ~Exceeded
  <2>1. recent' = OneMore(recent) /\ recent' \in [0 .. Window -> Nat]
    BY <1>1, <1>8, WindowTyped DEF Connection, Windows
  <2>2. \E s : /\ Prefixes(OneMore(recent), Window + 1, s)
               /\ \A n \in 1 .. Window + 1 : s[n] = p[n] + 1
    BY <1>1, <1>3, OneMoreSums
  <2>3. PICK s : /\ Prefixes(recent', Window + 1, s)
                 /\ \A n \in 1 .. Window + 1 : s[n] = p[n] + 1
    BY <2>1, <2>2
  <2>4. ASSUME NEW n \in 1 .. Window + 1
        PROVE  Bound(window', n) >= Bound(window, n) + 1
    <3>1. CASE window.age > Window
      <4>1. window'.count = 1 /\ window'.age = 0
        BY <1>5, <3>1 DEF Counted
      <4>2. QED
        BY <3>1, <4>1, Limits DEF Bound, Share, Before
    <3>2. CASE window.age <= Window
      <4>1. Counted.count <= RateMax /\ Counted.age = window.age
        BY <1>1, <1>5, <1>8, <3>2 DEF Exceeded, Counted, Windows
      <4>2. Counted.count = window.count + 1
        BY <1>1, <3>2, <4>1 DEF Counted, Windows
      <4>3. /\ Before(n, Counted.age) = Before(n, window.age)
            /\ Share(Counted, n) = Share(window, n) + 1
            /\ Before(n, window.age) \in Int /\ Share(window, n) \in Int
        BY <1>1, <3>2, <4>1, <4>2 DEF Share, Before
      <4>4. QED
        BY <1>1, <1>5, <3>2, <4>1, <4>3 DEF Bound
    <3>3. QED
      BY <1>1, <3>1, <3>2
  <2>5. Passed(s, q)'
    <3>1. ASSUME NEW n \in 0 .. Window + 1 PROVE s[n] <= q[n] * RateMax + Bound(window', n)
      <4>1. Bound(window, n) \in Int /\ Bound(window', n) \in Int /\ Bound(window', n) >= 0
        BY <1>1, <1>5, <1>6, Limits
      <4>2. CASE n = 0
        <5>1. s[n] = 0
          BY <2>3, <4>2 DEF Prefixes
        <5>2. QED
          BY <1>4, <4>1, <5>1
      <4>3. CASE n # 0
        <5>1. s[n] = p[n] + 1 /\ Bound(window', n) >= Bound(window, n) + 1
          BY <2>3, <2>4, <4>3
        <5>2. QED
          BY <1>3, <1>4, <4>1, <5>1
      <4>4. QED
        BY <4>2, <4>3
    <3>2. QED
      BY <1>3, <2>3, <3>1 DEF Passed
  <2>6. QED
    BY <1>1, <1>5, <1>6, <2>1, <2>5 DEF LimiterInv
<1>9. QED
  BY <1>7, <1>8

\* A tick later everything is one tick older, and the oldest is forgotten.
LEMMA TickInv ==
  ASSUME LimiterInv, Tick
  PROVE  LimiterInv'
<1>1. /\ window \in Windows /\ window.age \in Nat /\ window.count \in Nat
      /\ window.age <= Window => window.count > 0
      /\ recent \in [0 .. Window -> Nat] /\ restarted \in [0 .. Window -> Nat]
  BY DEF LimiterInv, Windows, Ages
<1>2. PICK p, q : Passed(p, q)
  BY DEF LimiterInv
<1>3. /\ p \in [0 .. Window + 1 -> Nat] /\ q \in [0 .. Window + 1 -> Nat]
      /\ Prefixes(recent, Window + 1, p) /\ Prefixes(restarted, Window + 1, q)
      /\ \A n \in 0 .. Window + 1 : p[n] <= q[n] * RateMax + Bound(window, n)
  BY <1>2 DEF Passed, Prefixes
<1>4. /\ window' = IF window.age > Window THEN window
                                          ELSE [window EXCEPT !.age = window.age + 1]
      /\ recent' = Older(recent) /\ restarted' = Older(restarted)
  BY DEF Tick
<1>5. /\ window' \in Windows /\ window'.count = window.count
      /\ window'.age = IF window.age > Window THEN window.age ELSE window.age + 1
  BY <1>1, <1>4 DEF Windows, Ages
<1>6. window'.age <= Window => window'.count > 0
  BY <1>1, <1>5
<1>7. recent' \in [0 .. Window -> Nat] /\ restarted' \in [0 .. Window -> Nat]
  BY <1>1, <1>3, <1>4, OlderSums
<1>8. PICK s : /\ Prefixes(recent', Window + 1, s)
               /\ \A n \in 1 .. Window + 1 : s[n] = p[n - 1]
  <2>1. \E s : /\ Prefixes(Older(recent), Window + 1, s)
               /\ \A n \in 1 .. Window + 1 : s[n] = p[n - 1]
    BY <1>1, <1>3, OlderSums
  <2>2. QED
    BY <1>4, <2>1
<1>9. PICK t : /\ Prefixes(restarted', Window + 1, t)
               /\ \A n \in 1 .. Window + 1 : t[n] = q[n - 1]
  <2>1. \E t : /\ Prefixes(Older(restarted), Window + 1, t)
               /\ \A n \in 1 .. Window + 1 : t[n] = q[n - 1]
    BY <1>1, <1>3, OlderSums
  <2>2. QED
    BY <1>4, <2>1
<1>10. ASSUME NEW n \in 2 .. Window + 1
       PROVE  Bound(window', n) >= Bound(window, n - 1)
  <2>1. CASE window.age > Window
    BY <1>1, <1>5, <2>1 DEF Bound, Before
  <2>2. CASE window.age = Window
    <3>1. window'.age > Window /\ ~(n - 1 > window.age + 1) /\ n - 1 <= window.age
      BY <1>5, <2>2
    <3>2. Bound(window', n) = Before(n, 0)
      BY <3>1 DEF Bound
    <3>3. Bound(window, n - 1) = Share(window, n - 1)
      BY <1>1, <2>2, <3>1 DEF Bound, Before, Share
    <3>4. Share(window, n - 1) <= RateMax - 1 /\ Share(window, n - 1) \in Int
      BY <1>1, <3>1 DEF Share
    <3>5. QED
      BY <3>2, <3>3, <3>4 DEF Before
  <2>3. CASE window.age < Window
    <3>1. window'.age = window.age + 1 /\ window'.age <= Window /\ window'.count = window.count
      BY <1>1, <1>5, <2>3
    <3>2. Bound(window', n) = Bound(window, n - 1)
      BY <1>1, <2>3, <3>1 DEF Bound, Share, Before
    <3>3. Bound(window, n - 1) \in Int
      BY <1>1, Limits
    <3>4. QED
      BY <3>2, <3>3
  <2>4. QED
    BY <1>1, <2>1, <2>2, <2>3
<1>11. ASSUME NEW n \in 0 .. Window + 1 PROVE s[n] <= t[n] * RateMax + Bound(window', n)
  <2>1. Bound(window', n) \in Int /\ Bound(window', n) >= 0
    BY <1>5, <1>6, Limits
  <2>2. CASE n = 0 \/ n = 1
    <3>1. s[n] = 0
      BY <1>3, <1>8, <2>2 DEF Prefixes
    <3>2. t[n] \in Nat
      BY <1>9 DEF Prefixes
    <3>3. t[n] * RateMax \in Nat
      BY <3>2, Limits
    <3>4. QED
      BY <2>1, <3>1, <3>3
  <2>3. CASE ~(n = 0 \/ n = 1)
    <3> DEFINE m == n - 1
    <3>1. m \in 0 .. Window + 1 /\ s[n] = p[m] /\ t[n] = q[m]
      BY <1>8, <1>9, <2>3
    <3>2. p[m] <= q[m] * RateMax + Bound(window, m)
      BY <1>3, <3>1
    <3>3. Bound(window', n) >= Bound(window, m)
      BY <1>10, <2>3
    <3> HIDE DEF m
    <3>4. Bound(window, m) \in Int /\ q[m] * RateMax \in Nat /\ p[m] \in Nat
      BY <1>1, <1>3, <3>1, Limits
    <3>5. QED
      BY <2>1, <3>1, <3>2, <3>3, <3>4
  <2>4. QED
    BY <2>2, <2>3
<1>12. Passed(s, t)'
  BY <1>8, <1>9, <1>11 DEF Passed
<1>13. QED
  BY <1>5, <1>6, <1>7, <1>12 DEF LimiterInv

\* With the hub the counts are gone; what they let pass before is not.
LEMMA HubStopsInv ==
  ASSUME LimiterInv, HubStops
  PROVE  LimiterInv'
<1>1. /\ window \in Windows /\ (window.age <= Window => window.count > 0)
      /\ recent \in [0 .. Window -> Nat] /\ restarted \in [0 .. Window -> Nat]
  BY DEF LimiterInv
<1>2. PICK p, q : Passed(p, q)
  BY DEF LimiterInv
<1>3. /\ p \in [0 .. Window + 1 -> Nat] /\ p[0] = 0 /\ q \in [0 .. Window + 1 -> Nat]
      /\ Prefixes(recent, Window + 1, p) /\ Prefixes(restarted, Window + 1, q)
      /\ \A n \in 0 .. Window + 1 : p[n] <= q[n] * RateMax + Bound(window, n)
  BY <1>2 DEF Passed, Prefixes
<1>4. /\ window' = NoWindow /\ recent' = recent
      /\ restarted' = OneMore(restarted)
  BY DEF HubStops
<1>5. window' \in Windows /\ window'.age = Window + 1
  BY <1>4 DEF NoWindow, Windows, Ages
<1>6. restarted' \in [0 .. Window -> Nat]
  BY <1>1, <1>4, WindowTyped DEF Windows
<1>7. PICK t : /\ Prefixes(restarted', Window + 1, t)
               /\ \A n \in 1 .. Window + 1 : t[n] = q[n] + 1
  <2>1. \E t : /\ Prefixes(OneMore(restarted), Window + 1, t)
               /\ \A n \in 1 .. Window + 1 : t[n] = q[n] + 1
    BY <1>1, <1>3, OneMoreSums
  <2>2. QED
    BY <1>4, <2>1
<1>8. ASSUME NEW n \in 1 .. Window + 1
      PROVE  Bound(window, n) <= RateMax + Bound(window', n)
  BY <1>1, <1>5, Limits DEF Bound, Share, Before, Windows, Ages
<1>9. ASSUME NEW n \in 0 .. Window + 1 PROVE p[n] <= t[n] * RateMax + Bound(window', n)
  <2>1. Bound(window', n) \in Int /\ Bound(window', n) >= 0 /\ Bound(window, n) \in Int
    BY <1>1, <1>5, Limits
  <2>2. CASE n = 0
    <3>1. p[n] = 0 /\ t[n] = 0 /\ 0 * RateMax = 0
      BY <1>3, <1>7, <2>2 DEF Prefixes
    <3>2. QED
      BY <2>1, <3>1
  <2>3. CASE n # 0
    <3>1. t[n] = q[n] + 1 /\ q[n] \in Nat /\ p[n] \in Nat
      <4>1. n \in 1 .. Window + 1
        BY <2>3
      <4>2. QED
        BY <1>3, <1>7, <4>1
    <3>2. t[n] * RateMax = q[n] * RateMax + RateMax /\ q[n] * RateMax \in Nat
      BY <3>1, Limits
    <3>3. p[n] <= q[n] * RateMax + Bound(window, n)
      BY <1>3
    <3>4. Bound(window, n) <= RateMax + Bound(window', n)
      BY <1>8, <2>3
    <3>5. QED
      BY <2>1, <3>1, <3>2, <3>3, <3>4, Limits
  <2>4. QED
    BY <2>2, <2>3
<1>10. Passed(p, t)'
  BY <1>3, <1>4, <1>7, <1>9 DEF Passed
<1>11. QED
  BY <1>1, <1>4, <1>5, <1>6, <1>10 DEF LimiterInv

\* A stretch of a window's length meets two windows at most, the opening of the
\* first of which lies before it, and one window more for each stop of the hub
\* (wsRateLimitExceeded of handler.ts).
THEOREM BurstHolds == Spec => []BurstIsBounded
<1>1. Init => LimiterInv
  <2> SUFFICES ASSUME Init PROVE LimiterInv
    OBVIOUS
  <2>1. window = NoWindow /\ recent = Quiet /\ restarted = Quiet
    BY DEF Init
  <2>2. window \in Windows /\ window.age = Window + 1
    BY <2>1 DEF NoWindow, Windows, Ages
  <2>3. PICK p : Prefixes(Quiet, Window + 1, p) /\ \A n \in 0 .. Window + 1 : p[n] = 0
    BY QuietSums
  <2>4. ASSUME NEW n \in 0 .. Window + 1 PROVE p[n] <= p[n] * RateMax + Bound(window, n)
    <3>1. p[n] = 0 /\ 0 * RateMax = 0 /\ Bound(window, n) \in Int /\ Bound(window, n) >= 0
      BY <2>2, <2>3, Limits
    <3>2. QED
      BY <3>1
  <2>5. Passed(p, p)
    BY <2>1, <2>3, <2>4 DEF Passed
  <2>6. QED
    BY <2>1, <2>2, <2>5, QuietSums DEF LimiterInv
<1>2. LimiterInv /\ [Next]_vars => LimiterInv'
  <2> SUFFICES ASSUME LimiterInv, [Next]_vars PROVE LimiterInv'
    OBVIOUS
  <2>1. CASE UNCHANGED <<window, recent, restarted>>
    BY <2>1 DEF LimiterInv, Passed
  <2>2. CASE Connection /\ restarted' = restarted
    BY <2>2, ConnectionInv
  <2>3. CASE Tick
    BY <2>3, TickInv
  <2>4. CASE HubStops
    BY <2>4, HubStopsInv
  <2>5. QED
    BY <2>1, <2>2, <2>3, <2>4
       DEF Next, vars, hubVars, HubUnchanged, Accepted, OthersConnect, Expire,
           CreateSession, HubStarts
<1>3. LimiterInv => BurstIsBounded
  <2> SUFFICES ASSUME LimiterInv
               PROVE  MapThenSumSet(LAMBDA tick : recent[tick], 0 .. Window)
                        < (2 + MapThenSumSet(LAMBDA tick : restarted[tick], 0 .. Window))
                            * RateMax
    BY DEF BurstIsBounded
  <2>1. PICK p, q : Passed(p, q)
    BY DEF LimiterInv
  <2>2. /\ window \in Windows /\ (window.age <= Window => window.count > 0)
        /\ recent \in [0 .. Window -> Nat] /\ restarted \in [0 .. Window -> Nat]
    BY DEF LimiterInv
  <2>3. MapThenSumSet(LAMBDA tick : recent[tick], 0 .. Window) = p[Window + 1]
    BY <2>1, <2>2, SumIsLast DEF Passed
  <2>4. MapThenSumSet(LAMBDA tick : restarted[tick], 0 .. Window) = q[Window + 1]
    BY <2>1, <2>2, SumIsLast DEF Passed
  <2>5. p[Window + 1] < (2 + q[Window + 1]) * RateMax
    <3> DEFINE m == q[Window + 1]
               b == Bound(window, Window + 1)
    <3>1. m \in Nat /\ p[Window + 1] \in Nat /\ p[Window + 1] <= m * RateMax + b
      BY <2>1 DEF Passed, Prefixes
    <3>2. b \in Int /\ b < 2 * RateMax
      BY <2>2, Limits
    <3> HIDE DEF m, b
    <3>3. (m + 1) * RateMax = m * RateMax + RateMax /\ m * RateMax \in Nat
          /\ ((m + 1) + 1) * RateMax = (m + 1) * RateMax + RateMax
      BY <3>1, Limits
    <3>4. (m + 1) + 1 = 2 + m
      BY <3>1
    <3>5. p[Window + 1] < (2 + m) * RateMax
      BY <3>1, <3>2, <3>3, <3>4, Limits
    <3>6. QED
      BY <3>5 DEF m
  <2>6. QED
    BY <2>3, <2>4, <2>5
<1>4. QED
  BY <1>1, <1>2, <1>3, PTL DEF Spec
=============================================================================
