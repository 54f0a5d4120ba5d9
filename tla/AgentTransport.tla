--------------------------- MODULE AgentTransport ---------------------------
(***************************************************************************)
(* The agent's connection to the hub: HubClient of                         *)
(* packages/agent/src/transport/ws-client.ts, driven by runAgent of        *)
(* commands/agent.ts up to the migration.                                  *)
(*                                                                         *)
(* Every socket the client has opened keeps its handlers, and all of them  *)
(* work on the same fields of the client; so do the reconnection timer and *)
(* the pong timer.  A socket is "opening", "open", "closing" (the client   *)
(* has closed it, the close event is to come) or "none".  `timers' counts  *)
(* the armed reconnection timers, whether or not reconnectTimer still      *)
(* holds them.  `pc' is where runAgent waits.                              *)
(*                                                                         *)
(* The module has no next-state relation: whether the hub can be reached   *)
(* and whom it lets in is the business of the modules that compose it.     *)
(***************************************************************************)
EXTENDS Naturals

CONSTANTS
  Sockets,      \* room for sockets that are not closed at the same time
  None,
  MaxAttempts   \* PAIRING_RECONNECT_MAX_ATTEMPTS

ASSUME TransportAssumption == None \notin Sockets /\ MaxAttempts \in Nat

VARIABLES
  socket,       \* what each socket is
  ws,           \* HubClient.ws
  connecting,   \* HubClient.connecting
  manualClose,  \* HubClient.manualClose
  attempts,     \* HubClient.reconnectAttempts
  timers,       \* armed reconnection timers
  pongTimer,    \* HubClient.pongTimer is armed
  stage,        \* HubClient.stage
  pc            \* where runAgent is

clientVars == <<socket, ws, connecting, manualClose, attempts, timers, pongTimer, stage, pc>>

Stages == {"pairing", "preflight", "migrating", "safe"}
Waits == {"connect", "peer", "sas", "checklist", "checking", "migrating", "exited"}
Reconnectable == {"pairing", "preflight"}

Unused == [s \in Sockets |-> "none"]

\* runAgent has called connect, which has opened the first socket.
ClientInit ==
  /\ \E s \in Sockets : socket = [Unused EXCEPT ![s] = "opening"] /\ ws = s
  /\ connecting = TRUE /\ manualClose = FALSE
  /\ attempts = 0 /\ timers = 0 /\ pongTimer = FALSE
  /\ stage = "pairing" /\ pc = "connect"

Running == pc # "exited"
NotClosed == {s \in Sockets : socket[s] # "none"}
CanSend == ws # None /\ socket[ws] = "open"

\* The process ends, and its sockets and timers with it.
Exit ==
  /\ pc' = "exited"
  /\ socket' = Unused /\ ws' = None /\ connecting' = FALSE
  /\ timers' = 0 /\ pongTimer' = FALSE

-----------------------------------------------------------------------------
(* Reconnection.                                                           *)

Link == [attempts |-> attempts, timers |-> timers]

\* Mutant: the timer that is replaced is not cleared.
ScheduleBeside(link) ==
  IF link.attempts >= MaxAttempts THEN link
  ELSE [attempts |-> link.attempts + 1, timers |-> link.timers + 1]

\* scheduleReconnect: another timer replaces the one that may be armed.
Schedule(link) ==
  IF link.attempts >= MaxAttempts THEN link
  ELSE [attempts |-> link.attempts + 1, timers |-> 1]

\* Mutant: only the pairing is reconnected.
ReconnectInPairing(link) == IF manualClose \/ stage # "pairing" THEN link ELSE Schedule(link)

\* Unless the client was closed or has gone on to migrate.
Reconnect(link) == IF manualClose \/ stage \notin Reconnectable THEN link ELSE Schedule(link)

SetLink(link) == attempts' = link.attempts /\ timers' = link.timers

\* The timer fires: it opens a socket unless the client has moved on, or is
\* opening one already.
ReconnectTimer ==
  /\ timers > 0
  /\ timers' = timers - 1
  /\ IF manualClose \/ stage \notin Reconnectable \/ connecting
     THEN UNCHANGED <<socket, ws, connecting>>
     ELSE \E s \in Sockets \ NotClosed :
            socket' = [socket EXCEPT ![s] = "opening"] /\ ws' = s /\ connecting' = TRUE
  /\ UNCHANGED <<manualClose, attempts, pongTimer, stage, pc>>

-----------------------------------------------------------------------------
(* A socket's events.                                                      *)

\* 'open': the hello goes out and the heartbeat starts.
SocketOpens(s) ==
  /\ socket[s] = "opening"
  /\ socket' = [socket EXCEPT ![s] = "open"]
  /\ connecting' = FALSE /\ attempts' = 0 /\ pongTimer' = TRUE
  /\ pc' = IF pc = "connect" THEN "peer" ELSE pc
  /\ UNCHANGED <<ws, manualClose, timers, stage>>

\* Mutant: the heartbeat of a closed socket is not stopped.
ForgetKeepsHeartbeat(s) ==
  /\ socket' = [socket EXCEPT ![s] = "none"]
  /\ ws' = None /\ connecting' = FALSE
  /\ UNCHANGED pongTimer

\* What the 'close' handler does to the fields, whichever socket closed.
Forget(s) ==
  /\ socket' = [socket EXCEPT ![s] = "none"]
  /\ ws' = None /\ connecting' = FALSE /\ pongTimer' = FALSE

\* An opening that fails emits 'error' and then 'close', and rejects: the
\* first ends the program, a later one asks for the next in the 'close'
\* handler and, once more, where the timer's callback catches the rejection.
OpeningFails(s) ==
  /\ socket[s] = "opening"
  /\ IF pc = "connect"
     THEN Exit /\ UNCHANGED attempts
     ELSE Forget(s) /\ SetLink(Reconnect(Reconnect(Link))) /\ UNCHANGED pc
  /\ UNCHANGED <<manualClose, stage>>

\* 'close' of a socket that was open.  During a migration it is
\* disconnected_unsafe, on which runAgent cleans up and exits.
SocketCloses(s) ==
  /\ socket[s] \in {"open", "closing"}
  /\ IF stage = "migrating" /\ ~manualClose
     THEN stage' = "safe" /\ Exit /\ UNCHANGED attempts
     ELSE Forget(s) /\ SetLink(Reconnect(Link)) /\ UNCHANGED <<stage, pc>>
  /\ UNCHANGED manualClose

\* A pong arms the timer anew, also on a socket that is closing.
Pong(s) ==
  /\ socket[s] \in {"open", "closing"}
  /\ pongTimer' = TRUE
  /\ UNCHANGED <<socket, ws, connecting, manualClose, attempts, timers, stage, pc>>

\* close(): after it the client never opens another socket.
Close ==
  /\ manualClose' = TRUE /\ timers' = 0 /\ pongTimer' = FALSE /\ ws' = None
  /\ socket' = IF ws = None THEN socket ELSE [socket EXCEPT ![ws] = "closing"]
  /\ UNCHANGED <<connecting, attempts>>

\* No pong for two heartbeats.
PongTimeout == pongTimer /\ Close /\ UNCHANGED <<stage, pc>>

-----------------------------------------------------------------------------
(* runAgent.                                                               *)

\* A message of the hub is read from a socket that has not closed.
HubMessage == \E s \in Sockets : socket[s] \in {"open", "closing"}

\* A send throws without an open socket, and nothing in runAgent catches it.
SendAndWait(next) ==
  IF CanSend THEN pc' = next /\ UNCHANGED <<socket, ws, connecting, timers, pongTimer>>
             ELSE Exit

\* hub:peer_connected; the SAS is announced
PeerConnected ==
  /\ pc = "peer" /\ HubMessage
  /\ SendAndWait("sas")
  /\ UNCHANGED <<manualClose, attempts, stage>>

\* The operator finds the SAS equal, perhaps after the link was lost.
SasConfirmed ==
  /\ pc = "sas"
  /\ SendAndWait("checklist")
  /\ stage' = IF CanSend THEN "preflight" ELSE stage
  /\ UNCHANGED <<manualClose, attempts>>

SasRejected == pc = "sas" /\ Exit /\ manualClose' = TRUE /\ UNCHANGED <<attempts, stage>>

\* hub:run_preflight
RunPreflight ==
  /\ pc = "checklist" /\ HubMessage
  /\ pc' = "checking"
  /\ UNCHANGED <<socket, ws, connecting, manualClose, attempts, timers, pongTimer, stage>>

\* Mutant: the client is not told that the migration may begin.
ChecklistSentInPreflight ==
  /\ pc = "checking"
  /\ SendAndWait("migrating")
  /\ UNCHANGED <<manualClose, attempts, stage>>

\* The checklist is sent, and the client must not reconnect from here on.
ChecklistSent ==
  /\ pc = "checking"
  /\ SendAndWait("migrating")
  /\ stage' = IF CanSend THEN "migrating" ELSE stage
  /\ UNCHANGED <<manualClose, attempts>>

\* hub:session_cancelled
SessionCancelled ==
  /\ Running /\ HubMessage
  /\ Exit /\ manualClose' = TRUE
  /\ UNCHANGED <<attempts, stage>>

\* With neither a socket nor a timer left and nothing but a message to wait
\* for, the program has come to its end.
NothingLeft ==
  /\ pc \in {"peer", "checklist", "migrating"}
  /\ NotClosed = {} /\ timers = 0 /\ ~pongTimer
  /\ Exit
  /\ UNCHANGED <<manualClose, attempts, stage>>
=============================================================================
