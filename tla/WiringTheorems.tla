--------------------------- MODULE WiringTheorems ---------------------------
(***************************************************************************)
(* Which messages the events of a call become, for every call: the hub     *)
(* sends a step to the agents that take part in it, the rollback steps to  *)
(* their agents, and nothing when no step of either kind is dispatched.    *)
(***************************************************************************)
EXTENDS Wiring, OrchestratorMethods, FilterTheorems

USE DEF Roles, Terminal, BilateralSteps, Steps, TotalSteps, IsTerminal

\* The steps an agent takes part in.
StepsOf(role) == IF role = "source" THEN {1, 2, 3, 4, 5, 9} ELSE 4 .. 8

RunSteps == {RunStep(n) : n \in Steps}
Undos == {Undo(name) : name \in RollbackNames}

\* Events that no agent hears of.
Muted == {e \in Events : Recipients(e) = {}}

-----------------------------------------------------------------------------
(* Single events.                                                          *)

\* Who hears of an event, and what they are sent.
LEMMA Addressed ==
  /\ \A n \in Steps : /\ Recipients(ExecuteStep(n)) = {r \in Roles : n \in StepsOf(r)}
                      /\ MessageOf(ExecuteStep(n)) = RunStep(n)
  /\ \A name \in RollbackNames : MessageOf(Rollback(name)) = Undo(name)
  /\ \A a, b \in States : b # "PREFLIGHT" => StateChange(a, b) \in Muted
  /\ \A n \in Steps : StepCompleted(n) \in Muted
  /\ \A n \in Steps, r \in Roles : StepFailedEvent(n, r) \in Muted
  /\ SessionComplete \in Muted /\ SessionFailed \in Muted
  /\ CriticalAlert \in Muted /\ Thrown \in Muted
<1>1. ASSUME NEW n \in Steps
      PROVE  /\ Recipients(ExecuteStep(n)) = {r \in Roles : n \in StepsOf(r)}
             /\ MessageOf(ExecuteStep(n)) = RunStep(n)
  <2>1. Recipients(ExecuteStep(n)) = IF n \in BilateralSteps THEN Roles ELSE {Executor(n)}
    BY DEF Recipients, ExecuteStep
  <2>2. MessageOf(ExecuteStep(n)) = RunStep(n)
    BY DEF MessageOf, ExecuteStep
  <2>3. QED
    BY <2>1, <2>2 DEF StepsOf, Executor
<1>2. \A name \in RollbackNames : MessageOf(Rollback(name)) = Undo(name)
  BY DEF MessageOf, Rollback
<1>3. ASSUME NEW a \in States, NEW b \in States, b # "PREFLIGHT"
      PROVE  StateChange(a, b) \in Muted
  <2>1. Recipients(StateChange(a, b)) = {}
    BY <1>3 DEF Recipients, StateChange
  <2>2. QED
    BY <2>1, EventTypes DEF Muted
<1>4. \A n \in Steps : StepCompleted(n) \in Muted
  <2>1. \A n \in Steps : Recipients(StepCompleted(n)) = {}
    BY DEF Recipients, StepCompleted
  <2>2. QED
    BY <2>1, EventTypes DEF Muted
<1>5. \A n \in Steps, r \in Roles : StepFailedEvent(n, r) \in Muted
  <2>1. \A n \in Steps, r \in Roles : Recipients(StepFailedEvent(n, r)) = {}
    BY DEF Recipients, StepFailedEvent
  <2>2. QED
    BY <2>1, EventTypes DEF Muted
<1>6. /\ SessionComplete \in Muted /\ SessionFailed \in Muted
      /\ CriticalAlert \in Muted /\ Thrown \in Muted
  <2>1. /\ Recipients(SessionComplete) = {} /\ Recipients(SessionFailed) = {}
        /\ Recipients(CriticalAlert) = {} /\ Recipients(Thrown) = {}
    BY DEF Recipients, SessionComplete, SessionFailed, CriticalAlert, Thrown
  <2>2. QED
    BY <2>1, EventTypes DEF Muted
<1>7. QED
  BY <1>1, <1>2, <1>3, <1>4, <1>5, <1>6

-----------------------------------------------------------------------------
(* Lists of events.                                                        *)

\* Nothing is sent for events that no agent hears of.
LEMMA MutedMessages ==
  ASSUME NEW role, NEW events \in Seq(Muted)
  PROVE  MessagesTo(role, events) = << >>
<1> DEFINE S == {e \in Events : role \in Recipients(e)}
<1>1. Muted \cap S = {}
  BY DEF Muted
<1>2. MessagesTo(role, events) =
        [i \in DOMAIN Filter(events, S) |-> MessageOf(Filter(events, S)[i])]
  BY DEF MessagesTo
<1> HIDE DEF S
<1>3. Filter(events, S) = << >>
  BY <1>1, FilterNone
<1>4. [i \in DOMAIN << >> |-> MessageOf(<< >>[i])] = << >>
  OBVIOUS
<1>5. QED
  BY <1>2, <1>3, <1>4

\* For the events of a rollback an agent is sent rollback steps only.
LEMMA RollbackMessages ==
  ASSUME NEW role, NEW events \in Seq(Muted \cup Rollbacks)
  PROVE  MessagesTo(role, events) \in Seq(Undos)
<1> DEFINE S == {e \in Events : role \in Recipients(e)}
           passed == Filter(events, S)
<1>1. (Muted \cup Rollbacks) \cap S \subseteq Rollbacks
  BY DEF Muted
<1>2. passed \in Seq(Rollbacks)
  <2> HIDE DEF S
  <2>1. passed \in Seq((Muted \cup Rollbacks) \cap S)
    BY FilterElements
  <2>2. QED
    BY <1>1, <2>1, SeqMonotonic
<1>3. MessagesTo(role, events) = [i \in DOMAIN passed |-> MessageOf(passed[i])]
  BY DEF MessagesTo
<1> HIDE DEF passed
<1>4. Len(passed) \in Nat /\ DOMAIN passed = 1 .. Len(passed)
  BY <1>2, LenProperties
<1>5. \A i \in 1 .. Len(passed) : MessageOf(passed[i]) \in Undos
  <2>1. ASSUME NEW i \in 1 .. Len(passed) PROVE MessageOf(passed[i]) \in Undos
    <3>1. passed[i] \in Rollbacks
      BY <1>2, ElementOfSeq
    <3>2. QED
      BY <3>1, Addressed DEF Rollbacks, Undos
  <2>2. QED
    BY <2>1
<1>6. [i \in 1 .. Len(passed) |-> MessageOf(passed[i])] \in Seq(Undos)
  BY <1>4, <1>5, IsASeq
<1>7. QED
  BY <1>3, <1>4, <1>6

\* For a step, preceded by an event no agent hears of, the agents that take
\* part in it are sent that step and the others nothing.
LEMMA DispatchMessages ==
  ASSUME NEW role \in Roles, NEW a \in Muted, NEW n \in Steps
  PROVE  MessagesTo(role, <<a, ExecuteStep(n)>>) =
           IF n \in StepsOf(role) THEN <<RunStep(n)>> ELSE << >>
<1> DEFINE S == {e \in Events : role \in Recipients(e)}
           x == ExecuteStep(n)
<1>1. a \in Events /\ a \notin S /\ x \in Events
  BY EventTypes DEF Muted
<1>2. x \in S <=> n \in StepsOf(role)
  BY <1>1, Addressed
<1>3. MessageOf(x) = RunStep(n)
  BY Addressed
<1>4. MessagesTo(role, <<a, x>>) =
        [i \in DOMAIN Filter(<<a, x>>, S) |-> MessageOf(Filter(<<a, x>>, S)[i])]
  BY DEF MessagesTo
<1> HIDE DEF S, x
<1>5. Filter(<<a, x>>, S) = IF x \in S THEN <<x>> ELSE << >>
  <2>1. Filter(<<a>>, S) = << >>
    BY <1>1, FilterOne
  <2>2. Filter(<<a, x>>, S) = IF x \in S THEN Append(<< >>, x) ELSE << >>
    BY <1>1, <2>1, FilterTwo
  <2>3. <<x>> = Append(<< >>, x)
    OBVIOUS
  <2>4. QED
    BY <2>2, <2>3
<1>6. [i \in DOMAIN <<x>> |-> MessageOf(<<x>>[i])] = <<MessageOf(x)>>
  OBVIOUS
<1>7. [i \in DOMAIN << >> |-> MessageOf(<< >>[i])] = << >>
  OBVIOUS
<1>8. QED
  BY <1>2, <1>3, <1>4, <1>5, <1>6, <1>7 DEF x

-----------------------------------------------------------------------------
(* What the methods of a migration send.                                   *)

\* Lists of events no agent hears of, one after the other.
LEMMA MutedLists ==
  /\ << >> \in Seq(Muted)
  /\ \A a \in Muted : <<a>> \in Seq(Muted)
  /\ \A a, b \in Muted : <<a, b>> \in Seq(Muted)
  /\ \A a, b, c \in Muted : <<a, b, c>> \in Seq(Muted)
  OBVIOUS

\* A silent call sends nothing.
LEMMA SilentSends ==
  ASSUME NEW o, Silent(o)
  PROVE  emitted' \in Seq(Muted)
  BY Addressed, MutedLists DEF Silent

\* A failure without a rollback sends nothing.
LEMMA FailureSends ==
  ASSUME NEW o, o.state \in States, NEW before \in Seq(Muted), FailsNow(o, before)
  PROVE  emitted' \in Seq(Muted)
<1>1. StateChange(o.state, "FAILED") \in Muted /\ SessionFailed \in Muted
  BY Addressed DEF States
<1>2. <<StateChange(o.state, "FAILED"), SessionFailed>> \in Seq(Muted)
  BY <1>1, MutedLists
<1>3. QED
  BY <1>2, ConcatProperties DEF FailsNow

\* A completed session sends nothing.
LEMMA FinishSends ==
  ASSUME NEW o, Finishes(o)
  PROVE  emitted' \in Seq(Muted)
<1>1. /\ StepCompleted(TotalSteps) \in Muted /\ SessionComplete \in Muted
      /\ StateChange("MIGRATING", "COMPLETE") \in Muted
  BY Addressed DEF States
<1>2. QED
  BY <1>1, MutedLists DEF Finishes

\* A failure by way of the rollback sends rollback steps only.
LEMMA RollingBackSends ==
  ASSUME NEW o, NEW before \in Seq(Muted), RollsBack(o, before)
  PROVE  emitted' \in Seq(Muted \cup Rollbacks)
<1> DEFINE X == Muted \cup Rollbacks
           sc == <<StateChange("MIGRATING", "ROLLBACK")>>
           us == RollbackEvents(o.currentStep)
           sf == <<StateChange("ROLLBACK", "FAILED"), SessionFailed>>
<1>1. sc \in Seq(Muted) /\ sf \in Seq(Muted)
  <2>1. /\ StateChange("MIGRATING", "ROLLBACK") \in Muted
        /\ StateChange("ROLLBACK", "FAILED") \in Muted /\ SessionFailed \in Muted
    BY Addressed DEF States
  <2>2. QED
    BY <2>1, MutedLists
<1>2. us \in Seq(Rollbacks)
  BY RollbackEventsAre
<1>3. emitted' = before \o sc \o us \o sf
  BY DEF RollsBack
<1>4. Muted \subseteq X /\ Rollbacks \subseteq X
  OBVIOUS
<1> HIDE DEF X, sc, us, sf
<1>5. before \in Seq(X) /\ sc \in Seq(X) /\ us \in Seq(X) /\ sf \in Seq(X)
  BY <1>1, <1>2, <1>4, SeqMonotonic
<1>6. before \o sc \in Seq(X)
  BY <1>5, ConcatProperties
<1>7. before \o sc \o us \in Seq(X)
  BY <1>5, <1>6, ConcatProperties
<1>8. before \o sc \o us \o sf \in Seq(X)
  BY <1>5, <1>7, ConcatProperties
<1>9. QED
  BY <1>3, <1>8 DEF X

\* Whatever is sent to no agent or for a rollback, the events are events.
LEMMA SentAreEvents ==
  Seq(Muted) \subseteq Seq(Events) /\ Seq(Muted \cup Rollbacks) \subseteq Seq(Events)
<1>1. Muted \subseteq Events /\ Muted \cup Rollbacks \subseteq Events
  BY EventTypes DEF Muted, Rollbacks
<1>2. QED
  BY <1>1, SeqMonotonic

-----------------------------------------------------------------------------
(* What the methods of the pairing send, and what becomes of the row.      *)

\* Of the changes of state agents hear of one only, and both of them.
LEMMA ChangeMessages ==
  ASSUME NEW role \in Roles, NEW a \in States, NEW b \in States
  PROVE  MessagesTo(role, <<StateChange(a, b)>>) =
           IF b = "PREFLIGHT" THEN <<RunPreflight>> ELSE << >>
<1> DEFINE S == {e \in Events : role \in Recipients(e)}
           x == StateChange(a, b)
<1>1. x \in Events
  BY EventTypes
<1>2. x \in S <=> b = "PREFLIGHT"
  <2>1. Recipients(x) = IF b = "PREFLIGHT" THEN Roles ELSE {}
    BY DEF Recipients, StateChange
  <2>2. QED
    BY <1>1, <2>1
<1>3. MessageOf(x) = RunPreflight
  BY DEF MessageOf, StateChange
<1>4. MessagesTo(role, <<x>>) =
        [i \in DOMAIN Filter(<<x>>, S) |-> MessageOf(Filter(<<x>>, S)[i])]
  BY DEF MessagesTo
<1> HIDE DEF S, x
<1>5. Filter(<<x>>, S) = IF x \in S THEN <<x>> ELSE << >>
  BY <1>1, FilterOne
<1>6. [i \in DOMAIN <<x>> |-> MessageOf(<<x>>[i])] = <<MessageOf(x)>>
  OBVIOUS
<1>7. [i \in DOMAIN << >> |-> MessageOf(<< >>[i])] = << >>
  OBVIOUS
<1>8. QED
  BY <1>2, <1>3, <1>4, <1>5, <1>6, <1>7 DEF x

\* The row is what the last of them wrote, and stays what it was without one.
LEMMA RowFollows ==
  ASSUME NEW old, NEW s \in Seq(Events), NEW e \in Events
  PROVE  /\ RowAfter(old, << >>) = old
         /\ e \in RowEvents => RowAfter(old, Append(s, e)) = Written(e)
         /\ e \notin RowEvents => RowAfter(old, Append(s, e)) = RowAfter(old, s)
<1> DEFINE W(t) == Filter(t, RowEvents)
           After(w) == IF w = << >> THEN old ELSE Written(w[Len(w)])
<1>1. \A t : RowAfter(old, t) = After(W(t))
  BY DEF RowAfter
<1>2. W(<< >>) = << >>
  BY FilterEmpty
<1>3. W(Append(s, e)) = IF e \in RowEvents THEN Append(W(s), e) ELSE W(s)
  BY FilterAppend
<1>4. W(s) \in Seq(Events)
  <2>1. W(s) \in Seq(Events \cap RowEvents)
    BY FilterElements
  <2>2. QED
    BY <2>1, SeqMonotonic
<1> HIDE DEF W
<1>5. After(<< >>) = old
  OBVIOUS
<1>6. ASSUME NEW w \in Seq(Events)
      PROVE  After(Append(w, e)) = Written(e)
  <2>1. Append(w, e) # << >> /\ Append(w, e)[Len(Append(w, e))] = e
    BY AppendProperties
  <2>2. QED
    BY <2>1
<1> HIDE DEF After
<1>7. QED
  BY <1>1, <1>2, <1>3, <1>4, <1>5, <1>6

\* The row after the calls that do not end a session, and after an ending.
LEMMA RowOfLists ==
  \A old :
    /\ RowAfter(old, << >>) = old
    /\ RowAfter(old, <<CriticalAlert>>) = old /\ RowAfter(old, <<Thrown>>) = old
    /\ \A a, b \in States : RowAfter(old, <<StateChange(a, b)>>) = b
    /\ \A a, b \in States : RowAfter(old, <<StateChange(a, b), ExecuteStep(1)>>) = b
    /\ \A s \in Seq(Events) : RowAfter(old, Append(s, SessionFailed)) = "FAILED"
<1> TAKE old
<1>1. /\ CriticalAlert \in Events \ RowEvents /\ Thrown \in Events \ RowEvents
      /\ ExecuteStep(1) \in Events \ RowEvents
      /\ SessionFailed \in RowEvents /\ Written(SessionFailed) = "FAILED"
      /\ \A a, b \in States : /\ StateChange(a, b) \in RowEvents
                              /\ Written(StateChange(a, b)) = b
  BY EventTypes DEF RowEvents, Written, CriticalAlert, Thrown, ExecuteStep,
                    SessionFailed, StateChange
<1>2. RowEvents \subseteq Events
  BY DEF RowEvents
<1>3. << >> \in Seq(Events) /\ \A x : <<x>> = Append(<< >>, x)
  OBVIOUS
<1>r. \A s \in Seq(Events), e \in Events :
        /\ e \in RowEvents => RowAfter(old, Append(s, e)) = Written(e)
        /\ e \notin RowEvents => RowAfter(old, Append(s, e)) = RowAfter(old, s)
  BY RowFollows
<1>4. RowAfter(old, << >>) = old
  BY <1>1, <1>3, RowFollows
<1>5. ASSUME NEW x \in Events \ RowEvents PROVE RowAfter(old, <<x>>) = old
  <2>1. RowAfter(old, Append(<< >>, x)) = RowAfter(old, << >>)
    BY <1>3, <1>r
  <2>2. <<x>> = Append(<< >>, x)
    BY <1>3
  <2>3. QED
    BY <2>1, <2>2, <1>4
<1>6. ASSUME NEW x \in RowEvents PROVE RowAfter(old, <<x>>) = Written(x)
  <2>1. x \in Events
    BY <1>2
  <2>2. RowAfter(old, Append(<< >>, x)) = Written(x)
    BY <2>1, <1>3, <1>r
  <2>3. <<x>> = Append(<< >>, x)
    BY <1>3
  <2>4. QED
    BY <2>2, <2>3
<1>7. ASSUME NEW x \in RowEvents, NEW y \in Events \ RowEvents
      PROVE  RowAfter(old, <<x, y>>) = Written(x)
  <2>1. <<x>> \in Seq(Events) /\ <<x, y>> = Append(<<x>>, y)
    BY <1>2
  <2>2. QED
    BY <1>2, <1>6, <2>1, <1>r
<1>8. \A s \in Seq(Events) : RowAfter(old, Append(s, SessionFailed)) = "FAILED"
  BY <1>1, <1>2, <1>r
<1>9. QED
  BY <1>1, <1>4, <1>5, <1>6, <1>7, <1>8
=============================================================================
