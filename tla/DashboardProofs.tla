--------------------------- MODULE DashboardProofs ---------------------------
(***************************************************************************)
(* What the operator sees, for every number of sessions, restarts, lost    *)
(* links and commands: a tab that has read everything shows the state of   *)
(* the session's row and its steps, it is told every change on the way,    *)
(* and an alert of the SAS is not taken back.                              *)
(*                                                                         *)
(* The argument is about what is still on the wire: if the tab read it     *)
(* all, one message after the other, it would show what the row says.      *)
(***************************************************************************)
EXTENDS Dashboard, WiringTheorems

USE DEF Roles, Terminal, BilateralSteps, Steps, TotalSteps, IsTerminal

-----------------------------------------------------------------------------
(* Reading.                                                                *)

\* A change of state is announced to a tab that shows where it starts, or
\* comes from a revived orchestrator.
Chained(store, msg) ==
  msg.type = "state_change" /\ msg.from # msg.to => msg.from \in {store.state, "IDLE"}

\* v[i] is the store after i messages of q.
Reading(v, q) ==
  /\ v \in [0 .. Len(q) -> Stores]
  /\ \A i \in 1 .. Len(q) : Chained(v[i - 1], q[i]) /\ v[i] = Applied(v[i - 1], q[i])

\* A tab with the store start that reads q shows end.
ReadsTo(start, q, end) ==
  \E v \in [0 .. Len(q) -> Stores] : Reading(v, q) /\ v[0] = start /\ v[Len(q)] = end

\* The messages that are built are messages to the tab, each of its kind.
LEMMA MessageTypes ==
  /\ \A a, b \in States : StateMsg(a, b) \in TabMessages
  /\ \A n \in Steps, st \in StepStatus : Progress(n, st) \in TabMessages
  /\ Complete \in TabMessages
  /\ \A m \in BOOLEAN : Sas(m) \in TabMessages
  /\ \A a, b : StateMsg(a, b).type = "state_change"
  /\ \A n, st : Progress(n, st).type = "step_progress"
  /\ Complete.type = "migration_complete" /\ \A m : Sas(m).type = "sas"
  BY DEF TabMessages, StateMsg, Progress, Complete, Sas

\* A change of state changes the state shown.
LEMMA AppliedChange ==
  ASSUME NEW s, NEW a, NEW b
  PROVE  Applied(s, StateMsg(a, b)) = [s EXCEPT !.state = b]
  BY DEF Applied, StateMsg

\* A report of a step changes what is shown of that step.
LEMMA AppliedProgress ==
  ASSUME NEW s, NEW n, NEW st
  PROVE  Applied(s, Progress(n, st)) = [s EXCEPT !.steps[n] = st]
  BY DEF Applied, Progress

\* A store stays a store.
LEMMA AppliedStores ==
  ASSUME NEW s \in Stores, NEW m \in TabMessages
  PROVE  Applied(s, m) \in Stores
<1>1. CASE m \in [type : {"state_change"}, from : States, to : States]
  BY <1>1 DEF Applied, Stores
<1>2. CASE m \in [type : {"step_progress"}, step : Steps, status : StepStatus]
  <2>1. Applied(s, m) = [s EXCEPT !.steps[m.step] = m.status]
    BY <1>2 DEF Applied
  <2>2. [s.steps EXCEPT ![m.step] = m.status] \in [Steps -> StepStatus]
    BY <1>2 DEF Stores
  <2>3. QED
    BY <2>1, <2>2 DEF Stores
<1>3. CASE m \in [type : {"migration_complete"}]
  BY <1>3 DEF Applied, Stores, States
<1>4. CASE m \in [type : {"sas"}, matches : BOOLEAN]
  BY <1>4 DEF Applied, Stores
<1>5. QED
  BY <1>1, <1>2, <1>3, <1>4 DEF TabMessages

\* A tab that has nothing to read shows what it shows.
LEMMA ReadNothing ==
  ASSUME NEW s \in Stores
  PROVE  ReadsTo(s, << >>, s) /\ \A end : ReadsTo(s, << >>, end) => end = s
<1>1. Len(<< >>) = 0
  OBVIOUS
<1>2. \A end : ReadsTo(s, << >>, end) => end = s
  BY <1>1 DEF ReadsTo
<1>3. ReadsTo(s, << >>, s)
  <2> DEFINE v == [i \in 0 .. 0 |-> s]
  <2>1. v \in [0 .. 0 -> Stores] /\ v[0] = s /\ 1 .. 0 = {}
    OBVIOUS
  <2> HIDE DEF v
  <2>2. QED
    BY <1>1, <2>1 DEF ReadsTo, Reading
<1>4. QED
  BY <1>2, <1>3

\* One message is read if the tab shows where it starts.
LEMMA ReadOne ==
  ASSUME NEW s \in Stores, NEW m \in TabMessages, Chained(s, m)
  PROVE  ReadsTo(s, <<m>>, Applied(s, m))
<1> DEFINE t == Applied(s, m)
           v == [i \in 0 .. 1 |-> IF i = 0 THEN s ELSE t]
<1>1. t \in Stores
  BY AppliedStores
<1>2. v \in [0 .. 1 -> Stores] /\ v[0] = s /\ v[1] = t
  <2> HIDE DEF t
  <2>1. QED
    BY <1>1
<1> HIDE DEF v
<1>3. Len(<<m>>) = 1 /\ <<m>>[1] = m /\ 1 .. 1 = {1}
  OBVIOUS
<1>4. Reading(v, <<m>>)
  BY <1>2, <1>3 DEF Reading
<1>5. QED
  BY <1>2, <1>3, <1>4 DEF ReadsTo

\* Two lists are read one after the other.
LEMMA ReadBoth ==
  ASSUME NEW X, NEW q \in Seq(X), NEW r \in Seq(X), NEW s, NEW mid, NEW end,
         ReadsTo(s, q, mid), ReadsTo(mid, r, end)
  PROVE  ReadsTo(s, q \o r, end)
<1> DEFINE n == Len(q)
           k == Len(r)
<1>1. PICK v \in [0 .. n -> Stores] : Reading(v, q) /\ v[0] = s /\ v[n] = mid
  BY DEF ReadsTo
<1>2. PICK w \in [0 .. k -> Stores] : Reading(w, r) /\ w[0] = mid /\ w[k] = end
  BY DEF ReadsTo
<1> DEFINE x == [i \in 0 .. (n + k) |-> IF i <= n THEN v[i] ELSE w[i - n]]
<1>3. n \in Nat /\ k \in Nat /\ Len(q \o r) = n + k
  BY ConcatProperties
<1>4. /\ \A i \in 1 .. n : (q \o r)[i] = q[i]
      /\ \A i \in (n + 1) .. (n + k) : (q \o r)[i] = r[i - n]
  BY ConcatProperties
<1> HIDE DEF n, k
<1>5. x \in [0 .. (n + k) -> Stores]
  BY <1>3
<1>6. x[0] = s /\ x[n + k] = end
  BY <1>1, <1>2, <1>3
<1>7. ASSUME NEW i \in 1 .. (n + k)
      PROVE  Chained(x[i - 1], (q \o r)[i]) /\ x[i] = Applied(x[i - 1], (q \o r)[i])
  <2>1. CASE i <= n
    <3>1. i \in 1 .. n /\ x[i] = v[i] /\ x[i - 1] = v[i - 1] /\ (q \o r)[i] = q[i]
      BY <1>3, <1>4, <2>1
    <3>2. QED
      BY <1>1, <3>1 DEF Reading, n
  <2>2. CASE i > n
    <3>1. /\ i - n \in 1 .. k /\ x[i] = w[i - n] /\ (q \o r)[i] = r[i - n]
          /\ i \in (n + 1) .. (n + k)
      BY <1>3, <1>4, <2>2
    <3>2. x[i - 1] = w[(i - n) - 1]
      <4>1. CASE i = n + 1
        BY <1>1, <1>2, <1>3, <4>1
      <4>2. CASE i # n + 1
        BY <1>3, <2>2, <4>2
      <4>3. QED
        BY <4>1, <4>2
    <3>3. QED
      BY <1>2, <3>1, <3>2 DEF Reading, k
  <2>3. QED
    BY <1>3, <2>1, <2>2
<1> HIDE DEF x
<1>8. Reading(x, q \o r)
  BY <1>3, <1>5, <1>7 DEF Reading
<1>9. QED
  BY <1>3, <1>5, <1>6, <1>8 DEF ReadsTo

\* Reading the oldest message leaves the rest to be read.
LEMMA ReadOldest ==
  ASSUME NEW X, NEW q \in Seq(X), q # << >>, NEW s, NEW end, ReadsTo(s, q, end)
  PROVE  Chained(s, Head(q)) /\ ReadsTo(Applied(s, Head(q)), Tail(q), end)
<1> DEFINE n == Len(q)
<1>1. PICK v \in [0 .. n -> Stores] : Reading(v, q) /\ v[0] = s /\ v[n] = end
  BY DEF ReadsTo
<1>2. /\ n \in Nat /\ n >= 1 /\ Len(Tail(q)) = n - 1 /\ Head(q) = q[1]
      /\ \A i \in 1 .. (n - 1) : Tail(q)[i] = q[i + 1]
  BY HeadTailProperties, EmptySeq
<1> HIDE DEF n
<1> DEFINE w == [i \in 0 .. (n - 1) |-> v[i + 1]]
<1>3. w \in [0 .. (n - 1) -> Stores] /\ w[0] = v[1] /\ w[n - 1] = end
  BY <1>1, <1>2
<1>4. Chained(s, q[1]) /\ v[1] = Applied(s, q[1])
  BY <1>1, <1>2 DEF Reading, n
<1>5. ASSUME NEW i \in 1 .. (n - 1)
      PROVE  Chained(w[i - 1], Tail(q)[i]) /\ w[i] = Applied(w[i - 1], Tail(q)[i])
  <2>1. i + 1 \in 1 .. n /\ w[i] = v[i + 1] /\ w[i - 1] = v[(i + 1) - 1] /\ Tail(q)[i] = q[i + 1]
    BY <1>2
  <2>2. QED
    BY <1>1, <2>1 DEF Reading, n
<1> HIDE DEF w
<1>6. Reading(w, Tail(q))
  BY <1>2, <1>3, <1>5 DEF Reading
<1>7. QED
  BY <1>2, <1>3, <1>4, <1>6 DEF ReadsTo

-----------------------------------------------------------------------------
(* The snapshot.                                                           *)

\* Two stores are the same if they agree in every field.
LEMMA SameStore ==
  ASSUME NEW s \in Stores, NEW t \in Stores,
         s.state = t.state, s.summary = t.summary, s.card = t.card,
         \A n \in Steps : s.steps[n] = t.steps[n]
  PROVE  s = t
<1>1. s.steps = t.steps
  BY DEF Stores
<1>2. QED
  BY <1>1 DEF Stores

\* A report of the first n steps is read as what it says of each.
LEMMA ReadSteps ==
  ASSUME NEW s \in Stores, NEW n \in 0 .. TotalSteps, NEW f \in [1 .. n -> StepStatus]
  PROVE  LET q == [i \in 1 .. n |-> Progress(i, f[i])] IN
         /\ q \in Seq(TabMessages)
         /\ \E e \in Stores : /\ ReadsTo(s, q, e) /\ e.state = s.state
                              /\ \A i \in 1 .. n : e.steps[i] = f[i]
<1> DEFINE q == [i \in 1 .. n |-> Progress(i, f[i])]
           told(j) == [i \in Steps |-> IF i <= j THEN f[i] ELSE s.steps[i]]
           v == [j \in 0 .. n |-> [s EXCEPT !.steps = told(j)]]
<1>1. n \in Nat /\ \A i \in 1 .. n : i \in Steps
  OBVIOUS
<1>2. q \in Seq(TabMessages) /\ Len(q) = n /\ \A i \in 1 .. n : q[i] = Progress(i, f[i])
  <2>1. \A i \in 1 .. n : Progress(i, f[i]) \in TabMessages
    BY <1>1, MessageTypes
  <2>2. q \in [1 .. n -> TabMessages]
    BY <2>1
  <2>3. QED
    BY <1>1, <2>2
<1>3. ASSUME NEW j \in 0 .. n
      PROVE  /\ told(j) \in [Steps -> StepStatus]
             /\ v[j] \in Stores /\ v[j].steps = told(j)
             /\ v[j].state = s.state /\ v[j].summary = s.summary /\ v[j].card = s.card
  <2>1. told(j) \in [Steps -> StepStatus]
    BY DEF Stores
  <2> HIDE DEF told
  <2>2. v[j] = [s EXCEPT !.steps = told(j)]
    OBVIOUS
  <2> HIDE DEF v
  <2>3. QED
    BY <2>1, <2>2 DEF Stores
<1>4. ASSUME NEW j \in 0 .. n, NEW i \in Steps
      PROVE  v[j].steps[i] = IF i <= j THEN f[i] ELSE s.steps[i]
  <2>1. told(j)[i] = IF i <= j THEN f[i] ELSE s.steps[i]
    OBVIOUS
  <2> HIDE DEF told, v
  <2>2. QED
    BY <1>3, <2>1
<1>5. v \in [0 .. n -> Stores]
  <2>1. \A j \in 0 .. n : v[j] \in Stores
    BY <1>3
  <2>2. v = [j \in 0 .. n |-> v[j]]
    OBVIOUS
  <2> HIDE DEF v
  <2>3. QED
    BY <2>1, <2>2
<1> HIDE DEF v, told, q
<1>6. v[0] = s
  <2>1. 0 \in 0 .. n /\ \A i \in Steps : ~(i <= 0)
    BY <1>1
  <2>2. \A i \in Steps : v[0].steps[i] = s.steps[i]
    BY <1>4, <2>1
  <2>3. QED
    BY <1>3, <2>1, <2>2, SameStore
<1>7. ASSUME NEW i \in 1 .. n
      PROVE  Chained(v[i - 1], q[i]) /\ v[i] = Applied(v[i - 1], q[i])
  <2>1. i - 1 \in 0 .. n /\ i \in 0 .. n /\ i \in Steps /\ f[i] \in StepStatus
    BY <1>1
  <2>2. Chained(v[i - 1], q[i])
    BY <1>2, MessageTypes DEF Chained
  <2> DEFINE t == v[i - 1]
             w == [t EXCEPT !.steps[i] = f[i]]
  <2>3. t \in Stores
    BY <1>3, <2>1
  <2>4. Applied(t, q[i]) = w
    <3> HIDE DEF t
    <3>1. Applied(t, Progress(i, f[i])) = [t EXCEPT !.steps[i] = f[i]]
      BY AppliedProgress
    <3>2. QED
      BY <1>2, <3>1
  <2>5. /\ w \in Stores /\ w.state = t.state /\ w.summary = t.summary /\ w.card = t.card
        /\ \A k \in Steps : w.steps[k] = IF k = i THEN f[i] ELSE t.steps[k]
    <3> HIDE DEF t
    <3>1. QED
      BY <2>1, <2>3 DEF Stores
  <2>6. \A k \in Steps : v[i].steps[k] = w.steps[k]
    <3> TAKE k \in Steps
    <3>1. v[i].steps[k] = IF k <= i THEN f[k] ELSE s.steps[k]
      BY <1>4, <2>1
    <3>2. t.steps[k] = IF k <= i - 1 THEN f[k] ELSE s.steps[k]
      BY <1>4, <2>1
    <3>3. (k <= i) <=> (k = i \/ k <= i - 1)
      BY <1>1
    <3> HIDE DEF t, w
    <3>4. QED
      BY <2>5, <3>1, <3>2, <3>3
  <2> HIDE DEF w
  <2>7. v[i] \in Stores /\ v[i].state = t.state /\ v[i].summary = t.summary /\ v[i].card = t.card
    BY <1>3, <2>1
  <2>8. v[i] = w
    BY <2>5, <2>6, <2>7, SameStore
  <2>9. QED
    BY <2>2, <2>4, <2>8
<1>8. ReadsTo(s, q, v[n])
  <2>1. Reading(v, q)
    BY <1>2, <1>5, <1>7 DEF Reading
  <2>2. QED
    BY <1>2, <1>5, <1>6, <2>1 DEF ReadsTo
<1>9. n \in 0 .. n /\ \A i \in 1 .. n : i \in Steps /\ i <= n
  BY <1>1
<1>10. QED
  BY <1>2, <1>3, <1>4, <1>8, <1>9 DEF q

\* What the tab shows is what the row and its orchestrator say.
Agrees(store, state, o) ==
  /\ store.state = state
  /\ state = "MIGRATING" /\ o.state = "MIGRATING" =>
       /\ store.steps[o.currentStep] = "running"
       /\ \A n \in 1 .. (o.currentStep - 1) : store.steps[n] = "complete"
  /\ state = "COMPLETE" => \A n \in Steps : store.steps[n] = "complete"

NoSas == {m \in TabMessages : m.type # "sas"}

\* A tab that reads the snapshot shows what the row says, whatever it showed.
LEMMA ReadSnapshot ==
  ASSUME NEW s \in Stores, row \in States, row = "MIGRATING" => Live.currentStep \in Steps
  PROVE  /\ Snapshot \in Seq(NoSas)
         /\ \E e \in Stores : ReadsTo(s, Snapshot, e) /\ Agrees(e, row, Live)
<1> DEFINE first == StateMsg(row, row)
           t == [s EXCEPT !.state = row]
<1>1. /\ first \in NoSas /\ first \in TabMessages /\ <<first>> \in Seq(NoSas)
      /\ <<first>> \in Seq(TabMessages)
  BY MessageTypes DEF NoSas
<1>2. Chained(s, first) /\ Applied(s, first) = t
  <2>1. first.from = first.to
    BY DEF StateMsg
  <2>2. Applied(s, StateMsg(row, row)) = [s EXCEPT !.state = row]
    BY AppliedChange
  <2>3. QED
    BY <2>1, <2>2 DEF Chained
<1>3. t \in Stores /\ t.state = row
  BY DEF Stores
<1>4. ReadsTo(s, <<first>>, t)
  BY <1>1, <1>2, ReadOne
<1> HIDE DEF first, t
<1>5. ASSUME NEW n \in 0 .. TotalSteps, NEW f \in [1 .. n -> StepStatus],
             Snapshot = <<first>> \o [i \in 1 .. n |-> Progress(i, f[i])]
      PROVE  /\ Snapshot \in Seq(NoSas)
             /\ \E e \in Stores : /\ ReadsTo(s, Snapshot, e) /\ e.state = row
                                  /\ \A i \in 1 .. n : e.steps[i] = f[i]
  <2> DEFINE q == [i \in 1 .. n |-> Progress(i, f[i])]
  <2>1. /\ q \in Seq(TabMessages)
        /\ \E e \in Stores : /\ ReadsTo(t, q, e) /\ e.state = t.state
                             /\ \A i \in 1 .. n : e.steps[i] = f[i]
    BY <1>3, ReadSteps
  <2>2. q \in Seq(NoSas)
    <3>1. \A i \in 1 .. n : Progress(i, f[i]) \in NoSas
      BY MessageTypes DEF NoSas
    <3>2. q \in [1 .. n -> NoSas] /\ n \in Nat
      BY <3>1
    <3>3. QED
      BY <3>2
  <2>3. Snapshot = <<first>> \o q
    BY <1>5
  <2> HIDE DEF q
  <2>4. PICK e \in Stores : /\ ReadsTo(t, q, e) /\ e.state = t.state
                            /\ \A i \in 1 .. n : e.steps[i] = f[i]
    BY <2>1
  <2>5. ReadsTo(s, Snapshot, e)
    BY <1>1, <1>4, <2>1, <2>3, <2>4, ReadBoth
  <2>6. <<first>> \o q \in Seq(NoSas)
    BY <1>1, <2>2, ConcatProperties
  <2>7. QED
    BY <1>3, <2>3, <2>4, <2>5, <2>6
<1>6. CASE row = "COMPLETE"
  <2> DEFINE f == [i \in 1 .. TotalSteps |-> "complete"]
  <2>1. f \in [1 .. TotalSteps -> StepStatus] /\ TotalSteps \in 0 .. TotalSteps
    BY DEF StepStatus
  <2>2. Snapshot = <<first>> \o [i \in 1 .. TotalSteps |-> Progress(i, f[i])]
    BY <1>6 DEF Snapshot, first
  <2>3. \A i \in 1 .. TotalSteps : f[i] = "complete"
    OBVIOUS
  <2> HIDE DEF f
  <2>4. Snapshot \in Seq(NoSas)
    BY <1>5, <2>1, <2>2
  <2>5. PICK e \in Stores : /\ ReadsTo(s, Snapshot, e) /\ e.state = row
                            /\ \A i \in 1 .. TotalSteps : e.steps[i] = f[i]
    BY <1>5, <2>1, <2>2
  <2>6. Agrees(e, row, Live)
    BY <1>6, <2>3, <2>5 DEF Agrees
  <2>7. QED
    BY <2>4, <2>5, <2>6
<1>7. CASE row = "MIGRATING"
  <2> DEFINE n == Live.currentStep
             f == [i \in 1 .. n |-> IF i < n THEN "complete" ELSE "running"]
  <2>1. n \in Steps
    BY <1>7
  <2>2. Snapshot = <<first>> \o [i \in 1 .. n |-> Progress(i, IF i < n THEN "complete" ELSE "running")]
    BY <1>7 DEF Snapshot, first
  <2> HIDE DEF n
  <2>3. f \in [1 .. n -> StepStatus] /\ n \in 0 .. TotalSteps
    BY <2>1 DEF StepStatus
  <2>4. /\ f[n] = "running" /\ n \in 1 .. n
        /\ \A i \in 1 .. (n - 1) : f[i] = "complete" /\ i \in 1 .. n
    BY <2>1
  <2>5. Snapshot = <<first>> \o [i \in 1 .. n |-> Progress(i, f[i])]
    BY <2>2
  <2> HIDE DEF f
  <2>6. Snapshot \in Seq(NoSas)
    BY <1>5, <2>3, <2>5
  <2>7. PICK e \in Stores : /\ ReadsTo(s, Snapshot, e) /\ e.state = row
                            /\ \A i \in 1 .. n : e.steps[i] = f[i]
    BY <1>5, <2>3, <2>5
  <2>8. Agrees(e, row, Live)
    BY <1>7, <2>4, <2>7 DEF Agrees, n
  <2>9. QED
    BY <2>6, <2>7, <2>8
<1>8. CASE row \notin {"COMPLETE", "MIGRATING"}
  <2>1. Snapshot = <<first>>
    <3>1. Snapshot = <<first>> \o << >>
      BY <1>8 DEF Snapshot, first
    <3>2. QED
      BY <3>1, EventPairs
  <2>2. Agrees(t, row, Live)
    BY <1>3, <1>8 DEF Agrees
  <2>3. QED
    BY <1>1, <1>3, <1>4, <2>1, <2>2
<1>9. QED
  BY <1>6, <1>7, <1>8

-----------------------------------------------------------------------------
(* The tab is told of a call.                                              *)

\* A tab with the store start that reads what is broadcast of events shows end.
Hears(start, events, end) == ReadsTo(start, Broadcasts(events), end)

\* Broadcasts are messages to the tab, and the SAS is not among them.
LEMMA BroadcastTypes ==
  ASSUME NEW events \in Seq(Events)
  PROVE  Broadcasts(events) \in Seq(NoSas)
<1> DEFINE passed == Filter(events, ShownEvents)
<1>1. passed \in Seq(Events \cap ShownEvents)
  BY FilterElements
<1>2. Broadcasts(events) = [i \in DOMAIN passed |-> ViewOf(passed[i])]
  BY DEF Broadcasts
<1> HIDE DEF passed
<1>3. \A x \in Events \cap ShownEvents : ViewOf(x) \in NoSas
  <2> TAKE x \in Events \cap ShownEvents
  <2>1. CASE x \in [event : {"state_change"}, from : States, to : States]
    BY <2>1, MessageTypes DEF ViewOf, NoSas
  <2>2. CASE x \in [event : {"execute_step", "step_completed"}, step : Steps]
    <3>1. "running" \in StepStatus /\ "complete" \in StepStatus
      BY DEF StepStatus
    <3>2. CASE x.event = "execute_step"
      <4>1. ViewOf(x) = Progress(x.step, "running") /\ x.step \in Steps
        BY <2>2, <3>2 DEF ViewOf
      <4>2. QED
        BY <3>1, <4>1, MessageTypes DEF NoSas
    <3>3. CASE x.event = "step_completed"
      <4>1. ViewOf(x) = Progress(x.step, "complete") /\ x.step \in Steps
        BY <2>2, <3>3 DEF ViewOf
      <4>2. QED
        BY <3>1, <4>1, MessageTypes DEF NoSas
    <3>4. QED
      BY <2>2, <3>2, <3>3
  <2>3. CASE x \in [event : {"step_failed_event"}, step : Steps, role : Roles]
    <3>1. "failed" \in StepStatus
      BY DEF StepStatus
    <3>2. ViewOf(x) = Progress(x.step, "failed") /\ x.step \in Steps
      BY <2>3 DEF ViewOf
    <3>3. QED
      BY <3>1, <3>2, MessageTypes DEF NoSas
  <2>4. CASE x.event = "session_complete"
    <3>1. ViewOf(x) = Complete
      BY <2>4 DEF ViewOf
    <3>2. QED
      BY <3>1, MessageTypes DEF NoSas
  <2>5. QED
    BY <2>1, <2>2, <2>3, <2>4 DEF Events, ShownEvents, IsShown
<1>4. Len(passed) \in Nat /\ DOMAIN passed = 1 .. Len(passed)
  BY <1>1
<1>5. \A i \in 1 .. Len(passed) : ViewOf(passed[i]) \in NoSas
  BY <1>1, <1>3
<1>6. [i \in 1 .. Len(passed) |-> ViewOf(passed[i])] \in Seq(NoSas)
  BY <1>4, <1>5
<1>7. QED
  BY <1>2, <1>4, <1>6

\* What is broadcast of two lists is broadcast one after the other.
LEMMA BroadcastBoth ==
  ASSUME NEW s \in Seq(Events), NEW t \in Seq(Events)
  PROVE  Broadcasts(s \o t) = Broadcasts(s) \o Broadcasts(t)
<1> DEFINE p == Filter(s, ShownEvents)
           q == Filter(t, ShownEvents)
           View1(r) == [i \in DOMAIN r |-> ViewOf(r[i])]
<1>1. Filter(s \o t, ShownEvents) = p \o q
  BY FilterConcat
<1>2. /\ Broadcasts(s) = View1(p) /\ Broadcasts(t) = View1(q)
      /\ Broadcasts(s \o t) = View1(p \o q)
  BY <1>1 DEF Broadcasts
<1>3. p \in Seq(Events) /\ q \in Seq(Events)
  <2>1. p \in Seq(Events \cap ShownEvents) /\ q \in Seq(Events \cap ShownEvents)
    BY FilterElements
  <2>2. QED
    BY <2>1, SeqMonotonic
<1> HIDE DEF p, q
<1>4. View1(p \o q) = View1(p) \o View1(q)
  <2> DEFINE X == {ViewOf(x) : x \in Events}
  <2>1. ASSUME NEW r \in Seq(Events)
        PROVE  /\ View1(r) \in Seq(X) /\ Len(View1(r)) = Len(r) /\ Len(r) \in Nat
               /\ \A i \in 1 .. Len(r) : View1(r)[i] = ViewOf(r[i])
    <3>1. Len(r) \in Nat /\ DOMAIN r = 1 .. Len(r) /\ \A i \in 1 .. Len(r) : r[i] \in Events
      OBVIOUS
    <3>2. View1(r) \in [1 .. Len(r) -> X]
      BY <3>1
    <3>3. QED
      BY <3>1, <3>2
  <2> HIDE DEF View1, X
  <2>2. p \o q \in Seq(Events) /\ Len(p \o q) = Len(p) + Len(q)
    BY <1>3, ConcatProperties
  <2>3. /\ View1(p) \in Seq(X) /\ Len(View1(p)) = Len(p) /\ Len(p) \in Nat
        /\ View1(q) \in Seq(X) /\ Len(View1(q)) = Len(q) /\ Len(q) \in Nat
        /\ View1(p \o q) \in Seq(X) /\ Len(View1(p \o q)) = Len(p) + Len(q)
    BY <1>3, <2>1, <2>2
  <2>4. View1(p) \o View1(q) \in Seq(X) /\ Len(View1(p) \o View1(q)) = Len(p) + Len(q)
    BY <2>3, ConcatProperties
  <2>5. ASSUME NEW i \in 1 .. (Len(p) + Len(q))
        PROVE  View1(p \o q)[i] = (View1(p) \o View1(q))[i]
    <3>1. View1(p \o q)[i] = ViewOf((p \o q)[i])
      BY <2>1, <2>2
    <3>2. CASE i <= Len(p)
      <4>1. i \in 1 .. Len(p) /\ (p \o q)[i] = p[i]
        BY <1>3, <2>3, <3>2, ConcatProperties
      <4>2. (View1(p) \o View1(q))[i] = View1(p)[i]
        BY <2>3, <3>2, ConcatProperties
      <4>3. View1(p)[i] = ViewOf(p[i])
        BY <1>3, <2>1, <4>1
      <4>4. QED
        BY <3>1, <4>1, <4>2, <4>3
    <3>3. CASE i > Len(p)
      <4>1. i - Len(p) \in 1 .. Len(q) /\ (p \o q)[i] = q[i - Len(p)]
        BY <1>3, <2>3, <3>3, ConcatProperties
      <4>2. (View1(p) \o View1(q))[i] = View1(q)[i - Len(p)]
        BY <2>3, <3>3, ConcatProperties
      <4>3. View1(q)[i - Len(p)] = ViewOf(q[i - Len(p)])
        BY <1>3, <2>1, <4>1
      <4>4. QED
        BY <3>1, <4>1, <4>2, <4>3
    <3>4. QED
      BY <2>3, <3>2, <3>3
  <2>6. QED
    BY <2>3, <2>4, <2>5, SeqEqual
<1>5. QED
  BY <1>2, <1>4

\* Nothing is broadcast of events that dashboards do not hear of.
LEMMA HearsNothing ==
  ASSUME NEW s \in Stores, NEW events \in Seq(Events \ ShownEvents)
  PROVE  Hears(s, events, s)
<1>1. Filter(events, ShownEvents) = << >>
  BY FilterNone
<1>2. Broadcasts(events) = << >>
  BY <1>1 DEF Broadcasts
<1>3. QED
  BY <1>2, ReadNothing DEF Hears

\* One event that dashboards do hear of.
LEMMA HearsOne ==
  ASSUME NEW s \in Stores, NEW x \in Events, IsShown(x), Chained(s, ViewOf(x))
  PROVE  Hears(s, <<x>>, Applied(s, ViewOf(x))) /\ Applied(s, ViewOf(x)) \in Stores
<1>1. Filter(<<x>>, ShownEvents) = <<x>>
  BY FilterOne DEF ShownEvents
<1>2. Broadcasts(<<x>>) = <<ViewOf(x)>>
  BY <1>1 DEF Broadcasts
<1>3. Broadcasts(<<x>>) \in Seq(NoSas)
  <2>1. <<x>> \in Seq(Events)
    OBVIOUS
  <2>2. QED
    BY <2>1, BroadcastTypes
<1>4. ViewOf(x) \in TabMessages
  <2> DEFINE m == ViewOf(x)
  <2> HIDE DEF m
  <2>1. <<m>> \in Seq(NoSas)
    BY <1>2, <1>3 DEF m
  <2>2. Len(<<m>>) = 1 /\ <<m>>[1] = m
    OBVIOUS
  <2>3. m \in NoSas
    BY <2>1, <2>2, ElementOfSeq
  <2>4. QED
    BY <2>3 DEF m, NoSas
<1>5. QED
  BY <1>2, <1>4, ReadOne, AppliedStores DEF Hears

\* Two lists are heard one after the other.
LEMMA HearsBoth ==
  ASSUME NEW s \in Seq(Events), NEW t \in Seq(Events),
         NEW start, NEW mid, NEW end, Hears(start, s, mid), Hears(mid, t, end)
  PROVE  Hears(start, s \o t, end)
<1>1. Broadcasts(s) \in Seq(NoSas) /\ Broadcasts(t) \in Seq(NoSas)
  BY BroadcastTypes
<1>2. ReadsTo(start, Broadcasts(s), mid) /\ ReadsTo(mid, Broadcasts(t), end)
  BY DEF Hears
<1>3. ReadsTo(start, Broadcasts(s) \o Broadcasts(t), end)
  BY <1>1, <1>2, ReadBoth
<1>4. QED
  BY <1>3, BroadcastBoth DEF Hears

\* A change of state, heard by a tab that shows where it starts or IDLE.
LEMMA HearsChange ==
  ASSUME NEW s \in Stores, NEW a \in States, NEW b \in States, a \in {s.state, "IDLE"}
  PROVE  \E e \in Stores : /\ Hears(s, <<StateChange(a, b)>>, e)
                           /\ e.state = b /\ e.steps = s.steps
<1> DEFINE x == StateChange(a, b)
           e == Applied(s, ViewOf(x))
<1>1. x \in Events /\ IsShown(x) /\ ViewOf(x) = StateMsg(a, b)
  BY EventTypes DEF IsShown, ViewOf, StateChange
<1>2. Chained(s, StateMsg(a, b))
  BY DEF Chained, StateMsg
<1> HIDE DEF x
<1>3. Hears(s, <<x>>, e) /\ e \in Stores
  BY <1>1, <1>2, HearsOne
<1>4. e = [s EXCEPT !.state = b]
  BY <1>1, AppliedChange
<1>5. e.state = b /\ e.steps = s.steps
  BY <1>4 DEF Stores
<1>6. QED
  BY <1>3, <1>5 DEF x

\* An event of a step, which is shown with a status.
LEMMA HearsStep ==
  ASSUME NEW s \in Stores, NEW x \in Events, NEW n \in Steps, NEW st \in StepStatus,
         IsShown(x), ViewOf(x) = Progress(n, st)
  PROVE  \E e \in Stores : /\ Hears(s, <<x>>, e) /\ e.state = s.state
                           /\ \A k \in Steps : e.steps[k] = IF k = n THEN st ELSE s.steps[k]
<1> DEFINE e == Applied(s, ViewOf(x))
<1>1. Chained(s, ViewOf(x))
  BY MessageTypes DEF Chained
<1>2. Hears(s, <<x>>, e) /\ e \in Stores
  BY <1>1, HearsOne
<1>3. e = [s EXCEPT !.steps[n] = st]
  BY AppliedProgress
<1>4. e.state = s.state /\ \A k \in Steps : e.steps[k] = IF k = n THEN st ELSE s.steps[k]
  BY <1>3 DEF Stores
<1>5. QED
  BY <1>2, <1>4

\* The three events of a step.
LEMMA StepViews ==
  ASSUME NEW n \in Steps
  PROVE  /\ IsShown(ExecuteStep(n)) /\ ViewOf(ExecuteStep(n)) = Progress(n, "running")
         /\ IsShown(StepCompleted(n)) /\ ViewOf(StepCompleted(n)) = Progress(n, "complete")
         /\ \A r \in Roles : /\ IsShown(StepFailedEvent(n, r))
                             /\ ViewOf(StepFailedEvent(n, r)) = Progress(n, "failed")
  BY DEF IsShown, ViewOf, ExecuteStep, StepCompleted, StepFailedEvent

\* The events dashboards do not hear of.
LEMMA Unheard ==
  /\ SessionFailed \in Events \ ShownEvents /\ CriticalAlert \in Events \ ShownEvents
  /\ Thrown \in Events \ ShownEvents
  /\ Rollbacks \subseteq Events \ ShownEvents
<1>1. \A name : ~IsShown(Rollback(name))
  BY DEF IsShown, Rollback
<1>2. ~IsShown(SessionFailed) /\ ~IsShown(CriticalAlert) /\ ~IsShown(Thrown)
  BY DEF IsShown, SessionFailed, CriticalAlert, Thrown
<1>3. QED
  BY <1>1, <1>2, EventTypes DEF ShownEvents, Rollbacks

-----------------------------------------------------------------------------
(* The calls.                                                              *)

\* The counters of a migration follow its state, and ROLLBACK is never seen
\* between two calls.
WellFormed(o) ==
  /\ o.state # "ROLLBACK"
  /\ o.state \in {"IDLE", "PAIRING", "PREFLIGHT", "AWAITING_WINDOW"} =>
       o.currentStep = 0 /\ o.stepsCompleted = 0
  /\ o.state = "MIGRATING" =>
       o.currentStep \in Steps /\ o.stepsCompleted = o.currentStep - 1

\* What a call on the object says.
Outcome(o) ==
  \/ Silent(o) /\ orch'.currentStep = o.currentStep
  \/ Changes(o)
  \/ \E before \in Preludes : FailsNow(o, before)
  \/ \E before \in Preludes : RollsBack(o, before)
  \/ Starts(o) \/ Dispatches(o) \/ Finishes(o)

\* The call leaves a well-formed object behind.
Leaves(o) == orch' \in Orchestrators /\ WellFormed(orch') /\ Outcome(o)

USE DEF SamePairing, SameProgress, Unchanged, Moved

\* A new orchestrator is well-formed.
LEMMA FreshFormed == Fresh \in Orchestrators /\ WellFormed(Fresh) /\ Fresh.state = "IDLE"
  BY DEF Fresh, Orchestrators, States, Verdicts, WellFormed

\* An agent's call on a well-formed object.
LEMMA AgentOutcome ==
  ASSUME NEW o \in Orchestrators, WellFormed(o), NEW role \in Roles,
         \/ OnAgentConnected(o, role) \/ OnAgentDisconnected(o, role)
         \/ OnSasConfirmed(o, role)
         \/ \E verdict \in Verdicts : OnPreflightResult(o, role, verdict)
         \/ /\ o.state = "MIGRATING"
            /\ \/ OnStepComplete(o, o.currentStep, role)
               \/ OnStepFailed(o, o.currentStep, role)
  PROVE  Leaves(o)
<1>1. << >> \in Preludes /\ \A s \in Steps, r \in Roles : <<StepFailedEvent(s, r)>> \in Preludes
  BY DEF Preludes
<1>2. CASE OnAgentConnected(o, role)
  <2>1. Silent(o) \/ Changes(o)
    BY <1>2, ConnectedSays
  <2>2. /\ orch' \in Orchestrators /\ SameProgress(o)
        /\ orch'.state = o.state \/ (o.state = "IDLE" /\ orch'.state = "PAIRING")
    BY <1>2, ConnectedShape
  <2>3. QED
    BY <2>1, <2>2 DEF Leaves, Outcome, WellFormed
<1>3. CASE OnAgentDisconnected(o, role)
  <2>1. Silent(o) \/ Changes(o) \/ RollsBack(o, << >>)
    BY <1>3, DisconnectedSays
  <2>2. /\ orch' \in Orchestrators /\ SameProgress(o)
        /\ \/ orch'.state = o.state
           \/ o.state \in {"PAIRING", "PREFLIGHT"} /\ orch'.state = "IDLE"
           \/ orch'.state = "FAILED"
    BY <1>3, DisconnectedShape
  <2>3. QED
    BY <1>1, <2>1, <2>2 DEF Leaves, Outcome, WellFormed
<1>4. CASE OnSasConfirmed(o, role)
  <2>1. Silent(o) \/ Changes(o)
    BY <1>4, SasSays
  <2>2. /\ orch' \in Orchestrators /\ SameProgress(o)
        /\ orch'.state = o.state \/ (o.state = "PAIRING" /\ orch'.state = "PREFLIGHT")
    BY <1>4, SasShape
  <2>3. QED
    BY <2>1, <2>2 DEF Leaves, Outcome, WellFormed
<1>5. ASSUME NEW verdict \in Verdicts, OnPreflightResult(o, role, verdict)
      PROVE  Leaves(o)
  <2>1. Silent(o) \/ Changes(o) \/ FailsNow(o, << >>)
    BY <1>5, PreflightSays
  <2>2. /\ orch' \in Orchestrators /\ SameProgress(o)
        /\ \/ orch'.state = o.state
           \/ /\ o.state = "PREFLIGHT"
              /\ orch'.state \in {"PREFLIGHT", "FAILED", "AWAITING_WINDOW"}
    BY <1>5, PreflightShape
  <2>3. QED
    BY <1>1, <2>1, <2>2 DEF Leaves, Outcome, WellFormed
<1>6. CASE o.state = "MIGRATING" /\ OnStepComplete(o, o.currentStep, role)
  <2> DEFINE n == o.currentStep
  <2>1. n \in Steps /\ o.stepsCompleted = n - 1 /\ o.stepsCompleted < TotalSteps
    BY <1>6 DEF WellFormed
  <2>2. \/ Silent(o) /\ orch'.currentStep = o.currentStep
        \/ Dispatches(o) \/ Finishes(o)
    BY <1>6, <2>1, StepCompleteSays
  <2>3. StepReported(o, n, role)
    BY <1>6, <2>1, StepCompleteShape
  <2>4. orch' \in Orchestrators /\ WellFormed(orch')
    <3>1. CASE Waits(o, n, role)
      BY <1>6, <2>1, <2>3, <3>1 DEF StepReported, Waits, WellFormed
    <3>2. CASE Advances(o, n, role)
      BY <2>1, <2>3, <3>2 DEF StepReported, Advances, WellFormed
    <3>3. QED
      BY <2>3, <3>1, <3>2 DEF StepReported
  <2>5. QED
    BY <2>2, <2>4 DEF Leaves, Outcome
<1>7. CASE o.state = "MIGRATING" /\ OnStepFailed(o, o.currentStep, role)
  <2> DEFINE n == o.currentStep
  <2>1. n \in Steps
    BY <1>7 DEF WellFormed
  <2>2. \/ Silent(o) \/ RollsBack(o, <<StepFailedEvent(n, role)>>)
        \/ FailsNow(o, <<StepFailedEvent(n, role)>>)
    BY <1>7, <2>1, StepFailedSays
  <2>3. Unchanged(o) \/ Moved(o, "FAILED")
    BY <1>7, <2>1, StepFailedShape
  <2>4. orch' \in Orchestrators /\ WellFormed(orch') /\ orch'.currentStep = o.currentStep
    BY <2>3 DEF WellFormed
  <2>5. <<StepFailedEvent(n, role)>> \in Preludes
    BY <1>1, <2>1
  <2>6. QED
    BY <2>2, <2>4, <2>5 DEF Leaves, Outcome
<1>8. QED
  BY <1>2, <1>3, <1>4, <1>5, <1>6, <1>7

\* An abort of a well-formed object.
LEMMA AbortOutcome ==
  ASSUME NEW o \in Orchestrators, WellFormed(o), Abort(o)
  PROVE  Leaves(o) /\ (o.state \notin Terminal => orch'.state = "FAILED")
<1>1. << >> \in Preludes /\ o.state # "ROLLBACK"
  BY DEF Preludes, WellFormed
<1>2. Silent(o) \/ RollsBack(o, << >>) \/ FailsNow(o, << >>)
  BY <1>1, AbortSays
<1>3. \/ o.state \in Terminal /\ Unchanged(o)
      \/ o.state \notin Terminal /\ Moved(o, "FAILED")
  BY <1>1, AbortShape
<1>4. orch' \in Orchestrators /\ WellFormed(orch') /\ orch'.currentStep = o.currentStep
  BY <1>3 DEF WellFormed
<1>5. QED
  BY <1>1, <1>2, <1>3, <1>4 DEF Leaves, Outcome

\* The start of a migration whose window is open.
LEMMA StartOutcome ==
  ASSUME NEW o \in Orchestrators, WellFormed(o), o.state = "AWAITING_WINDOW",
         StartMigration(o)
  PROVE  Leaves(o)
<1>1. Starts(o)
  BY StartSays
<1>2. /\ orch' \in Orchestrators /\ orch'.state = "MIGRATING" /\ orch'.currentStep = 1
      /\ orch'.stepsCompleted = 0
  BY StartShape DEF WellFormed
<1>3. QED
  BY <1>1, <1>2 DEF Leaves, Outcome, WellFormed

\* A prelude is a list of at most one event, a failed step.
LEMMA PreludeTypes ==
  ASSUME NEW before \in Preludes
  PROVE  before \in Seq(Events)
<1>1. CASE before = << >>
  BY <1>1
<1>2. ASSUME NEW n \in Steps, NEW r \in Roles, before = <<StepFailedEvent(n, r)>>
      PROVE  before \in Seq(Events)
  <2>1. StepFailedEvent(n, r) \in Events
    BY EventTypes
  <2>2. QED
    BY <1>2, <2>1
<1>3. QED
  BY <1>1, <1>2 DEF Preludes

\* Every outcome emits events.
LEMMA OutcomeEvents ==
  ASSUME NEW o \in Orchestrators, orch' \in Orchestrators, Outcome(o)
  PROVE  emitted' \in Seq(Events)
<1>1. \A s \in Seq(Events), x \in Events : Append(s, x) \in Seq(Events)
  OBVIOUS
<1>2. /\ o.state \in States /\ orch'.state \in States
      /\ \A a \in {"FAILED", "MIGRATING", "ROLLBACK", "COMPLETE", "AWAITING_WINDOW"} : a \in States
  BY DEF Orchestrators, States
<1>3. CASE Silent(o)
  BY <1>3, EventLists DEF Silent
<1>4. CASE Changes(o)
  <2>1. StateChange(o.state, orch'.state) \in Events
    BY <1>2, EventTypes
  <2>2. QED
    BY <1>4, <2>1 DEF Changes
<1>5. ASSUME NEW before \in Preludes, FailsNow(o, before) PROVE emitted' \in Seq(Events)
  <2>1. StateChange(o.state, "FAILED") \in Events /\ SessionFailed \in Events
    BY <1>2, EventTypes
  <2>2. <<StateChange(o.state, "FAILED"), SessionFailed>> \in Seq(Events)
    BY <2>1
  <2>3. QED
    BY <1>5, <2>2, PreludeTypes, ConcatProperties DEF FailsNow
<1>6. ASSUME NEW before \in Preludes, RollsBack(o, before) PROVE emitted' \in Seq(Events)
  <2>1. /\ StateChange("MIGRATING", "ROLLBACK") \in Events
        /\ StateChange("ROLLBACK", "FAILED") \in Events /\ SessionFailed \in Events
    BY <1>2, EventTypes
  <2>2. /\ <<StateChange("MIGRATING", "ROLLBACK")>> \in Seq(Events)
        /\ <<StateChange("ROLLBACK", "FAILED"), SessionFailed>> \in Seq(Events)
    BY <2>1
  <2>3. RollbackEvents(o.currentStep) \in Seq(Events)
    <3>1. Rollbacks \subseteq Events
      BY Unheard
    <3>2. QED
      BY <3>1, RollbackEventsAre, SeqMonotonic
  <2>4. before \in Seq(Events)
    BY PreludeTypes
  <2>5. QED
    BY <1>6, <2>2, <2>3, <2>4, ConcatProperties DEF RollsBack
<1>7. CASE Starts(o)
  <2>1. StateChange("AWAITING_WINDOW", "MIGRATING") \in Events /\ ExecuteStep(1) \in Events
    BY <1>2, EventTypes
  <2>2. QED
    BY <1>7, <2>1 DEF Starts
<1>8. CASE Dispatches(o)
  <2>1. StepCompleted(o.currentStep) \in Events /\ ExecuteStep(o.currentStep + 1) \in Events
    BY <1>8, EventTypes DEF Dispatches
  <2>2. QED
    BY <1>8, <2>1 DEF Dispatches
<1>9. CASE Finishes(o)
  <2>1. /\ StepCompleted(TotalSteps) \in Events /\ StateChange("MIGRATING", "COMPLETE") \in Events
        /\ SessionComplete \in Events
    BY <1>2, EventTypes
  <2>2. QED
    BY <1>9, <2>1 DEF Finishes
<1>10. QED
  BY <1>3, <1>4, <1>5, <1>6, <1>7, <1>8, <1>9 DEF Outcome

-----------------------------------------------------------------------------
(* The row after a call, and what the tab is told of it.                   *)

\* The row may lag behind a revived orchestrator, which starts in IDLE.
Follows(state, o) == state # o.state => o.state = "IDLE"

\* What is left to show: the row and the orchestrator after a call, and the
\* store of a tab that agreed with them before and has heard of it.
Told(o, end) ==
  LET state == RowAfter(row, emitted') IN
  /\ state \in States /\ Follows(state, orch')
  /\ state \notin Terminal => ~Ends(emitted')
  /\ state = "MIGRATING" =>
       orch'.state = "MIGRATING" \/ (row = "MIGRATING" /\ orch'.state = o.state)
  /\ \E e \in Stores : Hears(end, emitted', e) /\ Agrees(e, state, orch')

\* The row after a list whose last event is, or is not, written to it.
LEMMA RowAfterLast ==
  ASSUME NEW old, NEW s \in Seq(Events), NEW x \in Events
  PROVE  /\ x \in RowEvents => RowAfter(old, Append(s, x)) = Written(x)
         /\ x \notin RowEvents => RowAfter(old, Append(s, x)) = RowAfter(old, s)
  BY RowFollows

\* What the row's events write, and the steps, which are not among them.
LEMMA RowWrites ==
  /\ \A a, b \in States : StateChange(a, b) \in RowEvents /\ Written(StateChange(a, b)) = b
  /\ SessionComplete \in RowEvents /\ Written(SessionComplete) = "COMPLETE"
  /\ \A n \in Steps : ExecuteStep(n) \notin RowEvents /\ StepCompleted(n) \notin RowEvents
<1>1. \A a, b \in States : StateChange(a, b) \in RowEvents /\ Written(StateChange(a, b)) = b
  BY EventTypes DEF RowEvents, Written, StateChange
<1>2. SessionComplete \in RowEvents /\ Written(SessionComplete) = "COMPLETE"
  BY EventTypes DEF RowEvents, Written, SessionComplete
<1>3. \A n \in Steps : ExecuteStep(n) \notin RowEvents /\ StepCompleted(n) \notin RowEvents
  BY DEF RowEvents, ExecuteStep, StepCompleted
<1>4. QED
  BY <1>1, <1>2, <1>3

\* None of these events ends a session.
LEMMA NoEnd ==
  /\ ~Ends(<< >>) /\ ~Ends(<<CriticalAlert>>)
  /\ \A a, b : ~Ends(<<StateChange(a, b)>>)
  /\ \A a, b, n : ~Ends(<<StateChange(a, b), ExecuteStep(n)>>)
  /\ \A n, k : ~Ends(<<StepCompleted(n), ExecuteStep(k)>>)
<1>1. ~Ends(<< >>)
  BY DEF Ends
<1>2. ~Ends(<<CriticalAlert>>)
  BY DEF Ends, CriticalAlert
<1>3. \A a, b : ~Ends(<<StateChange(a, b)>>)
  BY DEF Ends, StateChange
<1>4. \A a, b, n : ~Ends(<<StateChange(a, b), ExecuteStep(n)>>)
  BY DEF Ends, StateChange, ExecuteStep
<1>5. \A n, k : ~Ends(<<StepCompleted(n), ExecuteStep(k)>>)
  BY DEF Ends, StepCompleted, ExecuteStep
<1>6. QED
  BY <1>1, <1>2, <1>3, <1>4, <1>5

\* A silent call.
LEMMA SilentTold ==
  ASSUME NEW o \in Orchestrators, NEW end \in Stores, row \in States, Follows(row, o),
         Agrees(end, row, o), Silent(o), orch'.currentStep = o.currentStep
  PROVE  Told(o, end)
<1>1. RowAfter(row, emitted') = row /\ ~Ends(emitted')
  BY RowOfLists, NoEnd DEF Silent
<1>2. Hears(end, emitted', end)
  <2>1. << >> \in Seq(Events \ ShownEvents) /\ <<CriticalAlert>> \in Seq(Events \ ShownEvents)
    BY Unheard
  <2>2. QED
    BY <2>1, HearsNothing DEF Silent
<1>3. Agrees(end, row, orch') /\ Follows(row, orch') /\ orch'.state = o.state
  BY DEF Agrees, Follows, Silent
<1>4. row = "MIGRATING" => orch'.state = "MIGRATING" \/ (row = "MIGRATING" /\ orch'.state = o.state)
  BY <1>3
<1>5. QED
  BY <1>1, <1>2, <1>3, <1>4 DEF Told

\* A change of state before the migration.
LEMMA ChangeTold ==
  ASSUME NEW o \in Orchestrators, NEW end \in Stores, row \in States, Follows(row, o),
         Agrees(end, row, o), orch' \in Orchestrators, Changes(o)
  PROVE  Told(o, end)
<1> DEFINE b == orch'.state
<1>1. o.state \in States /\ b \in States /\ b \notin {"MIGRATING", "COMPLETE"}
  BY DEF Orchestrators, Changes
<1>2. emitted' = <<StateChange(o.state, b)>>
  BY DEF Changes
<1>n. ~Ends(emitted')
  BY <1>2, NoEnd
<1>3. RowAfter(row, emitted') = b
  <2> DEFINE x == StateChange(o.state, b)
  <2> HIDE DEF b
  <2>1. x \in Events /\ x \in RowEvents /\ Written(x) = b
    BY <1>1, EventTypes, RowWrites
  <2>2. emitted' = <<x>>
    BY <1>2
  <2> HIDE DEF x
  <2>3. << >> \in Seq(Events) /\ <<x>> = Append(<< >>, x)
    OBVIOUS
  <2>4. QED
    BY <2>1, <2>2, <2>3, RowAfterLast
<1>4. PICK e \in Stores : Hears(end, emitted', e) /\ e.state = b
  <2>1. o.state \in {end.state, "IDLE"}
    BY DEF Follows, Agrees
  <2>2. QED
    BY <1>1, <1>2, <2>1, HearsChange
<1>5. Agrees(e, b, orch') /\ Follows(b, orch')
  BY <1>1, <1>4 DEF Agrees, Follows
<1>6. QED
  BY <1>1, <1>3, <1>4, <1>5, <1>n DEF Told

\* What is said before the failure does not change the state shown.
LEMMA PreludeHeard ==
  ASSUME NEW before \in Preludes, NEW s \in Stores
  PROVE  \E e \in Stores : Hears(s, before, e) /\ e.state = s.state
<1>1. CASE before = << >>
  <2>1. << >> \in Seq(Events \ ShownEvents)
    OBVIOUS
  <2>2. QED
    BY <1>1, <2>1, HearsNothing
<1>2. ASSUME NEW n \in Steps, NEW r \in Roles, before = <<StepFailedEvent(n, r)>>
      PROVE  \E e \in Stores : Hears(s, before, e) /\ e.state = s.state
  <2>1. /\ StepFailedEvent(n, r) \in Events /\ IsShown(StepFailedEvent(n, r))
        /\ ViewOf(StepFailedEvent(n, r)) = Progress(n, "failed") /\ "failed" \in StepStatus
    BY EventTypes, StepViews DEF StepStatus
  <2>2. QED
    BY <1>2, <2>1, HearsStep
<1>3. QED
  BY <1>1, <1>2 DEF Preludes

\* A session that ends as FAILED, when the tab has heard the change to it.
LEMMA FailedTold ==
  ASSUME NEW o, NEW end, NEW s \in Seq(Events), NEW e \in Stores,
         orch'.state = "FAILED", emitted' = Append(s, SessionFailed),
         Hears(end, s, e), e.state = "FAILED"
  PROVE  Told(o, end)
<1>1. RowAfter(row, emitted') = "FAILED"
  BY RowOfLists
<1>2. Hears(end, emitted', e)
  <2>1. <<SessionFailed>> \in Seq(Events \ ShownEvents) /\ <<SessionFailed>> \in Seq(Events)
    BY Unheard
  <2>2. Hears(e, <<SessionFailed>>, e)
    BY <2>1, HearsNothing
  <2>3. emitted' = s \o <<SessionFailed>>
    BY <2>1, AppendIsConcat
  <2>4. QED
    BY <2>1, <2>2, <2>3, HearsBoth
<1>3. Agrees(e, "FAILED", orch') /\ Follows("FAILED", orch') /\ "FAILED" \in States
  BY DEF Agrees, Follows, States
<1>4. QED
  BY <1>1, <1>2, <1>3 DEF Told

\* A failure without a rollback.
LEMMA FailsNowTold ==
  ASSUME NEW o \in Orchestrators, NEW end \in Stores, Follows(row, o), Agrees(end, row, o),
         NEW before \in Preludes, FailsNow(o, before)
  PROVE  Told(o, end)
<1> DEFINE x == StateChange(o.state, "FAILED")
<1>1. o.state \in States /\ "FAILED" \in States
  BY DEF Orchestrators, States
<1>2. x \in Events /\ SessionFailed \in Events /\ before \in Seq(Events)
  BY <1>1, EventTypes, PreludeTypes
<1>3. PICK s \in Stores : Hears(end, before, s) /\ s.state = end.state
  BY PreludeHeard
<1>4. PICK e \in Stores : Hears(s, <<x>>, e) /\ e.state = "FAILED"
  <2>1. o.state \in {s.state, "IDLE"}
    BY <1>3 DEF Follows, Agrees
  <2>2. QED
    BY <1>1, <2>1, HearsChange
<1>5. emitted' = before \o <<x, SessionFailed>> /\ orch'.state = "FAILED"
  BY DEF FailsNow
<1> HIDE DEF x
<1>6. <<x>> \in Seq(Events) /\ before \o <<x>> \in Seq(Events)
  BY <1>2, ConcatProperties
<1>7. Hears(end, before \o <<x>>, e)
  BY <1>2, <1>3, <1>4, <1>6, HearsBoth
<1>8. emitted' = Append(before \o <<x>>, SessionFailed)
  <2>1. <<x, SessionFailed>> = Append(<<x>>, SessionFailed)
    BY <1>2
  <2>2. before \o Append(<<x>>, SessionFailed) = Append(before \o <<x>>, SessionFailed)
    BY <1>2, <1>6
  <2>3. QED
    BY <1>5, <2>1, <2>2
<1>9. QED
  BY <1>4, <1>5, <1>6, <1>7, <1>8, FailedTold

\* A failure by way of ROLLBACK.
LEMMA RollsBackTold ==
  ASSUME NEW o \in Orchestrators, NEW end \in Stores, Follows(row, o), Agrees(end, row, o),
         NEW before \in Preludes, RollsBack(o, before)
  PROVE  Told(o, end)
<1> DEFINE x == StateChange("MIGRATING", "ROLLBACK")
           y == StateChange("ROLLBACK", "FAILED")
           undo == RollbackEvents(o.currentStep)
<1>1. \A a \in {"MIGRATING", "ROLLBACK", "FAILED"} : a \in States
  BY DEF States
<1>2. /\ x \in Events /\ y \in Events /\ SessionFailed \in Events /\ before \in Seq(Events)
      /\ <<x>> \in Seq(Events) /\ <<y>> \in Seq(Events)
  BY <1>1, EventTypes, PreludeTypes
<1>3. undo \in Seq(Events \ ShownEvents) /\ undo \in Seq(Events)
  <2>1. undo \in Seq(Rollbacks)
    BY RollbackEventsAre
  <2>2. undo \in Seq(Events \ ShownEvents)
    BY <2>1, Unheard, SeqMonotonic
  <2> HIDE DEF undo
  <2>3. Events \ ShownEvents \subseteq Events
    OBVIOUS
  <2>4. QED
    BY <2>2, <2>3, SeqMonotonic
<1>4. PICK s \in Stores : Hears(end, before, s) /\ s.state = end.state
  BY PreludeHeard
<1>5. PICK t \in Stores : Hears(s, <<x>>, t) /\ t.state = "ROLLBACK"
  <2>1. "MIGRATING" \in {s.state, "IDLE"}
    BY <1>4 DEF Follows, Agrees, RollsBack
  <2>2. QED
    BY <1>1, <2>1, HearsChange
<1>6. PICK e \in Stores : Hears(t, <<y>>, e) /\ e.state = "FAILED"
  BY <1>1, <1>5, HearsChange
<1>7. /\ emitted' = before \o <<x>> \o undo \o <<y, SessionFailed>>
      /\ orch'.state = "FAILED"
  BY DEF RollsBack
<1> HIDE DEF x, y, undo
<1>8. Hears(end, before \o <<x>>, t) /\ before \o <<x>> \in Seq(Events)
  BY <1>2, <1>4, <1>5, HearsBoth, ConcatProperties
<1>9. /\ Hears(end, before \o <<x>> \o undo, t)
      /\ before \o <<x>> \o undo \in Seq(Events)
  <2>1. Hears(t, undo, t)
    BY <1>3, HearsNothing
  <2>2. QED
    BY <1>3, <1>8, <2>1, HearsBoth, ConcatProperties
<1> DEFINE said == before \o <<x>> \o undo
<1>10. Hears(end, said \o <<y>>, e) /\ said \o <<y>> \in Seq(Events)
  <2>1. said \in Seq(Events) /\ Hears(end, said, t)
    BY <1>9
  <2> HIDE DEF said
  <2>2. QED
    BY <1>2, <1>6, <2>1, HearsBoth, ConcatProperties
<1>11. emitted' = Append(said \o <<y>>, SessionFailed)
  <2>1. said \in Seq(Events) /\ emitted' = said \o <<y, SessionFailed>>
    BY <1>7, <1>9
  <2> HIDE DEF said
  <2>2. <<y, SessionFailed>> = Append(<<y>>, SessionFailed)
    BY <1>2
  <2>3. said \o Append(<<y>>, SessionFailed) = Append(said \o <<y>>, SessionFailed)
    BY <1>2, <2>1
  <2>4. QED
    BY <2>1, <2>2, <2>3
<1> HIDE DEF said
<1>12. QED
  BY <1>6, <1>7, <1>10, <1>11, FailedTold

\* Two events, heard one after the other.
LEMMA HearsTwo ==
  ASSUME NEW a \in Events, NEW b \in Events, NEW s, NEW t, NEW e,
         Hears(s, <<a>>, t), Hears(t, <<b>>, e)
  PROVE  Hears(s, <<a, b>>, e)
<1>1. <<a>> \in Seq(Events) /\ <<b>> \in Seq(Events) /\ <<a>> \o <<b>> = <<a, b>>
  BY EventPairs
<1>2. QED
  BY <1>1, HearsBoth

\* The start of the migration.
LEMMA StartsTold ==
  ASSUME NEW o \in Orchestrators, NEW end \in Stores, Follows(row, o), Agrees(end, row, o),
         Starts(o)
  PROVE  Told(o, end)
<1> DEFINE x == StateChange("AWAITING_WINDOW", "MIGRATING")
           y == ExecuteStep(1)
<1>1. /\ "AWAITING_WINDOW" \in States /\ "MIGRATING" \in States /\ 1 \in Steps
      /\ "running" \in StepStatus
  BY DEF States, StepStatus
<1>2. x \in Events /\ y \in Events /\ IsShown(y) /\ ViewOf(y) = Progress(1, "running")
  BY <1>1, EventTypes, StepViews
<1>3. PICK t \in Stores : Hears(end, <<x>>, t) /\ t.state = "MIGRATING"
  <2>1. "AWAITING_WINDOW" \in {end.state, "IDLE"}
    BY DEF Follows, Agrees, Starts
  <2>2. QED
    BY <1>1, <2>1, HearsChange
<1>4. PICK e \in Stores : /\ Hears(t, <<y>>, e) /\ e.state = t.state
                          /\ \A k \in Steps : e.steps[k] = IF k = 1 THEN "running" ELSE t.steps[k]
  BY <1>1, <1>2, HearsStep
<1>5. emitted' = <<x, y>> /\ orch'.state = "MIGRATING" /\ orch'.currentStep = 1
  BY DEF Starts
<1>6. RowAfter(row, emitted') = "MIGRATING" /\ ~Ends(emitted')
  BY <1>1, <1>5, RowOfLists, NoEnd
<1> HIDE DEF x, y
<1>7. Hears(end, emitted', e)
  BY <1>2, <1>3, <1>4, <1>5, HearsTwo
<1>8. Agrees(e, "MIGRATING", orch') /\ Follows("MIGRATING", orch')
  BY <1>1, <1>3, <1>4, <1>5 DEF Agrees, Follows
<1>9. QED
  BY <1>1, <1>5, <1>6, <1>7, <1>8 DEF Told

\* The next step of a migration.
LEMMA DispatchesTold ==
  ASSUME NEW o \in Orchestrators, NEW end \in Stores, row \in States, Follows(row, o),
         Agrees(end, row, o), Dispatches(o)
  PROVE  Told(o, end)
<1> DEFINE n == o.currentStep
           x == StepCompleted(n)
           y == ExecuteStep(n + 1)
<1>1. /\ n \in Steps /\ n + 1 \in Steps /\ "running" \in StepStatus /\ "complete" \in StepStatus
      /\ row = "MIGRATING"
  BY DEF Dispatches, StepStatus, Follows
<1>2. /\ orch'.state = "MIGRATING" /\ orch'.currentStep = n + 1 /\ emitted' = <<x, y>>
  BY DEF Dispatches
<1>3. /\ end.state = "MIGRATING" /\ \A k \in 1 .. (n - 1) : end.steps[k] = "complete"
  BY <1>1 DEF Agrees, Dispatches
<1> HIDE DEF n
<1>4. /\ x \in Events /\ IsShown(x) /\ ViewOf(x) = Progress(n, "complete")
      /\ y \in Events /\ IsShown(y) /\ ViewOf(y) = Progress(n + 1, "running")
  BY <1>1, EventTypes, StepViews
<1>5. /\ ~Ends(emitted') /\ x \notin RowEvents /\ y \notin RowEvents
  BY <1>1, <1>2, NoEnd, RowWrites
<1> HIDE DEF x, y
<1>r. RowAfter(row, emitted') = "MIGRATING"
  <2>1. RowAfter(row, << >>) = row /\ << >> \in Seq(Events) /\ <<x>> = Append(<< >>, x)
    BY RowOfLists
  <2>2. RowAfter(row, Append(<< >>, x)) = RowAfter(row, << >>)
    BY <1>4, <1>5, <2>1, RowAfterLast
  <2>3. <<x>> \in Seq(Events) /\ <<x, y>> = Append(<<x>>, y)
    BY <1>4
  <2>4. RowAfter(row, Append(<<x>>, y)) = RowAfter(row, <<x>>)
    BY <1>4, <1>5, <2>3, RowAfterLast
  <2>5. RowAfter(row, <<x>>) = row
    BY <2>1, <2>2
  <2>6. QED
    BY <1>1, <1>2, <2>3, <2>4, <2>5
<1>6. PICK t \in Stores : /\ Hears(end, <<x>>, t) /\ t.state = end.state
                          /\ \A k \in Steps : t.steps[k] = IF k = n THEN "complete" ELSE end.steps[k]
  <2>1. n \in Steps /\ "complete" \in StepStatus
    BY <1>1
  <2> HIDE DEF Steps
  <2>2. QED
    BY <1>4, <2>1, HearsStep
<1>7. PICK e \in Stores : /\ Hears(t, <<y>>, e) /\ e.state = t.state
                          /\ \A k \in Steps : e.steps[k] = IF k = n + 1 THEN "running" ELSE t.steps[k]
  <2> DEFINE next == n + 1
  <2>1. next \in Steps /\ "running" \in StepStatus /\ ViewOf(y) = Progress(next, "running")
    BY <1>1, <1>4
  <2> HIDE DEF Steps, next
  <2>2. \E e \in Stores : /\ Hears(t, <<y>>, e) /\ e.state = t.state
                          /\ \A k \in Steps : e.steps[k] = IF k = next THEN "running" ELSE t.steps[k]
    BY <1>4, <2>1, HearsStep
  <2>3. QED
    BY <2>2 DEF next
<1>8. Hears(end, emitted', e)
  BY <1>2, <1>4, <1>6, <1>7, HearsTwo
<1>9. Agrees(e, "MIGRATING", orch') /\ Follows("MIGRATING", orch') /\ "MIGRATING" \in States
  <2>1. e.state = "MIGRATING" /\ e.steps[n + 1] = "running"
    BY <1>1, <1>3, <1>6, <1>7
  <2>2. ASSUME NEW k \in 1 .. ((n + 1) - 1) PROVE e.steps[k] = "complete"
    <3>1. k \in Steps /\ k # n + 1 /\ (k = n \/ k \in 1 .. (n - 1))
      BY <1>1
    <3>2. QED
      BY <1>3, <1>6, <1>7, <3>1
  <2>3. QED
    BY <1>1, <1>2, <2>1, <2>2 DEF Agrees, Follows
<1>10. QED
  BY <1>2, <1>5, <1>r, <1>8, <1>9 DEF Told

\* The end of a migration.
LEMMA FinishesTold ==
  ASSUME NEW o \in Orchestrators, NEW end \in Stores, row \in States, Follows(row, o),
         Agrees(end, row, o), Finishes(o)
  PROVE  Told(o, end)
<1> DEFINE x == StepCompleted(TotalSteps)
           y == StateChange("MIGRATING", "COMPLETE")
           z == SessionComplete
<1>1. /\ TotalSteps \in Steps /\ "MIGRATING" \in States /\ "COMPLETE" \in States
      /\ "complete" \in StepStatus /\ row = "MIGRATING"
  BY DEF States, StepStatus, Finishes, Follows
<1>2. emitted' = <<x, y, z>> /\ orch'.state = "COMPLETE"
  BY DEF Finishes
<1>3. end.state = "MIGRATING" /\ \A k \in 1 .. (TotalSteps - 1) : end.steps[k] = "complete"
  BY <1>1 DEF Agrees, Finishes
<1>4. /\ x \in Events /\ IsShown(x) /\ ViewOf(x) = Progress(TotalSteps, "complete")
      /\ y \in Events /\ z \in Events
  BY <1>1, EventTypes, StepViews
<1>5. PICK s \in Stores : /\ Hears(end, <<x>>, s) /\ s.state = end.state
                          /\ \A k \in Steps :
                               s.steps[k] = IF k = TotalSteps THEN "complete" ELSE end.steps[k]
  <2> HIDE DEF x
  <2>1. QED
    BY <1>1, <1>4, HearsStep
<1>6. PICK t \in Stores : Hears(s, <<y>>, t) /\ t.state = "COMPLETE" /\ t.steps = s.steps
  <2>1. "MIGRATING" \in {s.state, "IDLE"}
    BY <1>3, <1>5
  <2>2. QED
    BY <1>1, <2>1, HearsChange
<1>7. PICK e \in Stores : Hears(t, <<z>>, e) /\ e.state = "COMPLETE" /\ e.steps = t.steps
  <2> DEFINE e == Applied(t, ViewOf(z))
  <2>1. IsShown(z) /\ ViewOf(z) = Complete
    BY DEF IsShown, ViewOf, SessionComplete
  <2>2. Chained(t, ViewOf(z))
    BY <2>1, MessageTypes DEF Chained
  <2>3. e = [t EXCEPT !.summary = TRUE, !.state = "COMPLETE"]
    BY <2>1 DEF Applied, Complete
  <2>4. Hears(t, <<z>>, e) /\ e \in Stores
    BY <1>4, <2>1, <2>2, HearsOne
  <2>5. e.state = "COMPLETE" /\ e.steps = t.steps
    BY <2>3 DEF Stores
  <2> HIDE DEF e
  <2>6. QED
    BY <2>4, <2>5
<1>8. RowAfter(row, emitted') = "COMPLETE"
  <2>1. <<x, y>> \in Seq(Events) /\ <<x, y, z>> = Append(<<x, y>>, z)
    BY <1>4
  <2>2. z \in RowEvents /\ Written(z) = "COMPLETE"
    BY RowWrites
  <2> HIDE DEF x, y, z
  <2>3. RowAfter(row, Append(<<x, y>>, z)) = Written(z)
    BY <1>4, <2>1, <2>2, RowAfterLast
  <2>4. QED
    BY <1>2, <2>1, <2>2, <2>3
<1> HIDE DEF x, y, z
<1>9. Hears(end, emitted', e)
  <2>1. Hears(end, <<x, y>>, t)
    BY <1>4, <1>5, <1>6, HearsTwo
  <2>2. <<x, y>> \in Seq(Events) /\ <<z>> \in Seq(Events) /\ <<x, y>> \o <<z>> = <<x, y, z>>
    <3>1. <<x>> \o <<y>> = <<x, y>>
      BY EventPairs
    <3>2. <<x>> \o <<y>> \o <<z>> = <<x, y, z>>
      BY ListsOfThree
    <3>3. <<x, y>> \o <<z>> = <<x, y, z>>
      BY <3>1, <3>2, Zenon
    <3>4. QED
      BY <1>4, <3>3
  <2>3. QED
    BY <1>2, <1>7, <2>1, <2>2, HearsBoth
<1>10. Agrees(e, "COMPLETE", orch') /\ Follows("COMPLETE", orch')
  <2>1. ASSUME NEW k \in Steps PROVE e.steps[k] = "complete"
    <3>1. k = TotalSteps \/ k \in 1 .. (TotalSteps - 1)
      OBVIOUS
    <3>2. e.steps[k] = IF k = TotalSteps THEN "complete" ELSE end.steps[k]
      BY <1>5, <1>6, <1>7
    <3>3. QED
      BY <1>3, <3>1, <3>2
  <2>2. QED
    BY <1>2, <1>7, <2>1 DEF Agrees, Follows
<1>11. QED
  BY <1>1, <1>8, <1>9, <1>10 DEF Told

\* Whatever the outcome of a call, a tab that agreed with the row and hears
\* what is broadcast agrees with it again.
LEMMA OutcomeTold ==
  ASSUME NEW o \in Orchestrators, NEW end \in Stores, row \in States, Follows(row, o),
         Agrees(end, row, o), Leaves(o)
  PROVE  Told(o, end)
<1>1. orch' \in Orchestrators /\ Outcome(o)
  BY DEF Leaves
<1>2. QED
  BY <1>1, SilentTold, ChangeTold, FailsNowTold, RollsBackTold, StartsTold,
     DispatchesTold, FinishesTold DEF Outcome

-----------------------------------------------------------------------------
(* The inductive invariant.                                                *)

HubTyped ==
  /\ orch \in Orchestrators /\ emitted \in Seq(Events)
  /\ alive \in BOOLEAN /\ row \in States /\ token \in BOOLEAN
  /\ announced \in [Roles -> Sases \cup {None}] /\ broadcast \in BOOLEAN

LinkTyped ==
  /\ joined \in BOOLEAN /\ wire \in Seq(TabMessages)
  /\ up \in Seq({"start", "abort"}) /\ late \in Seq({"start", "abort"})
  /\ Len(up) + Len(late) <= MaxCommands

TabTyped ==
  /\ page \in Pages /\ session \in BOOLEAN
  /\ client \in [stage : Stages, attempts : 0 .. MaxAttempts]
  /\ shown \in Stores
  /\ sessions \in Nat /\ cardOf \in Nat

\* What the hub holds of a session whose token it knows fits the row, and an
\* orchestrator that does not is a revived one that nobody has paired with.
RowFits ==
  /\ WellFormed(orch) /\ Follows(row, Live)
  /\ joined => token
  /\ token /\ ~alive => row \in Terminal
  /\ token /\ row = "MIGRATING" => orch.state = "MIGRATING"

\* If the tab read what is on the wire, it would be told of every change, and
\* show what the row says if it is in the room.
OnTheWire ==
  \E end \in Stores : ReadsTo(shown, wire, end) /\ (joined => Agrees(end, row, orch))

\* Where the SAS is on the wire.
SasAt == {i \in DOMAIN wire : wire[i].type = "sas"}

\* A session's SAS is on the wire or on the card once, after its broadcast.
OneCard ==
  /\ cardOf <= sessions
  /\ \A i, j \in SasAt : i = j
  /\ SasAt # {} => cardOf # sessions
  /\ token /\ (SasAt # {} \/ cardOf = sessions) => broadcast

IInv == HubTyped /\ LinkTyped /\ TabTyped /\ RowFits /\ OnTheWire /\ OneCard

\* The initial state.
LEMMA InitInv == Init => IInv
<1> SUFFICES ASSUME Init PROVE IInv
  OBVIOUS
<1>1. Empty \in Stores /\ Empty.state = "IDLE"
  BY DEF Empty, Stores, States, StepStatus
<1>2. HubTyped
  <2>1. orch \in Orchestrators /\ emitted \in Seq(Events) /\ row \in States
    BY FreshFormed, EventLists DEF Init, States
  <2>2. announced \in [Roles -> Sases \cup {None}]
    BY DEF Init
  <2>3. QED
    BY <2>1, <2>2 DEF Init, HubTyped
<1>3. LinkTyped
  <2>1. MaxCommands \in Nat
    BY DashboardAssumption
  <2>2. wire = << >> /\ up = << >> /\ late = << >> /\ joined = FALSE
    BY DEF Init
  <2>3. wire \in Seq(TabMessages) /\ up \in Seq({"start", "abort"}) /\ late \in Seq({"start", "abort"})
    BY <2>2
  <2>4. Len(up) + Len(late) <= MaxCommands
    BY <2>1, <2>2
  <2>5. QED
    BY <2>2, <2>3, <2>4 DEF LinkTyped
<1>4. TabTyped
  BY <1>1, DashboardAssumption DEF Init, TabTyped, Pages, Stages, Connecting
<1>5. RowFits
  BY FreshFormed DEF Init, RowFits, Follows, Live
<1>6. OnTheWire
  <2>1. shown = Empty /\ wire = << >> /\ ~joined
    BY DEF Init
  <2>2. QED
    BY <1>1, <2>1, ReadNothing DEF OnTheWire
<1>7. OneCard
  <2>1. SasAt = {} /\ sessions = 1 /\ cardOf = 0
    BY DEF Init, SasAt
  <2>2. QED
    BY <2>1 DEF OneCard
<1>8. QED
  BY <1>2, <1>3, <1>4, <1>5, <1>6, <1>7 DEF IInv

-----------------------------------------------------------------------------
(* Steps that leave a part of it alone.                                    *)

\* The hub keeps what it has of the session, and the tab at most leaves the
\* room.
LEMMA SessionSame ==
  ASSUME HubTyped, RowFits, UNCHANGED <<orch, alive, row, token, announced, broadcast>>,
         emitted' = << >>, joined' \in {joined, FALSE}
  PROVE  HubTyped' /\ RowFits'
<1>1. /\ orch' = orch /\ alive' = alive /\ row' = row /\ token' = token
      /\ announced' = announced /\ broadcast' = broadcast
  OBVIOUS
<1>2. HubTyped'
  BY <1>1 DEF HubTyped
<1>3. Live' = Live
  BY <1>1 DEF Live
<1>4. joined' => token'
  <2>1. (joined => token) /\ (joined' = joined \/ joined' = FALSE)
    BY DEF RowFits
  <2>2. CASE joined' = joined
    BY <1>1, <2>1, <2>2
  <2>3. CASE joined' = FALSE
    BY <2>3
  <2>4. QED
    BY <2>1, <2>2, <2>3
<1>5. WellFormed(orch') /\ Follows(row', Live')
  BY <1>1, <1>3 DEF RowFits
<1>6. /\ token' /\ ~alive' => row' \in Terminal
      /\ token' /\ row' = "MIGRATING" => orch'.state = "MIGRATING"
  BY <1>1 DEF RowFits
<1>7. QED
  BY <1>2, <1>4, <1>5, <1>6 DEF RowFits

\* The hub stays as it is, and the tab at most leaves the room.
LEMMA HubSame ==
  ASSUME HubTyped, RowFits, UNCHANGED HubSide, emitted' = << >>, joined' \in {joined, FALSE}
  PROVE  HubTyped' /\ RowFits'
<1>1. UNCHANGED <<orch, alive, row, token, announced, broadcast>>
  BY DEF HubSide, hub
<1>2. QED
  BY <1>1, SessionSame

\* Nothing of what is read, shown or agreed on changes.
LEMMA ReadingSame ==
  ASSUME OnTheWire, UNCHANGED <<shown, wire, joined, row, orch>>
  PROVE  OnTheWire'
  BY DEF OnTheWire

\* Nothing of the SAS changes.
LEMMA CardSame ==
  ASSUME OneCard, UNCHANGED <<wire, token, broadcast, sessions, cardOf>>
  PROVE  OneCard'
  BY DEF OneCard, SasAt

\* The tab leaves its socket, whatever it shows then.
LEMMA SocketLeft ==
  ASSUME IInv, NEW sent \in Seq({"start", "abort"}), LeaveSocket(sent),
         Len(sent) + Len(late) <= MaxCommands, shown' \in Stores,
         UNCHANGED <<token, broadcast, sessions, cardOf>>
  PROVE  LinkTyped' /\ OnTheWire' /\ OneCard'
<1>1. /\ joined' = FALSE /\ wire' = << >> /\ up' = << >>
      /\ late' = late \o (IF joined THEN sent ELSE << >>)
  BY DEF LeaveSocket
<1>2. LinkTyped'
  <2>1. late \in Seq({"start", "abort"})
    BY DEF IInv, LinkTyped
  <2>2. late \o sent \in Seq({"start", "abort"}) /\ Len(late \o sent) = Len(late) + Len(sent)
    BY <2>1, ConcatProperties
  <2>3. Len(late) \in Nat /\ Len(sent) \in Nat
    BY <2>1
  <2>4. wire' \in Seq(TabMessages) /\ up' \in Seq({"start", "abort"}) /\ Len(up') = 0
    BY <1>1
  <2>5. late' \in Seq({"start", "abort"}) /\ Len(late') <= Len(late) + Len(sent)
    <3>1. CASE joined
      BY <1>1, <2>2, <2>3, <3>1
    <3>2. CASE ~joined
      <4>1. late' = late
        BY <1>1, <2>1, <3>2
      <4>2. QED
        BY <2>1, <2>3, <4>1
    <3>3. QED
      BY <3>1, <3>2
  <2>6. Len(late') \in Nat /\ MaxCommands \in Nat /\ joined' \in BOOLEAN
    <3>1. Len(late') \in Nat
      BY <2>5
    <3>2. MaxCommands \in Nat
      BY DashboardAssumption
    <3>3. QED
      BY <1>1, <3>1, <3>2
  <2>7. Len(up') + Len(late') <= MaxCommands
    BY <2>3, <2>4, <2>5, <2>6
  <2>8. QED
    BY <2>4, <2>5, <2>6, <2>7 DEF LinkTyped
<1>3. OnTheWire'
  BY <1>1, ReadNothing DEF OnTheWire
<1>4. OneCard'
  <2>1. SasAt' = {}
    BY <1>1 DEF SasAt
  <2>2. QED
    BY <2>1 DEF IInv, OneCard
<1>5. QED
  BY <1>2, <1>3, <1>4

\* Messages without a SAS do not change where the SAS is.
LEMMA SasStays ==
  ASSUME wire \in Seq(TabMessages), NEW q \in Seq(NoSas), wire' = wire \o q
  PROVE  wire' \in Seq(TabMessages) /\ SasAt' = SasAt
<1>1. q \in Seq(TabMessages)
  BY SeqMonotonic DEF NoSas
<1>2. /\ wire' \in Seq(TabMessages) /\ Len(wire') = Len(wire) + Len(q)
      /\ \A i \in 1 .. Len(wire) : wire'[i] = wire[i]
      /\ \A i \in (Len(wire) + 1) .. (Len(wire) + Len(q)) : wire'[i] = q[i - Len(wire)]
  BY <1>1, ConcatProperties
<1>3. Len(wire) \in Nat /\ Len(q) \in Nat
  OBVIOUS
<1>4. DOMAIN wire = 1 .. Len(wire) /\ DOMAIN wire' = 1 .. (Len(wire) + Len(q))
  BY <1>2
<1>5. \A i \in 1 .. Len(q) : q[i].type # "sas"
  BY DEF NoSas
<1>6. \A i \in (Len(wire) + 1) .. (Len(wire) + Len(q)) : i - Len(wire) \in 1 .. Len(q)
  BY <1>3
<1>7. \A i \in DOMAIN wire' : i \in DOMAIN wire \/ i \in (Len(wire) + 1) .. (Len(wire) + Len(q))
  BY <1>3, <1>4
<1>8. DOMAIN wire \subseteq DOMAIN wire'
  BY <1>3, <1>4
<1>9. QED
  BY <1>2, <1>4, <1>5, <1>6, <1>7, <1>8 DEF SasAt

-----------------------------------------------------------------------------
(* The hub's steps.                                                        *)

\* There is always a store that agrees.
LEMMA SomeAgrees ==
  ASSUME row \in States, NEW o, WellFormed(o)
  PROVE  \E s \in Stores : Agrees(s, row, o)
<1> DEFINE steps == [n \in Steps |-> IF row = "MIGRATING" /\ n = o.currentStep
                                     THEN "running" ELSE "complete"]
           s == [state |-> row, steps |-> steps, summary |-> FALSE, card |-> "none"]
<1>1. steps \in [Steps -> StepStatus]
  BY DEF StepStatus
<1>2. row = "MIGRATING" /\ o.state = "MIGRATING" =>
        /\ steps[o.currentStep] = "running"
        /\ \A n \in 1 .. (o.currentStep - 1) : steps[n] = "complete"
  BY DEF WellFormed
<1>3. row = "COMPLETE" => \A n \in Steps : steps[n] = "complete"
  OBVIOUS
<1> HIDE DEF steps
<1>4. s \in Stores /\ s.state = row /\ s.steps = steps
  BY <1>1 DEF Stores
<1>5. Agrees(s, row, o)
  <2> HIDE DEF s
  <2>1. QED
    BY <1>2, <1>3, <1>4 DEF Agrees
<1>6. QED
  BY <1>4, <1>5

\* The object a call is made on.
LEMMA LiveFormed ==
  ASSUME HubTyped, RowFits
  PROVE  Live \in Orchestrators /\ WellFormed(Live) /\ Live \in {orch, Fresh}
  BY FreshFormed DEF HubTyped, RowFits, Live

\* A tab in the room that agrees with the object held agrees with the object
\* the next call is made on.
LEMMA LiveAgrees ==
  ASSUME RowFits, joined, NEW end, Agrees(end, row, orch)
  PROVE  Agrees(end, row, Live)
<1>1. alive \/ row \in Terminal
  BY DEF RowFits
<1>2. CASE alive
  BY <1>2 DEF Live
<1>3. CASE row \in Terminal
  BY <1>3 DEF Agrees
<1>4. QED
  BY <1>1, <1>2, <1>3

\* Everything but the tab, after a call that was recorded.
LEMMA RecordedRow ==
  ASSUME IInv, Leaves(Live), Recorded, UNCHANGED <<announced, broadcast>>
  PROVE  HubTyped' /\ RowFits' /\ Broadcasts(emitted') \in Seq(NoSas)
<1>1. Live \in Orchestrators /\ WellFormed(Live) /\ Live \in {orch, Fresh}
  BY LiveFormed DEF IInv
<1>2. row \in States /\ Follows(row, Live)
  BY DEF IInv, HubTyped, RowFits
<1>3. orch' \in Orchestrators /\ WellFormed(orch') /\ emitted' \in Seq(Events)
  BY <1>1, OutcomeEvents DEF Leaves
<1>4. PICK s \in Stores : Agrees(s, row, Live)
  BY <1>1, <1>2, SomeAgrees
<1>5. Told(Live, s)
  BY <1>1, <1>2, <1>4, OutcomeTold
<1>6. /\ row' = RowAfter(row, emitted') /\ alive' = ~Ends(emitted') /\ token' = token
      /\ joined' = joined
  BY DEF Recorded
<1>7. /\ row' \in States /\ Follows(row', orch')
      /\ row' \notin Terminal => alive'
      /\ row' = "MIGRATING" =>
           orch'.state = "MIGRATING" \/ (row = "MIGRATING" /\ orch'.state = Live.state)
  BY <1>5, <1>6 DEF Told
<1>8. alive' \in BOOLEAN
  BY <1>6
<1>9. HubTyped'
  BY <1>3, <1>6, <1>7, <1>8 DEF IInv, HubTyped
<1>10. Follows(row', Live')
  BY <1>7, FreshFormed DEF Live, Follows
<1>11. token' /\ row' = "MIGRATING" => orch'.state = "MIGRATING"
  <2> SUFFICES ASSUME token, row' = "MIGRATING", row = "MIGRATING", orch'.state = Live.state
               PROVE  orch'.state = "MIGRATING"
    BY <1>6, <1>7
  <2>1. alive /\ orch.state = "MIGRATING"
    BY DEF IInv, RowFits
  <2>2. QED
    BY <2>1 DEF Live
<1>12. /\ joined' => token'
       /\ token' /\ ~alive' => row' \in Terminal
  BY <1>6, <1>7 DEF IInv, RowFits
<1>13. QED
  BY <1>3, <1>9, <1>10, <1>11, <1>12, BroadcastTypes DEF RowFits

\* The whole of it, after a call that was recorded.
LEMMA RecordedInv ==
  ASSUME IInv, Leaves(Live), Recorded,
         UNCHANGED <<announced, broadcast, sessions, shown, cardOf>>
  PROVE  /\ HubTyped' /\ RowFits' /\ OnTheWire' /\ OneCard'
         /\ wire' \in Seq(TabMessages) /\ joined' \in BOOLEAN
<1> DEFINE q == Broadcasts(emitted')
<1>1. HubTyped' /\ RowFits' /\ q \in Seq(NoSas)
  BY RecordedRow
<1> HIDE DEF q
<1>2. /\ wire \in Seq(TabMessages) /\ joined \in BOOLEAN
      /\ row \in States /\ Follows(row, Live)
  BY DEF IInv, HubTyped, LinkTyped, RowFits
<1>3. /\ row' = RowAfter(row, emitted') /\ joined' = joined /\ token' = token
      /\ wire' = IF joined THEN wire \o q ELSE wire
  BY DEF Recorded, Send, q
<1>4. wire' \in Seq(TabMessages) /\ SasAt' = SasAt
  <2>1. CASE joined
    BY <1>1, <1>2, <1>3, <2>1, SasStays
  <2>2. CASE ~joined
    BY <1>2, <1>3, <2>2 DEF SasAt
  <2>3. QED
    BY <1>2, <2>1, <2>2
<1>5. OneCard'
  BY <1>3, <1>4 DEF IInv, OneCard
<1>6. OnTheWire'
  <2>1. PICK end \in Stores : ReadsTo(shown, wire, end) /\ (joined => Agrees(end, row, orch))
    BY DEF IInv, OnTheWire
  <2>2. CASE joined
    <3>1. Agrees(end, row, Live)
      BY <2>1, <2>2, LiveAgrees DEF IInv
    <3>2. Told(Live, end)
      <4>1. Live \in Orchestrators
        BY LiveFormed DEF IInv
      <4>2. QED
        BY <1>2, <3>1, <4>1, OutcomeTold
    <3>3. PICK e \in Stores : ReadsTo(end, q, e) /\ Agrees(e, row', orch')
      BY <1>3, <3>2 DEF Told, Hears, q
    <3>4. q \in Seq(TabMessages)
      BY <1>1, SeqMonotonic DEF NoSas
    <3>5. ReadsTo(shown, wire \o q, e)
      BY <1>2, <2>1, <3>3, <3>4, ReadBoth
    <3>6. QED
      BY <1>3, <2>2, <3>3, <3>5 DEF OnTheWire
  <2>3. CASE ~joined
    BY <1>3, <2>1, <2>3 DEF OnTheWire
  <2>4. QED
    BY <1>2, <2>2, <2>3
<1>7. QED
  BY <1>1, <1>2, <1>3, <1>4, <1>5, <1>6

\* Recorded calls of the agents.
LEMMA AgentCallsInv ==
  ASSUME IInv, NEW role \in Roles, AgentCalls(role)
  PROVE  IInv'
<1>1. Live \in Orchestrators /\ WellFormed(Live)
  BY LiveFormed DEF IInv
<1>2. Leaves(Live)
  BY <1>1, AgentOutcome DEF AgentCalls
<1>3. /\ Recorded /\ up' = up /\ late' = late /\ UNCHANGED <<announced, broadcast>>
      /\ UNCHANGED tab
  BY DEF AgentCalls
<1>4. UNCHANGED <<sessions, page, session, client, shown, cardOf>>
  BY <1>3 DEF tab
<1>5. /\ HubTyped' /\ RowFits' /\ OnTheWire' /\ OneCard'
      /\ wire' \in Seq(TabMessages) /\ joined' \in BOOLEAN
  BY <1>2, <1>3, <1>4, RecordedInv
<1>6. LinkTyped' /\ TabTyped'
  BY <1>3, <1>4, <1>5 DEF IInv, LinkTyped, TabTyped
<1>7. QED
  BY <1>5, <1>6 DEF IInv

\* A command taken from one of the two queues.
LEMMA CommandInv ==
  ASSUME IInv, NEW cmd, Command(cmd),
         \/ up # << >> /\ up' = Tail(up) /\ late' = late
         \/ late # << >> /\ late' = Tail(late) /\ up' = up
  PROVE  IInv'
<1>1. Live \in Orchestrators /\ WellFormed(Live)
  BY LiveFormed DEF IInv
<1>2. Leaves(Live)
  BY <1>1, AbortOutcome, StartOutcome DEF Command
<1>3. Recorded /\ UNCHANGED <<announced, broadcast>> /\ UNCHANGED tab
  BY DEF Command
<1>4. UNCHANGED <<sessions, page, session, client, shown, cardOf>>
  BY <1>3 DEF tab
<1>5. /\ HubTyped' /\ RowFits' /\ OnTheWire' /\ OneCard'
      /\ wire' \in Seq(TabMessages) /\ joined' \in BOOLEAN
  BY <1>2, <1>3, <1>4, RecordedInv
<1>6. /\ up' \in Seq({"start", "abort"}) /\ late' \in Seq({"start", "abort"})
      /\ Len(up') + Len(late') <= MaxCommands
  <2>1. /\ up \in Seq({"start", "abort"}) /\ late \in Seq({"start", "abort"})
        /\ Len(up) + Len(late) <= MaxCommands /\ MaxCommands \in Nat
    BY DashboardAssumption DEF IInv, LinkTyped
  <2>2. \A s \in Seq({"start", "abort"}) : s # << >> =>
          Tail(s) \in Seq({"start", "abort"}) /\ Len(Tail(s)) = Len(s) - 1 /\ Len(s) \in Nat
    BY HeadTailProperties
  <2>3. Len(up) \in Nat /\ Len(late) \in Nat
    BY <2>1
  <2>4. CASE up # << >> /\ up' = Tail(up) /\ late' = late
    <3>1. up' \in Seq({"start", "abort"}) /\ Len(up') = Len(up) - 1
      BY <2>1, <2>2, <2>4
    <3>2. late' \in Seq({"start", "abort"}) /\ Len(late') = Len(late)
      BY <2>1, <2>4
    <3>3. Len(up') + Len(late') <= MaxCommands
      BY <2>1, <2>3, <3>1, <3>2
    <3>4. QED
      BY <3>1, <3>2, <3>3
  <2>5. CASE late # << >> /\ late' = Tail(late) /\ up' = up
    <3>1. late' \in Seq({"start", "abort"}) /\ Len(late') = Len(late) - 1
      BY <2>1, <2>2, <2>5
    <3>2. up' \in Seq({"start", "abort"}) /\ Len(up') = Len(up)
      BY <2>1, <2>5
    <3>3. Len(up') + Len(late') <= MaxCommands
      BY <2>1, <2>3, <3>1, <3>2
    <3>4. QED
      BY <3>1, <3>2, <3>3
  <2>6. QED
    BY <2>4, <2>5
<1>7. LinkTyped' /\ TabTyped'
  BY <1>4, <1>5, <1>6 DEF IInv, LinkTyped, TabTyped
<1>8. QED
  BY <1>5, <1>7 DEF IInv

\* The end of the process, with whatever it said last.
LEMMA ProcessEndsInv ==
  ASSUME IInv, ProcessEnds, emitted' \in {<< >>, <<Thrown>>}
  PROVE  IInv'
<1>1. /\ alive' = FALSE /\ token' = FALSE /\ orch' = Fresh
      /\ announced' = [r \in Roles |-> None] /\ broadcast' = FALSE
      /\ joined' = FALSE /\ up' = << >> /\ late' = << >>
      /\ row' = row /\ wire' = wire /\ UNCHANGED tab
  BY DEF ProcessEnds
<1>2. UNCHANGED <<sessions, page, session, client, shown, cardOf>>
  BY <1>1 DEF tab
<1>3. HubTyped'
  <2>1. emitted' \in Seq(Events) /\ orch' \in Orchestrators
    BY <1>1, EventLists, FreshFormed
  <2>2. announced' \in [Roles -> Sases \cup {None}]
    BY <1>1
  <2>3. QED
    BY <1>1, <2>1, <2>2 DEF IInv, HubTyped
<1>4. LinkTyped'
  <2>1. up' \in Seq({"start", "abort"}) /\ late' \in Seq({"start", "abort"})
    BY <1>1
  <2>2. Len(up') + Len(late') <= MaxCommands
    BY <1>1, DashboardAssumption
  <2>3. QED
    BY <1>1, <2>1, <2>2 DEF IInv, LinkTyped
<1>5. TabTyped'
  BY <1>2 DEF IInv, TabTyped
<1>6. RowFits'
  BY <1>1, FreshFormed DEF RowFits, Live, Follows
<1>7. OnTheWire'
  BY <1>1, <1>2 DEF IInv, OnTheWire
<1>8. OneCard'
  BY <1>1, <1>2 DEF IInv, OneCard, SasAt
<1>9. QED
  BY <1>3, <1>4, <1>5, <1>6, <1>7, <1>8 DEF IInv

\* A command that reached the hub.
LEMMA HandleCommandInv ==
  ASSUME IInv, HandleCommand
  PROVE  IInv'
<1>1. ASSUME NEW cmd, StartThrows(cmd) PROVE IInv'
  BY <1>1, ProcessEndsInv DEF StartThrows
<1>2. CASE up # << >> /\ joined /\ Command(Head(up)) /\ up' = Tail(up) /\ late' = late
  BY <1>2, CommandInv
<1>3. CASE late # << >> /\ Command(Head(late)) /\ late' = Tail(late) /\ up' = up
  BY <1>3, CommandInv
<1>4. QED
  BY <1>1, <1>2, <1>3 DEF HandleCommand

\* DELETE /api/sessions/:id.
LEMMA CancelInv ==
  ASSUME IInv, Cancel
  PROVE  IInv'
<1> DEFINE q == Broadcasts(emitted')
<1>1. /\ row \in {"IDLE", "PAIRING"} /\ row' = "FAILED" /\ alive' = FALSE
      /\ token' = token /\ joined' = joined /\ up' = up /\ late' = late
      /\ wire' = IF joined THEN wire \o q ELSE wire
      /\ UNCHANGED <<announced, broadcast>> /\ UNCHANGED tab
  BY DEF Cancel, Send
<1>2. UNCHANGED <<sessions, page, session, client, shown, cardOf>>
  BY <1>1 DEF tab
<1>3. /\ orch \in Orchestrators /\ WellFormed(orch) /\ Follows(row, Live) /\ row \in States
      /\ wire \in Seq(TabMessages) /\ joined \in BOOLEAN /\ alive \in BOOLEAN
  BY DEF IInv, HubTyped, LinkTyped, RowFits
<1>4. alive => Leaves(orch) /\ orch'.state = "FAILED"
  <2> SUFFICES ASSUME alive PROVE Leaves(orch) /\ orch'.state = "FAILED"
    OBVIOUS
  <2>1. Abort(orch) /\ orch.state \notin Terminal
    BY <1>1, <1>3 DEF Cancel, Follows, Live
  <2>2. QED
    BY <1>3, <2>1, AbortOutcome
<1>5. ~alive => orch' = orch /\ emitted' = << >>
  BY DEF Cancel
<1>6. orch' \in Orchestrators /\ WellFormed(orch') /\ emitted' \in Seq(Events)
  BY <1>3, <1>4, <1>5, OutcomeEvents, EventLists DEF Leaves
<1>7. HubTyped'
  BY <1>1, <1>6 DEF IInv, HubTyped, States
<1>8. RowFits'
  <2>1. Follows(row', Live')
    BY <1>1, FreshFormed DEF Follows, Live
  <2>2. joined' => token'
    BY <1>1 DEF IInv, RowFits
  <2>3. QED
    BY <1>1, <1>6, <2>1, <2>2 DEF RowFits
<1>9. q \in Seq(NoSas)
  BY <1>6, BroadcastTypes
<1>10. wire' \in Seq(TabMessages) /\ SasAt' = SasAt
  <2> HIDE DEF q
  <2>1. CASE joined
    BY <1>1, <1>3, <1>9, <2>1, SasStays
  <2>2. CASE ~joined
    BY <1>1, <1>3, <2>2 DEF SasAt
  <2>3. QED
    BY <1>3, <2>1, <2>2
<1>11. OneCard'
  BY <1>1, <1>2, <1>10 DEF IInv, OneCard
<1>12. OnTheWire'
  <2>1. PICK end \in Stores : ReadsTo(shown, wire, end) /\ (joined => Agrees(end, row, orch))
    BY DEF IInv, OnTheWire
  <2>2. CASE joined
    <3>1. alive
      BY <1>1, <2>2 DEF IInv, RowFits
    <3>2. Told(orch, end)
      <4>1. Follows(row, orch)
        BY <1>3, <3>1 DEF Live
      <4>2. QED
        BY <1>3, <1>4, <2>1, <2>2, <3>1, <4>1, OutcomeTold
    <3>3. RowAfter(row, emitted') = "FAILED"
      BY <1>4, <3>1, <3>2 DEF Told, Follows
    <3>4. PICK e \in Stores : ReadsTo(end, q, e) /\ Agrees(e, row', orch')
      BY <1>1, <3>2, <3>3 DEF Told, Hears
    <3> HIDE DEF q
    <3>5. q \in Seq(TabMessages)
      BY <1>9, SeqMonotonic DEF NoSas
    <3>6. ReadsTo(shown, wire \o q, e)
      BY <1>3, <2>1, <3>4, <3>5, ReadBoth
    <3>7. QED
      BY <1>1, <1>2, <2>2, <3>4, <3>6 DEF OnTheWire
  <2>3. CASE ~joined
    BY <1>1, <1>2, <2>1, <2>3 DEF OnTheWire
  <2>4. QED
    BY <1>3, <2>2, <2>3
<1>13. LinkTyped' /\ TabTyped'
  BY <1>1, <1>2, <1>10 DEF IInv, LinkTyped, TabTyped
<1>14. QED
  BY <1>7, <1>8, <1>11, <1>12, <1>13 DEF IInv

\* The announcement of a SAS, which may be the second of the two.
LEMMA AnnounceInv ==
  ASSUME IInv, NEW role \in Roles, NEW sas \in Sases, Announce(role, sas)
  PROVE  IInv'
<1> DEFINE said == [announced EXCEPT ![role] = sas]
           last == Sas(said["source"] = said["target"])
<1>1. /\ orch' = Live /\ alive' = TRUE /\ emitted' = << >> /\ row' = row /\ token' = token
      /\ joined' = joined /\ up' = up /\ late' = late /\ UNCHANGED tab
  BY DEF Announce
<1>2. \/ announced' = announced /\ broadcast' = broadcast /\ wire' = wire
      \/ announced' = said /\ broadcast' = broadcast /\ wire' = wire
      \/ /\ announced' = [r \in Roles |-> None] /\ ~broadcast /\ broadcast' = TRUE
         /\ wire' = IF joined THEN wire \o <<last>> ELSE wire
  BY DEF Announce, Send
<1>3. UNCHANGED <<sessions, page, session, client, shown, cardOf>>
  BY <1>1 DEF tab
<1>4. said \in [Roles -> Sases \cup {None}]
  BY DEF IInv, HubTyped
<1>5. last \in TabMessages /\ last.type = "sas"
  BY MessageTypes
<1>6. /\ Live \in Orchestrators /\ WellFormed(Live) /\ Follows(row, Live)
      /\ wire \in Seq(TabMessages) /\ joined \in BOOLEAN /\ broadcast \in BOOLEAN
      /\ row \in States /\ token \in BOOLEAN
  BY LiveFormed DEF IInv, HubTyped, LinkTyped, RowFits
<1>t. \E m \in BOOLEAN : last = Sas(m)
  OBVIOUS
<1> HIDE DEF last
<1>7. HubTyped'
  <2>1. announced' \in [Roles -> Sases \cup {None}]
    <3> HIDE DEF said
    <3>1. announced \in [Roles -> Sases \cup {None}]
      BY DEF IInv, HubTyped
    <3>2. [r \in Roles |-> None] \in [Roles -> Sases \cup {None}]
      OBVIOUS
    <3>3. QED
      BY <1>2, <1>4, <3>1, <3>2
  <2>2. broadcast' \in BOOLEAN /\ emitted' \in Seq(Events)
    BY <1>1, <1>2, <1>6, EventLists
  <2>3. orch' \in Orchestrators /\ alive' \in BOOLEAN /\ row' \in States /\ token' \in BOOLEAN
    BY <1>1, <1>6
  <2>4. QED
    BY <2>1, <2>2, <2>3 DEF HubTyped
<1> HIDE DEF said
<1>8. RowFits'
  <2>1. Live' = Live
    BY <1>1 DEF Live
  <2>2. token /\ row = "MIGRATING" => Live = orch
    BY DEF IInv, RowFits, Live
  <2>3. WellFormed(orch') /\ Follows(row', Live')
    BY <1>1, <1>6, <2>1
  <2>4. joined' => token'
    BY <1>1 DEF IInv, RowFits
  <2>5. token' /\ row' = "MIGRATING" => orch'.state = "MIGRATING"
    BY <1>1, <2>2 DEF IInv, RowFits
  <2>6. QED
    BY <1>1, <2>3, <2>4, <2>5 DEF RowFits
<1>9. CASE wire' = wire
  <2>1. LinkTyped' /\ TabTyped'
    BY <1>1, <1>3, <1>9 DEF IInv, LinkTyped, TabTyped
  <2>2. OneCard'
    BY <1>1, <1>2, <1>3, <1>9 DEF IInv, OneCard, SasAt
  <2>3. PICK end \in Stores : ReadsTo(shown, wire, end) /\ (joined => Agrees(end, row, orch))
    BY DEF IInv, OnTheWire
  <2>4. joined => Agrees(end, row, Live)
    BY <2>3, LiveAgrees DEF IInv
  <2>5. OnTheWire'
    BY <1>1, <1>3, <1>9, <2>3, <2>4 DEF OnTheWire
  <2>6. QED
    BY <1>7, <1>8, <2>1, <2>2, <2>5 DEF IInv
<1>10. CASE joined /\ ~broadcast /\ broadcast' = TRUE /\ wire' = wire \o <<last>>
  <2>1. /\ wire' = Append(wire, last) /\ wire' \in Seq(TabMessages)
        /\ Len(wire') = Len(wire) + 1 /\ Len(wire) \in Nat
        /\ \A i \in 1 .. Len(wire) : wire'[i] = wire[i]
    BY <1>5, <1>6, <1>10, AppendIsConcat, AppendProperties
  <2>2. LinkTyped' /\ TabTyped'
    BY <1>1, <1>3, <2>1 DEF IInv, LinkTyped, TabTyped
  <2>3. SasAt = {} /\ cardOf # sessions
    BY <1>10 DEF IInv, RowFits, OneCard
  <2>4. DOMAIN wire = 1 .. Len(wire) /\ DOMAIN wire' = 1 .. (Len(wire) + 1)
    BY <1>6, <2>1
  <2>5. \A i \in 1 .. Len(wire) : wire[i].type # "sas"
    BY <2>3, <2>4 DEF SasAt
  <2>6. \A i \in DOMAIN wire' : i \in 1 .. Len(wire) \/ i = Len(wire) + 1
    BY <2>1, <2>4
  <2>7. \A i \in SasAt' : i = Len(wire) + 1
    BY <2>1, <2>5, <2>6 DEF SasAt
  <2>8. \A i, j \in SasAt' : i = j
    BY <2>7
  <2>9. OneCard'
    BY <1>1, <1>3, <1>10, <2>3, <2>8 DEF IInv, OneCard
  <2>10. PICK end \in Stores : ReadsTo(shown, wire, end) /\ (joined => Agrees(end, row, orch))
    BY DEF IInv, OnTheWire
  <2> DEFINE e == Applied(end, last)
  <2>11. Chained(end, last)
    BY <1>5 DEF Chained
  <2>12. ReadsTo(end, <<last>>, e) /\ e \in Stores
    BY <1>5, <2>11, ReadOne, AppliedStores
  <2>13. Agrees(e, row, Live)
    <3>1. Agrees(end, row, Live)
      BY <1>10, <2>10, LiveAgrees DEF IInv
    <3>2. e.state = end.state /\ e.steps = end.steps
      BY <1>5 DEF Applied, Stores
    <3> HIDE DEF e
    <3>3. QED
      BY <3>1, <3>2 DEF Agrees
  <2> HIDE DEF e
  <2>14. ReadsTo(shown, wire', e)
    <3>1. <<last>> \in Seq(TabMessages)
      BY <1>5
    <3>2. QED
      BY <1>6, <1>10, <2>10, <2>12, <3>1, ReadBoth
  <2>15. OnTheWire'
    BY <1>1, <1>3, <2>12, <2>13, <2>14 DEF OnTheWire
  <2>16. QED
    BY <1>7, <1>8, <2>2, <2>9, <2>15 DEF IInv
<1>11. QED
  BY <1>2, <1>6, <1>9, <1>10

-----------------------------------------------------------------------------
(* The client's steps.                                                     *)

\* scheduleReconnect() counts its attempts up to the limit.
LEMMA ScheduledType ==
  ASSUME client \in [stage : Stages, attempts : 0 .. MaxAttempts]
  PROVE  Scheduled \in [stage : Stages, attempts : 0 .. MaxAttempts]
<1>1. MaxAttempts \in Nat
  BY DashboardAssumption
<1>2. CASE client.attempts >= MaxAttempts
  BY <1>2 DEF Scheduled, Stages
<1>3. CASE ~(client.attempts >= MaxAttempts)
  <2>1. client.attempts + 1 \in 0 .. MaxAttempts
    BY <1>1, <1>3
  <2>2. QED
    BY <1>3, <2>1 DEF Scheduled, Stages
<1>4. QED
  BY <1>2, <1>3

\* Steps of the client that touch neither the wire nor the store.
LEMMA ClientInv ==
  ASSUME IInv, Refused \/ RefusalCloses \/ OpenFails \/ ReconnectTimer
  PROVE  IInv'
<1>1. /\ UNCHANGED <<orch, alive, row, token, announced, broadcast>>
      /\ UNCHANGED link /\ emitted' = << >>
      /\ UNCHANGED <<sessions, page, session, shown, cardOf>>
  BY DEF Refused, RefusalCloses, OpenFails, ReconnectTimer, HubSide, hub
<1>2. client' \in [stage : Stages, attempts : 0 .. MaxAttempts]
  <2>1. client \in [stage : Stages, attempts : 0 .. MaxAttempts] /\ 0 \in 0 .. MaxAttempts
    BY DashboardAssumption DEF IInv, TabTyped
  <2>2. CASE Refused
    BY <2>1, <2>2 DEF Refused, Stages
  <2>3. CASE RefusalCloses \/ OpenFails
    BY <2>1, <2>3, ScheduledType DEF RefusalCloses, OpenFails
  <2>4. CASE ReconnectTimer
    BY <2>1, <2>4 DEF ReconnectTimer, Stages
  <2>5. QED
    BY <2>2, <2>3, <2>4
<1>3. /\ UNCHANGED <<joined, wire, up, late>>
      /\ UNCHANGED <<orch, alive, row, token, broadcast>>
  BY <1>1 DEF link
<1>4. HubTyped' /\ RowFits'
  BY <1>1, <1>3, SessionSame DEF IInv
<1>5. LinkTyped' /\ TabTyped'
  BY <1>1, <1>2, <1>3 DEF IInv, LinkTyped, TabTyped
<1>6. OnTheWire' /\ OneCard'
  BY <1>1, <1>3, ReadingSame, CardSame DEF IInv
<1>7. QED
  BY <1>4, <1>5, <1>6 DEF IInv

\* The socket is lost.
LEMMA SocketLostInv ==
  ASSUME IInv, SocketLost
  PROVE  IInv'
<1>1. /\ UNCHANGED HubSide /\ emitted' = << >> /\ client' = Scheduled
      /\ UNCHANGED <<sessions, page, session, shown, cardOf>>
  BY DEF SocketLost
<1>2. PICK n \in 0 .. Len(up) : LeaveSocket(SubSeq(up, 1, n))
  BY DEF SocketLost
<1>3. /\ up \in Seq({"start", "abort"}) /\ late \in Seq({"start", "abort"})
      /\ Len(up) + Len(late) <= MaxCommands /\ MaxCommands \in Nat
  BY DashboardAssumption DEF IInv, LinkTyped
<1>4. SubSeq(up, 1, n) \in Seq({"start", "abort"}) /\ Len(SubSeq(up, 1, n)) = n
  BY <1>3
<1>5. Len(SubSeq(up, 1, n)) + Len(late) <= MaxCommands
  <2>1. Len(up) \in Nat /\ Len(late) \in Nat /\ n <= Len(up) /\ n \in Nat
    BY <1>3
  <2>2. QED
    BY <1>3, <1>4, <2>1
<1>6. shown' \in Stores /\ UNCHANGED <<token, broadcast, sessions, cardOf>>
  BY <1>1 DEF HubSide, hub, IInv, TabTyped
<1> DEFINE sent == SubSeq(up, 1, n)
<1> HIDE DEF sent
<1>7. LinkTyped' /\ OnTheWire' /\ OneCard'
  <2>1. LeaveSocket(sent) /\ sent \in Seq({"start", "abort"}) /\ Len(sent) + Len(late) <= MaxCommands
    BY <1>2, <1>4, <1>5 DEF sent
  <2>2. QED
    BY <1>6, <2>1, SocketLeft
<1>8. HubTyped' /\ RowFits'
  <2>1. joined' = FALSE
    BY <1>2 DEF LeaveSocket
  <2>2. QED
    BY <1>1, <2>1, HubSame DEF IInv
<1>9. TabTyped'
  BY <1>1, ScheduledType DEF IInv, TabTyped
<1>10. QED
  BY <1>7, <1>8, <1>9 DEF IInv

\* The tab is let in and sent the snapshot.
LEMMA AcceptedInv ==
  ASSUME IInv, Accepted
  PROVE  IInv'
<1>1. /\ token /\ joined' = TRUE /\ wire' = Snapshot /\ emitted' = << >>
      /\ client' = [stage |-> "open", attempts |-> 0]
      /\ UNCHANGED <<row, token, announced, broadcast, up, late>>
      /\ UNCHANGED <<sessions, page, session, shown, cardOf>>
  BY DEF Accepted
<1>2. /\ row = "MIGRATING" => alive
      /\ alive => Live = orch
      /\ ~alive => row \in Terminal
  BY <1>1 DEF IInv, RowFits, Live
<1>3. orch' = orch /\ alive' = alive
  <2>1. CASE row = "MIGRATING"
    BY <1>2, <2>1 DEF Accepted, IInv, HubTyped
  <2>2. CASE row # "MIGRATING"
    BY <2>2 DEF Accepted
  <2>3. QED
    BY <2>1, <2>2
<1>4. HubTyped'
  BY <1>1, <1>3, EventLists DEF IInv, HubTyped
<1>5. RowFits'
  <2>1. Live' = Live
    BY <1>3 DEF Live
  <2>2. QED
    BY <1>1, <1>3, <2>1 DEF IInv, RowFits
<1>6. row = "MIGRATING" => Live.currentStep \in Steps
  <2> SUFFICES ASSUME row = "MIGRATING" PROVE Live.currentStep \in Steps
    OBVIOUS
  <2>1. Live = orch /\ orch.state = "MIGRATING" /\ WellFormed(orch)
    BY <1>1, <1>2 DEF IInv, RowFits
  <2>2. QED
    BY <2>1 DEF WellFormed
<1>7. shown \in Stores /\ row \in States
  BY DEF IInv, TabTyped, HubTyped
<1>8. Snapshot \in Seq(NoSas)
  BY <1>6, <1>7, ReadSnapshot
<1>9. PICK e \in Stores : ReadsTo(shown, Snapshot, e) /\ Agrees(e, row, Live)
  BY <1>6, <1>7, ReadSnapshot
<1>10. OnTheWire'
  <2>1. Agrees(e, row, orch)
    BY <1>2, <1>9 DEF Agrees
  <2>2. QED
    BY <1>1, <1>3, <1>9, <2>1 DEF OnTheWire
<1>11. Snapshot \in Seq(TabMessages)
  BY <1>8, SeqMonotonic DEF NoSas
<1>12. LinkTyped'
  BY <1>1, <1>11 DEF IInv, LinkTyped
<1>13. TabTyped'
  BY <1>1, DashboardAssumption DEF IInv, TabTyped, Stages
<1>14. OneCard'
  <2>1. \A i \in DOMAIN Snapshot : Snapshot[i].type # "sas"
    BY <1>8 DEF NoSas
  <2>2. SasAt' = {}
    BY <1>1, <2>1 DEF SasAt
  <2>3. QED
    BY <1>1, <2>2 DEF IInv, OneCard
<1>15. QED
  BY <1>4, <1>5, <1>10, <1>12, <1>13, <1>14 DEF IInv

\* The tab reads the oldest message.
LEMMA ReceiveInv ==
  ASSUME IInv, Receive
  PROVE  IInv'
<1> DEFINE msg == Head(wire)
<1>1. /\ wire # << >> /\ wire' = Tail(wire) /\ shown' = Applied(shown, msg)
      /\ cardOf' = (IF msg.type = "sas" THEN sessions ELSE cardOf)
      /\ UNCHANGED HubSide /\ emitted' = << >>
      /\ UNCHANGED <<joined, up, late, sessions, page, session, client>>
  BY DEF Receive
<1>2. /\ wire \in Seq(TabMessages) /\ shown \in Stores /\ sessions \in Nat /\ cardOf \in Nat
  BY DEF IInv, LinkTyped, TabTyped
<1>3. /\ msg \in TabMessages /\ msg = wire[1] /\ Tail(wire) \in Seq(TabMessages)
      /\ Len(wire) \in Nat /\ Len(wire) >= 1 /\ Len(Tail(wire)) = Len(wire) - 1
      /\ \A i \in 1 .. (Len(wire) - 1) : Tail(wire)[i] = wire[i + 1]
  BY <1>1, <1>2, HeadTailProperties, EmptySeq
<1>4. HubTyped' /\ RowFits'
  BY <1>1, HubSame DEF IInv
<1>5. LinkTyped'
  BY <1>1, <1>3 DEF IInv, LinkTyped
<1>6. UNCHANGED <<orch, row, token, broadcast>>
  BY <1>1 DEF HubSide, hub
<1>7. TabTyped'
  <2> HIDE DEF msg
  <2>1. shown' \in Stores
    BY <1>1, <1>2, <1>3, AppliedStores
  <2>2. cardOf' \in Nat
    BY <1>1, <1>2
  <2>3. QED
    BY <1>1, <2>1, <2>2 DEF IInv, TabTyped
<1>8. OnTheWire'
  <2>1. PICK end \in Stores : ReadsTo(shown, wire, end) /\ (joined => Agrees(end, row, orch))
    BY DEF IInv, OnTheWire
  <2>2. ReadsTo(Applied(shown, msg), Tail(wire), end)
    BY <1>1, <1>2, <2>1, ReadOldest
  <2>3. QED
    BY <1>1, <1>6, <2>1, <2>2 DEF OnTheWire
<1> HIDE DEF msg
<1>9. DOMAIN wire = 1 .. Len(wire) /\ DOMAIN wire' = 1 .. (Len(wire) - 1)
  BY <1>1, <1>2, <1>3
<1>10. \A i \in SasAt' : i \in Nat /\ i >= 1 /\ i + 1 \in SasAt
  BY <1>1, <1>3, <1>9 DEF SasAt
<1>11. /\ cardOf <= sessions /\ (\A i, j \in SasAt : i = j)
       /\ SasAt # {} => cardOf # sessions
       /\ token /\ (SasAt # {} \/ cardOf = sessions) => broadcast
  BY DEF IInv, OneCard
<1>12. CASE msg.type = "sas"
  <2>1. 1 \in SasAt
    BY <1>3, <1>9, <1>12 DEF SasAt
  <2>2. SasAt' = {}
    <3> SUFFICES ASSUME NEW i \in SasAt' PROVE FALSE
      OBVIOUS
    <3>1. i + 1 = 1 /\ i \in Nat /\ i >= 1
      BY <1>10, <1>11, <2>1
    <3>2. QED
      BY <3>1
  <2>3. cardOf' = sessions /\ sessions <= sessions
    BY <1>1, <1>2, <1>12
  <2>4. OneCard'
    BY <1>1, <1>6, <1>11, <2>1, <2>2, <2>3 DEF OneCard
  <2>5. QED
    BY <1>4, <1>5, <1>7, <1>8, <2>4 DEF IInv
<1>13. CASE msg.type # "sas"
  <2>1. cardOf' = cardOf
    BY <1>1, <1>13
  <2>2. \A i, j \in SasAt' : i = j
    <3> SUFFICES ASSUME NEW i \in SasAt', NEW j \in SasAt' PROVE i = j
      OBVIOUS
    <3>1. i \in Nat /\ j \in Nat /\ i + 1 = j + 1
      BY <1>10, <1>11
    <3>2. QED
      BY <3>1
  <2>3. SasAt' # {} => SasAt # {}
    BY <1>10
  <2>4. OneCard'
    BY <1>1, <1>6, <1>11, <2>1, <2>2, <2>3 DEF OneCard
  <2>5. QED
    BY <1>4, <1>5, <1>7, <1>8, <2>4 DEF IInv
<1>14. QED
  BY <1>12, <1>13

-----------------------------------------------------------------------------
(* The operator's steps.                                                   *)

\* A command is added to the socket's, or dropped.
LEMMA SentType ==
  ASSUME IInv, MayCommand, NEW cmd \in {"start", "abort"}
  PROVE  Sent(cmd) \in Seq({"start", "abort"}) /\ Len(Sent(cmd)) + Len(late) <= MaxCommands
<1>1. /\ up \in Seq({"start", "abort"}) /\ late \in Seq({"start", "abort"})
      /\ Len(up) + Len(late) < MaxCommands /\ MaxCommands \in Nat
  BY DashboardAssumption DEF IInv, LinkTyped, MayCommand
<1>2. Len(up) \in Nat /\ Len(late) \in Nat
  BY <1>1
<1>3. Append(up, cmd) \in Seq({"start", "abort"}) /\ Len(Append(up, cmd)) = Len(up) + 1
  BY <1>1
<1>4. CASE client.stage = "open"
  <2>1. Sent(cmd) = Append(up, cmd)
    BY <1>4 DEF Sent
  <2>2. Len(Append(up, cmd)) + Len(late) <= MaxCommands
    BY <1>1, <1>2, <1>3
  <2>3. QED
    BY <1>3, <2>1, <2>2
<1>5. CASE client.stage # "open"
  <2>1. Sent(cmd) = up
    BY <1>5 DEF Sent
  <2>2. QED
    BY <1>1, <1>2, <2>1
<1>6. QED
  BY <1>4, <1>5

\* Start and abort, from the pages' buttons.
LEMMA ClickInv ==
  ASSUME IInv, ClickStart \/ ClickAbort
  PROVE  IInv'
<1>1. PICK cmd \in {"start", "abort"} : MayCommand /\ up' = Sent(cmd)
  BY DEF ClickStart, ClickAbort
<1>2. UNCHANGED <<joined, wire, late>> /\ UNCHANGED tab /\ UNCHANGED HubSide /\ emitted' = << >>
  BY DEF ClickStart, ClickAbort
<1>3. /\ UNCHANGED <<sessions, page, session, client, shown, cardOf>>
      /\ UNCHANGED <<orch, row, token, broadcast>>
  BY <1>2 DEF tab, HubSide, hub
<1>4. up' \in Seq({"start", "abort"}) /\ Len(up') + Len(late') <= MaxCommands
  BY <1>1, <1>2, SentType
<1>5. LinkTyped'
  BY <1>2, <1>4 DEF IInv, LinkTyped
<1>6. TabTyped'
  BY <1>3 DEF IInv, TabTyped
<1>7. HubTyped' /\ RowFits'
  BY <1>2, HubSame DEF IInv
<1>8. OnTheWire' /\ OneCard'
  BY <1>2, <1>3, ReadingSame, CardSame DEF IInv
<1>9. QED
  BY <1>5, <1>6, <1>7, <1>8 DEF IInv

\* The operator says that the SAS does not match.
LEMMA ClickMismatchInv ==
  ASSUME IInv, ClickMismatch
  PROVE  IInv'
<1>1. /\ MayCommand /\ LeaveSocket(Sent("abort")) /\ shown' = Empty /\ session' = FALSE
      /\ client' = Off /\ emitted' = << >> /\ UNCHANGED HubSide
      /\ UNCHANGED <<sessions, page, cardOf>>
  BY DEF ClickMismatch
<1> DEFINE sent == Sent("abort")
<1>2. sent \in Seq({"start", "abort"}) /\ Len(sent) + Len(late) <= MaxCommands /\ LeaveSocket(sent)
  BY <1>1, SentType
<1> HIDE DEF sent
<1>3. shown' \in Stores
  BY <1>1 DEF Empty, Stores, States, StepStatus
<1>4. UNCHANGED <<token, broadcast, sessions, cardOf>> /\ joined' = FALSE
  BY <1>1 DEF HubSide, hub, LeaveSocket
<1>5. LinkTyped' /\ OnTheWire' /\ OneCard'
  BY <1>2, <1>3, <1>4, SocketLeft
<1>6. HubTyped' /\ RowFits'
  BY <1>1, <1>4, HubSame DEF IInv
<1>7. TabTyped'
  <2>1. client' \in [stage : Stages, attempts : 0 .. MaxAttempts]
    BY <1>1, DashboardAssumption DEF Off, Stages
  <2>2. UNCHANGED <<sessions, page, cardOf>> /\ session' \in BOOLEAN
    BY <1>1
  <2>3. QED
    BY <1>3, <2>1, <2>2 DEF IInv, TabTyped
<1>8. QED
  BY <1>5, <1>6, <1>7 DEF IInv

\* The operator turns to another page.
LEMMA GoToInv ==
  ASSUME IInv, NEW p \in Pages, GoTo(p)
  PROVE  IInv'
<1>1. /\ page' = p /\ LeaveSocket(up) /\ client' \in {Connecting, Off}
      /\ emitted' = << >> /\ UNCHANGED HubSide
      /\ UNCHANGED <<sessions, session, shown, cardOf>>
  BY DEF GoTo
<1>2. /\ up \in Seq({"start", "abort"}) /\ Len(up) + Len(late) <= MaxCommands
      /\ shown' \in Stores
  BY <1>1 DEF IInv, LinkTyped, TabTyped
<1>3. UNCHANGED <<token, broadcast, sessions, cardOf>> /\ joined' = FALSE
  BY <1>1 DEF HubSide, hub, LeaveSocket
<1>4. LinkTyped' /\ OnTheWire' /\ OneCard'
  BY <1>1, <1>2, <1>3, SocketLeft
<1>5. HubTyped' /\ RowFits'
  BY <1>1, <1>3, HubSame DEF IInv
<1>6. TabTyped'
  <2>1. client' \in [stage : Stages, attempts : 0 .. MaxAttempts]
    BY <1>1, DashboardAssumption DEF Off, Connecting, Stages
  <2>2. QED
    BY <1>1, <1>2, <2>1 DEF IInv, TabTyped
<1>7. QED
  BY <1>4, <1>5, <1>6 DEF IInv

\* A new session takes the place of the old one.
LEMMA CreateSessionInv ==
  ASSUME IInv, CreateSession
  PROVE  IInv'
<1>1. /\ sessions' = sessions + 1 /\ session' = TRUE
      /\ orch' = Fresh /\ alive' = TRUE /\ row' = "IDLE" /\ token' = TRUE
      /\ announced' = [r \in Roles |-> None] /\ broadcast' = FALSE
      /\ joined' = FALSE /\ wire' = << >> /\ up' = << >> /\ late' = << >>
      /\ client' = Connecting /\ emitted' = << >> /\ UNCHANGED <<page, shown, cardOf>>
  BY DEF CreateSession
<1>2. HubTyped'
  <2>1. announced' \in [Roles -> Sases \cup {None}]
    BY <1>1
  <2>2. QED
    BY <1>1, <2>1, EventLists, FreshFormed DEF HubTyped, States
<1>3. LinkTyped'
  <2>1. up' \in Seq({"start", "abort"}) /\ late' \in Seq({"start", "abort"})
    BY <1>1
  <2>2. Len(up') + Len(late') <= MaxCommands
    BY <1>1, DashboardAssumption
  <2>3. wire' \in Seq(TabMessages)
    BY <1>1
  <2>4. QED
    BY <1>1, <2>1, <2>2, <2>3 DEF LinkTyped
<1>4. TabTyped'
  BY <1>1, DashboardAssumption DEF IInv, TabTyped, Connecting, Stages
<1>5. RowFits'
  BY <1>1, FreshFormed DEF RowFits, Follows, Live
<1>6. OnTheWire'
  <2>1. shown \in Stores
    BY DEF IInv, TabTyped
  <2>2. QED
    BY <1>1, <2>1, ReadNothing DEF OnTheWire
<1>7. OneCard'
  <2>1. SasAt' = {}
    BY <1>1 DEF SasAt
  <2>2. cardOf' <= sessions' /\ cardOf' # sessions'
    BY <1>1 DEF IInv, TabTyped, OneCard
  <2>3. QED
    BY <2>1, <2>2 DEF OneCard
<1>8. QED
  BY <1>2, <1>3, <1>4, <1>5, <1>6, <1>7 DEF IInv

-----------------------------------------------------------------------------
(* Every step.                                                             *)

\* What the hub does.
LEMMA HubActsInv ==
  ASSUME IInv, HubActs
  PROVE  IInv'
<1>1. CASE \E role \in Roles : AgentCalls(role)
  BY <1>1, AgentCallsInv
<1>2. CASE \E role \in Roles, sas \in Sases : Announce(role, sas)
  BY <1>2, AnnounceInv
<1>3. CASE Cancel
  BY <1>3, CancelInv
<1>4. CASE HubRestart
  BY <1>4, ProcessEndsInv DEF HubRestart
<1>5. CASE HandleCommand
  BY <1>5, HandleCommandInv
<1>6. QED
  BY <1>1, <1>2, <1>3, <1>4, <1>5 DEF HubActs

\* What anyone does, and nothing at all.
LEMMA NextInv ==
  ASSUME IInv, [Next]_vars
  PROVE  IInv'
<1>1. CASE HubActs
  BY <1>1, HubActsInv
<1>2. CASE ClientActs
  BY <1>2, AcceptedInv, ClientInv, SocketLostInv, ReceiveInv DEF ClientActs
<1>3. CASE OperatorActs
  BY <1>3, ClickInv, ClickMismatchInv, GoToInv, CreateSessionInv DEF OperatorActs
<1>4. CASE UNCHANGED vars
  <2>1. /\ UNCHANGED <<orch, emitted, alive, row, token, announced, broadcast>>
        /\ UNCHANGED <<joined, wire, up, late>>
        /\ UNCHANGED <<sessions, page, session, client, shown, cardOf>>
    BY <1>4 DEF vars, hub, link, tab
  <2>2. HubTyped' /\ LinkTyped' /\ TabTyped'
    BY <2>1 DEF IInv, HubTyped, LinkTyped, TabTyped
  <2>3. RowFits'
    BY <2>1 DEF IInv, RowFits, Live
  <2>4. OnTheWire' /\ OneCard'
    BY <2>1, ReadingSame, CardSame DEF IInv
  <2>5. QED
    BY <2>2, <2>3, <2>4 DEF IInv
<1>5. QED
  BY <1>1, <1>2, <1>3, <1>4 DEF Next

ExpiryTyped == expired \in BOOLEAN /\ completed \in BOOLEAN

\* Only the check of a dashboard and the end of a migration touch the two.
LEMMA ExpiryInv ==
  ASSUME ExpiryTyped, [Next]_vars
  PROVE  ExpiryTyped'
<1>1. CASE Recorded
  BY <1>1 DEF Recorded, ExpiryTyped
<1>2. CASE UNCHANGED expiry
  BY <1>2 DEF expiry, ExpiryTyped
<1>3. CASE HubActs
  <2>1. CASE \E role \in Roles : AgentCalls(role)
    BY <1>1, <2>1 DEF AgentCalls
  <2>2. CASE \E role \in Roles, sas \in Sases : Announce(role, sas)
    BY <1>2, <2>2 DEF Announce
  <2>3. CASE Cancel
    BY <1>2, <2>3 DEF Cancel
  <2>4. CASE HubRestart
    BY <1>2, <2>4 DEF HubRestart, ProcessEnds
  <2>5. CASE HandleCommand
    BY <1>1, <1>2, <2>5 DEF HandleCommand, Command, StartThrows, ProcessEnds
  <2>6. QED
    BY <1>3, <2>1, <2>2, <2>3, <2>4, <2>5 DEF HubActs
<1>4. CASE ClientActs
  <2>1. CASE Accepted
    BY <1>2, <2>1 DEF Accepted
  <2>2. CASE Refused
    BY <2>2 DEF Refused, ExpiryTyped
  <2>3. CASE UNCHANGED HubSide
    BY <1>2, <2>3 DEF HubSide, hub
  <2>4. QED
    BY <1>4, <2>1, <2>2, <2>3 DEF ClientActs, RefusalCloses, OpenFails, SocketLost,
                                  ReconnectTimer, Receive
<1>5. CASE OperatorActs
  <2>1. CASE CreateSession
    BY <2>1 DEF CreateSession, ExpiryTyped
  <2>2. CASE UNCHANGED HubSide
    BY <1>2, <2>2 DEF HubSide, hub
  <2>3. QED
    BY <1>5, <2>1, <2>2 DEF OperatorActs, ClickStart, ClickAbort, ClickMismatch, GoTo
<1>6. CASE UNCHANGED vars
  BY <1>2, <1>6 DEF vars, hub
<1>7. QED
  BY <1>3, <1>4, <1>5, <1>6 DEF Next

\* Every reachable state fits.
LEMMA Inductive == Spec => []IInv
<1>1. Init => IInv
  BY InitInv
<1>2. IInv /\ [Next]_vars => IInv'
  BY NextInv
<1>3. QED
  BY <1>1, <1>2, PTL DEF Spec

-----------------------------------------------------------------------------
(* The theorems.                                                           *)

\* The variables keep their types, with whatever the agents, the operator and
\* the network do: the attempts stay within MAX_RECONNECT_ATTEMPTS (lib/ws.ts).
THEOREM TypeCorrect == Spec => []TypeOK
<1>1. IInv /\ ExpiryTyped => TypeOK
  BY DEF IInv, HubTyped, LinkTyped, TabTyped, ExpiryTyped, TypeOK
<1>2. Init => ExpiryTyped
  BY DEF Init, ExpiryTyped
<1>3. ExpiryTyped /\ [Next]_vars => ExpiryTyped'
  BY ExpiryInv
<1>4. QED
  BY <1>1, <1>2, <1>3, Inductive, PTL DEF Spec

\* With nothing left to read, what is shown is what the wire led to.
LEMMA UpToDateAgrees ==
  ASSUME IInv, UpToDate
  PROVE  Agrees(shown, row, orch)
<1>1. PICK end \in Stores : ReadsTo(shown, wire, end) /\ (joined => Agrees(end, row, orch))
  BY DEF IInv, OnTheWire
<1>2. joined /\ wire = << >> /\ shown \in Stores
  BY DEF UpToDate, IInv, TabTyped
<1>3. end = shown
  BY <1>1, <1>2, ReadNothing
<1>4. QED
  BY <1>1, <1>2, <1>3

\* A tab that has read everything shows the state of its session's row:
\* wireClientToStore (lib/store.ts) of what wireOrchestrator broadcasts and the
\* snapshot of ws/handler.ts, through any reconnections and restarts.
THEOREM ShowsTheRowHolds == Spec => []ShowsTheRow
<1>1. IInv => ShowsTheRow
  BY UpToDateAgrees DEF ShowsTheRow, Agrees
<1>2. QED
  BY <1>1, Inductive, PTL

\* It shows the steps of the migration as far as the orchestrator got.
THEOREM ShowsTheStepsHolds == Spec => []ShowsTheSteps
<1>1. IInv => ShowsTheSteps
  <2> SUFFICES ASSUME IInv, UpToDate
               PROVE  /\ row = "MIGRATING" =>
                           /\ shown.steps[orch.currentStep] = "running"
                           /\ \A s \in 1 .. (orch.currentStep - 1) : shown.steps[s] = "complete"
                      /\ row = "COMPLETE" => \A s \in Steps : shown.steps[s] = "complete"
    BY DEF ShowsTheSteps
  <2>1. Agrees(shown, row, orch)
    BY UpToDateAgrees
  <2>2. row = "MIGRATING" => orch.state = "MIGRATING"
    BY DEF UpToDate, IInv, RowFits
  <2>3. QED
    BY <2>1, <2>2 DEF Agrees
<1>2. QED
  BY <1>1, Inductive, PTL

\* A tab reads every change of state in the order the orchestrator made them,
\* each from the state it shows.
THEOREM NoChangeMissedHolds == Spec => NoChangeMissed
<1> DEFINE A == Receive /\ Head(wire).type = "state_change" /\ Head(wire).from # Head(wire).to
                  => Head(wire).from \in {shown.state, "IDLE"}
<1>1. IInv /\ [Next]_vars => [A]_vars
  <2> SUFFICES ASSUME IInv, Receive, Head(wire).type = "state_change",
                      Head(wire).from # Head(wire).to
               PROVE  Head(wire).from \in {shown.state, "IDLE"}
    OBVIOUS
  <2>1. PICK end \in Stores : ReadsTo(shown, wire, end)
    BY DEF IInv, OnTheWire
  <2>2. wire \in Seq(TabMessages) /\ wire # << >>
    BY DEF IInv, LinkTyped, Receive
  <2>3. Chained(shown, Head(wire))
    BY <2>1, <2>2, ReadOldest
  <2>4. QED
    BY <2>3 DEF Chained
<1> HIDE DEF A
<1>2. Spec => [][A]_vars
  BY <1>1, Inductive, PTL DEF Spec
<1>3. QED
  BY <1>2 DEF NoChangeMissed, A

\* A mismatch that is shown stays until the operator says so or another session
\* is made: handleSasAnnouncement broadcasts once, and the card is on the tab.
THEOREM AlertStaysHolds == Spec => AlertStays
<1> DEFINE A == shown.card = "mismatch" /\ cardOf = sessions /\ session' /\ sessions' = sessions
                  => shown'.card = "mismatch"
<1>1. IInv /\ [Next]_vars => [A]_vars
  <2> SUFFICES ASSUME IInv, Next, shown.card = "mismatch", cardOf = sessions,
                      session', sessions' = sessions
               PROVE  shown'.card = "mismatch"
    OBVIOUS
  <2>1. CASE Receive
    <3>1. wire \in Seq(TabMessages) /\ wire # << >> /\ shown' = Applied(shown, Head(wire))
      BY <2>1 DEF IInv, LinkTyped, Receive
    <3>2. Head(wire) = wire[1] /\ 1 \in DOMAIN wire /\ wire[1] \in TabMessages
      BY <3>1, HeadTailProperties, EmptySeq
    <3>3. Head(wire).type # "sas"
      BY <3>2 DEF IInv, OneCard, SasAt
    <3> DEFINE msg == Head(wire)
    <3>4. msg \in TabMessages /\ msg.type # "sas" /\ shown \in Stores
      BY <3>2, <3>3 DEF IInv, TabTyped
    <3> HIDE DEF msg
    <3>5. Applied(shown, msg).card = shown.card
      BY <3>4 DEF Applied, Stores, TabMessages
    <3>6. QED
      BY <3>1, <3>5 DEF msg
  <2>2. CASE ClickMismatch
    BY <2>2 DEF ClickMismatch
  <2>3. CASE CreateSession
    BY <2>3 DEF CreateSession, IInv, TabTyped
  <2>4. CASE HubActs
    BY <2>4 DEF HubActs, AgentCalls, Announce, Cancel, HubRestart, ProcessEnds, HandleCommand,
                Command, StartThrows, tab
  <2>5. CASE Accepted \/ Refused \/ RefusalCloses \/ OpenFails \/ SocketLost \/ ReconnectTimer
    BY <2>5 DEF Accepted, Refused, RefusalCloses, OpenFails, SocketLost, ReconnectTimer
  <2>6. CASE ClickStart \/ ClickAbort \/ \E p \in Pages : GoTo(p)
    BY <2>6 DEF ClickStart, ClickAbort, GoTo, tab
  <2>7. QED
    BY <2>1, <2>2, <2>3, <2>4, <2>5, <2>6 DEF Next, ClientActs, OperatorActs
<1> HIDE DEF A
<1>2. Spec => [][A]_vars
  BY <1>1, Inductive, PTL DEF Spec
<1>3. QED
  BY <1>2 DEF AlertStays, A
=============================================================================
