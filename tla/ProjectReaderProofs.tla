------------------------- MODULE ProjectReaderProofs -------------------------
(***************************************************************************)
(* Proofs, for any number of tasks, requests and refreshes in flight, of   *)
(* the safety properties of ProjectReader.                                 *)
(***************************************************************************)
EXTENDS ProjectReader, SequenceTheorems, WellFoundedInduction, TLAPS

\* The editor has a task.
EditorInv == screen = "editor" => edited \in Tasks

\* The local writes are those of the requests that have got so far, each once.
QueueInv ==
    \A k \in DOMAIN queue :
        /\ request[queue[k]].step = "write"
        /\ \A j \in DOMAIN queue : queue[j] = queue[k] => j = k

\* Only a deletion calls the cloud function.
FunctionInv == \A i \in Requests : request[i].step = "function" => request[i].kind = "delete"

\* A task that is still to be drawn is stored nowhere, and nobody is adding it.
FreshInv ==
    \A t \in fresh :
        /\ stored[t] = "missing"
        /\ \A i \in Requests : request[i].task = t => request[i].kind # "add"

\* A refresh under way knows of every task that is being changed.
TouchedInv ==
    \A r \in Refreshes : refresh[r] # "idle"
        => \A i \in UnderWay : request[i].task \in touched[r]

\* Of the other tasks it has read what is stored.
SnapshotInv ==
    \A r \in Refreshes : refresh[r] = "deliver"
        => \A t \in Tasks \ touched[r] : snapshot[r][t] = stored[t]

\* A task that is not in doubt is changed by one request at a time.
OneInv ==
    \A i, j \in UnderWay :
        request[i].task = request[j].task /\ request[i].task \notin unsure => i = j

\* At rest such a task is shown as it is stored, or a refresh is there or to come.
RestInv ==
    credential => \A t \in Tasks \ unsure :
        ~ Busy(t) => shown[t] = stored[t] \/ screen # "reader" \/ Refreshing

\* While it is changed, what is shown and what is stored are one step apart: the
\* success of the request and its failure both bring them together.  An edit and a
\* deletion leave that to the refresh that follows the editor.
OneApart(i) ==
    LET t == request[i].task IN
    CASE request[i].kind = "toggle" ->
            /\ stored[t] # "missing"
            /\ shown[t] = Flip(stored[t]) /\ request[i].value = shown[t]
      [] request[i].kind = "add" ->
            stored[t] = "missing" /\ shown[t] = "open" /\ request[i].value = "open"
      [] OTHER -> screen # "reader"

BusyInv ==
    credential => \A i \in UnderWay :
        request[i].task \notin unsure => OneApart(i) \/ Refreshing

IInv ==
    /\ TypeOK /\ EditorInv /\ QueueInv /\ FunctionInv /\ FreshInv /\ TouchedInv
    /\ SnapshotInv /\ OneInv /\ RestInv /\ BusyInv

\* What Issue does, whether or not the change was clean.
Issued(i, k, t, v, s) ==
    /\ request[i].kind = "free"
    /\ request' = [request EXCEPT ![i] = [kind |-> k, task |-> t, value |-> v, step |-> s]]
    /\ touched' = Touch({t})
    /\ unsure' \in {unsure, unsure \union {t}}

-----------------------------------------------------------------------------
(***************************************************************************)
(* Facts about requests and the queue.                                     *)
(***************************************************************************)

\* A slot is free, or holds a request in flight.
LEMMA SlotFacts ==
    ASSUME TypeOK, NEW i \in Requests
    PROVE  /\ i \in UnderWay <=> request[i] \in InFlight
           /\ i \notin UnderWay <=> request[i] = Free
           /\ request[i] \in InFlight => request[i].task \in Tasks /\ request[i].value \in States
           /\ request[i].step # "none" => i \in UnderWay
<1>1. request[i] \in InFlight \union {Free}
  BY DEF TypeOK
<1>2. request[i] \in InFlight => request[i].kind # "free"
  BY DEF InFlight, Kinds
<1>3. Free.kind = "free" /\ Free.step = "none"
  BY DEF Free
<1> QED
  BY <1>1, <1>2, <1>3 DEF UnderWay, InFlight

\* A busy task has a request under way.
LEMMA BusyFacts == \A t \in Tasks : Busy(t) <=> \E i \in UnderWay : request[i].task = t
  BY DEF Busy, UnderWay

\* A request is issued in one slot.
LEMMA IssueFacts ==
    ASSUME TypeOK, NEW i \in Requests, NEW k \in Kinds, NEW t \in Tasks, NEW v \in States,
           NEW s \in {"reauthenticate", "write", "function"}, Issued(i, k, t, v, s)
    PROVE  /\ request'[i].kind = k /\ request'[i].task = t
           /\ request'[i].value = v /\ request'[i].step = s
           /\ request[i].step = "none"
           /\ \A j \in Requests : j # i => request'[j] = request[j]
           /\ UnderWay' = UnderWay \union {i} /\ i \notin UnderWay
           /\ request' \in [Requests -> InFlight \union {Free}]
           /\ touched' \in [Refreshes -> SUBSET Tasks]
           /\ unsure' \in SUBSET Tasks
<1>1. [kind |-> k, task |-> t, value |-> v, step |-> s] \in InFlight
  BY DEF InFlight
<1>2. request'[i] = [kind |-> k, task |-> t, value |-> v, step |-> s]
  BY DEF Issued, TypeOK
<1>3. i \notin UnderWay /\ request[i].step = "none"
  BY SlotFacts DEF Issued, UnderWay, Free
<1>4. \A j \in Requests : j # i => request'[j] = request[j]
  BY DEF Issued, TypeOK
<1>5. request' \in [Requests -> InFlight \union {Free}]
  BY <1>1 DEF Issued, TypeOK
<1>6. UnderWay' = UnderWay \union {i}
  BY <1>2, <1>4 DEF UnderWay, Kinds
<1>7. touched' \in [Refreshes -> SUBSET Tasks] /\ unsure' \in SUBSET Tasks
  BY DEF Issued, Touch, TypeOK
<1> QED
  BY <1>2, <1>3, <1>4, <1>5, <1>6, <1>7

\* A request that is over leaves its slot free.
LEMMA OverFacts ==
    ASSUME TypeOK, NEW i \in Requests, Over(i)
    PROVE  /\ \A j \in Requests : j # i => request'[j] = request[j]
           /\ UnderWay' = UnderWay \ {i}
           /\ request' \in [Requests -> InFlight \union {Free}]
           /\ request'[i] = Free
<1>1. request'[i] = Free /\ \A j \in Requests : j # i => request'[j] = request[j]
  BY DEF Over, TypeOK
<1>2. request' \in [Requests -> InFlight \union {Free}]
  BY DEF Over, TypeOK
<1>3. UnderWay' = UnderWay \ {i}
  BY <1>1 DEF UnderWay, Free
<1> QED
  BY <1>1, <1>2, <1>3

\* A request that waits for another call is not in the queue.
LEMMA QueueKeeps ==
    ASSUME IInv, NEW i \in Requests, request[i].step # "write", queue' = queue,
           \A j \in Requests : j # i => request'[j] = request[j]
    PROVE  QueueInv'
<1>1. \A k \in DOMAIN queue : queue[k] \in Requests
  BY LenProperties, ElementOfSeq DEF IInv, TypeOK
<1>2. \A k \in DOMAIN queue : queue[k] # i
  BY DEF IInv, QueueInv
<1> QED
  BY <1>1, <1>2 DEF IInv, QueueInv

\* A write is queued once.
LEMMA QueueAppend ==
    ASSUME IInv, NEW i \in Requests, request[i].step # "write", queue' = Append(queue, i),
           request'[i].step = "write",
           \A j \in Requests : j # i => request'[j] = request[j]
    PROVE  QueueInv' /\ queue' \in Seq(Requests)
<1>1. /\ Len(queue) \in Nat /\ DOMAIN queue = 1 .. Len(queue)
      /\ \A k \in DOMAIN queue : queue[k] \in Requests
  BY LenProperties, ElementOfSeq DEF IInv, TypeOK
<1>2. \A k \in DOMAIN queue : queue[k] # i
  BY DEF IInv, QueueInv
<1>3. /\ queue' \in Seq(Requests) /\ Len(queue') = Len(queue) + 1
      /\ \A k \in 1 .. Len(queue) : queue'[k] = queue[k]
      /\ queue'[Len(queue) + 1] = i
  BY AppendProperties DEF IInv, TypeOK
<1>4. DOMAIN queue' = 1 .. (Len(queue) + 1)
  BY <1>3, LenProperties
<1>5. \A k \in DOMAIN queue' : k \in DOMAIN queue \/ k = Len(queue) + 1
  BY <1>1, <1>4
<1>6. \A k \in DOMAIN queue' : request'[queue'[k]].step = "write"
  BY <1>1, <1>2, <1>3, <1>5 DEF IInv, QueueInv
<1>7. \A j, k \in DOMAIN queue' : queue'[j] = queue'[k] => j = k
  BY <1>1, <1>2, <1>3, <1>5 DEF IInv, QueueInv
<1> QED
  BY <1>3, <1>6, <1>7 DEF QueueInv

\* The first write leaves the queue, and is not in it any more.
LEMMA QueueTail ==
    ASSUME IInv, queue # <<>>, queue' = Tail(queue),
           \A j \in Requests : j # Head(queue) => request'[j] = request[j]
    PROVE  /\ QueueInv' /\ queue' \in Seq(Requests)
           /\ Head(queue) \in UnderWay
<1>1. /\ Len(queue) \in Nat \ {0} /\ DOMAIN queue = 1 .. Len(queue)
      /\ \A k \in DOMAIN queue : queue[k] \in Requests
  BY LenProperties, ElementOfSeq, EmptySeq DEF IInv, TypeOK
<1>2. /\ queue' \in Seq(Requests) /\ Len(queue') = Len(queue) - 1
      /\ \A k \in 1 .. Len(queue') : queue'[k] = queue[k + 1]
  BY HeadTailProperties DEF IInv, TypeOK
<1>3. DOMAIN queue' = 1 .. (Len(queue) - 1)
  BY <1>2, LenProperties
<1>4. \A k \in DOMAIN queue' : k + 1 \in DOMAIN queue /\ queue'[k] = queue[k + 1] /\ k + 1 # 1
  BY <1>1, <1>2, <1>3
<1>5. Head(queue) = queue[1] /\ 1 \in DOMAIN queue
  BY <1>1
<1>6. \A k \in DOMAIN queue' : queue'[k] # Head(queue)
  BY <1>4, <1>5 DEF IInv, QueueInv
<1>7. \A k \in DOMAIN queue' : request'[queue'[k]].step = "write"
  BY <1>1, <1>4, <1>6 DEF IInv, QueueInv
<1>8. \A j, k \in DOMAIN queue' : queue'[j] = queue'[k] => j = k
  <2> SUFFICES ASSUME NEW j \in DOMAIN queue', NEW k \in DOMAIN queue', queue'[j] = queue'[k]
               PROVE  j = k
    OBVIOUS
  <2>1. j + 1 = k + 1
    BY <1>4 DEF IInv, QueueInv
  <2> QED
    BY <1>3, <2>1
<1>9. Head(queue) \in UnderWay
  <2>1. Head(queue) \in Requests /\ request[Head(queue)].step = "write"
    BY <1>1, <1>5 DEF IInv, QueueInv
  <2> QED
    BY <2>1, SlotFacts DEF IInv
<1> QED
  BY <1>2, <1>7, <1>8, <1>9 DEF QueueInv

\* A nonempty set of positions has a last one: what View looks for exists.
LEMMA LastPosition ==
    ASSUME NEW n \in Nat, NEW T \in SUBSET (1 .. n), T # {}
    PROVE  \E k \in T : \A j \in T : j <= k
<1> DEFINE R == {ss \in Nat \X Nat : ss[1] < ss[2]}
           D == {n - k : k \in T}
<1>1. IsWellFoundedOn(R, Nat)
  BY NatLessThanWellFounded DEF OpToRel
<1>2. D # {}
  <2> PICK k \in T : TRUE
    OBVIOUS
  <2> QED
    BY n - k \in D
<1>3. D \subseteq Nat
  OBVIOUS
<1>4. PICK d \in D : \A e \in D : ~ (<<e, d>> \in R)
  <2> HIDE DEF D, R
  <2> QED
    BY <1>1, <1>2, <1>3, WFMin
<1>5. ASSUME NEW e \in D PROVE d <= e
  <2>1. e \in Nat /\ d \in Nat
    BY <1>3
  <2>2. ~ (<<e, d>> \in R)
    BY <1>4
  <2> HIDE DEF D
  <2>3. ~ (e < d)
    BY <2>1, <2>2
  <2> QED
    BY <2>1, <2>3
<1>6. PICK k \in T : d = n - k
  BY <1>4
<1>7. \A j \in T : n - k <= n - j
  BY <1>5, <1>6
<1>8. \A j \in T : j <= k
  BY <1>7
<1> QED
  BY <1>8

\* A query gives a state for every task.
LEMMA ViewType ==
    ASSUME IInv, NEW t \in Tasks PROVE View(t) \in States
<1> DEFINE W == {k \in DOMAIN queue : request[queue[k]].task = t}
           last == CHOOSE k \in W : \A l \in W : l <= k
<1>1. /\ Len(queue) \in Nat /\ DOMAIN queue = 1 .. Len(queue)
      /\ \A k \in DOMAIN queue : queue[k] \in Requests
  BY LenProperties, ElementOfSeq DEF IInv, TypeOK
<1>2. stored[t] \in States
  BY DEF IInv, TypeOK
<1>3. CASE W = {}
  BY <1>2, <1>3 DEF View
<1>4. CASE W # {}
  <2>1. W \in SUBSET (1 .. Len(queue))
    BY <1>1
  <2>2. \E k \in W : \A l \in W : l <= k
    <3> HIDE DEF W
    <3> QED
      BY <1>1, <1>4, <2>1, LastPosition
  <2>3. last \in W
    <3> HIDE DEF W
    <3> QED
      BY <2>2
  <2>4. queue[last] \in Requests /\ request[queue[last]].step = "write"
    BY <1>1, <2>3 DEF IInv, QueueInv
  <2>5. request[queue[last]].value \in States
    <3> HIDE DEF last
    <3> QED
      BY <2>4, SlotFacts DEF IInv
  <2> QED
    BY <1>2, <1>4, <2>5 DEF View
<1> QED
  BY <1>3, <1>4

\* A task without a request under way is read as it is stored.
LEMMA ViewAtRest ==
    ASSUME IInv, NEW t \in Tasks, \A i \in UnderWay : request[i].task # t
    PROVE  View(t) = stored[t]
<1>1. \A k \in DOMAIN queue : queue[k] \in Requests
  BY LenProperties, ElementOfSeq DEF IInv, TypeOK
<1>2. \A k \in DOMAIN queue : queue[k] \in UnderWay
  BY <1>1, SlotFacts DEF IInv, QueueInv
<1>3. {k \in DOMAIN queue : request[queue[k]].task = t} = {}
  BY <1>2
<1> QED
  BY <1>3 DEF View

-----------------------------------------------------------------------------
(***************************************************************************)
(* Types.                                                                  *)
(***************************************************************************)

\* Flipping a check mark gives a state, and doing it twice gives the task back.
LEMMA FlipFacts ==
    /\ \A v \in States : Flip(v) \in States
    /\ \A v \in States : Flip(Flip(v)) = v
  BY DEF Flip, States

\* A refresh begins.
LEMMA BeginType ==
    ASSUME TypeOK, NEW r \in Refreshes, NEW R \in SUBSET UnderWay, Begin(r, R)
    PROVE  /\ refresh' \in [Refreshes -> {"idle", "getDocument", "getTasks", "deliver"}]
           /\ touched' \in [Refreshes -> SUBSET Tasks]
           /\ Refreshing'
           /\ \A s \in Refreshes : refresh'[s] = "deliver" => refresh[s] = "deliver"
           /\ \A s \in Refreshes : s # r => refresh'[s] = refresh[s] /\ touched'[s] = touched[s]
           /\ touched'[r] = {request[i].task : i \in R}
<1>1. \A i \in R : request[i].task \in Tasks
  BY SlotFacts DEF UnderWay
<1>2. refresh' \in [Refreshes -> {"idle", "getDocument", "getTasks", "deliver"}]
  BY DEF Begin, TypeOK
<1>3. touched' \in [Refreshes -> SUBSET Tasks]
  BY <1>1 DEF Begin, TypeOK
<1>4. refresh'[r] = "getDocument" /\ touched'[r] = {request[i].task : i \in R}
  BY DEF Begin, TypeOK
<1>5. \A s \in Refreshes : s # r => refresh'[s] = refresh[s] /\ touched'[s] = touched[s]
  BY DEF Begin, TypeOK
<1>6. \A s \in Refreshes : refresh'[s] = "deliver" => refresh[s] = "deliver"
  BY <1>4, <1>5
<1> QED
  BY <1>2, <1>3, <1>4, <1>5, <1>6 DEF Refreshing

\* The completions of a request keep the types of the screen.
LEMMA CompletionType ==
    ASSUME TypeOK, NEW i \in UnderWay, Saved(i) \/ Rejected(i)
    PROVE  /\ request' \in [Requests -> InFlight \union {Free}]
           /\ shown' \in [Tasks -> States]
           /\ cell' \in [Tasks -> States]
           /\ loader' \in BOOLEAN
<1>1. i \in Requests /\ Over(i)
  BY DEF UnderWay, Saved, Rejected
<1>2. request' \in [Requests -> InFlight \union {Free}]
  BY <1>1, OverFacts
<1>3. request[i].task \in Tasks
  BY <1>1, SlotFacts
<1>4. shown' \in [Tasks -> States]
  <2>1. [shown EXCEPT ![request[i].task] = Flip(@)] \in [Tasks -> States]
    BY <1>3, FlipFacts DEF TypeOK
  <2>2. [shown EXCEPT ![request[i].task] = "missing"] \in [Tasks -> States]
    BY <1>3 DEF TypeOK, States
  <2> QED
    BY <2>1, <2>2 DEF Saved, Rejected, TypeOK
<1>5. cell' \in [Tasks -> States]
  BY DEF Saved, Rejected, TypeOK
<1>6. loader' \in BOOLEAN
  <2>1. loader' = (loader /\ request[i].kind = "toggle")
    BY Zenon DEF Saved, Rejected, Dismiss
  <2> QED
    BY <2>1 DEF TypeOK
<1> QED
  BY <1>2, <1>4, <1>5, <1>6

\* A refresh that failed keeps the types, whether or not it starts again.
LEMMA FailureType ==
    ASSUME TypeOK, NEW r \in Refreshes, RefreshFailed(r)
    PROVE  /\ UNCHANGED <<shown, cell, snapshot>>
           /\ refresh' \in [Refreshes -> {"idle", "getDocument", "getTasks", "deliver"}]
           /\ touched' \in [Refreshes -> SUBSET Tasks]
           /\ unsure' = Tasks
           /\ screen' \in {"reader", "editor", "left"}
           /\ screen' = "editor" => screen = "editor" /\ edited' = edited
           /\ edited' \in Tasks \union {"none"}
<1>1. \A i \in UnderWay : request[i].task \in Tasks
  BY SlotFacts DEF UnderWay
<1>2. touched' \in [Refreshes -> SUBSET Tasks]
  <2>1. \/ touched' = [touched EXCEPT ![r] = {request[i].task : i \in UnderWay}]
        \/ touched' = [touched EXCEPT ![r] = {}]
    BY DEF RefreshFailed
  <2>2. {request[i].task : i \in UnderWay} \in SUBSET Tasks /\ {} \in SUBSET Tasks
    BY <1>1
  <2> QED
    BY <2>1, <2>2 DEF TypeOK
<1>3. refresh' \in [Refreshes -> {"idle", "getDocument", "getTasks", "deliver"}]
  BY DEF RefreshFailed, TypeOK
<1>4. UNCHANGED <<shown, cell, snapshot>> /\ unsure' = Tasks
  BY DEF RefreshFailed, TypeOK
<1>5. /\ screen' \in {"reader", "editor", "left"}
      /\ screen' = "editor" => screen = "editor" /\ edited' = edited
      /\ edited' \in Tasks \union {"none"}
  <2>1. CASE screen = "editor" /\ ~ loader
    BY <2>1 DEF RefreshFailed
  <2>2. CASE ~ (screen = "editor" /\ ~ loader)
    <3>1. screen' = (IF loader THEN screen ELSE "left") /\ edited' = edited
      BY <2>2 DEF RefreshFailed
    <3> QED
      BY <3>1 DEF TypeOK
  <2> QED
    BY <2>1, <2>2
<1> QED
  BY <1>2, <1>3, <1>4, <1>5

\* Every tap, addition, edit and deletion is an issue.
LEMMA IssueIsIssued ==
    ASSUME NEW i, NEW k, NEW t, NEW v, NEW s, NEW clean, Issue(i, k, t, v, s, clean)
    PROVE  Issued(i, k, t, v, s)
  BY DEF Issue, Issued

\* What the user does keeps the types.
LEMMA UserType == IInv /\ User => TypeOK' /\ EditorInv'
<1> SUFFICES ASSUME IInv, User PROVE TypeOK' /\ EditorInv'
  OBVIOUS
<1> USE DEF firestore, local, reads, navigation
<1>0. TypeOK
  BY DEF IInv
<1>1. ASSUME NEW t \in Tasks, Tap(t) PROVE TypeOK' /\ EditorInv'
  <2>1. Flip(cell[t]) \in States
    BY <1>0, FlipFacts DEF TypeOK
  <2>2. shown' \in [Tasks -> States]
    BY <1>0, <1>1, <2>1 DEF Tap, TypeOK
  <2>3. CASE credential
    <3>1. PICK i \in Requests : Issued(i, "toggle", t, Flip(cell[t]), "reauthenticate")
      BY <1>1, <2>3, IssueIsIssued DEF Tap
    <3>2. /\ request' \in [Requests -> InFlight \union {Free}]
          /\ touched' \in [Refreshes -> SUBSET Tasks]
          /\ unsure' \in SUBSET Tasks
      BY <1>0, <2>1, <3>1, IssueFacts DEF Kinds
    <3> QED
      BY <1>0, <1>1, <2>2, <3>2 DEF Tap, TypeOK, IInv, EditorInv
  <2>4. CASE ~ credential
    BY <1>0, <1>1, <2>2, <2>4 DEF Tap, TypeOK, IInv, EditorInv
  <2> QED
    BY <2>3, <2>4
<1>2. ASSUME NEW t \in Tasks, OpenEditor(t) PROVE TypeOK' /\ EditorInv'
  BY <1>0, <1>2 DEF OpenEditor, TypeOK, EditorInv
<1>3. CASE AddTask
  <2>1. PICK t \in fresh, i \in Requests :
            /\ fresh' = fresh \ {t}
            /\ shown' = [shown EXCEPT ![t] = "open"]
            /\ Issued(i, "add", t, "open", "write")
            /\ queue' = Append(queue, i)
    BY <1>3, IssueIsIssued DEF AddTask
  <2>2. t \in Tasks /\ "open" \in States
    BY <1>0 DEF TypeOK, States
  <2>3. /\ request' \in [Requests -> InFlight \union {Free}]
        /\ touched' \in [Refreshes -> SUBSET Tasks]
        /\ unsure' \in SUBSET Tasks
    BY <1>0, <2>1, <2>2, IssueFacts DEF Kinds
  <2>4. queue' \in Seq(Requests) /\ shown' \in [Tasks -> States] /\ fresh' \in SUBSET Tasks
    BY <1>0, <2>1, <2>2, AppendProperties DEF TypeOK
  <2> QED
    BY <1>0, <1>3, <2>3, <2>4 DEF AddTask, TypeOK, IInv, EditorInv
<1>4. CASE EditTask
  <2>1. edited \in Tasks /\ "open" \in States
    BY <1>4 DEF EditTask, Attentive, IInv, EditorInv, States
  <2>2. CASE credential
    <3>1. PICK i \in Requests : Issued(i, "edit", edited, "open", "reauthenticate")
      BY <1>4, <2>2, IssueIsIssued DEF EditTask
    <3>2. /\ request' \in [Requests -> InFlight \union {Free}]
          /\ touched' \in [Refreshes -> SUBSET Tasks]
          /\ unsure' \in SUBSET Tasks
      BY <1>0, <2>1, <3>1, IssueFacts DEF Kinds
    <3> QED
      BY <1>0, <1>4, <3>2 DEF EditTask, TypeOK, IInv, EditorInv
  <2>3. CASE ~ credential
    BY <1>0, <1>4, <2>3 DEF EditTask, TypeOK, IInv, EditorInv
  <2> QED
    BY <2>2, <2>3
<1>5. CASE DeleteTask
  <2>1. edited \in Tasks /\ "missing" \in States
    BY <1>5 DEF DeleteTask, Attentive, IInv, EditorInv, States
  <2>2. PICK i \in Requests : Issued(i, "delete", edited, "missing", "function")
    BY <1>5, IssueIsIssued DEF DeleteTask
  <2>3. /\ request' \in [Requests -> InFlight \union {Free}]
        /\ touched' \in [Refreshes -> SUBSET Tasks]
        /\ unsure' \in SUBSET Tasks
    BY <1>0, <2>1, <2>2, IssueFacts DEF Kinds
  <2> QED
    BY <1>0, <1>5, <2>3 DEF DeleteTask, TypeOK, IInv, EditorInv
<1>6. CASE Back
  <2>1. PICK r \in Refreshes : Begin(r, UnderWay)
    BY <1>6 DEF Back
  <2> QED
    BY <1>0, <1>6, <2>1, BeginType DEF Back, TypeOK, EditorInv
<1>7. CASE ChildEnd
  <2>1. PICK r \in Refreshes : Begin(r, UnderWay)
    BY <1>7 DEF ChildEnd
  <2> QED
    BY <1>0, <1>7, <2>1, BeginType DEF ChildEnd, TypeOK, IInv, EditorInv
<1> QED
  BY <1>1, <1>2, <1>3, <1>4, <1>5, <1>6, <1>7 DEF User

\* What the SDKs complete keeps the types.
LEMMA CompletionsType == IInv /\ Completion => TypeOK' /\ EditorInv'
<1> SUFFICES ASSUME IInv, Completion PROVE TypeOK' /\ EditorInv'
  OBVIOUS
<1> USE DEF firestore, local, reads, navigation
<1>0. TypeOK
  BY DEF IInv
<1>1. ASSUME NEW i \in Requests, Reauthenticate(i) PROVE TypeOK' /\ EditorInv'
  <2>1. i \in UnderWay
    BY <1>0, <1>1, SlotFacts DEF Reauthenticate
  <2>2. CASE Rejected(i) /\ UNCHANGED queue
    BY <1>0, <1>1, <2>1, <2>2, CompletionType DEF Reauthenticate, TypeOK, IInv, EditorInv
  <2>3. CASE /\ request' = [request EXCEPT ![i].step = "write"]
             /\ queue' = Append(queue, i)
             /\ UNCHANGED <<shown, cell, loader>>
    <3>1. request' \in [Requests -> InFlight \union {Free}]
      <4>1. [request[i] EXCEPT !.step = "write"] \in InFlight
        BY <1>0, <2>1, SlotFacts DEF InFlight
      <4> QED
        BY <1>0, <2>3, <4>1 DEF TypeOK
    <3>2. queue' \in Seq(Requests)
      BY <1>0, <2>3, AppendProperties DEF TypeOK
    <3> QED
      BY <1>0, <1>1, <2>3, <3>1, <3>2 DEF Reauthenticate, TypeOK, IInv, EditorInv
  <2> QED
    BY <1>1, <2>2, <2>3 DEF Reauthenticate
<1>2. ASSUME NEW i \in Requests, Write(i) PROVE TypeOK' /\ EditorInv'
  <2>1. queue # <<>> /\ queue' = Tail(queue) /\ i = Head(queue) /\ (Saved(i) \/ Rejected(i))
    BY <1>2 DEF Write
  <2>2. \A j \in Requests : j # i => request'[j] = request[j]
    BY <1>0, <2>1, OverFacts DEF Saved, Rejected
  <2>3. queue' \in Seq(Requests) /\ i \in UnderWay
    BY <2>1, <2>2, QueueTail
  <2>4. request[i].task \in Tasks /\ request[i].value \in States
    BY <1>0, <2>3, SlotFacts
  <2>5. stored' \in [Tasks -> States]
    BY <1>0, <1>2, <2>4 DEF Write, TypeOK
  <2> QED
    BY <1>0, <1>2, <2>1, <2>3, <2>5, CompletionType DEF Write, TypeOK, IInv, EditorInv
<1>3. ASSUME NEW i \in Requests, DeleteFn(i) PROVE TypeOK' /\ EditorInv'
  <2>1. i \in UnderWay
    BY <1>0, <1>3, SlotFacts DEF DeleteFn
  <2>2. request[i].task \in Tasks
    BY <1>0, <2>1, SlotFacts
  <2>3. stored' \in [Tasks -> States]
    BY <1>0, <1>3, <2>2 DEF DeleteFn, TypeOK, States
  <2>4. /\ request' \in [Requests -> InFlight \union {Free}]
        /\ shown' \in [Tasks -> States]
        /\ cell' \in [Tasks -> States]
        /\ loader' \in BOOLEAN
    BY <1>0, <1>3, <2>1, CompletionType DEF DeleteFn
  <2>5. /\ refresh' \in [Refreshes -> {"idle", "getDocument", "getTasks", "deliver"}]
        /\ touched' \in [Refreshes -> SUBSET Tasks]
    <3>1. UnderWay \ {i} \in SUBSET UnderWay
      OBVIOUS
    <3> QED
      BY <1>0, <1>3, <3>1, BeginType DEF DeleteFn, TypeOK
  <2>6. /\ screen' \in {"reader", "editor", "left"} /\ edited' \in Tasks \union {"none"}
        /\ EditorInv'
    BY <1>0, <1>3 DEF DeleteFn, TypeOK, IInv, EditorInv
  <2> QED
    BY <1>0, <1>3, <2>3, <2>4, <2>5, <2>6 DEF DeleteFn, TypeOK
<1>4. ASSUME NEW r \in Refreshes, RefreshFailed(r),
             UNCHANGED <<firestore, request, fresh, observing, loader, credential>>
      PROVE  TypeOK' /\ EditorInv'
  BY <1>0, <1>4, FailureType DEF TypeOK, IInv, EditorInv
<1>5. ASSUME NEW r \in Refreshes, GetDocument(r) PROVE TypeOK' /\ EditorInv'
  BY <1>0, <1>4, <1>5 DEF GetDocument, TypeOK, IInv, EditorInv
<1>6. ASSUME NEW r \in Refreshes, GetTasks(r) PROVE TypeOK' /\ EditorInv'
  <2>1. [t \in Tasks |-> View(t)] \in [Tasks -> States]
    BY ViewType
  <2> QED
    BY <1>0, <1>4, <1>6, <2>1 DEF GetTasks, TypeOK, IInv, EditorInv
<1>7. ASSUME NEW r \in Refreshes, Deliver(r) PROVE TypeOK' /\ EditorInv'
  <2>1. NoTasks \in [Tasks -> States]
    BY DEF NoTasks, States
  <2> QED
    BY <1>0, <1>7, <2>1 DEF Deliver, TypeOK, IInv, EditorInv
<1> QED
  BY <1>1, <1>2, <1>3, <1>5, <1>6, <1>7 DEF Completion

-----------------------------------------------------------------------------
(***************************************************************************)
(* The strengthened invariant.                                             *)
(***************************************************************************)

\* A change that begins: its task is known to every refresh, is the only change of a
\* task that is not in doubt, and brings the screen one step away from the store.
LEMMA IssueStep ==
    ASSUME IInv, TypeOK', EditorInv',
           NEW i \in Requests, NEW k \in Kinds, NEW t \in Tasks, NEW v \in States,
           NEW s \in {"reauthenticate", "write", "function"}, Issued(i, k, t, v, s),
           Busy(t) => t \in unsure',
           \A u \in Tasks : u # t => shown'[u] = shown[u],
           UNCHANGED <<stored, refresh, snapshot, screen, credential>>,
           fresh' \subseteq fresh, k = "add" => t \notin fresh',
           QueueInv', s = "function" => k = "delete",
           credential /\ t \notin unsure' => OneApart(i)' \/ Refreshing
    PROVE  IInv'
<1>0. TypeOK
  BY DEF IInv
<1>1. /\ request'[i].kind = k /\ request'[i].task = t /\ request'[i].step = s
      /\ \A j \in Requests : j # i => request'[j] = request[j]
      /\ UnderWay' = UnderWay \union {i} /\ i \notin UnderWay
  BY <1>0, IssueFacts
<1>2. unsure \subseteq unsure' /\ UnderWay \subseteq Requests
  BY DEF Issued, UnderWay
<1>3. \A r \in Refreshes : /\ touched[r] \subseteq touched'[r]
                           /\ refresh[r] # "idle" => t \in touched'[r]
  BY <1>0 DEF Issued, Touch, TypeOK
<1>4. \A j \in UnderWay : /\ j # i /\ request'[j] = request[j] /\ request[j].task \in Tasks
                          /\ request[j].task = t => t \in unsure'
  BY <1>0, <1>1, <1>2, SlotFacts, BusyFacts
<1>5. FreshInv'
  <2> SUFFICES ASSUME NEW u \in fresh'
               PROVE  /\ stored'[u] = "missing"
                      /\ \A j \in Requests : request'[j].task = u => request'[j].kind # "add"
    BY DEF FreshInv
  <2> QED
    BY <1>1 DEF IInv, FreshInv
<1>6. TouchedInv'
  BY <1>1, <1>3, <1>4 DEF IInv, TouchedInv
<1>7. SnapshotInv'
  BY <1>3 DEF IInv, SnapshotInv
<1>8. OneInv'
  BY <1>1, <1>2, <1>4 DEF IInv, OneInv
<1>9. Refreshing' = Refreshing
  BY DEF Refreshing
<1>10. RestInv'
  <2> SUFFICES ASSUME credential, NEW u \in Tasks \ unsure', ~ Busy(u)'
               PROVE  shown'[u] = stored'[u] \/ screen' # "reader" \/ Refreshing'
    BY DEF RestInv
  <2>1. \A j \in UnderWay' : request'[j].task # u
    BY DEF Busy, UnderWay
  <2>2. u # t /\ \A j \in UnderWay : request[j].task # u
    BY <1>1, <1>4, <2>1
  <2>3. ~ Busy(u)
    BY <2>2, BusyFacts
  <2> QED
    BY <1>2, <1>9, <2>2, <2>3 DEF IInv, RestInv
<1>11. BusyInv'
  <2> SUFFICES ASSUME credential, NEW j \in UnderWay', request'[j].task \notin unsure'
               PROVE  OneApart(j)' \/ Refreshing'
    BY DEF BusyInv
  <2>1. CASE j = i
    BY <1>1, <1>9, <2>1
  <2>2. CASE j # i
    <3>1. /\ j \in UnderWay /\ request'[j] = request[j]
          /\ request[j].task \in Tasks /\ request[j].task # t /\ request[j].task \notin unsure
      BY <1>1, <1>2, <1>4, <2>2
    <3>2. OneApart(j) => OneApart(j)'
      BY <3>1 DEF OneApart
    <3> QED
      BY <1>9, <3>1, <3>2 DEF IInv, BusyInv
  <2> QED
    BY <2>1, <2>2
<1>12. FunctionInv'
  BY <1>1 DEF IInv, FunctionInv
<1> QED
  BY <1>5, <1>6, <1>7, <1>8, <1>10, <1>11, <1>12 DEF IInv

\* A change that ends: nothing but its task is affected, and if that is not in doubt it
\* is shown as it is stored, or a refresh is there or to come.
LEMMA EndStep ==
    ASSUME IInv, TypeOK', EditorInv', NEW i \in UnderWay, Over(i),
           \A u \in Tasks : u # request[i].task => shown'[u] = shown[u] /\ stored'[u] = stored[u],
           UNCHANGED <<refresh, snapshot, touched, screen, credential, unsure, fresh>>,
           QueueInv',
           request[i].task \in fresh => stored'[request[i].task] = "missing",
           credential /\ request[i].task \notin unsure
               => \/ shown'[request[i].task] = stored'[request[i].task]
                  \/ screen # "reader" \/ Refreshing
    PROVE  IInv'
<1>0. TypeOK
  BY DEF IInv
<1> PICK t \in Tasks : t = request[i].task
  BY <1>0, SlotFacts DEF UnderWay
<1>1. /\ \A j \in Requests : j # i => request'[j] = request[j]
      /\ UnderWay' = UnderWay \ {i} /\ request'[i] = Free
  BY <1>0, OverFacts DEF UnderWay
<1>2. \A j \in UnderWay : j \in Requests /\ request[j].task \in Tasks
  BY <1>0, SlotFacts DEF UnderWay
<1>3. \A j \in UnderWay' : /\ j \in UnderWay /\ request'[j] = request[j]
                           /\ request[j].task \notin unsure => request[j].task # t
  BY <1>1, <1>2 DEF IInv, OneInv
<1>4. FreshInv'
  <2> SUFFICES ASSUME NEW u \in fresh
               PROVE  /\ stored'[u] = "missing"
                      /\ \A j \in Requests : request'[j].task = u => request'[j].kind # "add"
    BY DEF FreshInv
  <2>1. u \in Tasks
    BY <1>0 DEF TypeOK
  <2>2. request'[i].kind # "add"
    BY <1>1 DEF Free
  <2> QED
    BY <1>1, <2>1, <2>2 DEF IInv, FreshInv
<1>5. TouchedInv'
  BY <1>3 DEF IInv, TouchedInv
<1>6. SnapshotInv'
  <2>1. \A r \in Refreshes : refresh[r] # "idle" => t \in touched[r]
    BY DEF IInv, TouchedInv
  <2> QED
    BY <2>1 DEF IInv, SnapshotInv
<1>7. OneInv'
  BY <1>3 DEF IInv, OneInv
<1>8. Refreshing' = Refreshing
  BY DEF Refreshing
<1>9. RestInv'
  <2> SUFFICES ASSUME credential, NEW u \in Tasks \ unsure, ~ Busy(u)'
               PROVE  shown'[u] = stored'[u] \/ screen # "reader" \/ Refreshing
    BY <1>8 DEF RestInv
  <2>1. CASE u = t
    BY <2>1
  <2>2. CASE u # t
    <3>1. \A j \in UnderWay' : request'[j].task # u
      BY DEF Busy, UnderWay
    <3>2. ~ Busy(u)
      BY <1>1, <1>3, <2>2, <3>1, BusyFacts
    <3> QED
      BY <2>2, <3>2 DEF IInv, RestInv
  <2> QED
    BY <2>1, <2>2
<1>10. BusyInv'
  <2> SUFFICES ASSUME credential, NEW j \in UnderWay', request'[j].task \notin unsure
               PROVE  OneApart(j)' \/ Refreshing
    BY <1>8 DEF BusyInv
  <2>1. /\ j \in UnderWay /\ request'[j] = request[j]
        /\ request[j].task \in Tasks /\ request[j].task # t /\ request[j].task \notin unsure
    BY <1>2, <1>3
  <2>2. OneApart(j) => OneApart(j)'
    BY <2>1 DEF OneApart
  <2> QED
    BY <2>1, <2>2 DEF IInv, BusyInv
<1>11. FunctionInv'
  BY <1>1 DEF IInv, FunctionInv, Free
<1> QED
  BY <1>4, <1>5, <1>6, <1>7, <1>9, <1>10, <1>11 DEF IInv

\* The failure of a request takes back what the screen had shown in advance.
LEMMA RejectedSettles ==
    ASSUME IInv, NEW i \in UnderWay, Rejected(i)
    PROVE  /\ \A u \in Tasks : u # request[i].task => shown'[u] = shown[u]
           /\ credential /\ request[i].task \notin unsure
                  => \/ shown'[request[i].task] = stored[request[i].task]
                     \/ screen # "reader" \/ Refreshing
<1>0. TypeOK /\ request[i].task \in Tasks /\ stored[request[i].task] \in States
  BY SlotFacts DEF IInv, TypeOK, UnderWay
<1>1. \A u \in Tasks : u # request[i].task => shown'[u] = shown[u]
  BY <1>0 DEF Rejected, TypeOK
<1>2. ASSUME OneApart(i)
      PROVE  shown'[request[i].task] = stored[request[i].task] \/ screen # "reader"
  <2>1. CASE request[i].kind = "toggle"
    <3>1. /\ shown[request[i].task] = Flip(stored[request[i].task])
          /\ shown' = [shown EXCEPT ![request[i].task] = Flip(@)]
      BY <1>2, <2>1 DEF OneApart, Rejected
    <3>2. shown'[request[i].task] = Flip(Flip(stored[request[i].task]))
      BY <1>0, <3>1 DEF TypeOK
    <3> QED
      BY <1>0, <3>2, FlipFacts
  <2>2. CASE request[i].kind = "add"
    BY <1>0, <1>2, <2>2 DEF OneApart, Rejected, TypeOK
  <2>3. CASE request[i].kind \notin {"toggle", "add"}
    BY <1>2, <2>3 DEF OneApart
  <2> QED
    BY <2>1, <2>2, <2>3
<1> QED
  BY <1>1, <1>2 DEF IInv, BusyInv

\* The success of a write stores what the screen had shown in advance.
LEMMA SavedSettles ==
    ASSUME IInv, NEW i \in UnderWay, Saved(i), credential, request[i].task \notin unsure,
           stored' = [stored EXCEPT ![request[i].task] = request[i].value]
    PROVE  \/ shown'[request[i].task] = stored'[request[i].task]
           \/ screen # "reader" \/ Refreshing
<1>0. TypeOK /\ request[i].task \in Tasks
  BY SlotFacts DEF IInv, UnderWay
<1>1. stored'[request[i].task] = request[i].value /\ shown' = shown
  BY <1>0 DEF Saved, TypeOK
<1>2. OneApart(i) => shown[request[i].task] = request[i].value \/ screen # "reader"
  BY DEF OneApart
<1> QED
  BY <1>1, <1>2 DEF IInv, BusyInv

\* Only what is shown in the cells, or nothing at all, changes.
LEMMA ScreenStep ==
    ASSUME IInv, TypeOK', EditorInv',
           UNCHANGED <<stored, shown, request, queue, refresh, snapshot, fresh, touched,
                       unsure, credential>>,
           screen' = screen \/ screen' # "reader"
    PROVE  IInv'
<1>1. UnderWay' = UnderWay /\ Refreshing' = Refreshing
  BY DEF UnderWay, Refreshing
<1>2. QueueInv' /\ FunctionInv' /\ FreshInv'
  BY DEF IInv, QueueInv, FunctionInv, FreshInv
<1>3. TouchedInv' /\ SnapshotInv' /\ OneInv'
  BY <1>1 DEF IInv, TouchedInv, SnapshotInv, OneInv
<1>4. RestInv'
  BY <1>1 DEF IInv, RestInv, Busy
<1>5. BusyInv'
  <2>1. \A i \in UnderWay : OneApart(i) => OneApart(i)'
    BY DEF OneApart
  <2> QED
    BY <1>1, <2>1 DEF IInv, BusyInv
<1> QED
  BY <1>2, <1>3, <1>4, <1>5 DEF IInv

\* A step after which a refresh is under way: what is shown is in no doubt any more.
LEMMA RefreshStep ==
    ASSUME IInv, TypeOK', EditorInv', Refreshing',
           QueueInv', FunctionInv', FreshInv', TouchedInv', SnapshotInv', OneInv'
    PROVE  IInv'
<1>1. RestInv' /\ BusyInv'
  BY DEF RestInv, BusyInv
<1> QED
  BY <1>1 DEF IInv

\* A refresh that begins beside the requests under way.
LEMMA BeginStep ==
    ASSUME IInv, TypeOK', EditorInv', NEW r \in Refreshes, Begin(r, UnderWay),
           UNCHANGED <<stored, shown, request, queue, snapshot, fresh, unsure>>
    PROVE  IInv'
<1>0. TypeOK
  BY DEF IInv
<1>1. UnderWay' = UnderWay
  BY DEF UnderWay
<1>2. /\ Refreshing'
      /\ \A s \in Refreshes : refresh'[s] = "deliver" => refresh[s] = "deliver"
      /\ \A s \in Refreshes : s # r => refresh'[s] = refresh[s] /\ touched'[s] = touched[s]
      /\ touched'[r] = {request[i].task : i \in UnderWay}
      /\ refresh'[r] = "getDocument"
  BY <1>0, BeginType DEF Begin, TypeOK
<1>3. QueueInv' /\ FunctionInv' /\ FreshInv'
  BY DEF IInv, QueueInv, FunctionInv, FreshInv
<1>4. TouchedInv'
  BY <1>1, <1>2 DEF IInv, TouchedInv
<1>5. SnapshotInv'
  BY <1>2 DEF IInv, SnapshotInv
<1>6. OneInv'
  BY <1>1 DEF IInv, OneInv
<1> QED
  BY <1>2, <1>3, <1>4, <1>5, <1>6, RefreshStep

\* What the user does keeps the invariant.
LEMMA UserStep == IInv /\ User => IInv'
<1> SUFFICES ASSUME IInv, User PROVE IInv'
  OBVIOUS
<1> USE DEF firestore, local, reads, navigation
<1>0. TypeOK /\ TypeOK' /\ EditorInv'
  BY UserType DEF IInv
<1>1. ASSUME NEW t \in Tasks, Tap(t) PROVE IInv'
  <2>1. Flip(cell[t]) \in States
    BY <1>0, FlipFacts DEF TypeOK
  <2>2. shown'[t] = Flip(cell[t]) /\ \A u \in Tasks : u # t => shown'[u] = shown[u]
    BY <1>0, <1>1 DEF Tap, TypeOK
  <2>3. CASE credential
    <3>1. PICK i \in Requests : Issue(i, "toggle", t, Flip(cell[t]), "reauthenticate",
                                     cell[t] = shown[t] /\ ~ Busy(t))
      BY <1>1, <2>3 DEF Tap
    <3>2. Issued(i, "toggle", t, Flip(cell[t]), "reauthenticate")
      BY <3>1, IssueIsIssued
    <3>3. t \notin unsure' => cell[t] = shown[t] /\ ~ Busy(t) /\ t \notin unsure
      BY <3>1 DEF Issue
    <3>4. /\ request'[i].kind = "toggle" /\ request'[i].task = t
          /\ request'[i].value = Flip(cell[t]) /\ request[i].step = "none"
          /\ \A j \in Requests : j # i => request'[j] = request[j]
      BY <1>0, <2>1, <3>2, IssueFacts DEF Kinds
    <3>5. QueueInv'
      BY <1>1, <3>4, QueueKeeps DEF Tap
    <3>6. credential /\ t \notin unsure' => OneApart(i)' \/ Refreshing
      <4> SUFFICES ASSUME t \notin unsure', ~ Refreshing PROVE OneApart(i)'
        BY <2>3
      <4>1. shown[t] = stored[t]
        BY <1>1, <2>3, <3>3 DEF IInv, RestInv, Tap, Attentive
      <4>2. stored'[t] # "missing" /\ shown'[t] = Flip(stored'[t])
        BY <1>1, <2>2, <3>3, <4>1 DEF Tap
      <4> QED
        BY <2>2, <3>4, <4>2 DEF OneApart
    <3>7. UNCHANGED <<stored, refresh, snapshot, screen, credential, fresh>>
      BY <1>1 DEF Tap
    <3> QED
      BY <1>0, <2>1, <2>2, <3>2, <3>3, <3>5, <3>6, <3>7, IssueStep DEF Kinds
  <2>4. CASE ~ credential
    <3>1. UNCHANGED <<stored, request, queue, refresh, snapshot, fresh, touched, unsure, credential>>
      BY <1>1, <2>4 DEF Tap
    <3>2. UnderWay' = UnderWay
      BY <3>1 DEF UnderWay
    <3>3. QueueInv' /\ FunctionInv' /\ FreshInv'
      BY <3>1 DEF IInv, QueueInv, FunctionInv, FreshInv
    <3>4. TouchedInv' /\ SnapshotInv' /\ OneInv'
      BY <3>1, <3>2 DEF IInv, TouchedInv, SnapshotInv, OneInv
    <3>5. RestInv' /\ BusyInv'
      BY <2>4, <3>1 DEF RestInv, BusyInv
    <3> QED
      BY <1>0, <3>3, <3>4, <3>5 DEF IInv
  <2> QED
    BY <2>3, <2>4
<1>2. ASSUME NEW t \in Tasks, OpenEditor(t) PROVE IInv'
  BY <1>0, <1>2, ScreenStep DEF OpenEditor
<1>3. CASE AddTask
  <2>1. PICK t \in fresh, i \in Requests :
            /\ fresh' = fresh \ {t}
            /\ shown' = [shown EXCEPT ![t] = "open"]
            /\ Issue(i, "add", t, "open", "write", ~ Busy(t))
            /\ queue' = Append(queue, i)
    BY <1>3 DEF AddTask
  <2>2. t \in Tasks /\ "open" \in States
    BY <1>0 DEF TypeOK, States
  <2>3. Issued(i, "add", t, "open", "write") /\ (Busy(t) => t \in unsure')
    BY <2>1, IssueIsIssued DEF Issue
  <2>4. /\ request'[i].kind = "add" /\ request'[i].task = t /\ request'[i].step = "write"
        /\ request'[i].value = "open" /\ request[i].step = "none"
        /\ \A j \in Requests : j # i => request'[j] = request[j]
    BY <1>0, <2>2, <2>3, IssueFacts DEF Kinds
  <2>5. QueueInv'
    BY <2>1, <2>4, QueueAppend
  <2>6. shown'[t] = "open" /\ \A u \in Tasks : u # t => shown'[u] = shown[u]
    BY <1>0, <2>1, <2>2 DEF TypeOK
  <2>7. UNCHANGED <<stored, refresh, snapshot, screen, credential>>
    BY <1>3 DEF AddTask
  <2>8. OneApart(i)'
    <3>1. stored'[t] = "missing"
      BY <2>7 DEF IInv, FreshInv
    <3> QED
      BY <2>4, <2>6, <3>1 DEF OneApart
  <2>9. fresh' \subseteq fresh /\ t \notin fresh'
    BY <2>1
  <2> QED
    BY <1>0, <2>2, <2>3, <2>5, <2>6, <2>7, <2>8, <2>9, IssueStep DEF Kinds
<1>4. CASE EditTask
  <2>1. edited \in Tasks /\ "open" \in States /\ screen = "editor"
    BY <1>4 DEF EditTask, Attentive, IInv, EditorInv, States
  <2>2. UNCHANGED <<stored, shown, queue, fresh, refresh, snapshot, screen, credential>>
    BY <1>4 DEF EditTask
  <2>3. CASE credential
    <3>1. PICK i \in Requests :
              Issue(i, "edit", edited, "open", "reauthenticate", ~ Busy(edited))
      BY <1>4, <2>3 DEF EditTask
    <3>2. /\ Issued(i, "edit", edited, "open", "reauthenticate")
          /\ Busy(edited) => edited \in unsure'
      BY <3>1, IssueIsIssued DEF Issue
    <3>3. /\ request'[i].kind = "edit" /\ request[i].step = "none"
          /\ \A j \in Requests : j # i => request'[j] = request[j]
      BY <1>0, <2>1, <3>2, IssueFacts DEF Kinds
    <3>4. QueueInv'
      BY <2>2, <3>3, QueueKeeps
    <3>5. OneApart(i)'
      BY <2>1, <2>2, <3>3 DEF OneApart
    <3> QED
      BY <1>0, <2>1, <2>2, <3>2, <3>4, <3>5, IssueStep DEF Kinds
  <2>4. CASE ~ credential
    BY <1>0, <1>4, <2>2, <2>4, ScreenStep DEF EditTask
  <2> QED
    BY <2>3, <2>4
<1>5. CASE DeleteTask
  <2>1. edited \in Tasks /\ "missing" \in States /\ screen = "editor"
    BY <1>5 DEF DeleteTask, Attentive, IInv, EditorInv, States
  <2>2. UNCHANGED <<stored, shown, queue, fresh, refresh, snapshot, screen, credential>>
    BY <1>5 DEF DeleteTask
  <2>3. PICK i \in Requests :
            Issue(i, "delete", edited, "missing", "function", ~ Busy(edited))
    BY <1>5 DEF DeleteTask
  <2>4. /\ Issued(i, "delete", edited, "missing", "function")
        /\ Busy(edited) => edited \in unsure'
    BY <2>3, IssueIsIssued DEF Issue
  <2>5. /\ request'[i].kind = "delete" /\ request[i].step = "none"
        /\ \A j \in Requests : j # i => request'[j] = request[j]
    BY <1>0, <2>1, <2>4, IssueFacts DEF Kinds
  <2>6. QueueInv'
    BY <2>2, <2>5, QueueKeeps
  <2>7. OneApart(i)'
    BY <2>1, <2>2, <2>5 DEF OneApart
  <2> QED
    BY <1>0, <2>1, <2>2, <2>4, <2>6, <2>7, IssueStep DEF Kinds
<1>6. CASE Back
  BY <1>0, <1>6, BeginStep DEF Back
<1>7. CASE ChildEnd
  BY <1>0, <1>7, BeginStep DEF ChildEnd
<1> QED
  BY <1>1, <1>2, <1>3, <1>4, <1>5, <1>6, <1>7 DEF User

\* What happens to a request keeps the invariant.
LEMMA RequestStep ==
    ASSUME IInv, TypeOK', EditorInv', NEW i \in Requests,
           Reauthenticate(i) \/ Write(i) \/ DeleteFn(i)
    PROVE  IInv'
<1> USE DEF firestore, local, reads, navigation
<1>0. TypeOK
  BY DEF IInv
<1>1. CASE Reauthenticate(i)
  <2>1. i \in UnderWay
    BY <1>0, <1>1, SlotFacts DEF Reauthenticate
  <2>2. UNCHANGED <<stored, refresh, snapshot, touched, screen, credential, unsure, fresh>>
    BY <1>1 DEF Reauthenticate
  <2>3. CASE Rejected(i) /\ UNCHANGED queue
    <3>1. Over(i) /\ \A j \in Requests : j # i => request'[j] = request[j]
      BY <1>0, <2>3, OverFacts DEF Rejected
    <3>2. QueueInv'
      BY <1>1, <2>3, <3>1, QueueKeeps DEF Reauthenticate
    <3>3. request[i].task \in fresh => stored[request[i].task] = "missing"
      BY DEF IInv, FreshInv
    <3> QED
      BY <2>1, <2>2, <2>3, <3>1, <3>2, <3>3, RejectedSettles, EndStep
  <2>4. CASE /\ request' = [request EXCEPT ![i].step = "write"]
             /\ queue' = Append(queue, i)
             /\ UNCHANGED <<shown, cell, loader>>
    <3>1. /\ request'[i].step = "write"
          /\ \A j \in Requests : j # i => request'[j] = request[j]
          /\ \A j \in Requests : /\ request'[j].kind = request[j].kind
                                 /\ request'[j].task = request[j].task
                                 /\ request'[j].value = request[j].value
      <4>1. request[i] \in InFlight
        BY <1>0, <2>1, SlotFacts
      <4>2. request'[i] = [request[i] EXCEPT !.step = "write"]
        BY <1>0, <2>4 DEF TypeOK
      <4>3. /\ request'[i].step = "write" /\ request'[i].kind = request[i].kind
            /\ request'[i].task = request[i].task /\ request'[i].value = request[i].value
        BY <4>1, <4>2 DEF InFlight
      <4>4. \A j \in Requests : j # i => request'[j] = request[j]
        BY <1>0, <2>4 DEF TypeOK
      <4> QED
        BY <4>3, <4>4
    <3>2. QueueInv'
      BY <1>1, <2>4, <3>1, QueueAppend DEF Reauthenticate
    <3>3. UnderWay' = UnderWay /\ Refreshing' = Refreshing /\ UnderWay \subseteq Requests
      BY <2>2, <3>1 DEF UnderWay, Refreshing
    <3>4. FunctionInv' /\ FreshInv'
      BY <2>2, <3>1 DEF IInv, FunctionInv, FreshInv
    <3>5. TouchedInv' /\ SnapshotInv' /\ OneInv'
      BY <2>2, <3>1, <3>3 DEF IInv, TouchedInv, SnapshotInv, OneInv
    <3>6. \A t \in Tasks : Busy(t)' <=> Busy(t)
      BY <3>1 DEF Busy
    <3>7. RestInv'
      BY <2>2, <2>4, <3>3, <3>6 DEF IInv, RestInv
    <3>8. \A j \in UnderWay : OneApart(j) => OneApart(j)'
      BY <2>2, <2>4, <3>1, <3>3 DEF OneApart
    <3>9. BusyInv'
      BY <2>2, <3>1, <3>3, <3>8 DEF IInv, BusyInv
    <3> QED
      BY <3>2, <3>4, <3>5, <3>7, <3>9 DEF IInv
  <2> QED
    BY <1>1, <2>3, <2>4 DEF Reauthenticate
<1>2. CASE Write(i)
  <2>1. queue # <<>> /\ queue' = Tail(queue) /\ i = Head(queue) /\ Over(i)
    BY <1>2 DEF Write, Saved, Rejected
  <2>2. \A j \in Requests : j # i => request'[j] = request[j]
    BY <1>0, <2>1, OverFacts
  <2>3. QueueInv' /\ i \in UnderWay
    BY <2>1, <2>2, QueueTail
  <2>4. UNCHANGED <<refresh, snapshot, touched, screen, credential, unsure, fresh>>
    BY <1>2 DEF Write
  <2>5. request[i].task \in fresh => /\ stored[request[i].task] = "missing"
                                     /\ request[i].kind # "add"
    BY DEF IInv, FreshInv
  <2>6. CASE Rejected(i) /\ UNCHANGED stored
    BY <2>1, <2>3, <2>4, <2>5, <2>6, RejectedSettles, EndStep
  <2>7. CASE /\ request[i].kind = "add" \/ stored[request[i].task] # "missing"
             /\ stored' = [stored EXCEPT ![request[i].task] = request[i].value]
             /\ Saved(i)
    <3>1. request[i].task \notin fresh
      BY <2>5, <2>7
    <3>2. \A u \in Tasks : u # request[i].task => shown'[u] = shown[u] /\ stored'[u] = stored[u]
      BY <1>0, <2>7 DEF Saved, TypeOK
    <3>3. credential /\ request[i].task \notin unsure
               => \/ shown'[request[i].task] = stored'[request[i].task]
                  \/ screen # "reader" \/ Refreshing
      BY <2>3, <2>7, SavedSettles
    <3> QED
      BY <2>1, <2>3, <2>4, <3>1, <3>2, <3>3, EndStep
  <2> QED
    BY <1>2, <2>6, <2>7 DEF Write
<1>3. CASE DeleteFn(i)
  <2>1. i \in UnderWay /\ request[i].kind = "delete" /\ request[i].step = "function"
    BY <1>0, <1>3, SlotFacts DEF DeleteFn, IInv, FunctionInv
  <2>2. UNCHANGED <<queue, fresh, snapshot, credential, unsure, shown>> /\ Over(i)
    <3>1. Saved(i) \/ Rejected(i)
      BY <1>3 DEF DeleteFn
    <3>2. shown' = shown /\ Over(i)
      BY <2>1, <3>1 DEF Saved, Rejected
    <3> QED
      BY <1>3, <3>2 DEF DeleteFn
  <2>3. /\ \A j \in Requests : j # i => request'[j] = request[j]
        /\ UnderWay' = UnderWay \ {i} /\ request'[i] = Free
    BY <1>0, <2>2, OverFacts
  <2>4. QueueInv'
    BY <2>1, <2>2, <2>3, QueueKeeps
  <2>5. /\ request[i].task \in Tasks
        /\ stored' \in {stored, [stored EXCEPT ![request[i].task] = "missing"]}
    BY <1>0, <1>3, <2>1, SlotFacts DEF DeleteFn
  <2>6. /\ \A u \in Tasks : u # request[i].task => stored'[u] = stored[u]
        /\ \A u \in Tasks : stored[u] = "missing" => stored'[u] = "missing"
    BY <1>0, <2>5 DEF TypeOK
  <2>7. CASE UNCHANGED <<screen, edited, refresh, touched>>
    <3>1. request[i].task \in fresh => stored'[request[i].task] = "missing"
      BY <2>5, <2>6 DEF IInv, FreshInv
    <3>2. credential /\ request[i].task \notin unsure => screen # "reader" \/ Refreshing
      BY <2>1 DEF IInv, BusyInv, OneApart
    <3> QED
      BY <2>1, <2>2, <2>4, <2>6, <2>7, <3>1, <3>2, EndStep
  <2>8. ASSUME NEW r \in Refreshes, Begin(r, UnderWay \ {i}) PROVE IInv'
    <3>1. UnderWay \ {i} \in SUBSET UnderWay
      OBVIOUS
    <3>2. /\ Refreshing'
          /\ \A s \in Refreshes : refresh'[s] = "deliver" => refresh[s] = "deliver"
          /\ \A s \in Refreshes : s # r => refresh'[s] = refresh[s] /\ touched'[s] = touched[s]
          /\ touched'[r] = {request[j].task : j \in UnderWay \ {i}}
          /\ refresh'[r] = "getDocument"
      <4> HIDE DEF firestore
      <4>1. refresh'[r] = "getDocument"
        BY <1>0, <2>8 DEF Begin, TypeOK
      <4> QED
        BY <1>0, <2>8, <3>1, <4>1, BeginType
    <3>3. \A j \in UnderWay' : j \in UnderWay /\ j # i /\ request'[j] = request[j]
      BY <2>3 DEF UnderWay
    <3>4. FunctionInv' /\ FreshInv'
      <4>1. Free.step # "function" /\ Free.kind # "add"
        BY DEF Free
      <4>2. FunctionInv'
        BY <2>3, <4>1 DEF IInv, FunctionInv
      <4>3. fresh \subseteq Tasks
        BY <1>0 DEF TypeOK
      <4>4. FreshInv'
        BY <2>2, <2>3, <2>6, <4>1, <4>3 DEF IInv, FreshInv
      <4> QED
        BY <4>2, <4>4
    <3>5. TouchedInv'
      <4> SUFFICES ASSUME NEW s \in Refreshes, refresh'[s] # "idle", NEW j \in UnderWay'
                   PROVE  request'[j].task \in touched'[s]
        BY DEF TouchedInv
      <4>1. CASE s = r
        BY <3>2, <3>3, <4>1
      <4>2. CASE s # r
        BY <3>2, <3>3, <4>2 DEF IInv, TouchedInv
      <4> QED
        BY <4>1, <4>2
    <3>6. SnapshotInv'
      <4> SUFFICES ASSUME NEW s \in Refreshes, refresh'[s] = "deliver",
                          NEW t \in Tasks \ touched'[s]
                   PROVE  snapshot'[s][t] = stored'[t]
        BY DEF SnapshotInv
      <4>1. s # r /\ refresh[s] = "deliver" /\ touched'[s] = touched[s]
        BY <3>2
      <4>2. t # request[i].task
        BY <2>1, <4>1 DEF IInv, TouchedInv
      <4> QED
        BY <2>2, <2>6, <4>1, <4>2 DEF IInv, SnapshotInv
    <3>7. OneInv'
      BY <2>2, <3>3 DEF IInv, OneInv
    <3> QED
      BY <2>4, <3>2, <3>4, <3>5, <3>6, <3>7, RefreshStep
  <2> QED
    BY <1>3, <2>7, <2>8 DEF DeleteFn
<1> QED
  BY <1>1, <1>2, <1>3

\* A refresh that failed leaves everything in doubt, and may start again.
LEMMA FailureStep ==
    ASSUME IInv, TypeOK', EditorInv', NEW r \in Refreshes, RefreshFailed(r),
           UNCHANGED <<stored, queue, request, fresh, credential>>
    PROVE  IInv'
<1>0. TypeOK
  BY DEF IInv
<1>1. UnderWay' = UnderWay /\ UnderWay \subseteq Requests /\ unsure' = Tasks
      /\ UNCHANGED <<shown, snapshot>>
  BY <1>0, FailureType DEF UnderWay
<1>2. \A i \in UnderWay : request[i].task \in Tasks
  BY <1>0, SlotFacts DEF UnderWay
<1>3. QueueInv' /\ FunctionInv' /\ FreshInv'
  BY DEF IInv, QueueInv, FunctionInv, FreshInv
<1>4. \/ /\ refresh' = [refresh EXCEPT ![r] = "getDocument"]
         /\ touched' = [touched EXCEPT ![r] = {request[i].task : i \in UnderWay}]
      \/ /\ refresh' = [refresh EXCEPT ![r] = "idle"]
         /\ touched' = [touched EXCEPT ![r] = {}]
  BY DEF RefreshFailed
<1>5. /\ \A s \in Refreshes : s # r => refresh'[s] = refresh[s] /\ touched'[s] = touched[s]
      /\ refresh'[r] # "deliver"
      /\ refresh'[r] # "idle" => touched'[r] = {request[i].task : i \in UnderWay}
  BY <1>0, <1>4 DEF TypeOK
<1>6. TouchedInv'
  BY <1>1, <1>5 DEF IInv, TouchedInv
<1>7. SnapshotInv'
  BY <1>1, <1>5 DEF IInv, SnapshotInv
<1>8. OneInv' /\ RestInv' /\ BusyInv'
  BY <1>1, <1>2 DEF OneInv, RestInv, BusyInv
<1> QED
  BY <1>3, <1>6, <1>7, <1>8 DEF IInv

\* What a refresh reads keeps the invariant: the tasks it delivers beside those it has
\* overlapped with are the ones that are stored.
LEMMA ReadStep ==
    ASSUME IInv, TypeOK', EditorInv', NEW r \in Refreshes,
           GetDocument(r) \/ GetTasks(r) \/ Deliver(r)
    PROVE  IInv'
<1> USE DEF firestore, local, reads, navigation
<1>0. TypeOK
  BY DEF IInv
<1>1. UNCHANGED <<stored, queue, request, fresh, credential>>
  BY DEF GetDocument, GetTasks, Deliver
<1>2. UnderWay' = UnderWay /\ UnderWay \subseteq Requests
  BY <1>1 DEF UnderWay
<1>3. QueueInv' /\ FunctionInv' /\ FreshInv'
  BY <1>1 DEF IInv, QueueInv, FunctionInv, FreshInv
<1>4. \A i \in UnderWay : request[i].task \in Tasks
  BY <1>0, SlotFacts DEF UnderWay
<1>5. CASE RefreshFailed(r)
  BY <1>1, <1>5, FailureStep
<1>6. CASE GetDocument(r) /\ ~ RefreshFailed(r)
  <2>1. /\ refresh[r] # "idle" /\ UNCHANGED <<snapshot, touched, unsure>>
        /\ refresh' = [refresh EXCEPT ![r] = "getTasks"]
    BY <1>6 DEF GetDocument
  <2>2. refresh'[r] = "getTasks" /\ \A s \in Refreshes : s # r => refresh'[s] = refresh[s]
    BY <1>0, <2>1 DEF TypeOK
  <2>3. TouchedInv' /\ SnapshotInv' /\ OneInv'
    BY <1>1, <1>2, <2>1, <2>2 DEF IInv, TouchedInv, SnapshotInv, OneInv
  <2> QED
    BY <1>3, <2>2, <2>3, RefreshStep DEF Refreshing
<1>7. CASE GetTasks(r) /\ ~ RefreshFailed(r)
  <2>1. /\ refresh[r] # "idle" /\ UNCHANGED <<touched, unsure>>
        /\ refresh' = [refresh EXCEPT ![r] = "deliver"]
        /\ snapshot' = [snapshot EXCEPT ![r] = [t \in Tasks |-> View(t)]]
    BY <1>7 DEF GetTasks
  <2>2. refresh'[r] = "deliver" /\ \A s \in Refreshes : s # r => refresh'[s] = refresh[s]
    BY <1>0, <2>1 DEF TypeOK
  <2>3. /\ \A t \in Tasks : snapshot'[r][t] = View(t)
        /\ \A s \in Refreshes : s # r => snapshot'[s] = snapshot[s]
    BY <1>0, <2>1 DEF TypeOK
  <2>4. \A t \in Tasks \ touched[r] : View(t) = stored[t]
    <3> SUFFICES ASSUME NEW t \in Tasks \ touched[r] PROVE View(t) = stored[t]
      OBVIOUS
    <3>1. \A i \in UnderWay : request[i].task # t
      BY <2>1 DEF IInv, TouchedInv
    <3> QED
      BY <3>1, ViewAtRest
  <2>5. TouchedInv' /\ OneInv'
    BY <1>1, <1>2, <2>1, <2>2 DEF IInv, TouchedInv, OneInv
  <2>6. SnapshotInv'
    <3> SUFFICES ASSUME NEW s \in Refreshes, refresh'[s] = "deliver",
                        NEW t \in Tasks \ touched[s]
                 PROVE  snapshot'[s][t] = stored[t]
      BY <1>1, <2>1 DEF SnapshotInv
    <3>1. CASE s = r
      BY <2>3, <2>4, <3>1
    <3>2. CASE s # r
      BY <2>2, <2>3, <3>2 DEF IInv, SnapshotInv
    <3> QED
      BY <3>1, <3>2
  <2> QED
    BY <1>3, <2>2, <2>5, <2>6, RefreshStep DEF Refreshing
<1>8. CASE Deliver(r)
  <2>1. /\ refresh[r] = "deliver" /\ refresh' = [refresh EXCEPT ![r] = "idle"]
        /\ shown' = snapshot[r] /\ unsure' = touched[r]
        /\ snapshot' = [snapshot EXCEPT ![r] = NoTasks]
        /\ touched' = [touched EXCEPT ![r] = {}]
    BY <1>8 DEF Deliver
  <2>2. /\ refresh'[r] = "idle"
        /\ \A s \in Refreshes : s # r => /\ refresh'[s] = refresh[s]
                                         /\ touched'[s] = touched[s]
                                         /\ snapshot'[s] = snapshot[s]
    BY <1>0, <2>1 DEF TypeOK
  <2>3. \A i \in UnderWay : request[i].task \in unsure'
    BY <2>1 DEF IInv, TouchedInv
  <2>4. \A t \in Tasks \ unsure' : shown'[t] = stored[t]
    BY <2>1 DEF IInv, SnapshotInv
  <2>5. TouchedInv'
    BY <1>1, <1>2, <2>2 DEF IInv, TouchedInv
  <2>6. SnapshotInv'
    BY <1>1, <2>2 DEF IInv, SnapshotInv
  <2>7. OneInv' /\ BusyInv'
    BY <1>1, <1>2, <2>3 DEF OneInv, BusyInv
  <2>8. RestInv'
    BY <1>1, <2>4 DEF RestInv
  <2> QED
    BY <1>3, <2>5, <2>6, <2>7, <2>8 DEF IInv
<1> QED
  BY <1>5, <1>6, <1>7, <1>8

-----------------------------------------------------------------------------

\* IInv holds in the first state.
LEMMA Initial == Init => IInv
<1> SUFFICES ASSUME Init PROVE IInv
  OBVIOUS
<1>1. PICK r \in Refreshes :
          refresh = [s \in Refreshes |-> IF s = r THEN "getDocument" ELSE "idle"]
  BY DEF Init
<1>2. NoTasks \in [Tasks -> States]
  BY DEF NoTasks, States
<1>3. queue \in Seq(Requests) /\ DOMAIN queue = {}
  BY EmptySeq, LenProperties DEF Init
<1>4. request \in [Requests -> InFlight \union {Free}] /\ \A i \in Requests : request[i] = Free
  BY DEF Init
<1>5. UnderWay = {}
  BY <1>4 DEF UnderWay, Free
<1>6. Refreshing
  BY <1>1 DEF Refreshing
<1>7. \A s \in Refreshes : refresh[s] # "deliver"
  BY <1>1
<1>8. TypeOK
  <2>1. refresh \in [Refreshes -> {"idle", "getDocument", "getTasks", "deliver"}]
    BY <1>1
  <2>2. credential \in BOOLEAN /\ loader \in BOOLEAN /\ observing \in BOOLEAN
    BY Zenon DEF Init
  <2>3. /\ stored \in [Tasks -> States] /\ shown \in [Tasks -> States]
        /\ cell \in [Tasks -> States]
    BY <1>2 DEF Init
  <2>4. /\ snapshot \in [Refreshes -> [Tasks -> States]]
        /\ touched \in [Refreshes -> SUBSET Tasks]
    BY <1>2 DEF Init
  <2>5. /\ fresh \in SUBSET Tasks /\ unsure \in SUBSET Tasks
        /\ screen \in {"reader", "editor", "left"} /\ edited \in Tasks \union {"none"}
    BY DEF Init
  <2> QED
    BY <1>3, <1>4, <2>1, <2>2, <2>3, <2>4, <2>5 DEF TypeOK
<1>9. EditorInv /\ QueueInv
  BY <1>3 DEF Init, EditorInv, QueueInv
<1>10. FunctionInv /\ FreshInv
  BY <1>4 DEF Init, FunctionInv, FreshInv, Free
<1>11. TouchedInv /\ SnapshotInv /\ OneInv
  BY <1>5, <1>7 DEF TouchedInv, SnapshotInv, OneInv
<1>12. RestInv /\ BusyInv
  BY <1>6 DEF RestInv, BusyInv
<1> QED
  BY <1>8, <1>9, <1>10, <1>11, <1>12 DEF IInv

\* Every step keeps IInv.
LEMMA Inductive == IInv /\ [Next]_vars => IInv'
<1> SUFFICES ASSUME IInv, [Next]_vars PROVE IInv'
  OBVIOUS
<1>1. CASE User
  BY <1>1, UserStep
<1>2. CASE Completion
  BY <1>2, CompletionsType, RequestStep, ReadStep DEF Completion
<1>3. CASE Reload
  <2>1. TypeOK' /\ EditorInv'
    BY <1>3 DEF Reload, firestore, reads, navigation, IInv, TypeOK, EditorInv
  <2> QED
    BY <1>3, <2>1, ScreenStep DEF Reload, firestore, reads, navigation
<1>4. CASE UNCHANGED vars
  <2>1. TypeOK' /\ EditorInv'
    BY <1>4 DEF vars, IInv, TypeOK, EditorInv
  <2> QED
    BY <1>4, <2>1, ScreenStep DEF vars
<1> QED
  BY <1>1, <1>2, <1>3, <1>4 DEF Next

\* IInv is an invariant of the reader.
LEMMA Invariance == Spec => []IInv
  BY Initial, Inductive, PTL DEF Spec

\* The screen, the requests, the queue and the refreshes keep their types, however
\* many requests and refreshes are in flight; the editor is always pushed with a task.
THEOREM TypeCorrect == Spec => []TypeOK
<1>1. IInv => TypeOK
  BY DEF IInv
<1> QED
  BY <1>1, Invariance, PTL

\* When nothing is under way, the reader shows every task as Firestore stores it,
\* unless a change of that task crossed another one or a refresh: for any number of
\* taps, additions, edits and deletions in flight, succeeding or failing in any order.
THEOREM SettledReaderHolds == Spec => []SettledReader
<1>1. IInv => SettledReader
  BY DEF IInv, RestInv, SettledReader, AtRest
<1> QED
  BY <1>1, Invariance, PTL

-----------------------------------------------------------------------------

\* A task that was deleted, or could not be added: it is not stored, its identifier is
\* used up and nobody is adding it.
Gone(t) ==
    /\ stored[t] = "missing"
    /\ t \notin fresh
    /\ \A i \in Requests : request[i].task = t => request[i].kind # "add"

\* What the user starts adds no task that is gone.
LEMMA UserKeepsGone ==
    ASSUME IInv, User, NEW t \in Tasks, Gone(t)
    PROVE  Gone(t)'
<1> USE DEF firestore, local, reads, navigation
<1>0. TypeOK
  BY DEF IInv
<1>1. CASE AddTask
  <2>1. PICK u \in fresh, j \in Requests :
            /\ fresh' = fresh \ {u}
            /\ request' = [request EXCEPT ![j] =
                              [kind |-> "add", task |-> u, value |-> "open", step |-> "write"]]
    BY <1>1 DEF AddTask, Issue
  <2>2. u # t
    BY DEF Gone
  <2>3. \A i \in Requests : request'[i].task = t => request'[i].kind # "add"
    BY <1>0, <2>1, <2>2 DEF Gone, TypeOK
  <2>4. stored' = stored
    BY <1>1 DEF AddTask
  <2> QED
    BY <2>1, <2>3, <2>4 DEF Gone
<1>2. CASE ~ AddTask
  <2>1. stored' = stored /\ fresh' = fresh
    BY <1>2 DEF User, Tap, OpenEditor, EditTask, DeleteTask, Back, ChildEnd
  <2>2. \A i \in Requests : request'[i] = request[i] \/ request'[i].kind # "add"
    <3>1. ASSUME NEW u \in Tasks, Tap(u)
          PROVE  \A i \in Requests : request'[i] = request[i] \/ request'[i].kind # "add"
      BY <1>0, <3>1 DEF Tap, Issue, TypeOK
    <3>2. CASE EditTask
      BY <1>0, <3>2 DEF EditTask, Issue, TypeOK
    <3>3. CASE DeleteTask
      BY <1>0, <3>3 DEF DeleteTask, Issue, TypeOK
    <3>4. CASE Back \/ ChildEnd \/ \E u \in Tasks : OpenEditor(u)
      BY <3>4 DEF OpenEditor, Back, ChildEnd
    <3> QED
      BY <1>2, <3>1, <3>2, <3>3, <3>4 DEF User
  <2>3. \A i \in Requests : request'[i].task = t => request'[i].kind # "add"
    BY <2>2 DEF Gone
  <2> QED
    BY <2>1, <2>3 DEF Gone
<1> QED
  BY <1>1, <1>2

\* Nor does what comes back: a save of a task that is gone is refused by Firestore.
LEMMA CompletionKeepsGone ==
    ASSUME IInv, NEW i \in Requests, Reauthenticate(i) \/ Write(i) \/ DeleteFn(i),
           NEW t \in Tasks, Gone(t)
    PROVE  Gone(t)'
<1>0. TypeOK
  BY DEF IInv
<1>1. fresh' = fresh
  BY DEF Reauthenticate, Write, DeleteFn
<1>2. request' = [request EXCEPT ![i] = Free] \/ request' = [request EXCEPT ![i].step = "write"]
  BY DEF Reauthenticate, Write, DeleteFn, Saved, Rejected, Over
<1>3. \A j \in Requests : request'[j].task = t => request'[j].kind # "add"
  BY <1>0, <1>2 DEF Gone, TypeOK, Free, InFlight
<1>4. stored'[t] = "missing"
  <2>1. CASE Reauthenticate(i)
    BY <2>1 DEF Reauthenticate, Gone
  <2>2. CASE Write(i)
    BY <1>0, <2>2 DEF Write, Gone, TypeOK
  <2>3. CASE DeleteFn(i)
    BY <1>0, <2>3 DEF DeleteFn, Gone, TypeOK
  <2> QED
    BY <2>1, <2>2, <2>3
<1> QED
  BY <1>1, <1>3, <1>4 DEF Gone

\* A task that is gone stays gone: no tap, edit or deletion that was issued before, waits
\* for its reauthentication or comes late brings a deleted task back.
THEOREM GoneTaskStays == Spec => [][\A t \in Tasks : Gone(t) => Gone(t)']_vars
<1>1. IInv /\ [Next]_vars => [\A t \in Tasks : Gone(t) => Gone(t)']_vars
  <2> SUFFICES ASSUME IInv, Next, NEW t \in Tasks, Gone(t)
               PROVE  Gone(t)'
    OBVIOUS
  <2>1. CASE User
    BY <2>1, UserKeepsGone
  <2>2. ASSUME NEW i \in Requests, Reauthenticate(i) \/ Write(i) \/ DeleteFn(i)
        PROVE  Gone(t)'
    BY <2>2, CompletionKeepsGone
  <2>3. ASSUME NEW r \in Refreshes, GetDocument(r) \/ GetTasks(r) \/ Deliver(r)
        PROVE  Gone(t)'
    BY <2>3 DEF GetDocument, GetTasks, Deliver, firestore, Gone
  <2>4. CASE Reload
    BY <2>4 DEF Reload, firestore, Gone
  <2> QED
    BY <2>1, <2>2, <2>3, <2>4 DEF Next, Completion
<1> QED
  BY <1>1, Invariance, PTL DEF Spec

-----------------------------------------------------------------------------

\* A request is only ended by its own failure, or by a success, which changes nothing
\* that is shown.
LEMMA EndOfRequest ==
    ASSUME IInv, Next, ~ Refreshing, NEW i \in UnderWay, request'[i] = Free
    PROVE  Rejected(i) \/ shown' = shown
<1>0. TypeOK /\ i \in Requests /\ request[i].kind # "free"
  BY DEF IInv, UnderWay
<1> USE DEF firestore, local, reads, navigation
<1>1. CASE User
  <2>1. ASSUME NEW j \in Requests, NEW k \in Kinds, NEW t, NEW v, NEW st, NEW clean,
               Issue(j, k, t, v, st, clean)
        PROVE  FALSE
    BY <1>0, <2>1 DEF Issue, TypeOK, Free, Kinds
  <2>2. request' = request
    BY <1>1, <2>1 DEF User, Tap, OpenEditor, AddTask, EditTask, DeleteTask, Back, ChildEnd, Kinds
  <2> QED
    BY <1>0, <2>2 DEF Free
<1>2. ASSUME NEW j \in Requests, Reauthenticate(j) \/ Write(j) \/ DeleteFn(j)
      PROVE  Rejected(i) \/ shown' = shown
  <2>1. \/ Rejected(j) \/ Saved(j)
        \/ request' = [request EXCEPT ![j].step = "write"]
    BY <1>2 DEF Reauthenticate, Write, DeleteFn
  <2>2. CASE request' = [request EXCEPT ![j].step = "write"]
    BY <1>0, <2>2 DEF TypeOK, Free, InFlight
  <2>3. CASE Saved(j)
    BY <2>3 DEF Saved
  <2>4. CASE Rejected(j)
    <3>1. j = i
      BY <1>0, <2>4 DEF Rejected, Over, TypeOK, Free
    <3> QED
      BY <2>4, <3>1
  <2> QED
    BY <2>1, <2>2, <2>3, <2>4
<1>3. ASSUME NEW r \in Refreshes, GetDocument(r) \/ GetTasks(r) \/ Deliver(r)
      PROVE  FALSE
  BY <1>3 DEF GetDocument, GetTasks, Deliver, Refreshing
<1>4. CASE Reload
  BY <1>4 DEF Reload
<1> QED
  BY <1>1, <1>2, <1>3, <1>4 DEF Next, Completion

\* A rollback, with no refresh under way, of a task that nothing else has crossed.
CleanRollback(i) ==
    /\ credential /\ ~ Refreshing
    /\ request[i].kind = "toggle" /\ request'[i] = Free
    /\ request[i].task \notin unsure
    /\ shown'[request[i].task] # shown[request[i].task]

\* "In case of failure while saving task statement it reverse task statement" holds where
\* nothing crossed the save: the rollback then shows what is stored.  (FailureReverses,
\* which asks it of every rollback, is violated.)
THEOREM CleanFailureReverses ==
    Spec => [][\A i \in Requests :
                  CleanRollback(i) => shown'[request[i].task] = stored[request[i].task]]_vars
<1>1. ASSUME IInv, Next, NEW i \in Requests, CleanRollback(i)
      PROVE  shown'[request[i].task] = stored[request[i].task]
  <2>1. i \in UnderWay
    BY <1>1 DEF CleanRollback, UnderWay
  <2>2. /\ TypeOK /\ request[i].task \in Tasks
        /\ stored[request[i].task] \in States
    BY <1>1, <2>1, SlotFacts DEF IInv, TypeOK
  <2>3. Rejected(i)
    BY <1>1, <2>1, EndOfRequest DEF CleanRollback
  <2>4. shown[request[i].task] = Flip(stored[request[i].task])
    BY <1>1, <2>1 DEF CleanRollback, IInv, BusyInv, OneApart
  <2>5. shown'[request[i].task] = Flip(shown[request[i].task])
    BY <1>1, <2>2, <2>3 DEF CleanRollback, Rejected, TypeOK
  <2> QED
    BY <2>2, <2>4, <2>5, FlipFacts
<1>2. IInv /\ [Next]_vars
         => [\A i \in Requests :
                CleanRollback(i) => shown'[request[i].task] = stored[request[i].task]]_vars
  BY <1>1
<1> QED
  BY <1>2, Invariance, PTL DEF Spec
=============================================================================
