---------------------------- MODULE ProjectReader ----------------------------
(***************************************************************************)
(* The screen that shows one project and its tasks, with the task editor   *)
(* it pushes: ProjectReaderPresenter, ProjectReaderViewController,         *)
(* TaskCreationPresenter (isReader = true) and the operations of           *)
(* ProjectSession on tasks.                                                *)
(*                                                                         *)
(* The screen shows a copy of the tasks.  A tap on a check mark changes    *)
(* the copy first and saves it in the background; when saving fails the    *)
(* copy is flipped back.  Each time the screen appears it reads the whole  *)
(* project again and replaces its copy.                                    *)
(*                                                                         *)
(* Of a task only its state counts: it is missing, open or done            *)
(* (isValidate).                                                           *)
(***************************************************************************)
EXTENDS Naturals, Sequences

CONSTANTS
    Tasks,        \* task identifiers (UUIDs)
    Requests,     \* slots: bounds the saves and deletions in flight
    Refreshes     \* slots: bounds the refreshes in flight

VARIABLES
    stored,       \* Firestore: the state of each task
    shown,        \* presenter.selectedProject.taskList
    cell,         \* the copy of its task that each visible cell holds
    request,      \* the saves and deletions under way
    queue,        \* Firestore's queue of local writes: slots in order of issue
    refresh,      \* per slot, the read a refresh waits for
    snapshot,     \* per slot, the tasks its query returned
    fresh,        \* task identifiers not drawn yet
    screen,       \* top of the navigation stack
    edited,       \* the task the editor was pushed with
    loader,       \* is the loader in front of the screen?
    observing,    \* is the reader observing the notification childEnd?
    credential,   \* does the keychain hold the password?
    touched,      \* history: per refresh, the tasks whose changes it has overlapped with
    unsure        \* history: tasks whose copy an overlap may have spoiled

vars == <<stored, shown, cell, request, queue, refresh, snapshot, fresh, screen,
          edited, loader, observing, credential, touched, unsure>>

firestore == <<stored, queue>>
local == <<shown, cell, fresh>>
reads == <<refresh, snapshot, touched>>
navigation == <<screen, edited, observing>>

States == {"missing", "open", "done"}

Kinds == {"toggle", "add", "edit", "delete"}

Free == [kind |-> "free", task |-> "none", value |-> "missing", step |-> "none"]

InFlight == [kind : Kinds, task : Tasks, value : States,
             step : {"reauthenticate", "write", "function"}]

TypeOK ==
    /\ stored \in [Tasks -> States]
    /\ shown \in [Tasks -> States]
    /\ cell \in [Tasks -> States]
    /\ request \in [Requests -> InFlight \union {Free}]
    /\ queue \in Seq(Requests)
    /\ refresh \in [Refreshes -> {"idle", "getDocument", "getTasks", "deliver"}]
    /\ snapshot \in [Refreshes -> [Tasks -> States]]
    /\ fresh \in SUBSET Tasks
    /\ screen \in {"reader", "editor", "left"}
    /\ edited \in Tasks \union {"none"}
    /\ loader \in BOOLEAN
    /\ observing \in BOOLEAN
    /\ credential \in BOOLEAN
    /\ touched \in [Refreshes -> SUBSET Tasks]
    /\ unsure \in SUBSET Tasks

Busy(t) == \E i \in Requests : request[i].kind # "free" /\ request[i].task = t

Refreshing == \E r \in Refreshes : refresh[r] # "idle"

NoTasks == [t \in Tasks |-> "missing"]

(***************************************************************************)
(* The dashboard hands over the project it fetched; its list of tasks is   *)
(* empty when fetching the tasks failed.  viewWillAppear starts a refresh. *)
(* A password is in the keychain only if the account was created on this   *)
(* device: signing in does not store it.                                   *)
(***************************************************************************)
Init ==
    /\ stored \in [Tasks -> States]
    /\ shown \in {stored, NoTasks}
    /\ cell = shown
    /\ request = [i \in Requests |-> Free]
    /\ queue = <<>>
    /\ \E r \in Refreshes :
           refresh = [s \in Refreshes |-> IF s = r THEN "getDocument" ELSE "idle"]
    /\ snapshot = [r \in Refreshes |-> NoTasks]
    /\ fresh = {t \in Tasks : stored[t] = "missing"}
    /\ screen = "reader"
    /\ edited = "none"
    /\ loader = FALSE
    /\ observing = TRUE
    /\ credential \in BOOLEAN
    /\ touched = [r \in Refreshes |-> {}]
    /\ unsure = Tasks

-----------------------------------------------------------------------------
(***************************************************************************)
(* Starting a request or a refresh.                                        *)
(***************************************************************************)

\* Every refresh under way has overlapped with a change of the tasks in X.
Touch(X) ==
    [r \in Refreshes |-> IF refresh[r] = "idle" THEN touched[r] ELSE touched[r] \union X]

\* clean: t is at rest and its cell up to date, so that no other change is crossed.
Issue(i, k, t, v, s, clean) ==
    /\ request[i].kind = "free"
    /\ request' = [request EXCEPT ![i] = [kind |-> k, task |-> t, value |-> v, step |-> s]]
    /\ touched' = Touch({t})
    /\ unsure' = IF clean THEN unsure ELSE unsure \union {t}

\* refreshCurrentProject, while the requests in R are under way.
Begin(r, R) ==
    /\ refresh[r] = "idle"
    /\ refresh' = [refresh EXCEPT ![r] = "getDocument"]
    /\ touched' = [touched EXCEPT ![r] = {request[i].task : i \in R}]

UnderWay == {i \in Requests : request[i].kind # "free"}

Flip(v) == IF v = "open" THEN "done" ELSE IF v = "done" THEN "open" ELSE "missing"

-----------------------------------------------------------------------------
(***************************************************************************)
(* What the user does.                                                     *)
(***************************************************************************)

Attentive(sc) == screen = sc /\ ~ loader

\* tapCheckMarkButton: validateTask negates the state in the cell's own copy, then
\* updateTask saves the task.  Without a password updateValidateStatement returns
\* early and calls no completion.
Tap(t) ==
    /\ Attentive("reader")
    /\ cell[t] # "missing" /\ shown[t] # "missing"
    /\ shown' = [shown EXCEPT ![t] = Flip(cell[t])]
    /\ IF credential
       THEN \E i \in Requests :
                Issue(i, "toggle", t, Flip(cell[t]), "reauthenticate",
                      cell[t] = shown[t] /\ ~ Busy(t))
       ELSE UNCHANGED <<request, touched, unsure>>
    /\ UNCHANGED <<firestore, cell, fresh, refresh, snapshot, navigation, loader, credential>>

\* addTask: the task is shown at once; registerUserTask issues setData.
AddTask ==
    /\ Attentive("reader")
    /\ \E t \in fresh, i \in Requests :
           /\ fresh' = fresh \ {t}
           /\ shown' = [shown EXCEPT ![t] = "open"]
           /\ Issue(i, "add", t, "open", "write", ~ Busy(t))
           /\ queue' = Append(queue, i)
    /\ loader' = TRUE
    /\ UNCHANGED <<stored, cell, refresh, snapshot, navigation, credential>>

\* Fault: the editor is pushed without its task.
OpenEditorEmpty(t) ==
    /\ Attentive("reader")
    /\ shown[t] # "missing"
    /\ screen' = "editor"
    /\ observing' = FALSE
    /\ UNCHANGED <<edited, firestore, local, request, reads, loader, credential, unsure>>

\* didSelectRowAt; the reader stops observing when it disappears.
OpenEditor(t) ==
    /\ Attentive("reader")
    /\ shown[t] # "missing"
    /\ screen' = "editor"
    /\ edited' = t
    /\ observing' = FALSE
    /\ UNCHANGED <<firestore, local, request, reads, loader, credential, unsure>>

\* editTask: the new task is built without isValidate, which is written as false.
\* Without a password updateTask returns early and the loader stays.
EditTask ==
    /\ Attentive("editor")
    /\ loader' = TRUE
    /\ IF credential
       THEN \E i \in Requests :
                Issue(i, "edit", edited, "open", "reauthenticate", ~ Busy(edited))
       ELSE UNCHANGED <<request, touched, unsure>>
    /\ UNCHANGED <<firestore, local, refresh, snapshot, navigation, credential>>

\* deleteTask calls the cloud function.
DeleteTask ==
    /\ Attentive("editor")
    /\ loader' = TRUE
    /\ \E i \in Requests : Issue(i, "delete", edited, "missing", "function", ~ Busy(edited))
    /\ UNCHANGED <<firestore, local, refresh, snapshot, navigation, credential>>

\* The editor is popped: viewWillAppear of the reader refreshes.
Back ==
    /\ Attentive("editor")
    /\ screen' = "reader"
    /\ edited' = "none"
    /\ \E r \in Refreshes : Begin(r, UnderWay)
    /\ UNCHANGED <<firestore, local, request, snapshot, observing, loader,
                   credential, unsure>>

\* The update sheet disappears and posts childEnd (notifyParent); without an observer
\* nothing happens.
ChildEnd ==
    /\ Attentive("reader")
    /\ observing
    /\ \E r \in Refreshes : Begin(r, UnderWay)
    /\ UNCHANGED <<firestore, local, request, snapshot, navigation, loader, credential,
                   unsure>>

-----------------------------------------------------------------------------
(***************************************************************************)
(* The completions of saves and deletions.                                 *)
(***************************************************************************)

Over(i) == request' = [request EXCEPT ![i] = Free]

\* The loader is dismissed, unless the request had none.
Dismiss(i) == loader' = (loader /\ request[i].kind = "toggle")

\* Fault: the completion of a success leaves the loader in place.
SavedForgets(i) ==
    /\ Over(i)
    /\ cell' = IF request[i].kind = "toggle" THEN shown ELSE cell
    /\ UNCHANGED <<shown, loader>>

\* completion(nil); updateValidateStatementComplete reloads the table.
Saved(i) ==
    /\ Over(i)
    /\ Dismiss(i)
    /\ cell' = IF request[i].kind = "toggle" THEN shown ELSE cell
    /\ UNCHANGED shown

\* Fault: a save that failed is not taken back.
RejectedKeeps(i) ==
    /\ Over(i)
    /\ Dismiss(i)
    /\ UNCHANGED <<shown, cell>>

\* completion(error): unvalidateTask flips what is shown by now, and
\* removeTaskFromLocalData drops the task that could not be added.
Rejected(i) ==
    LET t == request[i].task IN
    /\ Over(i)
    /\ Dismiss(i)
    /\ shown' = CASE request[i].kind = "toggle" -> [shown EXCEPT ![t] = Flip(@)]
                  [] request[i].kind = "add"    -> [shown EXCEPT ![t] = "missing"]
                  [] OTHER                      -> shown
    /\ UNCHANGED cell

\* currentUser.reauthenticate, then updateData is issued with the value of the tap.
Reauthenticate(i) ==
    /\ request[i].step = "reauthenticate"
    /\ \/ /\ request' = [request EXCEPT ![i].step = "write"]
          /\ queue' = Append(queue, i)
          /\ UNCHANGED <<shown, cell, loader>>
       \/ Rejected(i) /\ UNCHANGED queue
    /\ UNCHANGED <<stored, fresh, reads, navigation, credential, unsure>>

\* Firestore carries out local writes in their order; updateData needs a document.
Write(i) ==
    LET t == request[i].task IN
    /\ queue # <<>> /\ i = Head(queue)
    /\ queue' = Tail(queue)
    /\ \/ /\ request[i].kind = "add" \/ stored[t] # "missing"
          /\ stored' = [stored EXCEPT ![t] = request[i].value]
          /\ Saved(i)
       \/ Rejected(i) /\ UNCHANGED stored
    /\ UNCHANGED <<fresh, reads, navigation, credential, unsure>>

\* The cloud function of deleteUserTask; its answer may be lost.  deleteTaskComplete
\* pops the editor, and the reader refreshes.
DeleteFn(i) ==
    /\ request[i].step = "function"
    /\ \/ /\ stored' = [stored EXCEPT ![request[i].task] = "missing"]
          /\ Saved(i)
          /\ screen' = "reader"
          /\ edited' = "none"
          /\ \E r \in Refreshes : Begin(r, UnderWay \ {i})
       \/ /\ stored' \in {stored, [stored EXCEPT ![request[i].task] = "missing"]}
          /\ Rejected(i)
          /\ UNCHANGED <<screen, edited, refresh, touched>>
    /\ UNCHANGED <<queue, fresh, snapshot, observing, credential, unsure>>

-----------------------------------------------------------------------------
(***************************************************************************)
(* The steps of a refresh.                                                 *)
(***************************************************************************)

\* alertThatNeedPop pops the top of the stack; a loader keeps it from showing.
RefreshFailed(r) ==
    /\ unsure' = unsure \union Tasks
    /\ CASE screen = "editor" /\ ~ loader ->
                 /\ screen' = "reader"
                 /\ edited' = "none"
                 /\ refresh' = [refresh EXCEPT ![r] = "getDocument"]
                 /\ touched' = [touched EXCEPT ![r] = {request[i].task : i \in UnderWay}]
         [] OTHER ->
                 /\ screen' = IF loader THEN screen ELSE "left"
                 /\ UNCHANGED edited
                 /\ refresh' = [refresh EXCEPT ![r] = "idle"]
                 /\ touched' = [touched EXCEPT ![r] = {}]
    /\ UNCHANGED <<shown, cell, snapshot>>

GetDocument(r) ==
    /\ refresh[r] = "getDocument"
    /\ \/ /\ refresh' = [refresh EXCEPT ![r] = "getTasks"]
          /\ UNCHANGED <<shown, cell, snapshot, screen, edited, touched, unsure>>
       \/ RefreshFailed(r)
    /\ UNCHANGED <<firestore, request, fresh, observing, loader, credential>>

\* A query sees the local writes that are still queued on top of what is stored.
View(t) ==
    LET W == {k \in DOMAIN queue : request[queue[k]].task = t}
        last == CHOOSE k \in W : \A l \in W : l <= k
    IN  IF W = {} \/ (stored[t] = "missing" /\ request[queue[last]].kind # "add")
        THEN stored[t] ELSE request[queue[last]].value

GetTasks(r) ==
    /\ refresh[r] = "getTasks"
    /\ \/ /\ snapshot' = [snapshot EXCEPT ![r] = [t \in Tasks |-> View(t)]]
          /\ refresh' = [refresh EXCEPT ![r] = "deliver"]
          /\ UNCHANGED <<shown, cell, screen, edited, touched, unsure>>
       \/ RefreshFailed(r)
    /\ UNCHANGED <<firestore, request, fresh, observing, loader, credential>>

\* selectedProject = project, and the table is reloaded.
Deliver(r) ==
    /\ refresh[r] = "deliver"
    /\ refresh' = [refresh EXCEPT ![r] = "idle"]
    /\ shown' = snapshot[r]
    /\ cell' = snapshot[r]
    /\ snapshot' = [snapshot EXCEPT ![r] = NoTasks]
    /\ unsure' = touched[r]
    /\ touched' = [touched EXCEPT ![r] = {}]
    /\ UNCHANGED <<firestore, request, fresh, navigation, loader, credential>>

\* The reloadData that DispatchQueue.main.async has queued.
Reload ==
    /\ cell # shown
    /\ cell' = shown
    /\ UNCHANGED <<firestore, request, shown, fresh, reads, navigation, loader,
                   credential, unsure>>

-----------------------------------------------------------------------------

User ==
    \/ \E t \in Tasks : Tap(t) \/ OpenEditor(t)
    \/ AddTask
    \/ EditTask
    \/ DeleteTask
    \/ Back
    \/ ChildEnd

Completion ==
    \/ \E i \in Requests : Reauthenticate(i) \/ Write(i) \/ DeleteFn(i)
    \/ \E r \in Refreshes : GetDocument(r) \/ GetTasks(r) \/ Deliver(r)

Next == User \/ Completion \/ Reload

Spec == Init /\ [][Next]_vars

\* The SDKs complete every call once the device is connected; the user owes nothing.
FairSpec ==
    /\ Spec
    /\ \A i \in Requests : WF_vars(Reauthenticate(i)) /\ WF_vars(Write(i)) /\ WF_vars(DeleteFn(i))
    /\ \A r \in Refreshes : WF_vars(GetDocument(r)) /\ WF_vars(GetTasks(r)) /\ WF_vars(Deliver(r))
    /\ WF_vars(Reload)

-----------------------------------------------------------------------------
(***************************************************************************)
(* Properties.                                                             *)
(***************************************************************************)

AtRest(t) == credential /\ screen = "reader" /\ ~ Refreshing /\ ~ Busy(t)

\* When nothing is under way, the screen shows every task as it is stored, unless
\* changes to that task crossed each other or a refresh since the last refresh
\* that crossed none.  Taps that succeed or are rolled back, tasks added, edited or
\* deleted and refreshes that fail all keep this.
SettledReader == \A t \in Tasks \ unsure : AtRest(t) => shown[t] = stored[t]

\* On a device that holds the password, the loader of a task being added, edited
\* or deleted goes away: every path to an answer dismisses it.
LoaderEnds == credential /\ loader ~> ~ loader

\* "In case of failure while saving task statement it reverse task statement": a
\* rollback gives the task back the state that is stored.
FailureReverses ==
    [][\A i \in Requests :
          LET t == request[i].task IN
          request[i].kind = "toggle" /\ request'[i] = Free /\ shown'[t] # shown[t]
              => shown'[t] = stored[t]]_vars
=============================================================================
