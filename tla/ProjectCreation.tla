--------------------------- MODULE ProjectCreation ---------------------------
(***************************************************************************)
(* The project creation screen: the local list of tasks, the task editor   *)
(* that works on it, and Finish, which registers the project and then its  *)
(* tasks.  The registration of the project is one call here (its steps are *)
(* the first chain of ProjectSession).  registerUserTask issues one        *)
(* setData per task, and each of them hands the screen a completion of its *)
(* own: it dismisses what is presented and, once that is gone, pops the    *)
(* screen or presents an alert.  The first pop may come before the others. *)
(*                                                                         *)
(* One creation screen is modelled, from its push to what comes back to it *)
(* after it was left, together with a screen that is opened later.         *)
(***************************************************************************)
EXTENDS Naturals, Sequences

CONSTANTS
    Tasks,        \* task identifiers (UUIDs)
    Projects,     \* project identifiers (UUIDs)
    None          \* no project

ASSUME NoneAssumption == None \notin Projects

VARIABLES
    localTasksList,  \* the presenter's list
    editing,         \* row of the list that is open in the task editor
    project,         \* the presenter's project: the last one it made, or None
    registering,     \* is registerProject under way?
    pending,         \* tasks whose setData is under way
    documents,       \* Firestore: the projects that are stored
    stored,          \* Firestore: the tasks below each project
    top,             \* the screen on top of the navigation stack
    attached,        \* has the creation screen a navigationController?
    presented,       \* what the navigation controller presents
    blocks,          \* blocks of registerTaskComplete in the main queue
    closing,         \* what the dismissals under way do when they are over
    failed,          \* history: projects a task of which could not be stored
    told,            \* history: did the user see that a task was not stored?
    killed           \* history: was the app killed?

vars == <<localTasksList, editing, project, registering, pending, documents,
          stored, top, attached, presented, blocks, closing, failed, told, killed>>

fields == <<localTasksList, editing>>
chain == <<project, registering, pending>>
store == <<documents, stored>>
window == <<top, attached, presented, blocks, closing>>
history == <<failed, told, killed>>

\* All of a task but its identifier, its project and its title, which the editor keeps:
\* as AddTask has made them, or as they were saved in the editor.
Details == {"default", "edited"}

TaskObjects == [taskID : Tasks, details : Details]

TypeOK ==
    /\ localTasksList \in Seq(TaskObjects)
    /\ editing \in Nat
    /\ project \in Projects \union {None}
    /\ registering \in BOOLEAN
    /\ pending \in SUBSET TaskObjects
    /\ documents \in SUBSET Projects
    /\ stored \in [Projects -> SUBSET TaskObjects]
    /\ top \in {"creation", "editor", "tabBar", "other"}
    /\ attached \in BOOLEAN
    /\ presented \in {"none", "loader", "alert", "needPop", "foreign"}
    /\ blocks \in Nat
    /\ closing \in Seq({"pop", "alert", "needPop"})
    /\ failed \in SUBSET Projects
    /\ told \in BOOLEAN
    /\ killed \in BOOLEAN

\* projectCreation pushes the screen with an empty list.  The cover is the picture of the
\* storyboard until the user picks another: Finish always finds one.
Init ==
    /\ localTasksList = <<>>
    /\ editing = 0
    /\ project = None
    /\ registering = FALSE
    /\ pending = {}
    /\ documents = {}
    /\ stored = [p \in Projects |-> {}]
    /\ top = "creation"
    /\ attached = TRUE
    /\ presented = "none"
    /\ blocks = 0
    /\ closing = <<>>
    /\ failed = {}
    /\ told = FALSE
    /\ killed = FALSE

Listed == {localTasksList[k] : k \in DOMAIN localTasksList}

\* A screen takes input when nothing covers it and no transition is under way.
Input(sc) == top = sc /\ presented = "none" /\ closing = <<>>

-----------------------------------------------------------------------------
(***************************************************************************)
(* Presenting, dismissing and popping.                                     *)
(***************************************************************************)

\* Fault: the coordinator's navigation controller, which never goes away.
NavigationControllerOfApp == TRUE

\* self.navigationController is nil once the screen was popped.
NavigationController == attached

\* popViewController; it leaves the root of the stack alone.
PopViewController ==
    top' = IF top = "editor" THEN "creation" ELSE "tabBar"

\* dismiss, with what its completion is to do.  When nothing is presented UIKit may
\* call the completion or not.
Dismiss(then) ==
    IF NavigationController
    THEN /\ presented' = "none"
         /\ \/ closing' = Append(closing, then)
            \/ presented = "none" /\ UNCHANGED closing
    ELSE UNCHANGED <<presented, closing>>

\* The completion of a dismissal: popViewController, presentSimpleAlert or
\* alertThatNeedPop.  UIKit does not present over what is presented already.
Dismissed ==
    /\ closing # <<>>
    /\ closing' = Tail(closing)
    /\ CASE ~ NavigationController -> UNCHANGED <<top, presented>>
         [] NavigationController /\ Head(closing) = "pop" ->
                PopViewController /\ UNCHANGED presented
         [] NavigationController /\ Head(closing) # "pop" ->
                /\ presented' = IF presented = "none" THEN Head(closing) ELSE presented
                /\ UNCHANGED top
    /\ UNCHANGED <<fields, chain, store, attached, blocks, history>>

\* The transition that takes the popped screen off is over.
Detached ==
    /\ attached /\ top \in {"tabBar", "other"}
    /\ attached' = FALSE
    /\ UNCHANGED <<fields, chain, store, top, presented, blocks, closing, history>>

\* The Ok of an alert; that of alertThatNeedPop pops.
Ok ==
    /\ presented \in {"alert", "needPop"}
    /\ presented' = "none"
    /\ told' = (told \/ presented = "needPop")
    /\ IF presented = "needPop" /\ NavigationController THEN PopViewController ELSE UNCHANGED top
    /\ UNCHANGED <<fields, chain, store, attached, blocks, closing, failed, killed>>

-----------------------------------------------------------------------------
(***************************************************************************)
(* The local list of tasks.                                                *)
(***************************************************************************)

\* Fault: the task is made with the identifier that was passed, which is nil.
AddTaskWithoutID(title) ==
    /\ Input("creation")
    /\ title # "blank"
    /\ localTasksList' = Append(localTasksList, [taskID |-> None, details |-> "default"])
    /\ UNCHANGED <<editing, chain, store, window, history>>

\* addTask: checkTaskTitle refuses a title that is blank; updateProject appends a new
\* task with an identifier of its own.
AddTask(title) ==
    /\ Input("creation")
    /\ title # "blank"
    /\ \E t \in Tasks :
          /\ \A object \in Listed : object.taskID # t
          /\ localTasksList' = Append(localTasksList, [taskID |-> t, details |-> "default"])
    /\ UNCHANGED <<editing, chain, store, window, history>>

\* didSelectRowAt: the coordinator pushes the task editor, in its local mode.
SelectRow ==
    /\ Input("creation")
    /\ editing' \in DOMAIN localTasksList
    /\ top' = "editor"
    /\ UNCHANGED <<localTasksList, chain, store, attached, presented, blocks, closing, history>>

\* updateLocalTask replaces the task that has the same identifier.
UpdateLocalTask(task) ==
    localTasksList' = [k \in DOMAIN localTasksList |->
        IF localTasksList[k].taskID = task.taskID THEN task ELSE localTasksList[k]]

\* saveTask of the editor: a new task with the identifier and the title of the old one,
\* whatever was typed for the title, and with the other fields as they are shown.
SaveTask ==
    /\ Input("editor")
    /\ UpdateLocalTask([taskID |-> localTasksList[editing].taskID, details |-> "edited"])
    /\ PopViewController
    /\ UNCHANGED <<editing, chain, store, attached, presented, blocks, closing, history>>

\* The back button, of the editor or of the creation screen.
Back ==
    /\ Input("creation") \/ Input("editor")
    /\ PopViewController
    /\ UNCHANGED <<fields, chain, store, attached, presented, blocks, closing, history>>

-----------------------------------------------------------------------------
(***************************************************************************)
(* Registering the project, then its tasks.                                *)
(***************************************************************************)

\* Fault: the tasks are stored along with the project.
FinishButtonAtOnce(title) ==
    /\ Input("creation")
    /\ presented' = "loader"
    /\ \E p \in Projects \ documents : p # project /\ project' = p
    /\ registering' = TRUE
    /\ pending' = Listed
    /\ UNCHANGED <<fields, store, top, attached, blocks, closing, history>>

\* finishButton: the loader, then registerProject, which makes a project with a new
\* identifier.  Without a title it fails at once, and registerProjectComplete dismisses
\* the loader in the turn that has presented it: nothing is seen of it but the alert
\* that follows.
FinishButton(title) ==
    /\ Input("creation")
    /\ \/ /\ title = "blank"
          /\ closing' = Append(closing, "alert")
          /\ UNCHANGED <<chain, presented>>
       \/ /\ title # "blank"
          /\ presented' = "loader"
          /\ \E p \in Projects \ documents : p # project /\ project' = p
          /\ registering' = TRUE
          /\ UNCHANGED <<pending, closing>>
    /\ UNCHANGED <<fields, store, top, attached, blocks, history>>

\* Fault: only the first task is handed to the service.
RegisterTaskFirst == pending' = {localTasksList[k] : k \in DOMAIN localTasksList \cap {1}}

\* registerUserTask: one setData per task of the presenter's list.
RegisterTask == pending' = Listed

\* Fault: registerTask is called for an empty list too, and calls nothing.
RegisterProjectCompleteEmpty ==
    /\ registering
    /\ registering' = FALSE
    /\ \/ /\ documents' = documents \union {project}
          /\ RegisterTask
          /\ UNCHANGED <<presented, closing>>
       \/ Dismiss("alert") /\ UNCHANGED <<documents, pending>>
    /\ UNCHANGED <<fields, project, stored, top, attached, blocks, history>>

\* registerProjectComplete: the tasks if there are any, else the screen is left; an
\* alert on failure.
RegisterProjectComplete ==
    /\ registering
    /\ registering' = FALSE
    /\ \/ /\ documents' = documents \union {project}
          /\ IF localTasksList # <<>>
             THEN RegisterTask /\ UNCHANGED <<presented, closing>>
             ELSE Dismiss("pop") /\ UNCHANGED pending
       \/ Dismiss("alert") /\ UNCHANGED <<documents, pending>>
    /\ UNCHANGED <<fields, project, stored, top, attached, blocks, history>>

\* registerTaskComplete on success: a block in the main queue.
TaskStored(t) ==
    /\ t \in pending
    /\ pending' = pending \ {t}
    /\ stored' = [stored EXCEPT ![project] = @ \union {t}]
    /\ blocks' = blocks + 1
    /\ UNCHANGED <<fields, project, registering, documents, top, attached, presented,
                   closing, history>>

\* The block dismisses what is presented; the screen is popped after that.
Block ==
    /\ blocks > 0
    /\ blocks' = blocks - 1
    /\ Dismiss("pop")
    /\ UNCHANGED <<fields, chain, store, top, attached, history>>

\* Fault: an alert whose Ok does not leave the screen.
TaskFailedStays(t) ==
    /\ t \in pending
    /\ pending' = pending \ {t}
    /\ failed' = failed \union {project}
    /\ Dismiss("alert")
    /\ UNCHANGED <<fields, project, registering, store, top, attached, blocks, told, killed>>

\* Fault: the screen is left without a word.
TaskFailedPops(t) ==
    /\ t \in pending
    /\ pending' = pending \ {t}
    /\ failed' = failed \union {project}
    /\ Dismiss("pop")
    /\ UNCHANGED <<fields, project, registering, store, top, attached, blocks, told, killed>>

\* registerTaskComplete on failure: an alert that leaves the screen.
TaskFailed(t) ==
    /\ t \in pending
    /\ pending' = pending \ {t}
    /\ failed' = failed \union {project}
    /\ Dismiss("needPop")
    /\ UNCHANGED <<fields, project, registering, store, top, attached, blocks, told, killed>>

-----------------------------------------------------------------------------
(***************************************************************************)
(* What happens later.                                                     *)
(***************************************************************************)

\* Another screen is pushed, shows a loader of its own and is left.
OpenOther ==
    /\ Input("tabBar") /\ ~ attached
    /\ top' = "other"
    /\ UNCHANGED <<fields, chain, store, attached, presented, blocks, closing, history>>

OtherLoader ==
    /\ Input("other")
    /\ presented' = "foreign"
    /\ UNCHANGED <<fields, chain, store, top, attached, blocks, closing, history>>

OtherDone ==
    /\ presented = "foreign"
    /\ presented' = "none"
    /\ UNCHANGED <<fields, chain, store, top, attached, blocks, closing, history>>

CloseOther ==
    /\ Input("other")
    /\ top' = "tabBar"
    /\ UNCHANGED <<fields, chain, store, attached, presented, blocks, closing, history>>

\* The app is killed and launched again.  What Firestore had accepted may be stored.
Kill ==
    /\ ~ killed
    /\ killed' = TRUE
    /\ IF registering THEN documents' \in {documents, documents \union {project}}
                      ELSE UNCHANGED documents
    /\ \E some \in SUBSET pending :
           stored' = IF some = {} THEN stored
                     ELSE [stored EXCEPT ![project] = @ \union some]
    /\ registering' = FALSE
    /\ pending' = {}
    /\ top' = "tabBar"
    /\ attached' = FALSE
    /\ presented' = "none"
    /\ blocks' = 0
    /\ closing' = <<>>
    /\ UNCHANGED <<fields, project, failed, told>>

-----------------------------------------------------------------------------

Titles == {"blank", "given"}

User ==
    \/ \E title \in Titles : AddTask(title) \/ FinishButton(title)
    \/ SelectRow \/ SaveTask \/ Back \/ Ok
    \/ OpenOther \/ OtherLoader \/ CloseOther

TaskDone(t) == TaskStored(t) \/ TaskFailed(t)

Next ==
    \/ User
    \/ RegisterProjectComplete
    \/ \E t \in pending : TaskDone(t)
    \/ Block \/ Dismissed \/ Detached
    \/ OtherDone
    \/ Kill

Spec == Init /\ [][Next]_vars

\* The SDKs complete every call once the device is connected, and the main queue runs.
FairSpec ==
    /\ Spec
    /\ WF_vars(RegisterProjectComplete)
    /\ \A t \in TaskObjects : WF_vars(TaskDone(t))
    /\ WF_vars(Block) /\ WF_vars(Dismissed) /\ WF_vars(Detached)

-----------------------------------------------------------------------------
(***************************************************************************)
(* Properties.                                                             *)
(***************************************************************************)

\* A task is only stored below a project that is stored: registerTask is called by
\* the completion of registerProject, also when a kill cuts in between.
TasksFollowProject == \A p \in Projects : stored[p] # {} => p \in documents

\* However often Finish is tapped, one creation screen stores one project: after a
\* project is stored every way on, with or without errors, leaves the screen.
OneProjectPerScreen == \A p, q \in documents : p = q

\* Nothing of the screen's work is under way.
AtRest == pending = {} /\ ~ registering /\ blocks = 0 /\ closing = <<>>

\* A project that was stored without an error has the tasks of the list as Finish found
\* it, with the details that the editor has saved for them, and no others.
CreatedIsWhole ==
    \A p \in documents :
        AtRest /\ p \notin failed /\ ~ killed => stored[p] = Listed

\* The completions that come back after the screen was left neither pop nor dismiss
\* what is there by then: the screen has lost its navigation controller.
OtherScreensStay ==
    [][top = "other" /\ <<pending, blocks, closing>>' # <<pending, blocks, closing>> /\ ~ killed'
          => UNCHANGED <<top, presented>>]_vars

\* When none of the tasks could be stored the user is told, however their completions
\* overlap.  (With some success among them the alert may go, or never come.)
TotalFailureIsTold ==
    project \in failed /\ stored[project] = {} /\ AtRest /\ presented = "none" /\ ~ killed
        => told

\* The loader of Finish goes away, whatever fails and however many tasks there are.
FinishEnds == presented = "loader" ~> presented # "loader"
=============================================================================
