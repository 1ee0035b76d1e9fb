------------------------ MODULE ProjectCreationProofs ------------------------
(***************************************************************************)
(* Proofs, for any tasks and project identifiers, of the safety properties *)
(* of ProjectCreation.                                                     *)
(***************************************************************************)
EXTENDS ProjectCreation, SequenceTheorems, TLAPS

Endings == {"pop", "needPop"}

\* The editor is open on a row of the list.  The creation screen has its navigation
\* controller while it is on the stack, and has lost it once another screen is opened.
ScreenInv ==
    /\ top = "editor" => editing \in DOMAIN localTasksList
    /\ top \in {"creation", "editor"} => attached
    /\ top = "other" => ~ attached

\* The project being registered is new, and the loader keeps the user away meanwhile.
RegisterInv ==
    registering => /\ project \in Projects
                   /\ documents = {}
                   /\ top = "creation" /\ presented = "loader" /\ closing = <<>>

\* Nothing of the tasks happens before the project is stored.
EarlyInv == documents = {} => pending = {} /\ blocks = 0 /\ failed = {}

\* What is in front of the creation screen is about to take it off the stack.
Leaving ==
    \/ presented = "loader" /\ closing = <<>> /\ (pending # {} \/ blocks > 0)
    \/ presented = "needPop" /\ closing \in Seq(Endings)
    \/ presented = "none" /\ closing \in Seq(Endings) /\ closing # <<>>

\* Once a project is stored it is the only one, and there is no way back to the form.
LeaveInv ==
    documents # {} => /\ documents = {project}
                      /\ ~ registering
                      /\ failed \subseteq documents
                      /\ top \in {"tabBar", "other"} \/ (top = "creation" /\ Leaving)

\* Every task of the list is stored or on its way, as long as none has failed.
WholeInv ==
    documents # {} /\ ~ killed /\ project \notin failed
        => stored[project] \union pending = Listed

\* Until the first task completes the loader is there, and nothing else.
FreshInv ==
    pending # {} /\ stored[project] = {} /\ project \notin failed
        => top = "creation" /\ presented = "loader" /\ closing = <<>> /\ blocks = 0

\* With no success so far, only alerts can come, and one stays until the user has seen it.
ToldInv ==
    project \in failed /\ stored[project] = {} /\ ~ killed
        => /\ blocks = 0
           /\ closing \in Seq({"needPop"})
           /\ told \/ (top = "creation" /\ (closing # <<>> \/ presented = "needPop"))

IInv ==
    /\ TypeOK /\ ScreenInv /\ RegisterInv /\ EarlyInv /\ LeaveInv
    /\ TasksFollowProject /\ WholeInv /\ FreshInv /\ ToldInv

-----------------------------------------------------------------------------
(***************************************************************************)
(* Facts about the parts of a step.                                        *)
(***************************************************************************)

\* While a form takes input nothing is stored, and nothing is under way.
LEMMA FormIsEarly ==
    ASSUME IInv, Input("creation") \/ Input("editor")
    PROVE  documents = {} /\ ~ registering /\ pending = {} /\ blocks = 0 /\ failed = {}
  BY DEF IInv, RegisterInv, EarlyInv, LeaveInv, Leaving, Input

\* A pop leads to the tab bar, or from the editor to the form.
LEMMA PopType == PopViewController => top' \in {"creation", "tabBar"}
  BY DEF PopViewController

\* A dismissal keeps the types of what is presented and of what comes after it.
LEMMA DismissType ==
    ASSUME TypeOK, NEW then \in {"pop", "alert", "needPop"}, Dismiss(then)
    PROVE  /\ presented' \in {"none", "loader", "alert", "needPop", "foreign"}
           /\ closing' \in Seq({"pop", "alert", "needPop"})
<1>1. Append(closing, then) \in Seq({"pop", "alert", "needPop"})
  BY AppendProperties DEF TypeOK
<1> QED
  BY <1>1, Zenon DEF TypeOK, Dismiss

\* With the screen on the stack a dismissal that ends in leaving it, leaves it.
LEMMA DismissLeaves ==
    ASSUME IInv, top = "creation", Leaving, NEW then \in Endings, Dismiss(then)
    PROVE  presented' = "none" /\ closing' \in Seq(Endings) /\ closing' # <<>>
<1>1. closing \in Seq(Endings)
  BY EmptySeq DEF Leaving
<1>2. Append(closing, then) \in Seq(Endings) /\ Append(closing, then) # <<>>
  BY <1>1, AppendProperties
<1> QED
  BY <1>1, <1>2 DEF IInv, ScreenInv, Leaving, Dismiss, NavigationController

\* updateLocalTask keeps the length of the list and the type of its tasks.
LEMMA UpdateLocalTaskType ==
    ASSUME localTasksList \in Seq(TaskObjects), NEW task \in TaskObjects,
           UpdateLocalTask(task)
    PROVE  /\ localTasksList' \in Seq(TaskObjects)
           /\ DOMAIN localTasksList' = DOMAIN localTasksList
<1>1. /\ Len(localTasksList) \in Nat
      /\ DOMAIN localTasksList = 1 .. Len(localTasksList)
      /\ \A k \in 1 .. Len(localTasksList) : localTasksList[k] \in TaskObjects
  BY LenProperties, ElementOfSeq
<1>2. localTasksList' \in [1 .. Len(localTasksList) -> TaskObjects]
  BY <1>1 DEF UpdateLocalTask
<1> QED
  BY <1>1, <1>2, SeqDef

\* The editor works on a task of the list.
LEMMA EditedTask ==
    ASSUME IInv, top = "editor"
    PROVE  [taskID |-> localTasksList[editing].taskID, details |-> "edited"] \in TaskObjects
<1>1. localTasksList[editing] \in TaskObjects
  BY LenProperties, ElementOfSeq DEF IInv, TypeOK, ScreenInv
<1> QED
  BY <1>1 DEF TaskObjects, Details

\* The list holds tasks.
LEMMA ListedType ==
    ASSUME TypeOK PROVE Listed \in SUBSET TaskObjects
  BY LenProperties, ElementOfSeq DEF TypeOK, Listed

-----------------------------------------------------------------------------
(***************************************************************************)
(* Types.                                                                  *)
(***************************************************************************)

\* Every step of the creation screen keeps the types.
LEMMA TypeStep == IInv /\ [Next]_vars => TypeOK'
<1> SUFFICES ASSUME IInv, [Next]_vars PROVE TypeOK'
  OBVIOUS
<1> USE DEF fields, chain, store, window, history
<1>0. TypeOK
  BY DEF IInv
<1>1. ASSUME NEW title \in Titles, AddTask(title)
      PROVE  TypeOK'
  <2> PICK t \in Tasks :
             localTasksList' = Append(localTasksList, [taskID |-> t, details |-> "default"])
    BY <1>1 DEF AddTask
  <2>1. localTasksList' \in Seq(TaskObjects)
    BY <1>0, AppendProperties DEF TypeOK, TaskObjects, Details
  <2> QED
    BY <1>0, <1>1, <2>1 DEF AddTask, TypeOK
<1>2. ASSUME NEW title \in Titles, FinishButton(title)
      PROVE  TypeOK'
  <2>1. closing' \in Seq({"pop", "alert", "needPop"})
    BY <1>0, <1>2, AppendProperties DEF FinishButton, TypeOK
  <2> QED
    BY <1>0, <1>2, <2>1 DEF FinishButton, TypeOK
<1>3. CASE SelectRow
  BY <1>0, <1>3, LenProperties DEF SelectRow, TypeOK
<1>4. CASE SaveTask
  <2>1. localTasksList' \in Seq(TaskObjects)
    BY <1>0, <1>4, EditedTask, UpdateLocalTaskType DEF SaveTask, TypeOK, Input
  <2> QED
    BY <1>0, <1>4, <2>1, PopType DEF SaveTask, TypeOK
<1>5. CASE Back
  BY <1>0, <1>5, PopType DEF Back, TypeOK
<1>6. CASE Ok
  <2>1. told' \in BOOLEAN
    BY <1>0, <1>6 DEF Ok, TypeOK
  <2> QED
    BY <1>0, <1>6, <2>1, PopType DEF Ok, TypeOK
<1>7. CASE OpenOther
  BY <1>0, <1>7 DEF OpenOther, TypeOK
<1>8. CASE OtherLoader
  BY <1>0, <1>8 DEF OtherLoader, TypeOK
<1>9. CASE CloseOther
  BY <1>0, <1>9 DEF CloseOther, TypeOK
<1>10. CASE RegisterProjectComplete
  <2>1. project \in Projects
    BY <1>10 DEF RegisterProjectComplete, IInv, RegisterInv
  <2> QED
    BY <1>0, <1>10, <2>1, DismissType, ListedType
       DEF RegisterProjectComplete, RegisterTask, TypeOK
<1>11. ASSUME NEW t \in pending, TaskStored(t)
       PROVE  TypeOK'
  <2>1. project \in Projects
    BY <1>0 DEF IInv, EarlyInv, LeaveInv, TypeOK
  <2> QED
    BY <1>0, <1>11, <2>1 DEF TaskStored, TypeOK
<1>12. ASSUME NEW t \in pending, TaskFailed(t)
       PROVE  TypeOK'
  <2>1. project \in Projects
    BY <1>0 DEF IInv, EarlyInv, LeaveInv, TypeOK
  <2> QED
    BY <1>0, <1>12, <2>1, DismissType DEF TaskFailed, TypeOK
<1>13. CASE Block
  BY <1>0, <1>13, DismissType DEF Block, TypeOK
<1>14. CASE Dismissed
  <2>1. /\ Head(closing) \in {"pop", "alert", "needPop"}
        /\ Tail(closing) \in Seq({"pop", "alert", "needPop"})
    BY <1>0, <1>14, HeadTailProperties DEF Dismissed, TypeOK
  <2> QED
    <3>1. /\ presented' \in {"none", "loader", "alert", "needPop", "foreign"}
          /\ top' \in {"creation", "editor", "tabBar", "other"}
      BY <1>0, <1>14, <2>1, PopType DEF Dismissed, TypeOK
    <3> QED
      BY <1>0, <1>14, <2>1, <3>1 DEF Dismissed, TypeOK
<1>15. CASE Detached
  BY <1>0, <1>15 DEF Detached, TypeOK
<1>16. CASE OtherDone
  BY <1>0, <1>16 DEF OtherDone, TypeOK
<1>17. CASE Kill
  <2>1. documents' \in SUBSET Projects
    BY <1>0, <1>17 DEF Kill, IInv, RegisterInv, TypeOK
  <2>2. stored' \in [Projects -> SUBSET TaskObjects]
    BY <1>0, <1>17 DEF Kill, TypeOK
  <2>3. closing' \in Seq({"pop", "alert", "needPop"})
    BY <1>17, EmptySeq DEF Kill
  <2> QED
    BY <1>0, <1>17, <2>1, <2>2, <2>3 DEF Kill, TypeOK
<1>18. CASE UNCHANGED vars
  BY <1>0, <1>18 DEF vars, TypeOK
<1> QED
  BY <1>1, <1>2, <1>3, <1>4, <1>5, <1>6, <1>7, <1>8, <1>9, <1>10, <1>11, <1>12,
     <1>13, <1>14, <1>15, <1>16, <1>17, <1>18 DEF Next, User, TaskDone

-----------------------------------------------------------------------------
(***************************************************************************)
(* The strengthened invariant.                                             *)
(***************************************************************************)

\* What the user does with a form, before anything is stored.
LEMMA FormStep ==
    ASSUME IInv, Input("creation") \/ Input("editor"),
           TypeOK', ScreenInv', RegisterInv',
           UNCHANGED <<pending, documents, stored, blocks, failed>>
    PROVE  IInv'
<1>1. documents' = {} /\ pending' = {} /\ blocks' = 0 /\ failed' = {} /\ stored' = stored
  BY FormIsEarly
<1>2. TasksFollowProject'
  BY <1>1, FormIsEarly DEF IInv, TasksFollowProject
<1> QED
  BY <1>1, <1>2 DEF IInv, EarlyInv, LeaveInv, WholeInv, FreshInv, ToldInv

\* The tasks, the edits and the back buttons of the form.
LEMMA FormActions ==
    ASSUME IInv, TypeOK',
           (\E title \in Titles : AddTask(title)) \/ SelectRow \/ SaveTask \/ Back
    PROVE  IInv'
<1> USE DEF chain, store, window, history, fields
<1>1. Input("creation") \/ Input("editor")
  BY DEF AddTask, SelectRow, SaveTask, Back
<1>2. UNCHANGED <<pending, documents, stored, blocks, failed>>
  BY DEF AddTask, SelectRow, SaveTask, Back
<1>3. RegisterInv'
  <2>1. ~ registering'
    BY <1>1, FormIsEarly DEF AddTask, SelectRow, SaveTask, Back
  <2> QED
    BY <2>1 DEF RegisterInv
<1>4. ScreenInv'
  <2>1. attached'
    BY <1>1 DEF AddTask, SelectRow, SaveTask, Back, IInv, ScreenInv, Input
  <2>2. top' # "other"
    BY <1>1 DEF AddTask, SelectRow, SaveTask, Back, PopViewController, Input
  <2>3. top' = "editor" => editing' \in DOMAIN localTasksList'
    BY DEF AddTask, SelectRow, SaveTask, Back, PopViewController, Input
  <2> QED
    BY <2>1, <2>2, <2>3 DEF ScreenInv
<1> QED
  BY <1>1, <1>2, <1>3, <1>4, FormStep

\* Finish, with or without a title.
LEMMA FinishStep ==
    ASSUME IInv, TypeOK', NEW title \in Titles, FinishButton(title)
    PROVE  IInv'
<1> USE DEF chain, store, window, history, fields
<1>1. UNCHANGED <<pending, documents, stored, blocks, failed>> /\ Input("creation")
  BY DEF FinishButton
<1>2. RegisterInv'
  BY <1>1, FormIsEarly DEF FinishButton, RegisterInv, Input
<1>3. ScreenInv'
  BY DEF FinishButton, IInv, ScreenInv, Input
<1> QED
  BY <1>1, <1>2, <1>3, FormStep

\* The Ok of an alert leaves the screen once a project is stored.
LEMMA OkStep ==
    ASSUME IInv, TypeOK', Ok
    PROVE  IInv'
<1> USE DEF chain, store, window, history, fields
<1>1. ~ registering /\ ~ registering'
  BY DEF Ok, IInv, RegisterInv
<1>2. ASSUME documents # {}, top = "creation"
      PROVE  presented = "needPop" /\ top' = "tabBar" /\ told' = TRUE
  BY <1>2 DEF Ok, IInv, ScreenInv, LeaveInv, Leaving, NavigationController, PopViewController
<1>3. top \in {"tabBar", "other"} => top' \in {"tabBar", top}
  BY DEF Ok, PopViewController
<1>4. ScreenInv'
  BY DEF Ok, IInv, ScreenInv, PopViewController, TypeOK, NavigationController
<1>5. LeaveInv'
  BY <1>1, <1>2, <1>3 DEF Ok, IInv, LeaveInv
<1>6. FreshInv'
  BY DEF Ok, IInv, FreshInv
<1>7. ToldInv'
  <2>1. project \in failed => documents # {}
    BY DEF IInv, EarlyInv
  <2> QED
    BY <1>2, <2>1 DEF Ok, IInv, ToldInv
<1> QED
  BY <1>1, <1>4, <1>5, <1>6, <1>7
     DEF Ok, IInv, RegisterInv, EarlyInv, TasksFollowProject, WholeInv, Listed

\* Other screens, their loaders, and the end of the transition that takes this one off.
LEMMA OtherStep ==
    ASSUME IInv, TypeOK', OpenOther \/ OtherLoader \/ OtherDone \/ CloseOther \/ Detached
    PROVE  IInv'
<1> USE DEF chain, store, window, history, fields, Input
<1>1. UNCHANGED <<localTasksList, editing, project, registering, pending, documents, stored,
                  blocks, closing, failed, told, killed>>
  BY DEF OpenOther, OtherLoader, OtherDone, CloseOther, Detached
<1>2. ScreenInv'
  BY DEF OpenOther, OtherLoader, OtherDone, CloseOther, Detached, IInv, ScreenInv
<1>3. RegisterInv'
  BY DEF OpenOther, OtherLoader, OtherDone, CloseOther, Detached, IInv, RegisterInv
<1>4. top = "creation" => top' = top /\ (documents # {} => presented # "foreign")
  BY DEF OpenOther, OtherLoader, OtherDone, CloseOther, Detached, IInv, LeaveInv, Leaving
<1>5. top = "creation" /\ documents # {} => FALSE
  BY <1>4 DEF OpenOther, OtherLoader, OtherDone, CloseOther, Detached, IInv
<1>6. top \in {"tabBar", "other"} => top' \in {"tabBar", "other"}
  BY DEF OpenOther, OtherLoader, OtherDone, CloseOther, Detached
<1>7. LeaveInv'
  BY <1>1, <1>5, <1>6 DEF IInv, LeaveInv
<1>8. project \in failed \/ pending # {} => documents # {}
  BY DEF IInv, EarlyInv
<1>9. FreshInv' /\ ToldInv'
  BY <1>1, <1>5, <1>8 DEF IInv, FreshInv, ToldInv
<1> QED
  BY <1>1, <1>2, <1>3, <1>7, <1>9 DEF IInv, EarlyInv, TasksFollowProject, WholeInv, Listed

\* A list with an element has tasks, and an empty one has none.
LEMMA ListedEmpty ==
    ASSUME TypeOK PROVE Listed = {} <=> localTasksList = <<>>
<1>1. /\ Len(localTasksList) \in Nat
      /\ DOMAIN localTasksList = 1 .. Len(localTasksList)
  BY LenProperties DEF TypeOK
<1>2. localTasksList # <<>> => 1 \in DOMAIN localTasksList
  BY <1>1, EmptySeq DEF TypeOK
<1>3. localTasksList = <<>> => DOMAIN localTasksList = {}
  BY <1>1, EmptySeq
<1> QED
  BY <1>2, <1>3 DEF Listed

\* registerProjectComplete: the first document, and then the tasks or the way out.
LEMMA RegisterStep ==
    ASSUME IInv, TypeOK', RegisterProjectComplete
    PROVE  IInv'
<1> USE DEF chain, store, window, history, fields
<1>0. TypeOK
  BY DEF IInv
<1>1. /\ registering /\ project \in Projects /\ documents = {} /\ top = "creation"
      /\ presented = "loader" /\ closing = <<>> /\ pending = {} /\ blocks = 0 /\ failed = {}
      /\ attached
  BY DEF RegisterProjectComplete, IInv, RegisterInv, EarlyInv, ScreenInv
<1>2. stored[project] = {}
  BY <1>1 DEF IInv, TasksFollowProject
<1>3. /\ ~ registering'
      /\ UNCHANGED <<localTasksList, editing, project, stored, top, attached, blocks, failed,
                     told, killed>>
  BY DEF RegisterProjectComplete
<1>4. ScreenInv' /\ RegisterInv' /\ ToldInv'
  BY <1>1, <1>3 DEF IInv, ScreenInv, RegisterInv, ToldInv
<1>5. CASE documents' = documents
  <2>1. pending' = {}
    BY <1>1, <1>5 DEF RegisterProjectComplete
  <2> QED
    BY <1>1, <1>3, <1>4, <1>5, <2>1
       DEF IInv, EarlyInv, LeaveInv, TasksFollowProject, WholeInv, FreshInv
<1>6. CASE documents' = {project}
  <2>1. EarlyInv' /\ TasksFollowProject'
    BY <1>1, <1>3, <1>6 DEF IInv, EarlyInv, TasksFollowProject
  <2>2. CASE localTasksList # <<>>
    <3>1. pending' = Listed /\ presented' = presented /\ closing' = closing
      BY <1>1, <1>6, <2>2 DEF RegisterProjectComplete, RegisterTask
    <3>2. Listed # {} /\ Listed' = Listed
      BY <1>0, <1>3, <2>2, ListedEmpty DEF Listed
    <3>3. LeaveInv' /\ FreshInv'
      BY <1>1, <1>3, <1>6, <3>1, <3>2 DEF LeaveInv, Leaving, FreshInv
    <3>4. WholeInv'
      BY <1>2, <1>3, <3>1, <3>2 DEF WholeInv
    <3> QED
      BY <1>4, <2>1, <3>3, <3>4 DEF IInv
  <2>3. CASE localTasksList = <<>>
    <3>1. pending' = {} /\ Dismiss("pop")
      BY <1>1, <1>6, <2>3 DEF RegisterProjectComplete
    <3>2. presented' = "none" /\ closing' = Append(closing, "pop")
      BY <1>1, <3>1 DEF Dismiss, NavigationController
    <3>3. closing' \in Seq(Endings) /\ closing' # <<>>
      BY <1>1, <3>2, EmptySeq, AppendProperties DEF Endings
    <3>4. Listed' = {}
      BY <1>0, <1>3, <2>3, ListedEmpty DEF Listed
    <3>5. LeaveInv' /\ FreshInv' /\ WholeInv'
      BY <1>1, <1>2, <1>3, <1>6, <3>1, <3>2, <3>3, <3>4 DEF LeaveInv, Leaving, FreshInv, WholeInv
    <3> QED
      BY <1>4, <2>1, <3>5 DEF IInv
  <2> QED
    BY <2>2, <2>3
<1> QED
  BY <1>1, <1>5, <1>6 DEF RegisterProjectComplete

\* A task is on its way only below the project of the screen, which is stored.
LEMMA PendingProject ==
    ASSUME IInv, pending # {} \/ blocks # 0
    PROVE  documents = {project} /\ ~ registering /\ project \in Projects
  BY DEF IInv, EarlyInv, LeaveInv, TypeOK

\* A task is stored: its block comes, and every other is where it was.
LEMMA TaskStoredStep ==
    ASSUME IInv, TypeOK', NEW t \in pending, TaskStored(t)
    PROVE  IInv'
<1> USE DEF chain, store, window, history, fields
<1>0. TypeOK
  BY DEF IInv
<1>1. documents = {project} /\ ~ registering /\ project \in Projects
  BY PendingProject
<1>2. stored'[project] = stored[project] \union {t}
  BY <1>0, <1>1 DEF TaskStored, TypeOK
<1>3. TasksFollowProject'
  BY <1>0, <1>1 DEF TaskStored, IInv, TasksFollowProject, TypeOK
<1>4. blocks' > 0
  BY <1>0 DEF TaskStored, TypeOK
<1>5. LeaveInv'
  BY <1>1, <1>4 DEF TaskStored, IInv, LeaveInv, Leaving
<1>6. WholeInv'
  BY <1>2 DEF TaskStored, IInv, WholeInv, Listed
<1>7. FreshInv' /\ ToldInv'
  BY <1>2 DEF TaskStored, FreshInv, ToldInv
<1> QED
  BY <1>1, <1>3, <1>5, <1>6, <1>7 DEF TaskStored, IInv, ScreenInv, RegisterInv, EarlyInv

\* A task fails: what is presented goes, and an alert is to come.
LEMMA TaskFailedStep ==
    ASSUME IInv, TypeOK', NEW t \in pending, TaskFailed(t)
    PROVE  IInv'
<1> USE DEF chain, store, window, history, fields
<1>0. TypeOK
  BY DEF IInv
<1>1. documents = {project} /\ ~ registering /\ project \in Projects
  BY PendingProject
<1>2. top = "creation" =>
          presented' = "none" /\ closing' \in Seq(Endings) /\ closing' # <<>>
  BY <1>1, DismissLeaves DEF TaskFailed, IInv, LeaveInv, Endings
<1>3. LeaveInv'
  BY <1>1, <1>2 DEF TaskFailed, IInv, LeaveInv, Leaving
<1>4. WholeInv' /\ FreshInv'
  BY DEF TaskFailed, WholeInv, FreshInv
<1>5. ToldInv'
  <2> SUFFICES ASSUME stored[project] = {}, ~ killed
               PROVE  /\ blocks = 0
                      /\ closing' \in Seq({"needPop"})
                      /\ told \/ (top = "creation" /\ closing' # <<>>)
    BY DEF TaskFailed, ToldInv
  <2>1. /\ blocks = 0
        /\ closing \in Seq({"needPop"})
        /\ told \/ top = "creation"
    BY EmptySeq DEF IInv, FreshInv, ToldInv
  <2>2. Append(closing, "needPop") \in Seq({"needPop"})
    BY <2>1, AppendProperties
  <2>3. closing' \in Seq({"needPop"})
    BY <2>1, <2>2, Zenon DEF TaskFailed, Dismiss
  <2> QED
    BY <1>2, <2>1, <2>3
<1> QED
  BY <1>1, <1>3, <1>4, <1>5
     DEF TaskFailed, IInv, ScreenInv, RegisterInv, EarlyInv, TasksFollowProject

\* The block of a task that was stored dismisses, and a pop is to come.
LEMMA BlockStep ==
    ASSUME IInv, TypeOK', Block
    PROVE  IInv'
<1> USE DEF chain, store, window, history, fields
<1>0. blocks \in Nat /\ blocks > 0
  BY DEF IInv, TypeOK, Block
<1>1. documents = {project} /\ ~ registering
  BY <1>0, PendingProject
<1>2. top = "creation" =>
          presented' = "none" /\ closing' \in Seq(Endings) /\ closing' # <<>>
  BY <1>1, DismissLeaves DEF Block, IInv, LeaveInv, Endings
<1>3. LeaveInv'
  BY <1>1, <1>2 DEF Block, IInv, LeaveInv, Leaving
<1>4. FreshInv' /\ ToldInv'
  BY <1>0 DEF Block, IInv, FreshInv, ToldInv
<1> QED
  BY <1>1, <1>3, <1>4
     DEF Block, IInv, ScreenInv, RegisterInv, EarlyInv, TasksFollowProject, WholeInv, Listed

\* A dismissal is over: the screen is popped, or an alert is presented over it.
LEMMA DismissedStep ==
    ASSUME IInv, TypeOK', Dismissed
    PROVE  IInv'
<1> USE DEF chain, store, window, history, fields
<1>1. closing # <<>> /\ closing' = Tail(closing) /\ ~ registering
  BY DEF Dismissed, IInv, RegisterInv
<1>2. UNCHANGED <<localTasksList, editing, project, registering, pending, documents, stored,
                  attached, blocks, failed, told, killed>>
  BY DEF Dismissed
<1>3. ASSUME attached, Head(closing) = "pop"
      PROVE  PopViewController /\ presented' = presented
  BY <1>3 DEF Dismissed, NavigationController
<1>4. ASSUME attached, Head(closing) # "pop"
      PROVE  /\ presented' = IF presented = "none" THEN Head(closing) ELSE presented
             /\ top' = top
  BY <1>4 DEF Dismissed, NavigationController
<1>5. ~ attached => top' = top
  BY DEF Dismissed, NavigationController
<1>6. top \in {"tabBar", "other"} => top' \in {"tabBar", top}
  BY <1>3, <1>4, <1>5 DEF PopViewController
<1>7. ScreenInv'
  BY <1>2, <1>3, <1>4, <1>5 DEF IInv, ScreenInv, PopViewController, TypeOK
<1>8. ASSUME documents # {}, top = "creation"
      PROVE  /\ presented \in {"none", "needPop"} /\ attached
             /\ Head(closing) \in Endings /\ closing' \in Seq(Endings)
  BY <1>1, <1>8, HeadTailProperties DEF IInv, ScreenInv, LeaveInv, Leaving
<1>9. LeaveInv'
  <2> SUFFICES ASSUME documents # {}, top = "creation"
               PROVE  top' \in {"tabBar", "other"} \/ (top' = "creation" /\ Leaving')
    BY <1>2, <1>6 DEF IInv, LeaveInv
  <2>1. CASE Head(closing) = "pop"
    BY <1>3, <1>8, <2>1 DEF PopViewController
  <2>2. CASE Head(closing) # "pop"
    BY <1>4, <1>8, <2>2 DEF Leaving, Endings
  <2> QED
    BY <2>1, <2>2
<1>10. FreshInv'
  BY <1>1, <1>2 DEF IInv, FreshInv
<1>11. ToldInv'
  <2> SUFFICES ASSUME project \in failed, stored[project] = {}, ~ killed
               PROVE  /\ blocks = 0
                      /\ closing' \in Seq({"needPop"})
                      /\ told \/ (top' = "creation" /\ presented' = "needPop")
    BY <1>2 DEF ToldInv
  <2>1. blocks = 0 /\ closing \in Seq({"needPop"}) /\ (told \/ top = "creation")
    BY DEF IInv, ToldInv
  <2>2. Head(closing) = "needPop" /\ closing' \in Seq({"needPop"})
    BY <1>1, <2>1, HeadTailProperties
  <2>3. documents # {}
    BY DEF IInv, EarlyInv
  <2> QED
    BY <1>4, <1>8, <2>1, <2>2, <2>3
<1> QED
  BY <1>1, <1>2, <1>7, <1>9, <1>10, <1>11
     DEF IInv, RegisterInv, EarlyInv, TasksFollowProject, WholeInv, Listed

\* A kill forgets what is under way; what was accepted may be stored.
LEMMA KillStep ==
    ASSUME IInv, TypeOK', Kill
    PROVE  IInv'
<1> USE DEF chain, store, window, history, fields
<1>0. TypeOK
  BY DEF IInv
<1>1. documents \subseteq documents' /\ documents' \subseteq documents \union {project}
  BY DEF Kill
<1>2. documents' # documents => registering
  BY DEF Kill
<1>3. LeaveInv'
  BY <1>1, <1>2 DEF Kill, IInv, LeaveInv, RegisterInv, EarlyInv
<1>4. EarlyInv'
  BY <1>1 DEF Kill, IInv, EarlyInv
<1>5. TasksFollowProject'
  <2>1. \A p \in Projects : stored'[p] # {} => stored[p] # {} \/ (p = project /\ pending # {})
    BY <1>0 DEF Kill, TypeOK
  <2> QED
    BY <1>1, <2>1, PendingProject DEF IInv, TasksFollowProject
<1> QED
  BY <1>3, <1>4, <1>5 DEF Kill, IInv, ScreenInv, RegisterInv, WholeInv, FreshInv, ToldInv

\* The strengthened invariant is kept by every step.
LEMMA Inductive == IInv /\ [Next]_vars => IInv'
<1> SUFFICES ASSUME IInv, [Next]_vars PROVE IInv'
  OBVIOUS
<1>0. TypeOK'
  BY TypeStep
<1>1. CASE User
  BY <1>0, <1>1, FormActions, FinishStep, OkStep, OtherStep DEF User
<1>2. CASE RegisterProjectComplete
  BY <1>0, <1>2, RegisterStep
<1>3. CASE \E t \in pending : TaskDone(t)
  BY <1>0, <1>3, TaskStoredStep, TaskFailedStep DEF TaskDone
<1>4. CASE Block \/ Dismissed \/ Detached \/ OtherDone \/ Kill
  BY <1>0, <1>4, BlockStep, DismissedStep, OtherStep, KillStep
<1>5. CASE UNCHANGED vars
  BY <1>0, <1>5
     DEF vars, IInv, ScreenInv, RegisterInv, EarlyInv, LeaveInv, Leaving, TasksFollowProject,
         WholeInv, Listed, FreshInv, ToldInv
<1> QED
  BY <1>1, <1>2, <1>3, <1>4, <1>5 DEF Next

\* The strengthened invariant holds throughout.
LEMMA Invariance == Spec => []IInv
<1>1. Init => IInv
  <2> SUFFICES ASSUME Init PROVE IInv
    OBVIOUS
  <2>1. TypeOK
    BY EmptySeq DEF Init, TypeOK
  <2> QED
    BY <2>1 DEF Init, IInv, ScreenInv, RegisterInv, EarlyInv, LeaveInv, TasksFollowProject,
                WholeInv, FreshInv, ToldInv
<1> QED
  BY <1>1, Inductive, PTL DEF Spec

-----------------------------------------------------------------------------

\* The creation screen never leaves its types.
THEOREM TypeCorrect == Spec => []TypeOK
<1>1. IInv => TypeOK
  BY DEF IInv
<1> QED
  BY <1>1, Invariance, PTL

\* No task is stored below a project that is not stored.
THEOREM TasksFollowProjectHolds == Spec => []TasksFollowProject
<1>1. IInv => TasksFollowProject
  BY DEF IInv
<1> QED
  BY <1>1, Invariance, PTL

\* One creation screen stores one project.
THEOREM OneProjectPerScreenHolds == Spec => []OneProjectPerScreen
<1>1. IInv => OneProjectPerScreen
  BY DEF IInv, LeaveInv, OneProjectPerScreen
<1> QED
  BY <1>1, Invariance, PTL

\* A project stored without an error has the tasks of the list and no others.
THEOREM CreatedIsWholeHolds == Spec => []CreatedIsWhole
<1>1. IInv => CreatedIsWhole
  BY DEF IInv, LeaveInv, WholeInv, CreatedIsWhole, AtRest
<1> QED
  BY <1>1, Invariance, PTL

\* When none of the tasks could be stored, the user is told.
THEOREM TotalFailureIsToldHolds == Spec => []TotalFailureIsTold
<1>1. IInv => TotalFailureIsTold
  BY DEF IInv, ToldInv, TotalFailureIsTold, AtRest
<1> QED
  BY <1>1, Invariance, PTL

\* Completions that come back late leave the screens that were opened since alone.
THEOREM OtherScreensStayHolds == Spec => OtherScreensStay
<1>1. IInv /\ [Next]_vars
          => [top = "other" /\ <<pending, blocks, closing>>' # <<pending, blocks, closing>>
                  /\ ~ killed'
                 => UNCHANGED <<top, presented>>]_vars
  <2> SUFFICES ASSUME IInv, Next, top = "other", ~ killed',
                      <<pending, blocks, closing>>' # <<pending, blocks, closing>>
               PROVE  UNCHANGED <<top, presented>>
    BY DEF vars
  <2> USE DEF chain, store, window, history, fields
  <2>1. ~ attached /\ ~ registering
    BY DEF IInv, ScreenInv, RegisterInv
  <2>2. CASE User
    BY <2>2 DEF User, AddTask, FinishButton, SelectRow, SaveTask, Back, Ok,
                OpenOther, OtherLoader, CloseOther, Input
  <2>3. CASE \E t \in pending : TaskDone(t)
    BY <2>1, <2>3 DEF TaskDone, TaskStored, TaskFailed, Dismiss, NavigationController
  <2>4. CASE Block \/ Dismissed
    BY <2>1, <2>4 DEF Block, Dismissed, Dismiss, NavigationController
  <2>5. CASE RegisterProjectComplete \/ Detached \/ OtherDone \/ Kill
    BY <2>1, <2>5 DEF RegisterProjectComplete, Detached, OtherDone, Kill
  <2> QED
    BY <2>2, <2>3, <2>4, <2>5 DEF Next
<1> QED
  BY <1>1, Invariance, PTL DEF Spec, OtherScreensStay

-----------------------------------------------------------------------------

\* A project as ProjectLife sees it from the creation screen, which takes no cover off
\* and deletes nothing.
LifeOf(p) == IF p \in documents THEN "listed" ELSE "unborn"

Life == INSTANCE ProjectLife WITH life <- [p \in Projects |-> LifeOf(p)]

\* Only the completion of registerProject, or a kill before it comes, stores a project,
\* and then it is the first one.
LEMMA DocumentsStep ==
    ASSUME IInv, [Next]_vars, documents' # documents
    PROVE  /\ project \in Projects
           /\ documents = {} /\ documents' = {project}
<1> USE DEF chain, store, window, history, fields
<1>1. RegisterProjectComplete \/ Kill
  BY DEF Next, User, AddTask, FinishButton, SelectRow, SaveTask, Back, Ok,
     OpenOther, OtherLoader, CloseOther, TaskDone, TaskStored, TaskFailed, Block, Dismissed,
     Detached, OtherDone, vars
<1>2. registering /\ documents' = documents \union {project}
  BY <1>1 DEF RegisterProjectComplete, Kill
<1> QED
  BY <1>2 DEF IInv, RegisterInv

\* The creation screen implements ProjectLife: whatever is tapped, fails, overlaps or is
\* cut short by a kill, a project appears once, one at a time, and stays.
THEOREM CreationImplementsProjectLife == Spec => Life!Spec
<1>1. Init => Life!Init
  BY DEF Init, Life!Init, LifeOf
<1>2. IInv /\ [Next]_vars => [Life!Next]_([p \in Projects |-> LifeOf(p)])
  <2> SUFFICES ASSUME IInv, [Next]_vars
               PROVE  [Life!Next]_([p \in Projects |-> LifeOf(p)])
    OBVIOUS
  <2>1. CASE documents' = documents
    BY <2>1 DEF LifeOf
  <2>2. CASE documents' # documents
    <3>1. project \in Projects /\ documents = {} /\ documents' = {project}
      BY <2>2, DocumentsStep
    <3>2. Life!Appear(project)
      BY <3>1 DEF LifeOf, Life!Appear, Life!Become
    <3> QED
      BY <3>1, <3>2 DEF Life!Next
  <2> QED
    BY <2>1, <2>2
<1> QED
  BY <1>1, <1>2, Invariance, PTL DEF Spec, Life!Spec
=============================================================================
