------------------------------ MODULE TaskTable ------------------------------
(***************************************************************************)
(* The task table of the project reader: how numberOfSections,             *)
(* numberOfRowsInSection, heightForHeader, cellForRowAt and didSelectRowAt *)
(* cut the project's list of tasks into a section of open tasks and one of *)
(* done tasks.  Each of the five works on the list by itself, with filters *)
(* of its own; together they must show every task once.                    *)
(*                                                                         *)
(* UIKit asks for sections and rows when the table is reloaded, which most *)
(* handlers do in a later turn of the main queue than the change of the    *)
(* list.  What the requests and refreshes of the reader do to the store is *)
(* the subject of ProjectReader; here they only change the list.           *)
(***************************************************************************)
EXTENDS Naturals, Sequences, FiniteSets, Filters

CONSTANTS
    Tasks,        \* task identifiers
    MaxSaves      \* bound: saves of the check mark of a task that are under way at once

ASSUME TasksAssumption == IsFiniteSet(Tasks)
ASSUME SavesAssumption == MaxSaves \in Nat

VARIABLES
    taskList,     \* selectedProject.taskList
    table,        \* the list as it was when the table was last reloaded
    covered,      \* does a loader, or a transition, cover the screen?
    added,        \* the task whose registration is under way, if any
    saving,       \* for each task, how many saves of its check mark are under way
    opened        \* the task that was handed to the task editor last, if any

vars == <<taskList, table, covered, added, saving, opened>>

TaskObjects == [taskID : Tasks, isValidate : BOOLEAN]

\* Lists without a task twice.  Every task that reaches the reader has isValidate set:
\* refreshCurrentProject and fetchProjects default it to false, createTaskObject sets it.
Lists == {list \in UNION {[1..n -> TaskObjects] : n \in 0..Cardinality(Tasks)} :
            \A j, k \in DOMAIN list : list[j].taskID = list[k].taskID => j = k}

TypeOK ==
    /\ taskList \in Lists /\ table \in Lists
    /\ covered \in BOOLEAN
    /\ added \subseteq Tasks
    /\ saving \in [Tasks -> 0..MaxSaves]
    /\ opened \subseteq TaskObjects

Init ==
    /\ taskList \in Lists /\ table = taskList
    /\ covered = FALSE
    /\ added = {}
    /\ saving = [t \in Tasks |-> 0]
    /\ opened = {}

-----------------------------------------------------------------------------
(***************************************************************************)
(* The data source.  Sections and rows are counted from 0.                 *)
(***************************************************************************)

\* Two of the methods count the open tasks with isValidate != true, the others with
\* isValidate == false (and likewise for the done ones).  The two tests differ on a task
\* without isValidate only, and Lists has none: one filter stands for both.
ValidateTasks(list) == Filter(list, {task \in TaskObjects : task.isValidate})

UnValidateTasks(list) == Filter(list, {task \in TaskObjects : ~ task.isValidate})

OnlyOpen(list) == UnValidateTasks(list) # <<>> /\ ValidateTasks(list) = <<>>

OnlyDone(list) == UnValidateTasks(list) = <<>> /\ ValidateTasks(list) # <<>>

\* Fault: the case of done tasks only is forgotten.
NumberOfSectionsOpenFirst(list) == IF list = <<>> \/ OnlyOpen(list) THEN 1 ELSE 2

NumberOfSections(list) ==
    IF list = <<>> \/ OnlyOpen(list) \/ OnlyDone(list) THEN 1 ELSE 2

HeightForHeader(list, section) ==
    IF OnlyOpen(list) THEN 0
    ELSE IF OnlyDone(list) THEN 20
    ELSE IF section = 0 THEN 0 ELSE 20

NumberOfRowsInSection(list, section) ==
    IF OnlyDone(list) \/ (~ OnlyOpen(list) /\ section # 0)
    THEN Len(ValidateTasks(list)) ELSE Len(UnValidateTasks(list))

CellForRowAt(list, section, row) ==
    (IF OnlyDone(list) \/ (~ OnlyOpen(list) /\ section = 1)
     THEN ValidateTasks(list) ELSE UnValidateTasks(list))[row + 1]

\* The index paths of the table, for a list that it was reloaded with.
Paths(list) ==
    {path \in (0..1) \X (0..Len(list)) :
        path[1] < NumberOfSections(list) /\ path[2] < NumberOfRowsInSection(list, path[1])}

-----------------------------------------------------------------------------
(***************************************************************************)
(* The delegate, and what changes the list.                                *)
(***************************************************************************)

\* didSelectRowAt takes the row of the whole list, whatever the section.
DidSelectRowAt(section, row) == taskList[row + 1]

Select ==
    /\ ~ covered
    /\ \E path \in Paths(table) : opened' = {DidSelectRowAt(path[1], path[2])}
    /\ UNCHANGED <<taskList, table, covered, added, saving>>

\* validateTask: the task of the list that has the identifier of the cell's copy takes
\* the opposite of what the copy says.
ValidateTask(task) ==
    [k \in DOMAIN taskList |->
        IF taskList[k].taskID = task.taskID
        THEN [taskList[k] EXCEPT !.isValidate = ~ task.isValidate] ELSE taskList[k]]

\* unvalidateTask: the task takes the opposite of what the list says by now.
UnvalidateTask(t) ==
    [k \in DOMAIN taskList |->
        IF taskList[k].taskID = t
        THEN [taskList[k] EXCEPT !.isValidate = ~ taskList[k].isValidate] ELSE taskList[k]]

\* tapCheckMarkButton: the list changes at once, a block that reloads the table is left
\* behind (Reload) and the task of the list is saved.  The task of a row that can be
\* tapped is always one of the list.
TapCheckMark ==
    /\ ~ covered
    /\ \E path \in Paths(table) :
           LET cell == CellForRowAt(table, path[1], path[2]) IN
           /\ saving[cell.taskID] < MaxSaves
           /\ taskList' = ValidateTask(cell)
           /\ saving' = [saving EXCEPT ![cell.taskID] = @ + 1]
    /\ UNCHANGED <<table, covered, added, opened>>

\* updateValidateStatementComplete on success: the table is reloaded at once.
SaveStored ==
    /\ \E t \in Tasks : saving[t] > 0 /\ saving' = [saving EXCEPT ![t] = @ - 1]
    /\ table' = taskList
    /\ UNCHANGED <<taskList, covered, added, opened>>

\* updateValidateStatementComplete on failure, after unvalidateTask: the table is
\* reloaded by a later block (Reload).
SaveFailed ==
    /\ \E t \in Tasks :
          /\ saving[t] > 0
          /\ saving' = [saving EXCEPT ![t] = @ - 1]
          /\ taskList' = UnvalidateTask(t)
    /\ UNCHANGED <<table, covered, added, opened>>

\* The blocks that TapCheckMark, SaveFailed and the handlers of ProjectReader leave behind.
Reload ==
    /\ table' = taskList
    /\ UNCHANGED <<taskList, covered, added, saving, opened>>

\* Fault: the new task is put in front of the list.
AddTaskInsertsFirst ==
    /\ ~ covered
    /\ \E t \in Tasks :
          /\ \A k \in DOMAIN taskList : taskList[k].taskID # t
          /\ taskList' = <<[taskID |-> t, isValidate |-> FALSE]>> \o taskList
          /\ added' = {t}
    /\ covered' = TRUE
    /\ UNCHANGED <<table, saving, opened>>

\* addTask: the loader, and a new task at the end of the list.
AddTask ==
    /\ ~ covered
    /\ \E t \in Tasks :
          /\ \A k \in DOMAIN taskList : taskList[k].taskID # t
          /\ taskList' = Append(taskList, [taskID |-> t, isValidate |-> FALSE])
          /\ added' = {t}
    /\ covered' = TRUE
    /\ UNCHANGED <<table, saving, opened>>

\* Fault: the completion appends the task that addTask has appended already.
AddTaskStoredAgain ==
    /\ added # {}
    /\ taskList' = Append(taskList, [taskID |-> CHOOSE t \in added : TRUE, isValidate |-> FALSE])
    /\ added' = {}
    /\ covered' = FALSE
    /\ UNCHANGED <<table, saving, opened>>

\* addTaskFromReaderComplete on success.
AddTaskStored ==
    /\ added # {}
    /\ added' = {}
    /\ covered' = FALSE
    /\ UNCHANGED <<taskList, table, saving, opened>>

\* removeTaskFromLocalData
RemoveTask(list, t) == Filter(list, {task \in TaskObjects : task.taskID # t})

\* addTaskFromReaderComplete on failure: the task is gone before the loader is.
AddTaskFailed ==
    /\ added # {}
    /\ taskList' = RemoveTask(taskList, CHOOSE t \in added : TRUE)
    /\ added' = {}
    /\ UNCHANGED <<table, covered, saving, opened>>

\* Fault: the alert is presented and the table is not reloaded.
LoaderGoneKeepsTable ==
    /\ covered /\ added = {}
    /\ covered' = FALSE
    /\ UNCHANGED <<taskList, table, added, saving, opened>>

\* The completion of the dismissal that the failure has begun: the table is reloaded.
LoaderGone ==
    /\ covered /\ added = {}
    /\ covered' = FALSE
    /\ table' = taskList
    /\ UNCHANGED <<taskList, added, saving, opened>>

\* fetchCurrentProjectComplete: another list, and a reload in the same turn.
Deliver ==
    /\ taskList' \in Lists
    /\ table' = taskList'
    /\ UNCHANGED <<covered, added, saving, opened>>

Next ==
    \/ Select
    \/ TapCheckMark \/ SaveStored \/ SaveFailed \/ Reload
    \/ AddTask \/ AddTaskStored \/ AddTaskFailed \/ LoaderGone
    \/ Deliver

Spec == Init /\ [][Next]_vars

-----------------------------------------------------------------------------
(***************************************************************************)
(* Properties.                                                             *)
(***************************************************************************)

\* The cells of a section, as the table asks for them.
Cells(list, section) ==
    [k \in 1..NumberOfRowsInSection(list, section) |-> CellForRowAt(list, section, k - 1)]

\* The reference: the open tasks in the order of the list, and then the done ones.
Reference(list) == UnValidateTasks(list) \o ValidateTasks(list)

\* The sections, one after the other, show every task of the list once, open ones
\* first, no section is empty unless the list is, and the header "finished tasks" is
\* above the done ones only: the four methods agree on how they cut the list although
\* each of them filters it by itself.
EveryTaskOnce ==
    LET n == NumberOfSections(taskList) IN
    /\ Reference(taskList) = Cells(taskList, 0) \o (IF n = 2 THEN Cells(taskList, 1) ELSE <<>>)
    /\ taskList # <<>> => \A s \in 0..(n - 1) : NumberOfRowsInSection(taskList, s) > 0
    /\ \A path \in Paths(taskList) :
           HeightForHeader(taskList, path[1]) > 0
               <=> CellForRowAt(taskList, path[1], path[2]).isValidate

\* A row that can be tapped is a row of the list as it is now, although the list changes
\* before the table does: didSelectRowAt never indexes past the end.
SelectIsInRange == ~ covered => \A path \in Paths(table) : path[2] < Len(taskList)

\* Of the rows that can be tapped, exactly those open the task that they show before
\* which no task of the other section stands in the list: didSelectRowAt takes a row of a
\* section for a row of the list, so that with open and done tasks mixed it opens another
\* one.  Nothing else opens a wrong task, although the table that is tapped may be older
\* than the list that is indexed: check marks, saves that fail and additions, kept or
\* taken back, leave the tasks of the rows that are shown where they are.
SelectOpensCell ==
    ~ covered =>
        \A path \in Paths(table) :
            LET cell == CellForRowAt(table, path[1], path[2]) IN
            DidSelectRowAt(path[1], path[2]).taskID = cell.taskID
                <=> \A k \in 1..(path[2] + 1) : table[k].isValidate = cell.isValidate
=============================================================================
