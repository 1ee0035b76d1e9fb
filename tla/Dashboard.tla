------------------------------ MODULE Dashboard ------------------------------
(***************************************************************************)
(* The dashboard: DashBoardViewController, DashBoardPresenter and, of      *)
(* FirebaseAuthenticationSession, fetchUserFirestoreData and fetchProjects.*)
(*                                                                         *)
(* Each time the dashboard appears it loads the user, then the projects,   *)
(* then the tasks of every project.  fetchProjects answers several times:  *)
(* with an empty list as soon as the projects are known, with an error for *)
(* each project whose tasks cannot be read, and with the whole list once   *)
(* the last query of tasks is back.  Every answer changes the presenter's  *)
(* lists at once and the screen half a second later.  Loads may overlap.   *)
(***************************************************************************)
EXTENDS Naturals, Sequences, Filters

CONSTANTS
    Projects,     \* project identifiers
    Personal,     \* the projects with isPersonal = true
    Matching,     \* the projects whose title contains what the user types
    Loads,        \* slots: bounds the loads under way
    MaxBlocks     \* bound on the delayed blocks that wait in the main queue

ASSUME SubsetAssumption == Personal \subseteq Projects /\ Matching \subseteq Projects
ASSUME MaxBlocksAssumption == MaxBlocks \in Nat

VARIABLES
    stored,       \* Firestore: the user's projects
    load,         \* per slot, the call a load waits for
    data,         \* presenter.data.user.projects
    shown,        \* presenter.personalProject and professionalProject
    filtered,     \* presenter.filtredData
    grid,         \* what the two collection views show
    blocks,       \* blocks that asyncAfter(0.5) has put into the main queue
    screen,       \* is the dashboard in front, or has the app crashed?
    loader,       \* is the loader presented?
    alert,        \* is the retry alert presented?
    tabBar,       \* does the tab bar take input?
    text,         \* has the search bar an entry?
    settled       \* history: the lists come from a load without errors, and no
                  \* project has changed since it began

vars == <<stored, load, data, shown, filtered, grid, blocks, screen, loader, alert,
          tabBar, text, settled>>

modal == <<loader, alert, tabBar>>

\* An entry of a list: a project, with its tasks or (after an error) without.
Entries == [project : Projects, tasks : {"fetched", "none"}]

Sections == {"personal", "professional"}

Steps == {"idle", "getUser", "getProjects", "getTasks"}

LoadRecords == [step : Steps, pending : SUBSET Projects, got : Seq(Entries),
                stale : BOOLEAN]

TypeOK ==
    /\ stored \in SUBSET Projects
    /\ load \in [Loads -> LoadRecords]
    /\ data \in Seq(Entries)
    /\ shown \in [Sections -> Seq(Entries)]
    /\ filtered \in Seq(Entries)
    /\ grid \in [Sections -> Seq(Entries)]
    /\ blocks \in Seq({"success", "failure"})
    /\ screen \in {"dashboard", "other", "crashed"}
    /\ loader \in BOOLEAN
    /\ alert \in BOOLEAN
    /\ tabBar \in BOOLEAN
    /\ text \in BOOLEAN
    /\ settled \in BOOLEAN

InSection(p, s) == (p \in Personal) = (s = "personal")

\* sortPersonalAndProfessionalProject
Sort(list) == [s \in Sections |-> Filter(list, {e \in Entries : InSection(e.project, s)})]

Nothing == Sort(<<>>)

Idle == [step |-> "idle", pending |-> {}, got |-> <<>>, stale |-> FALSE]

Busy(l) == load[l].step # "idle"

Loading == \E l \in Loads : Busy(l)

\* The app starts with a user who is signed in: the dashboard appears and loads.
Init ==
    /\ stored \in SUBSET Projects
    /\ \E l \in Loads :
           load = [m \in Loads |-> IF m = l THEN [Idle EXCEPT !.step = "getUser"] ELSE Idle]
    /\ data = <<>>
    /\ shown = Nothing
    /\ filtered = <<>>
    /\ grid = Nothing
    /\ blocks = <<>>
    /\ screen = "dashboard"
    /\ loader = TRUE
    /\ alert = FALSE
    /\ tabBar = FALSE
    /\ text = FALSE
    /\ settled = FALSE

-----------------------------------------------------------------------------
(***************************************************************************)
(* What the user does.                                                     *)
(***************************************************************************)

Attentive == screen = "dashboard" /\ ~ loader /\ ~ alert

\* reloadSettings: fetchUser, reloadCollection, and an empty search bar.
ReloadSettings ==
    /\ \E l \in Loads :
           /\ ~ Busy(l)
           /\ load' = [load EXCEPT ![l] = [Idle EXCEPT !.step = "getUser"]]
    /\ tabBar' = FALSE
    /\ grid' = shown
    /\ text' = FALSE

\* viewWillAppear, then viewDidAppear, which shows the loader.
Appear ==
    /\ screen = "other"
    /\ screen' = "dashboard"
    /\ ReloadSettings
    /\ loader' = TRUE
    /\ UNCHANGED <<stored, data, shown, filtered, blocks, alert, settled>>

\* Retry, in the alert: no loader this time.
Retry ==
    /\ alert
    /\ alert' = FALSE
    /\ ReloadSettings
    /\ UNCHANGED <<stored, data, shown, filtered, blocks, screen, loader, settled>>

\* profilButton, addPersonalProject and addProfessionalProject push a screen.
Leave ==
    /\ Attentive
    /\ screen' = "other"
    /\ UNCHANGED <<stored, load, data, shown, filtered, grid, blocks, modal, text, settled>>

\* An index out of range ends the process.
Crash ==
    /\ screen' = "crashed"
    /\ load' = [l \in Loads |-> Idle]
    /\ blocks' = <<>>

\* didSelectItemAt: the row that was tapped is an index into the presenter's list.
Select(s, k) ==
    /\ Attentive
    /\ k \in DOMAIN grid[s]
    /\ IF k \in DOMAIN shown[s]
       THEN screen' = "other" /\ UNCHANGED <<load, blocks>>
       ELSE Crash
    /\ UNCHANGED <<stored, data, shown, filtered, grid, modal, text, settled>>

\* cellForItemAt, for an item that is scrolled into view: an empty list is guarded
\* against, a list that is too short is not.
Scroll(s, k) ==
    /\ Attentive
    /\ k \in DOMAIN grid[s]
    /\ shown[s] # <<>>
    /\ IF k \in DOMAIN shown[s]
       THEN grid' = [grid EXCEPT ![s][k] = shown[s][k]] /\ UNCHANGED <<load, blocks, screen>>
       ELSE Crash /\ UNCHANGED grid
    /\ UNCHANGED <<stored, data, shown, filtered, modal, text, settled>>

\* On another screen the user creates, changes and deletes projects.
Change ==
    /\ screen = "other"
    /\ stored' \in SUBSET Projects
    /\ load' = [l \in Loads |-> [load[l] EXCEPT !.stale = Busy(l)]]
    /\ settled' = FALSE
    /\ UNCHANGED <<data, shown, filtered, grid, blocks, screen, modal, text>>

Matches(list) == Filter(list, {e \in Entries : e.project \in Matching})

\* textDidChange: the projects known by now are filtered.  Every title contains the
\* empty text.
Type(entry) ==
    /\ Attentive
    /\ text' = entry
    /\ filtered' = IF entry THEN Matches(data) ELSE data
    /\ UNCHANGED <<stored, load, data, shown, grid, blocks, screen, modal, settled>>

\* searchBarSearchButtonClicked: what was filtered while typing is shown.
Search ==
    /\ Attentive
    /\ shown' = Sort(IF text THEN filtered ELSE data)
    /\ grid' = shown'
    /\ settled' = FALSE
    /\ UNCHANGED <<stored, load, data, filtered, blocks, screen, modal, text>>

-----------------------------------------------------------------------------
(***************************************************************************)
(* The calls of a load and their completions.                              *)
(***************************************************************************)

\* asyncAfter(deadline: .now() + 0.5): equal delays keep the order.
Later(bs) ==
    /\ Len(blocks) + Len(bs) <= MaxBlocks
    /\ blocks' = blocks \o bs

\* Fault: the lists are not emptied before they are sorted into again.
AnswerAppends(list) ==
    /\ data' = list
    /\ shown' = [s \in Sections |-> shown[s] \o Sort(list)[s]]

\* getProjectList and fetchProjectComplete, success.
Answer(list) ==
    /\ data' = list
    /\ shown' = Sort(list)

Ended(l) == [load EXCEPT ![l] = Idle]

\* fetchUserFirestoreData and fetchUserDataComplete: a user without projects, at first.
GetUser(l) ==
    /\ load[l].step = "getUser"
    /\ \/ /\ load' = [load EXCEPT ![l].step = "getProjects"]
          /\ data' = <<>>
          /\ settled' = FALSE
          /\ UNCHANGED blocks
       \/ /\ load' = Ended(l)
          /\ Later(<<"failure">>)
          /\ UNCHANGED <<data, settled>>
    /\ UNCHANGED <<stored, shown, filtered, grid, screen, modal, text>>

\* Fault: projects that cannot be read are not reported.
GetProjectsSilent(l) ==
    /\ load[l].step = "getProjects"
    /\ \/ /\ load' = IF stored = {} THEN Ended(l)
                     ELSE [load EXCEPT ![l].step = "getTasks", ![l].pending = stored]
          /\ Answer(<<>>)
          /\ settled' = (stored = {} /\ ~ load[l].stale)
          /\ Later(<<"success">>)
       \/ /\ load' = Ended(l)
          /\ UNCHANGED <<data, shown, settled, blocks>>
    /\ UNCHANGED <<stored, filtered, grid, screen, modal, text>>

\* documentRef.getDocuments: a query of tasks is issued for every project, and the
\* empty list is answered whether there are projects or not.
GetProjects(l) ==
    /\ load[l].step = "getProjects"
    /\ \/ /\ load' = IF stored = {} THEN Ended(l)
                     ELSE [load EXCEPT ![l].step = "getTasks", ![l].pending = stored]
          /\ Answer(<<>>)
          /\ settled' = (stored = {} /\ ~ load[l].stale)
          /\ Later(<<"success">>)
       \/ /\ load' = Ended(l)
          /\ Later(<<"failure">>)
          /\ UNCHANGED <<data, shown, settled>>
    /\ UNCHANGED <<stored, filtered, grid, screen, modal, text>>

\* Fault: tasks that cannot be read are left nil.
EntryNil(p, tasks) == [project |-> p, tasks |-> IF tasks = "none" THEN "nil" ELSE tasks]

Entry(p, tasks) == [project |-> p, tasks |-> tasks]

AllFetched(list) == \A k \in DOMAIN list : list[k].tasks = "fetched"

\* tasksRef.getDocuments: a project is listed with its tasks, or after an error
\* without; the last query to come back answers with the whole list.
GetTasks(l, p) ==
    /\ p \in load[l].pending
    /\ \E tasks \in {"fetched", "none"} :
           LET got == Append(load[l].got, Entry(p, tasks))
               error == IF tasks = "none" THEN <<"failure">> ELSE <<>>
           IN  IF load[l].pending = {p}
               THEN /\ load' = Ended(l)
                    /\ Answer(got)
                    /\ Later(error \o <<"success">>)
                    /\ settled' = (AllFetched(got) /\ ~ load[l].stale)
               ELSE /\ load' = [load EXCEPT ![l].pending = @ \ {p}, ![l].got = got]
                    /\ Later(error)
                    /\ UNCHANGED <<data, shown, settled>>
    /\ UNCHANGED <<stored, filtered, grid, screen, modal, text>>

\* A delayed block runs: whatever the navigation controller presents is dismissed,
\* the tab bar takes input again, and the lists or the alert are shown.  Behind another screen
\* no alert can be presented.
Fire ==
    /\ blocks # <<>>
    /\ blocks' = Tail(blocks)
    /\ loader' = FALSE
    /\ tabBar' = TRUE
    /\ alert' = (Head(blocks) = "failure" /\ screen = "dashboard")
    /\ grid' = IF Head(blocks) = "success" THEN shown ELSE grid
    /\ UNCHANGED <<stored, load, data, shown, filtered, screen, text, settled>>

-----------------------------------------------------------------------------

User ==
    \/ Appear \/ Retry \/ Leave \/ Change \/ Search
    \/ \E s \in Sections : \E k \in DOMAIN grid[s] : Select(s, k) \/ Scroll(s, k)
    \/ \E entry \in BOOLEAN : Type(entry)

Completion ==
    \/ \E l \in Loads : GetUser(l) \/ GetProjects(l) \/ \E p \in Projects : GetTasks(l, p)
    \/ Fire

Next == User \/ Completion

Spec == Init /\ [][Next]_vars

\* The SDK completes every read once the device is connected, and the main queue
\* runs its blocks; the user owes nothing.
FairSpec ==
    /\ Spec
    /\ \A l \in Loads :
           /\ WF_vars(GetUser(l)) /\ WF_vars(GetProjects(l))
           /\ \A p \in Projects : WF_vars(GetTasks(l, p))
    /\ WF_vars(Fire)

-----------------------------------------------------------------------------
(***************************************************************************)
(* Properties.                                                             *)
(***************************************************************************)

\* The two lists hold every stored project once, in its section, with its tasks.
Whole(lists) ==
    \A s \in Sections :
        /\ {lists[s][k].project : k \in DOMAIN lists[s]}
               = {p \in stored : InSection(p, s)}
        /\ \A j, k \in DOMAIN lists[s] : lists[s][j].project = lists[s][k].project => j = k
        /\ AllFetched(lists[s])

\* Loads may overlap, fail and answer several times each: once the lists come from a
\* load without errors that no change of a project crossed, the presenter lists every
\* project once with its tasks, and the screen too when no block is left to run.
SettledDashboard ==
    settled /\ screen # "crashed" => Whole(shown) /\ (blocks = <<>> => Whole(grid))

\* The loader and the disabled tab bar of a load go away: whichever read fails, some
\* block is left to give the screen back.
InputReturns ==
    loader \/ ~ tabBar ~> (~ loader /\ tabBar) \/ screen = "crashed"

\* "Call coordinator to push project reader when user select item": an item on the
\* screen can be selected, and opens the project that it shows.
SelectOpens ==
    Attentive =>
        \A s \in Sections : \A k \in DOMAIN grid[s] :
            k \in DOMAIN shown[s] /\ shown[s][k].project = grid[s][k].project
=============================================================================
