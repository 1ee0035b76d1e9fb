# Unsinkable: a verification project in TLA+

Unsinkable is an iOS application for projects and their tasks, written in Swift
as presenters and view controllers joined by coordinators, over Firebase: Auth
for accounts, Firestore for documents, Storage for cover pictures and a cloud
function for recursive deletion. It has no server of its own. What is hard in it
is not computation but the order of things: every operation is a chain of
asynchronous calls, each of which may fail, lose its answer or be cut off by the
end of the process; screens hold copies that go stale; completions come back to
screens that have moved on.

The modules here model that control. Texts, layout and the contents of documents
are abstracted to what the properties tell apart. The repository's README is a
title, so that what the code is meant to do is taken from its comments and its
tests.

Paths below are relative to `src/Unsinkable/Unsinkable/`.

## 1. Inventory

| Component | State | Operations | Module |
|---|---|---|---|
| Project operations (`Scenes/HomePage/Dashboard/Service/`) | Firestore documents, Storage objects; none of its own | `registerUserProject`, `updateProject`, `deleteUserProject` | `ProjectSession`, implementing `ProjectLife` |
| | | `updateTask`, `updateValidateStatement`, `deleteUserTask`, `refreshCurrentProject`, `registerUserTask` for one task | `ProjectReader` |
| | | `registerUserTask` for the tasks of a new project | `ProjectCreation` |
| | | `deleteAllUserRef` | `AccountDeletion` |
| Project reader, task editor (`.../ProjectReader`, `.../TaskCreation`) | a copy of the project, the copies in the cells, loader, observer | tap, add, edit, delete, refresh | `ProjectReader` |
| | the table's sections and rows | data source, selection | `TaskTable` |
| | the project's texts, the observer | open the sheet, delete the project | `UpdateSheet` |
| Update sheet (`.../ProjectUpdate`) | a copy of the reader's copy, two fields, loader, alert | save, dismiss, notify | `UpdateSheet` |
| Project creation (`.../ProjectCreation`) | local tasks, cover, loader, alert | add, edit, finish | `ProjectCreation` |
| Profile (`Scenes/HomePage/Profil`) | a copy of the user, loader, error label | log out, delete the account | `AccountDeletion`, implementing `AccountLife` |
| | three fields, the saves under way | `updateUser` | `ProfilUpdate` |
| Dashboard (`.../DashBoard`) | the user's projects, two lists, a filtered list, delayed blocks, loader, alert, tab bar | appear, retry, select, scroll, search, load | `Dashboard` |
| Onboarding (`Scenes/Onboarding`) | account, session, keychain, loader, error label | register, sign in | `Onboarding`, implementing `AccountLife` |
| Coordinators (`Coordinator/`) | child coordinators, navigation stack | start, push, finish | `Onboarding`; pushes as steps of the other modules |
| Notification tab, Debouncer, custom views, constants, error texts, Pods | none, or appearance | | not modelled |

How they interact. View controllers call presenters, presenters call
`ProjectService` or `UserAuthenticationService`, which pass the call to a session
object that talks to Firebase; completions travel the same way back. Screens share
nothing but Firestore, Storage and the keychain, the `childEnd` notification of
the update sheet, and the navigation controller on which any of them may present,
dismiss, push and pop. All of the application's code runs on the main thread: an
action of the modules is one turn of the main queue.

What is hard, and what makes each component correct:

* **Project operations.** Document and cover live in two services and are changed
  one after the other. They must agree when nothing goes wrong; deletion must be
  final; every chain must end with a completion.
* **Project reader.** The screen changes its copy first and saves afterwards.
  Once everything has come back, the copy must be what is stored.
* **Task table.** Five methods read the list on their own. They must agree, and a
  row that can be tapped must be a row of the list.
* **Update sheet.** A copy of a copy is edited and saved as a whole. It must not take
  back what it did not change, and the reader must show the result.
* **Project creation.** One project and several tasks are stored by calls of their
  own, and each completion moves the navigation stack. One project must come of it,
  with its tasks, and the screens that come next must be left alone.
* **Profile update.** Name and email live in two stores that are changed in turn,
  without a loader. Saves may overlap; the stores must end as entered.
* **Account deletion.** One pipeline per cover runs on to the deletion of the
  account. The documents must go before the account, the user must leave the
  profile once, the password must stay while it is needed.
* **Dashboard.** A load answers several times, loads overlap, and the screen
  follows its lists with a delay. The lists of a good load must be whole, and
  the screen must be given back after a bad one.
* **Onboarding.** Registering is two calls. Sessions must not leave screens or
  coordinators behind.

`PROJECT.json` lists the hazards line by line.

## 2. Modules

TLC runs the modules directly, with a `.cfg` per run; `MCDashboard` adds the
symmetry of the loads to the largest of them, and `MCTaskTable` the symmetry of the tasks
and a comparison of the filter (below). A `*Proofs` module extends the module it is
about; `AccountProofs` extends `AccountDeletion` and is about `Onboarding` too, by
`INSTANCE`, because the two implement the same abstract specification. Operators marked "Fault:" are plausible mistakes in the definition below
them; nothing refers to them, they serve to show that a property would notice.

### ProjectSession

`document[p]` is the URL in the document of project `p`, `cover[p]` the upload at
`Users/<owner>/<p>.jpeg`; uploads are numbered, and a URL stands for one upload
because Firebase's download URLs carry a token of it. `chain[d]` is the call that
device `d` waits for. Each action is one completion and what its closure does
before it issues the next call:

| Action | Code |
|---|---|
| `RegisterProject`, `UpdateProject`, `DeleteProject` | the presenters' calls, up to the first asynchronous one |
| `PutData`, `DownloadURL`, `SetData` | the nested closures of `registerUserProject` |
| `DeleteOld`, `PutData`, `DownloadURL`, `UpdateData` | those of `updateProject`, with or without a cover |
| `DeleteFn`, `DeleteCover` | those of `deleteUserProject` |
| `Crash` | iOS ends the process |

`torn` is a history variable: the projects one of whose chains failed, was killed
or overlapped with another one.

`ProjectLife` is what all of this promises to a dashboard: per project, unborn, listed,
bare (listed, and without a cover for good) or deleted, with one forward step at a
time. `LifeOf` maps the state of `ProjectSession` to it: `known` makes a project listed,
its document being gone deleted, and `CoverLost` bare.

### ProjectReader

`stored` is Firestore, `shown` the presenter's list, `cell` the copies of tasks
that visible cells hold until the table is reloaded. Saves and deletions are
`request`s; local writes go through Firestore's `queue` in order, and a query sees
them before they are sent (`View`). `refresh` and `snapshot` are the refreshes
under way. `touched` and `unsure` are history variables that tell for which tasks
two changes, or a change and a refresh, have crossed. `ChildEnd` is the end of the
update sheet, which makes the reader refresh as long as it observes it.

### TaskTable

`taskList` is the reader's list, in its order; `table` is the list as it was when the
table was last reloaded, which is what can be tapped. The operators named after the
methods of the data source are pure functions of a list, compared with `Reference`:
the open tasks, then the done ones. The data source
tests `isValidate` in two ways, `!= true` and `== false`; every task that reaches the
reader has it set (`Lists`), so that one filter stands for both. The actions are the
handlers of the reader as far as they change the list or reload the table; whether the
loader is there decides what can be tapped in between (`covered`). `saving` counts the
saves of each check mark that are under way: `SaveStored` reloads the table, `SaveFailed`
takes the tap back by flipping what the list shows by then, and leaves the reload to a
later block.

### Filters

Swift's `filter`, for the sections of the table and the lists of the dashboard. It is
`SelectSeq`, which is recursive and which the prover cannot expand; `Filter` says the
same by positions: its n-th element is the one at the n-th position that is kept.
`MCTaskTable` assumes that the two agree on every list and every set of the run
`task_table`, and TLC evaluates that assumption.

### UpdateSheet

`stored`, `shown`, `base` and `draft` are the two texts of a project in Firestore, in the
reader, as the sheet was opened with and in its fields. `sheet` goes from none to open,
saving, and on a failure alert and open again. `refresh` and `snapshot` are the reads
under way, as in `ProjectReader`. `observing` is lost with the first `OpenEditor`.
`spoiled`, `tainted` and `clean` are history variables: the reader's copy may be out of
date; a read has overlapped with a change; the sheet was opened on a good copy, and
nobody else has changed the texts since. Texts that nothing reads any more are `Blank`,
which keeps states apart only where a behaviour does.

### ProjectCreation

`localTasksList` and `editing` are the screen's; of a task the identifier counts, and
whether its other fields are those of `AddTask` or those of the editor, which keeps the
title whatever was typed (`details`); `project`, `registering`
and `pending` what Finish has under way: the project, then one call per task at once.
`top`, `attached`, `presented`, `blocks` and `closing` are the window: which screen is in
front, whether the creation screen still has a navigation controller, what is presented,
the blocks in the main queue and the completions of dismissals that are under way.
`TaskStored` leaves a block, `Block` dismisses and then pops, `TaskFailed` dismisses and
then presents the alert whose `Ok` pops. `OpenOther` to `CloseOther` are any other screen
that the user opens afterwards, with a loader of its own.

### ProfilUpdate

`docName` is the user's document, `authEmail` the email of the account and `deviceEmail`
the one this device believes in. `saves` are the saves under way, each with the fields
and the email that it has captured; `UpdateData`, `Reauthenticate` and `UpdateEmail` are
its steps. `data` is the copy of the user from the dashboard, from which `Open` fills the
fields. First name and name are treated alike by the code and are one here. `crossed` and
`lost` tell whether saves have overlapped with each other or with a load, and whether
the answer of `updateEmail` was lost.

### AccountDeletion

`pipeline[i]` is one of the continuations that `deleteAllUserRef` starts per
cover: delete the cover, call the cloud function, and after each success of that,
`deleteUser` (reauthenticate, delete). `Restart` kills the app and launches it;
`Arrive` is the load of the dashboard, which waits for the user's document.

### AccountLife

What registering and deleting promise about an account: it is absent, opening (in
Firebase Auth, its document to come), whole, closing (its document gone, itself to
follow) or an orphan, which it stays. Documents without an owner do not occur. A step
that is cut short may strand the account (`Strand`).

`LifeOf` of `AccountDeletion` maps to it from `whole` on. Between the documents and the
account, an account is closing as long as someone can still delete it: a pipeline is at
reauthenticate or deleteUser, or the profile is in front on a device that holds the
password (`Reachable`). Otherwise it is an orphan: the dashboard cannot load without
the document, so that the profile does not come back. `LifeOf` of `Onboarding` covers
the other half: an account is opening while `setData` is under way; a deletion is one
step there, from whole to absent. Both map a document without an account to a value that
`AccountLife` does not know, so that the refinement rules it out.

### Dashboard

`load[l]` is a load: the user, the projects, then one query of tasks per project.
`data`, `shown` and `filtered` are the presenter's lists, `grid` what the
collection views show, `blocks` the blocks that `asyncAfter` has put into the main
queue. `Crash` is Swift's trap on an index out of range. The user's document is
assumed to exist: what happens without it is part of `AccountDeletion` and
`Onboarding`. `settled` is a history variable: the lists come from a load without
errors, and no project has changed since that load began.

### Onboarding

`call` is the call under way, `stack` the navigation stack and `children` the child
coordinators. Of the fields only the presenters' verdict counts (empty, invalid,
valid), except for the name, which is empty, blank or given: `IsInformedField` and
`FormatFields` treat a blank one differently. `error` is the message of the label: that a
field is empty, which is the one that leaves the loader, or any other. `DeleteUserComplete` stands for a
deletion that has succeeded, `Load` for a load of the dashboard.

### What the environment may do

* Storage, Auth and cloud function calls may fail before or after their effect (a
  lost answer). A Firestore write that is reported as failed had no effect.
* A kill drops what is under way. A write that the SDK had accepted may be carried
  out nevertheless where that matters (`Onboarding`); in `ProjectSession` a kill
  cuts a chain between two calls.
* The token of the cloud function is present in `Keys.plist`: without it the code
  returns before it calls anything. A new project always has a cover picture, because
  the storyboard gives the image view one, so that Finish never returns for lack of it.
* UIKit ignores an alert presented over a loader or from a screen that is not in
  front. The 0.5 s of `asyncAfter` outlast the transition to the dashboard.
* A dismissal issued in the turn that has presented the loader takes the loader away: a
  sign-in with an invalid email, Finish with a blank title.
* A loader blocks the input of its screen, and UIKit ignores touches during a
  transition.
* A screen that was popped keeps its navigation controller until the transition is
  over and has none afterwards. `dismiss` with nothing presented may or may not call its
  completion: both are tried.
* A UUID is one that nothing is stored under.

## 3. Runs

Passing runs (the properties are explained where they are defined):

| Run | Properties | Bounds, distinct states |
|---|---|---|
| `project_session` | `TypeOK`, `SettledProjectIsWhole`, `RegisteredIsWhole`, `ImplementsProjectLife`, `EveryChainEnds` | 2 projects, 2 devices, 4 uploads; 118 000 |
| `project_reader` | `TypeOK`, `SettledReader`, `LoaderEnds` | 1 task, 2 requests, 2 refreshes; 81 000 |
| `account_deletion` | `TypeOK`, `OneExit`, `ImplementsAccountLife`, `PasswordIsKept`, `DeletionAnswers` | 3 covers, 5 pipelines; 36 000 |
| `dashboard_overlap` | `TypeOK`, `SettledDashboard` | 2 projects, 2 loads, 2 blocks; 3 240 000 up to symmetry |
| `dashboard_input` | `InputReturns` | 1 project, 2 loads, 3 blocks; 166 000 |
| `onboarding` | `TypeOK`, `OneSession`, `ImplementsAccountLife`, `LoaderEnds` | one account and one device; 150, the whole model |
| `project_creation` | `TypeOK`, `TasksFollowProject`, `OneProjectPerScreen`, `CreatedIsWhole`, `TotalFailureIsTold`, `OtherScreensStay`, `FinishEnds` | 3 tasks, 2 projects; 239 000 |
| `profil_update` | `TypeOK`, `SettledProfile`, `UntouchedSaveKeeps`, `StaleLoginIsForever`, `SaveIsAnswered` | 3 emails, 2 saves; 437 000 |
| `task_table` | `TypeOK`, `EveryTaskOnce`, `SelectIsInRange`, `SelectOpensCell` | every list of up to 3 tasks, 2 saves of each; 92 000 up to symmetry |
| `update_sheet` | `TypeOK`, `SettledHeader`, `UntouchedTextKeeps`, `LoadersEnd` | 2 texts of 2 values, 2 refreshes; 119 000 |

`dashboard_input` is a run of its own because symmetry is not sound for liveness
and the state space of `dashboard_overlap` is too large without it.

Runs that show a disagreement between the code and a comment on it (the quotation
is in `PROJECT.json`, under `findings`):

| Run | Property | What happens |
|---|---|---|
| `reader_rollback` | `FailureReverses` | a rollback after a second tap flips the wrong way |
| `dashboard_select` | `SelectOpens` | an item of the old list is tapped after the list was emptied |

**Why the bounds are enough.** The interesting cases need two of each: two chains
on one project, two changes of one task, a change crossing a refresh, two pipelines
that race for the account, two loads that mix. A second project is there to show
that one does not spoil the other; requests on different tasks only meet in the
queue and in a refresh, which `project_reader` exercises with two requests on one
task. Four uploads let each of two projects be registered and its cover replaced
once, or one cover be replaced three times. Three covers and five pipelines let a
second attempt overlap with the first. Three tasks are the fewest with two failures
around a success, or the reverse, and leave one completion for a screen that was left; a
second project is there for a second Finish. Three emails let two overlapping saves
choose different ones. Lists of three tasks have every shape that the table tells apart:
none, one kind, both, and each kind first; two saves of a task let one fail after the
other.
`MaxBlocks` only bounds how long the main queue may be late: a load whose block does
not fit waits until the queue has run one. For safety the theorems
remove the bounds: every module that has a constant is proved about for all its values
(section 4). For liveness the bounds are what the runs show.

**Deadlock** is not checked: a screen at rest with nothing under way and no user is
a legitimate end.

**Fairness.** The SDKs call every completion handler once the device is connected,
and the main queue runs its blocks; so the `FairSpec` of each module has weak
fairness on the completions (per call, request, refresh, load or pipeline) and on
the blocks, and none on anything the user does. `AccountDeletion` also has it on
`Arrive`, a load that is only enabled when it can succeed.

**Behaviour that the models reproduce and no property forbids.** The modules follow
the code in these places too; they are listed as hazards:

* `deleteAllUSerRefComplete` shows its error behind the loader (`ShowError`), as does
  a sign-in with an empty field (`SignInButton`).
* An account whose documents are gone makes the next launch wait for ever: `Arrive`
  and `Load` need the document. `ImplementsAccountLife` shows that nothing repairs it.
* The block of a later success dismisses the alert of a failure (`Fire`), and a search
  shows what was filtered while typing, not what has arrived since (`Search`).
* `updateProject` deletes the old cover before it puts the new one; when the second call
  fails the project has none, and `ImplementsProjectLife` shows that no retry helps.
* One pipeline that gets through deletes the account, although another has failed to
  delete its cover: that cover outlives the account (`AccountDeletion`).
* On a device that does not hold the password, editing a task is never answered and its
  loader stays (`EditTask`); `LoaderEnds` is about devices that hold it.
* After the task editor was opened once, the reader no longer observes the update
  sheet, and what is saved there is not shown (`OpenEditor`, `NotifyParent`).
* A row of a section opens the task of that row of the whole list (`DidSelectRowAt`), which
  is another one as soon as open and done tasks are mixed. `SelectOpensCell` says for which
  rows, and that a table older than the list adds none.
* A title typed in the editor of a task of a new project is dropped (`SaveTask`).
* When a task of a new project fails and another is stored, the alert may be dismissed by
  the success, or never be presented (`Block`, `TaskFailed`).
* Saving a profile without a change of email is never answered; an empty name is
  reported and stored all the same (`Save`, `EndSilently`). A save from fields that were
  filled before an earlier one had ended takes it back.
* Saving a done task in the editor reopens it (`EditTask`).
* A name of two blanks counts as informed and is stored as an empty one
  (`IsInformedField`, `FormatFields`).

## 4. Proofs

`ProjectSessionProofs`, for any sets of projects and devices and any number of
uploads, from the one assumption `MaxUploads \in Nat`:

* `TypeCorrect`, `SettledWhole`, `RegistrationWhole`, `DeletedStaysDeleted`,
  `LostCoverStaysLost`: the safety properties of `project_session`, and the two halves of
  `ImplementsProjectLife` that say what never comes back, as properties of their own.
* `Refinement`: the specification implements `ProjectLife`. A call that starts moves no
  project (`CallLife`), a completion or a crash no other than its own (`OtherLife`), and
  that one as `ProjectLife` lets it (`OwnLife`): a document is first stored with a URL
  and a cover because a registration has its project to itself, and nothing goes back
  because of the lemmas behind the previous two theorems.
* The inductive invariant `IInv` adds to the properties what they rest on: which
  steps belong to which operation (`StepsInv`); that nobody touches an identifier
  that was not drawn (`FreshInv`) nor a project that is being registered
  (`RegisterInv`), which is why a registration cannot be spoiled by another device;
  that a project with two chains at once is torn (`AloneInv`); and how document and
  cover stand half way through the only chain of a project that is not torn
  (`HalfwayInv`). `SettledProjectIsWhole` alone is not inductive: it says nothing of
  a project in the middle of a chain.
* The action properties follow from `IInv` one action at a time.

`AccountProofs`, for any sets of covers and pipelines, about `AccountDeletion`:

* `TypeCorrect`, `DocumentsBeforeAccount`, `AtMostOneExit`, `PasswordKept`.
* `IInv` adds that a pipeline which has come as far as the account has seen the
  documents go (`OrderInv`), and that nobody has left the profile while the account
  exists (`ExitInv`): deleting the account is the one step that can only succeed
  once.
* `DeletionImplementsAccountLife`. `LifeGoesOn` says what a step may do: documents and
  account only go, the account only where it is `Reachable`, and without documents an
  account that is not `Reachable` does not become so. Most actions bring nobody nearer
  (`NobodyComesNear`); the cloud function does so only from a profile that was there
  already. `DocumentsBeforeAccount` (`DocumentsGoFirst`) is one consequence of it.

and about `Onboarding`, which is an instance there. A theorem assumes one of the two
specifications, never both, so that it does not matter that they share the names of
variables:

* `SessionTypes`, `OneSessionAtATime`: `O!TypeOK` and `O!OneSession`, the invariants of the
  run `onboarding`.
* `OneSession` is not inductive: it allows a call below any screen. `SessionInv` adds that
  a call is under way below its own screen, covered by the loader (`CallInv`), which is
  why nothing can be tapped meanwhile; that a document has an owner, and the user whose
  document is about to be stored is signed in (`DocumentInv`); and that the profile is
  only reached from a dashboard that has loaded a document (`LoadedInv`). The lemmas
  `Short`, `Finish` and `PopOne` say what the operators on lists do with the short lists
  of screens and coordinators.
* `SessionImplementsAccountLife`, one action at a time: most leave alone what the life of
  the account is seen in (`SameLife`); deletion starts from whole because of `LoadedInv`,
  and `setData` ends with whole or an orphan because of `DocumentInv`. `OrphanStays`
  (`OrphanIsForever`) follows from the refinement, which has no step out of orphan.

`UpdateSheetProofs`, for any words and any number of refreshes:

* `TypeCorrect`, `SettledHeaderHolds`, `UntouchedTextKeepsHolds`.
* `SettledHeader` speaks of a reader in front and at rest. `IInv` says the same of
  whatever is in front (`ShownInv`), that what a refresh has read is still stored unless
  a change has crossed it (`SnapshotInv`), and that a sheet which is `clean` still has
  the stored texts as its base (`BaseInv`). `UntouchedTextKeeps` is `BaseInv` at the
  step that saves.

`ProjectCreationProofs`, for any tasks and projects, from `None \notin Projects`:

* `TypeCorrect`, `TasksFollowProjectHolds`, `OneProjectPerScreenHolds`,
  `CreatedIsWholeHolds`, `TotalFailureIsToldHolds`, `OtherScreensStayHolds`.
* `CreationImplementsProjectLife`: the creation screen, for which registering a project is
  one call, implements the `ProjectLife` that the chains of `ProjectSession` implement. Only
  the completion of `registerProject`, or a kill before it comes, stores a project
  (`DocumentsStep`), and then it is the first. The mapping is in the proofs module.
* The argument for one project is about the navigation stack: once a project is stored
  the form can no longer be reached, because what is in front of it (`Leaving`: the
  loader with completions to come, an alert whose OK pops, a dismissal whose completion
  pops) is bound to take it off the stack (`LeaveInv`). None of the properties is
  inductive without it. `WholeInv` says that every listed task is stored or on its way,
  `ToldInv` that an alert which is owed to the user is still to come: until some task
  succeeds nothing is under way that could dismiss it.

`ProfilUpdateProofs`, for any emails and any number of saves, from `Emails` being
nonempty and without the mark for an invalid one, and `MaxSaves \in Nat`:

* `TypeCorrect`, `SettledProfileHolds`, `StaleLoginIsForeverHolds`,
  `UntouchedSaveKeepsHolds`.
* `AloneInv` describes the only save under way as long as nothing has crossed: what it
  has captured is what was submitted and what the device believes, and each of its steps
  has done what comes before it. `LoginInv` and `CopyInv` say that without a lost answer
  the copies, from the account to the fields, are good.

`ProjectReaderProofs`, for any tasks and any number of requests and refreshes:

* `TypeCorrect`, `SettledReaderHolds`, `GoneTaskStays`, `CleanFailureReverses`.
* `SettledReader` speaks of a screen with nothing under way and says nothing of how
  that is reached. `IInv` describes the way: a task that is not in doubt has one request
  at a time (`OneInv`), and while it lasts what is shown and what is stored are one step
  apart, which success and failure both close (`BusyInv`), or a refresh is there that
  will deliver what is stored (`RestInv`). A refresh knows which tasks were changed
  under it (`TouchedInv`) and has read the others right (`SnapshotInv`). The queue holds
  each write once (`QueueInv`), and identifiers still to be drawn are unused
  (`FreshInv`). TLC has checked `IInv` on two tasks as well (1.8 million states).
* `GoneTaskStays`: a task that is not stored, whose identifier is used up and which nobody
  is adding (`Gone`) stays so, whatever saves of it are still on their way: `updateData`
  needs a document. `CleanFailureReverses` says where the comment that `reader_rollback`
  refutes is true: a rollback shows what is stored when no refresh is under way and nothing
  has crossed the save, because `BusyInv` then has shown and stored one flip apart. TLC
  has checked both on the instance of `project_reader`, and that rollbacks and gone tasks
  of this kind occur there.

`TaskTableProofs`, for any finite set of tasks and `MaxSaves \in Nat`:

* `TypeCorrect`, `EveryTaskOnceHolds`, `SelectIsInRangeHolds`, `SelectOpensCellHolds`.
* `EveryTaskOnce` is a fact about a list (`DataSource`): a filter keeps order and misses
  nothing, so that sections, rows and header come out of the lengths of the two filtered
  lists.
* The other two are about a table that may be older than the list. While it can be
  tapped, every task of the table stands at the same place in the list, whatever its
  check mark says by now (`RowsInv`), and the loader stays while a task is being added
  (`CoverInv`): the only step that takes a task out behind the table is the end of a
  failed addition. `SelectIsInRange` follows at once. `SelectOpensCell` needs one more fact
  about filters: the n-th element of a filtered list is the n-th of the list if and only
  if the list keeps all of its first n (`FilterIndex`, `CellFacts`); identifiers do not
  occur twice, so that an element elsewhere is another task.

`DashboardProofs`, for any projects, any loads and any number of delayed blocks, from
`Personal` and `Matching` being sets of projects and `MaxBlocks \in Nat`:

* `TypeCorrect`, `SettledDashboardHolds`.
* `LoadInv` says of each load on its own that it lists no project twice and that, unless
  a project has changed, what it has listed and what it waits for are what is stored;
  so its last answer is whole, and sorting keeps that. `ShownInv` carries the result to
  the screen: settled lists are whole, and shown or about to be by a block that waits.
  The property alone says nothing of a load that has not yet answered.

What the proofs share:

* Recursion and induction over data are out of the prover's reach, so two facts that one
  would prove by induction are proved otherwise. A nonempty set of positions has a last
  one (`LastPosition`, on which the `View` of two modules rests): by the least
  element of a well-founded order. The positions that a filter keeps have the ranks
  1, 2, ..., n (`PositionFacts`): ranks are injective, and an injection between finite
  sets of the same size reaches everything. The lemmas about the filter are stated in
  `TaskTableProofs` and in `DashboardProofs`, both of which need them.
* Each `IInv`, and `SessionInv`, was checked by TLC too, on the instance of the module's
  run.
* The theorems are about `Spec`; `FairSpec` implies it, so that they hold of the
  behaviours that the liveness properties are about, too.

Only model-checked:

* Every liveness property: `EveryChainEnds`, `DeletionAnswers`, `InputReturns`,
  `FinishEnds`, `SaveIsAnswered`, `LoadersEnd`, and `LoaderEnds` of `ProjectReader` and of
  `Onboarding`. Fairness and `ENABLED` are out of the prover's reach.
* `Filter` being `SelectSeq`, which is an induction over lists.
* `FailureReverses` and `SelectOpens`, which do not hold.

## 5. What is not modelled

* A block of the dashboard that dismisses what another screen presents on the outer
  navigation controller: whether it does depends on how UIKit resolves the presenter,
  which the code does not settle.
* The regular expressions for emails and passwords, and every text.
* One navigation stack for all the screens of a session: each module has the part of it
  that its screen sees. A module with the screens of all of them would multiply state
  spaces that meet only in Firestore and in what is presented.
* The cover in the update sheet: choosing one only decides between the two chains of
  `updateProject`, both of which are in `ProjectSession`.
* The notification tab (an empty screen), the Debouncer (unused), custom views, texts of
  errors.
* The vendored libraries under `Pods`. They are by far the largest part of the
  repository and are not Unsinkable's code: Firebase, gRPC, BoringSSL and the others
  appear as the environment that the application calls, marked external where a
  definition stands for them. What they do inside
  (retries, caches, transport) is only there as outcomes of a call.

## 6. Plan

All of the application's own components are modelled. Every invariant, action property
and refinement that a passing run checks is proved as well; the liveness properties are
model-checked. What a continuation could take up:

1. `AccountLife` joins registering and deleting only through what both implement. A module
   that composes `Onboarding` and `AccountDeletion`, with `DeleteUserComplete` replaced by
   the pipelines, would let an orphan of a deletion meet a registration.
2. `ProjectLife` has no tasks. With them it could state what `CreatedIsWhole` and
   `GoneTaskStays` say, and be implemented by `ProjectReader` as well.
3. One navigation stack for the screens of a session (section 5).
