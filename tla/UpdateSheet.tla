----------------------------- MODULE UpdateSheet -----------------------------
(***************************************************************************)
(* The update sheet over the project reader: the reader shows a copy of    *)
(* the project's title and description, the sheet edits a copy of that     *)
(* copy and saves both texts, and the reader reads the project again when  *)
(* the sheet posts childEnd -- if it still observes it -- and whenever it  *)
(* appears.  The reader's deletion of the project is here as well.         *)
(*                                                                         *)
(* The chain of calls below updateProject and deleteUserProject is that of *)
(* ProjectSession; here each is one call.  The tasks of the project are    *)
(* the subject of ProjectReader.                                           *)
(***************************************************************************)
EXTENDS Naturals

CONSTANTS
    Words,        \* what a title or a description may be
    Refreshes     \* slots: bounds the refreshes in flight

VARIABLES
    stored,       \* Firestore: the texts of the project
    exists,       \* Firestore: does the project's document exist?
    shown,        \* the reader's copy of the texts
    top,          \* the screen on top: "reader", "editor" or "left"
    observing,    \* does the reader observe childEnd?
    sheet,        \* "none", "open", "saving", or "alert" after a failure
    base, draft,  \* the texts that the sheet was opened with, and its fields
    deleting,     \* is the deletion of the project under way, behind its loader?
    refresh,      \* per slot, what a refresh waits for
    snapshot,     \* per slot, the texts that it has read
    tainted,      \* history: refreshes during which the texts have changed
    spoiled,      \* history: may the reader's copy be out of date?
    clean         \* history: was the sheet opened on a good copy, and alone since?

vars == <<stored, exists, shown, top, observing, sheet, base, draft, deleting, refresh,
          snapshot, tainted, spoiled, clean>>

reader == <<shown, top, observing>>
form == <<sheet, base, draft>>
reads == <<refresh, snapshot>>

Fields == {"title", "description"}

Texts == [Fields -> Words]

\* What the model keeps of texts that nothing reads any more.
Blank == [f \in Fields |-> CHOOSE w \in Words : TRUE]

\* Types; and the sheet, and the loader of a deletion, are in front of the reader, one at
\* a time: no refresh that fails behind them takes the reader away.
TypeOK ==
    /\ stored \in Texts /\ shown \in Texts /\ base \in Texts /\ draft \in Texts
    /\ exists \in BOOLEAN
    /\ top \in {"reader", "editor", "left"}
    /\ observing \in BOOLEAN
    /\ sheet \in {"none", "open", "saving", "alert"}
    /\ deleting \in BOOLEAN
    /\ refresh \in [Refreshes -> {"idle", "getDocument", "getTasks"}]
    /\ snapshot \in [Refreshes -> Texts]
    /\ tainted \in SUBSET Refreshes
    /\ spoiled \in BOOLEAN /\ clean \in BOOLEAN
    /\ sheet # "none" \/ deleting => top = "reader"
    /\ deleting => sheet = "none"

\* The reader is pushed with the dashboard's copy, and refreshes at once.
Init ==
    /\ stored \in Texts /\ shown \in Texts
    /\ exists = TRUE
    /\ top = "reader"
    /\ observing = TRUE
    /\ sheet = "none" /\ base = Blank /\ draft = Blank
    /\ deleting = FALSE
    /\ \E r \in Refreshes :
           refresh = [s \in Refreshes |-> IF s = r THEN "getDocument" ELSE "idle"]
    /\ snapshot = [r \in Refreshes |-> Blank]
    /\ tainted = {}
    /\ spoiled = TRUE /\ clean = FALSE

UnderWay == {r \in Refreshes : refresh[r] # "idle"}

\* The reader takes input when neither the sheet nor a loader is in front of it.
Attentive(sc) == top = sc /\ sheet = "none" /\ ~ deleting

\* refreshCurrentProject
Begin(r) ==
    /\ refresh[r] = "idle"
    /\ refresh' = [refresh EXCEPT ![r] = "getDocument"]

-----------------------------------------------------------------------------
(***************************************************************************)
(* The sheet.                                                              *)
(***************************************************************************)

\* showMoreOptions and updateProject of the coordinator; setupDelegateAndData fills
\* the fields from the reader's copy.
OpenSheet ==
    /\ Attentive("reader")
    /\ sheet' = "open"
    /\ base' = shown /\ draft' = shown
    /\ clean' = (~ spoiled /\ UnderWay = {})
    /\ UNCHANGED <<stored, exists, reader, deleting, reads, tainted, spoiled>>

TypeText ==
    /\ sheet = "open"
    /\ \E f \in Fields, w \in Words : draft' = [draft EXCEPT ![f] = w]
    /\ UNCHANGED <<stored, exists, reader, sheet, base, deleting, reads, tainted, spoiled, clean>>

\* updateProjectButton: the loader, updateLocalData with both fields, updateProject.
UpdateProject ==
    /\ sheet = "open"
    /\ sheet' = "saving"
    /\ UNCHANGED <<stored, exists, reader, base, draft, deleting, reads, tainted, spoiled, clean>>

\* Fault: the reader is told when the sheet has gone without saving only.
NotifyParentNot == UNCHANGED refresh

\* notifyParent, when the sheet disappears; displayNewData of an observing reader
\* refreshes.
NotifyParent == IF observing THEN \E r \in Refreshes : Begin(r) ELSE UNCHANGED refresh

\* The sheet and its fields are gone.
Closed == sheet' = "none" /\ base' = Blank /\ draft' = Blank /\ clean' = FALSE

\* updateProjectComplete on success: updateData has written both texts, and the loader
\* and the sheet are dismissed.
UpdateProjectSucceeds ==
    /\ sheet = "saving" /\ exists
    /\ stored' = draft
    /\ Closed
    /\ NotifyParent
    /\ tainted' = tainted \union UnderWay
    /\ spoiled' = (spoiled \/ ~ observing \/ UnderWay # {})
    /\ UNCHANGED <<exists, reader, deleting, snapshot>>

\* Fault: the loader stays in front of the sheet.
UpdateProjectFailsSilently ==
    /\ sheet = "saving"
    /\ UNCHANGED vars

\* updateProjectComplete on failure: the loader is dismissed, then the alert.
UpdateProjectFails ==
    /\ sheet = "saving"
    /\ sheet' = "alert"
    /\ UNCHANGED <<stored, exists, reader, base, draft, deleting, reads, tainted, spoiled, clean>>

\* The Ok of showUpdateAlert: the sheet is still there.
AlertOk ==
    /\ sheet = "alert"
    /\ sheet' = "open"
    /\ UNCHANGED <<stored, exists, reader, base, draft, deleting, reads, tainted, spoiled, clean>>

\* didTapGesture: the sheet goes without saving, and notifies as well.
TapBackground ==
    /\ sheet = "open"
    /\ Closed
    /\ NotifyParent
    /\ UNCHANGED <<stored, exists, reader, deleting, snapshot, tainted, spoiled>>

-----------------------------------------------------------------------------
(***************************************************************************)
(* The reader.                                                             *)
(***************************************************************************)

\* A task is selected: viewWillDisappear removes the observer.
OpenEditor ==
    /\ Attentive("reader")
    /\ top' = "editor"
    /\ observing' = FALSE
    /\ UNCHANGED <<stored, exists, shown, form, deleting, reads, tainted, spoiled, clean>>

\* viewWillAppear refreshes and adds no observer.
Back ==
    /\ Attentive("editor")
    /\ top' = "reader"
    /\ \E r \in Refreshes : Begin(r)
    /\ UNCHANGED <<stored, exists, shown, observing, form, deleting, snapshot, tainted, spoiled, clean>>

\* The confirmation dialog: the loader, and deleteProject.
DeleteProject ==
    /\ Attentive("reader")
    /\ deleting' = TRUE
    /\ UNCHANGED <<stored, exists, reader, form, reads, tainted, spoiled, clean>>

\* deleteProjectComplete: pops on success; on failure the loader goes and an alert
\* comes.  The document may be gone in either case.
DeleteProjectComplete ==
    /\ deleting
    /\ deleting' = FALSE
    /\ \/ exists' = FALSE /\ top' = "left"
       \/ exists' \in {exists, FALSE} /\ UNCHANGED top
    /\ UNCHANGED <<stored, shown, observing, form, reads, tainted, spoiled, clean>>

\* Fault: the reader is popped at once, instead of by the Ok of an alert.
RefreshFailedPops(r) ==
    /\ spoiled' = TRUE
    /\ tainted' = tainted \ {r}
    /\ top' = IF top = "editor" THEN "reader" ELSE "left"
    /\ refresh' = [refresh EXCEPT ![r] = IF top = "editor" THEN "getDocument" ELSE "idle"]
    /\ snapshot' = [snapshot EXCEPT ![r] = Blank]
    /\ UNCHANGED shown

\* alertThatNeedPop is not presented over a sheet or a loader; otherwise its Ok pops,
\* and a reader that appears refreshes again.
RefreshFailed(r) ==
    /\ spoiled' = TRUE
    /\ tainted' = tainted \ {r}
    /\ IF Attentive("editor")
       THEN top' = "reader" /\ refresh' = [refresh EXCEPT ![r] = "getDocument"]
       ELSE /\ top' = IF Attentive("reader") THEN "left" ELSE top
            /\ refresh' = [refresh EXCEPT ![r] = "idle"]
    /\ snapshot' = [snapshot EXCEPT ![r] = Blank]
    /\ UNCHANGED shown

\* projectRef.getDocument
GetDocument(r) ==
    /\ refresh[r] = "getDocument"
    /\ \/ /\ exists
          /\ snapshot' = [snapshot EXCEPT ![r] = stored]
          /\ refresh' = [refresh EXCEPT ![r] = "getTasks"]
          /\ UNCHANGED <<shown, top, tainted, spoiled>>
       \/ RefreshFailed(r)
    /\ UNCHANGED <<stored, exists, observing, form, deleting, clean>>

\* Fault: the project that was read is not kept.
GetTasksKeepsCopy(r) ==
    /\ refresh[r] = "getTasks"
    /\ \/ /\ refresh' = [refresh EXCEPT ![r] = "idle"]
          /\ snapshot' = [snapshot EXCEPT ![r] = Blank]
          /\ spoiled' = (r \in tainted)
          /\ tainted' = tainted \ {r}
          /\ UNCHANGED <<shown, top>>
       \/ RefreshFailed(r)
    /\ UNCHANGED <<stored, exists, observing, form, deleting, clean>>

\* tasksRef.getDocuments; selectedProject is replaced and configureViewController
\* shows it.
GetTasks(r) ==
    /\ refresh[r] = "getTasks"
    /\ \/ /\ shown' = snapshot[r]
          /\ refresh' = [refresh EXCEPT ![r] = "idle"]
          /\ spoiled' = (r \in tainted)
          /\ tainted' = tainted \ {r}
          /\ snapshot' = [snapshot EXCEPT ![r] = Blank]
          /\ UNCHANGED top
       \/ RefreshFailed(r)
    /\ UNCHANGED <<stored, exists, observing, form, deleting, clean>>

\* Another device saves another text, or deletes the project.
OtherDevice ==
    /\ exists /\ top # "left"
    /\ \/ \E f \in Fields, w \in Words : stored' = [stored EXCEPT ![f] = w] /\ UNCHANGED exists
       \/ exists' = FALSE /\ UNCHANGED stored
    /\ tainted' = UnderWay
    /\ spoiled' = TRUE
    /\ clean' = FALSE
    /\ UNCHANGED <<reader, form, deleting, reads>>

-----------------------------------------------------------------------------

Next ==
    \/ OpenSheet \/ TypeText \/ UpdateProject \/ AlertOk \/ TapBackground
    \/ UpdateProjectSucceeds \/ UpdateProjectFails
    \/ OpenEditor \/ Back
    \/ DeleteProject \/ DeleteProjectComplete
    \/ \E r \in Refreshes : GetDocument(r) \/ GetTasks(r)
    \/ OtherDevice

Spec == Init /\ [][Next]_vars

\* The SDKs complete every call once the device is connected.
FairSpec ==
    /\ Spec
    /\ WF_vars(UpdateProjectSucceeds \/ UpdateProjectFails)
    /\ WF_vars(DeleteProjectComplete)
    /\ \A r \in Refreshes : WF_vars(GetDocument(r)) /\ WF_vars(GetTasks(r))

-----------------------------------------------------------------------------
(***************************************************************************)
(* Properties.                                                             *)
(***************************************************************************)

\* At rest the reader shows the texts that are stored, after saving them with the sheet
\* as well, unless a read failed or crossed a change, another device changed them, or
\* the sheet was saved after the reader had stopped observing it.
SettledHeader ==
    Attentive("reader") /\ UnderWay = {} /\ ~ spoiled => shown = stored

\* Saving changes only the text that the user has changed, although both are written:
\* the sheet starts from a copy of a copy, which is what is stored as long as the
\* reader is up to date.
UntouchedTextKeeps ==
    [][sheet = "saving" /\ sheet' = "none" /\ clean
          => \A f \in Fields : draft[f] = base[f] => stored'[f] = stored[f]]_vars

\* The loaders of saving and of deleting go away, whatever fails.
LoadersEnd == sheet = "saving" \/ deleting ~> sheet # "saving" /\ ~ deleting
=============================================================================
