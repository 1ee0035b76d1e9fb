---------------------------- MODULE ProjectSession ----------------------------
(***************************************************************************)
(* The three operations of ProjectSession.swift that change a project as a *)
(* whole: registerUserProject, updateProject and deleteUserProject.  Each  *)
(* is a chain of asynchronous calls to three services (Firestore, Storage  *)
(* and a cloud function); the completion of one call issues the next, and  *)
(* an error anywhere ends the chain with an error and undoes nothing.      *)
(*                                                                         *)
(* A device runs one chain at a time (a loader covers its screen); the     *)
(* same account may be used on several devices.  An app may be killed      *)
(* between two calls of a chain.                                           *)
(***************************************************************************)
EXTENDS Naturals

CONSTANTS
    Projects,     \* project identifiers (UUIDs)
    Devices,      \* devices signed in to the account
    MaxUploads    \* bound on the number of uploads of cover pictures

ASSUME MaxUploadsAssumption == MaxUploads \in Nat

VARIABLES
    document,     \* Firestore: the downloadUrl in a project's document, or Absent
    cover,        \* Storage: the upload at Users/<owner>/<project>.jpeg, or Absent
    uploads,      \* number of uploads so far; the n-th upload has URL n
    known,        \* projects whose document was stored: what a dashboard can list
    fresh,        \* project identifiers createProjectObject has not drawn yet
    chain,        \* per device, the call it waits for
    answer,       \* per device, the last completion handed to its screen
    torn          \* history: projects a chain of which was cut short or overlapped

vars == <<document, cover, uploads, known, fresh, chain, answer, torn>>

(***************************************************************************)
(* Uploads are numbered from 1.  A download URL carries a token of its     *)
(* upload, so a URL resolves only while that very upload is in place.      *)
(***************************************************************************)
Absent == 0

Idle == [op |-> "idle", project |-> "none", step |-> "none", url |-> Absent]

Ops == {"register", "update", "updateText", "delete"}

Steps == {"putData", "downloadURL", "setData",
          "deleteOld", "updateData", "deleteFn", "deleteCover"}

Chains == [op : Ops, project : Projects, step : Steps, url : 0..MaxUploads]

TypeOK ==
    /\ document \in [Projects -> 0..MaxUploads]
    /\ cover \in [Projects -> 0..MaxUploads]
    /\ uploads \in 0..MaxUploads
    /\ known \in SUBSET Projects
    /\ fresh \in SUBSET Projects
    /\ chain \in [Devices -> Chains \union {Idle}]
    /\ answer \in [Devices -> {"none", "success", "failure"}]
    /\ torn \in SUBSET Projects

Busy(d) == chain[d].op # "idle"

\* d waits for the completion of call s.
Waits(d, s) == Busy(d) /\ chain[d].step = s

OnProject(d, p) == Busy(d) /\ chain[d].project = p

Init ==
    /\ document = [p \in Projects |-> Absent]
    /\ cover = [p \in Projects |-> Absent]
    /\ uploads = 0
    /\ known = {}
    /\ fresh = Projects
    /\ chain = [d \in Devices |-> Idle]
    /\ answer = [d \in Devices |-> "none"]
    /\ torn = {}

-----------------------------------------------------------------------------
(***************************************************************************)
(* Starting, ending and continuing a chain.                                *)
(***************************************************************************)

\* The project is torn when its chain starts while another one is under way.
Start(d, o, p, s) ==
    /\ ~ Busy(d)
    /\ chain' = [chain EXCEPT ![d] =
                    [op |-> o, project |-> p, step |-> s, url |-> Absent]]
    /\ answer' = [answer EXCEPT ![d] = "none"]
    /\ torn' = IF \E e \in Devices : OnProject(e, p) THEN torn \union {p} ELSE torn

GoOn(d, s, u) ==
    /\ chain' = [chain EXCEPT ![d] =
                    [op |-> @.op, project |-> @.project, step |-> s, url |-> u]]
    /\ UNCHANGED <<answer, torn>>

Succeed(d) ==
    /\ chain' = [chain EXCEPT ![d] = Idle]
    /\ answer' = [answer EXCEPT ![d] = "success"]
    /\ UNCHANGED torn

\* Fault: an error branch that returns without calling completion.
SilentFail(d) ==
    /\ chain' = [chain EXCEPT ![d].step = "none"]
    /\ torn' = torn \union {chain[d].project}
    /\ UNCHANGED answer

\* completion(error): the chain stops where it is.
Fail(d) ==
    /\ chain' = [chain EXCEPT ![d] = Idle]
    /\ answer' = [answer EXCEPT ![d] = "failure"]
    /\ torn' = torn \union {chain[d].project}

-----------------------------------------------------------------------------
(***************************************************************************)
(* The calls the screens make.                                             *)
(***************************************************************************)

\* Fault: an identifier that another project may have.
RegisterProjectReused(d) ==
    \E p \in Projects :
        /\ Start(d, "register", p, "putData")
        /\ fresh' = fresh \ {p}
        /\ UNCHANGED <<document, cover, uploads, known>>

RegisterProject(d) ==
    \E p \in fresh :
        /\ Start(d, "register", p, "putData")
        /\ fresh' = fresh \ {p}
        /\ UNCHANGED <<document, cover, uploads, known>>

\* withCover is the test coverPicture != nil.
UpdateProject(d) ==
    \E p \in known, withCover \in BOOLEAN :
        /\ IF withCover THEN Start(d, "update", p, "deleteOld")
                        ELSE Start(d, "updateText", p, "updateData")
        /\ UNCHANGED <<document, cover, uploads, known, fresh>>

DeleteProject(d) ==
    \E p \in known :
        /\ Start(d, "delete", p, "deleteFn")
        /\ UNCHANGED <<document, cover, uploads, known, fresh>>

-----------------------------------------------------------------------------
(***************************************************************************)
(* The completions.  A Storage or cloud function call may fail before or   *)
(* after its effect (a lost answer); a Firestore write that is reported as *)
(* an error had none.                                                      *)
(***************************************************************************)

\* storageRef.putData, in registerUserProject and in updateProject.
PutData(d) ==
    LET p == chain[d].project IN
    /\ Waits(d, "putData")
    /\ \/ /\ uploads < MaxUploads
          /\ uploads' = uploads + 1
          /\ cover' = [cover EXCEPT ![p] = uploads + 1]
          /\ GoOn(d, "downloadURL", Absent) \/ Fail(d)
       \/ Fail(d) /\ UNCHANGED <<uploads, cover>>
    /\ UNCHANGED <<document, known, fresh>>

\* storageRef.downloadURL: the URL of whatever upload is there when it runs.
DownloadURL(d) ==
    LET p == chain[d].project IN
    /\ Waits(d, "downloadURL")
    /\ \/ /\ cover[p] # Absent
          /\ GoOn(d, IF chain[d].op = "register" THEN "setData" ELSE "updateData",
                  cover[p])
       \/ Fail(d)
    /\ UNCHANGED <<document, cover, uploads, known, fresh>>

\* documentRef.setData in registerUserProject: creates the document.
SetData(d) ==
    LET p == chain[d].project IN
    /\ Waits(d, "setData")
    /\ \/ /\ document' = [document EXCEPT ![p] = chain[d].url]
          /\ known' = known \union {p}
          /\ Succeed(d)
       \/ Fail(d) /\ UNCHANGED <<document, known>>
    /\ UNCHANGED <<cover, uploads, fresh>>

\* Fault: the new URL is left out of the fields that updateData writes.
UpdatedTextOnly(d) == document[chain[d].project]

\* What updateData leaves in the document; without a cover it does not name the URL.
Updated(d) == IF chain[d].op = "update" THEN chain[d].url
                                        ELSE document[chain[d].project]

\* Fault: setData where updateData is meant; it creates a missing document.
UpdateDataUpserts(d) ==
    LET p == chain[d].project IN
    /\ Waits(d, "updateData")
    /\ \/ document' = [document EXCEPT ![p] = Updated(d)] /\ Succeed(d)
       \/ Fail(d) /\ UNCHANGED document
    /\ UNCHANGED <<cover, uploads, known, fresh>>

\* projectRef.updateData in updateProject: fails when there is no document.
UpdateData(d) ==
    LET p == chain[d].project IN
    /\ Waits(d, "updateData")
    /\ \/ /\ document[p] # Absent
          /\ document' = [document EXCEPT ![p] = Updated(d)]
          /\ Succeed(d)
       \/ Fail(d) /\ UNCHANGED document
    /\ UNCHANGED <<cover, uploads, known, fresh>>

\* storageRef.delete fails when there is no object.
Erased(d) == [cover EXCEPT ![chain[d].project] = Absent]

\* The deletion of the old cover, which must succeed before the new one is put.
DeleteOld(d) ==
    /\ Waits(d, "deleteOld")
    /\ \/ /\ cover[chain[d].project] # Absent
          /\ cover' = Erased(d)
          /\ GoOn(d, "putData", Absent) \/ Fail(d)
       \/ Fail(d) /\ UNCHANGED cover
    /\ UNCHANGED <<document, uploads, known, fresh>>

\* The cloud function that deletes the document and what lies below it.
DeleteFn(d) ==
    LET p == chain[d].project IN
    /\ Waits(d, "deleteFn")
    /\ \/ /\ document' = [document EXCEPT ![p] = Absent]
          /\ GoOn(d, "deleteCover", Absent) \/ Fail(d)
       \/ Fail(d) /\ UNCHANGED document
    /\ UNCHANGED <<cover, uploads, known, fresh>>

\* The deletion of the cover, once the document is gone.
DeleteCover(d) ==
    /\ Waits(d, "deleteCover")
    /\ \/ /\ cover[chain[d].project] # Absent
          /\ cover' = Erased(d)
          /\ Succeed(d) \/ Fail(d)
       \/ Fail(d) /\ UNCHANGED cover
    /\ UNCHANGED <<document, uploads, known, fresh>>

\* The app is killed: nothing of the chain is persisted, so it is never resumed.
Crash(d) ==
    /\ Busy(d)
    /\ chain' = [chain EXCEPT ![d] = Idle]
    /\ answer' = [answer EXCEPT ![d] = "none"]
    /\ torn' = torn \union {chain[d].project}
    /\ UNCHANGED <<document, cover, uploads, known, fresh>>

-----------------------------------------------------------------------------

Call(d) == RegisterProject(d) \/ UpdateProject(d) \/ DeleteProject(d)

Completion(d) ==
    \/ PutData(d)
    \/ DownloadURL(d)
    \/ SetData(d)
    \/ UpdateData(d)
    \/ DeleteOld(d)
    \/ DeleteFn(d)
    \/ DeleteCover(d)

Next == \E d \in Devices : Call(d) \/ Completion(d) \/ Crash(d)

Spec == Init /\ [][Next]_vars

\* The SDKs hand every call its completion once the device is connected.
FairSpec == Spec /\ \A d \in Devices : WF_vars(Completion(d))

-----------------------------------------------------------------------------
(***************************************************************************)
(* Properties.                                                             *)
(***************************************************************************)

Unattended(p) == \A d \in Devices : ~ OnProject(d, p)

\* A project that no chain is working on, and none of whose chains failed, was
\* killed or met another one, is whole: its document names the cover in place,
\* or neither exists.  This is what registering, replacing the cover and
\* deleting promise together when nothing goes wrong.
SettledProjectIsWhole ==
    \A p \in Projects :
        Unattended(p) /\ p \notin torn => document[p] = cover[p]

\* A registration that reports success leaves a document that names the cover in
\* place, whatever the other devices do meanwhile: the identifier is fresh, and
\* nobody can list the project before setData stores it.
RegisteredIsWhole ==
    [][\A d \in Devices :
          LET p == chain[d].project IN
          chain[d].op = "register" /\ answer'[d] = "success"
              => document'[p] = cover'[p] /\ cover'[p] # Absent]_vars

\* A deleted project never comes back, whatever a chain of another device still
\* has under way: updateProject uses updateData, which creates no document.
NoResurrection ==
    [][\A p \in known : document[p] = Absent => document'[p] = Absent]_vars

\* d has deleted the cover of p, or is putting one in place.
Putting(d, p) == OnProject(d, p) /\ chain[d].step = "putData"

CoverLost(p) == p \in known /\ cover[p] = Absent /\ \A d \in Devices : ~ Putting(d, p)

\* A cover that was lost half way through updateProject is lost for good: every
\* later updateProject stops at the deletion of the old cover, which is no longer
\* there, so no retry brings a picture back.
CoverLossIsPermanent ==
    [][\A p \in Projects : CoverLost(p) => CoverLost(p)']_vars

\* Every chain ends: the screen that waits behind its loader gets its completion.
EveryChainEnds == \A d \in Devices : Busy(d) ~> ~ Busy(d)

\* What a dashboard makes of a project.
LifeOf(p) ==
    IF p \notin known THEN "unborn"
    ELSE IF document[p] = Absent THEN "deleted"
    ELSE IF CoverLost(p) THEN "bare" ELSE "listed"

Life == INSTANCE ProjectLife WITH life <- [p \in Projects |-> LifeOf(p)]

\* The chains of calls of all the devices together, with their failures, crashes and
\* overlaps, implement the life of ProjectLife: each completion moves at most one
\* project, a project is first seen with its document and its cover in place, and
\* neither a cover that was lost nor a document that was deleted comes back.  It
\* implies NoResurrection, and CoverLossIsPermanent for the projects that are listed.
ImplementsProjectLife == Life!Spec

=============================================================================
