------------------------ MODULE ProjectSessionProofs ------------------------
(***************************************************************************)
(* Proofs, for any number of devices, projects and uploads, of the safety  *)
(* properties of ProjectSession.                                           *)
(***************************************************************************)
EXTENDS ProjectSession, TLAPS

(***************************************************************************)
(* The inductive invariant.                                                *)
(***************************************************************************)

\* The steps each operation goes through.
StepsInv ==
    \A d \in Devices :
        /\ chain[d].op = "register" =>
               chain[d].step \in {"putData", "downloadURL", "setData"}
        /\ chain[d].op = "update" =>
               chain[d].step \in {"deleteOld", "putData", "downloadURL", "updateData"}
        /\ chain[d].op = "updateText" => chain[d].step = "updateData"
        /\ chain[d].op = "delete" => chain[d].step \in {"deleteFn", "deleteCover"}

\* Nobody has touched an identifier that was not drawn.
FreshInv ==
    \A p \in fresh :
        /\ p \notin known
        /\ document[p] = Absent
        /\ cover[p] = Absent
        /\ Unattended(p)

\* A registration has its project to itself until setData stores it.
RegisterInv ==
    \A d \in Devices :
        LET p == chain[d].project IN
        chain[d].op = "register" =>
            /\ p \notin known
            /\ document[p] = Absent
            /\ \A e \in Devices \ {d} : ~ OnProject(e, p)
            /\ chain[d].step = "putData" => cover[p] = Absent
            /\ chain[d].step = "downloadURL" => cover[p] # Absent
            /\ chain[d].step = "setData" => chain[d].url = cover[p] /\ cover[p] # Absent

\* A device that waits has not been answered.
AnswerInv == \A d \in Devices : Busy(d) => answer[d] = "none"

\* A project that is not torn has at most one chain.
AloneInv ==
    \A d, e \in Devices :
        Busy(d) /\ Busy(e) /\ d # e /\ chain[d].project = chain[e].project
            => chain[d].project \in torn

\* How far the only chain of such a project has come.
Halfway(d) ==
    LET p == chain[d].project IN
    /\ chain[d].step \in {"deleteOld", "deleteFn"} => document[p] = cover[p]
    /\ chain[d].step = "deleteCover" => document[p] = Absent
    /\ chain[d].op = "updateText" => document[p] = cover[p]
    /\ chain[d].op = "update" /\ chain[d].step = "updateData" => chain[d].url = cover[p]

HalfwayInv ==
    \A d \in Devices : Busy(d) /\ chain[d].project \notin torn => Halfway(d)

IInv ==
    /\ TypeOK
    /\ StepsInv
    /\ FreshInv
    /\ RegisterInv
    /\ AnswerInv
    /\ AloneInv
    /\ HalfwayInv
    /\ SettledProjectIsWhole

-----------------------------------------------------------------------------
(***************************************************************************)
(* Type correctness.                                                       *)
(***************************************************************************)

\* A call that starts keeps the types.
LEMMA StartType ==
    ASSUME TypeOK, NEW d \in Devices, NEW o \in Ops, NEW p \in Projects,
           NEW s \in Steps, Start(d, o, p, s)
    PROVE  /\ chain' \in [Devices -> Chains \union {Idle}]
           /\ answer' \in [Devices -> {"none", "success", "failure"}]
           /\ torn' \in SUBSET Projects
    BY MaxUploadsAssumption DEF TypeOK, Start, Chains, Absent

\* A chain that goes on to its next step keeps the types.
LEMMA GoOnType ==
    ASSUME TypeOK, NEW d \in Devices, Busy(d), NEW s \in Steps,
           NEW u \in 0..MaxUploads, GoOn(d, s, u)
    PROVE  /\ chain' \in [Devices -> Chains \union {Idle}]
           /\ answer' \in [Devices -> {"none", "success", "failure"}]
           /\ torn' \in SUBSET Projects
<1>1. chain[d] \in Chains
  BY DEF TypeOK, Busy, Idle
<1>2. [op |-> chain[d].op, project |-> chain[d].project, step |-> s, url |-> u] \in Chains
  BY <1>1 DEF Chains
<1> QED
  BY <1>2 DEF TypeOK, GoOn

\* A chain that ends, with success or an error, keeps the types.
LEMMA EndType ==
    ASSUME TypeOK, NEW d \in Devices, Busy(d), Succeed(d) \/ Fail(d)
    PROVE  /\ chain' \in [Devices -> Chains \union {Idle}]
           /\ answer' \in [Devices -> {"none", "success", "failure"}]
           /\ torn' \in SUBSET Projects
    BY DEF TypeOK, Succeed, Fail, Chains, Busy, Idle

\* A busy chain is a record of its project, step and url.
LEMMA ChainType ==
    ASSUME TypeOK, NEW d \in Devices, Busy(d)
    PROVE  /\ chain[d] \in Chains
           /\ chain[d].project \in Projects
           /\ chain[d].url \in 0..MaxUploads
    BY DEF TypeOK, Busy, Idle, Chains

\* Every step of every device keeps the types.
LEMMA TypeStep ==
    ASSUME TypeOK, NEW d \in Devices, Call(d) \/ Completion(d) \/ Crash(d)
    PROVE  TypeOK'
<1> USE MaxUploadsAssumption DEF Absent
<1>1. CASE RegisterProject(d)
  BY <1>1, StartType DEF TypeOK, RegisterProject, Ops, Steps
<1>2. CASE UpdateProject(d)
  BY <1>2, StartType DEF TypeOK, UpdateProject, Ops, Steps
<1>3. CASE DeleteProject(d)
  BY <1>3, StartType DEF TypeOK, DeleteProject, Ops, Steps
<1>4. CASE PutData(d)
  BY <1>4, GoOnType, EndType, ChainType DEF TypeOK, PutData, Waits, Steps
<1>5. CASE DownloadURL(d)
  BY <1>5, GoOnType, EndType, ChainType DEF TypeOK, DownloadURL, Waits, Steps
<1>6. CASE SetData(d)
  BY <1>6, EndType, ChainType DEF TypeOK, SetData, Waits
<1>7. CASE UpdateData(d)
  BY <1>7, EndType, ChainType DEF TypeOK, UpdateData, Updated, Waits
<1>8. CASE DeleteOld(d)
  BY <1>8, GoOnType, EndType, ChainType DEF TypeOK, DeleteOld, Erased, Waits, Steps
<1>9. CASE DeleteFn(d)
  BY <1>9, GoOnType, EndType, ChainType DEF TypeOK, DeleteFn, Waits, Steps
<1>10. CASE DeleteCover(d)
  BY <1>10, EndType, ChainType DEF TypeOK, DeleteCover, Erased, Waits
<1>11. CASE Crash(d)
  BY <1>11, ChainType DEF TypeOK, Crash
<1> QED
  BY <1>1, <1>2, <1>3, <1>4, <1>5, <1>6, <1>7, <1>8, <1>9, <1>10, <1>11
     DEF Call, Completion

\* The document, the covers, the chains and the answers keep their types,
\* whatever calls the devices make and however those end.
THEOREM TypeCorrect == Spec => []TypeOK
<1>1. Init => TypeOK
  BY MaxUploadsAssumption DEF Init, TypeOK, Absent
<1>2. TypeOK /\ [Next]_vars => TypeOK'
  <2>1. ASSUME TypeOK, UNCHANGED vars
        PROVE  TypeOK'
    BY <2>1 DEF TypeOK, vars
  <2>2. QED
    BY <2>1, TypeStep DEF Next
<1>3. QED
  BY <1>1, <1>2, PTL DEF Spec

-----------------------------------------------------------------------------
(***************************************************************************)
(* IInv is inductive: one lemma per action, one step per conjunct.         *)
(***************************************************************************)

\* registerUserProject draws an identifier nobody has touched.
LEMMA RegisterProjectStep ==
    ASSUME IInv, NEW d \in Devices, RegisterProject(d)
    PROVE  IInv'
<1> USE DEF IInv, TypeOK, Chains, Idle, Absent, Busy, RegisterProject, Start
<1>1. TypeOK'
  BY TypeStep DEF Call, Completion
<1>2. StepsInv'
  BY DEF StepsInv
<1>3. FreshInv'
  BY DEF FreshInv, Unattended, OnProject
<1>4. RegisterInv'
  BY DEF RegisterInv, OnProject, FreshInv, Unattended
<1>5. AloneInv'
  BY DEF AloneInv, RegisterInv, OnProject
<1>6. HalfwayInv'
  BY DEF HalfwayInv, Halfway
<1>7. SettledProjectIsWhole'
  BY DEF SettledProjectIsWhole, Unattended, OnProject
<1>8. AnswerInv'
  BY DEF AnswerInv
<1> QED
  BY <1>1, <1>2, <1>3, <1>4, <1>5, <1>6, <1>7, <1>8

\* updateProject starts on a known project.
LEMMA UpdateProjectStep ==
    ASSUME IInv, NEW d \in Devices, UpdateProject(d)
    PROVE  IInv'
<1> USE DEF IInv, TypeOK, Chains, Idle, Absent, Busy, UpdateProject, Start
<1>1. TypeOK'
  BY TypeStep DEF Call, Completion
<1>2. StepsInv'
  BY DEF StepsInv
<1>3. FreshInv'
  BY DEF FreshInv, Unattended, OnProject
<1>4. RegisterInv'
  BY DEF RegisterInv, OnProject
<1>5. AloneInv'
  BY DEF AloneInv, RegisterInv, OnProject
<1>6. HalfwayInv'
  BY DEF HalfwayInv, Halfway, SettledProjectIsWhole, Unattended, OnProject
<1>7. SettledProjectIsWhole'
  BY DEF SettledProjectIsWhole, Unattended, OnProject
<1>8. AnswerInv'
  BY DEF AnswerInv
<1> QED
  BY <1>1, <1>2, <1>3, <1>4, <1>5, <1>6, <1>7, <1>8

\* deleteUserProject starts on a known project.
LEMMA DeleteProjectStep ==
    ASSUME IInv, NEW d \in Devices, DeleteProject(d)
    PROVE  IInv'
<1> USE DEF IInv, TypeOK, Chains, Idle, Absent, Busy, DeleteProject, Start
<1>1. TypeOK'
  BY TypeStep DEF Call, Completion
<1>2. StepsInv'
  BY DEF StepsInv
<1>3. FreshInv'
  BY DEF FreshInv, Unattended, OnProject
<1>4. RegisterInv'
  BY DEF RegisterInv, OnProject
<1>5. AloneInv'
  BY DEF AloneInv, RegisterInv, OnProject
<1>6. HalfwayInv'
  BY DEF HalfwayInv, Halfway, SettledProjectIsWhole, Unattended, OnProject
<1>7. SettledProjectIsWhole'
  BY DEF SettledProjectIsWhole, Unattended, OnProject
<1>8. AnswerInv'
  BY DEF AnswerInv
<1> QED
  BY <1>1, <1>2, <1>3, <1>4, <1>5, <1>6, <1>7, <1>8

\* Uploading a cover keeps the invariant.
LEMMA PutDataStep ==
    ASSUME IInv, NEW d \in Devices, PutData(d)
    PROVE  IInv'
<1> USE DEF IInv, TypeOK, Chains, Idle, Absent, Busy, PutData, Waits, GoOn, Fail
<1>1. TypeOK'
  BY TypeStep DEF Call, Completion
<1>2. StepsInv'
  BY DEF StepsInv
<1>3. FreshInv'
  BY DEF FreshInv, Unattended, OnProject
<1>4. RegisterInv'
  BY DEF RegisterInv, OnProject
<1>5. AloneInv'
  BY DEF AloneInv
<1>6. HalfwayInv'
  BY DEF HalfwayInv, Halfway, StepsInv, AloneInv
<1>7. SettledProjectIsWhole'
  BY DEF SettledProjectIsWhole, Unattended, OnProject
<1>8. AnswerInv'
  BY DEF AnswerInv
<1> QED
  BY <1>1, <1>2, <1>3, <1>4, <1>5, <1>6, <1>7, <1>8

\* Reading back the url of the cover keeps the invariant.
LEMMA DownloadURLStep ==
    ASSUME IInv, NEW d \in Devices, DownloadURL(d)
    PROVE  IInv'
<1> USE DEF IInv, TypeOK, Chains, Idle, Absent, Busy, DownloadURL, Waits, GoOn, Fail
<1>1. TypeOK'
  BY TypeStep DEF Call, Completion
<1>2. StepsInv'
  BY DEF StepsInv
<1>3. FreshInv'
  BY DEF FreshInv, Unattended, OnProject
<1>4. RegisterInv'
  BY DEF RegisterInv, OnProject
<1>5. AloneInv'
  BY DEF AloneInv
<1>6. HalfwayInv'
  BY DEF HalfwayInv, Halfway
<1>7. SettledProjectIsWhole'
  BY DEF SettledProjectIsWhole, Unattended, OnProject
<1>8. AnswerInv'
  BY DEF AnswerInv
<1> QED
  BY <1>1, <1>2, <1>3, <1>4, <1>5, <1>6, <1>7, <1>8

\* Storing a new document keeps the invariant.
LEMMA SetDataStep ==
    ASSUME IInv, NEW d \in Devices, SetData(d)
    PROVE  IInv'
<1> USE DEF IInv, TypeOK, Chains, Idle, Absent, Busy, SetData, Waits, Succeed, Fail
<1>1. TypeOK'
  BY TypeStep DEF Call, Completion
<1>2. StepsInv'
  BY DEF StepsInv
<1>3. FreshInv'
  BY DEF FreshInv, Unattended, OnProject
<1>4. RegisterInv'
  BY DEF RegisterInv, OnProject
<1>5. AloneInv'
  BY DEF AloneInv
<1>6. HalfwayInv'
  BY DEF HalfwayInv, Halfway, AloneInv
<1>7. SettledProjectIsWhole'
  <2> SUFFICES ASSUME NEW p \in Projects, Unattended(p)', p \notin torn'
               PROVE  (document[p] = cover[p])'
    BY DEF SettledProjectIsWhole
  <2>1. CASE p = chain[d].project
    BY <2>1 DEF RegisterInv, StepsInv, Ops
  <2>2. CASE p # chain[d].project
    <3>1. Unattended(p)
      BY <2>2 DEF Unattended, OnProject
    <3> QED
      BY <2>2, <3>1 DEF SettledProjectIsWhole
  <2> QED
    BY <2>1, <2>2
<1>8. AnswerInv'
  BY DEF AnswerInv
<1> QED
  BY <1>1, <1>2, <1>3, <1>4, <1>5, <1>6, <1>7, <1>8

\* Updating a document, if it is there, keeps the invariant.
LEMMA UpdateDataStep ==
    ASSUME IInv, NEW d \in Devices, UpdateData(d)
    PROVE  IInv'
<1> USE DEF IInv, TypeOK, Chains, Idle, Absent, Busy, UpdateData, Updated, Waits, Succeed, Fail
<1>1. TypeOK'
  BY TypeStep DEF Call, Completion
<1>2. StepsInv'
  BY DEF StepsInv
<1>3. FreshInv'
  BY DEF FreshInv, Unattended, OnProject
<1>4. RegisterInv'
  BY DEF RegisterInv, OnProject
<1>5. AloneInv'
  BY DEF AloneInv
<1>6. HalfwayInv'
  BY DEF HalfwayInv, Halfway
<1>7. SettledProjectIsWhole'
  <2> SUFFICES ASSUME NEW p \in Projects, Unattended(p)', p \notin torn'
               PROVE  (document[p] = cover[p])'
    BY DEF SettledProjectIsWhole
  <2>1. CASE p = chain[d].project
    BY <2>1 DEF HalfwayInv, Halfway, StepsInv, Ops
  <2>2. CASE p # chain[d].project
    <3>1. Unattended(p)
      BY <2>2 DEF Unattended, OnProject
    <3> QED
      BY <2>2, <3>1 DEF SettledProjectIsWhole
  <2> QED
    BY <2>1, <2>2
<1>8. AnswerInv'
  BY DEF AnswerInv
<1> QED
  BY <1>1, <1>2, <1>3, <1>4, <1>5, <1>6, <1>7, <1>8

\* Deleting the old cover before a new upload keeps the invariant.
LEMMA DeleteOldStep ==
    ASSUME IInv, NEW d \in Devices, DeleteOld(d)
    PROVE  IInv'
<1> USE DEF IInv, TypeOK, Chains, Idle, Absent, Busy, DeleteOld, Erased, Waits, GoOn, Fail
<1>1. TypeOK'
  BY TypeStep DEF Call, Completion
<1>2. StepsInv'
  BY DEF StepsInv
<1>3. FreshInv'
  BY DEF FreshInv, Unattended, OnProject
<1>4. RegisterInv'
  BY DEF RegisterInv, OnProject
<1>5. AloneInv'
  BY DEF AloneInv
<1>6. HalfwayInv'
  BY DEF HalfwayInv, Halfway, StepsInv, AloneInv
<1>7. SettledProjectIsWhole'
  BY DEF SettledProjectIsWhole, Unattended, OnProject
<1>8. AnswerInv'
  BY DEF AnswerInv
<1> QED
  BY <1>1, <1>2, <1>3, <1>4, <1>5, <1>6, <1>7, <1>8

\* Deleting the document through the cloud function keeps the invariant.
LEMMA DeleteFnStep ==
    ASSUME IInv, NEW d \in Devices, DeleteFn(d)
    PROVE  IInv'
<1> USE DEF IInv, TypeOK, Chains, Idle, Absent, Busy, DeleteFn, Waits, GoOn, Fail
<1>1. TypeOK'
  BY TypeStep DEF Call, Completion
<1>2. StepsInv'
  BY DEF StepsInv
<1>3. FreshInv'
  BY DEF FreshInv, Unattended, OnProject
<1>4. RegisterInv'
  BY DEF RegisterInv, OnProject
<1>5. AloneInv'
  BY DEF AloneInv
<1>6. HalfwayInv'
  BY DEF HalfwayInv, Halfway, StepsInv, AloneInv
<1>7. SettledProjectIsWhole'
  BY DEF SettledProjectIsWhole, Unattended, OnProject
<1>8. AnswerInv'
  BY DEF AnswerInv
<1> QED
  BY <1>1, <1>2, <1>3, <1>4, <1>5, <1>6, <1>7, <1>8

\* Deleting the cover of a deleted project keeps the invariant.
LEMMA DeleteCoverStep ==
    ASSUME IInv, NEW d \in Devices, DeleteCover(d)
    PROVE  IInv'
<1> USE DEF IInv, TypeOK, Chains, Idle, Absent, Busy, DeleteCover, Erased, Waits, Succeed, Fail
<1>1. TypeOK'
  BY TypeStep DEF Call, Completion
<1>2. StepsInv'
  BY DEF StepsInv
<1>3. FreshInv'
  BY DEF FreshInv, Unattended, OnProject
<1>4. RegisterInv'
  BY DEF RegisterInv, OnProject
<1>5. AloneInv'
  BY DEF AloneInv
<1>6. HalfwayInv'
  BY DEF HalfwayInv, Halfway, AloneInv
<1>7. SettledProjectIsWhole'
  BY DEF SettledProjectIsWhole, Unattended, OnProject, HalfwayInv, Halfway
<1>8. AnswerInv'
  BY DEF AnswerInv
<1> QED
  BY <1>1, <1>2, <1>3, <1>4, <1>5, <1>6, <1>7, <1>8

\* Killing the app in the middle of a chain keeps the invariant.
LEMMA CrashStep ==
    ASSUME IInv, NEW d \in Devices, Crash(d)
    PROVE  IInv'
<1> USE DEF IInv, TypeOK, Chains, Idle, Absent, Busy, Crash
<1>1. TypeOK'
  BY TypeStep DEF Call, Completion
<1>2. StepsInv'
  BY DEF StepsInv
<1>3. FreshInv'
  BY DEF FreshInv, Unattended, OnProject
<1>4. RegisterInv'
  BY DEF RegisterInv, OnProject
<1>5. AloneInv'
  BY DEF AloneInv
<1>6. HalfwayInv'
  BY DEF HalfwayInv, Halfway
<1>7. SettledProjectIsWhole'
  BY DEF SettledProjectIsWhole, Unattended, OnProject
<1>8. AnswerInv'
  BY DEF AnswerInv
<1> QED
  BY <1>1, <1>2, <1>3, <1>4, <1>5, <1>6, <1>7, <1>8

\* The strengthened invariant is kept by every step.
LEMMA Inductive == IInv /\ [Next]_vars => IInv'
<1>1. ASSUME IInv, UNCHANGED vars
      PROVE  IInv'
  BY <1>1 DEF IInv, TypeOK, StepsInv, FreshInv, RegisterInv, AnswerInv, AloneInv, HalfwayInv,
     Halfway, SettledProjectIsWhole, Unattended, OnProject, Busy, vars
<1>2. ASSUME IInv, NEW d \in Devices, Call(d) \/ Completion(d) \/ Crash(d)
      PROVE  IInv'
  BY <1>2, RegisterProjectStep, UpdateProjectStep, DeleteProjectStep, PutDataStep,
     DownloadURLStep, SetDataStep, UpdateDataStep, DeleteOldStep, DeleteFnStep,
     DeleteCoverStep, CrashStep DEF Call, Completion
<1> QED
  BY <1>1, <1>2 DEF Next

\* The strengthened invariant holds throughout.
LEMMA Invariance == Spec => []IInv
<1>1. Init => IInv
  <2> SUFFICES ASSUME Init PROVE IInv
    OBVIOUS
  <2>1. TypeOK
    BY MaxUploadsAssumption DEF Init, TypeOK, Absent
  <2> QED
    BY <2>1 DEF Init, IInv, StepsInv, FreshInv, RegisterInv, AnswerInv, AloneInv, HalfwayInv,
       SettledProjectIsWhole, Unattended, OnProject, Busy, Idle
<1> QED
  BY <1>1, Inductive, PTL DEF Spec

-----------------------------------------------------------------------------
(***************************************************************************)
(* The safety properties.                                                  *)
(***************************************************************************)

\* Registering, replacing the cover and deleting keep the document and the
\* cover of a project in step, as long as no chain of it fails, is killed or
\* meets another one.
THEOREM SettledWhole == Spec => []SettledProjectIsWhole
<1>1. IInv => SettledProjectIsWhole
  BY DEF IInv
<1> QED
  BY <1>1, Invariance, PTL

\* A registration that reports success stored a document that names the cover
\* in place, whatever the other devices do and whatever fails there.
THEOREM RegistrationWhole == Spec => RegisteredIsWhole
<1> DEFINE Whole == \A d \in Devices :
             LET p == chain[d].project IN
             chain[d].op = "register" /\ answer'[d] = "success"
                 => document'[p] = cover'[p] /\ cover'[p] # Absent
<1>1. IInv /\ [Next]_vars => [Whole]_vars
  <2> SUFFICES ASSUME IInv, NEW e \in Devices, Call(e) \/ Completion(e) \/ Crash(e),
                      NEW d \in Devices, chain[d].op = "register",
                      answer'[d] = "success"
               PROVE  /\ document'[chain[d].project] = cover'[chain[d].project]
                      /\ cover'[chain[d].project] # Absent
    BY DEF Next
  <2> USE DEF IInv, TypeOK, AnswerInv, Busy, Succeed, Fail, GoOn, Start
  <2>1. CASE SetData(e)
    <3>1. e = d
      BY <2>1 DEF SetData
    <3>2. document'[chain[d].project] = chain[d].url /\ cover' = cover
      BY <2>1, <3>1, ChainType DEF SetData, Waits
    <3> QED
      BY <2>1, <3>1, <3>2 DEF SetData, Waits, RegisterInv
  <2>2. CASE UpdateData(e) \/ DeleteCover(e)
    <3>1. e = d
      BY <2>2 DEF UpdateData, DeleteCover
    <3> QED
      BY <2>2, <3>1 DEF UpdateData, DeleteCover, Waits, StepsInv
  <2>3. answer'[d] # "success" \/ SetData(e) \/ UpdateData(e) \/ DeleteCover(e)
    BY DEF Call, Completion, RegisterProject, UpdateProject, DeleteProject, PutData,
       DownloadURL, DeleteOld, DeleteFn, Crash
  <2> QED
    BY <2>1, <2>2, <2>3
<1> QED
  BY <1>1, Invariance, PTL DEF Spec, RegisteredIsWhole

\* No step brings a deleted document back.
LEMMA DocumentStep ==
    ASSUME IInv, NEW e \in Devices, Call(e) \/ Completion(e) \/ Crash(e),
           NEW p \in known, document[p] = Absent
    PROVE  document'[p] = Absent
<1> USE DEF IInv, TypeOK
<1>1. CASE SetData(e)
  BY <1>1 DEF SetData, Waits, Busy, RegisterInv, StepsInv, Chains, Ops, Idle
<1>2. CASE UpdateData(e)
  BY <1>2 DEF UpdateData
<1>3. CASE DeleteFn(e)
  BY <1>3 DEF DeleteFn, Absent
<1>4. document' = document \/ SetData(e) \/ UpdateData(e) \/ DeleteFn(e)
  BY DEF Call, Completion, RegisterProject, UpdateProject, DeleteProject, PutData,
     DownloadURL, DeleteOld, DeleteCover, Crash
<1> QED
  BY <1>1, <1>2, <1>3, <1>4

\* A project whose document the cloud function has deleted stays deleted: an
\* updateProject still under way on another device creates no document.
THEOREM DeletedStaysDeleted == Spec => NoResurrection
<1> DEFINE Kept == \A p \in known : document[p] = Absent => document'[p] = Absent
<1>1. IInv /\ [Next]_vars => [Kept]_vars
  BY DocumentStep DEF Next
<1> QED
  BY <1>1, Invariance, PTL DEF Spec, NoResurrection

\* No step brings a lost cover back.
LEMMA CoverStep ==
    ASSUME IInv, NEW e \in Devices, Call(e) \/ Completion(e) \/ Crash(e),
           NEW p \in Projects, CoverLost(p)
    PROVE  CoverLost(p)'
<1> USE DEF IInv, TypeOK, CoverLost, Putting, OnProject, Busy, Chains, Idle
<1>1. CASE RegisterProject(e)
  BY <1>1 DEF RegisterProject, Start, FreshInv
<1>2. CASE UpdateProject(e) \/ DeleteProject(e)
  BY <1>2 DEF UpdateProject, DeleteProject, Start
<1>3. CASE PutData(e) \/ DownloadURL(e) \/ SetData(e) \/ UpdateData(e)
  BY <1>3 DEF PutData, DownloadURL, SetData, UpdateData, Waits, GoOn, Succeed, Fail
<1>4. CASE DeleteOld(e) \/ DeleteFn(e) \/ DeleteCover(e) \/ Crash(e)
  BY <1>4 DEF DeleteOld, DeleteFn, DeleteCover, Erased, Waits, GoOn, Succeed, Fail, Crash
<1> QED
  BY <1>1, <1>2, <1>3, <1>4 DEF Call, Completion

\* Once the cover of a stored project is lost, no call of any device brings one
\* back: updateProject insists on deleting the old one first.
THEOREM LostCoverStaysLost == Spec => CoverLossIsPermanent
<1> DEFINE Kept == \A p \in Projects : CoverLost(p) => CoverLost(p)'
<1>1. IInv /\ [Next]_vars => [Kept]_vars
  BY CoverStep DEF Next
<1> QED
  BY <1>1, Invariance, PTL DEF Spec, CoverLossIsPermanent

-----------------------------------------------------------------------------
(***************************************************************************)
(* The refinement of ProjectLife.                                          *)
(***************************************************************************)

\* A call that starts changes the life of no project.
LEMMA CallLife ==
    ASSUME IInv, NEW e \in Devices, Call(e), NEW p \in Projects
    PROVE  LifeOf(p)' = LifeOf(p)
<1> USE DEF IInv, TypeOK, Start, CoverLost, Putting, OnProject, Busy, Chains, Idle
<1>1. known' = known /\ document' = document /\ cover' = cover
  BY DEF Call, RegisterProject, UpdateProject, DeleteProject
<1>2. CASE RegisterProject(e)
  <2>1. p \in known => \A d \in Devices : Putting(d, p)' <=> Putting(d, p)
    BY <1>2 DEF RegisterProject, FreshInv
  <2> QED
    BY <1>1, <2>1 DEF LifeOf
<1>3. CASE UpdateProject(e) \/ DeleteProject(e)
  <2>1. \A d \in Devices : Putting(d, p)' <=> Putting(d, p)
    BY <1>3 DEF UpdateProject, DeleteProject
  <2> QED
    BY <1>1, <2>1 DEF LifeOf
<1> QED
  BY <1>2, <1>3 DEF Call

\* A completion, or a crash, changes the life of the chain's own project only.
LEMMA OtherLife ==
    ASSUME IInv, NEW e \in Devices, Completion(e) \/ Crash(e),
           NEW p \in Projects, p # chain[e].project
    PROVE  LifeOf(p)' = LifeOf(p)
<1> USE DEF IInv, TypeOK, Chains, Idle
<1>1. /\ document'[p] = document[p] /\ cover'[p] = cover[p]
      /\ p \in known' <=> p \in known
  BY DEF Completion, PutData, DownloadURL, SetData, UpdateData, DeleteOld, DeleteFn,
     DeleteCover, Erased, Crash
<1>2. \A d \in Devices : Putting(d, p)' <=> Putting(d, p)
  BY DEF Completion, PutData, DownloadURL, SetData, UpdateData, DeleteOld, DeleteFn,
     DeleteCover, Crash, GoOn, Succeed, Fail, Putting, OnProject, Busy
<1> QED
  BY <1>1, <1>2 DEF LifeOf, CoverLost

\* The life of that project stays, or goes on as ProjectLife lets it.
LEMMA OwnLife ==
    ASSUME IInv, NEW e \in Devices, Completion(e) \/ Crash(e),
           NEW p \in Projects, p = chain[e].project
    PROVE  \/ LifeOf(p)' = LifeOf(p)
           \/ LifeOf(p) = "unborn" /\ LifeOf(p)' = "listed"
           \/ LifeOf(p) = "listed" /\ LifeOf(p)' = "bare"
           \/ LifeOf(p) \in {"listed", "bare"} /\ LifeOf(p)' = "deleted"
<1>1. CASE p \notin known /\ p \notin known'
  BY <1>1 DEF LifeOf
<1>2. CASE p \notin known /\ p \in known'
  <2>1. SetData(e)
    BY <1>2 DEF Completion, PutData, DownloadURL, UpdateData, DeleteOld, DeleteFn,
       DeleteCover, Crash
  <2>2. document'[p] = chain[e].url /\ cover' = cover
    BY <1>2, <2>1 DEF SetData, IInv, TypeOK
  <2>3. chain[e].op = "register"
    BY <2>1, ChainType DEF SetData, Waits, IInv, StepsInv, Chains, Ops
  <2>4. document'[p] # Absent /\ cover'[p] # Absent
    BY <2>1, <2>2, <2>3 DEF SetData, Waits, IInv, RegisterInv
  <2> QED
    BY <1>2, <2>4 DEF LifeOf, CoverLost
<1>3. CASE p \in known
  <2>1. p \in known'
    BY <1>3 DEF Completion, PutData, DownloadURL, SetData, UpdateData, DeleteOld, DeleteFn,
       DeleteCover, Crash
  <2>2. document[p] = Absent => document'[p] = Absent
    BY <1>3, DocumentStep
  <2>3. CoverLost(p) => CoverLost(p)'
    BY CoverStep
  <2> QED
    BY <1>3, <2>1, <2>2, <2>3 DEF LifeOf
<1> QED
  BY <1>1, <1>2, <1>3

\* Every step of the chains is a step of ProjectLife, or changes no life.
LEMMA LifeStep ==
    ASSUME IInv, NEW e \in Devices, Call(e) \/ Completion(e) \/ Crash(e)
    PROVE  [Life!Next]_([p \in Projects |-> LifeOf(p)])
<1> DEFINE now == [p \in Projects |-> LifeOf(p)]
<1>1. CASE \A p \in Projects : LifeOf(p)' = LifeOf(p)
  BY <1>1
<1>2. CASE \E p \in Projects : LifeOf(p)' # LifeOf(p)
  <2>1. PICK q \in Projects : LifeOf(q)' # LifeOf(q)
    BY <1>2
  <2>2. Completion(e) \/ Crash(e)
    BY <2>1, CallLife
  <2>3. q = chain[e].project
    BY <2>1, <2>2, OtherLife
  <2>4. now' = [now EXCEPT ![q] = LifeOf(q)']
    BY <2>2, <2>3, OtherLife
  <2>5. Life!Appear(q) \/ Life!LoseCover(q) \/ Life!Delete(q)
    BY <2>1, <2>2, <2>3, <2>4, OwnLife
       DEF Life!Appear, Life!LoseCover, Life!Delete, Life!Become
  <2> QED
    BY <2>5 DEF Life!Next
<1> QED
  BY <1>1, <1>2

\* The operations of any number of devices on any number of projects implement
\* ProjectLife: the projects appear whole, one at a time, and what is lost or
\* deleted does not come back.
THEOREM Refinement == Spec => ImplementsProjectLife
<1>1. Init => Life!Init
  BY DEF Init, Life!Init, LifeOf
<1>2. IInv /\ [Next]_vars => [Life!Next]_([p \in Projects |-> LifeOf(p)])
  <2>1. ASSUME IInv, UNCHANGED vars
        PROVE  [p \in Projects |-> LifeOf(p)]' = [p \in Projects |-> LifeOf(p)]
    BY <2>1 DEF vars, LifeOf, CoverLost, Putting, OnProject, Busy
  <2> QED
    BY <2>1, LifeStep DEF Next
<1> QED
  BY <1>1, <1>2, Invariance, PTL DEF Spec, ImplementsProjectLife, Life!Spec
=============================================================================
