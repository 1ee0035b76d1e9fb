-------------------------- MODULE UpdateSheetProofs --------------------------
(***************************************************************************)
(* Proofs, for any words and any number of refreshes in flight, of the     *)
(* safety properties of UpdateSheet.                                       *)
(***************************************************************************)
EXTENDS UpdateSheet, TLAPS

\* What a refresh has read is still stored, unless a change crossed it.
SnapshotInv ==
    \A r \in Refreshes : refresh[r] = "getTasks" /\ r \notin tainted => snapshot[r] = stored

\* The copy of the reader is good once no refresh is under way, whatever is in front of
\* the reader: SettledHeader for every screen.
ShownInv == UnderWay = {} /\ ~ spoiled => shown = stored

\* A sheet opened on a good copy, and alone since, still has the stored texts as its base.
BaseInv == clean => sheet # "none" /\ base = stored

IInv == TypeOK /\ SnapshotInv /\ ShownInv /\ BaseInv

-----------------------------------------------------------------------------

\* As soon as there is a text, the filler of the fields is one.
LEMMA BlankType == Texts # {} => Blank \in Texts
<1> SUFFICES ASSUME NEW t \in Texts PROVE Blank \in Texts
  OBVIOUS
<1>1. t["title"] \in Words
  BY DEF Texts, Fields
<1>2. (CHOOSE w \in Words : TRUE) \in Words
  BY <1>1
<1> QED
  BY <1>2 DEF Blank, Texts

\* Closing the sheet and telling the reader keeps the types of the form and the reads.
LEMMA CloseType ==
    ASSUME TypeOK, Closed, NotifyParent
    PROVE  /\ sheet' \in {"none", "open", "saving", "alert"}
           /\ base' \in Texts /\ draft' \in Texts /\ clean' \in BOOLEAN
           /\ sheet' = "none"
           /\ refresh' \in [Refreshes -> {"idle", "getDocument", "getTasks"}]
<1>1. Blank \in Texts
  BY BlankType DEF TypeOK
<1>2. refresh' \in [Refreshes -> {"idle", "getDocument", "getTasks"}]
  BY DEF NotifyParent, Begin, TypeOK
<1> QED
  BY <1>1, <1>2 DEF Closed

\* A failed refresh keeps the types, whether it starts again or not.
LEMMA FailureType ==
    ASSUME TypeOK, NEW r \in Refreshes, RefreshFailed(r)
    PROVE  /\ shown' \in Texts
           /\ top' \in {"reader", "editor", "left"}
           /\ refresh' \in [Refreshes -> {"idle", "getDocument", "getTasks"}]
           /\ snapshot' \in [Refreshes -> Texts]
           /\ tainted' \in SUBSET Refreshes
           /\ spoiled' \in BOOLEAN
           /\ sheet # "none" \/ deleting => top' = "reader"
<1>1. Blank \in Texts
  BY BlankType DEF TypeOK
<1> QED
  BY <1>1 DEF RefreshFailed, Attentive, TypeOK

\* Every step of the sheet and of the reader keeps the types.
LEMMA TypeStep == TypeOK /\ [Next]_vars => TypeOK'
<1> SUFFICES ASSUME TypeOK, [Next]_vars PROVE TypeOK'
  OBVIOUS
<1> USE DEF reader, form, reads
<1>0. Blank \in Texts
  BY BlankType DEF TypeOK
<1>1. CASE OpenSheet
  BY <1>1 DEF OpenSheet, Attentive, TypeOK
<1>2. CASE TypeText
  BY <1>2 DEF TypeText, TypeOK, Texts
<1>3. CASE UpdateProject
  BY <1>3 DEF UpdateProject, TypeOK
<1>4. CASE AlertOk
  BY <1>4 DEF AlertOk, TypeOK
<1>5. CASE TapBackground
  BY <1>5, CloseType DEF TapBackground, TypeOK
<1>6. CASE UpdateProjectSucceeds
  BY <1>6, CloseType DEF UpdateProjectSucceeds, TypeOK, UnderWay
<1>7. CASE UpdateProjectFails
  BY <1>7 DEF UpdateProjectFails, TypeOK
<1>8. CASE OpenEditor
  BY <1>8 DEF OpenEditor, Attentive, TypeOK
<1>9. CASE Back
  BY <1>9 DEF Back, Begin, Attentive, TypeOK
<1>10. CASE DeleteProject
  BY <1>10 DEF DeleteProject, Attentive, TypeOK
<1>11. CASE DeleteProjectComplete
  BY <1>11 DEF DeleteProjectComplete, TypeOK
<1>12. ASSUME NEW r \in Refreshes, GetDocument(r)
       PROVE  TypeOK'
  BY <1>12, FailureType DEF GetDocument, TypeOK
<1>13. ASSUME NEW r \in Refreshes, GetTasks(r)
       PROVE  TypeOK'
  <2>1. spoiled' \in BOOLEAN
    <3>1. CASE RefreshFailed(r)
      BY <3>1 DEF RefreshFailed
    <3>2. CASE spoiled' = (r \in tainted)
      <4>1. (r \in tainted) \in BOOLEAN
        OBVIOUS
      <4> QED
        BY <3>2, <4>1, Zenon
    <3> QED
      BY <1>13, <3>1, <3>2 DEF GetTasks
  <2> QED
    BY <1>0, <1>13, <2>1, FailureType DEF GetTasks, TypeOK
<1>14. CASE OtherDevice
  BY <1>14 DEF OtherDevice, TypeOK, UnderWay, Texts
<1>15. CASE UNCHANGED vars
  BY <1>15 DEF vars, TypeOK
<1> QED
  BY <1>1, <1>2, <1>3, <1>4, <1>5, <1>6, <1>7, <1>8, <1>9, <1>10, <1>11, <1>12,
     <1>13, <1>14, <1>15 DEF Next

-----------------------------------------------------------------------------

\* A refresh begins in a slot that was idle, and is then under way.
LEMMA BeginStep ==
    ASSUME TypeOK, NEW r \in Refreshes, Begin(r)
    PROVE  /\ UnderWay' # {}
           /\ \A s \in Refreshes : refresh'[s] = "getTasks" => refresh[s] = "getTasks"
<1>1. refresh'[r] = "getDocument"
  BY DEF Begin, TypeOK
<1> QED
  BY <1>1 DEF Begin, TypeOK, UnderWay

\* A failed refresh spoils the copy and leaves the other refreshes alone.
LEMMA FailureStep ==
    ASSUME IInv, NEW r \in Refreshes, RefreshFailed(r), stored' = stored
    PROVE  SnapshotInv' /\ ShownInv'
<1>1. SnapshotInv'
  BY DEF IInv, SnapshotInv, RefreshFailed, TypeOK
<1>2. ShownInv'
  BY DEF ShownInv, RefreshFailed
<1> QED
  BY <1>1, <1>2

\* The strengthened invariant is kept by every step.
LEMMA Inductive == IInv /\ [Next]_vars => IInv'
<1> SUFFICES ASSUME IInv, [Next]_vars PROVE IInv'
  OBVIOUS
<1> USE DEF reader, form, reads
<1>0. TypeOK /\ TypeOK'
  BY TypeStep DEF IInv
<1>1. CASE OpenSheet
  BY <1>0, <1>1 DEF OpenSheet, IInv, SnapshotInv, ShownInv, BaseInv, UnderWay
<1>2. CASE TypeText
  BY <1>0, <1>2 DEF TypeText, IInv, SnapshotInv, ShownInv, BaseInv, UnderWay
<1>3. CASE UpdateProject
  BY <1>0, <1>3 DEF UpdateProject, IInv, SnapshotInv, ShownInv, BaseInv, UnderWay
<1>4. CASE AlertOk
  BY <1>0, <1>4 DEF AlertOk, IInv, SnapshotInv, ShownInv, BaseInv, UnderWay
<1>5. CASE TapBackground
  <2>1. SnapshotInv' /\ ShownInv'
    BY <1>0, <1>5, BeginStep
       DEF TapBackground, NotifyParent, IInv, SnapshotInv, ShownInv, UnderWay
  <2> QED
    BY <1>0, <1>5, <2>1 DEF TapBackground, Closed, IInv, BaseInv
<1>6. CASE UpdateProjectSucceeds
  <2>1. SnapshotInv'
    \* Whatever had been read is tainted now.
    BY <1>0, <1>6, BeginStep
       DEF UpdateProjectSucceeds, NotifyParent, IInv, SnapshotInv, UnderWay
  <2>2. ShownInv'
    \* A reader that observes begins a refresh; for one that does not, spoiled holds.
    BY <1>0, <1>6, BeginStep DEF UpdateProjectSucceeds, NotifyParent, ShownInv
  <2> QED
    BY <1>0, <1>6, <2>1, <2>2 DEF UpdateProjectSucceeds, Closed, IInv, BaseInv
<1>7. CASE UpdateProjectFails
  BY <1>0, <1>7 DEF UpdateProjectFails, IInv, SnapshotInv, ShownInv, BaseInv, UnderWay
<1>8. CASE OpenEditor
  BY <1>0, <1>8 DEF OpenEditor, IInv, SnapshotInv, ShownInv, BaseInv, UnderWay
<1>9. CASE Back
  <2>1. SnapshotInv' /\ ShownInv'
    BY <1>0, <1>9, BeginStep DEF Back, IInv, SnapshotInv, ShownInv
  <2> QED
    BY <1>0, <1>9, <2>1 DEF Back, IInv, BaseInv
<1>10. CASE DeleteProject
  BY <1>0, <1>10 DEF DeleteProject, IInv, SnapshotInv, ShownInv, BaseInv, UnderWay
<1>11. CASE DeleteProjectComplete
  BY <1>0, <1>11 DEF DeleteProjectComplete, IInv, SnapshotInv, ShownInv, BaseInv, UnderWay
<1>12. ASSUME NEW r \in Refreshes, GetDocument(r)
       PROVE  IInv'
  <2>1. BaseInv'
    BY <1>12 DEF GetDocument, IInv, BaseInv
  <2>2. CASE RefreshFailed(r)
    BY <1>0, <1>12, <2>1, <2>2, FailureStep DEF GetDocument, IInv
  <2>3. CASE ~ RefreshFailed(r)
    <3>1. SnapshotInv'
      BY <1>0, <1>12, <2>3 DEF GetDocument, IInv, SnapshotInv, TypeOK
    <3>2. UnderWay' # {}
      BY <1>0, <1>12, <2>3 DEF GetDocument, UnderWay, TypeOK
    <3> QED
      BY <1>0, <2>1, <3>1, <3>2 DEF IInv, ShownInv
  <2> QED
    BY <2>2, <2>3
<1>13. ASSUME NEW r \in Refreshes, GetTasks(r)
       PROVE  IInv'
  <2>1. BaseInv'
    BY <1>13 DEF GetTasks, IInv, BaseInv
  <2>2. CASE RefreshFailed(r)
    BY <1>0, <1>13, <2>1, <2>2, FailureStep DEF GetTasks, IInv
  <2>3. CASE ~ RefreshFailed(r)
    <3>1. SnapshotInv'
      BY <1>0, <1>13, <2>3 DEF GetTasks, IInv, SnapshotInv, TypeOK
    <3>2. ShownInv'
      BY <1>13, <2>3 DEF GetTasks, IInv, SnapshotInv, ShownInv
    <3> QED
      BY <1>0, <2>1, <3>1, <3>2 DEF IInv
  <2> QED
    BY <2>2, <2>3
<1>14. CASE OtherDevice
  BY <1>0, <1>14 DEF OtherDevice, IInv, SnapshotInv, ShownInv, BaseInv, UnderWay
<1>15. CASE UNCHANGED vars
  BY <1>0, <1>15 DEF vars, IInv, SnapshotInv, ShownInv, BaseInv, UnderWay
<1> QED
  BY <1>1, <1>2, <1>3, <1>4, <1>5, <1>6, <1>7, <1>8, <1>9, <1>10, <1>11, <1>12,
     <1>13, <1>14, <1>15 DEF Next

\* The reader is pushed with a copy that nothing vouches for.
LEMMA InitInv == Init => IInv
<1> SUFFICES ASSUME Init PROVE IInv
  OBVIOUS
<1>1. Blank \in Texts
  BY BlankType DEF Init
<1>2. TypeOK
  BY <1>1 DEF Init, TypeOK
<1> QED
  BY <1>2 DEF Init, IInv, SnapshotInv, ShownInv, BaseInv

\* The strengthened invariant holds throughout.
LEMMA Invariance == Spec => []IInv
  BY InitInv, Inductive, PTL DEF Spec

-----------------------------------------------------------------------------

\* The sheet and the reader never leave their types.
THEOREM TypeCorrect == Spec => []TypeOK
<1>1. IInv => TypeOK
  BY DEF IInv
<1> QED
  BY <1>1, Invariance, PTL

\* At rest, the reader shows what is stored, unless it is known to be out of date.
THEOREM SettledHeaderHolds == Spec => []SettledHeader
<1>1. IInv => SettledHeader
  BY DEF IInv, ShownInv, SettledHeader
<1> QED
  BY <1>1, Invariance, PTL

\* updateProject writes both texts, and changes only the one that the user has changed.
THEOREM UntouchedTextKeepsHolds == Spec => UntouchedTextKeeps
<1>1. IInv /\ [Next]_vars
          => [sheet = "saving" /\ sheet' = "none" /\ clean
                 => \A f \in Fields : draft[f] = base[f] => stored'[f] = stored[f]]_vars
  <2> SUFFICES ASSUME IInv, Next, sheet = "saving", sheet' = "none", clean
               PROVE  \A f \in Fields : draft[f] = base[f] => stored'[f] = stored[f]
    BY DEF vars
  <2>1. UpdateProjectSucceeds \/ stored' = stored
    BY DEF Next, OpenSheet, TypeText, UpdateProject, AlertOk, TapBackground,
           UpdateProjectFails, OpenEditor, Back, DeleteProject, DeleteProjectComplete,
           GetDocument, GetTasks, OtherDevice, form
  <2>2. CASE UpdateProjectSucceeds
    BY <2>2 DEF UpdateProjectSucceeds, IInv, BaseInv
  <2> QED
    BY <2>1, <2>2
<1> QED
  BY <1>1, Invariance, PTL DEF Spec, UntouchedTextKeeps
=============================================================================
