-------------------------- MODULE ProfilUpdateProofs --------------------------
(***************************************************************************)
(* Proofs, for any emails and any number of saves, of the safety           *)
(* properties of ProfilUpdate.                                             *)
(***************************************************************************)
EXTENDS ProfilUpdate, SequenceTheorems, WellFoundedInduction, TLAPS

\* A save that has met nothing yet: it is what was submitted, it knows the email of the
\* device, its steps have done what comes before them, and without a touched field it
\* has nothing to change.
Alone(s) ==
    /\ submitted = [name |-> s.name, email |-> s.email]
    /\ s.current = deviceEmail /\ s.credential = deviceEmail
    /\ s.step # "updateData" => docName = s.name
    /\ s.step = "updateEmail" => deviceEmail = authEmail
    /\ s.touched => touched
    /\ ~ lost /\ ~ s.touched
           => s.name = docName /\ s.email = s.current /\ s.step = "updateData"

\* Until saves and loads meet there is one save at most, and the user stays for it.
AloneInv ==
    ~ crossed => /\ Len(saves) <= 1
                 /\ saves # <<>> => screen = "profile" /\ Alone(saves[1])

\* The device knows the email of the account, unless an answer was lost.
LoginInv == ~ lost => deviceEmail = authEmail

\* Then the copies are good too: the fields that nobody has touched, and what the
\* dashboard loads and keeps.
CopyInv ==
    ~ crossed /\ ~ lost =>
        /\ screen = "profile" /\ ~ touched => name = docName /\ email = deviceEmail
        /\ screen = "loading" => taken = deviceEmail
        /\ screen = "dashboard" => data = [name |-> docName, email |-> deviceEmail]

IInv == TypeOK /\ AloneInv /\ LoginInv /\ CopyInv /\ SettledProfile

-----------------------------------------------------------------------------
(***************************************************************************)
(* Facts about the sequence of saves.                                      *)
(***************************************************************************)

\* A nonempty set of positions has a last one: what View looks for exists.
LEMMA LastPosition ==
    ASSUME NEW n \in Nat, NEW T \in SUBSET (1 .. n), T # {}
    PROVE  \E k \in T : \A j \in T : j <= k
<1> DEFINE R == {ss \in Nat \X Nat : ss[1] < ss[2]}
           D == {n - k : k \in T}
<1>1. IsWellFoundedOn(R, Nat)
  BY NatLessThanWellFounded DEF OpToRel
<1>2. D # {}
  <2> PICK k \in T : TRUE
    OBVIOUS
  <2> QED
    BY n - k \in D
<1>3. D \subseteq Nat
  OBVIOUS
<1>4. PICK d \in D : \A e \in D : ~ (<<e, d>> \in R)
  <2> HIDE DEF D, R
  <2> QED
    BY <1>1, <1>2, <1>3, WFMin
<1>5. ASSUME NEW e \in D PROVE d <= e
  <2>1. e \in Nat /\ d \in Nat
    BY <1>3
  <2>2. ~ (<<e, d>> \in R)
    BY <1>4
  <2> HIDE DEF D
  <2>3. ~ (e < d)
    BY <2>1, <2>2
  <2> QED
    BY <2>1, <2>3
<1>6. PICK k \in T : d = n - k
  BY <1>4
<1>7. \A j \in T : n - k <= n - j
  BY <1>5, <1>6
<1>8. \A j \in T : j <= k
  BY <1>7
<1> QED
  BY <1>8

\* A read of the document gives a name.
LEMMA ViewType ==
    ASSUME TypeOK PROVE View \in Names
<1> DEFINE waiting == {k \in DOMAIN saves : saves[k].step = "updateData"}
           last == CHOOSE k \in waiting : \A j \in waiting : j <= k
<1>1. /\ Len(saves) \in Nat
      /\ DOMAIN saves = 1 .. Len(saves)
      /\ \A k \in 1 .. Len(saves) : saves[k] \in Saves
  BY LenProperties, ElementOfSeq DEF TypeOK
<1>2. CASE waiting = {}
  BY <1>2 DEF View, TypeOK
<1>3. CASE waiting # {}
  <2>1. waiting \in SUBSET (1 .. Len(saves))
    BY <1>1
  <2>2. \E k \in waiting : \A j \in waiting : j <= k
    <3> HIDE DEF waiting
    <3> QED
      BY <1>1, <1>3, <2>1, LastPosition
  <2>3. last \in waiting
    <3> HIDE DEF waiting
    <3> QED
      BY <2>2
  <2>4. saves[last] \in Saves
    BY <1>1, <2>3
  <2>5. saves[last].name \in Names
    BY <2>4 DEF Saves
  <2> QED
    BY <1>3, <2>5 DEF View
<1> QED
  BY <1>2, <1>3

\* A save that ends leaves the others.
LEMMA WithoutType ==
    ASSUME saves \in Seq(Saves), NEW k \in DOMAIN saves
    PROVE  /\ Without(k) \in Seq(Saves)
           /\ Len(Without(k)) = Len(saves) - 1
<1>1. /\ Len(saves) \in Nat
      /\ DOMAIN saves = 1 .. Len(saves)
      /\ \A j \in 1 .. Len(saves) : saves[j] \in Saves
  BY LenProperties, ElementOfSeq
<1>2. /\ SubSeq(saves, 1, k - 1) \in Seq(Saves)
      /\ Len(SubSeq(saves, 1, k - 1)) = k - 1
  BY <1>1, SubSeqProperties
<1>3. /\ SubSeq(saves, k + 1, Len(saves)) \in Seq(Saves)
      /\ Len(SubSeq(saves, k + 1, Len(saves))) = Len(saves) - k
  BY <1>1, SubSeqProperties
<1>4. /\ Without(k) \in Seq(Saves)
      /\ Len(Without(k)) = Len(SubSeq(saves, 1, k - 1)) + Len(SubSeq(saves, k + 1, Len(saves)))
  BY <1>2, <1>3, ConcatProperties, Zenon DEF Without
<1> QED
  BY <1>1, <1>2, <1>3, <1>4

\* The only save, when it ends, leaves none.
LEMMA WithoutOnly ==
    ASSUME saves \in Seq(Saves), NEW k \in DOMAIN saves, Len(saves) <= 1
    PROVE  k = 1 /\ Without(k) = <<>>
<1>1. /\ Len(saves) \in Nat
      /\ DOMAIN saves = 1 .. Len(saves)
  BY LenProperties
<1>2. k = 1 /\ Len(saves) = 1
  BY <1>1
<1> QED
  BY <1>2, WithoutType, EmptySeq

\* A save is one of the type, and has a number that is not too large.
LEMMA SaveAt ==
    ASSUME TypeOK, NEW k \in DOMAIN saves
    PROVE  /\ saves[k] \in Saves
           /\ k \in 1 .. Len(saves)
           /\ Len(saves) \in Nat
           /\ saves # <<>>
  BY LenProperties, ElementOfSeq, EmptySeq DEF TypeOK

\* What a save goes on with.
LEMMA GoOnType ==
    ASSUME TypeOK, NEW k \in DOMAIN saves, NEW s \in Saves,
           saves' = [saves EXCEPT ![k] = s]
    PROVE  /\ saves' \in Seq(Saves)
           /\ Len(saves') = Len(saves)
           /\ saves'[k] = s
  BY SaveAt, ExceptSeq DEF TypeOK

-----------------------------------------------------------------------------
(***************************************************************************)
(* Types.                                                                  *)
(***************************************************************************)

\* The end of a save, with or without its completion, keeps the types.
LEMMA EndType ==
    ASSUME TypeOK, NEW k \in DOMAIN saves, NEW how \in {"done", "failed", "half"},
           EndSilently(k, how) \/ UpdateUserComplete(k, how)
    PROVE  /\ saves' \in Seq(Saves)
           /\ outcome' \in {"none", "done", "failed", "half"}
           /\ error' \in BOOLEAN
           /\ answered' \in SUBSET (1..MaxSaves)
<1>1. saves' \in Seq(Saves)
  BY WithoutType DEF EndSilently, UpdateUserComplete, TypeOK
<1>2. error' \in BOOLEAN
  BY DEF EndSilently, UpdateUserComplete, TypeOK
<1>3. saves[k].id \in 1..MaxSaves
  BY SaveAt DEF Saves
<1> QED
  BY <1>1, <1>2, <1>3 DEF EndSilently, UpdateUserComplete, TypeOK

\* Every step of the profile keeps the types.
LEMMA TypeStep == TypeOK /\ [Next]_vars => TypeOK'
<1> SUFFICES ASSUME TypeOK, [Next]_vars PROVE TypeOK'
  OBVIOUS
<1> USE DEF remote, device, form, nav, history
<1>1. CASE Edit
  BY <1>1 DEF Edit, TypeOK
<1>2. CASE Type
  BY <1>2 DEF Type, TypeOK
<1>3. CASE Save
  <2>1. error' \in BOOLEAN /\ crossed' \in BOOLEAN
    BY <1>3 DEF Save, TypeOK
  <2>2. CASE email = "invalid"
    BY <1>3, <2>1, <2>2 DEF Save, TypeOK
  <2>3. CASE email # "invalid"
    <3>1. email \in Emails
      BY <2>3 DEF TypeOK
    <3>2. issued + 1 \in 1..MaxSaves
      BY <1>3, <2>3, MaxSavesAssumption DEF Save, TypeOK
    <3>3. NewSave \in Saves
      BY <3>1, <3>2 DEF NewSave, Saves, Steps, TypeOK
    <3>4. saves' \in Seq(Saves)
      BY <1>3, <2>3, <3>3, AppendProperties DEF Save, TypeOK
    <3>5. submitted' \in Users
      BY <1>3, <2>3, <3>1 DEF Save, Users, TypeOK
    <3>6. issued' \in 0..MaxSaves /\ outcome' = "none" /\ answered' = answered /\ lost' = lost
      BY <1>3, <2>3, <3>2 DEF Save
    <3> QED
      BY <1>3, <2>1, <3>4, <3>5, <3>6 DEF Save, TypeOK
  <2> QED
    BY <2>2, <2>3
<1>4. ASSUME NEW k \in DOMAIN saves, UpdateData(k)
      PROVE  TypeOK'
  <2>1. saves[k] \in Saves
    BY SaveAt
  <2>2. docName' \in Names
    BY <1>4, <2>1 DEF UpdateData, Saves, TypeOK
  <2>3. [saves[k] EXCEPT !.step = "reauthenticate", !.credential = deviceEmail] \in Saves
    BY <2>1 DEF Saves, Steps, TypeOK
  <2>4. CASE saves' = [saves EXCEPT ![k].step = "reauthenticate", ![k].credential = deviceEmail]
             /\ UNCHANGED <<outcome, error, answered>>
    <3>1. saves' \in Seq(Saves)
      BY <2>3, <2>4, GoOnType
    <3> QED
      BY <1>4, <2>2, <2>4, <3>1 DEF UpdateData, TypeOK
  <2>5. CASE \E how \in {"done", "failed", "half"} :
                 EndSilently(k, how) \/ UpdateUserComplete(k, how)
    BY <1>4, <2>2, <2>5, EndType DEF UpdateData, TypeOK
  <2> QED
    BY <1>4, <2>4, <2>5 DEF UpdateData
<1>5. ASSUME NEW k \in DOMAIN saves, Reauthenticate(k)
      PROVE  TypeOK'
  <2>1. saves[k] \in Saves
    BY SaveAt
  <2>2. [saves[k] EXCEPT !.step = "updateEmail"] \in Saves
    BY <2>1 DEF Saves, Steps
  <2>3. CASE saves' = [saves EXCEPT ![k].step = "updateEmail"]
             /\ UNCHANGED <<outcome, error, answered>>
    <3>1. saves' \in Seq(Saves)
      BY <2>2, <2>3, GoOnType
    <3> QED
      BY <1>5, <2>3, <3>1 DEF Reauthenticate, TypeOK
  <2>4. CASE UpdateUserComplete(k, "half")
    BY <1>5, <2>4, EndType DEF Reauthenticate, TypeOK
  <2> QED
    BY <1>5, <2>3, <2>4 DEF Reauthenticate
<1>6. ASSUME NEW k \in DOMAIN saves, UpdateEmail(k)
      PROVE  TypeOK'
  <2>1. saves[k].email \in Emails
    BY SaveAt DEF Saves
  <2>2. /\ saves' \in Seq(Saves)
        /\ outcome' \in {"none", "done", "failed", "half"}
        /\ error' \in BOOLEAN
        /\ answered' \in SUBSET (1..MaxSaves)
    BY <1>6, EndType DEF UpdateEmail
  <2> QED
    BY <1>6, <2>1, <2>2 DEF UpdateEmail, TypeOK
<1>7. CASE Leave
  <2>1. /\ Len(saves) \in Nat
        /\ DOMAIN saves = 1 .. Len(saves)
        /\ \A k \in 1 .. Len(saves) : saves[k] \in Saves
    BY LenProperties, ElementOfSeq DEF TypeOK
  <2>2. \A k \in 1 .. Len(saves) : [saves[k] EXCEPT !.heard = FALSE] \in Saves
    BY <2>1 DEF Saves
  <2>3. saves' \in [1 .. Len(saves) -> Saves]
    BY <1>7, <2>1, <2>2 DEF Leave
  <2>4. saves' \in Seq(Saves)
    BY <2>1, <2>3, SeqDef
  <2>5. crossed' \in BOOLEAN
    BY <1>7 DEF Leave, TypeOK
  <2> QED
    BY <1>7, <2>4, <2>5 DEF Leave, TypeOK
<1>8. CASE Load
  <2>1. data' \in Users
    BY <1>8, ViewType DEF Load, Users, TypeOK
  <2> QED
    BY <1>8, <2>1 DEF Load, TypeOK
<1>9. CASE Open
  BY <1>9 DEF Open, Users, TypeOK
<1>10. CASE SignInAgain
  BY <1>10 DEF SignInAgain, TypeOK
<1>11. CASE UNCHANGED vars
  BY <1>11 DEF vars, TypeOK
<1> QED
  BY <1>1, <1>2, <1>3, <1>4, <1>5, <1>6, <1>7, <1>8, <1>9, <1>10, <1>11
     DEF Next, Completion

-----------------------------------------------------------------------------
(***************************************************************************)
(* The strengthened invariant.                                             *)
(***************************************************************************)

\* A save that has met nothing is the only one, and the user is still there.
LEMMA OnlySave ==
    ASSUME IInv, NEW k \in DOMAIN saves, ~ crossed
    PROVE  /\ k = 1 /\ Len(saves) = 1
           /\ screen = "profile"
           /\ Alone(saves[k])
           /\ saves[k] \in Saves
           /\ Without(k) = <<>>
<1>1. TypeOK /\ saves \in Seq(Saves)
  BY DEF IInv, TypeOK
<1>2. saves # <<>> /\ saves[k] \in Saves /\ k \in 1 .. Len(saves) /\ Len(saves) \in Nat
  BY <1>1, SaveAt
<1>3. Len(saves) <= 1
  BY DEF IInv, AloneInv
<1>4. k = 1 /\ Without(k) = <<>>
  BY <1>1, <1>3, WithoutOnly
<1>5. screen = "profile" /\ Alone(saves[1])
  BY <1>2 DEF IInv, AloneInv
<1>6. Alone(saves[k])
  BY <1>4, <1>5
<1> QED
  BY <1>2, <1>3, <1>4, <1>5, <1>6

\* Whatever ends the only save leaves nothing to be said of it.
LEMMA EndAlone ==
    ASSUME IInv, NEW k \in DOMAIN saves, saves' = Without(k), crossed' = crossed
    PROVE  AloneInv'
<1> SUFFICES ASSUME ~ crossed PROVE Len(saves') <= 1 /\ saves' = <<>>
  BY DEF AloneInv
<1>1. saves' = <<>>
  BY OnlySave
<1> QED
  BY <1>1, EmptySeq

\* What the user does in the form while no save begins.
LEMMA FormStep ==
    ASSUME IInv, TypeOK', Edit \/ Type \/ (Save /\ email = "invalid")
    PROVE  IInv'
<1> USE DEF remote, device, form, nav, history
<1>1. /\ UNCHANGED <<docName, authEmail, deviceEmail, screen, taken, data, saves, outcome,
                     submitted, crossed, lost>>
      /\ touched => touched'
      /\ touched' \/ (UNCHANGED <<name, email>>)
  BY DEF Edit, Type, Save, IInv, TypeOK
<1>2. touched' = touched \/ touched' = TRUE
  BY DEF Edit, Type, Save
<1>3. AloneInv'
  BY <1>1 DEF IInv, AloneInv, Alone
<1> QED
  BY <1>1, <1>2, <1>3 DEF IInv, LoginInv, CopyInv, SettledProfile

\* performChangeButton hands a save to the session.
LEMMA SaveStep ==
    ASSUME IInv, TypeOK', Save, email # "invalid"
    PROVE  IInv'
<1> USE DEF remote, device, form, nav, history
<1>1. /\ UNCHANGED <<docName, authEmail, deviceEmail, screen, taken, data, name, email, touched,
                     lost>>
      /\ saves' = Append(saves, NewSave)
      /\ submitted' = [name |-> name, email |-> email]
      /\ outcome' = "none"
      /\ crossed' = (crossed \/ saves # <<>>)
      /\ screen = "profile"
  BY DEF Save
<1>2. AloneInv'
  <2> SUFFICES ASSUME ~ crossed'
               PROVE  Len(saves') <= 1 /\ screen' = "profile" /\ Alone(saves[1])'
    BY DEF AloneInv
  <2>1. ~ crossed /\ saves = <<>>
    BY <1>1
  <2>2. Len(saves') = 1 /\ saves'[1] = NewSave
    BY <1>1, <2>1
  <2>3. ~ lost /\ ~ touched => name = docName /\ email = deviceEmail
    BY <1>1, <2>1 DEF IInv, CopyInv
  <2>4. /\ saves'[1].name = name /\ saves'[1].email = email
        /\ saves'[1].current = deviceEmail /\ saves'[1].credential = deviceEmail
        /\ saves'[1].step = "updateData" /\ saves'[1].touched = touched
    BY <2>2 DEF NewSave
  <2>5. Alone(saves[1])'
    BY <1>1, <2>3, <2>4 DEF Alone
  <2> QED
    BY <1>1, <2>2, <2>5
<1> QED
  BY <1>1, <1>2 DEF IInv, LoginInv, CopyInv, SettledProfile

\* The completion of the write of the name.
LEMMA UpdateDataStep ==
    ASSUME IInv, TypeOK', NEW k \in DOMAIN saves, UpdateData(k)
    PROVE  IInv'
<1> USE DEF remote, device, form, nav, history
<1>0. TypeOK
  BY DEF IInv
<1>1. UNCHANGED <<authEmail, deviceEmail, screen, taken, data, name, email, touched, submitted,
                  crossed, lost>>
  BY DEF UpdateData
<1>2. docName' \in {docName, saves[k].name}
  BY DEF UpdateData
<1>3. AloneInv'
  <2>1. CASE saves' = Without(k)
    BY <1>1, <2>1, EndAlone
  <2>2. CASE saves' # Without(k)
    <3> SUFFICES ASSUME ~ crossed
                 PROVE  Len(saves') <= 1 /\ screen = "profile" /\ Alone(saves[1])'
      BY <1>1 DEF AloneInv
    <3>1. /\ k = 1 /\ Len(saves) = 1 /\ screen = "profile"
          /\ Alone(saves[k]) /\ saves[k] \in Saves
      BY OnlySave
    <3>2. /\ saves' = [saves EXCEPT ![k].step = "reauthenticate", ![k].credential = deviceEmail]
          /\ docName' = saves[k].name
          /\ saves[k].email # saves[k].current
      BY <2>2 DEF UpdateData, EndSilently, UpdateUserComplete
    <3>3. [saves[k] EXCEPT !.step = "reauthenticate", !.credential = deviceEmail] \in Saves
      BY <1>0, <3>1 DEF Saves, Steps, TypeOK
    <3>4. /\ Len(saves') = 1
          /\ saves'[1] = [saves[1] EXCEPT !.step = "reauthenticate", !.credential = deviceEmail]
      BY <1>0, <3>1, <3>2, <3>3, GoOnType
    <3>5. saves[1] \in Saves /\ Alone(saves[1])
      BY <3>1
    <3>6. /\ saves'[1].name = saves[1].name /\ saves'[1].email = saves[1].email
          /\ saves'[1].current = saves[1].current /\ saves'[1].touched = saves[1].touched
          /\ saves'[1].step = "reauthenticate" /\ saves'[1].credential = deviceEmail
      BY <3>4, <3>5 DEF Saves
    <3>7. Alone(saves[1])'
      BY <1>1, <3>1, <3>2, <3>5, <3>6 DEF Alone
    <3> QED
      BY <3>1, <3>4, <3>7
  <2> QED
    BY <2>1, <2>2
<1>4. CopyInv'
  <2> SUFFICES ASSUME ~ crossed, ~ lost
               PROVE  /\ screen = "profile"
                      /\ ~ touched => name = docName' /\ email = deviceEmail
    BY <1>1 DEF CopyInv
  <2>1. screen = "profile" /\ Alone(saves[k])
    BY OnlySave
  <2>2. ~ touched => docName' = docName
    BY <1>2, <2>1 DEF Alone
  <2> QED
    BY <2>1, <2>2 DEF IInv, CopyInv
<1>5. SettledProfile'
  <2> SUFFICES ASSUME ~ crossed, ~ lost, outcome' = "done", saves' = <<>>
               PROVE  docName' = submitted.name /\ authEmail = submitted.email
    BY <1>1 DEF SettledProfile
  <2>1. Alone(saves[k]) /\ saves[k] \in Saves
    BY OnlySave
  <2>2. docName' = saves[k].name /\ saves[k].email = saves[k].current
    <3>1. ASSUME saves' = [saves EXCEPT ![k].step = "reauthenticate",
                                        ![k].credential = deviceEmail]
          PROVE  FALSE
      <4>1. DOMAIN saves' = DOMAIN saves
        BY <3>1
      <4> QED
        BY <4>1
    <3> QED
      BY <3>1 DEF UpdateData, EndSilently, UpdateUserComplete
  <2>3. deviceEmail = authEmail
    BY DEF IInv, LoginInv
  <2>4. submitted.name = saves[k].name /\ submitted.email = saves[k].email
    BY <2>1 DEF Alone
  <2> QED
    BY <2>1, <2>2, <2>3, <2>4 DEF Alone
<1> QED
  BY <1>1, <1>3, <1>4, <1>5 DEF IInv, LoginInv

\* The completion of reauthenticate.
LEMMA ReauthenticateStep ==
    ASSUME IInv, TypeOK', NEW k \in DOMAIN saves, Reauthenticate(k)
    PROVE  IInv'
<1> USE DEF remote, device, form, nav, history
<1>0. TypeOK
  BY DEF IInv
<1>1. UNCHANGED <<docName, authEmail, deviceEmail, screen, taken, data, name, email, touched,
                  submitted, crossed, lost>>
  BY DEF Reauthenticate
<1>2. saves[k].step = "reauthenticate"
  BY DEF Reauthenticate
<1>3. CASE UpdateUserComplete(k, "half")
  <2>1. saves' = Without(k) /\ outcome' = "half"
    BY <1>3 DEF UpdateUserComplete
  <2>2. AloneInv'
    BY <1>1, <2>1, EndAlone
  <2> QED
    BY <1>1, <2>1, <2>2 DEF IInv, LoginInv, CopyInv, SettledProfile
<1>4. CASE /\ saves[k].credential = authEmail
           /\ saves' = [saves EXCEPT ![k].step = "updateEmail"]
  <2>1. AloneInv'
    <3> SUFFICES ASSUME ~ crossed
                 PROVE  Len(saves') <= 1 /\ screen = "profile" /\ Alone(saves[1])'
      BY <1>1 DEF AloneInv
    <3>1. /\ k = 1 /\ Len(saves) = 1 /\ screen = "profile"
          /\ Alone(saves[k]) /\ saves[k] \in Saves
      BY OnlySave
    <3>2. [saves[k] EXCEPT !.step = "updateEmail"] \in Saves
      BY <3>1 DEF Saves, Steps
    <3>3. /\ Len(saves') = 1
          /\ saves'[1] = [saves[1] EXCEPT !.step = "updateEmail"]
      BY <1>0, <1>4, <3>1, <3>2, GoOnType
    <3>4. saves[1] \in Saves /\ Alone(saves[1])
      BY <3>1
    <3>5. /\ saves'[1].name = saves[1].name /\ saves'[1].email = saves[1].email
          /\ saves'[1].current = saves[1].current /\ saves'[1].touched = saves[1].touched
          /\ saves'[1].credential = saves[1].credential /\ saves'[1].step = "updateEmail"
      BY <3>3, <3>4 DEF Saves
    <3>6. Alone(saves[1])'
      BY <1>1, <1>2, <1>4, <3>1, <3>4, <3>5 DEF Alone
    <3> QED
      BY <3>1, <3>3, <3>6
  <2>2. saves' # <<>>
    <3>1. DOMAIN saves' = DOMAIN saves
      BY <1>4
    <3> QED
      BY <3>1
  <2> QED
    BY <1>1, <2>1, <2>2 DEF IInv, LoginInv, CopyInv, SettledProfile
<1> QED
  BY <1>3, <1>4 DEF Reauthenticate

\* The completion of updateEmail.
LEMMA UpdateEmailStep ==
    ASSUME IInv, TypeOK', NEW k \in DOMAIN saves, UpdateEmail(k)
    PROVE  IInv'
<1> USE DEF remote, device, form, nav, history
<1>1. UNCHANGED <<docName, screen, taken, data, name, email, touched, submitted, crossed>>
  BY DEF UpdateEmail
<1>2. saves' = Without(k) /\ saves[k].step = "updateEmail"
  BY DEF UpdateEmail, UpdateUserComplete
<1>3. AloneInv'
  BY <1>1, <1>2, EndAlone
<1>4. LoginInv'
  BY DEF UpdateEmail, IInv, LoginInv
<1>5. ~ lost' => ~ lost
  BY DEF UpdateEmail
<1>6. ASSUME ~ crossed
      PROVE  /\ screen = "profile"
             /\ ~ lost => touched
             /\ docName = submitted.name /\ saves[k].email = submitted.email
  <2>1. screen = "profile" /\ Alone(saves[k]) /\ saves[k] \in Saves
    BY <1>6, OnlySave
  <2>2. ~ lost => touched
    BY <1>2, <2>1 DEF Alone
  <2>3. docName = submitted.name /\ saves[k].email = submitted.email
    BY <1>2, <2>1 DEF Alone
  <2> QED
    BY <2>1, <2>2, <2>3
<1>7. CopyInv'
  BY <1>1, <1>5, <1>6 DEF CopyInv
<1>8. SettledProfile'
  <2>1. outcome' = "done" => authEmail' = saves[k].email
    BY DEF UpdateEmail, UpdateUserComplete
  <2> QED
    BY <1>1, <1>6, <2>1 DEF SettledProfile
<1> QED
  BY <1>3, <1>4, <1>7, <1>8 DEF IInv

\* Leaving the profile and coming back, by way of the dashboard's load.
LEMMA VisitStep ==
    ASSUME IInv, TypeOK', Leave \/ Load \/ Open \/ SignInAgain
    PROVE  IInv'
<1> USE DEF remote, device, form, nav, history
<1>0. TypeOK /\ saves \in Seq(Saves)
  BY DEF IInv, TypeOK
<1>1. /\ UNCHANGED <<docName, authEmail, submitted>>
      /\ crossed => crossed'
  BY DEF Leave, Load, Open, SignInAgain, IInv, TypeOK
<1>2. LoginInv'
  BY DEF Leave, Load, Open, SignInAgain, IInv, LoginInv
<1>3. ASSUME ~ crossed' PROVE saves = <<>> /\ saves' = <<>>
  <2>1. ~ crossed
    BY <1>1, <1>3
  <2>2. saves # <<>> => screen = "profile" /\ ~ SignInAgain /\ ~ Leave
    BY <1>3, <2>1 DEF IInv, AloneInv, Leave, SignInAgain
  <2>3. saves = <<>>
    BY <2>2 DEF Load, Open
  <2>4. saves' = saves \/ (DOMAIN saves = {} /\ saves' = [k \in {} |-> [saves[k] EXCEPT !.heard = FALSE]])
    BY <2>3, EmptySeq DEF Leave, Load, Open, SignInAgain
  <2> QED
    BY <2>3, <2>4
<1>4. AloneInv'
  BY <1>3, EmptySeq DEF AloneInv
<1>5. SettledProfile'
  BY <1>1, <1>3 DEF Leave, Load, Open, SignInAgain, IInv, SettledProfile
<1>6. CopyInv'
  <2> SUFFICES ASSUME ~ crossed', ~ lost' PROVE CopyInv'
    BY DEF CopyInv
  <2>1. ~ crossed /\ saves = <<>>
    BY <1>1, <1>3
  <2>2. CASE Leave
    BY <2>2 DEF Leave, CopyInv
  <2>3. CASE Load
    <3>1. View = docName
      BY <2>1 DEF View
    <3> QED
      BY <2>1, <2>3, <3>1 DEF Load, IInv, CopyInv
  <2>4. CASE Open
    BY <2>1, <2>4 DEF Open, IInv, CopyInv
  <2>5. CASE SignInAgain
    BY <2>5 DEF SignInAgain, CopyInv
  <2> QED
    BY <2>2, <2>3, <2>4, <2>5
<1> QED
  BY <1>2, <1>4, <1>5, <1>6 DEF IInv

\* The strengthened invariant is kept by every step.
LEMMA Inductive == IInv /\ [Next]_vars => IInv'
<1> SUFFICES ASSUME IInv, [Next]_vars PROVE IInv'
  OBVIOUS
<1>0. TypeOK'
  BY TypeStep DEF IInv
<1>1. CASE Edit \/ Type \/ Save
  BY <1>0, <1>1, FormStep, SaveStep
<1>2. CASE \E k \in DOMAIN saves : Completion(k)
  BY <1>0, <1>2, UpdateDataStep, ReauthenticateStep, UpdateEmailStep DEF Completion
<1>3. CASE Leave \/ Load \/ Open \/ SignInAgain
  BY <1>0, <1>3, VisitStep
<1>4. CASE UNCHANGED vars
  BY <1>0, <1>4 DEF vars, IInv, AloneInv, Alone, LoginInv, CopyInv, SettledProfile
<1> QED
  BY <1>1, <1>2, <1>3, <1>4 DEF Next

\* The strengthened invariant holds throughout.
LEMMA Invariance == Spec => []IInv
<1>1. Init => IInv
  <2> SUFFICES ASSUME Init PROVE IInv
    OBVIOUS
  <2>1. TypeOK
    <3>1. data \in Users /\ submitted \in Users
      BY DEF Init, Users, Names
    <3>2. saves \in Seq(Saves) /\ issued \in 0..MaxSaves
      BY EmptySeq, MaxSavesAssumption DEF Init
    <3> QED
      BY <3>1, <3>2 DEF Init, TypeOK, Names
  <2> QED
    BY <2>1, EmptySeq DEF Init, IInv, AloneInv, LoginInv, CopyInv, SettledProfile
<1> QED
  BY <1>1, Inductive, PTL DEF Spec

-----------------------------------------------------------------------------

\* The profile never leaves its types.
THEOREM TypeCorrect == Spec => []TypeOK
<1>1. IInv => TypeOK
  BY DEF IInv
<1> QED
  BY <1>1, Invariance, PTL

\* A save that went through, and met nothing, left in both stores what was entered.
THEOREM SettledProfileHolds == Spec => []SettledProfile
<1>1. IInv => SettledProfile
  BY DEF IInv
<1> QED
  BY <1>1, Invariance, PTL

\* After a lost answer no save that is alone gets past reauthenticate.
THEOREM StaleLoginIsForeverHolds == Spec => StaleLoginIsForever
<1>1. IInv /\ [Next]_vars
          => [deviceEmail # authEmail /\ ~ crossed => UNCHANGED authEmail]_vars
  <2> SUFFICES ASSUME IInv, Next, deviceEmail # authEmail, ~ crossed
               PROVE  authEmail' = authEmail
    BY DEF vars
  <2>1. ASSUME NEW k \in DOMAIN saves PROVE ~ UpdateEmail(k)
    BY OnlySave DEF Alone, UpdateEmail
  <2> QED
    BY <2>1 DEF Next, Completion, Edit, Type, Save, UpdateData, Reauthenticate, Leave, Load,
                Open, SignInAgain, remote
<1> QED
  BY <1>1, Invariance, PTL DEF Spec, StaleLoginIsForever

\* A save in which nothing was typed changes neither the name nor the email.
THEOREM UntouchedSaveKeepsHolds == Spec => UntouchedSaveKeeps
<1>1. IInv /\ [Next]_vars
          => [~ crossed /\ ~ lost /\ (\A k \in DOMAIN saves : ~ saves[k].touched)
                 => UNCHANGED remote]_vars
  <2> SUFFICES ASSUME IInv, Next, ~ crossed, ~ lost,
                      \A k \in DOMAIN saves : ~ saves[k].touched
               PROVE  docName' = docName /\ authEmail' = authEmail
    BY DEF vars, remote
  <2>1. ASSUME NEW k \in DOMAIN saves
        PROVE  saves[k].name = docName /\ saves[k].step = "updateData"
    BY OnlySave DEF Alone
  <2>2. ASSUME NEW k \in DOMAIN saves, Completion(k)
        PROVE  docName' = docName /\ authEmail' = authEmail
    BY <2>1, <2>2 DEF Completion, UpdateData, Reauthenticate, UpdateEmail
  <2> QED
    BY <2>2 DEF Next, Edit, Type, Save, Leave, Load, Open, SignInAgain, remote
<1> QED
  BY <1>1, Invariance, PTL DEF Spec, UntouchedSaveKeeps
=============================================================================
