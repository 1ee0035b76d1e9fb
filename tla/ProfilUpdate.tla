----------------------------- MODULE ProfilUpdate -----------------------------
(***************************************************************************)
(* Editing the profile: performChangeButton and updateUser, from the text  *)
(* fields down to Firestore (the name) and Auth (the email), with the loads *)
(* of the dashboard from which the fields are filled.                      *)
(*                                                                         *)
(* A save writes the name first; only when the email differs from the one  *)
(* that the device knew when the save began does it reauthenticate and     *)
(* change the email, and only then is its completion called.  No loader    *)
(* covers the screen, so that saves overlap with each other and with the   *)
(* user leaving and coming back.                                           *)
(***************************************************************************)
EXTENDS Naturals, Sequences

CONSTANTS
    Emails,       \* valid email addresses
    MaxSaves      \* bound on the number of saves that reach the session

ASSUME EmailsAssumption == Emails # {} /\ "invalid" \notin Emails
ASSUME MaxSavesAssumption == MaxSaves \in Nat

Names == {"empty", "given"}

VARIABLES
    docName,      \* Firestore: the name in the user's document
    authEmail,    \* Auth: the email of the account
    deviceEmail,  \* Auth.auth().currentUser.email on this device
    keychain,     \* does the keychain hold the password?
    screen,       \* "profile", "loading" or "dashboard"
    taken,        \* the email that the load under way has read
    data,         \* the copy of the user that the dashboard hands to the profile
    name, email,  \* the text fields
    editing,      \* does the button say saveChange?
    touched,      \* has the user typed since the fields were filled?
    error,        \* is the error label shown?
    saves,        \* the saves under way, oldest first
    issued,       \* number of saves so far
    answered,     \* history: saves whose completion was called
    outcome,      \* history: how the last save ended
    submitted,    \* history: name and email of the last save
    crossed,      \* history: a save met another one or a load
    lost          \* history: the answer of an updateEmail was lost

vars == <<docName, authEmail, deviceEmail, keychain, screen, taken, data, name, email,
          editing, touched, error, saves, issued, answered, outcome, submitted, crossed, lost>>

remote == <<docName, authEmail>>
device == <<deviceEmail, keychain>>
form == <<name, email, editing, touched>>
nav == <<screen, taken, data>>
history == <<answered, outcome, submitted, crossed, lost>>

Steps == {"updateData", "reauthenticate", "updateEmail"}

Users == [name : Names, email : Emails]

Saves == [id : 1..MaxSaves, name : Names, email : Emails, current : Emails,
          credential : Emails, step : Steps, touched : BOOLEAN, heard : BOOLEAN]

TypeOK ==
    /\ docName \in Names
    /\ authEmail \in Emails /\ deviceEmail \in Emails /\ taken \in Emails
    /\ keychain \in BOOLEAN
    /\ screen \in {"profile", "loading", "dashboard"}
    /\ data \in Users /\ submitted \in Users
    /\ name \in Names /\ email \in Emails \union {"invalid"}
    /\ editing \in BOOLEAN /\ touched \in BOOLEAN /\ error \in BOOLEAN
    /\ saves \in Seq(Saves)
    /\ issued \in 0..MaxSaves
    /\ answered \in SUBSET (1..MaxSaves)
    /\ outcome \in {"none", "done", "failed", "half"}
    /\ crossed \in BOOLEAN /\ lost \in BOOLEAN

\* The profile is opened; the account was registered on this device, or elsewhere.
Init ==
    /\ docName = "given"
    /\ authEmail \in Emails
    /\ deviceEmail = authEmail /\ taken = authEmail
    /\ keychain \in BOOLEAN
    /\ screen = "profile"
    /\ data = [name |-> "given", email |-> authEmail]
    /\ name = "given" /\ email = authEmail
    /\ editing = FALSE /\ touched = FALSE /\ error = FALSE
    /\ saves = <<>>
    /\ issued = 0
    /\ answered = {}
    /\ outcome = "none"
    /\ submitted = data
    /\ crossed = FALSE /\ lost = FALSE

-----------------------------------------------------------------------------
(***************************************************************************)
(* The form.                                                               *)
(***************************************************************************)

\* performChangeButton, when it says editProfil.
Edit ==
    /\ screen = "profile" /\ ~ editing
    /\ editing' = TRUE
    /\ UNCHANGED <<remote, device, nav, name, email, touched, error, saves, issued, history>>

Type ==
    /\ screen = "profile" /\ editing
    /\ name' \in Names /\ email' \in Emails \union {"invalid"}
    /\ touched' = TRUE
    /\ UNCHANGED <<remote, device, nav, editing, error, saves, issued, history>>

\* Firestore's write and Auth's calls, in the order of updateUser; the email that
\* counts as current is read here.
NewSave ==
    [id |-> issued + 1, name |-> name, email |-> email, current |-> deviceEmail,
     credential |-> deviceEmail, step |-> "updateData", touched |-> touched,
     heard |-> TRUE]

\* Fault: the email is not checked.
SaveUnchecked ==
    /\ screen = "profile" /\ editing
    /\ editing' = FALSE
    /\ issued < MaxSaves
    /\ issued' = issued + 1
    /\ saves' = Append(saves, NewSave)
    /\ UNCHANGED <<remote, device, nav, name, email, touched, error, history>>

\* performChangeButton, when it says saveChange: updateUser shows an error for an
\* empty field and goes on; it stops at an email that is not valid.
Save ==
    /\ screen = "profile" /\ editing
    /\ editing' = FALSE
    /\ error' = (error \/ name = "empty" \/ email = "invalid")
    /\ \/ email = "invalid" /\ UNCHANGED <<saves, issued, history>>
       \/ /\ email # "invalid"
          /\ issued < MaxSaves
          /\ issued' = issued + 1
          /\ saves' = Append(saves, NewSave)
          /\ submitted' = [name |-> name, email |-> email]
          /\ outcome' = "none"
          /\ crossed' = (crossed \/ saves # <<>>)
          /\ UNCHANGED <<answered, lost>>
    /\ UNCHANGED <<remote, device, nav, name, email, touched>>

-----------------------------------------------------------------------------
(***************************************************************************)
(* The completions of updateUser.                                          *)
(***************************************************************************)

Without(k) == SubSeq(saves, 1, k - 1) \o SubSeq(saves, k + 1, Len(saves))

\* The save ends without a completion.
EndSilently(k, how) ==
    /\ saves' = Without(k)
    /\ outcome' = how
    /\ UNCHANGED <<error, answered>>

\* updateUserComplete; the delegate of a screen that was left is gone.
UpdateUserComplete(k, how) ==
    /\ saves' = Without(k)
    /\ outcome' = how
    /\ error' = IF saves[k].heard THEN how # "done" ELSE error
    /\ answered' = answered \union {saves[k].id}

\* Fault: a write of the name that failed goes on to the email.
UpdateDataGoesOn(k) ==
    /\ saves[k].step = "updateData"
    /\ \A j \in 1..(k - 1) : saves[j].step # "updateData"
    /\ docName' \in {docName, saves[k].name}
    /\ IF saves[k].email = saves[k].current THEN EndSilently(k, "done")
       ELSE /\ saves' = [saves EXCEPT ![k].step = "reauthenticate", ![k].credential = deviceEmail]
            /\ UNCHANGED <<outcome, error, answered>>
    /\ UNCHANGED <<authEmail, device, nav, form, issued, submitted, crossed, lost>>

\* databaseRef.updateData: Firestore sends the writes in the order in which they were
\* made.  Without a new email, or without a password, there is no completion.
UpdateData(k) ==
    /\ saves[k].step = "updateData"
    /\ \A j \in 1..(k - 1) : saves[j].step # "updateData"
    /\ \/ /\ docName' = saves[k].name
          /\ \/ saves[k].email = saves[k].current /\ EndSilently(k, "done")
             \/ saves[k].email # saves[k].current /\ ~ keychain /\ EndSilently(k, "half")
             \/ /\ saves[k].email # saves[k].current /\ keychain
                /\ saves' = [saves EXCEPT ![k].step = "reauthenticate",
                                          ![k].credential = deviceEmail]
                /\ UNCHANGED <<outcome, error, answered>>
       \/ UpdateUserComplete(k, "failed") /\ UNCHANGED docName
    /\ UNCHANGED <<authEmail, device, nav, form, issued, submitted, crossed, lost>>

\* Fault: the error of reauthenticate is dropped.
ReauthenticateSilent(k) ==
    /\ saves[k].step = "reauthenticate"
    /\ \/ /\ saves[k].credential = authEmail
          /\ saves' = [saves EXCEPT ![k].step = "updateEmail"]
          /\ UNCHANGED <<outcome, error, answered>>
       \/ EndSilently(k, "half")
    /\ UNCHANGED <<remote, device, nav, form, issued, submitted, crossed, lost>>

\* Fault: the email is changed without reauthenticating.
ReauthenticateSkipped(k) ==
    /\ saves[k].step = "reauthenticate"
    /\ saves' = [saves EXCEPT ![k].step = "updateEmail"]
    /\ UNCHANGED <<remote, device, nav, form, error, issued, history>>

\* currentUser.reauthenticate fails unless the account has the email of the credential.
Reauthenticate(k) ==
    /\ saves[k].step = "reauthenticate"
    /\ \/ /\ saves[k].credential = authEmail
          /\ saves' = [saves EXCEPT ![k].step = "updateEmail"]
          /\ UNCHANGED <<outcome, error, answered>>
       \/ UpdateUserComplete(k, "half")
    /\ UNCHANGED <<remote, device, nav, form, issued, submitted, crossed, lost>>

\* currentUser.updateEmail; its answer may be lost, and then the device keeps the old
\* email of an account that has the new one.
UpdateEmail(k) ==
    /\ saves[k].step = "updateEmail"
    /\ \/ /\ authEmail' = saves[k].email /\ deviceEmail' = saves[k].email
          /\ UpdateUserComplete(k, "done")
          /\ UNCHANGED lost
       \/ /\ authEmail' = saves[k].email
          /\ lost' = TRUE
          /\ UpdateUserComplete(k, "half")
          /\ UNCHANGED deviceEmail
       \/ /\ UpdateUserComplete(k, "half")
          /\ UNCHANGED <<authEmail, deviceEmail, lost>>
    /\ UNCHANGED <<docName, keychain, nav, form, issued, submitted, crossed>>

-----------------------------------------------------------------------------
(***************************************************************************)
(* Leaving the profile and coming back.                                    *)
(***************************************************************************)

\* The dashboard appears and loads: fetchUserFirestoreData reads the email at once.
Leave ==
    /\ screen = "profile"
    /\ screen' = "loading"
    /\ taken' = deviceEmail
    /\ saves' = [k \in DOMAIN saves |-> [saves[k] EXCEPT !.heard = FALSE]]
    /\ crossed' = (crossed \/ saves # <<>>)
    /\ UNCHANGED <<remote, device, data, form, error, issued, answered, outcome, submitted,
                   lost>>

\* What a read of the document gives: the last write that was made, sent or not.
View ==
    LET waiting == {k \in DOMAIN saves : saves[k].step = "updateData"} IN
    IF waiting = {} THEN docName
    ELSE saves[CHOOSE k \in waiting : \A j \in waiting : j <= k].name

\* Fault: the dashboard keeps the user that it loaded first.
LoadOnce ==
    /\ screen = "loading"
    /\ screen' = "dashboard"
    /\ UNCHANGED <<remote, device, taken, data, form, error, saves, issued, history>>

\* The completion of fetchUserFirestoreData.
Load ==
    /\ screen = "loading"
    /\ screen' = "dashboard"
    /\ data' = [name |-> View, email |-> taken]
    /\ UNCHANGED <<remote, device, taken, form, error, saves, issued, history>>

\* profilButton pushes a new screen, and setUserInfo fills its fields.
Open ==
    /\ screen = "dashboard"
    /\ screen' = "profile"
    /\ name' = data.name /\ email' = data.email
    /\ editing' = FALSE /\ touched' = FALSE /\ error' = FALSE
    /\ UNCHANGED <<remote, device, taken, data, saves, issued, history>>

\* Logging out and signing in, with no save under way.
SignInAgain ==
    /\ screen = "profile" /\ saves = <<>>
    /\ deviceEmail' = authEmail /\ taken' = authEmail
    /\ screen' = "loading"
    /\ outcome' = "none"
    /\ lost' = FALSE
    /\ UNCHANGED <<remote, keychain, data, form, error, saves, issued, answered, submitted,
                   crossed>>

-----------------------------------------------------------------------------

Completion(k) == UpdateData(k) \/ Reauthenticate(k) \/ UpdateEmail(k)

Next ==
    \/ Edit \/ Type \/ Save
    \/ \E k \in DOMAIN saves : Completion(k)
    \/ Leave \/ Load \/ Open \/ SignInAgain

Spec == Init /\ [][Next]_vars

\* The completion of the save with a given number.
CompletionOf(i) == \E k \in DOMAIN saves : saves[k].id = i /\ Completion(k)

\* The SDKs complete every call once the device is connected.
FairSpec == Spec /\ \A i \in 1..MaxSaves : WF_vars(CompletionOf(i))

-----------------------------------------------------------------------------
(***************************************************************************)
(* Properties.                                                             *)
(***************************************************************************)

\* The email of the account, and the name, are those of the last save when it went
\* through, or had no email to change, and met neither another save nor a load: the
\* two stores agree with what the user has entered.
SettledProfile ==
    saves = <<>> /\ outcome = "done" /\ ~ crossed /\ ~ lost
        => docName = submitted.name /\ authEmail = submitted.email

\* A save in which the user has typed nothing changes nothing, neither the name nor the
\* email, unless the fields were filled while another save was under way or an answer
\* was lost: then it takes back what the other one has changed.
UntouchedSaveKeeps ==
    [][~ crossed /\ ~ lost /\ (\A k \in DOMAIN saves : ~ saves[k].touched)
          => UNCHANGED remote]_vars

\* After a lost answer the device holds an email that the account no longer has; unless
\* saves overlap none gets past reauthenticate, so that the email can only be changed
\* again after signing in again.
StaleLoginIsForever ==
    [][deviceEmail # authEmail /\ ~ crossed => UNCHANGED authEmail]_vars

\* A save that is to change the email is answered, on a device that has the password,
\* whatever else is under way.  (No other save that succeeds is.)
SaveIsAnswered ==
    \A i \in 1..MaxSaves :
        (keychain /\ \E k \in DOMAIN saves : saves[k].id = i /\ saves[k].email # saves[k].current)
            ~> i \in answered
=============================================================================
