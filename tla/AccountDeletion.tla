--------------------------- MODULE AccountDeletion ---------------------------
(***************************************************************************)
(* Deleting an account from the profile screen: ProfilPresenter,           *)
(* ProjectSession.deleteAllUserRef and FirebaseAuthenticationSession       *)
(* .deleteUser.                                                            *)
(*                                                                         *)
(* deleteAllUserRef lists the covers of the user and starts one pipeline   *)
(* for each: delete the cover, have the cloud function delete the user's   *)
(* documents, and report to the screen, which answers each success with    *)
(* deleteUser.  Every pipeline thus goes on, on its own, to reauthenticate *)
(* and delete the account.  Without covers there is one pipeline, which    *)
(* starts at the cloud function.                                           *)
(***************************************************************************)
EXTENDS Naturals

CONSTANTS
    Covers,       \* the covers the user may have in Storage
    Pipelines     \* slots: bounds the pipelines under way

VARIABLES
    files,        \* Storage: covers under Users/<uid>/
    userDoc,      \* Firestore: is the user's document, with all below it, there?
    account,      \* Firebase Auth: does the account exist?
    signedIn,     \* has the device a current user?
    keychain,     \* does the keychain hold the user's password?
    listing,      \* is listAll under way?
    pipeline,     \* per slot, the call it waits for and its cover
    screen,       \* what the user sees
    loader,       \* is the loader in front of the profile?
    error,        \* does the profile show an error?
    exits         \* number of times deleteUserComplete went to the login page

vars == <<files, userDoc, account, signedIn, keychain, listing, pipeline, screen,
          loader, error, exits>>

remote == <<files, userDoc, account>>
device == <<signedIn, keychain>>
profile == <<screen, loader, error, exits>>

None == [step |-> "free", cover |-> "none"]

Step(s, c) == [step |-> s, cover |-> c]

Calls == {"delete", "function", "reauthenticate", "deleteUser"}

\* Types; and the loader is in front of the profile only, so that none is carried on to
\* the login page, where no completion would dismiss it any more.
TypeOK ==
    /\ files \in SUBSET Covers
    /\ userDoc \in BOOLEAN
    /\ account \in BOOLEAN
    /\ signedIn \in BOOLEAN
    /\ keychain \in BOOLEAN
    /\ listing \in BOOLEAN
    /\ pipeline \in [Pipelines -> [step : Calls, cover : Covers \union {"none"}] \union {None}]
    /\ screen \in {"profile", "starting", "login"}
    /\ loader \in BOOLEAN
    /\ loader => screen = "profile"
    /\ error \in BOOLEAN
    /\ exits \in Nat

Free == {i \in Pipelines : pipeline[i] = None}

\* The account was created on this device, or on another one (no password here).
Init ==
    /\ files \in SUBSET Covers
    /\ userDoc = TRUE
    /\ account = TRUE
    /\ signedIn = TRUE
    /\ keychain \in BOOLEAN
    /\ listing = FALSE
    /\ pipeline = [i \in Pipelines |-> None]
    /\ screen = "profile"
    /\ loader = FALSE
    /\ error = FALSE
    /\ exits = 0

-----------------------------------------------------------------------------
(***************************************************************************)
(* The profile screen and the application.                                 *)
(***************************************************************************)

\* setConfirmationDialog: the loader is shown, then deleteAllUserRef lists.
DeleteAccount ==
    /\ screen = "profile" /\ ~ loader /\ ~ listing
    /\ loader' = TRUE
    /\ listing' = TRUE
    /\ UNCHANGED <<remote, device, pipeline, screen, error, exits>>

\* logOut keeps the password; when signOut throws, logoutComplete shows an error.
LogOut ==
    /\ screen = "profile" /\ ~ loader
    /\ \/ signedIn' = FALSE /\ screen' = "login" /\ UNCHANGED error
       \/ error' = TRUE /\ UNCHANGED <<signedIn, screen>>
    /\ UNCHANGED <<remote, keychain, listing, pipeline, loader, exits>>

\* The app is killed and launched again; CoordinatorManager.start asks isUserLogin.
Restart ==
    /\ listing' = FALSE
    /\ pipeline' = [i \in Pipelines |-> None]
    /\ screen' = IF signedIn THEN "starting" ELSE "login"
    /\ loader' = FALSE
    /\ error' = FALSE
    /\ UNCHANGED <<remote, device, exits>>

\* The dashboard has the user's document and lets the user open the profile.
\* fetchUserFirestoreData calls no completion when the document is missing.
Arrive ==
    /\ screen = "starting"
    /\ userDoc
    /\ screen' = "profile"
    /\ UNCHANGED <<remote, device, listing, pipeline, loader, error, exits>>

-----------------------------------------------------------------------------
(***************************************************************************)
(* What the completions do to the screen, which is gone after "profile".   *)
(***************************************************************************)

\* showError, from deleteAllUSerRefComplete: the loader stays.
ShowError ==
    /\ error' = (error \/ screen = "profile")
    /\ UNCHANGED <<screen, loader, exits>>

\* deleteUserComplete(.failure)
DismissAndShowError ==
    /\ error' = (error \/ screen = "profile")
    /\ loader' = (loader /\ screen # "profile")
    /\ UNCHANGED <<screen, exits>>

\* Fault: the login page is shown without dismissing the loader first.
ExitToLoginKeepsLoader ==
    IF screen = "profile"
    THEN /\ screen' = "login"
         /\ exits' = exits + 1
         /\ error' = FALSE
         /\ UNCHANGED loader
    ELSE UNCHANGED profile

\* deleteUserComplete(.success)
ExitToLogin ==
    IF screen = "profile"
    THEN /\ screen' = "login"
         /\ loader' = FALSE
         /\ exits' = exits + 1
         /\ error' = FALSE
    ELSE UNCHANGED profile

-----------------------------------------------------------------------------
(***************************************************************************)
(* The pipelines.                                                          *)
(***************************************************************************)

End(i) == pipeline' = [pipeline EXCEPT ![i] = None]

GoOn(i, s) == pipeline' = [pipeline EXCEPT ![i] = Step(s, "none")]

\* The closure of listAll starts a pipeline per cover; slot gives each its slot.
FanOut(slot) ==
    pipeline' = [i \in Pipelines |->
                    IF \E c \in files : slot[c] = i
                    THEN Step("delete", CHOOSE c \in files : slot[c] = i)
                    ELSE pipeline[i]]

ListAll ==
    /\ listing
    /\ listing' = FALSE
    /\ \/ /\ files # {}
          /\ \E slot \in [files -> Free] :
                 /\ \A c, d \in files : c # d => slot[c] # slot[d]
                 /\ FanOut(slot)
          /\ UNCHANGED profile
       \/ /\ files = {}
          /\ \E i \in Free : GoOn(i, "function")
          /\ UNCHANGED profile
       \/ ShowError /\ UNCHANGED pipeline
    /\ UNCHANGED <<remote, device>>

\* item.delete fails when a pipeline of an earlier attempt was faster.
DeleteCover(i) ==
    LET c == pipeline[i].cover IN
    /\ pipeline[i].step = "delete"
    /\ \/ /\ c \in files
          /\ files' = files \ {c}
          /\ GoOn(i, "function")
          /\ UNCHANGED profile
       \/ /\ files' \in {files, files \ {c}}
          /\ End(i)
          /\ ShowError
    /\ UNCHANGED <<userDoc, account, device, listing>>

\* Fault: the account is deleted next to the documents, not after them.
DeleteFnUnordered(i) ==
    /\ pipeline[i].step = "function"
    /\ IF signedIn /\ keychain THEN GoOn(i, "reauthenticate") ELSE End(i)
    /\ userDoc' \in {userDoc, FALSE}
    /\ UNCHANGED <<files, account, device, listing, profile>>

\* Fault: the success of the cloud function is not passed on to deleteUser.
DeleteFnStops(i) ==
    /\ pipeline[i].step = "function"
    /\ End(i)
    /\ \/ userDoc' = FALSE /\ UNCHANGED profile
       \/ userDoc' \in {userDoc, FALSE} /\ ShowError
    /\ UNCHANGED <<files, account, device, listing>>

\* The cloud function, then deleteAllUSerRefComplete, which on success calls
\* deleteUser; that returns early, with no completion, when there is no current
\* user or no password.  A screen that is gone calls nothing.
DeleteFn(i) ==
    /\ pipeline[i].step = "function"
    /\ \/ /\ userDoc' = FALSE
          /\ IF screen = "profile" /\ signedIn /\ keychain
             THEN GoOn(i, "reauthenticate") ELSE End(i)
          /\ UNCHANGED profile
       \/ /\ userDoc' \in {userDoc, FALSE}
          /\ End(i)
          /\ ShowError
    /\ UNCHANGED <<files, account, device, listing>>

\* currentUser.reauthenticate, with the user and the password read before it.
Reauthenticate(i) ==
    /\ pipeline[i].step = "reauthenticate"
    /\ \/ /\ account
          /\ GoOn(i, "deleteUser")
          /\ UNCHANGED profile
       \/ /\ End(i)
          /\ DismissAndShowError
    /\ UNCHANGED <<remote, device, listing>>

\* Fault: an account that is no longer there counts as deleted by this pipeline.
DeleteUserAgain(i) ==
    /\ pipeline[i].step = "deleteUser"
    /\ account' = FALSE
    /\ signedIn' = FALSE
    /\ keychain' = FALSE
    /\ End(i)
    /\ exits' = exits + 1
    /\ UNCHANGED <<files, userDoc, listing, screen, loader, error>>

\* Fault: the password is dropped before the account is deleted.
DeleteUserKeyFirst(i) ==
    /\ pipeline[i].step = "deleteUser"
    /\ keychain' = FALSE
    /\ \/ /\ account
          /\ account' = FALSE
          /\ signedIn' = FALSE
          /\ End(i)
          /\ ExitToLogin
       \/ /\ End(i)
          /\ DismissAndShowError
          /\ UNCHANGED <<account, signedIn>>
    /\ UNCHANGED <<files, userDoc, listing>>

\* currentUser.delete signs the user out; then deleteKey.  Its answer may be lost.
DeleteUser(i) ==
    /\ pipeline[i].step = "deleteUser"
    /\ \/ /\ account
          /\ account' = FALSE
          /\ signedIn' = FALSE
          /\ keychain' = FALSE
          /\ End(i)
          /\ ExitToLogin
       \/ /\ account' \in {account, FALSE}
          /\ End(i)
          /\ DismissAndShowError
          /\ UNCHANGED device
    /\ UNCHANGED <<files, userDoc, listing>>

Completion ==
    \/ ListAll
    \/ \E i \in Pipelines : DeleteCover(i) \/ DeleteFn(i) \/ Reauthenticate(i) \/ DeleteUser(i)

Next == DeleteAccount \/ LogOut \/ Restart \/ Arrive \/ Completion

Spec == Init /\ [][Next]_vars

\* Every call is completed, and a dashboard that can load does.
FairSpec ==
    /\ Spec
    /\ WF_vars(ListAll)
    /\ WF_vars(Arrive)
    /\ \A i \in Pipelines :
           WF_vars(DeleteCover(i) \/ DeleteFn(i) \/ Reauthenticate(i) \/ DeleteUser(i))

-----------------------------------------------------------------------------
(***************************************************************************)
(* Properties.                                                             *)
(***************************************************************************)

\* The account is only deleted after the user's documents: no interleaving of the
\* pipelines, no failure, retry or restart leaves documents nobody owns.
DocumentsGoFirst == ~ account => ~ userDoc

\* A deletion that has got past the documents and can still reach the account: a
\* pipeline is at it, or the user is on the profile, with the password, and may try again.
Reachable ==
    \/ screen = "profile" /\ keychain
    \/ \E i \in Pipelines : pipeline[i].step \in {"reauthenticate", "deleteUser"}

\* The account as AccountLife sees it; it knows of no documents without an owner.
LifeOf ==
    IF userDoc THEN IF account THEN "whole" ELSE "ownerless"
    ELSE IF ~ account THEN "absent" ELSE IF Reachable THEN "closing" ELSE "orphan"

Life == INSTANCE AccountLife WITH life <- LifeOf

\* All the pipelines together, with failures, lost answers, retries, log outs and
\* restarts, implement the life of an account: the documents go first and do not come
\* back, and once the user has left the profile in between, or has no password there,
\* with no pipeline at the account, nothing will ever delete or repair it.  It implies
\* DocumentsGoFirst.
ImplementsAccountLife == Life!Spec

\* However many pipelines delete the account, one of them at most takes the user to
\* the login page, and only once the account is gone.
OneExit == exits <= 1 /\ (exits = 1 => ~ account /\ ~ signedIn)

\* The password is kept as long as the account is there: without it a failed
\* deletion could not be tried again.
PasswordIsKept == [][account' => keychain' = keychain]_vars

\* On a device with the password, the first request to delete the account comes to an
\* end, whatever fails and however the pipelines get into each other's way: the user is
\* taken off the profile, or an error is shown there.  No path loses the answer.
DeletionAnswers == (listing /\ keychain /\ ~ error) ~> (screen # "profile" \/ error)
=============================================================================
