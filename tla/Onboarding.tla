----------------------------- MODULE Onboarding -----------------------------
(***************************************************************************)
(* Registering, signing in and out, and launching the app: the presenters  *)
(* and view controllers of Login, Register and MainLoginPage, the services *)
(* below them, CoordinatorManager and AuthenticationCoordinator.           *)
(*                                                                         *)
(* Registering is a chain of two calls: createUser, which also signs the   *)
(* user in, and setData, which stores the user's document.  The dashboard  *)
(* can only be used once it has read that document.                        *)
(*                                                                         *)
(* One account and one device are modelled.  Of what the user enters only  *)
(* the verdict of the presenters counts.                                   *)
(***************************************************************************)
EXTENDS Naturals, Sequences

VARIABLES
    account,      \* Firebase Auth: does the account exist?
    userDoc,      \* Firestore: the user's document, by the name in it, or "none"
    signedIn,     \* has the device a current user?
    keychain,     \* does the keychain hold the password of the account?
    stack,        \* viewControllers of the navigation controller
    children,     \* childCoordinator of CoordinatorManager
    call,         \* the call that is under way
    entered,      \* the name that registering will store
    loader,       \* is the loader presented?
    error,        \* the message that the error label of the top screen shows
    loaded        \* has the dashboard what it needs to take input?

vars == <<account, userDoc, signedIn, keychain, stack, children, call, entered, loader,
          error, loaded>>

remote == <<account, userDoc>>
device == <<signedIn, keychain>>
shell == <<stack, children, loaded>>

Names == {"empty", "given"}

Screens == {"main", "login", "register", "tabBar", "profile"}

TypeOK ==
    /\ account \in BOOLEAN
    /\ userDoc \in Names \union {"none"}
    /\ signedIn \in BOOLEAN
    /\ keychain \in BOOLEAN
    /\ stack \in Seq(Screens)
    /\ children \in Seq({"authentication", "home"})
    /\ call \in {"idle", "signIn", "createUser", "setData"}
    /\ entered \in Names
    /\ loader \in BOOLEAN
    /\ error \in {"none", "fillField", "refused"}
    /\ loaded \in BOOLEAN

Top == stack[Len(stack)]

\* A screen takes input when no loader covers it.
On(sc) == stack # <<>> /\ Top = sc /\ ~ loader

\* CoordinatorManager.start on an empty navigation stack.
FirstScreen(logged) == IF logged THEN <<"tabBar">> ELSE <<"main">>
FirstChild(logged) == IF logged THEN <<"home">> ELSE <<"authentication">>

\* The app is installed; the account is new or was registered on another device.
Init ==
    /\ account \in BOOLEAN
    /\ userDoc = IF account THEN "given" ELSE "none"
    /\ signedIn = FALSE
    /\ keychain = FALSE
    /\ stack = FirstScreen(FALSE)
    /\ children = FirstChild(FALSE)
    /\ call = "idle"
    /\ entered = "empty"
    /\ loader = FALSE
    /\ error = "none"
    /\ loaded = FALSE

-----------------------------------------------------------------------------
(***************************************************************************)
(* Navigation and coordinators.                                            *)
(***************************************************************************)

\* childDidFinish: the first child that is the one given.
ChildDidFinish(list, child) ==
    LET at == CHOOSE k \in DOMAIN list : list[k] = child /\ \A j \in 1..(k - 1) : list[j] # child
    IN  IF \E k \in DOMAIN list : list[k] = child
        THEN SubSeq(list, 1, at - 1) \o SubSeq(list, at + 1, Len(list)) ELSE list

\* loginTapped and registerTapped
Open(sc) ==
    /\ On("main")
    /\ stack' = Append(stack, sc)
    /\ error' = "none"
    /\ UNCHANGED <<remote, device, children, call, entered, loader, loaded>>

Back ==
    /\ On("login") \/ On("register")
    /\ stack' = SubSeq(stack, 1, Len(stack) - 1)
    /\ error' = "none"
    /\ UNCHANGED <<remote, device, children, call, entered, loader, loaded>>

\* Fault: the screens of the authentication stay below the tab bar.
ToHomeOnTop ==
    /\ stack' = Append(stack, "tabBar")
    /\ children' = ChildDidFinish(Append(children, "home"), "authentication")
    /\ loader' = FALSE
    /\ error' = "none"
    /\ loaded' = FALSE

\* loginSucceed and registerComplete: the stack is emptied, the home coordinator
\* starts and the authentication coordinator is removed.
ToHome ==
    /\ stack' = <<"tabBar">>
    /\ children' = ChildDidFinish(Append(children, "home"), "authentication")
    /\ loader' = FALSE
    /\ error' = "none"
    /\ loaded' = FALSE

\* setupVC of the main login page removes what it was pushed on.
PushMain(below) ==
    LET pushed == Append(below, "main") IN
    stack' = IF Len(pushed) > 1 THEN Tail(pushed) ELSE pushed

\* transitionToMainLoginPage, with nobody signed in.
ToMainLoginPage(below) ==
    /\ PushMain(below)
    /\ children' = ChildDidFinish(Append(children, "authentication"), "home")
    /\ error' = "none"
    /\ loaded' = FALSE

-----------------------------------------------------------------------------
(***************************************************************************)
(* The presenters.                                                         *)
(***************************************************************************)

\* Fault: the error is shown without dismissing the loader.
RefusedKeepsLoader ==
    /\ call' = "idle"
    /\ loader' = TRUE
    /\ error' = "refused"

\* loginFailed, and registerComplete with an error: the loader is dismissed.
Refused ==
    /\ call' = "idle"
    /\ loader' = FALSE
    /\ error' = "refused"

\* signInButton shows the loader, then logUser tests whether a field is empty, trims
\* both, and tests the email.  A field of blanks is not empty: it is trimmed to an email
\* that is not valid.  emptyFields shows fillField behind the loader; for a wrong email
\* loginFailed dismisses the loader in the turn that has presented it.
SignInButton(fields) ==
    /\ On("login")
    /\ CASE fields = "empty"   -> loader' = TRUE /\ error' = "fillField" /\ UNCHANGED call
         [] fields = "invalid" -> Refused
         [] fields = "valid"   -> loader' = TRUE /\ call' = "signIn" /\ UNCHANGED error
    /\ UNCHANGED <<remote, device, shell, entered>>

\* isInformedField counts the characters that were typed, blanks included.
IsInformedField(name) == name \in {"blank", "given"}

\* Fault: the fields are stored as they were typed.
FormatFieldsNot(name) == name

\* formatFields trims, so that a blank name becomes an empty one.
FormatFields(name) == IF name = "blank" THEN "empty" ELSE name

\* createAccountButton shows the loader; isAllFieldsValid tells the screen when a
\* field is missing or wrong.
CreateAccountButton(name, fields) ==
    /\ On("register")
    /\ IF IsInformedField(name) /\ fields = "valid"
       THEN /\ loader' = TRUE
            /\ call' = "createUser"
            /\ entered' = FormatFields(name)
            /\ UNCHANGED error
       ELSE Refused /\ UNCHANGED entered
    /\ UNCHANGED <<remote, device, shell>>

-----------------------------------------------------------------------------
(***************************************************************************)
(* The completions.                                                        *)
(***************************************************************************)

\* Fault: a user without a document is given an empty one.
SignInRepairs ==
    /\ call = "signIn"
    /\ account
    /\ userDoc' = IF userDoc = "none" THEN "empty" ELSE userDoc
    /\ signedIn' = TRUE
    /\ call' = "idle"
    /\ ToHome
    /\ UNCHANGED <<account, keychain, entered>>

\* Auth.signIn; the keychain is left alone.
SignIn ==
    /\ call = "signIn"
    /\ \/ /\ account
          /\ signedIn' = TRUE
          /\ call' = "idle"
          /\ ToHome
       \/ Refused /\ UNCHANGED <<signedIn, shell>>
    /\ UNCHANGED <<remote, keychain, entered>>

\* Auth.createUser refuses an email that is in use; its answer may be lost.
CreateUser ==
    /\ call = "createUser"
    /\ \/ /\ ~ account
          /\ account' = TRUE
          /\ signedIn' = TRUE
          /\ keychain' = TRUE
          /\ call' = "setData"
          /\ UNCHANGED <<loader, error>>
       \/ /\ account' \in {account, TRUE}
          /\ Refused
          /\ UNCHANGED device
    /\ UNCHANGED <<userDoc, shell, entered>>

\* addUserToDataBase
SetData ==
    /\ call = "setData"
    /\ \/ /\ userDoc' = entered
          /\ call' = "idle"
          /\ ToHome
       \/ Refused /\ UNCHANGED <<userDoc, shell>>
    /\ UNCHANGED <<account, device, entered>>

\* The dashboard's load; without a document fetchUserFirestoreData never completes.
Load ==
    /\ On("tabBar") /\ ~ loaded
    /\ userDoc # "none"
    /\ loaded' = TRUE
    /\ UNCHANGED <<remote, device, stack, children, call, entered, loader, error>>

-----------------------------------------------------------------------------
(***************************************************************************)
(* The session of a user, and the process.                                 *)
(***************************************************************************)

\* profilButton
OpenProfile ==
    /\ On("tabBar") /\ loaded
    /\ stack' = Append(stack, "profile")
    /\ UNCHANGED <<remote, device, children, call, entered, loader, error, loaded>>

\* The dashboard appears again, and loads again.
CloseProfile ==
    /\ On("profile")
    /\ stack' = SubSeq(stack, 1, Len(stack) - 1)
    /\ loaded' = FALSE
    /\ error' = "none"
    /\ UNCHANGED <<remote, device, children, call, entered, loader>>

\* logOut and logoutComplete: popToRootViewController, then the main login page, or
\* an error when signOut throws.  The password stays in the keychain.
LogOut ==
    /\ On("profile")
    /\ \/ signedIn' = FALSE /\ ToMainLoginPage(<<Head(stack)>>)
       \/ error' = "refused" /\ UNCHANGED <<signedIn, shell>>
    /\ UNCHANGED <<remote, keychain, call, entered, loader>>

\* deleteUserComplete, when the deletion of the account has succeeded.
DeleteUserComplete ==
    /\ On("profile")
    /\ account' = FALSE
    /\ userDoc' = "none"
    /\ signedIn' = FALSE
    /\ keychain' = FALSE
    /\ ToMainLoginPage(<<>>)
    /\ UNCHANGED <<call, entered, loader>>

\* The app is killed and launched again.  A call under way may have had its effect;
\* the session that signIn or createUser would have stored is not on the device.
Relaunch ==
    /\ account' \in IF call = "createUser" THEN {account, TRUE} ELSE {account}
    /\ userDoc' \in IF call = "setData" THEN {userDoc, entered} ELSE {userDoc}
    /\ stack' = FirstScreen(signedIn)
    /\ children' = FirstChild(signedIn)
    /\ call' = "idle"
    /\ loader' = FALSE
    /\ error' = "none"
    /\ loaded' = FALSE
    /\ UNCHANGED <<device, entered>>

-----------------------------------------------------------------------------

Fields == {"empty", "invalid", "valid"}

Next ==
    \/ \E sc \in {"login", "register"} : Open(sc)
    \/ Back
    \/ \E fields \in Fields :
           SignInButton(fields) \/ \E name \in Names \union {"blank"} : CreateAccountButton(name, fields)
    \/ SignIn \/ CreateUser \/ SetData \/ Load
    \/ OpenProfile \/ CloseProfile \/ LogOut \/ DeleteUserComplete
    \/ Relaunch

Spec == Init /\ [][Next]_vars

\* The SDKs complete every call once the device is connected.
FairSpec == Spec /\ WF_vars(SignIn) /\ WF_vars(CreateUser) /\ WF_vars(SetData) /\ WF_vars(Load)

-----------------------------------------------------------------------------
(***************************************************************************)
(* Properties.                                                             *)
(***************************************************************************)

\* There is one child coordinator at any time, it is the one of the screens on the
\* stack, and below the screens of a session, or of the authentication, there is
\* nothing left of the other.  The tab bar is only there for a user who is signed in.
OneSession ==
    /\ children \in {<<"authentication">>, <<"home">>}
    /\ children = <<"home">> => signedIn /\ stack \in {<<"tabBar">>, <<"tabBar", "profile">>}
    /\ children = <<"authentication">> =>
           stack \in {<<"main">>, <<"main", "login">>, <<"main", "register">>}

\* An account whose document is missing, and not about to be stored.
Orphan == account /\ userDoc = "none" /\ call # "setData"

\* A registration that was cut short between its two calls is never repaired: the
\* email is in use, and after signing in the dashboard waits for a document that no
\* screen can store, so that the profile is out of reach as well.
OrphanIsForever == [][Orphan => Orphan']_vars

\* The account as AccountLife sees it; it knows of no documents without an owner.
LifeOf ==
    IF userDoc # "none" THEN IF account THEN "whole" ELSE "ownerless"
    ELSE IF ~ account THEN "absent" ELSE IF Orphan THEN "orphan" ELSE "opening"

Life == INSTANCE AccountLife WITH life <- LifeOf

\* Registering, signing in and out, deletion and kills, with every failure and lost
\* answer, implement the life of an account: createUser and setData make it whole in
\* that order, it is deleted when it is whole, and a registration that was cut short
\* is never repaired.  It implies OrphanIsForever.
ImplementsAccountLife == Life!Spec

\* The loader goes away, whatever was entered and whichever call fails; the one that
\* stays is that of a sign-in with an empty field, over the message to fill it.  A sign-in
\* or a registration that is refused has to dismiss its loader.
LoaderEnds == loader ~> ~ loader \/ (Top = "login" /\ error = "fillField" /\ call = "idle")
=============================================================================
