---------------------------- MODULE AccountProofs ----------------------------
(***************************************************************************)
(* Proofs about an account: of the safety properties of AccountDeletion,   *)
(* for any number of covers and pipelines, then of those of Onboarding,    *)
(* and that both implement AccountLife.                                    *)
(*                                                                         *)
(* Onboarding is an instance, with its further variables declared here.    *)
(* The two specifications use the variables of the same name each in its   *)
(* own way (userDoc is a Boolean in one and a name in the other): a        *)
(* theorem assumes one of the specifications, never both.                  *)
(***************************************************************************)
EXTENDS AccountDeletion, SequenceTheorems, TLAPS

\* A pipeline that has come as far as the account has seen the documents go.
OrderInv ==
    \A i \in Pipelines :
        pipeline[i].step \in {"reauthenticate", "deleteUser"} => ~ userDoc

\* The account is there until the one exit.
ExitInv == account => exits = 0

IInv == TypeOK /\ OrderInv /\ DocumentsGoFirst /\ ExitInv /\ OneExit

-----------------------------------------------------------------------------

\* Slots keep holding a call and a cover, whatever a pipeline does next.
LEMMA PipelineType ==
    ASSUME TypeOK, NEW i \in Pipelines, NEW s \in Calls,
           GoOn(i, s) \/ End(i)
    PROVE  pipeline' \in [Pipelines -> [step : Calls, cover : Covers \union {"none"}]
                                           \union {None}]
  BY DEF TypeOK, GoOn, End, Step

\* Starting one pipeline per cover keeps the type of the slots.
LEMMA FanOutType ==
    ASSUME TypeOK, NEW slot \in [files -> Free], FanOut(slot)
    PROVE  pipeline' \in [Pipelines -> [step : Calls, cover : Covers \union {"none"}]
                                           \union {None}]
<1> SUFFICES ASSUME NEW i \in Pipelines
             PROVE  pipeline'[i] \in [step : Calls, cover : Covers \union {"none"}]
                                         \union {None}
  BY DEF FanOut
<1>1. CASE \E c \in files : slot[c] = i
  <2>1. pipeline'[i] = Step("delete", CHOOSE c \in files : slot[c] = i)
    BY <1>1 DEF FanOut
  <2>2. (CHOOSE c \in files : slot[c] = i) \in Covers
    BY <1>1 DEF TypeOK
  <2> QED
    BY <2>1, <2>2 DEF Step, Calls
<1>2. CASE ~ \E c \in files : slot[c] = i
  BY <1>2 DEF FanOut, TypeOK
<1> QED
  BY <1>1, <1>2

\* What the completions do to the screen keeps the types of what it shows.
LEMMA ProfileType ==
    ASSUME TypeOK, ShowError \/ DismissAndShowError \/ ExitToLogin \/ UNCHANGED profile
    PROVE  /\ screen' \in {"profile", "starting", "login"}
           /\ loader' \in BOOLEAN
           /\ loader' => screen' = "profile"
           /\ error' \in BOOLEAN
           /\ exits' \in Nat
<1>1. screen' \in {"profile", "starting", "login"} /\ exits' \in Nat
  BY DEF TypeOK, ShowError, DismissAndShowError, ExitToLogin, profile
<1>2. loader' \in BOOLEAN
  BY Zenon DEF TypeOK, ShowError, DismissAndShowError, ExitToLogin, profile
<1>3. error' \in BOOLEAN
  BY Zenon DEF TypeOK, ShowError, DismissAndShowError, ExitToLogin, profile
<1>4. loader' => screen' = "profile"
  <2>1. CASE ShowError \/ UNCHANGED profile
    BY <2>1 DEF TypeOK, ShowError, profile
  <2>2. CASE DismissAndShowError
    BY <2>2, Zenon DEF TypeOK, DismissAndShowError
  <2>3. CASE ExitToLogin
    BY <2>3 DEF TypeOK, ExitToLogin, profile
  <2> QED
    BY <2>1, <2>2, <2>3
<1> QED
  BY <1>1, <1>2, <1>3, <1>4

\* Only deleteUserComplete(.success) counts an exit.
LEMMA ExitsStay ==
    ASSUME ShowError \/ DismissAndShowError \/ UNCHANGED profile
    PROVE  exits' = exits
  BY DEF ShowError, DismissAndShowError, profile

\* Every step of the deletion keeps the types.
LEMMA TypeStep == TypeOK /\ [Next]_vars => TypeOK'
<1> SUFFICES ASSUME TypeOK, [Next]_vars PROVE TypeOK'
  OBVIOUS
<1> USE DEF remote, device
<1>1. CASE DeleteAccount
  BY <1>1 DEF DeleteAccount, TypeOK
<1>2. CASE LogOut
  BY <1>2 DEF LogOut, TypeOK
<1>3. CASE Restart
  BY <1>3 DEF Restart, TypeOK
<1>4. CASE Arrive
  BY <1>4 DEF Arrive, TypeOK
<1>5. CASE ListAll
  BY <1>5, FanOutType, PipelineType, ProfileType DEF ListAll, TypeOK, Free, Calls
<1>6. ASSUME NEW i \in Pipelines, DeleteCover(i)
      PROVE  TypeOK'
  BY <1>6, PipelineType, ProfileType DEF DeleteCover, TypeOK, Calls
<1>7. ASSUME NEW i \in Pipelines, DeleteFn(i)
      PROVE  TypeOK'
  BY <1>7, PipelineType, ProfileType DEF DeleteFn, TypeOK, Calls
<1>8. ASSUME NEW i \in Pipelines, Reauthenticate(i)
      PROVE  TypeOK'
  BY <1>8, PipelineType, ProfileType DEF Reauthenticate, TypeOK, Calls
<1>9. ASSUME NEW i \in Pipelines, DeleteUser(i)
      PROVE  TypeOK'
  BY <1>9, PipelineType, ProfileType DEF DeleteUser, TypeOK, Calls
<1>10. CASE UNCHANGED vars
  BY <1>10 DEF vars, TypeOK
<1> QED
  BY <1>1, <1>2, <1>3, <1>4, <1>5, <1>6, <1>7, <1>8, <1>9, <1>10 DEF Next, Completion

\* The strengthened invariant is kept by every step.
LEMMA Inductive == IInv /\ [Next]_vars => IInv'
<1> SUFFICES ASSUME IInv, [Next]_vars PROVE IInv'
  OBVIOUS
<1> USE DEF IInv, OrderInv, DocumentsGoFirst, ExitInv, OneExit, remote, device, profile
<1>0. TypeOK'
  BY TypeStep
<1>1. CASE DeleteAccount
  BY <1>0, <1>1 DEF DeleteAccount
<1>2. CASE LogOut
  BY <1>0, <1>2 DEF LogOut
<1>3. CASE Restart
  BY <1>0, <1>3 DEF Restart, None
<1>4. CASE Arrive
  BY <1>0, <1>4 DEF Arrive
<1>5. CASE ListAll
  <2>1. OrderInv'
    <3>1. \A i \in Pipelines : pipeline'[i].step \in {"reauthenticate", "deleteUser"}
                                   => pipeline'[i] = pipeline[i]
      BY <1>5 DEF ListAll, FanOut, GoOn, Step, TypeOK
    <3> QED
      BY <1>5, <3>1 DEF ListAll
  <2> QED
    BY <1>0, <1>5, <2>1 DEF ListAll, ShowError
<1>6. ASSUME NEW i \in Pipelines, DeleteCover(i)
      PROVE  IInv'
  <2>1. exits' = exits
    BY <1>6, ExitsStay DEF DeleteCover
  <2> QED
    BY <1>0, <1>6, <2>1 DEF DeleteCover, GoOn, End, Step, None, TypeOK
<1>7. ASSUME NEW i \in Pipelines, DeleteFn(i)
      PROVE  IInv'
  <2>1. exits' = exits /\ account' = account /\ signedIn' = signedIn
    BY <1>7, ExitsStay DEF DeleteFn
  <2>2. userDoc' => userDoc
    BY <1>7 DEF DeleteFn
  <2>3. \A j \in Pipelines : pipeline'[j].step \in {"reauthenticate", "deleteUser"}
                                 => j # i \/ ~ userDoc'
    <3>1. CASE userDoc' = FALSE
      BY <3>1
    <3>2. CASE End(i)
      BY <3>2 DEF End, None, TypeOK
    <3> QED
      BY <1>7, <3>1, <3>2, Zenon DEF DeleteFn
  <2>4. \A j \in Pipelines : j # i => pipeline'[j] = pipeline[j]
    BY <1>7 DEF DeleteFn, GoOn, End, TypeOK
  <2> QED
    BY <1>0, <2>1, <2>2, <2>3, <2>4
<1>8. ASSUME NEW i \in Pipelines, Reauthenticate(i)
      PROVE  IInv'
  <2>1. exits' = exits
    BY <1>8, ExitsStay DEF Reauthenticate
  <2> QED
    BY <1>0, <1>8, <2>1 DEF Reauthenticate, GoOn, End, Step, None, TypeOK
<1>9. ASSUME NEW i \in Pipelines, DeleteUser(i)
      PROVE  IInv'
  <2>1. ~ userDoc /\ userDoc' = userDoc
    BY <1>9 DEF DeleteUser
  <2>2. CASE account /\ ~ account' /\ ~ signedIn' /\ ExitToLogin
    BY <1>0, <2>1, <2>2 DEF ExitToLogin, TypeOK
  <2>3. CASE exits' = exits /\ (account' => account) /\ signedIn' = signedIn
    BY <1>0, <2>1, <2>3
  <2>4. CASE account /\ account' = FALSE /\ signedIn' = FALSE /\ ExitToLogin
    BY <2>2, <2>4
  <2>5. CASE account' \in {account, FALSE} /\ DismissAndShowError /\ UNCHANGED device
    <3>1. account' => account
      <4>1. account' = account \/ account' = FALSE
        BY <2>5
      <4> QED
        BY <4>1, Zenon
    <3>2. signedIn' = signedIn
      BY <2>5 DEF device
    <3> QED
      BY <2>3, <2>5, <3>1, <3>2, ExitsStay
  <2> QED
    BY <1>9, <2>4, <2>5, Zenon DEF DeleteUser
<1>10. CASE UNCHANGED vars
  BY <1>0, <1>10 DEF vars
<1> QED
  BY <1>1, <1>2, <1>3, <1>4, <1>5, <1>6, <1>7, <1>8, <1>9, <1>10 DEF Next, Completion

\* The strengthened invariant holds throughout.
LEMMA Invariance == Spec => []IInv
<1>1. Init => IInv
  <2> SUFFICES ASSUME Init PROVE IInv
    OBVIOUS
  <2>1. userDoc \in BOOLEAN /\ account \in BOOLEAN /\ signedIn \in BOOLEAN
    BY Zenon DEF Init
  <2>2. listing \in BOOLEAN /\ loader \in BOOLEAN /\ error \in BOOLEAN
    BY Zenon DEF Init
  <2>3. TypeOK
    BY <2>1, <2>2 DEF Init, TypeOK
  <2>4. OrderInv
    BY DEF Init, OrderInv, None
  <2>5. DocumentsGoFirst /\ ExitInv /\ OneExit
    <3>1. account /\ exits = 0
      BY Zenon DEF Init
    <3> QED
      BY <3>1 DEF DocumentsGoFirst, ExitInv, OneExit
  <2> QED
    BY <2>3, <2>4, <2>5 DEF IInv
<1> QED
  BY <1>1, Inductive, PTL DEF Spec

-----------------------------------------------------------------------------

\* The profile, the pipelines and what is stored keep their types.
THEOREM TypeCorrect == Spec => []TypeOK
  BY Invariance, PTL DEF IInv

\* No interleaving of pipelines, failure, retry or restart deletes the account
\* before the user's documents.
THEOREM DocumentsBeforeAccount == Spec => []DocumentsGoFirst
  BY Invariance, PTL DEF IInv

\* However many pipelines reach deleteUser, at most one takes the user to the
\* login page, and only with the account gone.
THEOREM AtMostOneExit == Spec => []OneExit
  BY Invariance, PTL DEF IInv

\* No step gives up the password while the account is still there.
THEOREM PasswordKept == Spec => PasswordIsKept
<1>1. [Next]_vars => [account' => keychain' = keychain]_vars
  BY DEF Next, Completion, DeleteAccount, LogOut, Restart, Arrive, ListAll, DeleteCover,
     DeleteFn, Reauthenticate, DeleteUser, device
<1> QED
  BY <1>1, PTL DEF Spec, PasswordIsKept

\* What a step may do to the documents, to the account and to whoever can still reach
\* it, for the account to go on with its life.
LEMMA LifeGoesOn ==
    ASSUME IInv, IInv',
           userDoc' => userDoc, account' => account,
           account /\ ~ account' => Reachable,
           ~ userDoc /\ account' /\ Reachable' => Reachable
    PROVE  [Life!Next]_LifeOf
<1> USE DEF Life!Next, Life!Become, LifeOf
<1>1. CASE userDoc
  <2>1. LifeOf = "whole"
    BY <1>1 DEF IInv, DocumentsGoFirst
  <2>2. CASE userDoc'
    BY <2>1, <2>2 DEF IInv, DocumentsGoFirst
  <2>3. CASE ~ userDoc'
    BY <2>1, <2>3 DEF Life!Clear, Life!Close, Life!Strand
  <2> QED
    BY <2>2, <2>3
<1>2. CASE ~ userDoc /\ ~ account
  BY <1>2
<1>3. CASE ~ userDoc /\ account
  <2>1. CASE account'
    BY <1>3, <2>1 DEF Life!Strand
  <2>2. CASE ~ account'
    BY <1>3, <2>2 DEF Life!Close
  <2> QED
    BY <2>1, <2>2
<1> QED
  BY <1>1, <1>2, <1>3

\* A step that leaves the documents and the account alone, and brings nobody there.
LEMMA NobodyComesNear ==
    ASSUME IInv, IInv', userDoc' = userDoc, account' = account, keychain' = keychain,
           screen' = "profile" => screen = "profile",
           \A i \in Pipelines : pipeline'[i].step \in {"reauthenticate", "deleteUser"}
                                    => pipeline'[i] = pipeline[i]
    PROVE  [Life!Next]_LifeOf
<1>1. Reachable' => Reachable
  BY DEF Reachable
<1> QED
  BY <1>1, LifeGoesOn

\* Every step of the deletion is a step of the life of the account, or leaves it alone.
LEMMA DeletionLife == IInv /\ IInv' /\ [Next]_vars => [Life!Next]_LifeOf
<1> SUFFICES ASSUME IInv, IInv', [Next]_vars PROVE [Life!Next]_LifeOf
  OBVIOUS
<1> USE DEF remote, device, profile
<1>0. TypeOK
  BY DEF IInv
<1>1. CASE DeleteAccount
  BY <1>1, NobodyComesNear DEF DeleteAccount
<1>2. CASE LogOut
  BY <1>2, NobodyComesNear DEF LogOut
<1>3. CASE Restart
  <2>1. \A i \in Pipelines : pipeline'[i].step = "free"
    BY <1>3 DEF Restart, None
  <2>2. screen' # "profile"
    BY <1>3 DEF Restart
  <2> QED
    BY <1>3, <2>1, <2>2, NobodyComesNear DEF Restart
<1>4. CASE Arrive
  BY <1>4, LifeGoesOn DEF Arrive
<1>5. CASE ListAll
  <2>1. \A i \in Pipelines : pipeline'[i].step \in {"reauthenticate", "deleteUser"}
                                 => pipeline'[i] = pipeline[i]
    BY <1>0, <1>5 DEF ListAll, FanOut, GoOn, Step, TypeOK
  <2>2. screen' = screen
    BY <1>5 DEF ListAll, ShowError
  <2> QED
    BY <1>5, <2>1, <2>2, NobodyComesNear DEF ListAll
<1>6. ASSUME NEW i \in Pipelines, DeleteCover(i)
      PROVE  [Life!Next]_LifeOf
  <2>1. \A j \in Pipelines : pipeline'[j].step \in {"reauthenticate", "deleteUser"}
                                 => pipeline'[j] = pipeline[j]
    BY <1>0, <1>6 DEF DeleteCover, GoOn, End, Step, None, TypeOK
  <2>2. screen' = screen
    BY <1>6 DEF DeleteCover, ShowError
  <2> QED
    BY <1>6, <2>1, <2>2, NobodyComesNear DEF DeleteCover
<1>7. ASSUME NEW i \in Pipelines, DeleteFn(i)
      PROVE  [Life!Next]_LifeOf
  <2>1. account' = account /\ keychain' = keychain
    BY <1>7 DEF DeleteFn
  <2>2. screen' = screen
    BY <1>7 DEF DeleteFn, ShowError
  <2>3. userDoc' => userDoc
    <3>1. userDoc' = FALSE \/ userDoc' = userDoc
      BY <1>7 DEF DeleteFn
    <3> QED
      BY <3>1, Zenon
  <2>4. \A j \in Pipelines : pipeline'[j].step \in {"reauthenticate", "deleteUser"}
            => pipeline'[j] = pipeline[j] \/ (screen = "profile" /\ keychain)
    <3>1. CASE End(i)
      BY <1>0, <3>1 DEF End, None, TypeOK
    <3>2. CASE screen = "profile" /\ keychain
      BY <3>2
    <3> QED
      BY <1>7, <3>1, <3>2, Zenon DEF DeleteFn
  <2>5. Reachable' => Reachable
    BY <2>1, <2>2, <2>4 DEF Reachable
  <2> QED
    BY <2>1, <2>3, <2>5, LifeGoesOn
<1>8. ASSUME NEW i \in Pipelines, Reauthenticate(i)
      PROVE  [Life!Next]_LifeOf
  <2>1. Reachable
    BY <1>8 DEF Reauthenticate, Reachable
  <2> QED
    BY <1>8, <2>1, LifeGoesOn DEF Reauthenticate
<1>9. ASSUME NEW i \in Pipelines, DeleteUser(i)
      PROVE  [Life!Next]_LifeOf
  <2>1. Reachable
    BY <1>9 DEF DeleteUser, Reachable
  <2>2. userDoc' = userDoc
    BY <1>9 DEF DeleteUser
  <2>3. account' => account
    <3>1. account' = FALSE \/ account' = account
      BY <1>9 DEF DeleteUser
    <3> QED
      BY <3>1, Zenon
  <2> QED
    BY <2>1, <2>2, <2>3, LifeGoesOn
<1>10. CASE UNCHANGED vars
  BY <1>10, NobodyComesNear DEF vars
<1> QED
  BY <1>1, <1>2, <1>3, <1>4, <1>5, <1>6, <1>7, <1>8, <1>9, <1>10 DEF Next, Completion

\* All the pipelines of a deletion, with every failure, lost answer, retry, log out and
\* restart, implement AccountLife.
THEOREM DeletionImplementsAccountLife == Spec => ImplementsAccountLife
<1>1. Init => Life!Init
  BY DEF Init, Life!Init, LifeOf
<1>2. IInv /\ IInv' /\ [Next]_vars => [Life!Next]_LifeOf
  BY DeletionLife
<1> QED
  BY <1>1, <1>2, Invariance, PTL DEF Spec, ImplementsAccountLife, Life!Spec

-----------------------------------------------------------------------------
(***************************************************************************)
(* Onboarding.                                                             *)
(***************************************************************************)

VARIABLES stack, children, call, entered, loaded

O == INSTANCE Onboarding

\* A call is under way below its own screen, which the loader covers: nothing can be
\* tapped, so that no second call starts and the screen does not change under the call.
CallInv ==
    /\ call = "signIn" => loader /\ stack = <<"main", "login">>
    /\ call \in {"createUser", "setData"} => loader /\ stack = <<"main", "register">>

\* A document has an owner; while it is about to be stored, the new account has none
\* and its user is signed in.
DocumentInv ==
    /\ userDoc # "none" => account
    /\ call = "setData" => signedIn /\ account /\ userDoc = "none"

\* The dashboard has loaded a document, and the profile is only reached from there.
LoadedInv ==
    /\ loaded => userDoc # "none" /\ children = <<"home">>
    /\ stack = <<"tabBar", "profile">> => loaded

SessionInv == O!TypeOK /\ O!OneSession /\ CallInv /\ DocumentInv /\ LoadedInv

-----------------------------------------------------------------------------

\* A list of one is given by its element.
LEMMA Single ==
    ASSUME NEW S, NEW s \in Seq(S), Len(s) = 1
    PROVE  s = <<s[1]>>
<1> DEFINE t == <<s[1]>>
<1>1. s[1] \in S
  BY ElementOfSeq
<1>2. t \in Seq(S) /\ Len(t) = 1 /\ t[1] = s[1]
  BY <1>1
<1>3. Len(s) = Len(t) /\ \A i \in 1 .. Len(s) : s[i] = t[i]
  BY <1>2
<1> HIDE DEF t
<1>4. s = t
  BY <1>2, <1>3, SeqEqual
<1> QED
  BY <1>4 DEF t

\* Appending to a list of one gives the list of the two.
LEMMA Pair ==
    ASSUME NEW S, NEW v \in Seq(S), NEW b \in S, Len(v) = 1
    PROVE  Append(v, b) = <<v[1], b>>
<1> DEFINE u == Append(v, b)
           t == <<v[1], b>>
<1>1. v[1] \in S
  <2>1. 1 \in 1 .. Len(v)
    OBVIOUS
  <2> QED
    BY <2>1, ElementOfSeq, Zenon
<1>2. u[1] = v[1]
  BY AppendProperties
<1>3. u[2] = b
  BY AppendProperties
<1>4. u \in Seq(S) /\ Len(u) = 2
  <2>1. u \in Seq(S) /\ Len(u) = Len(v) + 1
    BY AppendProperties
  <2> QED
    BY <2>1
<1>5. t \in Seq(S) /\ Len(t) = 2 /\ t[1] = v[1] /\ t[2] = b
  BY <1>1
<1> HIDE DEF u, t
<1>6. Len(u) = Len(t) /\ \A i \in 1 .. Len(u) : u[i] = t[i]
  BY <1>2, <1>3, <1>4, <1>5
<1>7. u = t
  BY <1>4, <1>5, <1>6, SeqEqual
<1> QED
  BY <1>7 DEF u, t

\* What the list operators do with the short lists of screens and coordinators.
LEMMA Short ==
    ASSUME NEW a, NEW b
    PROVE  /\ Append(<<>>, a) = <<a>> /\ Append(<<a>>, b) = <<a, b>>
           /\ Head(<<a, b>>) = a /\ Tail(<<a, b>>) = <<b>>
           /\ SubSeq(<<a, b>>, 1, 1) = <<a>> /\ SubSeq(<<a, b>>, 2, 2) = <<b>>
<1> DEFINE S == {a, b}
           list == <<a, b>>
<1>1. /\ list \in Seq(S) /\ list # <<>>
      /\ Len(list) = 2 /\ list[1] = a /\ list[2] = b
  OBVIOUS
<1>2. ASSUME NEW n \in 1..2
      PROVE  SubSeq(list, n, n) = <<list[n]>>
  <2> DEFINE u == SubSeq(list, n, n)
  <2>1. n \in Int /\ \A i \in n .. n : list[i] \in S
    BY <1>1
  <2>2. u \in Seq(S) /\ Len(u) = 1 /\ u[1] = list[n]
    <3> HIDE DEF list, S
    <3> QED
      BY <2>1, SubSeqProperties
  <2> HIDE DEF u
  <2>3. u = <<u[1]>>
    BY <2>2, Single
  <2> QED
    BY <2>2, <2>3 DEF u
<1>3. Tail(list) = SubSeq(list, 2, 2)
  <2> HIDE DEF list, S
  <2> QED
    BY <1>1, TailIsSubSeq
<1>4. Append(<<>>, a) = <<a>>
  <2>1. <<>> \in Seq(S) /\ Len(<<>>) = 0 /\ a \in S
    OBVIOUS
  <2> DEFINE u == Append(<<>>, a)
  <2>2. u \in Seq(S) /\ Len(u) = 1 /\ u[1] = a
    <3> HIDE DEF S
    <3> QED
      BY <2>1, AppendProperties
  <2> HIDE DEF u
  <2> QED
    BY <2>2, Single DEF u
<1>5. Append(<<a>>, b) = list
  <2>1. <<a>> \in Seq(S) /\ Len(<<a>>) = 1 /\ <<a>>[1] = a /\ b \in S
    OBVIOUS
  <2> DEFINE v == <<a>>
  <2> HIDE DEF v, S, list
  <2>2. Append(v, b) = <<v[1], b>>
    BY <2>1, Pair DEF v
  <2> QED
    BY <2>1, <2>2 DEF v, list
<1>6. Head(list) = a
  BY <1>1
<1>7. SubSeq(list, 1, 1) = <<a>> /\ SubSeq(list, 2, 2) = <<b>>
  <2> HIDE DEF list
  <2> QED
    BY <1>1, <1>2
<1> QED
  BY <1>3, <1>4, <1>5, <1>6, <1>7

\* childDidFinish takes out the older of two coordinators.
LEMMA Finish ==
    ASSUME NEW a, NEW b, a # b
    PROVE  O!ChildDidFinish(<<a, b>>, a) = <<b>>
<1> DEFINE list == <<a, b>>
           at == CHOOSE k \in DOMAIN list : list[k] = a /\ \A j \in 1..(k - 1) : list[j] # a
<1>1. DOMAIN list = {1, 2} /\ list[1] = a /\ list[2] = b /\ Len(list) = 2
  OBVIOUS
<1>2. at = 1
  BY <1>1
<1>3. \E k \in DOMAIN list : list[k] = a
  BY <1>1
<1>4. SubSeq(list, 1, 0) = <<>>
  BY SubSeqEmpty
<1>5. SubSeq(list, 2, 2) = <<b>>
  BY Short
<1>6. <<>> \o <<b>> = <<b>>
  <2>1. <<b>> \in Seq({b})
    OBVIOUS
  <2> QED
    BY <2>1, ConcatEmptySeq
<1>7. O!ChildDidFinish(list, a) = SubSeq(list, 1, at - 1) \o SubSeq(list, at + 1, Len(list))
  BY <1>3 DEF O!ChildDidFinish
<1> HIDE DEF at
<1> QED
  BY <1>1, <1>2, <1>4, <1>5, <1>6, <1>7

\* The stacks that AuthenticationCoordinator leaves.
AuthStacks == {<<"main">>, <<"main", "login">>, <<"main", "register">>}

\* The stacks of a session.
HomeStacks == {<<"tabBar">>, <<"tabBar", "profile">>}

\* Every stack is one of five.
LEMMA FiveStacks ==
    ASSUME O!OneSession
    PROVE  /\ children = <<"home">> \/ children = <<"authentication">>
           /\ children = <<"home">> => signedIn /\ stack \in HomeStacks
           /\ children = <<"authentication">> => stack \in AuthStacks
  BY DEF O!OneSession, AuthStacks, HomeStacks

\* A screen that takes input determines the stack, and no call is under way.
LEMMA OnScreen ==
    ASSUME SessionInv
    PROVE  /\ O!On("main") => stack = <<"main">>
           /\ O!On("login") => stack = <<"main", "login">>
           /\ O!On("register") => stack = <<"main", "register">>
           /\ O!On("tabBar") => stack = <<"tabBar">>
           /\ O!On("profile") => stack = <<"tabBar", "profile">>
           /\ \A sc : O!On(sc) => call = "idle" /\ ~ loader
<1>1. stack \in AuthStacks \union HomeStacks
  BY FiveStacks DEF SessionInv
<1>2. ASSUME NEW sc, O!On(sc)
      PROVE  call = "idle" /\ ~ loader /\ stack[Len(stack)] = sc
  <2>1. ~ loader /\ stack[Len(stack)] = sc
    BY <1>2 DEF O!On, O!Top
  <2>2. call \in {"idle", "signIn", "createUser", "setData"}
    BY DEF SessionInv, O!TypeOK
  <2> QED
    BY <2>1, <2>2 DEF SessionInv, CallInv
<1>3. CASE stack = <<"main">>
  BY <1>2, <1>3
<1>4. CASE stack = <<"main", "login">>
  BY <1>2, <1>4
<1>5. CASE stack = <<"main", "register">>
  BY <1>2, <1>5
<1>6. CASE stack = <<"tabBar">>
  BY <1>2, <1>6
<1>7. CASE stack = <<"tabBar", "profile">>
  BY <1>2, <1>7
<1> QED
  BY <1>1, <1>3, <1>4, <1>5, <1>6, <1>7 DEF AuthStacks, HomeStacks

\* The screen at the bottom tells the stacks of a session from the others.
LEMMA Bottom ==
    /\ \A s \in AuthStacks : s[1] = "main"
    /\ \A s \in HomeStacks : s[1] = "tabBar"
<1>1. /\ <<"main">>[1] = "main" /\ <<"main", "login">>[1] = "main"
      /\ <<"main", "register">>[1] = "main"
  OBVIOUS
<1>2. <<"tabBar">>[1] = "tabBar" /\ <<"tabBar", "profile">>[1] = "tabBar"
  OBVIOUS
<1> QED
  BY <1>1, <1>2 DEF AuthStacks, HomeStacks

\* Each of the stacks tells whose screens it holds.
LEMMA Whose ==
    ASSUME SessionInv
    PROVE  /\ stack \in AuthStacks <=> children = <<"authentication">>
           /\ stack \in HomeStacks <=> children = <<"home">>
  BY Bottom, FiveStacks DEF SessionInv

\* These stacks, and the lists of one coordinator, have the right types.
LEMMA StackTypes ==
    /\ \A s \in AuthStacks \union HomeStacks : s \in Seq(O!Screens)
    /\ \A c \in {<<"authentication">>, <<"home">>} : c \in Seq({"authentication", "home"})
<1>1. /\ <<"main">> \in Seq(O!Screens) /\ <<"main", "login">> \in Seq(O!Screens)
      /\ <<"main", "register">> \in Seq(O!Screens)
      /\ <<"tabBar">> \in Seq(O!Screens) /\ <<"tabBar", "profile">> \in Seq(O!Screens)
  BY DEF O!Screens
<1>2. /\ <<"authentication">> \in Seq({"authentication", "home"})
      /\ <<"home">> \in Seq({"authentication", "home"})
  OBVIOUS
<1> QED
  BY <1>1, <1>2 DEF AuthStacks, HomeStacks

\* loginSucceed and registerComplete leave the home coordinator, alone, with the tab bar.
LEMMA Home ==
    ASSUME children = <<"authentication">>, O!ToHome
    PROVE  /\ stack' = <<"tabBar">> /\ children' = <<"home">>
           /\ loader' = FALSE /\ error' = "none" /\ loaded' = FALSE
<1>1. Append(children, "home") = <<"authentication", "home">>
  BY Short
<1>2. O!ChildDidFinish(<<"authentication", "home">>, "authentication") = <<"home">>
  BY Finish
<1> QED
  BY <1>1, <1>2 DEF O!ToHome

\* The way back leaves the authentication coordinator, alone, with its first page.
LEMMA MainLoginPage ==
    ASSUME children = <<"home">>, NEW below \in {<<>>, <<"tabBar">>}, O!ToMainLoginPage(below)
    PROVE  /\ stack' = <<"main">> /\ children' = <<"authentication">>
           /\ error' = "none" /\ loaded' = FALSE
<1>1. Append(children, "authentication") = <<"home", "authentication">>
  BY Short
<1>2. O!ChildDidFinish(<<"home", "authentication">>, "home") = <<"authentication">>
  BY Finish
<1>3. children' = <<"authentication">> /\ error' = "none" /\ loaded' = FALSE
  BY <1>1, <1>2 DEF O!ToMainLoginPage
<1> DEFINE pushed == Append(below, "main")
<1>4. stack' = IF Len(pushed) > 1 THEN Tail(pushed) ELSE pushed
  BY DEF O!ToMainLoginPage, O!PushMain
<1> HIDE DEF pushed
<1>5. CASE below = <<>>
  <2>1. pushed = <<"main">> /\ Len(<<"main">>) = 1
    BY <1>5, Short DEF pushed
  <2> QED
    BY <1>3, <1>4, <2>1
<1>6. CASE below = <<"tabBar">>
  <2>1. pushed = <<"tabBar", "main">> /\ Len(<<"tabBar", "main">>) = 2
    BY <1>6, Short DEF pushed
  <2>2. Tail(<<"tabBar", "main">>) = <<"main">>
    BY Short
  <2> QED
    BY <1>3, <1>4, <2>1, <2>2
<1> QED
  BY <1>5, <1>6

\* The lists that the steps compare are different ones.
LEMMA Distinct ==
    /\ <<"authentication">> # <<"home">>
    /\ <<"tabBar">> # <<"tabBar", "profile">>
    /\ \A s \in AuthStacks : s # <<"tabBar", "profile">>
    /\ <<"main">> # <<"tabBar", "profile">>
<1>1. <<"authentication">> # <<"home">>
  <2>1. <<"authentication">>[1] = "authentication" /\ <<"home">>[1] = "home"
    OBVIOUS
  <2> QED
    BY <2>1
<1>2. <<"tabBar">> # <<"tabBar", "profile">>
  <2>1. Len(<<"tabBar">>) = 1 /\ Len(<<"tabBar", "profile">>) = 2
    OBVIOUS
  <2> QED
    BY <2>1
<1>3. <<"main">> \in AuthStacks /\ <<"tabBar", "profile">> \in HomeStacks
  BY DEF AuthStacks, HomeStacks
<1> QED
  BY <1>1, <1>2, <1>3, Bottom

\* Popping the screen on top leaves the one below.
LEMMA PopOne ==
    ASSUME NEW a, NEW b
    PROVE  SubSeq(<<a, b>>, 1, Len(<<a, b>>) - 1) = <<a>>
<1> DEFINE list == <<a, b>>
<1>1. Len(list) - 1 = 1
  OBVIOUS
<1>2. SubSeq(list, 1, 1) = <<a>>
  BY Short
<1> HIDE DEF list
<1>3. SubSeq(list, 1, Len(list) - 1) = <<a>>
  BY <1>1, <1>2
<1> QED
  BY <1>3 DEF list

\* Every step of the session keeps the types and the session.
LEMMA SessionStep == SessionInv /\ [O!Next]_O!vars => SessionInv'
<1> SUFFICES ASSUME SessionInv, [O!Next]_O!vars PROVE SessionInv'
  OBVIOUS
<1> USE DEF O!remote, O!device, O!shell
<1>0. O!TypeOK /\ O!OneSession /\ CallInv /\ DocumentInv /\ LoadedInv
  BY DEF SessionInv
<1>1. ASSUME NEW sc \in {"login", "register"}, O!Open(sc)
      PROVE  SessionInv'
  <2>1. stack = <<"main">> /\ call = "idle" /\ children = <<"authentication">>
    BY <1>1, OnScreen, Whose DEF O!Open, AuthStacks
  <2>2. stack' = <<"main", sc>> /\ stack' \in AuthStacks
    BY <1>1, <2>1, Short DEF O!Open, AuthStacks
  <2>3. O!TypeOK'
    BY <1>0, <1>1, <2>2, StackTypes DEF O!Open, O!TypeOK
  <2> QED
    BY <1>0, <1>1, <2>1, <2>2, <2>3
       DEF SessionInv, O!Open, O!OneSession, CallInv, DocumentInv, LoadedInv, AuthStacks
<1>2. CASE O!Back
  <2>1. /\ stack \in {<<"main", "login">>, <<"main", "register">>}
        /\ call = "idle" /\ children = <<"authentication">>
    BY <1>2, OnScreen, Whose DEF O!Back, AuthStacks
  <2>2. stack' = <<"main">>
    <3>1. stack' = SubSeq(stack, 1, Len(stack) - 1)
      BY <1>2 DEF O!Back
    <3> QED
      BY <2>1, <3>1, PopOne
  <2>3. O!TypeOK'
    BY <1>0, <1>2, <2>2, StackTypes DEF O!Back, O!TypeOK, AuthStacks
  <2>4. children' = children /\ call' = call /\ signedIn' = signedIn /\ loaded' = loaded
    BY <1>2 DEF O!Back
  <2>5. O!OneSession' /\ CallInv'
    BY <2>1, <2>2, <2>4, Distinct DEF O!OneSession, CallInv
  <2>6. DocumentInv'
    BY <1>0, <1>2, <2>1 DEF O!Back, DocumentInv
  <2>7. LoadedInv'
    BY <1>0, <2>1, <2>2, <2>4, Distinct DEF LoadedInv, AuthStacks
  <2> QED
    BY <2>3, <2>5, <2>6, <2>7 DEF SessionInv
<1>3. ASSUME NEW fields \in O!Fields, O!SignInButton(fields)
      PROVE  SessionInv'
  <2>1. stack = <<"main", "login">> /\ call = "idle" /\ children = <<"authentication">>
    BY <1>3, OnScreen, Whose DEF O!SignInButton, AuthStacks
  <2>2. \/ call' = "idle" /\ loader' \in BOOLEAN /\ error' \in {"none", "fillField", "refused"}
        \/ call' = "signIn" /\ loader' = TRUE /\ error' = error
    <3>1. CASE fields = "empty"
      BY <1>3, <2>1, <3>1 DEF O!SignInButton
    <3>2. CASE fields = "invalid"
      BY <1>3, <3>2 DEF O!SignInButton, O!Refused
    <3>3. CASE fields = "valid"
      BY <1>3, <3>3 DEF O!SignInButton
    <3> QED
      BY <3>1, <3>2, <3>3 DEF O!Fields
  <2>3. O!TypeOK'
    BY <1>0, <1>3, <2>2 DEF O!SignInButton, O!TypeOK
  <2> QED
    BY <1>0, <1>3, <2>1, <2>2, <2>3
       DEF O!SignInButton, SessionInv, O!OneSession, CallInv, DocumentInv, LoadedInv
<1>4. ASSUME NEW fields \in O!Fields, NEW name \in O!Names \union {"blank"},
             O!CreateAccountButton(name, fields)
      PROVE  SessionInv'
  <2>1. stack = <<"main", "register">> /\ call = "idle" /\ children = <<"authentication">>
    BY <1>4, OnScreen, Whose DEF O!CreateAccountButton, AuthStacks
  <2>2. O!FormatFields(name) \in O!Names
    BY <1>4 DEF O!FormatFields, O!Names
  <2>3. \/ call' = "idle" /\ loader' = FALSE /\ error' = "refused" /\ entered' = entered
        \/ call' = "createUser" /\ loader' = TRUE /\ error' = error /\ entered' \in O!Names
    BY <1>4, <2>2, Zenon DEF O!CreateAccountButton, O!Refused
  <2>4. O!TypeOK'
    BY <1>0, <1>4, <2>3 DEF O!CreateAccountButton, O!TypeOK
  <2> QED
    BY <1>0, <1>4, <2>1, <2>3, <2>4
       DEF O!CreateAccountButton, SessionInv, O!OneSession, CallInv, DocumentInv, LoadedInv
<1>5. CASE O!SignIn
  <2>1. children = <<"authentication">> /\ stack \in AuthStacks
    BY <1>0, <1>5, Whose DEF O!SignIn, CallInv, AuthStacks
  <2>2. CASE account /\ signedIn' = TRUE /\ call' = "idle" /\ O!ToHome
    <3>1. /\ stack' = <<"tabBar">> /\ children' = <<"home">>
          /\ loader' = FALSE /\ error' = "none" /\ loaded' = FALSE
      BY <2>1, <2>2, Home
    <3>2. O!TypeOK'
      BY <1>0, <1>5, <2>2, <3>1, StackTypes DEF O!SignIn, O!TypeOK, HomeStacks
    <3> QED
      BY <1>0, <1>5, <2>2, <3>1, <3>2
         DEF O!SignIn, SessionInv, O!OneSession, CallInv, DocumentInv, LoadedInv
  <2>3. CASE O!Refused /\ UNCHANGED <<signedIn, stack, children, loaded>>
    <3>1. O!TypeOK'
      BY <1>0, <1>5, <2>3 DEF O!SignIn, O!TypeOK, O!Refused
    <3> QED
      BY <1>0, <1>5, <2>3, <3>1
         DEF O!SignIn, O!Refused, SessionInv, O!OneSession, CallInv, DocumentInv, LoadedInv
  <2> QED
    BY <1>5, <2>2, <2>3 DEF O!SignIn
<1>6. CASE O!CreateUser
  <2>1. /\ call = "createUser" /\ userDoc' = userDoc /\ entered' = entered
        /\ stack' = stack /\ children' = children /\ loaded' = loaded
    BY <1>6 DEF O!CreateUser
  <2>2. CASE /\ ~ account /\ account' = TRUE /\ signedIn' = TRUE /\ keychain' = TRUE
             /\ call' = "setData" /\ loader' = loader /\ error' = error
    <3>1. O!TypeOK'
      BY <1>0, <2>1, <2>2 DEF O!TypeOK
    <3> QED
      BY <1>0, <2>1, <2>2, <3>1 DEF SessionInv, O!OneSession, CallInv, DocumentInv, LoadedInv
  <2>3. CASE account' \in {account, TRUE} /\ O!Refused /\ UNCHANGED <<signedIn, keychain>>
    <3>1. account' \in BOOLEAN /\ (account => account')
      <4>1. account' = account \/ account' = TRUE
        BY <2>3
      <4> QED
        BY <1>0, <4>1, Zenon DEF O!TypeOK
    <3>2. O!TypeOK'
      BY <1>0, <2>1, <2>3, <3>1 DEF O!TypeOK, O!Refused
    <3> QED
      BY <1>0, <2>1, <2>3, <3>1, <3>2
         DEF O!Refused, SessionInv, O!OneSession, CallInv, DocumentInv, LoadedInv
  <2> QED
    BY <1>6, <2>2, <2>3 DEF O!CreateUser
<1>7. CASE O!SetData
  <2>1. /\ call = "setData" /\ account' = account /\ entered' = entered
        /\ signedIn' = signedIn /\ keychain' = keychain
    BY <1>7 DEF O!SetData
  <2>2. /\ children = <<"authentication">> /\ stack \in AuthStacks
        /\ account /\ userDoc = "none" /\ ~ loaded
    BY <1>0, <2>1, Whose DEF CallInv, DocumentInv, LoadedInv, AuthStacks
  <2>3. CASE userDoc' = entered /\ call' = "idle" /\ O!ToHome
    <3>1. /\ stack' = <<"tabBar">> /\ children' = <<"home">>
          /\ loader' = FALSE /\ error' = "none" /\ loaded' = FALSE
      BY <2>2, <2>3, Home
    <3>2. O!TypeOK'
      BY <1>0, <2>1, <2>3, <3>1, StackTypes DEF O!TypeOK, HomeStacks
    <3>3. O!OneSession' /\ CallInv'
      <4>1. signedIn
        BY <1>0, <2>1 DEF DocumentInv
      <4> QED
        BY <2>1, <2>3, <3>1, <4>1, Distinct DEF O!OneSession, CallInv
    <3>4. DocumentInv' /\ LoadedInv'
      BY <2>1, <2>2, <2>3, <3>1, Distinct DEF DocumentInv, LoadedInv
    <3> QED
      BY <3>2, <3>3, <3>4 DEF SessionInv
  <2>4. CASE O!Refused /\ UNCHANGED <<userDoc, stack, children, loaded>>
    <3>1. O!TypeOK'
      BY <1>0, <2>1, <2>4 DEF O!TypeOK, O!Refused
    <3> QED
      BY <1>0, <2>1, <2>2, <2>4, <3>1
         DEF O!Refused, SessionInv, O!OneSession, CallInv, DocumentInv, LoadedInv
  <2> QED
    BY <1>7, <2>3, <2>4 DEF O!SetData
<1>8. CASE O!Load
  <2>1. stack = <<"tabBar">> /\ call = "idle" /\ children = <<"home">>
    BY <1>8, OnScreen, Whose DEF O!Load, HomeStacks
  <2>2. O!TypeOK'
    BY <1>0, <1>8 DEF O!Load, O!TypeOK
  <2> QED
    BY <1>0, <1>8, <2>1, <2>2
       DEF O!Load, SessionInv, O!OneSession, CallInv, DocumentInv, LoadedInv
<1>9. CASE O!OpenProfile
  <2>1. stack = <<"tabBar">> /\ call = "idle" /\ children = <<"home">> /\ loaded
    BY <1>9, OnScreen, Whose DEF O!OpenProfile, HomeStacks
  <2>2. stack' = <<"tabBar", "profile">>
    BY <1>9, <2>1, Short DEF O!OpenProfile
  <2>3. O!TypeOK'
    BY <1>0, <1>9, <2>2, StackTypes DEF O!OpenProfile, O!TypeOK, HomeStacks
  <2> QED
    BY <1>0, <1>9, <2>1, <2>2, <2>3
       DEF O!OpenProfile, SessionInv, O!OneSession, CallInv, DocumentInv, LoadedInv
<1>10. CASE O!CloseProfile
  <2>1. stack = <<"tabBar", "profile">> /\ call = "idle" /\ children = <<"home">>
    BY <1>10, OnScreen, Whose DEF O!CloseProfile, HomeStacks
  <2>2. stack' = <<"tabBar">>
    <3>1. stack' = SubSeq(stack, 1, Len(stack) - 1)
      BY <1>10 DEF O!CloseProfile
    <3> QED
      BY <2>1, <3>1, PopOne
  <2>3. O!TypeOK'
    BY <1>0, <1>10, <2>2, StackTypes DEF O!CloseProfile, O!TypeOK, HomeStacks
  <2>4. children' = children /\ call' = call /\ signedIn' = signedIn /\ loaded' = FALSE
    BY <1>10 DEF O!CloseProfile
  <2>5. O!OneSession' /\ CallInv'
    BY <1>0, <2>1, <2>2, <2>4, Distinct DEF O!OneSession, CallInv
  <2>6. DocumentInv'
    BY <1>0, <1>10, <2>1 DEF O!CloseProfile, DocumentInv
  <2>7. LoadedInv'
    BY <2>2, <2>4, Distinct DEF LoadedInv
  <2> QED
    BY <2>3, <2>5, <2>6, <2>7 DEF SessionInv
<1>11. CASE O!LogOut
  <2>1. /\ stack = <<"tabBar", "profile">> /\ call = "idle" /\ children = <<"home">>
        /\ Head(stack) = "tabBar"
    BY <1>11, OnScreen, Whose, Short DEF O!LogOut, HomeStacks
  <2>2. CASE signedIn' = FALSE /\ O!ToMainLoginPage(<<Head(stack)>>)
    <3>1. /\ stack' = <<"main">> /\ children' = <<"authentication">>
          /\ error' = "none" /\ loaded' = FALSE
      BY <2>1, <2>2, MainLoginPage
    <3>2. O!TypeOK'
      BY <1>0, <1>11, <2>2, <3>1, StackTypes DEF O!LogOut, O!TypeOK, AuthStacks
    <3> QED
      BY <1>0, <1>11, <2>1, <3>1, <3>2
         DEF O!LogOut, SessionInv, O!OneSession, CallInv, DocumentInv, LoadedInv
  <2>3. CASE error' = "refused" /\ UNCHANGED <<signedIn, stack, children, loaded>>
    <3>1. O!TypeOK'
      BY <1>0, <1>11, <2>3 DEF O!LogOut, O!TypeOK
    <3> QED
      BY <1>0, <1>11, <2>1, <2>3, <3>1
         DEF O!LogOut, SessionInv, O!OneSession, CallInv, DocumentInv, LoadedInv
  <2> QED
    BY <1>11, <2>2, <2>3 DEF O!LogOut
<1>12. CASE O!DeleteUserComplete
  <2>1. stack = <<"tabBar", "profile">> /\ call = "idle" /\ children = <<"home">>
    BY <1>12, OnScreen, Whose DEF O!DeleteUserComplete, HomeStacks
  <2>2. /\ stack' = <<"main">> /\ children' = <<"authentication">>
        /\ error' = "none" /\ loaded' = FALSE
    BY <1>12, <2>1, MainLoginPage DEF O!DeleteUserComplete
  <2>3. O!TypeOK'
    BY <1>0, <1>12, <2>2, StackTypes DEF O!DeleteUserComplete, O!TypeOK, AuthStacks
  <2> QED
    BY <1>0, <1>12, <2>1, <2>2, <2>3
       DEF O!DeleteUserComplete, SessionInv, O!OneSession, CallInv, DocumentInv, LoadedInv
<1>13. CASE O!Relaunch
  <2>1. /\ call' = "idle" /\ loader' = FALSE /\ error' = "none" /\ loaded' = FALSE
        /\ signedIn' = signedIn /\ keychain' = keychain /\ entered' = entered
    BY <1>13 DEF O!Relaunch
  <2>2. \/ signedIn /\ stack' = <<"tabBar">> /\ children' = <<"home">>
        \/ ~ signedIn /\ stack' = <<"main">> /\ children' = <<"authentication">>
    BY <1>13 DEF O!Relaunch, O!FirstScreen, O!FirstChild
  <2>3. account' \in BOOLEAN /\ (account => account')
    <3>1. account' = account \/ account' = TRUE
      BY <1>13 DEF O!Relaunch
    <3> QED
      BY <1>0, <3>1, Zenon DEF O!TypeOK
  <2>4. \/ userDoc' = userDoc
        \/ call = "setData" /\ userDoc' = entered
    BY <1>13 DEF O!Relaunch
  <2>5. O!TypeOK'
    BY <1>0, <2>1, <2>2, <2>3, <2>4, StackTypes DEF O!TypeOK, AuthStacks, HomeStacks
  <2> QED
    BY <1>0, <2>1, <2>2, <2>3, <2>4, <2>5
       DEF SessionInv, O!OneSession, CallInv, DocumentInv, LoadedInv
<1>14. CASE UNCHANGED O!vars
  BY <1>0, <1>14
     DEF O!vars, SessionInv, O!TypeOK, O!OneSession, CallInv, DocumentInv, LoadedInv
<1> QED
  BY <1>1, <1>2, <1>3, <1>4, <1>5, <1>6, <1>7, <1>8, <1>9, <1>10, <1>11, <1>12, <1>13, <1>14
     DEF O!Next

\* The session of an installed app begins with the invariant.
LEMMA SessionInit == O!Init => SessionInv
<1> SUFFICES ASSUME O!Init PROVE SessionInv
  OBVIOUS
<1>1. /\ stack = <<"main">> /\ children = <<"authentication">>
      /\ call = "idle" /\ entered = "empty"
  BY DEF O!Init, O!FirstScreen, O!FirstChild
<1>2. /\ account \in BOOLEAN /\ signedIn \in BOOLEAN /\ keychain \in BOOLEAN
      /\ loader \in BOOLEAN /\ error = "none" /\ loaded \in BOOLEAN /\ ~ loaded
  BY Zenon DEF O!Init
<1>3. userDoc = IF account THEN "given" ELSE "none"
  BY DEF O!Init
<1>4. stack \in Seq(O!Screens) /\ children \in Seq({"authentication", "home"})
  BY <1>1, StackTypes DEF AuthStacks
<1>5. O!TypeOK
  BY <1>1, <1>2, <1>3, <1>4 DEF O!TypeOK, O!Names
<1>6. O!OneSession
  BY <1>1, Distinct DEF O!OneSession
<1>7. CallInv /\ DocumentInv /\ LoadedInv
  BY <1>1, <1>2, <1>3, Distinct DEF CallInv, DocumentInv, LoadedInv
<1> QED
  BY <1>5, <1>6, <1>7 DEF SessionInv

\* The session invariant holds throughout.
LEMMA SessionInvariance == O!Spec => []SessionInv
  BY SessionInit, SessionStep, PTL DEF O!Spec

\* The life of the account is seen in the account, its document, and in whether the
\* document is about to be stored.
LEMMA SameLife ==
    ASSUME account' = account, userDoc' = userDoc, call = "setData" <=> call' = "setData"
    PROVE  O!LifeOf' = O!LifeOf
  BY DEF O!LifeOf, O!Orphan

\* Every step of the session is a step of the life of the account, or leaves it alone.
LEMMA SessionLife == SessionInv /\ [O!Next]_O!vars => [O!Life!Next]_(O!LifeOf)
<1> SUFFICES ASSUME SessionInv, [O!Next]_O!vars PROVE [O!Life!Next]_(O!LifeOf)
  OBVIOUS
<1> USE DEF O!remote, O!device, O!shell
<1>0. O!TypeOK /\ O!OneSession /\ CallInv /\ DocumentInv /\ LoadedInv
  BY DEF SessionInv
<1>1. ASSUME NEW sc \in {"login", "register"}, O!Open(sc)
      PROVE  O!LifeOf' = O!LifeOf
  BY <1>1, SameLife DEF O!Open
<1>2. CASE O!Back
  BY <1>2, SameLife DEF O!Back
<1>3. ASSUME NEW fields \in O!Fields, O!SignInButton(fields)
      PROVE  O!LifeOf' = O!LifeOf
  <2>1. call = "idle" /\ account' = account /\ userDoc' = userDoc
    BY <1>3, OnScreen DEF O!SignInButton
  <2>2. call' # "setData"
    <3>1. CASE fields = "empty"
      BY <1>3, <2>1, <3>1 DEF O!SignInButton
    <3>2. CASE fields = "invalid"
      BY <1>3, <3>2 DEF O!SignInButton, O!Refused
    <3>3. CASE fields = "valid"
      BY <1>3, <3>3 DEF O!SignInButton
    <3> QED
      BY <3>1, <3>2, <3>3 DEF O!Fields
  <2> QED
    BY <2>1, <2>2, SameLife
<1>4. ASSUME NEW fields \in O!Fields, NEW name \in O!Names \union {"blank"},
             O!CreateAccountButton(name, fields)
      PROVE  O!LifeOf' = O!LifeOf
  <2>1. call = "idle" /\ account' = account /\ userDoc' = userDoc
    BY <1>4, OnScreen DEF O!CreateAccountButton
  <2>2. call' # "setData"
    BY <1>4 DEF O!CreateAccountButton, O!Refused
  <2> QED
    BY <2>1, <2>2, SameLife
<1>5. CASE O!SignIn
  BY <1>5, SameLife DEF O!SignIn, O!Refused
<1>6. CASE O!CreateUser
  <2>1. call = "createUser" /\ userDoc' = userDoc
    BY <1>6 DEF O!CreateUser
  <2>2. CASE ~ account /\ account' = TRUE /\ call' = "setData"
    <3>1. O!LifeOf = "absent" /\ O!LifeOf' = "opening"
      BY <1>0, <2>1, <2>2 DEF DocumentInv, O!LifeOf, O!Orphan
    <3> QED
      BY <3>1 DEF O!Life!Next, O!Life!Open, O!Life!Become
  <2>3. CASE call' = "idle" /\ account' = account
    BY <2>1, <2>3, SameLife
  <2>4. CASE call' = "idle" /\ ~ account /\ account' = TRUE
    <3>1. O!LifeOf = "absent" /\ O!LifeOf' = "orphan"
      BY <1>0, <2>1, <2>4 DEF DocumentInv, O!LifeOf, O!Orphan
    <3> QED
      BY <3>1 DEF O!Life!Next, O!Life!Strand, O!Life!Become
  <2>5. \/ ~ account /\ account' = TRUE /\ call' = "setData"
        \/ call' = "idle" /\ (account' = account \/ account' = TRUE)
    BY <1>6 DEF O!CreateUser, O!Refused
  <2>6. account => account = TRUE
    BY <1>0, Zenon DEF O!TypeOK
  <2> QED
    BY <2>2, <2>3, <2>4, <2>5, <2>6
<1>7. CASE O!SetData
  <2>1. O!LifeOf = "opening"
    BY <1>0, <1>7 DEF O!SetData, DocumentInv, O!LifeOf, O!Orphan
  <2>2. account' = account /\ account
    BY <1>0, <1>7 DEF O!SetData, DocumentInv
  <2>3. CASE userDoc' = entered
    <3>1. O!LifeOf' = "whole"
      BY <1>0, <2>2, <2>3 DEF O!LifeOf, O!TypeOK, O!Names
    <3> QED
      BY <2>1, <3>1 DEF O!Life!Next, O!Life!Complete, O!Life!Become
  <2>4. CASE call' = "idle" /\ userDoc' = userDoc
    <3>1. O!LifeOf' = "orphan"
      BY <1>0, <1>7, <2>2, <2>4 DEF O!SetData, DocumentInv, O!LifeOf, O!Orphan
    <3> QED
      BY <2>1, <3>1 DEF O!Life!Next, O!Life!Strand, O!Life!Become
  <2> QED
    BY <1>7, <2>3, <2>4 DEF O!SetData, O!Refused
<1>8. CASE O!Load
  BY <1>8, SameLife DEF O!Load
<1>9. CASE O!OpenProfile
  BY <1>9, SameLife DEF O!OpenProfile
<1>10. CASE O!CloseProfile
  BY <1>10, SameLife DEF O!CloseProfile
<1>11. CASE O!LogOut
  BY <1>11, SameLife DEF O!LogOut
<1>12. CASE O!DeleteUserComplete
  <2>1. O!LifeOf = "whole"
    <3>1. stack = <<"tabBar", "profile">>
      BY <1>12, OnScreen DEF O!DeleteUserComplete
    <3> QED
      BY <1>0, <3>1 DEF LoadedInv, DocumentInv, O!LifeOf
  <2>2. O!LifeOf' = "absent"
    BY <1>12 DEF O!DeleteUserComplete, O!LifeOf
  <2> QED
    BY <2>1, <2>2 DEF O!Life!Next, O!Life!Close, O!Life!Become
<1>13. CASE O!Relaunch
  <2>1. call' = "idle"
    BY <1>13 DEF O!Relaunch
  <2>2. CASE account' = account /\ userDoc' = userDoc /\ call # "setData"
    BY <2>1, <2>2, SameLife
  <2>3. CASE ~ account /\ account' = TRUE /\ userDoc' = userDoc
    <3>1. O!LifeOf = "absent" /\ O!LifeOf' = "orphan"
      BY <1>0, <2>1, <2>3 DEF DocumentInv, O!LifeOf, O!Orphan
    <3> QED
      BY <3>1 DEF O!Life!Next, O!Life!Strand, O!Life!Become
  <2>4. CASE call = "setData" /\ account' = account
    <3>1. O!LifeOf = "opening" /\ account
      BY <1>0, <2>4 DEF DocumentInv, O!LifeOf, O!Orphan
    <3>2. O!LifeOf' = "whole" \/ O!LifeOf' = "orphan"
      BY <2>1, <2>4, <3>1 DEF O!LifeOf, O!Orphan
    <3> QED
      BY <3>1, <3>2 DEF O!Life!Next, O!Life!Complete, O!Life!Strand, O!Life!Become
  <2>5. account' = account \/ (call = "createUser" /\ account' = TRUE)
    BY <1>13 DEF O!Relaunch
  <2>6. userDoc' = userDoc \/ call = "setData"
    BY <1>13 DEF O!Relaunch
  <2>7. account => account = TRUE
    BY <1>0, Zenon DEF O!TypeOK
  <2> QED
    BY <2>2, <2>3, <2>4, <2>5, <2>6, <2>7
<1>14. CASE UNCHANGED O!vars
  BY <1>14, SameLife DEF O!vars
<1> QED
  BY <1>1, <1>2, <1>3, <1>4, <1>5, <1>6, <1>7, <1>8, <1>9, <1>10, <1>11, <1>12, <1>13, <1>14
     DEF O!Next

-----------------------------------------------------------------------------

\* Screens, coordinators, calls and what is stored keep their types.
THEOREM SessionTypes == O!Spec => []O!TypeOK
  BY SessionInvariance, PTL DEF SessionInv

\* Whatever is tapped, refused, lost or killed, there is one child coordinator, it owns
\* all the screens on the stack, and the tab bar is there for a signed-in user only.
THEOREM OneSessionAtATime == O!Spec => []O!OneSession
  BY SessionInvariance, PTL DEF SessionInv

\* Registering, signing in and out, deleting and relaunching implement AccountLife.
THEOREM SessionImplementsAccountLife == O!Spec => O!ImplementsAccountLife
<1>1. O!Init => O!Life!Init
  BY DEF O!Init, O!Life!Init, O!LifeOf
<1>2. SessionInv /\ [O!Next]_O!vars => [O!Life!Next]_(O!LifeOf)
  BY SessionLife
<1> QED
  BY <1>1, <1>2, SessionInvariance, PTL DEF O!Spec, O!ImplementsAccountLife, O!Life!Spec

\* A registration that was cut short between its two calls is never repaired.
THEOREM OrphanStays == O!Spec => O!OrphanIsForever
<1>1. SessionInv /\ [O!Next]_O!vars => [O!Orphan => O!Orphan']_O!vars
  <2> SUFFICES ASSUME SessionInv, [O!Next]_O!vars, O!Orphan PROVE O!Orphan'
    BY DEF O!vars
  <2>1. O!LifeOf = "orphan"
    BY DEF O!LifeOf, O!Orphan
  <2>2. O!LifeOf' = "orphan"
    BY <2>1, SessionLife DEF O!Life!Next, O!Life!Open, O!Life!Complete, O!Life!Clear,
       O!Life!Close, O!Life!Strand, O!Life!Become
  <2> QED
    BY <2>2 DEF O!LifeOf
<1> QED
  BY <1>1, SessionInvariance, PTL DEF O!Spec, O!OrphanIsForever
=============================================================================
