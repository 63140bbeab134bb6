---------------------------- MODULE AccountProofs ----------------------------
(***************************************************************************)
(* Proofs about those who sign in: the device of the mobile app, customers  *)
(* and their accounts, and the operators of a location. Three components,   *)
(* one after the other, and none of the theorems of one is used in another. *)
(* For each: what is true of every state besides the types, the invariant   *)
(* they make up, its steps, and the theorems.                               *)
(***************************************************************************)
EXTENDS AppSession, CustomerAccounts, OperatorTeam,
        SequenceTheorems, FiniteSetTheorems, TLAPS

-----------------------------------------------------------------------------
(***************************************************************************)
(* The mobile app: AppSession.                                               *)
(***************************************************************************)

(* Until something crosses, signing in, leaving and refreshing exclude each *)
(* other, and the first two the start of the app.                           *)
OneAtATime ==
    /\ hydrating /\ ~Refreshing("saving") => held = 0
    /\ ~crossed =>
          /\ entering # 0 => Refreshing("idle") /\ Leaving("idle") /\ ~hydrating
          /\ ~Leaving("idle") => Refreshing("idle") /\ ~hydrating
          /\ Leaving("clearing") => held = 0

(* Whoever is signed out has nothing in flight that holds a token. *)
NothingReturns ==
    signedOut /\ ~crossed =>
        /\ held = 0 /\ stored = 0 /\ entering = 0
        /\ Refreshing("idle") /\ Leaving("idle")

(* Where the one token the service accepts is, at every await. *)
TokenIsTracked ==
    sessionFaults = 0 /\ ~crossed =>
        /\ refreshing.at \in {"idle", "sent", "answered", "saving"}
        /\ Refreshing("idle") /\ Leaving("idle") =>
              /\ accepted = (IF entering # 0 THEN {entering} ELSE {stored} \ {0})
              /\ ~hydrating => held = (IF entering # 0 THEN entering ELSE stored)
        /\ Refreshing("sent") =>
              /\ refreshing.with = stored /\ accepted = {stored} /\ stored # 0
              /\ ~hydrating => held = stored
        /\ Refreshing("answered") => accepted = {refreshing.got} /\ refreshing.got # 0
        /\ Refreshing("saving") =>
              accepted = {refreshing.got} /\ refreshing.got # 0 /\ held = refreshing.got
        /\ leaving.at \in {"signOut", "delete"} =>
              accepted = {held} /\ leaving.with = held /\ held = stored
        /\ leaving.at \in {"served", "clearing"} => accepted = {}

AppIInv == AppTypeOK /\ OneAtATime /\ NothingReturns /\ TokenIsTracked

LEMMA AppIInit == AppInit => AppIInv
  <1> SUFFICES ASSUME AppInit PROVE AppIInv
    OBVIOUS
  <1> USE DEF AppInit, NoRefresh, Staying, Refreshing, Leaving
  <1>1. hydrating \in BOOLEAN /\ crossed \in BOOLEAN /\ signedOut \in BOOLEAN
    OBVIOUS
  <1>2. AppTypeOK
    BY <1>1, AppOK DEF AppTypeOK
  <1>3. OneAtATime /\ NothingReturns
    BY DEF OneAtATime, NothingReturns
  <1>4. TokenIsTracked
    BY DEF TokenIsTracked
  <1> QED
    BY <1>2, <1>3, <1>4 DEF AppIInv

LEMMA CrossingsAreNoted ==
    ASSUME AppTypeOK, AppNext
    PROVE  /\ hydrating' \in BOOLEAN /\ crossed' \in BOOLEAN /\ signedOut' \in BOOLEAN
           /\ ~crossed' => ~crossed
           /\ ~crossed' /\ SignIn => Refreshing("idle")
           /\ ~crossed' /\ AskRefresh => Leaving("idle") /\ entering = 0
           /\ ~crossed' /\ (BeginLeaving("signOut") \/ BeginLeaving("delete"))
                 => Refreshing("idle") /\ entering = 0
  <1> USE DEF AppTypeOK
  <1>1. hydrating' \in BOOLEAN
    BY DEF AppNext, Hydrate, SignIn, StoreSignIn, Restart, AskRefresh, ServeRefresh,
         LoseRefresh, TakeRefreshed, StoreRefreshed, RefreshFails, ClearExpired,
         BeginLeaving, ServeLeaving, LoseLeaving, ClearHeld, ClearStored, EndSession
  <1>2. crossed' \in BOOLEAN
    BY DEF AppNext, Hydrate, SignIn, StoreSignIn, Restart, AskRefresh, ServeRefresh,
         LoseRefresh, TakeRefreshed, StoreRefreshed, RefreshFails, ClearExpired,
         BeginLeaving, ServeLeaving, LoseLeaving, ClearHeld, ClearStored, EndSession
  <1>3. signedOut' \in BOOLEAN
    BY DEF AppNext, Hydrate, SignIn, StoreSignIn, Restart, AskRefresh, ServeRefresh,
         LoseRefresh, TakeRefreshed, StoreRefreshed, RefreshFails, ClearExpired,
         BeginLeaving, ServeLeaving, LoseLeaving, ClearHeld, ClearStored, EndSession
  <1>4. ~crossed' => ~crossed
    BY DEF AppNext, Hydrate, SignIn, StoreSignIn, Restart, AskRefresh, ServeRefresh,
         LoseRefresh, TakeRefreshed, StoreRefreshed, RefreshFails, ClearExpired,
         BeginLeaving, ServeLeaving, LoseLeaving, ClearHeld, ClearStored, EndSession
  <1>5. ~crossed' /\ SignIn => Refreshing("idle")
    BY DEF SignIn
  <1>6. ~crossed' /\ AskRefresh => Leaving("idle") /\ entering = 0
    BY DEF AskRefresh
  <1>7. ~crossed' /\ (BeginLeaving("signOut") \/ BeginLeaving("delete"))
           => Refreshing("idle") /\ entering = 0
    BY DEF BeginLeaving
  <1> QED
    BY <1>1, <1>2, <1>3, <1>4, <1>5, <1>6, <1>7

LEMMA AppStarts ==
    ASSUME AppIInv, AppNext,
           Hydrate \/ SignIn \/ StoreSignIn \/ Restart
    PROVE  AppIInv'
  <1> USE AppOK, CrossingsAreNoted DEF AppIInv, AppTypeOK, Refreshing, Leaving, SessionFault, Issue,
          NoRefresh, Staying
  <1>1. CASE Hydrate
    <2>1. CASE hydrating' = FALSE /\ held' = stored /\ UNCHANGED refreshing
      BY <1>1, <2>1 DEF Hydrate, OneAtATime, NothingReturns, TokenIsTracked
    <2>2. CASE /\ stored # 0 /\ UNCHANGED <<hydrating, held>>
               /\ refreshing' = [at |-> "sent", with |-> stored, got |-> 0]
      BY <1>1, <2>2 DEF Hydrate, OneAtATime, NothingReturns, TokenIsTracked
    <2> QED
      BY <1>1, <2>1, <2>2 DEF Hydrate
  <1>2. CASE SignIn
    <2>1. PICK t \in 1..MaxTokens :
             issued' = t /\ accepted' = accepted \cup {t} /\ held' = t /\ entering' = t
      BY <1>2 DEF SignIn
    <2>2. UNCHANGED <<stored, hydrating, refreshing, leaving, sessionFaults>>
      BY <1>2 DEF SignIn
    <2>3. AppTypeOK'
      BY <2>1, <2>2
    <2>4. OneAtATime' /\ NothingReturns'
      BY <1>2, <2>1 DEF SignIn, OneAtATime, NothingReturns
    <2>5. sessionFaults = 0 /\ ~crossed' => accepted' = {t}
      BY <1>2, <2>1 DEF SignIn, TokenIsTracked
    <2>6. TokenIsTracked'
      BY <1>2, <2>1, <2>2, <2>5 DEF SignIn, TokenIsTracked
    <2> QED
      BY <2>3, <2>4, <2>6
  <1>3. CASE StoreSignIn
    <2>1. AppTypeOK'
      BY <1>3 DEF StoreSignIn
    <2>2. OneAtATime'
      BY <1>3 DEF StoreSignIn, OneAtATime, NothingReturns
    <2>3. NothingReturns'
      BY <1>3 DEF StoreSignIn, OneAtATime, NothingReturns
    <2>4. TokenIsTracked'
      BY <1>3 DEF StoreSignIn, OneAtATime, NothingReturns, TokenIsTracked
    <2> QED
      BY <2>1, <2>2, <2>3, <2>4
  <1>4. CASE Restart
    <2>1. AppTypeOK'
      BY <1>4 DEF Restart
    <2>2. OneAtATime'
      BY <1>4 DEF Restart, OneAtATime, NothingReturns
    <2>3. NothingReturns'
      BY <1>4 DEF Restart, OneAtATime, NothingReturns
    <2>4. TokenIsTracked'
      BY <1>4 DEF Restart, OneAtATime, NothingReturns, TokenIsTracked
    <2> QED
      BY <2>1, <2>2, <2>3, <2>4
  <1> QED
    BY <1>1, <1>2, <1>3, <1>4

LEMMA AppRefreshes ==
    ASSUME AppIInv, AppNext,
           AskRefresh \/ ServeRefresh \/ LoseRefresh \/ TakeRefreshed \/ StoreRefreshed
           \/ RefreshFails \/ ClearExpired
    PROVE  AppIInv'
  <1> USE AppOK, CrossingsAreNoted DEF AppIInv, AppTypeOK, Refreshing, Leaving, SessionFault, Issue,
          NoRefresh, Staying
  <1>1. CASE AskRefresh
    <2>1. AppTypeOK'
      BY <1>1 DEF AskRefresh
    <2>2. OneAtATime'
      BY <1>1 DEF AskRefresh, OneAtATime, NothingReturns
    <2>3. NothingReturns'
      BY <1>1 DEF AskRefresh, OneAtATime, NothingReturns
    <2>4. TokenIsTracked'
      BY <1>1 DEF AskRefresh, OneAtATime, NothingReturns, TokenIsTracked
    <2> QED
      BY <2>1, <2>2, <2>3, <2>4
  <1>2. CASE ServeRefresh
    <2>1. /\ refreshing.at = "sent"
          /\ UNCHANGED <<held, stored, hydrating, leaving, entering, sessionFaults,
                         crossed, signedOut>>
      BY <1>2 DEF ServeRefresh
    <2>2. CASE refreshing.with \in accepted
      <3>1. PICK t \in 1..MaxTokens :
               /\ issued' = t /\ accepted' = (accepted \ {refreshing.with}) \cup {t}
               /\ refreshing' = [refreshing EXCEPT !.at = "answered", !.got = t]
        BY <1>2, <2>2 DEF ServeRefresh
      <3>2. /\ accepted' \subseteq 1..MaxTokens
            /\ refreshing' = [at |-> "answered", with |-> refreshing.with, got |-> t]
        BY <3>1
      <3>3. AppTypeOK'
        BY <2>1, <3>1, <3>2
      <3>4. OneAtATime' /\ NothingReturns'
        BY <1>2, <2>1, <3>2 DEF OneAtATime, NothingReturns
      <3>5. sessionFaults = 0 /\ ~crossed => accepted' = {t}
        BY <1>2, <3>1 DEF ServeRefresh, TokenIsTracked
      <3>6. TokenIsTracked'
        BY <1>2, <2>1, <3>2, <3>5 DEF OneAtATime, TokenIsTracked
      <3> QED
        BY <3>3, <3>4, <3>6
    <2>3. CASE refreshing.with \notin accepted
      BY <1>2, <2>1, <2>3 DEF ServeRefresh, OneAtATime, NothingReturns, TokenIsTracked
    <2> QED
      BY <2>2, <2>3
  <1>3. CASE LoseRefresh
    <2>1. AppTypeOK'
      BY <1>3 DEF LoseRefresh
    <2>2. OneAtATime'
      BY <1>3 DEF LoseRefresh, OneAtATime, NothingReturns
    <2>3. NothingReturns'
      BY <1>3 DEF LoseRefresh, OneAtATime, NothingReturns
    <2>4. TokenIsTracked'
      BY <1>3 DEF LoseRefresh, OneAtATime, NothingReturns, TokenIsTracked
    <2> QED
      BY <2>1, <2>2, <2>3, <2>4
  <1>4. CASE TakeRefreshed
    <2>1. AppTypeOK'
      BY <1>4 DEF TakeRefreshed
    <2>2. OneAtATime'
      BY <1>4 DEF TakeRefreshed, OneAtATime, NothingReturns
    <2>3. NothingReturns'
      BY <1>4 DEF TakeRefreshed, OneAtATime, NothingReturns
    <2>4. TokenIsTracked'
      BY <1>4 DEF TakeRefreshed, OneAtATime, NothingReturns, TokenIsTracked
    <2> QED
      BY <2>1, <2>2, <2>3, <2>4
  <1>5. CASE StoreRefreshed
    <2>1. AppTypeOK'
      BY <1>5 DEF StoreRefreshed
    <2>2. OneAtATime'
      BY <1>5 DEF StoreRefreshed, OneAtATime, NothingReturns
    <2>3. NothingReturns'
      BY <1>5 DEF StoreRefreshed, OneAtATime, NothingReturns
    <2>4. TokenIsTracked'
      BY <1>5 DEF StoreRefreshed, OneAtATime, NothingReturns, TokenIsTracked
    <2> QED
      BY <2>1, <2>2, <2>3, <2>4
  <1>6. CASE RefreshFails
    <2>1. AppTypeOK'
      BY <1>6 DEF RefreshFails
    <2>2. OneAtATime'
      BY <1>6 DEF RefreshFails, OneAtATime, NothingReturns
    <2>3. NothingReturns'
      BY <1>6 DEF RefreshFails, OneAtATime, NothingReturns
    <2>4. TokenIsTracked'
      BY <1>6 DEF RefreshFails, OneAtATime, NothingReturns, TokenIsTracked
    <2> QED
      BY <2>1, <2>2, <2>3, <2>4
  <1>7. CASE ClearExpired
    <2>1. AppTypeOK'
      BY <1>7 DEF ClearExpired
    <2>2. OneAtATime'
      BY <1>7 DEF ClearExpired, OneAtATime, NothingReturns
    <2>3. NothingReturns'
      BY <1>7 DEF ClearExpired, OneAtATime, NothingReturns
    <2>4. TokenIsTracked'
      BY <1>7 DEF ClearExpired, OneAtATime, NothingReturns, TokenIsTracked
    <2> QED
      BY <2>1, <2>2, <2>3, <2>4
  <1> QED
    BY <1>1, <1>2, <1>3, <1>4, <1>5, <1>6, <1>7

LEMMA AppLeaves ==
    ASSUME AppIInv, AppNext,
           BeginLeaving("signOut") \/ BeginLeaving("delete") \/ ServeLeaving \/ LoseLeaving
           \/ ClearHeld \/ ClearStored \/ \E t \in 1..MaxTokens : EndSession(t)
    PROVE  AppIInv'
  <1> USE AppOK, CrossingsAreNoted DEF AppIInv, AppTypeOK, Refreshing, Leaving, SessionFault, Issue,
          NoRefresh, Staying
  <1>1. CASE BeginLeaving("signOut") \/ BeginLeaving("delete")
    <2>1. leaving' \in [at : {"signOut", "delete"}, with : {held}]
      BY <1>1 DEF BeginLeaving
    <2>2. AppTypeOK'
      BY <1>1, <2>1 DEF BeginLeaving
    <2>3. OneAtATime' /\ NothingReturns'
      BY <1>1 DEF BeginLeaving, OneAtATime, NothingReturns
    <2>4. TokenIsTracked'
      BY <1>1, <2>1 DEF BeginLeaving, OneAtATime, NothingReturns, TokenIsTracked
    <2> QED
      BY <2>2, <2>3, <2>4
  <1>2. CASE ServeLeaving
    <2>1. AppTypeOK'
      BY <1>2 DEF ServeLeaving
    <2>2. OneAtATime'
      BY <1>2 DEF ServeLeaving, OneAtATime, NothingReturns
    <2>3. NothingReturns'
      BY <1>2 DEF ServeLeaving, OneAtATime, NothingReturns
    <2>4. TokenIsTracked'
      BY <1>2 DEF ServeLeaving, OneAtATime, NothingReturns, TokenIsTracked
    <2> QED
      BY <2>1, <2>2, <2>3, <2>4
  <1>3. CASE LoseLeaving
    <2>1. AppTypeOK'
      BY <1>3 DEF LoseLeaving
    <2>2. OneAtATime'
      BY <1>3 DEF LoseLeaving, OneAtATime, NothingReturns
    <2>3. NothingReturns'
      BY <1>3 DEF LoseLeaving, OneAtATime, NothingReturns
    <2>4. TokenIsTracked'
      BY <1>3 DEF LoseLeaving, OneAtATime, NothingReturns, TokenIsTracked
    <2> QED
      BY <2>1, <2>2, <2>3, <2>4
  <1>4. CASE ClearHeld
    <2>1. AppTypeOK'
      BY <1>4 DEF ClearHeld
    <2>2. OneAtATime'
      BY <1>4 DEF ClearHeld, OneAtATime, NothingReturns
    <2>3. NothingReturns'
      BY <1>4 DEF ClearHeld, OneAtATime, NothingReturns
    <2>4. TokenIsTracked'
      BY <1>4 DEF ClearHeld, OneAtATime, NothingReturns, TokenIsTracked
    <2> QED
      BY <2>1, <2>2, <2>3, <2>4
  <1>5. CASE ClearStored
    <2>1. AppTypeOK'
      BY <1>5 DEF ClearStored
    <2>2. OneAtATime'
      BY <1>5 DEF ClearStored, OneAtATime, NothingReturns
    <2>3. NothingReturns'
      BY <1>5 DEF ClearStored, OneAtATime, NothingReturns
    <2>4. TokenIsTracked'
      BY <1>5 DEF ClearStored, OneAtATime, NothingReturns, TokenIsTracked
    <2> QED
      BY <2>1, <2>2, <2>3, <2>4
  <1>6. CASE \E t \in 1..MaxTokens : EndSession(t)
    <2>1. AppTypeOK'
      BY <1>6 DEF EndSession
    <2>2. OneAtATime'
      BY <1>6 DEF EndSession, OneAtATime, NothingReturns
    <2>3. NothingReturns'
      BY <1>6 DEF EndSession, OneAtATime, NothingReturns
    <2>4. TokenIsTracked'
      BY <1>6 DEF EndSession, OneAtATime, NothingReturns, TokenIsTracked
    <2> QED
      BY <2>1, <2>2, <2>3, <2>4
  <1> QED
    BY <1>1, <1>2, <1>3, <1>4, <1>5, <1>6

(* The invariant of the app: where the one accepted token is at every await. *)
THEOREM AppInductive == AppSpec => []AppIInv
  <1>1. AppIInv /\ [AppNext]_appVars => AppIInv'
    <2>1. AppIInv /\ UNCHANGED appVars => AppIInv'
      BY DEF appVars, AppIInv, AppTypeOK, OneAtATime, NothingReturns,
             TokenIsTracked, Refreshing, Leaving
    <2> QED
      BY <2>1, AppStarts, AppRefreshes, AppLeaves DEF AppNext
  <1> QED
    BY <1>1, AppIInit, PTL DEF AppSpec

(* Type correctness of the device, its calls and the service's tokens. *)
THEOREM AppTypeCorrect == AppSpec => []AppTypeOK
  BY AppInductive, PTL DEF AppIInv

(* The app holds the token the service accepts, and nothing once she signed  *)
(* out, through lost answers, restarts and sessions that end, until a        *)
(* refresh crosses a sign-in or a sign-out (src/auth/session.tsx).           *)
THEOREM DeviceAlwaysFollowsSession == AppSpec => []DeviceFollowsSession
  <1>1. AppIInv => DeviceFollowsSession
    BY DEF AppIInv, TokenIsTracked, NothingReturns, DeviceFollowsSession,
           HoldsAcceptedToken, SignedOutStaysOut, Refreshing, Leaving
  <1> QED
    BY <1>1, AppInductive, PTL

-----------------------------------------------------------------------------
(***************************************************************************)
(* Customers: CustomerAccounts.                                              *)
(***************************************************************************)

SlotRefers(s) ==
    /\ serving[s].account \in {0} \cup DOMAIN accounts
    /\ serving[s].step \notin {"idle", "link", "rotate"} => serving[s].account # 0
    /\ Serving(s, "rotate") => serving[s].on \in DOMAIN sessions
    /\ serving[s].step \in {"credential", "consume"} => serving[s].on \in DOMAIN challenges
    /\ Serving(s, "issue") /\ serving[s].on # 0 =>
          serving[s].on \in DOMAIN challenges /\ ~challenges[serving[s].on].open

(* Whatever refers to an account, a session or a challenge refers to one    *)
(* that was made, and a sign-in by a challenge to one that is closed.       *)
References ==
    /\ passkey \in {0} \cup DOMAIN accounts
    /\ \A i \in DOMAIN sessions :
          /\ sessions[i].account \in DOMAIN accounts
          /\ sessions[i].signIn \in DOMAIN sessions
          /\ sessions[i].challenge # 0 =>
                /\ sessions[i].challenge \in DOMAIN challenges
                /\ ~challenges[sessions[i].challenge].open
    /\ \A c \in DOMAIN challenges :
          /\ challenges[c].account \in {0} \cup DOMAIN accounts
          /\ challenges[c].flow = "register" => challenges[c].account # 0
    /\ \A s \in AccountSlots : SlotRefers(s)

(* The requests the actions build. *)
LEMMA AccountRequestShapes ==
    /\ Unserved \in AccountRequests
    /\ \A r \in AccountRequests, step \in AccountSteps :
          [r EXCEPT !.step = step] \in AccountRequests
    /\ \A step \in AccountSteps, a \in 0..MaxRows :
          /\ [Unserved EXCEPT !.step = step, !.account = a] \in AccountRequests
          /\ [Unserved EXCEPT !.step = step, !.on = a] \in AccountRequests
    /\ \A step \in AccountSteps, a, c \in 0..MaxRows :
          [Unserved EXCEPT !.step = step, !.on = c, !.account = a] \in AccountRequests
  <1>1. Unserved \in AccountRequests
    <2>1. "idle" \in AccountSteps
      BY DEF AccountSteps
    <2> QED
      BY <2>1, AccountsOK DEF AccountRequests, Unserved
  <1>2. ASSUME NEW r \in AccountRequests, NEW step \in AccountSteps
        PROVE  [r EXCEPT !.step = step] \in AccountRequests
    BY DEF AccountRequests
  <1>3. ASSUME NEW step \in AccountSteps, NEW a \in 0..MaxRows, NEW c \in 0..MaxRows
        PROVE  /\ [Unserved EXCEPT !.step = step, !.account = a] \in AccountRequests
               /\ [Unserved EXCEPT !.step = step, !.on = a] \in AccountRequests
               /\ [Unserved EXCEPT !.step = step, !.on = c, !.account = a]
                     \in AccountRequests
    BY <1>1 DEF AccountRequests
  <1>4. /\ \A step \in AccountSteps, a \in 0..MaxRows :
              /\ [Unserved EXCEPT !.step = step, !.account = a] \in AccountRequests
              /\ [Unserved EXCEPT !.step = step, !.on = a] \in AccountRequests
        /\ \A step \in AccountSteps, a, c \in 0..MaxRows :
              [Unserved EXCEPT !.step = step, !.on = c, !.account = a] \in AccountRequests
    BY <1>3
  <1>5. \A r \in AccountRequests, step \in AccountSteps :
          [r EXCEPT !.step = step] \in AccountRequests
    BY <1>2
  <1> QED
    BY <1>1, <1>4, <1>5

LEMMA AccountStepNames ==
    {"idle", "link", "issue", "credential", "consume", "rotate", "revoke", "lock", "erase"}
        \subseteq AccountSteps
  BY DEF AccountSteps

LEMMA AccountsTypeInit == AccountsInit => AccountsTypeOK /\ References
  <1> SUFFICES ASSUME AccountsInit PROVE AccountsTypeOK /\ References
    OBVIOUS
  <1> USE AccountsOK DEF AccountsInit
  <1>1. granted \in BOOLEAN /\ mingled \in BOOLEAN
    OBVIOUS
  <1>2. serving \in [AccountSlots -> AccountRequests]
    BY AccountRequestShapes
  <1>3. /\ accounts \in Seq(AccountRows) /\ sessions \in Seq(SessionRows)
        /\ challenges \in Seq(ChallengeRows)
        /\ Len(accounts) + Len(sessions) + Len(challenges) <= MaxRows
    OBVIOUS
  <1>4. AccountsTypeOK
    BY <1>1, <1>2, <1>3 DEF AccountsTypeOK
  <1>5. References
    BY DEF References, SlotRefers, Serving, Unserved
  <1> QED
    BY <1>4, <1>5

(* The history only ever becomes true. *)
LEMMA MinglingIsNoted ==
    ASSUME AccountsTypeOK, AccountsNext
    PROVE  mingled' \in BOOLEAN /\ (~mingled' => ~mingled)
  BY DEF AccountsTypeOK, AccountsNext, AccountsStep, LinkApple, IssueSession, SaveCredential,
         ConsumeChallenge, RotateSession, RevokeApple, LockAccount, EraseAccount,
         AccountRequestDies, BeginEmail, BeginApple, BeginRegister, BeginAuthenticate,
         BeginRefresh, BeginDelete, SaveChallenge, Logout, Begin

(* Issuing, passing on to another step and answering keep the slots' type. *)
LEMMA SlotsKeepType ==
    ASSUME AccountsTypeOK, NEW s \in AccountSlots
    PROVE  /\ serving[s] \in AccountRequests
           /\ \A r \in AccountRequests :
                 [serving EXCEPT ![s] = r] \in [AccountSlots -> AccountRequests]
           /\ \A step \in AccountSteps :
                 Then(s, step) => serving' \in [AccountSlots -> AccountRequests]
           /\ \A a \in 0..MaxRows :
                 ThenIssue(s, a) => serving' \in [AccountSlots -> AccountRequests]
           /\ Done(s) => serving' \in [AccountSlots -> AccountRequests]
  <1>1. /\ serving[s] \in AccountRequests
        /\ \A r \in AccountRequests :
              [serving EXCEPT ![s] = r] \in [AccountSlots -> AccountRequests]
    BY DEF AccountsTypeOK
  <1>2. ASSUME NEW step \in AccountSteps, Then(s, step)
        PROVE  serving' \in [AccountSlots -> AccountRequests]
    <2>1. serving' = [serving EXCEPT ![s] = [serving[s] EXCEPT !.step = step]]
      BY <1>2 DEF Then
    <2> QED
      BY <1>1, <2>1, AccountRequestShapes
  <1>3. ASSUME NEW a \in 0..MaxRows, ThenIssue(s, a)
        PROVE  serving' \in [AccountSlots -> AccountRequests]
    <2>1. [Unserved EXCEPT !.step = "issue", !.account = a] \in AccountRequests
      BY AccountRequestShapes, AccountStepNames
    <2> QED
      BY <1>1, <1>3, <2>1 DEF ThenIssue
  <1> QED
    BY <1>1, <1>2, <1>3, AccountRequestShapes DEF Done

(* The row of a mark. *)
LEMMA MarkedRows ==
    ASSUME AccountsTypeOK
    PROVE  /\ BySub \in {0} \cup Existing /\ ByEmail \in {0} \cup Existing
           /\ BySub # 0 => accounts[BySub].sub
           /\ Existing \subseteq DOMAIN accounts
  BY DEF BySub, ByEmail, Row, Existing

LEMMA AccountsRows ==
    ASSUME AccountsTypeOK
    PROVE  /\ Len(accounts) \in Nat /\ DOMAIN accounts = 1..Len(accounts)
           /\ Len(sessions) \in Nat /\ DOMAIN sessions = 1..Len(sessions)
           /\ Len(challenges) \in Nat /\ DOMAIN challenges = 1..Len(challenges)
           /\ DOMAIN accounts \subseteq 1..MaxRows /\ DOMAIN sessions \subseteq 1..MaxRows
           /\ DOMAIN challenges \subseteq 1..MaxRows
           /\ \A a \in DOMAIN accounts : accounts[a] \in AccountRows
           /\ \A i \in DOMAIN sessions : sessions[i] \in SessionRows
           /\ \A c \in DOMAIN challenges : challenges[c] \in ChallengeRows
  BY AccountsOK, LenProperties, ElementOfSeq DEF AccountsTypeOK

LEMMA AccountsTypeSign ==
    ASSUME AccountsTypeOK, References, AccountsNext, NEW s \in AccountSlots,
           \/ \E email, token \in BOOLEAN : BeginApple(s, email, token)
           \/ LinkApple(s) \/ BeginEmail(s) \/ IssueSession(s)
    PROVE  AccountsTypeOK'
  <1> USE AccountsOK, MinglingIsNoted, SlotsKeepType, AccountsRows
  <1>1. ASSUME NEW email \in BOOLEAN, NEW token \in BOOLEAN, BeginApple(s, email, token)
        PROVE  AccountsTypeOK'
    <2> DEFINE a == IF BySub = 0 /\ email THEN ByEmail ELSE BySub
               r == [Unserved EXCEPT !.step = "link", !.account = a, !.email = email,
                        !.token = token, !.held = token \/ (a # 0 /\ accounts[a].token)]
    <2>1. a \in 0..MaxRows
      BY MarkedRows
    <2>2. r \in AccountRequests
      <3>1. (a # 0 /\ accounts[a].token) \in BOOLEAN
        OBVIOUS
      <3>2. "link" \in AccountSteps /\ Unserved \in AccountRequests
        BY AccountRequestShapes, AccountStepNames
      <3> QED
        BY <2>1, <3>1, <3>2 DEF AccountRequests
    <2>3. serving' = [serving EXCEPT ![s] = r]
      BY <1>1 DEF BeginApple, Begin
    <2>4. serving' \in [AccountSlots -> AccountRequests]
      BY <2>2, <2>3
    <2> QED
      BY <1>1, <2>4 DEF AccountsTypeOK, BeginApple
  <1>2. CASE LinkApple(s)
    <2> DEFINE a == serving[s].account
               new == [exists |-> TRUE, sub |-> TRUE, email |-> serving[s].email,
                       token |-> serving[s].token]
    <2>1. a \in 0..MaxRows /\ serving[s].email \in BOOLEAN /\ serving[s].token \in BOOLEAN
      BY DEF AccountRequests
    <2>2. CASE a # 0
      <3>1. UNCHANGED <<sessions, challenges, passkey, granted, mingled>>
        BY <1>2 DEF LinkApple
      <3>2. serving' \in [AccountSlots -> AccountRequests]
        BY <1>2, <2>1, <2>2 DEF LinkApple
      <3>3. accounts' \in Seq(AccountRows) /\ Len(accounts') = Len(accounts)
        <4> DEFINE row == [accounts[a] EXCEPT !.sub = TRUE, !.email = @ \/ serving[s].email,
                                              !.token = @ \/ serving[s].token]
        <4>1. a \in DOMAIN accounts
          BY <2>2 DEF References, SlotRefers
        <4>2. row \in AccountRows
          BY <4>1 DEF AccountRows
        <4>3. accounts' = accounts \/ accounts' = [accounts EXCEPT ![a] = row]
          BY <1>2, <2>2, <4>1 DEF LinkApple
        <4> QED
          BY <4>1, <4>2, <4>3, ExceptSeq DEF AccountsTypeOK
      <3> QED
        BY <3>1, <3>2, <3>3 DEF AccountsTypeOK
    <2>3. CASE /\ a = 0 /\ Room /\ accounts' = Append(accounts, new)
              /\ IF serving[s].held THEN ThenIssue(s, Len(accounts) + 1) ELSE Done(s)
      <3>1. UNCHANGED <<sessions, challenges, passkey, granted, mingled>>
        BY <1>2 DEF LinkApple
      <3>2. new \in AccountRows
        BY <2>1 DEF AccountRows
      <3>3. accounts' \in Seq(AccountRows) /\ Len(accounts') = Len(accounts) + 1
        BY <2>3, <3>2, AppendProperties DEF AccountsTypeOK
      <3>4. Len(accounts) + 1 \in 0..MaxRows
        BY <2>3 DEF Room
      <3>5. serving' \in [AccountSlots -> AccountRequests]
        BY <2>3, <3>4
      <3> QED
        BY <2>3, <3>1, <3>3, <3>5 DEF AccountsTypeOK, Room
    <2>4. CASE UNCHANGED accounts /\ Done(s)
      BY <1>2, <2>4 DEF LinkApple, AccountsTypeOK
    <2> QED
      BY <1>2, <2>2, <2>3, <2>4 DEF LinkApple
  <1>3. CASE BeginEmail(s)
    <2> DEFINE a == IF ByEmail = 0 THEN Len(accounts) + 1 ELSE ByEmail
               new == [NoAccount EXCEPT !.exists = TRUE, !.email = TRUE]
    <2>1. a \in 0..MaxRows
      BY <1>3, MarkedRows DEF BeginEmail, Room
    <2>2. [Unserved EXCEPT !.step = "issue", !.account = a] \in AccountRequests
      BY <2>1, AccountRequestShapes, AccountStepNames
    <2>3. serving' \in [AccountSlots -> AccountRequests]
      BY <1>3, <2>2 DEF BeginEmail, Begin
    <2>4. new \in AccountRows
      BY DEF AccountRows, NoAccount
    <2>5. CASE UNCHANGED accounts
      BY <1>3, <2>3, <2>5 DEF BeginEmail, AccountsTypeOK
    <2>6. CASE Room /\ accounts' = Append(accounts, new)
      <3>1. accounts' \in Seq(AccountRows) /\ Len(accounts') = Len(accounts) + 1
        BY <2>4, <2>6, AppendProperties DEF AccountsTypeOK
      <3> QED
        BY <1>3, <2>3, <2>6, <3>1 DEF BeginEmail, AccountsTypeOK, Room
    <2> QED
      BY <1>3, <2>5, <2>6 DEF BeginEmail
  <1>4. CASE IssueSession(s)
    <2> DEFINE new == [account |-> serving[s].account, signIn |-> Len(sessions) + 1,
                       revoked |-> FALSE, challenge |-> serving[s].on]
    <2>1. serving' \in [AccountSlots -> AccountRequests]
      BY <1>4 DEF IssueSession
    <2>2. serving[s].account \in 1..MaxRows /\ serving[s].on \in 0..MaxRows
      BY <1>4 DEF IssueSession, Serving, References, SlotRefers, AccountRequests
    <2>3. new \in SessionRows
      BY <1>4, <2>2 DEF SessionRows, IssueSession, Room
    <2>4. sessions' \in Seq(SessionRows) /\ Len(sessions') = Len(sessions) + 1
      BY <1>4, <2>3, AppendProperties DEF AccountsTypeOK, IssueSession
    <2> QED
      BY <1>4, <2>1, <2>4 DEF AccountsTypeOK, IssueSession, Room
  <1> QED
    BY <1>1, <1>2, <1>3, <1>4

LEMMA AccountsTypePasskeys ==
    ASSUME AccountsTypeOK, References, AccountsNext, NEW s \in AccountSlots,
           \/ \E c \in DOMAIN challenges : BeginRegister(s, c) \/ BeginAuthenticate(s, c)
           \/ SaveCredential(s) \/ ConsumeChallenge(s)
    PROVE  AccountsTypeOK'
  <1> USE AccountsOK, AccountsRows
  <1>1. ASSUME NEW c \in DOMAIN challenges, BeginRegister(s, c) \/ BeginAuthenticate(s, c)
        PROVE  AccountsTypeOK'
    <2>1. challenges[c].account \in 0..MaxRows /\ passkey \in 0..MaxRows /\ c \in 0..MaxRows
      BY DEF ChallengeRows, AccountsTypeOK
    <2> DEFINE r(step, a) == [Unserved EXCEPT !.step = step, !.on = c, !.account = a]
    <2>2. \/ serving' = [serving EXCEPT ![s] = r("credential", challenges[c].account)]
          \/ serving' = [serving EXCEPT ![s] = r("consume", passkey)]
      BY <1>1 DEF BeginRegister, BeginAuthenticate, Begin
    <2>3. /\ r("credential", challenges[c].account) \in AccountRequests
          /\ r("consume", passkey) \in AccountRequests
      BY <2>1, AccountRequestShapes, AccountStepNames
    <2>4. serving' \in [AccountSlots -> AccountRequests]
      BY <2>2, <2>3, SlotsKeepType
    <2> QED
      BY <1>1, <2>4, MinglingIsNoted DEF AccountsTypeOK, BeginRegister, BeginAuthenticate
  <1>2. CASE SaveCredential(s)
    <2>1. passkey' \in 0..MaxRows
      BY <1>2, SlotsKeepType DEF SaveCredential, AccountRequests
    <2>2. serving' \in [AccountSlots -> AccountRequests]
      BY <1>2, SlotsKeepType, AccountRequestShapes, AccountStepNames DEF SaveCredential
    <2> QED
      BY <1>2, <2>1, <2>2, MinglingIsNoted DEF AccountsTypeOK, SaveCredential
  <1>3. CASE ConsumeChallenge(s)
    <2> DEFINE c == serving[s].on
               row == [challenges[c] EXCEPT !.open = FALSE]
    <2>1. c \in DOMAIN challenges
      BY <1>3 DEF ConsumeChallenge, Serving, References, SlotRefers, SlotRefers
    <2>2. row \in ChallengeRows
      BY <2>1 DEF ChallengeRows
    <2>3. challenges' = [challenges EXCEPT ![c] = row]
      BY <1>3, <2>1 DEF ConsumeChallenge
    <2>4. challenges' \in Seq(ChallengeRows) /\ Len(challenges') = Len(challenges)
      BY <2>1, <2>2, <2>3, ExceptSeq DEF AccountsTypeOK
    <2>5. serving' \in [AccountSlots -> AccountRequests]
      BY <1>3, SlotsKeepType, AccountRequestShapes, AccountStepNames DEF ConsumeChallenge
    <2> QED
      BY <1>3, <2>4, <2>5, MinglingIsNoted DEF AccountsTypeOK, ConsumeChallenge
  <1> QED
    BY <1>1, <1>2, <1>3

(* Revoking a session and following it with another keep the type. *)
LEMMA RevokedSessions ==
    ASSUME AccountsTypeOK, NEW i \in DOMAIN sessions
    PROVE  /\ [sessions EXCEPT ![i].revoked = TRUE] \in Seq(SessionRows)
           /\ Len([sessions EXCEPT ![i].revoked = TRUE]) = Len(sessions)
  <1> DEFINE row == [sessions[i] EXCEPT !.revoked = TRUE]
  <1>1. row \in SessionRows
    BY AccountsRows DEF SessionRows
  <1>2. [sessions EXCEPT ![i].revoked = TRUE] = [sessions EXCEPT ![i] = row]
    OBVIOUS
  <1> QED
    BY <1>1, <1>2, ExceptSeq DEF AccountsTypeOK

LEMMA AccountsTypeSessions ==
    ASSUME AccountsTypeOK, References, AccountsNext, NEW s \in AccountSlots,
           \/ \E i \in DOMAIN sessions : BeginRefresh(s, i) \/ BeginDelete(s, i)
           \/ RotateSession(s) \/ RevokeApple(s) \/ LockAccount(s) \/ EraseAccount(s)
           \/ AccountRequestDies(s)
    PROVE  AccountsTypeOK'
  <1> USE AccountsOK, AccountsRows
  <1>1. ASSUME NEW i \in DOMAIN sessions, BeginRefresh(s, i)
        PROVE  AccountsTypeOK'
    <2>1. i \in 0..MaxRows
      BY DEF AccountsTypeOK
    <2>2. serving' \in [AccountSlots -> AccountRequests]
      BY <1>1, <2>1, SlotsKeepType, AccountRequestShapes, AccountStepNames DEF BeginRefresh, Begin
    <2> QED
      BY <1>1, <2>2, MinglingIsNoted DEF AccountsTypeOK, BeginRefresh
  <1>2. ASSUME NEW i \in DOMAIN sessions, BeginDelete(s, i)
        PROVE  AccountsTypeOK'
    <2>1. sessions[i].account \in 0..MaxRows
      BY DEF SessionRows
    <2>2. serving' \in [AccountSlots -> AccountRequests]
      BY <1>2, <2>1, SlotsKeepType, AccountRequestShapes, AccountStepNames DEF BeginDelete, Begin
    <2> QED
      BY <1>2, <2>2, MinglingIsNoted DEF AccountsTypeOK, BeginDelete
  <1>3. CASE RotateSession(s)
    <2> DEFINE i == serving[s].on
    <2>1. i \in DOMAIN sessions
      BY <1>3 DEF RotateSession, References, SlotRefers, SlotRefers
    <2>2. serving' \in [AccountSlots -> AccountRequests]
      BY <1>3, SlotsKeepType, AccountRequestShapes, AccountStepNames DEF RotateSession
    <2>3. UNCHANGED <<accounts, challenges, passkey, granted, mingled>>
      BY <1>3 DEF RotateSession
    <2>4. CASE UNCHANGED sessions
      BY <2>2, <2>3, <2>4 DEF AccountsTypeOK
    <2>5. CASE /\ Room
               /\ sessions' = Append([sessions EXCEPT ![i].revoked = TRUE], sessions[i])
      <3>1. sessions' \in Seq(SessionRows) /\ Len(sessions') = Len(sessions) + 1
        BY <2>1, <2>5, RevokedSessions, AppendProperties
      <3> QED
        BY <2>2, <2>3, <2>5, <3>1, MinglingIsNoted DEF AccountsTypeOK, Room
    <2> QED
      BY <1>3, <2>4, <2>5 DEF RotateSession
  <1>4. CASE RevokeApple(s)
    <2>1. granted' \in BOOLEAN
      BY <1>4 DEF RevokeApple, AccountsTypeOK
    <2>2. serving' \in [AccountSlots -> AccountRequests]
      BY <1>4, SlotsKeepType, AccountRequestShapes, AccountStepNames DEF RevokeApple
    <2> QED
      BY <1>4, <2>1, <2>2, MinglingIsNoted DEF AccountsTypeOK, RevokeApple
  <1>5. CASE LockAccount(s)
    <2> DEFINE all == {i \in DOMAIN sessions : sessions[i].account = serving[s].account}
    <2>1. [serving[s] EXCEPT !.step = "erase", !.seen = all] \in AccountRequests
      <3>1. all \in SUBSET (1..MaxRows) /\ "erase" \in AccountSteps
        BY AccountStepNames
      <3> QED
        BY <3>1, SlotsKeepType DEF AccountRequests
    <2>2. \/ serving' = [serving EXCEPT ![s] = [serving[s] EXCEPT !.step = "erase", !.seen = all]]
          \/ Done(s)
      BY <1>5 DEF LockAccount
    <2>3. serving' \in [AccountSlots -> AccountRequests]
      BY <2>1, <2>2, SlotsKeepType, AccountRequestShapes, AccountStepNames
    <2> QED
      BY <1>5, <2>3, MinglingIsNoted DEF AccountsTypeOK, LockAccount
  <1>6. CASE EraseAccount(s)
    <2> DEFINE a == serving[s].account
    <2>1. accounts' \in Seq(AccountRows) /\ Len(accounts') = Len(accounts)
      <3>1. NoAccount \in AccountRows
        BY DEF AccountRows, NoAccount
      <3>2. a \in DOMAIN accounts
        BY <1>6 DEF EraseAccount, Serving, References, SlotRefers, SlotRefers
      <3> QED
        BY <1>6, <3>1, <3>2, ExceptSeq DEF AccountsTypeOK, EraseAccount
    <2>2. challenges' \in Seq(ChallengeRows) /\ Len(challenges') = Len(challenges)
      <3>1. ASSUME NEW c \in DOMAIN challenges
            PROVE  /\ challenges[c] \in ChallengeRows
                   /\ [challenges[c] EXCEPT !.open = FALSE] \in ChallengeRows
        BY DEF ChallengeRows
      <3>2. challenges' \in [1..Len(challenges) -> ChallengeRows]
        BY <1>6, <3>1 DEF EraseAccount
      <3> QED
        BY <3>2, LenProperties, SeqDef
    <2>3. sessions' \in Seq(SessionRows) /\ Len(sessions') = Len(sessions)
      <3>1. ASSUME NEW i \in DOMAIN sessions
            PROVE  /\ sessions[i] \in SessionRows
                   /\ [sessions[i] EXCEPT !.revoked = TRUE] \in SessionRows
        BY DEF SessionRows
      <3>2. sessions' \in [1..Len(sessions) -> SessionRows]
        BY <1>6, <3>1 DEF EraseAccount
      <3> QED
        BY <3>2, LenProperties, SeqDef
    <2>4. passkey' \in 0..MaxRows
      BY <1>6 DEF EraseAccount, AccountsTypeOK
    <2>5. serving' \in [AccountSlots -> AccountRequests]
      BY <1>6, SlotsKeepType, AccountRequestShapes, AccountStepNames DEF EraseAccount
    <2> QED
      BY <1>6, <2>1, <2>2, <2>3, <2>4, <2>5, MinglingIsNoted DEF AccountsTypeOK, EraseAccount
  <1>7. CASE AccountRequestDies(s)
    <2>1. serving' \in [AccountSlots -> AccountRequests]
      BY <1>7, SlotsKeepType, AccountRequestShapes, AccountStepNames DEF AccountRequestDies
    <2> QED
      BY <1>7, <2>1, MinglingIsNoted DEF AccountsTypeOK, AccountRequestDies
  <1> QED
    BY <1>1, <1>2, <1>3, <1>4, <1>5, <1>6, <1>7

(* Every step keeps the variables in their domains. *)
LEMMA AccountsTypeStep ==
    ASSUME AccountsTypeOK, References, AccountsNext
    PROVE  AccountsTypeOK'
  <1> USE AccountsOK, AccountsRows
  <1>1. ASSUME NEW flow \in {"register", "auth"}, NEW a \in 0..MaxRows, SaveChallenge(flow, a)
        PROVE  AccountsTypeOK'
    <2> DEFINE new == [flow |-> flow, account |-> a, open |-> TRUE]
    <2>1. new \in ChallengeRows
      BY DEF ChallengeRows
    <2>2. challenges' \in Seq(ChallengeRows) /\ Len(challenges') = Len(challenges) + 1
      BY <1>1, <2>1, AppendProperties DEF SaveChallenge, AccountsTypeOK
    <2> QED
      BY <1>1, <2>2, MinglingIsNoted DEF SaveChallenge, AccountsTypeOK, Room
  <1>2. ASSUME NEW i \in DOMAIN sessions, Logout(i)
        PROVE  AccountsTypeOK'
    BY <1>2, RevokedSessions, MinglingIsNoted DEF Logout, AccountsTypeOK
  <1> QED
    BY <1>1, <1>2, AccountsTypeSign, AccountsTypePasskeys, AccountsTypeSessions
       DEF AccountsNext, AccountsStep

(* Rows of accounts and challenges stay; a closed challenge stays closed.   *)
LEMMA RowsStay ==
    ASSUME AccountsTypeOK, References, AccountsNext
    PROVE  /\ DOMAIN accounts \subseteq DOMAIN accounts'
           /\ \A c \in DOMAIN challenges :
                 /\ c \in DOMAIN challenges'
                 /\ challenges'[c].flow = challenges[c].flow
                 /\ challenges'[c].account = challenges[c].account
                 /\ challenges'[c].open => challenges[c].open
           /\ \A c \in DOMAIN challenges' \ DOMAIN challenges :
                 /\ UNCHANGED accounts
                 /\ challenges'[c].account \in {0} \cup Existing
                 /\ challenges'[c].flow = "register" => challenges'[c].account # 0
  <1> USE AccountsRows
  <1> DEFINE Stay == /\ \A c \in DOMAIN challenges :
                           /\ c \in DOMAIN challenges'
                           /\ challenges'[c].flow = challenges[c].flow
                           /\ challenges'[c].account = challenges[c].account
                           /\ challenges'[c].open => challenges[c].open
                     /\ DOMAIN challenges' = DOMAIN challenges
  <1>1. DOMAIN accounts \subseteq DOMAIN accounts'
    <2>1. ASSUME NEW row \in AccountRows, accounts' = Append(accounts, row)
          PROVE  DOMAIN accounts \subseteq DOMAIN accounts'
      BY <2>1, AppendProperties DEF AccountsTypeOK
    <2>2. ASSUME NEW s \in AccountSlots, LinkApple(s)
          PROVE  DOMAIN accounts \subseteq DOMAIN accounts'
      <3>1. [exists |-> TRUE, sub |-> TRUE, email |-> serving[s].email,
             token |-> serving[s].token] \in AccountRows
        BY SlotsKeepType DEF AccountRows, AccountRequests
      <3> QED
        BY <2>1, <2>2, <3>1 DEF LinkApple
    <2>3. ASSUME NEW s \in AccountSlots, BeginEmail(s)
          PROVE  DOMAIN accounts \subseteq DOMAIN accounts'
      <3>1. [NoAccount EXCEPT !.exists = TRUE, !.email = TRUE] \in AccountRows
        BY DEF AccountRows, NoAccount
      <3> QED
        BY <2>1, <2>3, <3>1 DEF BeginEmail
    <2> QED
      BY <2>2, <2>3
         DEF AccountsNext, AccountsStep, IssueSession, SaveCredential, ConsumeChallenge,
             RotateSession, RevokeApple, LockAccount, EraseAccount, AccountRequestDies,
             BeginApple, BeginRegister, BeginAuthenticate, BeginRefresh, BeginDelete,
             SaveChallenge, Logout
  <1>2. ASSUME NEW s \in AccountSlots, ConsumeChallenge(s)
        PROVE  Stay
    BY <1>2 DEF ConsumeChallenge
  <1>3. ASSUME NEW s \in AccountSlots, EraseAccount(s)
        PROVE  Stay
    BY <1>3 DEF EraseAccount
  <1>4. ASSUME NEW flow \in {"register", "auth"}, NEW a \in 0..MaxRows, SaveChallenge(flow, a)
        PROVE  /\ \A c \in DOMAIN challenges :
                     c \in DOMAIN challenges' /\ challenges'[c] = challenges[c]
               /\ \A c \in DOMAIN challenges' \ DOMAIN challenges :
                     /\ UNCHANGED accounts
                     /\ challenges'[c].account \in {0} \cup Existing
                     /\ challenges'[c].flow = "register" => challenges'[c].account # 0
    <2> DEFINE new == [flow |-> flow, account |-> a, open |-> TRUE]
    <2>1. new \in ChallengeRows
      BY DEF ChallengeRows
    <2>2. /\ challenges' = Append(challenges, new) /\ UNCHANGED accounts
          /\ a \in Existing \cup (IF flow = "auth" THEN {0} ELSE {})
      BY <1>4 DEF SaveChallenge
    <2>3. 0 \notin Existing
      BY DEF Existing
    <2>4. /\ DOMAIN challenges' = 1..(Len(challenges) + 1)
          /\ \A c \in DOMAIN challenges : challenges'[c] = challenges[c]
          /\ challenges'[Len(challenges) + 1] = new
      BY <2>1, <2>2, AppendProperties DEF AccountsTypeOK
    <2>5. a \in {0} \cup Existing /\ (flow = "register" => a # 0)
      BY <2>2, <2>3
    <2> QED
      BY <2>2, <2>4, <2>5
  <1>5. \/ UNCHANGED challenges
        \/ \E s \in AccountSlots : ConsumeChallenge(s) \/ EraseAccount(s)
        \/ \E flow \in {"register", "auth"}, a \in 0..MaxRows : SaveChallenge(flow, a)
    BY DEF AccountsNext, AccountsStep, IssueSession, SaveCredential, LinkApple,
           RotateSession, RevokeApple, LockAccount, AccountRequestDies,
           BeginEmail, BeginApple, BeginRegister, BeginAuthenticate, BeginRefresh, BeginDelete,
           Logout
  <1> QED
    BY <1>1, <1>2, <1>3, <1>4, <1>5

(* Sessions stay and stay ended; the one that is added is of a new sign-in, *)
(* or follows a live one that is revoked for it.                            *)
LEMMA SessionsMove ==
    ASSUME AccountsTypeOK, References, AccountsNext
    PROVE  /\ DOMAIN sessions \subseteq DOMAIN sessions'
           /\ \A i \in DOMAIN sessions :
                 /\ sessions'[i].account = sessions[i].account
                 /\ sessions'[i].signIn = sessions[i].signIn
                 /\ sessions'[i].challenge = sessions[i].challenge
                 /\ sessions[i].revoked => sessions'[i].revoked
           /\ \A j \in DOMAIN sessions' \ DOMAIN sessions :
                 /\ j = Len(sessions) + 1
                 /\ \/ \E s \in AccountSlots :
                          /\ IssueSession(s)
                          /\ sessions'[j] = [account |-> serving[s].account, signIn |-> j,
                                             revoked |-> FALSE, challenge |-> serving[s].on]
                    \/ \E i \in DOMAIN sessions :
                          /\ UNCHANGED accounts
                          /\ Live(i) /\ sessions'[i].revoked
                          /\ sessions'[j] = sessions[i]
  <1> USE AccountsRows
  <1> DEFINE same(i) == /\ sessions'[i].account = sessions[i].account
                        /\ sessions'[i].signIn = sessions[i].signIn
                        /\ sessions'[i].challenge = sessions[i].challenge
                        /\ sessions[i].revoked => sessions'[i].revoked
  <1>1. ASSUME NEW s \in AccountSlots, IssueSession(s)
        PROVE  /\ DOMAIN sessions' = 1..(Len(sessions) + 1)
               /\ \A i \in DOMAIN sessions : sessions'[i] = sessions[i]
               /\ sessions'[Len(sessions) + 1] =
                     [account |-> serving[s].account, signIn |-> Len(sessions) + 1,
                      revoked |-> FALSE, challenge |-> serving[s].on]
    <2> DEFINE new == [account |-> serving[s].account, signIn |-> Len(sessions) + 1,
                       revoked |-> FALSE, challenge |-> serving[s].on]
    <2>1. sessions' = Append(sessions, new)
      BY <1>1 DEF IssueSession
    <2>2. new \in [account : {serving[s].account}, signIn : {Len(sessions) + 1},
                   revoked : {FALSE}, challenge : {serving[s].on}]
      OBVIOUS
    <2>3. sessions \in Seq(SessionRows \cup {new})
      BY SeqDef DEF AccountsTypeOK
    <2> QED
      BY <2>1, <2>3, AppendProperties
  <1>2. ASSUME NEW s \in AccountSlots, RotateSession(s), sessions' # sessions
        PROVE  \E i \in DOMAIN sessions :
                  /\ Live(i)
                  /\ DOMAIN sessions' = 1..(Len(sessions) + 1)
                  /\ \A k \in DOMAIN sessions : same(k)
                  /\ sessions'[i].revoked /\ sessions'[Len(sessions) + 1] = sessions[i]
    <2> DEFINE i == serving[s].on
               kept == [sessions EXCEPT ![i].revoked = TRUE]
    <2>1. i \in DOMAIN sessions /\ Live(i) /\ sessions' = Append(kept, sessions[i])
      BY <1>2 DEF RotateSession, References, SlotRefers
    <2>2. kept \in Seq(SessionRows) /\ Len(kept) = Len(sessions)
      BY <2>1, RevokedSessions
    <2>3. /\ DOMAIN sessions' = 1..(Len(sessions) + 1)
          /\ \A k \in DOMAIN sessions : sessions'[k] = kept[k]
          /\ sessions'[Len(sessions) + 1] = sessions[i]
      BY <2>1, <2>2, AppendProperties
    <2>4. /\ \A k \in DOMAIN sessions :
                /\ kept[k].account = sessions[k].account
                /\ kept[k].signIn = sessions[k].signIn
                /\ kept[k].challenge = sessions[k].challenge
                /\ sessions[k].revoked => kept[k].revoked
          /\ kept[i].revoked
      BY <2>1 DEF SessionRows
    <2> QED
      BY <2>1, <2>3, <2>4
  <1>3. ASSUME NEW s \in AccountSlots, EraseAccount(s)
        PROVE  DOMAIN sessions' = DOMAIN sessions /\ \A i \in DOMAIN sessions : same(i)
    BY <1>3 DEF EraseAccount, SessionRows
  <1>4. ASSUME NEW i \in DOMAIN sessions, Logout(i)
        PROVE  DOMAIN sessions' = DOMAIN sessions /\ \A k \in DOMAIN sessions : same(k)
    BY <1>4 DEF Logout, SessionRows
  <1>5. \/ UNCHANGED sessions
        \/ \E s \in AccountSlots :
              IssueSession(s) \/ (RotateSession(s) /\ UNCHANGED accounts) \/ EraseAccount(s)
        \/ \E i \in DOMAIN sessions : Logout(i)
    BY DEF AccountsNext, AccountsStep, SaveCredential, LinkApple, ConsumeChallenge,
           RotateSession, RevokeApple, LockAccount, AccountRequestDies,
           BeginEmail, BeginApple, BeginRegister, BeginAuthenticate, BeginRefresh, BeginDelete,
           SaveChallenge
  <1>6. CASE UNCHANGED sessions
    BY <1>6
  <1>7. ASSUME NEW s \in AccountSlots, IssueSession(s)
        PROVE  /\ DOMAIN sessions \subseteq DOMAIN sessions'
               /\ \A i \in DOMAIN sessions : same(i)
               /\ \A j \in DOMAIN sessions' \ DOMAIN sessions :
                     /\ j = Len(sessions) + 1
                     /\ sessions'[j] = [account |-> serving[s].account, signIn |-> j,
                                        revoked |-> FALSE, challenge |-> serving[s].on]
    <2>1. /\ DOMAIN sessions' = 1..(Len(sessions) + 1)
          /\ \A i \in DOMAIN sessions : sessions'[i] = sessions[i]
          /\ sessions'[Len(sessions) + 1] =
                [account |-> serving[s].account, signIn |-> Len(sessions) + 1,
                 revoked |-> FALSE, challenge |-> serving[s].on]
      BY <1>1, <1>7
    <2>2. \A j \in DOMAIN sessions' \ DOMAIN sessions : j = Len(sessions) + 1
      BY <2>1
    <2> QED
      BY <2>1, <2>2
  <1>8. ASSUME NEW s \in AccountSlots, RotateSession(s), UNCHANGED accounts, sessions' # sessions
        PROVE  /\ DOMAIN sessions \subseteq DOMAIN sessions'
               /\ \A i \in DOMAIN sessions : same(i)
               /\ \A j \in DOMAIN sessions' \ DOMAIN sessions :
                     /\ j = Len(sessions) + 1
                     /\ \E i \in DOMAIN sessions :
                          /\ UNCHANGED accounts
                          /\ Live(i) /\ sessions'[i].revoked
                          /\ sessions'[j] = sessions[i]
    BY <1>2, <1>8
  <1> QED
    BY <1>3, <1>4, <1>5, <1>6, <1>7, <1>8

(* References stay good. *)
LEMMA ReferencesStep ==
    ASSUME AccountsTypeOK, References, AccountsNext
    PROVE  References'
  <1> USE AccountsRows
  <1>1. passkey' \in {0} \cup DOMAIN accounts'
    <2>1. ASSUME NEW s \in AccountSlots, SaveCredential(s) \/ EraseAccount(s)
          PROVE  passkey' \in {0} \cup DOMAIN accounts
      BY <2>1 DEF SaveCredential, EraseAccount, References, SlotRefers
    <2>2. UNCHANGED passkey \/ \E s \in AccountSlots : SaveCredential(s) \/ EraseAccount(s)
      BY DEF AccountsNext, AccountsStep, IssueSession, LinkApple, ConsumeChallenge,
             RotateSession, RevokeApple, LockAccount, AccountRequestDies,
             BeginEmail, BeginApple, BeginRegister, BeginAuthenticate, BeginRefresh,
             BeginDelete, SaveChallenge, Logout
    <2> QED
      BY <2>1, <2>2, RowsStay DEF References
  <1>2. ASSUME NEW j \in DOMAIN sessions'
        PROVE  /\ sessions'[j].account \in DOMAIN accounts'
               /\ sessions'[j].signIn \in DOMAIN sessions'
               /\ sessions'[j].challenge # 0 =>
                     /\ sessions'[j].challenge \in DOMAIN challenges'
                     /\ ~challenges'[sessions'[j].challenge].open
    <2>1. CASE j \in DOMAIN sessions
      <3>1. /\ sessions'[j].account = sessions[j].account
            /\ sessions'[j].signIn = sessions[j].signIn
            /\ sessions'[j].challenge = sessions[j].challenge
            /\ DOMAIN sessions \subseteq DOMAIN sessions'
        BY <2>1, SessionsMove
      <3> QED
        BY <2>1, <3>1, RowsStay DEF References
    <2>2. CASE j \notin DOMAIN sessions
      <3>1. CASE \E s \in AccountSlots :
                    /\ IssueSession(s)
                    /\ sessions'[j] = [account |-> serving[s].account, signIn |-> j,
                                       revoked |-> FALSE, challenge |-> serving[s].on]
        <4>1. PICK s \in AccountSlots :
                    /\ IssueSession(s)
                    /\ sessions'[j] = [account |-> serving[s].account, signIn |-> j,
                                       revoked |-> FALSE, challenge |-> serving[s].on]
          BY <3>1
        <4>2. Serving(s, "issue") /\ SlotRefers(s)
          BY <4>1 DEF IssueSession, References
        <4>3. /\ serving[s].account \in DOMAIN accounts
              /\ serving[s].on # 0 =>
                    serving[s].on \in DOMAIN challenges /\ ~challenges[serving[s].on].open
          BY <4>2 DEF SlotRefers, Serving
        <4> QED
          BY <4>1, <4>3, RowsStay
      <3>2. CASE \E i \in DOMAIN sessions : sessions'[j] = sessions[i]
        <4>1. PICK i \in DOMAIN sessions : sessions'[j] = sessions[i]
          BY <3>2
        <4> QED
          BY <4>1, RowsStay, SessionsMove DEF References
      <3> QED
        BY <2>2, <3>1, <3>2, SessionsMove
    <2> QED
      BY <2>1, <2>2
  <1>3. ASSUME NEW c \in DOMAIN challenges'
        PROVE  /\ challenges'[c].account \in {0} \cup DOMAIN accounts'
               /\ challenges'[c].flow = "register" => challenges'[c].account # 0
    <2>1. Existing \subseteq DOMAIN accounts
      BY DEF Existing
    <2>2. CASE c \in DOMAIN challenges
      BY <2>2, RowsStay DEF References
    <2>3. CASE c \notin DOMAIN challenges
      BY <2>1, <2>3, RowsStay
    <2> QED
      BY <2>2, <2>3
  <1>4. ASSUME NEW t \in AccountSlots, serving'[t] = serving[t]
        PROVE  SlotRefers(t)'
    <2>1. SlotRefers(t)
      BY DEF References
    <2> QED
      BY <1>4, <2>1, RowsStay, SessionsMove DEF SlotRefers, Serving
  <1>5. ASSUME NEW t \in AccountSlots, serving'[t] = Unserved
        PROVE  SlotRefers(t)'
    BY <1>5 DEF SlotRefers, Serving, Unserved
  <1>6. ASSUME NEW s \in AccountSlots,
               \/ AccountsStep(s) \/ AccountRequestDies(s) \/ BeginEmail(s)
               \/ \E email, token \in BOOLEAN : BeginApple(s, email, token)
               \/ \E c \in DOMAIN challenges : BeginRegister(s, c) \/ BeginAuthenticate(s, c)
               \/ \E i \in DOMAIN sessions : BeginRefresh(s, i) \/ BeginDelete(s, i)
        PROVE  \A t \in AccountSlots : t # s => serving'[t] = serving[t]
    BY <1>6 DEF AccountsTypeOK, AccountsStep, IssueSession, LinkApple, SaveCredential,
             ConsumeChallenge, EraseAccount, RotateSession, RevokeApple, LockAccount,
             AccountRequestDies, BeginEmail, BeginApple, BeginRegister, BeginAuthenticate,
             BeginRefresh, BeginDelete, Begin, Then, ThenIssue, Done
  <1>7. ASSUME NEW s \in AccountSlots,
               \/ AccountsStep(s) \/ AccountRequestDies(s) \/ BeginEmail(s)
               \/ \E email, token \in BOOLEAN : BeginApple(s, email, token)
               \/ \E c \in DOMAIN challenges : BeginRegister(s, c) \/ BeginAuthenticate(s, c)
               \/ \E i \in DOMAIN sessions : BeginRefresh(s, i) \/ BeginDelete(s, i)
        PROVE  SlotRefers(s)'
    <2> USE DEF AccountsTypeOK
    <2> DEFINE mine == serving'[s]
    <2>0. SlotRefers(s)
      BY DEF References
    <2>1. CASE Done(s)
      BY <1>5, <2>1 DEF Done
    <2>2. CASE BeginEmail(s)
      <3>1. /\ ByEmail \in {0} \cup DOMAIN accounts
        BY MarkedRows
      <3>2. /\ mine.step = "issue" /\ mine.on = 0
            /\ mine.account = IF ByEmail = 0 THEN Len(accounts) + 1 ELSE ByEmail
        BY <2>2 DEF BeginEmail, Begin, Unserved
      <3>3. ByEmail = 0 => Len(accounts) + 1 \in DOMAIN accounts'
        <4>1. [NoAccount EXCEPT !.exists = TRUE, !.email = TRUE] \in AccountRows
          BY DEF AccountRows, NoAccount
        <4> QED
          BY <2>2, <4>1, AppendProperties, MarkedRows DEF BeginEmail
      <3>4. mine.account \in DOMAIN accounts' /\ mine.account # 0
        BY <3>1, <3>2, <3>3, RowsStay
      <3> QED
        BY <3>2, <3>4 DEF SlotRefers, Serving
    <2>3. ASSUME NEW email \in BOOLEAN, NEW token \in BOOLEAN, BeginApple(s, email, token)
          PROVE  SlotRefers(s)'
      <3>1. /\ mine.step = "link"
            /\ mine.account = IF BySub = 0 /\ email THEN ByEmail ELSE BySub
        BY <2>3 DEF BeginApple, Begin, Unserved
      <3>2. mine.account \in {0} \cup DOMAIN accounts'
        BY <3>1, MarkedRows, RowsStay
      <3> QED
        BY <3>1, <3>2 DEF SlotRefers, Serving
    <2>4. ASSUME NEW c \in DOMAIN challenges, BeginRegister(s, c) \/ BeginAuthenticate(s, c)
          PROVE  SlotRefers(s)'
      <3>1. /\ mine.step \in {"credential", "consume"} /\ mine.on = c
            /\ \/ mine.account = challenges[c].account /\ challenges[c].flow = "register"
               \/ mine.account = passkey /\ passkey # 0
        <4>1. CASE BeginRegister(s, c)
          <5>1. serving' = [serving EXCEPT ![s] = [Unserved EXCEPT !.step = "credential",
                                          !.on = c, !.account = challenges[c].account]]
            BY <4>1 DEF BeginRegister, Begin
          <5>2. mine = [Unserved EXCEPT !.step = "credential", !.on = c,
                                        !.account = challenges[c].account]
            BY <5>1
          <5> QED
            BY <4>1, <5>2 DEF BeginRegister, Unserved
        <4>2. CASE BeginAuthenticate(s, c)
          BY <4>2 DEF BeginAuthenticate, Begin, Unserved
        <4> QED
          BY <2>4, <4>1, <4>2
      <3>2. mine.account \in DOMAIN accounts /\ mine.account # 0
        BY <3>1 DEF References
      <3> QED
        BY <3>1, <3>2, RowsStay DEF SlotRefers, Serving
    <2>5. ASSUME NEW i \in DOMAIN sessions, BeginRefresh(s, i)
          PROVE  SlotRefers(s)'
      <3>1. mine.step = "rotate" /\ mine.on = i /\ mine.account = 0
        BY <2>5 DEF BeginRefresh, Begin, Unserved
      <3> QED
        BY <3>1, SessionsMove DEF SlotRefers, Serving
    <2>6. ASSUME NEW i \in DOMAIN sessions, BeginDelete(s, i)
          PROVE  SlotRefers(s)'
      <3>1. mine.step \in {"revoke", "lock"} /\ mine.account = sessions[i].account
        BY <2>6 DEF BeginDelete, Begin, Unserved
      <3>2. sessions[i].account \in DOMAIN accounts
        BY DEF References
      <3> QED
        BY <3>1, <3>2, RowsStay DEF SlotRefers, Serving
    <2>7. CASE SaveCredential(s)
      <3>1. mine.step = "consume" /\ mine.account = serving[s].account
            /\ mine.on = serving[s].on /\ Serving(s, "credential")
        BY <2>7 DEF SaveCredential, Then, AccountRequests
      <3> QED
        BY <2>0, <3>1, RowsStay DEF SlotRefers, Serving
    <2>8. CASE ConsumeChallenge(s)
      <3>1. mine.step = "issue" /\ mine.account = serving[s].account
            /\ mine.on = serving[s].on /\ Serving(s, "consume")
        BY <2>8 DEF ConsumeChallenge, Then, AccountRequests
      <3>2. ~challenges'[serving[s].on].open /\ serving[s].on \in DOMAIN challenges
        <4>1. serving[s].on \in DOMAIN challenges
          BY <2>0, <2>8 DEF ConsumeChallenge, SlotRefers, Serving
        <4> QED
          BY <2>8, <4>1 DEF ConsumeChallenge, ChallengeRows
      <3> QED
        BY <2>0, <3>1, <3>2, RowsStay DEF SlotRefers, Serving
    <2>9. CASE RevokeApple(s) /\ Then(s, "lock")
      <3>1. mine.step = "lock" /\ mine.account = serving[s].account /\ Serving(s, "revoke")
        BY <2>9 DEF RevokeApple, Then, AccountRequests
      <3> QED
        BY <2>0, <3>1, RowsStay DEF SlotRefers, Serving
    <2>10. CASE LockAccount(s) /\ ~Done(s)
      <3>1. mine.step = "erase" /\ mine.account = serving[s].account /\ Serving(s, "lock")
        BY <2>10 DEF LockAccount, AccountRequests
      <3> QED
        BY <2>0, <3>1, RowsStay DEF SlotRefers, Serving
    <2>11. CASE LinkApple(s) /\ ~Done(s)
      <3>1. CASE ThenIssue(s, serving[s].account) /\ serving[s].account # 0
        <4>1. mine.step = "issue" /\ mine.account = serving[s].account /\ mine.on = 0
          BY <3>1 DEF ThenIssue, Unserved
        <4> QED
          BY <2>0, <3>1, <4>1, RowsStay DEF SlotRefers, Serving
      <3>2. CASE /\ ThenIssue(s, Len(accounts) + 1)
                 /\ accounts' = Append(accounts, [exists |-> TRUE, sub |-> TRUE,
                          email |-> serving[s].email, token |-> serving[s].token])
        <4>1. mine.step = "issue" /\ mine.account = Len(accounts) + 1 /\ mine.on = 0
          BY <3>2 DEF ThenIssue, Unserved
        <4>2. [exists |-> TRUE, sub |-> TRUE, email |-> serving[s].email,
               token |-> serving[s].token] \in AccountRows
          BY SlotsKeepType DEF AccountRows, AccountRequests
        <4>3. Len(accounts) + 1 \in DOMAIN accounts'
          BY <3>2, <4>2, AppendProperties
        <4> QED
          BY <4>1, <4>3 DEF SlotRefers, Serving
      <3> QED
        BY <2>11, <3>1, <3>2 DEF LinkApple
    <2> QED
      BY <1>7, <2>1, <2>2, <2>3, <2>4, <2>5, <2>6, <2>7, <2>8, <2>9, <2>10, <2>11
         DEF AccountsStep, IssueSession, RotateSession, RevokeApple, EraseAccount,
             AccountRequestDies
  <1>8. ASSUME UNCHANGED serving
        PROVE  \A t \in AccountSlots : SlotRefers(t)'
    BY <1>4, <1>8
  <1>9. \A t \in AccountSlots : SlotRefers(t)'
    BY <1>4, <1>6, <1>7, <1>8 DEF AccountsNext, SaveChallenge, Logout
  <1> QED
    BY <1>1, <1>2, <1>3, <1>9 DEF References

-----------------------------------------------------------------------------
(* While requests do not overlap, what a request has read still holds when  *)
(* its next effect comes.                                                   *)
Ready(s) ==
    /\ serving[s].step \in {"credential", "consume", "issue"} =>
          /\ serving[s].account \in Existing
          /\ serving[s].on # 0 =>
                \A i \in DOMAIN sessions : sessions[i].challenge # serving[s].on
    /\ Serving(s, "link") /\ serving[s].account # 0 => serving[s].account \in Existing
    /\ serving[s].step \in {"lock", "erase"} /\
          serving[s].account \in Existing /\ accounts[serving[s].account].sub => ~granted
    /\ Serving(s, "erase") =>
          serving[s].seen = {i \in DOMAIN sessions : sessions[i].account = serving[s].account}

NothingOrphaned ==
    /\ \A i \in DOMAIN sessions : Live(i) => sessions[i].account \in Existing
    /\ passkey # 0 => passkey \in Existing
    /\ \A c \in DOMAIN challenges :
          challenges[c].open /\ challenges[c].account # 0 => challenges[c].account \in Existing

OneAnswer ==
    \A i, j \in DOMAIN sessions :
        sessions[i].challenge = sessions[j].challenge /\ sessions[i].challenge # 0
            => sessions[i].signIn = sessions[j].signIn

Alone == \A s, t \in AccountSlots : s # t => Serving(s, "idle") \/ Serving(t, "idle")

Unmingled ==
    ~mingled => Alone /\ NothingOrphaned /\ OneAnswer /\ \A s \in AccountSlots : Ready(s)

AccountsIInv == AccountsTypeOK /\ References /\ OneLiveSession /\ Unmingled

LEMMA AccountsIInit == AccountsInit => AccountsIInv
  <1> SUFFICES ASSUME AccountsInit PROVE AccountsIInv
    OBVIOUS
  <1>1. AccountsTypeOK /\ References
    BY AccountsTypeInit
  <1>2. \A s \in AccountSlots : serving[s] = Unserved
    BY DEF AccountsInit
  <1>3. Alone /\ \A s \in AccountSlots : Ready(s)
    BY <1>2 DEF Alone, Ready, Serving, Unserved
  <1>4. OneLiveSession /\ NothingOrphaned /\ OneAnswer
    BY DEF AccountsInit, OneLiveSession, NothingOrphaned, OneAnswer
  <1> QED
    BY <1>1, <1>3, <1>4 DEF AccountsIInv, Unmingled

(* Refresh tokens are good for one use, however refreshes overlap. *)
LEMMA OneLiveSessionStep ==
    ASSUME AccountsIInv, AccountsNext
    PROVE  OneLiveSession'
  <1> USE AccountsRows DEF AccountsIInv
  <1>0. AccountsTypeOK' /\ References'
    BY AccountsTypeStep, ReferencesStep
  <1>1. ASSUME NEW i \in DOMAIN sessions', NEW j \in DOMAIN sessions', i # j,
               ~sessions'[i].revoked, ~sessions'[j].revoked, i \in DOMAIN sessions
        PROVE  sessions'[i].signIn # sessions'[j].signIn
    <2>1. sessions'[i].signIn = sessions[i].signIn /\ Live(i)
      BY <1>1, SessionsMove DEF Live
    <2>2. CASE j \in DOMAIN sessions
      BY <1>1, <2>1, <2>2, SessionsMove DEF OneLiveSession, Live
    <2>3. CASE j \notin DOMAIN sessions
      <3>1. j = Len(sessions) + 1
        BY <2>3, SessionsMove
      <3>2. CASE sessions'[j].signIn = j
        <4>1. sessions[i].signIn \in DOMAIN sessions
          BY <1>1 DEF References
        <4> QED
          BY <2>1, <3>1, <3>2, <4>1
      <3>3. CASE \E k \in DOMAIN sessions :
                    Live(k) /\ sessions'[k].revoked /\ sessions'[j] = sessions[k]
        BY <1>1, <2>1, <3>3 DEF OneLiveSession
      <3>4. \/ \E s \in AccountSlots :
                  sessions'[j] = [account |-> serving[s].account, signIn |-> j,
                                  revoked |-> FALSE, challenge |-> serving[s].on]
            \/ \E k \in DOMAIN sessions :
                  Live(k) /\ sessions'[k].revoked /\ sessions'[j] = sessions[k]
        BY <2>3, SessionsMove
      <3> QED
        BY <3>2, <3>3, <3>4
    <2> QED
      BY <2>2, <2>3
  <1>2. ASSUME NEW i \in DOMAIN sessions', NEW j \in DOMAIN sessions', i # j,
               ~sessions'[i].revoked, ~sessions'[j].revoked
        PROVE  sessions'[i].signIn # sessions'[j].signIn
    <2>1. i \in DOMAIN sessions \/ j \in DOMAIN sessions
      BY <1>2, SessionsMove
    <2> QED
      BY <1>1, <1>2, <2>1
  <1> QED
    BY <1>2 DEF OneLiveSession, Live

(* A sign-in that has ended gets no live session again. *)
LEMMA EndedStays ==
    ASSUME AccountsIInv, AccountsNext
    PROVE  EndedStaysEnded
  <1> USE AccountsRows DEF AccountsIInv
  <1> SUFFICES ASSUME NEW i \in DOMAIN sessions,
                      \A k \in DOMAIN sessions :
                          sessions[k].signIn = sessions[i].signIn => ~Live(k),
                      NEW j \in DOMAIN sessions', sessions'[j].signIn = sessions[i].signIn
               PROVE  sessions'[j].revoked
    BY DEF EndedStaysEnded
  <1>1. CASE j \in DOMAIN sessions
    BY <1>1, SessionsMove DEF Live
  <1>2. CASE j \notin DOMAIN sessions
    <2>1. j = Len(sessions) + 1
      BY <1>2, SessionsMove
    <2>2. sessions'[j].signIn # j
      BY <2>1 DEF References
    <2>3. \/ sessions'[j].signIn = j
          \/ \E k \in DOMAIN sessions : Live(k) /\ sessions'[j] = sessions[k]
      <3>1. \/ \E s \in AccountSlots :
                  sessions'[j] = [account |-> serving[s].account, signIn |-> j,
                                  revoked |-> FALSE, challenge |-> serving[s].on]
            \/ \E k \in DOMAIN sessions : Live(k) /\ sessions'[j] = sessions[k]
        BY <1>2, SessionsMove
      <3> QED
        BY <3>1
    <2> QED
      BY <2>2, <2>3
  <1> QED
    BY <1>1, <1>2

(* A request that begins with the history still clear finds all slots idle. *)
LEMMA BeginsAlone ==
    ASSUME NEW s \in AccountSlots, NEW r, Begin(s, r), ~mingled'
    PROVE  ~mingled /\ \A t \in AccountSlots : Serving(t, "idle")
  BY DEF Begin

(* Only deleting an account takes one away. *)
LEMMA ExistingStays ==
    ASSUME AccountsTypeOK, References, AccountsNext
    PROVE  Existing \subseteq Existing' \/ \E s \in AccountSlots : EraseAccount(s)
  <1> USE AccountsRows
  <1>1. ASSUME NEW row \in AccountRows, accounts' = Append(accounts, row)
        PROVE  Existing \subseteq Existing'
    BY <1>1, AppendProperties DEF Existing, AccountsTypeOK
  <1>2. ASSUME NEW s \in AccountSlots, LinkApple(s)
        PROVE  Existing \subseteq Existing'
    <2>1. [exists |-> TRUE, sub |-> TRUE, email |-> serving[s].email,
           token |-> serving[s].token] \in AccountRows
      BY SlotsKeepType DEF AccountRows, AccountRequests
    <2>3. CASE serving[s].account # 0
      <3> DEFINE a == serving[s].account
      <3>1. a \in DOMAIN accounts
        BY <2>3 DEF References, SlotRefers
      <3>2. \/ UNCHANGED accounts
            \/ accounts' = [accounts EXCEPT ![a].sub = TRUE,
                               ![a].email = @ \/ serving[s].email,
                               ![a].token = @ \/ serving[s].token]
        BY <1>2, <2>3 DEF LinkApple
      <3>3. ASSUME NEW b \in Existing, accounts' # accounts
            PROVE  b \in Existing'
        BY <3>1, <3>2, <3>3 DEF Existing, AccountRows
      <3> QED
        BY <3>2, <3>3 DEF Existing
    <2>4. CASE serving[s].account = 0
      BY <1>1, <1>2, <2>1, <2>4 DEF LinkApple, Existing
    <2> QED
      BY <2>3, <2>4
  <1>3. ASSUME NEW s \in AccountSlots, BeginEmail(s)
        PROVE  Existing \subseteq Existing'
    <2>1. [NoAccount EXCEPT !.exists = TRUE, !.email = TRUE] \in AccountRows
      BY DEF AccountRows, NoAccount
    <2> QED
      BY <1>1, <1>3, <2>1 DEF BeginEmail, Existing
  <1>4. CASE UNCHANGED accounts
    BY <1>4 DEF Existing
  <1>5. \/ UNCHANGED accounts
        \/ \E s \in AccountSlots : LinkApple(s) \/ BeginEmail(s) \/ EraseAccount(s)
    BY DEF AccountsNext, AccountsStep, IssueSession, SaveCredential, ConsumeChallenge,
           RotateSession, RevokeApple, LockAccount, AccountRequestDies,
           BeginApple, BeginRegister, BeginAuthenticate, BeginRefresh, BeginDelete,
           SaveChallenge, Logout
  <1> QED
    BY <1>2, <1>3, <1>4, <1>5

(* What is live, her passkey and what is open keep their accounts, and a    *)
(* challenge its one sign-in, while requests do not overlap.                *)
LEMMA OneAnswerStep ==
    ASSUME AccountsIInv, AccountsNext, ~mingled'
    PROVE  OneAnswer'
  <1> USE AccountsRows DEF AccountsIInv
  <1>0. ~mingled /\ OneAnswer /\ \A s \in AccountSlots : Ready(s)
    BY MinglingIsNoted DEF Unmingled
  <1>1. ASSUME NEW i \in DOMAIN sessions, NEW j \in DOMAIN sessions' \ DOMAIN sessions,
               sessions'[i].challenge = sessions'[j].challenge, sessions'[i].challenge # 0
        PROVE  sessions'[i].signIn = sessions'[j].signIn
    <2>1. /\ sessions'[i].challenge = sessions[i].challenge
          /\ sessions'[i].signIn = sessions[i].signIn
      BY SessionsMove
    <2>2. ASSUME NEW s \in AccountSlots, IssueSession(s),
                 sessions'[j].challenge = serving[s].on
          PROVE  FALSE
      <3>1. /\ serving[s].on # 0 =>
                  \A k \in DOMAIN sessions : sessions[k].challenge # serving[s].on
        BY <1>0, <2>2 DEF Ready, IssueSession, Serving
      <3> QED
        BY <1>1, <2>1, <2>2, <3>1
    <2>3. ASSUME NEW k \in DOMAIN sessions, sessions'[j] = sessions[k]
          PROVE  sessions'[i].signIn = sessions'[j].signIn
      BY <1>0, <1>1, <2>1, <2>3 DEF OneAnswer
    <2>4. \/ \E s \in AccountSlots :
                /\ IssueSession(s)
                /\ sessions'[j] = [account |-> serving[s].account, signIn |-> j,
                                   revoked |-> FALSE, challenge |-> serving[s].on]
          \/ \E k \in DOMAIN sessions : sessions'[j] = sessions[k]
      BY SessionsMove
    <2> QED
      BY <2>2, <2>3, <2>4
  <1>2. ASSUME NEW i \in DOMAIN sessions, NEW j \in DOMAIN sessions,
               sessions'[i].challenge = sessions'[j].challenge, sessions'[i].challenge # 0
        PROVE  sessions'[i].signIn = sessions'[j].signIn
    BY <1>0, <1>2, SessionsMove DEF OneAnswer
  <1>3. \A i, j \in DOMAIN sessions' \ DOMAIN sessions : i = j
    BY SessionsMove
  <1> QED
    BY <1>1, <1>2, <1>3 DEF OneAnswer

LEMMA NothingOrphanedStep ==
    ASSUME AccountsIInv, AccountsNext, ~mingled'
    PROVE  NothingOrphaned'
  <1> USE AccountsRows DEF AccountsIInv
  <1>0. ~mingled /\ NothingOrphaned /\ \A s \in AccountSlots : Ready(s)
    BY MinglingIsNoted DEF Unmingled
  <1>1. CASE Existing \subseteq Existing'
    <2>1. ASSUME NEW i \in DOMAIN sessions', ~sessions'[i].revoked
          PROVE  sessions'[i].account \in Existing'
      <3>1. CASE i \in DOMAIN sessions
        BY <1>0, <1>1, <2>1, <3>1, SessionsMove DEF NothingOrphaned, Live
      <3>2. ASSUME NEW s \in AccountSlots, IssueSession(s),
                   sessions'[i].account = serving[s].account
            PROVE  sessions'[i].account \in Existing'
        BY <1>0, <1>1, <3>2 DEF Ready, IssueSession, Serving
      <3>3. ASSUME NEW k \in DOMAIN sessions, Live(k), sessions'[i] = sessions[k]
            PROVE  sessions'[i].account \in Existing'
        BY <1>0, <1>1, <3>3 DEF NothingOrphaned
      <3>4. i \notin DOMAIN sessions =>
                \/ \E s \in AccountSlots :
                      /\ IssueSession(s)
                      /\ sessions'[i] = [account |-> serving[s].account, signIn |-> i,
                                         revoked |-> FALSE, challenge |-> serving[s].on]
                \/ \E k \in DOMAIN sessions : Live(k) /\ sessions'[i] = sessions[k]
        BY SessionsMove
      <3> QED
        BY <3>1, <3>2, <3>3, <3>4
    <2>2. passkey' # 0 => passkey' \in Existing'
      <3>1. ASSUME NEW s \in AccountSlots, SaveCredential(s)
            PROVE  passkey' \in Existing
        BY <1>0, <3>1 DEF SaveCredential, Ready, Serving
      <3>2. ASSUME NEW s \in AccountSlots, EraseAccount(s)
            PROVE  passkey' = 0 \/ passkey' = passkey
        BY <3>2 DEF EraseAccount
      <3>3. UNCHANGED passkey \/ \E s \in AccountSlots : SaveCredential(s) \/ EraseAccount(s)
        BY DEF AccountsNext, AccountsStep, IssueSession, LinkApple, ConsumeChallenge,
               RotateSession, RevokeApple, LockAccount, AccountRequestDies,
               BeginEmail, BeginApple, BeginRegister, BeginAuthenticate, BeginRefresh,
               BeginDelete, SaveChallenge, Logout
      <3> QED
        BY <1>0, <1>1, <3>1, <3>2, <3>3 DEF NothingOrphaned
    <2>3. ASSUME NEW c \in DOMAIN challenges', challenges'[c].open,
                 challenges'[c].account # 0
          PROVE  challenges'[c].account \in Existing'
      <3>1. CASE c \in DOMAIN challenges
        BY <1>0, <1>1, <2>3, <3>1, RowsStay DEF NothingOrphaned
      <3>2. CASE c \notin DOMAIN challenges
        BY <1>1, <2>3, <3>2, RowsStay
      <3> QED
        BY <3>1, <3>2
    <2> QED
      BY <2>1, <2>2, <2>3 DEF NothingOrphaned, Live
  <1>2. ASSUME NEW s \in AccountSlots, EraseAccount(s)
        PROVE  NothingOrphaned'
    <2> DEFINE a == serving[s].account
    <2>1. /\ a \in DOMAIN accounts
          /\ serving[s].seen = {i \in DOMAIN sessions : sessions[i].account = a}
      BY <1>0, <1>2 DEF EraseAccount, Serving, References, SlotRefers, Ready
    <2>2. \A b \in Existing : b # a => b \in Existing'
      BY <1>2 DEF EraseAccount, Existing
    <2>3. ASSUME NEW i \in DOMAIN sessions
          PROVE  /\ sessions'[i].account = sessions[i].account
                 /\ ~sessions'[i].revoked => Live(i) /\ sessions[i].account # a
      BY <1>2, <2>1 DEF EraseAccount, SessionRows, Live
    <2>4. DOMAIN sessions' = DOMAIN sessions
      BY <1>2 DEF EraseAccount
    <2>5. \A i \in DOMAIN sessions' :
              ~sessions'[i].revoked => sessions'[i].account \in Existing'
      BY <1>0, <2>2, <2>3, <2>4 DEF NothingOrphaned
    <2>6. passkey' # 0 => passkey' \in Existing'
      BY <1>0, <1>2, <2>2 DEF EraseAccount, NothingOrphaned
    <2>7. /\ DOMAIN challenges' = DOMAIN challenges
          /\ \A c \in DOMAIN challenges :
                /\ challenges'[c].account = challenges[c].account
                /\ challenges'[c].open => challenges[c].open /\ challenges[c].account # a
      BY <1>2 DEF EraseAccount, ChallengeRows
    <2>8. \A c \in DOMAIN challenges' :
              challenges'[c].open /\ challenges'[c].account # 0 =>
                  challenges'[c].account \in Existing'
      BY <1>0, <2>2, <2>7 DEF NothingOrphaned
    <2> QED
      BY <2>5, <2>6, <2>8 DEF NothingOrphaned, Live
  <1> QED
    BY <1>1, <1>2, ExistingStays

(* No other slot is busy after a step that leaves the history clear.        *)
LEMMA AloneStep ==
    ASSUME AccountsIInv, NEW s \in AccountSlots, ~mingled',
           \/ AccountsStep(s) \/ AccountRequestDies(s) \/ BeginEmail(s)
           \/ \E email, token \in BOOLEAN : BeginApple(s, email, token)
           \/ \E c \in DOMAIN challenges : BeginRegister(s, c) \/ BeginAuthenticate(s, c)
           \/ \E i \in DOMAIN sessions : BeginRefresh(s, i) \/ BeginDelete(s, i)
    PROVE  \A t \in AccountSlots : t # s => Serving(t, "idle")'
  <1>1. \A t \in AccountSlots : t # s => serving'[t] = serving[t]
    BY DEF AccountsIInv, AccountsTypeOK, AccountsStep, IssueSession, LinkApple, SaveCredential,
             ConsumeChallenge, EraseAccount, RotateSession, RevokeApple, LockAccount,
             AccountRequestDies, BeginEmail, BeginApple, BeginRegister, BeginAuthenticate,
             BeginRefresh, BeginDelete, Begin, Then, ThenIssue, Done
  <1>2. CASE AccountsStep(s) \/ AccountRequestDies(s)
    <2>1. ~Serving(s, "idle") /\ (~mingled' => ~mingled)
      <3>1. CASE LinkApple(s)
        BY <3>1 DEF LinkApple, Serving
      <3>2. CASE ~LinkApple(s)
        BY <1>2, <3>2 DEF AccountsStep, IssueSession, SaveCredential, ConsumeChallenge,
                          EraseAccount, RotateSession, RevokeApple, LockAccount,
                          AccountRequestDies, Serving
      <3> QED
        BY <3>1, <3>2
    <2> QED
      BY <1>1, <2>1 DEF AccountsIInv, Unmingled, Alone, Serving
  <1>3. CASE ~(AccountsStep(s) \/ AccountRequestDies(s))
    <2>1. \E r : Begin(s, r)
      BY <1>3 DEF BeginEmail, BeginApple, BeginRegister, BeginAuthenticate,
                  BeginRefresh, BeginDelete
    <2> QED
      BY <1>1, <2>1, BeginsAlone DEF Serving
  <1> QED
    BY <1>2, <1>3

(* The request that acted is still right about what it read.                *)
LEMMA ReadyStep ==
    ASSUME AccountsIInv, AccountsNext, NEW s \in AccountSlots, ~mingled',
           \/ AccountsStep(s) \/ AccountRequestDies(s) \/ BeginEmail(s)
           \/ \E email, token \in BOOLEAN : BeginApple(s, email, token)
           \/ \E c \in DOMAIN challenges : BeginRegister(s, c) \/ BeginAuthenticate(s, c)
           \/ \E i \in DOMAIN sessions : BeginRefresh(s, i) \/ BeginDelete(s, i)
    PROVE  Ready(s)'
  <1> USE AccountsRows DEF AccountsIInv
  <1> DEFINE mine == serving'[s]
  <1>0. /\ ~mingled /\ NothingOrphaned /\ Ready(s)
        /\ serving[s] \in AccountRequests /\ serving \in [AccountSlots -> AccountRequests]
    BY MinglingIsNoted, SlotsKeepType DEF Unmingled, AccountsTypeOK
  <1>1. CASE Done(s)
    BY <1>0, <1>1 DEF Done, Ready, Serving, Unserved
  <1>2. CASE BeginEmail(s)
    <2> DEFINE new == [NoAccount EXCEPT !.exists = TRUE, !.email = TRUE]
    <2>1. /\ mine.step = "issue" /\ mine.on = 0
          /\ mine.account = IF ByEmail = 0 THEN Len(accounts) + 1 ELSE ByEmail
      BY <1>0, <1>2 DEF BeginEmail, Begin, Unserved
    <2>2. CASE ByEmail # 0 /\ UNCHANGED accounts
      <3>1. mine.account \in Existing'
        BY <2>1, <2>2, MarkedRows DEF Existing
      <3> QED
        BY <2>1, <3>1 DEF Ready, Serving
    <2>3. CASE ByEmail = 0 /\ accounts' = Append(accounts, new)
      <3>1. new \in AccountRows /\ new.exists
        BY DEF AccountRows, NoAccount
      <3>2. Len(accounts) + 1 \in Existing'
        BY <2>3, <3>1, AppendProperties DEF Existing, AccountsTypeOK
      <3> QED
        BY <2>1, <2>3, <3>2 DEF Ready, Serving
    <2> QED
      BY <1>2, <2>2, <2>3 DEF BeginEmail
  <1>3. ASSUME NEW email \in BOOLEAN, NEW token \in BOOLEAN, BeginApple(s, email, token)
        PROVE  Ready(s)'
    <2>1. /\ mine.step = "link"
          /\ mine.account = IF BySub = 0 /\ email THEN ByEmail ELSE BySub
      BY <1>0, <1>3 DEF BeginApple, Begin, Unserved
    <2>2. mine.account # 0 => mine.account \in Existing'
      BY <1>3, <2>1, MarkedRows DEF BeginApple, Existing
    <2> QED
      BY <2>1, <2>2 DEF Ready, Serving
  <1>4. ASSUME NEW c \in DOMAIN challenges, BeginRegister(s, c) \/ BeginAuthenticate(s, c)
        PROVE  Ready(s)'
    <2>1. \A i \in DOMAIN sessions : sessions[i].challenge # c
      <3>1. challenges[c].open
        BY <1>4 DEF BeginRegister, BeginAuthenticate
      <3> QED
        BY <3>1 DEF References
    <2>2. CASE BeginRegister(s, c)
      <3>1. serving' = [serving EXCEPT ![s] = [Unserved EXCEPT !.step = "credential",
                                          !.on = c, !.account = challenges[c].account]]
        BY <2>2 DEF BeginRegister, Begin
      <3>2. mine.step = "credential" /\ mine.on = c /\ mine.account = challenges[c].account
        BY <1>0, <3>1 DEF Unserved
      <3>3. challenges[c].open /\ challenges[c].account # 0
        BY <2>2 DEF BeginRegister, References
      <3>4. challenges[c].account \in Existing
        BY <1>0, <3>3 DEF NothingOrphaned
      <3>5. UNCHANGED <<accounts, sessions>>
        BY <2>2 DEF BeginRegister
      <3> QED
        BY <2>1, <3>2, <3>4, <3>5 DEF Ready, Serving, Existing
    <2>3. CASE BeginAuthenticate(s, c)
      <3>1. mine.step = "consume" /\ mine.on = c /\ mine.account = passkey
        BY <1>0, <2>3 DEF BeginAuthenticate, Begin, Unserved
      <3>2. passkey \in Existing
        BY <1>0, <2>3 DEF BeginAuthenticate, NothingOrphaned
      <3>3. UNCHANGED <<accounts, sessions>>
        BY <2>3 DEF BeginAuthenticate
      <3> QED
        BY <2>1, <3>1, <3>2, <3>3 DEF Ready, Serving, Existing
    <2> QED
      BY <1>4, <2>2, <2>3
  <1>5. ASSUME NEW i \in DOMAIN sessions, BeginRefresh(s, i)
        PROVE  Ready(s)'
    <2>1. mine.step = "rotate"
      BY <1>0, <1>5 DEF BeginRefresh, Begin, Unserved
    <2> QED
      BY <2>1 DEF Ready, Serving
  <1>6. ASSUME NEW i \in DOMAIN sessions, BeginDelete(s, i)
        PROVE  Ready(s)'
    <2> DEFINE a == sessions[i].account
    <2>1. /\ mine.step = IF accounts[a].exists /\ accounts[a].sub THEN "revoke" ELSE "lock"
          /\ mine.account = a
      BY <1>0, <1>6 DEF BeginDelete, Begin, Unserved
    <2>2. UNCHANGED accounts
      BY <1>6 DEF BeginDelete
    <2> QED
      BY <2>1, <2>2 DEF Ready, Serving, Existing
  <1>7. CASE SaveCredential(s)
    <2>1. /\ mine.step = "consume" /\ mine.account = serving[s].account
          /\ mine.on = serving[s].on /\ Serving(s, "credential")
          /\ UNCHANGED <<accounts, sessions>>
      BY <1>0, <1>7 DEF SaveCredential, Then, AccountRequests
    <2> QED
      BY <1>0, <2>1 DEF Ready, Serving, Existing
  <1>8. CASE ConsumeChallenge(s)
    <2>1. /\ mine.step = "issue" /\ mine.account = serving[s].account
          /\ mine.on = serving[s].on /\ Serving(s, "consume")
          /\ UNCHANGED <<accounts, sessions>>
      BY <1>0, <1>8 DEF ConsumeChallenge, Then, AccountRequests
    <2> QED
      BY <1>0, <2>1 DEF Ready, Serving, Existing
  <1>9. CASE RevokeApple(s) /\ Then(s, "lock")
    <2>1. mine.step = "lock" /\ granted' = FALSE
      BY <1>0, <1>1, <1>9 DEF RevokeApple, Then, Done, AccountRequests, Unserved
    <2> QED
      BY <2>1 DEF Ready, Serving
  <1>10. CASE LockAccount(s) /\ ~Done(s)
    <2>1. /\ mine.step = "erase" /\ mine.account = serving[s].account /\ Serving(s, "lock")
          /\ mine.seen = {i \in DOMAIN sessions : sessions[i].account = serving[s].account}
          /\ UNCHANGED <<accounts, sessions, granted>>
      BY <1>0, <1>10 DEF LockAccount, AccountRequests
    <2> QED
      BY <1>0, <2>1 DEF Ready, Serving, Existing
  <1>11. CASE LinkApple(s) /\ ~Done(s)
    <2> DEFINE a == serving[s].account
               new == [exists |-> TRUE, sub |-> TRUE,
                       email |-> serving[s].email, token |-> serving[s].token]
    <2>1. CASE ThenIssue(s, a) /\ a # 0
      <3>1. mine.step = "issue" /\ mine.account = a /\ mine.on = 0
        BY <1>0, <2>1 DEF ThenIssue, Unserved
      <3>2. a \in Existing'
        <4>1. a \in Existing
          BY <1>0, <1>11, <2>1 DEF Ready, LinkApple
        <4>2. ~\E t \in AccountSlots : EraseAccount(t)
          BY <1>11 DEF EraseAccount, LinkApple, Done, Unserved, Existing, Serving, Unmingled,
                        Alone, Then, ThenIssue
        <4> QED
          BY <4>1, <4>2, ExistingStays
      <3> QED
        BY <3>1, <3>2 DEF Ready, Serving
    <2>2. CASE ThenIssue(s, Len(accounts) + 1) /\ accounts' = Append(accounts, new)
      <3>1. mine.step = "issue" /\ mine.account = Len(accounts) + 1 /\ mine.on = 0
        BY <1>0, <2>2 DEF ThenIssue, Unserved
      <3>2. new \in AccountRows /\ new.exists
        BY <1>0 DEF AccountRows, AccountRequests
      <3>3. Len(accounts) + 1 \in Existing'
        BY <2>2, <3>2, AppendProperties DEF Existing, AccountsTypeOK
      <3> QED
        BY <3>1, <3>3 DEF Ready, Serving
    <2> QED
      BY <1>11, <2>1, <2>2 DEF LinkApple
  <1> QED
    BY <1>1, <1>2, <1>3, <1>4, <1>5, <1>6, <1>7, <1>8, <1>9, <1>10, <1>11
       DEF AccountsStep, IssueSession, RotateSession, RevokeApple, EraseAccount,
           AccountRequestDies

(* Every step keeps the inductive invariant. *)
LEMMA AccountsIStep == AccountsIInv /\ [AccountsNext]_accountVars => AccountsIInv'
  <1>1. ASSUME AccountsIInv, AccountsNext
        PROVE  AccountsIInv'
    <2> USE <1>1 DEF AccountsIInv
    <2>1. AccountsTypeOK' /\ References' /\ OneLiveSession'
      BY AccountsTypeStep, ReferencesStep, OneLiveSessionStep
    <2>2. ASSUME ~mingled'
          PROVE  Alone' /\ \A t \in AccountSlots : Ready(t)'
      <3>1. ASSUME NEW t \in AccountSlots, Serving(t, "idle")'
            PROVE  Ready(t)'
        BY <3>1 DEF Ready, Serving
      <3>2. ASSUME NEW s \in AccountSlots,
                   \/ AccountsStep(s) \/ AccountRequestDies(s) \/ BeginEmail(s)
                   \/ \E email, token \in BOOLEAN : BeginApple(s, email, token)
                   \/ \E c \in DOMAIN challenges :
                         BeginRegister(s, c) \/ BeginAuthenticate(s, c)
                   \/ \E i \in DOMAIN sessions : BeginRefresh(s, i) \/ BeginDelete(s, i)
            PROVE  Alone' /\ \A t \in AccountSlots : Ready(t)'
        <4>1. \A t \in AccountSlots : t # s => Serving(t, "idle")'
          BY <2>2, <3>2, AloneStep
        <4>2. Ready(s)'
          BY <2>2, <3>2, ReadyStep
        <4> QED
          BY <3>1, <4>1, <4>2 DEF Alone
      <3>3. ASSUME \/ \E flow \in {"register", "auth"}, a \in 0..MaxRows : SaveChallenge(flow, a)
                   \/ \E i \in DOMAIN sessions : Logout(i)
            PROVE  Alone' /\ \A t \in AccountSlots : Ready(t)'
        <4>1. /\ UNCHANGED <<accounts, serving, granted>>
              /\ ~mingled /\ DOMAIN sessions' = DOMAIN sessions
              /\ \A i \in DOMAIN sessions :
                    /\ sessions'[i].account = sessions[i].account
                    /\ sessions'[i].challenge = sessions[i].challenge
          <5>1. ASSUME NEW i \in DOMAIN sessions, Logout(i)
                PROVE  DOMAIN sessions' = DOMAIN sessions
            BY <5>1 DEF Logout
          <5> QED
            BY <2>2, <3>3, <5>1, MinglingIsNoted, SessionsMove DEF SaveChallenge, Logout
        <4>2. Alone /\ \A t \in AccountSlots : Ready(t)
          BY <4>1 DEF Unmingled
        <4> QED
          BY <4>1, <4>2 DEF Alone, Ready, Serving, Existing
      <3> QED
        BY <3>2, <3>3 DEF AccountsNext
    <2> QED
      BY <2>1, <2>2, OneAnswerStep, NothingOrphanedStep DEF Unmingled
  <1>2. ASSUME AccountsIInv, UNCHANGED accountVars
        PROVE  AccountsIInv'
    BY <1>2 DEF accountVars, AccountsIInv, AccountsTypeOK, References, SlotRefers,
                OneLiveSession, Live, Unmingled, Alone, NothingOrphaned, OneAnswer, Ready,
                Serving, Existing
  <1> QED
    BY <1>1, <1>2

(* Deleting the account ends Apple's grant with it. *)
LEMMA GrantEnds ==
    ASSUME AccountsIInv, AccountsNext
    PROVE  GrantEndsWithAccount
  <1> USE AccountsRows DEF AccountsIInv
  <1> SUFFICES ASSUME ~mingled, BySub # 0, ~accounts'[BySub].exists
               PROVE  ~granted'
    BY DEF GrantEndsWithAccount
  <1>1. BySub \in Existing /\ accounts[BySub].sub /\ BySub \in DOMAIN accounts
    BY MarkedRows
  <1>2. PICK s \in AccountSlots : EraseAccount(s)
    BY <1>1, ExistingStays DEF Existing
  <1>3. BySub = serving[s].account
    BY <1>1, <1>2 DEF EraseAccount, Existing
  <1>4. ~granted
    BY <1>1, <1>2, <1>3 DEF Unmingled, Ready, EraseAccount, Serving
  <1> QED
    BY <1>2, <1>4 DEF EraseAccount

-----------------------------------------------------------------------------
(* The invariant: rows that refer to each other, one live session a         *)
(* sign-in, and, until requests overlap, one request in flight that is      *)
(* right about what it read.                                                *)
THEOREM AccountsInductive == AccountsSpec => []AccountsIInv
  BY AccountsIInit, AccountsIStep, PTL DEF AccountsSpec

(* Type correctness of the customers' tables and requests. *)
THEOREM AccountsTypeCorrect == AccountsSpec => []AccountsTypeOK
  <1>1. AccountsIInv => AccountsTypeOK
    BY DEF AccountsIInv
  <1> QED
    BY <1>1, AccountsInductive, PTL

(* A refresh token rotates into one session, and a passkey challenge is     *)
(* answered with one sign-in (rotateRefreshSession, consumePasskeyChallenge *)
(* in services/identity/src/repository.ts).                                 *)
THEOREM CredentialsAreUsedOnce == AccountsSpec => []CredentialsUsedOnce
  <1>1. AccountsIInv => CredentialsUsedOnce
    BY DEF AccountsIInv, Unmingled, OneAnswer, CredentialsUsedOnce, ChallengeAnsweredOnce
  <1> QED
    BY <1>1, AccountsInductive, PTL

(* No step takes up what was ended, and deleting the account takes its      *)
(* sessions, its passkey and Apple's grant along (deleteCustomerAccount).   *)
THEOREM AccountEndingsAreFinal == AccountsSpec => EndingsAreFinal
  <1>1. ASSUME AccountsIInv, AccountsIInv', [AccountsNext]_accountVars
        PROVE  [EndedStaysEnded /\ NothingOutlivesAccount' /\ GrantEndsWithAccount]_accountVars
    <2>1. NothingOutlivesAccount'
      BY <1>1 DEF AccountsIInv, Unmingled, NothingOrphaned, NothingOutlivesAccount
    <2> QED
      BY <1>1, <2>1, EndedStays, GrantEnds
  <1> QED
    BY <1>1, AccountsInductive, PTL DEF AccountsSpec, EndingsAreFinal

-----------------------------------------------------------------------------
(***************************************************************************)
(* Operators: OperatorTeam.                                                  *)
(***************************************************************************)

(* Whatever refers to an operator or an invite refers to one that was made, *)
(* and a request that writes has what it writes.                            *)
Creating == {"insert", "grant", "find", "adopt", "regrant"}

RequestRefers(s) ==
    /\ Request(s).operator \in {0} \cup DOMAIN operators
    /\ Request(s).row \in {0} \cup DOMAIN operators
    /\ Request(s).step \notin {"idle"} \cup Creating => Request(s).operator # 0
    /\ Request(s).step \in {"grant", "adopt", "regrant"} => Request(s).row # 0
    /\ Request(s).step \in Creating =>
          /\ Request(s).change.email # {} /\ Request(s).change.role # {}
          /\ Request(s).for # "accept"
    /\ Handling(s, "write") =>
          /\ Request(s).change.email # {} /\ Request(s).change.role # {}
          /\ Request(s).change.active # {}
    /\ Request(s).step \in {"revoke", "send"} => Request(s).change.email # {}
    /\ Handling(s, "consume") => Request(s).for = "accept"
    /\ Request(s).for = "accept" => Request(s).invite \in DOMAIN invites
    /\ Request(s).for = "provision" => Request(s).change.role # {}
    /\ Request(s).for = "invite" => Request(s).change.email # {}

TeamReferences ==
    /\ \A i \in DOMAIN invites : invites[i].operator \in {0} \cup DOMAIN operators
    /\ \A s \in TeamSlots : RequestRefers(s)

ListedOwners == Owners \cap Listed
ListedStores == StoreAccounts \cap Listed

(* Whom a request that creates an operator may find with the email.         *)
Mine(s) == WithEmail(The(Request(s).change.email))

(* While requests do not overlap, what a request has read still holds.      *)
TeamReady(s) ==
    /\ Request(s).step \in Creating =>
          /\ "owner" \in Request(s).change.role => ListedOwners \subseteq Mine(s)
          /\ "store" \in Request(s).change.role => ListedStores \subseteq Mine(s)
          /\ Request(s).operator \in {0} \cup Mine(s)
    /\ Request(s).step \in {"grant", "adopt", "regrant"} => Request(s).row \in Mine(s)
    /\ Granting(s) => operators[Request(s).row].role \in Request(s).change.role
    /\ Request(s).step \in {"read", "write"} /\ "owner" \in Request(s).change.role
       /\ Request(s).operator \in Listed => ListedOwners \subseteq {Request(s).operator}
    /\ Handling(s, "read") /\ Request(s).for = "provision" => Request(s).operator \in Team
    /\ Handling(s, "write") /\ "store" \in Request(s).change.role =>
          ListedStores \subseteq {Request(s).operator}
    /\ Request(s).step \in {"detach", "remove"} => Request(s).operator \notin signedIn
    /\ Handling(s, "send") => \A i \in DOMAIN invites :
          invites[i].status = "pending" => invites[i].email \notin Request(s).change.email
    /\ Request(s).step \in {"read", "write", "consume"} /\ Request(s).for = "accept" =>
          invites[Request(s).invite].accepted = 0

TeamAlone == \A s, t \in TeamSlots : s # t => Handling(s, "idle") \/ Handling(t, "idle")

OneListed ==
    /\ \A o, p \in ListedOwners : o = p
    /\ \A o, p \in ListedStores : o = p

InvitesOnce ==
    /\ \A i \in DOMAIN invites :
          invites[i].accepted <= 1 /\ (invites[i].status = "pending" => invites[i].accepted = 0)
    /\ \A i, j \in DOMAIN invites :
          invites[i].status = "pending" /\ invites[j].status = "pending"
          /\ invites[i].email = invites[j].email => i = j

Untangled ==
    ~tangled =>
        /\ TeamAlone /\ OneListed /\ InvitesOnce /\ signedIn \subseteq Team
        /\ \A s \in TeamSlots : TeamReady(s)

TeamIInv == TeamTypeOK /\ TeamReferences /\ Untangled

-----------------------------------------------------------------------------
(* The values the actions build. *)
LEMMA TeamNames ==
    /\ {"idle", "insert", "grant", "find", "adopt", "regrant", "read", "write", "end",
        "detach", "remove", "revoke", "send", "consume"} \subseteq TeamSteps
    /\ {"owner", "manager", "store"} \subseteq Roles
  BY DEF TeamSteps, Roles

LEMMA ActiveSets ==
    /\ {TRUE} \in SUBSET BOOLEAN /\ {FALSE} \in SUBSET BOOLEAN
    /\ \A b \in BOOLEAN : {b} \in SUBSET BOOLEAN
  OBVIOUS

LEMMA TheMember == \A S : S # {} => The(S) \in S
  BY DEF The

LEMMA TheOnly == \A x : The({x}) = x
  BY DEF The

LEMMA ChangeShapes ==
    /\ NoChange \in TeamChanges
    /\ \A email \in Emails, role \in Roles, active \in SUBSET BOOLEAN :
          /\ [NoChange EXCEPT !.email = {email}, !.role = {role}] \in TeamChanges
          /\ [email |-> {email}, role |-> {role}, active |-> active] \in TeamChanges
    /\ \A change \in TeamChanges : [change EXCEPT !.email = {}] \in TeamChanges
  <1>1. NoChange \in TeamChanges
    BY DEF NoChange, TeamChanges
  <1>2. ASSUME NEW email \in Emails, NEW role \in Roles, NEW active \in SUBSET BOOLEAN
        PROVE  /\ [NoChange EXCEPT !.email = {email}, !.role = {role}] \in TeamChanges
               /\ [email |-> {email}, role |-> {role}, active |-> active] \in TeamChanges
    BY <1>1 DEF TeamChanges
  <1>3. ASSUME NEW change \in TeamChanges
        PROVE  [change EXCEPT !.email = {}] \in TeamChanges
    BY DEF TeamChanges
  <1> QED
    BY <1>1, <1>2, <1>3

LEMMA ChangesTyped == Changes \subseteq TeamChanges
  <1>1. ASSUME NEW e \in Emails
        PROVE  [NoChange EXCEPT !.email = {e}] \in TeamChanges
    BY ChangeShapes DEF TeamChanges
  <1>2. ASSUME NEW r \in {"manager", "store"}
        PROVE  [NoChange EXCEPT !.role = {r}] \in TeamChanges
    <2>1. r \in Roles
      BY DEF Roles
    <2> QED
      BY <2>1, ChangeShapes DEF TeamChanges
  <1>3. ASSUME NEW b \in BOOLEAN
        PROVE  [NoChange EXCEPT !.active = {b}] \in TeamChanges
    BY ChangeShapes, ActiveSets DEF TeamChanges
  <1> QED
    BY <1>1, <1>2, <1>3 DEF Changes

LEMMA TeamRequestShapes ==
    /\ Unhandled \in TeamRequests
    /\ \A r \in TeamRequests, step \in TeamSteps : [r EXCEPT !.step = step] \in TeamRequests
    /\ \A r \in TeamRequests, step \in TeamSteps, change \in TeamChanges :
          [r EXCEPT !.step = step, !.change = change] \in TeamRequests
    /\ \A r \in TeamRequests, step \in TeamSteps, o \in 0..MaxTeamRows :
          /\ [r EXCEPT !.step = step, !.operator = o] \in TeamRequests
          /\ [r EXCEPT !.step = step, !.row = o] \in TeamRequests
    /\ \A r \in TeamRequests, step \in TeamSteps, change \in TeamChanges,
          o \in 0..MaxTeamRows :
          [r EXCEPT !.step = step, !.operator = o, !.change = change] \in TeamRequests
  <1>1. Unhandled \in TeamRequests
    <2>1. "idle" \in TeamSteps
      BY TeamNames
    <2>2. NoChange \in TeamChanges
      BY ChangeShapes
    <2>3. 0 \in 0..MaxTeamRows
      BY TeamOK
    <2> QED
      BY <2>1, <2>2, <2>3 DEF Unhandled, TeamRequests
  <1>2. ASSUME NEW r \in TeamRequests, NEW step \in TeamSteps
        PROVE  [r EXCEPT !.step = step] \in TeamRequests
    BY DEF TeamRequests
  <1>3. ASSUME NEW r \in TeamRequests, NEW step \in TeamSteps, NEW change \in TeamChanges
        PROVE  [r EXCEPT !.step = step, !.change = change] \in TeamRequests
    BY DEF TeamRequests
  <1>4. ASSUME NEW r \in TeamRequests, NEW step \in TeamSteps, NEW change \in TeamChanges,
               NEW o \in 0..MaxTeamRows
        PROVE  [r EXCEPT !.step = step, !.operator = o, !.change = change] \in TeamRequests
    BY DEF TeamRequests
  <1>5. ASSUME NEW r \in TeamRequests, NEW step \in TeamSteps, NEW o \in 0..MaxTeamRows
        PROVE  /\ [r EXCEPT !.step = step, !.operator = o] \in TeamRequests
               /\ [r EXCEPT !.step = step, !.row = o] \in TeamRequests
    BY DEF TeamRequests
  <1> QED
    BY <1>1, <1>2, <1>3, <1>4, <1>5

LEMMA TeamSlotsTyped ==
    ASSUME TeamTypeOK, NEW s \in TeamSlots
    PROVE  /\ Request(s) \in TeamRequests
           /\ \A r \in TeamRequests :
                 [handling EXCEPT ![s] = r] \in [TeamSlots -> TeamRequests]
           /\ \A step \in TeamSteps :
                 HandleNext(s, step) => handling' \in [TeamSlots -> TeamRequests]
           /\ Finished(s) => handling' \in [TeamSlots -> TeamRequests]
           /\ \A step \in TeamSteps, o \in 0..MaxTeamRows :
                 HandleRow(s, step, o) => handling' \in [TeamSlots -> TeamRequests]
           /\ \A o \in 0..MaxTeamRows :
                 Created(s, o) => handling' \in [TeamSlots -> TeamRequests]
           /\ NothingToUpdate(s) => handling' \in [TeamSlots -> TeamRequests]
  <1>1. /\ Request(s) \in TeamRequests
        /\ \A r \in TeamRequests :
              [handling EXCEPT ![s] = r] \in [TeamSlots -> TeamRequests]
    BY DEF TeamTypeOK, Request
  <1>2. ASSUME NEW step \in TeamSteps, HandleNext(s, step)
        PROVE  handling' \in [TeamSlots -> TeamRequests]
    <2>1. handling' = [handling EXCEPT ![s] = [Request(s) EXCEPT !.step = step]]
      BY <1>2 DEF HandleNext, Request
    <2> QED
      BY <1>1, <2>1, TeamRequestShapes
  <1>3. Finished(s) => handling' \in [TeamSlots -> TeamRequests]
    BY <1>1, TeamRequestShapes DEF Finished
  <1>4. ASSUME NEW step \in TeamSteps, NEW o \in 0..MaxTeamRows, HandleRow(s, step, o)
        PROVE  handling' \in [TeamSlots -> TeamRequests]
    <2>1. handling' = [handling EXCEPT ![s] = [Request(s) EXCEPT !.step = step, !.row = o]]
      BY <1>4 DEF Request, HandleRow
    <2>2. [Request(s) EXCEPT !.step = step, !.row = o] \in TeamRequests
      BY <1>1, TeamRequestShapes
    <2> QED
      BY <1>1, <2>1, <2>2
  <1>5. ASSUME NEW step \in TeamSteps, NEW o \in 0..MaxTeamRows,
               handling' = [handling EXCEPT ![s].step = step, ![s].operator = o]
        PROVE  handling' \in [TeamSlots -> TeamRequests]
    <2>1. handling' = [handling EXCEPT ![s] =
                          [Request(s) EXCEPT !.step = step, !.operator = o]]
      BY <1>5 DEF Request
    <2>2. [Request(s) EXCEPT !.step = step, !.operator = o] \in TeamRequests
      BY <1>1, TeamRequestShapes
    <2> QED
      BY <1>1, <2>1, <2>2
  <1>6. ASSUME handling' = [handling EXCEPT ![s].step = "read", ![s].change.email = {}]
        PROVE  handling' \in [TeamSlots -> TeamRequests]
    <2> DEFINE next == [Request(s).change EXCEPT !.email = {}]
    <2>1. handling' = [handling EXCEPT ![s] =
                          [Request(s) EXCEPT !.step = "read", !.change = next]]
      BY <1>6 DEF Request
    <2>2. next \in TeamChanges
      BY <1>1, ChangeShapes DEF TeamRequests
    <2> HIDE DEF next
    <2>3. [Request(s) EXCEPT !.step = "read", !.change = next] \in TeamRequests
      BY <1>1, <2>2, TeamNames, TeamRequestShapes
    <2> QED
      BY <1>1, <2>1, <2>3
  <1>7. \A o \in 0..MaxTeamRows :
              Created(s, o) => handling' \in [TeamSlots -> TeamRequests]
    BY <1>3, <1>5, <1>6, TeamNames DEF Created
  <1>8. NothingToUpdate(s) => handling' \in [TeamSlots -> TeamRequests]
    BY <1>2, <1>3, <1>5, TeamNames, TeamOK DEF NothingToUpdate
  <1> QED
    BY <1>1, <1>2, <1>3, <1>4, <1>7, <1>8

LEMMA TeamRows ==
    ASSUME TeamTypeOK
    PROVE  /\ Len(operators) \in Nat /\ DOMAIN operators = 1..Len(operators)
           /\ Len(invites) \in Nat /\ DOMAIN invites = 1..Len(invites)
           /\ DOMAIN operators \subseteq 1..MaxTeamRows /\ DOMAIN invites \subseteq 1..MaxTeamRows
           /\ \A o \in DOMAIN operators : operators[o] \in OperatorRows
           /\ \A i \in DOMAIN invites : invites[i] \in InviteRows
           /\ Team \subseteq DOMAIN operators
           /\ Owners \subseteq Team /\ StoreAccounts \subseteq Team /\ Listed \subseteq Team
  BY TeamOK, LenProperties, ElementOfSeq DEF TeamTypeOK, Team, Owners, StoreAccounts, Listed

(* The history only ever becomes true. *)
LEMMA TanglingIsNoted ==
    ASSUME TeamTypeOK, TeamNext
    PROVE  tangled' \in BOOLEAN /\ (~tangled' => ~tangled)
  <1>1. \/ UNCHANGED tangled
        \/ \E s \in TeamSlots : \E r : HandleFirst(s, r)
        \/ \E o : OperatorSignIn(o)
    BY DEF TeamNext, TeamStep, InsertOperator, GrantAccess, GrantFails, FindOperator,
           AdoptOperator, ReadOperator, WriteOperator, EndSessions, DetachInvites,
           RemoveOperator, RevokeInvites, SendInvite, ConsumeInvite,
           TeamRequestDies, ProvisionOwner, InviteOwner, AcceptInvite, CreateOperator,
           DeleteOperator, UpdateOperator, OperatorSignOut
  <1>2. ASSUME NEW s \in TeamSlots, NEW r, HandleFirst(s, r)
        PROVE  tangled' \in BOOLEAN /\ (~tangled' => ~tangled)
    BY <1>2 DEF HandleFirst, TeamTypeOK
  <1>3. ASSUME NEW o, OperatorSignIn(o)
        PROVE  tangled' \in BOOLEAN /\ (~tangled' => ~tangled)
    BY <1>3 DEF OperatorSignIn, TeamTypeOK
  <1> QED
    BY <1>1, <1>2, <1>3 DEF TeamTypeOK

(* A request that begins. *)
TeamBegin(s) ==
    \/ \E email \in Emails : ProvisionOwner(s, email) \/ InviteOwner(s, email)
    \/ \E i \in DOMAIN invites : AcceptInvite(s, i)
    \/ \E by \in signedIn :
          \/ \E email \in Emails, role \in {"manager", "store"} :
                CreateOperator(s, by, email, role)
          \/ \E o \in Team : DeleteOperator(s, by, o)
          \/ \E o \in Team, change \in Changes : UpdateOperator(s, by, o, change)

LEMMA TeamBegins ==
    ASSUME TeamTypeOK, TeamReferences, NEW s \in TeamSlots, TeamBegin(s)
    PROVE  /\ UNCHANGED <<operators, signedIn, invites>>
           /\ \E r \in TeamRequests : HandleFirst(s, r)
  <1> USE TeamRows, TeamNames DEF TeamTypeOK, ListedOwners
  <1>1. ASSUME NEW email \in Emails, ProvisionOwner(s, email)
        PROVE  \E r \in TeamRequests : HandleFirst(s, r)
    <2> DEFINE change == [email |-> {email}, role |-> {"owner"}, active |-> {TRUE}]
               known == WithEmail(email)
    <2>1. change \in TeamChanges
      BY ChangeShapes, ActiveSets
    <2>2. ASSUME NEW o \in 0..MaxTeamRows, NEW step \in TeamSteps
          PROVE  [Unhandled EXCEPT !.for = "provision", !.operator = o, !.step = step,
                                   !.change = change] \in TeamRequests
      BY <2>1, TeamRequestShapes DEF TeamRequests
    <2>3. ASSUME NEW o \in ListedOwners
          PROVE  o \in 0..MaxTeamRows
      OBVIOUS
    <2>4. (IF known = {} THEN 0 ELSE CHOOSE o \in known : TRUE) \in 0..MaxTeamRows
      BY TeamOK DEF WithEmail
    <2>5. CASE ListedOwners # {}
      <3>1. PICK o \in ListedOwners :
              HandleFirst(s, [Unhandled EXCEPT !.for = "provision", !.operator = o,
                 !.step = IF operators[o].email = email THEN "insert" ELSE "read",
                 !.change = change])
        BY <1>1, <2>5 DEF ProvisionOwner
      <3> QED
        BY <2>2, <2>3, <3>1
    <2>6. CASE ListedOwners = {}
      <3> DEFINE o == IF known = {} THEN 0 ELSE CHOOSE o \in known : TRUE
      <3>1. HandleFirst(s, [Unhandled EXCEPT !.step = "insert", !.for = "provision",
                                             !.operator = o, !.change = change])
        BY <1>1, <2>6 DEF ProvisionOwner
      <3>2. [Unhandled EXCEPT !.step = "insert", !.for = "provision",
                              !.operator = o, !.change = change] \in TeamRequests
        BY <2>1, <2>4, TeamRequestShapes DEF TeamRequests
      <3> QED
        BY <3>1, <3>2
    <2> QED
      BY <2>5, <2>6
  <1>2. ASSUME NEW email \in Emails, InviteOwner(s, email)
        PROVE  \E r \in TeamRequests : HandleFirst(s, r)
    <2> DEFINE change == [email |-> {email}, role |-> {"owner"}, active |-> {FALSE}]
               invite == [Unhandled EXCEPT !.for = "invite", !.change = change]
    <2>1. change \in TeamChanges
      BY ChangeShapes, ActiveSets
    <2>2. invite \in TeamRequests
      BY <2>1, TeamRequestShapes DEF TeamRequests
    <2>3. /\ [invite EXCEPT !.step = "insert"] \in TeamRequests
          /\ \A o \in ListedOwners :
                [invite EXCEPT !.step = "read", !.operator = o] \in TeamRequests
      <3> HIDE DEF invite
      <3>1. \A o \in ListedOwners : o \in 0..MaxTeamRows
        OBVIOUS
      <3>2. "read" \in TeamSteps /\ "insert" \in TeamSteps
        OBVIOUS
      <3>3. \A r \in TeamRequests :
                /\ [r EXCEPT !.step = "insert"] \in TeamRequests
                /\ \A o \in 0..MaxTeamRows :
                      [r EXCEPT !.step = "read", !.operator = o] \in TeamRequests
        BY <3>2, TeamRequestShapes
      <3> QED
        BY <2>2, <3>1, <3>3
    <2>4. \/ HandleFirst(s, [invite EXCEPT !.step = "insert"])
          \/ \E o \in ListedOwners : HandleFirst(s, [invite EXCEPT !.step = "read", !.operator = o])
      BY <1>2 DEF InviteOwner
    <2> QED
      BY <2>3, <2>4
  <1>3. ASSUME NEW i \in DOMAIN invites, AcceptInvite(s, i)
        PROVE  \E r \in TeamRequests : HandleFirst(s, r)
    <2> DEFINE change == [NoChange EXCEPT !.active = {TRUE}]
    <2>1. change \in TeamChanges
      BY ChangeShapes, ActiveSets DEF TeamChanges
    <2>2. i \in 0..MaxTeamRows /\ invites[i].operator \in 0..MaxTeamRows
      BY DEF InviteRows
    <2>3. [Unhandled EXCEPT !.step = "read", !.for = "accept", !.invite = i,
             !.operator = invites[i].operator, !.change = change] \in TeamRequests
      BY <2>1, <2>2, TeamRequestShapes DEF TeamRequests
    <2> QED
      BY <1>3, <2>3 DEF AcceptInvite
  <1>4. ASSUME NEW by \in signedIn, NEW email \in Emails, NEW role \in {"manager", "store"},
               CreateOperator(s, by, email, role)
        PROVE  \E r \in TeamRequests : HandleFirst(s, r)
    BY <1>4, ChangeShapes, TeamRequestShapes DEF CreateOperator
  <1>5. ASSUME NEW by \in signedIn, NEW o \in Team, DeleteOperator(s, by, o)
        PROVE  \E r \in TeamRequests : HandleFirst(s, r)
    <2>1. o \in 0..MaxTeamRows
      OBVIOUS
    <2>2. [Unhandled EXCEPT !.step = "end", !.operator = o] \in TeamRequests
      BY <2>1, TeamRequestShapes
    <2> QED
      BY <1>5, <2>2 DEF DeleteOperator
  <1>6. ASSUME NEW by \in signedIn, NEW o \in Team, NEW change \in Changes,
               UpdateOperator(s, by, o, change)
        PROVE  \E r \in TeamRequests : HandleFirst(s, r)
    <2>1. change \in TeamChanges /\ o \in 0..MaxTeamRows
      BY ChangesTyped
    <2> QED
      BY <1>6, <2>1, TeamRequestShapes DEF UpdateOperator
  <1> QED
    BY <1>1, <1>2, <1>3, <1>4, <1>5, <1>6
       DEF TeamBegin, ProvisionOwner, InviteOwner, AcceptInvite, CreateOperator,
           DeleteOperator, UpdateOperator

(* What a request that creates an operator asks for. *)
LEMMA Asked ==
    ASSUME TeamTypeOK, TeamReferences, NEW s \in TeamSlots, Request(s).step \in Creating
    PROVE  /\ The(Request(s).change.email) \in Emails
           /\ The(Request(s).change.role) \in Request(s).change.role
           /\ The(Request(s).change.role) \in Roles
           /\ Mine(s) \subseteq Team
           /\ \A o, p \in Mine(s) : o = p
  <1>1. Request(s).change.email # {} /\ Request(s).change.role # {}
    BY DEF TeamReferences, RequestRefers
  <1>2. Request(s).change \in TeamChanges
    BY TeamSlotsTyped DEF TeamRequests
  <1>3. Mine(s) \subseteq Team /\ \A o, p \in Mine(s) : o = p
    BY DEF Mine, WithEmail, TeamTypeOK
  <1> QED
    BY <1>1, <1>2, <1>3, TheMember DEF TeamChanges

(* A table in which one row is another. *)
LEMMA RowReplaced ==
    ASSUME TeamTypeOK, NEW o \in DOMAIN operators, NEW row \in OperatorRows,
           operators' = [operators EXCEPT ![o] = row]
    PROVE  /\ operators' \in Seq(OperatorRows) /\ Len(operators') = Len(operators)
           /\ DOMAIN operators' = DOMAIN operators
           /\ operators'[o] = row
           /\ \A p \in DOMAIN operators : p # o => operators'[p] = operators[p]
  <1>1. operators' \in Seq(OperatorRows) /\ Len(operators') = Len(operators)
    BY ExceptSeq DEF TeamTypeOK
  <1>2. /\ DOMAIN operators' = DOMAIN operators
        /\ operators'[o] = row
        /\ \A p \in DOMAIN operators : p # o => operators'[p] = operators[p]
    OBVIOUS
  <1> QED
    BY <1>1, <1>2

(* What the insert of an operator does to the table and to the request. *)
LEMMA Inserts ==
    ASSUME TeamTypeOK, TeamReferences, NEW s \in TeamSlots, InsertOperator(s), Mine(s) = {}
    PROVE  LET t == Len(operators) + 1
               email == The(Request(s).change.email)
               role == The(Request(s).change.role)
           IN  /\ operators' \in Seq(OperatorRows)
               /\ Len(operators') + Len(invites) <= MaxTeamRows
               /\ DOMAIN operators' = DOMAIN operators \cup {t}
               /\ \A o \in DOMAIN operators : operators'[o] = operators[o]
               /\ operators'[t] = [exists |-> TRUE, email |-> email, role |-> role,
                                   active |-> TRUE, access |-> FALSE]
               /\ t \in 1..MaxTeamRows /\ t \notin DOMAIN operators
               /\ HandleRow(s, "grant", t)
  <1> USE TeamRows, TeamOK
  <1> DEFINE email == The(Request(s).change.email)
             role == The(Request(s).change.role)
             t == Len(operators) + 1
             new == [exists |-> TRUE, email |-> email, role |-> role, active |-> TRUE,
                     access |-> FALSE]
  <1>1. new \in OperatorRows
    BY Asked DEF OperatorRows, InsertOperator, Handling, Request, Creating
  <1>2. /\ RoomForRow /\ operators' = Append(operators, new)
        /\ HandleRow(s, "grant", t)
    BY DEF InsertOperator, Mine
  <1> HIDE DEF new
  <1>3. /\ operators' \in Seq(OperatorRows) /\ Len(operators') = Len(operators) + 1
        /\ \A o \in DOMAIN operators : operators'[o] = operators[o]
        /\ operators'[t] = new
        /\ DOMAIN operators' = 1..(Len(operators) + 1)
    BY <1>1, <1>2, AppendProperties DEF TeamTypeOK
  <1>4. /\ Len(operators') + Len(invites) <= MaxTeamRows
        /\ DOMAIN operators' = DOMAIN operators \cup {t}
        /\ t \in 1..MaxTeamRows /\ t \notin DOMAIN operators
    BY <1>2, <1>3 DEF RoomForRow, TeamTypeOK
  <1> QED
    BY <1>2, <1>3, <1>4 DEF new

(* What adopting and granting do to the table. *)
LEMMA Adopts ==
    ASSUME TeamTypeOK, TeamReferences, NEW s \in TeamSlots, AdoptOperator(s),
           Request(s).row \in Team
    PROVE  LET o == Request(s).row
           IN  /\ operators' \in Seq(OperatorRows) /\ Len(operators') = Len(operators)
               /\ DOMAIN operators' = DOMAIN operators
               /\ operators'[o].exists /\ operators'[o].email = operators[o].email
               /\ operators'[o].role = The(Request(s).change.role)
               /\ \A p \in DOMAIN operators : p # o => operators'[p] = operators[p]
  <1> DEFINE o == Request(s).row
             row == [operators[o] EXCEPT !.role = The(Request(s).change.role),
                                         !.active = TRUE]
  <1>1. operators[o] \in OperatorRows /\ o \in DOMAIN operators /\ operators[o].exists
    BY TeamRows DEF Team
  <1>2. operators' = [operators EXCEPT ![o] = row]
    BY <1>1 DEF AdoptOperator
  <1>3. The(Request(s).change.role) \in Roles
    BY Asked DEF AdoptOperator, Handling, Request, Creating
  <1>4. /\ row \in OperatorRows /\ row.exists /\ row.email = operators[o].email
        /\ row.role = The(Request(s).change.role)
    BY <1>1, <1>3 DEF OperatorRows
  <1> HIDE DEF row
  <1> QED
    BY <1>1, <1>2, <1>4, RowReplaced

LEMMA Grants ==
    ASSUME TeamTypeOK, TeamReferences, NEW s \in TeamSlots, GrantAccess(s)
    PROVE  LET o == Request(s).row
           IN  /\ o \in Team /\ o \in 0..MaxTeamRows /\ o # 0
               /\ operators' \in Seq(OperatorRows) /\ Len(operators') = Len(operators)
               /\ DOMAIN operators' = DOMAIN operators
               /\ operators'[o].exists /\ operators'[o].email = operators[o].email
               /\ operators'[o].role = operators[o].role
               /\ \A p \in DOMAIN operators : p # o => operators'[p] = operators[p]
  <1> DEFINE o == Request(s).row
             row == [operators[o] EXCEPT !.access = TRUE]
  <1>1. /\ operators[o] \in OperatorRows /\ o \in DOMAIN operators /\ operators[o].exists
        /\ o \in Team /\ o \in 0..MaxTeamRows /\ o # 0
    BY TeamRows, TeamOK DEF Team, GrantAccess
  <1>2. operators' = [operators EXCEPT ![o] = row]
    BY <1>1 DEF GrantAccess
  <1>3. /\ row \in OperatorRows /\ row.exists /\ row.email = operators[o].email
        /\ row.role = operators[o].role
    BY <1>1 DEF OperatorRows
  <1> HIDE DEF row
  <1> QED
    BY <1>1, <1>2, <1>3, RowReplaced

(* What the request is after a step that says so. *)
LEMMA NextRequest ==
    ASSUME TeamTypeOK, NEW s \in TeamSlots
    PROVE  /\ Finished(s) => handling'[s] = Unhandled
           /\ \A step : HandleNext(s, step) =>
                 /\ handling'[s].step = step /\ handling'[s].for = Request(s).for
                 /\ handling'[s].change = Request(s).change
                 /\ handling'[s].operator = Request(s).operator
                 /\ handling'[s].row = Request(s).row
                 /\ handling'[s].invite = Request(s).invite
           /\ \A step, o : HandleRow(s, step, o) =>
                 /\ handling'[s].step = step /\ handling'[s].for = Request(s).for
                 /\ handling'[s].change = Request(s).change
                 /\ handling'[s].operator = Request(s).operator
                 /\ handling'[s].row = o
                 /\ handling'[s].invite = Request(s).invite
           /\ \A step, o : handling' = [handling EXCEPT ![s].step = step, ![s].operator = o] =>
                 /\ handling'[s].step = step /\ handling'[s].for = Request(s).for
                 /\ handling'[s].change = Request(s).change
                 /\ handling'[s].operator = o
                 /\ handling'[s].row = Request(s).row
                 /\ handling'[s].invite = Request(s).invite
  <1> /\ handling \in [TeamSlots -> TeamRequests] /\ Request(s) = handling[s]
      /\ handling[s] \in TeamRequests
    BY DEF TeamTypeOK, Request
  <1>1. Finished(s) => handling'[s] = Unhandled
    BY DEF Finished
  <1>2. ASSUME NEW step, HandleNext(s, step)
        PROVE  /\ handling'[s].step = step /\ handling'[s].for = Request(s).for
               /\ handling'[s].change = Request(s).change
               /\ handling'[s].operator = Request(s).operator
               /\ handling'[s].row = Request(s).row
               /\ handling'[s].invite = Request(s).invite
    BY <1>2 DEF HandleNext, TeamRequests
  <1>3. ASSUME NEW step, NEW o, HandleRow(s, step, o)
        PROVE  /\ handling'[s].step = step /\ handling'[s].for = Request(s).for
               /\ handling'[s].change = Request(s).change
               /\ handling'[s].operator = Request(s).operator
               /\ handling'[s].row = o
               /\ handling'[s].invite = Request(s).invite
    BY <1>3 DEF TeamRequests, HandleRow
  <1>4. ASSUME NEW step, NEW o,
               handling' = [handling EXCEPT ![s].step = step, ![s].operator = o]
        PROVE  /\ handling'[s].step = step /\ handling'[s].for = Request(s).for
               /\ handling'[s].change = Request(s).change
               /\ handling'[s].operator = o
               /\ handling'[s].row = Request(s).row
               /\ handling'[s].invite = Request(s).invite
    BY <1>4 DEF TeamRequests
  <1> QED
    BY <1>1, <1>2, <1>3, <1>4

LEMMA CreatedRequest ==
    ASSUME TeamTypeOK, NEW s \in TeamSlots, NEW o, Created(s, o)
    PROVE  \/ Finished(s)
           \/ /\ handling'[s].step = "read" /\ handling'[s].for = Request(s).for
              /\ handling'[s].change.role = Request(s).change.role
              /\ handling'[s].row = Request(s).row
              /\ \/ /\ handling'[s].for = "invite" /\ handling'[s].operator = o
                    /\ handling'[s].change = Request(s).change
                 \/ /\ handling'[s].for = "provision" /\ handling'[s].operator # 0
                    /\ handling'[s].operator = Request(s).operator
  <1> /\ handling \in [TeamSlots -> TeamRequests] /\ Request(s) = handling[s]
      /\ handling[s] \in TeamRequests
    BY DEF TeamTypeOK, Request
  <1>1. CASE Request(s).for = "invite"
    BY <1>1, NextRequest DEF Created
  <1>2. CASE Request(s).for = "provision" /\ Request(s).operator # 0
    <2>1. handling' = [handling EXCEPT ![s].step = "read", ![s].change.email = {}]
      BY <1>2 DEF Created
    <2>2. /\ handling'[s].step = "read" /\ handling'[s].for = Request(s).for
          /\ handling'[s].change.role = Request(s).change.role
          /\ handling'[s].row = Request(s).row
          /\ handling'[s].operator = Request(s).operator
      BY <2>1 DEF TeamRequests, TeamChanges
    <2> QED
      BY <1>2, <2>2
  <1>3. CASE ~(Request(s).for = "invite") /\ ~(Request(s).for = "provision"
                                               /\ Request(s).operator # 0)
    BY <1>3 DEF Created
  <1> QED
    BY <1>1, <1>2, <1>3

LEMMA NothingRequest ==
    ASSUME TeamTypeOK, NEW s \in TeamSlots, NothingToUpdate(s)
    PROVE  \/ Finished(s)
           \/ HandleNext(s, "revoke") /\ Request(s).for = "invite"
           \/ /\ Request(s).for = "provision" /\ Request(s).change.email # {}
              /\ handling'[s].step = "insert" /\ handling'[s].for = Request(s).for
              /\ handling'[s].change = Request(s).change
              /\ handling'[s].operator = 0 /\ handling'[s].row = Request(s).row
  <1>1. CASE Request(s).for = "provision" /\ Request(s).change.email # {}
    BY <1>1, NextRequest DEF NothingToUpdate
  <1>2. CASE ~(Request(s).for = "provision" /\ Request(s).change.email # {})
    BY <1>2 DEF NothingToUpdate
  <1> QED
    BY <1>1, <1>2

(* What reading an operator hands on to the write. *)
LEMMA Reads ==
    ASSUME TeamTypeOK, TeamReferences, NEW s \in TeamSlots, ReadOperator(s),
           Request(s).operator \in Team, ~Finished(s)
    PROVE  LET o == Request(s).operator
               change == Request(s).change
               email == Changed(operators[o].email, change.email)
               role == Changed(operators[o].role, change.role)
               next == [email |-> {email}, role |-> {role},
                        active |-> {Changed(operators[o].active, change.active)}]
           IN  /\ WithEmail(email) \subseteq {o}
               /\ role = "store" => ListedStores \subseteq {o}
               /\ role \in {operators[o].role} \cup change.role
               /\ next \in TeamChanges
               /\ handling' = [handling EXCEPT ![s] =
                                  [Request(s) EXCEPT !.step = "write", !.change = next]]
  <1> USE TeamRows, TeamOK
  <1> DEFINE o == Request(s).operator
             change == Request(s).change
             email == Changed(operators[o].email, change.email)
             role == Changed(operators[o].role, change.role)
             active == Changed(operators[o].active, change.active)
             next == [email |-> {email}, role |-> {role}, active |-> {active}]
  <1>1. /\ o \in Team /\ WithEmail(email) \subseteq {o}
        /\ role = "store" => ListedStores \subseteq {o}
        /\ handling' = [handling EXCEPT ![s].step = "write", ![s].change = next]
    BY DEF ReadOperator, ListedStores
  <1>2. change \in TeamChanges /\ operators[o] \in OperatorRows
    BY <1>1, TeamSlotsTyped DEF TeamRequests
  <1>3. email \in Emails /\ role \in Roles /\ role \in {operators[o].role} \cup change.role
    BY <1>2, TheMember DEF Changed, TeamChanges, OperatorRows
  <1>4. active \in BOOLEAN
    BY <1>2, TheMember DEF Changed, TeamChanges, OperatorRows
  <1>5. next \in TeamChanges
    BY <1>3, <1>4, ChangeShapes, ActiveSets
  <1>6. handling' = [handling EXCEPT ![s] =
                        [Request(s) EXCEPT !.step = "write", !.change = next]]
    <2> HIDE DEF next
    <2> QED
      BY <1>1 DEF Request, TeamTypeOK
  <1> QED
    BY <1>1, <1>3, <1>5, <1>6

(* What the write does to the table. *)
LEMMA Writes ==
    ASSUME TeamTypeOK, TeamReferences, NEW s \in TeamSlots, WriteOperator(s),
           operators' # operators
    PROVE  LET o == Request(s).operator
               change == Request(s).change
           IN  /\ o \in Team /\ WithEmail(The(change.email)) \subseteq {o}
               /\ operators' \in Seq(OperatorRows) /\ Len(operators') = Len(operators)
               /\ DOMAIN operators' = DOMAIN operators
               /\ \A p \in DOMAIN operators : p # o => operators'[p] = operators[p]
               /\ operators'[o].exists /\ operators'[o].email = The(change.email)
               /\ operators'[o].role = The(change.role)
               /\ operators'[o].access = operators[o].access
               /\ The(change.role) \in change.role
  <1> USE TeamRows, TeamOK
  <1> DEFINE o == Request(s).operator
             change == Request(s).change
             new == [operators[o] EXCEPT !.email = The(change.email), !.role = The(change.role),
                                         !.active = The(change.active)]
  <1>1. /\ o \in Team /\ WithEmail(The(change.email)) \subseteq {o}
        /\ operators' = [operators EXCEPT ![o].email = The(change.email),
                             ![o].role = The(change.role), ![o].active = The(change.active)]
    BY DEF WriteOperator
  <1>2. change.email # {} /\ change.role # {} /\ change.active # {}
    BY DEF WriteOperator, TeamReferences, RequestRefers, Handling, Request
  <1>3. /\ The(change.email) \in change.email /\ The(change.role) \in change.role
        /\ The(change.active) \in change.active
    BY <1>2, TheMember
  <1>4. change \in TeamChanges /\ operators[o] \in OperatorRows /\ operators[o].exists
    BY <1>1, TeamSlotsTyped DEF TeamRequests, Team
  <1>5. /\ new \in OperatorRows /\ new.exists
        /\ new.email = The(change.email) /\ new.role = The(change.role)
        /\ new.access = operators[o].access
    BY <1>3, <1>4 DEF OperatorRows, TeamChanges
  <1>6. operators' = [operators EXCEPT ![o] = new] /\ o \in DOMAIN operators
    BY <1>1
  <1> HIDE DEF new
  <1>7. /\ operators' \in Seq(OperatorRows) /\ Len(operators') = Len(operators)
        /\ DOMAIN operators' = DOMAIN operators
        /\ operators'[o] = new
        /\ \A p \in DOMAIN operators : p # o => operators'[p] = operators[p]
    BY <1>5, <1>6, RowReplaced
  <1> QED
    BY <1>1, <1>3, <1>5, <1>7

(* Emails stay unique when one row gets an email no other row has. *)
LEMMA EmailsStayUnique ==
    ASSUME TeamTypeOK, NEW t, NEW email,
           \A o \in WithEmail(email) : o = t,
           Team' \subseteq Team \cup {t},
           \A o \in Team \ {t} : operators'[o] = operators[o],
           operators'[t].email = email
    PROVE  \A o, p \in Team' : operators'[o].email = operators'[p].email => o = p
  BY DEF TeamTypeOK, WithEmail

(* A step of the requests keeps the variables in their domains. *)
LEMMA TeamTypeRows ==
    ASSUME TeamTypeOK, TeamReferences, TeamNext, NEW s \in TeamSlots,
           \/ InsertOperator(s) \/ GrantAccess(s) \/ GrantFails(s) \/ FindOperator(s)
           \/ AdoptOperator(s) \/ ReadOperator(s) \/ WriteOperator(s) \/ RemoveOperator(s)
    PROVE  TeamTypeOK'
  <1> USE TeamRows, TeamOK
  <1>0. ASSUME handling' \in [TeamSlots -> TeamRequests],
               UNCHANGED <<operators, signedIn, invites, tangled>>
        PROVE  TeamTypeOK'
    BY <1>0 DEF TeamTypeOK, Team
  (* A table in which one row changed, to an email no other row has. *)
  <1>5. ASSUME handling' \in [TeamSlots -> TeamRequests],
               UNCHANGED <<signedIn, invites, tangled>>,
               operators' \in Seq(OperatorRows),
               Len(operators') + Len(invites) <= MaxTeamRows,
               NEW t, NEW email,
               DOMAIN operators' = DOMAIN operators \cup {t},
               \A o \in DOMAIN operators : o # t => operators'[o] = operators[o],
               operators'[t].email = email, \A o \in WithEmail(email) : o = t
        PROVE  TeamTypeOK'
    <2>1. Team' \subseteq Team \cup {t} /\ \A o \in Team \ {t} : operators'[o] = operators[o]
      BY <1>5 DEF Team
    <2>2. \A o, p \in Team' : operators'[o].email = operators'[p].email => o = p
      BY <1>5, <2>1, EmailsStayUnique
    <2> QED
      BY <1>5, <2>2 DEF TeamTypeOK
  <1>1. CASE InsertOperator(s)
    <2>1. CASE Mine(s) # {}
      <3>1. handling' \in [TeamSlots -> TeamRequests]
        BY <1>1, <2>1, TeamSlotsTyped, TeamNames DEF InsertOperator, Mine
      <3> QED
        BY <1>0, <1>1, <2>1, <3>1 DEF InsertOperator, Mine
    <2>2. CASE Mine(s) = {}
      <3> DEFINE t == Len(operators) + 1
                 email == The(Request(s).change.email)
      <3>1. /\ operators' \in Seq(OperatorRows)
            /\ Len(operators') + Len(invites) <= MaxTeamRows
            /\ DOMAIN operators' = DOMAIN operators \cup {t}
            /\ \A o \in DOMAIN operators : o # t => operators'[o] = operators[o]
            /\ operators'[t] = [exists |-> TRUE, email |-> email,
                                role |-> The(Request(s).change.role),
                                active |-> TRUE, access |-> FALSE]
            /\ HandleRow(s, "grant", t)
            /\ t \in 1..MaxTeamRows
        BY <1>1, <2>2, Inserts
      <3>5. operators'[t].email = email /\ t \in 0..MaxTeamRows
        BY <3>1
      <3>2. \A o \in WithEmail(email) : o = t
        BY <2>2 DEF Mine
      <3>3. handling' \in [TeamSlots -> TeamRequests]
        BY <3>1, <3>5, TeamSlotsTyped, TeamNames
      <3>4. UNCHANGED <<signedIn, invites, tangled>>
        BY <1>1 DEF InsertOperator
      <3> HIDE DEF t, email
      <3> QED
        BY <1>5, <3>1, <3>2, <3>3, <3>4, <3>5
    <2> QED
      BY <2>1, <2>2
  <1>6. CASE GrantAccess(s)
    <2> DEFINE o == Request(s).row
               email == operators[o].email
    <2>1. /\ o \in Team /\ o \in 0..MaxTeamRows
          /\ operators' \in Seq(OperatorRows) /\ Len(operators') = Len(operators)
          /\ DOMAIN operators' = DOMAIN operators \cup {o}
          /\ operators'[o].email = email
          /\ \A p \in DOMAIN operators : p # o => operators'[p] = operators[p]
      BY <1>6, Grants
    <2>2. \A p \in WithEmail(email) : p = o
      BY <2>1 DEF WithEmail, TeamTypeOK
    <2>3. handling' \in [TeamSlots -> TeamRequests] /\ UNCHANGED <<signedIn, invites, tangled>>
      BY <1>6, <2>1, TeamSlotsTyped DEF GrantAccess
    <2>4. Len(operators') + Len(invites) <= MaxTeamRows
      BY <2>1 DEF TeamTypeOK
    <2> HIDE DEF o, email
    <2> QED
      BY <1>5, <2>1, <2>2, <2>3, <2>4
  <1>7. CASE GrantFails(s)
    BY <1>0, <1>7, TeamSlotsTyped, TeamNames DEF GrantFails
  <1>8. CASE FindOperator(s)
    <2>1. handling' \in [TeamSlots -> TeamRequests]
      <3>1. ASSUME NEW o \in Mine(s),
                   HandleRow(s, "adopt", o)
            PROVE  handling' \in [TeamSlots -> TeamRequests]
        <4>1. o \in 0..MaxTeamRows
          BY DEF Mine, WithEmail
        <4> QED
          BY <3>1, <4>1, TeamSlotsTyped, TeamNames
      <3> QED
        BY <1>8, <3>1, TeamSlotsTyped DEF FindOperator, Mine
    <2> QED
      BY <1>0, <1>8, <2>1 DEF FindOperator
  <1>9. CASE AdoptOperator(s)
    <2> DEFINE o == Request(s).row
               email == operators[o].email
    <2>1. handling' \in [TeamSlots -> TeamRequests] /\ UNCHANGED <<signedIn, invites, tangled>>
      BY <1>9, TeamSlotsTyped, TeamNames DEF AdoptOperator
    <2>2. CASE o \notin Team
      BY <1>0, <1>9, <2>1, <2>2 DEF AdoptOperator
    <2>3. CASE o \in Team
      <3>1. /\ operators' \in Seq(OperatorRows) /\ Len(operators') = Len(operators)
            /\ DOMAIN operators' = DOMAIN operators \cup {o}
            /\ operators'[o].email = email
            /\ \A p \in DOMAIN operators : p # o => operators'[p] = operators[p]
        BY <1>9, <2>3, Adopts
      <3>2. \A p \in WithEmail(email) : p = o
        BY <2>3 DEF WithEmail, TeamTypeOK
      <3>3. Len(operators') + Len(invites) <= MaxTeamRows
        BY <3>1 DEF TeamTypeOK
      <3> HIDE DEF o, email
      <3> QED
        BY <1>5, <2>1, <3>1, <3>2, <3>3
    <2> QED
      BY <2>2, <2>3
  <1>2. CASE ReadOperator(s)
    <2>1. handling' \in [TeamSlots -> TeamRequests]
      <3>1. CASE Finished(s) \/ Request(s).operator \notin Team
        BY <1>2, <3>1, TeamSlotsTyped DEF ReadOperator
      <3>2. CASE ~Finished(s) /\ Request(s).operator \in Team
        <4>1. PICK next \in TeamChanges :
                 handling' = [handling EXCEPT ![s] =
                                 [Request(s) EXCEPT !.step = "write", !.change = next]]
          BY <1>2, <3>2, Reads
        <4>2. "write" \in TeamSteps /\ Request(s) \in TeamRequests
          BY TeamNames, TeamSlotsTyped
        <4>3. [Request(s) EXCEPT !.step = "write", !.change = next] \in TeamRequests
          BY <4>2, TeamRequestShapes
        <4> QED
          BY <4>1, <4>3, TeamSlotsTyped
      <3> QED
        BY <3>1, <3>2
    <2> QED
      BY <1>0, <1>2, <2>1 DEF ReadOperator
  <1>3. CASE WriteOperator(s)
    <2>1. handling' \in [TeamSlots -> TeamRequests]
      BY <1>3, TeamSlotsTyped, TeamNames DEF WriteOperator
    <2>2. UNCHANGED <<signedIn, invites, tangled>>
      BY <1>3 DEF WriteOperator
    <2>3. CASE UNCHANGED operators
      BY <2>1, <2>2, <2>3 DEF TeamTypeOK, Team
    <2>4. CASE operators' # operators
      <3> DEFINE o == Request(s).operator
                 email == The(Request(s).change.email)
      <3>1. /\ o \in Team /\ WithEmail(email) \subseteq {o}
            /\ operators' \in Seq(OperatorRows) /\ Len(operators') = Len(operators)
            /\ DOMAIN operators' = DOMAIN operators \cup {o}
            /\ \A p \in DOMAIN operators : p # o => operators'[p] = operators[p]
            /\ operators'[o].email = email
        BY <1>3, <2>4, Writes
      <3>2. Len(operators') + Len(invites) <= MaxTeamRows
        BY <3>1 DEF TeamTypeOK
      <3> HIDE DEF o, email
      <3> QED
        BY <1>5, <2>1, <2>2, <3>1, <3>2
    <2> QED
      BY <2>3, <2>4
  <1>4. CASE RemoveOperator(s)
    <2> DEFINE o == Request(s).operator
    <2>1. o \in DOMAIN operators
      BY <1>4 DEF RemoveOperator, TeamReferences, RequestRefers, Handling, Request, Creating
    <2>2. Removed \in OperatorRows
      BY TheMember, TeamNames DEF Removed, OperatorRows
    <2>3. operators' = [operators EXCEPT ![o] = Removed]
      BY <1>4 DEF RemoveOperator
    <2>4. operators' \in Seq(OperatorRows) /\ Len(operators') = Len(operators)
      BY <2>1, <2>2, <2>3, ExceptSeq DEF TeamTypeOK
    <2>5. \A p, q \in Team' : operators'[p].email = operators'[q].email => p = q
      <3>1. Team' \subseteq Team /\ \A p \in Team' : operators'[p] = operators[p]
        BY <2>1, <2>3 DEF Team, Removed
      <3> QED
        BY <3>1 DEF TeamTypeOK
    <2>6. handling' \in [TeamSlots -> TeamRequests]
      BY <1>4, TeamSlotsTyped DEF RemoveOperator
    <2>7. DOMAIN operators' = DOMAIN operators
      BY <2>3
    <2> QED
      BY <1>4, <2>4, <2>5, <2>6, <2>7 DEF TeamTypeOK, RemoveOperator
  <1> QED
    BY <1>1, <1>2, <1>3, <1>4, <1>6, <1>7, <1>8, <1>9

LEMMA TeamTypeInvites ==
    ASSUME TeamTypeOK, TeamReferences, TeamNext, NEW s \in TeamSlots,
           \/ EndSessions(s) \/ DetachInvites(s) \/ RevokeInvites(s) \/ SendInvite(s)
           \/ ConsumeInvite(s) \/ TeamRequestDies(s)
    PROVE  TeamTypeOK'
  <1> USE TeamRows, TeamOK DEF Team
  <1>0. handling' \in [TeamSlots -> TeamRequests]
    BY TeamSlotsTyped, TeamNames
       DEF EndSessions, DetachInvites, RevokeInvites, SendInvite, ConsumeInvite, TeamRequestDies
  <1>1. CASE EndSessions(s) \/ TeamRequestDies(s)
    BY <1>0, <1>1 DEF TeamTypeOK, EndSessions, TeamRequestDies
  <1>2. ASSUME invites' \in Seq(InviteRows),
               Len(operators) + Len(invites') <= MaxTeamRows,
               UNCHANGED <<operators, signedIn, tangled>>
        PROVE  TeamTypeOK'
    BY <1>0, <1>2 DEF TeamTypeOK
  <1>3. CASE DetachInvites(s) \/ RevokeInvites(s)
    <2>1. ASSUME NEW i \in DOMAIN invites
          PROVE  /\ [invites[i] EXCEPT !.operator = 0] \in InviteRows
                 /\ [invites[i] EXCEPT !.status = "revoked"] \in InviteRows
                 /\ invites[i] \in InviteRows
      BY DEF InviteRows
    <2>2. invites' \in [1..Len(invites) -> InviteRows]
      BY <1>3, <2>1 DEF DetachInvites, RevokeInvites
    <2>3. invites' \in Seq(InviteRows) /\ Len(invites') = Len(invites)
      BY <2>2, LenProperties, SeqDef
    <2> QED
      BY <1>2, <1>3, <2>3 DEF DetachInvites, RevokeInvites, TeamTypeOK
  <1>4. CASE SendInvite(s)
    <2> DEFINE new == [operator |-> Request(s).operator, accepted |-> 0,
                       email |-> The(Request(s).change.email), status |-> "pending"]
    <2>1. new \in InviteRows
      <3>1. Request(s).change.email # {}
        BY <1>4 DEF SendInvite, TeamReferences, RequestRefers, Handling, Request
      <3>2. The(Request(s).change.email) \in Emails /\ Request(s).operator \in 0..MaxTeamRows
        BY <3>1, TheMember, TeamSlotsTyped DEF TeamRequests, TeamChanges
      <3> QED
        BY <3>2 DEF InviteRows
    <2>2. invites' = Append(invites, new) /\ RoomForRow
      BY <1>4 DEF SendInvite
    <2>3. invites' \in Seq(InviteRows) /\ Len(invites') = Len(invites) + 1
      BY <2>1, <2>2, AppendProperties DEF TeamTypeOK
    <2> QED
      BY <1>2, <1>4, <2>2, <2>3 DEF SendInvite, RoomForRow
  <1>5. CASE ConsumeInvite(s)
    <2> DEFINE i == Request(s).invite
               row == [invites[i] EXCEPT !.status = "consumed", !.accepted = @ + 1]
    <2>1. i \in DOMAIN invites
      BY <1>5 DEF ConsumeInvite, TeamReferences, RequestRefers, Handling, Request
    <2>2. row \in InviteRows
      <3>1. invites[i] \in InviteRows /\ invites[i].accepted + 1 \in Nat
        BY <2>1 DEF InviteRows
      <3> QED
        BY <3>1 DEF InviteRows
    <2>3. invites' = [invites EXCEPT ![i] = row]
      BY <1>5, <2>1 DEF ConsumeInvite
    <2>4. invites' \in Seq(InviteRows) /\ Len(invites') = Len(invites)
      BY <2>1, <2>2, <2>3, ExceptSeq DEF TeamTypeOK
    <2> QED
      BY <1>2, <1>5, <2>4 DEF ConsumeInvite, TeamTypeOK
  <1> QED
    BY <1>1, <1>3, <1>4, <1>5

LEMMA TeamTypeStep ==
    ASSUME TeamTypeOK, TeamReferences, TeamNext
    PROVE  TeamTypeOK'
  <1>1. ASSUME NEW s \in TeamSlots, TeamBegin(s)
        PROVE  TeamTypeOK'
    <2>1. PICK r \in TeamRequests : HandleFirst(s, r)
      BY <1>1, TeamBegins
    <2>2. handling' \in [TeamSlots -> TeamRequests]
      BY <2>1, TeamSlotsTyped DEF HandleFirst
    <2> QED
      BY <1>1, <2>2, TeamBegins, TanglingIsNoted DEF TeamTypeOK, Team
  <1>2. ASSUME NEW o \in DOMAIN operators, OperatorSignIn(o) \/ OperatorSignOut(o)
        PROVE  TeamTypeOK'
    BY <1>2, TanglingIsNoted DEF TeamTypeOK, Team, OperatorSignIn, OperatorSignOut
  <1> QED
    BY <1>1, <1>2, TeamTypeRows, TeamTypeInvites DEF TeamNext, TeamStep, TeamBegin

-----------------------------------------------------------------------------
(* What a request begins with, and what it has checked.                     *)
BeganAsOwner(r) ==
    \E email \in Emails :
        /\ r.for \in {"provision", "invite"} /\ r.row = 0
        /\ r.change.email = {email} /\ r.change.role = {"owner"}
        /\ \/ r.step = "read" /\ r.operator \in ListedOwners
           \/ r.step = "insert" /\ r.operator \in ListedOwners /\ r.operator \in WithEmail(email)
           \/ r.step = "insert" /\ ListedOwners = {} /\ r.operator \in {0} \cup WithEmail(email)

BeganInTeam(r) ==
    /\ r.for = "team" /\ "owner" \notin r.change.role /\ r.row = 0
    /\ \/ /\ r.step = "insert" /\ r.operator = 0
          /\ r.change.email # {} /\ r.change.role # {}
          /\ "store" \in r.change.role => ListedStores = {}
       \/ r.step \in {"read", "end"} /\ r.operator \in Team

BeganByInvite(r) ==
    /\ r.for = "accept" /\ r.step = "read" /\ r.change.role = {} /\ r.row = 0
    /\ r.invite \in DOMAIN invites /\ invites[r.invite].status = "pending"
    /\ r.operator = invites[r.invite].operator /\ r.operator # 0

LEMMA TeamBeginnings ==
    ASSUME TeamTypeOK, TeamReferences, NEW s \in TeamSlots, TeamBegin(s)
    PROVE  /\ UNCHANGED <<operators, signedIn, invites>>
           /\ \E r : /\ HandleFirst(s, r)
                     /\ BeganAsOwner(r) \/ BeganInTeam(r) \/ BeganByInvite(r)
  <1> USE TeamRows, TeamNames DEF TeamTypeOK, ListedOwners, ListedStores
  <1> DEFINE Good == \E r : /\ HandleFirst(s, r)
                            /\ BeganAsOwner(r) \/ BeganInTeam(r) \/ BeganByInvite(r)
  <1>1. ASSUME NEW email \in Emails, ProvisionOwner(s, email)
        PROVE  Good
    <2> DEFINE change == [email |-> {email}, role |-> {"owner"}, active |-> {TRUE}]
               known == WithEmail(email)
    <2>1. ASSUME NEW o, NEW step
          PROVE  LET r == [Unhandled EXCEPT !.for = "provision", !.operator = o, !.step = step,
                                            !.change = change]
                 IN  /\ r.for = "provision" /\ r.operator = o /\ r.row = 0 /\ r.step = step
                     /\ r.change.email = {email} /\ r.change.role = {"owner"}
      BY DEF Unhandled
    <2>2. CASE ListedOwners # {}
      <3>1. PICK o \in ListedOwners :
              HandleFirst(s, [Unhandled EXCEPT !.for = "provision", !.operator = o,
                 !.step = IF operators[o].email = email THEN "insert" ELSE "read",
                 !.change = change])
        BY <1>1, <2>2 DEF ProvisionOwner
      <3>2. operators[o].email = email => o \in WithEmail(email)
        BY DEF WithEmail, Owners
      <3> DEFINE r == [Unhandled EXCEPT !.for = "provision", !.operator = o,
                 !.step = IF operators[o].email = email THEN "insert" ELSE "read",
                 !.change = change]
      <3>3. /\ r.for = "provision" /\ r.operator = o /\ r.row = 0
            /\ r.step = IF operators[o].email = email THEN "insert" ELSE "read"
            /\ r.change.email = {email} /\ r.change.role = {"owner"}
        BY <2>1
      <3>4. BeganAsOwner(r)
        <4> HIDE DEF r
        <4> QED
          BY <3>2, <3>3 DEF BeganAsOwner
      <3> QED
        BY <3>1, <3>4
    <2>3. CASE ListedOwners = {}
      <3> DEFINE o == IF known = {} THEN 0 ELSE CHOOSE o \in known : TRUE
                 r == [Unhandled EXCEPT !.step = "insert", !.for = "provision",
                                        !.operator = o, !.change = change]
      <3>1. HandleFirst(s, r)
        BY <1>1, <2>3 DEF ProvisionOwner
      <3>2. /\ r.for = "provision" /\ r.operator = o /\ r.row = 0 /\ r.step = "insert"
            /\ r.change.email = {email} /\ r.change.role = {"owner"}
        BY DEF Unhandled
      <3>3. o \in {0} \cup WithEmail(email)
        OBVIOUS
      <3>4. BeganAsOwner(r)
        <4> HIDE DEF r, o
        <4> QED
          BY <2>3, <3>2, <3>3 DEF BeganAsOwner
      <3> QED
        BY <3>1, <3>4
    <2> QED
      BY <2>2, <2>3
  <1>2. ASSUME NEW email \in Emails, InviteOwner(s, email)
        PROVE  Good
    <2> DEFINE change == [email |-> {email}, role |-> {"owner"}, active |-> {FALSE}]
               invite == [Unhandled EXCEPT !.for = "invite", !.change = change]
    <2>1. CASE ListedOwners = {}
      <3> DEFINE r == [invite EXCEPT !.step = "insert"]
      <3>1. HandleFirst(s, r)
        BY <1>2, <2>1 DEF InviteOwner
      <3>2. /\ r.for = "invite" /\ r.row = 0 /\ r.operator = 0 /\ r.step = "insert"
            /\ r.change.email = {email} /\ r.change.role = {"owner"}
        BY DEF Unhandled
      <3>3. BeganAsOwner(r)
        <4> HIDE DEF r
        <4> QED
          BY <2>1, <3>2 DEF BeganAsOwner
      <3> QED
        BY <3>1, <3>3
    <2>2. CASE ListedOwners # {}
      <3>1. PICK o \in ListedOwners :
              HandleFirst(s, [invite EXCEPT !.step = "read", !.operator = o])
        BY <1>2, <2>2 DEF InviteOwner
      <3> DEFINE r == [invite EXCEPT !.step = "read", !.operator = o]
      <3>2. /\ r.for = "invite" /\ r.row = 0 /\ r.operator = o /\ r.step = "read"
            /\ r.change.email = {email} /\ r.change.role = {"owner"}
        BY DEF Unhandled
      <3>3. BeganAsOwner(r)
        <4> HIDE DEF r
        <4> QED
          BY <3>2 DEF BeganAsOwner
      <3> QED
        BY <3>1, <3>3
    <2> QED
      BY <2>1, <2>2
  <1>3. ASSUME NEW i \in DOMAIN invites, AcceptInvite(s, i)
        PROVE  Good
    <2> DEFINE r == [Unhandled EXCEPT !.step = "read", !.for = "accept", !.invite = i,
          !.operator = invites[i].operator, !.change = [NoChange EXCEPT !.active = {TRUE}]]
    <2>1. HandleFirst(s, r) /\ invites[i].status = "pending" /\ invites[i].operator # 0
      BY <1>3 DEF AcceptInvite
    <2>2. /\ r.for = "accept" /\ r.row = 0 /\ r.operator = invites[i].operator /\ r.step = "read"
          /\ r.invite = i /\ r.change.role = {}
      BY DEF Unhandled, NoChange
    <2>3. BeganByInvite(r)
      <3> HIDE DEF r
      <3> QED
        BY <2>1, <2>2 DEF BeganByInvite
    <2> QED
      BY <2>1, <2>3
  <1>4. ASSUME NEW by \in signedIn, NEW email \in Emails, NEW role \in {"manager", "store"},
               CreateOperator(s, by, email, role)
        PROVE  Good
    <2> DEFINE r == [Unhandled EXCEPT !.step = "insert",
                        !.change = [NoChange EXCEPT !.email = {email}, !.role = {role}]]
    <2>1. HandleFirst(s, r) /\ (role = "store" => ListedStores = {}) /\ role # "owner"
      BY <1>4 DEF CreateOperator
    <2>2. /\ r.for = "team" /\ r.row = 0 /\ r.operator = 0 /\ r.step = "insert"
          /\ r.change.role = {role} /\ r.change.email = {email}
      BY DEF Unhandled, NoChange
    <2>3. BeganInTeam(r)
      <3> HIDE DEF r
      <3> QED
        BY <2>1, <2>2 DEF BeganInTeam
    <2> QED
      BY <2>1, <2>3
  <1>5. ASSUME NEW by \in signedIn, NEW o \in Team, DeleteOperator(s, by, o)
        PROVE  Good
    <2> DEFINE r == [Unhandled EXCEPT !.step = "end", !.operator = o]
    <2>1. HandleFirst(s, r)
      BY <1>5 DEF DeleteOperator
    <2>2. r.for = "team" /\ r.row = 0 /\ r.operator = o /\ r.step = "end" /\ r.change.role = {}
      BY DEF Unhandled, NoChange
    <2>3. BeganInTeam(r)
      <3> HIDE DEF r
      <3> QED
        BY <2>2 DEF BeganInTeam
    <2> QED
      BY <2>1, <2>3
  <1>6. ASSUME NEW by \in signedIn, NEW o \in Team, NEW change \in Changes,
               UpdateOperator(s, by, o, change)
        PROVE  Good
    <2> DEFINE r == [Unhandled EXCEPT !.step = "read", !.operator = o, !.change = change]
    <2>1. HandleFirst(s, r) /\ "owner" \notin change.role
      BY <1>6 DEF UpdateOperator
    <2>2. r.for = "team" /\ r.row = 0 /\ r.operator = o /\ r.step = "read" /\ r.change = change
      BY DEF Unhandled
    <2>3. BeganInTeam(r)
      <3> HIDE DEF r
      <3> QED
        BY <2>1, <2>2 DEF BeganInTeam
    <2> QED
      BY <2>1, <2>3
  <1> QED
    BY <1>1, <1>2, <1>3, <1>4, <1>5, <1>6, TeamBegins DEF TeamBegin

(* A step changes one row of the operators at most. *)
LEMMA OneRowChanges ==
    ASSUME TeamTypeOK, TeamReferences, TeamNext
    PROVE  \/ UNCHANGED operators
           \/ \E s \in TeamSlots : \E t :
                 /\ \/ InsertOperator(s) /\ Mine(s) = {} /\ t = Len(operators) + 1
                    \/ GrantAccess(s) /\ t = Request(s).row
                    \/ AdoptOperator(s) /\ t = Request(s).row /\ t \in Team
                    \/ WriteOperator(s) /\ t = Request(s).operator
                    \/ RemoveOperator(s) /\ t = Request(s).operator
                 /\ operators' # operators
                 /\ DOMAIN operators' = DOMAIN operators \cup {t}
                 /\ \A o \in DOMAIN operators : o # t => operators'[o] = operators[o]
  <1> SUFFICES ASSUME operators' # operators
               PROVE  \E s \in TeamSlots : \E t :
                 /\ \/ InsertOperator(s) /\ Mine(s) = {} /\ t = Len(operators) + 1
                    \/ GrantAccess(s) /\ t = Request(s).row
                    \/ AdoptOperator(s) /\ t = Request(s).row /\ t \in Team
                    \/ WriteOperator(s) /\ t = Request(s).operator
                    \/ RemoveOperator(s) /\ t = Request(s).operator
                 /\ operators' # operators
                 /\ DOMAIN operators' = DOMAIN operators \cup {t}
                 /\ \A o \in DOMAIN operators : o # t => operators'[o] = operators[o]
    OBVIOUS
  <1>1. PICK s \in TeamSlots :
           \/ InsertOperator(s) \/ GrantAccess(s) \/ AdoptOperator(s)
           \/ WriteOperator(s) \/ RemoveOperator(s)
    BY TeamBegins
       DEF TeamNext, TeamStep, TeamBegin, GrantFails, FindOperator, ReadOperator, EndSessions,
           DetachInvites, RevokeInvites, SendInvite, ConsumeInvite, TeamRequestDies,
           OperatorSignIn, OperatorSignOut
  <1>2. CASE InsertOperator(s)
    <2>1. Mine(s) = {}
      BY <1>2 DEF InsertOperator, Mine
    <2> QED
      BY <1>2, <2>1, Inserts
  <1>3. CASE GrantAccess(s)
    <2> DEFINE t == Request(s).row
    <2>1. /\ t \in Team /\ DOMAIN operators' = DOMAIN operators
          /\ \A p \in DOMAIN operators : p # t => operators'[p] = operators[p]
      BY <1>3, Grants
    <2>2. DOMAIN operators' = DOMAIN operators \cup {t}
      BY <2>1, TeamRows
    <2> QED
      BY <1>3, <2>1, <2>2
  <1>4. CASE AdoptOperator(s)
    <2> DEFINE t == Request(s).row
    <2>1. t \in Team
      BY <1>4 DEF AdoptOperator
    <2>2. /\ DOMAIN operators' = DOMAIN operators
          /\ \A p \in DOMAIN operators : p # t => operators'[p] = operators[p]
      BY <1>4, <2>1, Adopts
    <2>3. DOMAIN operators' = DOMAIN operators \cup {t}
      BY <2>1, <2>2, TeamRows
    <2> QED
      BY <1>4, <2>1, <2>2, <2>3
  <1>5. CASE WriteOperator(s)
    <2> DEFINE t == Request(s).operator
    <2>1. /\ t \in Team /\ DOMAIN operators' = DOMAIN operators
          /\ \A p \in DOMAIN operators : p # t => operators'[p] = operators[p]
      BY <1>5, Writes
    <2>2. DOMAIN operators' = DOMAIN operators \cup {t}
      BY <2>1, TeamRows
    <2> QED
      BY <1>5, <2>1, <2>2
  <1>6. CASE RemoveOperator(s)
    <2> DEFINE t == Request(s).operator
    <2>1. t \in DOMAIN operators
      BY <1>6 DEF RemoveOperator, TeamReferences, RequestRefers, Handling, Request, Creating
    <2>2. operators' = [operators EXCEPT ![t] = Removed]
      BY <1>6 DEF RemoveOperator
    <2>3. /\ DOMAIN operators' = DOMAIN operators \cup {t}
          /\ \A p \in DOMAIN operators : p # t => operators'[p] = operators[p]
      BY <2>1, <2>2
    <2> QED
      BY <1>6, <2>3
  <1> QED
    BY <1>1, <1>2, <1>3, <1>4, <1>5, <1>6

(* Operators and invites are added, never dropped from the tables.          *)
LEMMA TeamRowsGrow ==
    ASSUME TeamTypeOK, TeamReferences, TeamNext
    PROVE  /\ DOMAIN operators \subseteq DOMAIN operators'
           /\ DOMAIN invites \subseteq DOMAIN invites'
           /\ \A i \in DOMAIN invites :
                 /\ invites'[i].email = invites[i].email
                 /\ invites'[i].operator \in {0, invites[i].operator}
                 /\ invites'[i].status = "pending" => invites[i].status = "pending"
           /\ \A i \in DOMAIN invites' \ DOMAIN invites :
                 \E s \in TeamSlots :
                    /\ SendInvite(s)
                    /\ i = Len(invites) + 1
                    /\ invites'[i] = [operator |-> Request(s).operator, accepted |-> 0,
                             email |-> The(Request(s).change.email), status |-> "pending"]
  <1> USE TeamRows
  <1> DEFINE same(i) == /\ invites'[i].email = invites[i].email
                        /\ invites'[i].operator \in {0, invites[i].operator}
                        /\ invites'[i].status = "pending" => invites[i].status = "pending"
  <1>1. DOMAIN operators \subseteq DOMAIN operators'
    BY OneRowChanges
  <1>2. ASSUME NEW s \in TeamSlots, DetachInvites(s) \/ RevokeInvites(s)
        PROVE  DOMAIN invites' = DOMAIN invites /\ \A i \in DOMAIN invites : same(i)
    BY <1>2 DEF DetachInvites, RevokeInvites, InviteRows
  <1>3. ASSUME NEW s \in TeamSlots, ConsumeInvite(s)
        PROVE  DOMAIN invites' = DOMAIN invites /\ \A i \in DOMAIN invites : same(i)
    <2>1. Request(s).invite \in DOMAIN invites
      BY <1>3 DEF ConsumeInvite, TeamReferences, RequestRefers, Handling, Request
    <2> QED
      BY <1>3, <2>1 DEF ConsumeInvite, InviteRows
  <1>4. ASSUME NEW s \in TeamSlots, SendInvite(s)
        PROVE  /\ DOMAIN invites' = 1..(Len(invites) + 1)
               /\ \A i \in DOMAIN invites : invites'[i] = invites[i]
               /\ invites'[Len(invites) + 1] =
                     [operator |-> Request(s).operator, accepted |-> 0,
                      email |-> The(Request(s).change.email), status |-> "pending"]
    <2> DEFINE new == [operator |-> Request(s).operator, accepted |-> 0,
                       email |-> The(Request(s).change.email), status |-> "pending"]
    <2>1. invites' = Append(invites, new)
      BY <1>4 DEF SendInvite
    <2> HIDE DEF new
    <2>2. invites \in Seq(InviteRows \cup {new})
      BY SeqDef DEF TeamTypeOK
    <2>3. /\ DOMAIN invites' = 1..(Len(invites) + 1)
          /\ \A i \in DOMAIN invites : invites'[i] = invites[i]
          /\ invites'[Len(invites) + 1] = new
      BY <2>1, <2>2, AppendProperties
    <2> QED
      BY <2>3 DEF new
  <1>5. \/ UNCHANGED invites
        \/ \E s \in TeamSlots : DetachInvites(s) \/ RevokeInvites(s) \/ SendInvite(s)
                                \/ ConsumeInvite(s)
    BY TeamBegins
       DEF TeamNext, TeamStep, TeamBegin, InsertOperator, GrantAccess, GrantFails,
           FindOperator, AdoptOperator, ReadOperator, WriteOperator, RemoveOperator,
           EndSessions, TeamRequestDies, OperatorSignIn, OperatorSignOut
  <1>6. ASSUME NEW s \in TeamSlots, SendInvite(s)
        PROVE  /\ DOMAIN invites \subseteq DOMAIN invites'
               /\ \A i \in DOMAIN invites : same(i)
               /\ \A i \in DOMAIN invites' \ DOMAIN invites :
                     /\ i = Len(invites) + 1
                     /\ invites'[i] = [operator |-> Request(s).operator, accepted |-> 0,
                             email |-> The(Request(s).change.email), status |-> "pending"]
    <2>1. /\ DOMAIN invites' = 1..(Len(invites) + 1)
          /\ \A i \in DOMAIN invites : invites'[i] = invites[i]
          /\ invites'[Len(invites) + 1] =
                [operator |-> Request(s).operator, accepted |-> 0,
                 email |-> The(Request(s).change.email), status |-> "pending"]
      BY <1>4, <1>6
    <2>2. \A i \in DOMAIN invites' \ DOMAIN invites : i = Len(invites) + 1
      BY <2>1
    <2> QED
      BY <2>1, <2>2
  <1> QED
    BY <1>1, <1>2, <1>3, <1>5, <1>6

(* Requests of the other slots stay as they are. *)
LEMMA OthersHandled ==
    ASSUME TeamTypeOK, TeamReferences, NEW s \in TeamSlots,
           TeamStep(s) \/ TeamRequestDies(s) \/ TeamBegin(s)
    PROVE  \A t \in TeamSlots : t # s => handling'[t] = handling[t]
  <1>1. CASE TeamBegin(s)
    BY <1>1, TeamBegins DEF HandleFirst, TeamTypeOK
  <1>2. CASE TeamStep(s) \/ TeamRequestDies(s)
    BY <1>2 DEF TeamTypeOK, TeamStep, InsertOperator, GrantAccess, GrantFails, FindOperator,
                AdoptOperator, ReadOperator, WriteOperator, EndSessions, DetachInvites,
                RemoveOperator, RevokeInvites, SendInvite, ConsumeInvite, TeamRequestDies,
                HandleNext, HandleRow, Finished, Created, NothingToUpdate
  <1> QED
    BY <1>1, <1>2

LEMMA TeamReferencesStep ==
    ASSUME TeamTypeOK, TeamReferences, TeamNext
    PROVE  TeamReferences'
  <1> USE TeamRows, TeamOK
  <1>1. ASSUME NEW i \in DOMAIN invites'
        PROVE  invites'[i].operator \in {0} \cup DOMAIN operators'
    <2>1. CASE i \in DOMAIN invites
      BY <2>1, TeamRowsGrow DEF TeamReferences
    <2>2. CASE i \notin DOMAIN invites
      <3>1. PICK s \in TeamSlots :
               invites'[i] = [operator |-> Request(s).operator, accepted |-> 0,
                              email |-> The(Request(s).change.email), status |-> "pending"]
        BY <2>2, TeamRowsGrow
      <3>2. Request(s).operator \in {0} \cup DOMAIN operators
        BY DEF TeamReferences, RequestRefers
      <3> QED
        BY <3>1, <3>2, TeamRowsGrow
    <2> QED
      BY <2>1, <2>2
  <1>2. ASSUME NEW t \in TeamSlots, handling'[t] = handling[t]
        PROVE  RequestRefers(t)'
    <2>1. RequestRefers(t)
      BY DEF TeamReferences
    <2> QED
      BY <1>2, <2>1, TeamRowsGrow DEF RequestRefers, Request, Handling
  <1>3. ASSUME NEW s \in TeamSlots, TeamBegin(s)
        PROVE  RequestRefers(s)'
    <2>1. PICK r : /\ HandleFirst(s, r)
                   /\ BeganAsOwner(r) \/ BeganInTeam(r) \/ BeganByInvite(r)
      BY <1>3, TeamBeginnings
    <2>2. Request(s)' = r
      BY <2>1 DEF HandleFirst, Request, TeamTypeOK
    <2>3. UNCHANGED <<operators, invites>>
      BY <1>3, TeamBeginnings
    <2>4. CASE BeganAsOwner(r)
      BY <2>2, <2>3, <2>4 DEF BeganAsOwner, RequestRefers, Handling, Request, WithEmail, Creating,
                                  ListedOwners
    <2>5. CASE BeganInTeam(r)
      BY <2>2, <2>3, <2>5, TeamOK DEF BeganInTeam, RequestRefers, Handling, Request, Creating
    <2>6. CASE BeganByInvite(r)
      <3>1. r.operator \in {0} \cup DOMAIN operators
        BY <2>6 DEF BeganByInvite, TeamReferences
      <3> QED
        BY <2>2, <2>3, <2>6, <3>1 DEF BeganByInvite, RequestRefers, Handling, Request, Creating
    <2> QED
      BY <2>1, <2>4, <2>5, <2>6
  <1>4. ASSUME NEW s \in TeamSlots, TeamStep(s) \/ TeamRequestDies(s)
        PROVE  RequestRefers(s)'
    <2> DEFINE mine == handling'[s]
    <2>0. RequestRefers(s) /\ handling \in [TeamSlots -> TeamRequests]
          /\ Request(s) \in TeamRequests /\ Request(s) = handling[s]
      BY TeamSlotsTyped DEF TeamReferences, TeamTypeOK, Request
    <2>1. CASE Finished(s)
      BY <2>0, <2>1, TeamOK
         DEF Finished, RequestRefers, Request, Handling, Unhandled, Creating
    <2>4. ASSUME NEW step, HandleNext(s, step)
          PROVE  /\ mine.step = step /\ mine.for = Request(s).for
                 /\ mine.change = Request(s).change /\ mine.row = Request(s).row
                 /\ mine.operator = Request(s).operator /\ mine.invite = Request(s).invite
      BY <2>4, NextRequest
    <2> USE DEF Creating
    <2>2. CASE InsertOperator(s)
      <3>1. CASE Mine(s) # {}
        <4>1. HandleNext(s, "find") /\ Handling(s, "insert")
          BY <2>2, <3>1 DEF InsertOperator, Mine
        <4> QED
          BY <2>0, <2>4, <4>1, TeamRowsGrow DEF RequestRefers, Handling, Request
      <3>2. CASE Mine(s) = {}
        <4> DEFINE t == Len(operators) + 1
        <4>1. /\ HandleRow(s, "grant", t)
              /\ t \in DOMAIN operators' /\ t # 0 /\ Handling(s, "insert")
          <5>1. /\ DOMAIN operators' = DOMAIN operators \cup {t} /\ t \in 1..MaxTeamRows
                /\ HandleRow(s, "grant", t)
            BY <2>2, <3>2, Inserts
          <5> QED
            BY <2>2, <5>1, TeamOK DEF InsertOperator
        <4>2. /\ mine.step = "grant" /\ mine.for = Request(s).for
              /\ mine.change = Request(s).change /\ mine.row = t
              /\ mine.operator = Request(s).operator /\ mine.invite = Request(s).invite
          BY <4>1, NextRequest
        <4> HIDE DEF t
        <4> QED
          BY <2>0, <4>1, <4>2, TeamRowsGrow DEF RequestRefers, Handling, Request
      <3> QED
        BY <3>1, <3>2
    <2>8. CASE GrantAccess(s) /\ ~Finished(s)
      <3> DEFINE o == Request(s).row
      <3>1. o \in DOMAIN operators /\ o # 0 /\ Created(s, o) /\ Granting(s)
        BY <2>8, Grants DEF GrantAccess
      <3>2. /\ mine.step = "read" /\ mine.for = Request(s).for
            /\ mine.change.role = Request(s).change.role
            /\ mine.row = Request(s).row
            /\ \/ /\ mine.for = "invite" /\ mine.operator = o
                  /\ mine.change = Request(s).change
               \/ /\ mine.for = "provision" /\ mine.operator # 0
                  /\ mine.operator = Request(s).operator
        BY <2>8, <3>1, CreatedRequest
      <3> HIDE DEF o
      <3> QED
        BY <2>0, <3>1, <3>2, TeamRowsGrow DEF RequestRefers, Handling, Request, Granting
    <2>9. CASE GrantFails(s)
      <3>1. HandleNext(s, "find") /\ Handling(s, "grant")
        BY <2>9 DEF GrantFails
      <3> QED
        BY <2>0, <2>4, <3>1, TeamRowsGrow DEF RequestRefers, Handling, Request
    <2>10. CASE FindOperator(s) /\ ~Finished(s)
      <3>1. PICK o \in Mine(s) : HandleRow(s, "adopt", o)
        BY <2>10 DEF FindOperator, Mine
      <3>2. o \in DOMAIN operators /\ o # 0 /\ Handling(s, "find")
        BY <2>10, TeamOK DEF FindOperator, Mine, WithEmail
      <3>3. /\ mine.step = "adopt" /\ mine.for = Request(s).for
            /\ mine.change = Request(s).change /\ mine.row = o
            /\ mine.operator = Request(s).operator /\ mine.invite = Request(s).invite
        BY <3>1, NextRequest
      <3> QED
        BY <2>0, <3>2, <3>3, TeamRowsGrow DEF RequestRefers, Handling, Request
    <2>11. CASE AdoptOperator(s)
      <3>1. HandleNext(s, "regrant") /\ Handling(s, "adopt")
        BY <2>11 DEF AdoptOperator
      <3> QED
        BY <2>0, <2>4, <3>1, TeamRowsGrow DEF RequestRefers, Handling, Request
    <2>12. CASE ReadOperator(s) /\ ~Finished(s) /\ Request(s).operator \notin Team
      <3>1. NothingToUpdate(s) /\ Handling(s, "read")
        BY <2>12 DEF ReadOperator
      <3>2. CASE HandleNext(s, "revoke") /\ Request(s).for = "invite"
        BY <2>0, <2>4, <3>1, <3>2, TeamRowsGrow DEF RequestRefers, Handling, Request
      <3>3. CASE /\ Request(s).for = "provision" /\ Request(s).change.email # {}
                 /\ mine.step = "insert" /\ mine.for = Request(s).for
                 /\ mine.change = Request(s).change
                 /\ mine.operator = 0 /\ mine.row = Request(s).row
        BY <2>0, <3>1, <3>3, TeamRowsGrow DEF RequestRefers, Handling, Request
      <3> QED
        BY <2>12, <3>1, <3>2, <3>3, NothingRequest
    <2>3. CASE ReadOperator(s) /\ ~Finished(s) /\ Request(s).operator \in Team
      <3> DEFINE o == Request(s).operator
                 change == Request(s).change
                 email == Changed(operators[o].email, change.email)
                 role == Changed(operators[o].role, change.role)
                 active == Changed(operators[o].active, change.active)
      <3>1. handling' = [handling EXCEPT ![s] = [Request(s) EXCEPT !.step = "write",
                  !.change = [email |-> {email}, role |-> {role}, active |-> {active}]]]
        BY <2>3, Reads
      <3> DEFINE next == [email |-> {email}, role |-> {role}, active |-> {active}]
      <3>2. next.email # {} /\ next.role # {} /\ next.active # {}
        OBVIOUS
      <3> HIDE DEF next
      <3>3. mine = [Request(s) EXCEPT !.step = "write", !.change = next]
        BY <2>0, <3>1 DEF next
      <3>4. /\ mine.step = "write" /\ mine.for = Request(s).for /\ mine.change = next
            /\ mine.operator = Request(s).operator /\ mine.invite = Request(s).invite
            /\ mine.row = Request(s).row
        BY <2>0, <3>3 DEF TeamRequests
      <3>5. Request(s).operator # 0
        BY <2>0, <2>3 DEF RequestRefers, ReadOperator, Handling, Request
      <3> QED
        BY <2>0, <3>2, <3>4, <3>5, TeamRowsGrow DEF RequestRefers, Handling, Request
    <2>5. CASE WriteOperator(s) /\ ~Finished(s)
      <3>1. \/ HandleNext(s, "revoke")
            \/ HandleNext(s, "consume") /\ Request(s).for \notin {"team", "provision", "invite"}
        BY <2>5 DEF WriteOperator
      <3>2. Request(s).for \in {"team", "provision", "invite", "accept"}
        BY <2>0 DEF TeamRequests
      <3>3. Handling(s, "write")
        BY <2>5 DEF WriteOperator
      <3> QED
        BY <2>0, <2>4, <3>1, <3>2, <3>3, TeamRowsGrow DEF RequestRefers, Handling, Request
    <2>6. CASE EndSessions(s) \/ DetachInvites(s)
      <3>1. /\ HandleNext(s, "detach") \/ HandleNext(s, "remove")
            /\ Handling(s, "end") \/ Handling(s, "detach")
        BY <2>6 DEF EndSessions, DetachInvites
      <3> QED
        BY <2>0, <2>4, <3>1, TeamRowsGrow DEF RequestRefers, Handling, Request
    <2>7. CASE RevokeInvites(s)
      <3>1. HandleNext(s, "send") /\ Handling(s, "revoke")
        BY <2>7 DEF RevokeInvites
      <3> QED
        BY <2>0, <2>4, <3>1, TeamRowsGrow DEF RequestRefers, Handling, Request
    <2> QED
      BY <1>4, <2>1, <2>2, <2>3, <2>5, <2>6, <2>7, <2>8, <2>9, <2>10, <2>11, <2>12
         DEF TeamStep, RemoveOperator, SendInvite, ConsumeInvite, TeamRequestDies
  <1>5. ASSUME NEW o \in DOMAIN operators, OperatorSignIn(o) \/ OperatorSignOut(o)
        PROVE  UNCHANGED handling
    BY <1>5 DEF OperatorSignIn, OperatorSignOut
  <1>6. \A t \in TeamSlots : RequestRefers(t)'
    <2>1. ASSUME NEW s \in TeamSlots, TeamStep(s) \/ TeamRequestDies(s) \/ TeamBegin(s)
          PROVE  \A t \in TeamSlots : RequestRefers(t)'
      BY <1>2, <1>3, <1>4, <2>1, OthersHandled
    <2>2. ASSUME UNCHANGED handling
          PROVE  \A t \in TeamSlots : RequestRefers(t)'
      BY <1>2, <2>2
    <2> QED
      BY <1>5, <2>1, <2>2 DEF TeamNext, TeamBegin
  <1> QED
    BY <1>1, <1>6 DEF TeamReferences

LEMMA TeamIInit == TeamInit => TeamIInv
  <1> SUFFICES ASSUME TeamInit PROVE TeamIInv
    OBVIOUS
  <1> USE TeamOK DEF TeamInit
  <1>1. handling \in [TeamSlots -> TeamRequests]
    BY TeamRequestShapes
  <1>2. Team = {} /\ Owners = {} /\ ListedOwners = {} /\ ListedStores = {}
    BY DEF Team, Owners, StoreAccounts, ListedOwners, ListedStores
  <1>3. tangled \in BOOLEAN
    OBVIOUS
  <1>4. TeamTypeOK
    BY <1>1, <1>2, <1>3 DEF TeamTypeOK
  <1>5. TeamReferences
    BY DEF TeamReferences, RequestRefers, Request, Handling, Unhandled, Creating
  <1>6. \A s \in TeamSlots : TeamReady(s)
    BY DEF TeamReady, Request, Handling, Unhandled, Creating, Granting
  <1>7. TeamAlone /\ OneListed /\ InvitesOnce /\ signedIn \subseteq Team
    BY <1>2 DEF TeamAlone, OneListed, InvitesOnce, Handling, Unhandled
  <1> QED
    BY <1>4, <1>5, <1>6, <1>7 DEF TeamIInv, Untangled

(* What can be relied on in a step that leaves the history clear.           *)
LEMMA UntangledNow ==
    ASSUME TeamIInv, TeamNext, ~tangled'
    PROVE  /\ ~tangled /\ TeamAlone /\ OneListed /\ InvitesOnce /\ signedIn \subseteq Team
           /\ \A s \in TeamSlots : TeamReady(s)
  BY TanglingIsNoted DEF TeamIInv, Untangled

(* Who is listed as what when one row has changed. *)
LEMMA ListedAfter ==
    ASSUME TeamTypeOK, NEW t,
           DOMAIN operators' = DOMAIN operators \cup {t},
           \A o \in DOMAIN operators : o # t => operators'[o] = operators[o]
    PROVE  /\ \A o \in ListedOwners' : o # t => o \in ListedOwners
           /\ \A o \in ListedStores' : o # t => o \in ListedStores
           /\ t \in ListedOwners' => operators'[t].role = "owner" /\ operators'[t].access
           /\ t \in ListedStores' => operators'[t].role = "store" /\ operators'[t].access
  <1>1. ASSUME NEW o \in DOMAIN operators', o # t
        PROVE  o \in DOMAIN operators /\ operators'[o] = operators[o]
    BY <1>1
  <1> QED
    BY <1>1 DEF ListedOwners, ListedStores, Owners, StoreAccounts, Team, Listed

(* The row that changes is listed as what nobody else is listed as.         *)
LEMMA ListedAlone ==
    ASSUME TeamIInv, TeamNext, ~tangled', NEW s \in TeamSlots, NEW t,
           \/ InsertOperator(s) /\ Mine(s) = {} /\ t = Len(operators) + 1
           \/ GrantAccess(s) /\ t = Request(s).row
           \/ AdoptOperator(s) /\ t = Request(s).row /\ t \in Team
           \/ WriteOperator(s) /\ t = Request(s).operator
           \/ RemoveOperator(s) /\ t = Request(s).operator,
           operators' # operators
    PROVE  /\ operators'[t].role = "owner" /\ operators'[t].access => ListedOwners \subseteq {t}
           /\ operators'[t].role = "store" /\ operators'[t].access => ListedStores \subseteq {t}
  <1> USE TeamRows DEF TeamIInv
  <1>0. TeamReady(s)
    BY UntangledNow
  <1>1. CASE InsertOperator(s) /\ Mine(s) = {} /\ t = Len(operators) + 1
    <2>1. operators'[t] = [exists |-> TRUE, email |-> The(Request(s).change.email),
                           role |-> The(Request(s).change.role), active |-> TRUE,
                           access |-> FALSE]
      BY <1>1, Inserts
    <2> QED
      BY <2>1
  <1>2. CASE GrantAccess(s) /\ t = Request(s).row
    <2>1. Request(s).step \in {"grant", "regrant"} /\ Granting(s)
      BY <1>2 DEF GrantAccess, Granting, Handling, Request
    <2>2. t \in Mine(s) /\ \A o \in Mine(s) : o = t
      BY <1>0, <1>2, <2>1, Asked DEF TeamReady, Creating
    <2>3. operators'[t].role \in Request(s).change.role
      BY <1>0, <1>2, <2>1, Grants DEF TeamReady
    <2> QED
      BY <1>0, <2>1, <2>2, <2>3 DEF TeamReady, Creating
  <1>3. CASE AdoptOperator(s) /\ t = Request(s).row /\ t \in Team
    <2>1. Request(s).step = "adopt"
      BY <1>3 DEF AdoptOperator, Handling, Request
    <2>2. t \in Mine(s) /\ \A o \in Mine(s) : o = t
      BY <1>0, <1>3, <2>1, Asked DEF TeamReady, Creating
    <2>3. operators'[t].role \in Request(s).change.role
      BY <1>3, <2>1, Adopts, Asked DEF Creating
    <2> QED
      BY <1>0, <2>1, <2>2, <2>3 DEF TeamReady, Creating
  <1>4. CASE WriteOperator(s) /\ t = Request(s).operator
    <2>1. /\ operators'[t].role \in Request(s).change.role
          /\ operators'[t].access => t \in Listed
      BY <1>4, Writes DEF Listed
    <2>2. Handling(s, "write") /\ Request(s).step = "write"
      BY <1>4 DEF WriteOperator, Handling, Request
    <2> QED
      BY <1>0, <1>4, <2>1, <2>2 DEF TeamReady
  <1>5. CASE RemoveOperator(s) /\ t = Request(s).operator
    <2>1. t \in DOMAIN operators
      BY <1>5 DEF RemoveOperator, TeamReferences, RequestRefers, Handling, Request, Creating
    <2>2. ~operators'[t].access
      BY <1>5, <2>1 DEF RemoveOperator, Removed
    <2> QED
      BY <2>2
  <1> QED
    BY <1>1, <1>2, <1>3, <1>4, <1>5

LEMMA OneListedStep ==
    ASSUME TeamIInv, TeamNext, ~tangled'
    PROVE  OneListed'
  <1> USE DEF TeamIInv
  <1>0. OneListed
    BY UntangledNow
  <1>1. CASE UNCHANGED operators
    BY <1>0, <1>1 DEF OneListed, ListedOwners, ListedStores, Owners, StoreAccounts, Listed, Team
  <1>2. ASSUME NEW s \in TeamSlots, NEW t,
               \/ InsertOperator(s) /\ Mine(s) = {} /\ t = Len(operators) + 1
               \/ GrantAccess(s) /\ t = Request(s).row
               \/ AdoptOperator(s) /\ t = Request(s).row /\ t \in Team
               \/ WriteOperator(s) /\ t = Request(s).operator
               \/ RemoveOperator(s) /\ t = Request(s).operator,
               operators' # operators,
               DOMAIN operators' = DOMAIN operators \cup {t},
               \A o \in DOMAIN operators : o # t => operators'[o] = operators[o]
        PROVE  OneListed'
    <2>1. /\ \A o \in ListedOwners' : o # t => o \in ListedOwners
          /\ \A o \in ListedStores' : o # t => o \in ListedStores
          /\ t \in ListedOwners' => operators'[t].role = "owner" /\ operators'[t].access
          /\ t \in ListedStores' => operators'[t].role = "store" /\ operators'[t].access
      BY <1>2, ListedAfter
    <2>2. /\ operators'[t].role = "owner" /\ operators'[t].access => ListedOwners \subseteq {t}
          /\ operators'[t].role = "store" /\ operators'[t].access => ListedStores \subseteq {t}
      BY <1>2, ListedAlone
    <2>3. /\ t \in ListedOwners' => ListedOwners \subseteq {t}
          /\ t \in ListedStores' => ListedStores \subseteq {t}
      BY <2>1, <2>2
    <2> QED
      BY <1>0, <2>1, <2>3 DEF OneListed
  <1> QED
    BY <1>1, <1>2, OneRowChanges

LEMMA InvitesOnceStep ==
    ASSUME TeamIInv, TeamNext, ~tangled'
    PROVE  InvitesOnce'
  <1> USE TeamRows DEF TeamIInv
  <1>0. InvitesOnce
    BY UntangledNow
  <1>1. ASSUME NEW s \in TeamSlots, DetachInvites(s) \/ RevokeInvites(s)
        PROVE  InvitesOnce'
    <2>1. /\ DOMAIN invites' = DOMAIN invites
          /\ \A i \in DOMAIN invites :
                /\ invites'[i].accepted = invites[i].accepted
                /\ invites'[i].email = invites[i].email
                /\ invites'[i].status = "pending" => invites[i].status = "pending"
      BY <1>1 DEF DetachInvites, RevokeInvites, InviteRows
    <2> QED
      BY <1>0, <2>1 DEF InvitesOnce
  <1>2. ASSUME NEW s \in TeamSlots, SendInvite(s)
        PROVE  InvitesOnce'
    <2> DEFINE email == The(Request(s).change.email)
    <2>1. /\ DOMAIN invites' = 1..(Len(invites) + 1)
          /\ \A i \in DOMAIN invites : invites'[i] = invites[i]
          /\ invites'[Len(invites) + 1] = [operator |-> Request(s).operator, accepted |-> 0,
                                           email |-> email, status |-> "pending"]
      <3> DEFINE new == [operator |-> Request(s).operator, accepted |-> 0,
                         email |-> The(Request(s).change.email), status |-> "pending"]
      <3>1. invites' = Append(invites, new)
        BY <1>2 DEF SendInvite
      <3> HIDE DEF new
      <3>2. invites \in Seq(InviteRows \cup {new})
        BY SeqDef DEF TeamTypeOK
      <3>3. /\ DOMAIN invites' = 1..(Len(invites) + 1)
            /\ \A i \in DOMAIN invites : invites'[i] = invites[i]
            /\ invites'[Len(invites) + 1] = new
        BY <3>1, <3>2, AppendProperties
      <3> QED
        BY <3>3 DEF new
    <2>2. email \in Request(s).change.email
      BY <1>2, TheMember DEF SendInvite, TeamReferences, RequestRefers, Handling, Request
    <2>3. \A i \in DOMAIN invites : invites[i].status = "pending" => invites[i].email # email
      BY <1>2, <2>2, UntangledNow DEF TeamReady, SendInvite
    <2>4. /\ invites'[Len(invites) + 1].accepted = 0
          /\ invites'[Len(invites) + 1].email = email
      BY <2>1
    <2>5. \A i \in DOMAIN invites' : i \in DOMAIN invites \/ i = Len(invites) + 1
      BY <2>1
    <2> QED
      BY <1>0, <2>1, <2>3, <2>4, <2>5 DEF InvitesOnce
  <1>3. ASSUME NEW s \in TeamSlots, ConsumeInvite(s)
        PROVE  InvitesOnce'
    <2> DEFINE i == Request(s).invite
    <2>1. i \in DOMAIN invites /\ invites[i].accepted = 0
      BY <1>3, UntangledNow
         DEF TeamReady, ConsumeInvite, TeamReferences, RequestRefers, Handling, Request
    <2>2. /\ DOMAIN invites' = DOMAIN invites
          /\ \A j \in DOMAIN invites : j # i => invites'[j] = invites[j]
          /\ invites'[i].accepted = 1 /\ invites'[i].status = "consumed"
      <3> DEFINE row == [invites[i] EXCEPT !.status = "consumed", !.accepted = @ + 1]
      <3>1. invites' = [invites EXCEPT ![i] = row]
        BY <1>3, <2>1 DEF ConsumeInvite
      <3>2. row.accepted = 1 /\ row.status = "consumed"
        BY <2>1 DEF InviteRows
      <3> HIDE DEF row
      <3> QED
        BY <2>1, <3>1, <3>2
    <2> QED
      BY <1>0, <2>2 DEF InvitesOnce
  <1>4. CASE UNCHANGED invites
    BY <1>0, <1>4 DEF InvitesOnce
  <1>5. \/ UNCHANGED invites
        \/ \E s \in TeamSlots : DetachInvites(s) \/ RevokeInvites(s) \/ SendInvite(s)
                                \/ ConsumeInvite(s)
    BY TeamBegins
       DEF TeamNext, TeamStep, TeamBegin, InsertOperator, GrantAccess, GrantFails,
           FindOperator, AdoptOperator, ReadOperator, WriteOperator, RemoveOperator,
           EndSessions, TeamRequestDies, OperatorSignIn, OperatorSignOut
  <1> QED
    BY <1>1, <1>2, <1>3, <1>4, <1>5

LEMMA SignedInStep ==
    ASSUME TeamIInv, TeamNext, ~tangled'
    PROVE  signedIn' \subseteq Team'
  <1> USE TeamRows DEF TeamIInv
  <1>0. signedIn \subseteq Team
    BY UntangledNow
  <1>1. ASSUME NEW s \in TeamSlots, NEW t,
               \/ InsertOperator(s) /\ Mine(s) = {} /\ t = Len(operators) + 1
               \/ GrantAccess(s) /\ t = Request(s).row
               \/ AdoptOperator(s) /\ t = Request(s).row /\ t \in Team
               \/ WriteOperator(s) /\ t = Request(s).operator,
               operators' # operators,
               DOMAIN operators' = DOMAIN operators \cup {t},
               \A o \in DOMAIN operators : o # t => operators'[o] = operators[o]
        PROVE  signedIn' \subseteq Team'
    <2>1. operators'[t].exists
      <3>1. CASE InsertOperator(s) /\ Mine(s) = {} /\ t = Len(operators) + 1
        <4>1. operators'[t] = [exists |-> TRUE, email |-> The(Request(s).change.email),
                               role |-> The(Request(s).change.role), active |-> TRUE,
                               access |-> FALSE]
          BY <3>1, Inserts
        <4> QED
          BY <4>1
      <3> QED
        BY <1>1, <3>1, Grants, Adopts, Writes
    <2>2. Team \subseteq Team'
      BY <1>1, <2>1 DEF Team
    <2>3. UNCHANGED signedIn
      BY <1>1 DEF InsertOperator, GrantAccess, AdoptOperator, WriteOperator
    <2> QED
      BY <1>0, <2>2, <2>3
  <1>3. ASSUME NEW s \in TeamSlots, RemoveOperator(s)
        PROVE  signedIn' \subseteq Team'
    <2>1. Request(s).operator \notin signedIn
      BY <1>3, UntangledNow DEF TeamReady, RemoveOperator, Handling, Request
    <2> QED
      BY <1>0, <1>3, <2>1 DEF RemoveOperator, Team
  <1>4. CASE UNCHANGED operators
    <2>1. ASSUME NEW s \in TeamSlots, EndSessions(s)
          PROVE  signedIn' \subseteq signedIn
      BY <2>1 DEF EndSessions
    <2>2. ASSUME NEW o \in DOMAIN operators, OperatorSignIn(o) \/ OperatorSignOut(o)
          PROVE  signedIn' \subseteq signedIn \cup Team
      BY <2>2 DEF OperatorSignIn, OperatorSignOut
    <2>3. \/ UNCHANGED signedIn
          \/ \E s \in TeamSlots : EndSessions(s)
          \/ \E o \in DOMAIN operators : OperatorSignIn(o) \/ OperatorSignOut(o)
      BY TeamBegins
         DEF TeamNext, TeamStep, TeamBegin, InsertOperator, GrantAccess, GrantFails,
             FindOperator, AdoptOperator, ReadOperator, WriteOperator, RemoveOperator,
             DetachInvites, RevokeInvites, SendInvite, ConsumeInvite, TeamRequestDies
    <2>4. Team' = Team
      BY <1>4 DEF Team
    <2> QED
      BY <1>0, <2>1, <2>2, <2>3, <2>4
  <1> QED
    BY <1>1, <1>3, <1>4, OneRowChanges

(* Nobody else's request is in flight. *)
LEMMA TeamAloneStep ==
    ASSUME TeamIInv, TeamNext, ~tangled', NEW s \in TeamSlots,
           TeamStep(s) \/ TeamRequestDies(s) \/ TeamBegin(s)
    PROVE  \A t \in TeamSlots : t # s => Handling(t, "idle")'
  <1>1. CASE TeamBegin(s)
    BY <1>1, TeamBegins, OthersHandled DEF TeamIInv, HandleFirst, Handling
  <1>2. CASE TeamStep(s) \/ TeamRequestDies(s)
    <2>1. ~Handling(s, "idle")
      BY <1>2 DEF TeamStep, InsertOperator, GrantAccess, GrantFails, FindOperator,
                  AdoptOperator, ReadOperator, WriteOperator, EndSessions, DetachInvites,
                  RemoveOperator, RevokeInvites, SendInvite, ConsumeInvite, TeamRequestDies,
                  Granting, Handling
    <2> QED
      BY <1>2, <2>1, UntangledNow, OthersHandled DEF TeamIInv, TeamAlone, Handling
  <1> QED
    BY <1>1, <1>2

(* The request that acted is right about what it read.                      *)
LEMMA TeamReadyStep ==
    ASSUME TeamIInv, TeamNext, ~tangled', NEW s \in TeamSlots,
           TeamStep(s) \/ TeamRequestDies(s) \/ TeamBegin(s)
    PROVE  TeamReady(s)'
  <1> USE DEF TeamIInv
  <1> DEFINE mine == handling'[s]
  <1>0. /\ TeamReady(s) /\ RequestRefers(s) /\ OneListed /\ ~tangled /\ TeamAlone
        /\ handling \in [TeamSlots -> TeamRequests]
        /\ Request(s) \in TeamRequests /\ Request(s) = handling[s]
    BY UntangledNow, TeamSlotsTyped DEF TeamReferences, TeamTypeOK, Request
  <1>1. ASSUME TeamBegin(s)
        PROVE  TeamReady(s)'
    <2>1. PICK r : /\ HandleFirst(s, r)
                   /\ BeganAsOwner(r) \/ BeganInTeam(r) \/ BeganByInvite(r)
      BY <1>1, TeamBeginnings
    <2>2. Request(s)' = r /\ mine = r
      BY <2>1 DEF HandleFirst, Request, TeamTypeOK
    <2>3. UNCHANGED <<operators, invites, signedIn>>
      BY <1>1, TeamBeginnings
    <2>5. /\ ListedOwners' = ListedOwners /\ ListedStores' = ListedStores
          /\ Team' = Team /\ (\A email : WithEmail(email)' = WithEmail(email))
      BY <2>3 DEF ListedOwners, ListedStores, Owners, StoreAccounts, Listed, Team, WithEmail
    <2>9. r.step \notin {"grant", "find", "adopt", "regrant", "write", "send"}
      BY <2>1 DEF BeganAsOwner, BeganInTeam, BeganByInvite
    <2>10. r.step \in Creating => r.step = "insert"
      BY <2>9 DEF Creating
    <2> USE DEF Granting
    <2>6. CASE BeganAsOwner(r)
      <3>1. PICK email \in Emails :
              /\ r.for \in {"provision", "invite"}
              /\ r.change.email = {email} /\ r.change.role = {"owner"}
              /\ \/ r.step = "read" /\ r.operator \in ListedOwners
                 \/ /\ r.step = "insert" /\ r.operator \in ListedOwners
                    /\ r.operator \in WithEmail(email)
                 \/ /\ r.step = "insert" /\ ListedOwners = {}
                    /\ r.operator \in {0} \cup WithEmail(email)
        BY <2>6 DEF BeganAsOwner
      <3>2. The(r.change.email) = email /\ Mine(s)' = WithEmail(email)
        BY <2>2, <2>5, <3>1, TheOnly DEF Mine
      <3>3. /\ r.step = "read" => ListedOwners \subseteq {r.operator} /\ r.operator \in Team
            /\ r.step = "insert" => /\ ListedOwners \subseteq WithEmail(email)
                                    /\ r.operator \in {0} \cup WithEmail(email)
        BY <1>0, <3>1, TeamRows DEF OneListed, ListedOwners
      <3> QED
        BY <2>2, <2>3, <2>5, <2>9, <2>10, <3>1, <3>2, <3>3 DEF TeamReady, Request, Handling
    <2>7. CASE BeganInTeam(r)
      BY <2>2, <2>5, <2>7, <2>9, <2>10 DEF BeganInTeam, TeamReady, Request, Handling
    <2>8. CASE BeganByInvite(r)
      <3>1. invites[r.invite].accepted = 0
        BY <2>8, UntangledNow DEF BeganByInvite, InvitesOnce
      <3> QED
        BY <2>2, <2>3, <2>8, <2>10, <3>1 DEF BeganByInvite, TeamReady, Request, Handling
    <2> QED
      BY <2>1, <2>6, <2>7, <2>8
  <1>3. CASE Finished(s)
    <2>1. mine = Unhandled
      BY <1>0, <1>3 DEF Finished
    <2> QED
      BY <2>1 DEF TeamReady, Request, Handling, Unhandled, Creating, Granting
  <1>6. ASSUME NEW step, HandleNext(s, step)
        PROVE  /\ mine.step = step /\ mine.for = Request(s).for
               /\ mine.change = Request(s).change /\ mine.row = Request(s).row
               /\ mine.operator = Request(s).operator /\ mine.invite = Request(s).invite
    BY <1>6, NextRequest
  (* A request to create an operator, at its next step. *)
  <1>2. ASSUME mine.step \in Creating, mine.for # "accept",
               mine.change = Request(s).change,
               mine.operator = Request(s).operator,
               Request(s).step \in Creating,
               Mine(s) \subseteq Mine(s)',
               "owner" \in Request(s).change.role => ListedOwners' \subseteq Mine(s)',
               "store" \in Request(s).change.role => ListedStores' \subseteq Mine(s)',
               mine.step \in {"grant", "adopt", "regrant"} => mine.row \in Mine(s)',
               mine.step \in {"grant", "regrant"} =>
                   operators'[mine.row].role \in Request(s).change.role
        PROVE  TeamReady(s)'
    <2>1. Request(s).operator \in {0} \cup Mine(s)
      BY <1>0, <1>2 DEF TeamReady
    <2>2. Request(s)' = mine
      BY DEF Request
    <2>3. mine.step \notin {"read", "write", "detach", "remove", "send", "consume"}
      BY <1>2 DEF Creating
    <2>4. Granting(s)' => mine.step \in {"grant", "regrant"}
      BY DEF Granting, Handling
    <2> QED
      BY <1>2, <2>1, <2>2, <2>3, <2>4 DEF TeamReady, Handling
  <1>12. ASSUME UNCHANGED operators
         PROVE  /\ ListedOwners' = ListedOwners /\ ListedStores' = ListedStores /\ Team' = Team
                /\ mine.change = Request(s).change => Mine(s)' = Mine(s)
    BY <1>12 DEF ListedOwners, ListedStores, Owners, StoreAccounts, Listed, Team, WithEmail,
                 Mine, Request
  <1>4. CASE InsertOperator(s)
    <2>0. Request(s).step = "insert" /\ Request(s).step \in Creating
      BY <1>4 DEF InsertOperator, Handling, Request, Creating
    <2>1. CASE Mine(s) # {}
      <3>1. HandleNext(s, "find") /\ UNCHANGED operators
        BY <1>4, <2>1 DEF InsertOperator, Mine
      <3>2. "find" \in Creating
        BY DEF Creating
      <3> QED
        BY <1>0, <1>2, <1>6, <1>12, <2>0, <3>1, <3>2 DEF TeamReady, RequestRefers
    <2>2. CASE Mine(s) = {}
      <3> DEFINE t == Len(operators) + 1
                 email == The(Request(s).change.email)
                 role == The(Request(s).change.role)
      <3>1. /\ DOMAIN operators' = DOMAIN operators \cup {t}
            /\ \A o \in DOMAIN operators : operators'[o] = operators[o]
            /\ operators'[t] = [exists |-> TRUE, email |-> email, role |-> role,
                                active |-> TRUE, access |-> FALSE]
            /\ HandleRow(s, "grant", t)
        BY <1>4, <2>2, Inserts
      <3>2. /\ mine.step = "grant" /\ mine.for = Request(s).for
            /\ mine.change = Request(s).change /\ mine.row = t
            /\ mine.operator = Request(s).operator
        BY <3>1, NextRequest
      <3>3. /\ operators'[t].exists /\ operators'[t].email = email
            /\ operators'[t].role = role /\ ~operators'[t].access
        BY <3>1
      <3> HIDE DEF t, email, role
      <3>4. t \in Mine(s)'
        BY <3>1, <3>2, <3>3 DEF Mine, WithEmail, Team, Request, email
      <3>5. ListedOwners' \subseteq ListedOwners /\ ListedStores' \subseteq ListedStores
        BY <3>1, <3>3, ListedAfter
      <3>6. role \in Request(s).change.role
        BY <2>0, Asked DEF role
      <3>7. /\ "owner" \in Request(s).change.role => ListedOwners = {}
            /\ "store" \in Request(s).change.role => ListedStores = {}
        BY <1>0, <2>0, <2>2 DEF TeamReady
      <3>8. "grant" \in Creating /\ Request(s).for # "accept"
        BY <1>0, <2>0 DEF Creating, RequestRefers
      <3> QED
        BY <1>2, <2>0, <2>2, <3>2, <3>3, <3>4, <3>5, <3>6, <3>7, <3>8
    <2> QED
      BY <2>1, <2>2
  <1>13. CASE GrantFails(s)
    <2>1. HandleNext(s, "find") /\ UNCHANGED operators
      BY <1>13 DEF GrantFails
    <2>2. "find" \in Creating /\ Request(s).step \in Creating
      BY <1>13 DEF GrantFails, Handling, Request, Creating
    <2> QED
      BY <1>0, <1>2, <1>6, <1>12, <2>1, <2>2 DEF TeamReady, RequestRefers
  <1>14. CASE FindOperator(s) /\ ~Finished(s)
    <2>1. PICK o \in Mine(s) : HandleRow(s, "adopt", o)
      BY <1>14 DEF FindOperator, Mine
    <2>2. /\ mine.step = "adopt" /\ mine.for = Request(s).for
          /\ mine.change = Request(s).change /\ mine.row = o
          /\ mine.operator = Request(s).operator
      BY <2>1, NextRequest
    <2>3. UNCHANGED operators
      BY <1>14 DEF FindOperator
    <2>4. "adopt" \in Creating /\ Request(s).step \in Creating
      BY <1>14 DEF FindOperator, Handling, Request, Creating
    <2> QED
      BY <1>0, <1>2, <1>12, <2>2, <2>3, <2>4 DEF TeamReady, RequestRefers
  <1>15. CASE AdoptOperator(s)
    <2> DEFINE o == Request(s).row
    <2>1. HandleNext(s, "regrant")
      BY <1>15 DEF AdoptOperator
    <2>2. "regrant" \in Creating /\ Request(s).step \in Creating /\ Request(s).step = "adopt"
      BY <1>15 DEF AdoptOperator, Handling, Request, Creating
    <2>3. o \in Mine(s) /\ o \in Team
      BY <1>0, <2>2, Asked DEF TeamReady
    <2>4. /\ DOMAIN operators' = DOMAIN operators
          /\ operators'[o].exists /\ operators'[o].email = operators[o].email
          /\ operators'[o].role = The(Request(s).change.role)
          /\ \A p \in DOMAIN operators : p # o => operators'[p] = operators[p]
      BY <1>15, <2>3, Adopts
    <2>5. mine.change = Request(s).change /\ mine.row = o
      BY <1>6, <2>1
    <2>6. Mine(s) \subseteq Mine(s)'
      BY <2>4, <2>5 DEF Mine, WithEmail, Team, Request
    <2>7. \A p \in ListedOwners' : p # o => p \in ListedOwners
      BY <2>3, <2>4, TeamRows, ListedAfter
    <2>8. \A p \in ListedStores' : p # o => p \in ListedStores
      BY <2>3, <2>4, TeamRows, ListedAfter
    <2>9. /\ "owner" \in Request(s).change.role => ListedOwners' \subseteq Mine(s)'
          /\ "store" \in Request(s).change.role => ListedStores' \subseteq Mine(s)'
      BY <1>0, <2>2, <2>3, <2>6, <2>7, <2>8 DEF TeamReady
    <2>10. operators'[o].role \in Request(s).change.role
      BY <2>2, <2>4, Asked
    <2>11. Request(s).for # "accept"
      BY <1>0, <2>2 DEF RequestRefers
    <2> HIDE DEF o
    <2> QED
      BY <1>2, <1>6, <2>1, <2>2, <2>3, <2>5, <2>6, <2>9, <2>10, <2>11
  <1>16. CASE GrantAccess(s) /\ ~Finished(s)
    <2> DEFINE o == Request(s).row
    <2>1. Created(s, o) /\ Request(s).step \in {"grant", "regrant"}
      BY <1>16 DEF GrantAccess, Granting, Handling, Request
    <2>2. o \in Mine(s) /\ \A p \in Mine(s) : p = o
      BY <1>0, <2>1, Asked DEF TeamReady, Creating
    <2>3. /\ DOMAIN operators' = DOMAIN operators
          /\ operators'[o].exists /\ o \in Team
          /\ \A p \in DOMAIN operators : p # o => operators'[p] = operators[p]
      BY <1>16, Grants
    <2>4. /\ mine.step = "read" /\ mine.for \in {"invite", "provision"}
          /\ mine.change.role = Request(s).change.role
          /\ mine.operator = o \/ (mine.operator # 0 /\ mine.operator = Request(s).operator)
      BY <1>16, <2>1, CreatedRequest
    <2>5. mine.operator = o
      BY <1>0, <2>1, <2>2, <2>4 DEF TeamReady, Creating
    <2>6. \A p \in ListedOwners' : p # o => p \in ListedOwners
      BY <2>3, TeamRows, ListedAfter
    <2>7. "owner" \in Request(s).change.role => ListedOwners' \subseteq {o}
      BY <1>0, <2>1, <2>2, <2>6 DEF TeamReady, Creating
    <2>8. o \in Team'
      BY <2>3, TeamRows DEF Team
    <2> HIDE DEF o
    <2> QED
      BY <2>4, <2>5, <2>7, <2>8 DEF TeamReady, Request, Handling, Creating, Granting
  <1>17. CASE ReadOperator(s) /\ ~Finished(s) /\ Request(s).operator \notin Team
    <2>1. NothingToUpdate(s) /\ Request(s).for # "provision"
      BY <1>0, <1>17 DEF ReadOperator, TeamReady
    <2>2. HandleNext(s, "revoke")
      BY <1>17, <2>1, NothingRequest
    <2>3. mine.step = "revoke"
      BY <1>6, <2>2
    <2> QED
      BY <2>3 DEF TeamReady, Request, Handling, Creating, Granting
  <1>5. CASE ReadOperator(s) /\ ~Finished(s) /\ Request(s).operator \in Team
    <2> DEFINE o == Request(s).operator
               change == Request(s).change
               email == Changed(operators[o].email, change.email)
               role == Changed(operators[o].role, change.role)
               active == Changed(operators[o].active, change.active)
               next == [email |-> {email}, role |-> {role}, active |-> {active}]
    <2>1. /\ handling' = [handling EXCEPT ![s] =
                            [Request(s) EXCEPT !.step = "write", !.change = next]]
          /\ role = "store" => ListedStores \subseteq {o}
          /\ role \in {operators[o].role} \cup change.role
      BY <1>5, Reads
    <2>2. next.role = {role}
      OBVIOUS
    <2>3. role = "owner" /\ o \in Listed => ListedOwners \subseteq {o}
      <3>1. CASE operators[o].role = "owner" /\ o \in Listed
        <4>1. o \in ListedOwners
          BY <3>1 DEF ListedOwners, Owners, Listed
        <4> QED
          BY <1>0, <4>1 DEF OneListed
      <3>2. CASE "owner" \in change.role
        BY <1>0, <1>5, <3>2 DEF TeamReady, ReadOperator, Handling, Request
      <3> HIDE DEF role, o, change
      <3> QED
        BY <2>1, <3>1, <3>2
    <2> HIDE DEF next
    <2>4. mine = [Request(s) EXCEPT !.step = "write", !.change = next]
      BY <1>0, <2>1
    <2>5. /\ mine.step = "write" /\ mine.for = Request(s).for /\ mine.change = next
          /\ mine.operator = o /\ mine.invite = Request(s).invite
      BY <1>0, <2>4 DEF TeamRequests
    <2>6. UNCHANGED <<operators, invites, signedIn>>
      BY <1>5 DEF ReadOperator
    <2>7. ListedOwners' = ListedOwners /\ ListedStores' = ListedStores
      BY <1>12, <2>6
    <2> HIDE DEF role, o, change
    <2>8. /\ "owner" \in mine.change.role /\ mine.operator \in Listed' =>
                ListedOwners' \subseteq {mine.operator}
          /\ "store" \in mine.change.role => ListedStores' \subseteq {mine.operator}
      <3>1. Listed' = Listed
        BY <2>6 DEF Listed, Team
      <3> QED
        BY <2>1, <2>2, <2>3, <2>5, <2>7, <3>1
    <2>9. mine.for = "accept" => invites'[mine.invite].accepted = 0
      BY <1>0, <1>5, <2>5, <2>6 DEF TeamReady, ReadOperator, Handling, Request
    <2> QED
      BY <2>5, <2>8, <2>9 DEF TeamReady, Request, Handling, Creating, Granting
  <1>7. CASE WriteOperator(s) /\ ~Finished(s)
    <2>1. HandleNext(s, "revoke") \/ HandleNext(s, "consume")
      BY <1>7 DEF WriteOperator
    <2>2. UNCHANGED invites /\ Handling(s, "write")
      BY <1>7 DEF WriteOperator
    <2>3. mine.for = "accept" => invites'[mine.invite].accepted = 0
      BY <1>0, <1>6, <2>1, <2>2 DEF TeamReady, Handling, Request
    <2>4. mine.step \in {"revoke", "consume"}
      BY <1>6, <2>1
    <2> QED
      BY <2>3, <2>4 DEF TeamReady, Request, Handling, Creating, Granting
  <1>8. CASE EndSessions(s)
    <2>1. /\ HandleNext(s, "detach") /\ signedIn' = signedIn \ {Request(s).operator}
          /\ UNCHANGED invites
      BY <1>8 DEF EndSessions
    <2>2. mine.step = "detach" /\ mine.operator \notin signedIn'
      BY <1>6, <2>1
    <2> QED
      BY <2>2 DEF TeamReady, Request, Handling, Creating, Granting
  <1>10. CASE DetachInvites(s)
    <2>1. HandleNext(s, "remove") /\ UNCHANGED signedIn /\ Handling(s, "detach")
      BY <1>10 DEF DetachInvites
    <2>2. mine.step = "remove" /\ mine.operator = Request(s).operator
      BY <1>6, <2>1
    <2>3. Request(s).operator \notin signedIn
      BY <1>0, <2>1 DEF TeamReady, Request, Handling, Creating, Granting
    <2> QED
      BY <2>1, <2>2, <2>3 DEF TeamReady, Request, Handling, Creating, Granting
  <1>11. CASE RevokeInvites(s)
    <2>1. HandleNext(s, "send")
      BY <1>11 DEF RevokeInvites
    <2>2. DOMAIN invites' = DOMAIN invites
      BY <1>11 DEF RevokeInvites
    <2>3. ASSUME NEW i \in DOMAIN invites, invites'[i].status = "pending"
          PROVE  invites'[i].email \notin Request(s).change.email
      BY <1>11, <2>3 DEF RevokeInvites, InviteRows
    <2>4. mine.step = "send" /\ mine.change = Request(s).change
      BY <1>6, <2>1
    <2>5. \A i \in DOMAIN invites' :
              invites'[i].status = "pending" => invites'[i].email \notin mine.change.email
      BY <2>2, <2>3, <2>4
    <2> QED
      BY <2>4, <2>5 DEF TeamReady, Request, Handling, Creating, Granting
  <1> QED
    BY <1>1, <1>3, <1>4, <1>5, <1>7, <1>8, <1>10, <1>11, <1>13, <1>14, <1>15, <1>16, <1>17
       DEF TeamStep, RemoveOperator, SendInvite, ConsumeInvite, TeamRequestDies

LEMMA TeamIStep == TeamIInv /\ [TeamNext]_teamVars => TeamIInv'
  <1>1. ASSUME TeamIInv, TeamNext
        PROVE  TeamIInv'
    <2> USE <1>1 DEF TeamIInv
    <2>1. TeamTypeOK' /\ TeamReferences'
      BY TeamTypeStep, TeamReferencesStep
    <2>2. ASSUME ~tangled'
          PROVE  TeamAlone' /\ \A t \in TeamSlots : TeamReady(t)'
      <3>1. ASSUME NEW s \in TeamSlots, TeamStep(s) \/ TeamRequestDies(s) \/ TeamBegin(s)
            PROVE  TeamAlone' /\ \A t \in TeamSlots : TeamReady(t)'
        <4>1. TeamReady(s)' /\ \A t \in TeamSlots : t # s => Handling(t, "idle")'
          BY <2>2, <3>1, TeamReadyStep, TeamAloneStep
        <4>2. ASSUME NEW t \in TeamSlots, t # s
              PROVE  TeamReady(t)'
          <5>1. handling'[t] = handling[t] /\ Handling(t, "idle")'
            BY <3>1, <4>1, <4>2, OthersHandled
          <5>2. Request(t)'.for = Request(t).for /\ Request(t)'.step = "idle"
            BY <5>1 DEF Request, Handling
          <5> QED
            BY <5>2 DEF TeamReady, Request, Handling, Creating, Granting
        <4> QED
          BY <4>1, <4>2 DEF TeamAlone
      <3>2. ASSUME NEW o \in DOMAIN operators, OperatorSignIn(o) \/ OperatorSignOut(o)
            PROVE  TeamAlone' /\ \A t \in TeamSlots : TeamReady(t)'
        <4>1. UNCHANGED <<operators, invites, handling>>
          BY <3>2 DEF OperatorSignIn, OperatorSignOut
        <4>2. ASSUME NEW t \in TeamSlots, Request(t).operator \in signedIn'
              PROVE  Request(t).operator \in signedIn
          <5>1. CASE OperatorSignIn(o)
            <6>1. Request(t).operator # o
              BY <2>2, <5>1 DEF OperatorSignIn
            <6>2. signedIn' = signedIn \cup {o}
              BY <5>1 DEF OperatorSignIn
            <6> QED
              BY <4>2, <6>1, <6>2
          <5>2. CASE OperatorSignOut(o)
            BY <4>2, <5>2 DEF OperatorSignOut
          <5> QED
            BY <3>2, <5>1, <5>2
        <4> QED
          BY <2>2, <4>1, <4>2, UntangledNow
             DEF TeamAlone, TeamReady, Request, Handling, Creating, Granting, Mine, WithEmail,
                 ListedOwners, ListedStores, Owners, StoreAccounts, Listed, Team
      <3> QED
        BY <3>1, <3>2 DEF TeamNext, TeamBegin
    <2> QED
      BY <2>1, <2>2, OneListedStep, InvitesOnceStep, SignedInStep DEF Untangled
  <1>2. ASSUME TeamIInv, UNCHANGED teamVars
        PROVE  TeamIInv'
    BY <1>2 DEF teamVars, TeamIInv, TeamTypeOK, TeamReferences, RequestRefers, Untangled,
                TeamAlone, OneListed, InvitesOnce, TeamReady, Creating, Granting, Mine,
                WithEmail, ListedOwners, ListedStores, Owners, StoreAccounts, Listed, Team,
                Request, Handling
  <1> QED
    BY <1>1, <1>2

(* Sets whose members are all equal. *)
LEMMA AtMostOne ==
    ASSUME NEW S, \A x, y \in S : x = y
    PROVE  Cardinality(S) <= 1
  <1>1. CASE S = {}
    BY <1>1, FS_EmptySet
  <1>2. ASSUME NEW x \in S
        PROVE  Cardinality(S) <= 1
    <2>1. S = {x}
      OBVIOUS
    <2> QED
      BY <2>1, FS_Singleton
  <1> QED
    BY <1>1, <1>2

-----------------------------------------------------------------------------
(* The invariant: rows that refer to each other, unique emails, and, until  *)
(* requests overlap, one request in flight that is right about what it read *)
THEOREM TeamInductive == TeamSpec => []TeamIInv
  BY TeamIInit, TeamIStep, PTL DEF TeamSpec

(* Type correctness of the operators' tables and requests. *)
THEOREM TeamTypeCorrect == TeamSpec => []TeamTypeOK
  <1>1. TeamIInv => TeamTypeOK
    BY DEF TeamIInv
  <1> QED
    BY <1>1, TeamInductive, PTL

(* While requests do not overlap, no sequence of provisioning, invites,     *)
(* edits and deaths makes a location list two owners or two store accounts, *)
(* or a request be about to (createOperatorUser, updateOperatorUser).       *)
THEOREM OneOwner == TeamSpec => []OneOwnerOneStoreAccount
  <1>1. TeamIInv => OneOwnerOneStoreAccount
    <2> SUFFICES ASSUME TeamIInv, ~tangled
                 PROVE  /\ \A o, p \in Owners \cap Counted : o = p
                        /\ \A o, p \in StoreAccounts \cap Counted : o = p
      BY AtMostOne DEF OneOwnerOneStoreAccount
    <2>1. OneListed /\ TeamAlone /\ \A s \in TeamSlots : TeamReady(s)
      BY DEF TeamIInv, Untangled
    <2>2. CASE \E s \in TeamSlots : Granting(s)
      <3>1. PICK s \in TeamSlots : Granting(s)
        BY <2>2
      <3> DEFINE o == Request(s).row
      <3>2. Counted \subseteq Listed \cup {o}
        BY <2>1, <3>1 DEF Counted, TeamAlone, Granting, Handling
      <3>3. Request(s).step \in {"grant", "regrant"} /\ Request(s).step \in Creating
        BY <3>1 DEF Granting, Handling, Request, Creating
      <3>4. /\ "owner" \in Request(s).change.role => ListedOwners \subseteq {o}
            /\ "store" \in Request(s).change.role => ListedStores \subseteq {o}
            /\ operators[o].role \in Request(s).change.role
        BY <2>1, <3>1, <3>3, Asked DEF TeamReady, TeamIInv
      <3>5. /\ o \in Owners => ListedOwners \subseteq {o}
            /\ o \in StoreAccounts => ListedStores \subseteq {o}
        BY <3>4 DEF Owners, StoreAccounts
      <3> HIDE DEF o
      <3> QED
        BY <2>1, <3>2, <3>5 DEF OneListed, ListedOwners, ListedStores
    <2>3. CASE ~\E s \in TeamSlots : Granting(s)
      BY <2>1, <2>3 DEF Counted, OneListed, ListedOwners, ListedStores
    <2> QED
      BY <2>2, <2>3
  <1> QED
    BY <1>1, TeamInductive, PTL

(* An owner invite is accepted once and a deleted operator is signed in     *)
(* nowhere (acceptOwnerInvite, deleteOperatorUser), unless requests overlap *)
THEOREM NobodyComesBack == TeamSpec => []NoWayBackIn
  <1>1. TeamIInv => NoWayBackIn
    BY TeamRows
       DEF TeamIInv, Untangled, InvitesOnce, NoWayBackIn, InviteIsOneTime, DeletedIsSignedOut
  <1> QED
    BY <1>1, TeamInductive, PTL
=============================================================================
