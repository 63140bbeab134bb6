------------------------------ MODULE AppSession ------------------------------
(***************************************************************************)
(* The session the mobile app keeps (apps/mobile/src/auth/session.tsx,      *)
(* sessionStore.ts; 401 answers in packages/sdk-mobile/src/index.ts), in    *)
(* memory and in secure storage, against the refresh tokens the identity    *)
(* service takes (CustomerAccounts, here one step per request).             *)
(*                                                                         *)
(* A token is a number, 0 is none. Calls of the app are asynchronous: its   *)
(* functions run up to the next await. Secure storage does not fail.        *)
(***************************************************************************)
EXTENDS Naturals

CONSTANTS
    MaxTokens,        \* bound: tokens ever issued
    MaxSessionFaults  \* bound: lost calls, ended sessions, kills in a call

ASSUME AppOK == MaxTokens \in Nat \ {0} /\ MaxSessionFaults \in Nat

VARIABLES
    issued,      \* tokens issued so far
    accepted,    \* refresh tokens the service accepts
    held,        \* sessionRef and session: the token in memory
    stored,      \* the token in secure storage
    hydrating,   \* isHydrating: the app is starting
    refreshing,  \* the refresh in flight: where, with and for which token
    leaving,     \* signOut or deleteAccount in flight
    entering,    \* signIn that is being stored: its token
    sessionFaults,
    crossed,  \* history: leaving overlapped a refresh
    signedOut    \* history: she left, and has not come back since

appVars == <<issued, accepted, held, stored, hydrating, refreshing, leaving,
             entering, sessionFaults, crossed, signedOut>>

NoRefresh == [at |-> "idle", with |-> 0, got |-> 0]
Staying == [at |-> "idle", with |-> 0]

AppInit ==
    /\ issued = 0 /\ accepted = {}
    /\ held = 0 /\ stored = 0
    /\ hydrating = TRUE
    /\ refreshing = NoRefresh /\ leaving = Staying /\ entering = 0
    /\ sessionFaults = 0 /\ crossed = FALSE /\ signedOut = FALSE

Refreshing(at) == refreshing.at = at
Leaving(at) == leaving.at = at
SessionFault == sessionFaults < MaxSessionFaults /\ sessionFaults' = sessionFaults + 1
Issue(t) == issued < MaxTokens /\ issued' = issued + 1 /\ t = issued + 1

-----------------------------------------------------------------------------
(* Starting: what is stored is used, or refreshed first when it expires soon. *)
Hydrate ==
    /\ hydrating /\ Refreshing("idle")
    /\ \/ hydrating' = FALSE /\ held' = stored /\ UNCHANGED refreshing
       \/ /\ stored # 0
          /\ refreshing' = [at |-> "sent", with |-> stored, got |-> 0]
          /\ UNCHANGED <<hydrating, held>>
    /\ UNCHANGED <<issued, accepted, stored, leaving, entering, sessionFaults,
                   crossed, signedOut>>

SignIn ==
    /\ ~hydrating /\ held = 0 /\ Leaving("idle") /\ entering = 0
    /\ \E t \in 1..MaxTokens :
          Issue(t) /\ accepted' = accepted \cup {t} /\ held' = t /\ entering' = t
    /\ crossed' = (crossed \/ ~Refreshing("idle"))
    /\ signedOut' = FALSE
    /\ UNCHANGED <<stored, hydrating, refreshing, leaving, sessionFaults>>

StoreSignIn ==
    /\ entering # 0
    /\ stored' = entering
    /\ entering' = 0
    /\ UNCHANGED <<issued, accepted, held, hydrating, refreshing, leaving,
                   sessionFaults, crossed, signedOut>>

-----------------------------------------------------------------------------
(* Refreshing: a timer, the app coming to the front, or a 401 asks for it;  *)
(* refreshInFlightRef keeps it to one.                                      *)
AskRefresh ==
    /\ Refreshing("idle") /\ held # 0
    /\ refreshing' = [at |-> "sent", with |-> held, got |-> 0]
    /\ crossed' = (crossed \/ ~Leaving("idle") \/ entering # 0)
    /\ UNCHANGED <<issued, accepted, held, stored, hydrating, leaving, entering,
                   sessionFaults, signedOut>>

ServeRefresh ==
    /\ Refreshing("sent")
    /\ IF refreshing.with \in accepted
       THEN \E t \in 1..MaxTokens :
               /\ Issue(t)
               /\ accepted' = (accepted \ {refreshing.with}) \cup {t}
               /\ refreshing' = [refreshing EXCEPT !.at = "answered", !.got = t]
       ELSE /\ refreshing' = [refreshing EXCEPT !.at = "failed"]
            /\ UNCHANGED <<issued, accepted>>
    /\ UNCHANGED <<held, stored, hydrating, leaving, entering, sessionFaults,
                   crossed, signedOut>>

(* The request or its answer is lost. *)
LoseRefresh ==
    /\ Refreshing("sent") \/ Refreshing("answered")
    /\ SessionFault
    /\ refreshing' = [refreshing EXCEPT !.at = "failed"]
    /\ UNCHANGED <<issued, accepted, held, stored, hydrating, leaving, entering,
                   crossed, signedOut>>

(* signIn(nextSession) *)
TakeRefreshed ==
    /\ Refreshing("answered")
    /\ held' = refreshing.got
    /\ refreshing' = [refreshing EXCEPT !.at = "saving"]
    /\ UNCHANGED <<issued, accepted, stored, hydrating, leaving, entering,
                   sessionFaults, crossed, signedOut>>

(* Mutant: only a sign-in is stored. *)
StoreRefreshedNever ==
    /\ Refreshing("saving")
    /\ refreshing' = NoRefresh
    /\ hydrating' = FALSE
    /\ UNCHANGED <<issued, accepted, held, stored, leaving, entering, sessionFaults,
                   crossed, signedOut>>

StoreRefreshed ==
    /\ Refreshing("saving")
    /\ stored' = refreshing.got
    /\ refreshing' = NoRefresh
    /\ hydrating' = FALSE
    /\ UNCHANGED <<issued, accepted, held, leaving, entering, sessionFaults,
                   crossed, signedOut>>

(* The session is cleared, unless it is another one by now. *)
RefreshFails ==
    /\ Refreshing("failed")
    /\ IF hydrating \/ held = refreshing.with
       THEN held' = 0 /\ refreshing' = [refreshing EXCEPT !.at = "clearing"]
       ELSE refreshing' = NoRefresh /\ UNCHANGED held
    /\ UNCHANGED <<issued, accepted, stored, hydrating, leaving, entering,
                   sessionFaults, crossed, signedOut>>

ClearExpired ==
    /\ Refreshing("clearing")
    /\ stored' = 0
    /\ refreshing' = NoRefresh
    /\ hydrating' = FALSE
    /\ UNCHANGED <<issued, accepted, held, leaving, entering, sessionFaults,
                   crossed, signedOut>>

-----------------------------------------------------------------------------
(* Leaving: signOut revokes the token as well as it can; deleteAccount goes *)
(* on only when the account is deleted.                                     *)
BeginLeaving(how) ==
    /\ ~hydrating /\ held # 0 /\ Leaving("idle")
    /\ leaving' = [at |-> how, with |-> held]
    /\ crossed' = (crossed \/ ~Refreshing("idle") \/ entering # 0)
    /\ UNCHANGED <<issued, accepted, held, stored, hydrating, refreshing, entering,
                   sessionFaults, signedOut>>

ServeLeaving ==
    /\ leaving.at \in {"signOut", "delete"}
    /\ accepted' = IF Leaving("delete") THEN {} ELSE accepted \ {leaving.with}
    /\ leaving' = [leaving EXCEPT !.at = "served"]
    /\ UNCHANGED <<issued, held, stored, hydrating, refreshing, entering,
                   sessionFaults, crossed, signedOut>>

LoseLeaving ==
    /\ leaving.at \in {"signOut", "delete"}
    /\ SessionFault
    /\ accepted' \in {accepted, IF Leaving("delete") THEN {} ELSE accepted \ {leaving.with}}
    /\ leaving' = IF Leaving("delete") THEN Staying ELSE [leaving EXCEPT !.at = "served"]
    /\ UNCHANGED <<issued, held, stored, hydrating, refreshing, entering,
                   crossed, signedOut>>

ClearHeld ==
    /\ Leaving("served")
    /\ held' = 0
    /\ leaving' = [leaving EXCEPT !.at = "clearing"]
    /\ UNCHANGED <<issued, accepted, stored, hydrating, refreshing, entering,
                   sessionFaults, crossed, signedOut>>

ClearStored ==
    /\ Leaving("clearing")
    /\ stored' = 0
    /\ leaving' = Staying
    /\ signedOut' = TRUE
    /\ UNCHANGED <<issued, accepted, held, hydrating, refreshing, entering,
                   sessionFaults, crossed>>

-----------------------------------------------------------------------------
(* The app is closed, at rest or in the middle of something. *)
Restart ==
    /\ IF Refreshing("idle") /\ Leaving("idle") /\ entering = 0
       THEN UNCHANGED sessionFaults ELSE SessionFault
    /\ held' = 0 /\ hydrating' = TRUE
    /\ refreshing' = NoRefresh /\ leaving' = Staying /\ entering' = 0
    /\ UNCHANGED <<issued, accepted, stored, crossed, signedOut>>

(* Its lifetime is over, or the account is deleted elsewhere. *)
EndSession(t) ==
    /\ t \in accepted
    /\ SessionFault
    /\ accepted' = accepted \ {t}
    /\ UNCHANGED <<issued, held, stored, hydrating, refreshing, leaving, entering,
                   crossed, signedOut>>

AppNext ==
    \/ Hydrate \/ SignIn \/ StoreSignIn \/ Restart
    \/ AskRefresh \/ ServeRefresh \/ LoseRefresh \/ TakeRefreshed
    \/ StoreRefreshed \/ RefreshFails \/ ClearExpired
    \/ BeginLeaving("signOut") \/ BeginLeaving("delete")
    \/ ServeLeaving \/ LoseLeaving \/ ClearHeld \/ ClearStored
    \/ \E t \in 1..MaxTokens : EndSession(t)

AppSpec == AppInit /\ [][AppNext]_appVars

-----------------------------------------------------------------------------
(* Properties.                                                              *)

AppTypeOK ==
    /\ issued \in 0..MaxTokens /\ accepted \subseteq 1..MaxTokens
    /\ held \in 0..MaxTokens /\ stored \in 0..MaxTokens /\ entering \in 0..MaxTokens
    /\ refreshing \in
          [at : {"idle", "sent", "answered", "saving", "failed", "clearing"},
           with : 0..MaxTokens, got : 0..MaxTokens]
    /\ leaving \in [at : {"idle", "signOut", "delete", "served", "clearing"},
                    with : 0..MaxTokens]
    /\ hydrating \in BOOLEAN /\ crossed \in BOOLEAN /\ signedOut \in BOOLEAN
    /\ sessionFaults \in 0..MaxSessionFaults

(* An app at rest holds in memory what it has stored, the service accepts   *)
(* it, and accepts nothing the app does not hold: so a restart finds the    *)
(* customer signed in, and no session is left behind. Without faults, and   *)
(* when leaving or signing in overlapped no refresh.                        *)
HoldsAcceptedToken ==
    (sessionFaults = 0 /\ ~crossed /\ ~hydrating
        /\ Refreshing("idle") /\ Leaving("idle") /\ entering = 0) =>
        held = stored /\ accepted = {held} \ {0}

(* Whoever has signed out, or deleted the account, stays signed out on the  *)
(* device until she signs in, through restarts, kills and lost calls. A     *)
(* refresh in flight would bring the session back.                          *)
SignedOutStaysOut == signedOut /\ ~crossed => held = 0 /\ stored = 0

(* What the app holds and stores follows the session of the service: both   *)
(* of the above, through lost answers, restarts and sessions that end.      *)
DeviceFollowsSession == HoldsAcceptedToken /\ SignedOutStaysOut
=============================================================================
