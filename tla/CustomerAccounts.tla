--------------------------- MODULE CustomerAccounts ---------------------------
(***************************************************************************)
(* The accounts, passkey and sessions of one customer                       *)
(* (services/identity/src/routes.ts, repository.ts): she signs in with      *)
(* Apple, with her email or with a passkey, refreshes and ends sessions,    *)
(* and deletes her account, from several devices at once.                   *)
(*                                                                         *)
(* Tables have no foreign keys. A statement of a transaction sees what was  *)
(* committed when it began; findOrCreate* read and then write, and deleting *)
(* an account locks its row only.                                           *)
(***************************************************************************)
EXTENDS Naturals, Sequences

CONSTANTS
    AccountSlots,     \* requests in flight
    MaxRows           \* bound: accounts, sessions and challenges ever made

ASSUME AccountsOK == MaxRows \in Nat \ {0}

VARIABLES
    accounts,    \* identity_users: has the row her Apple sub, email, token
    sessions,    \* identity_sessions: account, sign-in, revoked, challenge
    challenges,  \* identity_passkey_challenges
    passkey,     \* identity_passkey_credentials: the account of hers, or 0
    granted,     \* Apple: the app is authorized
    serving,     \* per slot: the next effect and what was read for it
    mingled      \* history: a request began while another was in flight

accountVars == <<accounts, sessions, challenges, passkey, granted, serving, mingled>>

NoAccount == [exists |-> FALSE, sub |-> FALSE, email |-> FALSE, token |-> FALSE]
Unserved == [step |-> "idle", account |-> 0, email |-> FALSE, token |-> FALSE,
             held |-> FALSE, on |-> 0, seen |-> {}]

AccountsInit ==
    /\ accounts = <<>>
    /\ sessions = <<>>
    /\ challenges = <<>>
    /\ passkey = 0
    /\ granted = FALSE
    /\ serving = [s \in AccountSlots |-> Unserved]
    /\ mingled = FALSE

Room == Len(accounts) + Len(sessions) + Len(challenges) < MaxRows

Existing == {a \in DOMAIN accounts : accounts[a].exists}
Live(i) == ~sessions[i].revoked

Serving(s, step) == serving[s].step = step
Begin(s, request) ==
    /\ Serving(s, "idle")
    /\ serving' = [serving EXCEPT ![s] = request]
    /\ mingled' = (mingled \/ \E t \in AccountSlots : ~Serving(t, "idle"))
Then(s, step) == serving' = [serving EXCEPT ![s].step = step]
ThenIssue(s, a) ==
    serving' = [serving EXCEPT ![s] = [Unserved EXCEPT !.step = "issue", !.account = a]]
Done(s) == serving' = [serving EXCEPT ![s] = Unserved]

(* deleteCustomerAccount of another request holds the row. *)
Locked(a) == \E s \in AccountSlots : Serving(s, "erase") /\ serving[s].account = a

(* The row of hers with this mark, or 0: there are unique indexes.          *)
Row(rows) == IF rows = {} THEN 0 ELSE CHOOSE a \in rows : TRUE
BySub == Row({a \in Existing : accounts[a].sub})
ByEmail == Row({a \in Existing : accounts[a].email})

-----------------------------------------------------------------------------
(* Signing in with Apple or, for development, with the email alone.         *)

(* Apple exchanges the code, with a refresh token or without; the identity  *)
(* token has her email or not. findOrCreateUserByAppleSub reads the rows.   *)
BeginApple(s, email, token) ==
    /\ LET a == IF BySub = 0 /\ email THEN ByEmail ELSE BySub
       IN  Begin(s, [Unserved EXCEPT !.step = "link", !.account = a, !.email = email,
               !.token = token, !.held = token \/ (a # 0 /\ accounts[a].token)])
    /\ granted' = TRUE
    /\ UNCHANGED <<accounts, sessions, challenges, passkey>>

(* A row that was found is updated, though it may be gone by now; when the *)
(* email is another row's nothing of it is, the refresh token included, and *)
(* when the sub is, the transaction fails. No row found: a new one is       *)
(* inserted; when it conflicts, the transaction is aborted and fails.       *)
(* Without a refresh token the request ends with 502.                       *)
LinkApple(s) ==
    LET a == serving[s].account
        email == serving[s].email
        mailed == email /\ ByEmail \notin {0, a}
        linked == accounts[a].exists /\ BySub \notin {0, a}
    IN  /\ Serving(s, "link")
        /\ \/ /\ a # 0 /\ ~Locked(a) /\ ~linked
              /\ accounts' = IF ~accounts[a].exists \/ mailed THEN accounts ELSE
                    [accounts EXCEPT ![a].sub = TRUE, ![a].email = @ \/ email,
                                     ![a].token = @ \/ serving[s].token]
              /\ IF serving[s].held THEN ThenIssue(s, a) ELSE Done(s)
           \/ /\ a = 0 /\ BySub = 0 /\ ~mailed
              /\ Room
              /\ accounts' = Append(accounts, [exists |-> TRUE, sub |-> TRUE,
                    email |-> email, token |-> serving[s].token])
              /\ IF serving[s].held THEN ThenIssue(s, Len(accounts) + 1) ELSE Done(s)
           \/ /\ IF a = 0 THEN BySub # 0 \/ mailed ELSE linked
              /\ Done(s)
              /\ UNCHANGED accounts
        /\ UNCHANGED <<sessions, challenges, passkey, granted, mingled>>

(* findOrCreateUserByEmail, one transaction that has nothing to update. The *)
(* profile is read after it; a 404 there ends the request as a death does.  *)
BeginEmail(s) ==
    /\ \/ ByEmail # 0 /\ ~Locked(ByEmail) /\ UNCHANGED accounts
       \/ /\ ByEmail = 0 /\ Room
          /\ accounts' = Append(accounts, [NoAccount EXCEPT !.exists = TRUE, !.email = TRUE])
    /\ Begin(s, [Unserved EXCEPT !.step = "issue", !.account =
          IF ByEmail = 0 THEN Len(accounts) + 1 ELSE ByEmail])
    /\ UNCHANGED <<sessions, challenges, passkey, granted>>

(* issueSession. Bound: MaxRows. *)
IssueSession(s) ==
    /\ Serving(s, "issue")
    /\ Room
    /\ sessions' = Append(sessions, [account |-> serving[s].account,
          signIn |-> Len(sessions) + 1, revoked |-> FALSE, challenge |-> serving[s].on])
    /\ Done(s)
    /\ UNCHANGED <<accounts, challenges, passkey, granted, mingled>>

-----------------------------------------------------------------------------
(* Passkeys. The app registers for the account it is signed in to; to       *)
(* authenticate it names that account or none.                              *)

SaveChallenge(flow, a) ==
    /\ a \in Existing \cup (IF flow = "auth" THEN {0} ELSE {})
    /\ Room
    /\ challenges' = Append(challenges, [flow |-> flow, account |-> a, open |-> TRUE])
    /\ UNCHANGED <<accounts, sessions, passkey, granted, serving, mingled>>

(* getPasskeyChallenge, of a challenge that is there and not consumed. *)
BeginRegister(s, c) ==
    /\ challenges[c].flow = "register" /\ challenges[c].open
    /\ Begin(s, [Unserved EXCEPT !.step = "credential", !.on = c,
                                 !.account = challenges[c].account])
    /\ UNCHANGED <<accounts, sessions, challenges, passkey, granted>>

(* savePasskeyCredential: inserted, or moved to this account. *)
SaveCredential(s) ==
    /\ Serving(s, "credential")
    /\ passkey' = serving[s].account
    /\ Then(s, "consume")
    /\ UNCHANGED <<accounts, sessions, challenges, granted, mingled>>

(* The credential is read and its counter written; it must be of the        *)
(* account the challenge names.                                             *)
BeginAuthenticate(s, c) ==
    /\ challenges[c].flow = "auth" /\ challenges[c].open
    /\ passkey # 0 /\ challenges[c].account \in {0, passkey}
    /\ Begin(s, [Unserved EXCEPT !.step = "consume", !.on = c, !.account = passkey])
    /\ UNCHANGED <<accounts, sessions, challenges, passkey, granted>>

ConsumeChallenge(s) ==
    /\ Serving(s, "consume")
    /\ challenges' = [challenges EXCEPT ![serving[s].on].open = FALSE]
    /\ Then(s, "issue")
    /\ UNCHANGED <<accounts, sessions, passkey, granted, mingled>>

-----------------------------------------------------------------------------
(* Sessions.                                                                *)

(* getSessionByRefreshToken *)
BeginRefresh(s, i) ==
    /\ Begin(s, [Unserved EXCEPT !.step = "rotate", !.on = i])
    /\ UNCHANGED <<accounts, sessions, challenges, passkey, granted>>

(* Mutant: what was read before the lock decides. *)
RotateSessionUnchecked(s) ==
    LET i == serving[s].on
    IN  /\ Serving(s, "rotate")
        /\ Room
        /\ sessions' = Append([sessions EXCEPT ![i].revoked = TRUE],
                              [sessions[i] EXCEPT !.revoked = FALSE])
        /\ Done(s)
        /\ UNCHANGED <<accounts, challenges, passkey, granted, mingled>>

(* Mutant: the session that is refreshed stays. *)
RotateSessionUnrevoked(s) ==
    LET i == serving[s].on
    IN  /\ Serving(s, "rotate")
        /\ Room
        /\ sessions' = IF Live(i) THEN Append(sessions, sessions[i]) ELSE sessions
        /\ Done(s)
        /\ UNCHANGED <<accounts, challenges, passkey, granted, mingled>>

(* rotateRefreshSession: under the row's lock, one that is still live and   *)
(* not expired is revoked and followed by another of the same sign-in.      *)
RotateSession(s) ==
    LET i == serving[s].on
    IN  /\ Serving(s, "rotate")
        /\ \/ UNCHANGED sessions
           \/ /\ Live(i) /\ Room
              /\ sessions' = Append([sessions EXCEPT ![i].revoked = TRUE], sessions[i])
        /\ Done(s)
        /\ UNCHANGED <<accounts, challenges, passkey, granted, mingled>>

(* Logging out; or a refresh that finds the session past its absolute       *)
(* lifetime. Time is not modelled: any session may be past it.              *)
Logout(i) ==
    /\ Live(i)
    /\ sessions' = [sessions EXCEPT ![i].revoked = TRUE]
    /\ UNCHANGED <<accounts, challenges, passkey, granted, serving, mingled>>

-----------------------------------------------------------------------------
(* Deleting the account.                                                    *)

(* The account of a live session. Without Apple it is deleted; with Apple   *)
(* the stored refresh token is revoked first, and without one it is 409.    *)
BeginDelete(s, i) ==
    LET a == sessions[i].account
    IN  /\ Live(i)
        /\ Begin(s, [Unserved EXCEPT !.step =
              IF accounts[a].exists /\ accounts[a].sub THEN "revoke" ELSE "lock",
              !.account = a])
        /\ accounts[a].exists /\ accounts[a].sub => accounts[a].token
        /\ UNCHANGED <<accounts, sessions, challenges, passkey, granted>>

(* Apple may refuse. *)
RevokeApple(s) ==
    /\ Serving(s, "revoke")
    /\ \/ granted' = FALSE /\ Then(s, "lock")
       \/ Done(s) /\ UNCHANGED granted
    /\ UNCHANGED <<accounts, sessions, challenges, passkey, mingled>>

(* deleteCustomerAccount locks the row, and deletes what it sees of the     *)
(* account in the other tables; 404 when the row is gone.                   *)
LockAccount(s) ==
    LET a == serving[s].account
    IN  /\ Serving(s, "lock")
        /\ ~Locked(a)
        /\ IF accounts[a].exists
           THEN serving' = [serving EXCEPT ![s].step = "erase",
                   ![s].seen = {i \in DOMAIN sessions : sessions[i].account = a}]
           ELSE Done(s)
        /\ UNCHANGED <<accounts, sessions, challenges, passkey, granted, mingled>>

(* A deleted row is kept as a revoked session, or a closed challenge, that  *)
(* no request accepts.                                                      *)
EraseAccount(s) ==
    LET a == serving[s].account
    IN  /\ Serving(s, "erase")
        /\ accounts' = [accounts EXCEPT ![a] = NoAccount]
        /\ passkey' = IF passkey = a THEN 0 ELSE passkey
        /\ challenges' = [c \in DOMAIN challenges |-> IF challenges[c].account # a
              THEN challenges[c] ELSE [challenges[c] EXCEPT !.open = FALSE]]
        /\ sessions' = [i \in DOMAIN sessions |-> IF i \notin serving[s].seen
              THEN sessions[i] ELSE [sessions[i] EXCEPT !.revoked = TRUE]]
        /\ Done(s)
        /\ UNCHANGED <<granted, mingled>>

AccountRequestDies(s) ==
    /\ ~Serving(s, "idle")
    /\ Done(s)
    /\ UNCHANGED <<accounts, sessions, challenges, passkey, granted, mingled>>

-----------------------------------------------------------------------------
AccountsStep(s) ==
    \/ LinkApple(s) \/ IssueSession(s)
    \/ SaveCredential(s) \/ ConsumeChallenge(s)
    \/ RotateSession(s) \/ RevokeApple(s) \/ LockAccount(s) \/ EraseAccount(s)

AccountsNext ==
    \/ \E s \in AccountSlots :
          \/ AccountsStep(s) \/ AccountRequestDies(s) \/ BeginEmail(s)
          \/ \E email, token \in BOOLEAN : BeginApple(s, email, token)
          \/ \E c \in DOMAIN challenges : BeginRegister(s, c) \/ BeginAuthenticate(s, c)
          \/ \E i \in DOMAIN sessions : BeginRefresh(s, i) \/ BeginDelete(s, i)
    \/ \E flow \in {"register", "auth"}, a \in 0..MaxRows : SaveChallenge(flow, a)
    \/ \E i \in DOMAIN sessions : Logout(i)

AccountsSpec == AccountsInit /\ [][AccountsNext]_accountVars

-----------------------------------------------------------------------------
(* Properties.                                                              *)

AccountRows == [exists : BOOLEAN, sub : BOOLEAN, email : BOOLEAN, token : BOOLEAN]
SessionRows == [account : 1..MaxRows, signIn : 1..MaxRows, revoked : BOOLEAN,
                challenge : 0..MaxRows]
ChallengeRows == [flow : {"register", "auth"}, account : 0..MaxRows, open : BOOLEAN]
AccountSteps == {"idle", "link", "issue", "credential", "consume", "rotate", "revoke",
                 "lock", "erase"}
AccountRequests ==
    [step : AccountSteps, account : 0..MaxRows, email : BOOLEAN, token : BOOLEAN, held : BOOLEAN,
     on : 0..MaxRows, seen : SUBSET (1..MaxRows)]

AccountsTypeOK ==
    /\ accounts \in Seq(AccountRows)
    /\ sessions \in Seq(SessionRows)
    /\ challenges \in Seq(ChallengeRows)
    /\ Len(accounts) + Len(sessions) + Len(challenges) <= MaxRows
    /\ passkey \in 0..MaxRows
    /\ granted \in BOOLEAN
    /\ serving \in [AccountSlots -> AccountRequests]
    /\ mingled \in BOOLEAN

(* "allows only one concurrent refresh rotation for the same token"         *)
(* (services/identity/test/health.test.ts:409): however refreshes overlap,  *)
(* one session of a sign-in is live.                                        *)
OneLiveSession ==
    \A i, j \in DOMAIN sessions :
        i # j /\ Live(i) /\ Live(j) => sessions[i].signIn # sessions[j].signIn

(* A sign-in that was ended, by logout, by its lifetime or by deleting the  *)
(* account, is not taken up again by a refresh that began before.           *)
EndedStaysEnded ==
    \A i \in DOMAIN sessions :
        (\A j \in DOMAIN sessions : sessions[j].signIn = sessions[i].signIn => ~Live(j))
        => \A j \in DOMAIN sessions' :
              sessions'[j].signIn = sessions[i].signIn => sessions'[j].revoked

(* "deletes the authenticated customer account and invalidates the session" *)
(* (services/identity/test/health.test.ts:351), while requests of the       *)
(* customer do not overlap: what can be used belongs to an account.         *)
NothingOutlivesAccount ==
    ~mingled =>
        /\ \A i \in DOMAIN sessions : Live(i) => sessions[i].account \in Existing
        /\ passkey # 0 => passkey \in Existing

(* "revokes the stored Apple token before deleting the account"             *)
(* (services/identity/test/apple-auth.test.ts:106): a step that deletes an  *)
(* account made with Apple leaves the app unauthorized there, unless        *)
(* requests overlap.                                                        *)
GrantEndsWithAccount ==
    ~mingled /\ BySub # 0 /\ ~accounts'[BySub].exists => ~granted'

(* A passkey challenge is answered with one sign-in, unless two answers     *)
(* overlap.                                                                 *)
ChallengeAnsweredOnce ==
    ~mingled => \A i, j \in DOMAIN sessions :
        sessions[i].challenge = sessions[j].challenge /\ sessions[i].challenge # 0
            => sessions[i].signIn = sessions[j].signIn

(* Refresh tokens and passkey challenges are good for one use.              *)
CredentialsUsedOnce == OneLiveSession /\ ChallengeAnsweredOnce

(* No step takes up what was ended, and deleting an account takes its       *)
(* sessions, its passkey and Apple's grant along.                           *)
EndingsAreFinal ==
    [][EndedStaysEnded /\ NothingOutlivesAccount' /\ GrantEndsWithAccount]_accountVars
=============================================================================
