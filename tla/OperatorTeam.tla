----------------------------- MODULE OperatorTeam -----------------------------
(***************************************************************************)
(* The dashboard team of one location (services/identity): the owner, whom  *)
(* the platform provisions or invites, and the managers and the store       *)
(* account she creates, edits and deletes. None of these requests is a      *)
(* transaction, and updateOperatorUser writes back the row as it read it.   *)
(* Operators of several locations, and the rotation of operator sessions    *)
(* (as in CustomerAccounts), are left out.                                  *)
(***************************************************************************)
EXTENDS Naturals, Sequences, FiniteSets

CONSTANTS
    Emails,
    TeamSlots,      \* requests in flight
    MaxTeamRows     \* bound: operators and owner invites ever made

ASSUME TeamOK == MaxTeamRows \in Nat /\ Emails # {}

VARIABLES
    operators,   \* operator_users, and whether operator_location_access has the row
    signedIn,    \* operators with a live row in operator_sessions
    invites,     \* operator_owner_invites
    handling,    \* per slot: the next effect and what was read for it
    tangled      \* history: a request or sign-in began while another was in flight

teamVars == <<operators, signedIn, invites, handling, tangled>>

(* What a request changes: at most one value for each column. *)
NoChange == [email |-> {}, role |-> {}, active |-> {}]
The(values) == CHOOSE value \in values : TRUE

(* A row that is gone. *)
Removed == [exists |-> FALSE, email |-> The(Emails), role |-> "manager", active |-> FALSE,
            access |-> FALSE]
Unhandled == [step |-> "idle", for |-> "team", operator |-> 0, row |-> 0,
              change |-> NoChange, invite |-> 0]

TeamInit ==
    /\ operators = <<>>
    /\ signedIn = {}
    /\ invites = <<>>
    /\ handling = [s \in TeamSlots |-> Unhandled]
    /\ tangled = FALSE

-----------------------------------------------------------------------------
RoomForRow == Len(operators) + Len(invites) < MaxTeamRows

Team == {o \in DOMAIN operators : operators[o].exists}
Owners == {o \in Team : operators[o].role = "owner"}
StoreAccounts == {o \in Team : operators[o].role = "store"}
WithEmail(email) == {o \in Team : operators[o].email = email}

(* Those listOperatorUsers(locationId) and ensureStoreAccountAvailable see, *)
(* which join the access rows.                                              *)
Listed == {o \in Team : operators[o].access}

(* resolveOperatorFromBearer and the capability team:write. *)
MayManage(o) == o \in signedIn /\ o \in Owners /\ operators[o].active

Handling(s, step) == handling[s].step = step
Request(s) == handling[s]
HandleFirst(s, request) ==
    /\ Handling(s, "idle")
    /\ handling' = [handling EXCEPT ![s] = request]
    /\ tangled' = (tangled \/ \E t \in TeamSlots : ~Handling(t, "idle"))
HandleNext(s, step) == handling' = [handling EXCEPT ![s].step = step]
HandleRow(s, step, o) == handling' = [handling EXCEPT ![s].step = step, ![s].row = o]
Finished(s) == handling' = [handling EXCEPT ![s] = Unhandled]

-----------------------------------------------------------------------------
(* The two writers of operator_users.                                       *)

(* createOperatorUser: inserts the row; when that fails, the email being    *)
(* taken, the row that has it is adopted. Either is then granted access, in *)
(* a statement of its own. Bound: MaxTeamRows.                              *)
InsertOperator(s) ==
    LET change == Request(s).change
    IN  /\ Handling(s, "insert")
        /\ \/ /\ WithEmail(The(change.email)) = {}
              /\ RoomForRow
              /\ operators' = Append(operators, [exists |-> TRUE, email |-> The(change.email),
                    role |-> The(change.role), active |-> TRUE, access |-> FALSE])
              /\ HandleRow(s, "grant", Len(operators) + 1)
           \/ /\ WithEmail(The(change.email)) # {}
              /\ HandleNext(s, "find")
              /\ UNCHANGED operators
        /\ UNCHANGED <<signedIn, invites, tangled>>

Granting(s) == Handling(s, "grant") \/ Handling(s, "regrant")

(* What the caller does with the operator: the team's route is done, and so *)
(* is a provisioning that found none before; the others update him.         *)
Created(s, o) ==
    CASE Request(s).for = "invite" ->
            handling' = [handling EXCEPT ![s].step = "read", ![s].operator = o]
      [] Request(s).for = "provision" /\ Request(s).operator # 0 ->
            handling' = [handling EXCEPT ![s].step = "read", ![s].change.email = {}]
      [] OTHER -> Finished(s)

(* grantOperatorLocationAccess of a row that is still there. *)
GrantAccess(s) ==
    LET o == Request(s).row
    IN  /\ Granting(s)
        /\ o \in Team
        /\ operators' = [operators EXCEPT ![o].access = TRUE]
        /\ Created(s, o)
        /\ UNCHANGED <<signedIn, invites, tangled>>

(* The grant fails: the first time as the insert does, the second for good, *)
(* like a request that dies.                                                *)
GrantFails(s) ==
    /\ Handling(s, "grant")
    /\ HandleNext(s, "find")
    /\ UNCHANGED <<operators, signedIn, invites, tangled>>

FindOperator(s) ==
    LET known == WithEmail(The(Request(s).change.email))
    IN  /\ Handling(s, "find")
        /\ \/ known = {} /\ Finished(s)
           \/ \E o \in known : HandleRow(s, "adopt", o)
        /\ UNCHANGED <<operators, signedIn, invites, tangled>>

AdoptOperator(s) ==
    LET o == Request(s).row
    IN  /\ Handling(s, "adopt")
        /\ operators' = IF o \notin Team THEN operators ELSE
              [operators EXCEPT ![o].role = The(Request(s).change.role), ![o].active = TRUE]
        /\ HandleNext(s, "regrant")
        /\ UNCHANGED <<signedIn, invites, tangled>>

Changed(value, change) == IF change = {} THEN value ELSE The(change)

(* updateOperatorUser finds no row: who provisions another email creates an *)
(* owner with it, who invites goes on, and the others are done.             *)
NothingToUpdate(s) ==
    CASE Request(s).for = "provision" /\ Request(s).change.email # {} ->
            handling' = [handling EXCEPT ![s].step = "insert", ![s].operator = 0]
      [] Request(s).for = "invite" -> HandleNext(s, "revoke")
      [] OTHER -> Finished(s)

(* Mutant: only the email is checked. *)
ReadOperatorAnyRole(s) ==
    LET o == Request(s).operator
        change == Request(s).change
        email == Changed(operators[o].email, change.email)
    IN  /\ Handling(s, "read")
        /\ \/ o \notin Team /\ NothingToUpdate(s)
           \/ /\ o \in Team /\ WithEmail(email) \subseteq {o}
              /\ handling' = [handling EXCEPT ![s].step = "write",
                    ![s].change = [email |-> {email},
                        role |-> {Changed(operators[o].role, change.role)},
                        active |-> {Changed(operators[o].active, change.active)}]]
           \/ o \in Team /\ ~(WithEmail(email) \subseteq {o}) /\ Finished(s)
        /\ UNCHANGED <<operators, signedIn, invites, tangled>>

(* updateOperatorUser reads the row and refuses another operator's email    *)
(* and a second store account; nobody catches a refusal of the platform's.  *)
ReadOperator(s) ==
    LET o == Request(s).operator
        change == Request(s).change
        email == Changed(operators[o].email, change.email)
        role == Changed(operators[o].role, change.role)
    IN  /\ Handling(s, "read")
        /\ \/ o \notin Team /\ NothingToUpdate(s)
           \/ /\ o \in Team /\ WithEmail(email) \subseteq {o}
              /\ role = "store" => StoreAccounts \cap Listed \subseteq {o}
              /\ handling' = [handling EXCEPT ![s].step = "write",
                    ![s].change = [email |-> {email}, role |-> {role},
                        active |-> {Changed(operators[o].active, change.active)}]]
           \/ /\ o \in Team
              /\ \/ ~(WithEmail(email) \subseteq {o})
                 \/ role = "store" /\ ~(StoreAccounts \cap Listed \subseteq {o})
              /\ Finished(s)
        /\ UNCHANGED <<operators, signedIn, invites, tangled>>

(* A row that is gone is not updated, and the read that follows throws; so  *)
(* does the unique index when the email was taken meanwhile.                *)
WriteOperator(s) ==
    LET o == Request(s).operator
        change == Request(s).change
        fails == o \notin Team \/ ~(WithEmail(The(change.email)) \subseteq {o})
    IN  /\ Handling(s, "write")
        /\ operators' = IF fails THEN operators ELSE
              [operators EXCEPT ![o].email = The(change.email), ![o].role = The(change.role),
                                ![o].active = The(change.active)]
        /\ IF fails \/ Request(s).for \in {"team", "provision"} THEN Finished(s)
           ELSE HandleNext(s, IF Request(s).for = "invite" THEN "revoke" ELSE "consume")
        /\ UNCHANGED <<signedIn, invites, tangled>>

-----------------------------------------------------------------------------
(* The owner's requests.                                                    *)

CreateOperator(s, by, email, role) ==
    /\ MayManage(by)
    /\ role # "owner"
    /\ WithEmail(email) = {}
    /\ role = "store" => StoreAccounts \cap Listed = {}
    /\ HandleFirst(s, [Unhandled EXCEPT !.step = "insert",
          !.change = [NoChange EXCEPT !.email = {email}, !.role = {role}]])
    /\ UNCHANGED <<operators, signedIn, invites>>

(* Nobody is made an owner here, nor deactivates herself. *)
UpdateOperator(s, by, o, change) ==
    /\ MayManage(by)
    /\ o \in Team
    /\ "owner" \notin change.role
    /\ by = o => FALSE \notin change.active
    /\ HandleFirst(s, [Unhandled EXCEPT !.step = "read", !.operator = o, !.change = change])
    /\ UNCHANGED <<operators, signedIn, invites>>

DeleteOperator(s, by, o) ==
    /\ MayManage(by)
    /\ o \in Team \ Owners
    /\ HandleFirst(s, [Unhandled EXCEPT !.step = "end", !.operator = o])
    /\ UNCHANGED <<operators, signedIn, invites>>

(* Mutant: the sessions stay. *)
EndSessionsNever(s) ==
    /\ Handling(s, "end")
    /\ HandleNext(s, "detach")
    /\ UNCHANGED <<operators, signedIn, invites, tangled>>

EndSessions(s) ==
    /\ Handling(s, "end")
    /\ signedIn' = signedIn \ {Request(s).operator}
    /\ HandleNext(s, "detach")
    /\ UNCHANGED <<operators, invites, tangled>>

DetachInvites(s) ==
    /\ Handling(s, "detach")
    /\ invites' = [i \in DOMAIN invites |-> IF invites[i].operator = Request(s).operator
                      THEN [invites[i] EXCEPT !.operator = 0] ELSE invites[i]]
    /\ HandleNext(s, "remove")
    /\ UNCHANGED <<operators, signedIn, tangled>>

RemoveOperator(s) ==
    /\ Handling(s, "remove")
    /\ operators' = [operators EXCEPT ![Request(s).operator] = Removed]
    /\ Finished(s)
    /\ UNCHANGED <<signedIn, invites, tangled>>

-----------------------------------------------------------------------------
(* The platform's requests.                                                 *)

(* provisionOwnerAccess: the owner there is gets the email; otherwise the   *)
(* operator with that email, or a new one, becomes the owner, and one known *)
(* before is then updated.                                                  *)
ProvisionOwner(s, email) ==
    /\ LET change == [email |-> {email}, role |-> {"owner"}, active |-> {TRUE}]
           known == WithEmail(email)
       IN  IF Owners \cap Listed # {}
           THEN \E o \in Owners \cap Listed :
              HandleFirst(s, [Unhandled EXCEPT !.for = "provision", !.operator = o,
                 !.step = IF operators[o].email = email THEN "insert" ELSE "read",
                 !.change = change])
           ELSE HandleFirst(s, [Unhandled EXCEPT !.step = "insert", !.for = "provision",
              !.operator = IF known = {} THEN 0 ELSE CHOOSE o \in known : TRUE,
              !.change = change])
    /\ UNCHANGED <<operators, signedIn, invites>>

(* createOwnerInvite, and resendOwnerInvite: the owner, who is created when *)
(* there is none, is deactivated.                                           *)
InviteOwner(s, email) ==
    /\ LET change == [email |-> {email}, role |-> {"owner"}, active |-> {FALSE}]
           invite == [Unhandled EXCEPT !.for = "invite", !.change = change]
       IN  IF Owners \cap Listed = {} THEN HandleFirst(s, [invite EXCEPT !.step = "insert"])
           ELSE \E o \in Owners \cap Listed :
                   HandleFirst(s, [invite EXCEPT !.step = "read", !.operator = o])
    /\ UNCHANGED <<operators, signedIn, invites>>

(* Those to the same email. *)
RevokeInvites(s) ==
    /\ Handling(s, "revoke")
    /\ invites' = [i \in DOMAIN invites |->
          IF invites[i].email \in Request(s).change.email /\ invites[i].status = "pending"
          THEN [invites[i] EXCEPT !.status = "revoked"] ELSE invites[i]]
    /\ HandleNext(s, "send")
    /\ UNCHANGED <<operators, signedIn, tangled>>

(* The row is inserted and the email sent, which may fail; sent_at is left  *)
(* out. Bound: MaxTeamRows.                                                  *)
SendInvite(s) ==
    /\ Handling(s, "send")
    /\ RoomForRow
    /\ invites' = Append(invites, [operator |-> Request(s).operator, accepted |-> 0,
          email |-> The(Request(s).change.email), status |-> "pending"])
    /\ Finished(s)
    /\ UNCHANGED <<operators, signedIn, tangled>>

(* acceptOwnerInvite, of an invite that is pending and not expired; when    *)
(* its operator was deleted it fails.                                       *)
AcceptInvite(s, i) ==
    /\ invites[i].status = "pending" /\ invites[i].operator # 0
    /\ HandleFirst(s, [Unhandled EXCEPT !.step = "read", !.for = "accept", !.invite = i,
          !.operator = invites[i].operator, !.change = [NoChange EXCEPT !.active = {TRUE}]])
    /\ UNCHANGED <<operators, signedIn, invites>>

(* A consumed invite shows as consumed even when it was revoked meanwhile.  *)
ConsumeInvite(s) ==
    /\ Handling(s, "consume")
    /\ invites' = [invites EXCEPT ![Request(s).invite].status = "consumed",
                                  ![Request(s).invite].accepted = @ + 1]
    /\ Finished(s)
    /\ UNCHANGED <<operators, signedIn, tangled>>

-----------------------------------------------------------------------------
(* Password, Google and development sign-in find an active operator.        *)
OperatorSignIn(o) ==
    /\ o \in Team \ signedIn /\ operators[o].active
    /\ signedIn' = signedIn \cup {o}
    /\ tangled' = (tangled \/ \E s \in TeamSlots : Request(s).operator = o)
    /\ UNCHANGED <<operators, invites, handling>>

(* Logging out, or a session that expires. *)
OperatorSignOut(o) ==
    /\ o \in signedIn
    /\ signedIn' = signedIn \ {o}
    /\ UNCHANGED <<operators, invites, handling, tangled>>

TeamRequestDies(s) ==
    /\ ~Handling(s, "idle")
    /\ Finished(s)
    /\ UNCHANGED <<operators, signedIn, invites, tangled>>

-----------------------------------------------------------------------------
TeamStep(s) ==
    \/ InsertOperator(s) \/ GrantAccess(s) \/ GrantFails(s)
    \/ FindOperator(s) \/ AdoptOperator(s)
    \/ ReadOperator(s) \/ WriteOperator(s)
    \/ EndSessions(s) \/ DetachInvites(s) \/ RemoveOperator(s)
    \/ RevokeInvites(s) \/ SendInvite(s) \/ ConsumeInvite(s)

Changes == {[NoChange EXCEPT !.email = {e}] : e \in Emails}
    \cup {[NoChange EXCEPT !.role = {r}] : r \in {"manager", "store"}}
    \cup {[NoChange EXCEPT !.active = {b}] : b \in BOOLEAN}

TeamNext ==
    \/ \E s \in TeamSlots :
          \/ TeamStep(s) \/ TeamRequestDies(s)
          \/ \E email \in Emails : ProvisionOwner(s, email) \/ InviteOwner(s, email)
          \/ \E i \in DOMAIN invites : AcceptInvite(s, i)
          \/ \E by \in signedIn :
                \/ \E email \in Emails, role \in {"manager", "store"} :
                      CreateOperator(s, by, email, role)
                \/ \E o \in Team : DeleteOperator(s, by, o)
                \/ \E o \in Team, change \in Changes : UpdateOperator(s, by, o, change)
    \/ \E o \in DOMAIN operators : OperatorSignIn(o) \/ OperatorSignOut(o)

TeamSpec == TeamInit /\ [][TeamNext]_teamVars

-----------------------------------------------------------------------------
(* Properties.                                                              *)

Roles == {"owner", "manager", "store"}
OperatorRows == [exists : BOOLEAN, email : Emails, role : Roles, active : BOOLEAN,
                 access : BOOLEAN]
InviteRows == [operator : 0..MaxTeamRows, accepted : Nat, email : Emails,
               status : {"pending", "revoked", "consumed"}]
TeamSteps == {"idle", "insert", "grant", "find", "adopt", "regrant", "read", "write",
              "end", "detach", "remove", "revoke", "send", "consume"}
TeamChanges == [email : SUBSET Emails, role : SUBSET Roles, active : SUBSET BOOLEAN]
TeamRequests == [step : TeamSteps, for : {"team", "provision", "invite", "accept"},
                 operator : 0..MaxTeamRows, row : 0..MaxTeamRows, change : TeamChanges,
                 invite : 0..MaxTeamRows]

TeamTypeOK ==
    /\ operators \in Seq(OperatorRows)
    /\ invites \in Seq(InviteRows)
    /\ Len(operators) + Len(invites) <= MaxTeamRows
    /\ signedIn \subseteq DOMAIN operators
    /\ handling \in [TeamSlots -> TeamRequests]
    /\ tangled \in BOOLEAN
    /\ \A o, p \in Team : operators[o].email = operators[p].email => o = p

(* The accounts the location lists, or a request is about to list.          *)
Counted == Listed \cup {o \in Team : \E s \in TeamSlots : Granting(s) /\ Request(s).row = o}

(* "updates the existing location owner when the email is corrected"        *)
(* (services/identity/test/provisioning.test.ts:96): while requests do not  *)
(* overlap a location counts one owner at most, and one store account ("A   *)
(* store screen account already exists for this location", routes.ts:2023), *)
(* whatever sequence of provisioning, invites and edits led there, and      *)
(* though requests die. An account whose request died before access was     *)
(* granted is not counted, for the location does not list it, though it can *)
(* sign in and another may be made beside it; nor does it ever become the   *)
(* second of its role that is listed.                                       *)
OneOwnerOneStoreAccount ==
    ~tangled => /\ Cardinality(Owners \cap Counted) <= 1
                /\ Cardinality(StoreAccounts \cap Counted) <= 1

(* "accepts the one-time link" (operator-auth.test.ts:713): an invite is    *)
(* accepted once, and replaces those sent to its email before, unless       *)
(* requests overlap.                                                        *)
InviteIsOneTime ==
    ~tangled =>
        /\ \A i \in DOMAIN invites : invites[i].accepted <= 1
        /\ \A i, j \in DOMAIN invites :
              invites[i].status = "pending" /\ invites[j].status = "pending"
              /\ invites[i].email = invites[j].email => i = j

(* An operator who was deleted is signed in nowhere, though deleting her is *)
(* three statements, any of which may be the last one done; unless requests *)
(* overlap, or she signs in between two of them.                            *)
DeletedIsSignedOut == ~tangled => signedIn \subseteq Team

(* Neither a used invite nor a deleted operator's session lets anyone in.   *)
NoWayBackIn == InviteIsOneTime /\ DeletedIsSignedOut
=============================================================================
