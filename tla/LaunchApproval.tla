---------------------------- MODULE LaunchApproval ----------------------------
(***************************************************************************)
(* A client on its way to launch: its onboarding progress in the catalog    *)
(* (services/catalog/src/repository.ts), which staff update and the         *)
(* platform's admin approves, and the gateway's route that checks the       *)
(* readiness before it passes an approval on                                *)
(* (services/gateway/src/routes.ts). Both handlers read the row, write some *)
(* of its columns, and then the status of the client, in two statements.    *)
(*                                                                         *)
(* Of the dates only whether they are set is here. owner_invited and        *)
(* owner_activated are written nowhere but at the creation, as false.       *)
(***************************************************************************)
EXTENDS Naturals

CONSTANTS
    Claims,        \* what staff tick off: "business", "operations", "menu", ...
    Facts,         \* what is looked up: "payments", "items", "release", "owner", ...
    StaffSlots,    \* staff updates in flight
    AdminSlots     \* the admin's approvals in flight

ASSUME LaunchOK == {"business", "operations"} \cap Claims # {}

VARIABLES
    shell,        \* whether the client was created
    progress,     \* catalog_onboarding_progress
    clientStatus, \* catalog_clients.status
    facts,        \* the facts that are so
    updating,     \* per staff slot: the next statement, the columns it writes
    approving,    \* per admin slot: the next step, what is asked, what was read
    upset         \* history: requests overlapped, or one died half way

launchVars == <<shell, progress, clientStatus, facts, updating, approving, upset>>

Statuses == {"draft", "invited", "in_progress", "ready_for_review", "approved",
             "live", "blocked"}

Untouched == [claims |-> {}, submitted |-> FALSE, approved |-> FALSE, live |-> FALSE,
              blocked |-> FALSE, status |-> "draft"]
NoUpdate == [step |-> "idle", row |-> Untouched]
NoApproval == [step |-> "idle", approved |-> FALSE, live |-> FALSE,
               claims |-> {}, launched |-> FALSE]

LaunchInit ==
    /\ shell = FALSE
    /\ progress = Untouched
    /\ clientStatus = "draft"
    /\ facts = {}
    /\ updating = [s \in StaffSlots |-> NoUpdate]
    /\ approving = [a \in AdminSlots |-> NoApproval]
    /\ upset = FALSE

-----------------------------------------------------------------------------
(* What a row and the facts amount to.                                      *)

(* menuHasVisibleItems, or staff say so. *)
MenuReady(claims) == "items" \in facts \/ "menu" \in claims

(* buildChecklist and readyForReview: all but what only the launch needs. *)
ReadyForReview(claims) ==
    /\ Claims \ {"menu"} \subseteq claims
    /\ MenuReady(claims)
    /\ Facts \cap {"payments"} \subseteq facts

(* The gateway's blockers, which have the release, the owner, the fulfilment *)
(* mode, the hours and the tax besides.                                     *)
Unblocked(claims) == ReadyForReview(claims) /\ Facts \ {"items"} \subseteq facts

(* deriveOnboardingStatus *)
ShownStatus(row) ==
    IF row.blocked THEN "blocked"
    ELSE IF row.live THEN "live"
    ELSE IF row.approved THEN "approved"
    ELSE IF ReadyForReview(row.claims) \/ row.submitted THEN "ready_for_review"
    ELSE IF row.claims \cap {"business", "operations"} # {} THEN "in_progress"
    ELSE row.status

Launched(row) == ShownStatus(row) \in {"approved", "live"}

-----------------------------------------------------------------------------
(* Requests.                                                                *)

Busy == (\E s \in StaffSlots : updating[s].step # "idle")
        \/ (\E a \in AdminSlots : approving[a].step # "idle")

(* createInternalClient: the location first, and then, in one transaction,  *)
(* the client with its first progress. The location alone can do nothing.   *)
CreateClient ==
    /\ ~shell
    /\ shell' = TRUE
    /\ UNCHANGED <<progress, clientStatus, facts, updating, approving, upset>>

(* updateInternalLocationOnboarding: the columns to write are what was read, *)
(* except what the update says. Those of the approval are not among them.   *)
Updated(claims, submit, blocked) ==
    [Untouched EXCEPT !.claims = claims, !.submitted = progress.submitted \/ submit,
        !.blocked = blocked,
        !.status = IF blocked THEN "blocked"
                   ELSE IF submit THEN "ready_for_review" ELSE progress.status]

(* One item is ticked off or taken back, the review is asked for, or the    *)
(* location is blocked or unblocked.                                        *)
BeginUpdate(s) ==
    /\ shell /\ updating[s].step = "idle"
    /\ \E row \in {Updated(progress.claims \cup {c}, FALSE, progress.blocked) : c \in Claims}
             \cup {Updated(progress.claims \ {c}, FALSE, progress.blocked) : c \in Claims}
             \cup {Updated(progress.claims, TRUE, progress.blocked)}
             \cup {Updated(progress.claims, FALSE, blocked) : blocked \in BOOLEAN} :
          updating' = [updating EXCEPT ![s] = [step |-> "progress", row |-> row]]
    /\ upset' = (upset \/ Busy)
    /\ UNCHANGED <<shell, progress, clientStatus, facts, approving>>

(* The approval stays as it is by now. *)
WriteProgress(s) ==
    /\ updating[s].step = "progress"
    /\ progress' = [updating[s].row EXCEPT !.approved = progress.approved,
                                           !.live = progress.live]
    /\ updating' = [updating EXCEPT ![s].step = "client"]
    /\ UNCHANGED <<shell, clientStatus, facts, approving, upset>>

WriteClient(s) ==
    /\ updating[s].step = "client"
    /\ clientStatus' = updating[s].row.status
    /\ updating' = [updating EXCEPT ![s] = NoUpdate]
    /\ UNCHANGED <<shell, progress, facts, approving, upset>>

(* The launch-approval route. To withdraw an approval nothing is checked;   *)
(* to give one, the onboarding is read first.                               *)
BeginApproval(a, approved, live) ==
    /\ shell /\ approving[a].step = "idle"
    /\ approving' = [approving EXCEPT ![a] =
           [step |-> IF approved THEN "check" ELSE "progress",
            approved |-> approved, live |-> live /\ approved,
            claims |-> IF approved THEN progress.claims ELSE {},
            launched |-> approved /\ Launched(progress)]]
    /\ upset' = (upset \/ Busy)
    /\ UNCHANGED <<shell, progress, clientStatus, facts, updating>>

(* It answers 409 if anything is missing, or if the app is to go live and   *)
(* the launch was not approved before.                                      *)
CheckReadiness(a) ==
    LET passed == /\ Unblocked(approving[a].claims)
                  /\ approving[a].live => approving[a].launched
    IN  /\ approving[a].step = "check"
        /\ approving' = [approving EXCEPT ![a] =
               IF ~passed THEN NoApproval
               ELSE [@ EXCEPT !.step = "progress", !.claims = {}, !.launched = FALSE]]
        /\ UNCHANGED <<shell, progress, clientStatus, facts, updating, upset>>

(* approveInternalLocationLaunch *)
StatusAfter(a) ==
    IF ~approving[a].approved THEN "in_progress"
    ELSE IF approving[a].live THEN "live" ELSE "approved"

(* Mutant: withdrawing an approval leaves the app live. *)
SaveApprovalOnly(a) ==
    /\ approving[a].step = "progress"
    /\ progress' = [progress EXCEPT !.approved = approving[a].approved,
                                    !.live = @ \/ approving[a].live,
                                    !.status = StatusAfter(a)]
    /\ approving' = [approving EXCEPT ![a].step = "client"]
    /\ UNCHANGED <<shell, clientStatus, facts, updating, upset>>

SaveApproval(a) ==
    /\ approving[a].step = "progress"
    /\ progress' = [progress EXCEPT !.approved = approving[a].approved,
                                    !.live = approving[a].live,
                                    !.status = StatusAfter(a)]
    /\ approving' = [approving EXCEPT ![a].step = "client"]
    /\ UNCHANGED <<shell, clientStatus, facts, updating, upset>>

SaveClient(a) ==
    /\ approving[a].step = "client"
    /\ clientStatus' = StatusAfter(a)
    /\ approving' = [approving EXCEPT ![a] = NoApproval]
    /\ UNCHANGED <<shell, progress, facts, updating, upset>>

(* A request dies, or a statement of its fails. *)
LaunchRequestDies ==
    /\ \/ \E s \in StaffSlots :
             /\ updating[s].step # "idle"
             /\ updating' = [updating EXCEPT ![s] = NoUpdate]
             /\ UNCHANGED approving
       \/ \E a \in AdminSlots :
             /\ approving[a].step # "idle"
             /\ approving' = [approving EXCEPT ![a] = NoApproval]
             /\ UNCHANGED updating
    /\ upset' = TRUE
    /\ UNCHANGED <<shell, progress, clientStatus, facts>>

(* Payments are connected, items shown, the release made ready, the owner   *)
(* activated or the settings saved; or the contrary.                        *)
FactChanges(f) ==
    /\ facts' = IF f \in facts THEN facts \ {f} ELSE facts \cup {f}
    /\ UNCHANGED <<shell, progress, clientStatus, updating, approving, upset>>

LaunchNext ==
    \/ CreateClient
    \/ \E s \in StaffSlots : BeginUpdate(s) \/ WriteProgress(s) \/ WriteClient(s)
    \/ \E a \in AdminSlots :
          \/ \E approved, live \in BOOLEAN : BeginApproval(a, approved, live)
          \/ CheckReadiness(a) \/ SaveApproval(a) \/ SaveClient(a)
    \/ LaunchRequestDies
    \/ \E f \in Facts : FactChanges(f)

LaunchSpec == LaunchInit /\ [][LaunchNext]_launchVars

-----------------------------------------------------------------------------
Rows == [claims : SUBSET Claims, submitted : BOOLEAN, approved : BOOLEAN,
         live : BOOLEAN, blocked : BOOLEAN, status : Statuses]
Updates == [step : {"idle", "progress", "client"}, row : Rows]
Approvals == [step : {"idle", "check", "progress", "client"}, approved : BOOLEAN,
              live : BOOLEAN, claims : SUBSET Claims, launched : BOOLEAN]

(* Types: what every variable may hold. *)
LaunchTypeOK ==
    /\ shell \in BOOLEAN
    /\ progress \in Rows
    /\ clientStatus \in Statuses
    /\ facts \subseteq Facts
    /\ updating \in [StaffSlots -> Updates]
    /\ approving \in [AdminSlots -> Approvals]
    /\ upset \in BOOLEAN

(* "Launch must be approved before marking the app live." (gateway          *)
(* routes.ts:4977): the check and the write are two requests, and staff     *)
(* write the row in between; with one admin at a time it holds all the same. *)
LiveFollowsApproval ==
    /\ progress'.live => progress'.approved
    /\ ~progress.live /\ progress'.live => progress.approved

(* What the console shows is approved: deriveOnboardingStatus falls back on *)
(* the stored status, which staff write back as they read it. And the list  *)
(* of clients, which shows the client's own status, agrees with the progress *)
(* when no request is in flight. Unless requests overlap or die.            *)
StatusesAgree ==
    ~upset =>
        /\ Launched(progress) => progress.approved
        /\ ~Busy => clientStatus = progress.status

(* An app is live, or said to be, only after its launch was approved.       *)
LaunchIsApproved == [][LiveFollowsApproval /\ StatusesAgree']_launchVars
=============================================================================
