---------------------------- MODULE StripeConnect ----------------------------
(***************************************************************************)
(* One location's Stripe account: the Connect routes that create and        *)
(* refresh it (services/payments/src/routes.ts), the payment profile in the *)
(* catalog that names it, and the charges made on it. A charge belongs to   *)
(* the account it was made on, and a refund is asked of the account that    *)
(* the profile names by then. A request reads the profile first and writes  *)
(* it last, with Stripe in between, and no two of them know of each other.  *)
(*                                                                         *)
(* The platform's own PUT of a profile, which no screen of the admin        *)
(* console sends, is left out.                                              *)
(***************************************************************************)
EXTENDS Naturals, Sequences

CONSTANTS
    Sales,          \* checkouts of the location's customers
    ConnectSlots,   \* Connect requests in flight
    MaxAccounts     \* bound: Stripe accounts ever made for the location

ASSUME ConnectOK == MaxAccounts \in Nat

VARIABLES
    expressAccounts,  \* Stripe: where each account of the location stands
    profile,          \* catalog_payment_profiles: its account, and if it is ready
    connecting,       \* per slot: the next effect, link or not, what was read
    asked,            \* per checkout: the account its session request has read
    charges,          \* Stripe: PaymentIntents, one for a key and account
    entwined          \* history: two Connect requests were in flight at once

connectVars == <<expressAccounts, profile, connecting, asked, charges, entwined>>

(* An account is new until an onboarding link was made for it; the owner    *)
(* gets it enabled. It is gone once deleted, or out of the platform's reach. *)
Standings == {"new", "linked", "enabled", "gone"}
NoAccountYet == [account |-> 0, ready |-> FALSE]
Unconnected == [step |-> "idle", link |-> FALSE, account |-> 0, enabled |-> FALSE]

ConnectInit ==
    /\ expressAccounts = <<>>
    /\ profile = NoAccountYet
    /\ connecting = [s \in ConnectSlots |-> Unconnected]
    /\ asked = [p \in Sales |-> 0]
    /\ charges = {}
    /\ entwined = FALSE

Accounts == DOMAIN expressAccounts

Gone(a) == expressAccounts[a] = "gone"

ConnectAt(s, step) == connecting[s].step = step
ConnectOn(s, step) == connecting' = [connecting EXCEPT ![s].step = step]
ConnectDone(s) == connecting' = [connecting EXCEPT ![s] = Unconnected]

-----------------------------------------------------------------------------
(* The Connect routes.                                                      *)

(* fetchInternalLocationSummary, for an onboarding link, or for a status    *)
(* refresh or a link to the dashboard, which are refused without an account. *)
BeginConnect(s, link) ==
    /\ ConnectAt(s, "idle")
    /\ link \/ profile.account # 0
    /\ connecting' = [connecting EXCEPT ![s] =
           [step |-> IF profile.account = 0 THEN "create" ELSE "retrieve",
            link |-> link, account |-> profile.account, enabled |-> FALSE]]
    /\ entwined' = (entwined \/ \E t \in ConnectSlots : ~ConnectAt(t, "idle"))
    /\ UNCHANGED <<expressAccounts, profile, asked, charges>>

Retrieved(s) ==
    /\ ~Gone(connecting[s].account)
    /\ connecting' = [connecting EXCEPT ![s].step = "write",
           ![s].enabled = expressAccounts[connecting[s].account] = "enabled"]

(* Mutant: any error of Stripe's is taken for an account that is gone. *)
RetrieveAccountOrReplace(s) ==
    /\ ConnectAt(s, "retrieve")
    /\ \/ Retrieved(s)
       \/ connecting[s].link /\ ConnectOn(s, "create")
    /\ UNCHANGED <<expressAccounts, profile, asked, charges, entwined>>

(* accounts.retrieve. An account that is gone is replaced if a link was     *)
(* asked for; the other routes do nothing and answer 409, or 502 for a link *)
(* to the dashboard. Other errors are ConnectDies.                          *)
RetrieveAccount(s) ==
    /\ ConnectAt(s, "retrieve")
    /\ \/ Retrieved(s)
       \/ /\ Gone(connecting[s].account)
          /\ IF connecting[s].link THEN ConnectOn(s, "create") ELSE ConnectDone(s)
    /\ UNCHANGED <<expressAccounts, profile, asked, charges, entwined>>

(* createStripeExpressAccount, without an idempotency key. Bound: MaxAccounts. *)
CreateAccount(s) ==
    /\ ConnectAt(s, "create")
    /\ Len(expressAccounts) < MaxAccounts
    /\ expressAccounts' = Append(expressAccounts, "new")
    /\ connecting' = [connecting EXCEPT ![s].step = "write",
                                        ![s].account = Len(expressAccounts) + 1]
    /\ UNCHANGED <<profile, asked, charges, entwined>>

(* buildStripePaymentProfile, and the catalog's upsert: the whole profile,  *)
(* as Stripe described the account then. Ready: charges and payouts enabled. *)
WriteProfile(s) ==
    /\ ConnectAt(s, "write")
    /\ profile' = [account |-> connecting[s].account, ready |-> connecting[s].enabled]
    /\ IF connecting[s].link THEN ConnectOn(s, "link") ELSE ConnectDone(s)
    /\ UNCHANGED <<expressAccounts, asked, charges, entwined>>

(* accountLinks.create. *)
MakeLink(s) ==
    /\ ConnectAt(s, "link")
    /\ ~Gone(connecting[s].account)
    /\ expressAccounts' = [expressAccounts EXCEPT ![connecting[s].account] =
                        IF @ = "new" THEN "linked" ELSE @]
    /\ ConnectDone(s)
    /\ UNCHANGED <<profile, asked, charges, entwined>>

(* The request dies, times out, or has an error of Stripe's or the catalog's. *)
ConnectDies(s) ==
    /\ ~ConnectAt(s, "idle")
    /\ ConnectDone(s)
    /\ UNCHANGED <<expressAccounts, profile, asked, charges, entwined>>

-----------------------------------------------------------------------------
(* Stripe and the owner.                                                    *)

(* The owner finishes onboarding by a link, or has charges disabled later. *)
SetEnabled(a) ==
    /\ expressAccounts[a] \in {"linked", "enabled"}
    /\ expressAccounts' = [expressAccounts EXCEPT
           ![a] = IF @ = "enabled" THEN "linked" ELSE "enabled"]
    /\ UNCHANGED <<profile, connecting, asked, charges, entwined>>

CloseAccount(a) ==
    /\ ~Gone(a)
    /\ expressAccounts' = [expressAccounts EXCEPT ![a] = "gone"]
    /\ UNCHANGED <<profile, connecting, asked, charges, entwined>>

-----------------------------------------------------------------------------
(* Customers pay, and are refunded.                                         *)

(* The session route reads the profile, which must be ready. *)
AskSession(p) ==
    /\ asked[p] = 0
    /\ profile.ready
    /\ asked' = [asked EXCEPT ![p] = profile.account]
    /\ UNCHANGED <<expressAccounts, profile, connecting, charges, entwined>>

ChargesOf(p) == {c \in charges : c.sale = p}

(* paymentIntents.create on the account it read. Its idempotency key is the *)
(* checkout, and Stripe keeps the keys of each account apart.               *)
OpenSession(p) ==
    LET a == asked[p]
    IN  /\ a # 0
        /\ charges' = IF expressAccounts[a] # "enabled" \/ \E c \in ChargesOf(p) : c.account = a
                      THEN charges
                      ELSE charges \cup {[sale |-> p, account |-> a, state |-> "open"]}
        /\ asked' = [asked EXCEPT ![p] = 0]
        /\ UNCHANGED <<expressAccounts, profile, connecting, entwined>>

ChargeBecomes(c, state) ==
    /\ charges' = (charges \ {c}) \cup {[c EXCEPT !.state = state]}
    /\ UNCHANGED <<expressAccounts, profile, connecting, asked, entwined>>

Pay(c) ==
    /\ c.state = "open" /\ expressAccounts[c.account] = "enabled"
    /\ ChargeBecomes(c, "paid")

(* The refund route: refunds.create on the account of the profile as it is  *)
(* now. It fails, and may be tried again, if that is not where it was paid. *)
RefundCharge(c) ==
    /\ c.state = "paid" /\ c.account = profile.account /\ ~Gone(c.account)
    /\ ChargeBecomes(c, "refunded")

-----------------------------------------------------------------------------
ConnectNext ==
    \/ \E s \in ConnectSlots :
          \/ \E link \in BOOLEAN : BeginConnect(s, link)
          \/ RetrieveAccount(s) \/ CreateAccount(s) \/ WriteProfile(s) \/ MakeLink(s)
          \/ ConnectDies(s)
    \/ \E a \in Accounts : CloseAccount(a) \/ SetEnabled(a)
    \/ \E p \in Sales : AskSession(p) \/ OpenSession(p)
    \/ \E c \in charges : Pay(c) \/ RefundCharge(c)

ConnectSpec == ConnectInit /\ [][ConnectNext]_connectVars

-----------------------------------------------------------------------------
ConnectRequests ==
    [step : {"idle", "retrieve", "create", "write", "link"},
     link : BOOLEAN, account : 0..MaxAccounts, enabled : BOOLEAN]
Charges == [sale : Sales, account : 1..MaxAccounts, state : {"open", "paid", "refunded"}]

(* Types: what every variable may hold. *)
ConnectTypeOK ==
    /\ expressAccounts \in Seq(Standings)
    /\ Len(expressAccounts) <= MaxAccounts
    /\ profile \in [account : 0..MaxAccounts, ready : BOOLEAN]
    /\ connecting \in [ConnectSlots -> ConnectRequests]
    /\ asked \in [Sales -> 0..MaxAccounts]
    /\ charges \subseteq Charges
    /\ entwined \in BOOLEAN

(* A checkout can be paid on one account only: a session that is asked for  *)
(* again finds the intent it has (routes.ts:2307).                          *)
OneChargePerSale ==
    \A p \in Sales : \A c, d \in ChargesOf(p) :
        c = d \/ Gone(c.account) \/ Gone(d.account)

(* What a customer has paid can be refunded: the profile names the account  *)
(* it was paid on, unless that one is gone (routes.ts:3420).                *)
RefundReachesCharge ==
    \A c \in charges : c.state = "paid" => c.account = profile.account \/ Gone(c.account)

(* Both, as long as one Connect request at a time is served: two overlapping *)
(* ones may each create an account, and the last to write the profile wins,  *)
(* though the owner may have onboarded, and customers paid on, the other.    *)
ChargesStayReachable == entwined \/ (OneChargePerSale /\ RefundReachesCharge)
=============================================================================
