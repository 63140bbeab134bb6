------------------------------ MODULE MCServices ------------------------------
(***************************************************************************)
(* Components that share no state, checked side by side: a behaviour is one *)
(* of the part drawn at the start, and the others keep their first state.   *)
(* The checkouts are here with two of them and one request at a time;       *)
(* MCCheckout has overlapping requests.                                     *)
(***************************************************************************)
EXTENDS TLC, LoyaltyLedger, OrderCreation, CustomerAccounts, OperatorTeam,
        OrderPricing, StoreHours, AppSession, MobileCheckout, StripeConnect,
        LaunchApproval

CONSTANTS Parts, latte, mocha, c1, c2, h1, Nil

ASSUME ServicesOK ==
    /\ Parts \subseteq {"loyalty", "creation", "accounts", "team", "pricing", "hours",
                       "app", "phone", "connect", "launch", "checkouts"}
    /\ Nil \notin {latte, mocha, c1, c2}

VARIABLES
    part,
    draft, lapsed, redemption, order, paymentId, ledger, listed, intent,
    events, failures, pc, job

checkoutVars == <<draft, lapsed, redemption, order, paymentId, ledger, listed,
                  intent, events, failures, pc, job>>
servicesVars == <<part, loyaltyVars, creationVars, accountVars, teamVars, pricingVars,
                  hoursVars, appVars, phoneVars, connectVars, launchVars, checkoutVars>>

C == INSTANCE Checkout WITH
         Checkouts <- {c1, c2}, Quotes <- {latte, mocha},
         QuoteOf <- [c \in {c1, c2} |-> IF c = c1 THEN latte ELSE mocha],
         Handlers <- {h1}, RedeemsPoints <- TRUE, Discounted <- TRUE,
         MaxFailures <- 0

(* 12 points for $12.50, and two redemptions under one key. *)
MCMutations ==
    {[key |-> 1, type |-> "EARN", amount |-> 1250],
     [key |-> 2, type |-> "REDEEM", amount |-> 10],
     [key |-> 2, type |-> "REDEEM", amount |-> 7]}

(* Mon-Fri; Sat-Sun; Wed. Cart lines may cost less than nothing.   *)
MCDayLabels == {{<<1, 5>>}, {<<6, 0>>}, {<<3, 3>>}}
MCOffsets == {-10, -8}
MCUnitPrices == {-25, 175, 333}

(* Requests about customers are alike. *)
Alike == Permutations(AccountSlots)

(* Every part but the one that acts keeps its state. *)
OthersStay(p) ==
    /\ UNCHANGED part
    /\ p # "loyalty"   => UNCHANGED loyaltyVars
    /\ p # "creation"  => UNCHANGED creationVars
    /\ p # "accounts"  => UNCHANGED accountVars
    /\ p # "team"      => UNCHANGED teamVars
    /\ p # "pricing"   => UNCHANGED pricingVars
    /\ p # "hours"     => UNCHANGED hoursVars
    /\ p # "app"       => UNCHANGED appVars
    /\ p # "phone"     => UNCHANGED phoneVars
    /\ p # "connect"   => UNCHANGED connectVars
    /\ p # "launch"    => UNCHANGED launchVars
    /\ p # "checkouts" => UNCHANGED checkoutVars

Init ==
    /\ part \in Parts
    /\ LoyaltyInit /\ CreationInit /\ AccountsInit /\ TeamInit /\ PricingInit
    /\ HoursInit /\ AppInit /\ PhoneInit /\ ConnectInit /\ LaunchInit /\ C!Init
    /\ part # "pricing" => code = CHOOSE c \in Codes : Creatable(c)
    /\ part # "hours" => /\ hours = CHOOSE h \in ParsedHours : TRUE
                         /\ zone = CHOOSE z \in [before : Offsets, after : Offsets] : TRUE

Next ==
    \/ part = "loyalty" /\ LoyaltyNext /\ OthersStay("loyalty")
    \/ part = "creation" /\ CreationNext /\ OthersStay("creation")
    \/ part = "accounts" /\ AccountsNext /\ OthersStay("accounts")
    \/ part = "team" /\ TeamNext /\ OthersStay("team")
    \/ part = "pricing" /\ PricingNext /\ OthersStay("pricing")
    \/ part = "hours" /\ HoursNext /\ OthersStay("hours")
    \/ part = "app" /\ AppNext /\ OthersStay("app")
    \/ part = "phone" /\ PhoneNext /\ OthersStay("phone")
    \/ part = "connect" /\ ConnectNext /\ OthersStay("connect")
    \/ part = "launch" /\ LaunchNext /\ OthersStay("launch")
    \/ part = "checkouts" /\ C!Next /\ OthersStay("checkouts")

Spec == Init /\ [][Next]_servicesVars

(* The types of the part that acts. *)
TypesOK ==
    CASE part = "loyalty"   -> LoyaltyTypeOK
      [] part = "creation"  -> CreationTypeOK
      [] part = "accounts"  -> AccountsTypeOK
      [] part = "team"      -> TeamTypeOK
      [] part = "pricing"   -> PricingTypeOK
      [] part = "hours"     -> HoursTypeOK
      [] part = "app"       -> AppTypeOK
      [] part = "phone"     -> PhoneTypeOK
      [] part = "connect"   -> ConnectTypeOK
      [] part = "launch"    -> LaunchTypeOK
      [] part = "checkouts" -> C!TypeOK

(* Checkout's: without overlap and crashes a discount code is held for open *)
(* drafts only.                                                             *)
ReservedOnlyOpen == C!ReservedOnlyOpen
=============================================================================
