------------------------------ MODULE MCDelivery ------------------------------
(***************************************************************************)
(* What must eventually happen, in components that share no state: pushes   *)
(* are sent, streams show that the order is over, an imported menu is       *)
(* stored, and a captured payment becomes an order. A behaviour is one of   *)
(* the part drawn at the start, and the fairness of the others asks nothing *)
(* of their first states. There is one checkout, and two requests on it     *)
(* that overlap.                                                            *)
(***************************************************************************)
EXTENDS NotificationOutbox, OrderStreams, MenuImports

CONSTANTS Parts, latte, c1, h1, h2, Nil, s1, s2

ASSUME DeliveryOK ==
    /\ Parts \subseteq {"outbox", "streams", "menus", "checkout"}
    /\ Nil \notin {latte, c1}

VARIABLES
    part,
    draft, lapsed, redemption, order, paymentId, ledger, listed, intent,
    events, failures, pc, job

checkoutVars == <<draft, lapsed, redemption, order, paymentId, ledger, listed,
                  intent, events, failures, pc, job>>
deliveryVars == <<part, outboxVars, streamVars, menuVars, checkoutVars>>

C == INSTANCE Checkout WITH
         Checkouts <- {c1}, Quotes <- {latte}, QuoteOf <- [c \in {c1} |-> latte],
         Handlers <- {h1, h2}, RedeemsPoints <- TRUE, Discounted <- TRUE,
         MaxFailures <- 1

(* Two watch one order; a customer's list and the dashboard's; two lists. *)
MCKinds == {[s \in Streams |-> "order"],
            [s \in Streams |-> IF s = s1 THEN "orders" ELSE "admin"],
            [s \in Streams |-> "orders"]}

(* A drink, a cake, or an answer that holds no menu. *)
MCMenus == {{<<"latte", "drinks">>}, {<<"cake", "cakes">>}, {}}

Init ==
    /\ part \in Parts
    /\ OutboxInit /\ StreamsInit /\ MenuInit /\ C!Init
    /\ part # "streams" => kind = [s \in Streams |-> "order"] /\ eventBus
    /\ part # "menus" => source = {}

Next ==
    \/ part = "outbox"   /\ OutboxNext  /\ UNCHANGED <<part, streamVars, menuVars, checkoutVars>>
    \/ part = "streams"  /\ StreamsNext /\ UNCHANGED <<part, outboxVars, menuVars, checkoutVars>>
    \/ part = "menus"    /\ MenuNext    /\ UNCHANGED <<part, outboxVars, streamVars, checkoutVars>>
    \/ part = "checkout" /\ C!Next      /\ UNCHANGED <<part, outboxVars, streamVars, menuVars>>

(* MenuFairness. The worker's loop, which is never at rest, runs in its     *)
(* part only.                                                               *)
MenuGoesOn ==
    /\ WF_menuVars(part = "menus" /\ SyncStep)
    /\ \A s \in ImportSlots : WF_menuVars(ImportStep(s))

Spec ==
    /\ Init /\ [][Next]_deliveryVars
    /\ OutboxFairness /\ StreamsFairness /\ MenuGoesOn /\ C!Fairness

(* The types of the part that acts. *)
TypesOK ==
    CASE part = "outbox"   -> OutboxTypeOK
      [] part = "streams"  -> StreamsTypeOK
      [] part = "menus"    -> MenuTypeOK
      [] part = "checkout" -> C!TypeOK

(* Checkout's: a captured payment becomes an order with that payment on it. *)
PaidBecomesOrder == C!PaidBecomesOrder
=============================================================================
