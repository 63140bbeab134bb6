------------------------------ MODULE Checkout ------------------------------
(***************************************************************************)
(* The checkouts of one customer: drafts that a paid Stripe intent promotes *)
(* to orders (services/orders/src/service.ts, order_checkout_drafts), the   *)
(* payment session, finalize and webhook routes of                          *)
(* services/payments/src/routes.ts, and the payment-reconciler worker.      *)
(*                                                                         *)
(* A request is a slot, as in OrderPayments: a program counter, the request *)
(* it serves and what it has read. Each write, to whichever store, is one   *)
(* action. An order begins PAID; OrderPayments is its life from then on,    *)
(* of which only whether it is over matters here.                           *)
(***************************************************************************)
EXTENDS Naturals, FiniteSets

CONSTANTS
    Checkouts,      \* checkout ids the code may draw
    Quotes,
    QuoteOf,        \* the quote a checkout is drawn for
    Handlers,       \* slots for requests in flight
    RedeemsPoints,  \* the quotes redeem loyalty points
    Discounted,     \* the quotes apply a discount code
    MaxFailures,    \* bound: requests that die before they finish
    Nil             \* no checkout or quote yet

ASSUME CheckoutOK ==
    /\ QuoteOf \in [Checkouts -> Quotes]
    /\ RedeemsPoints \in BOOLEAN
    /\ Discounted \in BOOLEAN
    /\ MaxFailures \in Nat
    /\ Nil \notin Checkouts \cup Quotes

VARIABLES
    draft,       \* order_checkout_drafts.status
    lapsed,      \* drafts whose expires_at has passed
    redemption,  \* status of the checkout's discount_code_redemptions row
    order,       \* the order with the checkout's id: "none", "active", "over"
    paymentId,   \* orders with a payment_id
    ledger,      \* loyalty mutations applied: <<checkout, action>>
    listed,      \* checkouts with a payments_stripe_payment_intents row
    intent,      \* Stripe: status of the checkout's PaymentIntent
    events,      \* Stripe: payment_intent.succeeded not accepted yet
    failures,    \* requests that died so far
    pc,          \* per slot: the next effect, or "idle"
    job          \* per slot: the request

tables == <<draft, redemption, order, paymentId>>
others == <<lapsed, ledger, listed, intent, events, failures>>
slots == <<pc, job>>
vars == <<tables, others, slots>>

Kinds == {"create", "session", "finalize", "webhook", "recover", "giveUp"}
Steps == {"idle", "active", "list", "sweep", "reserve", "insert", "refused",
          "expireCall", "expire", "release", "intent", "saveIntent",
          "findOrder", "redeem", "earn", "redeemDiscount", "promote",
          "record", "ack"}

(* checkout is the one a slot works on, quote the one it creates for, stale *)
(* the open drafts it still has to expire.                                  *)
Jobs == [kind : Kinds, quote : Quotes \cup {Nil},
         checkout : Checkouts \cup {Nil}, stale : SUBSET Checkouts]

NoJob == [kind |-> "create", quote |-> Nil, checkout |-> Nil, stale |-> {}]

TypeOK ==
    /\ draft \in [Checkouts -> {"none", "OPEN", "EXPIRED", "CONVERTED"}]
    /\ lapsed \subseteq Checkouts
    /\ redemption \in [Checkouts -> {"none", "RESERVED", "REDEEMED", "RELEASED"}]
    /\ order \in [Checkouts -> {"none", "active", "over"}]
    /\ paymentId \subseteq Checkouts
    /\ ledger \subseteq Checkouts \X {"redeem", "earn"}
    /\ listed \subseteq Checkouts
    /\ intent \in [Checkouts -> {"none", "requires_payment_method", "succeeded"}]
    /\ events \subseteq Checkouts
    /\ failures \in 0..MaxFailures
    /\ pc \in [Handlers -> Steps]
    /\ job \in [Handlers -> Jobs]

Init ==
    /\ draft = [c \in Checkouts |-> "none"]
    /\ lapsed = {}
    /\ redemption = [c \in Checkouts |-> "none"]
    /\ order = [c \in Checkouts |-> "none"]
    /\ paymentId = {}
    /\ ledger = {}
    /\ listed = {}
    /\ intent = [c \in Checkouts |-> "none"]
    /\ events = {}
    /\ failures = 0
    /\ pc = [h \in Handlers |-> "idle"]
    /\ job = [h \in Handlers |-> NoJob]

-----------------------------------------------------------------------------
(* Slots.                                                                   *)

Idle(h) == pc[h] = "idle"

Target(h) == job[h].checkout

Serve(h, kind, quote, checkout, step) ==
    /\ Idle(h)
    /\ pc' = [pc EXCEPT ![h] = step]
    /\ job' = [job EXCEPT ![h] = [kind |-> kind, quote |-> quote,
                                  checkout |-> checkout, stale |-> {}]]

Goto(h, step) ==
    /\ pc' = [pc EXCEPT ![h] = step]
    /\ UNCHANGED job

Done(h) ==
    /\ pc' = [pc EXCEPT ![h] = "idle"]
    /\ job' = [job EXCEPT ![h] = NoJob]

(* A crash, an upstream that refuses or does not answer. *)
FailRequest(h) ==
    /\ ~Idle(h)
    /\ failures < MaxFailures
    /\ failures' = failures + 1
    /\ Done(h)
    /\ UNCHANGED <<tables, lapsed, ledger, listed, intent, events>>

-----------------------------------------------------------------------------
(* Time, Stripe and the kitchen.                                            *)

(* Thirty minutes pass. *)
Lapse(c) ==
    /\ draft[c] = "OPEN"
    /\ c \notin lapsed
    /\ lapsed' = lapsed \cup {c}
    /\ UNCHANGED <<tables, ledger, listed, intent, events, failures, slots>>

(* The customer's payment sheet, opened with the client secret a session    *)
(* returned: nothing withdraws an intent.                                   *)
PaymentSucceeds(c) ==
    /\ c \in listed
    /\ intent[c] = "requires_payment_method"
    /\ intent' = [intent EXCEPT ![c] = "succeeded"]
    /\ events' = events \cup {c}
    /\ UNCHANGED <<tables, lapsed, ledger, listed, failures, slots>>

(* The order is COMPLETED or CANCELED. *)
EndOrder(c) ==
    /\ order[c] = "active"
    /\ order' = [order EXCEPT ![c] = "over"]
    /\ UNCHANGED <<draft, redemption, paymentId, others, slots>>

-----------------------------------------------------------------------------
(* createCheckoutDraft.                                                     *)

(* An open draft of the quote that has not lapsed is returned as it is.     *)
(* Bound: an id is left to draw.                                            *)
CreateCheckout(h, q) ==
    /\ \A c \in Checkouts :
          QuoteOf[c] = q /\ draft[c] = "OPEN" => c \in lapsed
    /\ \E c \in Checkouts : QuoteOf[c] = q /\ draft[c] = "none"
    /\ Serve(h, "create", q, Nil, "active")
    /\ UNCHANGED <<tables, others>>

(* An active order ends the request; so do a closed store and a code that   *)
(* is no longer valid.                                                      *)
CheckActiveOrder(h) ==
    /\ pc[h] = "active"
    /\ \/ Done(h)
       \/ /\ \A c \in Checkouts : order[c] # "active"
          /\ Goto(h, "list")
    /\ UNCHANGED <<tables, others>>

ListOpenDrafts(h) ==
    /\ pc[h] = "list"
    /\ pc' = [pc EXCEPT ![h] = "sweep"]
    /\ job' = [job EXCEPT ![h].stale = {c \in Checkouts : draft[c] = "OPEN"}]
    /\ UNCHANGED <<tables, others>>

NextStale(h) ==
    /\ pc[h] = "sweep"
    /\ \E c \in job[h].stale :
          job' = [job EXCEPT ![h].stale = @ \ {c}, ![h].checkout = c]
    /\ pc' = [pc EXCEPT ![h] = "expire"]
    /\ UNCHANGED <<tables, others>>

(* Mutant: there is no unique index on the open drafts of a quote. *)
InsertDraftAnyway(h) ==
    /\ pc[h] = "sweep"
    /\ job[h].stale = {}
    /\ \E c \in Checkouts :
          /\ QuoteOf[c] = job[h].quote
          /\ draft[c] = "none"
          /\ draft' = [draft EXCEPT ![c] = "OPEN"]
          /\ IF Discounted
             THEN /\ pc' = [pc EXCEPT ![h] = "reserve"]
                  /\ job' = [job EXCEPT ![h].checkout = c]
             ELSE Done(h)
    /\ UNCHANGED <<redemption, order, paymentId, others>>

(* A second OPEN row of the quote is refused by a unique index, and the     *)
(* first is taken instead.                                                  *)
InsertDraft(h) ==
    /\ pc[h] = "sweep"
    /\ job[h].stale = {}
    /\ \E c \in Checkouts :
          /\ QuoteOf[c] = job[h].quote
          /\ IF \E d \in Checkouts : QuoteOf[d] = job[h].quote /\ draft[d] = "OPEN"
             THEN draft[c] = "OPEN" ELSE draft[c] = "none"
          /\ draft' = [draft EXCEPT ![c] = "OPEN"]
          /\ IF Discounted
             THEN /\ pc' = [pc EXCEPT ![h] = "reserve"]
                  /\ job' = [job EXCEPT ![h].checkout = c]
             ELSE Done(h)
    /\ UNCHANGED <<redemption, order, paymentId, others>>

(* Bound: the pool of checkout ids is used up, and the request is dropped.  *)
OutOfIds(h) ==
    /\ pc[h] = "sweep"
    /\ job[h].stale = {}
    /\ \A c \in Checkouts : QuoteOf[c] = job[h].quote => draft[c] \notin {"none", "OPEN"}
    /\ Done(h)
    /\ UNCHANGED <<tables, others>>

(* reserveDiscountForOrder: a row of the checkout answers true at once.     *)
FindReservation(h) ==
    /\ pc[h] = "reserve"
    /\ IF redemption[Target(h)] # "none" THEN Done(h) ELSE Goto(h, "insert")
    /\ UNCHANGED <<tables, others>>

ReserveDiscount(h) ==
    /\ pc[h] = "insert"
    /\ redemption[Target(h)] = "none"
    /\ redemption' = [redemption EXCEPT ![Target(h)] = "RESERVED"]
    /\ Done(h)
    /\ UNCHANGED <<draft, order, paymentId, others>>

(* The code is used up, or another request inserted the row by now.         *)
RefuseDiscount(h) ==
    /\ pc[h] = "insert"
    /\ Goto(h, "refused")
    /\ UNCHANGED <<tables, others>>

-----------------------------------------------------------------------------
(* expireCheckoutDraft, then releaseDiscountForOrder.                       *)

(* Mutant: the row is updated whatever its status. *)
ExpiredAlways(c) == "EXPIRED"

(* Mutant: the draft is closed under a status the table's CHECK refuses. *)
ExpiredClosed(c) == IF draft[c] = "OPEN" THEN "CLOSED" ELSE draft[c]

(* The row is updated only WHERE status = OPEN. *)
Expired(c) == IF draft[c] = "OPEN" THEN "EXPIRED" ELSE draft[c]

(* A refused discount expires the draft without releasing anything. *)
ExpireRefused(h) ==
    /\ pc[h] = "refused"
    /\ draft' = [draft EXCEPT ![Target(h)] = Expired(Target(h))]
    /\ Done(h)
    /\ UNCHANGED <<redemption, order, paymentId, others>>

(* Mutant: a lapsed draft keeps its redemption. *)
ExpireDraftOnly(h) ==
    /\ pc[h] = "expire"
    /\ draft' = [draft EXCEPT ![Target(h)] = Expired(Target(h))]
    /\ IF job[h].kind = "create" THEN Goto(h, "release") ELSE Done(h)
    /\ UNCHANGED <<redemption, order, paymentId, others>>

ExpireDraft(h) ==
    /\ pc[h] = "expire"
    /\ draft' = [draft EXCEPT ![Target(h)] = Expired(Target(h))]
    /\ Goto(h, "release")
    /\ UNCHANGED <<redemption, order, paymentId, others>>

ReleaseDiscount(h) ==
    /\ pc[h] = "release"
    /\ redemption' = IF redemption[Target(h)] = "RESERVED"
                     THEN [redemption EXCEPT ![Target(h)] = "RELEASED"]
                     ELSE redemption
    /\ IF job[h].kind = "create" THEN Goto(h, "sweep") ELSE Done(h)
    /\ UNCHANGED <<draft, order, paymentId, others>>

-----------------------------------------------------------------------------
(* The payment session and its end.                                         *)

(* getCheckoutPaymentContext expires a lapsed draft and answers 410. *)
HasLapsed(c) == draft[c] = "OPEN" /\ c \in lapsed

OpenSession(h, c) ==
    /\ draft[c] = "OPEN"
    /\ Serve(h, "session", Nil, c, IF HasLapsed(c) THEN "expire" ELSE "intent")
    /\ UNCHANGED <<tables, others>>

(* The intent's idempotency key is the checkout. *)
CreateIntent(h) ==
    /\ pc[h] = "intent"
    /\ intent' = IF intent[Target(h)] = "none"
                 THEN [intent EXCEPT ![Target(h)] = "requires_payment_method"]
                 ELSE intent
    /\ Goto(h, "saveIntent")
    /\ UNCHANGED <<tables, lapsed, ledger, listed, events, failures>>

SaveIntent(h) ==
    /\ pc[h] = "saveIntent"
    /\ listed' = listed \cup {Target(h)}
    /\ Done(h)
    /\ UNCHANGED <<tables, lapsed, ledger, intent, events, failures>>

(* Mutant: the caller's word is taken for Stripe's. *)
FinalizeCheckoutUnverified(h, c) ==
    /\ draft[c] # "none"
    /\ Serve(h, "finalize", Nil, c, IF HasLapsed(c) THEN "expire" ELSE "findOrder")
    /\ UNCHANGED <<tables, others>>

FinalizeCheckout(h, c) ==
    /\ draft[c] # "none"
    /\ HasLapsed(c) \/ intent[c] = "succeeded"
    /\ Serve(h, "finalize", Nil, c, IF HasLapsed(c) THEN "expire" ELSE "findOrder")
    /\ UNCHANGED <<tables, others>>

(* Mutant: the event is saved when it arrives, not when it is accepted. *)
ChargeWebhookSavedFirst(h, c) ==
    /\ c \in events
    /\ events' = events \ {c}
    /\ Serve(h, "webhook", Nil, c, "findOrder")
    /\ UNCHANGED <<tables, lapsed, ledger, listed, intent, failures>>

(* Stripe delivers the event until it is accepted. *)
ChargeWebhook(h, c) ==
    /\ c \in events
    /\ Serve(h, "webhook", Nil, c, "findOrder")
    /\ UNCHANGED <<tables, others>>

(* processStalePaymentsBatch lists OPEN drafts only. *)
ReconcilerRecovers(h, c) ==
    /\ draft[c] = "OPEN"
    /\ c \in listed
    /\ intent[c] = "succeeded"
    /\ Serve(h, "recover", Nil, c, "findOrder")
    /\ UNCHANGED <<tables, others>>

ReconcilerGivesUp(h, c) ==
    /\ draft[c] = "OPEN"
    /\ c \in listed
    /\ intent[c] = "requires_payment_method"
    /\ Serve(h, "giveUp", Nil, c, "expireCall")
    /\ UNCHANGED <<tables, others>>

(* The internal expire endpoint reads the draft afresh. *)
ExpireCall(h) ==
    /\ pc[h] = "expireCall"
    /\ IF draft[Target(h)] = "OPEN" THEN Goto(h, "expire") ELSE Done(h)
    /\ UNCHANGED <<tables, others>>

-----------------------------------------------------------------------------
(* confirmCheckoutPayment: whatever the draft's status.                     *)

(* Mutant: an expired draft is not confirmed. *)
FindOrderOpenOnly(h) ==
    /\ pc[h] = "findOrder"
    /\ CASE order[Target(h)] # "none" -> Goto(h, "record")
         [] order[Target(h)] = "none" /\ draft[Target(h)] = "OPEN" -> Goto(h, "redeem")
         [] OTHER -> Done(h)
    /\ UNCHANGED <<tables, others>>

FindOrder(h) ==
    /\ pc[h] = "findOrder"
    /\ Goto(h, IF order[Target(h)] # "none" THEN "record" ELSE "redeem")
    /\ UNCHANGED <<tables, others>>

RedeemPoints(h) ==
    /\ pc[h] = "redeem"
    /\ ledger' = ledger \cup (IF RedeemsPoints THEN {<<Target(h), "redeem">>} ELSE {})
    /\ Goto(h, "earn")
    /\ UNCHANGED <<tables, lapsed, listed, intent, events, failures>>

EarnPoints(h) ==
    /\ pc[h] = "earn"
    /\ ledger' = ledger \cup {<<Target(h), "earn">>}
    /\ Goto(h, "redeemDiscount")
    /\ UNCHANGED <<tables, lapsed, listed, intent, events, failures>>

RedeemDiscount(h) ==
    /\ pc[h] = "redeemDiscount"
    /\ redemption' = IF redemption[Target(h)] = "RESERVED"
                     THEN [redemption EXCEPT ![Target(h)] = "REDEEMED"]
                     ELSE redemption
    /\ Goto(h, "promote")
    /\ UNCHANGED <<draft, order, paymentId, others>>

(* promoteCheckoutDraft: one transaction, and none if the order exists.     *)
PromoteDraft(h) ==
    /\ pc[h] = "promote"
    /\ IF order[Target(h)] = "none"
       THEN /\ order' = [order EXCEPT ![Target(h)] = "active"]
            /\ draft' = [draft EXCEPT ![Target(h)] = "CONVERTED"]
       ELSE UNCHANGED <<order, draft>>
    /\ Goto(h, "record")
    /\ UNCHANGED <<redemption, paymentId, others>>

RecordPayment(h) ==
    /\ pc[h] = "record"
    /\ paymentId' = paymentId \cup {Target(h)}
    /\ Goto(h, "ack")
    /\ UNCHANGED <<draft, redemption, order, others>>

(* The response; a webhook's event is saved. *)
Respond(h) ==
    /\ pc[h] = "ack"
    /\ events' = IF job[h].kind = "webhook" THEN events \ {Target(h)} ELSE events
    /\ Done(h)
    /\ UNCHANGED <<tables, lapsed, ledger, listed, intent, failures>>

-----------------------------------------------------------------------------
Step(h) ==
    \/ CheckActiveOrder(h) \/ ListOpenDrafts(h) \/ NextStale(h)
    \/ InsertDraft(h) \/ OutOfIds(h)
    \/ FindReservation(h) \/ ReserveDiscount(h) \/ RefuseDiscount(h)
    \/ ExpireRefused(h) \/ ExpireDraft(h) \/ ReleaseDiscount(h)
    \/ CreateIntent(h) \/ SaveIntent(h) \/ ExpireCall(h)
    \/ FindOrder(h) \/ RedeemPoints(h) \/ EarnPoints(h) \/ RedeemDiscount(h)
    \/ PromoteDraft(h) \/ RecordPayment(h) \/ Respond(h)

Request(h) ==
    \/ \E q \in Quotes : CreateCheckout(h, q)
    \/ \E c \in Checkouts :
          \/ OpenSession(h, c) \/ FinalizeCheckout(h, c) \/ ChargeWebhook(h, c)
          \/ ReconcilerRecovers(h, c) \/ ReconcilerGivesUp(h, c)

Next ==
    \/ \E c \in Checkouts : Lapse(c) \/ PaymentSucceeds(c) \/ EndOrder(c)
    \/ \E h \in Handlers : Step(h) \/ Request(h) \/ FailRequest(h)

Spec == Init /\ [][Next]_vars

(* Stripe redelivers until it is answered, a handler that is not killed     *)
(* goes on, and there are finitely many failures. Neither the customer nor  *)
(* the worker has to act.                                                   *)
Fairness ==
    /\ \A h \in Handlers : WF_vars(Step(h))
    /\ \A c \in Checkouts : SF_vars(\E h \in Handlers : ChargeWebhook(h, c))

FairSpec == Spec /\ Fairness
-----------------------------------------------------------------------------
(* Properties.                                                              *)

(* "keeps checkout drafts out of orders until verified payment promotes     *)
(* them" (services/orders/test/orders.test.ts): an order exists only after  *)
(* Stripe captured the payment and the points were taken and granted.       *)
OrderIsSettled ==
    \A c \in Checkouts :
        order[c] # "none" =>
            /\ intent[c] = "succeeded"
            /\ <<c, "earn">> \in ledger
            /\ RedeemsPoints => <<c, "redeem">> \in ledger

(* The draft and the order never disagree: a draft is CONVERTED exactly     *)
(* when its order exists, whatever expires it meanwhile.                    *)
ConvertedHasOrder ==
    \A c \in Checkouts : draft[c] = "CONVERTED" <=> order[c] # "none"

(* Two confirmations of one payment never bring an order back that is over. *)
OrderStaysOver ==
    [][\A c \in Checkouts : order[c] = "over" => order'[c] = "over"]_vars

(* Without overlap and crashes a discount code is held for open drafts      *)
(* only: what is expired has given its redemption back.                     *)
ReservedOnlyOpen ==
    (\A h \in Handlers : Idle(h)) =>
        \A c \in Checkouts : redemption[c] = "RESERVED" => draft[c] = "OPEN"

(* No death and no overlap loses a captured payment: until there is an      *)
(* order with it, Stripe still has its event to deliver, even when the      *)
(* draft has expired in the meantime (the webhook's event is saved last).   *)
PaymentIsRemembered ==
    \A c \in Checkouts :
        intent[c] = "succeeded" =>
            c \in events \/ (order[c] # "none" /\ c \in paymentId)

(* A captured payment becomes an order with that payment on it, even when   *)
(* the draft has expired in the meantime.                                   *)
PaidBecomesOrder ==
    \A c \in Checkouts :
        intent[c] = "succeeded" ~> order[c] # "none" /\ c \in paymentId

(* The drafts, orders and intents are a customer's checkouts as             *)
(* CheckoutLife promises them.                                              *)
Stage(c) == IF order[c] # "none" THEN order[c] ELSE draft[c]

Life == INSTANCE CheckoutLife WITH
            life <- [c \in Checkouts |-> Stage(c)],
            paid <- {c \in Checkouts : intent[c] = "succeeded"}
KeepsPromise == Life!Spec

(* "You already have an active order. Complete or cancel it before starting *)
(* a new one." (services/orders/src/service.ts:294)                         *)
OneActiveOrder == \A c, d \in Checkouts :
    order[c] = "active" /\ order[d] = "active" => c = d
=============================================================================
