---------------------------- MODULE OrderPayments ----------------------------
(***************************************************************************)
(* One order, from PENDING_PAYMENT on, and everything that settles it: the *)
(* request handlers of services/orders/src/service.ts, the Stripe webhook  *)
(* and refund routes of services/payments/src/routes.ts that call them,    *)
(* the payment-reconciler worker, and Stripe itself.                       *)
(*                                                                         *)
(* A handler reads the whole order row, awaits other services, and then    *)
(* writes the whole row back with updateOrder, which has no version check. *)
(* So a handler is a slot with a program counter, the request it serves    *)
(* and its own copy of the row, and each of its effects is one action.     *)
(* Two slots are two requests in flight on the same order.                 *)
(*                                                                         *)
(* The loyalty service is taken at its contract: a mutation with a given   *)
(* idempotency key is applied once, or refused. A refusal, an unreachable  *)
(* service, a lost response and a crash all end the handler where it is.   *)
(***************************************************************************)
EXTENDS OrderLifecycle

CONSTANTS
    Handlers,         \* slots for requests in flight on this order
    FulfillmentModes, \* modes a request may find: "staff", "time_based"
    RedeemsPoints,    \* quote.pointsToRedeem > 0
    EarnsPoints,      \* the total is at least one dollar, so it earns points
    Discounted,       \* the quote applies a discount code
    CancelReasons,    \* reasons; the refund's idempotency key hashes the reason
    EarlyRefunds,     \* a dashboard refund may come before the order is PAID
    MaxFailures,      \* bound: requests that die before they finish
    MaxDeclines       \* bound: declined payment attempts

ASSUME ConfigurationOK ==
    /\ FulfillmentModes \subseteq {"staff", "time_based"}
    /\ RedeemsPoints \in BOOLEAN
    /\ EarnsPoints \in BOOLEAN
    /\ Discounted \in BOOLEAN
    /\ EarlyRefunds \in BOOLEAN
    /\ "none" \notin CancelReasons
    /\ "dashboard" \notin CancelReasons
    /\ MaxFailures \in Nat
    /\ MaxDeclines \in Nat

VARIABLES
    order,           \* orders.order_json: status and timeline
    paymentId,       \* is orders.payment_id set
    refundSnapshot,  \* status in orders.successful_refund_json, or "none"
    discount,        \* this order's discount_code_redemptions row
    ledger,          \* loyalty idempotency keys applied for this order
    intent,          \* Stripe: status of the PaymentIntent
    refundedBy,      \* Stripe: idempotency key of the refund, or "none"
    events,          \* Stripe: webhook events not accepted yet
    declines,        \* declined attempts so far
    failures,        \* requests that died so far
    pc,              \* per slot: the next effect, or "idle"
    job,             \* per slot: the request
    snap             \* per slot: the order as the handler read it

row == <<order, paymentId, refundSnapshot, discount>>
stripe == <<intent, refundedBy, events, declines>>
slots == <<pc, job, snap>>
vars == <<row, ledger, stripe, failures, slots>>

LedgerKeys == {"redeem", "earn", "reverse-earn", "refund-redeem"}
Events == {"payment_succeeded", "payment_failed", "charge_refunded"}
StaffTargets == {"IN_PREP", "READY", "COMPLETED"}
Kinds == {"charge", "finalize", "decline", "refund", "cancel", "advance", "read"}
Steps == {"idle", "cancelCall", "setPaymentId", "redeem", "earn",
          "redeemDiscount", "findRefund", "refund", "saveRefund", "saveRejected",
          "reverse", "return", "release", "write", "ack"}

NoJob == [kind |-> "read", arg |-> "none"]
Jobs == [kind : Kinds, arg : CancelReasons \cup StaffTargets \cup {"none"}]

(* The webhook event a request answers: accepting it saves the event, after *)
(* which Stripe's redeliveries are recognised as duplicates.                *)
EventsOf(kind) ==
    CASE kind = "charge"  -> {"payment_succeeded"}
      [] kind = "decline" -> {"payment_failed"}
      [] kind = "refund"  -> {"charge_refunded"}
      [] OTHER            -> {}

TypeOK ==
    /\ order \in Orders
    /\ paymentId \in BOOLEAN
    /\ refundSnapshot \in {"none", "REFUNDED", "REJECTED"}
    /\ discount \in {"none", "RESERVED", "REDEEMED", "RELEASED"}
    /\ ledger \subseteq LedgerKeys
    /\ intent \in {"requires_payment_method", "succeeded"}
    /\ refundedBy \in CancelReasons \cup {"none", "dashboard"}
    /\ events \subseteq Events
    /\ declines \in 0..MaxDeclines
    /\ failures \in 0..MaxFailures
    /\ pc \in [Handlers -> Steps]
    /\ job \in [Handlers -> Jobs]
    /\ snap \in [Handlers -> Orders]

Init ==
    /\ order = NewOrder
    /\ paymentId = FALSE
    /\ refundSnapshot = "none"
    /\ discount = IF Discounted THEN "RESERVED" ELSE "none"
    /\ ledger = {}
    /\ intent = "requires_payment_method"
    /\ refundedBy = "none"
    /\ events = {}
    /\ declines = 0
    /\ failures = 0
    /\ pc = [h \in Handlers |-> "idle"]
    /\ job = [h \in Handlers |-> NoJob]
    /\ snap = [h \in Handlers |-> NewOrder]

-----------------------------------------------------------------------------
(* Slots.                                                                   *)

Idle(h) == pc[h] = "idle"

(* A request is received and reads the order row. *)
Serve(h, kind, arg, step) ==
    /\ pc' = [pc EXCEPT ![h] = step]
    /\ job' = [job EXCEPT ![h] = [kind |-> kind, arg |-> arg]]
    /\ snap' = [snap EXCEPT ![h] = order]

Goto(h, step) ==
    /\ pc' = [pc EXCEPT ![h] = step]
    /\ UNCHANGED <<job, snap>>

Done(h) ==
    /\ pc' = [pc EXCEPT ![h] = "idle"]
    /\ job' = [job EXCEPT ![h] = NoJob]
    /\ snap' = [snap EXCEPT ![h] = NewOrder]

(* A crash, a refusal by loyalty, an upstream that does not answer: the     *)
(* request ends, what it wrote stays, a webhook is not accepted.            *)
FailRequest(h) ==
    /\ ~Idle(h)
    /\ failures < MaxFailures
    /\ failures' = failures + 1
    /\ Done(h)
    /\ UNCHANGED <<row, ledger, stripe>>

-----------------------------------------------------------------------------
(* Stripe.                                                                  *)

(* The customer's payment sheet: the client secret outlives the order row.  *)
PaymentSucceeds ==
    /\ intent = "requires_payment_method"
    /\ intent' = "succeeded"
    /\ events' = events \cup {"payment_succeeded"}
    /\ UNCHANGED <<row, ledger, refundedBy, declines, failures, slots>>

PaymentDeclined ==
    /\ intent = "requires_payment_method"
    /\ declines < MaxDeclines
    /\ declines' = declines + 1
    /\ events' = events \cup {"payment_failed"}
    /\ UNCHANGED <<row, ledger, intent, refundedBy, failures, slots>>

(* A full refund made on the Stripe dashboard.                              *)
DashboardRefund ==
    /\ intent = "succeeded"
    /\ refundedBy = "none"
    /\ EarlyRefunds \/ order.status # "PENDING_PAYMENT"
    /\ refundedBy' = "dashboard"
    /\ events' = events \cup {"charge_refunded"}
    /\ UNCHANGED <<row, ledger, intent, declines, failures, slots>>

-----------------------------------------------------------------------------
(* reconcilePaymentWebhook, for a charge.                                   *)

(* Mutant: the event is saved when it arrives, not when it is accepted. *)
ChargeWebhookSavedFirst(h) ==
    /\ Idle(h)
    /\ "payment_succeeded" \in events
    /\ events' = events \ {"payment_succeeded"}
    /\ Serve(h, "charge", "none", "setPaymentId")
    /\ UNCHANGED <<row, ledger, intent, refundedBy, declines, failures>>

(* The Stripe webhook delivers an event until it is accepted, and may       *)
(* deliver it twice at once.                                                *)
ChargeWebhook(h) ==
    /\ Idle(h)
    /\ "payment_succeeded" \in events
    /\ Serve(h, "charge", "none", "setPaymentId")
    /\ UNCHANGED <<row, ledger, stripe, failures>>

(* Mutant: the caller's word is taken for Stripe's. *)
FinalizePaymentUnverified(h) ==
    /\ Idle(h)
    /\ Serve(h, "finalize", "none", "setPaymentId")
    /\ UNCHANGED <<row, ledger, stripe, failures>>

(* The app's finalize call, and the reconciler worker that found a          *)
(* succeeded intent on a pending order: both ask Stripe first.              *)
FinalizePayment(h) ==
    /\ Idle(h)
    /\ intent = "succeeded"
    /\ Serve(h, "finalize", "none", "setPaymentId")
    /\ UNCHANGED <<row, ledger, stripe, failures>>

DeclineWebhook(h) ==
    /\ Idle(h)
    /\ "payment_failed" \in events
    /\ Serve(h, "decline", "none", "setPaymentId")
    /\ UNCHANGED <<row, ledger, stripe, failures>>

RefundWebhook(h) ==
    /\ Idle(h)
    /\ "charge_refunded" \in events
    /\ Serve(h, "refund", "none", "setPaymentId")
    /\ UNCHANGED <<row, ledger, stripe, failures>>

(* setPaymentId, before the kind of event is looked at. A success on an     *)
(* order that was read as unpaid goes on to settle it, a decline gives the  *)
(* discount code back, a refund is stored before it is judged.              *)
SetPaymentId(h) ==
    /\ pc[h] = "setPaymentId"
    /\ paymentId' = TRUE
    /\ Goto(h, CASE job[h].kind = "decline" -> "release"
                 [] job[h].kind = "refund"  -> "saveRefund"
                 [] OTHER -> IF snap[h].status = "PENDING_PAYMENT"
                             THEN "redeem" ELSE "ack")
    /\ UNCHANGED <<order, refundSnapshot, discount, ledger, stripe, failures>>

RedeemPoints(h) ==
    /\ pc[h] = "redeem"
    /\ ledger' = ledger \cup (IF RedeemsPoints THEN {"redeem"} ELSE {})
    /\ Goto(h, "earn")
    /\ UNCHANGED <<row, stripe, failures>>

EarnPoints(h) ==
    /\ pc[h] = "earn"
    /\ ledger' = ledger \cup {"earn"}
    /\ Goto(h, "redeemDiscount")
    /\ UNCHANGED <<row, stripe, failures>>

(* redeemDiscountForOrder updates the row only WHERE status = RESERVED.     *)
RedeemDiscount(h) ==
    /\ pc[h] = "redeemDiscount"
    /\ discount' = IF discount = "RESERVED" THEN "REDEEMED" ELSE discount
    /\ Goto(h, "write")
    /\ UNCHANGED <<order, paymentId, refundSnapshot, ledger, stripe, failures>>

-----------------------------------------------------------------------------
(* cancelOrder, and the order a new checkout supersedes.                    *)

(* Mutant: a COMPLETED order can be canceled. *)
CancelableCompleted(source) ==
    /\ order.status # "CANCELED"
    /\ order.status # "PENDING_PAYMENT" =>
          /\ source = "staff" => "staff" \in FulfillmentModes
          /\ paymentId

(* Statuses a cancellation from this source may start from. *)
Cancelable(source) ==
    /\ order.status \notin TerminalStatuses
    /\ order.status # "PENDING_PAYMENT" =>
          /\ source = "staff" => "staff" \in FulfillmentModes
          /\ paymentId

(* Mutant: a paid order is canceled like an unpaid one. *)
StartCancelUnrefunded(h, reason) == Serve(h, "cancel", reason, "release")

StartCancel(h, reason) ==
    Serve(h, "cancel", reason,
          IF order.status = "PENDING_PAYMENT" THEN "release" ELSE "findRefund")

CancelOrder(h, source, reason) ==
    /\ Idle(h)
    /\ Cancelable(source)
    /\ StartCancel(h, reason)
    /\ UNCHANGED <<row, ledger, stripe, failures>>

(* createOrder of another quote cancels the customer's unpaid order.        *)
SupersedeOrder(h) ==
    /\ Idle(h)
    /\ order.status = "PENDING_PAYMENT"
    /\ Serve(h, "cancel", "none", "release")
    /\ UNCHANGED <<row, ledger, stripe, failures>>

(* processStalePaymentsBatch: the order was listed as pending, Stripe said  *)
(* the intent has no usable payment method; the cancel call comes later.    *)
ReconcilerGivesUp(h) ==
    /\ Idle(h)
    /\ order.status = "PENDING_PAYMENT"
    /\ intent = "requires_payment_method"
    /\ Serve(h, "cancel", "none", "cancelCall")
    /\ UNCHANGED <<row, ledger, stripe, failures>>

(* The internal cancel reads the order afresh and takes any status.         *)
ReconcilerCancels(h, reason) ==
    /\ pc[h] = "cancelCall"
    /\ IF Cancelable("system") THEN StartCancel(h, reason) ELSE Done(h)
    /\ UNCHANGED <<row, ledger, stripe, failures>>

(* A refund already on the row is reused.                                   *)
FindRefund(h) ==
    /\ pc[h] = "findRefund"
    /\ Goto(h, IF refundSnapshot = "REFUNDED" THEN "reverse" ELSE "refund")
    /\ UNCHANGED <<row, ledger, stripe, failures>>

(* Stripe replays a refund with the same idempotency key, and announces the *)
(* first one with a charge.refunded event.                                  *)
RequestRefund(h) ==
    /\ pc[h] = "refund"
    /\ refundedBy \in {"none", job[h].arg}
    /\ refundedBy' = job[h].arg
    /\ events' = IF refundedBy = "none" THEN events \cup {"charge_refunded"}
                                        ELSE events
    /\ Goto(h, "saveRefund")
    /\ UNCHANGED <<row, ledger, intent, declines, failures>>

(* Payments answers REJECTED and the rejected snapshot is kept for support. *)
RejectRefund(h) ==
    /\ pc[h] = "refund"
    /\ refundedBy = "none"
    /\ Goto(h, "saveRejected")
    /\ UNCHANGED <<row, ledger, stripe, failures>>

(* Stripe has nothing left to refund under another key: 502, nothing kept.  *)
RefundUnavailable(h) ==
    /\ pc[h] = "refund"
    /\ refundedBy \notin {"none", job[h].arg}
    /\ Done(h)
    /\ UNCHANGED <<row, ledger, stripe, failures>>

(* Mutant: an unpaid order is refund-eligible. *)
RefundEligibleUnpaid(o) == o.status \notin TerminalStatuses

(* setSuccessfulRefund. After a refund webhook, an order that was read as   *)
(* unpaid or terminal is left as it is and the event accepted.              *)
RefundEligible(o) == o.status \notin TerminalStatuses \cup {"PENDING_PAYMENT"}

(* Mutant: the row gets the provider's status as it came. *)
SaveRefundUnparsed(h) ==
    /\ pc[h] = "saveRefund"
    /\ refundSnapshot' = "succeeded"
    /\ Goto(h, IF RefundEligible(snap[h]) THEN "reverse" ELSE "ack")
    /\ UNCHANGED <<order, paymentId, discount, ledger, stripe, failures>>

SaveRefund(h) ==
    /\ pc[h] = "saveRefund"
    /\ refundSnapshot' = "REFUNDED"
    /\ Goto(h, IF RefundEligible(snap[h]) THEN "reverse" ELSE "ack")
    /\ UNCHANGED <<order, paymentId, discount, ledger, stripe, failures>>

SaveRejectedRefund(h) ==
    /\ pc[h] = "saveRejected"
    /\ refundSnapshot' = "REJECTED"
    /\ Done(h)
    /\ UNCHANGED <<order, paymentId, discount, ledger, stripe, failures>>

(* Both refund paths undo the points under the same two keys. *)
ReverseEarnedPoints(h) ==
    /\ pc[h] = "reverse"
    /\ ledger' = ledger \cup (IF EarnsPoints THEN {"reverse-earn"} ELSE {})
    /\ Goto(h, "return")
    /\ UNCHANGED <<row, stripe, failures>>

(* Mutant: a refund webhook undoes the points and leaves the status. *)
ReturnRedeemedPointsOnly(h) ==
    /\ pc[h] = "return"
    /\ ledger' = ledger \cup (IF RedeemsPoints THEN {"refund-redeem"} ELSE {})
    /\ Goto(h, IF job[h].kind = "refund" THEN "ack" ELSE "release")
    /\ UNCHANGED <<row, stripe, failures>>

ReturnRedeemedPoints(h) ==
    /\ pc[h] = "return"
    /\ ledger' = ledger \cup (IF RedeemsPoints THEN {"refund-redeem"} ELSE {})
    /\ Goto(h, IF job[h].kind = "refund" THEN "write" ELSE "release")
    /\ UNCHANGED <<row, stripe, failures>>

(* releaseDiscountForOrder updates the row only WHERE status = RESERVED.    *)
ReleaseDiscount(h) ==
    /\ pc[h] = "release"
    /\ discount' = IF discount = "RESERVED" THEN "RELEASED" ELSE discount
    /\ Goto(h, IF job[h].kind = "decline" THEN "ack" ELSE "write")
    /\ UNCHANGED <<order, paymentId, refundSnapshot, ledger, stripe, failures>>

-----------------------------------------------------------------------------
(* Fulfilment.                                                              *)

(* Mutant: staff may skip a status. *)
AdvanceOrderSkipping(h, target) ==
    /\ Idle(h)
    /\ "staff" \in FulfillmentModes
    /\ CanAdvanceTo(order, target)
    /\ Serve(h, "advance", target, "write")
    /\ UNCHANGED <<row, ledger, stripe, failures>>

(* advanceOrderStatus: staff move the order one status on.                  *)
AdvanceOrder(h, target) ==
    /\ Idle(h)
    /\ "staff" \in FulfillmentModes
    /\ order.status # target
    /\ CanTransition(order.status, target)
    /\ Serve(h, "advance", target, "write")
    /\ UNCHANGED <<row, ledger, stripe, failures>>

(* Any read in time-based mode: the age of the PAID entry gives the target. *)
ReadOrder(h, target) ==
    /\ Idle(h)
    /\ "time_based" \in FulfillmentModes
    /\ order.status # "PENDING_PAYMENT"
    /\ Reached(order, "PAID")
    /\ CanAdvanceTo(order, target)
    /\ Serve(h, "read", target, "write")
    /\ UNCHANGED <<row, ledger, stripe, failures>>

-----------------------------------------------------------------------------
(* updateOrder: the row becomes the handler's copy, moved on.               *)
Outcome(h) ==
    CASE job[h].kind \in {"charge", "finalize"} -> Transition(snap[h], "PAID")
      [] job[h].kind \in {"cancel", "refund"}   -> Transition(snap[h], "CANCELED")
      [] job[h].kind = "advance" -> Transition(snap[h], job[h].arg)
      [] OTHER                   -> AdvanceTo(snap[h], job[h].arg)

WriteOrder(h) ==
    /\ pc[h] = "write"
    /\ order' = Outcome(h)
    /\ Goto(h, "ack")
    /\ UNCHANGED <<paymentId, refundSnapshot, discount, ledger, stripe, failures>>

(* The response. A webhook's event is saved, and Stripe stops.              *)
Respond(h) ==
    /\ pc[h] = "ack"
    /\ events' = events \ EventsOf(job[h].kind)
    /\ Done(h)
    /\ UNCHANGED <<row, ledger, intent, refundedBy, declines, failures>>

-----------------------------------------------------------------------------
(* What a request in flight does next. *)
Step(h) ==
    \/ SetPaymentId(h) \/ RedeemPoints(h) \/ EarnPoints(h) \/ RedeemDiscount(h)
    \/ \E reason \in CancelReasons : ReconcilerCancels(h, reason)
    \/ FindRefund(h) \/ RequestRefund(h) \/ RejectRefund(h)
    \/ RefundUnavailable(h) \/ SaveRefund(h) \/ SaveRejectedRefund(h)
    \/ ReverseEarnedPoints(h) \/ ReturnRedeemedPoints(h) \/ ReleaseDiscount(h)
    \/ WriteOrder(h) \/ Respond(h)

Webhook(h) == ChargeWebhook(h) \/ DeclineWebhook(h) \/ RefundWebhook(h)

Request(h) ==
    \/ FinalizePayment(h) \/ SupersedeOrder(h) \/ ReconcilerGivesUp(h)
    \/ \E source \in {"customer", "staff"}, reason \in CancelReasons :
          CancelOrder(h, source, reason)
    \/ \E target \in StaffTargets : AdvanceOrder(h, target) \/ ReadOrder(h, target)

Next ==
    \/ PaymentSucceeds \/ PaymentDeclined \/ DashboardRefund
    \/ \E h \in Handlers :
          Step(h) \/ Webhook(h) \/ Request(h) \/ FailRequest(h)

Spec == Init /\ [][Next]_vars

(* Stripe redelivers until it is answered, a handler that is not killed     *)
(* goes on, and there are finitely many failures. Nothing obliges a         *)
(* customer, the staff or the worker to act.                                *)
Fairness ==
    /\ \A h \in Handlers : WF_vars(Step(h))
    /\ SF_vars(\E h \in Handlers : ChargeWebhook(h))
    /\ SF_vars(\E h \in Handlers : RefundWebhook(h))

FairSpec == Spec /\ Fairness

-----------------------------------------------------------------------------
(* Properties.                                                              *)

(* Whatever the overlap of requests, the stored row is one handler's copy   *)
(* moved on by valid transitions, so its timeline is a path of the          *)
(* lifecycle that ends in its status.                                       *)
TimelineWellFormed == WellFormed(order)

(* No order reaches the kitchen unpaid: a PAID entry means Stripe captured  *)
(* the money, the payment id a refund would need is on the row, and the     *)
(* points were taken and granted first (reconcilePaymentWebhook).           *)
PaidIsSettled ==
    Reached(order, "PAID") =>
        /\ intent = "succeeded"
        /\ paymentId
        /\ "earn" \in ledger
        /\ RedeemsPoints => "redeem" \in ledger

(* "Customer cancel continues to refund paid orders before transitioning to *)
(* CANCELED" (docs/order-lifecycle.md): an order canceled after it was PAID *)
(* has its money back and its points undone, on every path there.           *)
CanceledAfterPaidIsUndone ==
    order.status = "CANCELED" /\ Reached(order, "PAID") =>
        /\ refundedBy # "none"
        /\ EarnsPoints => "reverse-earn" \in ledger
        /\ RedeemsPoints => "refund-redeem" \in ledger

(* Points are undone only for an order that was refunded, and only after    *)
(* they were granted: neither a cancel racing the payment nor a refund      *)
(* webhook that comes early takes points that were never given.             *)
PointsUndoneOnlyAfterRefund ==
    /\ ledger \cap {"reverse-earn", "refund-redeem"} # {} => refundedBy # "none"
    /\ "reverse-earn" \in ledger => "earn" \in ledger
    /\ "refund-redeem" \in ledger => "redeem" \in ledger

(* Neither requests that overlap nor one that dies lose what Stripe said: a *)
(* captured payment whose order still waits for it is delivered again (the  *)
(* webhook's event is saved after the order is, and a stale copy never      *)
(* takes the order back to PENDING_PAYMENT).                                *)
PaymentIsRemembered ==
    intent = "succeeded" /\ order.status = "PENDING_PAYMENT"
        => "payment_succeeded" \in events

(* Nor is a refund forgotten when one request at a time is served: while    *)
(* the kitchen still has the order, charge.refunded is delivered again.     *)
RefundIsRemembered ==
    refundedBy # "none" /\ order.status \notin TerminalStatuses
        => "charge_refunded" \in events

(* A captured payment settles its order: the webhook is redelivered until   *)
(* the order has left PENDING_PAYMENT.                                      *)
CapturedPaymentSettles ==
    intent = "succeeded" ~> order.status # "PENDING_PAYMENT"

(* A refunded order does not stay with the kitchen: it ends CANCELED, or    *)
(* it was COMPLETED and is left for review.                                 *)
RefundedOrderEnds ==
    refundedBy # "none" ~> order.status \in TerminalStatuses

(* The stored order keeps the promise of docs/order-lifecycle.md. *)
History == INSTANCE OrderHistory
KeepsHistory == History!Spec

(* "Customer cancel continues to refund paid orders before transitioning to *)
(* CANCELED" (docs/order-lifecycle.md:111), of the stored row.              *)
PaidIsRefundedBeforeCanceled ==
    [][order.status = "PAID" /\ order'.status = "CANCELED"
          => refundedBy # "none"]_order

(* "once an order is CANCELED it must not advance again"                    *)
(* (docs/order-lifecycle.md:36), of the stored row.                         *)
CanceledIsFinal == [][order.status = "CANCELED" => order'.status = "CANCELED"]_order

(* A paid order that applied a discount code used up a redemption of it:    *)
(* the code is reserved at creation and redeemed on payment success.        *)
DiscountRedeemedWhenPaid ==
    Discounted /\ Reached(order, "PAID") => discount = "REDEEMED"
=============================================================================
