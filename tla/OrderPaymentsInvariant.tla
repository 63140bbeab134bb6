----------------------- MODULE OrderPaymentsInvariant -----------------------
(***************************************************************************)
(* Why the safety properties of OrderPayments survive overlapping requests. *)
(* A handler writes back a row it read long ago, so what is true of the     *)
(* stored row has to be true of every copy in flight as well. It is,        *)
(* because the facts behind it never go away: a captured payment, a payment *)
(* id, a refund and an applied loyalty key are never taken back. The rest   *)
(* says which of these facts each step of a handler may rely on.            *)
(***************************************************************************)
EXTENDS OrderPayments

(* What never goes away. *)
Settled ==
    /\ intent = "succeeded"
    /\ paymentId
    /\ "earn" \in ledger
    /\ RedeemsPoints => "redeem" \in ledger

Refunded == refundedBy # "none"

Undone ==
    /\ Refunded
    /\ EarnsPoints => "reverse-earn" \in ledger
    /\ RedeemsPoints => "refund-redeem" \in ledger

(* A row, stored or in flight. *)
RowShape(o) ==
    /\ WellFormed(o)
    /\ o.status = "PENDING_PAYMENT" => ~Reached(o, "PAID")
    /\ o.status \notin {"PENDING_PAYMENT", "CANCELED"} => Reached(o, "PAID")

RowOK(o) ==
    /\ RowShape(o)
    /\ Reached(o, "PAID") => Settled
    /\ o.status = "CANCELED" /\ Reached(o, "PAID") => Undone

(* A step belongs to the requests that take it. *)
StepOK(h) ==
    LET kind == job[h].kind IN
    /\ pc[h] = "setPaymentId" => kind \in {"charge", "finalize", "decline", "refund"}
    /\ pc[h] \in {"redeem", "earn", "redeemDiscount"} =>
          kind \in {"charge", "finalize"} /\ snap[h].status = "PENDING_PAYMENT"
    /\ pc[h] \in {"findRefund", "refund"} =>
          kind = "cancel" /\ job[h].arg \in CancelReasons /\ RefundEligible(snap[h])
    /\ pc[h] = "saveRefund" =>
          \/ kind = "refund"
          \/ kind = "cancel" /\ RefundEligible(snap[h])
    /\ pc[h] \in {"reverse", "return"} =>
          kind \in {"cancel", "refund"} /\ RefundEligible(snap[h])
    /\ pc[h] = "release" =>
          \/ kind = "decline"
          \/ kind = "cancel" /\ snap[h].status \notin TerminalStatuses
    /\ pc[h] = "write" =>
          \/ kind \in {"charge", "finalize"} /\ snap[h].status = "PENDING_PAYMENT"
          \/ kind = "cancel" /\ snap[h].status \notin TerminalStatuses
          \/ kind = "refund" /\ RefundEligible(snap[h])
          \/ kind = "advance" /\ job[h].arg \in StaffTargets
                              /\ CanTransition(snap[h].status, job[h].arg)
          \/ kind = "read" /\ RefundEligible(snap[h]) /\ job[h].arg \in StaffTargets
                           /\ CanAdvanceTo(snap[h], job[h].arg)

(* What a request knows when it charges. *)
ChargeOK(h) ==
    job[h].kind \in {"charge", "finalize"} =>
       /\ intent = "succeeded"
       /\ pc[h] \in {"redeem", "earn", "redeemDiscount", "write"} => paymentId
       /\ pc[h] \in {"earn", "redeemDiscount", "write"} =>
             (RedeemsPoints => "redeem" \in ledger)
       /\ pc[h] \in {"redeemDiscount", "write"} => "earn" \in ledger

(* What a request knows when it cancels or reconciles a refund. *)
RefundOK(h) ==
    /\ job[h].kind = "refund" => Refunded
    /\ pc[h] \in {"saveRefund", "reverse", "return"} => Refunded
    /\ pc[h] = "return" => (EarnsPoints => "reverse-earn" \in ledger)
    /\ job[h].kind = "cancel" /\ pc[h] \in {"release", "write"} /\ RefundEligible(snap[h])
          => Undone
    /\ job[h].kind = "refund" /\ pc[h] = "write" => Undone

StripeOK ==
    /\ "payment_succeeded" \in events => intent = "succeeded"
    /\ "charge_refunded" \in events => Refunded
    /\ refundSnapshot = "REFUNDED" => Refunded

IInv ==
    /\ TypeOK
    /\ RowOK(order)
    /\ \A h \in Handlers : RowOK(snap[h])
    /\ \A h \in Handlers : StepOK(h) /\ ChargeOK(h) /\ RefundOK(h)
    /\ StripeOK
    /\ PointsUndoneOnlyAfterRefund

(* Who has seen the order past PENDING_PAYMENT, or has accepted the charge, *)
(* can rely on it: no write takes an order back there.                      *)
PaymentIInv ==
    /\ PaymentIsRemembered
    /\ \A h \in Handlers :
          /\ snap[h].status # "PENDING_PAYMENT" => order.status # "PENDING_PAYMENT"
          /\ pc[h] = "ack" /\ job[h].kind = "charge" => order.status # "PENDING_PAYMENT"

(* Without overlap, a request that may still write has read the stored row: *)
(* nobody else is there to change it.                                       *)
SnapFresh ==
    \A h \in Handlers : pc[h] \notin {"idle", "cancelCall", "ack"} => snap[h] = order

(* Without overlap and early refunds, who accepts a refund leaves the order *)
(* at its end.                                                              *)
RefundIInv ==
    /\ RefundIsRemembered
    /\ Refunded => order.status # "PENDING_PAYMENT"
    /\ \A h \in Handlers : pc[h] = "ack" /\ job[h].kind = "refund"
          => order.status \in TerminalStatuses
=============================================================================
