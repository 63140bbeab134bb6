------------------------ MODULE OrderPaymentsProofs ------------------------
(***************************************************************************)
(* The safety properties of OrderPayments hold for every number of          *)
(* overlapping requests, both fulfilment modes, every set of cancellation   *)
(* reasons and any number of declines and crashes.                          *)
(***************************************************************************)
EXTENDS OrderPaymentsInvariant, SequenceTheorems, TLAPS

(* What the lifecycle helpers preserve of any order they are given: its     *)
(* type, a timeline that is a path of the lifecycle, and the entries that   *)
(* were there.                                                              *)

LEMMA IndexOf ==
    /\ LifecycleIndex("PENDING_PAYMENT") = 1
    /\ LifecycleIndex("PAID") = 2
    /\ LifecycleIndex("IN_PREP") = 3
    /\ LifecycleIndex("READY") = 4
    /\ LifecycleIndex("COMPLETED") = 5
  <1> USE DEF LifecycleIndex, LifecycleSequence
  <1>1. \A i \in 1..5 : LifecycleSequence[i] = "PENDING_PAYMENT" <=> i = 1
    OBVIOUS
  <1>2. \A i \in 1..5 : LifecycleSequence[i] = "PAID" <=> i = 2
    OBVIOUS
  <1>3. \A i \in 1..5 : LifecycleSequence[i] = "IN_PREP" <=> i = 3
    OBVIOUS
  <1>4. \A i \in 1..5 : LifecycleSequence[i] = "READY" <=> i = 4
    OBVIOUS
  <1>5. \A i \in 1..5 : LifecycleSequence[i] = "COMPLETED" <=> i = 5
    OBVIOUS
  <1> QED
    BY <1>1, <1>2, <1>3, <1>4, <1>5

LEMMA SequencedIndex ==
    ASSUME NEW s \in Sequenced
    PROVE  /\ LifecycleIndex(s) \in 1..5
           /\ LifecycleSequence[LifecycleIndex(s)] = s
  BY IndexOf DEF Sequenced, LifecycleSequence

LEMMA SequenceType ==
    /\ LifecycleSequence \in Seq(Statuses)
    /\ Len(LifecycleSequence) = 5
  BY DEF LifecycleSequence, Statuses, Sequenced

(* One transition. *)
LEMMA TransitionType ==
    ASSUME NEW o \in Orders, NEW to \in Statuses
    PROVE  Transition(o, to) \in Orders
  BY DEF Transition, Orders

LEMMA TransitionReached ==
    ASSUME NEW o \in Orders, NEW to \in Statuses, NEW s \in Statuses
    PROVE  /\ Reached(o, s) => Reached(Transition(o, to), s)
           /\ Reached(Transition(o, to), s) => Reached(o, s) \/ s = to
  BY DEF Transition, Reached, Orders

LEMMA TransitionWellFormed ==
    ASSUME NEW o \in Orders, NEW to \in Statuses,
           WellFormed(o), CanTransition(o.status, to)
    PROVE  WellFormed(Transition(o, to)) /\ Transition(o, to).status = to
  <1>1. CASE o.status = to
    BY <1>1 DEF Transition
  <1>2. CASE o.status # to
    <2> DEFINE t == Append(o.timeline, to)
    <2>1. Transition(o, to) = [status |-> to, timeline |-> t]
      BY <1>2 DEF Transition
    <2>2. /\ Len(t) = Len(o.timeline) + 1
          /\ t[Len(t)] = to
          /\ \A i \in 1..Len(o.timeline) : t[i] = o.timeline[i]
          /\ Len(o.timeline) \in Nat \ {0}
      BY DEF Orders, WellFormed
    <2>3. ASSUME NEW i \in 1..(Len(t) - 1)
          PROVE  t[i] # t[i + 1] /\ CanTransition(t[i], t[i + 1])
      <3>1. CASE i = Len(o.timeline)
        BY <1>2, <2>2, <3>1 DEF WellFormed
      <3>2. CASE i # Len(o.timeline)
        BY <2>2, <3>2 DEF WellFormed
      <3> QED
        BY <3>1, <3>2
    <2> HIDE DEF t
    <2> QED
      BY <2>1, <2>2, <2>3 DEF WellFormed
  <1> QED
    BY <1>1, <1>2

(* Several transitions at once. *)
LEMMA AdvanceShape ==
    ASSUME NEW o \in Orders, NEW target \in Statuses, CanAdvanceTo(o, target),
           NEW from, from = LifecycleIndex(o.status),
           NEW to, to = LifecycleIndex(target)
    PROVE  /\ from \in 1..5 /\ to \in 1..5 /\ from < to
           /\ LifecycleSequence[from] = o.status /\ LifecycleSequence[to] = target
           /\ AdvanceTo(o, target).status = target
           /\ AdvanceTo(o, target).timeline \in Seq(Statuses)
           /\ Len(AdvanceTo(o, target).timeline) = Len(o.timeline) + (to - from)
           /\ \A i \in 1..Len(o.timeline) : AdvanceTo(o, target).timeline[i] = o.timeline[i]
           /\ \A i \in 1..(to - from) :
                 AdvanceTo(o, target).timeline[Len(o.timeline) + i] = LifecycleSequence[from + i]
  <1>1. o.status \in Sequenced /\ target \in Sequenced
    BY DEF CanAdvanceTo, Orders, Statuses, TerminalStatuses
  <1>2. from \in 1..5 /\ to \in 1..5 /\ from < to
    BY <1>1, SequencedIndex DEF CanAdvanceTo
  <1> DEFINE tail == SubSeq(LifecycleSequence, from + 1, to)
  <1>3. /\ tail \in Seq(Statuses)
        /\ Len(tail) = to - from
        /\ \A i \in 1..(to - from) : tail[i] = LifecycleSequence[from + i]
    <2>1. \A i \in (from + 1)..to : LifecycleSequence[i] \in Statuses
      BY <1>2 DEF LifecycleSequence, Statuses, Sequenced
    <2>2. /\ tail \in Seq(Statuses)
          /\ Len(tail) = to - (from + 1) + 1
          /\ \A i \in 1..(to - (from + 1) + 1) : tail[i] = LifecycleSequence[(from + 1) + i - 1]
      BY <1>2, <2>1, SubSeqProperties
    <2>3. to - (from + 1) + 1 = to - from
      BY <1>2
    <2>4. \A i \in 1..(to - from) : (from + 1) + i - 1 = from + i
      BY <1>2
    <2> QED
      BY <2>2, <2>3, <2>4
  <1>4. o.timeline \in Seq(Statuses)
    BY DEF Orders
  <1>5. AdvanceTo(o, target).timeline = o.timeline \o tail
    BY DEF AdvanceTo
  <1>6. AdvanceTo(o, target).status = target
    BY DEF AdvanceTo
  <1>7. LifecycleSequence[from] = o.status /\ LifecycleSequence[to] = target
    BY <1>1, SequencedIndex
  <1> HIDE DEF tail
  <1> QED
    BY <1>2, <1>3, <1>4, <1>5, <1>6, <1>7

LEMMA AdvanceType ==
    ASSUME NEW o \in Orders, NEW target \in Statuses, CanAdvanceTo(o, target)
    PROVE  AdvanceTo(o, target) \in Orders
  <1>1. AdvanceTo(o, target).timeline \in Seq(Statuses)
    BY AdvanceShape
  <1> QED
    BY <1>1 DEF AdvanceTo, Orders

LEMMA AdvanceReached ==
    ASSUME NEW o \in Orders, NEW target \in Statuses, CanAdvanceTo(o, target),
           NEW s \in Statuses
    PROVE  Reached(o, s) => Reached(AdvanceTo(o, target), s)
  <1>1. AdvanceTo(o, target).timeline \in Seq(Statuses) /\ o.timeline \in Seq(Statuses)
    BY AdvanceType DEF Orders
  <1>2. Len(o.timeline) <= Len(AdvanceTo(o, target).timeline)
    <2>1. PICK from \in 1..5, to \in 1..5 :
             /\ from = LifecycleIndex(o.status)
             /\ to = LifecycleIndex(target)
      BY AdvanceShape
    <2>2. /\ from < to
          /\ Len(AdvanceTo(o, target).timeline) = Len(o.timeline) + (to - from)
      BY <2>1, AdvanceShape
    <2> QED
      BY <1>1, <2>2
  <1>3. \A i \in 1..Len(o.timeline) : AdvanceTo(o, target).timeline[i] = o.timeline[i]
    BY AdvanceShape
  <1>4. \A i \in DOMAIN o.timeline : /\ i \in DOMAIN AdvanceTo(o, target).timeline
                                    /\ AdvanceTo(o, target).timeline[i] = o.timeline[i]
    BY <1>1, <1>2, <1>3
  <1> QED
    BY <1>4 DEF Reached

LEMMA AdvanceWellFormed ==
    ASSUME NEW o \in Orders, NEW target \in Statuses, CanAdvanceTo(o, target),
           WellFormed(o)
    PROVE  WellFormed(AdvanceTo(o, target)) /\ AdvanceTo(o, target).status = target
  <1> DEFINE t == AdvanceTo(o, target).timeline
             n == Len(o.timeline)
  <1>1. PICK from \in 1..5, to \in 1..5 :
           /\ from = LifecycleIndex(o.status)
           /\ to = LifecycleIndex(target)
    BY AdvanceShape
  <1>2. /\ from < to
        /\ LifecycleSequence[from] = o.status /\ LifecycleSequence[to] = target
        /\ AdvanceTo(o, target).status = target
        /\ Len(t) = n + (to - from)
        /\ \A i \in 1..n : t[i] = o.timeline[i]
        /\ \A i \in 1..(to - from) : t[n + i] = LifecycleSequence[from + i]
    BY <1>1, AdvanceShape
  <1>3. n \in Nat \ {0} /\ o.timeline[n] = o.status
    BY DEF Orders, WellFormed
  <1>4. \A i \in 1..4 : /\ LifecycleSequence[i] # LifecycleSequence[i + 1]
                        /\ i < 5 => CanTransition(LifecycleSequence[i], LifecycleSequence[i + 1])
    BY IndexOf DEF LifecycleSequence, CanTransition, TerminalStatuses, Sequenced
  <1> HIDE DEF t, n
  <1>5. \A i \in 0..(to - from) : t[n + i] = LifecycleSequence[from + i]
    BY <1>2, <1>3
  <1>6. ASSUME NEW i \in 1..(Len(t) - 1)
        PROVE  t[i] # t[i + 1] /\ CanTransition(t[i], t[i + 1])
    <2>1. CASE i < n
      <3>1. t[i] = o.timeline[i] /\ t[i + 1] = o.timeline[i + 1] /\ i \in 1..(n - 1)
        BY <1>2, <1>3, <2>1
      <3> QED
        BY <3>1 DEF WellFormed, n
    <2>2. CASE i >= n
      <3>1. PICK j \in 0..(to - from - 1) : i = n + j
        <4>1. i - n \in 0..(to - from - 1) /\ i = n + (i - n)
          BY <1>2, <1>3, <2>2
        <4> QED
          BY <4>1
      <3>2. t[n + j] = LifecycleSequence[from + j]
        BY <1>5
      <3>3. t[n + j + 1] = LifecycleSequence[from + j + 1]
        <4>1. j + 1 \in 0..(to - from)
          OBVIOUS
        <4>2. t[n + (j + 1)] = LifecycleSequence[from + (j + 1)]
          BY <4>1, <1>5
        <4> QED
          BY <4>2, <1>3
      <3>4. from + j \in 1..4
        BY <1>2
      <3> QED
        BY <3>1, <3>2, <3>3, <3>4, <1>4
    <2> QED
      BY <2>1, <2>2, <1>3
  <1>7. t[Len(t)] = target /\ Len(t) > 0
    <2>1. t[n + (to - from)] = LifecycleSequence[from + (to - from)]
      BY <1>5, <1>2
    <2> QED
      BY <2>1, <1>2, <1>3
  <1>8. t[1] \in {"PENDING_PAYMENT", "PAID"}
    BY <1>2, <1>3 DEF WellFormed
  <1> QED
    BY <1>2, <1>6, <1>7, <1>8 DEF WellFormed, t

-----------------------------------------------------------------------------
USE ConfigurationOK DEF ConfigurationOK

-----------------------------------------------------------------------------
(* Types.                                                                   *)

LEMMA NewOrderType == NewOrder \in Orders
  BY DEF NewOrder, Orders, Statuses, Sequenced

THEOREM TypeInit == Init => TypeOK
  <1> SUFFICES ASSUME Init PROVE TypeOK
    OBVIOUS
  <1>1. NoJob \in Jobs /\ "idle" \in Steps
    BY DEF NoJob, Jobs, Kinds, Steps
  <1>2. /\ order \in Orders
        /\ pc \in [Handlers -> Steps]
        /\ job \in [Handlers -> Jobs]
        /\ snap \in [Handlers -> Orders]
    BY <1>1, NewOrderType DEF Init
  <1>3. discount \in {"none", "RESERVED", "REDEEMED", "RELEASED"}
    BY DEF Init
  <1>4. declines \in 0..MaxDeclines /\ failures \in 0..MaxFailures
    BY DEF Init
  <1>5. paymentId \in BOOLEAN /\ ledger \subseteq LedgerKeys /\ events \subseteq Events
    BY DEF Init
  <1>6. /\ refundSnapshot \in {"none", "REFUNDED", "REJECTED"}
        /\ intent \in {"requires_payment_method", "succeeded"}
        /\ refundedBy \in CancelReasons \cup {"none", "dashboard"}
    BY DEF Init
  <1> QED
    BY <1>2, <1>3, <1>4, <1>5, <1>6 DEF TypeOK

(* The three ways a slot moves keep its type. *)
LEMMA ServeType ==
    ASSUME TypeOK, NEW h \in Handlers, NEW kind \in Kinds, NEW step \in Steps,
           NEW arg \in CancelReasons \cup StaffTargets \cup {"none"},
           Serve(h, kind, arg, step)
    PROVE  /\ pc' \in [Handlers -> Steps] /\ job' \in [Handlers -> Jobs]
           /\ snap' \in [Handlers -> Orders]
  BY DEF TypeOK, Serve, Jobs

LEMMA GotoType ==
    ASSUME TypeOK, NEW h \in Handlers, NEW step \in Steps, Goto(h, step)
    PROVE  /\ pc' \in [Handlers -> Steps] /\ job' \in [Handlers -> Jobs]
           /\ snap' \in [Handlers -> Orders]
  BY DEF TypeOK, Goto

LEMMA DoneType ==
    ASSUME TypeOK, NEW h \in Handlers, Done(h)
    PROVE  /\ pc' \in [Handlers -> Steps] /\ job' \in [Handlers -> Jobs]
           /\ snap' \in [Handlers -> Orders]
  BY NewOrderType DEF TypeOK, Done, Jobs, NoJob, Kinds, Steps

(* What updateOrder writes is an order. *)
LEMMA OutcomeType ==
    ASSUME TypeOK, NEW h \in Handlers, StepOK(h), pc[h] = "write"
    PROVE  Outcome(h) \in Orders
  <1> USE DEF TypeOK, StepOK
  <1>1. snap[h] \in Orders
    OBVIOUS
  <1>2. "PAID" \in Statuses /\ "CANCELED" \in Statuses /\ StaffTargets \subseteq Statuses
    BY DEF Statuses, Sequenced, StaffTargets
  <1>3. CASE job[h].kind \in {"charge", "finalize"}
    BY <1>1, <1>2, <1>3, TransitionType DEF Outcome
  <1>4. CASE job[h].kind \in {"cancel", "refund"}
    BY <1>1, <1>2, <1>4, TransitionType DEF Outcome
  <1>5. CASE job[h].kind = "advance"
    BY <1>1, <1>2, <1>5, TransitionType DEF Outcome
  <1>6. CASE job[h].kind = "read"
    BY <1>1, <1>2, <1>6, AdvanceType DEF Outcome
  <1> QED
    BY <1>3, <1>4, <1>5, <1>6

(* A step of a slot leaves the rest of the state typed if the slot is. *)
LEMMA SlotsTyped ==
    ASSUME TypeOK,
           pc' \in [Handlers -> Steps], job' \in [Handlers -> Jobs],
           snap' \in [Handlers -> Orders],
           order' \in Orders, paymentId' \in BOOLEAN,
           refundSnapshot' \in {"none", "REFUNDED", "REJECTED"},
           discount' \in {"none", "RESERVED", "REDEEMED", "RELEASED"},
           ledger' \subseteq LedgerKeys, intent' \in {"requires_payment_method", "succeeded"},
           refundedBy' \in CancelReasons \cup {"none", "dashboard"},
           events' \subseteq Events, declines' = declines, failures' = failures
    PROVE  TypeOK'
  BY DEF TypeOK

LEMMA StepType ==
    ASSUME IInv, NEW h \in Handlers, Step(h)
    PROVE  TypeOK'
  <1> USE DEF IInv, TypeOK, StepOK, row, stripe, slots
  <1>a. \A s \in Steps : Goto(h, s) => /\ pc' \in [Handlers -> Steps]
                                     /\ job' \in [Handlers -> Jobs]
                                     /\ snap' \in [Handlers -> Orders]
    BY GotoType
  <1>b. Done(h) => /\ pc' \in [Handlers -> Steps]
                   /\ job' \in [Handlers -> Jobs]
                   /\ snap' \in [Handlers -> Orders]
    BY DoneType
  <1>c. /\ {"idle", "cancelCall", "setPaymentId", "redeem", "earn", "redeemDiscount",
            "findRefund", "refund", "saveRefund", "saveRejected", "reverse", "return",
            "release", "write", "ack"} \subseteq Steps
        /\ {"redeem", "earn", "reverse-earn", "refund-redeem"} \subseteq LedgerKeys
        /\ "charge_refunded" \in Events
    BY DEF Steps, LedgerKeys, Events
  <1>1. CASE SetPaymentId(h)
    BY <1>1, <1>a, <1>c DEF SetPaymentId
  <1>2. CASE RedeemPoints(h)
    BY <1>2, <1>a, <1>c DEF RedeemPoints
  <1>3. CASE EarnPoints(h)
    BY <1>3, <1>a, <1>c DEF EarnPoints
  <1>4. CASE RedeemDiscount(h)
    BY <1>4, <1>a, <1>c DEF RedeemDiscount
  <1>5. ASSUME NEW reason \in CancelReasons, ReconcilerCancels(h, reason) PROVE TypeOK'
    <2>1. CASE Done(h)
      BY <1>5, <2>1, <1>b DEF ReconcilerCancels
    <2>2. CASE StartCancel(h, reason)
      <3>1. "cancel" \in Kinds
        BY DEF Kinds
      <3>2. PICK s \in {"release", "findRefund"} : Serve(h, "cancel", reason, s)
        BY <2>2 DEF StartCancel
      <3>3. /\ pc' \in [Handlers -> Steps]
            /\ job' \in [Handlers -> Jobs]
            /\ snap' \in [Handlers -> Orders]
        BY <3>1, <3>2, <1>c, ServeType
      <3> QED
        BY <1>5, <3>3 DEF ReconcilerCancels
    <2> QED
      BY <1>5, <2>1, <2>2 DEF ReconcilerCancels
  <1>6. CASE FindRefund(h)
    BY <1>6, <1>a, <1>c DEF FindRefund
  <1>7. CASE RequestRefund(h)
    BY <1>7, <1>a, <1>c DEF RequestRefund
  <1>8. CASE RejectRefund(h)
    BY <1>8, <1>a, <1>c DEF RejectRefund
  <1>9. CASE RefundUnavailable(h)
    BY <1>9, <1>b DEF RefundUnavailable
  <1>10. CASE SaveRefund(h)
    BY <1>10, <1>a, <1>c DEF SaveRefund
  <1>11. CASE SaveRejectedRefund(h)
    BY <1>11, <1>b DEF SaveRejectedRefund
  <1>12. CASE ReverseEarnedPoints(h)
    BY <1>12, <1>a, <1>c DEF ReverseEarnedPoints
  <1>13. CASE ReturnRedeemedPoints(h)
    BY <1>13, <1>a, <1>c DEF ReturnRedeemedPoints
  <1>14. CASE ReleaseDiscount(h)
    BY <1>14, <1>a, <1>c DEF ReleaseDiscount
  <1>15. CASE WriteOrder(h)
    <2>1. Outcome(h) \in Orders
      BY <1>15, OutcomeType DEF WriteOrder
    <2> QED
      BY <1>15, <2>1, <1>a, <1>c DEF WriteOrder
  <1>16. CASE Respond(h)
    BY <1>16, <1>b DEF Respond
  <1> QED
    BY <1>1, <1>2, <1>3, <1>4, <1>5, <1>6, <1>7, <1>8, <1>9, <1>10, <1>11, <1>12,
       <1>13, <1>14, <1>15, <1>16 DEF Step

LEMMA RequestType ==
    ASSUME IInv, NEW h \in Handlers, Request(h) \/ Webhook(h) \/ FailRequest(h)
    PROVE  TypeOK'
  <1> USE DEF IInv, TypeOK, row, stripe
  <1>1. CASE FailRequest(h)
    BY <1>1, DoneType DEF FailRequest
  <1>2. CASE ~FailRequest(h)
    <2>1. PICK kind \in Kinds, arg \in CancelReasons \cup StaffTargets \cup {"none"},
               step \in Steps : Serve(h, kind, arg, step)
      BY <1>2 DEF Request, Webhook, FinalizePayment, SupersedeOrder, ReconcilerGivesUp,
                  CancelOrder, StartCancel, AdvanceOrder, ReadOrder, ChargeWebhook,
                  DeclineWebhook, RefundWebhook, Kinds, Steps
    <2>2. UNCHANGED <<row, ledger, stripe, failures>>
      BY <1>2 DEF Request, Webhook, FinalizePayment, SupersedeOrder, ReconcilerGivesUp,
                  CancelOrder, AdvanceOrder, ReadOrder, ChargeWebhook, DeclineWebhook,
                  RefundWebhook
    <2> QED
      BY <2>1, <2>2, ServeType
  <1> QED
    BY <1>1, <1>2

LEMMA TypeStep == IInv /\ [Next]_vars => TypeOK'
  <1> SUFFICES ASSUME IInv, [Next]_vars PROVE TypeOK'
    OBVIOUS
  <1> USE DEF IInv, TypeOK, slots, row, stripe
  <1>1. CASE UNCHANGED vars
    BY <1>1 DEF vars
  <1>2. CASE PaymentSucceeds
    BY <1>2 DEF PaymentSucceeds, Events
  <1>3. CASE PaymentDeclined
    BY <1>3 DEF PaymentDeclined, Events
  <1>4. CASE DashboardRefund
    BY <1>4 DEF DashboardRefund, Events
  <1>5. ASSUME NEW h \in Handlers, Step(h) PROVE TypeOK'
    BY <1>5, StepType
  <1>6. ASSUME NEW h \in Handlers, Request(h) \/ Webhook(h) \/ FailRequest(h) PROVE TypeOK'
    BY <1>6, RequestType
  <1> QED
    BY <1>1, <1>2, <1>3, <1>4, <1>5, <1>6 DEF Next

-----------------------------------------------------------------------------
(* What never goes away.                                                    *)

Kept ==
    /\ intent = "succeeded" => intent' = "succeeded"
    /\ paymentId => paymentId'
    /\ ledger \subseteq ledger'
    /\ Refunded => Refunded'

LEMMA KeptFacts ==
    ASSUME Kept
    PROVE  (Settled => Settled') /\ (Undone => Undone')
  BY DEF Kept, Settled, Undone

LEMMA StepKeeps ==
    ASSUME IInv, NEW h \in Handlers, Step(h)
    PROVE  Kept
  <1> USE DEF Kept, Refunded, row, stripe
  <1>1. CASE SetPaymentId(h) \/ FindRefund(h)
    BY <1>1 DEF SetPaymentId, FindRefund
  <1>2. CASE RedeemPoints(h) \/ EarnPoints(h) \/ RedeemDiscount(h)
    BY <1>2 DEF RedeemPoints, EarnPoints, RedeemDiscount
  <1>3. CASE \E reason \in CancelReasons : ReconcilerCancels(h, reason)
    BY <1>3 DEF ReconcilerCancels
  <1>4. CASE RequestRefund(h)
    BY <1>4 DEF RequestRefund, IInv, StepOK
  <1>5. CASE RejectRefund(h) \/ RefundUnavailable(h) \/ SaveRefund(h) \/ SaveRejectedRefund(h)
    BY <1>5 DEF RejectRefund, RefundUnavailable, SaveRefund, SaveRejectedRefund
  <1>6. CASE ReverseEarnedPoints(h) \/ ReturnRedeemedPoints(h) \/ ReleaseDiscount(h)
    BY <1>6 DEF ReverseEarnedPoints, ReturnRedeemedPoints, ReleaseDiscount
  <1>7. CASE WriteOrder(h) \/ Respond(h)
    BY <1>7 DEF WriteOrder, Respond
  <1> QED
    BY <1>1, <1>2, <1>3, <1>4, <1>5, <1>6, <1>7 DEF Step

LEMMA NextKeeps == IInv /\ [Next]_vars => Kept
  <1> SUFFICES ASSUME IInv, [Next]_vars PROVE Kept
    OBVIOUS
  <1>1. ASSUME NEW h \in Handlers, Step(h) PROVE Kept
    BY <1>1, StepKeeps
  <1>2. ASSUME NEW h \in Handlers, Request(h) \/ Webhook(h) \/ FailRequest(h) PROVE Kept
    BY <1>2 DEF Request, Webhook, FinalizePayment, SupersedeOrder, ReconcilerGivesUp,
                CancelOrder, AdvanceOrder, ReadOrder, ChargeWebhook, DeclineWebhook,
                RefundWebhook, FailRequest, Kept, Refunded, row, stripe
  <1>3. CASE PaymentSucceeds \/ PaymentDeclined \/ DashboardRefund \/ UNCHANGED vars
    BY <1>3 DEF PaymentSucceeds, PaymentDeclined, DashboardRefund, vars, Kept, Refunded,
                row, stripe
  <1> QED
    BY <1>1, <1>2, <1>3 DEF Next

-----------------------------------------------------------------------------
(* Rows.                                                                    *)

LEMMA NewOrderShape == RowShape(NewOrder) /\ ~Reached(NewOrder, "PAID")
  BY DEF RowShape, NewOrder, WellFormed, Reached

(* A row that was right stays right where it is copied. *)
LEMMA RowsCopied ==
    ASSUME IInv, Kept, order' = order,
           \A h \in Handlers : snap'[h] \in {snap[h], order, NewOrder}
    PROVE  RowOK(order)' /\ \A h \in Handlers : RowOK(snap[h])'
  <1>1. RowOK(order)'
    BY KeptFacts DEF IInv, RowOK
  <1>2. ASSUME NEW h \in Handlers PROVE RowOK(snap[h])'
    <2>1. CASE snap'[h] = snap[h]
      BY <2>1, KeptFacts DEF IInv, RowOK
    <2>2. CASE snap'[h] = order
      BY <2>2, KeptFacts DEF IInv, RowOK
    <2>3. CASE snap'[h] = NewOrder
      BY <2>3, NewOrderShape DEF RowOK
    <2> QED
      BY <2>1, <2>2, <2>3
  <1> QED
    BY <1>1, <1>2

(* What updateOrder writes is right: the handler's copy was, and its steps  *)
(* gathered the facts the new status needs.                                 *)
LEMMA TransitionShape ==
    ASSUME NEW o \in Orders, NEW to \in Statuses \ {"PENDING_PAYMENT"}, RowShape(o),
           CanTransition(o.status, to), to \notin {"PAID", "CANCELED"} => Reached(o, "PAID")
    PROVE  RowShape(Transition(o, to))
  <1>0. "PAID" \in Statuses
    BY DEF Statuses, Sequenced
  <1>1. WellFormed(Transition(o, to)) /\ Transition(o, to).status = to
    BY TransitionWellFormed DEF RowShape
  <1>2. to = "PAID" => Reached(Transition(o, to), "PAID")
    <2>1. \A i \in {Len(Transition(o, to).timeline)} :
             i \in DOMAIN Transition(o, to).timeline
      BY <1>1, TransitionType DEF WellFormed, Orders
    <2> QED
      BY <1>1, <2>1 DEF Reached, WellFormed
  <1>3. Reached(o, "PAID") => Reached(Transition(o, to), "PAID")
    BY <1>0, TransitionReached
  <1> QED
    BY <1>1, <1>2, <1>3 DEF RowShape

LEMMA EligibleReached ==
    ASSUME NEW o, RowShape(o), RefundEligible(o)
    PROVE  Reached(o, "PAID")
  BY DEF RowShape, RefundEligible, TerminalStatuses

LEMMA AdvanceOnlyPaid ==
    ASSUME NEW from \in Statuses, NEW to \in StaffTargets, CanTransition(from, to), from # to
    PROVE  from \notin {"PENDING_PAYMENT", "CANCELED"}
  BY IndexOf DEF CanTransition, StaffTargets, TerminalStatuses

LEMMA OutcomeOK ==
    ASSUME IInv, NEW h \in Handlers, pc[h] = "write"
    PROVE  RowOK(Outcome(h))
  <1> DEFINE o == snap[h]
             kind == job[h].kind
             arg == job[h].arg
  <1>1. o \in Orders /\ o.status \in Statuses
    BY DEF IInv, TypeOK, Orders
  <1>2. RowOK(o)
    BY DEF IInv
  <1>3. /\ "PAID" \in Statuses \ {"PENDING_PAYMENT"}
        /\ "CANCELED" \in Statuses \ {"PENDING_PAYMENT"}
        /\ StaffTargets \subseteq Statuses \ {"PENDING_PAYMENT", "PAID", "CANCELED"}
    BY DEF Statuses, Sequenced, StaffTargets
  <1>4. CASE kind \in {"charge", "finalize"}
    <2>1. Outcome(h) = Transition(o, "PAID")
      BY <1>4 DEF Outcome
    <2>2. o.status = "PENDING_PAYMENT"
      BY <1>4 DEF IInv, StepOK
    <2>3. CanTransition(o.status, "PAID")
      BY <2>2, IndexOf DEF CanTransition, TerminalStatuses, Sequenced
    <2>4. RowShape(Outcome(h)) /\ Outcome(h).status = "PAID"
      BY <1>1, <1>2, <1>3, <2>1, <2>3, TransitionShape, TransitionWellFormed DEF RowOK, RowShape
    <2>5. Settled
      BY <1>4 DEF IInv, ChargeOK, Settled
    <2> QED
      BY <2>4, <2>5 DEF RowOK
  <1>5. CASE kind \in {"cancel", "refund"}
    <2>1. Outcome(h) = Transition(o, "CANCELED")
      BY <1>5 DEF Outcome
    <2>2. o.status \notin TerminalStatuses
      BY <1>5 DEF IInv, StepOK, RefundEligible
    <2>3. CanTransition(o.status, "CANCELED")
      BY <2>2 DEF CanTransition
    <2>4. RowShape(Outcome(h))
      BY <1>1, <1>2, <1>3, <2>1, <2>3, TransitionShape DEF RowOK
    <2>5. Reached(Outcome(h), "PAID") => Reached(o, "PAID")
      BY <1>1, <1>3, <2>1, TransitionReached
    <2>6. Reached(o, "PAID") => RefundEligible(o)
      BY <1>2, <2>2 DEF RowOK, RowShape, RefundEligible
    <2>7. RefundEligible(o) => Undone
      BY <1>5 DEF IInv, RefundOK
    <2> QED
      BY <1>2, <2>4, <2>5, <2>6, <2>7 DEF RowOK
  <1>6. CASE kind = "advance"
    <2>1. Outcome(h) = Transition(o, arg)
      BY <1>6 DEF Outcome
    <2>2. arg \in StaffTargets /\ CanTransition(o.status, arg)
      BY <1>6 DEF IInv, StepOK
    <2>3. Reached(o, "PAID")
      BY <1>1, <1>2, <1>3, <2>2, AdvanceOnlyPaid DEF RowOK, RowShape
    <2>4. RowShape(Outcome(h)) /\ Outcome(h).status = arg
      BY <1>1, <1>2, <1>3, <2>1, <2>2, <2>3, TransitionShape, TransitionWellFormed
         DEF RowOK, RowShape
    <2>5. arg # "CANCELED"
      BY <1>3, <2>2
    <2> QED
      BY <1>2, <2>3, <2>4, <2>5 DEF RowOK
  <1>7. CASE kind = "read"
    <2>1. Outcome(h) = AdvanceTo(o, arg)
      BY <1>7 DEF Outcome
    <2>2. arg \in StaffTargets /\ CanAdvanceTo(o, arg) /\ RefundEligible(o)
      BY <1>7 DEF IInv, StepOK
    <2>3. Reached(o, "PAID")
      BY <1>2, <2>2, EligibleReached DEF RowOK
    <2>4. WellFormed(Outcome(h)) /\ Outcome(h).status = arg
      BY <1>1, <1>2, <1>3, <2>1, <2>2, AdvanceWellFormed DEF RowOK, RowShape
    <2>5. Reached(Outcome(h), "PAID")
      BY <1>1, <1>3, <2>1, <2>2, <2>3, AdvanceReached
    <2>6. arg \notin {"PENDING_PAYMENT", "CANCELED"}
      BY <1>3, <2>2
    <2> QED
      BY <1>2, <2>3, <2>4, <2>5, <2>6 DEF RowOK, RowShape
  <1> QED
    BY <1>4, <1>5, <1>6, <1>7 DEF IInv, StepOK

LEMMA RowsStep ==
    ASSUME IInv, [Next]_vars
    PROVE  RowOK(order)' /\ \A h \in Handlers : RowOK(snap[h])'
  <1> USE DEF IInv, TypeOK, row, slots, Serve, Goto, Done
  <1>0. Kept
    BY NextKeeps
  <1>1. CASE \E h \in Handlers : WriteOrder(h)
    <2>1. PICK h \in Handlers : WriteOrder(h)
      BY <1>1
    <2>2. RowOK(Outcome(h))
      BY <2>1, OutcomeOK DEF WriteOrder
    <2>3. RowOK(order)'
      BY <1>0, <2>1, <2>2, KeptFacts DEF WriteOrder, RowOK
    <2>4. \A q \in Handlers : RowOK(snap[q])'
      BY <1>0, <2>1, KeptFacts DEF WriteOrder, RowOK
    <2> QED
      BY <2>3, <2>4
  <1>2. CASE ~\E h \in Handlers : WriteOrder(h)
    <2>1. order' = order
      BY <1>2 DEF Next, Step, Request, Webhook, PaymentSucceeds, PaymentDeclined,
                  DashboardRefund, FailRequest, FinalizePayment, SupersedeOrder,
                  ReconcilerGivesUp, CancelOrder, AdvanceOrder, ReadOrder, ChargeWebhook,
                  DeclineWebhook, RefundWebhook, SetPaymentId, RedeemPoints, EarnPoints,
                  RedeemDiscount, ReconcilerCancels, FindRefund, RequestRefund,
                  RejectRefund, RefundUnavailable, SaveRefund, SaveRejectedRefund,
                  ReverseEarnedPoints, ReturnRedeemedPoints, ReleaseDiscount, Respond, vars
    <2>2. ASSUME NEW h \in Handlers, Step(h) \/ Request(h) \/ Webhook(h) \/ FailRequest(h)
          PROVE  \A q \in Handlers : snap'[q] \in {snap[q], order, NewOrder}
      BY <1>2, <2>2
         DEF Step, Request, Webhook, FailRequest, FinalizePayment, SupersedeOrder,
             ReconcilerGivesUp, CancelOrder, StartCancel, AdvanceOrder, ReadOrder,
             ChargeWebhook, DeclineWebhook, RefundWebhook, SetPaymentId, RedeemPoints,
             EarnPoints, RedeemDiscount, ReconcilerCancels, FindRefund, RequestRefund,
             RejectRefund, RefundUnavailable, SaveRefund, SaveRejectedRefund,
             ReverseEarnedPoints, ReturnRedeemedPoints, ReleaseDiscount, Respond
    <2>3. \A q \in Handlers : snap'[q] \in {snap[q], order, NewOrder}
      BY <2>2 DEF Next, PaymentSucceeds, PaymentDeclined, DashboardRefund, vars
    <2> QED
      BY <1>0, <2>1, <2>3, RowsCopied
  <1> QED
    BY <1>1, <1>2

-----------------------------------------------------------------------------
(* Slots.                                                                   *)

SlotOK(h) == StepOK(h) /\ ChargeOK(h) /\ RefundOK(h)

(* A slot that does not move keeps what it knows. *)
LEMMA SlotKept ==
    ASSUME IInv, Kept, NEW q \in Handlers,
           pc'[q] = pc[q], job'[q] = job[q], snap'[q] = snap[q]
    PROVE  SlotOK(q)'
  <1>1. StepOK(q)'
    BY DEF IInv, StepOK
  <1>2. ChargeOK(q)'
    BY DEF IInv, ChargeOK, Kept
  <1>3. RefundOK(q)'
    BY KeptFacts DEF IInv, RefundOK, Kept
  <1> QED
    BY <1>1, <1>2, <1>3 DEF SlotOK

LEMMA SlotIdle ==
    ASSUME NEW h \in Handlers, TypeOK, Done(h)
    PROVE  SlotOK(h)'
  BY DEF TypeOK, Done, NoJob, SlotOK, StepOK, ChargeOK, RefundOK

LEMMA StepSlot ==
    ASSUME IInv, NEW h \in Handlers, Step(h)
    PROVE  SlotOK(h)'
  <1> USE DEF IInv, TypeOK, SlotOK, StepOK, ChargeOK, RefundOK, Goto
  <1>1. CASE SetPaymentId(h)
    BY <1>1 DEF SetPaymentId, Refunded, stripe
  <1>2. CASE RedeemPoints(h)
    BY <1>2 DEF RedeemPoints, Refunded, stripe, row
  <1>3. CASE EarnPoints(h)
    BY <1>3 DEF EarnPoints, Refunded, stripe, row
  <1>4. CASE RedeemDiscount(h)
    BY <1>4 DEF RedeemDiscount, Refunded, stripe
  <1>5. ASSUME NEW reason \in CancelReasons, ReconcilerCancels(h, reason) PROVE SlotOK(h)'
    BY <1>5, SlotIdle DEF ReconcilerCancels, Cancelable, StartCancel, Serve, RefundEligible
  <1>6. CASE FindRefund(h)
    BY <1>6 DEF FindRefund, StripeOK, Refunded, stripe
  <1>7. CASE RequestRefund(h)
    BY <1>7 DEF RequestRefund, Refunded
  <1>8. CASE RejectRefund(h)
    BY <1>8 DEF RejectRefund, Refunded, stripe
  <1>9. CASE RefundUnavailable(h)
    BY <1>9, SlotIdle DEF RefundUnavailable
  <1>10. CASE SaveRefund(h)
    BY <1>10 DEF SaveRefund, Refunded, stripe
  <1>11. CASE SaveRejectedRefund(h)
    BY <1>11, SlotIdle DEF SaveRejectedRefund
  <1>12. CASE ReverseEarnedPoints(h)
    BY <1>12 DEF ReverseEarnedPoints, Refunded, stripe
  <1>13. CASE ReturnRedeemedPoints(h)
    BY <1>13 DEF ReturnRedeemedPoints, Refunded, Undone, stripe, RefundEligible
  <1>14. CASE ReleaseDiscount(h)
    BY <1>14 DEF ReleaseDiscount, Refunded, Undone, stripe
  <1>15. CASE WriteOrder(h)
    BY <1>15 DEF WriteOrder, Refunded, stripe
  <1>16. CASE Respond(h)
    BY <1>16, SlotIdle DEF Respond
  <1> QED
    BY <1>1, <1>2, <1>3, <1>4, <1>5, <1>6, <1>7, <1>8, <1>9, <1>10, <1>11, <1>12,
       <1>13, <1>14, <1>15, <1>16 DEF Step

LEMMA RequestSlot ==
    ASSUME IInv, NEW h \in Handlers, Request(h) \/ Webhook(h) \/ FailRequest(h)
    PROVE  SlotOK(h)'
  <1> USE DEF IInv, TypeOK, SlotOK, StepOK, ChargeOK, RefundOK, Serve, stripe
  <1>1. CASE FailRequest(h)
    BY <1>1, SlotIdle DEF FailRequest
  <1>2. CASE FinalizePayment(h) \/ SupersedeOrder(h) \/ ReconcilerGivesUp(h)
    BY <1>2 DEF FinalizePayment, SupersedeOrder, ReconcilerGivesUp, TerminalStatuses,
                RefundEligible
  <1>3. ASSUME NEW source, NEW reason \in CancelReasons, CancelOrder(h, source, reason)
        PROVE  SlotOK(h)'
    BY <1>3 DEF CancelOrder, Cancelable, StartCancel, RefundEligible
  <1>4. ASSUME NEW target \in StaffTargets, AdvanceOrder(h, target) PROVE SlotOK(h)'
    BY <1>4 DEF AdvanceOrder
  <1>5. ASSUME NEW target \in StaffTargets, ReadOrder(h, target) PROVE SlotOK(h)'
    BY <1>5 DEF ReadOrder, RefundEligible, CanAdvanceTo
  <1>6. CASE Webhook(h)
    BY <1>6 DEF Webhook, ChargeWebhook, DeclineWebhook, RefundWebhook, StripeOK, Refunded
  <1> QED
    BY <1>1, <1>2, <1>3, <1>4, <1>5, <1>6 DEF Request

LEMMA SlotsStep ==
    ASSUME IInv, [Next]_vars
    PROVE  \A q \in Handlers : SlotOK(q)'
  <1>0. Kept
    BY NextKeeps
  <1>1. ASSUME NEW h \in Handlers, Step(h) \/ Request(h) \/ Webhook(h) \/ FailRequest(h)
        PROVE  \A q \in Handlers : SlotOK(q)'
    <2>1. SlotOK(h)'
      BY <1>1, StepSlot, RequestSlot
    <2>2. \A q \in Handlers \ {h} : pc'[q] = pc[q] /\ job'[q] = job[q] /\ snap'[q] = snap[q]
      BY <1>1
         DEF IInv, TypeOK, Serve, Goto, Done, slots,
             Step, Request, Webhook, FailRequest, FinalizePayment, SupersedeOrder,
             ReconcilerGivesUp, CancelOrder, StartCancel, AdvanceOrder, ReadOrder,
             ChargeWebhook, DeclineWebhook, RefundWebhook, SetPaymentId, RedeemPoints,
             EarnPoints, RedeemDiscount, ReconcilerCancels, FindRefund, RequestRefund,
             RejectRefund, RefundUnavailable, SaveRefund, SaveRejectedRefund,
             ReverseEarnedPoints, ReturnRedeemedPoints, ReleaseDiscount, WriteOrder, Respond
    <2> QED
      BY <1>0, <2>1, <2>2, SlotKept
  <1>2. CASE UNCHANGED slots
    BY <1>0, <1>2, SlotKept DEF slots
  <1> QED
    BY <1>1, <1>2 DEF Next, PaymentSucceeds, PaymentDeclined, DashboardRefund, vars, slots

-----------------------------------------------------------------------------
(* Stripe's events and the points.                                          *)

LEMMA StripeStep == IInv /\ [Next]_vars => StripeOK'
  <1> SUFFICES ASSUME IInv, [Next]_vars PROVE StripeOK'
    OBVIOUS
  <1> USE DEF IInv, StripeOK, Refunded, row, stripe
  <1>1. ASSUME NEW h \in Handlers, Step(h) PROVE StripeOK'
    <2>1. CASE RequestRefund(h)
      BY <2>1 DEF RequestRefund, StepOK
    <2>2. CASE SaveRefund(h)
      BY <2>2 DEF SaveRefund, RefundOK
    <2>3. CASE ~RequestRefund(h) /\ ~SaveRefund(h)
      BY <1>1, <2>3
         DEF Step, SetPaymentId, RedeemPoints, EarnPoints, RedeemDiscount,
             ReconcilerCancels, FindRefund, RejectRefund, RefundUnavailable,
             SaveRejectedRefund, ReverseEarnedPoints, ReturnRedeemedPoints,
             ReleaseDiscount, WriteOrder, Respond
    <2> QED
      BY <2>1, <2>2, <2>3
  <1>2. ASSUME NEW h \in Handlers, Request(h) \/ Webhook(h) \/ FailRequest(h) PROVE StripeOK'
    BY <1>2 DEF Request, Webhook, FinalizePayment, SupersedeOrder, ReconcilerGivesUp,
                CancelOrder, AdvanceOrder, ReadOrder, ChargeWebhook, DeclineWebhook,
                RefundWebhook, FailRequest
  <1>3. CASE PaymentSucceeds \/ PaymentDeclined \/ DashboardRefund \/ UNCHANGED vars
    BY <1>3 DEF PaymentSucceeds, PaymentDeclined, DashboardRefund, vars
  <1> QED
    BY <1>1, <1>2, <1>3 DEF Next

LEMMA PointsStep == IInv /\ [Next]_vars => PointsUndoneOnlyAfterRefund'
  <1> SUFFICES ASSUME IInv, [Next]_vars PROVE PointsUndoneOnlyAfterRefund'
    OBVIOUS
  <1>0. Kept
    BY NextKeeps
  <1>1. CASE UNCHANGED ledger
    BY <1>0, <1>1 DEF Kept, Refunded, IInv, PointsUndoneOnlyAfterRefund
  <1>2. ASSUME NEW h \in Handlers, RedeemPoints(h) \/ EarnPoints(h)
        PROVE  PointsUndoneOnlyAfterRefund'
    BY <1>0, <1>2 DEF Kept, Refunded, IInv, PointsUndoneOnlyAfterRefund, RedeemPoints, EarnPoints
  <1>3. ASSUME NEW h \in Handlers, ReverseEarnedPoints(h) \/ ReturnRedeemedPoints(h)
        PROVE  PointsUndoneOnlyAfterRefund'
    <2>1. Refunded /\ RefundEligible(snap[h]) /\ RowOK(snap[h])
      BY <1>3 DEF IInv, StepOK, RefundOK, ReverseEarnedPoints, ReturnRedeemedPoints
    <2>2. Settled
      BY <2>1, EligibleReached DEF RowOK
    <2> QED
      BY <1>0, <1>3, <2>1, <2>2
         DEF Kept, Refunded, Settled, IInv, PointsUndoneOnlyAfterRefund,
             ReverseEarnedPoints, ReturnRedeemedPoints
  <1>4. \/ UNCHANGED ledger
        \/ \E h \in Handlers : \/ RedeemPoints(h) \/ EarnPoints(h)
                               \/ ReverseEarnedPoints(h) \/ ReturnRedeemedPoints(h)
    BY DEF Next, Step, Request, Webhook, FailRequest, FinalizePayment, SupersedeOrder,
           ReconcilerGivesUp, CancelOrder, AdvanceOrder, ReadOrder, ChargeWebhook,
           DeclineWebhook, RefundWebhook, PaymentSucceeds, PaymentDeclined, DashboardRefund,
           SetPaymentId, RedeemDiscount, ReconcilerCancels, FindRefund, RequestRefund,
           RejectRefund, RefundUnavailable, SaveRefund, SaveRejectedRefund,
           ReleaseDiscount, WriteOrder, Respond, vars
  <1> QED
    BY <1>1, <1>2, <1>3, <1>4

-----------------------------------------------------------------------------
(* The theorems.                                                            *)

LEMMA InvInit == Init => IInv
  <1> SUFFICES ASSUME Init PROVE IInv
    OBVIOUS
  <1>1. RowOK(NewOrder)
    BY NewOrderShape DEF RowOK, NewOrder
  <1>2. RowOK(order) /\ \A h \in Handlers : RowOK(snap[h])
    BY <1>1 DEF Init
  <1>3. \A h \in Handlers : StepOK(h) /\ ChargeOK(h) /\ RefundOK(h)
    BY DEF Init, NoJob, StepOK, ChargeOK, RefundOK
  <1>4. StripeOK /\ PointsUndoneOnlyAfterRefund
    BY DEF Init, StripeOK, PointsUndoneOnlyAfterRefund
  <1> QED
    BY <1>2, <1>3, <1>4, TypeInit DEF IInv

LEMMA InvStep == IInv /\ [Next]_vars => IInv'
  <1> SUFFICES ASSUME IInv, [Next]_vars PROVE IInv'
    OBVIOUS
  <1>1. \A h \in Handlers : StepOK(h)' /\ ChargeOK(h)' /\ RefundOK(h)'
    BY SlotsStep DEF SlotOK
  <1> QED
    BY <1>1, TypeStep, RowsStep, StripeStep, PointsStep DEF IInv

(* The strengthened invariant holds of every reachable state. *)
THEOREM Inductive == Spec => []IInv
  BY InvInit, InvStep, PTL DEF Spec

(* Every variable keeps its type. *)
THEOREM TypeCorrect == Spec => []TypeOK
  BY Inductive, PTL DEF IInv

(* However requests overlap, the stored timeline is a path of the lifecycle *)
(* that ends in the stored status.                                          *)
THEOREM TimelineAlwaysWellFormed == Spec => []TimelineWellFormed
  <1>1. IInv => TimelineWellFormed
    BY DEF IInv, RowOK, RowShape, TimelineWellFormed
  <1> QED
    BY <1>1, Inductive, PTL

(* An order that was ever PAID was captured by Stripe, has its payment id,  *)
(* and its points were taken and granted.                                   *)
THEOREM PaidIsAlwaysSettled == Spec => []PaidIsSettled
  <1>1. IInv => PaidIsSettled
    BY DEF IInv, RowOK, Settled, PaidIsSettled
  <1> QED
    BY <1>1, Inductive, PTL

(* An order canceled after it was PAID was refunded and its points undone.  *)
THEOREM CanceledAfterPaidIsAlwaysUndone == Spec => []CanceledAfterPaidIsUndone
  <1>1. IInv => CanceledAfterPaidIsUndone
    BY DEF IInv, RowOK, Undone, Refunded, CanceledAfterPaidIsUndone
  <1> QED
    BY <1>1, Inductive, PTL

(* Points are undone only after a refund, and only if they were granted.    *)
THEOREM PointsAlwaysUndoneAfterRefund == Spec => []PointsUndoneOnlyAfterRefund
  BY Inductive, PTL DEF IInv

-----------------------------------------------------------------------------
(* What Stripe said is remembered.                                          *)

(* No write takes an order back to PENDING_PAYMENT. *)
LEMMA OutcomePastPending ==
    ASSUME IInv, NEW h \in Handlers, pc[h] = "write"
    PROVE  /\ Outcome(h).status # "PENDING_PAYMENT"
           /\ job[h].kind \in {"cancel", "refund"} => Outcome(h).status = "CANCELED"
  <1>1. \A o, to : Transition(o, to).status = to /\ AdvanceTo(o, to).status = to
    BY DEF Transition, AdvanceTo
  <1> QED
    BY <1>1 DEF IInv, StepOK, Outcome, StaffTargets

LEMMA PaymentStep ==
    ASSUME IInv, PaymentIInv, [Next]_vars
    PROVE  PaymentIInv'
  <1> USE DEF IInv, TypeOK, PaymentIInv, PaymentIsRemembered, Serve, Goto, Done, NoJob,
              NewOrder, row, stripe, slots
  <1>1. ASSUME NEW h \in Handlers, Step(h) PROVE PaymentIInv'
    <2>1. CASE WriteOrder(h)
      <3>1. Outcome(h).status # "PENDING_PAYMENT"
        BY <2>1, OutcomePastPending DEF WriteOrder
      <3> QED
        BY <2>1, <3>1 DEF WriteOrder
    <2>2. CASE SetPaymentId(h)
      BY <2>2 DEF SetPaymentId
    <2>3. CASE Respond(h)
      <3>1. "payment_succeeded" \in EventsOf(job[h].kind) => job[h].kind = "charge"
        BY DEF EventsOf
      <3> QED
        BY <2>3, <3>1 DEF Respond
    <2>4. CASE RequestRefund(h)
      BY <2>4 DEF RequestRefund
    <2>5. ASSUME NEW reason \in CancelReasons, ReconcilerCancels(h, reason)
          PROVE  PaymentIInv'
      BY <2>5 DEF ReconcilerCancels, StartCancel
    <2>6. CASE RedeemPoints(h) \/ EarnPoints(h) \/ RedeemDiscount(h) \/ FindRefund(h)
      BY <2>6 DEF RedeemPoints, EarnPoints, RedeemDiscount, FindRefund
    <2>7. CASE RejectRefund(h) \/ RefundUnavailable(h) \/ SaveRejectedRefund(h)
      BY <2>7 DEF RejectRefund, RefundUnavailable, SaveRejectedRefund
    <2>8. CASE SaveRefund(h)
      BY <2>8 DEF SaveRefund, StepOK
    <2>9. CASE ReverseEarnedPoints(h) \/ ReturnRedeemedPoints(h) \/ ReleaseDiscount(h)
      BY <2>9 DEF ReverseEarnedPoints, ReturnRedeemedPoints, ReleaseDiscount, StepOK
    <2> QED
      BY <1>1, <2>1, <2>2, <2>3, <2>4, <2>5, <2>6, <2>7, <2>8, <2>9 DEF Step
  <1>2. ASSUME NEW h \in Handlers, Request(h) \/ Webhook(h) \/ FailRequest(h)
        PROVE  PaymentIInv'
    BY <1>2 DEF Request, Webhook, FinalizePayment, SupersedeOrder, ReconcilerGivesUp,
                CancelOrder, StartCancel, AdvanceOrder, ReadOrder, ChargeWebhook,
                DeclineWebhook, RefundWebhook, FailRequest
  <1>3. CASE PaymentSucceeds \/ PaymentDeclined \/ DashboardRefund \/ UNCHANGED vars
    BY <1>3 DEF PaymentSucceeds, PaymentDeclined, DashboardRefund, vars
  <1> QED
    BY <1>1, <1>2, <1>3 DEF Next

(* However requests overlap and die, a captured payment whose order still   *)
(* waits for it is delivered again (the webhook's event is saved last).     *)
THEOREM PaymentIsAlwaysRemembered == Spec => []PaymentIsRemembered
  <1>1. Init => PaymentIInv
    BY DEF Init, PaymentIInv, PaymentIsRemembered, NewOrder
  <1>2. IInv /\ PaymentIInv /\ [Next]_vars => PaymentIInv'
    BY PaymentStep
  <1> QED
    BY <1>1, <1>2, Inductive, PTL DEF Spec, PaymentIInv

-----------------------------------------------------------------------------
(* Without overlap.                                                         *)

LEMMA SnapFreshStep ==
    ASSUME NEW one, Handlers = {one}, IInv, SnapFresh, [Next]_vars
    PROVE  SnapFresh'
  <1> USE DEF IInv, TypeOK, SnapFresh, Serve, Goto, Done, row, slots
  <1>1. ASSUME Step(one) PROVE SnapFresh'
    BY <1>1
       DEF Step, SetPaymentId, RedeemPoints, EarnPoints, RedeemDiscount, ReconcilerCancels,
           StartCancel, FindRefund, RequestRefund, RejectRefund, RefundUnavailable,
           SaveRefund, SaveRejectedRefund, ReverseEarnedPoints, ReturnRedeemedPoints,
           ReleaseDiscount, WriteOrder, Respond
  <1>2. ASSUME Request(one) \/ Webhook(one) \/ FailRequest(one) PROVE SnapFresh'
    BY <1>2 DEF Request, Webhook, FinalizePayment, SupersedeOrder, ReconcilerGivesUp,
                CancelOrder, StartCancel, AdvanceOrder, ReadOrder, ChargeWebhook,
                DeclineWebhook, RefundWebhook, FailRequest
  <1>3. CASE PaymentSucceeds \/ PaymentDeclined \/ DashboardRefund \/ UNCHANGED vars
    BY <1>3 DEF PaymentSucceeds, PaymentDeclined, DashboardRefund, vars
  <1> QED
    BY <1>1, <1>2, <1>3 DEF Next

(* The helpers mean the same in OrderHistory. *)
LEMMA SameHelpers ==
    /\ \A from, to \in Statuses : CanTransition(from, to) => History!CanTransition(from, to)
    /\ \A o \in Orders, to \in Statuses :
          /\ Transition(o, to) = History!Transition(o, to)
          /\ CanAdvanceTo(o, to) => History!CanAdvanceTo(o, to)
          /\ AdvanceTo(o, to) = History!AdvanceTo(o, to)
    /\ History!Statuses = Statuses
    /\ History!NewOrder = NewOrder
  BY DEF CanTransition, History!CanTransition, Transition, History!Transition,
         CanAdvanceTo, History!CanAdvanceTo, AdvanceTo, History!AdvanceTo,
         TerminalStatuses, History!TerminalStatuses, Sequenced, History!Sequenced,
         LifecycleIndex, History!LifecycleIndex, LifecycleSequence,
         History!LifecycleSequence, Statuses, History!Statuses, NewOrder, History!NewOrder

LEMMA WriteIsHistory ==
    ASSUME IInv, NEW h \in Handlers, WriteOrder(h), snap[h] = order
    PROVE  History!Next
  <1> DEFINE kind == job[h].kind
             arg == job[h].arg
  <1>0. order \in Orders /\ order.status \in Statuses
    BY DEF IInv, TypeOK, Orders
  <1>1. /\ "PAID" \in Statuses /\ "CANCELED" \in Statuses
        /\ StaffTargets \subseteq Statuses
    BY DEF Statuses, Sequenced, StaffTargets
  <1>2. pc[h] = "write" /\ order' = Outcome(h)
    BY DEF WriteOrder
  <1>3. CASE kind \in {"charge", "finalize"}
    <2>1. CanTransition(order.status, "PAID")
      BY <1>2, <1>3, IndexOf DEF IInv, StepOK, CanTransition, TerminalStatuses, Sequenced
    <2>2. order' = Transition(order, "PAID")
      BY <1>2, <1>3 DEF Outcome
    <2> QED
      BY <1>0, <1>1, <2>1, <2>2, SameHelpers DEF History!Next
  <1>4. CASE kind \in {"cancel", "refund"}
    <2>1. CanTransition(order.status, "CANCELED")
      BY <1>2, <1>4 DEF IInv, StepOK, CanTransition, RefundEligible
    <2>2. order' = Transition(order, "CANCELED")
      BY <1>2, <1>4 DEF Outcome
    <2> QED
      BY <1>0, <1>1, <2>1, <2>2, SameHelpers DEF History!Next
  <1>5. CASE kind = "advance"
    <2>1. arg \in StaffTargets /\ CanTransition(order.status, arg)
      BY <1>2, <1>5 DEF IInv, StepOK
    <2>2. order' = Transition(order, arg)
      BY <1>2, <1>5 DEF Outcome
    <2> QED
      BY <1>0, <1>1, <2>1, <2>2, SameHelpers DEF History!Next
  <1>6. CASE kind = "read"
    <2>1. arg \in StaffTargets /\ CanAdvanceTo(order, arg)
      BY <1>2, <1>6 DEF IInv, StepOK
    <2>2. order' = AdvanceTo(order, arg)
      BY <1>2, <1>6 DEF Outcome
    <2> QED
      BY <1>0, <1>1, <2>1, <2>2, SameHelpers DEF History!Next
  <1> QED
    BY <1>2, <1>3, <1>4, <1>5, <1>6 DEF IInv, StepOK

(* With one request at a time the stored order implements OrderHistory: an  *)
(* append-only timeline, valid transitions, terminal orders left alone. The *)
(* assumption is needed: two requests can overwrite each other.             *)
THEOREM SerialKeepsHistory ==
    ASSUME NEW one, Handlers = {one}
    PROVE  Spec => KeepsHistory
  <1>1. Init => History!Init /\ SnapFresh
    BY SameHelpers DEF Init, History!Init, SnapFresh
  <1>2. IInv /\ SnapFresh /\ [Next]_vars => SnapFresh'
    BY SnapFreshStep
  <1>3. IInv /\ SnapFresh /\ [Next]_vars => [History!Next]_order
    <2> SUFFICES ASSUME IInv, SnapFresh, [Next]_vars, order' # order
                 PROVE  History!Next
      OBVIOUS
    <2>1. PICK h \in Handlers : WriteOrder(h)
      BY DEF Next, Step, Request, Webhook, PaymentSucceeds, PaymentDeclined,
             DashboardRefund, FailRequest, FinalizePayment, SupersedeOrder,
             ReconcilerGivesUp, CancelOrder, AdvanceOrder, ReadOrder, ChargeWebhook,
             DeclineWebhook, RefundWebhook, SetPaymentId, RedeemPoints, EarnPoints,
             RedeemDiscount, ReconcilerCancels, FindRefund, RequestRefund,
             RejectRefund, RefundUnavailable, SaveRefund, SaveRejectedRefund,
             ReverseEarnedPoints, ReturnRedeemedPoints, ReleaseDiscount, Respond, vars, row
    <2>2. snap[h] = order
      BY <2>1 DEF WriteOrder, SnapFresh
    <2> QED
      BY <2>1, <2>2, WriteIsHistory
  <1> QED
    BY <1>1, <1>2, <1>3, Inductive, PTL DEF Spec, KeepsHistory, History!Spec

LEMMA RefundStep ==
    ASSUME NEW one, Handlers = {one}, ~EarlyRefunds, IInv, SnapFresh, RefundIInv,
           [Next]_vars
    PROVE  RefundIInv'
  <1> USE DEF IInv, TypeOK, SnapFresh, RefundIInv, RefundIsRemembered, Refunded, Serve,
              Goto, Done, NoJob, row, stripe, slots
  <1>1. ASSUME Step(one) PROVE RefundIInv'
    <2>1. CASE WriteOrder(one)
      <3>1. /\ Outcome(one).status # "PENDING_PAYMENT"
            /\ job[one].kind = "refund" => Outcome(one).status \in TerminalStatuses
        BY <2>1, OutcomePastPending DEF WriteOrder, TerminalStatuses
      <3>2. order.status \notin TerminalStatuses \/ Outcome(one) = order
        BY <2>1 DEF WriteOrder, StepOK, RefundEligible, CanTransition, CanAdvanceTo,
                    TerminalStatuses, Outcome, Transition
      <3> QED
        BY <2>1, <3>1, <3>2 DEF WriteOrder
    <2>2. CASE SetPaymentId(one)
      BY <2>2 DEF SetPaymentId, StepOK
    <2>3. CASE SaveRefund(one)
      BY <2>3 DEF SaveRefund, RefundOK, RefundEligible
    <2>4. CASE Respond(one)
      <3>1. "charge_refunded" \in EventsOf(job[one].kind) => job[one].kind = "refund"
        BY DEF EventsOf
      <3> QED
        BY <2>4, <3>1 DEF Respond
    <2>5. CASE RequestRefund(one)
      BY <2>5 DEF RequestRefund, StepOK, RefundEligible
    <2>6. ASSUME NEW reason \in CancelReasons, ReconcilerCancels(one, reason)
          PROVE  RefundIInv'
      BY <2>6 DEF ReconcilerCancels, StartCancel
    <2>7. CASE RedeemPoints(one) \/ EarnPoints(one) \/ RedeemDiscount(one) \/ FindRefund(one)
      BY <2>7 DEF RedeemPoints, EarnPoints, RedeemDiscount, FindRefund
    <2>8. CASE RejectRefund(one) \/ RefundUnavailable(one) \/ SaveRejectedRefund(one)
      BY <2>8 DEF RejectRefund, RefundUnavailable, SaveRejectedRefund
    <2>9. CASE ReverseEarnedPoints(one) \/ ReturnRedeemedPoints(one) \/ ReleaseDiscount(one)
      BY <2>9 DEF ReverseEarnedPoints, ReturnRedeemedPoints, ReleaseDiscount, StepOK
    <2> QED
      BY <1>1, <2>1, <2>2, <2>3, <2>4, <2>5, <2>6, <2>7, <2>8, <2>9 DEF Step
  <1>2. ASSUME Request(one) \/ Webhook(one) \/ FailRequest(one) PROVE RefundIInv'
    BY <1>2 DEF Request, Webhook, FinalizePayment, SupersedeOrder, ReconcilerGivesUp,
                CancelOrder, StartCancel, AdvanceOrder, ReadOrder, ChargeWebhook,
                DeclineWebhook, RefundWebhook, FailRequest
  <1>3. CASE PaymentSucceeds \/ PaymentDeclined \/ DashboardRefund \/ UNCHANGED vars
    BY <1>3 DEF PaymentSucceeds, PaymentDeclined, DashboardRefund, vars
  <1> QED
    BY <1>1, <1>2, <1>3 DEF Next

(* With one request at a time, and no refund before the order is PAID, a    *)
(* refund whose order the kitchen still has is delivered again. Two requests*)
(* can overwrite the cancellation (OrderPaymentsLostCancel).                *)
THEOREM SerialRefundIsRemembered ==
    ASSUME NEW one, Handlers = {one}, ~EarlyRefunds
    PROVE  Spec => []RefundIsRemembered
  <1>1. Init => SnapFresh /\ RefundIInv
    BY DEF Init, SnapFresh, RefundIInv, RefundIsRemembered, Refunded
  <1>2. IInv /\ SnapFresh /\ [Next]_vars => SnapFresh'
    BY SnapFreshStep
  <1>3. IInv /\ SnapFresh /\ RefundIInv /\ [Next]_vars => RefundIInv'
    BY RefundStep
  <1> QED
    BY <1>1, <1>2, <1>3, Inductive, PTL DEF Spec, RefundIInv
=============================================================================
