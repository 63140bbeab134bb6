---------------------------- MODULE OrderHistory ----------------------------
(***************************************************************************)
(* What docs/order-lifecycle.md promises of one stored order, whoever      *)
(* writes it: the timeline is append-only, each write takes valid          *)
(* transitions from the status that is stored, a terminal order stays as   *)
(* it is.                                                                  *)
(***************************************************************************)
EXTENDS OrderLifecycle

VARIABLE order

Init == order = NewOrder

(* One write of the stored order: a single transition, or the several      *)
(* steps a time-based read takes at once.                                  *)
Next ==
    \E to \in Statuses :
       \/ /\ CanTransition(order.status, to)
          /\ order' = Transition(order, to)
       \/ /\ CanAdvanceTo(order, to)
          /\ order' = AdvanceTo(order, to)

Spec == Init /\ [][Next]_order
=============================================================================
