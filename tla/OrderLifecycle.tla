--------------------------- MODULE OrderLifecycle ---------------------------
(***************************************************************************)
(* The life of one order as services/orders/src/lifecycle.ts defines it:   *)
(* an order is a status and an append-only timeline, and each accepted     *)
(* transition appends exactly one timeline entry.                          *)
(*                                                                         *)
(* These are the pure helpers every writer of an order row calls.          *)
(* OrderHistory states what they promise of the stored order, and          *)
(* OrderPayments is the code that calls them.                              *)
(*                                                                         *)
(* A timeline entry is kept as its status: occurredAt, note and source     *)
(* never decide what a handler does next, except the age of the PAID entry *)
(* in time-based fulfilment, which is an input there.                      *)
(***************************************************************************)
EXTENDS Naturals, Sequences

LifecycleSequence ==
    <<"PENDING_PAYMENT", "PAID", "IN_PREP", "READY", "COMPLETED">>

Sequenced == {"PENDING_PAYMENT", "PAID", "IN_PREP", "READY", "COMPLETED"}
Statuses == Sequenced \cup {"CANCELED"}

TerminalStatuses == {"COMPLETED", "CANCELED"}

(* The position of a status of the sequence, counted from 1. *)
LifecycleIndex(s) == CHOOSE i \in 1..5 : LifecycleSequence[i] = s

CanTransition(from, to) ==
    \/ from = to
    \/ /\ from \notin TerminalStatuses
       /\ \/ to = "CANCELED"
          \/ /\ to \in Sequenced
             /\ LifecycleIndex(to) = LifecycleIndex(from) + 1

Orders == [status : Statuses, timeline : Seq(Statuses)]

NewOrder == [status |-> "PENDING_PAYMENT", timeline |-> <<"PENDING_PAYMENT">>]

(* transitionOrderStatus, for a transition CanTransition allows: one entry  *)
(* more, unless the order already has that status.                         *)
Transition(o, to) ==
    IF o.status = to
    THEN o
    ELSE [status |-> to, timeline |-> Append(o.timeline, to)]

(* advanceOrderLifecycleToStatus goes forward, and only to a later status. *)
CanAdvanceTo(o, target) ==
    /\ o.status \notin TerminalStatuses
    /\ target \in Sequenced
    /\ LifecycleIndex(target) > LifecycleIndex(o.status)

(* It walks the sequence one transition at a time and returns the order at  *)
(* the target, every step on its timeline.                                  *)
AdvanceTo(o, target) ==
    [status |-> target,
     timeline |-> o.timeline \o SubSeq(LifecycleSequence,
                                       LifecycleIndex(o.status) + 1,
                                       LifecycleIndex(target))]

-----------------------------------------------------------------------------
(* What a stored order may look like, whatever was written before.         *)

Reached(o, s) == \E i \in DOMAIN o.timeline : o.timeline[i] = s

(* The timeline is a path of the lifecycle that ends in the status. A quote *)
(* starts it at PENDING_PAYMENT, a paid checkout draft at PAID.             *)
WellFormed(o) ==
    /\ Len(o.timeline) > 0
    /\ o.timeline[1] \in {"PENDING_PAYMENT", "PAID"}
    /\ o.timeline[Len(o.timeline)] = o.status
    /\ \A i \in 1..(Len(o.timeline) - 1) :
          /\ o.timeline[i] # o.timeline[i + 1]
          /\ CanTransition(o.timeline[i], o.timeline[i + 1])
=============================================================================
