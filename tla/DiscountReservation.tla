------------------------- MODULE DiscountReservation -------------------------
(***************************************************************************)
(* reserveDiscountForOrder, redeemDiscountForOrder, releaseDiscountForOrder *)
(* and updateDiscountCode of services/orders/src/repository.ts, on          *)
(* Postgres, for one discount code.                                         *)
(*                                                                         *)
(* A reservation counts, checks and inserts in separate statements of a     *)
(* READ COMMITTED transaction: each sees what others committed before it.   *)
(* What orders the reservations is FOR UPDATE on the code's row. Payments   *)
(* and cancellations change redemptions meanwhile, without that lock.       *)
(***************************************************************************)
EXTENDS DiscountTerms

CONSTANTS
    Requests,    \* requests in flight
    NoOne        \* holder of the lock on a code nobody has locked

ASSUME RequestsOK == NoOne \notin Requests

VARIABLES
    lock,        \* the request whose transaction has locked the code's row
    pc,          \* per request: the next statement, or "idle"
    for          \* per request: the order it reserves for

code == <<redemption, limit, once>>
vars == <<redemption, limit, once, lock, pc, for>>

Statements == {"idle", "find", "lock", "count", "customer", "insert"}

InTransaction(r) == pc[r] \in {"count", "customer", "insert"}

TypeOK ==
    /\ TermsOK
    /\ lock \in Requests \cup {NoOne}
    /\ pc \in [Requests -> Statements]
    /\ for \in [Requests -> Orders]

Init ==
    /\ TermsInit
    /\ lock = NoOne
    /\ pc = [r \in Requests |-> "idle"]
    /\ for \in [Requests -> Orders]

-----------------------------------------------------------------------------
(* reserveDiscountForOrder.                                                 *)

Goto(r, statement) ==
    /\ pc' = [pc EXCEPT ![r] = statement]
    /\ UNCHANGED <<lock, for>>

(* The transaction commits or rolls back. *)
Close(r) ==
    /\ pc' = [pc EXCEPT ![r] = "idle"]
    /\ lock' = NoOne
    /\ UNCHANGED for

(* validateDiscountCodeForQuote passes: a check of the same terms, over     *)
(* before the reservation begins.                                           *)
Validate(r, o) ==
    /\ pc[r] = "idle"
    /\ HasRoom
    /\ FreeFor(CustomerOf[o])
    /\ pc' = [pc EXCEPT ![r] = "find"]
    /\ for' = [for EXCEPT ![r] = o]
    /\ UNCHANGED <<code, lock>>

(* A row of the order, whatever its status, answers true at once. *)
FindExisting(r) ==
    /\ pc[r] = "find"
    /\ Goto(r, IF redemption[for[r]] # "none" THEN "idle" ELSE "lock")
    /\ UNCHANGED code

(* Mutant: the code's row is read without FOR UPDATE. *)
LockCodeUnlocked(r) ==
    /\ pc[r] = "lock"
    /\ lock' = r
    /\ pc' = [pc EXCEPT ![r] = "count"]
    /\ UNCHANGED <<code, for>>

LockCode(r) ==
    /\ pc[r] = "lock"
    /\ lock = NoOne
    /\ lock' = r
    /\ pc' = [pc EXCEPT ![r] = "count"]
    /\ UNCHANGED <<code, for>>

(* The row is locked: the limit is still the one read with it. *)
CountRedemptions(r) ==
    /\ pc[r] = "count"
    /\ IF HasRoom THEN Goto(r, "customer") ELSE Close(r)
    /\ UNCHANGED code

CheckCustomer(r) ==
    /\ pc[r] = "customer"
    /\ IF FreeFor(CustomerOf[for[r]]) THEN Goto(r, "insert") ELSE Close(r)
    /\ UNCHANGED code

(* Mutant: a conflict is answered without closing the transaction. *)
InsertAndCommitUnclosed(r) ==
    /\ pc[r] = "insert"
    /\ redemption[for[r]] = "none"
    /\ redemption' = [redemption EXCEPT ![for[r]] = "RESERVED"]
    /\ Close(r)
    /\ UNCHANGED <<limit, once>>

(* INSERT ... ON CONFLICT (order_id) DO NOTHING, and COMMIT. *)
InsertAndCommit(r) ==
    /\ pc[r] = "insert"
    /\ redemption' = IF redemption[for[r]] = "none"
                     THEN [redemption EXCEPT ![for[r]] = "RESERVED"]
                     ELSE redemption
    /\ Close(r)
    /\ UNCHANGED <<limit, once>>

(* The process or its connection dies: Postgres rolls back.                 *)
Die(r) ==
    /\ pc[r] # "idle"
    /\ IF InTransaction(r) THEN Close(r) ELSE Goto(r, "idle")
    /\ UNCHANGED code

-----------------------------------------------------------------------------
(* Single statements of other requests.                                     *)

(* Mutant: the row is updated whatever its status. *)
RedeemDiscountAlways(o) ==
    /\ redemption[o] # "none"
    /\ redemption' = [redemption EXCEPT ![o] = "REDEEMED"]
    /\ UNCHANGED <<limit, once, lock, pc, for>>

RedeemDiscount(o) ==
    /\ redemption[o] = "RESERVED"
    /\ redemption' = [redemption EXCEPT ![o] = "REDEEMED"]
    /\ UNCHANGED <<limit, once, lock, pc, for>>

(* Mutant: the row gets the status of its order. *)
ReleaseDiscountCanceled(o) ==
    /\ redemption[o] = "RESERVED"
    /\ redemption' = [redemption EXCEPT ![o] = "CANCELED"]
    /\ UNCHANGED <<limit, once, lock, pc, for>>

ReleaseDiscount(o) ==
    /\ redemption[o] = "RESERVED"
    /\ redemption' = [redemption EXCEPT ![o] = "RELEASED"]
    /\ UNCHANGED <<limit, once, lock, pc, for>>

(* The UPDATE waits for the lock on the code's row. *)
UpdateDiscountCode ==
    /\ lock = NoOne
    /\ limit' \in Limits \cup {NoLimit}
    /\ once' \in BOOLEAN
    /\ UNCHANGED <<redemption, lock, pc, for>>

-----------------------------------------------------------------------------
Reserving(r) ==
    \/ FindExisting(r) \/ LockCode(r) \/ CountRedemptions(r)
    \/ CheckCustomer(r) \/ InsertAndCommit(r)

Next ==
    \/ UpdateDiscountCode
    \/ \E o \in Orders : RedeemDiscount(o) \/ ReleaseDiscount(o)
    \/ \E r \in Requests :
          Reserving(r) \/ Die(r) \/ \E o \in Orders : Validate(r, o)

Spec == Init /\ [][Next]_vars

(* A request that is alive goes on; Postgres queues those waiting for a     *)
(* row lock.                                                                *)
FairSpec == Spec /\ \A r \in Requests : SF_vars(Reserving(r))

-----------------------------------------------------------------------------
(* Properties.                                                              *)

(* A redemption is never added beyond the limit in force, however many      *)
(* checkouts reserve at once (reserveDiscountForOrder's count and insert).  *)
LimitHonoured ==
    [][limit # NoLimit /\ ~(Active' \subseteq Active)
          => Cardinality(Active') <= limit]_vars

(* While the code is once per customer, no customer gets a second active    *)
(* redemption of it, by two orders or by two requests.                      *)
OncePerCustomerHonoured ==
    [][\A o, p \in Active' :
          once /\ o # p /\ CustomerOf[o] = CustomerOf[p]
             => {o, p} \subseteq Active]_vars

(* The code's terms hold when a redemption is added, by whatever orders and *)
(* requests at once.                                                        *)
TermsHonoured == LimitHonoured /\ OncePerCustomerHonoured

(* The transaction is as good as one atomic reservation, and what Redeem    *)
(* and Release do beside it keeps the code's promise.                       *)
Promise == INSTANCE DiscountLimits
KeepsPromise == Promise!Spec

(* Whoever dies or is refused, the requests never all wait for the code's   *)
(* row: while some reserve, one of them can go on.                          *)
SomeoneGoesOn ==
    (\E r \in Requests : pc[r] # "idle") =>
        \E r \in Requests : pc[r] # "idle" /\ (pc[r] = "lock" => lock = NoOne)

(* Every request for a reservation is answered: none waits for a lock that  *)
(* is never given back.                                                     *)
RequestsAnswered == \A r \in Requests : pc[r] # "idle" ~> pc[r] = "idle"
=============================================================================
