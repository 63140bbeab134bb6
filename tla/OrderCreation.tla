---------------------------- MODULE OrderCreation ----------------------------
(***************************************************************************)
(* createOrder of services/orders/src/service.ts, for one customer and the  *)
(* quotes of the carts she checks out: the order she has already is found,  *)
(* an unpaid one superseded, and then the order row, the reservation of the *)
(* discount code and the idempotency record are written one after another.  *)
(* What happens to an order once it exists is OrderPayments; here it is     *)
(* paid, finished or canceled in one step.                                  *)
(***************************************************************************)
EXTENDS Naturals, Sequences

CONSTANTS
    Carts,            \* quotes
    CreationSlots,    \* createOrder requests in flight
    MaxOrders,        \* bound: order rows
    MaxCreationDeaths \* bound: requests that die before they finish

ASSUME CreationOK ==
    Carts # {} /\ MaxOrders \in Nat /\ MaxCreationDeaths \in Nat

VARIABLES
    orders,     \* the customer's rows, oldest first: quote, status, discount
    created,    \* orders_create_idempotency: the order of a quote, or 0
    creating,   \* per slot: the next effect, its quote, the order it handles
    died,       \* requests that died so far
    crowded     \* history: a request overlapped another, or its order's life

creationVars == <<orders, created, creating, died, crowded>>

NoCreation == [step |-> "idle", quote |-> CHOOSE q \in Carts : TRUE, order |-> 0]

CreationInit ==
    /\ orders = <<>>
    /\ created = [q \in Carts |-> 0]
    /\ creating = [s \in CreationSlots |-> NoCreation]
    /\ died = 0
    /\ crowded = FALSE

CreationGoto(s, step, o) ==
    creating' = [creating EXCEPT ![s].step = step, ![s].order = o]

CreationDone(s) == creating' = [creating EXCEPT ![s] = NoCreation]

At(s, step) == creating[s].step = step
Handled(s) == creating[s].order
SetStatus(o, status) == orders' = [orders EXCEPT ![o].status = status]

-----------------------------------------------------------------------------
(* The request.                                                             *)

(* getOrderForCreateIdempotency answers a quote that has its order. *)
BeginCreate(s, q) ==
    /\ At(s, "idle")
    /\ created[q] = 0
    /\ creating' = [creating EXCEPT ![s] = [step |-> "find", quote |-> q, order |-> 0]]
    /\ crowded' = (crowded \/ \E t \in CreationSlots : ~At(t, "idle"))
    /\ UNCHANGED <<orders, created, died>>

(* Orders that listOrdersByUser returns and that are not terminal. *)
ActiveOrders == {o \in DOMAIN orders : orders[o].status \in {"PENDING_PAYMENT", "PAID"}}

(* Mutant: an unpaid order does not count as active. *)
FindActiveOrderPaidOnly(s) ==
    /\ At(s, "find")
    /\ IF \E o \in ActiveOrders : orders[o].status = "PAID"
       THEN CreationDone(s) ELSE CreationGoto(s, "validate", 0)
    /\ UNCHANGED <<orders, created, died, crowded>>

(* The newest active order: an unpaid one is superseded, any other ends the *)
(* request with 409.                                                        *)
FindActiveOrder(s) ==
    /\ At(s, "find")
    /\ IF ActiveOrders = {} THEN CreationGoto(s, "validate", 0)
       ELSE LET newest == CHOOSE o \in ActiveOrders : \A p \in ActiveOrders : p <= o
            IN  IF orders[newest].status = "PENDING_PAYMENT"
                THEN CreationGoto(s, "release", newest) ELSE CreationDone(s)
    /\ UNCHANGED <<orders, created, died, crowded>>

ReleaseSuperseded(s) ==
    /\ At(s, "release")
    /\ orders' = IF orders[Handled(s)].discount = "RESERVED"
                 THEN [orders EXCEPT ![Handled(s)].discount = "RELEASED"] ELSE orders
    /\ CreationGoto(s, "supersede", Handled(s))
    /\ UNCHANGED <<created, died, crowded>>

(* The row is written as it was read, CANCELED: it may be paid by now. *)
CancelSuperseded(s) ==
    /\ At(s, "supersede")
    /\ SetStatus(Handled(s), "CANCELED")
    /\ CreationGoto(s, "validate", 0)
    /\ UNCHANGED <<created, died, crowded>>

(* The store is open and the discount code still valid; or the request ends *)
(* here. Bound: MaxOrders.                                                  *)
ValidateOrder(s) ==
    /\ At(s, "validate")
    /\ \/ CreationDone(s)
       \/ Len(orders) < MaxOrders /\ CreationGoto(s, "insert", 0)
    /\ UNCHANGED <<orders, created, died, crowded>>

InsertOrder(s) ==
    /\ At(s, "insert")
    /\ Len(orders) < MaxOrders
    /\ orders' = Append(orders, [quote |-> creating[s].quote,
                    status |-> "PENDING_PAYMENT", discount |-> "none"])
    /\ CreationGoto(s, "reserve", Len(orders) + 1)
    /\ UNCHANGED <<created, died, crowded>>

ReserveForOrder(s) ==
    /\ At(s, "reserve")
    /\ orders' = [orders EXCEPT ![Handled(s)].discount = "RESERVED"]
    /\ CreationGoto(s, "save", Handled(s))
    /\ UNCHANGED <<created, died, crowded>>

(* The code is used up by now. *)
RefuseReservation(s) ==
    /\ At(s, "reserve")
    /\ CreationGoto(s, "withdraw", Handled(s))
    /\ UNCHANGED <<orders, created, died, crowded>>

WithdrawOrder(s) ==
    /\ At(s, "withdraw")
    /\ SetStatus(Handled(s), "CANCELED")
    /\ CreationDone(s)
    /\ UNCHANGED <<created, died, crowded>>

(* saveCreateOrderIdempotency: a record that is there already stays. *)
SaveCreated(s) ==
    /\ At(s, "save")
    /\ created' = [created EXCEPT ![creating[s].quote] = IF @ = 0 THEN Handled(s) ELSE @]
    /\ CreationDone(s)
    /\ UNCHANGED <<orders, died, crowded>>

CreationDies(s) ==
    /\ ~At(s, "idle")
    /\ died < MaxCreationDeaths
    /\ died' = died + 1
    /\ CreationDone(s)
    /\ UNCHANGED <<orders, created, crowded>>

-----------------------------------------------------------------------------
(* The life of an order (OrderPayments), shortened: paid, finished, or      *)
(* canceled by the customer before or after that.                           *)

(* A request has this order in hand: what happens to it now overlaps that.  *)
Touched(o) ==
    crowded' = (crowded \/ \E s \in CreationSlots : ~At(s, "idle") /\ Handled(s) = o)

PayOrder(o) ==
    /\ orders[o].status = "PENDING_PAYMENT"
    /\ orders' = [orders EXCEPT ![o].status = "PAID",
          ![o].discount = IF @ = "RESERVED" THEN "REDEEMED" ELSE @]
    /\ Touched(o)
    /\ UNCHANGED <<created, creating, died>>

FinishOrder(o) ==
    /\ orders[o].status = "PAID"
    /\ SetStatus(o, "COMPLETED")
    /\ Touched(o)
    /\ UNCHANGED <<created, creating, died>>

DropOrder(o) ==
    /\ orders[o].status \in {"PENDING_PAYMENT", "PAID"}
    /\ orders' = [orders EXCEPT ![o].status = "CANCELED",
          ![o].discount = IF @ = "RESERVED" THEN "RELEASED" ELSE @]
    /\ Touched(o)
    /\ UNCHANGED <<created, creating, died>>

-----------------------------------------------------------------------------
CreationStep(s) ==
    \/ FindActiveOrder(s) \/ ReleaseSuperseded(s) \/ CancelSuperseded(s)
    \/ ValidateOrder(s) \/ InsertOrder(s) \/ ReserveForOrder(s)
    \/ RefuseReservation(s) \/ WithdrawOrder(s) \/ SaveCreated(s)

CreationNext ==
    \/ \E s \in CreationSlots :
          \/ CreationStep(s) \/ CreationDies(s)
          \/ \E q \in Carts : BeginCreate(s, q)
    \/ \E o \in DOMAIN orders : PayOrder(o) \/ FinishOrder(o) \/ DropOrder(o)

CreationSpec == CreationInit /\ [][CreationNext]_creationVars

-----------------------------------------------------------------------------
(* Properties.                                                              *)

CreatedOrders ==
    [quote : Carts,
     status : {"PENDING_PAYMENT", "PAID", "COMPLETED", "CANCELED"},
     discount : {"none", "RESERVED", "REDEEMED", "RELEASED"}]
CreationRequests ==
    [step : {"idle", "find", "release", "supersede", "validate", "insert",
             "reserve", "withdraw", "save"},
     quote : Carts, order : 0..MaxOrders]

CreationTypeOK ==
    /\ orders \in Seq(CreatedOrders)
    /\ Len(orders) <= MaxOrders
    /\ created \in [Carts -> 0..MaxOrders]
    /\ creating \in [CreationSlots -> CreationRequests]
    /\ died \in 0..MaxCreationDeaths
    /\ crowded \in BOOLEAN

(* "treats create operations as idempotent"                                 *)
(* (services/orders/test/orders.test.ts:741), as long as requests of the    *)
(* customer do not overlap: she has one active order, even when requests    *)
(* die; and one order per quote that is not canceled, when none does.       *)
CreatedOnce ==
    ~crowded => \A o, p \in DOMAIN orders : o # p =>
        /\ ~(o \in ActiveOrders /\ p \in ActiveOrders)
        /\ died = 0 /\ orders[o].quote = orders[p].quote =>
              "CANCELED" \in {orders[o].status, orders[p].status}

(* A discounted order can be paid only while it holds a redemption of its   *)
(* code, and a canceled one holds none: what is left when no request is in  *)
(* flight, none died half way, and none overlapped another.                 *)
PayableHoldsDiscount ==
    ~crowded /\ died = 0 /\ (\A s \in CreationSlots : At(s, "idle")) =>
        \A o \in DOMAIN orders :
            /\ orders[o].status = "PENDING_PAYMENT" => orders[o].discount = "RESERVED"
            /\ orders[o].status = "CANCELED" => orders[o].discount # "RESERVED"

(* A quote makes one order, and an order has what its quote promised.       *)
CreatedWhole == CreatedOnce /\ PayableHoldsDiscount
=============================================================================
