--------------------------- MODULE PurchaseProofs ---------------------------
(***************************************************************************)
(* Proofs about what a customer buys: what it costs, the one order made of *)
(* it, the points it earns, and paying for it on the phone. No theorem of  *)
(* one is used in another.                                                 *)
(* For each: what is true of every state besides the types, the invariant  *)
(* they make up, its steps, and the theorems.                              *)
(***************************************************************************)
EXTENDS OrderPricing, OrderCreation, LoyaltyLedger, MobileCheckout,
        SequenceTheorems, FiniteSetTheorems, NaturalsInduction,
        WellFoundedInduction, TLAPS

-----------------------------------------------------------------------------
(***************************************************************************)
(* Quotes: OrderPricing.                                                   *)
(***************************************************************************)

(* What is divided is what the quotients and the remainder make up again. *)
LEMMA ProductOfNats ==
    ASSUME NEW a \in Nat, NEW b \in Nat
    PROVE  a * b \in Nat
  OBVIOUS

LEMMA Hundredth ==
    ASSUME NEW n \in Nat
    PROVE  /\ n \div 100 \in Nat
           /\ 100 * (n \div 100) <= n /\ n < 100 * (n \div 100) + 100
  OBVIOUS

(* A whole number is half up of n / 10000 if it is this near to it. *)
HalfUpOf(tax, n) == 2 * (10000 * tax - n) \in -9999..10000

LEMMA HalfUp ==
    ASSUME NEW n \in Nat, NEW tax \in Int, tax = (2 * n + 10000) \div 20000
    PROVE  HalfUpOf(tax, n)
  <1>1. 20000 * tax <= 2 * n + 10000 /\ 2 * n + 10000 < 20000 * tax + 20000
    OBVIOUS
  <1> QED
    BY <1>1 DEF HalfUpOf

LEMMA TaxIsRight ==
    ASSUME NEW base \in Nat, NEW rate \in Nat
    PROVE  TaxOf(base, rate, TaxCents(base, rate))
  <1> DEFINE n == base * rate
             tax == TaxCents(base, rate)
  <1>1. n \in Nat
    BY ProductOfNats
  <1>2. 2 * base * rate = 2 * n
    OBVIOUS
  <1>3. tax = (2 * n + 10000) \div 20000
    BY <1>2 DEF TaxCents
  <1>4. TaxOf(base, rate, tax) <=> HalfUpOf(tax, n)
    BY DEF TaxOf, HalfUpOf
  <1> HIDE DEF n, tax
  <1>5. tax \in Int
    BY <1>1, <1>3
  <1>6. HalfUpOf(tax, n)
    BY <1>1, <1>3, <1>5, HalfUp
  <1>7. TaxOf(base, rate, tax)
    BY <1>4, <1>6
  <1> QED
    BY <1>7 DEF tax

LEMMA LeastOfTwo ==
    ASSUME NEW a \in Nat, NEW b \in Nat
    PROVE  /\ Least(a, b) \in Nat /\ Least(a, b) <= a /\ Least(a, b) <= b
           /\ Least(a, b) = a \/ Least(a, b) = b
  BY DEF Least

LEMMA CodesShape ==
    ASSUME NEW c \in Codes
    PROVE  /\ c.type \in CodeTypes /\ c.value \in Nat \ {0} /\ c.cap \in Nat
           /\ c.type # "percent" => c.type = "fixed_cents"
  BY PricingOK DEF Codes, CodeTypes, Uncapped

(* A code is worth what it says, even one that asks for more than all: an *)
(* edit of its type alone can make a percentage of a sum.                  *)
LEMMA CodeIsWorthIt ==
    ASSUME NEW c \in Codes, NEW subtotal \in Nat
    PROVE  /\ CodeCents(c, subtotal) \in Nat
           /\ WorthOf(c, subtotal, CodeCents(c, subtotal))
  <1>1. CASE c.type = "fixed_cents"
    <2>1. CodeCents(c, subtotal) = Least(c.value, subtotal)
      BY <1>1 DEF CodeCents
    <2> DEFINE cents == Least(c.value, subtotal)
    <2>2. /\ cents \in Nat /\ cents <= c.value /\ cents <= subtotal
          /\ cents = c.value \/ cents = subtotal
      BY CodesShape, LeastOfTwo
    <2> HIDE DEF cents
    <2>3. WorthOf(c, subtotal, cents)
      BY <1>1, <2>2, CodesShape DEF WorthOf
    <2> QED
      BY <2>1, <2>2, <2>3 DEF cents
  <1>2. CASE c.type = "percent"
    <2> DEFINE hundredths == subtotal * c.value
               uncapped == hundredths \div 100
               capped == IF c.cap = Uncapped THEN uncapped ELSE Least(uncapped, c.cap)
               cents == Least(capped, subtotal)
    <2>1. hundredths \in Nat
      BY CodesShape, ProductOfNats
    <2>2. CodeCents(c, subtotal) = cents
      BY <1>2 DEF CodeCents
    <2>3. WorthOf(c, subtotal, cents) =
             (/\ cents <= subtotal
              /\ c.cap # Uncapped => cents <= c.cap
              /\ 100 * cents <= hundredths
              /\ 100 * cents > hundredths - 100 \/ cents = subtotal \/ cents = c.cap)
      BY <1>2 DEF WorthOf
    <2> HIDE DEF hundredths
    <2>4. /\ uncapped \in Nat
          /\ 100 * uncapped <= hundredths /\ hundredths < 100 * uncapped + 100
      BY <2>1, Hundredth
    <2> HIDE DEF uncapped
    <2>5. /\ capped \in Nat /\ capped <= uncapped /\ (c.cap # Uncapped => capped <= c.cap)
          /\ capped = uncapped \/ capped = c.cap
      BY <2>4, CodesShape, LeastOfTwo
    <2> HIDE DEF capped
    <2>6. /\ cents \in Nat /\ cents <= capped /\ cents <= subtotal
          /\ cents = capped \/ cents = subtotal
      BY <2>5, LeastOfTwo
    <2> HIDE DEF cents
    <2>7. /\ cents <= subtotal
          /\ c.cap # Uncapped => cents <= c.cap
          /\ 100 * cents <= hundredths
          /\ 100 * cents > hundredths - 100 \/ cents = subtotal \/ cents = c.cap
      BY <2>1, <2>4, <2>5, <2>6, CodesShape
    <2> QED
      BY <2>2, <2>3, <2>6, <2>7
  <1> QED
    BY <1>1, <1>2, CodesShape

(* What a quote says, of any subtotal, code, points and rate. *)
AddsUpOn(q, base) ==
    /\ WorthOf(q.by, q.subtotal, q.codeCents)
    /\ 0 <= q.points /\ q.points <= q.asked
    /\ base >= 0 /\ (base > 0 => q.points = q.asked)
    /\ TaxOf(base, q.rate, q.tax)
    /\ q.total = base + q.tax

AddsUp(q) == AddsUpOn(q, q.subtotal - q.codeCents - q.points)

Sums(q) == q.made /\ q.subtotal \in Nat /\ q.by \in Codes /\ AddsUp(q)

LEMMA QuotedSums ==
    ASSUME NEW subtotal \in Nat, NEW c \in Codes, NEW points \in Nat, NEW rate \in Nat
    PROVE  Sums(Quoted(subtotal, c, points, rate))
  <1> DEFINE q == Quoted(subtotal, c, points, rate)
             codeCents == CodeCents(c, subtotal)
             applied == Least(points, subtotal - codeCents)
             base == subtotal - codeCents - applied
             tax == TaxCents(base, rate)
  <1>1. /\ q.made /\ q.subtotal = subtotal /\ q.by = c /\ q.codeCents = codeCents
        /\ q.asked = points /\ q.points = applied /\ q.rate = rate /\ q.tax = tax
        /\ q.total = base + tax
    BY DEF Quoted
  <1> HIDE DEF q
  <1>2. /\ codeCents \in Nat /\ codeCents <= subtotal /\ WorthOf(c, subtotal, codeCents)
    BY CodeIsWorthIt DEF WorthOf
  <1> HIDE DEF codeCents
  <1>3. /\ applied \in Nat /\ applied <= points /\ applied <= subtotal - codeCents
        /\ applied = points \/ applied = subtotal - codeCents
    <2>1. subtotal - codeCents \in Nat
      BY <1>2
    <2> QED
      BY <2>1, LeastOfTwo
  <1> HIDE DEF applied
  <1>4. base \in Nat /\ (base > 0 => applied = points)
    BY <1>2, <1>3
  <1> HIDE DEF base
  <1>5. TaxOf(base, rate, tax)
    BY <1>4, TaxIsRight
  <1> HIDE DEF tax
  <1>6. q.subtotal - q.codeCents - q.points = base
    BY <1>1 DEF base
  <1>7. AddsUp(q)
    <2>1. /\ WorthOf(q.by, q.subtotal, q.codeCents)
          /\ 0 <= q.points /\ q.points <= q.asked
      BY <1>1, <1>2, <1>3
    <2>2. base >= 0 /\ (base > 0 => q.points = q.asked)
      BY <1>1, <1>4
    <2>3. TaxOf(base, q.rate, q.tax)
      <3>1. q.tax = tax /\ q.rate = rate
        BY <1>1
      <3> QED
        BY <1>5, <3>1
    <2>4. q.total = base + q.tax
      <3>1. q.tax = tax /\ q.total = base + tax
        BY <1>1
      <3> QED
        BY <3>1
    <2>5. AddsUpOn(q, base)
      BY <2>1, <2>2, <2>3, <2>4 DEF AddsUpOn
    <2> QED
      BY <1>6, <2>5 DEF AddsUp
  <1>10. Sums(q)
    BY <1>1, <1>7 DEF Sums
  <1> QED
    BY <1>10 DEF q

-----------------------------------------------------------------------------
PricingIInv == code \in Codes /\ (quote.made => Sums(quote))

(* A code stays a code, and the last quote sums up, whatever prices and     *)
(* quantities there are and whatever the shop makes of its codes.           *)
THEOREM PricingInductive == PricingSpec => []PricingIInv
  <1>1. PricingInit => PricingIInv
    BY DEF PricingInit, PricingIInv, NoQuote
  <1>2. PricingIInv /\ [PricingNext]_pricingVars => PricingIInv'
    <2> SUFFICES ASSUME PricingIInv, [PricingNext]_pricingVars
                 PROVE  PricingIInv'
      OBVIOUS
    <2>1. ASSUME NEW prices \in [1..2 -> UnitPrices], NEW quantities \in [1..2 -> Quantities],
                 NEW points \in PointsAsked, NEW rate \in TaxRates,
                 Quote(prices, quantities, points, rate)
          PROVE  PricingIInv'
      <3>1. CASE prices[1] < 0 \/ prices[2] < 0
        BY <2>1, <3>1 DEF Quote, PricingIInv, NoQuote
      <3>2. CASE ~(prices[1] < 0 \/ prices[2] < 0)
        <4> DEFINE subtotal == prices[1] * quantities[1] + prices[2] * quantities[2]
        <4>1. /\ prices[1] \in Nat /\ prices[2] \in Nat
              /\ quantities[1] \in Nat /\ quantities[2] \in Nat
              /\ points \in Nat /\ rate \in Nat
          <5>1. /\ prices[1] \in Int /\ prices[2] \in Int
                /\ quantities[1] \in Nat /\ quantities[2] \in Nat
                /\ points \in Nat /\ rate \in Nat
            <6>1. UnitPrices \subseteq Int /\ Quantities \subseteq Nat
              BY PricingOK
            <6>2. PointsAsked \subseteq Nat /\ TaxRates \subseteq Nat
              BY PricingOK
            <6>3. /\ prices[1] \in UnitPrices /\ prices[2] \in UnitPrices
                  /\ quantities[1] \in Quantities /\ quantities[2] \in Quantities
              OBVIOUS
            <6> QED
              BY <6>1, <6>2, <6>3
          <5> QED
            BY <3>2, <5>1
        <4>2. subtotal \in Nat
          <5>1. prices[1] * quantities[1] \in Nat /\ prices[2] * quantities[2] \in Nat
            BY <4>1, ProductOfNats
          <5> QED
            BY <5>1
        <4>3. quote' = Quoted(subtotal, code, points, rate) /\ UNCHANGED code
          BY <2>1, <3>2 DEF Quote
        <4> HIDE DEF subtotal
        <4> QED
          BY <4>1, <4>2, <4>3, QuotedSums DEF PricingIInv
      <3> QED
        BY <3>1, <3>2
    <2>2. ASSUME NEW type \in CodeTypes \cup {"keep"}, NEW value \in CodeValues \cup {Keep},
                 NEW cap \in CodeCaps \cup {Uncapped, Keep}, UpdateCode(type, value, cap)
          PROVE  PricingIInv'
      <3>1. code' \in Codes
        BY <2>2 DEF UpdateCode, PricingIInv, Codes, CodeTypes
      <3> QED
        BY <2>2, <3>1 DEF UpdateCode, PricingIInv
    <2>3. CASE UNCHANGED pricingVars
      BY <2>3 DEF pricingVars, PricingIInv
    <2> QED
      BY <2>1, <2>2, <2>3 DEF PricingNext
  <1> QED
    BY <1>1, <1>2, PTL DEF PricingSpec

(* Codes and quotes are well formed. *)
THEOREM PricingTypeCorrect == PricingSpec => []PricingTypeOK
  <1>1. PricingIInv => PricingTypeOK
    BY DEF PricingIInv, PricingTypeOK, Sums
  <1> QED
    BY <1>1, PricingInductive, PTL

(* Every quote adds up: of any prices, even negative ones, any points, any  *)
(* tax rate, and any row the edits of a discount code leave behind.         *)
THEOREM QuotesAddUp == PricingSpec => []QuoteAddsUp
  <1>1. PricingIInv => QuoteAddsUp
    <2> SUFFICES ASSUME PricingIInv, quote.made
                 PROVE  AddsUp(quote)
      BY DEF QuoteAddsUp, AddsUp, AddsUpOn
    <2> QED
      BY DEF PricingIInv, Sums
  <1> QED
    BY <1>1, PricingInductive, PTL

-----------------------------------------------------------------------------
(***************************************************************************)
(* Orders made of quotes: OrderCreation.                                   *)
(***************************************************************************)

(* Sets of naturals have a least element, and bounded ones a greatest. *)
LEMMA LessThanIsRelation ==
    \E R : IsWellFoundedOn(R, Nat) /\ \A x, y \in Nat : y < x => <<y, x>> \in R
  <1>1. \A x, y \in Nat : y < x => <<y, x>> \in OpToRel(<, Nat)
    BY DEF OpToRel
  <1> WITNESS OpToRel(<, Nat)
  <1> QED
    BY <1>1, NatLessThanWellFounded

LEMMA LeastOf ==
    ASSUME NEW S \in SUBSET Nat, S # {}
    PROVE  \E x \in S : \A y \in S : x <= y
  <1>1. PICK R : IsWellFoundedOn(R, Nat) /\ \A x, y \in Nat : y < x => <<y, x>> \in R
    BY LessThanIsRelation
  <1>2. PICK x \in S : \A y \in S : ~(<<y, x>> \in R)
    BY <1>1, WFMin
  <1>3. ASSUME NEW y \in S
        PROVE  x <= y
    <2>1. x \in Nat /\ y \in Nat
      OBVIOUS
    <2>2. ~(y < x)
      BY <1>1, <1>2, <2>1, Zenon
    <2> QED
      BY <2>1, <2>2
  <1> QED
    BY <1>3

LEMMA GreatestOf ==
    ASSUME NEW n \in Nat, NEW S \in SUBSET (0..n), S # {}
    PROVE  \E x \in S : \A y \in S : y <= x
  <1> DEFINE T == {n - x : x \in S}
  <1>1. \A x \in S : x \in Nat /\ x <= n
    OBVIOUS
  <1>2. \A x \in S : n - x \in Nat
    BY <1>1
  <1>3. T \in SUBSET Nat /\ T # {}
    BY <1>2
  <1>4. PICK x \in T : \A y \in T : x <= y
    BY <1>3, LeastOf
  <1>5. PICK z \in S : x = n - z
    BY <1>4
  <1>6. ASSUME NEW y \in S
        PROVE  y <= z
    <2>1. n - z <= n - y
      BY <1>4, <1>5
    <2> QED
      BY <1>1, <2>1
  <1> QED
    BY <1>6

(* A request that has an order in hand has one that was made. *)
Superseding(s) == creating[s].step \in {"release", "supersede"}
Making(s) == creating[s].step \in {"reserve", "withdraw", "save"}
HasInHand(s) == Superseding(s) \/ Making(s)

HandsExist ==
    /\ \A s \in CreationSlots : HasInHand(s) => Handled(s) \in DOMAIN orders
    /\ \A s \in CreationSlots : ~HasInHand(s) => Handled(s) = 0

OneCreates ==
    \A s, t \in CreationSlots : ~At(s, "idle") /\ ~At(t, "idle") => s = t

OneActive ==
    \A o, p \in ActiveOrders : o = p

(* Once the active order was looked for, there is none but the one in hand, *)
(* which is unpaid; before that, it has no order.                           *)
NoneBeside(s) ==
    /\ creating[s].step \in {"validate", "insert"} => ActiveOrders = {}
    /\ HasInHand(s) =>
          /\ ActiveOrders \subseteq {Handled(s)}
          /\ orders[Handled(s)].status = "PENDING_PAYMENT"
    /\ Making(s) => orders[Handled(s)].quote = creating[s].quote

(* Of a quote that is being served no order is recorded yet, and an order   *)
(* that stands is recorded, or the request that makes it has yet to do so.  *)
Recorded ==
    /\ \A s \in CreationSlots : ~At(s, "idle") => created[creating[s].quote] = 0
    /\ \A o \in DOMAIN orders :
          \/ orders[o].status = "CANCELED"
          \/ created[orders[o].quote] # 0
          \/ \E s \in CreationSlots : Making(s) /\ Handled(s) = o
    /\ \A o, p \in DOMAIN orders : o # p /\ orders[o].quote = orders[p].quote =>
          "CANCELED" \in {orders[o].status, orders[p].status}

(* An unpaid order holds its discount, but for the one being made or        *)
(* superseded, and a canceled one holds none.                               *)
HoldsDiscount ==
    \A o \in DOMAIN orders :
        /\ orders[o].status = "CANCELED" => orders[o].discount # "RESERVED"
        /\ orders[o].status = "PENDING_PAYMENT" =>
              \/ orders[o].discount = "RESERVED"
              \/ \E s \in CreationSlots :
                    /\ creating[s].step \in {"supersede", "reserve", "withdraw"}
                    /\ Handled(s) = o

HandReady ==
    \A s \in CreationSlots :
        /\ creating[s].step \in {"supersede", "reserve", "withdraw"} =>
              orders[Handled(s)].discount # "RESERVED"

CreationIInv ==
    /\ CreationTypeOK /\ HandsExist
    /\ ~crowded =>
          /\ OneCreates /\ OneActive
          /\ \A s \in CreationSlots : NoneBeside(s)
    /\ ~crowded /\ died = 0 => Recorded /\ HoldsDiscount /\ HandReady

-----------------------------------------------------------------------------
LEMMA CreationRows ==
    ASSUME CreationTypeOK
    PROVE  /\ Len(orders) \in Nat /\ DOMAIN orders = 1..Len(orders)
           /\ DOMAIN orders \subseteq 1..MaxOrders
           /\ \A o \in DOMAIN orders : orders[o] \in CreatedOrders
           /\ \A s \in CreationSlots : creating[s] \in CreationRequests
           /\ ActiveOrders \subseteq DOMAIN orders
  BY CreationOK, LenProperties, ElementOfSeq DEF CreationTypeOK, ActiveOrders

(* The history only ever becomes true, and the deaths only more. *)
LEMMA CrowdingIsNoted ==
    ASSUME CreationTypeOK, CreationNext
    PROVE  /\ crowded' \in BOOLEAN /\ (~crowded' => ~crowded)
           /\ died' \in 0..MaxCreationDeaths /\ (died' = 0 => died = 0)
  <1>1. \/ UNCHANGED crowded
        \/ crowded' = (crowded \/ \E t \in CreationSlots : ~At(t, "idle"))
        \/ \E o \in DOMAIN orders : Touched(o)
    BY DEF CreationNext, CreationStep, FindActiveOrder, ReleaseSuperseded, CancelSuperseded,
           ValidateOrder, InsertOrder, ReserveForOrder, RefuseReservation, WithdrawOrder,
           SaveCreated, CreationDies, BeginCreate, PayOrder, FinishOrder, DropOrder
  <1>2. crowded' \in BOOLEAN /\ (~crowded' => ~crowded)
    BY <1>1 DEF CreationTypeOK, Touched
  <1>3. UNCHANGED died \/ (died < MaxCreationDeaths /\ died' = died + 1)
    BY DEF CreationNext, CreationStep, FindActiveOrder, ReleaseSuperseded, CancelSuperseded,
           ValidateOrder, InsertOrder, ReserveForOrder, RefuseReservation, WithdrawOrder,
           SaveCreated, CreationDies, BeginCreate, PayOrder, FinishOrder, DropOrder
  <1>4. died' \in 0..MaxCreationDeaths /\ (died' = 0 => died = 0)
    BY <1>3, CreationOK DEF CreationTypeOK
  <1> QED
    BY <1>2, <1>4

CreationSteps ==
    {"idle", "find", "release", "supersede", "validate", "insert", "reserve",
     "withdraw", "save"}

LEMMA CreationShapes ==
    /\ NoCreation \in CreationRequests
    /\ \A r \in CreationRequests, step \in CreationSteps, o \in 0..MaxOrders :
          /\ [r EXCEPT !.step = step, !.order = o] \in CreationRequests
          /\ [r EXCEPT !.step = step, !.order = o].step = step
          /\ [r EXCEPT !.step = step, !.order = o].order = o
          /\ [r EXCEPT !.step = step, !.order = o].quote = r.quote
  <1>1. NoCreation \in CreationRequests
    BY CreationOK DEF NoCreation, CreationRequests
  <1>2. ASSUME NEW r \in CreationRequests, NEW step \in CreationSteps, NEW o \in 0..MaxOrders
        PROVE  /\ [r EXCEPT !.step = step, !.order = o] \in CreationRequests
               /\ [r EXCEPT !.step = step, !.order = o].step = step
               /\ [r EXCEPT !.step = step, !.order = o].order = o
               /\ [r EXCEPT !.step = step, !.order = o].quote = r.quote
    BY DEF CreationRequests, CreationSteps
  <1> QED
    BY <1>1, <1>2

(* Passing on to another effect, and ending. *)
LEMMA Goes ==
    ASSUME CreationTypeOK, NEW s \in CreationSlots
    PROVE  /\ \A step \in CreationSteps, o \in 0..MaxOrders :
                 CreationGoto(s, step, o) =>
                    /\ creating' \in [CreationSlots -> CreationRequests]
                    /\ creating'[s].step = step /\ creating'[s].order = o
                    /\ creating'[s].quote = creating[s].quote
                    /\ \A t \in CreationSlots \ {s} : creating'[t] = creating[t]
           /\ CreationDone(s) =>
                    /\ creating' \in [CreationSlots -> CreationRequests]
                    /\ creating'[s].step = "idle" /\ creating'[s].order = 0
                    /\ \A t \in CreationSlots \ {s} : creating'[t] = creating[t]
  <1>1. ASSUME NEW step \in CreationSteps, NEW o \in 0..MaxOrders, CreationGoto(s, step, o)
        PROVE  /\ creating' \in [CreationSlots -> CreationRequests]
               /\ creating'[s].step = step /\ creating'[s].order = o
               /\ creating'[s].quote = creating[s].quote
               /\ \A t \in CreationSlots \ {s} : creating'[t] = creating[t]
    <2> DEFINE r == [creating[s] EXCEPT !.step = step, !.order = o]
    <2>1. creating' = [creating EXCEPT ![s] = r]
      BY <1>1 DEF CreationGoto, CreationTypeOK
    <2>2. /\ r \in CreationRequests /\ r.step = step /\ r.order = o
          /\ r.quote = creating[s].quote
      <3>1. creating[s] \in CreationRequests
        BY CreationRows
      <3> QED
        BY <3>1 DEF CreationRequests, CreationSteps
    <2> HIDE DEF r
    <2> QED
      BY <2>1, <2>2 DEF CreationTypeOK
  <1>2. ASSUME CreationDone(s)
        PROVE  /\ creating' \in [CreationSlots -> CreationRequests]
               /\ creating'[s].step = "idle" /\ creating'[s].order = 0
               /\ \A t \in CreationSlots \ {s} : creating'[t] = creating[t]
    <2>1. creating' = [creating EXCEPT ![s] = NoCreation]
      BY <1>2 DEF CreationDone
    <2>2. NoCreation \in CreationRequests /\ NoCreation.step = "idle" /\ NoCreation.order = 0
      BY CreationShapes DEF NoCreation
    <2> HIDE DEF NoCreation
    <2> QED
      BY <2>1, <2>2 DEF CreationTypeOK
  <1> QED
    BY <1>1, <1>2

(* A row of which a status or a discount is written. *)
LEMMA RowWritten ==
    ASSUME CreationTypeOK, NEW o \in DOMAIN orders, NEW row \in CreatedOrders,
           orders' = [orders EXCEPT ![o] = row]
    PROVE  /\ orders' \in Seq(CreatedOrders) /\ Len(orders') = Len(orders)
           /\ DOMAIN orders' = DOMAIN orders /\ orders'[o] = row
           /\ \A p \in DOMAIN orders \ {o} : orders'[p] = orders[p]
  BY ExceptSeq, CreationRows DEF CreationTypeOK

CreatedStatuses == {"PENDING_PAYMENT", "PAID", "COMPLETED", "CANCELED"}
HeldDiscounts == {"none", "RESERVED", "REDEEMED", "RELEASED"}

LEMMA RowShapes ==
    ASSUME NEW row \in CreatedOrders
    PROVE
        /\ row.quote \in Carts
        /\ \A status \in CreatedStatuses :
              /\ [row EXCEPT !.status = status] \in CreatedOrders
              /\ [row EXCEPT !.status = status].status = status
              /\ [row EXCEPT !.status = status].quote = row.quote
              /\ [row EXCEPT !.status = status].discount = row.discount
        /\ \A discount \in HeldDiscounts :
              /\ [row EXCEPT !.discount = discount] \in CreatedOrders
              /\ [row EXCEPT !.discount = discount].status = row.status
              /\ [row EXCEPT !.discount = discount].quote = row.quote
              /\ [row EXCEPT !.discount = discount].discount = discount
        /\ \A status \in CreatedStatuses, discount \in HeldDiscounts :
              /\ [row EXCEPT !.status = status, !.discount = discount] \in CreatedOrders
              /\ [row EXCEPT !.status = status, !.discount = discount].status = status
              /\ [row EXCEPT !.status = status, !.discount = discount].quote = row.quote
              /\ [row EXCEPT !.status = status, !.discount = discount].discount = discount
  BY DEF CreatedOrders, CreatedStatuses, HeldDiscounts

(* The effect of a step in plain terms: on the slot, and on a row. *)
StepsTo(s, step, o) ==
    /\ creating' \in [CreationSlots -> CreationRequests]
    /\ creating'[s].step = step /\ creating'[s].order = o
    /\ step # "idle" => creating'[s].quote = creating[s].quote
    /\ \A t \in CreationSlots \ {s} : creating'[t] = creating[t]

RowBecomes(o, status, discount) ==
    /\ orders' \in Seq(CreatedOrders) /\ Len(orders') = Len(orders)
    /\ DOMAIN orders' = DOMAIN orders
    /\ orders'[o].quote = orders[o].quote
    /\ orders'[o].status = status /\ orders'[o].discount = discount
    /\ \A p \in DOMAIN orders \ {o} : orders'[p] = orders[p]

LEMMA OrderRowMoves ==
    ASSUME CreationTypeOK, NEW o \in DOMAIN orders
    PROVE  /\ \A status \in CreatedStatuses :
                 SetStatus(o, status) => RowBecomes(o, status, orders[o].discount)
           /\ \A discount \in HeldDiscounts :
                 orders' = [orders EXCEPT ![o].discount = discount] =>
                    RowBecomes(o, orders[o].status, discount)
           /\ \A status \in CreatedStatuses, discount \in HeldDiscounts :
                 orders' = [orders EXCEPT ![o].status = status, ![o].discount = discount] =>
                    RowBecomes(o, status, discount)
  <1>1. orders[o] \in CreatedOrders
    BY CreationRows
  <1>2. ASSUME NEW row \in CreatedOrders, orders' = [orders EXCEPT ![o] = row],
               row.quote = orders[o].quote
        PROVE  RowBecomes(o, row.status, row.discount)
    BY <1>2, RowWritten DEF RowBecomes
  <1>3. ASSUME NEW status \in CreatedStatuses, SetStatus(o, status)
        PROVE  RowBecomes(o, status, orders[o].discount)
    <2> DEFINE row == [orders[o] EXCEPT !.status = status]
    <2>1. orders' = [orders EXCEPT ![o] = row]
      BY <1>3 DEF SetStatus
    <2>2. /\ row \in CreatedOrders /\ row.quote = orders[o].quote
          /\ row.status = status /\ row.discount = orders[o].discount
      BY <1>1, RowShapes
    <2> HIDE DEF row
    <2> QED
      BY <1>2, <2>1, <2>2
  <1>4. ASSUME NEW discount \in HeldDiscounts,
               orders' = [orders EXCEPT ![o].discount = discount]
        PROVE  RowBecomes(o, orders[o].status, discount)
    <2> DEFINE row == [orders[o] EXCEPT !.discount = discount]
    <2>1. orders' = [orders EXCEPT ![o] = row]
      BY <1>4
    <2>2. /\ row \in CreatedOrders /\ row.quote = orders[o].quote
          /\ row.status = orders[o].status /\ row.discount = discount
      BY <1>1, RowShapes
    <2> HIDE DEF row
    <2> QED
      BY <1>2, <2>1, <2>2
  <1>5. ASSUME NEW status \in CreatedStatuses, NEW discount \in HeldDiscounts,
               orders' = [orders EXCEPT ![o].status = status, ![o].discount = discount]
        PROVE  RowBecomes(o, status, discount)
    <2> DEFINE row == [orders[o] EXCEPT !.status = status, !.discount = discount]
    <2>1. orders' = [orders EXCEPT ![o] = row]
      BY <1>5 DEF CreationTypeOK
    <2>2. /\ row \in CreatedOrders /\ row.quote = orders[o].quote
          /\ row.status = status /\ row.discount = discount
      BY <1>1 DEF CreatedOrders, CreatedStatuses, HeldDiscounts
    <2> HIDE DEF row
    <2> QED
      BY <1>2, <2>1, <2>2
  <1> QED
    BY <1>3, <1>4, <1>5

LEMMA SlotMoves ==
    ASSUME CreationTypeOK, NEW s \in CreationSlots
    PROVE  /\ \A step \in CreationSteps, o \in 0..MaxOrders :
                 CreationGoto(s, step, o) => StepsTo(s, step, o)
           /\ CreationDone(s) => StepsTo(s, "idle", 0)
  BY Goes DEF StepsTo

LEMMA CreationStepNames ==
    /\ {"idle", "find", "release", "supersede", "validate", "insert", "reserve", "withdraw",
        "save"} \subseteq CreationSteps
    /\ {"PENDING_PAYMENT", "PAID", "COMPLETED", "CANCELED"} \subseteq CreatedStatuses
    /\ {"none", "RESERVED", "REDEEMED", "RELEASED"} \subseteq HeldDiscounts
    /\ 0 \in 0..MaxOrders
  BY CreationOK DEF CreationSteps, CreatedStatuses, HeldDiscounts

(* What each step of a request does, in these terms. *)
FoundNone(s) == ActiveOrders = {} /\ StepsTo(s, "validate", 0)
FoundUnpaid(s, o) ==
    /\ o \in ActiveOrders /\ orders[o].status = "PENDING_PAYMENT"
    /\ StepsTo(s, "release", o)
Ended(s) == StepsTo(s, "idle", 0)

LEMMA FindEffect ==
    ASSUME CreationTypeOK, NEW s \in CreationSlots, FindActiveOrder(s)
    PROVE  /\ UNCHANGED <<orders, created, died, crowded>> /\ At(s, "find")
           /\ FoundNone(s) \/ (\E o \in ActiveOrders : FoundUnpaid(s, o)) \/ Ended(s)
  <1> USE SlotMoves, CreationStepNames, CreationRows
  <1>1. CASE ActiveOrders = {}
    BY <1>1 DEF FindActiveOrder, FoundNone
  <1>2. CASE ActiveOrders # {}
    <2> DEFINE newest == CHOOSE o \in ActiveOrders : \A p \in ActiveOrders : p <= o
    <2>1. /\ UNCHANGED <<orders, created, died, crowded>> /\ At(s, "find")
          /\ \/ /\ orders[newest].status = "PENDING_PAYMENT"
                /\ CreationGoto(s, "release", newest)
             \/ CreationDone(s)
      BY <1>2 DEF FindActiveOrder
    <2>2. newest \in ActiveOrders
      <3>1. ActiveOrders \in SUBSET (0..MaxOrders)
        OBVIOUS
      <3>2. \E o \in ActiveOrders : \A p \in ActiveOrders : p <= o
        BY <1>2, <3>1, CreationOK, GreatestOf
      <3> QED
        BY <3>2
    <2> HIDE DEF newest
    <2> QED
      BY <2>1, <2>2 DEF FoundUnpaid, Ended
  <1> QED
    BY <1>1, <1>2

LEMMA ReleaseEffect ==
    ASSUME CreationTypeOK, HandsExist, NEW s \in CreationSlots, ReleaseSuperseded(s)
    PROVE  /\ UNCHANGED <<created, died, crowded>> /\ At(s, "release")
           /\ Handled(s) \in DOMAIN orders
           /\ StepsTo(s, "supersede", Handled(s))
           /\ RowBecomes(Handled(s), orders[Handled(s)].status,
                  IF orders[Handled(s)].discount = "RESERVED" THEN "RELEASED"
                  ELSE orders[Handled(s)].discount)
  <1>1. Handled(s) \in DOMAIN orders /\ Handled(s) \in 0..MaxOrders
    BY CreationRows DEF ReleaseSuperseded, HandsExist, HasInHand, Superseding, At
  <1>2. StepsTo(s, "supersede", Handled(s))
    BY <1>1, SlotMoves, CreationStepNames DEF ReleaseSuperseded
  <1>3. CASE orders[Handled(s)].discount = "RESERVED"
    BY <1>1, <1>2, <1>3, OrderRowMoves, CreationStepNames DEF ReleaseSuperseded
  <1>4. CASE orders[Handled(s)].discount # "RESERVED"
    BY <1>1, <1>2, <1>4 DEF ReleaseSuperseded, RowBecomes, CreationTypeOK
  <1> QED
    BY <1>3, <1>4

LEMMA CancelEffect ==
    ASSUME CreationTypeOK, HandsExist, NEW s \in CreationSlots,
           CancelSuperseded(s) \/ WithdrawOrder(s)
    PROVE  /\ UNCHANGED <<created, died, crowded>>
           /\ Handled(s) \in DOMAIN orders
           /\ \/ At(s, "supersede") /\ StepsTo(s, "validate", 0)
              \/ At(s, "withdraw") /\ StepsTo(s, "idle", 0)
           /\ RowBecomes(Handled(s), "CANCELED", orders[Handled(s)].discount)
  <1>1. Handled(s) \in DOMAIN orders
    BY DEF CancelSuperseded, WithdrawOrder, HandsExist, HasInHand, Superseding, Making, At
  <1> QED
    BY <1>1, OrderRowMoves, SlotMoves, CreationStepNames DEF CancelSuperseded, WithdrawOrder

LEMMA ValidateEffect ==
    ASSUME CreationTypeOK, NEW s \in CreationSlots, ValidateOrder(s)
    PROVE  /\ UNCHANGED <<orders, created, died, crowded>> /\ At(s, "validate")
           /\ StepsTo(s, "insert", 0) \/ Ended(s)
  BY SlotMoves, CreationStepNames DEF ValidateOrder, Ended

LEMMA InsertEffect ==
    ASSUME CreationTypeOK, NEW s \in CreationSlots, InsertOrder(s)
    PROVE  LET o == Len(orders) + 1
           IN  /\ UNCHANGED <<created, died, crowded>> /\ At(s, "insert")
               /\ StepsTo(s, "reserve", o)
               /\ orders' \in Seq(CreatedOrders) /\ Len(orders') = o /\ o <= MaxOrders
               /\ o \notin DOMAIN orders /\ DOMAIN orders' = DOMAIN orders \cup {o}
               /\ orders'[o].quote = creating[s].quote
               /\ orders'[o].status = "PENDING_PAYMENT" /\ orders'[o].discount = "none"
               /\ \A p \in DOMAIN orders : orders'[p] = orders[p]
  <1> DEFINE o == Len(orders) + 1
             row == [quote |-> creating[s].quote, status |-> "PENDING_PAYMENT",
                     discount |-> "none"]
  <1>1. o \in 0..MaxOrders /\ o <= MaxOrders
    <2>1. Len(orders) \in Nat /\ Len(orders) < MaxOrders
      BY CreationRows DEF InsertOrder
    <2> QED
      BY <2>1, CreationOK
  <1>2. row \in CreatedOrders
    BY CreationRows DEF CreatedOrders, CreationRequests
  <1>3. /\ UNCHANGED <<created, died, crowded>> /\ At(s, "insert")
        /\ CreationGoto(s, "reserve", o) /\ orders' = Append(orders, row)
    BY DEF InsertOrder
  <1>4. StepsTo(s, "reserve", o)
    BY <1>1, <1>3, SlotMoves, CreationStepNames
  <1>5. /\ row.quote = creating[s].quote /\ row.status = "PENDING_PAYMENT"
        /\ row.discount = "none"
    OBVIOUS
  <1> HIDE DEF row
  <1>6. /\ orders' \in Seq(CreatedOrders) /\ Len(orders') = o /\ orders'[o] = row
        /\ \A p \in 1..Len(orders) : orders'[p] = orders[p]
    BY <1>2, <1>3, AppendProperties DEF CreationTypeOK
  <1>7. o \notin DOMAIN orders /\ DOMAIN orders' = DOMAIN orders \cup {o}
    BY <1>6, CreationRows, LenProperties
  <1> QED
    BY <1>1, <1>3, <1>4, <1>5, <1>6, <1>7, CreationRows

LEMMA ReserveEffect ==
    ASSUME CreationTypeOK, HandsExist, NEW s \in CreationSlots,
           ReserveForOrder(s) \/ RefuseReservation(s)
    PROVE  /\ UNCHANGED <<created, died, crowded>> /\ At(s, "reserve")
           /\ Handled(s) \in DOMAIN orders
           /\ \/ /\ StepsTo(s, "save", Handled(s))
                 /\ RowBecomes(Handled(s), orders[Handled(s)].status, "RESERVED")
              \/ StepsTo(s, "withdraw", Handled(s)) /\ UNCHANGED orders
  <1>1. Handled(s) \in DOMAIN orders /\ Handled(s) \in 0..MaxOrders
    BY CreationRows
       DEF ReserveForOrder, RefuseReservation, HandsExist, HasInHand, Making, At
  <1> QED
    BY <1>1, OrderRowMoves, SlotMoves, CreationStepNames DEF ReserveForOrder, RefuseReservation

LEMMA SaveEffect ==
    ASSUME CreationTypeOK, HandsExist, NEW s \in CreationSlots, SaveCreated(s)
    PROVE  /\ UNCHANGED <<orders, died, crowded>> /\ At(s, "save") /\ Ended(s)
           /\ Handled(s) \in DOMAIN orders
           /\ created' \in [Carts -> 0..MaxOrders]
           /\ created'[creating[s].quote] # 0
           /\ \A q \in Carts : created[q] # 0 => created'[q] # 0
           /\ \A q \in Carts : q # creating[s].quote => created'[q] = created[q]
  <1>1. /\ Handled(s) \in DOMAIN orders /\ Handled(s) \in 0..MaxOrders
        /\ Handled(s) # 0 /\ creating[s].quote \in Carts
    BY CreationRows
       DEF SaveCreated, HandsExist, HasInHand, Making, At, CreationRequests
  <1>2. created' = [created EXCEPT ![creating[s].quote] =
            IF created[creating[s].quote] = 0 THEN Handled(s) ELSE created[creating[s].quote]]
    BY DEF SaveCreated
  <1>3. Ended(s)
    BY SlotMoves DEF SaveCreated, Ended
  <1> QED
    BY <1>1, <1>2, <1>3 DEF SaveCreated, CreationTypeOK

LEMMA BeginEffect ==
    ASSUME CreationTypeOK, NEW s \in CreationSlots, NEW q \in Carts, BeginCreate(s, q)
    PROVE  /\ UNCHANGED <<orders, created, died>> /\ At(s, "idle") /\ created[q] = 0
           /\ creating' \in [CreationSlots -> CreationRequests]
           /\ creating'[s].step = "find" /\ creating'[s].order = 0 /\ creating'[s].quote = q
           /\ \A t \in CreationSlots \ {s} : creating'[t] = creating[t]
           /\ ~crowded' => \A t \in CreationSlots : At(t, "idle")
  <1>1. [step |-> "find", quote |-> q, order |-> 0] \in CreationRequests
    BY CreationOK DEF CreationRequests
  <1> QED
    BY <1>1 DEF BeginCreate, CreationTypeOK

(* The order's own life: nobody has it in hand, or that is noted. *)
LifeStep(o) == PayOrder(o) \/ FinishOrder(o) \/ DropOrder(o)

LEMMA LifeEffect ==
    ASSUME CreationTypeOK, NEW o \in DOMAIN orders, LifeStep(o)
    PROVE  /\ UNCHANGED <<created, creating, died>>
           /\ ~crowded' => \A s \in CreationSlots : At(s, "idle") \/ Handled(s) # o
           /\ \E status \in CreatedStatuses, discount \in HeldDiscounts :
                 /\ RowBecomes(o, status, discount)
                 /\ status # "PENDING_PAYMENT"
                 /\ orders[o].status \in {"PENDING_PAYMENT", "PAID"}
                 /\ status = "CANCELED" => discount # "RESERVED"
  <1> USE CreationStepNames
  <1>1. orders[o].discount \in HeldDiscounts
    BY CreationRows DEF CreatedOrders, HeldDiscounts
  <1>2. CASE PayOrder(o)
    <2> DEFINE d == IF orders[o].discount = "RESERVED" THEN "REDEEMED" ELSE orders[o].discount
    <2>1. orders' = [orders EXCEPT ![o].status = "PAID", ![o].discount = d]
      BY <1>2 DEF PayOrder, CreationTypeOK
    <2>2. d \in HeldDiscounts
      BY <1>1
    <2> HIDE DEF d
    <2>3. RowBecomes(o, "PAID", d)
      BY <2>1, <2>2, OrderRowMoves
    <2> QED
      BY <1>2, <2>2, <2>3 DEF PayOrder, Touched
  <1>3. CASE FinishOrder(o)
    <2>1. RowBecomes(o, "COMPLETED", orders[o].discount)
      BY <1>3, OrderRowMoves DEF FinishOrder
    <2> QED
      BY <1>1, <1>3, <2>1 DEF FinishOrder, Touched
  <1>4. CASE DropOrder(o)
    <2> DEFINE d == IF orders[o].discount = "RESERVED" THEN "RELEASED" ELSE orders[o].discount
    <2>1. orders' = [orders EXCEPT ![o].status = "CANCELED", ![o].discount = d]
      BY <1>4 DEF DropOrder, CreationTypeOK
    <2>2. d \in HeldDiscounts /\ d # "RESERVED"
      BY <1>1
    <2> HIDE DEF d
    <2>3. RowBecomes(o, "CANCELED", d)
      BY <2>1, <2>2, OrderRowMoves
    <2> QED
      BY <1>4, <2>2, <2>3 DEF DropOrder, Touched
  <1> QED
    BY <1>2, <1>3, <1>4 DEF LifeStep

LEMMA DiesEffect ==
    ASSUME CreationTypeOK, NEW s \in CreationSlots, CreationDies(s)
    PROVE  /\ UNCHANGED <<orders, created, crowded>> /\ died' # 0 /\ Ended(s)
           /\ ~At(s, "idle")
  BY SlotMoves DEF CreationDies, CreationTypeOK, Ended

(* Orders are only added, and requests have what they had or what was made. *)
CreationKept ==
    /\ orders' \in Seq(CreatedOrders) /\ Len(orders') <= MaxOrders
    /\ created' \in [Carts -> 0..MaxOrders]
    /\ creating' \in [CreationSlots -> CreationRequests]
    /\ HandsExist'

LEMMA SlotKept ==
    ASSUME CreationTypeOK, HandsExist, NEW s \in CreationSlots,
           NEW step \in CreationSteps, NEW o, StepsTo(s, step, o),
           DOMAIN orders \subseteq DOMAIN orders',
           IF step \in {"release", "supersede", "reserve", "withdraw", "save"}
           THEN o \in DOMAIN orders' ELSE o = 0
    PROVE  creating' \in [CreationSlots -> CreationRequests] /\ HandsExist'
  <1>1. /\ creating' \in [CreationSlots -> CreationRequests]
        /\ creating'[s].step = step /\ creating'[s].order = o
        /\ \A t \in CreationSlots \ {s} : creating'[t] = creating[t]
    BY DEF StepsTo
  <1>2. ASSUME NEW t \in CreationSlots
        PROVE  /\ HasInHand(t)' => Handled(t)' \in DOMAIN orders'
               /\ ~HasInHand(t)' => Handled(t)' = 0
    <2>1. CASE t = s
      BY <1>1, <2>1 DEF HasInHand, Superseding, Making, Handled
    <2>2. CASE t # s
      BY <1>1, <2>2 DEF HandsExist, HasInHand, Superseding, Making, Handled
    <2> QED
      BY <2>1, <2>2
  <1> QED
    BY <1>1, <1>2 DEF HandsExist

LEMMA CreationKeptStep ==
    ASSUME CreationTypeOK, HandsExist, CreationNext
    PROVE  CreationKept
  <1> USE CreationRows, CreationStepNames DEF CreationTypeOK
  <1>1. ASSUME NEW s \in CreationSlots, FindActiveOrder(s)
        PROVE  CreationKept
    BY <1>1, FindEffect, SlotKept DEF CreationKept, FoundNone, FoundUnpaid, Ended
  <1>2. ASSUME NEW s \in CreationSlots, ReleaseSuperseded(s)
        PROVE  CreationKept
    BY <1>2, ReleaseEffect, SlotKept DEF CreationKept, RowBecomes
  <1>3. ASSUME NEW s \in CreationSlots, CancelSuperseded(s) \/ WithdrawOrder(s)
        PROVE  CreationKept
    BY <1>3, CancelEffect, SlotKept DEF CreationKept, RowBecomes
  <1>4. ASSUME NEW s \in CreationSlots, ValidateOrder(s)
        PROVE  CreationKept
    BY <1>4, ValidateEffect, SlotKept DEF CreationKept, Ended
  <1>5. ASSUME NEW s \in CreationSlots, InsertOrder(s)
        PROVE  CreationKept
    <2>1. StepsTo(s, "reserve", Len(orders) + 1)
      BY <1>5, InsertEffect
    <2>2. /\ DOMAIN orders' = DOMAIN orders \cup {Len(orders) + 1}
          /\ orders' \in Seq(CreatedOrders) /\ Len(orders') <= MaxOrders
          /\ UNCHANGED created
      BY <1>5, InsertEffect
    <2> QED
      BY <2>1, <2>2, SlotKept DEF CreationKept
  <1>6. ASSUME NEW s \in CreationSlots, ReserveForOrder(s) \/ RefuseReservation(s)
        PROVE  CreationKept
    BY <1>6, ReserveEffect, SlotKept DEF CreationKept, RowBecomes
  <1>7. ASSUME NEW s \in CreationSlots, SaveCreated(s)
        PROVE  CreationKept
    BY <1>7, SaveEffect, SlotKept DEF CreationKept, Ended
  <1>8. ASSUME NEW s \in CreationSlots, CreationDies(s)
        PROVE  CreationKept
    BY <1>8, DiesEffect, SlotKept DEF CreationKept, Ended
  <1>9. ASSUME NEW s \in CreationSlots, NEW q \in Carts, BeginCreate(s, q)
        PROVE  CreationKept
    <2>1. /\ UNCHANGED <<orders, created>>
          /\ creating' \in [CreationSlots -> CreationRequests]
          /\ creating'[s].step = "find" /\ creating'[s].order = 0
          /\ \A t \in CreationSlots \ {s} : creating'[t] = creating[t]
      BY <1>9, BeginEffect
    <2>2. ASSUME NEW t \in CreationSlots
          PROVE  /\ HasInHand(t)' => Handled(t)' \in DOMAIN orders'
                 /\ ~HasInHand(t)' => Handled(t)' = 0
      BY <2>1 DEF HandsExist, HasInHand, Superseding, Making, Handled
    <2>3. HandsExist'
      BY <2>2 DEF HandsExist
    <2> QED
      BY <2>1, <2>3 DEF CreationKept
  <1>10. ASSUME NEW o \in DOMAIN orders, LifeStep(o)
         PROVE  CreationKept
    <2>1. /\ UNCHANGED <<created, creating>>
          /\ orders' \in Seq(CreatedOrders) /\ Len(orders') = Len(orders)
          /\ DOMAIN orders' = DOMAIN orders
      BY <1>10, LifeEffect DEF RowBecomes
    <2>2. HandsExist'
      BY <2>1 DEF HandsExist, HasInHand, Superseding, Making, Handled
    <2> QED
      BY <2>1, <2>2 DEF CreationKept
  <1> QED
    BY <1>1, <1>2, <1>3, <1>4, <1>5, <1>6, <1>7, <1>8, <1>9, <1>10
       DEF CreationNext, CreationStep, LifeStep

-----------------------------------------------------------------------------
(* One request at a time. *)
LEMMA OthersUnderWay ==
    ASSUME CreationTypeOK, OneCreates, NEW s \in CreationSlots,
           \/ CreationStep(s) \/ CreationDies(s)
           \/ ~crowded' /\ \E q \in Carts : BeginCreate(s, q)
    PROVE  \A t \in CreationSlots \ {s} : At(t, "idle")
  <1>1. ASSUME NEW q \in Carts, BeginCreate(s, q), ~crowded'
        PROVE  \A t \in CreationSlots \ {s} : At(t, "idle")
    BY <1>1, BeginEffect
  <1>2. CreationStep(s) \/ CreationDies(s) => ~At(s, "idle")
    BY DEF CreationStep, CreationDies, FindActiveOrder, ReleaseSuperseded, CancelSuperseded,
           ValidateOrder, InsertOrder, ReserveForOrder, RefuseReservation, WithdrawOrder,
           SaveCreated, At
  <1> QED
    BY <1>1, <1>2 DEF OneCreates

(* The invariant of all requests, from that of the one that is served. *)
LEMMA FromOne ==
    ASSUME CreationTypeOK, NEW s \in CreationSlots,
           \A t \in CreationSlots \ {s} : At(t, "idle") /\ creating'[t] = creating[t]
    PROVE  /\ \A t \in CreationSlots \ {s} :
                 creating[t].step = "idle" /\ creating'[t].step = "idle"
           /\ OneCreates'
           /\ NoneBeside(s)' => \A t \in CreationSlots : NoneBeside(t)'
  BY DEF At, OneCreates, NoneBeside, HasInHand, Superseding, Making, Handled

(* What is active after a row was written. *)
LEMMA ActiveAfter ==
    ASSUME CreationTypeOK, NEW o \in DOMAIN orders, NEW status, NEW discount,
           RowBecomes(o, status, discount)
    PROVE  /\ ActiveOrders' = (ActiveOrders \ {o})
                 \cup (IF status \in {"PENDING_PAYMENT", "PAID"} THEN {o} ELSE {})
           /\ \A p \in DOMAIN orders : orders'[p].quote = orders[p].quote
  BY DEF RowBecomes, ActiveOrders

LEMMA UncrowdedStep ==
    ASSUME CreationTypeOK, HandsExist, OneCreates, OneActive,
           \A s \in CreationSlots : NoneBeside(s),
           CreationNext, ~crowded'
    PROVE  OneCreates' /\ OneActive' /\ \A s \in CreationSlots : NoneBeside(s)'
  <1> DEFINE Goal == OneCreates' /\ OneActive' /\ \A s \in CreationSlots : NoneBeside(s)'
  <1> USE DEF NoneBeside, HasInHand, Superseding, Making, At, OneActive, Handled
  <1>1. ASSUME NEW s \in CreationSlots, FindActiveOrder(s)
        PROVE  Goal
    <2>1. \A t \in CreationSlots \ {s} : creating'[t] = creating[t]
      BY <1>1, FindEffect DEF FoundNone, FoundUnpaid, Ended, StepsTo
    <2>2. ActiveOrders' = ActiveOrders /\ UNCHANGED orders
      BY <1>1, FindEffect DEF ActiveOrders
    <2>3. NoneBeside(s)'
      <3>1. CASE FoundNone(s)
        BY <2>2, <3>1 DEF FoundNone, StepsTo
      <3>2. ASSUME NEW o \in ActiveOrders, FoundUnpaid(s, o)
            PROVE  NoneBeside(s)'
        <4>1. /\ creating'[s].step = "release" /\ creating'[s].order = o
              /\ orders[o].status = "PENDING_PAYMENT"
          BY <3>2 DEF FoundUnpaid, StepsTo
        <4>2. ActiveOrders \subseteq {o}
          OBVIOUS
        <4> QED
          BY <2>2, <4>1, <4>2
      <3>3. CASE Ended(s)
        BY <3>3 DEF Ended, StepsTo
      <3> QED
        BY <1>1, <3>1, <3>2, <3>3, FindEffect
    <2> QED
      BY <1>1, <2>1, <2>2, <2>3, OthersUnderWay, FromOne DEF CreationStep
  <1>2. ASSUME NEW s \in CreationSlots, ReleaseSuperseded(s)
        PROVE  Goal
    <2>1. \A t \in CreationSlots \ {s} : creating'[t] = creating[t]
      BY <1>2, ReleaseEffect DEF StepsTo
    <2>2. /\ At(s, "release") /\ Handled(s) \in DOMAIN orders
          /\ ActiveOrders \subseteq {Handled(s)}
          /\ orders[Handled(s)].status = "PENDING_PAYMENT"
      BY <1>2, ReleaseEffect
    <2>3. PICK discount : RowBecomes(Handled(s), orders[Handled(s)].status, discount)
      BY <1>2, ReleaseEffect
    <2>4. ActiveOrders' \subseteq {Handled(s)}
      BY <2>2, <2>3, ActiveAfter
    <2>5. /\ creating'[s].step = "supersede" /\ creating'[s].order = creating[s].order
      BY <1>2, ReleaseEffect DEF StepsTo
    <2>6. orders'[creating[s].order].status = "PENDING_PAYMENT"
      BY <2>2, <2>3 DEF RowBecomes
    <2>7. NoneBeside(s)'
      BY <2>4, <2>5, <2>6
    <2>8. OneActive'
      BY <2>4
    <2> QED
      BY <1>2, <2>1, <2>7, <2>8, OthersUnderWay, FromOne DEF CreationStep
  <1>3. ASSUME NEW s \in CreationSlots, CancelSuperseded(s) \/ WithdrawOrder(s)
        PROVE  Goal
    <2>1. \A t \in CreationSlots \ {s} : creating'[t] = creating[t]
      BY <1>3, CancelEffect DEF StepsTo
    <2>2. ActiveOrders' = {}
      BY <1>3, CancelEffect, ActiveAfter
    <2>3. NoneBeside(s)'
      BY <1>3, <2>2, CancelEffect DEF StepsTo
    <2> QED
      BY <1>3, <2>1, <2>2, <2>3, OthersUnderWay, FromOne DEF CreationStep
  <1>4. ASSUME NEW s \in CreationSlots, ValidateOrder(s)
        PROVE  Goal
    <2>1. \A t \in CreationSlots \ {s} : creating'[t] = creating[t]
      BY <1>4, ValidateEffect DEF StepsTo, Ended
    <2>2. ActiveOrders' = ActiveOrders
      BY <1>4, ValidateEffect DEF ActiveOrders
    <2>3. NoneBeside(s)'
      BY <1>4, <2>2, ValidateEffect DEF StepsTo, Ended
    <2> QED
      BY <1>4, <2>1, <2>2, <2>3, OthersUnderWay, FromOne DEF CreationStep
  <1>5. ASSUME NEW s \in CreationSlots, InsertOrder(s)
        PROVE  Goal
    <2> DEFINE o == Len(orders) + 1
    <2>1. /\ \A t \in CreationSlots \ {s} : creating'[t] = creating[t]
          /\ creating'[s].step = "reserve" /\ creating'[s].order = o
          /\ creating'[s].quote = creating[s].quote
      BY <1>5, InsertEffect DEF StepsTo
    <2>2. /\ DOMAIN orders' = DOMAIN orders \cup {o}
          /\ orders'[o].quote = creating[s].quote /\ orders'[o].status = "PENDING_PAYMENT"
          /\ \A p \in DOMAIN orders : orders'[p] = orders[p]
          /\ At(s, "insert")
      BY <1>5, InsertEffect
    <2> HIDE DEF o
    <2>3. ActiveOrders = {}
      BY <2>2
    <2>4. ActiveOrders' = {o}
      BY <2>2, <2>3 DEF ActiveOrders
    <2>5. NoneBeside(s)'
      BY <2>1, <2>2, <2>4
    <2> QED
      BY <1>5, <2>1, <2>4, <2>5, OthersUnderWay, FromOne DEF CreationStep
  <1>6. ASSUME NEW s \in CreationSlots, ReserveForOrder(s) \/ RefuseReservation(s)
        PROVE  Goal
    <2>1. \A t \in CreationSlots \ {s} : creating'[t] = creating[t]
      BY <1>6, ReserveEffect DEF StepsTo
    <2>2. ActiveOrders' \subseteq ActiveOrders \cup {Handled(s)}
      BY <1>6, ReserveEffect, ActiveAfter DEF ActiveOrders
    <2>3. /\ ActiveOrders \subseteq {Handled(s)}
          /\ orders[Handled(s)].status = "PENDING_PAYMENT"
          /\ orders[Handled(s)].quote = creating[s].quote
      BY <1>6, ReserveEffect
    <2>4. /\ creating'[s].step \in {"save", "withdraw"} /\ creating'[s].order = Handled(s)
          /\ creating'[s].quote = creating[s].quote
          /\ orders'[Handled(s)].status = "PENDING_PAYMENT"
          /\ orders'[Handled(s)].quote = creating[s].quote
      BY <1>6, <2>3, ReserveEffect DEF StepsTo, RowBecomes
    <2>5. NoneBeside(s)'
      BY <2>2, <2>3, <2>4
    <2>6. OneActive'
      BY <2>2, <2>3
    <2> QED
      BY <1>6, <2>1, <2>5, <2>6, OthersUnderWay, FromOne DEF CreationStep
  <1>7. ASSUME NEW s \in CreationSlots, SaveCreated(s) \/ CreationDies(s)
        PROVE  Goal
    <2>1. Ended(s) /\ UNCHANGED orders
      BY <1>7, SaveEffect, DiesEffect
    <2>2. /\ \A t \in CreationSlots \ {s} : creating'[t] = creating[t]
          /\ creating'[s].step = "idle"
      BY <2>1 DEF StepsTo, Ended
    <2>3. ActiveOrders' = ActiveOrders
      BY <2>1 DEF ActiveOrders
    <2>4. NoneBeside(s)'
      BY <2>2
    <2> QED
      BY <1>7, <2>2, <2>3, <2>4, OthersUnderWay, FromOne DEF CreationStep
  <1>8. ASSUME NEW s \in CreationSlots, NEW q \in Carts, BeginCreate(s, q)
        PROVE  Goal
    <2>1. /\ \A t \in CreationSlots \ {s} : creating'[t] = creating[t]
          /\ creating'[s].step = "find" /\ UNCHANGED orders
      BY <1>8, BeginEffect
    <2>2. ActiveOrders' = ActiveOrders
      BY <2>1 DEF ActiveOrders
    <2>3. NoneBeside(s)'
      BY <2>1
    <2> QED
      BY <1>8, <2>1, <2>2, <2>3, OthersUnderWay, FromOne
  <1>9. ASSUME NEW o \in DOMAIN orders, LifeStep(o)
        PROVE  Goal
    <2>1. PICK status \in CreatedStatuses, discount \in HeldDiscounts :
              /\ RowBecomes(o, status, discount)
              /\ orders[o].status \in {"PENDING_PAYMENT", "PAID"}
      BY <1>9, LifeEffect
    <2>2. /\ UNCHANGED creating
          /\ \A s \in CreationSlots : creating[s].step = "idle" \/ Handled(s) # o
      BY <1>9, LifeEffect
    <2>3. ActiveOrders' \subseteq ActiveOrders /\ o \in ActiveOrders
      BY <2>1, ActiveAfter DEF ActiveOrders
    <2>4. OneActive'
      BY <2>3
    <2>5. OneCreates'
      BY <2>2 DEF OneCreates
    <2>6. ASSUME NEW s \in CreationSlots
          PROVE  NoneBeside(s)'
      <3>1. ~HasInHand(s)
        BY <2>2, <2>3
      <3> QED
        BY <2>2, <2>3, <3>1
    <2> QED
      BY <2>4, <2>5, <2>6
  <1> QED
    BY <1>1, <1>2, <1>3, <1>4, <1>5, <1>6, <1>7, <1>8, <1>9
       DEF CreationNext, CreationStep, LifeStep

-----------------------------------------------------------------------------
(* What an order has of what its quote promised, while the request of slot s *)
(* is the only one.                                                          *)
WholeBut(s) ==
    /\ ~At(s, "idle") => created[creating[s].quote] = 0
    /\ \A o \in DOMAIN orders :
          \/ orders[o].status = "CANCELED" \/ created[orders[o].quote] # 0
          \/ Making(s) /\ Handled(s) = o
    /\ \A o, p \in DOMAIN orders : o # p /\ orders[o].quote = orders[p].quote =>
          orders[o].status = "CANCELED" \/ orders[p].status = "CANCELED"
    /\ \A o \in DOMAIN orders :
          /\ orders[o].status = "CANCELED" => orders[o].discount # "RESERVED"
          /\ orders[o].status = "PENDING_PAYMENT" =>
                \/ orders[o].discount = "RESERVED"
                \/ creating[s].step \in {"supersede", "reserve", "withdraw"} /\ Handled(s) = o
    /\ creating[s].step \in {"supersede", "reserve", "withdraw"} =>
          orders[Handled(s)].discount # "RESERVED"

LEMMA WholeOfOne ==
    ASSUME NEW s \in CreationSlots, Recorded, HoldsDiscount, HandReady,
           \A t \in CreationSlots \ {s} : creating[t].step = "idle"
    PROVE  WholeBut(s)
  <1> USE DEF Recorded, HoldsDiscount, HandReady, Making, At
  <1>1. ~At(s, "idle") => created[creating[s].quote] = 0
    OBVIOUS
  <1>2. ASSUME NEW o \in DOMAIN orders
        PROVE  \/ orders[o].status = "CANCELED" \/ created[orders[o].quote] # 0
               \/ Making(s) /\ Handled(s) = o
    OBVIOUS
  <1>3. ASSUME NEW o \in DOMAIN orders
        PROVE  /\ orders[o].status = "CANCELED" => orders[o].discount # "RESERVED"
               /\ orders[o].status = "PENDING_PAYMENT" =>
                     \/ orders[o].discount = "RESERVED"
                     \/ /\ creating[s].step \in {"supersede", "reserve", "withdraw"}
                        /\ Handled(s) = o
    OBVIOUS
  <1>4. ASSUME NEW o \in DOMAIN orders, NEW p \in DOMAIN orders,
               o # p /\ orders[o].quote = orders[p].quote
        PROVE  orders[o].status = "CANCELED" \/ orders[p].status = "CANCELED"
    BY <1>4
  <1> QED
    BY <1>1, <1>2, <1>3, <1>4 DEF WholeBut

LEMMA WholeFromOne ==
    ASSUME NEW s \in CreationSlots, WholeBut(s)',
           \A t \in CreationSlots \ {s} : creating'[t].step = "idle"
    PROVE  Recorded' /\ HoldsDiscount' /\ HandReady'
  <1> USE DEF WholeBut, Making, At, Handled
  <1>1. Recorded'
    BY DEF Recorded
  <1>2. HoldsDiscount'
    BY DEF HoldsDiscount
  <1>3. HandReady'
    BY DEF HandReady
  <1> QED
    BY <1>1, <1>2, <1>3

LEMMA WholeStep ==
    ASSUME CreationTypeOK, HandsExist, OneCreates,
           \A s \in CreationSlots : NoneBeside(s),
           Recorded, HoldsDiscount, HandReady,
           CreationNext, ~crowded', died' = 0
    PROVE  Recorded' /\ HoldsDiscount' /\ HandReady'
  <1> DEFINE Goal == Recorded' /\ HoldsDiscount' /\ HandReady'
  <1>0. ASSUME NEW s \in CreationSlots,
               \A t \in CreationSlots \ {s} : At(t, "idle") /\ creating'[t] = creating[t],
               WholeBut(s) => WholeBut(s)'
        PROVE  Goal
    BY <1>0, WholeOfOne, WholeFromOne, FromOne
  <1> HIDE DEF Goal
  <1> USE DEF At, Handled, Making
  <1>1. ASSUME NEW s \in CreationSlots, FindActiveOrder(s)
        PROVE  Goal
    <2>1. \A t \in CreationSlots \ {s} : At(t, "idle") /\ creating'[t] = creating[t]
      BY <1>1, FindEffect, OthersUnderWay DEF FoundNone, FoundUnpaid, Ended, StepsTo, CreationStep
    <2>2. /\ UNCHANGED <<orders, created>> /\ creating[s].step = "find"
          /\ creating'[s].step \in {"validate", "release", "idle"}
          /\ ~At(s, "idle")' => creating'[s].quote = creating[s].quote
      BY <1>1, FindEffect DEF FoundNone, FoundUnpaid, Ended, StepsTo
    <2>3. WholeBut(s) => WholeBut(s)'
      BY <2>2 DEF WholeBut
    <2> QED
      BY <1>0, <2>1, <2>3
  <1>2. ASSUME NEW s \in CreationSlots, ReleaseSuperseded(s)
        PROVE  Goal
    <2>1. \A t \in CreationSlots \ {s} : At(t, "idle") /\ creating'[t] = creating[t]
      BY <1>2, ReleaseEffect, OthersUnderWay DEF StepsTo, CreationStep
    <2> DEFINE o == Handled(s)
    <2>2. /\ UNCHANGED created /\ creating[s].step = "release" /\ o \in DOMAIN orders
          /\ creating'[s].step = "supersede" /\ creating'[s].order = o
          /\ creating'[s].quote = creating[s].quote
      BY <1>2, ReleaseEffect DEF StepsTo
    <2>3. PICK discount :
              discount # "RESERVED" /\ RowBecomes(o, orders[o].status, discount)
      BY <1>2, ReleaseEffect
    <2>4. WholeBut(s) => WholeBut(s)'
      BY <2>2, <2>3 DEF WholeBut, RowBecomes
    <2> QED
      BY <1>0, <2>1, <2>4
  <1>3. ASSUME NEW s \in CreationSlots, CancelSuperseded(s) \/ WithdrawOrder(s)
        PROVE  Goal
    <2>1. \A t \in CreationSlots \ {s} : At(t, "idle") /\ creating'[t] = creating[t]
      BY <1>3, CancelEffect, OthersUnderWay DEF StepsTo, CreationStep
    <2> DEFINE o == Handled(s)
    <2>2. /\ UNCHANGED created /\ creating[s].step \in {"supersede", "withdraw"}
          /\ o \in DOMAIN orders
          /\ creating'[s].step \in {"validate", "idle"}
          /\ ~At(s, "idle")' => creating'[s].quote = creating[s].quote
      BY <1>3, CancelEffect DEF StepsTo
    <2>3. RowBecomes(o, "CANCELED", orders[o].discount)
      BY <1>3, CancelEffect
    <2>4. WholeBut(s) => WholeBut(s)'
      BY <2>2, <2>3 DEF WholeBut, RowBecomes
    <2> QED
      BY <1>0, <2>1, <2>4
  <1>4. ASSUME NEW s \in CreationSlots, ValidateOrder(s)
        PROVE  Goal
    <2>1. \A t \in CreationSlots \ {s} : At(t, "idle") /\ creating'[t] = creating[t]
      BY <1>4, ValidateEffect, OthersUnderWay DEF Ended, StepsTo, CreationStep
    <2>2. /\ UNCHANGED <<orders, created>> /\ creating[s].step = "validate"
          /\ creating'[s].step \in {"insert", "idle"}
          /\ ~At(s, "idle")' => creating'[s].quote = creating[s].quote
      BY <1>4, ValidateEffect DEF Ended, StepsTo
    <2>3. WholeBut(s) => WholeBut(s)'
      BY <2>2 DEF WholeBut
    <2> QED
      BY <1>0, <2>1, <2>3
  <1>5. ASSUME NEW s \in CreationSlots, InsertOrder(s)
        PROVE  Goal
    <2>1. \A t \in CreationSlots \ {s} : At(t, "idle") /\ creating'[t] = creating[t]
      BY <1>5, InsertEffect, OthersUnderWay DEF StepsTo, CreationStep
    <2> DEFINE o == Len(orders) + 1
    <2>2. /\ UNCHANGED created /\ creating[s].step = "insert"
          /\ creating'[s].step = "reserve" /\ creating'[s].order = o
          /\ creating'[s].quote = creating[s].quote
          /\ o \notin DOMAIN orders /\ DOMAIN orders' = DOMAIN orders \cup {o}
          /\ orders'[o].quote = creating[s].quote
          /\ orders'[o].status = "PENDING_PAYMENT" /\ orders'[o].discount = "none"
          /\ \A p \in DOMAIN orders : orders'[p] = orders[p]
      BY <1>5, InsertEffect DEF StepsTo
    <2> HIDE DEF o
    <2>3. WholeBut(s) => WholeBut(s)'
      <3> HAVE WholeBut(s)
      <3>1. \A p \in DOMAIN orders :
                orders[p].quote = creating[s].quote => orders[p].status = "CANCELED"
        BY <2>2 DEF WholeBut
      <3>2. ~At(s, "idle")' => created'[creating'[s].quote] = 0
        BY <2>2 DEF WholeBut
      <3>3. \A p \in DOMAIN orders' :
                \/ orders'[p].status = "CANCELED" \/ created'[orders'[p].quote] # 0
                \/ creating'[s].order = p
        BY <2>2 DEF WholeBut
      <3>4. \A p, q \in DOMAIN orders' : p # q /\ orders'[p].quote = orders'[q].quote =>
                orders'[p].status = "CANCELED" \/ orders'[q].status = "CANCELED"
        BY <2>2, <3>1 DEF WholeBut
      <3>5. \A p \in DOMAIN orders' :
                /\ orders'[p].status = "CANCELED" => orders'[p].discount # "RESERVED"
                /\ orders'[p].status = "PENDING_PAYMENT" =>
                      orders'[p].discount = "RESERVED" \/ creating'[s].order = p
        BY <2>2 DEF WholeBut
      <3> QED
        BY <2>2, <3>2, <3>3, <3>4, <3>5 DEF WholeBut
    <2> QED
      BY <1>0, <2>1, <2>3
  <1>6. ASSUME NEW s \in CreationSlots, ReserveForOrder(s) \/ RefuseReservation(s)
        PROVE  Goal
    <2>1. \A t \in CreationSlots \ {s} : At(t, "idle") /\ creating'[t] = creating[t]
      BY <1>6, ReserveEffect, OthersUnderWay DEF StepsTo, CreationStep
    <2> DEFINE o == Handled(s)
    <2>2. /\ UNCHANGED created /\ creating[s].step = "reserve" /\ o \in DOMAIN orders
          /\ orders[o].status = "PENDING_PAYMENT"
      BY <1>6, ReserveEffect DEF NoneBeside, HasInHand
    <2>3. CASE /\ StepsTo(s, "save", o)
               /\ RowBecomes(o, orders[o].status, "RESERVED")
      <3>1. WholeBut(s) => WholeBut(s)'
        BY <2>2, <2>3 DEF WholeBut, RowBecomes, StepsTo
      <3> QED
        BY <1>0, <2>1, <3>1
    <2>4. CASE StepsTo(s, "withdraw", o) /\ UNCHANGED orders
      <3>1. WholeBut(s) => WholeBut(s)'
        BY <2>2, <2>4 DEF WholeBut, StepsTo
      <3> QED
        BY <1>0, <2>1, <3>1
    <2> QED
      BY <1>6, <2>3, <2>4, ReserveEffect
  <1>7. ASSUME NEW s \in CreationSlots, SaveCreated(s)
        PROVE  Goal
    <2>1. \A t \in CreationSlots \ {s} : At(t, "idle") /\ creating'[t] = creating[t]
      BY <1>7, SaveEffect, OthersUnderWay DEF Ended, StepsTo, CreationStep
    <2> DEFINE o == Handled(s)
    <2>2. /\ UNCHANGED orders /\ creating[s].step = "save" /\ creating'[s].step = "idle"
          /\ orders[o].quote = creating[s].quote
          /\ created'[creating[s].quote] # 0
          /\ \A q \in Carts : created[q] # 0 => created'[q] # 0
      BY <1>7, SaveEffect DEF NoneBeside, HasInHand, Ended, StepsTo
    <2>3. \A p \in DOMAIN orders : orders[p].quote \in Carts
      BY CreationRows DEF CreatedOrders
    <2>4. WholeBut(s) => WholeBut(s)'
      BY <2>2, <2>3 DEF WholeBut
    <2> QED
      BY <1>0, <2>1, <2>4
  <1>8. ASSUME NEW s \in CreationSlots, NEW q \in Carts, BeginCreate(s, q)
        PROVE  Goal
    <2>1. \A t \in CreationSlots \ {s} : At(t, "idle") /\ creating'[t] = creating[t]
      BY <1>8, BeginEffect
    <2>2. /\ UNCHANGED <<orders, created>> /\ creating[s].step = "idle" /\ created[q] = 0
          /\ creating'[s].step = "find" /\ creating'[s].quote = q
      BY <1>8, BeginEffect
    <2>3. WholeBut(s) => WholeBut(s)'
      BY <2>2 DEF WholeBut
    <2> QED
      BY <1>0, <2>1, <2>3
  <1>9. ASSUME NEW s \in CreationSlots, CreationDies(s)
        PROVE  Goal
    BY <1>9, DiesEffect
  <1>10. ASSUME NEW o \in DOMAIN orders, LifeStep(o)
         PROVE  Goal
    <2>1. PICK status \in CreatedStatuses, discount \in HeldDiscounts :
              /\ RowBecomes(o, status, discount)
              /\ status # "PENDING_PAYMENT"
              /\ orders[o].status \in {"PENDING_PAYMENT", "PAID"}
              /\ status = "CANCELED" => discount # "RESERVED"
      BY <1>10, LifeEffect
    <2>2. /\ UNCHANGED <<created, creating>>
          /\ \A s \in CreationSlots : At(s, "idle") \/ Handled(s) # o
      BY <1>10, LifeEffect
    <2>3. \A s \in CreationSlots : HasInHand(s) => Handled(s) \in DOMAIN orders \ {o}
      BY <2>2 DEF HandsExist, HasInHand, Superseding
    <2>4. Recorded'
      BY <2>1, <2>2 DEF Recorded, RowBecomes
    <2>5. HoldsDiscount'
      BY <2>1, <2>2 DEF HoldsDiscount, RowBecomes
    <2>6. HandReady'
      BY <2>1, <2>2, <2>3 DEF HandReady, RowBecomes, HasInHand, Superseding
    <2> QED
      BY <2>4, <2>5, <2>6 DEF Goal
  <1>11. Goal
    BY <1>1, <1>2, <1>3, <1>4, <1>5, <1>6, <1>7, <1>8, <1>9, <1>10
       DEF CreationNext, CreationStep, LifeStep
  <1> QED
    BY <1>11 DEF Goal

-----------------------------------------------------------------------------
LEMMA CreationIInit == CreationInit => CreationIInv
  <1> SUFFICES ASSUME CreationInit
               PROVE  CreationIInv
    OBVIOUS
  <1>1. /\ orders = <<>> /\ DOMAIN orders = {} /\ Len(orders) = 0
        /\ orders \in Seq(CreatedOrders)
    BY DEF CreationInit
  <1>2. \A s \in CreationSlots :
            creating[s] = NoCreation /\ creating[s].step = "idle" /\ creating[s].order = 0
    <2>1. NoCreation.step = "idle" /\ NoCreation.order = 0
      BY DEF NoCreation
    <2> QED
      BY <2>1 DEF CreationInit
  <1>3. CreationTypeOK
    <2>1. creating \in [CreationSlots -> CreationRequests]
      BY CreationShapes DEF CreationInit
    <2>2. created \in [Carts -> 0..MaxOrders]
      BY CreationOK DEF CreationInit
    <2>3. crowded \in BOOLEAN
      BY Zenon DEF CreationInit
    <2>4. Len(orders) <= MaxOrders /\ died \in 0..MaxCreationDeaths
      BY <1>1, CreationOK DEF CreationInit
    <2> QED
      BY <1>1, <2>1, <2>2, <2>3, <2>4 DEF CreationTypeOK
  <1>4. HandsExist /\ OneCreates /\ OneActive /\ \A s \in CreationSlots : NoneBeside(s)
    BY <1>1, <1>2 DEF HandsExist, OneCreates, OneActive, NoneBeside, HasInHand, Superseding, Making,
                At, Handled, ActiveOrders
  <1>5. Recorded /\ HoldsDiscount /\ HandReady
    BY <1>1, <1>2 DEF Recorded, HoldsDiscount, HandReady, At
  <1> QED
    BY <1>3, <1>4, <1>5 DEF CreationIInv

LEMMA CreationIStep == CreationIInv /\ [CreationNext]_creationVars => CreationIInv'
  <1> SUFFICES ASSUME CreationIInv, [CreationNext]_creationVars
               PROVE  CreationIInv'
    OBVIOUS
  <1>1. CASE CreationNext
    <2>1. CreationTypeOK /\ HandsExist
      BY DEF CreationIInv
    <2>2. CreationKept
      BY <1>1, <2>1, CreationKeptStep
    <2>3. /\ crowded' \in BOOLEAN /\ (~crowded' => ~crowded)
          /\ died' \in 0..MaxCreationDeaths /\ (died' = 0 => died = 0)
      BY <1>1, <2>1, CrowdingIsNoted
    <2>4. CreationTypeOK' /\ HandsExist'
      BY <2>2, <2>3 DEF CreationKept, CreationTypeOK
    <2>5. ASSUME ~crowded'
          PROVE  OneCreates' /\ OneActive' /\ \A s \in CreationSlots : NoneBeside(s)'
      BY <1>1, <2>1, <2>3, <2>5, UncrowdedStep DEF CreationIInv
    <2>6. ASSUME ~crowded', died' = 0
          PROVE  Recorded' /\ HoldsDiscount' /\ HandReady'
      BY <1>1, <2>1, <2>3, <2>6, WholeStep DEF CreationIInv
    <2> QED
      BY <2>4, <2>5, <2>6 DEF CreationIInv
  <1>2. CASE UNCHANGED creationVars
    BY <1>2 DEF creationVars, CreationIInv, CreationTypeOK, HandsExist, OneCreates, OneActive,
                NoneBeside, HasInHand, Superseding, Making, At, Handled, ActiveOrders,
                Recorded, HoldsDiscount, HandReady
  <1> QED
    BY <1>1, <1>2

(* The invariant of createOrder, whatever the carts, the requests in flight, *)
(* the orders made and the requests that die.                                *)
THEOREM CreationInductive == CreationSpec => []CreationIInv
  BY CreationIInit, CreationIStep, PTL DEF CreationSpec

(* The rows, the records and the requests are well formed. *)
THEOREM CreationTypeCorrect == CreationSpec => []CreationTypeOK
  <1>1. CreationIInv => CreationTypeOK
    BY DEF CreationIInv
  <1> QED
    BY <1>1, CreationInductive, PTL

(* Of requests that do not overlap, a quote makes one order that stands, the *)
(* customer has one active order, and an order can be paid only while it     *)
(* holds its discount.                                                       *)
THEOREM CreatesWholeOrders == CreationSpec => []CreatedWhole
  <1>1. CreationIInv => CreatedWhole
    <2> SUFFICES ASSUME CreationIInv
                 PROVE  CreatedWhole
      OBVIOUS
    <2>1. CreatedOnce
      BY DEF CreationIInv, CreatedOnce, OneActive, Recorded
    <2>2. PayableHoldsDiscount
      BY DEF CreationIInv, PayableHoldsDiscount, HoldsDiscount, At
    <2> QED
      BY <2>1, <2>2 DEF CreatedWhole
  <1> QED
    BY <1>1, CreationInductive, PTL

-----------------------------------------------------------------------------
(***************************************************************************)
(* Points: LoyaltyLedger.                                                  *)
(***************************************************************************)

(* Sets of naturals have a least element, and bounded ones a greatest. *)
LEMMA GreatestOfFinite ==
    ASSUME NEW S \in SUBSET Nat, S # {}, IsFiniteSet(S)
    PROVE  \E x \in S : \A y \in S : x >= y
  <1> DEFINE Above(n) == {y \in S : y > n}
             Counts == {Cardinality(Above(n)) : n \in S}
  <1>1. ASSUME NEW n \in S
        PROVE  IsFiniteSet(Above(n)) /\ Cardinality(Above(n)) \in Nat
    BY FS_Subset, FS_CardinalityType
  <1>2. Counts \in SUBSET Nat /\ Counts # {}
    BY <1>1
  <1>3. PICK c \in Counts : \A d \in Counts : c <= d
    <2> HIDE DEF Counts
    <2> QED
      BY <1>2, LeastOf
  <1>4. PICK x \in S : c = Cardinality(Above(x))
    OBVIOUS
  <1>5. ASSUME NEW y \in S
        PROVE  x >= y
    <2> SUFFICES ASSUME ~(x >= y)
                 PROVE  FALSE
      OBVIOUS
    <2>1. x \in Nat /\ y \in Nat /\ y > x
      OBVIOUS
    <2>2. y \in Above(x) /\ Above(y) \subseteq Above(x) /\ y \notin Above(y)
      <3>1. y \in Above(x)
        BY <2>1
      <3>2. y \notin Above(y)
        BY <2>1
      <3>3. \A z \in Above(y) : z \in S /\ z \in Nat /\ z > y
        OBVIOUS
      <3>4. \A z \in Nat : z > y => z > x
        BY <2>1
      <3>5. Above(y) \subseteq Above(x)
        BY <3>3, <3>4
      <3> QED
        BY <3>1, <3>2, <3>5
    <2>3. Cardinality(Above(y)) <= Cardinality(Above(x)) /\ Above(y) # Above(x)
      BY <1>1, <2>2, FS_Subset
    <2>4. Cardinality(Above(y)) # Cardinality(Above(x))
      BY <1>1, <2>2, <2>3, FS_Subset
    <2>5. Cardinality(Above(x)) <= Cardinality(Above(y))
      BY <1>3, <1>4
    <2>6. Cardinality(Above(x)) \in Nat /\ Cardinality(Above(y)) \in Nat
      BY <1>1
    <2> QED
      BY <2>3, <2>4, <2>5, <2>6
  <1> QED
    BY <1>5

(* The fold of Points is the function it recurs with. *)
First(s) == CHOOSE x \in s : TRUE

SumAt(tally, each, sums, s) ==
    IF s = {} THEN 0
    ELSE LET m == CHOOSE x \in s : TRUE
         IN  tally[m] * each[m] + sums[s \ {m}]

Summing(tally, each) ==
    CHOOSE sums : sums = [s \in SUBSET Mutations |-> SumAt(tally, each, sums, s)]

LEMMA PointsAreSum ==
    ASSUME NEW tally, NEW each
    PROVE  Points(tally, each) = Summing(tally, each)[Mutations]
  BY DEF Points, Summing, SumAt, MapThenSumSet, MapThenFoldSet

(* Among sets of mutations there is one with none below it. *)
LEMMA SmallestOf ==
    ASSUME NEW B, B \subseteq SUBSET Mutations, B # {}
    PROVE  \E s \in B : \A t \in B : ~(t \subseteq s /\ t # s)
  <1>1. B \subseteq FiniteSubsetsOf(Mutations)
    BY LoyaltyOK, FS_Subset DEF FiniteSubsetsOf
  <1>2. IsWellFoundedOn(StrictSubsetOrdering(Mutations), FiniteSubsetsOf(Mutations))
    BY FS_StrictSubsetOrderingWellFounded
  <1>3. PICK s \in B : \A t \in B : ~(<<t, s>> \in StrictSubsetOrdering(Mutations))
    BY <1>1, <1>2, WFMin
  <1> QED
    BY <1>3 DEF StrictSubsetOrdering

(* So a fact of sets of mutations holds of all if it holds of one whenever   *)
(* it holds of those below it. Here: what is left without the first one.     *)
LEMMA LessFirst ==
    ASSUME NEW s \in SUBSET Mutations, s # {}
    PROVE  /\ First(s) \in s /\ First(s) \in Mutations
           /\ s \ {First(s)} \in SUBSET Mutations
           /\ s \ {First(s)} \subseteq s /\ s \ {First(s)} # s
           /\ IsFiniteSet(s) /\ Cardinality(s) \in Nat \ {0}
           /\ Cardinality(s \ {First(s)}) = Cardinality(s) - 1
  <1>1. First(s) \in s
    BY DEF First
  <1>2. IsFiniteSet(s)
    BY LoyaltyOK, FS_Subset
  <1>3. Cardinality(s) \in Nat \ {0}
    BY <1>2, FS_CardinalityType, FS_EmptySet
  <1>4. Cardinality(s \ {First(s)}) = Cardinality(s) - 1
    BY <1>1, <1>2, FS_RemoveElement
  <1> QED
    BY <1>1, <1>2, <1>3, <1>4

(* The function exists: on ever larger sets. *)
UpTo(n) == {s \in SUBSET Mutations : Cardinality(s) <= n}
SumsUpTo(tally, each, n) == \E sums : sums = [s \in UpTo(n) |-> SumAt(tally, each, sums, s)]

LEMMA NextSums ==
    ASSUME NEW tally, NEW each, NEW n \in Nat, SumsUpTo(tally, each, n)
    PROVE  SumsUpTo(tally, each, n + 1)
  <1>1. PICK sums : sums = [s \in UpTo(n) |-> SumAt(tally, each, sums, s)]
    BY DEF SumsUpTo
  <1> DEFINE more == [s \in UpTo(n + 1) |-> SumAt(tally, each, sums, s)]
  <1>2. ASSUME NEW s \in UpTo(n + 1)
        PROVE  SumAt(tally, each, sums, s) = SumAt(tally, each, more, s)
    <2>1. CASE s = {}
      BY <2>1 DEF SumAt
    <2>2. CASE s # {}
      <3> DEFINE left == s \ {First(s)}
      <3>1. /\ left \in SUBSET Mutations
            /\ Cardinality(s) \in Nat \ {0} /\ Cardinality(left) = Cardinality(s) - 1
            /\ Cardinality(s) <= n + 1
        BY <2>2, LessFirst DEF UpTo
      <3> HIDE DEF left
      <3>2. Cardinality(left) <= n /\ Cardinality(left) <= n + 1
        BY <3>1
      <3>3. left \in UpTo(n) /\ left \in UpTo(n + 1)
        BY <3>1, <3>2 DEF UpTo
      <3>4. /\ more[left] = SumAt(tally, each, sums, left)
            /\ sums[left] = SumAt(tally, each, sums, left)
        BY <1>1, <3>3
      <3> QED
        BY <2>2, <3>4 DEF SumAt, First, left
    <2> QED
      BY <2>1, <2>2
  <1>3. more = [s \in UpTo(n + 1) |-> SumAt(tally, each, more, s)]
    BY <1>2
  <1> HIDE DEF more
  <1> QED
    BY <1>3 DEF SumsUpTo

LEMMA SummingExists ==
    ASSUME NEW tally, NEW each
    PROVE  Summing(tally, each) =
             [s \in SUBSET Mutations |-> SumAt(tally, each, Summing(tally, each), s)]
  <1>1. SumsUpTo(tally, each, 0)
    <2>1. UpTo(0) = {{}}
      <3>1. ASSUME NEW s \in SUBSET Mutations, Cardinality(s) <= 0
            PROVE  s = {}
        <4>1. s # {} => Cardinality(s) \in Nat \ {0}
          BY LessFirst
        <4> QED
          BY <3>1, <4>1
      <3>2. Cardinality({}) <= 0
        BY FS_EmptySet
      <3> QED
        BY <3>1, <3>2 DEF UpTo
    <2>2. [s \in {{}} |-> 0] = [s \in {{}} |-> SumAt(tally, each, [t \in {{}} |-> 0], s)]
      BY DEF SumAt
    <2> QED
      BY <2>1, <2>2 DEF SumsUpTo
  <1>2. ASSUME NEW n \in Nat
        PROVE  SumsUpTo(tally, each, n)
    <2> DEFINE Bad == {k \in Nat : ~SumsUpTo(tally, each, k)}
    <2>1. SUFFICES Bad = {}
      OBVIOUS
    <2>2. SUFFICES ASSUME Bad # {}
                   PROVE  FALSE
      OBVIOUS
    <2>3. PICK least \in Bad : \A k \in Bad : least <= k
      BY <2>2, LeastOf
    <2>4. least \in Nat /\ ~SumsUpTo(tally, each, least) /\ least # 0
      BY <1>1
    <2>5. least - 1 \in Nat /\ least = (least - 1) + 1 /\ ~(least <= least - 1)
      BY <2>4
    <2>6. SumsUpTo(tally, each, least - 1)
      BY <2>3, <2>5
    <2> QED
      BY <2>4, <2>5, <2>6, NextSums
  <1>3. Cardinality(Mutations) \in Nat /\ UpTo(Cardinality(Mutations)) = SUBSET Mutations
    BY LoyaltyOK, FS_CardinalityType, FS_Subset DEF UpTo
  <1>4. \E sums : sums = [s \in SUBSET Mutations |-> SumAt(tally, each, sums, s)]
    BY <1>2, <1>3 DEF SumsUpTo
  <1> QED
    BY <1>4 DEF Summing

LEMMA SummingAt ==
    ASSUME NEW tally, NEW each, NEW s \in SUBSET Mutations
    PROVE  /\ s = {} => Summing(tally, each)[s] = 0
           /\ s # {} => Summing(tally, each)[s]
                            = tally[First(s)] * each[First(s)]
                                + Summing(tally, each)[s \ {First(s)}]
  <1> DEFINE sums == Summing(tally, each)
  <1>1. sums = [t \in SUBSET Mutations |-> SumAt(tally, each, sums, t)]
    BY SummingExists
  <1> HIDE DEF sums
  <1>2. sums[s] = SumAt(tally, each, sums, s)
    BY <1>1
  <1>3. /\ s = {} => sums[s] = 0
        /\ s # {} => sums[s] = tally[First(s)] * each[First(s)] + sums[s \ {First(s)}]
    BY <1>2 DEF SumAt, First
  <1> QED
    BY <1>3 DEF sums

LEMMA ProductsOfInts ==
    /\ \A a, b \in Int : a * b \in Int
    /\ \A a, b \in Int : (a + 1) * b = a * b + b
    /\ \A b \in Int : 0 * b = 0
  OBVIOUS

SumsRecur(tally, each) ==
    \A s \in SUBSET Mutations :
        /\ s = {} => Summing(tally, each)[s] = 0
        /\ s # {} => Summing(tally, each)[s]
                         = tally[First(s)] * each[First(s)] + Summing(tally, each)[s \ {First(s)}]

LEMMA SummingRecurs == \A tally, each : SumsRecur(tally, each)
  BY SummingAt DEF SumsRecur

LEMMA SumsAreWhole ==
    ASSUME NEW tally \in [Mutations -> Nat], NEW each \in [Mutations -> Int]
    PROVE  \A s \in SUBSET Mutations : Summing(tally, each)[s] \in Int
  <1> DEFINE Bad == {s \in SUBSET Mutations : Summing(tally, each)[s] \notin Int}
  <1>1. SUFFICES ASSUME Bad # {}
                 PROVE  FALSE
    OBVIOUS
  <1>0. \E s \in Bad : \A t \in Bad : ~(t \subseteq s /\ t # s)
    <2>1. Bad \subseteq SUBSET Mutations
      OBVIOUS
    <2> HIDE DEF Bad
    <2> QED
      BY <1>1, <2>1, SmallestOf
  <1>2. PICK s \in Bad : \A t \in Bad : ~(t \subseteq s /\ t # s)
    BY <1>0
  <1>r. s \in SUBSET Mutations /\ SumsRecur(tally, each)
    BY SummingRecurs
  <1>3. s # {}
    <2>1. s = {} => Summing(tally, each)[s] = 0
      BY <1>r DEF SumsRecur
    <2> QED
      BY <2>1
  <1>4. Summing(tally, each)[s \ {First(s)}] \in Int
    BY <1>2, <1>3, LessFirst
  <1>5. tally[First(s)] * each[First(s)] \in Int
    <2>1. First(s) \in Mutations
      BY <1>3, <1>r, LessFirst
    <2>2. tally[First(s)] \in Int /\ each[First(s)] \in Int
      BY <2>1
    <2> QED
      BY <2>2, ProductsOfInts
  <1>6. Summing(tally, each)[s] = tally[First(s)] * each[First(s)]
                                    + Summing(tally, each)[s \ {First(s)}]
    BY <1>3, <1>r DEF SumsRecur
  <1>7. \A x, y \in Int : x + y \in Int
    OBVIOUS
  <1>8. Summing(tally, each)[s] \in Int
    BY <1>4, <1>5, <1>6, <1>7
  <1> QED
    BY <1>8

(* Nothing is worth nothing. *)
LEMMA SumsOfNone ==
    ASSUME NEW each \in [Mutations -> Int]
    PROVE  \A s \in SUBSET Mutations : Summing([m \in Mutations |-> 0], each)[s] = 0
  <1> DEFINE tally == [m \in Mutations |-> 0]
             Bad == {s \in SUBSET Mutations : Summing(tally, each)[s] # 0}
  <1>1. SUFFICES ASSUME Bad # {}
                 PROVE  FALSE
    OBVIOUS
  <1>0. \E s \in Bad : \A t \in Bad : ~(t \subseteq s /\ t # s)
    <2>1. Bad \subseteq SUBSET Mutations
      OBVIOUS
    <2> HIDE DEF Bad
    <2> QED
      BY <1>1, <2>1, SmallestOf
  <1>2. PICK s \in Bad : \A t \in Bad : ~(t \subseteq s /\ t # s)
    BY <1>0
  <1>r. s \in SUBSET Mutations /\ SumsRecur(tally, each)
    BY SummingRecurs
  <1>3. s # {}
    <2>1. s = {} => Summing(tally, each)[s] = 0
      BY <1>r DEF SumsRecur
    <2> QED
      BY <2>1
  <1>4. Summing(tally, each)[s \ {First(s)}] = 0
    BY <1>2, <1>3, LessFirst
  <1>5. tally[First(s)] * each[First(s)] = 0
    <2>1. tally[First(s)] = 0 /\ each[First(s)] \in Int
      BY <1>3, LessFirst
    <2> QED
      BY <2>1, ProductsOfInts
  <1>6. Summing(tally, each)[s] = tally[First(s)] * each[First(s)]
                                    + Summing(tally, each)[s \ {First(s)}]
    BY <1>3, <1>r DEF SumsRecur
  <1>7. Summing(tally, each)[s] = 0
    BY <1>4, <1>5, <1>6
  <1> QED
    BY <1>7

WithOne(tally, m) == [tally EXCEPT ![m] = @ + 1]

(* One entry more is worth what it brings. *)
LEMMA SumsWithOne ==
    ASSUME NEW tally \in [Mutations -> Nat], NEW each \in [Mutations -> Int], NEW m \in Mutations
    PROVE  \A s \in SUBSET Mutations :
              Summing(WithOne(tally, m), each)[s]
                  = Summing(tally, each)[s] + (IF m \in s THEN each[m] ELSE 0)
  <1> DEFINE more == WithOne(tally, m)
             Extra(s) == IF m \in s THEN each[m] ELSE 0
             Bad == {s \in SUBSET Mutations :
                        Summing(more, each)[s] # Summing(tally, each)[s] + Extra(s)}
  <1>1. SUFFICES ASSUME Bad # {}
                 PROVE  FALSE
    OBVIOUS
  <1>0. \E s \in Bad : \A t \in Bad : ~(t \subseteq s /\ t # s)
    <2>1. Bad \subseteq SUBSET Mutations
      OBVIOUS
    <2> HIDE DEF Bad
    <2> QED
      BY <1>1, <2>1, SmallestOf
  <1>2. PICK s \in Bad : \A t \in Bad : ~(t \subseteq s /\ t # s)
    BY <1>0
  <1>r. s \in SUBSET Mutations /\ SumsRecur(tally, each) /\ SumsRecur(more, each)
    BY SummingRecurs
  <1>3. s # {}
    <2>1. s = {} => Summing(more, each)[s] = 0 /\ Summing(tally, each)[s] = 0 /\ Extra(s) = 0
      BY <1>r DEF SumsRecur
    <2>2. 0 = 0 + 0
      OBVIOUS
    <2> QED
      BY <2>1, <2>2
  <1> DEFINE x == First(s)
             left == s \ {x}
  <1>4. /\ x \in s /\ x \in Mutations /\ left \in SUBSET Mutations
        /\ Summing(more, each)[left] = Summing(tally, each)[left] + Extra(left)
    BY <1>2, <1>3, LessFirst
  <1>5. /\ Summing(more, each)[s] = more[x] * each[x] + Summing(more, each)[left]
        /\ Summing(tally, each)[s] = tally[x] * each[x] + Summing(tally, each)[left]
    BY <1>3, <1>r DEF SumsRecur
  <1>6. more[x] * each[x] = tally[x] * each[x] + (IF x = m THEN each[m] ELSE 0)
    <2>1. /\ more[x] = (IF x = m THEN tally[x] + 1 ELSE tally[x])
          /\ tally[x] \in Int /\ each[x] \in Int
      BY <1>4 DEF WithOne
    <2>2. tally[x] * each[x] \in Int
      BY <2>1, ProductsOfInts
    <2>3. (tally[x] + 1) * each[x] = tally[x] * each[x] + each[x]
      BY <2>1, ProductsOfInts
    <2> DEFINE product == tally[x] * each[x]
    <2>4. product + 0 = product
      <3> HIDE DEF product
      <3>1. product \in Int
        BY <2>2 DEF product
      <3> QED
        BY <3>1
    <2> QED
      BY <2>1, <2>3, <2>4
  <1>7. Extra(s) = (IF x = m THEN each[m] ELSE 0) + Extra(left)
    <2>1. each[m] \in Int
      OBVIOUS
    <2>2. each[m] = each[m] + 0 /\ each[m] = 0 + each[m] /\ 0 = 0 + 0
      BY <2>1
    <2> QED
      BY <1>4, <2>2
  <1>8. /\ Summing(tally, each)[left] \in Int /\ tally[x] * each[x] \in Int
        /\ Extra(left) \in Int /\ (IF x = m THEN each[m] ELSE 0) \in Int
    <2>1. each[m] \in Int /\ tally[x] \in Int /\ each[x] \in Int
      BY <1>4
    <2> QED
      BY <1>4, <2>1, SumsAreWhole, ProductsOfInts
  <1>9. \A a, b, c, d \in Int : (a + b) + (c + d) = (a + c) + (b + d)
    OBVIOUS
  <1>10. Summing(more, each)[s] = Summing(tally, each)[s] + Extra(s)
    <2>1. Summing(more, each)[s]
              = (tally[x] * each[x] + (IF x = m THEN each[m] ELSE 0))
                  + (Summing(tally, each)[left] + Extra(left))
      BY <1>4, <1>5, <1>6
    <2>2. Summing(tally, each)[s] + Extra(s)
              = (tally[x] * each[x] + Summing(tally, each)[left])
                  + ((IF x = m THEN each[m] ELSE 0) + Extra(left))
      BY <1>5, <1>7
    <2> HIDE DEF x, left, Extra, more
    <2> QED
      BY <1>8, <1>9, <2>1, <2>2
  <1> QED
    BY <1>10

-----------------------------------------------------------------------------
LEMMA DeltasAreWhole ==
    ASSUME NEW m \in Mutations
    PROVE  DeltaPoints(m) \in Int /\ LifetimeDelta(m) \in Int
  <1>1. m.amount \in Int
    BY LoyaltyOK
  <1>2. m.amount \div 100 \in Int /\ -m.amount \in Int
    BY <1>1
  <1> QED
    BY <1>1, <1>2 DEF DeltaPoints, LifetimeDelta, EarnPoints

EachDelta == [m \in Mutations |-> DeltaPoints(m)]
EachLifetime == [m \in Mutations |-> LifetimeDelta(m)]

LEMMA WorthIsPoints ==
    ASSUME NEW tally
    PROVE  Worth(tally) = [available |-> Points(tally, EachDelta),
                           lifetime |-> Points(tally, EachLifetime)]
  BY DEF Worth, EachDelta, EachLifetime

LEMMA DeltaFunctions ==
    EachDelta \in [Mutations -> Int] /\ EachLifetime \in [Mutations -> Int]
  BY DeltasAreWhole DEF EachDelta, EachLifetime

LEMMA WorthIsWhole ==
    ASSUME NEW tally \in [Mutations -> Nat]
    PROVE  Worth(tally) \in Balances
  <1>1. Points(tally, EachDelta) \in Int /\ Points(tally, EachLifetime) \in Int
    BY DeltaFunctions, SumsAreWhole, PointsAreSum
  <1> QED
    BY <1>1, WorthIsPoints DEF Balances

LEMMA WorthOfNone == Worth([m \in Mutations |-> 0]) = NoPoints
  <1> DEFINE none == [m \in Mutations |-> 0]
  <1>1. Points(none, EachDelta) = 0 /\ Points(none, EachLifetime) = 0
    BY DeltaFunctions, SumsOfNone, PointsAreSum
  <1> HIDE DEF none
  <1>2. Worth(none) = NoPoints
    BY <1>1, WorthIsPoints DEF NoPoints
  <1> QED
    BY <1>2 DEF none

LEMMA WorthWithOne ==
    ASSUME NEW tally \in [Mutations -> Nat], NEW m \in Mutations
    PROVE  /\ WithOne(tally, m) \in [Mutations -> Nat]
           /\ Worth(WithOne(tally, m)) = After(Worth(tally), m)
  <1> DEFINE more == WithOne(tally, m)
  <1>1. more \in [Mutations -> Nat]
    BY DEF WithOne
  <1>2. Points(more, EachDelta) = Points(tally, EachDelta) + EachDelta[m]
    BY DeltaFunctions, SumsWithOne, PointsAreSum
  <1>3. Points(more, EachLifetime) = Points(tally, EachLifetime) + EachLifetime[m]
    BY DeltaFunctions, SumsWithOne, PointsAreSum
  <1>4. EachDelta[m] = DeltaPoints(m) /\ EachLifetime[m] = LifetimeDelta(m)
    BY DEF EachDelta, EachLifetime
  <1> HIDE DEF more
  <1>5. Worth(more) = After(Worth(tally), m)
    BY <1>2, <1>3, <1>4, WorthIsPoints DEF After
  <1> QED
    BY <1>1, <1>5 DEF more

-----------------------------------------------------------------------------
Journalled == [m \in Mutations |-> IF m \in records THEN 1 ELSE 0]
KeyIsFree(s) == \A m \in records : m.key # applying[s].mutation.key

(* Until requests overlap or die between their writes: how far the one that  *)
(* is served has brought the ledger, the balance and the records.            *)
OneApplies ==
    \A s, t \in LoyaltySlots :
        applying[s].step # "idle" /\ applying[t].step # "idle" => s = t

LedgerSays(s) ==
    /\ applying[s].step \in {"look", "append", "save"} => applying[s].read = balance
    /\ applying[s].step \in {"append", "save", "record"} => KeyIsFree(s)
    /\ applying[s].step \in {"save", "record"} =>
          entries = WithOne(Journalled, applying[s].mutation)
    /\ applying[s].step = "save" => balance = Worth(Journalled)
    /\ applying[s].step = "record" => balance = Worth(entries)

LedgerRests ==
    (\A s \in LoyaltySlots : applying[s].step \notin {"save", "record"}) =>
        balance = Worth(entries) /\ entries = Journalled

(* Even when they do: what was read or saved is the worth of some entries,   *)
(* and of others than the one that is added to it.                           *)
PartOf(points) ==
    \E part \in [Mutations -> Nat] :
        /\ \A m \in Mutations : part[m] <= entries[m]
        /\ points = Worth(part)

PartBefore(points, mutation) ==
    \E part \in [Mutations -> Nat] :
        /\ \A m \in Mutations : part[m] <= entries[m]
        /\ part[mutation] + 1 <= entries[mutation]
        /\ points = Worth(part)

Backed(s) ==
    /\ PartOf(applying[s].read)
    /\ applying[s].step = "save" => PartBefore(applying[s].read, applying[s].mutation)
    /\ applying[s].step \in {"append", "save"} =>
          After(applying[s].read, applying[s].mutation).available >= 0

LedgerIInv ==
    /\ LoyaltyTypeOK
    /\ balance.available >= 0 /\ PartOf(balance)
    /\ \A s \in LoyaltySlots : Backed(s)
    /\ ~disturbed =>
          /\ OneApplies /\ LedgerRests
          /\ \A s \in LoyaltySlots : LedgerSays(s)

-----------------------------------------------------------------------------
LEMMA LoyaltyRequestShapes ==
    /\ NoPoints \in Balances /\ Unapplied \in LoyaltyRequests
    /\ Unapplied.step = "idle" /\ Unapplied.read = NoPoints
    /\ \A r \in LoyaltyRequests :
          /\ r.step \in {"idle", "look", "append", "save", "record"}
          /\ r.mutation \in Mutations /\ r.read \in Balances
          /\ \A step \in {"look", "append", "save", "record"} :
                /\ [r EXCEPT !.step = step] \in LoyaltyRequests
                /\ [r EXCEPT !.step = step].step = step
                /\ [r EXCEPT !.step = step].mutation = r.mutation
                /\ [r EXCEPT !.step = step].read = r.read
    /\ \A m \in Mutations, b \in Balances :
          [step |-> "look", mutation |-> m, read |-> b] \in LoyaltyRequests
    /\ \A b \in Balances : b.available \in Int /\ b.lifetime \in Int
  <1>1. NoPoints \in Balances
    BY DEF NoPoints, Balances
  <1>2. (CHOOSE m \in Mutations : TRUE) \in Mutations
    BY LoyaltyOK
  <1>3. Unapplied \in LoyaltyRequests /\ Unapplied.step = "idle" /\ Unapplied.read = NoPoints
    BY <1>1, <1>2 DEF Unapplied, LoyaltyRequests
  <1>4. \A b \in Balances : b.available \in Int /\ b.lifetime \in Int
    BY DEF Balances
  <1>5. \A m \in Mutations, b \in Balances :
            [step |-> "look", mutation |-> m, read |-> b] \in LoyaltyRequests
    BY DEF LoyaltyRequests
  <1>6. \A r \in LoyaltyRequests :
          /\ r.step \in {"idle", "look", "append", "save", "record"}
          /\ r.mutation \in Mutations /\ r.read \in Balances
          /\ \A step \in {"look", "append", "save", "record"} :
                /\ [r EXCEPT !.step = step] \in LoyaltyRequests
                /\ [r EXCEPT !.step = step].step = step
                /\ [r EXCEPT !.step = step].mutation = r.mutation
                /\ [r EXCEPT !.step = step].read = r.read
    BY DEF LoyaltyRequests
  <1> QED
    BY <1>1, <1>3, <1>4, <1>5, <1>6

LEMMA AfterIsBalance ==
    ASSUME NEW b \in Balances, NEW m \in Mutations
    PROVE  After(b, m) \in Balances
  <1>1. b.available \in Int /\ b.lifetime \in Int
    BY LoyaltyRequestShapes
  <1>2. DeltaPoints(m) \in Int /\ LifetimeDelta(m) \in Int
    BY DeltasAreWhole
  <1>3. b.available + DeltaPoints(m) \in Int /\ b.lifetime + LifetimeDelta(m) \in Int
    BY <1>1, <1>2
  <1> QED
    BY <1>3 DEF After, Balances

(* What a step makes of the request it serves. *)
Serves(s, step, mutation, read) ==
    /\ applying' \in [LoyaltySlots -> LoyaltyRequests]
    /\ applying'[s].step = step
    /\ applying'[s].mutation = mutation /\ applying'[s].read = read
    /\ \A t \in LoyaltySlots \ {s} : applying'[t] = applying[t]

Rests(s) ==
    /\ applying' \in [LoyaltySlots -> LoyaltyRequests]
    /\ applying'[s].step = "idle" /\ applying'[s].read = NoPoints
    /\ \A t \in LoyaltySlots \ {s} : applying'[t] = applying[t]

LEMMA ProceedEffect ==
    ASSUME LoyaltyTypeOK, NEW s \in LoyaltySlots,
           NEW step \in {"look", "append", "save", "record"}, Proceed(s, step)
    PROVE  Serves(s, step, applying[s].mutation, applying[s].read)
  <1>1. applying[s] \in LoyaltyRequests /\ applying \in [LoyaltySlots -> LoyaltyRequests]
    BY DEF LoyaltyTypeOK
  <1>2. applying' = [applying EXCEPT ![s] = [applying[s] EXCEPT !.step = step]]
    BY DEF Proceed
  <1> DEFINE becomes == [applying[s] EXCEPT !.step = step]
  <1>3. /\ becomes \in LoyaltyRequests /\ becomes.step = step
        /\ becomes.mutation = applying[s].mutation /\ becomes.read = applying[s].read
    <2> DEFINE r == applying[s]
    <2>1. r \in LoyaltyRequests
      BY <1>1
    <2> HIDE DEF r
    <2>2. /\ [r EXCEPT !.step = step] \in LoyaltyRequests
          /\ [r EXCEPT !.step = step].step = step
          /\ [r EXCEPT !.step = step].mutation = r.mutation
          /\ [r EXCEPT !.step = step].read = r.read
      BY <2>1 DEF LoyaltyRequests
    <2> QED
      BY <2>2 DEF r
  <1> HIDE DEF becomes
  <1>4. applying' = [applying EXCEPT ![s] = becomes]
    BY <1>2 DEF becomes
  <1> QED
    BY <1>1, <1>3, <1>4 DEF Serves

LEMMA AnswerEffect ==
    ASSUME LoyaltyTypeOK, NEW s \in LoyaltySlots, Answer(s)
    PROVE  Rests(s)
  BY LoyaltyRequestShapes DEF LoyaltyTypeOK, Answer, Rests

LEMMA ReadEffect ==
    ASSUME LoyaltyTypeOK, NEW s \in LoyaltySlots, NEW m \in Mutations, ReadBalance(s, m)
    PROVE  Serves(s, "look", m, balance)
  <1> DEFINE becomes == [step |-> "look", mutation |-> m, read |-> balance]
  <1>1. becomes \in LoyaltyRequests
    BY LoyaltyRequestShapes DEF LoyaltyTypeOK
  <1>2. becomes.step = "look" /\ becomes.mutation = m /\ becomes.read = balance
    OBVIOUS
  <1>3. applying' = [applying EXCEPT ![s] = becomes]
    BY DEF ReadBalance
  <1>4. applying \in [LoyaltySlots -> LoyaltyRequests]
    BY DEF LoyaltyTypeOK
  <1> HIDE DEF becomes
  <1> QED
    BY <1>1, <1>2, <1>3, <1>4 DEF Serves

LEMMA DisturbanceIsNoted ==
    ASSUME LoyaltyTypeOK, LoyaltyNext
    PROVE  disturbed' \in BOOLEAN /\ (~disturbed' => ~disturbed)
  <1>1. \/ UNCHANGED disturbed
        \/ \E P \in BOOLEAN : disturbed' = (disturbed \/ P)
    BY DEF LoyaltyNext, LoyaltyStep, ReadBalance, LookUp, AppendEntry, SaveBalance, SaveRecord,
           LoyaltyDies
  <1> QED
    BY <1>1 DEF LoyaltyTypeOK

LEMMA LoyaltyOverlapIsNoted ==
    ASSUME LoyaltyTypeOK, NEW s \in LoyaltySlots, NEW m \in Mutations, ReadBalance(s, m),
           ~disturbed'
    PROVE  \A t \in LoyaltySlots : applying[t].step = "idle"
  BY DEF LoyaltyTypeOK, ReadBalance

LEMMA LedgerTypeStep ==
    ASSUME LoyaltyTypeOK, LoyaltyNext
    PROVE  LoyaltyTypeOK'
  <1>0. disturbed' \in BOOLEAN
    BY DisturbanceIsNoted
  <1>1. PICK s \in LoyaltySlots :
            LoyaltyStep(s) \/ LoyaltyDies(s) \/ \E m \in Mutations : ReadBalance(s, m)
    BY DEF LoyaltyNext
  <1>2. /\ applying[s].mutation \in Mutations /\ applying[s].read \in Balances
        /\ entries \in [Mutations -> Nat] /\ balance \in Balances /\ records \subseteq Mutations
        /\ deaths \in 0..MaxLoyaltyDeaths
    BY LoyaltyRequestShapes DEF LoyaltyTypeOK
  <1>3. applying' \in [LoyaltySlots -> LoyaltyRequests]
    BY <1>1, ReadEffect, ProceedEffect, AnswerEffect
       DEF LoyaltyStep, LookUp, AppendEntry, SaveBalance, SaveRecord, LoyaltyDies, Serves, Rests
  <1>4. entries' \in [Mutations -> Nat]
    BY <1>1, <1>2 DEF LoyaltyStep, LookUp, AppendEntry, SaveBalance, SaveRecord, LoyaltyDies,
                      ReadBalance
  <1>5. balance' \in Balances
    BY <1>1, <1>2, AfterIsBalance DEF LoyaltyStep, LookUp, AppendEntry, SaveBalance, SaveRecord,
                                      LoyaltyDies, ReadBalance
  <1>6. records' \subseteq Mutations
    BY <1>1, <1>2 DEF LoyaltyStep, LookUp, AppendEntry, SaveBalance, SaveRecord, LoyaltyDies,
                      ReadBalance
  <1>7. deaths' \in 0..MaxLoyaltyDeaths
    BY <1>1, <1>2, LoyaltyOK DEF LoyaltyStep, LookUp, AppendEntry, SaveBalance, SaveRecord,
                                 LoyaltyDies, ReadBalance
  <1> QED
    BY <1>0, <1>3, <1>4, <1>5, <1>6, <1>7 DEF LoyaltyTypeOK

-----------------------------------------------------------------------------
(* No entry is ever taken back, so a part of the ledger stays a part. *)
LEMMA PartsStay ==
    ASSUME LoyaltyTypeOK, LoyaltyTypeOK', \A m \in Mutations : entries[m] <= entries'[m]
    PROVE  /\ \A points : PartOf(points) => PartOf(points)'
           /\ \A points : \A m \in Mutations : PartBefore(points, m) => PartBefore(points, m)'
  <1>1. ASSUME NEW part \in [Mutations -> Nat], NEW m \in Mutations
        PROVE  /\ part[m] <= entries[m] => part[m] <= entries'[m]
               /\ part[m] + 1 <= entries[m] => part[m] + 1 <= entries'[m]
    <2>1. part[m] \in Nat /\ entries[m] \in Nat /\ entries'[m] \in Nat /\ entries[m] <= entries'[m]
      BY DEF LoyaltyTypeOK
    <2>2. \A a, b, c \in Nat : a <= b /\ b <= c => a <= c
      OBVIOUS
    <2>3. \A a, b, c \in Nat : a + 1 <= b /\ b <= c => a + 1 <= c
      OBVIOUS
    <2> QED
      BY <2>1, <2>2, <2>3
  <1>2. \A points : PartOf(points) => PartOf(points)'
    BY <1>1 DEF PartOf
  <1>3. \A points : \A m \in Mutations : PartBefore(points, m) => PartBefore(points, m)'
    BY <1>1 DEF PartBefore
  <1> QED
    BY <1>2, <1>3

LEMMA EntryComesAfter ==
    ASSUME LoyaltyTypeOK, NEW m \in Mutations, entries' = WithOne(entries, m), NEW points,
           PartOf(points)
    PROVE  PartBefore(points, m)'
  <1>1. PICK part \in [Mutations -> Nat] :
            (\A x \in Mutations : part[x] <= entries[x]) /\ points = Worth(part)
    BY DEF PartOf
  <1>2. /\ \A x \in Mutations : entries[x] \in Nat /\ part[x] \in Nat
        /\ \A x \in Mutations : entries'[x] = IF x = m THEN entries[x] + 1 ELSE entries[x]
    BY DEF LoyaltyTypeOK, WithOne
  <1>3. \A a, b \in Nat : a <= b => a <= b + 1 /\ a + 1 <= b + 1
    OBVIOUS
  <1>4. (\A x \in Mutations : part[x] <= entries'[x]) /\ part[m] + 1 <= entries'[m]
    BY <1>1, <1>2, <1>3
  <1> QED
    BY <1>1, <1>4 DEF PartBefore

LEMMA PartWithMutation ==
    ASSUME NEW points, NEW m \in Mutations, PartBefore(points, m)
    PROVE  PartOf(After(points, m))
  <1>1. PICK part \in [Mutations -> Nat] :
            /\ \A x \in Mutations : part[x] <= entries[x]
            /\ part[m] + 1 <= entries[m]
            /\ points = Worth(part)
    BY DEF PartBefore
  <1> DEFINE more == WithOne(part, m)
  <1>2. more \in [Mutations -> Nat] /\ Worth(more) = After(points, m)
    BY <1>1, WorthWithOne
  <1>3. \A x \in Mutations : more[x] <= entries[x]
    BY <1>1 DEF WithOne
  <1> HIDE DEF more
  <1> QED
    BY <1>2, <1>3 DEF PartOf

EverythingBacked ==
    /\ balance.available >= 0 /\ PartOf(balance)
    /\ \A s \in LoyaltySlots : Backed(s)

LEMMA NothingIsPart ==
    ASSUME LoyaltyTypeOK
    PROVE  PartOf(NoPoints)
  <1> DEFINE none == [m \in Mutations |-> 0]
  <1>1. none \in [Mutations -> Nat] /\ \A m \in Mutations : none[m] <= entries[m]
    BY DEF LoyaltyTypeOK
  <1>2. Worth(none) = NoPoints
    BY WorthOfNone
  <1> HIDE DEF none
  <1> QED
    BY <1>1, <1>2 DEF PartOf

(* The requests that do not move stay backed. *)
LEMMA OthersStayBacked ==
    ASSUME LoyaltyTypeOK, LoyaltyTypeOK', EverythingBacked, NEW s \in LoyaltySlots,
           \A m \in Mutations : entries[m] <= entries'[m],
           \A t \in LoyaltySlots \ {s} : applying'[t] = applying[t]
    PROVE  \A t \in LoyaltySlots \ {s} : Backed(t)'
  <1> SUFFICES ASSUME NEW t \in LoyaltySlots \ {s}
               PROVE  Backed(t)'
    OBVIOUS
  <1>1. Backed(t) /\ applying[t].mutation \in Mutations
    BY LoyaltyRequestShapes DEF EverythingBacked, LoyaltyTypeOK
  <1>2. applying'[t] = applying[t]
    OBVIOUS
  <1>3. PartOf(applying[t].read)'
    <2>1. PICK points : points = applying[t].read
      OBVIOUS
    <2>2. PartOf(points)'
      BY <1>1, <2>1, PartsStay DEF Backed
    <2> QED
      BY <1>2, <2>1, <2>2 DEF PartOf
  <1>4. PartBefore(applying[t].read, applying[t].mutation)
            => PartBefore(applying[t].read, applying[t].mutation)'
    <2>1. PICK points : points = applying[t].read
      OBVIOUS
    <2>2. PICK m \in Mutations : m = applying[t].mutation
      BY <1>1
    <2>3. PartBefore(points, m) => PartBefore(points, m)'
      BY PartsStay
    <2> QED
      BY <1>2, <2>1, <2>2, <2>3 DEF PartBefore
  <1>5. applying'[t].step = "save" => PartBefore(applying[t].read, applying[t].mutation)'
    BY <1>1, <1>2, <1>4 DEF Backed
  <1>6. After(applying'[t].read, applying'[t].mutation)
          = After(applying[t].read, applying[t].mutation)
    BY <1>2
  <1> QED
    BY <1>1, <1>2, <1>3, <1>5, <1>6 DEF Backed

LEMMA BackedMoves ==
    ASSUME LoyaltyTypeOK, LoyaltyTypeOK', EverythingBacked, NEW s \in LoyaltySlots,
           \A m \in Mutations : entries[m] <= entries'[m],
           \A t \in LoyaltySlots \ {s} : applying'[t] = applying[t],
           UNCHANGED balance, Backed(s)'
    PROVE  EverythingBacked'
  <1>1. PartOf(balance)'
    <2>1. PICK points : points = balance
      OBVIOUS
    <2>2. PartOf(points)'
      BY <2>1, PartsStay DEF EverythingBacked
    <2> QED
      BY <2>1, <2>2 DEF PartOf
  <1>2. balance'.available >= 0
    BY DEF EverythingBacked
  <1>3. \A t \in LoyaltySlots : Backed(t)'
    BY OthersStayBacked
  <1> QED
    BY <1>1, <1>2, <1>3 DEF EverythingBacked

LEMMA BackedStep ==
    ASSUME LoyaltyTypeOK, EverythingBacked, LoyaltyNext
    PROVE  EverythingBacked'
  <1>0. LoyaltyTypeOK'
    BY LedgerTypeStep
  <1>1. /\ \A m \in Mutations : entries[m] \in Nat /\ entries[m] <= entries[m]
        /\ \A s \in LoyaltySlots : /\ applying[s].mutation \in Mutations
                                   /\ applying[s].read \in Balances /\ Backed(s)
    <2>1. \A m \in Mutations : entries[m] \in Nat
      BY DEF LoyaltyTypeOK
    <2>2. \A m \in Mutations : entries[m] <= entries[m]
      BY <2>1
    <2>3. \A s \in LoyaltySlots : applying[s] \in LoyaltyRequests /\ Backed(s)
      BY DEF LoyaltyTypeOK, EverythingBacked
    <2> QED
      BY <2>1, <2>2, <2>3, LoyaltyRequestShapes
  <1>2. ASSUME NEW s \in LoyaltySlots, NEW m \in Mutations, ReadBalance(s, m)
        PROVE  EverythingBacked'
    <2>1. Serves(s, "look", m, balance) /\ UNCHANGED <<entries, balance>>
      BY <1>2, ReadEffect DEF ReadBalance
    <2>2. PartOf(applying[s].read)'
      BY <2>1 DEF EverythingBacked, PartOf, Serves
    <2>3. Backed(s)'
      BY <2>1, <2>2 DEF Backed, Serves
    <2> QED
      BY <1>0, <1>1, <2>1, <2>3, BackedMoves DEF Serves
  <1>3. ASSUME NEW s \in LoyaltySlots, Rests(s), UNCHANGED <<entries, balance>>
        PROVE  EverythingBacked'
    <2>1. PartOf(applying[s].read)'
      BY <1>3, NothingIsPart DEF PartOf, Rests
    <2>2. Backed(s)'
      BY <1>3, <2>1 DEF Backed, Rests
    <2> QED
      BY <1>0, <1>1, <1>3, <2>2, BackedMoves DEF Rests
  <1>4. ASSUME NEW s \in LoyaltySlots, LookUp(s)
        PROVE  EverythingBacked'
    <2>1. UNCHANGED <<entries, balance>> /\ applying[s].step = "look"
      BY <1>4 DEF LookUp
    <2>2. CASE Answer(s)
      BY <1>3, <2>1, <2>2, AnswerEffect
    <2>3. CASE ~Answer(s)
      <3>1. /\ Proceed(s, "append")
            /\ ~(After(applying[s].read, applying[s].mutation).available < 0)
        BY <1>4, <2>3 DEF LookUp
      <3>2. Serves(s, "append", applying[s].mutation, applying[s].read)
        BY <3>1, ProceedEffect
      <3>3. After(applying[s].read, applying[s].mutation).available >= 0
        <4>1. After(applying[s].read, applying[s].mutation).available \in Int
          BY <1>1, AfterIsBalance, LoyaltyRequestShapes
        <4> QED
          BY <3>1, <4>1
      <3>4. PartOf(applying[s].read)'
        BY <1>1, <2>1, <3>2 DEF Backed, PartOf, Serves
      <3>5. Backed(s)'
        BY <3>2, <3>3, <3>4 DEF Backed, Serves
      <3> QED
        BY <1>0, <1>1, <2>1, <3>2, <3>5, BackedMoves DEF Serves
    <2> QED
      BY <2>2, <2>3
  <1>5. ASSUME NEW s \in LoyaltySlots, AppendEntry(s)
        PROVE  EverythingBacked'
    <2>1. PICK m \in Mutations : m = applying[s].mutation
      BY <1>1
    <2>2. PICK points : points = applying[s].read
      OBVIOUS
    <2>3. /\ UNCHANGED balance /\ applying[s].step = "append"
          /\ entries' = WithOne(entries, m) /\ Serves(s, "save", m, points)
      BY <1>5, <2>1, <2>2, ProceedEffect DEF AppendEntry, WithOne
    <2>4. \A x \in Mutations : entries[x] <= entries'[x]
      BY <1>1, <2>3 DEF WithOne, LoyaltyTypeOK
    <2>5. PartOf(points) /\ After(points, m).available >= 0
      BY <1>1, <2>1, <2>2, <2>3 DEF Backed
    <2>6. PartBefore(points, m)' /\ PartOf(points)'
      BY <1>0, <2>3, <2>4, <2>5, EntryComesAfter, PartsStay
    <2>7. PartOf(applying[s].read)' /\ PartBefore(applying[s].read, applying[s].mutation)'
      BY <2>3, <2>6 DEF Serves, PartOf, PartBefore
    <2>8. Backed(s)'
      BY <2>3, <2>5, <2>7 DEF Serves, Backed
    <2> QED
      BY <1>0, <2>3, <2>4, <2>8, BackedMoves DEF Serves
  <1>6. ASSUME NEW s \in LoyaltySlots, SaveBalance(s)
        PROVE  EverythingBacked'
    <2>1. PICK m \in Mutations : m = applying[s].mutation
      BY <1>1
    <2>2. PICK points : points = applying[s].read
      OBVIOUS
    <2>3. /\ UNCHANGED entries /\ applying[s].step = "save"
          /\ balance' = After(points, m) /\ Serves(s, "record", m, points)
      BY <1>6, <2>1, <2>2, ProceedEffect DEF SaveBalance
    <2>4. PartOf(After(points, m)) /\ PartOf(points) /\ After(points, m).available >= 0
      BY <1>1, <2>1, <2>2, <2>3, PartWithMutation DEF Backed
    <2>5. PartOf(balance)' /\ PartOf(applying[s].read)'
      BY <2>3, <2>4 DEF Serves, PartOf
    <2>6. Backed(s)'
      BY <2>3, <2>5 DEF Serves, Backed
    <2>7. \A t \in LoyaltySlots \ {s} : Backed(t)'
      BY <1>0, <1>1, <2>3, OthersStayBacked DEF Serves
    <2> QED
      BY <2>3, <2>4, <2>5, <2>6, <2>7 DEF EverythingBacked
  <1>7. ASSUME NEW s \in LoyaltySlots, SaveRecord(s) \/ LoyaltyDies(s)
        PROVE  EverythingBacked'
    <2>1. Answer(s) /\ UNCHANGED <<entries, balance>>
      BY <1>7 DEF SaveRecord, LoyaltyDies
    <2> QED
      BY <1>3, <2>1, AnswerEffect
  <1> QED
    BY <1>2, <1>4, <1>5, <1>6, <1>7 DEF LoyaltyNext, LoyaltyStep

-----------------------------------------------------------------------------
(* What holds until requests overlap, or die between their writes. *)
OneServed ==
    /\ OneApplies /\ LedgerRests
    /\ \A s \in LoyaltySlots : LedgerSays(s)

LEMMA OthersAreIdle ==
    ASSUME OneApplies, NEW s \in LoyaltySlots, applying[s].step # "idle"
    PROVE  \A t \in LoyaltySlots \ {s} : applying[t].step = "idle"
  BY DEF OneApplies

(* One request moves while the others are idle: what is left to show is what *)
(* the ledger says of it.                                                    *)
LEMMA OneServedFrom ==
    ASSUME NEW s \in LoyaltySlots,
           \A t \in LoyaltySlots \ {s} : applying[t].step = "idle" /\ applying'[t] = applying[t],
           LedgerSays(s)',
           applying'[s].step \notin {"save", "record"} =>
              balance' = Worth(entries') /\ entries' = Journalled'
    PROVE  OneServed'
  <1>1. OneApplies'
    BY DEF OneApplies
  <1>2. LedgerRests'
    <2>1. Worth(entries)' = Worth(entries')
      OBVIOUS
    <2> QED
      BY <2>1 DEF LedgerRests
  <1>3. \A t \in LoyaltySlots \ {s} : LedgerSays(t)'
    BY DEF LedgerSays
  <1> QED
    BY <1>1, <1>2, <1>3 DEF OneServed

LEMMA OneServedStep ==
    ASSUME LoyaltyTypeOK, LoyaltyNext, OneServed, ~disturbed'
    PROVE  OneServed'
  <1>0. /\ OneApplies /\ LedgerRests /\ \A s \in LoyaltySlots : LedgerSays(s)
        /\ Journalled \in [Mutations -> Nat] /\ entries \in [Mutations -> Nat]
        /\ \A s \in LoyaltySlots : applying[s].mutation \in Mutations
    BY LoyaltyRequestShapes DEF OneServed, Journalled, LoyaltyTypeOK
  <1>1. ASSUME NEW s \in LoyaltySlots, applying[s].step \notin {"idle", "save", "record"}
        PROVE  balance = Worth(entries) /\ entries = Journalled
    <2>1. \A t \in LoyaltySlots : applying[t].step \notin {"save", "record"}
      BY <1>0, <1>1, OthersAreIdle
    <2> QED
      BY <1>0, <2>1 DEF LedgerRests
  <1>2. ASSUME NEW s \in LoyaltySlots, NEW m \in Mutations, ReadBalance(s, m)
        PROVE  OneServed'
    <2>1. \A t \in LoyaltySlots : applying[t].step = "idle"
      BY <1>2, LoyaltyOverlapIsNoted
    <2>2. Serves(s, "look", m, balance) /\ UNCHANGED <<entries, balance, records>>
      BY <1>2, ReadEffect DEF ReadBalance
    <2>3. balance = Worth(entries) /\ entries = Journalled
      BY <1>0, <2>1 DEF LedgerRests
    <2>4. LedgerSays(s)'
      BY <2>2 DEF LedgerSays, Serves
    <2>5. balance' = Worth(entries') /\ entries' = Journalled'
      BY <2>2, <2>3 DEF Journalled
    <2> QED
      BY <2>1, <2>2, <2>4, <2>5, OneServedFrom DEF Serves
  <1>3. ASSUME NEW s \in LoyaltySlots, applying[s].step \notin {"idle", "save", "record"},
               Rests(s), UNCHANGED <<entries, balance, records>>
        PROVE  OneServed'
    <2>1. \A t \in LoyaltySlots \ {s} : applying[t].step = "idle"
      BY <1>0, <1>3, OthersAreIdle
    <2>2. LedgerSays(s)'
      BY <1>3 DEF LedgerSays, Rests
    <2>3. balance' = Worth(entries') /\ entries' = Journalled'
      BY <1>1, <1>3 DEF Journalled
    <2> QED
      BY <1>3, <2>1, <2>2, <2>3, OneServedFrom DEF Rests
  <1>4. ASSUME NEW s \in LoyaltySlots, LookUp(s)
        PROVE  OneServed'
    <2>1. UNCHANGED <<entries, balance, records>> /\ applying[s].step = "look"
      BY <1>4 DEF LookUp
    <2>2. CASE Answer(s)
      BY <1>3, <2>1, <2>2, AnswerEffect
    <2>3. CASE ~Answer(s)
      <3>1. Proceed(s, "append") /\ KeyIsFree(s)
        BY <1>4, <2>3 DEF LookUp, KeyIsFree
      <3>2. Serves(s, "append", applying[s].mutation, applying[s].read)
        BY <3>1, ProceedEffect
      <3>3. \A t \in LoyaltySlots \ {s} : applying[t].step = "idle"
        BY <1>0, <2>1, OthersAreIdle
      <3>4. applying[s].read = balance
        BY <1>0, <2>1 DEF LedgerSays
      <3>5. LedgerSays(s)'
        BY <2>1, <3>1, <3>2, <3>4 DEF LedgerSays, Serves, KeyIsFree
      <3>6. balance' = Worth(entries') /\ entries' = Journalled'
        BY <1>1, <2>1 DEF Journalled
      <3> QED
        BY <3>2, <3>3, <3>5, <3>6, OneServedFrom DEF Serves
    <2> QED
      BY <2>2, <2>3
  <1>5. ASSUME NEW s \in LoyaltySlots, AppendEntry(s)
        PROVE  OneServed'
    <2>1. /\ UNCHANGED <<balance, records>> /\ applying[s].step = "append"
          /\ entries' = WithOne(entries, applying[s].mutation)
          /\ Serves(s, "save", applying[s].mutation, applying[s].read)
      BY <1>5, ProceedEffect DEF AppendEntry, WithOne
    <2>2. \A t \in LoyaltySlots \ {s} : applying[t].step = "idle"
      BY <1>0, <2>1, OthersAreIdle
    <2>3. applying[s].read = balance /\ KeyIsFree(s)
      BY <1>0, <2>1 DEF LedgerSays
    <2>4. balance = Worth(Journalled) /\ entries = Journalled
      BY <1>1, <2>1
    <2>5. Journalled' = Journalled
      BY <2>1 DEF Journalled
    <2>6. entries' = WithOne(Journalled', applying'[s].mutation) /\ balance' = Worth(Journalled')
      BY <2>1, <2>4, <2>5 DEF Serves
    <2>7. LedgerSays(s)'
      BY <2>1, <2>3, <2>6 DEF LedgerSays, Serves, KeyIsFree
    <2> QED
      BY <2>1, <2>2, <2>7, OneServedFrom DEF Serves
  <1>6. ASSUME NEW s \in LoyaltySlots, SaveBalance(s)
        PROVE  OneServed'
    <2>1. /\ UNCHANGED <<entries, records>> /\ applying[s].step = "save"
          /\ balance' = After(applying[s].read, applying[s].mutation)
          /\ Serves(s, "record", applying[s].mutation, applying[s].read)
      BY <1>6, ProceedEffect DEF SaveBalance
    <2>2. \A t \in LoyaltySlots \ {s} : applying[t].step = "idle"
      BY <1>0, <2>1, OthersAreIdle
    <2>3. /\ applying[s].read = Worth(Journalled) /\ KeyIsFree(s)
          /\ entries = WithOne(Journalled, applying[s].mutation)
      BY <1>0, <2>1 DEF LedgerSays
    <2>4. Journalled' = Journalled
      BY <2>1 DEF Journalled
    <2>5. balance' = Worth(entries')
      BY <1>0, <2>1, <2>3, WorthWithOne
    <2>6. entries' = WithOne(Journalled', applying'[s].mutation)
      BY <2>1, <2>3, <2>4 DEF Serves
    <2>7. LedgerSays(s)'
      BY <2>1, <2>3, <2>5, <2>6 DEF LedgerSays, Serves, KeyIsFree
    <2> QED
      BY <2>1, <2>2, <2>7, OneServedFrom DEF Serves
  <1>7. ASSUME NEW s \in LoyaltySlots, SaveRecord(s)
        PROVE  OneServed'
    <2>1. UNCHANGED <<entries, balance>> /\ applying[s].step = "record" /\ Rests(s)
      BY <1>7, AnswerEffect DEF SaveRecord
    <2>2. \A t \in LoyaltySlots \ {s} : applying[t].step = "idle"
      BY <1>0, <2>1, OthersAreIdle
    <2>3. /\ balance = Worth(entries) /\ KeyIsFree(s)
          /\ entries = WithOne(Journalled, applying[s].mutation)
      BY <1>0, <2>1 DEF LedgerSays
    <2>4. records' = records \cup {applying[s].mutation} /\ applying[s].mutation \notin records
      BY <1>7, <2>3 DEF SaveRecord, KeyIsFree
    <2>5. entries' = Journalled'
      BY <1>0, <2>1, <2>3, <2>4 DEF Journalled, WithOne
    <2>6. LedgerSays(s)'
      BY <2>1 DEF LedgerSays, Rests
    <2>7. balance' = Worth(entries')
      BY <2>1, <2>3
    <2> QED
      BY <2>1, <2>2, <2>5, <2>6, <2>7, OneServedFrom DEF Rests
  <1>8. ASSUME NEW s \in LoyaltySlots, LoyaltyDies(s)
        PROVE  OneServed'
    <2>1. /\ UNCHANGED <<entries, balance, records>> /\ Answer(s) /\ applying[s].step # "idle"
          /\ disturbed' = (disturbed \/ applying[s].step \in {"save", "record"})
      BY <1>8 DEF LoyaltyDies
    <2>2. applying[s].step \notin {"idle", "save", "record"}
      BY <2>1
    <2> QED
      BY <1>3, <2>1, <2>2, AnswerEffect
  <1> QED
    BY <1>2, <1>4, <1>5, <1>6, <1>7, <1>8 DEF LoyaltyNext, LoyaltyStep

-----------------------------------------------------------------------------
LEMMA LedgerIInit == LoyaltyInit => LedgerIInv
  <1> SUFFICES ASSUME LoyaltyInit
               PROVE  LedgerIInv
    OBVIOUS
  <1> USE DEF LoyaltyInit
  <1>1. /\ entries = [m \in Mutations |-> 0] /\ balance = NoPoints
        /\ \A s \in LoyaltySlots : applying[s] = Unapplied
    OBVIOUS
  <1>2. LoyaltyTypeOK
    <2>1. disturbed \in BOOLEAN
      BY Zenon
    <2>2. entries \in [Mutations -> Nat] /\ deaths \in 0..MaxLoyaltyDeaths
      BY LoyaltyOK
    <2> QED
      BY <2>1, <2>2, LoyaltyRequestShapes DEF LoyaltyTypeOK
  <1>3. balance.available >= 0
    BY DEF NoPoints
  <1>4. PartOf(NoPoints)
    BY <1>2, NothingIsPart
  <1>5. \A s \in LoyaltySlots : Backed(s)
    BY <1>1, <1>4, LoyaltyRequestShapes DEF Backed
  <1>6. Journalled = entries /\ Worth(entries) = NoPoints
    <2>1. Journalled = [m \in Mutations |-> 0]
      BY DEF Journalled
    <2> QED
      BY <1>1, <2>1, WorthOfNone
  <1>7. OneApplies /\ LedgerRests /\ \A s \in LoyaltySlots : LedgerSays(s)
    BY <1>1, <1>6, LoyaltyRequestShapes DEF OneApplies, LedgerRests, LedgerSays
  <1> QED
    BY <1>1, <1>2, <1>3, <1>4, <1>5, <1>7 DEF LedgerIInv

LEMMA LedgerIStep == LedgerIInv /\ [LoyaltyNext]_loyaltyVars => LedgerIInv'
  <1> SUFFICES ASSUME LedgerIInv, [LoyaltyNext]_loyaltyVars
               PROVE  LedgerIInv'
    OBVIOUS
  <1>1. LoyaltyTypeOK /\ EverythingBacked /\ (~disturbed => OneServed)
    BY DEF LedgerIInv, EverythingBacked, OneServed
  <1>2. CASE LoyaltyNext
    <2>1. LoyaltyTypeOK' /\ EverythingBacked'
      BY <1>1, <1>2, LedgerTypeStep, BackedStep
    <2>2. ASSUME ~disturbed'
          PROVE  OneServed'
      BY <1>1, <1>2, <2>2, DisturbanceIsNoted, OneServedStep
    <2> QED
      BY <2>1, <2>2 DEF LedgerIInv, EverythingBacked, OneServed
  <1>3. CASE UNCHANGED loyaltyVars
    <2>1. UNCHANGED <<entries, balance, records, applying, deaths, disturbed>>
      BY <1>3 DEF loyaltyVars
    <2>2. LoyaltyTypeOK'
      BY <1>1, <2>1 DEF LoyaltyTypeOK
    <2>3. EverythingBacked'
      BY <1>1, <2>1 DEF EverythingBacked, Backed, PartOf, PartBefore
    <2>4. ASSUME ~disturbed'
          PROVE  OneServed'
      <3>1. OneServed /\ Journalled' = Journalled
        BY <1>1, <2>1, <2>4 DEF Journalled
      <3>2. OneApplies' /\ LedgerRests'
        BY <2>1, <3>1 DEF OneServed, OneApplies, LedgerRests
      <3>3. ASSUME NEW s \in LoyaltySlots
            PROVE  LedgerSays(s)'
        BY <2>1, <3>1 DEF OneServed, LedgerSays, KeyIsFree
      <3> QED
        BY <3>2, <3>3 DEF OneServed
    <2> QED
      BY <2>2, <2>3, <2>4 DEF LedgerIInv, EverythingBacked, OneServed
  <1> QED
    BY <1>2, <1>3

(* The invariant of a customer's points: each row a request read or writes   *)
(* is the worth of a part of the ledger; and until requests overlap or die   *)
(* between their writes, how far the one that is served has brought them.    *)
THEOREM LedgerInductive == LoyaltySpec => []LedgerIInv
  BY LedgerIInit, LedgerIStep, PTL DEF LoyaltySpec

(* Ledger, balance, records and requests are well formed. *)
THEOREM LedgerTypeCorrect == LoyaltySpec => []LoyaltyTypeOK
  <1>1. LedgerIInv => LoyaltyTypeOK
    BY DEF LedgerIInv
  <1> QED
    BY <1>1, LedgerInductive, PTL

(* The parts that BalanceFromLedger quantifies over are bounded by the most  *)
(* entries there are of a mutation.                                          *)
LEMMA MostEntries ==
    ASSUME LoyaltyTypeOK
    PROVE  LET most == Max({entries[m] : m \in Mutations})
           IN  most \in Nat /\ \A m \in Mutations : entries[m] <= most
  <1> DEFINE counts == {entries[m] : m \in Mutations}
  <1>1. counts \subseteq Nat /\ counts # {} /\ IsFiniteSet(counts)
    <2>1. counts \subseteq Nat /\ counts # {}
      BY LoyaltyOK DEF LoyaltyTypeOK
    <2>2. entries \in Surjection(Mutations, counts)
      BY DEF LoyaltyTypeOK, Surjection
    <2> HIDE DEF counts
    <2>3. IsFiniteSet(counts)
      BY <2>2, LoyaltyOK, FS_Surjection
    <2> QED
      BY <2>1, <2>3
  <1>2. \E n \in counts : \A k \in counts : n >= k
    BY <1>1, GreatestOfFinite
  <1>3. Max(counts) \in counts /\ \A k \in counts : Max(counts) >= k
    <2> HIDE DEF counts
    <2> QED
      BY <1>2 DEF Max
  <1>4. \A m \in Mutations : entries[m] \in counts
    OBVIOUS
  <1> HIDE DEF counts
  <1>5. Max(counts) \in Nat /\ \A k \in counts : k <= Max(counts)
    BY <1>1, <1>3
  <1> QED
    BY <1>4, <1>5 DEF counts

(* While requests neither overlap nor die between their writes, every key is *)
(* in the ledger once and recorded, and the balance is the ledger's; and     *)
(* even when they do, the balance comes from entries of the ledger and is    *)
(* not negative (POST /v1/loyalty/internal/ledger/apply).                    *)
THEOREM LedgerIsAlwaysExact == LoyaltySpec => []LedgerIsExact
  <1>1. ASSUME LedgerIInv
        PROVE  LedgerIsExact
    <2>1. /\ LoyaltyTypeOK /\ balance.available >= 0 /\ PartOf(balance)
          /\ ~disturbed => LedgerRests
      BY <1>1 DEF LedgerIInv
    <2>2. AppliedOnce
      BY <2>1 DEF AppliedOnce, LedgerRests, Journalled
    <2> DEFINE most == Max({entries[m] : m \in Mutations})
    <2>3. most \in Nat /\ \A m \in Mutations : entries[m] <= most
      BY <2>1, MostEntries
    <2> HIDE DEF most
    <2>4. PICK part \in [Mutations -> Nat] :
              (\A m \in Mutations : part[m] <= entries[m]) /\ balance = Worth(part)
      BY <2>1 DEF PartOf
    <2>5. part \in [Mutations -> 0..most]
      <3>1. \A m \in Mutations : part[m] \in Nat /\ entries[m] \in Nat
        BY <2>1 DEF LoyaltyTypeOK
      <3>2. \A a, b, c \in Nat : a <= b /\ b <= c => a \in 0..c
        OBVIOUS
      <3>3. \A m \in Mutations : part[m] \in 0..most
        BY <2>3, <2>4, <3>1, <3>2
      <3> QED
        BY <3>3
    <2>6. BalanceFromLedger
      BY <2>1, <2>4, <2>5 DEF BalanceFromLedger, most
    <2> QED
      BY <2>2, <2>6 DEF LedgerIsExact
  <1> QED
    BY <1>1, LedgerInductive, PTL

-----------------------------------------------------------------------------
(***************************************************************************)
(* Paying in the mobile app: MobileCheckout.                               *)
(***************************************************************************)

UnderWay(a) == attempt[a].pc # "idle"

(* What is named is there: checkouts, and the basket of a bag. *)
CheckoutsExist ==
    /\ bag # Empty => basket # 0
    /\ retry \in {0} \cup DOMAIN checkouts /\ sheet \in {0} \cup DOMAIN checkouts
    /\ \A c \in DOMAIN checkouts : checkouts[c].basket <= basket
    /\ \A a \in Attempts :
          /\ UnderWay(a) => basket # 0 /\ attempt[a].bag # Empty
          /\ attempt[a].pc \notin {"idle", "create"} => attempt[a].checkout \in DOMAIN checkouts
          /\ attempt[a].pc = "present" => sheet \in DOMAIN checkouts
          /\ attempt[a].pc = "pay" => attempt[a].sheet \in DOMAIN checkouts

(* Until she wanders: one attempt is under way, that of the open screen, and *)
(* works for the bag; the checkout kept is one of this bag.                  *)
OneAttempt ==
    /\ \A a \in Attempts : UnderWay(a) => a \in mounted
    /\ \A a, b \in mounted : a = b

OfThisBag(c) == checkouts[c].basket = basket /\ checkouts[c].bag = bag

WorksForBag ==
    /\ bag = Empty => retry = 0
    /\ retry # 0 => OfThisBag(retry)
    /\ \A a \in Attempts :
          /\ UnderWay(a) => bag # Empty /\ attempt[a].bag = bag
          /\ attempt[a].pc \notin {"idle", "create"} => OfThisBag(attempt[a].checkout)
          /\ attempt[a].pc = "present" => sheet = attempt[a].checkout
          /\ attempt[a].pc = "pay" => attempt[a].sheet = attempt[a].checkout

(* A paid checkout of this bag is the one she will come back to: it is kept, *)
(* and worked on, and nothing but finalizing it is left to do.               *)
PaidIsKept ==
    bag # Empty =>
        \A c \in DOMAIN checkouts : checkouts[c].paid /\ checkouts[c].basket = basket =>
            /\ \A a \in Attempts : UnderWay(a) =>
                  /\ attempt[a].checkout = c
                  /\ attempt[a].pc \in {"session", "init", "finalize"}
            /\ retry = c \/ \E a \in Attempts : attempt[a].pc = "finalize"

PaidOnce ==
    \A c, d \in DOMAIN checkouts :
        checkouts[c].paid /\ checkouts[d].paid /\ checkouts[c].basket = checkouts[d].basket
            => c = d

PhoneIInv ==
    /\ PhoneTypeOK /\ CheckoutsExist
    /\ ~wandered => OneAttempt /\ WorksForBag /\ PaidIsKept /\ PaidOnce

(* Records and where they are kept. *)
LEMMA AttemptShape ==
    ASSUME NEW x \in PhoneAttempts
    PROVE  /\ x.pc \in {"idle", "create", "session", "init", "present", "pay", "finalize"}
           /\ x.bag \in Contents \cup {Empty}
           /\ x.checkout \in Known /\ x.sheet \in Known
  BY DEF PhoneAttempts

LEMMA AttemptAt ==
    ASSUME NEW x \in PhoneAttempts,
           NEW p \in {"idle", "create", "session", "init", "present", "pay", "finalize"}
    PROVE  \E y \in PhoneAttempts :
              /\ y = [x EXCEPT !.pc = p]
              /\ y.pc = p /\ y.bag = x.bag /\ y.checkout = x.checkout /\ y.sheet = x.sheet
  <1>1. [x EXCEPT !.pc = p] \in PhoneAttempts
    BY DEF PhoneAttempts
  <1> WITNESS [x EXCEPT !.pc = p] \in PhoneAttempts
  <1> QED
    BY DEF PhoneAttempts

LEMMA AttemptFor ==
    ASSUME NEW x \in PhoneAttempts, NEW c \in Known
    PROVE  \E y \in PhoneAttempts :
              /\ y = [x EXCEPT !.pc = "session", !.checkout = c]
              /\ y.pc = "session" /\ y.bag = x.bag /\ y.checkout = c
  <1>1. [x EXCEPT !.pc = "session", !.checkout = c] \in PhoneAttempts
    BY DEF PhoneAttempts
  <1> WITNESS [x EXCEPT !.pc = "session", !.checkout = c] \in PhoneAttempts
  <1> QED
    BY DEF PhoneAttempts

LEMMA NoAttempt == Idle \in PhoneAttempts /\ Idle.pc = "idle"
  BY PhoneOK DEF Idle, PhoneAttempts, Known

LEMMA CheckoutShape ==
    ASSUME NEW x \in PhoneCheckouts
    PROVE  /\ x.basket \in 1..MaxBaskets /\ x.bag \in Contents
           /\ x.status \in {"OPEN", "EXPIRED", "CONVERTED"} /\ x.paid \in BOOLEAN
  BY DEF PhoneCheckouts

LEMMA CheckoutPaid ==
    ASSUME NEW x \in PhoneCheckouts
    PROVE  /\ [x EXCEPT !.paid = TRUE] \in PhoneCheckouts
           /\ [x EXCEPT !.paid = TRUE].paid
           /\ [x EXCEPT !.paid = TRUE].basket = x.basket
           /\ [x EXCEPT !.paid = TRUE].bag = x.bag
  BY DEF PhoneCheckouts

LEMMA CheckoutAt ==
    ASSUME NEW x \in PhoneCheckouts, NEW s \in {"OPEN", "EXPIRED", "CONVERTED"}
    PROVE  /\ [x EXCEPT !.status = s] \in PhoneCheckouts
           /\ [x EXCEPT !.status = s].paid = x.paid
           /\ [x EXCEPT !.status = s].basket = x.basket
           /\ [x EXCEPT !.status = s].bag = x.bag
  BY DEF PhoneCheckouts

(* Checkouts stay the ones they are, for the bag they were made of. *)
SameCheckouts ==
    /\ checkouts' \in Seq(PhoneCheckouts)
    /\ Len(checkouts') = Len(checkouts) /\ DOMAIN checkouts' = DOMAIN checkouts
    /\ \A d \in DOMAIN checkouts :
          /\ checkouts'[d].basket = checkouts[d].basket
          /\ checkouts'[d].bag = checkouts[d].bag

PaidStays(c) ==
    \A d \in DOMAIN checkouts : d # c => checkouts'[d].paid = checkouts[d].paid

SamePaid == \A d \in DOMAIN checkouts : checkouts'[d].paid = checkouts[d].paid

LEMMA CheckoutsStay ==
    ASSUME PhoneTypeOK, UNCHANGED checkouts
    PROVE  SameCheckouts /\ SamePaid
  BY DEF PhoneTypeOK, SameCheckouts, SamePaid

LEMMA StatusChanges ==
    ASSUME PhoneTypeOK, NEW c \in DOMAIN checkouts,
           NEW s \in {"OPEN", "EXPIRED", "CONVERTED"},
           checkouts' = [checkouts EXCEPT ![c].status = s]
    PROVE  SameCheckouts /\ SamePaid
  <1>1. checkouts \in Seq(PhoneCheckouts)
    BY DEF PhoneTypeOK
  <1>2. checkouts[c] \in PhoneCheckouts
    BY <1>1, ElementOfSeq
  <1>3. [checkouts[c] EXCEPT !.status = s] \in PhoneCheckouts
    BY <1>2, CheckoutAt
  <1>4. checkouts' = [checkouts EXCEPT ![c] = [checkouts[c] EXCEPT !.status = s]]
    OBVIOUS
  <1>5. /\ checkouts' \in Seq(PhoneCheckouts) /\ Len(checkouts') = Len(checkouts)
        /\ DOMAIN checkouts' = DOMAIN checkouts
    BY <1>1, <1>3, <1>4, ExceptSeq
  <1>6. \A d \in DOMAIN checkouts :
           checkouts'[d] = IF d = c THEN [checkouts[c] EXCEPT !.status = s] ELSE checkouts[d]
    BY <1>4
  <1> QED
    BY <1>2, <1>5, <1>6, CheckoutAt DEF SameCheckouts, SamePaid

LEMMA PaymentSucceeds ==
    ASSUME PhoneTypeOK, NEW c \in DOMAIN checkouts,
           checkouts' = [checkouts EXCEPT ![c].paid = TRUE]
    PROVE  SameCheckouts /\ PaidStays(c) /\ checkouts'[c].paid
  <1>1. checkouts \in Seq(PhoneCheckouts)
    BY DEF PhoneTypeOK
  <1>2. checkouts[c] \in PhoneCheckouts
    BY <1>1, ElementOfSeq
  <1>3. [checkouts[c] EXCEPT !.paid = TRUE] \in PhoneCheckouts
    BY <1>2, CheckoutPaid
  <1>4. checkouts' = [checkouts EXCEPT ![c] = [checkouts[c] EXCEPT !.paid = TRUE]]
    OBVIOUS
  <1>5. /\ checkouts' \in Seq(PhoneCheckouts) /\ Len(checkouts') = Len(checkouts)
        /\ DOMAIN checkouts' = DOMAIN checkouts
    BY <1>1, <1>3, <1>4, ExceptSeq
  <1>6. \A d \in DOMAIN checkouts :
           checkouts'[d] = IF d = c THEN [checkouts[c] EXCEPT !.paid = TRUE] ELSE checkouts[d]
    BY <1>4
  <1> QED
    BY <1>2, <1>5, <1>6, CheckoutPaid DEF SameCheckouts, PaidStays

LEMMA DraftMade ==
    ASSUME PhoneTypeOK, NEW b \in Contents, basket # 0, checkouts' = WithDraft(b)
    PROVE  /\ checkouts' \in Seq(PhoneCheckouts)
           /\ Len(checkouts') = Len(checkouts) + 1
           /\ DOMAIN checkouts' = DOMAIN checkouts \cup {Len(checkouts')}
           /\ Len(checkouts') \notin DOMAIN checkouts
           /\ \A d \in DOMAIN checkouts :
                 /\ checkouts'[d].basket = checkouts[d].basket
                 /\ checkouts'[d].bag = checkouts[d].bag
                 /\ checkouts'[d].paid = checkouts[d].paid
           /\ checkouts'[Len(checkouts')].basket = basket
           /\ checkouts'[Len(checkouts')].bag = b
           /\ ~checkouts'[Len(checkouts')].paid
  <1> DEFINE Older == [c \in DOMAIN checkouts |->
                  [checkouts[c] EXCEPT !.status = IF @ = "OPEN" THEN "EXPIRED" ELSE @]]
             New == [basket |-> basket, bag |-> b, status |-> "OPEN", paid |-> FALSE]
  <1>1. checkouts \in Seq(PhoneCheckouts)
    BY DEF PhoneTypeOK
  <1>2. DOMAIN checkouts = 1..Len(checkouts) /\ Len(checkouts) \in Nat
    BY <1>1
  <1>3. \A c \in DOMAIN checkouts : checkouts[c] \in PhoneCheckouts
    BY <1>1, ElementOfSeq
  <1>4. \A c \in DOMAIN checkouts :
           /\ Older[c] \in PhoneCheckouts /\ Older[c].paid = checkouts[c].paid
           /\ Older[c].basket = checkouts[c].basket /\ Older[c].bag = checkouts[c].bag
    <2> SUFFICES ASSUME NEW c \in DOMAIN checkouts
                 PROVE  /\ Older[c] \in PhoneCheckouts /\ Older[c].paid = checkouts[c].paid
                        /\ Older[c].basket = checkouts[c].basket
                        /\ Older[c].bag = checkouts[c].bag
      OBVIOUS
    <2>1. PICK s \in {"OPEN", "EXPIRED", "CONVERTED"} :
             Older[c] = [checkouts[c] EXCEPT !.status = s]
      BY <1>3, CheckoutShape
    <2>2. PICK x \in PhoneCheckouts : x = checkouts[c]
      BY <1>3
    <2>3. Older[c] = [x EXCEPT !.status = s]
      BY <2>1, <2>2
    <2>4. PICK y \in PhoneCheckouts :
             /\ y = [x EXCEPT !.status = s]
             /\ y.paid = x.paid /\ y.basket = x.basket /\ y.bag = x.bag
      BY CheckoutAt
    <2>5. Older[c] = y
      BY <2>3, <2>4
    <2> HIDE DEF Older
    <2> QED
      BY <2>2, <2>4, <2>5
  <1>5. Older \in Seq(PhoneCheckouts) /\ Len(Older) = Len(checkouts)
    <2>1. Older \in [1..Len(checkouts) -> PhoneCheckouts]
      BY <1>2, <1>4
    <2> HIDE DEF Older
    <2> QED
      BY <1>2, <2>1
  <1>6. New \in PhoneCheckouts
    BY DEF PhoneTypeOK, PhoneCheckouts
  <1>7. checkouts' = Append(Older, New)
    BY DEF WithDraft
  <1>8. New.basket = basket /\ New.bag = b /\ ~New.paid
    OBVIOUS
  <1> HIDE DEF Older, New
  <1>9. /\ checkouts' \in Seq(PhoneCheckouts)
        /\ Len(checkouts') = Len(checkouts) + 1
        /\ \A i \in 1..Len(checkouts) : checkouts'[i] = Older[i]
        /\ checkouts'[Len(checkouts) + 1] = New
    BY <1>2, <1>5, <1>6, <1>7, AppendProperties
  <1>10. DOMAIN checkouts' = 1..(Len(checkouts) + 1)
    BY <1>9
  <1> QED
    BY <1>2, <1>4, <1>8, <1>9, <1>10

LEMMA PhoneIInit == PhoneInit => PhoneIInv
  <1> SUFFICES ASSUME PhoneInit PROVE PhoneIInv
    OBVIOUS
  <1>1. attempt \in [Attempts -> PhoneAttempts] /\ \A a \in Attempts : ~UnderWay(a)
    BY NoAttempt DEF PhoneInit, UnderWay
  <1>2. failure \in BOOLEAN /\ wandered \in BOOLEAN
    BY DEF PhoneInit
  <1>3. checkouts \in Seq(PhoneCheckouts) /\ Len(checkouts) = 0 /\ DOMAIN checkouts = {}
    BY DEF PhoneInit
  <1>4. PhoneTypeOK
    BY <1>1, <1>2, <1>3, PhoneOK DEF PhoneInit, PhoneTypeOK, Known
  <1>5. CheckoutsExist
    BY <1>1, <1>3 DEF PhoneInit, CheckoutsExist, UnderWay
  <1>6. OneAttempt /\ WorksForBag /\ PaidIsKept /\ PaidOnce
    BY <1>1, <1>3 DEF PhoneInit, OneAttempt, WorksForBag, PaidIsKept, PaidOnce, UnderWay
  <1> QED
    BY <1>4, <1>5, <1>6 DEF PhoneIInv

(* Flags, and the steps after which nothing is promised any more. *)
LEMMA FlagsOK ==
    ASSUME PhoneTypeOK, PhoneNext
    PROVE  /\ failure' \in BOOLEAN /\ wandered' \in BOOLEAN
           /\ ~wandered' => ~wandered
  <1>1. failure' \in BOOLEAN
    BY DEF PhoneTypeOK, PhoneNext, ChangeBag, ClearBag, ReturnToCart, DismissCheckout,
         PressPay, AttemptStep, QuoteAndCreate, OpenPaymentSession, InitSheet,
         InitStripeFails, PresentSheet, FinalizePaid, LeaveSheet, PaySheet,
         PromotedByWebhook, DraftLapses, OrderEnds, Continue, GoTo, KeepForRetry, Fail,
         phoneOnly
  <1>2. wandered' \in BOOLEAN /\ (~wandered' => ~wandered)
    BY DEF PhoneTypeOK, PhoneNext, ChangeBag, ClearBag, ReturnToCart, DismissCheckout,
         PressPay, AttemptStep, QuoteAndCreate, OpenPaymentSession, InitSheet,
         InitStripeFails, PresentSheet, FinalizePaid, LeaveSheet, PaySheet,
         PromotedByWebhook, DraftLapses, OrderEnds, Continue, GoTo, KeepForRetry, Fail,
         Over, phoneOnly
  <1> QED
    BY <1>1, <1>2

LEMMA AttemptMoves ==
    ASSUME PhoneTypeOK, NEW a \in Attempts, NEW x \in PhoneAttempts,
           attempt' = [attempt EXCEPT ![a] = x]
    PROVE  /\ attempt' \in [Attempts -> PhoneAttempts]
           /\ attempt'[a] = x
           /\ \A b \in Attempts : b # a => attempt'[b] = attempt[b]
  BY DEF PhoneTypeOK

LEMMA DraftsNamed ==
    ASSUME PhoneTypeOK
    PROVE  /\ checkouts \in Seq(PhoneCheckouts)
           /\ DOMAIN checkouts = 1..Len(checkouts) /\ Len(checkouts) \in Nat
           /\ DOMAIN checkouts \subseteq Known /\ 0 \in Known
           /\ 0 \notin DOMAIN checkouts
           /\ \A c \in DOMAIN checkouts :
                 /\ checkouts[c] \in PhoneCheckouts
                 /\ checkouts[c].basket \in 1..MaxBaskets /\ checkouts[c].bag \in Contents
                 /\ checkouts[c].status \in {"OPEN", "EXPIRED", "CONVERTED"}
                 /\ checkouts[c].paid \in BOOLEAN
  <1>1. checkouts \in Seq(PhoneCheckouts) /\ Len(checkouts) <= MaxCheckouts
    BY DEF PhoneTypeOK
  <1>2. DOMAIN checkouts = 1..Len(checkouts) /\ Len(checkouts) \in Nat
    BY <1>1
  <1>3. DOMAIN checkouts \subseteq Known /\ 0 \in Known /\ 0 \notin DOMAIN checkouts
    BY <1>1, <1>2, PhoneOK DEF Known
  <1> QED
    BY <1>1, <1>2, <1>3, ElementOfSeq, CheckoutShape

LEMMA ScreenSteps ==
    ASSUME PhoneIInv, PhoneNext,
           (\E b \in Contents : ChangeBag(b)) \/ ClearBag \/ ReturnToCart \/ DismissCheckout
    PROVE  PhoneIInv'
  <1> USE FlagsOK, DraftsNamed, CheckoutsStay, PhoneOK DEF PhoneIInv
  <1>1. CASE \E b \in Contents : ChangeBag(b)
    <2>1. PICK b \in Contents : ChangeBag(b)
      BY <1>1
    <2>2. UNCHANGED <<failure, attempt, mounted, sheet, checkouts, active, phoneFaults>>
      BY <2>1 DEF ChangeBag, serverVars
    <2>3. /\ bag' = b /\ b # Empty
          /\ basket' = IF bag = Empty THEN basket + 1 ELSE basket
          /\ bag = Empty => basket < MaxBaskets
          /\ retry' \in {retry, 0}
      BY <2>1 DEF ChangeBag
    <2>4. PhoneTypeOK'
      BY <2>2, <2>3 DEF PhoneTypeOK
    <2>5. CheckoutsExist'
      BY <2>2, <2>3 DEF PhoneTypeOK, CheckoutsExist, UnderWay
    <2>6. ASSUME ~wandered'
          PROVE  ~wandered /\ bag = Empty /\ \A a \in Attempts : attempt[a].pc = "idle"
      BY <2>1, <2>6 DEF ChangeBag, AtStep
    <2>7. ASSUME ~wandered'
          PROVE  retry' = 0 /\ basket' = basket + 1 /\ ~wandered
      BY <2>3, <2>6, <2>7 DEF WorksForBag
    <2>8. ASSUME ~wandered'
          PROVE  OneAttempt' /\ WorksForBag' /\ PaidIsKept' /\ PaidOnce'
      <3>1. OneAttempt' /\ PaidOnce'
        BY <2>2, <2>7, <2>8 DEF OneAttempt, UnderWay, PaidOnce
      <3>2. WorksForBag'
        BY <2>2, <2>3, <2>6, <2>7, <2>8 DEF WorksForBag, UnderWay
      <3>3. \A c \in DOMAIN checkouts : checkouts[c].basket # basket'
        BY <2>7, <2>8 DEF CheckoutsExist, PhoneTypeOK
      <3>4. PaidIsKept'
        BY <2>2, <3>3 DEF PaidIsKept
      <3> QED
        BY <3>1, <3>2, <3>4
    <2> QED
      BY <2>4, <2>5, <2>8
  <1>2. CASE ClearBag
    <2>1. PhoneTypeOK'
      BY <1>2 DEF ClearBag, serverVars, PhoneTypeOK
    <2>2. CheckoutsExist'
      BY <1>2 DEF ClearBag, serverVars, CheckoutsExist, UnderWay
    <2> QED
      BY <1>2, <2>1, <2>2 DEF ClearBag
  <1>3. CASE ReturnToCart
    <2>1. UNCHANGED <<bag, basket, retry, attempt, mounted, sheet, checkouts, active,
                      phoneFaults, wandered>>
      BY <1>3 DEF ReturnToCart, cartVars, serverVars
    <2>2. PhoneTypeOK'
      BY <2>1 DEF PhoneTypeOK
    <2>3. CheckoutsExist'
      BY <2>1 DEF CheckoutsExist, UnderWay
    <2>4. ~wandered' => OneAttempt' /\ WorksForBag' /\ PaidIsKept' /\ PaidOnce'
      BY <2>1 DEF OneAttempt, WorksForBag, PaidIsKept, PaidOnce, UnderWay, OfThisBag
    <2> QED
      BY <2>2, <2>3, <2>4
  <1>4. CASE DismissCheckout
    <2>1. PhoneTypeOK'
      BY <1>4 DEF DismissCheckout, cartVars, serverVars, PhoneTypeOK
    <2>2. CheckoutsExist'
      BY <1>4 DEF DismissCheckout, cartVars, serverVars, CheckoutsExist, UnderWay
    <2> QED
      BY <1>4, <2>1, <2>2 DEF DismissCheckout
  <1> QED
    BY <1>1, <1>2, <1>3, <1>4

(* The services' steps: checkouts stay what they are, and paid or not. *)
LEMMA ServiceSteps ==
    ASSUME PhoneIInv, PhoneNext, NEW c \in DOMAIN checkouts,
           PromotedByWebhook(c) \/ DraftLapses(c) \/ OrderEnds(c)
    PROVE  PhoneIInv'
  <1> USE FlagsOK, DraftsNamed, PhoneOK DEF PhoneIInv
  <1>1. UNCHANGED <<bag, basket, retry, failure, attempt, mounted, sheet, phoneFaults, wandered>>
    BY DEF PromotedByWebhook, DraftLapses, OrderEnds, phoneOnly, cartVars
  <1>2. SameCheckouts /\ SamePaid
    <2>1. CASE UNCHANGED checkouts
      BY <2>1, CheckoutsStay
    <2>2. CASE checkouts' = [checkouts EXCEPT ![c].status = "CONVERTED"]
      BY <2>2, StatusChanges
    <2>3. CASE checkouts' = [checkouts EXCEPT ![c].status = "EXPIRED"]
      BY <2>3, StatusChanges
    <2> QED
      BY <2>1, <2>2, <2>3 DEF PromotedByWebhook, DraftLapses, OrderEnds, Promote, Promoted
  <1>3. /\ DOMAIN checkouts' = DOMAIN checkouts
        /\ \A d \in DOMAIN checkouts :
              /\ checkouts'[d].basket = checkouts[d].basket
              /\ checkouts'[d].bag = checkouts[d].bag
              /\ checkouts'[d].paid = checkouts[d].paid
    BY <1>2 DEF SameCheckouts, SamePaid
  <1>4. active' \subseteq DOMAIN checkouts
    BY DEF PromotedByWebhook, DraftLapses, OrderEnds, Promote, PhoneTypeOK
  <1>5. PhoneTypeOK'
    BY <1>1, <1>2, <1>4 DEF PhoneTypeOK, SameCheckouts
  <1>6. CheckoutsExist'
    BY <1>1, <1>3 DEF CheckoutsExist, UnderWay
  <1>7. ASSUME ~wandered'
        PROVE  OneAttempt' /\ PaidIsKept' /\ PaidOnce'
    <2>1. ~wandered /\ OneAttempt /\ PaidIsKept /\ PaidOnce
      BY <1>1, <1>7
    <2>2. OneAttempt'
      BY <1>1, <2>1 DEF OneAttempt, UnderWay
    <2>3. PaidIsKept'
      BY <1>1, <1>3, <2>1 DEF PaidIsKept, UnderWay
    <2>4. PaidOnce'
      BY <1>3, <2>1 DEF PaidOnce
    <2> QED
      BY <2>2, <2>3, <2>4
  <1>8. ~wandered' => WorksForBag'
    BY <1>1, <1>3 DEF CheckoutsExist, WorksForBag, UnderWay, OfThisBag
  <1> QED
    BY <1>5, <1>6, <1>7, <1>8

LEMMA PressSteps ==
    ASSUME PhoneIInv, PhoneNext, NEW a \in Attempts, PressPay(a)
    PROVE  PhoneIInv'
  <1> USE FlagsOK, DraftsNamed, CheckoutsStay, PhoneOK DEF PhoneIInv
  <1>1. /\ bag # Empty /\ mounted = {} /\ mounted' = {a} /\ attempt[a].pc = "idle"
        /\ UNCHANGED <<bag, basket, retry, failure, sheet, checkouts, active, phoneFaults,
                       wandered>>
    BY DEF PressPay, AtStep, cartVars, serverVars
  <1>2. PICK x : /\ x = [pc |-> IF Retryable THEN "session" ELSE "create",
                         bag |-> bag, sheet |-> 0, checkout |-> IF Retryable THEN retry ELSE 0]
                 /\ attempt' = [attempt EXCEPT ![a] = x]
    BY DEF PressPay
  <1>3. x \in PhoneAttempts
    BY <1>2 DEF PhoneTypeOK, PhoneAttempts
  <1>4. /\ x.pc = (IF Retryable THEN "session" ELSE "create") /\ x.bag = bag
        /\ x.checkout = IF Retryable THEN retry ELSE 0
    BY <1>2
  <1>5. /\ attempt' \in [Attempts -> PhoneAttempts] /\ attempt'[a] = x
        /\ \A b \in Attempts : b # a => attempt'[b] = attempt[b]
    BY <1>2, <1>3, AttemptMoves
  <1>6. PhoneTypeOK'
    BY <1>1, <1>5 DEF PhoneTypeOK
  <1>7. CheckoutsExist'
    BY <1>1, <1>4, <1>5 DEF CheckoutsExist, UnderWay, Retryable
  <1>8. ASSUME ~wandered'
        PROVE  OneAttempt' /\ WorksForBag' /\ PaidIsKept' /\ PaidOnce'
    <2>1. ~wandered /\ \A b \in Attempts : ~UnderWay(b)
      BY <1>1, <1>8 DEF OneAttempt
    <2>2. OneAttempt' /\ PaidOnce'
      BY <1>1, <1>5, <2>1 DEF OneAttempt, PaidOnce, UnderWay
    <2>3. WorksForBag'
      BY <1>1, <1>4, <1>5, <2>1 DEF WorksForBag, UnderWay, OfThisBag, Retryable
    <2>4. PaidIsKept'
      <3>1. \A c \in DOMAIN checkouts : checkouts[c].paid /\ checkouts[c].basket = basket
               => retry = c /\ Retryable
        BY <1>1, <2>1 DEF PaidIsKept, WorksForBag, UnderWay, OfThisBag, Retryable
      <3> QED
        BY <1>1, <1>4, <1>5, <2>1, <3>1 DEF PaidIsKept, UnderWay
    <2> QED
      BY <2>2, <2>3, <2>4
  <1> QED
    BY <1>6, <1>7, <1>8

(* The attempt that makes a step is the only one, and works for the bag.     *)
LEMMA TheAttempt ==
    ASSUME PhoneIInv, NEW a \in Attempts, UnderWay(a)
    PROVE  /\ basket # 0 /\ attempt[a].bag \in Contents
           /\ attempt[a] \in PhoneAttempts /\ attempt[a].checkout \in Known
           /\ attempt[a].pc \notin {"idle", "create"} => attempt[a].checkout \in DOMAIN checkouts
           /\ ~wandered =>
                 /\ bag # Empty /\ attempt[a].bag = bag
                 /\ mounted = {a} /\ \A b \in Attempts : b # a => ~UnderWay(b)
                 /\ attempt[a].pc \notin {"idle", "create"} => OfThisBag(attempt[a].checkout)
  <1>1. attempt[a] \in PhoneAttempts
    BY DEF PhoneIInv, PhoneTypeOK
  <1>2. basket # 0 /\ attempt[a].bag \in Contents /\ attempt[a].checkout \in Known
    BY <1>1, AttemptShape DEF PhoneIInv, CheckoutsExist
  <1>3. attempt[a].pc \notin {"idle", "create"} => attempt[a].checkout \in DOMAIN checkouts
    BY DEF PhoneIInv, CheckoutsExist
  <1>4. ASSUME ~wandered
        PROVE  mounted = {a} /\ \A b \in Attempts : b # a => ~UnderWay(b)
    BY <1>4 DEF PhoneIInv, PhoneTypeOK, OneAttempt
  <1>5. ASSUME ~wandered
        PROVE  /\ bag # Empty /\ attempt[a].bag = bag
               /\ attempt[a].pc \notin {"idle", "create"} => OfThisBag(attempt[a].checkout)
    BY <1>5 DEF PhoneIInv, WorksForBag
  <1> QED
    BY <1>1, <1>2, <1>3, <1>4, <1>5

(* The attempt goes on with the checkout it has: nothing is paid.            *)
LEMMA GoesOn ==
    ASSUME PhoneIInv, PhoneNext, NEW a \in Attempts, UnderWay(a),
           attempt[a].pc \in {"session", "init", "present"},
           NEW x \in PhoneAttempts, Continue(a, x),
           x.checkout = attempt[a].checkout, x.bag = attempt[a].bag,
           x.pc \in {"init", "present", "pay"},
           ~wandered /\ x.pc # "init" => ~checkouts[x.checkout].paid,
           x.pc = "present" => sheet' = x.checkout,
           x.pc = "pay" => x.sheet = sheet /\ attempt[a].pc = "present",
           sheet' \in {sheet, x.checkout},
           phoneFaults' \in 0..MaxPhoneFaults, UNCHANGED <<checkouts, active>>
    PROVE  PhoneIInv'
  <1>1. /\ UNCHANGED <<bag, basket, retry, failure, mounted, wandered, checkouts, active>>
        /\ attempt' = [attempt EXCEPT ![a] = x]
    BY DEF Continue, cartVars
  <1>2. /\ attempt' \in [Attempts -> PhoneAttempts] /\ attempt'[a] = x
        /\ \A b \in Attempts : b # a => attempt'[b] = attempt[b]
    BY <1>1, AttemptMoves DEF PhoneIInv
  <1>3. x.checkout \in DOMAIN checkouts /\ basket # 0 /\ x.bag # Empty /\ x.checkout \in Known
    BY TheAttempt, PhoneOK, AttemptShape
  <1>4. sheet' \in Known
    BY <1>3 DEF PhoneIInv, PhoneTypeOK
  <1>5. PhoneTypeOK'
    BY <1>1, <1>2, <1>4, FlagsOK DEF PhoneIInv, PhoneTypeOK
  <1>6. CheckoutsExist'
    BY <1>1, <1>2, <1>3 DEF PhoneIInv, CheckoutsExist, UnderWay
  <1>7. ASSUME ~wandered'
        PROVE  OneAttempt' /\ WorksForBag' /\ PaidIsKept' /\ PaidOnce'
    <2>1. ~wandered /\ OneAttempt /\ WorksForBag /\ PaidIsKept /\ PaidOnce
      BY <1>1, <1>7 DEF PhoneIInv
    <2>2. /\ bag # Empty /\ attempt[a].bag = bag /\ OfThisBag(attempt[a].checkout)
          /\ \A b \in Attempts : b # a => ~UnderWay(b)
      BY <2>1, TheAttempt
    <2>3. OneAttempt' /\ PaidOnce'
      BY <1>1, <1>2, <2>1 DEF OneAttempt, PaidOnce, UnderWay
    <2>4. WorksForBag'
      BY <1>1, <1>2, <2>1, <2>2 DEF WorksForBag, UnderWay, OfThisBag
    <2>5. PaidIsKept'
      BY <1>1, <1>2, <2>1, <2>2 DEF PaidIsKept, UnderWay
    <2> QED
      BY <2>3, <2>4, <2>5
  <1> QED
    BY <1>5, <1>6, <1>7 DEF PhoneIInv

(* The attempt is over, and what is kept is its checkout, unless the bag has *)
(* been paid and emptied or nothing of it has been paid.                     *)
LEMMA StopsWell ==
    ASSUME PhoneIInv, PhoneNext, NEW a \in Attempts, UnderWay(a), Over(a),
           SameCheckouts,
           \/ retry' \in {0, retry}
           \/ retry' = attempt[a].checkout /\ retry' \in DOMAIN checkouts,
           sheet' = sheet, basket' = basket, bag' \in {bag, Empty},
           active' \subseteq DOMAIN checkouts,
           phoneFaults' \in 0..MaxPhoneFaults,
           ~wandered =>
              /\ retry' = 0 \/ attempt[a].pc # "create"
              /\ PaidOnce' /\ (bag' = Empty => retry' = 0)
              /\ bag' # Empty => \A d \in DOMAIN checkouts :
                    checkouts'[d].paid /\ checkouts[d].basket = basket => retry' = d
    PROVE  PhoneIInv'
  <1>1. attempt' = [attempt EXCEPT ![a] = Idle] /\ mounted' = mounted \ {a} /\ UNCHANGED wandered
    BY DEF Over
  <1>2. /\ attempt' \in [Attempts -> PhoneAttempts] /\ attempt'[a].pc = "idle"
        /\ \A b \in Attempts : b # a => attempt'[b] = attempt[b]
    BY <1>1, AttemptMoves, NoAttempt DEF PhoneIInv
  <1>3. /\ DOMAIN checkouts' = DOMAIN checkouts
        /\ \A d \in DOMAIN checkouts :
              /\ checkouts'[d].basket = checkouts[d].basket
              /\ checkouts'[d].bag = checkouts[d].bag
    BY DEF SameCheckouts
  <1>4. retry' \in Known /\ retry' \in {0} \cup DOMAIN checkouts
    BY DraftsNamed DEF PhoneIInv, PhoneTypeOK, CheckoutsExist
  <1>5. PhoneTypeOK'
    BY <1>1, <1>2, <1>3, <1>4, FlagsOK DEF PhoneIInv, PhoneTypeOK, SameCheckouts
  <1>6. CheckoutsExist'
    BY <1>1, <1>2, <1>3, <1>4 DEF PhoneIInv, CheckoutsExist, UnderWay
  <1>7. ASSUME ~wandered'
        PROVE  OneAttempt' /\ WorksForBag' /\ PaidIsKept' /\ PaidOnce'
    <2>1. ~wandered /\ OneAttempt /\ WorksForBag /\ PaidIsKept
      BY <1>1, <1>7 DEF PhoneIInv
    <2>2. /\ bag # Empty
          /\ attempt[a].pc \notin {"idle", "create"} => OfThisBag(attempt[a].checkout)
          /\ \A b \in Attempts : b # a => ~UnderWay(b)
      BY <2>1, TheAttempt
    <2>3. \A b \in Attempts : attempt'[b].pc = "idle"
      BY <1>2, <2>2 DEF UnderWay
    <2>4. OneAttempt'
      BY <1>1, <2>1, <2>3 DEF OneAttempt, UnderWay
    <2>5. retry' # 0 => OfThisBag(retry')
      BY <2>1, <2>2 DEF WorksForBag, UnderWay
    <2>6. retry' # 0 => retry' \in DOMAIN checkouts /\ bag' = bag
      BY <1>4, <2>1
    <2>7. (retry # 0 => OfThisBag(retry))'
      BY <1>3, <2>5, <2>6 DEF OfThisBag
    <2>8. WorksForBag'
      BY <2>1, <2>3, <2>7 DEF WorksForBag, UnderWay
    <2>9. PaidIsKept'
      BY <1>3, <2>1, <2>3 DEF PaidIsKept, UnderWay
    <2> QED
      BY <2>1, <2>4, <2>8, <2>9
  <1> QED
    BY <1>5, <1>6, <1>7 DEF PhoneIInv

(* Over before anything of the bag is paid: what is kept does not matter.    *)
LEMMA StopsAtNothing ==
    ASSUME PhoneIInv, PhoneNext, NEW a \in Attempts, UnderWay(a), Over(a), retry' = 0,
           UNCHANGED <<bag, basket, sheet, checkouts, active>>,
           phoneFaults' \in 0..MaxPhoneFaults,
           ~wandered => \A d \in DOMAIN checkouts :
                           ~(checkouts[d].paid /\ checkouts[d].basket = basket)
    PROVE  PhoneIInv'
  <1>1. SameCheckouts /\ active' \subseteq DOMAIN checkouts
    BY CheckoutsStay DEF PhoneIInv, PhoneTypeOK
  <1>2. ~wandered => PaidOnce'
    BY DEF PhoneIInv, PaidOnce
  <1> QED
    BY <1>1, <1>2, StopsWell

(* Over, and its checkout is kept: the one that is paid, if any is.          *)
LEMMA StopsKeeping ==
    ASSUME PhoneIInv, PhoneNext, NEW a \in Attempts, UnderWay(a), attempt[a].pc # "create",
           Over(a), retry' = attempt[a].checkout,
           UNCHANGED <<bag, basket, sheet, checkouts, active>>,
           phoneFaults' \in 0..MaxPhoneFaults
    PROVE  PhoneIInv'
  <1>1. SameCheckouts /\ active' \subseteq DOMAIN checkouts
    BY CheckoutsStay DEF PhoneIInv, PhoneTypeOK
  <1>2. ~wandered => PaidOnce'
    BY DEF PhoneIInv, PaidOnce
  <1>3. attempt[a].checkout \in DOMAIN checkouts /\ (~wandered => bag # Empty)
    BY TheAttempt DEF UnderWay
  <1>4. ~wandered => \A d \in DOMAIN checkouts :
                        checkouts[d].paid /\ checkouts[d].basket = basket => attempt[a].checkout = d
    BY <1>3 DEF PhoneIInv, PaidIsKept
  <1>5. bag' = Empty /\ ~wandered => FALSE
    BY <1>3
  <1> QED
    BY <1>1, <1>2, <1>3, <1>4, <1>5, StopsWell

LEMMA CreateSteps ==
    ASSUME PhoneIInv, PhoneNext, NEW a \in Attempts, QuoteAndCreate(a)
    PROVE  PhoneIInv'
  <1>1. /\ attempt[a].pc = "create" /\ UnderWay(a) /\ UNCHANGED <<sheet, active>>
    BY DEF QuoteAndCreate, AtStep, UnderWay
  <1>2. /\ basket # 0 /\ attempt[a].bag \in Contents /\ attempt[a] \in PhoneAttempts
        /\ ~wandered => /\ bag # Empty /\ attempt[a].bag = bag
                        /\ mounted = {a} /\ \A b \in Attempts : b # a => ~UnderWay(b)
    BY <1>1, TheAttempt
  (* While an attempt creates a checkout, none of this bag is paid. *)
  <1>3. ~wandered => \A d \in DOMAIN checkouts :
                        ~(checkouts[d].paid /\ checkouts[d].basket = basket)
    BY <1>1, <1>2 DEF PhoneIInv, PaidIsKept
  <1>4. phoneFaults' \in 0..MaxPhoneFaults
    BY PhoneOK DEF QuoteAndCreate, PhoneFault, PhoneIInv, PhoneTypeOK
  <1>5. CASE Fail(a, 0) /\ UNCHANGED checkouts
    <2>1. /\ retry' = 0 /\ Over(a) /\ UNCHANGED <<bag, basket>>
      BY <1>5 DEF Fail, cartVars
    <2> QED
      BY <1>1, <1>3, <1>4, <1>5, <2>1, StopsAtNothing
  <1>6. ASSUME checkouts' = WithDraft(attempt[a].bag), active = {}, Len(checkouts) < MaxCheckouts,
               \/ Continue(a, [attempt[a] EXCEPT !.pc = "session", !.checkout = Len(checkouts')])
               \/ Fail(a, 0)
        PROVE  PhoneIInv'
    <2>1. /\ checkouts' \in Seq(PhoneCheckouts)
          /\ Len(checkouts') = Len(checkouts) + 1
          /\ DOMAIN checkouts' = DOMAIN checkouts \cup {Len(checkouts')}
          /\ Len(checkouts') \notin DOMAIN checkouts
          /\ \A d \in DOMAIN checkouts :
                /\ checkouts'[d].basket = checkouts[d].basket
                /\ checkouts'[d].bag = checkouts[d].bag
                /\ checkouts'[d].paid = checkouts[d].paid
          /\ checkouts'[Len(checkouts')].basket = basket
          /\ checkouts'[Len(checkouts')].bag = attempt[a].bag
          /\ ~checkouts'[Len(checkouts')].paid
      BY <1>2, <1>6, DraftMade DEF PhoneIInv
    <2>2. Len(checkouts') <= MaxCheckouts /\ Len(checkouts') \in Known /\ Len(checkouts') # 0
      BY <1>6, <2>1, DraftsNamed, PhoneOK DEF Known, PhoneIInv
    <2>3. PICK n \in Known : n = Len(checkouts')
      BY <2>2
    <2>4. PICK x \in PhoneAttempts :
             /\ attempt' = [attempt EXCEPT ![a] = x]
             /\ \/ /\ x.pc = "session" /\ x.checkout = n /\ x.bag = attempt[a].bag
                   /\ UNCHANGED <<retry, mounted>>
                \/ x.pc = "idle" /\ retry' = 0 /\ mounted' = mounted \ {a}
             /\ UNCHANGED <<bag, basket, wandered>>
      <3>1. CASE Continue(a, [attempt[a] EXCEPT !.pc = "session", !.checkout = Len(checkouts')])
        <4>0. PICK z \in PhoneAttempts : z = attempt[a]
          BY <1>2
        <4>1. PICK x \in PhoneAttempts :
                 /\ x = [z EXCEPT !.pc = "session", !.checkout = n]
                 /\ x.pc = "session" /\ x.checkout = n /\ x.bag = z.bag
          BY AttemptFor
        <4>2. /\ attempt' = [attempt EXCEPT ![a] = x]
              /\ UNCHANGED <<bag, basket, retry, mounted, wandered>>
          BY <3>1, <2>3, <4>0, <4>1 DEF Continue, cartVars
        <4> QED
          BY <4>0, <4>1, <4>2
      <3>2. CASE Fail(a, 0)
        BY <3>2, NoAttempt DEF Fail, Over, cartVars
      <3> QED
        BY <1>6, <3>1, <3>2
    <2>5. /\ attempt' \in [Attempts -> PhoneAttempts] /\ attempt'[a] = x
          /\ \A b \in Attempts : b # a => attempt'[b] = attempt[b]
      BY <2>4, AttemptMoves DEF PhoneIInv
    <2>6. PhoneTypeOK'
      BY <1>1, <1>4, <2>1, <2>2, <2>4, <2>5, FlagsOK, DraftsNamed DEF PhoneIInv, PhoneTypeOK
    <2>7. CheckoutsExist'
      <3>1. /\ (bag # Empty => basket # 0)'
            /\ (retry \in {0} \cup DOMAIN checkouts /\ sheet \in {0} \cup DOMAIN checkouts)'
        BY <1>1, <2>1, <2>4 DEF PhoneIInv, CheckoutsExist
      <3>2. (\A c \in DOMAIN checkouts : checkouts[c].basket <= basket)'
        BY <2>1, <2>4 DEF PhoneIInv, CheckoutsExist, PhoneTypeOK
      <3>3. x.pc # "idle" => x.bag # Empty /\ x.checkout = n
        BY <1>2, <2>4, PhoneOK
      <3>4. x.pc \in {"session", "idle"}
        BY <2>4
      <3> QED
        BY <1>1, <1>2, <2>1, <2>3, <2>4, <2>5, <3>1, <3>2, <3>3, <3>4
           DEF PhoneIInv, CheckoutsExist, UnderWay
    <2>8. ASSUME ~wandered'
          PROVE  OneAttempt' /\ WorksForBag' /\ PaidIsKept' /\ PaidOnce'
      <3>1. ~wandered /\ OneAttempt /\ WorksForBag /\ PaidOnce
        BY <2>4, <2>8 DEF PhoneIInv
      <3>2. OneAttempt'
        BY <1>1, <1>2, <2>4, <2>5, <3>1 DEF OneAttempt, UnderWay
      <3>3. PaidOnce'
        BY <2>1, <3>1 DEF PaidOnce
      <3>4. PaidIsKept'
        BY <1>3, <2>1, <2>4, <3>1 DEF PaidIsKept
      <3>5. retry' # 0 => retry \in DOMAIN checkouts /\ retry' = retry /\ OfThisBag(retry)
        BY <2>4, <3>1 DEF PhoneIInv, WorksForBag, CheckoutsExist
      <3>6. retry' # 0 => OfThisBag(retry)'
        BY <2>1, <2>4, <3>5 DEF OfThisBag
      <3>7. \A b \in Attempts : attempt'[b].pc # "idle" => b = a /\ x.pc = "session"
        BY <1>2, <2>4, <2>5, <3>1 DEF UnderWay
      <3>8. (checkouts[n].basket = basket /\ checkouts[n].bag = bag)'
        BY <1>2, <2>1, <2>3, <2>4, <3>1
      <3>9. x.pc = "session" => x.bag = bag /\ x.checkout = n
        BY <1>2, <2>4, <3>1
      <3>10. WorksForBag'
        BY <1>2, <2>4, <2>5, <3>1, <3>6, <3>7, <3>8, <3>9 DEF WorksForBag, UnderWay, OfThisBag
      <3> QED
        BY <3>2, <3>3, <3>4, <3>10
    <2> QED
      BY <2>6, <2>7, <2>8 DEF PhoneIInv
  <1> QED
    BY <1>5, <1>6 DEF QuoteAndCreate

LEMMA SessionSteps ==
    ASSUME PhoneIInv, PhoneNext, NEW a \in Attempts, OpenPaymentSession(a)
    PROVE  PhoneIInv'
  <1>1. attempt[a].pc = "session" /\ UnderWay(a) /\ UNCHANGED <<sheet, checkouts, active>>
    BY DEF OpenPaymentSession, AtStep, UnderWay, serverVars
  <1>2. phoneFaults' \in 0..MaxPhoneFaults
    BY PhoneOK DEF OpenPaymentSession, PhoneFault, PhoneIInv, PhoneTypeOK
  <1>3. CASE GoTo(a, "init")
    <2>0. PICK z \in PhoneAttempts : z = attempt[a]
      BY <1>1, TheAttempt
    <2>1. PICK x \in PhoneAttempts :
             /\ x = [z EXCEPT !.pc = "init"] /\ x.pc = "init"
             /\ x.checkout = z.checkout /\ x.bag = z.bag
      BY AttemptAt
    <2>2. Continue(a, x)
      BY <1>3, <2>0, <2>1 DEF GoTo
    <2> QED
      BY <1>1, <1>2, <2>0, <2>1, <2>2, GoesOn
  <1>4. CASE Fail(a, attempt[a].checkout)
    <2>1. retry' = attempt[a].checkout /\ Over(a) /\ UNCHANGED <<bag, basket>>
      BY <1>4 DEF Fail, cartVars
    <2> QED
      BY <1>1, <1>2, <2>1, StopsKeeping
  <1> QED
    BY <1>3, <1>4 DEF OpenPaymentSession

LEMMA SheetSteps ==
    ASSUME PhoneIInv, PhoneNext, NEW a \in Attempts, InitSheet(a) \/ InitStripeFails(a)
    PROVE  PhoneIInv'
  <1>1. attempt[a].pc = "init" /\ UnderWay(a) /\ UNCHANGED <<checkouts, active>>
    BY DEF InitSheet, InitStripeFails, AtStep, UnderWay, serverVars
  <1>2. phoneFaults' \in 0..MaxPhoneFaults
    BY PhoneOK DEF InitSheet, InitStripeFails, PhoneFault, PhoneIInv, PhoneTypeOK
  <1>3. CASE /\ ~checkouts[attempt[a].checkout].paid /\ sheet' = attempt[a].checkout
             /\ GoTo(a, "present")
    <2>1. PICK z \in PhoneAttempts : z = attempt[a]
      BY <1>1, TheAttempt
    <2>2. PICK x \in PhoneAttempts :
             /\ x = [z EXCEPT !.pc = "present"] /\ x.pc = "present"
             /\ x.checkout = z.checkout /\ x.bag = z.bag
      BY AttemptAt
    <2>3. Continue(a, x)
      BY <1>3, <2>1, <2>2 DEF GoTo
    <2> QED
      BY <1>1, <1>2, <1>3, <2>1, <2>2, <2>3, GoesOn
  <1>4. CASE KeepForRetry(a) /\ UNCHANGED sheet
    <2>1. retry' = attempt[a].checkout /\ Over(a) /\ UNCHANGED <<bag, basket>>
      BY <1>4 DEF KeepForRetry, cartVars
    <2> QED
      BY <1>1, <1>2, <1>4, <2>1, StopsKeeping
  <1>5. CASE InitStripeFails(a)
    <2>1. Over(a) /\ UNCHANGED <<bag, basket, retry, sheet>>
      BY <1>5 DEF InitStripeFails, cartVars
    <2>2. SameCheckouts /\ active' \subseteq DOMAIN checkouts
      BY <1>1, CheckoutsStay DEF PhoneIInv, PhoneTypeOK
    <2>3. ~wandered => PaidOnce'
      BY <1>1 DEF PhoneIInv, PaidOnce
    <2>4. ~wandered => bag # Empty /\ \A b \in Attempts : b # a => ~UnderWay(b)
      BY <1>1, TheAttempt
    <2>5. ~wandered => \A d \in DOMAIN checkouts :
                          checkouts[d].paid /\ checkouts[d].basket = basket => retry = d
      BY <1>1, <2>4 DEF PhoneIInv, PaidIsKept, UnderWay
    <2>6. ~wandered => bag' # Empty
      BY <2>1, <2>4
    <2>7. ~wandered => \A d \in DOMAIN checkouts :
                          checkouts'[d].paid /\ checkouts[d].basket = basket => retry' = d
      BY <1>1, <2>1, <2>5
    <2> QED
      BY <1>1, <1>2, <2>1, <2>2, <2>3, <2>6, <2>7, StopsWell
  <1> QED
    BY <1>3, <1>4, <1>5 DEF InitSheet

LEMMA PresentSteps ==
    ASSUME PhoneIInv, PhoneNext, NEW a \in Attempts, PresentSheet(a) \/ LeaveSheet(a)
    PROVE  PhoneIInv'
  <1>1. /\ attempt[a].pc \in {"present", "pay"} /\ UnderWay(a)
        /\ UNCHANGED <<sheet, checkouts, active, phoneFaults>>
    BY DEF PresentSheet, LeaveSheet, AtStep, UnderWay, serverVars
  <1>2. phoneFaults' \in 0..MaxPhoneFaults
    BY <1>1 DEF PhoneIInv, PhoneTypeOK
  <1>3. CASE KeepForRetry(a)
    <2>1. retry' = attempt[a].checkout /\ Over(a) /\ UNCHANGED <<bag, basket>>
      BY <1>3 DEF KeepForRetry, cartVars
    <2> QED
      BY <1>1, <1>2, <2>1, StopsKeeping
  <1>4. CASE /\ attempt[a].pc = "present" /\ ~checkouts[sheet].paid
             /\ Continue(a, [attempt[a] EXCEPT !.pc = "pay", !.sheet = sheet])
    <2>1. PICK z \in PhoneAttempts : z = attempt[a]
      BY <1>1, TheAttempt
    <2>2. PICK shown \in Known : shown = sheet
      BY DEF PhoneIInv, PhoneTypeOK
    <2>3. PICK x : x = [z EXCEPT !.pc = "pay", !.sheet = shown]
      OBVIOUS
    <2>4. /\ x \in PhoneAttempts /\ x.pc = "pay"
          /\ x.bag = z.bag /\ x.checkout = z.checkout /\ x.sheet = shown
      BY <2>3 DEF PhoneAttempts
    <2>5. Continue(a, x)
      BY <1>4, <2>1, <2>2, <2>3
    <2>6. shown \in DOMAIN checkouts /\ (~wandered => shown = x.checkout)
      BY <1>4, <2>1, <2>2, <2>4 DEF PhoneIInv, CheckoutsExist, WorksForBag
    <2> QED
      BY <1>1, <1>2, <1>4, <2>1, <2>2, <2>4, <2>5, <2>6, GoesOn
  <1> QED
    BY <1>3, <1>4 DEF PresentSheet, LeaveSheet, AtStep

LEMMA PaySteps ==
    ASSUME PhoneIInv, PhoneNext, NEW a \in Attempts, PaySheet(a)
    PROVE  PhoneIInv'
  <1>1. /\ attempt[a].pc = "pay" /\ UnderWay(a) /\ UNCHANGED <<sheet, active>>
        /\ checkouts' = [checkouts EXCEPT ![attempt[a].sheet].paid = TRUE]
    BY DEF PaySheet, AtStep, UnderWay
  <1>2. phoneFaults' \in 0..MaxPhoneFaults
    BY PhoneOK DEF PaySheet, PhoneFault, PhoneIInv, PhoneTypeOK
  <1>3. PICK s \in DOMAIN checkouts : s = attempt[a].sheet
    BY <1>1 DEF PhoneIInv, CheckoutsExist
  <1>4. SameCheckouts /\ PaidStays(s) /\ checkouts'[s].paid
    BY <1>1, <1>3, PaymentSucceeds DEF PhoneIInv
  <1>5. /\ DOMAIN checkouts' = DOMAIN checkouts
        /\ \A d \in DOMAIN checkouts :
              /\ checkouts'[d].basket = checkouts[d].basket
              /\ checkouts'[d].bag = checkouts[d].bag
              /\ d # s => checkouts'[d].paid = checkouts[d].paid
    BY <1>4 DEF SameCheckouts, PaidStays
  <1>6. active' \subseteq DOMAIN checkouts
    BY <1>1 DEF PhoneIInv, PhoneTypeOK
  <1>7. /\ attempt[a] \in PhoneAttempts /\ attempt[a].checkout \in DOMAIN checkouts
        /\ basket # 0 /\ attempt[a].bag \in Contents
    BY <1>1, TheAttempt
  (* Nothing of the bag was paid, and now its one checkout is. *)
  <1>8. ASSUME ~wandered
        PROVE  /\ bag # Empty /\ attempt[a].bag = bag
               /\ mounted = {a} /\ \A b \in Attempts : b # a => ~UnderWay(b)
               /\ s = attempt[a].checkout /\ OfThisBag(s)
               /\ \A d \in DOMAIN checkouts :
                     ~(checkouts[d].paid /\ checkouts[d].basket = basket)
    <2>1. /\ bag # Empty /\ attempt[a].bag = bag
          /\ mounted = {a} /\ \A b \in Attempts : b # a => ~UnderWay(b)
          /\ OfThisBag(attempt[a].checkout)
      BY <1>1, <1>8, TheAttempt
    <2>2. s = attempt[a].checkout
      BY <1>1, <1>3, <1>8 DEF PhoneIInv, WorksForBag
    <2>3. \A d \in DOMAIN checkouts : ~(checkouts[d].paid /\ checkouts[d].basket = basket)
      BY <1>1, <1>8, <2>1 DEF PhoneIInv, PaidIsKept
    <2> QED
      BY <2>1, <2>2, <2>3
  <1>9. ASSUME ~wandered
        PROVE  /\ PaidOnce'
               /\ \A d \in DOMAIN checkouts :
                     checkouts'[d].paid /\ checkouts[d].basket = basket => d = s
    <2>1. \A d \in DOMAIN checkouts :
             checkouts'[d].paid /\ checkouts[d].basket = basket => d = s
      BY <1>5, <1>8, <1>9
    <2>2. checkouts[s].basket = basket
      BY <1>8, <1>9 DEF OfThisBag
    <2>3. PaidOnce'
      BY <1>5, <1>9, <2>1, <2>2 DEF PhoneIInv, PaidOnce
    <2> QED
      BY <2>1, <2>3
  <1>10. CASE KeepForRetry(a)
    <2>1. retry' = attempt[a].checkout /\ Over(a) /\ UNCHANGED <<bag, basket>>
      BY <1>10 DEF KeepForRetry, cartVars
    <2>2. ~wandered => /\ bag' # Empty
                       /\ \A d \in DOMAIN checkouts :
                             checkouts'[d].paid /\ checkouts[d].basket = basket => retry' = d
      BY <1>8, <1>9, <2>1
    <2> QED
      BY <1>1, <1>2, <1>4, <1>6, <1>7, <1>9, <2>1, <2>2, StopsWell
  <1>11. CASE GoTo(a, "finalize")
    <2>1. PICK z \in PhoneAttempts : z = attempt[a]
      BY <1>7
    <2>2. PICK x \in PhoneAttempts :
             /\ x = [z EXCEPT !.pc = "finalize"] /\ x.pc = "finalize"
             /\ x.checkout = z.checkout /\ x.bag = z.bag
      BY AttemptAt
    <2>3. /\ attempt' = [attempt EXCEPT ![a] = x]
          /\ UNCHANGED <<bag, basket, retry, failure, mounted, wandered>>
      BY <1>11, <2>1, <2>2 DEF GoTo, Continue, cartVars
    <2>4. /\ attempt' \in [Attempts -> PhoneAttempts] /\ attempt'[a] = x
          /\ \A b \in Attempts : b # a => attempt'[b] = attempt[b]
      BY <2>3, AttemptMoves DEF PhoneIInv
    <2>5. x.checkout \in DOMAIN checkouts /\ x.bag # Empty
      BY <1>7, <2>1, <2>2, PhoneOK
    <2>6. PhoneTypeOK'
      BY <1>1, <1>2, <1>4, <1>5, <2>3, <2>4 DEF PhoneIInv, PhoneTypeOK, SameCheckouts
    <2>7. CheckoutsExist'
      BY <1>1, <1>5, <1>7, <2>2, <2>3, <2>4, <2>5 DEF PhoneIInv, CheckoutsExist, UnderWay
    <2>8. ASSUME ~wandered'
          PROVE  OneAttempt' /\ WorksForBag' /\ PaidIsKept' /\ PaidOnce'
      <3>1. ~wandered /\ OneAttempt /\ WorksForBag /\ PaidIsKept
        BY <2>3, <2>8 DEF PhoneIInv
      <3>2. OneAttempt'
        BY <1>1, <2>2, <2>3, <2>4, <3>1 DEF OneAttempt, UnderWay
      <3>3. (retry # 0 => OfThisBag(retry))'
        <4>1. retry # 0 => retry \in DOMAIN checkouts /\ OfThisBag(retry)
          BY <3>1 DEF PhoneIInv, WorksForBag, CheckoutsExist
        <4> QED
          BY <1>5, <2>3, <4>1 DEF OfThisBag
      <3>4. OfThisBag(x.checkout)'
        BY <1>5, <1>8, <2>1, <2>2, <2>3, <3>1 DEF OfThisBag
      <3>5. \A b \in Attempts : b # a => attempt'[b].pc = "idle"
        BY <1>8, <2>4, <3>1 DEF UnderWay
      <3>6. WorksForBag'
        BY <1>8, <2>1, <2>2, <2>3, <2>4, <3>1, <3>3, <3>4, <3>5 DEF WorksForBag, UnderWay
      <3>7. PaidIsKept'
        BY <1>5, <1>8, <1>9, <2>1, <2>2, <2>3, <2>4, <3>1, <3>5 DEF PaidIsKept, UnderWay
      <3> QED
        BY <1>9, <3>1, <3>2, <3>6, <3>7
    <2> QED
      BY <2>6, <2>7, <2>8 DEF PhoneIInv
  <1> QED
    BY <1>10, <1>11 DEF PaySheet

LEMMA FinalizeSteps ==
    ASSUME PhoneIInv, PhoneNext, NEW a \in Attempts, FinalizePaid(a)
    PROVE  PhoneIInv'
  <1>1. /\ attempt[a].pc = "finalize" /\ UnderWay(a) /\ Over(a)
        /\ bag' = Empty /\ retry' = 0 /\ UNCHANGED <<basket, sheet>>
    BY DEF FinalizePaid, AtStep, UnderWay
  <1>2. phoneFaults' \in 0..MaxPhoneFaults
    BY PhoneOK DEF FinalizePaid, PhoneFault, PhoneIInv, PhoneTypeOK
  <1>3. PICK c \in DOMAIN checkouts : c = attempt[a].checkout
    BY <1>1, TheAttempt
  <1>4. UNCHANGED <<checkouts, active>> \/ Promote(c)
    BY <1>3 DEF FinalizePaid, serverVars
  <1>5. SameCheckouts /\ SamePaid
    BY <1>4, CheckoutsStay, StatusChanges DEF Promote, Promoted, PhoneIInv
  <1>6. active' \subseteq DOMAIN checkouts
    BY <1>4 DEF Promote, PhoneIInv, PhoneTypeOK
  <1>7. \A d \in DOMAIN checkouts :
           /\ checkouts'[d].basket = checkouts[d].basket
           /\ checkouts'[d].paid = checkouts[d].paid
    BY <1>5 DEF SameCheckouts, SamePaid
  <1>8. ~wandered => PaidOnce'
    BY <1>5, <1>7 DEF PhoneIInv, PaidOnce, SameCheckouts
  <1> QED
    BY <1>1, <1>2, <1>5, <1>6, <1>8, StopsWell

(* Whatever is lost on the way and however often the customer tries again,   *)
(* while she stays with her bag one attempt is under way, and a payment      *)
(* taken for the bag is the one every later attempt comes back to.           *)
THEOREM PhoneInductive == PhoneSpec => []PhoneIInv
  <1>1. ASSUME PhoneIInv, [PhoneNext]_phoneVars
        PROVE  PhoneIInv'
    <2>1. CASE UNCHANGED phoneVars
      <3>1. UNCHANGED <<bag, basket, retry, failure, attempt, mounted, sheet, checkouts,
                        active, phoneFaults, wandered>>
        BY <2>1 DEF phoneVars, cartVars, serverVars
      <3>2. PhoneTypeOK'
        BY <1>1, <3>1 DEF PhoneIInv, PhoneTypeOK
      <3>3. CheckoutsExist'
        BY <1>1, <3>1 DEF PhoneIInv, CheckoutsExist, UnderWay
      <3>4. ~wandered' => OneAttempt' /\ WorksForBag' /\ PaidIsKept' /\ PaidOnce'
        BY <1>1, <3>1 DEF PhoneIInv, OneAttempt, WorksForBag, PaidIsKept, PaidOnce, UnderWay,
                          OfThisBag
      <3> QED
        BY <3>2, <3>3, <3>4 DEF PhoneIInv
    <2>2. CASE PhoneNext
      <3>1. CASE \/ \E b \in Contents : ChangeBag(b)
                 \/ ClearBag \/ ReturnToCart \/ DismissCheckout
        BY <1>1, <2>2, <3>1, ScreenSteps
      <3>2. CASE \E a \in Attempts : PressPay(a) \/ AttemptStep(a) \/ LeaveSheet(a) \/ PaySheet(a)
        <4>1. PICK a \in Attempts : PressPay(a) \/ AttemptStep(a) \/ LeaveSheet(a) \/ PaySheet(a)
          BY <3>2
        <4> QED
          BY <1>1, <2>2, <4>1, PressSteps, CreateSteps, SessionSteps, SheetSteps,
             PresentSteps, PaySteps, FinalizeSteps DEF AttemptStep
      <3>3. CASE \E c \in DOMAIN checkouts :
                    PromotedByWebhook(c) \/ DraftLapses(c) \/ OrderEnds(c)
        BY <1>1, <2>2, <3>3, ServiceSteps
      <3> QED
        BY <2>2, <3>1, <3>2, <3>3 DEF PhoneNext
    <2> QED
      BY <1>1, <2>1, <2>2
  <1> QED
    BY <1>1, PhoneIInit, PTL DEF PhoneSpec

(* Checkouts, attempts and the bag are what the app and the services keep:   *)
(* no more drafts than there are, and only drafts are under way.             *)
THEOREM PhoneTypeCorrect == PhoneSpec => []PhoneTypeOK
  <1>1. PhoneIInv => PhoneTypeOK
    BY DEF PhoneIInv
  <1> QED
    BY <1>1, PhoneInductive, PTL

(* A customer who stays with her bag and on the screen is charged once for   *)
(* it (checkout.test.ts:337).                                                *)
THEOREM PaidOncePerBagAlways == PhoneSpec => []PaidOncePerBag
  <1>1. PhoneIInv => PaidOncePerBag
    BY DEF PhoneIInv, PaidOnce, PaidOncePerBag
  <1> QED
    BY <1>1, PhoneInductive, PTL
=============================================================================
