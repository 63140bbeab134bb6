----------------------------- MODULE OrderPricing -----------------------------
(***************************************************************************)
(* What a cart costs: buildQuote of services/orders/src/service.ts, while   *)
(* the shop edits the discount code the customer enters                     *)
(* (PUT /v1/orders/admin/discount-codes, packages/contracts/orders).        *)
(*                                                                         *)
(* Amounts are cents. Whether a code is valid for a customer and a day is   *)
(* DiscountTerms; here it is the amounts that matter.                       *)
(***************************************************************************)
EXTENDS Integers, FiniteSets

CONSTANTS
    UnitPrices,   \* customized prices of an item, negative ones included
    Quantities,   \* of a line
    PointsAsked,  \* loyalty points a customer asks to redeem
    TaxRates,     \* of the location, in basis points
    CodeValues,   \* of a discount code: percent or cents
    CodeCaps      \* maxDiscountCents, in cents

ASSUME PricingOK ==
    /\ UnitPrices \subseteq Int
    /\ Quantities \cup CodeValues \cup CodeCaps \subseteq Nat \ {0}
    /\ PointsAsked \cup TaxRates \subseteq Nat

VARIABLES
    code,    \* the row of the discount code
    quote    \* the last quote, or the answer that there is none

pricingVars == <<code, quote>>

CodeTypes == {"percent", "fixed_cents"}
Uncapped == 0
Keep == -1
Codes == [type : CodeTypes, value : CodeValues, cap : CodeCaps \cup {Uncapped}]
NoQuote == [made |-> FALSE]

Least(a, b) == IF a <= b THEN a ELSE b

(* createDiscountCodeRequestSchema. *)
Creatable(c) ==
    /\ c.type = "percent" => c.value <= 100
    /\ c.type = "fixed_cents" => c.cap = Uncapped

PricingInit ==
    /\ code \in {c \in Codes : Creatable(c)}
    /\ quote = NoQuote

-----------------------------------------------------------------------------
(* The discount of the code on a subtotal. *)

(* Mutant: the percentage is rounded to the nearest cent, over the cap. *)
CodeCentsRounded(c, subtotal) ==
    IF c.type = "fixed_cents" THEN Least(c.value, subtotal)
    ELSE Least((subtotal * c.value + 50) \div 100, subtotal)

CodeCents(c, subtotal) ==
    IF c.type = "fixed_cents" THEN Least(c.value, subtotal)
    ELSE LET uncapped == (subtotal * c.value) \div 100
         IN  Least(IF c.cap = Uncapped THEN uncapped ELSE Least(uncapped, c.cap), subtotal)

(* Math.round *)
TaxCents(base, rate) == (2 * base * rate + 10000) \div 20000

Quoted(subtotal, c, points, rate) ==
    LET codeCents == CodeCents(c, subtotal)
        applied == Least(points, subtotal - codeCents)
        base == subtotal - codeCents - applied
        tax == TaxCents(base, rate)
    IN  [made |-> TRUE, subtotal |-> subtotal, by |-> c, codeCents |-> codeCents,
         asked |-> points, points |-> applied, rate |-> rate, tax |-> tax,
         total |-> base + tax]

(* A cart of two lines. orderQuoteSchema refuses a line of negative price,  *)
(* which options may bring about.                                           *)
Quote(prices, quantities, points, rate) ==
    /\ quote' = IF prices[1] < 0 \/ prices[2] < 0 THEN NoQuote
                ELSE Quoted(prices[1] * quantities[1] + prices[2] * quantities[2],
                            code, points, rate)
    /\ UNCHANGED code

(* updateDiscountCodeRequestSchema looks at the fields of the request; the  *)
(* row keeps the others.                                                    *)
UpdateCode(type, value, cap) ==
    /\ type = "percent" => value <= 100
    /\ type = "fixed_cents" => cap \in {Keep, Uncapped}
    /\ code' = [type |-> IF type = "keep" THEN code.type ELSE type,
                value |-> IF value = Keep THEN code.value ELSE value,
                cap |-> IF cap = Keep THEN code.cap ELSE cap]
    /\ UNCHANGED quote

PricingNext ==
    \/ \E prices \in [1..2 -> UnitPrices], quantities \in [1..2 -> Quantities],
          points \in PointsAsked, rate \in TaxRates :
              Quote(prices, quantities, points, rate)
    \/ \E type \in CodeTypes \cup {"keep"}, value \in CodeValues \cup {Keep},
          cap \in CodeCaps \cup {Uncapped, Keep} : UpdateCode(type, value, cap)

PricingSpec == PricingInit /\ [][PricingNext]_pricingVars

-----------------------------------------------------------------------------
(* Properties.                                                              *)

PricingTypeOK ==
    /\ code \in Codes
    /\ quote.made => quote.subtotal \in Nat /\ quote.by \in Codes

(* The discount the code is worth, by what it says: no more than its value  *)
(* or its percentage of the subtotal, its cap, and the subtotal; less than  *)
(* a cent below the first of these.                                         *)
WorthOf(c, subtotal, cents) ==
    /\ cents <= subtotal
    /\ c.type = "percent" /\ c.cap # Uncapped => cents <= c.cap
    /\ LET hundredths == IF c.type = "percent" THEN subtotal * c.value ELSE 100 * c.value
       IN  /\ 100 * cents <= hundredths
           /\ \/ 100 * cents > hundredths - 100
              \/ cents = subtotal
              \/ c.type = "percent" /\ cents = c.cap

(* The tax of a rate on a base, to half a cent. *)
TaxOf(base, rate, cents) == 2 * (10000 * cents - base * rate) \in -9999..10000

(* Whatever the shop edits and the customer asks for, a quote adds up: the  *)
(* code and then the points take no more than the subtotal, points are      *)
(* spent only on what the code leaves, the tax is that of what is left, to  *)
(* half a cent, and nothing is ever negative.                               *)
QuoteAddsUp ==
    quote.made =>
        LET base == quote.subtotal - quote.codeCents - quote.points
        IN  /\ WorthOf(quote.by, quote.subtotal, quote.codeCents)
            /\ 0 <= quote.points /\ quote.points <= quote.asked
            /\ base >= 0 /\ (base > 0 => quote.points = quote.asked)
            /\ TaxOf(base, quote.rate, quote.tax)
            /\ quote.total = base + quote.tax
=============================================================================
