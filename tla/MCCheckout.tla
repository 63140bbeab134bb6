------------------------------ MODULE MCCheckout ------------------------------
EXTENDS Checkout, TLC

CONSTANTS c1, c2, c3, latte, mocha

(* The customer may draw two checkouts for one quote, one for the other. *)
MCQuoteOf == [c \in Checkouts |-> IF c = c3 THEN mocha ELSE latte]

Symmetry == Permutations(Handlers) \cup Permutations({c1, c2})
=============================================================================
