---------------------------- MODULE CheckoutLife ----------------------------
(***************************************************************************)
(* What a customer may rely on: a quote has one open checkout at a time; a  *)
(* checkout becomes an order only once it is paid, however late, and just   *)
(* once; an order that is over stays over.                                  *)
(***************************************************************************)
CONSTANTS Checkouts, Quotes, QuoteOf

VARIABLES
    life,  \* of each checkout: "none", "OPEN", "EXPIRED", "active" or "over"
    paid   \* the checkouts whose payment Stripe has captured

Init ==
    /\ life = [c \in Checkouts |-> "none"]
    /\ paid = {}

Become(c, stage) ==
    /\ life' = [life EXCEPT ![c] = stage]
    /\ UNCHANGED paid

Open(c) ==
    /\ life[c] = "none"
    /\ \A d \in Checkouts : QuoteOf[d] = QuoteOf[c] => life[d] # "OPEN"
    /\ Become(c, "OPEN")

Expire(c) == life[c] = "OPEN" /\ Become(c, "EXPIRED")

Pay(c) ==
    /\ life[c] \in {"OPEN", "EXPIRED"}
    /\ paid' = paid \cup {c}
    /\ UNCHANGED life

Promote(c) ==
    /\ life[c] \in {"OPEN", "EXPIRED"}
    /\ c \in paid
    /\ Become(c, "active")

End(c) == life[c] = "active" /\ Become(c, "over")

Next ==
    \E c \in Checkouts : Open(c) \/ Expire(c) \/ Pay(c) \/ Promote(c) \/ End(c)

Spec == Init /\ [][Next]_<<life, paid>>
=============================================================================
