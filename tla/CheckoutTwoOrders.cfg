\* One request at a time; two checkouts of different carts.
CONSTANTS
    c1 = c1
    c2 = c2
    c3 = c3
    latte = latte
    mocha = mocha
    h1 = h1
    h2 = h2
    Nil = Nil
    Checkouts = {c1, c3}
    Quotes = {latte, mocha}
    QuoteOf <- MCQuoteOf
    Handlers = {h1}
    RedeemsPoints = TRUE
    Discounted = TRUE
    MaxFailures = 0
SPECIFICATION Spec
INVARIANTS OneActiveOrder
CHECK_DEADLOCK FALSE
