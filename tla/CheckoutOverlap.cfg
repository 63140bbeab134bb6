\* Two requests of the customer overlap: two checkouts for one quote.
CONSTANTS
    c1 = c1
    c2 = c2
    c3 = c3
    latte = latte
    mocha = mocha
    h1 = h1
    h2 = h2
    Nil = Nil
    Checkouts = {c1, c2}
    Quotes = {latte}
    QuoteOf <- MCQuoteOf
    Handlers = {h1, h2}
    RedeemsPoints = TRUE
    Discounted = TRUE
    MaxFailures = 1
SPECIFICATION Spec
INVARIANTS OrderIsSettled ConvertedHasOrder PaymentIsRemembered
PROPERTIES KeepsPromise
SYMMETRY Symmetry
CHECK_DEADLOCK FALSE
