\* A declined attempt, then a payment that succeeds, one request at a time.
CONSTANTS
    h1 = h1
    Handlers = {h1}
    FulfillmentModes = {"staff"}
    RedeemsPoints = TRUE
    EarnsPoints = TRUE
    Discounted = TRUE
    CancelReasons = {"changed my mind"}
    EarlyRefunds = FALSE
    MaxFailures = 0
    MaxDeclines = 1
SPECIFICATION Spec
INVARIANTS DiscountRedeemedWhenPaid
CHECK_DEADLOCK FALSE
