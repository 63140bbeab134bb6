\* A payment overwritten by a cancellation that read the order before it.
CONSTANTS
    h1 = h1
    h2 = h2
    Handlers = {h1, h2}
    FulfillmentModes = {"staff"}
    RedeemsPoints = TRUE
    EarnsPoints = TRUE
    Discounted = TRUE
    CancelReasons = {"changed my mind"}
    EarlyRefunds = FALSE
    MaxFailures = 0
    MaxDeclines = 0
SPECIFICATION Spec
PROPERTIES PaidIsRefundedBeforeCanceled
CHECK_DEADLOCK FALSE
