\* One request of the order in flight at a time: crashes, redeliveries and
\* every order of requests, but no overlap.
CONSTANTS
    h1 = h1
    Handlers = {h1}
    FulfillmentModes = {"staff", "time_based"}
    RedeemsPoints = TRUE
    EarnsPoints = TRUE
    Discounted = TRUE
    CancelReasons = {"changed my mind", "out of milk"}
    EarlyRefunds = FALSE
    MaxFailures = 2
    MaxDeclines = 1
SPECIFICATION FairSpec
PROPERTIES KeepsHistory RefundedOrderEnds CapturedPaymentSettles
CHECK_DEADLOCK FALSE
