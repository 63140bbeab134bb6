\* Two requests of the order overlap.
CONSTANTS
    h1 = h1
    h2 = h2
    Handlers = {h1, h2}
    FulfillmentModes = {"staff", "time_based"}
    RedeemsPoints = TRUE
    EarnsPoints = TRUE
    Discounted = TRUE
    CancelReasons = {"changed my mind", "out of milk"}
    EarlyRefunds = TRUE
    MaxFailures = 1
    MaxDeclines = 1
SPECIFICATION Spec
INVARIANTS TypeOK TimelineWellFormed PaidIsSettled CanceledAfterPaidIsUndone PointsUndoneOnlyAfterRefund
INVARIANTS PaymentIsRemembered
SYMMETRY Symmetry
CHECK_DEADLOCK FALSE
