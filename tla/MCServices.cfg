\* Small instances of the services that share no state, side by side.
CONSTANTS
    Parts = {"loyalty", "creation", "accounts", "team", "pricing", "hours",
             "app", "phone", "connect", "launch", "checkouts"}
    latte = latte
    mocha = mocha
    Nil = Nil
    c1 = c1
    c2 = c2
    h1 = h1
    Mutations <- MCMutations
    LoyaltySlots = {l1, l2}
    MaxLoyaltyDeaths = 1
    Carts = {latte, mocha}
    CreationSlots = {r1, r2}
    MaxOrders = 2
    MaxCreationDeaths = 1
    AccountSlots = {a1, a2}
    MaxRows = 4
    Emails = {ana, bo}
    TeamSlots = {t1}
    MaxTeamRows = 3
    UnitPrices <- MCUnitPrices
    Quantities = {1, 2}
    PointsAsked = {0, 100}
    TaxRates = {0, 825}
    CodeValues = {15, 60, 150}
    CodeCaps = {50}
    DayLength = 48
    ClockTimes = {0, 5, 40}
    DayLabels <- MCDayLabels
    ChangeAt = 14
    Offsets <- MCOffsets
    LastMoment = 340
    MaxTokens = 4
    MaxSessionFaults = 2
    Attempts = {p1, p2}
    Contents = {latte, mocha}
    MaxBaskets = 1
    MaxCheckouts = 2
    MaxPhoneFaults = 1
    Empty = Empty
    Sales = {x}
    ConnectSlots = {k1, k2}
    MaxAccounts = 2
    Claims = {"business"}
    Facts = {"items", "release"}
    StaffSlots = {u1}
    AdminSlots = {v1}
SPECIFICATION Spec
SYMMETRY Alike
INVARIANTS TypesOK LedgerIsExact CreatedWhole CredentialsUsedOnce
INVARIANTS OneOwnerOneStoreAccount NoWayBackIn QuoteAddsUp OpensWhenSaid
INVARIANTS DeviceFollowsSession PaidOncePerBag ChargesStayReachable ReservedOnlyOpen
PROPERTIES EndingsAreFinal LaunchIsApproved
CHECK_DEADLOCK FALSE
