\* One bag, one attempt at a time, and no call fails.
CONSTANTS
    Attempts = {p1}
    Contents = {latte}
    MaxBaskets = 1
    MaxCheckouts = 2
    MaxPhoneFaults = 0
    Empty = Empty
SPECIFICATION PersistentSpec
PROPERTIES TryAgainWorks
CHECK_DEADLOCK FALSE
