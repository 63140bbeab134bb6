\* One watches an order; nothing fails.
CONSTANTS
    Parts = {"streams"}
    latte = latte
    Nil = Nil
    c1 = c1
    h1 = h1
    h2 = h2
    s1 = s1
    s2 = s2
    PushStatuses = {"PAID", "CANCELED"}
    Devices = {d1}
    Publishers = {p1, p2}
    Batches = {b1, b2}
    BatchSize = 1
    MaxPushFaults = 1
    Streams = {s1}
    KindsOfStreams <- MCKinds
    EventBuses = {TRUE}
    MaxOpenStreams = 1
    LastRevision = 2
    MaxStreamFaults = 0
    Nobody = Nobody
    Menus <- MCMenus
    Special = "special"
    ImportSlots = {1}
    MaxRetries = 1
    MaxSourceEdits = 0
    MaxImportFaults = 0
SPECIFICATION Spec
PROPERTIES TerminalClosesStream
CHECK_DEADLOCK FALSE
