\* Small instances of what is sent, shown and settled sooner or later.
CONSTANTS
    Parts = {"outbox", "streams", "menus", "checkout"}
    latte = latte
    Nil = Nil
    c1 = c1
    h1 = h1
    h2 = h2
    s1 = s1
    s2 = s2
    PushStatuses = {"PAID", "CANCELED"}
    Devices = {d1}
    Publishers = {p1, p2}
    Batches = {b1, b2}
    BatchSize = 1
    MaxPushFaults = 1
    Streams = {s1, s2}
    KindsOfStreams <- MCKinds
    EventBuses = {TRUE, FALSE}
    MaxOpenStreams = 1
    LastRevision = 1
    MaxStreamFaults = 1
    Nobody = Nobody
    Menus <- MCMenus
    Special = "special"
    ImportSlots = {1, 2}
    MaxRetries = 1
    MaxSourceEdits = 1
    MaxImportFaults = 1
SPECIFICATION Spec
INVARIANTS TypesOK NotifiedOnce CapacityHonoured MenuIsOneImport KeepsPolling
PROPERTIES OutboxDrains LastIsShown PaidBecomesOrder SourceIsStored
CHECK_DEADLOCK FALSE
