SPECIFICATION FairSpec
CONSTANTS
    p1 = p1
    w1 = w1
    w2 = w2
    Processes = {p1}
    Workers = {w1, w2}
    NoProcess = NoProcess
    MaxTries = 3
    Disturbances = {"crash", "overlap", "delete"}
INVARIANTS
    ResultOnce
    SuccessIsAtomic
    SnapshotsAreTimed
PROPERTIES
    NoSendAfterResult
    SnapshotsEnd
    KeepsOutboxContract
CHECK_DEADLOCK FALSE
