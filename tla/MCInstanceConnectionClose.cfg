SPECIFICATION Spec
CONSTANTS
    t1 = t1
    t2 = t2
    c1 = c1
    c2 = c2
    c3 = c3
    p1 = p1
    p2 = p2
    Threads = {t1, t2}
    Processes = {p1}
    ProcessOf <- OneProcess
    Clients = {c1}
    Calls = {"restore", "close"}
    Events = {"login"}
    Disturbances = {}
    NoProcess = NoProcess
    NoClient = NoClient
INVARIANT
    ClosedMeansDisconnected

CHECK_DEADLOCK FALSE
