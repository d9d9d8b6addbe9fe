SPECIFICATION Spec
SYMMETRY Symmetry2
VIEW View
CONSTANTS
    t1 = t1
    t2 = t2
    c1 = c1
    c2 = c2
    c3 = c3
    p1 = p1
    p2 = p2
    Threads = {t1, t2}
    Processes = {p1, p2}
    ProcessOf <- TwoProcesses
    Clients = {c1, c2}
    Calls = {"qr"}
    Events = {"pair"}
    Disturbances = {"lapse", "crash"}
    NoProcess = NoProcess
    NoClient = NoClient
PROPERTIES
    LateReleaseHarmless
    KeepsPairingContract
