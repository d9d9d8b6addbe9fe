SPECIFICATION Spec
SYMMETRY Symmetry1
VIEW View
CONSTANTS
    t1 = t1
    t2 = t2
    c1 = c1
    c2 = c2
    c3 = c3
    p1 = p1
    p2 = p2
    Threads = {t1, t2}
    Processes = {p1}
    ProcessOf <- OneProcess
    Clients = {c1, c2}
    Calls = {"qr", "phone", "logout"}
    Events = {"ban"}
    Disturbances = {}
    NoProcess = NoProcess
    NoClient = NoClient
INVARIANTS
    ReservationsAreOwned
    SessionsAreOwned
    OnePairing
PROPERTY
    KeepsPairingContract
