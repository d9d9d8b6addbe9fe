SPECIFICATION Spec
SYMMETRY Symmetry
CONSTANTS
    m1 = m1
    m2 = m2
    g1 = g1
    g2 = g2
    r1 = r1
    r2 = r2
    a = a
    b = b
    Sent = {m1}
    Phoned = {}
    Incoming = {m2}
    Chat <- MCChat
    Goroutines = {g1, g2}
    Requests = {r1, r2}
    Original = a
    NewTexts = {b}
    Statuses = {"read"}
    NoMessage = NoMessage
    SaveUpdates = TRUE
INVARIANTS
    QuietMeansAgreed
    ContentWasSent
    UpdatesAreTrue
    AnnouncedIsStored
    ListenersHearOfStored
