SPECIFICATION FairSpec
CONSTANTS
    Clients = {1, 2}
    AppClients = {1}
    Syncs = {1, 2}
    Handlers = {1, 2}
    MaxEvents = 3
    Names = {n1}
    Blank = Blank
    Nobody = Nobody
INVARIANTS
    EverySyncCanBeStopped
    NoSyncOutlivesItsClient
    ToldIsKnown
PROPERTY
    SyncsEnd
CHECK_DEADLOCK FALSE
