---------------------------- MODULE ContactSync ----------------------------
(***************************************************************************)
(* The contacts of one instance in one process (internal/whatsapp:         *)
(* service.go, event_persistence.go; contact_repository.go).  A client that *)
(* logs in starts a goroutine, the initial synchronisation, that waits,    *)
(* reads the library's contact store and writes what it read.  The service *)
(* keeps one handle to cancel it by, shared by all clients the instance    *)
(* has in turn, while events, calls and Shutdown start, replace, cancel    *)
(* and clear it concurrently.  Contact events write the same rows and are  *)
(* announced.                                                              *)
(*                                                                         *)
(* One contact stands for all.  A source may give it any name at any time; *)
(* Blank is the name it does not know.  SaveDataContacts is on: without it *)
(* nothing is written.                                                     *)
(***************************************************************************)
EXTENDS Naturals, FiniteSets

CONSTANTS
    Clients,     \* bound: the clients the instance has in turn, numbered
    AppClients,  \* those whose context derives from the application's
    Syncs,       \* bound: synchronisations that exist at a time
    Handlers,    \* bound: goroutines that handle an event or a call at a time
    MaxEvents,   \* bound: events and calls in all
    Names,       \* names of the contact
    Blank,
    Nobody       \* no client, no synchronisation

ASSUME BoundAssumption ==
    MaxEvents \in Nat /\ Clients \subseteq Nat /\ Syncs \subseteq Nat /\ Handlers \subseteq Nat
ASSUME AppAssumption == AppClients \subseteq Clients
ASSUME NullAssumption == Nobody \notin Clients \union Syncs /\ Blank \notin Names

VARIABLES
    client,      \* client[m]: one managed client
    hub,         \* the client in the hub, or Nobody
    tracked,     \* contactSyncCancels[instance]
    sync,        \* sync[s]: one synchronisation
    handler,     \* handler[g]: one goroutine
    events,      \* how many there have been
    stage,       \* how far Shutdown has come
    instance,    \* whether the instance's row exists
    row,         \* the contact's row: absent, or its push_name
    told         \* whether a webhook told a name of the contact

vars == <<client, hub, tracked, sync, handler, events, stage, instance, row, told>>

Known == Names \union {Blank}

\* made: a connect flow made it.  ended: its own context is over.
\* ready: connected and logged in (IsReady).
ClientRecords == [made : BOOLEAN, ended : BOOLEAN, ready : BOOLEAN]

\* "unused", or how far StartInitialContactSync has come; over: its context is.
SyncRecords == [step : {"unused", "wait", "write", "clear"},
                of : Clients \union {Nobody}, over : BOOLEAN]

\* What a goroutine does next; of and held are set while it needs them.
HandlerRecords == [step : {"idle", "start", "take", "cancel", "takeEnd", "cancelEnd", "remove",
                           "delete", "write", "tell"},
                   of : Clients \union {Nobody}, held : Syncs \union {Nobody}]

Stages == {"up", "take", "cancel", "hub", "closed"}

TypeOK ==
    /\ client \in [Clients -> ClientRecords]
    /\ hub \in Clients \union {Nobody}
    /\ tracked \in Syncs \union {Nobody}
    /\ sync \in [Syncs -> SyncRecords]
    /\ handler \in [Handlers -> HandlerRecords]
    /\ events \in 0..MaxEvents
    /\ stage \in [at : Stages, held : Syncs \union {Nobody}]
    /\ instance \in BOOLEAN
    /\ row \in [there : BOOLEAN, name : Known]
    /\ told \in BOOLEAN

Unused == [step |-> "unused", of |-> Nobody, over |-> FALSE]

Idle == [step |-> "idle", of |-> Nobody, held |-> Nobody]

NoContact == [there |-> FALSE, name |-> Blank]

Init ==
    /\ client = [m \in Clients |-> [made |-> FALSE, ended |-> FALSE, ready |-> FALSE]]
    /\ hub = Nobody /\ tracked = Nobody
    /\ sync = [s \in Syncs |-> Unused]
    /\ handler = [g \in Handlers |-> Idle]
    /\ events = 0
    /\ stage = [at |-> "up", held |-> Nobody]
    /\ instance = TRUE
    /\ row = NoContact
    /\ told = FALSE

-----------------------------------------------------------------------------
(* Contexts.  Cancelling one cancels those derived from it.                *)

AppOver == stage.at # "up"

\* The client's context is over: its own cancel, or the application's.
Over(m) == client[m].ended \/ (m \in AppClients /\ AppOver)

CancelClient(m, ready) ==
    /\ client' = [client EXCEPT ![m] = [@ EXCEPT !.ended = TRUE, !.ready = ready]]
    /\ sync' = [s \in Syncs |-> [sync[s] EXCEPT !.over = @ \/ sync[s].of = m]]

\* handle.cancel()
Cancelled(s) == [x \in Syncs |-> [sync[x] EXCEPT !.over = @ \/ x = s]]

-----------------------------------------------------------------------------
(* The clients and the library (external).                                 *)

\* A connect flow makes a client and registers it: QR pairings and restores
\* derive its context from the application's, phone pairings and existing
\* sessions do not (newManagedClient, hub.Register).
Registers(m) ==
    /\ hub = Nobody /\ ~ client[m].made
    /\ \A n \in Clients : n < m => client[n].made
    /\ hub' = m
    /\ client' = [client EXCEPT ![m] = [@ EXCEPT !.made = TRUE]]
    /\ UNCHANGED <<tracked, sync, handler, events, stage, instance, row, told>>

\* The flow fails or its pairing is lost: its clean-up cancels the client
\* (QR), which may be logging in, or only removes it from the hub (restoreOne).
Fails(m) ==
    /\ hub = m
    /\ hub' = Nobody
    /\ CancelClient(m, client[m].ready) \/ UNCHANGED <<client, sync>>
    /\ UNCHANGED <<tracked, handler, events, stage, instance, row, told>>

\* The library logs in, or loses its connection and will reconnect.
Turns(m, ready) ==
    /\ client[m].made /\ client[m].ready # ready
    /\ client' = [client EXCEPT ![m].ready = ready]
    /\ UNCHANGED <<hub, tracked, sync, handler, events, stage, instance, row, told>>

-----------------------------------------------------------------------------
(* Events and calls.  The library may deliver an event in a goroutine of   *)
(* its own, also when what the event reports is past.                      *)

At(g, step) == handler[g].step = step

Goto(g, step) == handler' = [handler EXCEPT ![g].step = step]

Finish(g) == handler' = [handler EXCEPT ![g] = Idle]

\* Goroutine g takes up an event or a call.
Begins(g) ==
    /\ At(g, "idle") /\ \A h \in Handlers : h < g => ~ At(h, "idle")
    /\ events < MaxEvents /\ events' = events + 1

Needs(g, step, m) ==
    handler' = [handler EXCEPT ![g] = [step |-> step, of |-> m, held |-> Nobody]]

\* events.Connected: IsConnected and IsLoggedIn hold when the handler looks.
OnConnected(g, m) ==
    /\ Begins(g) /\ client[m].ready
    /\ Needs(g, "start", m)
    /\ UNCHANGED <<client, hub, tracked, sync, stage, instance, row, told>>

OnDisconnected(g, m) ==
    /\ Begins(g) /\ client[m].made
    /\ Goto(g, "take")
    /\ UNCHANGED <<client, hub, tracked, sync, stage, instance, row, told>>

\* LoggedOut and removePermanent cancel the client's context, and then the
\* synchronisation of whichever client the instance has.
OnEnd(g, m) ==
    /\ Begins(g) /\ client[m].made
    /\ CancelClient(m, FALSE)
    /\ Goto(g, "takeEnd")
    /\ UNCHANGED <<hub, tracked, stage, instance, row, told>>

\* Logout and DeleteInstance remove the client and cancel its context; they
\* do not touch the handle (cleanupWhatsAppClient).
OnCall(g, next) ==
    /\ Begins(g) /\ instance
    /\ hub' = Nobody
    /\ IF hub = Nobody THEN UNCHANGED <<client, sync>> ELSE CancelClient(hub, FALSE)
    /\ Goto(g, next)
    /\ UNCHANGED <<tracked, stage, instance, row, told>>

\* Contact, PushName and BusinessName.
OnContact(g, m) ==
    /\ Begins(g) /\ client[m].made
    /\ Needs(g, "write", m)
    /\ UNCHANGED <<client, hub, tracked, sync, stage, instance, row, told>>

Free(s) ==
    /\ sync[s].step = "unused"
    /\ tracked # s /\ stage.held # s /\ \A g \in Handlers : handler[g].held # s

StartedAfresh(s, m) ==
    [Cancelled(tracked) EXCEPT ![s] = [step |-> "wait", of |-> m, over |-> FALSE]]

\* WithCancel(managed.Context): a context derived from one that is over is over.
Started(s, m) ==
    [Cancelled(tracked) EXCEPT ![s] =
        [step |-> "wait", of |-> m, over |-> Over(m)]]

Start(g, s) ==
    /\ At(g, "start")
    /\ Free(s) /\ \A x \in Syncs : x < s => ~ Free(x)
    /\ sync' = Started(s, handler[g].of)
    /\ tracked' = s
    /\ Finish(g)
    /\ UNCHANGED <<client, hub, events, stage, instance, row, told>>

\* cancelContactSync takes the handle under its mutex and cancels it after.
Take(g) ==
    /\ At(g, "take") \/ At(g, "takeEnd")
    /\ handler' = [handler EXCEPT ![g].held = tracked,
                      ![g].step = IF @ = "take" THEN "cancel" ELSE "cancelEnd"]
    /\ tracked' = Nobody
    /\ UNCHANGED <<client, hub, sync, events, stage, instance, row, told>>

CancelHeld(g) ==
    /\ At(g, "cancel") \/ At(g, "cancelEnd")
    /\ sync' = Cancelled(handler[g].held)
    /\ handler' = [handler EXCEPT ![g] =
                     [Idle EXCEPT !.step = IF At(g, "cancel") THEN "idle" ELSE "remove"]]
    /\ UNCHANGED <<client, hub, tracked, events, stage, instance, row, told>>

\* LoggedOut and removePermanent end with hub.Remove.
RemoveEnded(g) ==
    /\ At(g, "remove")
    /\ hub' = Nobody
    /\ Finish(g)
    /\ UNCHANGED <<client, tracked, sync, events, stage, instance, row, told>>

\* The instance's row takes its contacts along (whatsapp_contacts_instance_fk).
Delete(g) ==
    /\ At(g, "delete")
    /\ instance' = FALSE
    /\ row' = NoContact
    /\ Finish(g)
    /\ UNCHANGED <<client, hub, tracked, sync, events, stage, told>>

-----------------------------------------------------------------------------
(* Writing a contact: Upsert looks for the instance, writes, and reads the *)
(* row back.  A cancelled context refuses a statement that has not begun.  *)

UpsertedAsIs(name) == [there |-> TRUE, name |-> name]

\* A source may know no name: a business name event never does
\* (normalizeContactEvent, normalizeStoreContact).  It leaves the row's name.
Upserted(name) ==
    [there |-> TRUE, name |-> IF name = Blank THEN row.name ELSE name]

ContactWrite(g) ==
    /\ At(g, "write")
    /\ \/ instance /\ (\E name \in Known : row' = Upserted(name)) /\ Goto(g, "tell")
       \/ UNCHANGED row /\ Finish(g)
    /\ UNCHANGED <<client, hub, tracked, sync, events, stage, instance, told>>

\* The webhook carries the row as it is read back, if the instance is still
\* found under a context that is not over.
ContactTell(g) ==
    /\ At(g, "tell")
    /\ told' = (told \/ (row.there /\ row.name # Blank /\ ~ Over(handler[g].of)))
    /\ Finish(g)
    /\ UNCHANGED <<client, hub, tracked, sync, events, stage, instance, row>>

HandlerStep(g) ==
    \/ \E s \in Syncs : Start(g, s)
    \/ Take(g) \/ CancelHeld(g) \/ RemoveEnded(g) \/ Delete(g)
    \/ ContactWrite(g) \/ ContactTell(g)

-----------------------------------------------------------------------------
(* The goroutine of a synchronisation.                                     *)

SyncGoto(s, step) == sync' = [sync EXCEPT ![s].step = step]

SyncGivesUpWhenOver(s) ==
    /\ sync[s].step = "wait"
    /\ sync[s].over
    /\ SyncGoto(s, "clear")
    /\ UNCHANGED <<client, hub, tracked, handler, events, stage, instance, row, told>>

\* The context ends while the goroutine waits for InitialContactSyncDelay, or
\* the client is not ready when the delay is over.
SyncGivesUp(s) ==
    /\ sync[s].step = "wait"
    /\ sync[s].over \/ ~ client[sync[s].of].ready
    /\ SyncGoto(s, "clear")
    /\ UNCHANGED <<client, hub, tracked, handler, events, stage, instance, row, told>>

SyncBegins(s) ==
    /\ sync[s].step = "wait"
    /\ ~ sync[s].over /\ client[sync[s].of].ready
    /\ SyncGoto(s, "write")
    /\ UNCHANGED <<client, hub, tracked, handler, events, stage, instance, row, told>>

\* GetAllContacts or the write fails: the context is over, the instance is
\* gone, or the database answers an error.
SyncFails(s) ==
    /\ sync[s].step = "write"
    /\ SyncGoto(s, "clear")
    /\ UNCHANGED <<client, hub, tracked, handler, events, stage, instance, row, told>>

SyncWrites(s) ==
    /\ sync[s].step = "write" /\ instance
    /\ \E name \in Known : row' = Upserted(name)
    /\ SyncGoto(s, "clear")
    /\ UNCHANGED <<client, hub, tracked, handler, events, stage, instance, told>>

ClearedAlways(s) == Nobody

\* clearContactSync: only the service's current handle is its own to delete.
Cleared(s) == IF tracked = s THEN Nobody ELSE tracked

SyncClears(s) ==
    /\ sync[s].step = "clear"
    /\ tracked' = Cleared(s)
    /\ sync' = [sync EXCEPT ![s] = Unused]
    /\ UNCHANGED <<client, hub, handler, events, stage, instance, row, told>>

SyncStep(s) ==
    \/ SyncGivesUp(s) \/ SyncBegins(s) \/ SyncFails(s)
    \/ SyncWrites(s) \/ SyncClears(s)

-----------------------------------------------------------------------------
(* Shutdown: the application's context, the handles, then the hub, which it *)
(* leaves as it is when its own context is over (hub.Shutdown).            *)

AppCancel ==
    /\ stage.at = "up"
    /\ stage' = [stage EXCEPT !.at = "take"]
    /\ sync' = [s \in Syncs |-> [sync[s] EXCEPT !.over =
                    @ \/ sync[s].of \in AppClients]]
    /\ UNCHANGED <<client, hub, tracked, handler, events, instance, row, told>>

TakeAll ==
    /\ stage.at = "take"
    /\ stage' = [at |-> "cancel", held |-> tracked]
    /\ tracked' = Nobody
    /\ UNCHANGED <<client, hub, sync, handler, events, instance, row, told>>

CancelAll ==
    /\ stage.at = "cancel"
    /\ stage' = [at |-> "hub", held |-> Nobody]
    /\ sync' = Cancelled(stage.held)
    /\ UNCHANGED <<client, hub, tracked, handler, events, instance, row, told>>

HubShutdown ==
    /\ stage.at = "hub"
    /\ stage' = [stage EXCEPT !.at = "closed"]
    /\ hub' \in {Nobody, hub}
    /\ IF hub = Nobody THEN UNCHANGED <<client, sync>> ELSE CancelClient(hub, FALSE)
    /\ UNCHANGED <<tracked, handler, events, instance, row, told>>

Shutdown == AppCancel \/ TakeAll \/ CancelAll \/ HubShutdown

-----------------------------------------------------------------------------

Network ==
    \/ \E m \in Clients :
         \/ Registers(m)
         \/ Fails(m)
         \/ \E ready \in BOOLEAN : Turns(m, ready)

Arrivals ==
    \E g \in Handlers :
      \/ \E m \in Clients :
           OnConnected(g, m) \/ OnDisconnected(g, m) \/ OnEnd(g, m) \/ OnContact(g, m)
      \/ \E next \in {"idle", "delete"} : OnCall(g, next)

Next ==
    \/ Network
    \/ Arrivals
    \/ \E g \in Handlers : HandlerStep(g)
    \/ \E s \in Syncs : SyncStep(s)
    \/ Shutdown

Spec == Init /\ [][Next]_vars

\* A goroutine that was started runs on: its delay ends, lookups and
\* statements have timeouts.
Fairness == \A s \in Syncs : WF_vars(SyncStep(s))

FairSpec == Spec /\ Fairness

-----------------------------------------------------------------------------
(* What the service promises about its synchronisations.                   *)

Runs(s) == sync[s].step \notin {"unused", "clear"}

\* A synchronisation that runs and is not cancelled can be cancelled: the
\* service's handle is its own, or somebody has taken it to cancel it.  A
\* second login, and a synchronisation that ends after a newer one began, must
\* not lose the handle (startContactSync, clearContactSync).
EverySyncCanBeStopped ==
    \A s \in Syncs :
        Runs(s) /\ ~ sync[s].over =>
            \/ tracked = s \/ stage.held = s
            \/ \E g \in Handlers : handler[g].held = s

\* No synchronisation runs on after its client's context, however late the
\* Connected handler starts it: Logout and DeleteInstance cancel nothing but
\* that context (startContactSync's WithCancel(managed.Context)).
NoSyncOutlivesItsClient ==
    \A s \in Syncs : Runs(s) /\ Over(sync[s].of) => sync[s].over

\* A name that a webhook told of a contact is not taken back: as long as the
\* instance exists its row has a name, whichever of the events without one and
\* of the synchronisations with an older view of the contact writes last
\* (Upsert's CASE, persist before dispatch).
ToldIsKnown == told /\ instance => row.there /\ row.name # Blank

\* Every synchronisation ends and gives its handle back, also when its client
\* never becomes ready again (StartInitialContactSync, clearContactSync).
SyncsEnd == \A s \in Syncs : []<>(~ Runs(s) /\ tracked # s)

=============================================================================
