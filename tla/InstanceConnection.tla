------------------------- MODULE InstanceConnection -------------------------
(***************************************************************************)
(* How the processes of the application share one WhatsApp instance        *)
(* (internal/whatsapp: service.go, hub.go, pairing.go): the connection     *)
(* lock in the instance's row, each process's client hub and pairing       *)
(* sessions, the calls that connect, restore and log out the instance, the *)
(* goroutine that consumes a QR channel, the event handlers of a client    *)
(* and the module's Close.  A step is one database statement, one critical *)
(* section of the hub or of the pairing manager, or one network call.      *)
(*                                                                         *)
(* The WhatsApp library and its server are external.  connection_status is *)
(* left out: no flow here branches on it.  Contact synchronisation and     *)
(* Passkey commands are left out too.                                      *)
(***************************************************************************)
EXTENDS Naturals, FiniteSets

CONSTANTS
    Processes,     \* processes that run the module
    Threads,       \* goroutines that serve calls
    ProcessOf,     \* the process of each thread
    Clients,       \* bound: how many clients exist at a time
    Calls,         \* the calls threads make
    Events,        \* what the WhatsApp server does to a client
    Disturbances,  \* "crash": a process stops without Close; "lapse": a lease ends
    NoProcess,
    NoClient

AllCalls == {"qr", "phone", "restore", "logout", "close"}

AllEvents == {"pair", "login", "drop", "unlink", "ban"}

ASSUME ThreadAssumption == ProcessOf \in [Threads -> Processes]
ASSUME EventAssumption == Events \subseteq AllEvents
ASSUME CallAssumption == Calls \subseteq AllCalls /\ Disturbances \subseteq {"crash", "lapse"}
ASSUME NullAssumption == NoProcess \notin Processes /\ NoClient \notin Clients

VARIABLES
    lock,      \* connection_lock_owner and connection_lock_until
    device,    \* whether whatsapp_device_jid is set
    hub,       \* hub[p]: p's client and reservation of the instance
    pairing,   \* pairing[p]: the client of p's registered pairing session
    phase,     \* phase[p]: how far p's Start and Close have come
    thread,    \* thread[t]: the call t serves
    client     \* client[c]: one managed client, its consumer and its handlers

vars == <<lock, device, hub, pairing, phase, thread, client>>

Locks == [owner : Processes \union {NoProcess}, lease : {"none", "running", "lapsed"}]

\* "boot" until the process has restored its instances.
Phases == {"boot", "up", "closing", "stopping", "dropping", "removing", "closed"}

Steps == {"idle", "unwind", "exists", "lock", "existing", "registerExisting", "reconnect",
          "pairing", "reserve", "client", "session", "register", "connect", "wait",
          "pairPhone", "remove", "cleanup", "clear", "reconcile"}

\* A hub entry is a client, a reservation (the zero-size map entry) or nothing.
HubRecords == [client : Clients \union {NoClient}, reserved : BOOLEAN]

\* session, reserved and locked say which of the call's deferred cleanups are due.
CallRecords == [call : Calls \union {"none"}, step : Steps, device : BOOLEAN,
                client : Clients \union {NoClient},
                session : BOOLEAN, reserved : BOOLEAN, locked : BOOLEAN]

\* socket: "open" is connected or reconnecting but not logged in, "ready" is
\* logged in.
\* linked: the client's store holds a device identity.  done: its pairing (or
\* connect) context is over.  scanned: its QR channel reports success.
Kinds == {"qr", "phone", "existing", "restore"}
Sockets == {"off", "open", "ready"}
ConsumerSteps == {"none", "run", "lost", "won", "leave", "remove", "release"}
HandlerSteps == {"none", "paired", "connected", "loggedOut", "remove", "release"}

ClientRecords == [home : Processes \union {NoProcess}, kind : Kinds, socket : Sockets,
                  linked : BOOLEAN, done : BOOLEAN, scanned : BOOLEAN,
                  consumer : ConsumerSteps, handler : HandlerSteps]

\* The types of the seven variables.
TypeOK ==
    /\ lock \in Locks
    /\ device \in BOOLEAN
    /\ hub \in [Processes -> HubRecords]
    /\ pairing \in [Processes -> Clients \union {NoClient}]
    /\ phase \in [Processes -> Phases]
    /\ thread \in [Threads -> CallRecords]
    /\ client \in [Clients -> ClientRecords]

Idle == [call |-> "none", step |-> "idle", device |-> FALSE, client |-> NoClient,
         session |-> FALSE, reserved |-> FALSE, locked |-> FALSE]

NoRecord == [home |-> NoProcess, kind |-> "qr", socket |-> "off", linked |-> FALSE,
             done |-> FALSE, scanned |-> FALSE,
             consumer |-> "none", handler |-> "none"]

EmptyHub == [client |-> NoClient, reserved |-> FALSE]

Init ==
    /\ lock = [owner |-> NoProcess, lease |-> "none"]
    /\ device \in BOOLEAN
    /\ hub = [p \in Processes |-> EmptyHub]
    /\ pairing = [p \in Processes |-> NoClient]
    /\ phase = [p \in Processes |-> "boot"]
    /\ thread = [t \in Threads |-> Idle]
    /\ client = [c \in Clients |-> NoRecord]

-----------------------------------------------------------------------------
(* The lock, the hub and the pairing manager.                              *)

\* The WHERE clause of TryAcquireConnectionLock; it lets the owner in again.
CanAcquire(p) == lock.lease # "running" \/ lock.owner = p

\* A lease that never ends.
Acquired_Forever(p) == [owner |-> p, lease |-> "forever"]

Acquired(p) == [owner |-> p, lease |-> "running"]

\* A release that forgets connection_lock_owner = ?.
Released_AnyOwner(p) == [owner |-> NoProcess, lease |-> "none"]

\* ReleaseConnectionLock.
Released(p) ==
    IF lock.owner = p THEN [owner |-> NoProcess, lease |-> "none"] ELSE lock

\* hub.Remove deletes whatever client or reservation is there.
Remove(p) == hub' = [hub EXCEPT ![p] = EmptyHub]

\* hub.Register, once it found no client.
Register(p, c) == hub' = [hub EXCEPT ![p] = [client |-> c, reserved |-> FALSE]]

\* A removal that does not compare the sessions.
WithoutSession_AnySession(p, c) == NoClient

\* pairings.remove drops the session only if it is the caller's own.
WithoutSession(p, c) == IF pairing[p] = c THEN NoClient ELSE pairing[p]

RemoveSession(p, c) == pairing' = [pairing EXCEPT ![p] = WithoutSession(p, c)]

\* A client nothing refers to any more; its record can be used again.
Free(c) ==
    /\ client[c].socket = "off"
    /\ client[c].consumer = "none"
    /\ client[c].handler = "none"
    /\ \A p \in Processes : hub[p].client # c /\ pairing[p] # c
    /\ \A t \in Threads : thread[t].client # c

\* The contexts of QR and restored clients descend from the service's appCtx.
Stopped(p) == phase[p] \in {"stopping", "dropping", "removing", "closed"}

NewRecord(p, kind, linked) ==
    [NoRecord EXCEPT !.home = p, !.kind = kind, !.linked = linked,
                     !.done = kind \in {"qr", "restore"} /\ Stopped(p)]

At(t, call, step) == thread[t].call = call /\ thread[t].step = step

Goto(t, step) == thread' = [thread EXCEPT ![t].step = step]

\* A return: the deferred cleanups run first.
Return(t) == Goto(t, "unwind")

-----------------------------------------------------------------------------
(* Steps that several calls share.                                         *)

\* authenticateInstance (FindAutoConnectInstances at boot) reads the row.
Start(t, call) ==
    /\ thread[t].step = "idle"
    /\ call = "restore" => device /\ phase[ProcessOf[t]] = "boot"
    /\ thread' = [thread EXCEPT ![t] =
                    [Idle EXCEPT !.call = call, !.device = device,
                                 !.step = IF call = "phone" THEN "exists" ELSE "lock"]]
    /\ phase' = [phase EXCEPT ![ProcessOf[t]] = IF call = "restore" THEN "up" ELSE @]
    /\ UNCHANGED <<lock, device, hub, pairing, client>>

\* A restore uses the module's lifecycle context, which Close cancels.
Cancelled(t) ==
    thread[t].call = "restore" /\ phase[ProcessOf[t]] \notin {"boot", "up"}

AfterLock(call) ==
    CASE call = "qr" -> "existing" [] call = "logout" -> "remove" [] OTHER -> "reserve"

TryAcquire(t) ==
    LET p == ProcessOf[t] IN
    /\ thread[t].step = "lock"
    /\ IF CanAcquire(p) /\ ~ Cancelled(t)
       THEN /\ lock' = Acquired(p)
            /\ thread' = [thread EXCEPT ![t].locked = TRUE,
                                        ![t].step = AfterLock(thread[t].call)]
       ELSE /\ thread' = [thread EXCEPT ![t] = Idle]
            /\ UNCHANGED lock
    /\ UNCHANGED <<device, hub, pairing, phase, client>>

Reserve(t) ==
    LET p == ProcessOf[t] IN
    /\ thread[t].step = "reserve"
    /\ IF hub[p] = EmptyHub
       THEN /\ hub' = [hub EXCEPT ![p].reserved = TRUE]
            /\ thread' = [thread EXCEPT ![t].reserved = TRUE, ![t].step = "client"]
       ELSE /\ Return(t)
            /\ UNCHANGED hub
    /\ UNCHANGED <<lock, device, pairing, phase, client>>

AfterClient(call) ==
    CASE call = "qr" -> "session" [] call = "phone" -> "connect" [] OTHER -> "register"

\* The CONNECTING write and newClientForManualConnect, or ClientForDevice.
NewClient(t) ==
    LET call == thread[t].call IN
    /\ thread[t].step = "client"
    /\ \E c \in Clients :
         /\ Free(c)
         /\ client' = [client EXCEPT ![c] = NewRecord(ProcessOf[t], call, thread[t].device)]
         /\ thread' = [thread EXCEPT ![t].client = c, ![t].step = AfterClient(call)]
    /\ UNCHANGED <<lock, device, hub, pairing, phase>>

NewClientFails(t) ==
    /\ thread[t].step = "client"
    /\ Return(t)
    /\ UNCHANGED <<lock, device, hub, pairing, phase, client>>

\* The deferred cleanups, last registered first.  A cancelled restore cannot
\* release: its statements run under the cancelled context.
UnwindSession(t) ==
    /\ thread[t].step = "unwind"
    /\ thread[t].session
    /\ RemoveSession(ProcessOf[t], thread[t].client)
    /\ thread' = [thread EXCEPT ![t].session = FALSE]
    /\ UNCHANGED <<lock, device, hub, phase, client>>

\* A call that forgets its deferred hub.Remove.
UnwindReservation_Forgotten(t) ==
    /\ thread[t].step = "unwind"
    /\ ~ thread[t].session
    /\ thread[t].reserved
    /\ thread' = [thread EXCEPT ![t].reserved = FALSE]
    /\ UNCHANGED <<lock, device, hub, pairing, phase, client>>

UnwindReservation(t) ==
    /\ thread[t].step = "unwind"
    /\ ~ thread[t].session
    /\ thread[t].reserved
    /\ Remove(ProcessOf[t])
    /\ thread' = [thread EXCEPT ![t].reserved = FALSE]
    /\ UNCHANGED <<lock, device, pairing, phase, client>>

UnwindLock(t) ==
    /\ thread[t].step = "unwind"
    /\ ~ thread[t].session /\ ~ thread[t].reserved
    /\ lock' = IF thread[t].locked /\ ~ Cancelled(t) THEN Released(ProcessOf[t]) ELSE lock
    /\ thread' = [thread EXCEPT ![t] = Idle]
    /\ UNCHANGED <<device, hub, pairing, phase, client>>

-----------------------------------------------------------------------------
(* ConnectQRCode.                                                          *)

\* connectExistingSession: a logged-in client answers at once, a linked one
\* is reconnected, and an instance with a stored device gets a client for it
\* without a reservation.
QRExisting(t) ==
    LET p == ProcessOf[t]
        m == hub[p].client
    IN
    /\ At(t, "qr", "existing")
    /\ IF m # NoClient /\ client[m].linked
       THEN /\ \/ client[m].socket = "ready" /\ Return(t)
               \/ thread[t].device /\ Return(t)   \* ErrDeviceMismatch
               \/ /\ client[m].socket # "ready"
                  /\ thread' = [thread EXCEPT ![t].client = m, ![t].step = "reconnect"]
            /\ UNCHANGED client
       ELSE IF thread[t].device
       THEN \/ Return(t) /\ UNCHANGED client      \* ErrSessionMissing
            \/ \E c \in Clients :
                 /\ Free(c)
                 /\ client' = [client EXCEPT ![c] = NewRecord(p, "existing", TRUE)]
                 /\ thread' = [thread EXCEPT ![t].client = c, ![t].step = "registerExisting"]
       ELSE /\ Goto(t, "pairing")
            /\ UNCHANGED client
    /\ UNCHANGED <<lock, device, hub, pairing, phase>>

QRRegisterExisting(t) ==
    LET p == ProcessOf[t] IN
    /\ At(t, "qr", "registerExisting")
    /\ IF hub[p].client = NoClient
       THEN Register(p, thread[t].client) /\ Goto(t, "reconnect")
       ELSE Return(t) /\ UNCHANGED hub
    /\ UNCHANGED <<lock, device, pairing, phase, client>>

\* connectManagedSession; the lock stays taken until the Connected event.
QRReconnect(t) ==
    LET c == thread[t].client IN
    /\ At(t, "qr", "reconnect")
    /\ \/ Return(t) /\ UNCHANGED client           \* connected already, or an error
       \/ /\ client[c].socket # "ready"
          /\ client' = [client EXCEPT ![c].socket = "open"]
          /\ thread' = [thread EXCEPT ![t] = Idle]
    /\ UNCHANGED <<lock, device, hub, pairing, phase>>

\* A poll of a running pairing returns its code, and gives the lock back.
QRPairing(t) ==
    /\ At(t, "qr", "pairing")
    /\ IF pairing[ProcessOf[t]] # NoClient THEN Return(t) ELSE Goto(t, "reserve")
    /\ UNCHANGED <<lock, device, hub, pairing, phase, client>>

QRSession(t) ==
    LET p == ProcessOf[t] IN
    /\ At(t, "qr", "session")
    /\ IF pairing[p] = NoClient
       THEN /\ pairing' = [pairing EXCEPT ![p] = thread[t].client]
            /\ thread' = [thread EXCEPT ![t].session = TRUE, ![t].step = "register"]
       ELSE /\ Return(t)
            /\ UNCHANGED pairing
    /\ UNCHANGED <<lock, device, hub, phase, client>>

\* GetQRChannel and hub.Register; from here the consumer owns the lock.
QRRegister(t) ==
    LET p == ProcessOf[t]
        c == thread[t].client
    IN
    /\ At(t, "qr", "register")
    /\ \/ /\ hub[p].client = NoClient
          /\ Register(p, c)
          /\ client' = [client EXCEPT ![c].consumer = "run"]
          /\ thread' = [thread EXCEPT ![t].reserved = FALSE, ![t].locked = FALSE,
                                      ![t].step = "connect"]
       \/ /\ client' = [client EXCEPT ![c].done = TRUE]
          /\ Return(t)
          /\ UNCHANGED hub
    /\ UNCHANGED <<lock, device, pairing, phase>>

QRConnect(t) ==
    LET c == thread[t].client IN
    /\ At(t, "qr", "connect")
    /\ \/ /\ client' = [client EXCEPT ![c].socket = "open"]
          /\ Goto(t, "wait")
       \/ /\ client' = [client EXCEPT ![c].done = TRUE]
          /\ Return(t)
    /\ UNCHANGED <<lock, device, hub, pairing, phase>>

\* A select that leaves its deferred pairings.remove armed.
QRWait_KeepsDefer(t) ==
    /\ At(t, "qr", "wait")
    /\ Return(t)
    /\ UNCHANGED <<lock, device, hub, pairing, phase, client>>

\* The select: the first code, the first error, or the request is given up.
\* A first code and a given-up request leave the session to the consumer.
QRWait(t) ==
    /\ At(t, "qr", "wait")
    /\ \/ thread' = [thread EXCEPT ![t] = Idle]
       \/ /\ client[thread[t].client].consumer \notin {"run", "won"}
          /\ Return(t)
    /\ UNCHANGED <<lock, device, hub, pairing, phase, client>>

-----------------------------------------------------------------------------
(* ConnectPhone.                                                           *)

PhoneExists(t) ==
    /\ At(t, "phone", "exists")
    /\ IF hub[ProcessOf[t]] = EmptyHub
       THEN Goto(t, "lock")
       ELSE thread' = [thread EXCEPT ![t] = Idle]
    /\ UNCHANGED <<lock, device, hub, pairing, phase, client>>

PhoneConnect(t) ==
    LET c == thread[t].client IN
    /\ At(t, "phone", "connect")
    /\ \/ /\ client' = [client EXCEPT ![c].socket = "open"]
          /\ Goto(t, "pairPhone")
       \/ /\ client' = [client EXCEPT ![c].done = TRUE]
          /\ Return(t)
    /\ UNCHANGED <<lock, device, hub, pairing, phase>>

PhonePair(t) ==
    LET c == thread[t].client IN
    /\ At(t, "phone", "pairPhone")
    /\ \/ Goto(t, "register") /\ UNCHANGED client
       \/ /\ client' = [client EXCEPT ![c].done = TRUE, ![c].socket = "off"]
          /\ Return(t)
    /\ UNCHANGED <<lock, device, hub, pairing, phase>>

\* Nobody consumes the pairing: the client and the lock wait for its events.
PhoneRegister(t) ==
    LET p == ProcessOf[t]
        c == thread[t].client
    IN
    /\ At(t, "phone", "register")
    /\ IF hub[p].client = NoClient
       THEN /\ Register(p, c)
            /\ thread' = [thread EXCEPT ![t] = Idle]
            /\ UNCHANGED client
       ELSE /\ client' = [client EXCEPT ![c].done = TRUE, ![c].socket = "off"]
            /\ Return(t)
            /\ UNCHANGED hub
    /\ UNCHANGED <<lock, device, pairing, phase>>

-----------------------------------------------------------------------------
(* restoreOne.                                                             *)

\* A refused Register releases the lock and leaves the hub alone.
RestoreRegister(t) ==
    LET p == ProcessOf[t] IN
    /\ At(t, "restore", "register")
    /\ IF hub[p].client = NoClient
       THEN /\ Register(p, thread[t].client)
            /\ thread' = [thread EXCEPT ![t].reserved = FALSE, ![t].step = "reconcile"]
       ELSE /\ thread' = [thread EXCEPT ![t].reserved = FALSE, ![t].step = "unwind"]
            /\ UNCHANGED hub
    /\ UNCHANGED <<lock, device, pairing, phase, client>>

\* reconcileInstanceState, under the lifecycle context; its failure owes the
\* hub a Remove.
RestoreReconcile(t) ==
    /\ At(t, "restore", "reconcile")
    /\ \/ ~ Cancelled(t) /\ Goto(t, "connect")
       \/ thread' = [thread EXCEPT ![t].reserved = TRUE, ![t].step = "unwind"]
    /\ UNCHANGED <<lock, device, hub, pairing, phase, client>>

\* client.Connect takes no context.  A client that another call connected or
\* logged out meanwhile only costs the lock.
RestoreConnect(t) ==
    LET c == thread[t].client IN
    /\ At(t, "restore", "connect")
    /\ \/ /\ client[c].socket # "ready"
          /\ client' = [client EXCEPT ![c].socket = "open"]
          /\ Goto(t, "wait")
       \/ /\ client[c].socket # "ready"
          /\ thread' = [thread EXCEPT ![t].reserved = TRUE, ![t].step = "unwind"]
          /\ UNCHANGED client
       \/ /\ client[c].socket # "off" \/ ~ client[c].linked
          /\ Return(t)
          /\ UNCHANGED client
    /\ UNCHANGED <<lock, device, hub, pairing, phase>>

\* ConnectedSignal, or ConnectTimeout: the lock is left to the Connected event.
RestoreWait(t) ==
    /\ At(t, "restore", "wait")
    /\ thread' = [thread EXCEPT ![t] = Idle]
    /\ UNCHANGED <<lock, device, hub, pairing, phase, client>>

-----------------------------------------------------------------------------
(* Logout.                                                                 *)

\* cleanupWhatsAppClient takes the client out of the hub, or one for the
\* stored device, which nothing else sees.
LogoutRemove(t) ==
    LET p == ProcessOf[t]
        m == hub[p].client
    IN
    /\ At(t, "logout", "remove")
    /\ Remove(p)
    /\ \/ thread' = [thread EXCEPT ![t].client = m,
                                   ![t].step = IF m = NoClient THEN "clear" ELSE "cleanup"]
       \/ m = NoClient /\ thread[t].device /\ Return(t)
    /\ client' = [c \in Clients |-> IF c = m THEN [client[c] EXCEPT !.done = TRUE]
                                              ELSE client[c]]
    /\ UNCHANGED <<lock, device, pairing, phase>>

\* logoutOrDeleteStore: client.Logout, or Disconnect and Store.Delete.
LogoutCleanup(t) ==
    LET c == thread[t].client IN
    /\ At(t, "logout", "cleanup")
    /\ \/ /\ client' = [client EXCEPT ![c].socket = "off", ![c].linked = FALSE]
          /\ Goto(t, "clear")
       \/ /\ client[c].linked                     \* ErrWhatsAppUnavailable
          /\ client' = [client EXCEPT ![c].socket = IF @ = "ready" THEN @ ELSE "off"]
          /\ Return(t)
    /\ UNCHANGED <<lock, device, hub, pairing, phase>>

\* The deferred Release comes before markInstanceLoggedOut.
LogoutRelease(t) ==
    /\ At(t, "logout", "clear")
    /\ thread[t].locked
    /\ lock' = Released(ProcessOf[t])
    /\ thread' = [thread EXCEPT ![t].locked = FALSE]
    /\ UNCHANGED <<device, hub, pairing, phase, client>>

\* markInstanceLoggedOut, of which ClearWhatsAppDevice may fail to run.
LogoutMark(t) ==
    /\ At(t, "logout", "clear")
    /\ ~ thread[t].locked
    /\ device' \in {device, FALSE}
    /\ thread' = [thread EXCEPT ![t] = Idle]
    /\ UNCHANGED <<lock, hub, pairing, phase, client>>

-----------------------------------------------------------------------------
(* consumeQRCodeChannel.                                                   *)

\* QRCodeLimit, an error of the channel, an expired or cancelled context or a
\* closed channel end the pairing.  The codes before that change nothing here.
ConsumeEnd(c) ==
    /\ client[c].consumer = "run"
    /\ client' = [client EXCEPT ![c].consumer = "lost"]
    /\ UNCHANGED <<lock, device, hub, pairing, phase, thread>>

\* handleQRSuccess, or a context that ended because the client logged in.
ConsumeSuccess(c) ==
    /\ client[c].consumer = "run"
    /\ \/ client[c].scanned /\ device' = (device \/ client[c].linked)
       \/ client[c].done /\ client[c].socket = "ready" /\ UNCHANGED device
    /\ client' = [client EXCEPT ![c].consumer = "won"]
    /\ UNCHANGED <<lock, hub, pairing, phase, thread>>

\* An exit that forgets pairings.remove.
ConsumerLeaves_Forgotten(c) ==
    /\ client[c].consumer \in {"lost", "won"}
    /\ client' = [client EXCEPT ![c].done = TRUE,
                    ![c].consumer = IF @ = "won" THEN "release" ELSE "leave"]
    /\ UNCHANGED <<lock, device, hub, pairing, phase, thread>>

\* The deferred exit: cancel and pairings.remove;
ConsumerLeaves(c) ==
    /\ client[c].consumer \in {"lost", "won"}
    /\ RemoveSession(client[c].home, c)
    /\ client' = [client EXCEPT ![c].done = TRUE,
                    ![c].consumer = IF @ = "won" THEN "release" ELSE "leave"]
    /\ UNCHANGED <<lock, device, hub, phase, thread>>

\* after a failure, Disconnect unless logged in,
ConsumerDisconnects(c) ==
    /\ client[c].consumer = "leave"
    /\ client' = [client EXCEPT ![c].consumer = "remove",
                                ![c].socket = IF @ = "ready" THEN @ ELSE "off"]
    /\ UNCHANGED <<lock, device, hub, pairing, phase, thread>>

\* then hub.Remove, by instance and not by client;
ConsumerRemoves(c) ==
    /\ client[c].consumer = "remove"
    /\ Remove(client[c].home)
    /\ client' = [client EXCEPT ![c].consumer = "release"]
    /\ UNCHANGED <<lock, device, pairing, phase, thread>>

\* and at last lock.Release.
ConsumerReleases(c) ==
    /\ client[c].consumer = "release"
    /\ lock' = Released(client[c].home)
    /\ client' = [client EXCEPT ![c].consumer = "none"]
    /\ UNCHANGED <<device, hub, pairing, phase, thread>>

ConsumerStep(c) ==
    \/ ConsumeEnd(c)
    \/ ConsumeSuccess(c)
    \/ ConsumerLeaves(c)
    \/ ConsumerDisconnects(c)
    \/ ConsumerRemoves(c)
    \/ ConsumerReleases(c)

-----------------------------------------------------------------------------
(* The WhatsApp client (external) and the handlers of its events.          *)

\* Events of one client are handled one at a time.
Occurs(c, event) ==
    event \in Events /\ client[c].handler = "none" /\ client[c].socket # "off"

\* The phone accepts the pairing: PairSuccess.
Paired(c) ==
    /\ Occurs(c, "pair")
    /\ ~ client[c].linked
    /\ client' = [client EXCEPT ![c].linked = TRUE, ![c].handler = "paired"]
    /\ UNCHANGED <<lock, device, hub, pairing, phase, thread>>

\* A linked client logs in: Connected.
LoggedIn(c) ==
    /\ Occurs(c, "login")
    /\ client[c].linked
    /\ client[c].socket = "open"
    /\ client' = [client EXCEPT ![c].socket = "ready", ![c].handler = "connected"]
    /\ UNCHANGED <<lock, device, hub, pairing, phase, thread>>

\* The connection drops (Disconnected) and the library reconnects by itself.
Dropped(c) ==
    /\ Occurs(c, "drop")
    /\ client[c].socket = "ready"
    /\ client' = [client EXCEPT ![c].socket = "open"]
    /\ UNCHANGED <<lock, device, hub, pairing, phase, thread>>

\* The phone unlinks the device: LoggedOut.
Unlinked(c) ==
    /\ Occurs(c, "unlink")
    /\ client[c].linked
    /\ client' = [client EXCEPT ![c].socket = "off", ![c].linked = FALSE,
                                ![c].handler = "loggedOut"]
    /\ UNCHANGED <<lock, device, hub, pairing, phase, thread>>

\* StreamReplaced, CATRefreshError, ClientOutdated or TemporaryBan.
Banned(c) ==
    /\ Occurs(c, "ban")
    /\ client' = [client EXCEPT ![c].handler = "remove"]
    /\ UNCHANGED <<lock, device, hub, pairing, phase, thread>>

\* PairSuccess saves the device; the QR channel then reports success.
OnPaired(c) ==
    /\ client[c].handler = "paired"
    /\ device' = (device \/ client[c].linked)
    /\ client' = [client EXCEPT ![c].handler = "none", ![c].scanned = client[c].kind = "qr"]
    /\ UNCHANGED <<lock, hub, pairing, phase, thread>>

\* Connected looks at the client again before it does anything.
OnConnected(c) ==
    /\ client[c].handler = "connected"
    /\ IF client[c].socket = "ready" /\ client[c].linked
       THEN /\ device' = TRUE
            /\ client' = [client EXCEPT ![c].done = TRUE, ![c].handler = "release"]
       ELSE /\ client' = [client EXCEPT ![c].handler = "none"]
            /\ UNCHANGED device
    /\ UNCHANGED <<lock, hub, pairing, phase, thread>>

OnLoggedOut(c) ==
    /\ client[c].handler = "loggedOut"
    /\ device' = FALSE
    /\ client' = [client EXCEPT ![c].handler = "remove"]
    /\ UNCHANGED <<lock, hub, pairing, phase, thread>>

\* The rest of LoggedOut, and removePermanent: Cancel, Disconnect, hub.Remove.
OnRemove(c) ==
    /\ client[c].handler = "remove"
    /\ Remove(client[c].home)
    /\ client' = [client EXCEPT ![c].done = TRUE, ![c].socket = "off",
                                ![c].handler = "release"]
    /\ UNCHANGED <<lock, device, pairing, phase, thread>>

OnRelease(c) ==
    /\ client[c].handler = "release"
    /\ lock' = Released(client[c].home)
    /\ client' = [client EXCEPT ![c].handler = "none"]
    /\ UNCHANGED <<device, hub, pairing, phase, thread>>

HandlerStep(c) ==
    \/ OnPaired(c)
    \/ OnConnected(c)
    \/ OnLoggedOut(c)
    \/ OnRemove(c)
    \/ OnRelease(c)

Network(c) == Paired(c) \/ LoggedIn(c) \/ Dropped(c) \/ Unlinked(c) \/ Banned(c)

-----------------------------------------------------------------------------
(* Module.Close, Service.Shutdown and hub.Shutdown; and the alternatives.  *)

Advance(p, next) == phase' = [phase EXCEPT ![p] = next]

\* Close cancels the lifecycle context.  Restore returns as soon as that
\* context ends, so Close never waits for a running restoreOne.
CloseBegins(p) ==
    /\ "close" \in Calls
    /\ phase[p] \in {"boot", "up"}
    /\ Advance(p, "closing")
    /\ UNCHANGED <<lock, device, hub, pairing, thread, client>>

\* appCancel and pairings.cancelAll.
CloseCancels(p) ==
    /\ phase[p] = "closing"
    /\ client' = [c \in Clients |->
                    IF client[c].home = p /\ client[c].kind \in {"qr", "restore"}
                    THEN [client[c] EXCEPT !.done = TRUE] ELSE client[c]]
    /\ Advance(p, "stopping")
    /\ UNCHANGED <<lock, device, hub, pairing, thread>>

CloseReleases(p) ==
    /\ phase[p] = "stopping"
    /\ lock' = IF hub[p].client # NoClient THEN Released(p) ELSE lock
    /\ Advance(p, "dropping")
    /\ UNCHANGED <<device, hub, pairing, thread, client>>

CloseDisconnects(p) ==
    /\ phase[p] = "dropping"
    /\ client' = [c \in Clients |-> IF c = hub[p].client
                                     THEN [client[c] EXCEPT !.done = TRUE, !.socket = "off"]
                                     ELSE client[c]]
    /\ Advance(p, IF hub[p].client # NoClient THEN "removing" ELSE "closed")
    /\ UNCHANGED <<lock, device, hub, pairing, thread>>

CloseRemoves(p) ==
    /\ phase[p] = "removing"
    /\ Remove(p)
    /\ Advance(p, "closed")
    /\ UNCHANGED <<lock, device, pairing, thread, client>>

CloseStep(p) ==
    CloseBegins(p) \/ CloseCancels(p) \/ CloseReleases(p) \/ CloseDisconnects(p) \/ CloseRemoves(p)

\* A process stops without Close and starts again with a new lock owner: the
\* lease it held belongs to nobody and has to lapse.
Crash(p) ==
    /\ "crash" \in Disturbances
    /\ lock' = [lock EXCEPT !.owner = IF @ = p THEN NoProcess ELSE @]
    /\ hub' = [hub EXCEPT ![p] = EmptyHub]
    /\ pairing' = [pairing EXCEPT ![p] = NoClient]
    /\ phase' = [phase EXCEPT ![p] = "boot"]
    /\ thread' = [t \in Threads |-> IF ProcessOf[t] = p THEN Idle ELSE thread[t]]
    /\ client' = [c \in Clients |-> IF client[c].home = p THEN NoRecord ELSE client[c]]
    /\ UNCHANGED device

\* Two minutes pass since the last TryAcquire.
LeaseLapses ==
    /\ "lapse" \in Disturbances
    /\ lock.lease = "running"
    /\ lock' = [lock EXCEPT !.lease = "lapsed"]
    /\ UNCHANGED <<device, hub, pairing, phase, thread, client>>

SharedStep(t) ==
    \/ TryAcquire(t)
    \/ Reserve(t)
    \/ NewClient(t)
    \/ NewClientFails(t)
    \/ UnwindSession(t)
    \/ UnwindReservation(t)
    \/ UnwindLock(t)

QRStep(t) ==
    \/ QRExisting(t)
    \/ QRRegisterExisting(t)
    \/ QRReconnect(t)
    \/ QRPairing(t)
    \/ QRSession(t)
    \/ QRRegister(t)
    \/ QRConnect(t)
    \/ QRWait(t)

PhoneStep(t) == PhoneExists(t) \/ PhoneConnect(t) \/ PhonePair(t) \/ PhoneRegister(t)

RestoreStep(t) ==
    RestoreRegister(t) \/ RestoreReconcile(t) \/ RestoreConnect(t) \/ RestoreWait(t)

LogoutStep(t) == LogoutRemove(t) \/ LogoutCleanup(t) \/ LogoutRelease(t) \/ LogoutMark(t)

CallStep(t) == SharedStep(t) \/ QRStep(t) \/ PhoneStep(t) \/ RestoreStep(t) \/ LogoutStep(t)

Next ==
    \/ \E t \in Threads : (\E call \in Calls \ {"close"} : Start(t, call)) \/ CallStep(t)
    \/ \E c \in Clients : ConsumerStep(c) \/ HandlerStep(c) \/ Network(c)
    \/ \E p \in Processes : CloseStep(p) \/ Crash(p)
    \/ LeaseLapses

Spec == Init /\ [][Next]_vars

\* Calls and the goroutines they start run on; timeouts bound every network
\* call, MaximumPairingTime every QR pairing.
Fairness ==
    /\ \A t \in Threads : WF_vars(CallStep(t))
    /\ \A c \in Clients : WF_vars(ConsumerStep(c)) /\ WF_vars(ConsumeEnd(c))
                            /\ WF_vars(HandlerStep(c))

FairSpec == Spec /\ Fairness

-----------------------------------------------------------------------------
(* What the calls promise.                                                 *)

\* A reservation blocks every connect of the instance in its process, and
\* nothing but a Remove lifts it: some running call must still owe that
\* Remove, whatever other calls removed in between (deferred hub.Remove).
ReservationsAreOwned ==
    \A p \in Processes :
        hub[p].reserved => \E t \in Threads : ProcessOf[t] = p /\ thread[t].reserved

\* A registered pairing session makes every later ConnectQRCode answer "in
\* progress": a call or a consumer that will remove it must be alive, also
\* when the call returned early and the consumer ended first (sessionRegistered).
SessionsAreOwned ==
    \A p \in Processes :
        pairing[p] # NoClient =>
            \/ \E t \in Threads : thread[t].session /\ thread[t].client = pairing[p]
            \/ client[pairing[p]].consumer \in {"run", "lost", "won"}

Pairs(c) == client[c].consumer = "run" /\ ~ client[c].done

\* One QR pairing of the instance at a time in one process, however calls,
\* logouts and the clean-up of earlier pairings interleave (pairings.exists,
\* pairings.add, hub.Reserve).
OnePairing ==
    \A c, d \in Clients :
        Pairs(c) /\ Pairs(d) /\ client[c].home = client[d].home => c = d

ActsFor(p) ==
    \/ \E t \in Threads : ProcessOf[t] = p /\ thread'[t] # thread[t]
    \/ \E c \in Clients : client[c].home = p /\ client'[c] # client[c]
    \/ phase'[p] # phase[p]

\* A process whose lease lapsed releases late, when another process has
\* acquired the lock: only its owner may free a running lease or pass it on
\* (ReleaseConnectionLock's owner test).
LateReleaseHarmless ==
    [][\A p \in Processes :
         /\ lock = Acquired(p)
         /\ lock'.lease = "none" \/ lock'.owner \notin {p, NoProcess}
         => ActsFor(p)]_vars

\* A pairing is over when its context is, or when its consumer stopped waiting.
Over(c) == client[c].done \/ client[c].consumer \notin {"none", "run"}

Stage(p) ==
    LET c == pairing[p] IN
    CASE c = NoClient                -> "none"
      [] c # NoClient /\ Over(c)     -> "over"
      [] c # NoClient /\ Pairs(c)    -> "pairs"
      [] OTHER                       -> "added"

Contract == INSTANCE PairingContract
            WITH session <- pairing, stage <- [p \in Processes |-> Stage(p)],
                 MayCrash <- "crash" \in Disturbances

\* The pairing sessions of the processes keep their contract, however calls,
\* logouts, Close, bans and the clean-up of earlier pairings interleave: a
\* session is removed by nobody but its owner and not before its pairing is
\* over, is never replaced, and never begins to pair again (pairingManager).
\* Only a process that loses all its clients forgets a pairing in progress.
KeepsPairingContract ==
    /\ Contract!Spec
    /\ [][\A p \in Processes :
            pairing[p] # NoClient /\ ~ Over(pairing[p]) /\ pairing'[p] = NoClient
              => \A c \in Clients : client'[c].home # p]_vars

\* A pairing session does not outlive its pairing timeout, so the instance can
\* be paired again (consumeQRCodeChannel's deadline and deferred exit).
PairingEnds ==
    \A p \in Processes, c \in Clients : pairing[p] = c ~> pairing[p] # c

\* Once the module is closed none of its clients is connected: "Close stops
\* module-owned work and disconnects managed clients" (README.md), and restored
\* instances are stopped "the same way as paired ones" (CHANGELOG.md).
ClosedMeansDisconnected ==
    \A c \in Clients :
        client[c].home # NoProcess /\ phase[client[c].home] = "closed"
            => client[c].socket = "off"

=============================================================================
