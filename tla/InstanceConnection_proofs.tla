--------------------- MODULE InstanceConnection_proofs ---------------------
(***************************************************************************)
(* Type correctness of InstanceConnection, that every reservation and      *)
(* every pairing session has somebody who will end it, that an instance is *)
(* paired once at a time in a process, that a late release of the          *)
(* connection lock is harmless, and that the pairing sessions keep         *)
(* PairingContract, for any processes, goroutines, clients, calls, events  *)
(* and disturbances.                                                       *)
(***************************************************************************)
EXTENDS InstanceConnection, TLAPS

-----------------------------------------------------------------------------
(* The inductive invariant.                                                *)

\* A client that the call has to itself, between newClient and hub.Register.
Fresh(r) == r.call = "qr" /\ r.step \in {"session", "register"}

\* Which clean-ups a call may owe, by the step it is at.
Shape(r) ==
    /\ r.step = "idle" => r.client = NoClient
    /\ r.step # "idle" => r.call \in AllCalls \ {"close"}
    /\ r.step \in {"reserve", "client"} => r.call \in {"qr", "phone", "restore"}
    /\ r.reserved => \/ r.step \in {"client", "session", "register", "unwind"}
                     \/ r.call = "phone" /\ r.step \in {"connect", "pairPhone"}
    /\ r.session => /\ r.call = "qr" /\ r.client # NoClient
                    /\ r.step \in {"register", "connect", "wait", "unwind"}
    /\ r.call = "qr" /\ r.step \in {"register", "connect", "wait"} => r.session

CallsHaveShape == \A t \in Threads : Shape(thread[t])

HubsAreSound == \A p \in Processes : hub[p].reserved => hub[p].client = NoClient

\* Whoever refers to a client belongs to the process that made it.
CallsKnowTheirOwn ==
    \A t \in Threads :
        thread[t].client # NoClient => client[thread[t].client].home = ProcessOf[t]

HubsKnowTheirOwn ==
    \A p \in Processes :
        /\ hub[p].client # NoClient => client[hub[p].client].home = p
        /\ pairing[p] # NoClient => client[pairing[p]].home = p

Unshared(t, c) ==
    /\ c \in Clients
    /\ client[c].consumer = "none"
    /\ \A p \in Processes : hub[p].client # c
    /\ \A u \in Threads : u # t => thread[u].client # c

\* Nobody else refers to a fresh client, but for the session once it is added.
FreshIsUnshared ==
    \A t \in Threads :
        Fresh(thread[t]) =>
            /\ Unshared(t, thread[t].client)
            /\ IF thread[t].step = "register"
               THEN pairing[ProcessOf[t]] = thread[t].client
               ELSE \A p \in Processes : pairing[p] # thread[t].client

\* A call that left its session to the consumer has one that will remove it.
ConsumersTakeOver ==
    \A t \in Threads :
        /\ thread[t].session /\ thread[t].step \in {"connect", "wait"}
        /\ pairing[ProcessOf[t]] = thread[t].client
        => client[thread[t].client].consumer \in {"run", "lost", "won"}

\* A call removes its session only when nothing pairs under it any more.
NoPairingIsUnwound ==
    \A t \in Threads :
        thread[t].session /\ thread[t].step = "unwind" => ~ Pairs(thread[t].client)

\* What pairs does so under the session of its process.
PairsUnderSession ==
    \A c \in Clients :
        Pairs(c) => \E p \in Processes : client[c].home = p /\ pairing[p] = c

IInv ==
    /\ TypeOK /\ CallsHaveShape /\ HubsAreSound /\ CallsKnowTheirOwn /\ HubsKnowTheirOwn
    /\ FreshIsUnshared /\ ConsumersTakeOver /\ NoPairingIsUnwound /\ PairsUnderSession
    /\ ReservationsAreOwned /\ SessionsAreOwned

-----------------------------------------------------------------------------
(* Type correctness.                                                       *)

\* The names that the actions write are in their sets.
LEMMA StepNames ==
    /\ "idle" \in Steps /\ "unwind" \in Steps /\ "exists" \in Steps /\ "lock" \in Steps
    /\ "existing" \in Steps /\ "registerExisting" \in Steps /\ "reconnect" \in Steps
    /\ "pairing" \in Steps /\ "reserve" \in Steps /\ "client" \in Steps
    /\ "session" \in Steps /\ "register" \in Steps /\ "connect" \in Steps
    /\ "wait" \in Steps /\ "pairPhone" \in Steps /\ "remove" \in Steps
    /\ "cleanup" \in Steps /\ "clear" \in Steps /\ "reconcile" \in Steps
BY DEF Steps

\* So are those they write into the clients.
LEMMA ClientNames ==
    /\ "off" \in Sockets /\ "open" \in Sockets /\ "ready" \in Sockets
    /\ "none" \in ConsumerSteps /\ "run" \in ConsumerSteps /\ "lost" \in ConsumerSteps
    /\ "won" \in ConsumerSteps /\ "leave" \in ConsumerSteps /\ "remove" \in ConsumerSteps
    /\ "release" \in ConsumerSteps
    /\ "none" \in HandlerSteps /\ "paired" \in HandlerSteps /\ "connected" \in HandlerSteps
    /\ "loggedOut" \in HandlerSteps /\ "remove" \in HandlerSteps /\ "release" \in HandlerSteps
    /\ "qr" \in Kinds /\ "phone" \in Kinds /\ "existing" \in Kinds /\ "restore" \in Kinds
BY DEF Sockets, ConsumerSteps, HandlerSteps, Kinds

\* The records that the actions build are typed.
LEMMA RecordsTyped ==
    /\ Idle \in CallRecords
    /\ NoRecord \in ClientRecords
    /\ EmptyHub \in HubRecords
<1>1. Idle \in CallRecords
  BY StepNames DEF Idle, CallRecords
<1>2. NoRecord \in ClientRecords
  BY ClientNames DEF NoRecord, ClientRecords
<1> QED
  BY <1>1, <1>2 DEF EmptyHub, HubRecords

\* So is the record of a new client, which belongs to its process and has no consumer.
LEMMA NewRecordTyped ==
    ASSUME NEW p \in Processes, NEW kind \in Kinds,
           NEW linked \in BOOLEAN
    PROVE  /\ NewRecord(p, kind, linked) \in ClientRecords
           /\ NewRecord(p, kind, linked).home = p
           /\ NewRecord(p, kind, linked).consumer = "none"
<1>1. (kind \in {"qr", "restore"} /\ Stopped(p)) \in BOOLEAN
  BY DEF Stopped
<1> QED
  BY <1>1, ClientNames DEF NewRecord, NoRecord, ClientRecords

\* Nothing is connected, reserved or called at first.
LEMMA InitInvariant == Init => IInv
<1> SUFFICES ASSUME Init PROVE IInv
  OBVIOUS
<1>1. /\ lock \in Locks
      /\ phase \in [Processes -> Phases]
      /\ hub \in [Processes -> HubRecords]
  BY DEF Init, Locks, Phases, EmptyHub, HubRecords
<1>2. Idle \in CallRecords /\ Shape(Idle) /\ ~ Idle.session /\ ~ Idle.reserved
  BY StepNames DEF Idle, CallRecords, Shape
<1>3. NoRecord \in ClientRecords
  BY ClientNames DEF NoRecord, ClientRecords
<1>4. TypeOK
  BY <1>1, <1>2, <1>3 DEF Init, TypeOK
<1>5. CallsHaveShape
  BY <1>2 DEF Init, CallsHaveShape
<1>6. HubsAreSound /\ ReservationsAreOwned
  BY DEF Init, HubsAreSound, ReservationsAreOwned, EmptyHub
<1>7. CallsKnowTheirOwn /\ HubsKnowTheirOwn /\ FreshIsUnshared /\ SessionsAreOwned
  BY DEF Init, CallsKnowTheirOwn, HubsKnowTheirOwn, FreshIsUnshared, SessionsAreOwned,
         EmptyHub, Idle, Fresh
<1>8. ConsumersTakeOver /\ NoPairingIsUnwound
  BY DEF Init, ConsumersTakeOver, NoPairingIsUnwound, Idle
<1>9. PairsUnderSession
  BY DEF Init, PairsUnderSession, Pairs, NoRecord
<1> QED
  BY <1>4, <1>5, <1>6, <1>7, <1>8, <1>9 DEF IInv

\* So are the locks that they write.
LEMMA LocksTyped ==
    ASSUME TypeOK, NEW p \in Processes
    PROVE  Acquired(p) \in Locks /\ Released(p) \in Locks
BY DEF TypeOK, Locks, Acquired, Released

\* Cancelling the context of a client,
LEMMA ClientDone ==
    ASSUME TypeOK, NEW c
    PROVE  [client EXCEPT ![c].done = TRUE] \in [Clients -> ClientRecords]
<1>1. client \in [Clients -> ClientRecords]
  BY DEF TypeOK
<1> QED
  BY <1>1, ClientNames DEF ClientRecords

\* Connect,
LEMMA ClientOpens ==
    ASSUME TypeOK, NEW c
    PROVE  [client EXCEPT ![c].socket = "open"] \in [Clients -> ClientRecords]
<1>1. client \in [Clients -> ClientRecords]
  BY DEF TypeOK
<1> QED
  BY <1>1, ClientNames DEF ClientRecords

\* cancelling and disconnecting it,
LEMMA ClientEnds ==
    ASSUME TypeOK, NEW c
    PROVE  [client EXCEPT ![c].done = TRUE, ![c].socket = "off"] \in [Clients -> ClientRecords]
<1>1. client \in [Clients -> ClientRecords]
  BY DEF TypeOK
<1> QED
  BY <1>1, ClientNames DEF ClientRecords

\* logging it out,
LEMMA ClientUnlinked ==
    ASSUME TypeOK, NEW c
    PROVE  [client EXCEPT ![c].socket = "off", ![c].linked = FALSE] \in [Clients -> ClientRecords]
<1>1. client \in [Clients -> ClientRecords]
  BY DEF TypeOK
<1> QED
  BY <1>1, ClientNames DEF ClientRecords

\* disconnecting it unless it is logged in,
LEMMA ClientOff ==
    ASSUME TypeOK, NEW c
    PROVE  [client EXCEPT ![c].socket = IF @ = "ready" THEN @ ELSE "off"] \in [Clients -> ClientRecords]
<1>1. client \in [Clients -> ClientRecords]
  BY DEF TypeOK
<1> QED
  BY <1>1, ClientNames DEF ClientRecords

\* and starting its consumer keep the type of the clients.
LEMMA ClientConsumed ==
    ASSUME TypeOK, NEW c
    PROVE  [client EXCEPT ![c].consumer = "run"] \in [Clients -> ClientRecords]
<1>1. client \in [Clients -> ClientRecords]
  BY DEF TypeOK
<1> QED
  BY <1>1, ClientNames DEF ClientRecords

\* So does a step of the call itself.
LEMMA GotoTyped ==
    ASSUME TypeOK, NEW t \in Threads, NEW step \in Steps, Goto(t, step)
    PROVE  thread' \in [Threads -> CallRecords]
BY DEF TypeOK, Goto, CallRecords

\* What an action writes into the record of a call leaves it a call's record:
\* its clean-ups,
LEMMA CleanUpWritten ==
    ASSUME NEW calls \in [Threads -> CallRecords], NEW t \in Threads, NEW due \in BOOLEAN
    PROVE  /\ [calls EXCEPT ![t].session = due] \in [Threads -> CallRecords]
           /\ [calls EXCEPT ![t].reserved = due] \in [Threads -> CallRecords]
           /\ [calls EXCEPT ![t].locked = due] \in [Threads -> CallRecords]
<1>1. calls[t] \in CallRecords
  OBVIOUS
<1>2. /\ [calls[t] EXCEPT !.session = due] \in CallRecords
      /\ [calls[t] EXCEPT !.reserved = due] \in CallRecords
      /\ [calls[t] EXCEPT !.locked = due] \in CallRecords
  BY <1>1 DEF CallRecords
<1> QED
  BY <1>2

\* its client,
LEMMA ClientWritten ==
    ASSUME NEW calls \in [Threads -> CallRecords], NEW t \in Threads,
           NEW c \in Clients \union {NoClient}
    PROVE  [calls EXCEPT ![t].client = c] \in [Threads -> CallRecords]
<1>1. calls[t] \in CallRecords
  OBVIOUS
<1>2. [calls[t] EXCEPT !.client = c] \in CallRecords
  BY <1>1 DEF CallRecords
<1> QED
  BY <1>2

\* and its step.
LEMMA StepWritten ==
    ASSUME NEW calls \in [Threads -> CallRecords], NEW t \in Threads, NEW step \in Steps
    PROVE  [calls EXCEPT ![t].step = step] \in [Threads -> CallRecords]
<1>1. calls[t] \in CallRecords
  OBVIOUS
<1>2. [calls[t] EXCEPT !.step = step] \in CallRecords
  BY <1>1 DEF CallRecords
<1> QED
  BY <1>2

\* Registering a client keeps the hub's type.
LEMMA Registered ==
    ASSUME TypeOK, NEW p, NEW c \in Clients \union {NoClient}, Register(p, c)
    PROVE  hub' \in [Processes -> HubRecords]
<1>1. hub \in [Processes -> HubRecords]
  BY DEF TypeOK
<1>2. [client |-> c, reserved |-> FALSE] \in HubRecords
  BY DEF HubRecords
<1> QED
  BY <1>1, <1>2 DEF Register

\* The steps that several calls share keep the types.
LEMMA SharedTypes ==
    ASSUME TypeOK, CallsHaveShape, NEW t \in Threads, SharedStep(t)
    PROVE  TypeOK'
<1>1. ProcessOf[t] \in Processes /\ thread[t] \in CallRecords
  BY ThreadAssumption DEF TypeOK
<1>2. thread \in [Threads -> CallRecords]
  BY DEF TypeOK
<1>3. hub \in [Processes -> HubRecords] /\ thread[t].client \in Clients \union {NoClient}
  BY <1>1 DEF TypeOK, CallRecords
<1>4. CASE TryAcquire(t)
  <2>1. AfterLock(thread[t].call) \in Steps
    BY StepNames DEF AfterLock
  <2>2. thread' \in [Threads -> CallRecords]
    <3>1. CASE thread' = [thread EXCEPT ![t] = Idle]
      BY <1>2, <3>1, RecordsTyped
    <3>2. CASE thread' = [thread EXCEPT ![t].locked = TRUE,
                                        ![t].step = AfterLock(thread[t].call)]
      <4>1. [thread EXCEPT ![t].locked = TRUE] \in [Threads -> CallRecords]
        BY <1>2, CleanUpWritten
      <4> QED
        BY <2>1, <3>2, <4>1, StepWritten
    <3> QED
      BY <1>4, <3>1, <3>2 DEF TryAcquire
  <2>3. lock' \in Locks
    BY <1>1, <1>4, LocksTyped DEF TryAcquire, TypeOK
  <2> QED
    BY <1>4, <2>2, <2>3 DEF TryAcquire, TypeOK
<1>5. CASE Reserve(t)
  <2>1. "unwind" \in Steps /\ "client" \in Steps
    BY DEF Steps
  <2>2. thread' \in [Threads -> CallRecords]
    BY <1>2, <1>5, <2>1 DEF Reserve, Return, Goto, CallRecords
  <2>3. hub' \in [Processes -> HubRecords]
    <3>1. [EmptyHub EXCEPT !.reserved = TRUE] \in HubRecords
      BY DEF EmptyHub, HubRecords
    <3>2. \/ hub' = hub
          \/ hub' = [hub EXCEPT ![ProcessOf[t]] = [EmptyHub EXCEPT !.reserved = TRUE]]
      BY <1>5 DEF Reserve
    <3> QED
      BY <1>3, <3>1, <3>2
  <2> QED
    BY <1>5, <2>2, <2>3 DEF Reserve, TypeOK
<1>6. CASE NewClient(t)
  <2>1. /\ thread[t].call \in {"qr", "phone", "restore"}
        /\ thread[t].device \in BOOLEAN
    BY <1>1, <1>6 DEF NewClient, CallsHaveShape, Shape, CallRecords
  <2>2. thread[t].call \in Kinds /\ AfterClient(thread[t].call) \in Steps
    BY <2>1, StepNames, ClientNames DEF AfterClient
  <2>3. PICK c \in Clients :
          /\ client' = [client EXCEPT ![c] =
                           NewRecord(ProcessOf[t], thread[t].call, thread[t].device)]
          /\ thread' = [thread EXCEPT ![t].client = c,
                                      ![t].step = AfterClient(thread[t].call)]
    BY <1>6 DEF NewClient
  <2>4. NewRecord(ProcessOf[t], thread[t].call, thread[t].device) \in ClientRecords
    BY <1>1, <2>1, <2>2, NewRecordTyped
  <2>5. client' \in [Clients -> ClientRecords]
    BY <2>3, <2>4 DEF TypeOK
  <2>6. thread' \in [Threads -> CallRecords]
    <3>1. [thread EXCEPT ![t].client = c] \in [Threads -> CallRecords]
      BY <1>2, ClientWritten
    <3> QED
      BY <2>2, <2>3, <3>1, StepWritten
  <2> QED
    BY <1>6, <2>5, <2>6 DEF NewClient, TypeOK
<1>7. CASE NewClientFails(t)
  <2>1. "unwind" \in Steps
    BY DEF Steps
  <2>2. thread' \in [Threads -> CallRecords]
    BY <1>2, <1>7, <2>1 DEF NewClientFails, Return, Goto, CallRecords
  <2> QED
    BY <1>7, <2>2 DEF NewClientFails, TypeOK
<1>8. CASE UnwindSession(t)
  <2>1. thread' \in [Threads -> CallRecords]
    BY <1>2, <1>8 DEF UnwindSession, CallRecords
  <2>2. pairing' \in [Processes -> Clients \union {NoClient}]
    BY <1>3, <1>8 DEF UnwindSession, RemoveSession, WithoutSession, TypeOK
  <2> QED
    BY <1>8, <2>1, <2>2 DEF UnwindSession, TypeOK
<1>9. CASE UnwindReservation(t)
  <2>1. thread' \in [Threads -> CallRecords]
    BY <1>2, <1>9 DEF UnwindReservation, CallRecords
  <2>2. hub' \in [Processes -> HubRecords]
    BY <1>3, <1>9 DEF UnwindReservation, Remove, EmptyHub, HubRecords
  <2> QED
    BY <1>9, <2>1, <2>2 DEF UnwindReservation, TypeOK
<1>10. CASE UnwindLock(t)
  <2>1. thread' \in [Threads -> CallRecords]
    BY <1>2, <1>10, RecordsTyped DEF UnwindLock
  <2>2. lock' \in Locks
    BY <1>1, <1>10, LocksTyped DEF UnwindLock, TypeOK
  <2> QED
    BY <1>10, <2>1, <2>2 DEF UnwindLock, TypeOK
<1> QED
  BY <1>4, <1>5, <1>6, <1>7, <1>8, <1>9, <1>10 DEF SharedStep

\* So do those of ConnectQRCode.
LEMMA QRTypes ==
    ASSUME TypeOK, NEW t \in Threads, QRStep(t)
    PROVE  TypeOK'
<1>1. ProcessOf[t] \in Processes /\ thread[t] \in CallRecords
  BY ThreadAssumption DEF TypeOK
<1>2. thread \in [Threads -> CallRecords]
  BY DEF TypeOK
<1>3. hub \in [Processes -> HubRecords] /\ thread[t].client \in Clients \union {NoClient}
  BY <1>1 DEF TypeOK, CallRecords
<1>4. CASE QRExisting(t)
  <2> DEFINE Made(c) ==
               /\ client' = [client EXCEPT ![c] = NewRecord(ProcessOf[t], "existing", TRUE)]
               /\ thread' = [thread EXCEPT ![t].client = c, ![t].step = "registerExisting"]
  <2>1. hub[ProcessOf[t]].client \in Clients \union {NoClient}
    BY <1>1, <1>3 DEF HubRecords
  <2>2. /\ "unwind" \in Steps /\ "pairing" \in Steps
        /\ "reconnect" \in Steps /\ "registerExisting" \in Steps
    BY DEF Steps
  <2>3. CASE UNCHANGED client /\ (Goto(t, "unwind") \/ Goto(t, "pairing"))
    BY <1>2, <1>4, <2>2, <2>3, GotoTyped DEF QRExisting, TypeOK
  <2>4. CASE /\ UNCHANGED client
             /\ thread' = [thread EXCEPT ![t].client = hub[ProcessOf[t]].client,
                                         ![t].step = "reconnect"]
    <3>1. thread' \in [Threads -> CallRecords]
      <4>1. [thread EXCEPT ![t].client = hub[ProcessOf[t]].client] \in [Threads -> CallRecords]
        BY <1>2, <2>1, ClientWritten
      <4> QED
        BY <2>2, <2>4, <4>1, StepWritten
    <3> QED
      BY <1>4, <2>4, <3>1 DEF QRExisting, TypeOK
  <2>5. ASSUME NEW c \in Clients, Made(c)
        PROVE  TypeOK'
    <3>1. NewRecord(ProcessOf[t], "existing", TRUE) \in ClientRecords
      BY <1>1, NewRecordTyped, ClientNames
    <3>2. client' \in [Clients -> ClientRecords]
      BY <2>5, <3>1 DEF TypeOK
    <3>3. thread' \in [Threads -> CallRecords]
      <4>1. [thread EXCEPT ![t].client = c] \in [Threads -> CallRecords]
        BY <1>2, ClientWritten
      <4> QED
        BY <2>2, <2>5, <4>1, StepWritten
    <3> QED
      BY <1>4, <3>2, <3>3 DEF QRExisting, TypeOK
  <2> QED
    BY <1>4, <2>3, <2>4, <2>5 DEF QRExisting, Return
<1>5. CASE QRRegisterExisting(t)
  <2>1. "unwind" \in Steps /\ "reconnect" \in Steps
    BY DEF Steps
  <2>2. thread' \in [Threads -> CallRecords]
    BY <1>2, <1>5, <2>1 DEF QRRegisterExisting, Return, Goto, CallRecords
  <2>3. hub' \in [Processes -> HubRecords]
    <3>1. CASE Register(ProcessOf[t], thread[t].client)
      BY <1>3, <3>1, Registered
    <3>2. CASE UNCHANGED hub
      BY <1>3, <3>2
    <3> QED
      BY <1>5, <3>1, <3>2 DEF QRRegisterExisting
  <2> QED
    BY <1>5, <2>2, <2>3 DEF QRRegisterExisting, TypeOK
<1>6. CASE QRReconnect(t)
  <2>1. "unwind" \in Steps
    BY DEF Steps
  <2>2. thread' \in [Threads -> CallRecords]
    BY <1>2, <1>6, <2>1, RecordsTyped DEF QRReconnect, Return, Goto, CallRecords
  <2>3. client' \in [Clients -> ClientRecords]
    BY <1>6, ClientOpens DEF QRReconnect, TypeOK
  <2> QED
    BY <1>6, <2>2, <2>3 DEF QRReconnect, TypeOK
<1>7. CASE QRPairing(t)
  <2>1. "unwind" \in Steps /\ "reserve" \in Steps
    BY DEF Steps
  <2>2. thread' \in [Threads -> CallRecords]
    BY <1>2, <1>7, <2>1 DEF QRPairing, Return, Goto, CallRecords
  <2> QED
    BY <1>7, <2>2 DEF QRPairing, TypeOK
<1>8. CASE QRSession(t)
  <2>1. "unwind" \in Steps /\ "register" \in Steps
    BY DEF Steps
  <2>2. thread' \in [Threads -> CallRecords]
    <3>1. CASE thread' = [thread EXCEPT ![t].session = TRUE, ![t].step = "register"]
      <4>1. [thread EXCEPT ![t].session = TRUE] \in [Threads -> CallRecords]
        BY <1>2, CleanUpWritten
      <4> QED
        BY <2>1, <3>1, <4>1, StepWritten
    <3>2. CASE thread' = [thread EXCEPT ![t].step = "unwind"]
      BY <1>2, <2>1, <3>2 DEF CallRecords
    <3> QED
      BY <1>8, <3>1, <3>2 DEF QRSession, Return, Goto
  <2>3. pairing' \in [Processes -> Clients \union {NoClient}]
    BY <1>3, <1>8 DEF QRSession, TypeOK
  <2> QED
    BY <1>8, <2>2, <2>3 DEF QRSession, TypeOK
<1>9. CASE QRRegister(t)
  <2>1. "unwind" \in Steps /\ "connect" \in Steps
    BY DEF Steps
  <2>2. thread' \in [Threads -> CallRecords]
    <3>1. CASE thread' = [thread EXCEPT ![t].reserved = FALSE, ![t].locked = FALSE,
                                        ![t].step = "connect"]
      <4> DEFINE r == [thread[t] EXCEPT !.reserved = FALSE, !.locked = FALSE, !.step = "connect"]
      <4>1. r \in CallRecords
        BY <1>1, <2>1 DEF CallRecords
      <4>2. thread' = [thread EXCEPT ![t] = r]
        BY <1>1, <1>2, <3>1 DEF CallRecords
      <4> QED
        BY <1>2, <4>1, <4>2
    <3>2. CASE thread' = [thread EXCEPT ![t].step = "unwind"]
      BY <1>2, <2>1, <3>2 DEF CallRecords
    <3> QED
      BY <1>9, <3>1, <3>2 DEF QRRegister, Return, Goto
  <2>3. client' \in [Clients -> ClientRecords]
    <3>1. CASE client' = [client EXCEPT ![thread[t].client].done = TRUE]
      BY <3>1, ClientDone
    <3>2. CASE client' = [client EXCEPT ![thread[t].client].consumer = "run"]
      BY <3>2, ClientConsumed
    <3> QED
      BY <1>9, <3>1, <3>2 DEF QRRegister
  <2>4. hub' \in [Processes -> HubRecords]
    <3>1. CASE Register(ProcessOf[t], thread[t].client)
      BY <1>3, <3>1, Registered
    <3>2. CASE UNCHANGED hub
      BY <1>3, <3>2
    <3> QED
      BY <1>9, <3>1, <3>2 DEF QRRegister
  <2> QED
    BY <1>9, <2>2, <2>3, <2>4 DEF QRRegister, TypeOK
<1>10. CASE QRConnect(t)
  <2>1. "unwind" \in Steps /\ "wait" \in Steps
    BY DEF Steps
  <2>2. thread' \in [Threads -> CallRecords]
    BY <1>2, <1>10, <2>1 DEF QRConnect, Return, Goto, CallRecords
  <2>3. client' \in [Clients -> ClientRecords]
    BY <1>10, ClientOpens, ClientDone DEF QRConnect
  <2> QED
    BY <1>10, <2>2, <2>3 DEF QRConnect, TypeOK
<1>11. CASE QRWait(t)
  <2>1. "unwind" \in Steps
    BY DEF Steps
  <2>2. thread' \in [Threads -> CallRecords]
    BY <1>2, <1>11, <2>1, RecordsTyped DEF QRWait, Return, Goto, CallRecords
  <2> QED
    BY <1>11, <2>2 DEF QRWait, TypeOK
<1> QED
  BY <1>4, <1>5, <1>6, <1>7, <1>8, <1>9, <1>10, <1>11 DEF QRStep

\* Those of ConnectPhone,
LEMMA PhoneTypes ==
    ASSUME TypeOK, NEW t \in Threads, PhoneStep(t)
    PROVE  TypeOK'
<1>1. ProcessOf[t] \in Processes /\ thread[t] \in CallRecords
  BY ThreadAssumption DEF TypeOK
<1>2. thread \in [Threads -> CallRecords]
  BY DEF TypeOK
<1>3. hub \in [Processes -> HubRecords] /\ thread[t].client \in Clients \union {NoClient}
  BY <1>1 DEF TypeOK, CallRecords
<1>4. CASE PhoneExists(t)
  <2>1. "lock" \in Steps
    BY DEF Steps
  <2>2. thread' \in [Threads -> CallRecords]
    BY <1>2, <1>4, <2>1, RecordsTyped DEF PhoneExists, Goto, CallRecords
  <2> QED
    BY <1>4, <2>2 DEF PhoneExists, TypeOK
<1>5. CASE PhoneConnect(t)
  <2>1. "unwind" \in Steps /\ "pairPhone" \in Steps
    BY DEF Steps
  <2>2. thread' \in [Threads -> CallRecords]
    BY <1>2, <1>5, <2>1 DEF PhoneConnect, Return, Goto, CallRecords
  <2>3. client' \in [Clients -> ClientRecords]
    <3>1. CASE client' = [client EXCEPT ![thread[t].client].done = TRUE]
      BY <3>1, ClientDone
    <3>2. CASE client' = [client EXCEPT ![thread[t].client].socket = "open"]
      BY <3>2, ClientOpens
    <3> QED
      BY <1>5, <3>1, <3>2 DEF PhoneConnect
  <2> QED
    BY <1>5, <2>2, <2>3 DEF PhoneConnect, TypeOK
<1>6. CASE PhonePair(t)
  <2>1. "unwind" \in Steps /\ "register" \in Steps
    BY DEF Steps
  <2>2. thread' \in [Threads -> CallRecords]
    BY <1>2, <1>6, <2>1 DEF PhonePair, Return, Goto, CallRecords
  <2>3. client' \in [Clients -> ClientRecords]
    BY <1>6, ClientEnds DEF PhonePair, TypeOK
  <2> QED
    BY <1>6, <2>2, <2>3 DEF PhonePair, TypeOK
<1>7. CASE PhoneRegister(t)
  <2>1. "unwind" \in Steps
    BY DEF Steps
  <2>2. thread' \in [Threads -> CallRecords]
    BY <1>2, <1>7, <2>1, RecordsTyped DEF PhoneRegister, Return, Goto, CallRecords
  <2>3. client' \in [Clients -> ClientRecords]
    BY <1>7, ClientEnds DEF PhoneRegister, TypeOK
  <2>4. hub' \in [Processes -> HubRecords]
    <3>1. CASE Register(ProcessOf[t], thread[t].client)
      BY <1>3, <3>1, Registered
    <3>2. CASE UNCHANGED hub
      BY <1>3, <3>2
    <3> QED
      BY <1>7, <3>1, <3>2 DEF PhoneRegister
  <2> QED
    BY <1>7, <2>2, <2>3, <2>4 DEF PhoneRegister, TypeOK
<1> QED
  BY <1>4, <1>5, <1>6, <1>7 DEF PhoneStep

\* of restoreOne
LEMMA RestoreTypes ==
    ASSUME TypeOK, NEW t \in Threads, RestoreStep(t)
    PROVE  TypeOK'
<1>1. ProcessOf[t] \in Processes /\ thread[t] \in CallRecords
  BY ThreadAssumption DEF TypeOK
<1>2. thread \in [Threads -> CallRecords]
  BY DEF TypeOK
<1>3. hub \in [Processes -> HubRecords] /\ thread[t].client \in Clients \union {NoClient}
  BY <1>1 DEF TypeOK, CallRecords
<1>4. CASE RestoreRegister(t)
  <2>1. "unwind" \in Steps /\ "reconcile" \in Steps
    BY DEF Steps
  <2>2. thread' \in [Threads -> CallRecords]
    <3>1. [thread EXCEPT ![t].reserved = FALSE] \in [Threads -> CallRecords]
      BY <1>2, CleanUpWritten
    <3>2. CASE thread' = [thread EXCEPT ![t].reserved = FALSE, ![t].step = "reconcile"]
      BY <2>1, <3>1, <3>2, StepWritten
    <3>3. CASE thread' = [thread EXCEPT ![t].reserved = FALSE, ![t].step = "unwind"]
      BY <2>1, <3>1, <3>3, StepWritten
    <3> QED
      BY <1>4, <3>2, <3>3 DEF RestoreRegister
  <2>3. hub' \in [Processes -> HubRecords]
    <3>1. CASE Register(ProcessOf[t], thread[t].client)
      BY <1>3, <3>1, Registered
    <3>2. CASE UNCHANGED hub
      BY <1>3, <3>2
    <3> QED
      BY <1>4, <3>1, <3>2 DEF RestoreRegister
  <2> QED
    BY <1>4, <2>2, <2>3 DEF RestoreRegister, TypeOK
<1>5. CASE RestoreReconcile(t)
  <2>1. "unwind" \in Steps /\ "connect" \in Steps
    BY DEF Steps
  <2>2. thread' \in [Threads -> CallRecords]
    <3>1. CASE thread' = [thread EXCEPT ![t].step = "connect"]
      BY <1>2, <2>1, <3>1 DEF CallRecords
    <3>2. CASE thread' = [thread EXCEPT ![t].reserved = TRUE, ![t].step = "unwind"]
      <4>1. [thread EXCEPT ![t].reserved = TRUE] \in [Threads -> CallRecords]
        BY <1>2, CleanUpWritten
      <4> QED
        BY <2>1, <3>2, <4>1, StepWritten
    <3> QED
      BY <1>5, <3>1, <3>2 DEF RestoreReconcile, Goto
  <2> QED
    BY <1>5, <2>2 DEF RestoreReconcile, TypeOK
<1>6. CASE RestoreConnect(t)
  <2>1. "unwind" \in Steps /\ "wait" \in Steps
    BY DEF Steps
  <2>2. thread' \in [Threads -> CallRecords]
    <3>1. CASE thread' = [thread EXCEPT ![t].step = "wait"]
      BY <1>2, <2>1, <3>1 DEF CallRecords
    <3>2. CASE thread' = [thread EXCEPT ![t].reserved = TRUE, ![t].step = "unwind"]
      <4>1. [thread EXCEPT ![t].reserved = TRUE] \in [Threads -> CallRecords]
        BY <1>2, CleanUpWritten
      <4> QED
        BY <2>1, <3>2, <4>1, StepWritten
    <3>3. CASE thread' = [thread EXCEPT ![t].step = "unwind"]
      BY <1>2, <2>1, <3>3 DEF CallRecords
    <3> QED
      BY <1>6, <3>1, <3>2, <3>3 DEF RestoreConnect, Return, Goto
  <2>3. client' \in [Clients -> ClientRecords]
    BY <1>6, ClientOpens DEF RestoreConnect, TypeOK
  <2> QED
    BY <1>6, <2>2, <2>3 DEF RestoreConnect, TypeOK
<1>7. CASE RestoreWait(t)
  <2>1. thread' \in [Threads -> CallRecords]
    BY <1>2, <1>7, RecordsTyped DEF RestoreWait
  <2> QED
    BY <1>7, <2>1 DEF RestoreWait, TypeOK
<1> QED
  BY <1>4, <1>5, <1>6, <1>7 DEF RestoreStep

\* and of Logout.
LEMMA LogoutTypes ==
    ASSUME TypeOK, NEW t \in Threads, LogoutStep(t)
    PROVE  TypeOK'
<1>1. ProcessOf[t] \in Processes /\ thread[t] \in CallRecords
  BY ThreadAssumption DEF TypeOK
<1>2. thread \in [Threads -> CallRecords]
  BY DEF TypeOK
<1>3. hub \in [Processes -> HubRecords] /\ thread[t].client \in Clients \union {NoClient}
  BY <1>1 DEF TypeOK, CallRecords
<1>4. CASE LogoutRemove(t)
  <2>1. hub[ProcessOf[t]].client \in Clients \union {NoClient}
    BY <1>1, <1>3 DEF HubRecords
  <2>2. "unwind" \in Steps /\ "clear" \in Steps /\ "cleanup" \in Steps
    BY DEF Steps
  <2>3. thread' \in [Threads -> CallRecords]
    BY <1>2, <1>4, <2>1, <2>2 DEF LogoutRemove, Return, Goto, CallRecords
  <2>4. client' \in [Clients -> ClientRecords]
    <3>1. client \in [Clients -> ClientRecords]
      BY DEF TypeOK
    <3>2. \A c \in Clients : [client[c] EXCEPT !.done = TRUE] \in ClientRecords
      BY <3>1 DEF ClientRecords
    <3> QED
      BY <1>4, <3>1, <3>2 DEF LogoutRemove
  <2>5. hub' \in [Processes -> HubRecords]
    BY <1>3, <1>4 DEF LogoutRemove, Remove, EmptyHub, HubRecords
  <2> QED
    BY <1>4, <2>3, <2>4, <2>5 DEF LogoutRemove, TypeOK
<1>5. CASE LogoutCleanup(t)
  <2>1. "unwind" \in Steps /\ "clear" \in Steps
    BY DEF Steps
  <2>2. thread' \in [Threads -> CallRecords]
    BY <1>2, <1>5, <2>1 DEF LogoutCleanup, Return, Goto, CallRecords
  <2>3. client' \in [Clients -> ClientRecords]
    BY <1>5, ClientUnlinked, ClientOff DEF LogoutCleanup
  <2> QED
    BY <1>5, <2>2, <2>3 DEF LogoutCleanup, TypeOK
<1>6. CASE LogoutRelease(t)
  <2>1. thread' \in [Threads -> CallRecords]
    BY <1>2, <1>6 DEF LogoutRelease, CallRecords
  <2>2. lock' \in Locks
    BY <1>1, <1>6, LocksTyped DEF LogoutRelease, TypeOK
  <2> QED
    BY <1>6, <2>1, <2>2 DEF LogoutRelease, TypeOK
<1>7. CASE LogoutMark(t)
  <2>1. thread' \in [Threads -> CallRecords]
    BY <1>2, <1>7, RecordsTyped DEF LogoutMark
  <2> QED
    BY <1>7, <2>1 DEF LogoutMark, TypeOK
<1> QED
  BY <1>4, <1>5, <1>6, <1>7 DEF LogoutStep

-----------------------------------------------------------------------------
(* What the steps leave of the records they change.                        *)

\* What a handler, a consumer or Close leaves of the clients that others count
\* on: where they live, whether they are consumed, and that an end is final.
SameClients ==
    /\ client' \in [Clients -> ClientRecords]
    /\ \A c \in Clients : /\ client'[c].home = client[c].home
                          /\ client'[c].consumer = client[c].consumer
                          /\ client[c].done => client'[c].done

\* The hub of p is left alone, emptied, or given the client c.
HubOf(p, c) ==
    \/ hub' = hub
    \/ hub' = [hub EXCEPT ![p] = EmptyHub]
    \/ hub' = [hub EXCEPT ![p] = [client |-> c, reserved |-> FALSE]]

\* What changes clients, and perhaps empties a hub, in the name of no call.
LEMMA ClientsMove ==
    ASSUME IInv, TypeOK', SameClients, NEW p, HubOf(p, NoClient), UNCHANGED <<pairing, thread>>
    PROVE  IInv'
<1>1. \A q \in Processes : \/ hub'[q] = hub[q]
                           \/ hub'[q].client = NoClient /\ ~ hub'[q].reserved
  BY DEF IInv, TypeOK, HubOf, EmptyHub
<1>2. CallsHaveShape' /\ HubsAreSound' /\ ReservationsAreOwned'
  BY <1>1 DEF IInv, CallsHaveShape, HubsAreSound, ReservationsAreOwned
<1>3. CallsKnowTheirOwn' /\ HubsKnowTheirOwn'
  BY <1>1 DEF IInv, TypeOK, HubRecords, CallRecords, SameClients, CallsKnowTheirOwn, HubsKnowTheirOwn
<1>4. FreshIsUnshared'
  BY <1>1, NullAssumption DEF IInv, TypeOK, SameClients, FreshIsUnshared, Unshared, Fresh
<1>5. \A c \in Clients : Pairs(c)' => Pairs(c)
  BY DEF SameClients, Pairs
<1>6. ConsumersTakeOver' /\ NoPairingIsUnwound'
  BY <1>5 DEF IInv, TypeOK, CallRecords, CallsHaveShape, Shape, SameClients,
              ConsumersTakeOver, NoPairingIsUnwound
<1>7. PairsUnderSession' /\ SessionsAreOwned'
  BY <1>5 DEF IInv, TypeOK, SameClients, PairsUnderSession, SessionsAreOwned
<1> QED
  BY <1>2, <1>3, <1>4, <1>6, <1>7 DEF IInv

\* Only the call of t goes on; what it refers to is its own or the hub's client.
OnlyCall(t) ==
    /\ \A u \in Threads : u # t => thread'[u] = thread[u]
    /\ Shape(thread'[t])
    /\ thread'[t].client \in {NoClient, thread[t].client, hub[ProcessOf[t]].client}

\* It drops a clean-up only when that is done or somebody else's, and owes a new
\* one only for what it did itself.
CleanUpsKept(t) ==
    /\ thread[t].reserved => thread'[t].reserved \/ ~ hub'[ProcessOf[t]].reserved
    /\ thread[t].session => \/ thread'[t].session /\ thread'[t].client = thread[t].client
                            \/ thread[t].step = "wait"
    /\ thread'[t].session =>
          /\ thread[t].session /\ thread'[t].client = thread[t].client
          /\ thread'[t].step \in {"connect", "wait"} => thread[t].step \in {"connect", "wait"}
          /\ thread'[t].step = "unwind" => ~ Pairs(thread[t].client)'
    /\ ~ Fresh(thread'[t])

\* What a call does to itself, to the hub of its process and to running clients.
LEMMA CallMoves ==
    ASSUME IInv, TypeOK', NEW t \in Threads, SameClients, UNCHANGED pairing,
           OnlyCall(t), CleanUpsKept(t), HubOf(ProcessOf[t], thread[t].client)
    PROVE  IInv'
<1> DEFINE p == ProcessOf[t]
<1>1. p \in Processes
  BY ThreadAssumption
<1>2. /\ \A q \in Processes : q # p => hub'[q] = hub[q]
      /\ \/ hub'[p] = hub[p]
         \/ hub'[p].client \in {NoClient, thread[t].client} /\ ~ hub'[p].reserved
  BY <1>1 DEF IInv, TypeOK, HubOf, EmptyHub
<1> HIDE DEF p
<1>3. CallsHaveShape'
  BY DEF IInv, CallsHaveShape, OnlyCall
<1>4. HubsAreSound'
  BY <1>2 DEF IInv, HubsAreSound
<1>5. ReservationsAreOwned'
  <2> SUFFICES ASSUME NEW q \in Processes, hub'[q].reserved
               PROVE  \E u \in Threads : ProcessOf[u] = q /\ thread'[u].reserved
    BY DEF ReservationsAreOwned
  <2>1. hub[q].reserved
    BY <1>2
  <2>2. PICK u \in Threads : ProcessOf[u] = q /\ thread[u].reserved
    BY <2>1 DEF IInv, ReservationsAreOwned
  <2>3. CASE u = t
    BY <2>2, <2>3 DEF CleanUpsKept
  <2>4. CASE u # t
    BY <2>2, <2>4 DEF OnlyCall
  <2> QED
    BY <2>3, <2>4
<1>6. CallsKnowTheirOwn' /\ HubsKnowTheirOwn'
  <2>1. \A c \in Clients : client'[c].home = client[c].home
    BY DEF SameClients
  <2>2. CallsKnowTheirOwn'
    <3>1. \A u \in Threads : thread[u].client # NoClient =>
             thread[u].client \in Clients /\ client[thread[u].client].home = ProcessOf[u]
      BY DEF IInv, TypeOK, CallRecords, CallsKnowTheirOwn
    <3>2. hub[ProcessOf[t]].client # NoClient =>
             /\ hub[ProcessOf[t]].client \in Clients
             /\ client[hub[ProcessOf[t]].client].home = ProcessOf[t]
      BY <1>1 DEF IInv, TypeOK, HubRecords, HubsKnowTheirOwn, p
    <3>3. SUFFICES ASSUME NEW u \in Threads, thread'[u].client # NoClient
                   PROVE  client'[thread'[u].client].home = ProcessOf[u]
      BY DEF CallsKnowTheirOwn
    <3>4. CASE u = t
      BY <2>1, <3>1, <3>2, <3>3, <3>4 DEF OnlyCall
    <3>5. CASE u # t
      BY <2>1, <3>1, <3>3, <3>5 DEF OnlyCall
    <3> QED
      BY <3>4, <3>5
  <2>3. HubsKnowTheirOwn'
    BY <1>1, <1>2, <2>1 DEF IInv, TypeOK, HubRecords, CallRecords, CallsKnowTheirOwn, HubsKnowTheirOwn, p
  <2> QED
    BY <2>2, <2>3
<1>7. FreshIsUnshared'
  <2> SUFFICES ASSUME NEW u \in Threads, Fresh(thread[u])'
               PROVE  (/\ Unshared(u, thread[u].client)
                       /\ IF thread[u].step = "register"
                          THEN pairing[ProcessOf[u]] = thread[u].client
                          ELSE \A q \in Processes : pairing[q] # thread[u].client)'
    BY DEF FreshIsUnshared
  <2>1. u # t /\ thread'[u] = thread[u] /\ Fresh(thread[u])
    BY DEF CleanUpsKept, OnlyCall, Fresh
  <2>2. Unshared(u, thread[u].client) /\ thread[t].client # thread[u].client
    BY <2>1 DEF IInv, FreshIsUnshared, Unshared
  <2>3. Unshared(u, thread[u].client)'
    BY <1>1, <1>2, <2>1, <2>2, NullAssumption DEF Unshared, SameClients, OnlyCall, p
  <2> QED
    BY <2>1, <2>3 DEF IInv, FreshIsUnshared
<1>8. \A c \in Clients : Pairs(c)' => Pairs(c)
  BY DEF SameClients, Pairs
<1>9. ConsumersTakeOver'
  BY NullAssumption DEF IInv, TypeOK, CallRecords, CallsHaveShape, Shape, SameClients,
     OnlyCall, CleanUpsKept, ConsumersTakeOver
<1>10. NoPairingIsUnwound'
  <2> SUFFICES ASSUME NEW u \in Threads, thread'[u].session, thread'[u].step = "unwind"
               PROVE  ~ Pairs(thread[u].client)'
    BY DEF NoPairingIsUnwound
  <2>1. CASE u = t
    BY <2>1 DEF CleanUpsKept, Pairs
  <2>2. CASE u # t
    BY <2>2, <1>8 DEF IInv, TypeOK, CallRecords, CallsHaveShape, Shape, NoPairingIsUnwound,
                      OnlyCall, Pairs
  <2> QED
    BY <2>1, <2>2
<1>11. PairsUnderSession'
  BY <1>8 DEF IInv, SameClients, PairsUnderSession
<1>12. SessionsAreOwned'
  <2> SUFFICES ASSUME NEW q \in Processes, pairing[q] # NoClient,
                      client[pairing[q]].consumer \notin {"run", "lost", "won"}
               PROVE  \E u \in Threads : thread'[u].session /\ thread'[u].client = pairing[q]
    BY DEF IInv, TypeOK, SameClients, SessionsAreOwned
  <2>1. PICK u \in Threads : thread[u].session /\ thread[u].client = pairing[q]
    BY DEF IInv, SessionsAreOwned
  <2>2. CASE u # t
    BY <2>1, <2>2 DEF OnlyCall
  <2>3. ProcessOf[u] = q
    BY <2>1 DEF IInv, CallsKnowTheirOwn, HubsKnowTheirOwn
  <2>4. thread[u].step # "wait"
    BY <2>1, <2>3 DEF IInv, ConsumersTakeOver
  <2>5. CASE u = t
    BY <2>1, <2>4, <2>5 DEF CleanUpsKept
  <2> QED
    BY <2>2, <2>5
<1> QED
  BY <1>3, <1>4, <1>5, <1>6, <1>7, <1>9, <1>10, <1>11, <1>12 DEF IInv

-----------------------------------------------------------------------------
(* The steps keep the invariant.                                           *)

\* The handlers of a client's events.
LEMMA HandlersKeep ==
    ASSUME IInv, NEW c \in Clients, HandlerStep(c)
    PROVE  IInv'
<1>1. client \in [Clients -> ClientRecords] /\ client[c] \in ClientRecords
  BY DEF IInv, TypeOK
<1>2. CASE OnPaired(c)
  <2>1. SameClients
    BY <1>1, <1>2, ClientNames DEF OnPaired, SameClients, ClientRecords
  <2> QED
    BY <2>1, <1>2, ClientsMove DEF OnPaired, SameClients, HubOf, IInv, TypeOK, ClientRecords
<1>3. CASE OnConnected(c)
  <2>1. SameClients
    BY <1>1, <1>3, ClientNames DEF OnConnected, SameClients, ClientRecords
  <2> QED
    BY <2>1, <1>3, ClientsMove DEF OnConnected, SameClients, HubOf, IInv, TypeOK, ClientRecords
<1>4. CASE OnLoggedOut(c)
  <2>1. SameClients
    BY <1>1, <1>4, ClientNames DEF OnLoggedOut, SameClients, ClientRecords
  <2> QED
    BY <2>1, <1>4, ClientsMove DEF OnLoggedOut, SameClients, HubOf, IInv, TypeOK, ClientRecords
<1>5. CASE OnRemove(c)
  <2>1. SameClients
    BY <1>1, <1>5, ClientNames DEF OnRemove, SameClients, ClientRecords
  <2>2. hub' \in [Processes -> HubRecords] /\ HubOf(client[c].home, NoClient)
    BY <1>5 DEF OnRemove, Remove, HubOf, EmptyHub, HubRecords, IInv, TypeOK
  <2> QED
    BY <2>1, <2>2, <1>5, ClientsMove DEF OnRemove, SameClients, IInv, TypeOK
<1>6. CASE OnRelease(c)
  <2>1. SameClients
    BY <1>1, <1>6, ClientNames DEF OnRelease, SameClients, ClientRecords
  <2>2. lock' \in Locks
    BY <1>6 DEF OnRelease, Released, Locks, IInv, TypeOK
  <2> QED
    BY <2>1, <2>2, <1>6, ClientsMove DEF OnRelease, SameClients, HubOf, IInv, TypeOK
<1> QED
  BY <1>2, <1>3, <1>4, <1>5, <1>6 DEF HandlerStep

\* What WhatsApp and the connection do to a client.
LEMMA NetworkKeeps ==
    ASSUME IInv, NEW c \in Clients, Network(c)
    PROVE  IInv'
<1>1. client \in [Clients -> ClientRecords] /\ client[c] \in ClientRecords
  BY DEF IInv, TypeOK
<1>2. CASE Paired(c)
  <2>1. SameClients
    BY <1>1, <1>2, ClientNames DEF Paired, SameClients, ClientRecords
  <2> QED
    BY <2>1, <1>2, ClientsMove DEF Paired, SameClients, HubOf, IInv, TypeOK, ClientRecords
<1>3. CASE LoggedIn(c)
  <2>1. SameClients
    BY <1>1, <1>3, ClientNames DEF LoggedIn, SameClients, ClientRecords
  <2> QED
    BY <2>1, <1>3, ClientsMove DEF LoggedIn, SameClients, HubOf, IInv, TypeOK, ClientRecords
<1>4. CASE Dropped(c)
  <2>1. SameClients
    BY <1>1, <1>4, ClientNames DEF Dropped, SameClients, ClientRecords
  <2> QED
    BY <2>1, <1>4, ClientsMove DEF Dropped, SameClients, HubOf, IInv, TypeOK, ClientRecords
<1>5. CASE Unlinked(c)
  <2>1. SameClients
    BY <1>1, <1>5, ClientNames DEF Unlinked, SameClients, ClientRecords
  <2> QED
    BY <2>1, <1>5, ClientsMove DEF Unlinked, SameClients, HubOf, IInv, TypeOK, ClientRecords
<1>6. CASE Banned(c)
  <2>1. SameClients
    BY <1>1, <1>6, ClientNames DEF Banned, SameClients, ClientRecords
  <2> QED
    BY <2>1, <1>6, ClientsMove DEF Banned, SameClients, HubOf, IInv, TypeOK, ClientRecords
<1> QED
  BY <1>2, <1>3, <1>4, <1>5, <1>6 DEF Network

\* A consumer that goes on: it does not start, and takes over what it took over.
ConsumerGoes(c) ==
    /\ client' \in [Clients -> ClientRecords]
    /\ \A d \in Clients : d # c => client'[d] = client[d]
    /\ client'[c].home = client[c].home
    /\ client[c].done => client'[c].done
    /\ client[c].consumer # "none" /\ client'[c].consumer # "run"

\* A consumer that goes on keeps the invariant as long as it hands its clean-ups to nobody.
LEMMA ConsumerMoves ==
    ASSUME IInv, TypeOK', NEW c \in Clients, ConsumerGoes(c), NEW p, HubOf(p, NoClient),
           client[c].consumer \in {"run", "lost", "won"}
               => client'[c].consumer \in {"lost", "won"},
           UNCHANGED <<pairing, thread>>
    PROVE  IInv'
<1>1. \A q \in Processes : \/ hub'[q] = hub[q]
                           \/ hub'[q].client = NoClient /\ ~ hub'[q].reserved
  BY DEF IInv, TypeOK, HubOf, EmptyHub
<1>2. CallsHaveShape' /\ HubsAreSound' /\ ReservationsAreOwned'
  BY <1>1 DEF IInv, CallsHaveShape, HubsAreSound, ReservationsAreOwned
<1>3. \A d \in Clients : client'[d].home = client[d].home
  BY DEF ConsumerGoes
<1>4. CallsKnowTheirOwn' /\ HubsKnowTheirOwn'
  BY <1>1, <1>3 DEF IInv, TypeOK, HubRecords, CallRecords, CallsKnowTheirOwn, HubsKnowTheirOwn
<1>5. FreshIsUnshared'
  <2> SUFFICES ASSUME NEW t \in Threads, Fresh(thread[t])
               PROVE  Unshared(t, thread[t].client)'
    BY DEF IInv, FreshIsUnshared, Fresh
  <2>1. Unshared(t, thread[t].client)
    BY DEF IInv, FreshIsUnshared
  <2> QED
    BY <1>1, <2>1, NullAssumption DEF Unshared, ConsumerGoes
<1>6. \A d \in Clients : Pairs(d)' => Pairs(d)
  BY DEF ConsumerGoes, Pairs
<1>7. ConsumersTakeOver' /\ NoPairingIsUnwound'
  BY <1>6 DEF IInv, TypeOK, CallRecords, CallsHaveShape, Shape, ConsumerGoes,
              ConsumersTakeOver, NoPairingIsUnwound
<1>8. PairsUnderSession'
  BY <1>3, <1>6 DEF IInv, TypeOK, PairsUnderSession
<1>9. SessionsAreOwned'
  BY DEF IInv, TypeOK, ConsumerGoes, SessionsAreOwned
<1> QED
  BY <1>2, <1>4, <1>5, <1>7, <1>8, <1>9 DEF IInv

\* A consumer that leaves drops its session, and only its own.
LEMMA ConsumerLeavesKeeps ==
    ASSUME IInv, NEW c \in Clients, ConsumerLeaves(c)
    PROVE  IInv'
<1> DEFINE p == client[c].home
<1>1. client \in [Clients -> ClientRecords] /\ client[c] \in ClientRecords
  BY DEF IInv, TypeOK
<1>2. ConsumerGoes(c)
  BY <1>1, ClientNames DEF ConsumerLeaves, ConsumerGoes, ClientRecords
<1>3. /\ pairing' \in [Processes -> Clients \union {NoClient}]
      /\ \A q \in Processes : pairing'[q] = IF q = p /\ pairing[q] = c THEN NoClient
                                                                        ELSE pairing[q]
  BY DEF ConsumerLeaves, RemoveSession, WithoutSession, IInv, TypeOK
<1>4. UNCHANGED <<lock, device, hub, phase, thread>>
  BY DEF ConsumerLeaves
<1>5. TypeOK'
  BY <1>2, <1>3, <1>4 DEF IInv, TypeOK, ConsumerGoes
<1>6. \A q \in Processes : pairing'[q] # c
  BY <1>3, NullAssumption DEF IInv, HubsKnowTheirOwn
<1> HIDE DEF p
<1>7. CallsHaveShape' /\ HubsAreSound' /\ ReservationsAreOwned'
  BY <1>4 DEF IInv, CallsHaveShape, HubsAreSound, ReservationsAreOwned
<1>8. \A d \in Clients : client'[d].home = client[d].home
  BY <1>2 DEF ConsumerGoes
<1>9. CallsKnowTheirOwn' /\ HubsKnowTheirOwn'
  BY <1>3, <1>4, <1>8 DEF IInv, TypeOK, HubRecords, CallRecords, CallsKnowTheirOwn, HubsKnowTheirOwn
<1>10. \A d \in Clients : d # c => client'[d] = client[d]
  BY <1>2 DEF ConsumerGoes
<1>11. FreshIsUnshared'
  <2> SUFFICES ASSUME NEW t \in Threads, Fresh(thread[t])
               PROVE  (/\ Unshared(t, thread[t].client)
                       /\ IF thread[t].step = "register"
                          THEN pairing[ProcessOf[t]] = thread[t].client
                          ELSE \A q \in Processes : pairing[q] # thread[t].client)'
    BY <1>4 DEF FreshIsUnshared, Fresh
  <2>1. Unshared(t, thread[t].client)
    BY DEF IInv, FreshIsUnshared
  <2>2. thread[t].client # c
    BY <1>2, <2>1 DEF Unshared, ConsumerGoes
  <2>3. Unshared(t, thread[t].client)'
    BY <1>4, <1>10, <2>1, <2>2 DEF Unshared
  <2>4. thread[t].client # NoClient
    BY <2>1, NullAssumption DEF Unshared
  <2> QED
    BY <1>3, <1>4, <2>2, <2>3, <2>4, ThreadAssumption DEF IInv, FreshIsUnshared
<1>12. \A d \in Clients : Pairs(d)' => Pairs(d) /\ d # c
  BY <1>2, <1>10 DEF ConsumerGoes, Pairs
<1>13. ConsumersTakeOver'
  BY <1>3, <1>4, <1>6, <1>10, ThreadAssumption
  DEF IInv, TypeOK, CallRecords, CallsHaveShape, Shape, ConsumersTakeOver
<1>14. NoPairingIsUnwound'
  BY <1>4, <1>12 DEF IInv, TypeOK, CallRecords, CallsHaveShape, Shape, NoPairingIsUnwound
<1>15. PairsUnderSession'
  BY <1>3, <1>8, <1>12 DEF IInv, TypeOK, PairsUnderSession
<1>16. SessionsAreOwned'
  BY <1>3, <1>4, <1>6, <1>10 DEF IInv, TypeOK, SessionsAreOwned
<1> QED
  BY <1>5, <1>7, <1>9, <1>11, <1>13, <1>14, <1>15, <1>16 DEF IInv

\* All the steps of a consumer.
LEMMA ConsumersKeep ==
    ASSUME IInv, NEW c \in Clients, ConsumerStep(c)
    PROVE  IInv'
<1>1. client \in [Clients -> ClientRecords] /\ client[c] \in ClientRecords
  BY DEF IInv, TypeOK
<1>2. CASE ConsumeEnd(c)
  <2>1. ConsumerGoes(c) /\ client'[c].consumer = "lost"
    BY <1>1, <1>2, ClientNames DEF ConsumeEnd, ConsumerGoes, ClientRecords
  <2>2. TypeOK'
    BY <1>2, <2>1 DEF ConsumeEnd, ConsumerGoes, IInv, TypeOK
  <2> QED
    BY <1>2, <2>1, <2>2, ConsumerMoves DEF ConsumeEnd, HubOf
<1>3. CASE ConsumeSuccess(c)
  <2>1. ConsumerGoes(c) /\ client'[c].consumer = "won"
    BY <1>1, <1>3, ClientNames DEF ConsumeSuccess, ConsumerGoes, ClientRecords
  <2>2. TypeOK'
    BY <1>1, <1>3, <2>1 DEF ConsumeSuccess, ConsumerGoes, IInv, TypeOK, ClientRecords
  <2> QED
    BY <1>3, <2>1, <2>2, ConsumerMoves DEF ConsumeSuccess, HubOf
<1>4. CASE ConsumerLeaves(c)
  BY <1>4, ConsumerLeavesKeeps
<1>5. CASE ConsumerDisconnects(c)
  <2>1. ConsumerGoes(c)
    BY <1>1, <1>5, ClientNames DEF ConsumerDisconnects, ConsumerGoes, ClientRecords
  <2>2. TypeOK'
    BY <1>5, <2>1 DEF ConsumerDisconnects, ConsumerGoes, IInv, TypeOK
  <2> QED
    BY <1>5, <2>1, <2>2, ConsumerMoves DEF ConsumerDisconnects, HubOf
<1>6. CASE ConsumerRemoves(c)
  <2>1. ConsumerGoes(c)
    BY <1>1, <1>6, ClientNames DEF ConsumerRemoves, ConsumerGoes, ClientRecords
  <2>2. hub' \in [Processes -> HubRecords] /\ HubOf(client[c].home, NoClient)
    BY <1>6 DEF ConsumerRemoves, Remove, HubOf, EmptyHub, HubRecords, IInv, TypeOK
  <2>3. TypeOK'
    BY <1>6, <2>1, <2>2 DEF ConsumerRemoves, ConsumerGoes, IInv, TypeOK
  <2> QED
    BY <1>6, <2>1, <2>2, <2>3, ConsumerMoves DEF ConsumerRemoves
<1>7. CASE ConsumerReleases(c)
  <2>1. ConsumerGoes(c)
    BY <1>1, <1>7, ClientNames DEF ConsumerReleases, ConsumerGoes, ClientRecords
  <2>2. TypeOK'
    BY <1>7, <2>1 DEF ConsumerReleases, Released, Locks, ConsumerGoes, IInv, TypeOK
  <2> QED
    BY <1>7, <2>1, <2>2, ConsumerMoves DEF ConsumerReleases, HubOf
<1> QED
  BY <1>2, <1>3, <1>4, <1>5, <1>6, <1>7 DEF ConsumerStep

\* Module.Close.
LEMMA CloseKeeps ==
    ASSUME IInv, NEW p \in Processes, CloseStep(p)
    PROVE  IInv'
<1>1. client \in [Clients -> ClientRecords] /\ phase \in [Processes -> Phases]
  BY DEF IInv, TypeOK
<1>2. phase' \in [Processes -> Phases]
  BY <1>1 DEF CloseStep, CloseBegins, CloseCancels, CloseReleases, CloseDisconnects,
              CloseRemoves, Advance, Phases
<1>3. CASE CloseBegins(p)
  BY <1>1, <1>2, <1>3, ClientsMove DEF CloseBegins, SameClients, HubOf, IInv, TypeOK
<1>4. CASE CloseCancels(p)
  <2>1. SameClients
    BY <1>1, <1>4 DEF CloseCancels, SameClients, ClientRecords
  <2> QED
    BY <1>2, <1>4, <2>1, ClientsMove DEF CloseCancels, SameClients, HubOf, IInv, TypeOK
<1>5. CASE CloseReleases(p)
  <2>1. lock' \in Locks
    BY <1>5 DEF CloseReleases, Released, Locks, IInv, TypeOK
  <2> QED
    BY <1>1, <1>2, <1>5, <2>1, ClientsMove DEF CloseReleases, SameClients, HubOf, IInv, TypeOK
<1>6. CASE CloseDisconnects(p)
  <2>1. SameClients
    BY <1>1, <1>6, ClientNames DEF CloseDisconnects, SameClients, ClientRecords
  <2> QED
    BY <1>2, <1>6, <2>1, ClientsMove DEF CloseDisconnects, SameClients, HubOf, IInv, TypeOK
<1>7. CASE CloseRemoves(p)
  <2>1. hub' \in [Processes -> HubRecords] /\ HubOf(p, NoClient)
    BY <1>7 DEF CloseRemoves, Remove, HubOf, EmptyHub, HubRecords, IInv, TypeOK
  <2> QED
    BY <1>1, <1>2, <1>7, <2>1, ClientsMove DEF CloseRemoves, SameClients, IInv, TypeOK
<1> QED
  BY <1>3, <1>4, <1>5, <1>6, <1>7 DEF CloseStep

\* A process that stops takes its calls, its clients and its memory with it.
LEMMA CrashKeeps ==
    ASSUME IInv, NEW p \in Processes, Crash(p)
    PROVE  IInv'
<1>1. /\ \A t \in Threads : thread'[t] = IF ProcessOf[t] = p THEN Idle ELSE thread[t]
      /\ thread' \in [Threads -> CallRecords]
  BY RecordsTyped DEF Crash, IInv, TypeOK
<1>2. /\ \A c \in Clients : client'[c] = IF client[c].home = p THEN NoRecord ELSE client[c]
      /\ client' \in [Clients -> ClientRecords]
  BY RecordsTyped DEF Crash, IInv, TypeOK
<1>3. /\ \A q \in Processes : hub'[q] = IF q = p THEN EmptyHub ELSE hub[q]
      /\ \A q \in Processes : pairing'[q] = IF q = p THEN NoClient ELSE pairing[q]
      /\ hub' \in [Processes -> HubRecords]
      /\ pairing' \in [Processes -> Clients \union {NoClient}]
  BY RecordsTyped DEF Crash, IInv, TypeOK
<1>4. lock' \in Locks /\ phase' \in [Processes -> Phases] /\ device' \in BOOLEAN
  BY DEF Crash, IInv, TypeOK, Locks, Phases
<1>5. TypeOK'
  BY <1>1, <1>2, <1>3, <1>4 DEF TypeOK
<1>6. /\ Idle.client = NoClient /\ ~ Idle.session /\ ~ Idle.reserved /\ Idle.step = "idle"
      /\ NoRecord.consumer = "none"
      /\ EmptyHub.client = NoClient /\ ~ EmptyHub.reserved
  BY DEF Idle, NoRecord, EmptyHub
<1>7. CallsHaveShape'
  BY <1>1, <1>6 DEF IInv, CallsHaveShape, Shape
<1>8. HubsAreSound' /\ ReservationsAreOwned'
  BY <1>1, <1>3, <1>6 DEF IInv, HubsAreSound, ReservationsAreOwned
<1>9. CallsKnowTheirOwn'
  BY <1>1, <1>2, <1>6 DEF IInv, TypeOK, CallRecords, CallsKnowTheirOwn
<1>10. HubsKnowTheirOwn'
  BY <1>2, <1>3, <1>6 DEF IInv, TypeOK, HubRecords, HubsKnowTheirOwn
<1>11. FreshIsUnshared'
  <2> SUFFICES ASSUME NEW t \in Threads, Fresh(thread'[t])
               PROVE  (/\ Unshared(t, thread[t].client)
                       /\ IF thread[t].step = "register"
                          THEN pairing[ProcessOf[t]] = thread[t].client
                          ELSE \A q \in Processes : pairing[q] # thread[t].client)'
    BY DEF FreshIsUnshared, Fresh
  <2>1. ProcessOf[t] # p /\ thread'[t] = thread[t] /\ Fresh(thread[t])
    BY <1>1, <1>6 DEF Fresh
  <2>2. Unshared(t, thread[t].client)
    BY <2>1 DEF IInv, FreshIsUnshared
  <2>3. thread[t].client # NoClient
    BY <2>2, NullAssumption DEF Unshared
  <2>4. Unshared(t, thread[t].client)'
    BY <1>1, <1>2, <1>3, <1>6, <2>1, <2>2, <2>3 DEF Unshared
  <2> QED
    BY <1>3, <2>1, <2>3, <2>4, ThreadAssumption DEF IInv, FreshIsUnshared
<1>12. \A c \in Clients : Pairs(c)' => Pairs(c) /\ client[c].home # p
  BY <1>2, <1>6 DEF Pairs
<1>13. ConsumersTakeOver'
  <2> SUFFICES ASSUME NEW t \in Threads, thread'[t].session,
                      thread'[t].step \in {"connect", "wait"},
                      pairing'[ProcessOf[t]] = thread'[t].client
               PROVE  client'[thread'[t].client].consumer \in {"run", "lost", "won"}
    BY DEF ConsumersTakeOver
  <2>1. ProcessOf[t] # p /\ thread'[t] = thread[t]
    BY <1>1, <1>6
  <2>2. thread[t].client \in Clients /\ client[thread[t].client].home = ProcessOf[t]
    BY <2>1 DEF IInv, TypeOK, CallRecords, CallsHaveShape, Shape, CallsKnowTheirOwn
  <2>3. pairing[ProcessOf[t]] = thread[t].client
    BY <1>3, <2>1, ThreadAssumption
  <2> QED
    BY <1>2, <2>1, <2>2, <2>3 DEF IInv, ConsumersTakeOver
<1>14. NoPairingIsUnwound'
  BY <1>1, <1>6, <1>12
  DEF IInv, TypeOK, CallRecords, CallsHaveShape, Shape, NoPairingIsUnwound
<1>15. PairsUnderSession'
  BY <1>2, <1>3, <1>12 DEF IInv, TypeOK, PairsUnderSession
<1>16. SessionsAreOwned'
  <2> SUFFICES ASSUME NEW q \in Processes, pairing'[q] # NoClient
               PROVE  \/ \E t \in Threads : thread'[t].session /\ thread'[t].client = pairing'[q]
                      \/ client'[pairing'[q]].consumer \in {"run", "lost", "won"}
    BY DEF SessionsAreOwned
  <2>1. q # p /\ pairing'[q] = pairing[q] /\ pairing[q] \in Clients
    BY <1>3 DEF IInv, TypeOK
  <2>2. client[pairing[q]].home = q
    BY <2>1 DEF IInv, HubsKnowTheirOwn
  <2>3. client'[pairing[q]] = client[pairing[q]]
    BY <1>2, <2>1, <2>2
  <2>4. CASE client[pairing[q]].consumer \in {"run", "lost", "won"}
    BY <2>1, <2>3, <2>4
  <2>5. ASSUME NEW t \in Threads, thread[t].session, thread[t].client = pairing[q]
        PROVE  thread'[t] = thread[t]
    BY <1>1, <2>1, <2>2, <2>5 DEF IInv, CallsKnowTheirOwn
  <2> QED
    BY <2>1, <2>4, <2>5 DEF IInv, SessionsAreOwned
<1> QED
  BY <1>5, <1>7, <1>8, <1>9, <1>10, <1>11, <1>13, <1>14, <1>15, <1>16 DEF IInv

\* A lease that lapses touches nothing but the lock.
LEMMA LapseKeeps ==
    ASSUME IInv, LeaseLapses
    PROVE  IInv'
<1>1. lock' \in Locks
  BY DEF LeaseLapses, IInv, TypeOK, Locks
<1> QED
  BY <1>1, ClientsMove DEF LeaseLapses, SameClients, HubOf, IInv, TypeOK

\* A call begins.
LEMMA StartKeeps ==
    ASSUME IInv, NEW t \in Threads, NEW call \in Calls \ {"close"}, Start(t, call)
    PROVE  IInv'
<1> DEFINE r == [Idle EXCEPT !.call = call, !.device = device,
                             !.step = IF call = "phone" THEN "exists" ELSE "lock"]
<1>1. r \in CallRecords /\ Shape(r) /\ ~ r.session /\ ~ Fresh(r) /\ r.client = NoClient
  BY StepNames, CallAssumption DEF IInv, TypeOK, Idle, CallRecords, Shape, Fresh
<1> HIDE DEF r
<1>2. thread' = [thread EXCEPT ![t] = r]
  BY DEF Start, r
<1>3. /\ thread' \in [Threads -> CallRecords] /\ thread'[t] = r
      /\ \A u \in Threads : u # t => thread'[u] = thread[u]
  BY <1>1, <1>2 DEF IInv, TypeOK
<1>4. phase' \in [Processes -> Phases]
  BY DEF Start, IInv, TypeOK, Phases
<1>5. TypeOK' /\ SameClients
  BY <1>3, <1>4 DEF Start, SameClients, IInv, TypeOK
<1>6. OnlyCall(t)
  BY <1>1, <1>3 DEF OnlyCall
<1>7. thread[t].step = "idle" /\ Shape(thread[t])
  BY DEF Start, IInv, CallsHaveShape
<1>8. CleanUpsKept(t)
  BY <1>1, <1>3, <1>7 DEF CleanUpsKept, Shape
<1> QED
  BY <1>5, <1>6, <1>8, CallMoves DEF Start, HubOf

-----------------------------------------------------------------------------
(* What a step makes of a call's record, and the calls.                    *)

\* The call of t goes on: at this step, with this client and these clean-ups.
Becomes(t, step, c, session, reserved) ==
    /\ \A u \in Threads : u # t => thread'[u] = thread[u]
    /\ thread'[t].call = thread[t].call
    /\ thread'[t].step = step
    /\ thread'[t].client = c
    /\ thread'[t].session = session
    /\ thread'[t].reserved = reserved

\* Nothing but the step changes,
LEMMA Went ==
    ASSUME TypeOK, NEW t \in Threads, NEW step, Goto(t, step)
    PROVE  Becomes(t, step, thread[t].client, thread[t].session, thread[t].reserved)
BY DEF TypeOK, CallRecords, Goto, Becomes

\* or a clean-up is owed or settled as well,
LEMMA WentReserved ==
    ASSUME TypeOK, NEW t \in Threads, NEW step, NEW reserved,
           thread' = [thread EXCEPT ![t].reserved = reserved, ![t].step = step]
    PROVE  Becomes(t, step, thread[t].client, thread[t].session, reserved)
BY DEF TypeOK, CallRecords, Becomes

\* or a session is registered as well,
LEMMA WentSession ==
    ASSUME TypeOK, NEW t \in Threads, NEW step, NEW session,
           thread' = [thread EXCEPT ![t].session = session, ![t].step = step]
    PROVE  Becomes(t, step, thread[t].client, session, thread[t].reserved)
BY DEF TypeOK, CallRecords, Becomes

\* or the call gets a client.
LEMMA WentClient ==
    ASSUME TypeOK, NEW t \in Threads, NEW step, NEW c,
           thread' = [thread EXCEPT ![t].client = c, ![t].step = step]
    PROVE  Becomes(t, step, c, thread[t].session, thread[t].reserved)
BY DEF TypeOK, CallRecords, Becomes

\* A clean-up that is done.
LEMMA SessionDone ==
    ASSUME TypeOK, NEW t \in Threads, thread' = [thread EXCEPT ![t].session = FALSE]
    PROVE  Becomes(t, thread[t].step, thread[t].client, FALSE, thread[t].reserved)
BY DEF TypeOK, CallRecords, Becomes

\* So is a reservation that was removed,
LEMMA ReservationDone ==
    ASSUME TypeOK, NEW t \in Threads, thread' = [thread EXCEPT ![t].reserved = FALSE]
    PROVE  Becomes(t, thread[t].step, thread[t].client, thread[t].session, FALSE)
BY DEF TypeOK, CallRecords, Becomes

\* and a lock that was released.
LEMMA LockDone ==
    ASSUME TypeOK, NEW t \in Threads, thread' = [thread EXCEPT ![t].locked = FALSE]
    PROVE  Becomes(t, thread[t].step, thread[t].client, thread[t].session, thread[t].reserved)
BY DEF TypeOK, CallRecords, Becomes

\* A lock that was acquired is only remembered.
LEMMA LockTaken ==
    ASSUME TypeOK, NEW t \in Threads, NEW step,
           thread' = [thread EXCEPT ![t].locked = TRUE, ![t].step = step]
    PROVE  Becomes(t, step, thread[t].client, thread[t].session, thread[t].reserved)
BY DEF TypeOK, CallRecords, Becomes

\* The consumer takes the reservation and the lock over.
LEMMA HandedOver ==
    ASSUME TypeOK, NEW t \in Threads, NEW step,
           thread' = [thread EXCEPT ![t].reserved = FALSE, ![t].locked = FALSE, ![t].step = step]
    PROVE  Becomes(t, step, thread[t].client, thread[t].session, FALSE)
<1>1. thread \in [Threads -> CallRecords] /\ thread[t] \in CallRecords
  BY DEF TypeOK
<1>2. thread' = [thread EXCEPT ![t] = [thread[t] EXCEPT !.reserved = FALSE, !.locked = FALSE,
                                                        !.step = step]]
  BY <1>1 DEF CallRecords
<1> QED
  BY <1>1, <1>2 DEF CallRecords, Becomes

\* The call has returned.
LEMMA Ended ==
    ASSUME TypeOK, NEW t \in Threads, thread' = [thread EXCEPT ![t] = Idle]
    PROVE  /\ OnlyCall(t)
           /\ ~ thread'[t].session /\ ~ thread'[t].reserved /\ thread'[t].client = NoClient
           /\ thread'[t].step = "idle"
BY DEF TypeOK, OnlyCall, Shape, Idle

\* A call that does not pair is over, and has settled its reservation.
LEMMA EndedQuietly ==
    ASSUME TypeOK, NEW t \in Threads, thread' = [thread EXCEPT ![t] = Idle],
           ~ thread[t].session, ~ thread[t].reserved \/ ~ hub'[ProcessOf[t]].reserved
    PROVE  OnlyCall(t) /\ CleanUpsKept(t)
BY Ended DEF CleanUpsKept, Fresh

\* A call that does not pair goes on.
LEMMA GoesOn ==
    ASSUME CallsHaveShape, NEW t \in Threads, thread[t].call \in {"phone", "restore", "logout"},
           NEW step \in {"lock", "unwind", "pairPhone", "register", "reconcile", "connect",
                         "wait", "cleanup", "clear"},
           NEW c \in {NoClient, thread[t].client, hub[ProcessOf[t]].client},
           NEW reserved \in BOOLEAN, Becomes(t, step, c, thread[t].session, reserved),
           reserved => \/ step \in {"register", "unwind"}
                       \/ thread[t].call = "phone" /\ step = "pairPhone",
           ~ thread[t].reserved \/ reserved \/ ~ hub'[ProcessOf[t]].reserved
    PROVE  OnlyCall(t) /\ CleanUpsKept(t)
<1>1. Shape(thread[t]) /\ ~ thread[t].session
  BY DEF CallsHaveShape, Shape
<1>2. Shape(thread'[t])
  BY <1>1 DEF Becomes, Shape, AllCalls
<1> QED
  BY <1>1, <1>2 DEF OnlyCall, CleanUpsKept, Becomes, Fresh

\* ConnectPhone.
LEMMA PhonesKeep ==
    ASSUME IInv, NEW t \in Threads, PhoneStep(t)
    PROVE  IInv'
<1>1. /\ TypeOK /\ CallsHaveShape /\ Shape(thread[t])
      /\ client \in [Clients -> ClientRecords]
      /\ thread[t].reserved \in BOOLEAN
  BY DEF IInv, CallsHaveShape, TypeOK, CallRecords
<1>2. TypeOK'
  BY <1>1, PhoneTypes
<1>3. thread[t].call = "phone" /\ UNCHANGED pairing
  BY DEF PhoneStep, PhoneExists, PhoneConnect, PhonePair, PhoneRegister, At
<1>4. CASE PhoneExists(t)
  <2>1. ~ thread[t].reserved /\ ~ thread[t].session
    BY <1>1, <1>4 DEF PhoneExists, At, Shape
  <2>2. Goto(t, "lock") \/ thread' = [thread EXCEPT ![t] = Idle]
    BY <1>4 DEF PhoneExists
  <2>3. OnlyCall(t) /\ CleanUpsKept(t)
    BY <1>1, <1>3, <2>1, <2>2, Went, GoesOn, EndedQuietly
  <2>4. SameClients
    BY <1>1, <1>4 DEF PhoneExists, SameClients
  <2> QED
    BY <1>2, <1>3, <1>4, <2>3, <2>4, CallMoves DEF PhoneExists, HubOf
<1>5. CASE PhoneConnect(t)
  <2>1. PICK step \in {"pairPhone", "unwind"} : Goto(t, step)
    BY <1>5 DEF PhoneConnect, Return
  <2>2. OnlyCall(t) /\ CleanUpsKept(t)
    BY <1>1, <1>3, <2>1, Went, GoesOn
  <2>3. SameClients
    BY <1>1, <1>2, <1>5 DEF PhoneConnect, SameClients, ClientRecords, TypeOK
  <2> QED
    BY <1>2, <1>3, <1>5, <2>2, <2>3, CallMoves DEF PhoneConnect, HubOf
<1>6. CASE PhonePair(t)
  <2>1. PICK step \in {"register", "unwind"} : Goto(t, step)
    BY <1>6 DEF PhonePair, Return
  <2>2. OnlyCall(t) /\ CleanUpsKept(t)
    BY <1>1, <1>3, <2>1, Went, GoesOn
  <2>3. SameClients
    BY <1>1, <1>2, <1>6 DEF PhonePair, SameClients, ClientRecords, TypeOK
  <2> QED
    BY <1>2, <1>3, <1>6, <2>2, <2>3, CallMoves DEF PhonePair, HubOf
<1>7. CASE PhoneRegister(t)
  <2>1. ~ thread[t].session
    BY <1>1, <1>3 DEF Shape
  <2>2. \/ Register(ProcessOf[t], thread[t].client) /\ thread' = [thread EXCEPT ![t] = Idle]
        \/ Goto(t, "unwind")
    BY <1>7 DEF PhoneRegister, Return
  <2>3. Register(ProcessOf[t], thread[t].client) => ~ hub'[ProcessOf[t]].reserved
    BY <1>1, ThreadAssumption DEF TypeOK, Register
  <2>4. OnlyCall(t) /\ CleanUpsKept(t)
    BY <1>1, <1>3, <2>1, <2>2, <2>3, Went, GoesOn, EndedQuietly
  <2>5. SameClients
    BY <1>1, <1>2, <1>7 DEF PhoneRegister, SameClients, ClientRecords, TypeOK
  <2>6. HubOf(ProcessOf[t], thread[t].client)
    BY <1>7 DEF PhoneRegister, Register, HubOf
  <2> QED
    BY <1>2, <1>3, <2>4, <2>5, <2>6, CallMoves
<1> QED
  BY <1>4, <1>5, <1>6, <1>7 DEF PhoneStep

\* restoreOne.
LEMMA RestoresKeep ==
    ASSUME IInv, NEW t \in Threads, RestoreStep(t)
    PROVE  IInv'
<1>1. /\ TypeOK /\ CallsHaveShape /\ Shape(thread[t])
      /\ client \in [Clients -> ClientRecords]
      /\ thread[t].reserved \in BOOLEAN
  BY DEF IInv, CallsHaveShape, TypeOK, CallRecords
<1>2. TypeOK'
  BY <1>1, RestoreTypes
<1>3. thread[t].call = "restore" /\ UNCHANGED pairing /\ ~ thread[t].session
  BY <1>1 DEF RestoreStep, RestoreRegister, RestoreReconcile, RestoreConnect, RestoreWait, At, Shape
<1>4. CASE RestoreRegister(t)
  <2>1. PICK step \in {"reconcile", "unwind"} :
          thread' = [thread EXCEPT ![t].reserved = FALSE, ![t].step = step]
    BY <1>4 DEF RestoreRegister
  <2>2. \/ Register(ProcessOf[t], thread[t].client)
        \/ hub[ProcessOf[t]].client # NoClient /\ hub' = hub
    BY <1>4 DEF RestoreRegister
  <2>3. ~ hub'[ProcessOf[t]].reserved
    BY <1>1, <2>2, ThreadAssumption DEF IInv, HubsAreSound, TypeOK, Register
  <2>4. OnlyCall(t) /\ CleanUpsKept(t)
    BY <1>1, <1>3, <2>1, <2>3, WentReserved, GoesOn
  <2>5. SameClients
    BY <1>1, <1>4 DEF RestoreRegister, SameClients
  <2>6. HubOf(ProcessOf[t], thread[t].client)
    BY <1>4 DEF RestoreRegister, Register, HubOf
  <2> QED
    BY <1>2, <1>3, <2>4, <2>5, <2>6, CallMoves
<1>5. CASE RestoreReconcile(t)
  <2>1. \/ Goto(t, "connect")
        \/ thread' = [thread EXCEPT ![t].reserved = TRUE, ![t].step = "unwind"]
    BY <1>5 DEF RestoreReconcile
  <2>2. ~ thread[t].reserved
    BY <1>1, <1>3, <1>5 DEF RestoreReconcile, At, Shape
  <2>3. OnlyCall(t) /\ CleanUpsKept(t)
    BY <1>1, <1>3, <2>1, <2>2, Went, WentReserved, GoesOn
  <2>4. SameClients
    BY <1>1, <1>5 DEF RestoreReconcile, SameClients
  <2> QED
    BY <1>2, <1>3, <1>5, <2>3, <2>4, CallMoves DEF RestoreReconcile, HubOf
<1>6. CASE RestoreConnect(t)
  <2>1. \/ Goto(t, "wait") \/ Goto(t, "unwind")
        \/ thread' = [thread EXCEPT ![t].reserved = TRUE, ![t].step = "unwind"]
    BY <1>6 DEF RestoreConnect, Return
  <2>2. ~ thread[t].reserved
    BY <1>1, <1>3, <1>6 DEF RestoreConnect, At, Shape
  <2>3. OnlyCall(t) /\ CleanUpsKept(t)
    BY <1>1, <1>3, <2>1, <2>2, Went, WentReserved, GoesOn
  <2>4. SameClients
    BY <1>1, <1>2, <1>6 DEF RestoreConnect, SameClients, ClientRecords, TypeOK
  <2> QED
    BY <1>2, <1>3, <1>6, <2>3, <2>4, CallMoves DEF RestoreConnect, HubOf
<1>7. CASE RestoreWait(t)
  <2>1. ~ thread[t].reserved
    BY <1>1, <1>3, <1>7 DEF RestoreWait, At, Shape
  <2>2. OnlyCall(t) /\ CleanUpsKept(t)
    BY <1>1, <1>3, <1>7, <2>1, EndedQuietly DEF RestoreWait
  <2>3. SameClients
    BY <1>1, <1>7 DEF RestoreWait, SameClients
  <2> QED
    BY <1>2, <1>3, <1>7, <2>2, <2>3, CallMoves DEF RestoreWait, HubOf
<1> QED
  BY <1>4, <1>5, <1>6, <1>7 DEF RestoreStep

\* Logout.
LEMMA LogoutsKeep ==
    ASSUME IInv, NEW t \in Threads, LogoutStep(t)
    PROVE  IInv'
<1>1. /\ TypeOK /\ CallsHaveShape /\ Shape(thread[t])
      /\ client \in [Clients -> ClientRecords]
      /\ thread[t].reserved \in BOOLEAN
  BY DEF IInv, CallsHaveShape, TypeOK, CallRecords
<1>2. TypeOK'
  BY <1>1, LogoutTypes
<1>3. /\ thread[t].call = "logout" /\ UNCHANGED pairing
      /\ ~ thread[t].session
  BY <1>1 DEF LogoutStep, LogoutRemove, LogoutCleanup, LogoutRelease, LogoutMark, At, Shape
<1>4. CASE LogoutRemove(t)
  <2>1. \/ Goto(t, "unwind")
        \/ \E step \in {"clear", "cleanup"} :
              thread' = [thread EXCEPT ![t].client = hub[ProcessOf[t]].client, ![t].step = step]
    BY <1>4 DEF LogoutRemove, Return
  <2>2. ~ thread[t].reserved
    BY <1>1, <1>3, <1>4 DEF LogoutRemove, At, Shape
  <2>3. OnlyCall(t) /\ CleanUpsKept(t)
    BY <1>1, <1>3, <2>1, <2>2, Went, WentClient, GoesOn
  <2>4. SameClients
    BY <1>1, <1>2, <1>4 DEF LogoutRemove, SameClients, ClientRecords, TypeOK
  <2>5. HubOf(ProcessOf[t], thread[t].client)
    BY <1>4 DEF LogoutRemove, Remove, HubOf
  <2> QED
    BY <1>2, <1>3, <2>3, <2>4, <2>5, CallMoves
<1>5. CASE LogoutCleanup(t)
  <2>1. PICK step \in {"clear", "unwind"} : Goto(t, step)
    BY <1>5 DEF LogoutCleanup, Return
  <2>2. ~ thread[t].reserved
    BY <1>1, <1>3, <1>5 DEF LogoutCleanup, At, Shape
  <2>3. OnlyCall(t) /\ CleanUpsKept(t)
    BY <1>1, <1>3, <2>1, <2>2, Went, GoesOn
  <2>4. SameClients
    BY <1>1, <1>2, <1>5 DEF LogoutCleanup, SameClients, ClientRecords, TypeOK
  <2> QED
    BY <1>2, <1>3, <1>5, <2>3, <2>4, CallMoves DEF LogoutCleanup, HubOf
<1>6. CASE LogoutRelease(t)
  <2>1. thread[t].step = "clear" /\ ~ thread[t].reserved
    BY <1>1, <1>3, <1>6 DEF LogoutRelease, At, Shape
  <2>2. OnlyCall(t) /\ CleanUpsKept(t)
    BY <1>1, <1>3, <1>6, <2>1, LockDone, GoesOn DEF LogoutRelease
  <2>3. SameClients
    BY <1>1, <1>6 DEF LogoutRelease, SameClients
  <2> QED
    BY <1>2, <1>3, <1>6, <2>2, <2>3, CallMoves DEF LogoutRelease, HubOf
<1>7. CASE LogoutMark(t)
  <2>1. ~ thread[t].reserved
    BY <1>1, <1>3, <1>7 DEF LogoutMark, At, Shape
  <2>2. OnlyCall(t) /\ CleanUpsKept(t)
    BY <1>1, <1>3, <1>7, <2>1, EndedQuietly DEF LogoutMark
  <2>3. SameClients
    BY <1>1, <1>7 DEF LogoutMark, SameClients
  <2> QED
    BY <1>2, <1>3, <1>7, <2>2, <2>3, CallMoves DEF LogoutMark, HubOf
<1> QED
  BY <1>4, <1>5, <1>6, <1>7 DEF LogoutStep

\* A pairing call that has no session goes on.
LEMMA GoesOnToPair ==
    ASSUME CallsHaveShape, NEW t \in Threads, thread[t].call = "qr", ~ thread[t].session,
           NEW step \in {"unwind", "pairing", "reserve", "reconnect"},
           NEW c \in {NoClient, thread[t].client, hub[ProcessOf[t]].client},
           Becomes(t, step, c, thread[t].session, thread[t].reserved),
           thread[t].reserved => step = "unwind"
    PROVE  OnlyCall(t) /\ CleanUpsKept(t)
<1>1. Shape(thread'[t])
  BY DEF CallsHaveShape, Becomes, Shape, AllCalls
<1> QED
  BY <1>1 DEF OnlyCall, CleanUpsKept, Becomes, Fresh

\* One that has a session goes on, or unwinds when nothing pairs under it.
LEMMA GoesOnPairing ==
    ASSUME CallsHaveShape, NEW t \in Threads, thread[t].call = "qr", thread[t].session,
           NEW step \in {"unwind", "wait"},
           Becomes(t, step, thread[t].client, thread[t].session, thread[t].reserved),
           step = "wait" => thread[t].step = "connect",
           step = "unwind" => ~ Pairs(thread[t].client)'
    PROVE  OnlyCall(t) /\ CleanUpsKept(t)
<1>1. Shape(thread[t])
  BY DEF CallsHaveShape
<1>2. Shape(thread'[t])
  BY <1>1 DEF Becomes, Shape, AllCalls
<1> QED
  BY <1>1, <1>2 DEF OnlyCall, CleanUpsKept, Becomes, Fresh

\* A call that makes a client for itself.
LEMMA NewClientKeeps ==
    ASSUME IInv, TypeOK', NEW t \in Threads, NEW c \in Clients, Free(c), NEW r,
           client' = [client EXCEPT ![c] = r], r.home = ProcessOf[t], r.consumer = "none",
           NEW step, Becomes(t, step, c, thread[t].session, thread[t].reserved),
           ~ thread[t].session, Shape(thread'[t]), Fresh(thread'[t]) => step = "session",
           UNCHANGED <<hub, pairing>>
    PROVE  IInv'
<1>1. /\ client'[c] = r
      /\ \A d \in Clients : d # c => client'[d] = client[d]
  BY DEF IInv, TypeOK
<1>2. /\ \A u \in Threads : thread[u].client # c
      /\ \A p \in Processes : hub[p].client # c /\ pairing[p] # c
  BY DEF Free
<1>3. /\ \A u \in Threads : u # t => thread'[u] = thread[u]
      /\ thread'[t].client = c /\ ~ thread'[t].session
      /\ thread'[t].reserved = thread[t].reserved /\ thread'[t].step = step
  BY DEF Becomes
<1>4. CallsHaveShape' /\ HubsAreSound' /\ ReservationsAreOwned'
  BY <1>3 DEF IInv, CallsHaveShape, HubsAreSound, ReservationsAreOwned
<1>5. CallsKnowTheirOwn' /\ HubsKnowTheirOwn'
  BY <1>1, <1>2, <1>3 DEF IInv, TypeOK, CallRecords, HubRecords, CallsKnowTheirOwn, HubsKnowTheirOwn
<1>6. FreshIsUnshared'
  <2> SUFFICES ASSUME NEW u \in Threads, Fresh(thread'[u])
               PROVE  (/\ Unshared(u, thread[u].client)
                       /\ IF thread[u].step = "register"
                          THEN pairing[ProcessOf[u]] = thread[u].client
                          ELSE \A q \in Processes : pairing[q] # thread[u].client)'
    BY DEF FreshIsUnshared, Fresh
  <2>1. CASE u = t
    BY <1>1, <1>2, <1>3, <2>1 DEF Unshared
  <2>2. CASE u # t
    <3>1. thread'[u] = thread[u] /\ Fresh(thread[u]) /\ thread[u].client # c
      BY <1>2, <1>3, <2>2
    <3>2. Unshared(u, thread[u].client)
      BY <3>1 DEF IInv, FreshIsUnshared
    <3>3. Unshared(u, thread[u].client)'
      BY <1>1, <1>3, <3>1, <3>2 DEF Unshared
    <3> QED
      BY <3>1, <3>3 DEF IInv, FreshIsUnshared
  <2> QED
    BY <2>1, <2>2
<1>7. \A d \in Clients : Pairs(d)' => Pairs(d) /\ d # c
  BY <1>1 DEF Pairs
<1>8. ASSUME NEW u \in Threads, thread'[u].session
      PROVE  /\ thread'[u] = thread[u] /\ thread[u].client \in Clients
             /\ client'[thread[u].client] = client[thread[u].client]
  <2>1. u # t /\ thread'[u] = thread[u]
    BY <1>3, <1>8
  <2>2. thread[u].client \in Clients
    BY <1>8, <2>1 DEF IInv, TypeOK, CallRecords, CallsHaveShape, Shape
  <2> QED
    BY <1>1, <1>2, <2>1, <2>2
<1>9. ConsumersTakeOver' /\ NoPairingIsUnwound'
  BY <1>8 DEF IInv, ConsumersTakeOver, NoPairingIsUnwound, Pairs
<1>10. PairsUnderSession'
  BY <1>1, <1>7 DEF IInv, PairsUnderSession
<1>11. SessionsAreOwned'
  <2> SUFFICES ASSUME NEW q \in Processes, pairing[q] # NoClient
               PROVE  \/ \E u \in Threads : thread'[u].session /\ thread'[u].client = pairing[q]
                      \/ client'[pairing[q]].consumer \in {"run", "lost", "won"}
    BY DEF SessionsAreOwned
  <2>1. client'[pairing[q]] = client[pairing[q]]
    BY <1>1, <1>2 DEF IInv, TypeOK
  <2> QED
    BY <1>3, <2>1 DEF IInv, SessionsAreOwned
<1> QED
  BY <1>4, <1>5, <1>6, <1>9, <1>10, <1>11 DEF IInv

\* A call that reserves the hub owes it a Remove.
LEMMA ReserveKeeps ==
    ASSUME IInv, TypeOK', NEW t \in Threads, hub[ProcessOf[t]] = EmptyHub,
           hub' = [hub EXCEPT ![ProcessOf[t]].reserved = TRUE], UNCHANGED <<pairing, client>>,
           ~ thread[t].session, thread[t].call \in {"qr", "phone", "restore"},
           Becomes(t, "client", thread[t].client, thread[t].session, TRUE)
    PROVE  IInv'
<1> DEFINE p == ProcessOf[t]
<1>1. p \in Processes
  BY ThreadAssumption
<1>2. /\ \A q \in Processes : q # p => hub'[q] = hub[q]
      /\ hub'[p].client = NoClient /\ hub[p].client = NoClient
  BY <1>1 DEF IInv, TypeOK, HubRecords, EmptyHub
<1> HIDE DEF p
<1>3. /\ \A u \in Threads : u # t => thread'[u] = thread[u]
      /\ thread'[t].client = thread[t].client /\ ~ thread'[t].session
      /\ thread'[t].reserved /\ thread'[t].step = "client" /\ thread'[t].call = thread[t].call
  BY DEF Becomes
<1>4. CallsHaveShape' /\ HubsAreSound'
  <2>1. Shape(thread'[t])
    BY <1>3 DEF Shape, AllCalls
  <2>2. CallsHaveShape'
    BY <1>3, <2>1 DEF IInv, CallsHaveShape
  <2>3. HubsAreSound'
    BY <1>2 DEF IInv, HubsAreSound
  <2> QED
    BY <2>2, <2>3
<1>5. ReservationsAreOwned'
  BY <1>2, <1>3 DEF IInv, ReservationsAreOwned, p
<1>6. CallsKnowTheirOwn' /\ HubsKnowTheirOwn'
  BY <1>2, <1>3 DEF IInv, CallsKnowTheirOwn, HubsKnowTheirOwn
<1>7. FreshIsUnshared'
  <2> SUFFICES ASSUME NEW u \in Threads, Fresh(thread'[u])
               PROVE  (/\ Unshared(u, thread[u].client)
                       /\ IF thread[u].step = "register"
                          THEN pairing[ProcessOf[u]] = thread[u].client
                          ELSE \A q \in Processes : pairing[q] # thread[u].client)'
    BY DEF FreshIsUnshared, Fresh
  <2>1. u # t /\ thread'[u] = thread[u] /\ Fresh(thread[u])
    BY <1>3 DEF Fresh
  <2>2. Unshared(u, thread[u].client)
    BY <2>1 DEF IInv, FreshIsUnshared
  <2>3. Unshared(u, thread[u].client)'
    BY <1>2, <1>3, <2>1, <2>2 DEF Unshared
  <2> QED
    BY <2>1, <2>3 DEF IInv, FreshIsUnshared
<1>8. ConsumersTakeOver' /\ NoPairingIsUnwound'
  BY <1>3 DEF IInv, ConsumersTakeOver, NoPairingIsUnwound, Pairs
<1>9. PairsUnderSession' /\ SessionsAreOwned'
  BY <1>3 DEF IInv, PairsUnderSession, SessionsAreOwned, Pairs
<1> QED
  BY <1>4, <1>5, <1>6, <1>7, <1>8, <1>9 DEF IInv

\* A pairing session is added while there is none, so nothing pairs there yet.
LEMMA SessionBegins ==
    ASSUME IInv, TypeOK', NEW t \in Threads, Fresh(thread[t]), thread[t].step = "session",
           pairing[ProcessOf[t]] = NoClient,
           pairing' = [pairing EXCEPT ![ProcessOf[t]] = thread[t].client],
           Becomes(t, "register", thread[t].client, TRUE, thread[t].reserved),
           UNCHANGED <<hub, client>>
    PROVE  IInv'
<1> DEFINE p == ProcessOf[t]
           c == thread[t].client
<1>1. /\ p \in Processes /\ thread[t].call = "qr"
      /\ Unshared(t, c) /\ \A q \in Processes : pairing[q] # c
  BY ThreadAssumption DEF IInv, FreshIsUnshared, Fresh
<1>2. c \in Clients /\ c # NoClient /\ client[c].home = p
  BY <1>1, NullAssumption DEF Unshared, IInv, CallsKnowTheirOwn
<1>3. \A q \in Processes : pairing'[q] = IF q = p THEN c ELSE pairing[q]
  BY DEF IInv, TypeOK
<1>4. pairing[p] = NoClient
  OBVIOUS
<1> HIDE DEF p, c
<1>5. /\ \A u \in Threads : u # t => thread'[u] = thread[u]
      /\ thread'[t].client = c /\ thread'[t].session /\ thread'[t].step = "register"
      /\ thread'[t].reserved = thread[t].reserved /\ thread'[t].call = "qr"
  BY <1>1 DEF Becomes, c
<1>6. \A u \in Threads : u # t => thread[u].client # c
  BY <1>1 DEF Unshared
<1>7. CallsHaveShape' /\ HubsAreSound' /\ ReservationsAreOwned'
  BY <1>2, <1>5 DEF IInv, CallsHaveShape, Shape, AllCalls, HubsAreSound, ReservationsAreOwned
<1>8. CallsKnowTheirOwn' /\ HubsKnowTheirOwn'
  BY <1>2, <1>3, <1>5 DEF IInv, CallsKnowTheirOwn, HubsKnowTheirOwn, c, p
<1>9. FreshIsUnshared'
  <2> SUFFICES ASSUME NEW u \in Threads, Fresh(thread'[u])
               PROVE  (/\ Unshared(u, thread[u].client)
                       /\ IF thread[u].step = "register"
                          THEN pairing[ProcessOf[u]] = thread[u].client
                          ELSE \A q \in Processes : pairing[q] # thread[u].client)'
    BY DEF FreshIsUnshared, Fresh
  <2>1. CASE u = t
    BY <1>1, <1>3, <1>5, <2>1 DEF Unshared, p
  <2>2. CASE u # t
    <3>1. thread'[u] = thread[u] /\ Fresh(thread[u]) /\ thread[u].client # c
      BY <1>5, <1>6, <2>2
    <3>2. Unshared(u, thread[u].client)
      BY <3>1 DEF IInv, FreshIsUnshared
    <3>3. Unshared(u, thread[u].client)'
      BY <1>5, <3>1, <3>2, <2>2 DEF Unshared, c
    <3>4. thread[u].client # NoClient
      BY <3>2, NullAssumption DEF Unshared
    <3> QED
      BY <1>3, <1>4, <3>1, <3>3, <3>4, ThreadAssumption DEF IInv, FreshIsUnshared
  <2> QED
    BY <2>1, <2>2
<1>10. ConsumersTakeOver'
  BY <1>3, <1>5, <1>6, ThreadAssumption DEF IInv, ConsumersTakeOver
<1>11. NoPairingIsUnwound'
  BY <1>5 DEF IInv, NoPairingIsUnwound, Pairs
<1>12. PairsUnderSession'
  BY <1>3, <1>4, NullAssumption DEF IInv, PairsUnderSession, Pairs
<1>13. SessionsAreOwned'
  BY <1>1, <1>3, <1>4, <1>5 DEF IInv, SessionsAreOwned, c, Fresh
<1> QED
  BY <1>7, <1>8, <1>9, <1>10, <1>11, <1>12, <1>13 DEF IInv

\* hub.Register and the start of the consumer, which takes the clean-ups over.
LEMMA PairingBegins ==
    ASSUME IInv, TypeOK', NEW t \in Threads, Fresh(thread[t]), thread[t].step = "register",
           hub' = [hub EXCEPT ![ProcessOf[t]] = [client |-> thread[t].client, reserved |-> FALSE]],
           client' = [client EXCEPT ![thread[t].client].consumer = "run"],
           Becomes(t, "connect", thread[t].client, thread[t].session, FALSE),
           UNCHANGED pairing
    PROVE  IInv'
<1> DEFINE p == ProcessOf[t]
           c == thread[t].client
<1>1. p \in Processes /\ Unshared(t, c) /\ pairing[p] = c /\ thread[t].call = "qr"
  BY ThreadAssumption DEF IInv, FreshIsUnshared, Fresh
<1>2. c \in Clients /\ c # NoClient /\ client[c].home = p /\ thread[t].session
  BY <1>1, NullAssumption DEF Unshared, IInv, CallsKnowTheirOwn, CallsHaveShape, Shape
<1>3. \A q \in Processes : hub'[q] = IF q = p THEN [client |-> c, reserved |-> FALSE] ELSE hub[q]
  BY DEF IInv, TypeOK
<1>4. /\ \A d \in Clients : d # c => client'[d] = client[d]
      /\ client'[c].consumer = "run" /\ client'[c].home = p
  BY <1>2 DEF IInv, TypeOK, ClientRecords
<1> HIDE DEF p, c
<1>5. /\ \A u \in Threads : u # t => thread'[u] = thread[u]
      /\ thread'[t].client = c /\ thread'[t].session /\ thread'[t].step = "connect"
      /\ ~ thread'[t].reserved /\ thread'[t].call = "qr"
  BY <1>1, <1>2 DEF Becomes, c
<1>6. \A u \in Threads : u # t => thread[u].client # c
  BY <1>1 DEF Unshared
<1>7. CallsHaveShape'
  BY <1>2, <1>5 DEF IInv, CallsHaveShape, Shape, AllCalls
<1>8. HubsAreSound'
  BY <1>3 DEF IInv, HubsAreSound
<1>9. ReservationsAreOwned'
  <2> SUFFICES ASSUME NEW q \in Processes, hub'[q].reserved
               PROVE  \E u \in Threads : ProcessOf[u] = q /\ thread'[u].reserved
    BY DEF ReservationsAreOwned
  <2>1. q # p /\ hub[q].reserved
    BY <1>3
  <2> QED
    BY <1>5, <2>1 DEF IInv, ReservationsAreOwned, p
<1>10. \A d \in Clients : client'[d].home = client[d].home
  BY <1>2, <1>4
<1>11. CallsKnowTheirOwn'
  BY <1>2, <1>5, <1>10 DEF IInv, TypeOK, CallRecords, CallsKnowTheirOwn, p
<1>12. HubsKnowTheirOwn'
  BY <1>2, <1>3, <1>10 DEF IInv, TypeOK, HubRecords, HubsKnowTheirOwn
<1>13. FreshIsUnshared'
  <2> SUFFICES ASSUME NEW u \in Threads, Fresh(thread'[u])
               PROVE  (/\ Unshared(u, thread[u].client)
                       /\ IF thread[u].step = "register"
                          THEN pairing[ProcessOf[u]] = thread[u].client
                          ELSE \A q \in Processes : pairing[q] # thread[u].client)'
    BY DEF FreshIsUnshared, Fresh
  <2>1. u # t /\ thread'[u] = thread[u] /\ Fresh(thread[u]) /\ thread[u].client # c
    BY <1>5, <1>6 DEF Fresh
  <2>2. Unshared(u, thread[u].client)
    BY <2>1 DEF IInv, FreshIsUnshared
  <2>3. Unshared(u, thread[u].client)'
    BY <1>3, <1>4, <1>5, <2>1, <2>2 DEF Unshared
  <2> QED
    BY <2>1, <2>3 DEF IInv, FreshIsUnshared
<1>14. \A d \in Clients : d # c /\ Pairs(d)' => Pairs(d)
  BY <1>4 DEF Pairs
<1>15. ConsumersTakeOver'
  <2> SUFFICES ASSUME NEW u \in Threads, thread'[u].session, thread'[u].step \in {"connect", "wait"},
                      pairing[ProcessOf[u]] = thread'[u].client
               PROVE  client'[thread'[u].client].consumer \in {"run", "lost", "won"}
    BY DEF ConsumersTakeOver
  <2>1. CASE u = t
    BY <1>4, <1>5, <2>1
  <2>2. CASE u # t
    <3>1. thread'[u] = thread[u] /\ thread[u].client \in Clients /\ thread[u].client # c
      BY <1>5, <1>6, <2>2 DEF IInv, TypeOK, CallRecords, CallsHaveShape, Shape
    <3> QED
      BY <1>4, <3>1 DEF IInv, ConsumersTakeOver
  <2> QED
    BY <2>1, <2>2
<1>16. NoPairingIsUnwound'
  <2> SUFFICES ASSUME NEW u \in Threads, thread'[u].session, thread'[u].step = "unwind"
               PROVE  ~ Pairs(thread[u].client)'
    BY DEF NoPairingIsUnwound
  <2>1. /\ thread'[u] = thread[u] /\ thread[u].client \in Clients /\ thread[u].client # c
    BY <1>5, <1>6 DEF IInv, TypeOK, CallRecords, CallsHaveShape, Shape
  <2> QED
    BY <1>4, <2>1 DEF IInv, NoPairingIsUnwound, Pairs
<1>17. PairsUnderSession'
  BY <1>1, <1>4, <1>14 DEF IInv, PairsUnderSession
<1>18. SessionsAreOwned'
  <2> SUFFICES ASSUME NEW q \in Processes, pairing[q] # NoClient
               PROVE  \/ \E u \in Threads : thread'[u].session /\ thread'[u].client = pairing[q]
                      \/ client'[pairing[q]].consumer \in {"run", "lost", "won"}
    BY DEF SessionsAreOwned
  <2>1. CASE pairing[q] = c
    BY <1>4, <2>1
  <2>2. CASE pairing[q] # c
    <3>1. pairing[q] \in Clients /\ client'[pairing[q]] = client[pairing[q]]
      BY <1>4, <2>2 DEF IInv, TypeOK
    <3> QED
      BY <1>5, <2>2, <3>1 DEF IInv, SessionsAreOwned, c
  <2> QED
    BY <2>1, <2>2
<1> QED
  BY <1>7, <1>8, <1>9, <1>11, <1>12, <1>13, <1>15, <1>16, <1>17, <1>18 DEF IInv

\* A call that fails removes its own session, under which nothing pairs.
LEMMA SessionEnds ==
    ASSUME IInv, TypeOK', NEW t \in Threads, thread[t].session, thread[t].step = "unwind",
           RemoveSession(ProcessOf[t], thread[t].client),
           Becomes(t, "unwind", thread[t].client, FALSE, thread[t].reserved),
           UNCHANGED <<hub, client>>
    PROVE  IInv'
<1> DEFINE p == ProcessOf[t]
           c == thread[t].client
<1>1. p \in Processes /\ ~ Pairs(c) /\ thread[t].call = "qr" /\ c # NoClient
  BY ThreadAssumption DEF IInv, NoPairingIsUnwound, CallsHaveShape, Shape
<1>2. c \in Clients /\ client[c].home = p
  BY <1>1 DEF IInv, TypeOK, CallRecords, CallsKnowTheirOwn
<1>3. \A q \in Processes : pairing'[q] = IF q = p /\ pairing[q] = c THEN NoClient ELSE pairing[q]
  BY DEF IInv, TypeOK, RemoveSession, WithoutSession
<1> HIDE DEF p, c
<1>4. /\ \A u \in Threads : u # t => thread'[u] = thread[u]
      /\ thread'[t].client = c /\ ~ thread'[t].session /\ thread'[t].step = "unwind"
      /\ thread'[t].reserved = thread[t].reserved /\ thread'[t].call = "qr"
  BY <1>1 DEF Becomes, c
<1>5. CallsHaveShape' /\ HubsAreSound' /\ ReservationsAreOwned'
  BY <1>4 DEF IInv, CallsHaveShape, Shape, AllCalls, HubsAreSound, ReservationsAreOwned
<1>6. CallsKnowTheirOwn' /\ HubsKnowTheirOwn'
  BY <1>2, <1>3, <1>4 DEF IInv, CallsKnowTheirOwn, HubsKnowTheirOwn, p
<1>7. FreshIsUnshared'
  <2> SUFFICES ASSUME NEW u \in Threads, Fresh(thread'[u])
               PROVE  (/\ Unshared(u, thread[u].client)
                       /\ IF thread[u].step = "register"
                          THEN pairing[ProcessOf[u]] = thread[u].client
                          ELSE \A q \in Processes : pairing[q] # thread[u].client)'
    BY DEF FreshIsUnshared, Fresh
  <2>1. u # t /\ thread'[u] = thread[u] /\ Fresh(thread[u])
    BY <1>4 DEF Fresh
  <2>2. Unshared(u, thread[u].client)
    BY <2>1 DEF IInv, FreshIsUnshared
  <2>3. thread[u].client # c /\ thread[u].client # NoClient
    BY <2>1, <2>2, NullAssumption DEF Unshared, c
  <2>4. Unshared(u, thread[u].client)'
    BY <1>4, <2>1, <2>2, <2>3 DEF Unshared
  <2> QED
    BY <1>3, <2>1, <2>3, <2>4, ThreadAssumption DEF IInv, FreshIsUnshared
<1>8. ConsumersTakeOver'
  <2> SUFFICES ASSUME NEW u \in Threads, thread'[u].session, thread'[u].step \in {"connect", "wait"},
                      pairing'[ProcessOf[u]] = thread'[u].client
               PROVE  client[thread'[u].client].consumer \in {"run", "lost", "won"}
    BY DEF ConsumersTakeOver
  <2>1. thread'[u] = thread[u] /\ thread[u].client # NoClient
    BY <1>4 DEF IInv, CallsHaveShape, Shape
  <2>2. pairing[ProcessOf[u]] = thread[u].client
    BY <1>3, <2>1, ThreadAssumption
  <2> QED
    BY <2>1, <2>2 DEF IInv, ConsumersTakeOver
<1>9. NoPairingIsUnwound'
  BY <1>4 DEF IInv, NoPairingIsUnwound, Pairs
<1>10. PairsUnderSession'
  BY <1>1, <1>3 DEF IInv, PairsUnderSession, Pairs
<1>11. SessionsAreOwned'
  <2> SUFFICES ASSUME NEW q \in Processes, pairing'[q] # NoClient
               PROVE  \/ \E u \in Threads : thread'[u].session /\ thread'[u].client = pairing'[q]
                      \/ client[pairing'[q]].consumer \in {"run", "lost", "won"}
    BY DEF SessionsAreOwned
  <2>1. pairing'[q] = pairing[q] /\ pairing[q] # c
    BY <1>2, <1>3 DEF IInv, HubsKnowTheirOwn
  <2> QED
    BY <1>4, <2>1 DEF IInv, SessionsAreOwned, c
<1> QED
  BY <1>5, <1>6, <1>7, <1>8, <1>9, <1>10, <1>11 DEF IInv

\* ConnectQRCode.
LEMMA QRsKeep ==
    ASSUME IInv, NEW t \in Threads, QRStep(t)
    PROVE  IInv'
<1>1. /\ TypeOK /\ CallsHaveShape /\ Shape(thread[t])
      /\ client \in [Clients -> ClientRecords]
      /\ thread[t].reserved \in BOOLEAN /\ ProcessOf[t] \in Processes
  BY ThreadAssumption DEF IInv, CallsHaveShape, TypeOK, CallRecords
<1>2. TypeOK'
  BY <1>1, QRTypes
<1>3. thread[t].call = "qr"
  BY DEF QRStep, QRExisting, QRRegisterExisting, QRReconnect, QRPairing, QRSession, QRRegister,
         QRConnect, QRWait, At
<1>4. CASE QRExisting(t)
  <2>1. ~ thread[t].session /\ ~ thread[t].reserved /\ UNCHANGED <<hub, pairing>>
    BY <1>1, <1>3, <1>4 DEF QRExisting, At, Shape
  <2>2. CASE /\ UNCHANGED client
             /\ \/ \E step \in {"unwind", "pairing"} : Goto(t, step)
                \/ thread' = [thread EXCEPT ![t].client = hub[ProcessOf[t]].client,
                                            ![t].step = "reconnect"]
    <3>1. OnlyCall(t) /\ CleanUpsKept(t)
      BY <1>1, <1>3, <2>1, <2>2, Went, WentClient, GoesOnToPair
    <3>2. SameClients
      BY <1>1, <2>2 DEF SameClients
    <3> QED
      BY <1>2, <2>1, <3>1, <3>2, CallMoves DEF HubOf
  <2>3. ASSUME NEW c \in Clients, Free(c),
               client' = [client EXCEPT ![c] = NewRecord(ProcessOf[t], "existing", TRUE)],
               thread' = [thread EXCEPT ![t].client = c, ![t].step = "registerExisting"]
        PROVE  IInv'
    <3>1. Becomes(t, "registerExisting", c, thread[t].session, thread[t].reserved)
      BY <1>1, <2>3, WentClient
    <3>2. Shape(thread'[t]) /\ ~ Fresh(thread'[t])
      BY <1>3, <2>1, <3>1 DEF Becomes, Shape, AllCalls, Fresh
    <3>3. /\ NewRecord(ProcessOf[t], "existing", TRUE).home = ProcessOf[t]
          /\ NewRecord(ProcessOf[t], "existing", TRUE).consumer = "none"
      BY <1>1, NewRecordTyped, ClientNames
    <3> QED
      BY <1>2, <2>1, <2>3, <3>1, <3>2, <3>3, NewClientKeeps
  <2> QED
    BY <1>4, <2>2, <2>3 DEF QRExisting, Return
<1>5. CASE QRRegisterExisting(t)
  <2>1. ~ thread[t].session /\ ~ thread[t].reserved
    BY <1>1, <1>3, <1>5 DEF QRRegisterExisting, At, Shape
  <2>2. PICK step \in {"unwind", "reconnect"} : Goto(t, step)
    BY <1>5 DEF QRRegisterExisting, Return
  <2>3. OnlyCall(t) /\ CleanUpsKept(t)
    BY <1>1, <1>3, <2>1, <2>2, Went, GoesOnToPair
  <2>4. SameClients
    BY <1>1, <1>5 DEF QRRegisterExisting, SameClients
  <2>5. HubOf(ProcessOf[t], thread[t].client)
    BY <1>5 DEF QRRegisterExisting, Register, HubOf
  <2> QED
    BY <1>2, <1>5, <2>3, <2>4, <2>5, CallMoves DEF QRRegisterExisting
<1>6. CASE QRReconnect(t)
  <2>1. ~ thread[t].session /\ ~ thread[t].reserved
    BY <1>1, <1>3, <1>6 DEF QRReconnect, At, Shape
  <2>2. Goto(t, "unwind") \/ thread' = [thread EXCEPT ![t] = Idle]
    BY <1>6 DEF QRReconnect, Return
  <2>3. OnlyCall(t) /\ CleanUpsKept(t)
    BY <1>1, <1>3, <2>1, <2>2, Went, GoesOnToPair, EndedQuietly
  <2>4. SameClients
    BY <1>1, <1>2, <1>6 DEF QRReconnect, SameClients, ClientRecords, TypeOK
  <2> QED
    BY <1>2, <1>6, <2>3, <2>4, CallMoves DEF QRReconnect, HubOf
<1>7. CASE QRPairing(t)
  <2>1. ~ thread[t].session /\ ~ thread[t].reserved
    BY <1>1, <1>3, <1>7 DEF QRPairing, At, Shape
  <2>2. PICK step \in {"unwind", "reserve"} : Goto(t, step)
    BY <1>7 DEF QRPairing, Return
  <2>3. OnlyCall(t) /\ CleanUpsKept(t)
    BY <1>1, <1>3, <2>1, <2>2, Went, GoesOnToPair
  <2>4. SameClients
    BY <1>1, <1>7 DEF QRPairing, SameClients
  <2> QED
    BY <1>2, <1>7, <2>3, <2>4, CallMoves DEF QRPairing, HubOf
<1>8. CASE QRSession(t)
  <2>1. ~ thread[t].session /\ thread[t].step = "session" /\ UNCHANGED <<hub, client>>
    BY <1>1, <1>3, <1>8 DEF QRSession, At, Shape
  <2>2. CASE /\ pairing[ProcessOf[t]] = NoClient
             /\ pairing' = [pairing EXCEPT ![ProcessOf[t]] = thread[t].client]
             /\ thread' = [thread EXCEPT ![t].session = TRUE, ![t].step = "register"]
    BY <1>1, <1>2, <1>3, <2>1, <2>2, WentSession, SessionBegins DEF Fresh
  <2>3. CASE Goto(t, "unwind") /\ UNCHANGED pairing
    <3>1. OnlyCall(t) /\ CleanUpsKept(t)
      BY <1>1, <1>3, <2>1, <2>3, Went, GoesOnToPair
    <3>2. SameClients
      BY <1>1, <2>1 DEF SameClients
    <3> QED
      BY <1>2, <2>1, <2>3, <3>1, <3>2, CallMoves DEF HubOf
  <2> QED
    BY <1>8, <2>2, <2>3 DEF QRSession, Return
<1>9. CASE QRRegister(t)
  <2>1. thread[t].session /\ thread[t].step = "register" /\ UNCHANGED pairing
    BY <1>1, <1>3, <1>9 DEF QRRegister, At, Shape
  <2>2. CASE /\ Register(ProcessOf[t], thread[t].client)
             /\ client' = [client EXCEPT ![thread[t].client].consumer = "run"]
             /\ thread' = [thread EXCEPT ![t].reserved = FALSE, ![t].locked = FALSE,
                                         ![t].step = "connect"]
    BY <1>1, <1>2, <1>3, <2>1, <2>2, HandedOver, PairingBegins DEF Fresh, Register
  <2>3. CASE /\ client' = [client EXCEPT ![thread[t].client].done = TRUE]
             /\ Goto(t, "unwind") /\ UNCHANGED hub
    <3>1. thread[t].client \in Clients
      BY <1>1, <2>1 DEF Shape, TypeOK, CallRecords
    <3>2. ~ Pairs(thread[t].client)'
      <4>1. thread'[t].client = thread[t].client
        BY <1>1, <2>3, Went DEF Becomes
      <4>2. client'[thread[t].client].done
        BY <1>1, <2>3, <3>1 DEF ClientRecords
      <4> QED
        BY <4>1, <4>2 DEF Pairs
    <3>3. OnlyCall(t) /\ CleanUpsKept(t)
      BY <1>1, <1>3, <2>1, <2>3, <3>2, Went, GoesOnPairing
    <3>4. SameClients
      BY <1>1, <1>2, <2>3 DEF SameClients, ClientRecords, TypeOK
    <3> QED
      BY <1>2, <2>1, <2>3, <3>3, <3>4, CallMoves DEF HubOf
  <2> QED
    BY <1>9, <2>2, <2>3 DEF QRRegister, Return
<1>10. CASE QRConnect(t)
  <2>1. thread[t].session /\ thread[t].step = "connect"
    BY <1>1, <1>3, <1>10 DEF QRConnect, At, Shape
  <2>2. thread[t].client \in Clients
    BY <1>1, <2>1 DEF Shape, TypeOK, CallRecords
  <2>3. PICK step \in {"unwind", "wait"} :
          /\ Goto(t, step)
          /\ step = "unwind" => client' = [client EXCEPT ![thread[t].client].done = TRUE]
    BY <1>10 DEF QRConnect, Return
  <2>4. step = "unwind" => ~ Pairs(thread[t].client)'
    <3>1. thread'[t].client = thread[t].client
      BY <1>1, <2>3, Went DEF Becomes
    <3>2. step = "unwind" => client'[thread[t].client].done
      BY <1>1, <2>2, <2>3 DEF ClientRecords
    <3> QED
      BY <3>1, <3>2 DEF Pairs
  <2>5. OnlyCall(t) /\ CleanUpsKept(t)
    BY <1>1, <1>3, <2>1, <2>3, <2>4, Went, GoesOnPairing
  <2>6. SameClients
    BY <1>1, <1>2, <1>10 DEF QRConnect, SameClients, ClientRecords, TypeOK
  <2> QED
    BY <1>2, <1>10, <2>5, <2>6, CallMoves DEF QRConnect, HubOf
<1>11. CASE QRWait(t)
  <2>1. thread[t].session /\ thread[t].step = "wait" /\ ~ thread[t].reserved
    BY <1>1, <1>3, <1>11 DEF QRWait, At, Shape
  <2>2. UNCHANGED <<hub, pairing, client>>
    BY <1>11 DEF QRWait
  <2>3. ASSUME thread' = [thread EXCEPT ![t] = Idle]
        PROVE  OnlyCall(t) /\ CleanUpsKept(t)
    BY <1>1, <2>1, <2>3, Ended DEF CleanUpsKept, Fresh
  <2>4. ASSUME client[thread[t].client].consumer \notin {"run", "won"}, Goto(t, "unwind")
        PROVE  OnlyCall(t) /\ CleanUpsKept(t)
    <3>1. ~ Pairs(thread[t].client)'
      BY <1>1, <2>2, <2>4, Went DEF Becomes, Pairs
    <3> QED
      BY <1>1, <1>3, <2>1, <2>4, <3>1, Went, GoesOnPairing
  <2>5. SameClients
    BY <1>1, <2>2 DEF SameClients
  <2> QED
    BY <1>2, <1>11, <2>2, <2>3, <2>4, <2>5, CallMoves DEF QRWait, Return, HubOf
<1> QED
  BY <1>4, <1>5, <1>6, <1>7, <1>8, <1>9, <1>10, <1>11 DEF QRStep

\* The steps that several calls share.
LEMMA SharedKeep ==
    ASSUME IInv, NEW t \in Threads, SharedStep(t)
    PROVE  IInv'
<1>1. /\ TypeOK /\ CallsHaveShape /\ Shape(thread[t])
      /\ client \in [Clients -> ClientRecords]
      /\ thread[t].reserved \in BOOLEAN /\ ProcessOf[t] \in Processes
  BY ThreadAssumption DEF IInv, CallsHaveShape, TypeOK, CallRecords
<1>2. TypeOK'
  BY <1>1, SharedTypes
<1>3. CASE TryAcquire(t)
  <2>1. ~ thread[t].session /\ ~ thread[t].reserved /\ thread[t].step = "lock"
    BY <1>1, <1>3 DEF TryAcquire, Shape
  <2>2. ASSUME thread' = [thread EXCEPT ![t] = Idle]
        PROVE  OnlyCall(t) /\ CleanUpsKept(t)
    BY <1>1, <2>1, <2>2, EndedQuietly
  <2>3. ASSUME thread' = [thread EXCEPT ![t].locked = TRUE,
                                        ![t].step = AfterLock(thread[t].call)]
        PROVE  OnlyCall(t) /\ CleanUpsKept(t)
    <3>1. Becomes(t, AfterLock(thread[t].call), thread[t].client, thread[t].session,
                  thread[t].reserved)
      BY <1>1, <2>3, LockTaken
    <3>2. /\ AfterLock(thread[t].call) \in {"existing", "remove", "reserve"}
          /\ AfterLock(thread[t].call) = "reserve"
               => thread[t].call \notin {"qr", "logout"}
      BY DEF AfterLock
    <3>3. Shape(thread'[t])
      BY <1>1, <2>1, <3>1, <3>2 DEF Becomes, Shape, AllCalls
    <3> QED
      BY <2>1, <3>1, <3>2, <3>3 DEF Becomes, OnlyCall, CleanUpsKept, Fresh
  <2>4. SameClients /\ UNCHANGED <<hub, pairing>>
    BY <1>1, <1>3 DEF TryAcquire, SameClients
  <2> QED
    BY <1>2, <1>3, <2>2, <2>3, <2>4, CallMoves DEF TryAcquire, HubOf
<1>4. CASE Reserve(t)
  <2>1. /\ ~ thread[t].session /\ ~ thread[t].reserved /\ thread[t].step = "reserve"
        /\ thread[t].call \in {"qr", "phone", "restore"} /\ UNCHANGED <<pairing, client>>
    BY <1>1, <1>4 DEF Reserve, Shape
  <2>2. CASE /\ hub[ProcessOf[t]] = EmptyHub
             /\ hub' = [hub EXCEPT ![ProcessOf[t]].reserved = TRUE]
             /\ thread' = [thread EXCEPT ![t].reserved = TRUE, ![t].step = "client"]
    BY <1>1, <1>2, <2>1, <2>2, WentReserved, ReserveKeeps
  <2>3. CASE Goto(t, "unwind") /\ UNCHANGED hub
    <3>1. OnlyCall(t) /\ CleanUpsKept(t)
      BY <1>1, <2>1, <2>3, Went, GoesOn, GoesOnToPair
    <3>2. SameClients
      BY <1>1, <2>1 DEF SameClients
    <3> QED
      BY <1>2, <2>1, <2>3, <3>1, <3>2, CallMoves DEF HubOf
  <2> QED
    BY <1>4, <2>2, <2>3 DEF Reserve, Return
<1>5. CASE NewClient(t)
  <2>1. /\ ~ thread[t].session /\ thread[t].step = "client" /\ thread[t].device \in BOOLEAN
        /\ thread[t].call \in {"qr", "phone", "restore"} /\ UNCHANGED <<hub, pairing>>
    BY <1>1, <1>5 DEF NewClient, Shape, TypeOK, CallRecords
  <2> DEFINE r == NewRecord(ProcessOf[t], thread[t].call, thread[t].device)
  <2>2. r.home = ProcessOf[t] /\ r.consumer = "none"
    BY <1>1, <2>1, NewRecordTyped, ClientNames
  <2>3. PICK c \in Clients :
          /\ Free(c)
          /\ client' = [client EXCEPT ![c] = r]
          /\ thread' = [thread EXCEPT ![t].client = c, ![t].step = AfterClient(thread[t].call)]
    BY <1>5 DEF NewClient
  <2> HIDE DEF r
  <2>4. Becomes(t, AfterClient(thread[t].call), c, thread[t].session, thread[t].reserved)
    BY <1>1, <2>3, WentClient
  <2>5. \/ thread[t].call = "qr" /\ AfterClient(thread[t].call) = "session"
        \/ thread[t].call = "phone" /\ AfterClient(thread[t].call) = "connect"
        \/ thread[t].call = "restore" /\ AfterClient(thread[t].call) = "register"
    BY <2>1 DEF AfterClient
  <2>6. Shape(thread'[t]) /\ (Fresh(thread'[t]) => AfterClient(thread[t].call) = "session")
    BY <1>1, <2>1, <2>4, <2>5 DEF Becomes, Shape, AllCalls, Fresh
  <2> QED
    BY <1>2, <2>1, <2>2, <2>3, <2>4, <2>6, NewClientKeeps
<1>6. CASE NewClientFails(t)
  <2>1. /\ ~ thread[t].session /\ thread[t].step = "client" /\ Goto(t, "unwind")
        /\ thread[t].call \in {"qr", "phone", "restore"} /\ UNCHANGED <<hub, pairing, client>>
    BY <1>1, <1>6 DEF NewClientFails, Shape, Return
  <2>2. OnlyCall(t) /\ CleanUpsKept(t)
    BY <1>1, <2>1, Went, GoesOn, GoesOnToPair
  <2>3. SameClients
    BY <1>1, <2>1 DEF SameClients
  <2> QED
    BY <1>2, <2>1, <2>2, <2>3, CallMoves DEF HubOf
<1>7. CASE UnwindSession(t)
  BY <1>1, <1>2, <1>7, SessionDone, SessionEnds DEF UnwindSession
<1>8. CASE UnwindReservation(t)
  <2>1. /\ ~ thread[t].session /\ thread[t].step = "unwind" /\ thread[t].call \in AllCalls \ {"close"}
        /\ UNCHANGED <<pairing, client>>
    BY <1>1, <1>8 DEF UnwindReservation, Shape
  <2>2. Becomes(t, "unwind", thread[t].client, thread[t].session, FALSE)
    BY <1>1, <1>8, <2>1, ReservationDone DEF UnwindReservation
  <2>3. ~ hub'[ProcessOf[t]].reserved
    BY <1>1, <1>8 DEF UnwindReservation, Remove, EmptyHub, TypeOK
  <2>4. OnlyCall(t) /\ CleanUpsKept(t)
    BY <2>1, <2>2, <2>3 DEF Becomes, OnlyCall, CleanUpsKept, Shape, Fresh
  <2>5. SameClients
    BY <1>1, <2>1 DEF SameClients
  <2>6. HubOf(ProcessOf[t], thread[t].client)
    BY <1>8 DEF UnwindReservation, Remove, HubOf
  <2> QED
    BY <1>2, <2>1, <2>4, <2>5, <2>6, CallMoves
<1>9. CASE UnwindLock(t)
  <2>1. /\ ~ thread[t].session /\ ~ thread[t].reserved
        /\ thread' = [thread EXCEPT ![t] = Idle] /\ UNCHANGED <<hub, pairing, client>>
    BY <1>9 DEF UnwindLock
  <2>2. OnlyCall(t) /\ CleanUpsKept(t)
    BY <1>1, <2>1, EndedQuietly
  <2>3. SameClients
    BY <1>1, <2>1 DEF SameClients
  <2> QED
    BY <1>2, <2>1, <2>2, <2>3, CallMoves DEF HubOf
<1> QED
  BY <1>3, <1>4, <1>5, <1>6, <1>7, <1>8, <1>9 DEF SharedStep

\* Every step keeps the invariant.
LEMMA NextKeeps ==
    ASSUME IInv, [Next]_vars
    PROVE  IInv'
<1>1. CASE UNCHANGED vars
  BY <1>1 DEF vars, IInv, TypeOK, CallsHaveShape, HubsAreSound, CallsKnowTheirOwn,
              HubsKnowTheirOwn, FreshIsUnshared, Unshared, ConsumersTakeOver, NoPairingIsUnwound,
              PairsUnderSession, Pairs, ReservationsAreOwned, SessionsAreOwned
<1>2. ASSUME NEW t \in Threads, NEW call \in Calls \ {"close"}, Start(t, call)
      PROVE  IInv'
  BY <1>2, StartKeeps
<1>3. ASSUME NEW t \in Threads, CallStep(t)
      PROVE  IInv'
  BY <1>3, SharedKeep, QRsKeep, PhonesKeep, RestoresKeep, LogoutsKeep DEF CallStep
<1>4. ASSUME NEW c \in Clients, ConsumerStep(c) \/ HandlerStep(c) \/ Network(c)
      PROVE  IInv'
  BY <1>4, ConsumersKeep, HandlersKeep, NetworkKeeps
<1>5. ASSUME NEW p \in Processes, CloseStep(p) \/ Crash(p)
      PROVE  IInv'
  BY <1>5, CloseKeeps, CrashKeeps
<1> QED
  BY <1>1, <1>2, <1>3, <1>4, <1>5, LapseKeeps DEF Next

\* The inductive invariant holds in every state of every behaviour.
THEOREM Invariance == Spec => []IInv
BY InitInvariant, NextKeeps, PTL DEF Spec

-----------------------------------------------------------------------------
(* What the instance can count on.                                         *)

\* The types of the seven variables.
THEOREM TypeCorrect == Spec => []TypeOK
<1>1. IInv => TypeOK
  BY DEF IInv
<1> QED
  BY <1>1, Invariance, PTL

\* hub.Reserve: whatever other calls remove meanwhile, a reservation has a
\* running call of its process that still owes its Remove.
THEOREM ReservationsHaveOwners == Spec => []ReservationsAreOwned
<1>1. IInv => ReservationsAreOwned
  BY DEF IInv
<1> QED
  BY <1>1, Invariance, PTL

\* pairings.add: every registered pairing session has a call or a consumer that
\* will remove it, also when the call returned before its consumer ended.
THEOREM SessionsHaveOwners == Spec => []SessionsAreOwned
<1>1. IInv => SessionsAreOwned
  BY DEF IInv
<1> QED
  BY <1>1, Invariance, PTL

\* Two consumers of one process never pair the instance at the same time:
\* each does so under the one session of the process.
THEOREM PairingsExclude == Spec => []OnePairing
<1>1. IInv => OnePairing
  BY DEF IInv, PairsUnderSession, OnePairing
<1> QED
  BY <1>1, Invariance, PTL

\* No step of a call but an acquisition, the last clean-up and a logout's
\* release touches the lock;
LEMMA CallsLeaveTheLock ==
    ASSUME NEW t \in Threads, CallStep(t)
    PROVE  TryAcquire(t) \/ UnwindLock(t) \/ LogoutRelease(t) \/ lock' = lock
<1>1. CASE SharedStep(t)
  BY <1>1 DEF SharedStep, Reserve, NewClient, NewClientFails, UnwindSession, UnwindReservation
<1>2. CASE QRStep(t)
  BY <1>2 DEF QRStep, QRExisting, QRRegisterExisting, QRReconnect, QRPairing, QRSession,
              QRRegister, QRConnect, QRWait
<1>3. CASE PhoneStep(t)
  BY <1>3 DEF PhoneStep, PhoneExists, PhoneConnect, PhonePair, PhoneRegister
<1>4. CASE RestoreStep(t)
  BY <1>4 DEF RestoreStep, RestoreRegister, RestoreReconcile, RestoreConnect, RestoreWait
<1>5. CASE LogoutStep(t)
  BY <1>5 DEF LogoutStep, LogoutRemove, LogoutCleanup, LogoutMark
<1> QED
  BY <1>1, <1>2, <1>3, <1>4, <1>5 DEF CallStep

\* no step of a client but the releases of its consumer and its handlers does.
LEMMA ClientsLeaveTheLock ==
    ASSUME NEW c \in Clients, ConsumerStep(c) \/ HandlerStep(c) \/ Network(c)
    PROVE  ConsumerReleases(c) \/ OnRelease(c) \/ lock' = lock
<1>1. CASE ConsumerStep(c)
  BY <1>1 DEF ConsumerStep, ConsumeEnd, ConsumeSuccess, ConsumerLeaves, ConsumerDisconnects,
              ConsumerRemoves
<1>2. CASE HandlerStep(c)
  BY <1>2 DEF HandlerStep, OnPaired, OnConnected, OnLoggedOut, OnRemove
<1>3. CASE Network(c)
  BY <1>3 DEF Network, Paired, LoggedIn, Dropped, Unlinked, Banned
<1> QED
  BY <1>1, <1>2, <1>3

\* A release frees the lease of nobody but its own process.
LEMMA ReleasedByOwner ==
    ASSUME NEW p, NEW q, lock = Acquired(p), lock' = Released(q), lock' # lock
    PROVE  q = p
BY DEF Acquired, Released

\* Who frees a running lease of p or passes it on acts for p.
LEMMA OwnersRelease ==
    ASSUME TypeOK, [Next]_vars, NEW p \in Processes, lock = Acquired(p),
           lock'.lease = "none" \/ lock'.owner \notin {p, NoProcess}
    PROVE  ActsFor(p)
<1>1. lock.lease = "running" /\ lock.owner = p /\ lock' # lock
  BY DEF Acquired
<1>2. ASSUME NEW t \in Threads, TryAcquire(t)
      PROVE  FALSE
  BY <1>1, <1>2 DEF TryAcquire, CanAcquire, Acquired
<1>3. ASSUME NEW t \in Threads, UnwindLock(t)
      PROVE  ActsFor(p)
  <2>1. lock' = Released(ProcessOf[t]) /\ thread'[t] = Idle /\ thread[t].step = "unwind"
    BY <1>1, <1>3 DEF UnwindLock, TypeOK
  <2>2. ProcessOf[t] = p
    BY <1>1, <2>1, ReleasedByOwner
  <2> QED
    BY <2>1, <2>2 DEF ActsFor, Idle
<1>4. ASSUME NEW t \in Threads, LogoutRelease(t)
      PROVE  ActsFor(p)
  <2>1. lock' = Released(ProcessOf[t]) /\ thread[t].locked /\ ~ thread'[t].locked
    BY <1>4 DEF LogoutRelease, TypeOK, CallRecords
  <2>2. ProcessOf[t] = p
    BY <1>1, <2>1, ReleasedByOwner
  <2> QED
    BY <2>1, <2>2 DEF ActsFor
<1>5. ASSUME NEW c \in Clients, ConsumerReleases(c)
      PROVE  ActsFor(p)
  <2>1. /\ lock' = Released(client[c].home)
        /\ client[c].consumer = "release" /\ client'[c].consumer = "none"
    BY <1>5 DEF ConsumerReleases, TypeOK, ClientRecords
  <2>2. client[c].home = p
    BY <1>1, <2>1, ReleasedByOwner
  <2> QED
    BY <2>1, <2>2 DEF ActsFor
<1>6. ASSUME NEW c \in Clients, OnRelease(c)
      PROVE  ActsFor(p)
  <2>1. /\ lock' = Released(client[c].home)
        /\ client[c].handler = "release" /\ client'[c].handler = "none"
    BY <1>6 DEF OnRelease, TypeOK, ClientRecords
  <2>2. client[c].home = p
    BY <1>1, <2>1, ReleasedByOwner
  <2> QED
    BY <2>1, <2>2 DEF ActsFor
<1>7. ASSUME NEW q \in Processes, CloseStep(q)
      PROVE  ActsFor(p)
  <2>1. CloseReleases(q)
    BY <1>1, <1>7 DEF CloseStep, CloseBegins, CloseCancels, CloseDisconnects, CloseRemoves
  <2>2. lock' = Released(q) /\ phase[q] = "stopping" /\ phase'[q] = "dropping"
    BY <1>1, <2>1 DEF CloseReleases, Advance, TypeOK
  <2>3. q = p
    BY <1>1, <2>2, ReleasedByOwner
  <2> QED
    BY <2>2, <2>3 DEF ActsFor
<1>8. ASSUME NEW q \in Processes, Crash(q)
      PROVE  FALSE
  BY <1>1, <1>8 DEF Crash, TypeOK, Locks
<1>9. ~ LeaseLapses
  BY <1>1 DEF LeaseLapses, TypeOK, Locks
<1>10. ASSUME NEW t \in Threads, NEW call, Start(t, call)
       PROVE  FALSE
  BY <1>1, <1>10 DEF Start
<1>11. ~ UNCHANGED vars
  BY <1>1 DEF vars
<1>12. ASSUME NEW t \in Threads, CallStep(t)
       PROVE  ActsFor(p)
  BY <1>1, <1>2, <1>3, <1>4, <1>12, CallsLeaveTheLock
<1>13. ASSUME NEW c \in Clients, ConsumerStep(c) \/ HandlerStep(c) \/ Network(c)
       PROVE  ActsFor(p)
  BY <1>1, <1>5, <1>6, <1>13, ClientsLeaveTheLock
<1> QED
  BY <1>7, <1>8, <1>9, <1>10, <1>11, <1>12, <1>13 DEF Next

\* While a process holds a running lease, only its own calls, clients and Close
\* free the lock or pass it on (TryAcquireConnectionLock's and
\* ReleaseConnectionLock's owner tests), however late another one's release is.
THEOREM LateReleases == Spec => LateReleaseHarmless
<1>1. TypeOK /\ [Next]_vars =>
        [\A p \in Processes :
           /\ lock = Acquired(p)
           /\ lock'.lease = "none" \/ lock'.owner \notin {p, NoProcess}
           => ActsFor(p)]_vars
  BY OwnersRelease
<1> QED
  BY <1>1, TypeCorrect, PTL DEF Spec, LateReleaseHarmless

-----------------------------------------------------------------------------
(* The pairing sessions keep PairingContract.                              *)

\* Whose consumer has left is paired, or is not going to be;
LeaversAreDone ==
    \A c \in Clients :
        client[c].consumer \in {"leave", "remove", "release"} => client[c].done

\* the client that a call connects has its consumer or is over, and a call
\* removes its session only when the pairing is over.
SessionsHaveBegun ==
    \A t \in Threads :
        thread[t].session =>
            LET c == thread[t].client IN
            /\ thread[t].step \in {"connect", "wait"}
                 => client[c].done \/ client[c].consumer # "none"
            /\ thread[t].step = "unwind" => Over(c)

SInv == IInv /\ LeaversAreDone /\ SessionsHaveBegun

Stages == [p \in Processes |-> Stage(p)]

\* Before its pairing is over, a session is lost only with all clients of p.
LostWithClients(p) ==
    pairing[p] # NoClient /\ ~ Over(pairing[p]) /\ pairing'[p] = NoClient
        => \A c \in Clients : client'[c].home # p

\* What the contract allows a step to do.
Promised ==
    \/ UNCHANGED <<pairing, Stages>>
    \/ \E p \in Processes :
         \/ \E c \in Clients : Contract!Begin(p, c)
         \/ Contract!Pair(p)
         \/ Contract!Stop(p)
         \/ Contract!End(p)
         \/ Contract!Forget(p) /\ \A c \in Clients : client'[c].home # p

\* A client ages: its end is final, its consumer goes on and never back, and
\* is gone only when the pairing is over.
Ages(c) ==
    /\ client[c].done => client'[c].done
    /\ client'[c].consumer \in {"leave", "remove", "release"} => client'[c].done
    /\ \/ client'[c].consumer = client[c].consumer
       \/ client[c].consumer # "none" /\ client'[c].consumer \notin {"none", "run"}
       \/ client[c].consumer # "none" /\ client'[c].done

\* No client but c changes.
OnlyClient(c) == \A d \in Clients : d # c => client'[d] = client[d]

\* The call of t neither begins a session nor reaches its removal early.
SessionGoesOn(t) ==
    thread'[t].session =>
        /\ thread[t].session /\ thread'[t].client = thread[t].client
        /\ thread'[t].step \in {"connect", "wait"} => thread[t].step \in {"connect", "wait"}
        /\ thread'[t].step = "unwind" =>
             thread[t].step = "unwind" \/ Over(thread[t].client)'

\* Nothing pairs, and no call has begun, at first.
LEMMA PairingInitially == Init => LeaversAreDone /\ SessionsHaveBegun /\ Contract!Init
<1> SUFFICES ASSUME Init PROVE LeaversAreDone /\ SessionsHaveBegun /\ Contract!Init
  OBVIOUS
<1>1. LeaversAreDone /\ SessionsHaveBegun
  BY DEF Init, LeaversAreDone, SessionsHaveBegun, NoRecord, Idle
<1>2. \A p \in Processes : Stage(p) = "none"
  BY DEF Init, Stage
<1> QED
  BY <1>1, <1>2 DEF Init, Contract!Init

\* The stage of a session depends on its client alone.
LEMMA StageSame ==
    ASSUME NEW p, pairing'[p] = pairing[p],
           pairing[p] # NoClient => /\ client'[pairing[p]].done = client[pairing[p]].done
                                    /\ client'[pairing[p]].consumer = client[pairing[p]].consumer
    PROVE  Stage(p)' = Stage(p)
BY DEF Stage, Over, Pairs

\* A client that ages stops its session, or leaves it as it is.
LEMMA AgeStops ==
    ASSUME NEW p, pairing'[p] = pairing[p], Ages(pairing[p]),
           client[pairing[p]].done \in BOOLEAN, client'[pairing[p]].done \in BOOLEAN
    PROVE  \/ Stage(p)' = Stage(p)
           \/ Stage(p) \in {"added", "pairs"} /\ Stage(p)' = "over"
<1>1. CASE pairing[p] = NoClient
  BY <1>1 DEF Stage
<1>2. CASE pairing[p] # NoClient
  <2> DEFINE c == pairing[p]
  <2>1. Over(c) => Over(c)'
    BY DEF Over, Ages
  <2>2. Over(c)' \/ Stage(p)' = Stage(p)
    BY <1>2 DEF Over, Ages, Stage, Pairs
  <2>3. Over(c)' => Stage(p)' = "over"
    BY <1>2 DEF Stage, Over, Pairs
  <2>4. Stage(p) \in {"over", "added", "pairs"} /\ (Stage(p) = "over" => Over(c))
    BY <1>2 DEF Stage, Over, Pairs
  <2> QED
    BY <2>1, <2>2, <2>3, <2>4
<1> QED
  BY <1>1, <1>2

\* A step that ages clients of one process keeps the contract.
LEMMA HomeKeepsContract ==
    ASSUME IInv, IInv', UNCHANGED pairing, \A c \in Clients : Ages(c), NEW p \in Processes,
           \A q \in Processes : q # p => \/ pairing[q] = NoClient
                                         \/ client'[pairing[q]] = client[pairing[q]]
    PROVE  Promised
<1>1. /\ pairing \in [Processes -> Clients \union {NoClient}]
      /\ client \in [Clients -> ClientRecords] /\ client' \in [Clients -> ClientRecords]
  BY DEF IInv, TypeOK
<1>2. \A q \in Processes : q # p => Stage(q)' = Stage(q)
  BY StageSame
<1>3. CASE Stage(p)' = Stage(p)
  BY <1>2, <1>3 DEF Promised, Stages
<1>4. CASE Stage(p)' # Stage(p)
  <2>1. pairing[p] \in Clients
    BY <1>1, <1>4, StageSame
  <2>2. client[pairing[p]].done \in BOOLEAN /\ client'[pairing[p]].done \in BOOLEAN
    BY <1>1, <2>1 DEF ClientRecords
  <2>3. Stage(p) \in {"added", "pairs"} /\ Stage(p)' = "over"
    BY <1>4, <2>1, <2>2, AgeStops
  <2>4. Stages' = [Stages EXCEPT ![p] = "over"] /\ Stages[p] \in {"added", "pairs"}
    BY <1>2, <2>3 DEF Stages
  <2> QED
    BY <2>4 DEF Promised, Stages, Contract!Stop
<1> QED
  BY <1>3, <1>4

\* So does one that ages a single client.
LEMMA AgeKeepsContract ==
    ASSUME IInv, IInv', UNCHANGED pairing, \A d \in Clients : Ages(d), NEW c, OnlyClient(c)
    PROVE  Promised
<1>1. pairing \in [Processes -> Clients \union {NoClient}]
  BY DEF IInv, TypeOK
<1>2. CASE \A p \in Processes : pairing[p] # c \/ pairing[p] = NoClient
  <2>1. \A p \in Processes : Stage(p)' = Stage(p)
    BY <1>1, <1>2, StageSame DEF OnlyClient
  <2> QED
    BY <2>1 DEF Promised, Stages
<1>3. ASSUME NEW p \in Processes, pairing[p] = c, c # NoClient
      PROVE  Promised
  <2>1. \A q \in Processes : q # p => pairing[q] # c
    BY <1>3 DEF IInv, HubsKnowTheirOwn
  <2> QED
    BY <1>1, <2>1, HomeKeepsContract DEF OnlyClient
<1> QED
  BY <1>2, <1>3

\* Clients that age and calls that go on keep SInv's own parts.
LEMMA AgeKeeps ==
    ASSUME SInv, IInv', \A c \in Clients : Ages(c), \A t \in Threads : SessionGoesOn(t)
    PROVE  LeaversAreDone' /\ SessionsHaveBegun'
<1>1. LeaversAreDone'
  BY DEF Ages, LeaversAreDone
<1>2. ASSUME NEW t \in Threads, thread'[t].session
      PROVE  /\ thread'[t].step \in {"connect", "wait"}
                  => \/ client'[thread'[t].client].done
                     \/ client'[thread'[t].client].consumer # "none"
             /\ thread'[t].step = "unwind" => Over(thread[t].client)'
  <2> DEFINE c == thread[t].client
  <2>1. thread[t].session /\ thread'[t].client = c /\ Ages(c)
    BY <1>2 DEF SessionGoesOn, SInv, IInv, TypeOK, CallRecords, CallsHaveShape, Shape
  <2>2. client[c].done \/ client[c].consumer # "none"
          => client'[c].done \/ client'[c].consumer # "none"
    BY <2>1 DEF Ages
  <2>3. Over(c) => client'[c].done \/ client'[c].consumer \notin {"none", "run"}
    BY <2>1 DEF Ages, Over
  <2> QED
    BY <1>2, <2>1, <2>2, <2>3 DEF SessionGoesOn, SInv, SessionsHaveBegun, Over
<1> QED
  BY <1>1, <1>2 DEF SessionsHaveBegun

\* What leaves done and consumer of the clients alone lets them age.
LEMMA SameAge ==
    ASSUME LeaversAreDone, SameClients
    PROVE  \A c \in Clients : Ages(c)
BY DEF LeaversAreDone, SameClients, Ages

\* What touches no call lets them go on.
LEMMA SameCalls ==
    ASSUME SInv, UNCHANGED thread, \A c \in Clients : Ages(c)
    PROVE  \A t \in Threads : SessionGoesOn(t)
BY DEF SessionGoesOn

\* Where other clients stay as they are, they age.
LEMMA OthersAge ==
    ASSUME LeaversAreDone, NEW c, OnlyClient(c), c \in Clients => Ages(c)
    PROVE  \A d \in Clients : Ages(d)
BY DEF LeaversAreDone, OnlyClient, Ages

\* A step on one client that touches neither calls nor sessions.
LEMMA ClientAges ==
    ASSUME SInv, IInv', NEW c, OnlyClient(c), c \in Clients => Ages(c),
           UNCHANGED <<pairing, thread>>
    PROVE  LeaversAreDone' /\ SessionsHaveBegun' /\ Promised
<1>1. \A d \in Clients : Ages(d)
  BY OthersAge DEF SInv
<1>2. Promised
  BY <1>1, AgeKeepsContract DEF SInv
<1> QED
  BY <1>1, <1>2, SameCalls, AgeKeeps

\* The handlers of a client's events, and what WhatsApp does to it.
LEMMA HandlersPromise ==
    ASSUME SInv, IInv', NEW c \in Clients, HandlerStep(c) \/ Network(c)
    PROVE  LeaversAreDone' /\ SessionsHaveBegun' /\ Promised
<1>1. client \in [Clients -> ClientRecords]
  BY DEF SInv, IInv, TypeOK
<1>2. OnlyClient(c) /\ UNCHANGED <<pairing, thread>>
  <2>1. CASE HandlerStep(c)
    BY <1>1, <2>1 DEF HandlerStep, OnPaired, OnConnected, OnLoggedOut, OnRemove, OnRelease,
                      OnlyClient
  <2>2. CASE Network(c)
    BY <1>1, <2>2 DEF Network, Paired, LoggedIn, Dropped, Unlinked, Banned, OnlyClient
  <2> QED
    BY <2>1, <2>2
<1>3. client'[c].consumer = client[c].consumer /\ (client[c].done => client'[c].done)
  <2>1. CASE HandlerStep(c)
    BY <1>1, <2>1 DEF HandlerStep, OnPaired, OnConnected, OnLoggedOut, OnRemove, OnRelease,
                      ClientRecords
  <2>2. CASE Network(c)
    BY <1>1, <2>2 DEF Network, Paired, LoggedIn, Dropped, Unlinked, Banned, ClientRecords
  <2> QED
    BY <2>1, <2>2
<1>4. Ages(c)
  BY <1>3 DEF SInv, LeaversAreDone, Ages
<1> QED
  BY <1>2, <1>4, ClientAges

\* A consumer that leaves ends its session, which is over.
LEMMA LeavingPromises ==
    ASSUME SInv, IInv', NEW c \in Clients, ConsumerLeaves(c)
    PROVE  LeaversAreDone' /\ SessionsHaveBegun' /\ Promised
<1>1. client \in [Clients -> ClientRecords]
  BY DEF SInv, IInv, TypeOK
<1>2. OnlyClient(c) /\ UNCHANGED thread
  BY <1>1 DEF ConsumerLeaves, OnlyClient
<1>3. client[c].consumer \in {"lost", "won"} /\ client'[c].done
      /\ client'[c].consumer \in {"leave", "release"}
  BY <1>1 DEF ConsumerLeaves, ClientRecords
<1>4. Ages(c)
  BY <1>3 DEF Ages
<1>5. LeaversAreDone' /\ SessionsHaveBegun'
  BY <1>2, <1>4, OthersAge, SameCalls, AgeKeeps DEF SInv
<1>6. /\ pairing \in [Processes -> Clients \union {NoClient}]
      /\ pairing' = [pairing EXCEPT ![client[c].home] =
                       IF pairing[client[c].home] = c THEN NoClient ELSE pairing[client[c].home]]
  BY DEF ConsumerLeaves, RemoveSession, WithoutSession, SInv, IInv, TypeOK
<1>7. \A p \in Processes : pairing[p] # c => pairing'[p] = pairing[p] /\ Stage(p)' = Stage(p)
  <2> SUFFICES ASSUME NEW p \in Processes, pairing[p] # c
               PROVE  pairing'[p] = pairing[p] /\ Stage(p)' = Stage(p)
    OBVIOUS
  <2>1. pairing'[p] = pairing[p]
    BY <1>6
  <2> QED
    BY <1>2, <1>6, <2>1, StageSame DEF OnlyClient
<1>8. CASE \A p \in Processes : pairing[p] # c
  <2>1. UNCHANGED pairing
    BY <1>6, <1>8
  <2> QED
    BY <1>5, <1>7, <1>8, <2>1 DEF Promised, Stages
<1>9. ASSUME NEW p \in Processes, pairing[p] = c
      PROVE  Promised
  <2>1. client[c].home = p /\ c # NoClient /\ \A q \in Processes : q # p => pairing[q] # c
    BY <1>9, NullAssumption DEF SInv, IInv, HubsKnowTheirOwn
  <2>2. pairing' = [pairing EXCEPT ![p] = NoClient]
    BY <1>6, <1>9, <2>1
  <2>3. Stage(p) = "over"
    BY <1>3, <1>9, <2>1 DEF Stage, Over, Pairs
  <2>4. Stage(p)' = "none"
    BY <1>6, <2>2 DEF Stage
  <2>5. Stages' = [Stages EXCEPT ![p] = "none"] /\ Stages[p] = "over"
    BY <1>7, <2>1, <2>3, <2>4 DEF Stages
  <2> QED
    BY <2>2, <2>5 DEF Promised, Stages, Contract!End
<1> QED
  BY <1>5, <1>8, <1>9

\* The steps of a consumer.
LEMMA ConsumersPromise ==
    ASSUME SInv, IInv', NEW c \in Clients, ConsumerStep(c)
    PROVE  LeaversAreDone' /\ SessionsHaveBegun' /\ Promised
<1>1. client \in [Clients -> ClientRecords]
  BY DEF SInv, IInv, TypeOK
<1>2. CASE ConsumerLeaves(c)
  BY <1>2, LeavingPromises
<1>3. CASE ~ ConsumerLeaves(c)
  <2>1. OnlyClient(c) /\ UNCHANGED <<pairing, thread>>
    BY <1>1, <1>3 DEF ConsumerStep, ConsumeEnd, ConsumeSuccess, ConsumerDisconnects,
                      ConsumerRemoves, ConsumerReleases, OnlyClient
  <2>2. /\ client'[c].done = client[c].done /\ client[c].consumer # "none"
        /\ \/ client'[c].consumer \in {"lost", "won"}
           \/ client[c].consumer \in {"leave", "remove", "release"} /\ client'[c].consumer # "run"
    BY <1>1, <1>3 DEF ConsumerStep, ConsumeEnd, ConsumeSuccess, ConsumerDisconnects,
                      ConsumerRemoves, ConsumerReleases, ClientRecords
  <2>3. Ages(c)
    BY <2>2 DEF SInv, LeaversAreDone, Ages
  <2> QED
    BY <2>1, <2>3, ClientAges
<1> QED
  BY <1>2, <1>3

\* Module.Close.
LEMMA ClosePromises ==
    ASSUME SInv, IInv', NEW p \in Processes, CloseStep(p)
    PROVE  LeaversAreDone' /\ SessionsHaveBegun' /\ Promised
<1>1. client \in [Clients -> ClientRecords]
  BY DEF SInv, IInv, TypeOK
<1>2. UNCHANGED <<pairing, thread>>
  BY DEF CloseStep, CloseBegins, CloseCancels, CloseReleases, CloseDisconnects, CloseRemoves
<1>3. SameClients
  <2>1. \A c \in Clients : \/ client'[c] = client[c]
                           \/ client'[c] = [client[c] EXCEPT !.done = TRUE]
                           \/ client'[c] = [client[c] EXCEPT !.done = TRUE, !.socket = "off"]
    BY <1>1 DEF CloseStep, CloseBegins, CloseCancels, CloseReleases, CloseDisconnects, CloseRemoves
  <2>2. ASSUME NEW c \in Clients
        PROVE  /\ client'[c].home = client[c].home /\ client'[c].consumer = client[c].consumer
               /\ client[c].done => client'[c].done
    <3>1. client[c] \in ClientRecords
      BY <1>1
    <3> QED
      BY <2>1, <3>1 DEF ClientRecords
  <2>3. client' \in [Clients -> ClientRecords]
    BY DEF IInv, TypeOK
  <2> QED
    BY <2>2, <2>3 DEF SameClients
<1>4. \A c \in Clients : Ages(c)
  BY <1>3, SameAge DEF SInv
<1>5. LeaversAreDone' /\ SessionsHaveBegun'
  BY <1>2, <1>4, SameCalls, AgeKeeps
<1>6. \A c \in Clients : client[c].home = p \/ c = hub[p].client \/ client'[c] = client[c]
  BY <1>1 DEF CloseStep, CloseBegins, CloseCancels, CloseReleases, CloseDisconnects, CloseRemoves
<1>7. \A q \in Processes : q # p => \/ pairing[q] = NoClient
                                    \/ client'[pairing[q]] = client[pairing[q]]
  BY <1>6 DEF SInv, IInv, TypeOK, HubsKnowTheirOwn
<1>8. Promised
  BY <1>2, <1>4, <1>7, HomeKeepsContract DEF SInv
<1> QED
  BY <1>5, <1>8

\* A process that stops without Close forgets its session, and no other.
LEMMA CrashPromises ==
    ASSUME SInv, IInv', NEW p \in Processes, Crash(p)
    PROVE  LeaversAreDone' /\ SessionsHaveBegun' /\ Promised
<1>1. /\ client \in [Clients -> ClientRecords] /\ thread \in [Threads -> CallRecords]
      /\ pairing \in [Processes -> Clients \union {NoClient}]
  BY DEF SInv, IInv, TypeOK
<1>2. /\ \A c \in Clients : client'[c] = IF client[c].home = p THEN NoRecord ELSE client[c]
      /\ \A t \in Threads : thread'[t] = IF ProcessOf[t] = p THEN Idle ELSE thread[t]
      /\ pairing' = [pairing EXCEPT ![p] = NoClient]
  BY DEF Crash
<1>3. NoRecord.consumer = "none" /\ ~ Idle.session
  BY DEF NoRecord, Idle
<1>4. LeaversAreDone'
  BY <1>2, <1>3 DEF SInv, LeaversAreDone
<1>5. ASSUME NEW t \in Threads, thread'[t].session
      PROVE  thread'[t] = thread[t] /\ client'[thread[t].client] = client[thread[t].client]
  <2>1. ProcessOf[t] # p /\ thread'[t] = thread[t]
    BY <1>2, <1>3, <1>5
  <2>2. thread[t].client \in Clients /\ client[thread[t].client].home # p
    BY <1>1, <1>5, <2>1 DEF SInv, IInv, CallRecords, CallsHaveShape, Shape, CallsKnowTheirOwn
  <2> QED
    BY <1>2, <2>1, <2>2
<1>6. SessionsHaveBegun'
  BY <1>5 DEF SInv, SessionsHaveBegun, Over
<1>7. \A q \in Processes : q # p => Stage(q)' = Stage(q)
  <2> SUFFICES ASSUME NEW q \in Processes, q # p
               PROVE  Stage(q)' = Stage(q)
    OBVIOUS
  <2>1. pairing'[q] = pairing[q] /\ pairing[q] \in Clients \union {NoClient}
    BY <1>1, <1>2
  <2>2. pairing[q] # NoClient => client'[pairing[q]] = client[pairing[q]]
    BY <1>2, <2>1 DEF SInv, IInv, HubsKnowTheirOwn
  <2> QED
    BY <2>1, <2>2, StageSame
<1>8. Stage(p)' = "none"
  BY <1>1, <1>2 DEF Stage
<1>9. Stages' = [Stages EXCEPT ![p] = "none"] /\ "crash" \in Disturbances
  BY <1>7, <1>8 DEF Stages, Crash
<1>10. \A c \in Clients : client'[c].home # p
  BY <1>2, NullAssumption DEF NoRecord
<1> QED
  BY <1>2, <1>4, <1>6, <1>9, <1>10 DEF Promised, Stages, Contract!Forget

\* A call that goes on, changing one client.
LEMMA CallPromises ==
    ASSUME SInv, IInv', NEW t \in Threads, \A u \in Threads : u # t => thread'[u] = thread[u],
           SessionGoesOn(t), NEW c, OnlyClient(c), c \in Clients => Ages(c), UNCHANGED pairing
    PROVE  LeaversAreDone' /\ SessionsHaveBegun' /\ Promised
<1>1. \A d \in Clients : Ages(d)
  BY OthersAge DEF SInv
<1>2. \A u \in Threads : SessionGoesOn(u)
  BY DEF SessionGoesOn
<1> QED
  BY <1>1, <1>2, AgeKeeps, AgeKeepsContract DEF SInv

\* A call that gets a new client: no session and no call has it yet.
LEMMA NewClientPromises ==
    ASSUME SInv, IInv', NEW t \in Threads, ~ thread'[t].session, NEW c \in Clients, Free(c),
           \A u \in Threads : u # t => thread'[u] = thread[u],
           OnlyClient(c), client'[c].consumer = "none", UNCHANGED pairing
    PROVE  LeaversAreDone' /\ SessionsHaveBegun' /\ Promised
<1>1. LeaversAreDone'
  BY DEF SInv, LeaversAreDone, OnlyClient
<1>2. ASSUME NEW u \in Threads, thread'[u].session
      PROVE  /\ thread'[u] = thread[u] /\ thread[u].client \in Clients
             /\ client'[thread[u].client] = client[thread[u].client]
  BY <1>2 DEF SInv, IInv, TypeOK, CallRecords, CallsHaveShape, Shape, Free, OnlyClient
<1>3. SessionsHaveBegun'
  BY <1>2 DEF SInv, SessionsHaveBegun, Over
<1>4. \A p \in Processes : Stage(p)' = Stage(p)
  BY StageSame DEF SInv, IInv, TypeOK, Free, OnlyClient
<1> QED
  BY <1>1, <1>3, <1>4 DEF Promised, Stages

\* A call begins.
LEMMA StartPromises ==
    ASSUME SInv, IInv', NEW t \in Threads, NEW call, Start(t, call)
    PROVE  LeaversAreDone' /\ SessionsHaveBegun' /\ Promised
<1>1. thread \in [Threads -> CallRecords]
  BY DEF SInv, IInv, TypeOK
<1>2. /\ \A u \in Threads : u # t => thread'[u] = thread[u]
      /\ ~ thread'[t].session
      /\ UNCHANGED <<client, pairing>>
  BY <1>1 DEF Start, Idle
<1> QED
  BY <1>2, NullAssumption, CallPromises DEF SessionGoesOn, OnlyClient

\* The calls that do not pair by QR code have no session.
LEMMA NoSession ==
    ASSUME IInv, NEW t \in Threads, PhoneStep(t) \/ RestoreStep(t) \/ LogoutStep(t)
    PROVE  /\ \A u \in Threads : u # t => thread'[u] = thread[u]
           /\ ~ thread'[t].session
           /\ UNCHANGED pairing
<1>1. thread \in [Threads -> CallRecords] /\ thread[t] \in CallRecords
  BY DEF IInv, TypeOK
<1>2. thread[t].call \in {"phone", "restore", "logout"} /\ UNCHANGED pairing
  BY DEF PhoneStep, PhoneExists, PhoneConnect, PhonePair, PhoneRegister,
         RestoreStep, RestoreRegister, RestoreReconcile, RestoreConnect, RestoreWait,
         LogoutStep, LogoutRemove, LogoutCleanup, LogoutRelease, LogoutMark, At
<1>3. ~ thread[t].session /\ ~ Idle.session
  BY <1>2 DEF IInv, CallsHaveShape, Shape, Idle
<1>4. CASE PhoneStep(t)
  BY <1>1, <1>3, <1>4 DEF PhoneStep, PhoneExists, PhoneConnect, PhonePair, PhoneRegister, Goto,
         Return, CallRecords
<1>5. CASE RestoreStep(t)
  BY <1>1, <1>3, <1>5 DEF RestoreStep, RestoreRegister, RestoreReconcile, RestoreConnect,
         RestoreWait, Goto, Return, CallRecords
<1>6. CASE LogoutStep(t)
  <2>1. CASE LogoutRemove(t)
    BY <1>1, <1>3, <2>1 DEF LogoutRemove, Goto, Return, CallRecords
  <2>2. CASE LogoutCleanup(t)
    BY <1>1, <1>3, <2>2 DEF LogoutCleanup, Goto, Return, CallRecords
  <2>3. CASE LogoutRelease(t) \/ LogoutMark(t)
    BY <1>1, <1>3, <2>3 DEF LogoutRelease, LogoutMark, CallRecords
  <2> QED
    BY <1>6, <2>1, <2>2, <2>3 DEF LogoutStep
<1> QED
  BY <1>2, <1>4, <1>5, <1>6

\* They change one client, and never its consumer.
LEMMA OneClientAges ==
    ASSUME IInv, NEW t \in Threads, PhoneStep(t) \/ RestoreStep(t) \/ LogoutStep(t)
    PROVE  \E c : /\ OnlyClient(c)
                  /\ c \in Clients => /\ client'[c].consumer = client[c].consumer
                                      /\ client[c].done => client'[c].done
<1>1. client \in [Clients -> ClientRecords]
  BY DEF IInv, TypeOK
<1>2. CASE PhoneStep(t)
  <2> WITNESS thread[t].client
  <2>1. OnlyClient(thread[t].client)
    BY <1>1, <1>2 DEF PhoneStep, PhoneExists, PhoneConnect, PhonePair, PhoneRegister, OnlyClient
  <2>2. ASSUME NEW c \in Clients, c = thread[t].client
        PROVE  /\ client'[c].consumer = client[c].consumer
               /\ client[c].done => client'[c].done
    BY <1>1, <1>2, <2>2 DEF PhoneStep, PhoneExists, PhoneConnect, PhonePair, PhoneRegister,
                            ClientRecords
  <2> QED
    BY <2>1, <2>2
<1>3. CASE RestoreStep(t)
  <2> WITNESS thread[t].client
  <2>1. OnlyClient(thread[t].client)
    BY <1>1, <1>3 DEF RestoreStep, RestoreRegister, RestoreReconcile, RestoreConnect, RestoreWait,
                      OnlyClient
  <2>2. ASSUME NEW c \in Clients, c = thread[t].client
        PROVE  /\ client'[c].consumer = client[c].consumer
               /\ client[c].done => client'[c].done
    BY <1>1, <1>3, <2>2 DEF RestoreStep, RestoreRegister, RestoreReconcile, RestoreConnect,
                            RestoreWait, ClientRecords
  <2> QED
    BY <2>1, <2>2
<1>4. CASE LogoutRemove(t)
  <2> WITNESS hub[ProcessOf[t]].client
  <2>1. ASSUME NEW d \in Clients
        PROVE  /\ client'[d] = client[d] \/ client'[d] = [client[d] EXCEPT !.done = TRUE]
               /\ d # hub[ProcessOf[t]].client => client'[d] = client[d]
    BY <1>4 DEF LogoutRemove
  <2>2. ASSUME NEW d \in Clients
        PROVE  /\ client'[d].consumer = client[d].consumer
               /\ client[d].done => client'[d].done
    <3>1. client[d] \in ClientRecords
      BY <1>1
    <3> QED
      BY <2>1, <3>1 DEF ClientRecords
  <2> QED
    BY <2>1, <2>2 DEF OnlyClient
<1>5. CASE LogoutStep(t) /\ ~ LogoutRemove(t)
  <2> WITNESS thread[t].client
  <2>1. OnlyClient(thread[t].client)
    BY <1>1, <1>5 DEF LogoutStep, LogoutCleanup, LogoutRelease, LogoutMark, OnlyClient
  <2>2. ASSUME NEW c \in Clients, c = thread[t].client
        PROVE  /\ client'[c].consumer = client[c].consumer
               /\ client[c].done => client'[c].done
    <3>1. CASE LogoutCleanup(t)
      BY <1>1, <2>2, <3>1 DEF LogoutCleanup, ClientRecords
    <3>2. CASE LogoutRelease(t) \/ LogoutMark(t)
      BY <3>2 DEF LogoutRelease, LogoutMark
    <3> QED
      BY <1>5, <3>1, <3>2 DEF LogoutStep
  <2> QED
    BY <2>1, <2>2
<1> QED
  BY <1>2, <1>3, <1>4, <1>5

\* ConnectPhone, restoreOne and Logout.
LEMMA OthersPromise ==
    ASSUME SInv, IInv', NEW t \in Threads, PhoneStep(t) \/ RestoreStep(t) \/ LogoutStep(t)
    PROVE  LeaversAreDone' /\ SessionsHaveBegun' /\ Promised
<1>1. PICK c : /\ OnlyClient(c)
               /\ c \in Clients => /\ client'[c].consumer = client[c].consumer
                                   /\ client[c].done => client'[c].done
  BY OneClientAges DEF SInv
<1>2. c \in Clients => Ages(c)
  BY <1>1 DEF SInv, LeaversAreDone, Ages
<1>3. /\ \A u \in Threads : u # t => thread'[u] = thread[u]
      /\ SessionGoesOn(t) /\ UNCHANGED pairing
  BY NoSession DEF SInv, SessionGoesOn
<1> QED
  BY <1>1, <1>2, <1>3, CallPromises

\* A call removes its session when the pairing is over, or somebody did it before.
LEMMA UnwindingPromises ==
    ASSUME SInv, IInv', NEW t \in Threads, UnwindSession(t)
    PROVE  LeaversAreDone' /\ SessionsHaveBegun' /\ Promised
<1> DEFINE p == ProcessOf[t]
           c == thread[t].client
<1>1. /\ thread \in [Threads -> CallRecords] /\ client \in [Clients -> ClientRecords]
      /\ pairing \in [Processes -> Clients \union {NoClient}] /\ p \in Processes
  BY ThreadAssumption DEF SInv, IInv, TypeOK
<1>2. /\ ~ thread'[t].session /\ UNCHANGED client
      /\ \A u \in Threads : u # t => thread'[u] = thread[u]
  BY <1>1 DEF UnwindSession, CallRecords
<1>3. \A d \in Clients : Ages(d)
  BY <1>2 DEF SInv, LeaversAreDone, Ages
<1>4. LeaversAreDone' /\ SessionsHaveBegun'
  BY <1>2, <1>3, AgeKeeps DEF SessionGoesOn
<1>5. thread[t].session /\ c \in Clients /\ Over(c)
  BY <1>1 DEF UnwindSession, SInv, IInv, CallsHaveShape, Shape, CallRecords, SessionsHaveBegun
<1>6. pairing' = [pairing EXCEPT ![p] = IF pairing[p] = c THEN NoClient ELSE pairing[p]]
  BY DEF UnwindSession, RemoveSession, WithoutSession
<1> HIDE DEF p, c
<1>7. \A q \in Processes : pairing'[q] = pairing[q] => Stage(q)' = Stage(q)
  BY <1>2, StageSame
<1>8. CASE pairing[p] # c
  <2>1. UNCHANGED pairing
    BY <1>1, <1>6, <1>8
  <2> QED
    BY <1>4, <1>7, <2>1 DEF Promised, Stages
<1>9. CASE pairing[p] = c
  <2>1. pairing' = [pairing EXCEPT ![p] = NoClient] /\ c # NoClient
    BY <1>5, <1>6, <1>9, NullAssumption
  <2>2. Stage(p) = "over" /\ Stage(p)' = "none"
    BY <1>1, <1>5, <1>9, <2>1 DEF Stage, Over, Pairs
  <2>3. \A q \in Processes : q # p => Stage(q)' = Stage(q)
    BY <1>1, <1>7, <2>1
  <2>4. Stages' = [Stages EXCEPT ![p] = "none"] /\ Stages[p] = "over"
    BY <1>1, <2>2, <2>3 DEF Stages
  <2> QED
    BY <1>1, <1>4, <2>1, <2>4 DEF Promised, Stages, Contract!End
<1> QED
  BY <1>8, <1>9

\* The steps that several calls share.
LEMMA SharedPromise ==
    ASSUME SInv, IInv', NEW t \in Threads, SharedStep(t)
    PROVE  LeaversAreDone' /\ SessionsHaveBegun' /\ Promised
<1>1. /\ thread \in [Threads -> CallRecords] /\ client \in [Clients -> ClientRecords]
      /\ Shape(thread[t]) /\ ~ Idle.session
  BY DEF SInv, IInv, TypeOK, CallsHaveShape, Idle
<1>2. ASSUME TryAcquire(t) \/ Reserve(t) \/ NewClientFails(t) \/ UnwindReservation(t) \/ UnwindLock(t)
      PROVE  LeaversAreDone' /\ SessionsHaveBegun' /\ Promised
  <2>1. UNCHANGED <<client, pairing>> /\ ~ thread[t].session
    BY <1>1, <1>2 DEF TryAcquire, Reserve, NewClientFails, UnwindReservation, UnwindLock, Shape
  <2>2. \A u \in Threads : u # t => thread'[u] = thread[u]
    BY <1>1, <1>2 DEF TryAcquire, Reserve, NewClientFails, UnwindReservation, UnwindLock, Return, Goto
  <2>3. ~ thread'[t].session
    <3>1. CASE TryAcquire(t)
      BY <1>1, <2>1, <3>1 DEF TryAcquire, CallRecords
    <3>2. CASE Reserve(t)
      BY <1>1, <2>1, <3>2 DEF Reserve, Return, Goto, CallRecords
    <3>3. CASE NewClientFails(t) \/ UnwindReservation(t) \/ UnwindLock(t)
      BY <1>1, <2>1, <3>3 DEF NewClientFails, UnwindReservation, UnwindLock, Return, Goto, CallRecords
    <3> QED
      BY <1>2, <3>1, <3>2, <3>3
  <2> QED
    BY <2>1, <2>2, <2>3, NullAssumption, CallPromises DEF SessionGoesOn, OnlyClient
<1>3. ASSUME NewClient(t)
      PROVE  LeaversAreDone' /\ SessionsHaveBegun' /\ Promised
  <2>1. /\ ~ thread[t].session /\ thread[t].device \in BOOLEAN /\ ProcessOf[t] \in Processes
        /\ thread[t].call \in Kinds /\ UNCHANGED pairing
    BY <1>1, <1>3, ThreadAssumption, ClientNames DEF NewClient, Shape, CallRecords
  <2> DEFINE r == NewRecord(ProcessOf[t], thread[t].call, thread[t].device)
  <2>2. r.consumer = "none"
    BY <2>1, NewRecordTyped
  <2>3. PICK c \in Clients :
          /\ Free(c)
          /\ client' = [client EXCEPT ![c] = r]
          /\ thread' = [thread EXCEPT ![t].client = c, ![t].step = AfterClient(thread[t].call)]
    BY <1>3 DEF NewClient
  <2> HIDE DEF r
  <2>4. ~ thread'[t].session /\ \A u \in Threads : u # t => thread'[u] = thread[u]
    BY <1>1, <2>1, <2>3, WentClient DEF Becomes, SInv, IInv
  <2>5. OnlyClient(c) /\ client'[c].consumer = "none"
    BY <1>1, <2>2, <2>3 DEF OnlyClient
  <2> QED
    BY <2>1, <2>3, <2>4, <2>5, NewClientPromises
<1> QED
  BY <1>2, <1>3, UnwindingPromises DEF SharedStep

\* A session begins: it is added, or over at once when the process shuts down.
LEMMA SessionPromises ==
    ASSUME SInv, IInv', NEW t \in Threads, QRSession(t)
    PROVE  LeaversAreDone' /\ SessionsHaveBegun' /\ Promised
<1> DEFINE p == ProcessOf[t]
           c == thread[t].client
<1>1. /\ thread \in [Threads -> CallRecords] /\ client \in [Clients -> ClientRecords]
      /\ pairing \in [Processes -> Clients \union {NoClient}] /\ p \in Processes
  BY ThreadAssumption DEF SInv, IInv, TypeOK
<1>2. ~ thread[t].session /\ UNCHANGED client
  BY DEF QRSession, At, SInv, IInv, CallsHaveShape, Shape
<1>3. CASE Goto(t, "unwind") /\ UNCHANGED pairing
  <2>1. ~ thread'[t].session /\ \A u \in Threads : u # t => thread'[u] = thread[u]
    BY <1>1, <1>2, <1>3, Went DEF Becomes, SInv, IInv
  <2> QED
    BY <1>2, <1>3, <2>1, NullAssumption, CallPromises DEF SessionGoesOn, OnlyClient
<1>4. ASSUME pairing[p] = NoClient, pairing' = [pairing EXCEPT ![p] = c],
             thread' = [thread EXCEPT ![t].session = TRUE, ![t].step = "register"]
      PROVE  LeaversAreDone' /\ SessionsHaveBegun' /\ Promised
  <2>1. Unshared(t, c) /\ \A q \in Processes : pairing[q] # c
    BY DEF QRSession, At, Fresh, SInv, IInv, FreshIsUnshared
  <2>2. c \in Clients /\ c # NoClient /\ client[c].consumer = "none"
    BY <2>1, NullAssumption DEF Unshared
  <2> HIDE DEF p, c
  <2>3. thread'[t].step = "register" /\ \A u \in Threads : u # t => thread'[u] = thread[u]
    BY <1>1, <1>4, WentSession DEF Becomes, SInv, IInv
  <2>4. LeaversAreDone' /\ SessionsHaveBegun'
    BY <1>2, <2>3 DEF SInv, LeaversAreDone, SessionsHaveBegun, Over
  <2>5. \A q \in Processes : q # p => Stage(q)' = Stage(q)
    BY <1>1, <1>2, <1>4, StageSame
  <2>6. Stage(p)' \in {"added", "over"}
    BY <1>1, <1>2, <1>4, <2>2 DEF Stage, Over, Pairs
  <2>7. \E first \in {"added", "over"} : Stages' = [Stages EXCEPT ![p] = first]
    BY <1>1, <2>5, <2>6 DEF Stages
  <2>8. Contract!Begin(p, c)
    BY <1>4, <2>1, <2>7 DEF Contract!Begin, Stages
  <2> QED
    BY <1>1, <2>2, <2>4, <2>8 DEF Promised
<1> QED
  BY <1>3, <1>4 DEF QRSession, Return

\* The pairing begins under its session, unless that is over by now.
LEMMA RegisterPromises ==
    ASSUME SInv, IInv', NEW t \in Threads, QRRegister(t)
    PROVE  LeaversAreDone' /\ SessionsHaveBegun' /\ Promised
<1> DEFINE p == ProcessOf[t]
           c == thread[t].client
<1>1. /\ thread \in [Threads -> CallRecords] /\ client \in [Clients -> ClientRecords]
      /\ pairing \in [Processes -> Clients \union {NoClient}] /\ p \in Processes
      /\ UNCHANGED pairing
  BY ThreadAssumption DEF SInv, IInv, TypeOK, QRRegister
<1>2. thread[t].session /\ pairing[p] = c /\ Unshared(t, c)
  BY DEF QRRegister, At, Fresh, SInv, IInv, CallsHaveShape, Shape, FreshIsUnshared
<1>3. c \in Clients /\ c # NoClient /\ client[c].consumer = "none"
  BY <1>2, NullAssumption DEF Unshared
<1>4. ASSUME client' = [client EXCEPT ![c].done = TRUE], Goto(t, "unwind")
      PROVE  LeaversAreDone' /\ SessionsHaveBegun' /\ Promised
  <2>1. Becomes(t, "unwind", c, thread[t].session, thread[t].reserved)
    BY <1>4, Went DEF SInv, IInv
  <2>2. OnlyClient(c) /\ client'[c].done /\ client'[c].consumer = client[c].consumer
    BY <1>1, <1>3, <1>4 DEF OnlyClient, ClientRecords
  <2>3. Ages(c) /\ Over(c)'
    <3>1. thread'[t].client = c
      BY <2>1 DEF Becomes
    <3> QED
      BY <2>2, <3>1 DEF Ages, Over
  <2>4. SessionGoesOn(t) /\ \A u \in Threads : u # t => thread'[u] = thread[u]
    BY <1>2, <2>1, <2>2 DEF Becomes, SessionGoesOn, Over
  <2> QED
    BY <1>1, <2>2, <2>3, <2>4, CallPromises
<1>5. ASSUME client' = [client EXCEPT ![c].consumer = "run"],
             thread' = [thread EXCEPT ![t].reserved = FALSE, ![t].locked = FALSE,
                                      ![t].step = "connect"]
      PROVE  LeaversAreDone' /\ SessionsHaveBegun' /\ Promised
  <2>1. Becomes(t, "connect", c, thread[t].session, FALSE)
    BY <1>5, HandedOver DEF SInv, IInv
  <2>2. OnlyClient(c) /\ client'[c].done = client[c].done /\ client'[c].consumer = "run"
    BY <1>1, <1>3, <1>5 DEF OnlyClient, ClientRecords
  <2>3. client[c].done \in BOOLEAN
    BY <1>1, <1>3 DEF ClientRecords
  <2>4. \A q \in Processes : q # p => pairing[q] # c
    BY <1>1, <1>2, <1>3 DEF SInv, IInv, HubsKnowTheirOwn
  <2> HIDE DEF p, c
  <2>5. LeaversAreDone'
    BY <2>2 DEF SInv, LeaversAreDone, OnlyClient
  <2>6. ASSUME NEW u \in Threads, u # t, thread[u].session
        PROVE  client'[thread[u].client] = client[thread[u].client]
    BY <1>1, <1>2, <2>2, <2>6 DEF Unshared, OnlyClient, SInv, IInv, CallsHaveShape, Shape,
                                  CallRecords
  <2>7. SessionsHaveBegun'
    <3> SUFFICES ASSUME NEW u \in Threads, thread'[u].session
                 PROVE  /\ thread'[u].step \in {"connect", "wait"}
                             => \/ client'[thread'[u].client].done
                                \/ client'[thread'[u].client].consumer # "none"
                        /\ thread'[u].step = "unwind" => Over(thread[u].client)'
      BY DEF SessionsHaveBegun
    <3>1. CASE u = t
      BY <2>1, <2>2, <3>1 DEF Becomes
    <3>2. CASE u # t
      <4>1. thread'[u] = thread[u] /\ client'[thread[u].client] = client[thread[u].client]
        BY <2>1, <2>6, <3>2 DEF Becomes
      <4> QED
        BY <4>1 DEF SInv, SessionsHaveBegun, Over
    <3> QED
      BY <3>1, <3>2
  <2>8. \A q \in Processes : q # p => Stage(q)' = Stage(q)
    BY <1>1, <2>2, <2>4, StageSame DEF OnlyClient
  <2>9. \/ Stage(p)' = Stage(p)
        \/ Stage(p) = "added" /\ Stage(p)' = "pairs"
    BY <1>1, <1>2, <1>3, <2>2, <2>3 DEF Stage, Over, Pairs
  <2>10. CASE Stage(p)' = Stage(p)
    BY <1>1, <2>5, <2>7, <2>8, <2>10 DEF Promised, Stages
  <2>11. CASE Stage(p) = "added" /\ Stage(p)' = "pairs"
    <3>1. Stages' = [Stages EXCEPT ![p] = "pairs"] /\ Stages[p] = "added"
      BY <1>1, <2>8, <2>11 DEF Stages
    <3> QED
      BY <1>1, <2>5, <2>7, <3>1 DEF Promised, Stages, Contract!Pair
  <2> QED
    BY <2>9, <2>10, <2>11
<1> QED
  BY <1>4, <1>5 DEF QRRegister, Return

\* A call that connects its client or waits for its code leaves early only
\* when the pairing is over.
LEMMA WaitingPromises ==
    ASSUME SInv, IInv', NEW t \in Threads, QRConnect(t) \/ QRWait(t)
    PROVE  LeaversAreDone' /\ SessionsHaveBegun' /\ Promised
<1> DEFINE c == thread[t].client
<1>1. /\ TypeOK /\ client \in [Clients -> ClientRecords] /\ UNCHANGED pairing
      /\ thread[t].session /\ thread[t].step \in {"connect", "wait"}
      /\ ~ Idle.session
  BY DEF SInv, IInv, CallsHaveShape, Shape, TypeOK, QRConnect, QRWait, At, Idle
<1>2. c \in Clients /\ (client[c].done \/ client[c].consumer # "none")
  BY <1>1 DEF SInv, IInv, TypeOK, CallRecords, CallsHaveShape, Shape, SessionsHaveBegun
<1>3. OnlyClient(c) /\ Ages(c)
  BY <1>1, <1>2 DEF QRConnect, QRWait, OnlyClient, Ages, ClientRecords, SInv, LeaversAreDone
<1>4. (\A u \in Threads : u # t => thread'[u] = thread[u]) /\ SessionGoesOn(t)
  <2>1. CASE thread' = [thread EXCEPT ![t] = Idle]
    BY <1>1, <2>1 DEF TypeOK, SessionGoesOn
  <2>2. CASE Goto(t, "wait")
    BY <1>1, <2>2, Went DEF Becomes, SessionGoesOn
  <2>3. CASE Goto(t, "unwind")
            /\ \/ client' = [client EXCEPT ![c].done = TRUE]
               \/ UNCHANGED client /\ client[c].consumer \notin {"run", "won"}
    <3>1. Becomes(t, "unwind", c, thread[t].session, thread[t].reserved)
      BY <1>1, <2>3, Went
    <3>2. client'[c].done \/ client'[c].consumer \notin {"none", "run"}
      BY <1>1, <1>2, <2>3 DEF ClientRecords
    <3> QED
      BY <1>1, <3>1, <3>2 DEF Becomes, SessionGoesOn, Over
  <2> QED
    BY <2>1, <2>2, <2>3 DEF QRConnect, QRWait, Return
<1> QED
  BY <1>1, <1>3, <1>4, CallPromises

\* All the steps of ConnectQRCode.
LEMMA QRsPromise ==
    ASSUME SInv, IInv', NEW t \in Threads, QRStep(t)
    PROVE  LeaversAreDone' /\ SessionsHaveBegun' /\ Promised
<1>1. /\ TypeOK /\ thread \in [Threads -> CallRecords] /\ client \in [Clients -> ClientRecords]
      /\ Shape(thread[t]) /\ ~ Idle.session /\ ProcessOf[t] \in Processes
  BY ThreadAssumption DEF SInv, IInv, TypeOK, CallsHaveShape, Idle
<1>2. ASSUME QRRegisterExisting(t) \/ QRReconnect(t) \/ QRPairing(t)
      PROVE  LeaversAreDone' /\ SessionsHaveBegun' /\ Promised
  <2>1. ~ thread[t].session /\ UNCHANGED pairing
    BY <1>1, <1>2 DEF QRRegisterExisting, QRReconnect, QRPairing, At, Shape
  <2>2. OnlyClient(thread[t].client)
    BY <1>1, <1>2 DEF QRRegisterExisting, QRReconnect, QRPairing, OnlyClient
  <2>3. ASSUME NEW c \in Clients, c = thread[t].client
        PROVE  client'[c].done = client[c].done /\ client'[c].consumer = client[c].consumer
    BY <1>1, <1>2, <2>3 DEF QRRegisterExisting, QRReconnect, QRPairing, ClientRecords
  <2>4. thread[t].client \in Clients => Ages(thread[t].client)
    BY <2>3 DEF SInv, LeaversAreDone, Ages
  <2>5. \/ \E step \in {"unwind", "reconnect", "reserve"} : Goto(t, step)
        \/ thread' = [thread EXCEPT ![t] = Idle]
    BY <1>2 DEF QRRegisterExisting, QRReconnect, QRPairing, Return
  <2>6. ~ thread'[t].session /\ \A u \in Threads : u # t => thread'[u] = thread[u]
    BY <1>1, <2>1, <2>5, Went DEF Becomes
  <2> QED
    BY <2>1, <2>2, <2>4, <2>6, CallPromises DEF SessionGoesOn
<1>3. ASSUME QRExisting(t)
      PROVE  LeaversAreDone' /\ SessionsHaveBegun' /\ Promised
  <2>1. ~ thread[t].session /\ UNCHANGED pairing
    BY <1>1, <1>3 DEF QRExisting, At, Shape
  <2>2. CASE /\ UNCHANGED client
             /\ \/ \E step \in {"unwind", "pairing"} : Goto(t, step)
                \/ thread' = [thread EXCEPT ![t].client = hub[ProcessOf[t]].client,
                                            ![t].step = "reconnect"]
    <3>1. ~ thread'[t].session /\ \A u \in Threads : u # t => thread'[u] = thread[u]
      BY <1>1, <2>1, <2>2, Went, WentClient DEF Becomes
    <3> QED
      BY <2>1, <2>2, <3>1, NullAssumption, CallPromises DEF SessionGoesOn, OnlyClient
  <2>3. ASSUME NEW c \in Clients, Free(c),
               client' = [client EXCEPT ![c] = NewRecord(ProcessOf[t], "existing", TRUE)],
               thread' = [thread EXCEPT ![t].client = c, ![t].step = "registerExisting"]
        PROVE  LeaversAreDone' /\ SessionsHaveBegun' /\ Promised
    <3>1. ~ thread'[t].session /\ \A u \in Threads : u # t => thread'[u] = thread[u]
      BY <1>1, <2>1, <2>3, WentClient DEF Becomes
    <3>2. NewRecord(ProcessOf[t], "existing", TRUE).consumer = "none"
      BY <1>1, NewRecordTyped, ClientNames
    <3>3. OnlyClient(c) /\ client'[c].consumer = "none"
      BY <1>1, <2>3, <3>2 DEF OnlyClient
    <3> QED
      BY <2>1, <2>3, <3>1, <3>3, NewClientPromises
  <2> QED
    BY <1>3, <2>2, <2>3 DEF QRExisting, Return
<1> QED
  BY <1>2, <1>3, SessionPromises, RegisterPromises, WaitingPromises DEF QRStep

\* Every step does what the contract allows.
LEMMA NextPromises ==
    ASSUME SInv, IInv', [Next]_vars
    PROVE  LeaversAreDone' /\ SessionsHaveBegun' /\ Promised
<1>1. CASE UNCHANGED vars
  BY <1>1 DEF vars, SInv, LeaversAreDone, SessionsHaveBegun, Promised, Stages, Stage, Over, Pairs
<1>2. ASSUME NEW t \in Threads, NEW call \in Calls \ {"close"}, Start(t, call)
      PROVE  LeaversAreDone' /\ SessionsHaveBegun' /\ Promised
  BY <1>2, StartPromises
<1>3. ASSUME NEW t \in Threads, CallStep(t)
      PROVE  LeaversAreDone' /\ SessionsHaveBegun' /\ Promised
  BY <1>3, SharedPromise, QRsPromise, OthersPromise DEF CallStep
<1>4. ASSUME NEW c \in Clients, ConsumerStep(c) \/ HandlerStep(c) \/ Network(c)
      PROVE  LeaversAreDone' /\ SessionsHaveBegun' /\ Promised
  BY <1>4, ConsumersPromise, HandlersPromise
<1>5. ASSUME NEW p \in Processes, CloseStep(p) \/ Crash(p)
      PROVE  LeaversAreDone' /\ SessionsHaveBegun' /\ Promised
  BY <1>5, ClosePromises, CrashPromises
<1>6. ASSUME LeaseLapses
      PROVE  LeaversAreDone' /\ SessionsHaveBegun' /\ Promised
  BY <1>6, NullAssumption, ClientAges DEF LeaseLapses, OnlyClient
<1> QED
  BY <1>1, <1>2, <1>3, <1>4, <1>5, <1>6 DEF Next

\* What the contract allows loses no pairing in progress but with its clients.
LEMMA NothingLost ==
    ASSUME TypeOK, Promised, NEW p \in Processes
    PROVE  LostWithClients(p)
<1> SUFFICES ASSUME pairing[p] # NoClient, ~ Over(pairing[p]), pairing'[p] = NoClient
             PROVE  \A c \in Clients : client'[c].home # p
  BY DEF LostWithClients
<1>1. Stages[p] # "over" /\ pairing \in [Processes -> Clients \union {NoClient}]
  BY DEF Stages, Stage, Over, Pairs, TypeOK
<1>2. ASSUME NEW q \in Processes, NEW c \in Clients, Contract!Begin(q, c)
      PROVE  FALSE
  BY <1>1, <1>2, NullAssumption DEF Contract!Begin
<1>3. ASSUME NEW q \in Processes, Contract!Pair(q) \/ Contract!Stop(q)
      PROVE  FALSE
  BY <1>3 DEF Contract!Pair, Contract!Stop
<1>4. ASSUME NEW q \in Processes, Contract!End(q)
      PROVE  FALSE
  BY <1>1, <1>4 DEF Contract!End, Stages
<1>5. ASSUME NEW q \in Processes, Contract!Forget(q)
      PROVE  q = p
  BY <1>1, <1>5 DEF Contract!Forget
<1> QED
  BY <1>2, <1>3, <1>4, <1>5 DEF Promised

\* The pairing manager keeps its contract: whatever calls, logouts, bans, Close
\* and crashes do in between, a pairing session is added, pairs at most once,
\* is over before it is removed, and is removed by its own process.
THEOREM KeepsContract == Spec => KeepsPairingContract
<1>1. Promised => [Contract!Next]_(Contract!vars)
  BY DEF Promised, Contract!Next, Contract!vars, Stages
<1>2. Init => SInv /\ Contract!Init
  BY InitInvariant, PairingInitially DEF SInv
<1>3. SInv /\ [Next]_vars => SInv' /\ Promised
  BY NextKeeps, NextPromises DEF SInv
<1>4. SInv /\ Promised =>
        [\A p \in Processes :
           pairing[p] # NoClient /\ ~ Over(pairing[p]) /\ pairing'[p] = NoClient
             => \A c \in Clients : client'[c].home # p]_vars
  BY NothingLost DEF SInv, IInv, LostWithClients
<1> QED
  BY <1>1, <1>2, <1>3, <1>4, PTL DEF Spec, KeepsPairingContract, Contract!Spec

(***************************************************************************)
(* What the contract gives the next pairing.                               *)
(***************************************************************************)

\* No two processes pair with one client.
SessionsAreApart ==
    \A p, q \in Processes : p # q /\ pairing[p] # NoClient => pairing[q] # pairing[p]

\* A session is replaced only by way of none, and a pairing that is over, or
\* under way, is never begun again under the same session.
SessionMoves(p) ==
    /\ pairing[p] # NoClient => pairing'[p] \in {pairing[p], NoClient}
    /\ Stages[p] = "pairs" => Stages'[p] # "added"
    /\ Stages[p] = "over" => Stages'[p] \in {"over", "none"}

\* However late the clean-up of an earlier pairing comes, it does not put its
\* client in the place of the next one's, and it does not start a pairing over
\* (pairingManager.add and remove, which know instances and not clients).
SuccessorsAreSafe == [][\A p \in Processes : SessionMoves(p)]_vars

\* What the contract allows keeps sessions apart and moves them like that.
LEMMA PromisedSessions ==
    ASSUME TypeOK, Promised, SessionsAreApart
    PROVE  SessionsAreApart' /\ \A p \in Processes : SessionMoves(p)
<1>0. /\ pairing \in [Processes -> Clients \union {NoClient}]
      /\ Stages = [p \in Processes |-> Stages[p]]
      /\ \A p \in Processes : pairing[p] = NoClient <=> Stages[p] = "none"
  BY DEF TypeOK, Stages, Stage, Over, Pairs
<1>1. CASE UNCHANGED <<pairing, Stages>>
  BY <1>1 DEF SessionsAreApart, SessionMoves
<1>2. ASSUME NEW q \in Processes, NEW c \in Clients, Contract!Begin(q, c)
      PROVE  SessionsAreApart' /\ \A p \in Processes : SessionMoves(p)
  BY <1>0, <1>2 DEF Contract!Begin, Stages, SessionsAreApart, SessionMoves
<1>3. ASSUME NEW q \in Processes, Contract!Pair(q) \/ Contract!Stop(q)
      PROVE  SessionsAreApart' /\ \A p \in Processes : SessionMoves(p)
  BY <1>0, <1>3 DEF Contract!Pair, Contract!Stop, Stages, SessionsAreApart, SessionMoves
<1>4. ASSUME NEW q \in Processes, Contract!End(q) \/ Contract!Forget(q)
      PROVE  SessionsAreApart' /\ \A p \in Processes : SessionMoves(p)
  BY <1>0, <1>4 DEF Contract!End, Contract!Forget, Stages, SessionsAreApart, SessionMoves
<1> QED BY <1>1, <1>2, <1>3, <1>4 DEF Promised

\* The pairings of an instance follow one another, in each process and apart
\* from every other process's (ConnectQRCode, consumeQRCodeChannel's exit).
THEOREM PairingsSucceed == Spec => []SessionsAreApart /\ SuccessorsAreSafe
<1>1. Init => SInv /\ SessionsAreApart
  BY InitInvariant, PairingInitially DEF SInv, Init, SessionsAreApart
<1>2. SInv /\ [Next]_vars => SInv' /\ Promised
  BY NextKeeps, NextPromises DEF SInv
<1>3. SInv /\ Promised /\ SessionsAreApart =>
        SessionsAreApart' /\ [\A p \in Processes : SessionMoves(p)]_vars
  BY PromisedSessions DEF SInv, IInv
<1> QED BY <1>1, <1>2, <1>3, PTL DEF Spec, SuccessorsAreSafe

=============================================================================
