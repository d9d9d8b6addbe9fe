------------------------ MODULE ContactSync_proofs -------------------------
(***************************************************************************)
(* Type correctness of ContactSync, that every synchronisation can be      *)
(* stopped and none outlives its client, and that a name once told stays,  *)
(* for any clients, synchronisations, goroutines and names.                *)
(***************************************************************************)
EXTENDS ContactSync, TLAPS

\* Only a goroutine that is about to cancel a handle holds one, and one that
\* starts a synchronisation or writes a contact has its client.
HandlersAreSound ==
    /\ \A g \in Handlers :
         /\ handler[g].step \notin {"cancel", "cancelEnd"} => handler[g].held = Nobody
         /\ handler[g].step \in {"start", "write", "tell"} => handler[g].of \in Clients
    /\ stage.at # "cancel" => stage.held = Nobody

SyncsHaveClients ==
    \A s \in Syncs : sync[s].step # "unused" => sync[s].of \in Clients

IInv ==
    /\ TypeOK /\ HandlersAreSound /\ SyncsHaveClients
    /\ EverySyncCanBeStopped /\ NoSyncOutlivesItsClient /\ ToldIsKnown

\* The initial states are typed, and nothing runs, is held or told.
LEMMA InitInvariant == Init => IInv
<1> SUFFICES ASSUME Init PROVE IInv
  OBVIOUS
<1>1. client \in [Clients -> ClientRecords] /\ row \in [there : BOOLEAN, name : Known]
  BY DEF Init, ClientRecords, NoContact, Known
<1>2. sync \in [Syncs -> SyncRecords] /\ handler \in [Handlers -> HandlerRecords]
  BY DEF Init, SyncRecords, HandlerRecords, Unused, Idle
<1>3. stage \in [at : Stages, held : Syncs \union {Nobody}] /\ events \in 0..MaxEvents
  BY BoundAssumption DEF Init, Stages
<1>4. TypeOK
  BY <1>1, <1>2, <1>3 DEF Init, TypeOK
<1>5. HandlersAreSound /\ SyncsHaveClients
  BY DEF Init, HandlersAreSound, SyncsHaveClients, Idle, Unused
<1>6. EverySyncCanBeStopped /\ NoSyncOutlivesItsClient /\ ToldIsKnown
  BY DEF Init, EverySyncCanBeStopped, NoSyncOutlivesItsClient, ToldIsKnown, Runs, Unused
<1> QED
  BY <1>4, <1>5, <1>6 DEF IInv

-----------------------------------------------------------------------------
(* What the helpers leave of the functions they change.                    *)

\* Cancelling a synchronisation changes nothing else of its record.
LEMMA OverSet ==
    ASSUME NEW r \in SyncRecords, NEW over \in BOOLEAN
    PROVE  /\ [r EXCEPT !.over = over] \in SyncRecords
           /\ [r EXCEPT !.over = over].step = r.step
           /\ [r EXCEPT !.over = over].of = r.of
           /\ [r EXCEPT !.over = over].over = over
BY DEF SyncRecords

\* Cancelling a client ends its context and those of its synchronisations.
LEMMA CancelClientTyped ==
    ASSUME TypeOK, NEW m \in Clients, NEW ready \in BOOLEAN, CancelClient(m, ready)
    PROVE  /\ client' \in [Clients -> ClientRecords] /\ sync' \in [Syncs -> SyncRecords]
           /\ \A n \in Clients : client'[n].ended <=> (client[n].ended \/ n = m)
           /\ \A s \in Syncs : /\ sync'[s].step = sync[s].step /\ sync'[s].of = sync[s].of
                               /\ sync'[s].over <=> (sync[s].over \/ sync[s].of = m)
<1>1. client' \in [Clients -> ClientRecords]
  BY DEF TypeOK, CancelClient, ClientRecords
<1>2. ASSUME NEW s \in Syncs
      PROVE  /\ sync'[s] \in SyncRecords
             /\ sync'[s].step = sync[s].step /\ sync'[s].of = sync[s].of
             /\ sync'[s].over <=> (sync[s].over \/ sync[s].of = m)
  <2>1. sync[s] \in SyncRecords /\ sync[s].over \in BOOLEAN
    BY DEF TypeOK, SyncRecords
  <2>2. sync'[s] = [sync[s] EXCEPT !.over = sync[s].over \/ sync[s].of = m]
    BY DEF CancelClient
  <2>3. (sync[s].over \/ sync[s].of = m) \in BOOLEAN
    BY <2>1
  <2> QED
    BY <2>1, <2>2, <2>3, OverSet
<1>3. \A n \in Clients : client'[n].ended <=> (client[n].ended \/ n = m)
  BY DEF TypeOK, CancelClient, ClientRecords
<1>4. sync' \in [Syncs -> SyncRecords]
  BY <1>2 DEF CancelClient
<1> QED
  BY <1>1, <1>2, <1>3, <1>4

\* Cancelling a handle ends its context only.
LEMMA CancelledTyped ==
    ASSUME TypeOK, NEW h \in Syncs \union {Nobody}
    PROVE  /\ Cancelled(h) \in [Syncs -> SyncRecords]
           /\ \A s \in Syncs : /\ Cancelled(h)[s].step = sync[s].step
                               /\ Cancelled(h)[s].of = sync[s].of
                               /\ Cancelled(h)[s].over <=> (sync[s].over \/ s = h)
<1>1. ASSUME NEW s \in Syncs
      PROVE  /\ Cancelled(h)[s] \in SyncRecords
             /\ Cancelled(h)[s].step = sync[s].step /\ Cancelled(h)[s].of = sync[s].of
             /\ Cancelled(h)[s].over <=> (sync[s].over \/ s = h)
  <2>1. sync[s] \in SyncRecords /\ sync[s].over \in BOOLEAN
    BY DEF TypeOK, SyncRecords
  <2>2. Cancelled(h)[s] = [sync[s] EXCEPT !.over = sync[s].over \/ s = h]
    BY DEF Cancelled
  <2>3. (sync[s].over \/ s = h) \in BOOLEAN
    BY <2>1
  <2> QED
    BY <2>1, <2>2, <2>3, OverSet
<1>2. Cancelled(h) \in [Syncs -> SyncRecords]
  BY <1>1 DEF Cancelled
<1> QED
  BY <1>1, <1>2

\* A synchronisation that moves on keeps its client and its context.
LEMMA SyncMoved ==
    ASSUME TypeOK, NEW s \in Syncs, NEW step \in {"wait", "write", "clear"}, SyncGoto(s, step)
    PROVE  /\ sync' \in [Syncs -> SyncRecords]
           /\ \A x \in Syncs : /\ sync'[x].of = sync[x].of /\ sync'[x].over = sync[x].over
                               /\ x # s => sync'[x].step = sync[x].step
           /\ sync'[s].step = step
BY DEF TypeOK, SyncGoto, SyncRecords

\* A goroutine that finishes holds nothing; the others go on as they were.
LEMMA Finished ==
    ASSUME TypeOK, NEW g \in Handlers, Finish(g)
    PROVE  /\ handler' \in [Handlers -> HandlerRecords]
           /\ handler'[g] = Idle
           /\ \A h \in Handlers : h # g => handler'[h] = handler[h]
BY DEF TypeOK, Finish, Idle, HandlerRecords

\* A goroutine that goes to another step keeps its client and its handle.
LEMMA WentOn ==
    ASSUME TypeOK, NEW g \in Handlers,
           NEW step \in {"idle", "take", "takeEnd", "delete", "tell"}, Goto(g, step)
    PROVE  /\ handler' \in [Handlers -> HandlerRecords]
           /\ handler'[g].step = step
           /\ handler'[g].of = handler[g].of /\ handler'[g].held = handler[g].held
           /\ \A h \in Handlers : h # g => handler'[h] = handler[h]
BY DEF TypeOK, Goto, HandlerRecords

\* A goroutine that takes up work for a client has that client, and no handle.
LEMMA TookUp ==
    ASSUME TypeOK, NEW g \in Handlers, NEW m \in Clients,
           NEW step \in {"start", "write"}, Needs(g, step, m)
    PROVE  /\ handler' \in [Handlers -> HandlerRecords]
           /\ handler'[g].of = m /\ handler'[g].held = Nobody
           /\ handler'[g].step = step
           /\ \A h \in Handlers : h # g => handler'[h] = handler[h]
BY DEF TypeOK, Needs, HandlerRecords

\* An event that arrives is counted.
LEMMA Counted ==
    ASSUME TypeOK, NEW g \in Handlers, Begins(g)
    PROVE  events' \in 0..MaxEvents
BY BoundAssumption DEF TypeOK, Begins

\* A write that is not empty names the contact, an empty one leaves its name.
LEMMA UpsertedNames ==
    ASSUME TypeOK, NEW name \in Known
    PROVE  /\ Upserted(name) \in [there : BOOLEAN, name : Known]
           /\ Upserted(name).there
           /\ row.name # Blank => Upserted(name).name # Blank
BY NullAssumption DEF TypeOK, Upserted, Known

-----------------------------------------------------------------------------
(* The clients, and the events and calls that arrive.                      *)

\* What the connect flows and the library do to a client leaves the handles.
LEMMA NetworkKeepsInvariant ==
    ASSUME IInv, Network PROVE IInv'
<1> USE DEF IInv
<1>1. ASSUME NEW m \in Clients, Registers(m) PROVE IInv'
  <2>1. /\ client' \in [Clients -> ClientRecords]
        /\ \A n \in Clients : client'[n].ended = client[n].ended
    <3>1. client \in [Clients -> ClientRecords] /\ client[m] \in ClientRecords
      BY DEF TypeOK
    <3>2. client' = [client EXCEPT ![m] = [client[m] EXCEPT !.made = TRUE]]
      BY <1>1, <3>1 DEF Registers
    <3>3. /\ [client[m] EXCEPT !.made = TRUE] \in ClientRecords
          /\ [client[m] EXCEPT !.made = TRUE].ended = client[m].ended
      BY <3>1 DEF ClientRecords
    <3> QED BY <3>1, <3>2, <3>3
  <2>2. TypeOK'
    BY <1>1, <2>1 DEF Registers, TypeOK
  <2>3. HandlersAreSound' /\ SyncsHaveClients' /\ EverySyncCanBeStopped' /\ ToldIsKnown'
    BY <1>1 DEF Registers, HandlersAreSound, SyncsHaveClients, EverySyncCanBeStopped, Runs, ToldIsKnown
  <2>4. NoSyncOutlivesItsClient'
    BY <1>1, <2>1 DEF Registers, NoSyncOutlivesItsClient, SyncsHaveClients, Runs, Over, AppOver
  <2> QED BY <2>2, <2>3, <2>4
<1>2. ASSUME NEW m \in Clients, NEW ready \in BOOLEAN, Turns(m, ready) PROVE IInv'
  <2>1. /\ client' \in [Clients -> ClientRecords]
        /\ \A n \in Clients : client'[n].ended = client[n].ended
    BY <1>2 DEF Turns, TypeOK, ClientRecords
  <2>2. TypeOK'
    BY <1>2, <2>1 DEF Turns, TypeOK
  <2>3. HandlersAreSound' /\ SyncsHaveClients' /\ EverySyncCanBeStopped' /\ ToldIsKnown'
    BY <1>2 DEF Turns, HandlersAreSound, SyncsHaveClients, EverySyncCanBeStopped, Runs, ToldIsKnown
  <2>4. NoSyncOutlivesItsClient'
    BY <1>2, <2>1 DEF Turns, NoSyncOutlivesItsClient, SyncsHaveClients, Runs, Over, AppOver
  <2> QED BY <2>2, <2>3, <2>4
<1>3. ASSUME NEW m \in Clients, Fails(m), UNCHANGED <<client, sync>> PROVE IInv'
  <2>1. TypeOK'
    BY <1>3 DEF Fails, TypeOK
  <2>2. HandlersAreSound' /\ SyncsHaveClients' /\ EverySyncCanBeStopped' /\ ToldIsKnown'
    BY <1>3 DEF Fails, HandlersAreSound, SyncsHaveClients, EverySyncCanBeStopped, Runs, ToldIsKnown
  <2>3. NoSyncOutlivesItsClient'
    BY <1>3 DEF Fails, NoSyncOutlivesItsClient, Runs, Over, AppOver
  <2> QED BY <2>1, <2>2, <2>3
<1>4. ASSUME NEW m \in Clients, Fails(m), CancelClient(m, client[m].ready) PROVE IInv'
  <2>1. client[m].ready \in BOOLEAN
    BY DEF TypeOK, ClientRecords
  <2>2. /\ client' \in [Clients -> ClientRecords] /\ sync' \in [Syncs -> SyncRecords]
        /\ \A n \in Clients : client'[n].ended <=> (client[n].ended \/ n = m)
        /\ \A s \in Syncs : /\ sync'[s].step = sync[s].step /\ sync'[s].of = sync[s].of
                            /\ sync'[s].over <=> (sync[s].over \/ sync[s].of = m)
    BY <1>4, <2>1, CancelClientTyped
  <2>3. TypeOK'
    BY <1>4, <2>2 DEF Fails, TypeOK
  <2>4. HandlersAreSound' /\ SyncsHaveClients' /\ EverySyncCanBeStopped' /\ ToldIsKnown'
    BY <1>4, <2>2 DEF Fails, HandlersAreSound, SyncsHaveClients, EverySyncCanBeStopped, Runs, ToldIsKnown
  <2>5. NoSyncOutlivesItsClient'
    BY <1>4, <2>2 DEF Fails, NoSyncOutlivesItsClient, SyncsHaveClients, Runs, Over, AppOver
  <2> QED BY <2>3, <2>4, <2>5
<1> QED
  BY <1>1, <1>2, <1>3, <1>4 DEF Network, Fails
\* An event or call that arrives takes an idle goroutine, which holds no handle.
LEMMA ArrivalsKeepInvariant ==
    ASSUME IInv, NEW g \in Handlers,
           \/ \E m \in Clients :
                OnConnected(g, m) \/ OnDisconnected(g, m) \/ OnEnd(g, m) \/ OnContact(g, m)
           \/ \E next \in {"idle", "delete"} : OnCall(g, next)
    PROVE  IInv'
<1> USE DEF IInv
<1>0. Begins(g) /\ handler[g].held = Nobody /\ handler[g].step = "idle"
  BY DEF OnConnected, OnDisconnected, OnEnd, OnContact, OnCall, Begins, At, HandlersAreSound
<1>1. ASSUME NEW m \in Clients, OnConnected(g, m) PROVE IInv'
  <2>1. /\ handler' \in [Handlers -> HandlerRecords] /\ events' \in 0..MaxEvents
        /\ handler'[g].held = Nobody
        /\ handler'[g].step = "start"
        /\ handler'[g].step \in {"start", "write"} => handler'[g].of \in Clients
        /\ \A h \in Handlers : h # g => handler'[h] = handler[h]
    BY <1>1, TookUp, Counted, <1>0 DEF OnConnected
  <2>2. TypeOK'
    BY <1>1, <2>1 DEF OnConnected, TypeOK
  <2>3. HandlersAreSound' /\ SyncsHaveClients' /\ ToldIsKnown'
    BY <1>1, <2>1 DEF OnConnected, HandlersAreSound, SyncsHaveClients, ToldIsKnown
  <2>4. EverySyncCanBeStopped' /\ NoSyncOutlivesItsClient'
    BY <1>1, <2>1, <1>0 DEF OnConnected, EverySyncCanBeStopped, NoSyncOutlivesItsClient, Runs, Over, AppOver
  <2> QED BY <2>2, <2>3, <2>4
<1>2. ASSUME NEW m \in Clients, OnContact(g, m) PROVE IInv'
  <2>1. /\ handler' \in [Handlers -> HandlerRecords] /\ events' \in 0..MaxEvents
        /\ handler'[g].held = Nobody
        /\ handler'[g].step = "write"
        /\ handler'[g].step \in {"start", "write"} => handler'[g].of \in Clients
        /\ \A h \in Handlers : h # g => handler'[h] = handler[h]
    BY <1>2, TookUp, Counted, <1>0 DEF OnContact
  <2>2. TypeOK'
    BY <1>2, <2>1 DEF OnContact, TypeOK
  <2>3. HandlersAreSound' /\ SyncsHaveClients' /\ ToldIsKnown'
    BY <1>2, <2>1 DEF OnContact, HandlersAreSound, SyncsHaveClients, ToldIsKnown
  <2>4. EverySyncCanBeStopped' /\ NoSyncOutlivesItsClient'
    BY <1>2, <2>1, <1>0 DEF OnContact, EverySyncCanBeStopped, NoSyncOutlivesItsClient, Runs, Over, AppOver
  <2> QED BY <2>2, <2>3, <2>4
<1>3. ASSUME NEW m \in Clients, OnDisconnected(g, m) PROVE IInv'
  <2>1. /\ handler' \in [Handlers -> HandlerRecords] /\ events' \in 0..MaxEvents
        /\ handler'[g].held = Nobody
        /\ handler'[g].step = "take"
        /\ handler'[g].step \in {"start", "write"} => handler'[g].of \in Clients
        /\ \A h \in Handlers : h # g => handler'[h] = handler[h]
    BY <1>3, WentOn, Counted, <1>0 DEF OnDisconnected
  <2>2. TypeOK'
    BY <1>3, <2>1 DEF OnDisconnected, TypeOK
  <2>3. HandlersAreSound' /\ SyncsHaveClients' /\ ToldIsKnown'
    BY <1>3, <2>1 DEF OnDisconnected, HandlersAreSound, SyncsHaveClients, ToldIsKnown
  <2>4. EverySyncCanBeStopped' /\ NoSyncOutlivesItsClient'
    BY <1>3, <2>1, <1>0 DEF OnDisconnected, EverySyncCanBeStopped, NoSyncOutlivesItsClient, Runs, Over, AppOver
  <2> QED BY <2>2, <2>3, <2>4
<1>4. ASSUME NEW m \in Clients, OnEnd(g, m) PROVE IInv'
  <2>1. /\ handler' \in [Handlers -> HandlerRecords] /\ events' \in 0..MaxEvents
        /\ handler'[g].held = Nobody /\ handler'[g].step = "takeEnd"
        /\ \A h \in Handlers : h # g => handler'[h] = handler[h]
    BY <1>4, WentOn, Counted, <1>0 DEF OnEnd
  <2>2. /\ client' \in [Clients -> ClientRecords] /\ sync' \in [Syncs -> SyncRecords]
        /\ \A n \in Clients : client'[n].ended <=> (client[n].ended \/ n = m)
        /\ \A s \in Syncs : /\ sync'[s].step = sync[s].step /\ sync'[s].of = sync[s].of
                            /\ sync'[s].over <=> (sync[s].over \/ sync[s].of = m)
    BY <1>4, CancelClientTyped DEF OnEnd
  <2>3. TypeOK'
    BY <1>4, <2>1, <2>2 DEF OnEnd, TypeOK
  <2>4. HandlersAreSound' /\ SyncsHaveClients' /\ ToldIsKnown'
    BY <1>4, <2>1, <2>2 DEF OnEnd, HandlersAreSound, SyncsHaveClients, ToldIsKnown
  <2>5. EverySyncCanBeStopped'
    BY <1>4, <2>1, <2>2, <1>0 DEF OnEnd, EverySyncCanBeStopped, Runs
  <2>6. NoSyncOutlivesItsClient'
    BY <1>4, <2>2 DEF OnEnd, NoSyncOutlivesItsClient, SyncsHaveClients, Runs, Over, AppOver
  <2> QED BY <2>3, <2>4, <2>5, <2>6
<1>5. ASSUME NEW next \in {"idle", "delete"}, OnCall(g, next) PROVE IInv'
  <2>1. /\ handler' \in [Handlers -> HandlerRecords] /\ events' \in 0..MaxEvents
        /\ handler'[g].held = Nobody /\ handler'[g].step = next
        /\ \A h \in Handlers : h # g => handler'[h] = handler[h]
    BY <1>5, WentOn, Counted, <1>0 DEF OnCall
  <2>2. /\ client' \in [Clients -> ClientRecords] /\ sync' \in [Syncs -> SyncRecords]
        /\ \A n \in Clients : client'[n].ended <=> (client[n].ended \/ n = hub)
        /\ \A s \in Syncs : /\ sync'[s].step = sync[s].step /\ sync'[s].of = sync[s].of
                            /\ sync'[s].over <=> (sync[s].over \/ (hub # Nobody /\ sync[s].of = hub))
    <3>1. CASE hub = Nobody
      BY <1>5, <3>1, NullAssumption DEF OnCall, TypeOK
    <3>2. CASE hub # Nobody
      <4>1. hub \in Clients /\ CancelClient(hub, FALSE)
        BY <1>5, <3>2 DEF OnCall, TypeOK
      <4> QED BY <4>1, <3>2, CancelClientTyped
    <3> QED BY <3>1, <3>2
  <2>3. TypeOK'
    BY <1>5, <2>1, <2>2 DEF OnCall, TypeOK
  <2>4. HandlersAreSound' /\ SyncsHaveClients' /\ ToldIsKnown'
    BY <1>5, <2>1, <2>2 DEF OnCall, HandlersAreSound, SyncsHaveClients, ToldIsKnown
  <2>5. EverySyncCanBeStopped'
    BY <1>5, <2>1, <2>2, <1>0 DEF OnCall, EverySyncCanBeStopped, Runs
  <2>6. NoSyncOutlivesItsClient'
    BY <1>5, <2>2, NullAssumption DEF OnCall, NoSyncOutlivesItsClient, SyncsHaveClients, Runs, Over, AppOver
  <2> QED BY <2>3, <2>4, <2>5, <2>6
<1> QED
  BY <1>1, <1>2, <1>3, <1>4, <1>5

-----------------------------------------------------------------------------
(* The goroutines that handle an event or a call.                          *)

\* A new synchronisation is the tracked one, and cancels the one it replaces.
LEMMA StartKeepsInvariant ==
    ASSUME IInv, NEW g \in Handlers, NEW s \in Syncs, Start(g, s) PROVE IInv'
<1> USE DEF IInv
<1> DEFINE m == handler[g].of
<1>1. m \in Clients /\ tracked \in Syncs \union {Nobody} /\ Free(s) /\ Over(m) \in BOOLEAN
  BY DEF Start, At, HandlersAreSound, TypeOK, ClientRecords, Over, AppOver
<1>2. /\ sync' \in [Syncs -> SyncRecords]
      /\ sync'[s].step = "wait" /\ sync'[s].of = m /\ sync'[s].over = Over(m)
      /\ \A x \in Syncs : x # s =>
           /\ sync'[x].step = sync[x].step /\ sync'[x].of = sync[x].of
           /\ sync'[x].over <=> (sync[x].over \/ x = tracked)
  BY <1>1, CancelledTyped DEF Start, Started, SyncRecords
<1>3. /\ handler' \in [Handlers -> HandlerRecords] /\ handler'[g] = Idle
      /\ \A h \in Handlers : h # g => handler'[h] = handler[h]
  BY Finished DEF Start
<1>4. TypeOK'
  BY <1>2, <1>3 DEF Start, TypeOK
<1>5. HandlersAreSound' /\ SyncsHaveClients' /\ ToldIsKnown'
  BY <1>1, <1>2, <1>3 DEF Start, Idle, HandlersAreSound, SyncsHaveClients, ToldIsKnown
<1>6. EverySyncCanBeStopped'
  <2>1. handler[g].held = Nobody
    BY DEF Start, At, HandlersAreSound
  <2> QED BY <1>2, <1>3, <2>1, NullAssumption DEF Start, EverySyncCanBeStopped, Runs
<1>7. NoSyncOutlivesItsClient'
  BY <1>1, <1>2 DEF Start, NoSyncOutlivesItsClient, Runs, Over, AppOver
<1> QED BY <1>4, <1>5, <1>6, <1>7

\* A handle that leaves the service's map is in the goroutine's hand until the
\* goroutine has cancelled it.
LEMMA CancelKeepsInvariant ==
    ASSUME IInv, NEW g \in Handlers, Take(g) \/ CancelHeld(g) PROVE IInv'
<1> USE DEF IInv
<1>1. CASE Take(g)
  <2>1. /\ handler' \in [Handlers -> HandlerRecords]
        /\ handler'[g].held = tracked /\ handler'[g].step \in {"cancel", "cancelEnd"}
        /\ \A h \in Handlers : h # g => handler'[h] = handler[h]
    <3> DEFINE step == IF handler[g].step = "take" THEN "cancel" ELSE "cancelEnd"
               taken == [handler[g] EXCEPT !.held = tracked, !.step = step]
    <3>1. /\ handler \in [Handlers -> HandlerRecords] /\ handler[g] \in HandlerRecords
          /\ tracked \in Syncs \union {Nobody}
      BY DEF TypeOK
    <3>2. handler' = [handler EXCEPT ![g] = taken]
      BY <1>1, <3>1 DEF Take, HandlerRecords
    <3>3. taken \in HandlerRecords /\ taken.held = tracked /\ taken.step \in {"cancel", "cancelEnd"}
      BY <3>1 DEF HandlerRecords
    <3> HIDE DEF taken
    <3> QED BY <3>1, <3>2, <3>3
  <2>2. handler[g].held = Nobody
    BY <1>1 DEF Take, At, HandlersAreSound
  <2>3. TypeOK'
    BY <1>1, <2>1 DEF Take, TypeOK
  <2>4. HandlersAreSound' /\ SyncsHaveClients' /\ ToldIsKnown' /\ NoSyncOutlivesItsClient'
    BY <1>1, <2>1 DEF Take, HandlersAreSound, SyncsHaveClients, ToldIsKnown, NoSyncOutlivesItsClient,
         Runs, Over, AppOver
  <2>5. EverySyncCanBeStopped'
    BY <1>1, <2>1, <2>2, NullAssumption DEF Take, EverySyncCanBeStopped, Runs
  <2> QED BY <2>3, <2>4, <2>5
<1>2. CASE CancelHeld(g)
  <2> DEFINE h == handler[g].held
  <2>1. h \in Syncs \union {Nobody}
    BY DEF TypeOK, HandlerRecords
  <2>2. /\ sync' \in [Syncs -> SyncRecords]
        /\ \A s \in Syncs : /\ sync'[s].step = sync[s].step /\ sync'[s].of = sync[s].of
                            /\ sync'[s].over <=> (sync[s].over \/ s = h)
    BY <1>2, <2>1, CancelledTyped DEF CancelHeld
  <2>3. /\ handler' \in [Handlers -> HandlerRecords]
        /\ handler'[g].held = Nobody /\ handler'[g].step \in {"idle", "remove"}
        /\ \A x \in Handlers : x # g => handler'[x] = handler[x]
    BY <1>2 DEF CancelHeld, Idle, TypeOK, HandlerRecords
  <2>4. TypeOK'
    BY <1>2, <2>2, <2>3 DEF CancelHeld, TypeOK
  <2>5. HandlersAreSound' /\ SyncsHaveClients' /\ ToldIsKnown'
    BY <1>2, <2>2, <2>3 DEF CancelHeld, HandlersAreSound, SyncsHaveClients, ToldIsKnown
  <2>6. EverySyncCanBeStopped'
    BY <1>2, <2>2, <2>3 DEF CancelHeld, EverySyncCanBeStopped, Runs
  <2>7. NoSyncOutlivesItsClient'
    BY <1>2, <2>2 DEF CancelHeld, NoSyncOutlivesItsClient, Runs, Over, AppOver
  <2> QED BY <2>4, <2>5, <2>6, <2>7
<1> QED BY <1>1, <1>2

\* Removing the client or the instance leaves the synchronisations.
LEMMA RemovalKeepsInvariant ==
    ASSUME IInv, NEW g \in Handlers, RemoveEnded(g) \/ Delete(g) PROVE IInv'
<1> USE DEF IInv
<1>1. /\ handler' \in [Handlers -> HandlerRecords] /\ handler'[g] = Idle
      /\ \A h \in Handlers : h # g => handler'[h] = handler[h]
  BY Finished DEF RemoveEnded, Delete
<1>2. handler[g].held = Nobody
  BY DEF RemoveEnded, Delete, At, HandlersAreSound
<1>3. TypeOK'
  <2>1. NoContact \in [there : BOOLEAN, name : Known]
    BY DEF NoContact, Known
  <2>2. CASE RemoveEnded(g)
    BY <1>1, <2>2 DEF RemoveEnded, TypeOK
  <2>3. CASE Delete(g)
    BY <1>1, <2>1, <2>3 DEF Delete, TypeOK
  <2> QED BY <2>2, <2>3
<1>4. HandlersAreSound' /\ SyncsHaveClients' /\ ToldIsKnown'
  BY <1>1 DEF RemoveEnded, Delete, Idle, HandlersAreSound, SyncsHaveClients, ToldIsKnown
<1>5. EverySyncCanBeStopped'
  BY <1>1, <1>2, NullAssumption DEF RemoveEnded, Delete, EverySyncCanBeStopped, Runs
<1>6. NoSyncOutlivesItsClient'
  BY DEF RemoveEnded, Delete, NoSyncOutlivesItsClient, Runs, Over, AppOver
<1> QED BY <1>3, <1>4, <1>5, <1>6

\* A contact event writes a name or leaves the one there is, and then tells it.
LEMMA ContactKeepsInvariant ==
    ASSUME IInv, NEW g \in Handlers, ContactWrite(g) \/ ContactTell(g) PROVE IInv'
<1> USE DEF IInv
<1>1. handler[g].held = Nobody /\ handler[g].of \in Clients
  BY DEF ContactWrite, ContactTell, At, HandlersAreSound
<1>2. /\ handler' \in [Handlers -> HandlerRecords]
      /\ handler'[g].held = Nobody
      /\ handler'[g].step \in {"idle", "tell"}
      /\ handler'[g].step = "tell" => handler'[g].of \in Clients
      /\ \A h \in Handlers : h # g => handler'[h] = handler[h]
  BY <1>1, Finished, WentOn DEF ContactWrite, ContactTell, Idle
<1>3. row' \in [there : BOOLEAN, name : Known] /\ told' \in BOOLEAN
  BY UpsertedNames DEF ContactWrite, ContactTell, TypeOK, Known, Over, AppOver
<1>4. TypeOK'
  BY <1>2, <1>3 DEF ContactWrite, ContactTell, TypeOK
<1>5. ToldIsKnown'
  BY UpsertedNames DEF ContactWrite, ContactTell, ToldIsKnown
<1>6. HandlersAreSound' /\ SyncsHaveClients'
  BY <1>2 DEF ContactWrite, ContactTell, HandlersAreSound, SyncsHaveClients
<1>7. EverySyncCanBeStopped'
  BY <1>1, <1>2, NullAssumption DEF ContactWrite, ContactTell, EverySyncCanBeStopped, Runs
<1>8. NoSyncOutlivesItsClient'
  BY DEF ContactWrite, ContactTell, NoSyncOutlivesItsClient, Runs, Over, AppOver
<1> QED BY <1>4, <1>5, <1>6, <1>7, <1>8

-----------------------------------------------------------------------------
(* The synchronisations and Shutdown.                                      *)

\* A synchronisation that ends gives back its own handle and no other.
LEMMA SyncKeepsInvariant ==
    ASSUME IInv, NEW s \in Syncs, SyncStep(s) PROVE IInv'
<1> USE DEF IInv
<1>1. CASE SyncClears(s)
  <2>1. /\ sync' \in [Syncs -> SyncRecords] /\ sync'[s] = Unused
        /\ \A x \in Syncs : x # s => sync'[x] = sync[x]
    BY <1>1 DEF SyncClears, TypeOK, Unused, SyncRecords
  <2>2. /\ tracked' \in Syncs \union {Nobody}
        /\ \A x \in Syncs : x # s /\ tracked = x => tracked' = x
    BY <1>1 DEF SyncClears, Cleared, TypeOK
  <2>3. TypeOK'
    BY <1>1, <2>1, <2>2 DEF SyncClears, TypeOK
  <2>4. HandlersAreSound' /\ SyncsHaveClients' /\ ToldIsKnown'
    BY <1>1, <2>1 DEF SyncClears, Unused, HandlersAreSound, SyncsHaveClients, ToldIsKnown
  <2>5. EverySyncCanBeStopped'
    BY <1>1, <2>1, <2>2 DEF SyncClears, Unused, EverySyncCanBeStopped, Runs
  <2>6. NoSyncOutlivesItsClient'
    BY <1>1, <2>1 DEF SyncClears, Unused, NoSyncOutlivesItsClient, Runs, Over, AppOver
  <2> QED BY <2>3, <2>4, <2>5, <2>6
<1>2. CASE SyncGivesUp(s) \/ SyncBegins(s) \/ SyncFails(s) \/ SyncWrites(s)
  <2>1. /\ sync' \in [Syncs -> SyncRecords]
        /\ \A x \in Syncs : /\ sync'[x].of = sync[x].of /\ sync'[x].over = sync[x].over
                            /\ x # s => sync'[x].step = sync[x].step
        /\ sync'[s].step \in {"write", "clear"} /\ sync[s].step \in {"wait", "write"}
    BY <1>2, SyncMoved DEF SyncGivesUp, SyncBegins, SyncFails, SyncWrites
  <2>2. /\ row' \in [there : BOOLEAN, name : Known]
        /\ ToldIsKnown'
    BY <1>2, UpsertedNames DEF SyncGivesUp, SyncBegins, SyncFails, SyncWrites, TypeOK, ToldIsKnown
  <2>3. TypeOK'
    BY <1>2, <2>1, <2>2 DEF SyncGivesUp, SyncBegins, SyncFails, SyncWrites, TypeOK
  <2>4. HandlersAreSound' /\ SyncsHaveClients'
    BY <1>2, <2>1 DEF SyncGivesUp, SyncBegins, SyncFails, SyncWrites, HandlersAreSound, SyncsHaveClients
  <2>5. EverySyncCanBeStopped'
    BY <1>2, <2>1 DEF SyncGivesUp, SyncBegins, SyncFails, SyncWrites, EverySyncCanBeStopped, Runs
  <2>6. NoSyncOutlivesItsClient'
    BY <1>2, <2>1 DEF SyncGivesUp, SyncBegins, SyncFails, SyncWrites, NoSyncOutlivesItsClient,
         Runs, Over, AppOver
  <2> QED BY <2>2, <2>3, <2>4, <2>5, <2>6
<1> QED BY <1>1, <1>2 DEF SyncStep

\* Shutdown ends the application's context before it takes the handles.
LEMMA ShutdownKeepsInvariant ==
    ASSUME IInv, Shutdown PROVE IInv'
<1> USE DEF IInv
<1>1. CASE AppCancel
  <2>1. /\ sync' \in [Syncs -> SyncRecords]
        /\ \A s \in Syncs : /\ sync'[s].step = sync[s].step /\ sync'[s].of = sync[s].of
                            /\ sync'[s].over <=> (sync[s].over \/ sync[s].of \in AppClients)
    <3>1. ASSUME NEW s \in Syncs
          PROVE  /\ sync'[s] \in SyncRecords
                 /\ sync'[s].step = sync[s].step /\ sync'[s].of = sync[s].of
                 /\ sync'[s].over <=> (sync[s].over \/ sync[s].of \in AppClients)
      <4>1. sync[s] \in SyncRecords /\ sync[s].over \in BOOLEAN
        BY DEF TypeOK, SyncRecords
      <4>2. sync'[s] = [sync[s] EXCEPT !.over = sync[s].over \/ sync[s].of \in AppClients]
        BY <1>1 DEF AppCancel
      <4>3. (sync[s].over \/ sync[s].of \in AppClients) \in BOOLEAN
        BY <4>1
      <4> QED
        BY <4>1, <4>2, <4>3, OverSet
    <3>2. sync' \in [Syncs -> SyncRecords]
      BY <1>1, <3>1 DEF AppCancel
    <3> QED BY <3>1, <3>2
  <2>2. stage' \in [at : Stages, held : Syncs \union {Nobody}] /\ stage'.held = stage.held /\ stage'.at = "take"
    BY <1>1 DEF AppCancel, TypeOK, Stages
  <2>3. TypeOK'
    BY <1>1, <2>1, <2>2 DEF AppCancel, TypeOK
  <2>4. HandlersAreSound'
    BY <1>1, <2>2 DEF AppCancel, HandlersAreSound
  <2>5. SyncsHaveClients' /\ ToldIsKnown'
    BY <1>1, <2>1 DEF AppCancel, SyncsHaveClients, ToldIsKnown
  <2>6. EverySyncCanBeStopped'
    BY <1>1, <2>1, <2>2 DEF AppCancel, EverySyncCanBeStopped, Runs
  <2>7. NoSyncOutlivesItsClient'
    BY <1>1, <2>1, <2>2 DEF AppCancel, NoSyncOutlivesItsClient, Runs, Over, AppOver
  <2> QED BY <2>3, <2>4, <2>5, <2>6, <2>7
<1>2. CASE TakeAll
  <2>1. /\ stage' \in [at : Stages, held : Syncs \union {Nobody}]
        /\ stage'.held = tracked /\ stage'.at = "cancel" /\ stage.held = Nobody
    BY <1>2 DEF TakeAll, TypeOK, Stages, HandlersAreSound
  <2>2. TypeOK'
    BY <1>2, <2>1 DEF TakeAll, TypeOK
  <2>3. HandlersAreSound' /\ SyncsHaveClients' /\ ToldIsKnown'
    BY <1>2, <2>1 DEF TakeAll, HandlersAreSound, SyncsHaveClients, ToldIsKnown
  <2>4. EverySyncCanBeStopped'
    BY <1>2, <2>1, NullAssumption DEF TakeAll, EverySyncCanBeStopped, Runs
  <2>5. NoSyncOutlivesItsClient'
    BY <1>2, <2>1 DEF TakeAll, NoSyncOutlivesItsClient, Runs, Over, AppOver
  <2> QED BY <2>2, <2>3, <2>4, <2>5
<1>3. CASE CancelAll
  <2>1. stage.held \in Syncs \union {Nobody}
    BY DEF TypeOK
  <2>2. /\ sync' \in [Syncs -> SyncRecords]
        /\ \A s \in Syncs : /\ sync'[s].step = sync[s].step /\ sync'[s].of = sync[s].of
                            /\ sync'[s].over <=> (sync[s].over \/ s = stage.held)
    BY <1>3, <2>1, CancelledTyped DEF CancelAll
  <2>3. stage' \in [at : Stages, held : Syncs \union {Nobody}] /\ stage'.held = Nobody /\ stage'.at = "hub"
    BY <1>3 DEF CancelAll, TypeOK, Stages
  <2>4. TypeOK'
    BY <1>3, <2>2, <2>3 DEF CancelAll, TypeOK
  <2>5. HandlersAreSound' /\ SyncsHaveClients' /\ ToldIsKnown'
    BY <1>3, <2>2, <2>3 DEF CancelAll, HandlersAreSound, SyncsHaveClients, ToldIsKnown
  <2>6. EverySyncCanBeStopped'
    BY <1>3, <2>2, <2>3 DEF CancelAll, EverySyncCanBeStopped, Runs
  <2>7. NoSyncOutlivesItsClient'
    BY <1>3, <2>2, <2>3 DEF CancelAll, NoSyncOutlivesItsClient, Runs, Over, AppOver
  <2> QED BY <2>4, <2>5, <2>6, <2>7
<1>4. CASE HubShutdown
  <2>1. /\ client' \in [Clients -> ClientRecords] /\ sync' \in [Syncs -> SyncRecords]
        /\ \A n \in Clients : client'[n].ended <=> (client[n].ended \/ n = hub)
        /\ \A s \in Syncs : /\ sync'[s].step = sync[s].step /\ sync'[s].of = sync[s].of
                            /\ sync'[s].over <=> (sync[s].over \/ (hub # Nobody /\ sync[s].of = hub))
    <3>1. CASE hub = Nobody
      BY <1>4, <3>1, NullAssumption DEF HubShutdown, TypeOK
    <3>2. CASE hub # Nobody
      <4>1. hub \in Clients /\ CancelClient(hub, FALSE)
        BY <1>4, <3>2 DEF HubShutdown, TypeOK
      <4> QED BY <4>1, <3>2, CancelClientTyped
    <3> QED BY <3>1, <3>2
  <2>2. stage' \in [at : Stages, held : Syncs \union {Nobody}] /\ stage'.held = stage.held /\ stage'.at = "closed"
    BY <1>4 DEF HubShutdown, TypeOK, Stages
  <2>3. TypeOK'
    BY <1>4, <2>1, <2>2 DEF HubShutdown, TypeOK
  <2>4. HandlersAreSound' /\ SyncsHaveClients' /\ ToldIsKnown'
    BY <1>4, <2>1, <2>2 DEF HubShutdown, HandlersAreSound, SyncsHaveClients, ToldIsKnown
  <2>5. EverySyncCanBeStopped'
    BY <1>4, <2>1, <2>2 DEF HubShutdown, EverySyncCanBeStopped, Runs
  <2>6. NoSyncOutlivesItsClient'
    BY <1>4, <2>1, <2>2, NullAssumption DEF HubShutdown, NoSyncOutlivesItsClient, SyncsHaveClients, Runs, Over, AppOver
  <2> QED BY <2>3, <2>4, <2>5, <2>6
<1> QED BY <1>1, <1>2, <1>3, <1>4 DEF Shutdown

-----------------------------------------------------------------------------

\* Every step keeps the invariant.
LEMMA StepKeepsInvariant == IInv /\ [Next]_vars => IInv'
<1> SUFFICES ASSUME IInv, [Next]_vars PROVE IInv'
  OBVIOUS
<1>1. CASE Network
  BY <1>1, NetworkKeepsInvariant
<1>2. CASE Arrivals
  BY <1>2, ArrivalsKeepInvariant DEF Arrivals
<1>3. CASE \E g \in Handlers : HandlerStep(g)
  BY <1>3, StartKeepsInvariant, CancelKeepsInvariant, RemovalKeepsInvariant, ContactKeepsInvariant
     DEF HandlerStep
<1>4. CASE \E s \in Syncs : SyncStep(s)
  BY <1>4, SyncKeepsInvariant
<1>5. CASE Shutdown
  BY <1>5, ShutdownKeepsInvariant
<1>6. CASE UNCHANGED vars
  BY <1>6 DEF vars, IInv, TypeOK, HandlersAreSound, SyncsHaveClients, EverySyncCanBeStopped,
     NoSyncOutlivesItsClient, ToldIsKnown, Runs, Over, AppOver
<1> QED BY <1>1, <1>2, <1>3, <1>4, <1>5, <1>6 DEF Next

\* The clients, handles, synchronisations and contacts are well typed.
THEOREM TypeCorrect == Spec => []TypeOK
<1>1. IInv => TypeOK
  BY DEF IInv
<1> QED BY InitInvariant, StepKeepsInvariant, <1>1, PTL DEF Spec

\* A synchronisation that runs and is not cancelled is the one the service can
\* cancel, or is about to be cancelled, for any clients and synchronisations.
THEOREM SyncsAreStoppable == Spec => []EverySyncCanBeStopped
<1>1. IInv => EverySyncCanBeStopped
  BY DEF IInv
<1> QED BY InitInvariant, StepKeepsInvariant, <1>1, PTL DEF Spec

\* No synchronisation runs on uncancelled after its client's context.
THEOREM SyncsDieWithTheirClient == Spec => []NoSyncOutlivesItsClient
<1>1. IInv => NoSyncOutlivesItsClient
  BY DEF IInv
<1> QED BY InitInvariant, StepKeepsInvariant, <1>1, PTL DEF Spec

\* What a webhook told of a contact stays known while the instance exists.
THEOREM ToldStaysKnown == Spec => []ToldIsKnown
<1>1. IInv => ToldIsKnown
  BY DEF IInv
<1> QED BY InitInvariant, StepKeepsInvariant, <1>1, PTL DEF Spec

=============================================================================
