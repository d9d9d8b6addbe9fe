------------------------ MODULE WebhookConfiguration ------------------------
(***************************************************************************)
(* The webhook configuration of one instance: WebhookService.Set writes    *)
(* the row and its events in one transaction and then forgets the cached   *)
(* answer (internal/webhook/service.go), Manager.Dispatch looks the        *)
(* configuration up through the cache (configuration_cache.go).            *)
(*                                                                         *)
(* The database and the cache are external: a transaction keeps the lock   *)
(* of the row it wrote until it ends and a statement sees what is          *)
(* committed when it runs (READ COMMITTED); cache.Remember is a get and,   *)
(* on a miss, a read and a put.  A URL stands for the call that wrote it,  *)
(* and each call that adds events adds one of its own.                     *)
(***************************************************************************)
CONSTANTS
    Setters,       \* calls of Set
    Dispatchers,   \* goroutines that dispatch events, one after the other
    NoSetter

ASSUME SetterAssumption == NoSetter \notin Setters

VARIABLES
    row,        \* the committed configuration
    writer,     \* the transaction that holds the row
    setter,     \* setter[s]: how far the call s has come
    entry,      \* the cache entry of the instance
    lookup,     \* lookup[d]: the lookup d makes, and its last answer
    enabled     \* history: the events the committed calls asked for, in turn

vars == <<row, writer, setter, entry, lookup, enabled>>

\* url = NoSetter is no row at all.
Configurations == [url : Setters \union {NoSetter}, events : SUBSET Setters]

NoConfiguration == [url |-> NoSetter, events |-> {}]

\* asks is what input.Events holds: nothing, one event of its own, or an
\* empty set that clears them all.
Asks == {"nothing", "own", "clear"}

SetterRecords ==
    [step : {"find", "create", "update", "events", "commit", "forget", "done", "failed"},
     asks : Asks, draft : Configurations]

Entries == [held : BOOLEAN, value : Configurations]

Lookups == [step : {"idle", "read", "put"}, value : Configurations]

TypeOK ==
    /\ row \in Configurations
    /\ writer \in Setters \union {NoSetter}
    /\ setter \in [Setters -> SetterRecords]
    /\ entry \in Entries
    /\ lookup \in [Dispatchers -> Lookups]
    /\ enabled \in SUBSET Setters

NoEntry == [held |-> FALSE, value |-> NoConfiguration]

Init ==
    /\ row = NoConfiguration
    /\ writer = NoSetter
    /\ setter \in [Setters -> [step : {"find"}, asks : Asks, draft : {NoConfiguration}]]
    /\ entry = NoEntry
    /\ lookup = [d \in Dispatchers |-> [step |-> "idle", value |-> NoConfiguration]]
    /\ enabled = {}

-----------------------------------------------------------------------------
(* WebhookService.Set.                                                     *)

\* FindByInstanceName decides between Create and Update.
Find(s) ==
    /\ setter[s].step = "find"
    /\ setter' = [setter EXCEPT ![s].step = IF row = NoConfiguration THEN "create" ELSE "update"]
    /\ UNCHANGED <<row, writer, entry, lookup, enabled>>

\* An insert waits for another one of the same instance and fails if it
\* committed (ErrWebhookAlreadyExists).
Create(s) ==
    /\ setter[s].step = "create"
    /\ writer = NoSetter
    /\ IF row = NoConfiguration
       THEN /\ writer' = s
            /\ setter' = [setter EXCEPT ![s].step = "events",
                                        ![s].draft = [url |-> s, events |-> {}]]
       ELSE /\ setter' = [setter EXCEPT ![s].step = "failed"]
            /\ UNCHANGED writer
    /\ UNCHANGED <<row, entry, lookup, enabled>>

Updated(s) == [row EXCEPT !.url = s]

\* An update that does not wait for the row.
Update_Unlocked(s) ==
    /\ setter[s].step = "update"
    /\ writer' = s
    /\ setter' = [setter EXCEPT ![s].step = "events", ![s].draft = Updated(s)]
    /\ UNCHANGED <<row, entry, lookup, enabled>>

\* An update outside the transaction.
Update_Autocommitted(s) ==
    /\ setter[s].step = "update"
    /\ writer = NoSetter
    /\ writer' = s
    /\ row' = Updated(s)
    /\ setter' = [setter EXCEPT ![s].step = "events", ![s].draft = Updated(s)]
    /\ UNCHANGED <<entry, lookup, enabled>>

\* The UPDATE of url and enabled waits for the row and keeps it.
Update(s) ==
    /\ setter[s].step = "update"
    /\ writer = NoSetter
    /\ writer' = s
    /\ setter' = [setter EXCEPT ![s].step = "events", ![s].draft = Updated(s)]
    /\ UNCHANGED <<row, entry, lookup, enabled>>

Merged(s, events) ==
    CASE setter[s].asks = "nothing" -> events
      [] setter[s].asks = "own" -> events \union {s}
      [] setter[s].asks = "clear" -> {}

\* UpsertEvents reads the events again, under the row's lock, and merges.
UpsertEvents(s) ==
    /\ setter[s].step = "events"
    /\ setter' = [setter EXCEPT ![s].step = "commit", ![s].draft.events = Merged(s, @)]
    /\ UNCHANGED <<row, writer, entry, lookup, enabled>>

Commit(s) ==
    /\ setter[s].step = "commit"
    /\ row' = setter[s].draft
    /\ writer' = NoSetter
    /\ enabled' = Merged(s, enabled)
    /\ setter' = [setter EXCEPT ![s].step = "forget"]
    /\ UNCHANGED <<entry, lookup>>

\* Any statement may fail; the transaction rolls back.
Fail(s) ==
    /\ setter[s].step \in {"find", "create", "update", "events", "commit"}
    /\ setter' = [setter EXCEPT ![s].step = "failed"]
    /\ writer' = IF writer = s THEN NoSetter ELSE writer
    /\ UNCHANGED <<row, entry, lookup, enabled>>

\* A forget that forgets the call, too.
Forget_WrongStep(s) ==
    /\ setter[s].step = "forget"
    /\ entry' = NoEntry
    /\ setter' = [setter EXCEPT ![s].step = "idle"]
    /\ UNCHANGED <<row, writer, lookup, enabled>>

\* configCache.forget, and Set returns.
Forget(s) ==
    /\ setter[s].step = "forget"
    /\ entry' = NoEntry
    /\ setter' = [setter EXCEPT ![s].step = "done"]
    /\ UNCHANGED <<row, writer, lookup, enabled>>

\* forget drops the cache's error; or the process stops before it.
ForgetFails(s) ==
    /\ setter[s].step = "forget"
    /\ setter' = [setter EXCEPT ![s].step = "done"]
    /\ UNCHANGED <<row, writer, entry, lookup, enabled>>

SetStep(s) ==
    Find(s) \/ Create(s) \/ Update(s) \/ UpsertEvents(s) \/ Commit(s) \/ Fail(s)
        \/ Forget(s) \/ ForgetFails(s)

-----------------------------------------------------------------------------
(* configurationCache.lookup, and the cache's clock.                       *)

Hit(d) ==
    /\ lookup[d].step = "idle"
    /\ entry.held
    /\ lookup' = [lookup EXCEPT ![d].value = entry.value]
    /\ UNCHANGED <<row, writer, setter, entry, enabled>>

Miss(d) ==
    /\ lookup[d].step = "idle"
    /\ ~ entry.held
    /\ lookup' = [lookup EXCEPT ![d].step = "read"]
    /\ UNCHANGED <<row, writer, setter, entry, enabled>>

\* FindConfiguration; an absent row is an answer too.
Read(d) ==
    /\ lookup[d].step = "read"
    /\ lookup' = [lookup EXCEPT ![d].step = "put", ![d].value = row]
    /\ UNCHANGED <<row, writer, setter, entry, enabled>>

\* The put; a cache that fails keeps what it had.
Put(d) ==
    /\ lookup[d].step = "put"
    /\ entry' \in {entry, [held |-> TRUE, value |-> lookup[d].value]}
    /\ lookup' = [lookup EXCEPT ![d].step = "idle"]
    /\ UNCHANGED <<row, writer, setter, enabled>>


\* The window of ttl ends.
Expire ==
    /\ entry.held
    /\ entry' = NoEntry
    /\ UNCHANGED <<row, writer, setter, lookup, enabled>>

Dispatch(d) == Hit(d) \/ Miss(d) \/ Read(d) \/ Put(d)

Next ==
    \/ \E s \in Setters : SetStep(s)
    \/ \E d \in Dispatchers : Dispatch(d)
    \/ Expire

Spec == Init /\ [][Next]_vars

\* A lookup that started ends, and time passes.
FairSpec == Spec /\ WF_vars(Expire) /\ \A d \in Dispatchers : WF_vars(Read(d) \/ Put(d))

-----------------------------------------------------------------------------
(* What Set and Dispatch promise.                                          *)

\* Calls of Set that run at the same time lose no event of each other,
\* although each one reads, merges and writes the whole set: the committed
\* events are those the calls asked for, in the order they committed
\* (UpsertEvents after Update, in one transaction).
EventsSurvive == row.events = enabled

Whole(v) ==
    v.url # NoSetter =>
        CASE setter[v.url].asks = "own" -> v.url \in v.events
          [] setter[v.url].asks = "clear" -> v.events = {}
          [] OTHER -> TRUE

\* No dispatcher ever acts on a URL without the events that were written with
\* it, from the row or from the cache ("stored together or not at all", Set).
NoHalfConfiguration == Whole(entry.value) /\ \A d \in Dispatchers : Whole(lookup[d].value)


\* What each call has committed: the draft of a call that is past its commit.
Written ==
    [s \in Setters |-> IF setter[s].step \in {"forget", "done"} THEN setter[s].draft
                       ELSE NoConfiguration]

Asked == [s \in Setters |-> setter[s].asks]

Known == [d \in Dispatchers |-> lookup[d].value]

Contract == INSTANCE ConfigurationContract WITH
    config <- row,
    asks <- Asked,
    written <- Written,
    known <- Known

\* Statements, locks, rollbacks and the cache together keep the promise of
\* ConfigurationContract: a call takes effect at its commit, whole and on top of
\* the one before, or not at all; and what a lookup answers, however late it was
\* put into the cache, was in effect once (Set, lookup).
KeepsConfigurationContract == Contract!Spec

=============================================================================
