-------------------- MODULE WebhookConfiguration_proofs --------------------
(* Proofs about WebhookConfiguration, for every set of calls of Set and of *)
(* dispatchers.                                                            *)
EXTENDS WebhookConfiguration, TLAPS

\* A call between its UPDATE and its commit holds the row and writes its URL.
WritersHold ==
    \A s \in Setters :
        setter[s].step \in {"events", "commit"} => writer = s /\ setter[s].draft.url = s

\* What a call will commit comes from the row as it still is.
DraftsAreFresh ==
    \A s \in Setters :
        /\ setter[s].step = "events" => setter[s].draft.events = row.events
        /\ setter[s].step = "commit" => setter[s].draft.events = Merged(s, row.events)

\* The inductive invariant.
Inv ==
    /\ TypeOK
    /\ WritersHold
    /\ DraftsAreFresh
    /\ EventsSurvive
    /\ Whole(row)
    /\ NoHalfConfiguration

-----------------------------------------------------------------------------
(* Type correctness.                                                       *)

\* The configurations the transaction writes are configurations.
LEMMA ConfigurationTypes ==
    ASSUME TypeOK, NEW s \in Setters
    PROVE  /\ NoConfiguration \in Configurations
           /\ [url |-> s, events |-> {}] \in Configurations
           /\ Updated(s) \in Configurations
           /\ \A E \in SUBSET Setters : Merged(s, E) \in SUBSET Setters
           /\ \A E \in SUBSET Setters :
                [setter[s].draft EXCEPT !.events = Merged(s, E)] \in Configurations
<1>1. NoConfiguration \in Configurations
  BY DEF NoConfiguration, Configurations
<1>2. [url |-> s, events |-> {}] \in Configurations
  BY DEF Configurations
<1>3. Updated(s) \in Configurations
  <2>1. row \in Configurations
    BY DEF TypeOK
  <2> QED BY <2>1 DEF Updated, Configurations
<1>4. \A E \in SUBSET Setters : Merged(s, E) \in SUBSET Setters
  <2>1. setter[s].asks \in Asks
    BY DEF TypeOK, SetterRecords
  <2> QED BY <2>1 DEF Merged, Asks
<1>5. \A E \in SUBSET Setters :
        [setter[s].draft EXCEPT !.events = Merged(s, E)] \in Configurations
  <2>1. setter[s].draft \in Configurations
    BY DEF TypeOK, SetterRecords
  <2> QED BY <2>1, <1>4 DEF Configurations
<1> QED BY <1>1, <1>2, <1>3, <1>4, <1>5

\* A call keeps its shape, and what it asks for, when it moves to a step with
\* a draft.
LEMMA SetterTypes ==
    ASSUME TypeOK, NEW s \in Setters
    PROVE  /\ \A step \in {"create", "update", "commit", "forget", "done", "failed"} :
                [setter EXCEPT ![s].step = step] \in [Setters -> SetterRecords]
           /\ \A step \in {"events", "commit"}, v \in Configurations :
                [setter EXCEPT ![s].step = step, ![s].draft = v] \in [Setters -> SetterRecords]
<1>1. setter \in [Setters -> SetterRecords] /\ setter[s] \in SetterRecords
  BY DEF TypeOK
<1>2. \A step \in {"create", "update", "commit", "forget", "done", "failed"} :
        [setter[s] EXCEPT !.step = step] \in SetterRecords
  BY <1>1 DEF SetterRecords
<1>3. \A step \in {"events", "commit"}, v \in Configurations :
        [setter[s] EXCEPT !.step = step, !.draft = v] \in SetterRecords
  BY <1>1 DEF SetterRecords
<1> QED BY <1>1, <1>2, <1>3

\* The first state is of the right shape.
LEMMA InitTypes == Init => TypeOK
<1> SUFFICES ASSUME Init PROVE TypeOK
  OBVIOUS
<1>1. NoConfiguration \in Configurations
  BY DEF NoConfiguration, Configurations
<1>2. setter \in [Setters -> SetterRecords]
  <2>1. [step : {"find"}, asks : Asks, draft : {NoConfiguration}] \subseteq SetterRecords
    BY <1>1 DEF SetterRecords
  <2> QED BY <2>1 DEF Init
<1>3. lookup \in [Dispatchers -> Lookups]
  BY <1>1 DEF Init, Lookups
<1> QED BY <1>1, <1>2, <1>3 DEF Init, TypeOK, NoEntry, Entries

\* No statement, cache operation or event breaks the shape.
LEMMA NextTypes == TypeOK /\ [Next]_vars => TypeOK'
<1> SUFFICES ASSUME TypeOK, [Next]_vars PROVE TypeOK'
  OBVIOUS
<1>a. /\ row \in Configurations /\ writer \in Setters \union {NoSetter}
      /\ setter \in [Setters -> SetterRecords] /\ entry \in Entries
      /\ lookup \in [Dispatchers -> Lookups]
      /\ enabled \in SUBSET Setters
  BY DEF TypeOK
<1>b. NoEntry \in Entries
  BY DEF NoEntry, Entries, NoConfiguration, Configurations
<1>1. ASSUME NEW s \in Setters, SetStep(s) PROVE TypeOK'
  <2>0. setter[s] \in SetterRecords /\ setter[s].draft \in Configurations
    BY <1>a DEF SetterRecords
  <2>1. CASE Find(s)
    BY <1>a, <2>1, SetterTypes DEF Find, TypeOK
  <2>2. CASE Create(s)
    <3>1. setter' \in [Setters -> SetterRecords] /\ writer' \in Setters \union {NoSetter}
      <4> DEFINE v == [url |-> s, events |-> {}]
      <4>1. v \in Configurations
        BY ConfigurationTypes
      <4>2. CASE row = NoConfiguration
        <5>1. setter' = [setter EXCEPT ![s].step = "events", ![s].draft = v] /\ writer' = s
          BY <2>2, <4>2 DEF Create
        <5>2. [setter EXCEPT ![s].step = "events", ![s].draft = v] \in [Setters -> SetterRecords]
          BY <4>1, SetterTypes
        <5> QED BY <5>1, <5>2
      <4>3. CASE row # NoConfiguration
        <5>1. setter' = [setter EXCEPT ![s].step = "failed"] /\ writer' = writer
          BY <2>2, <4>3 DEF Create
        <5>2. [setter EXCEPT ![s].step = "failed"] \in [Setters -> SetterRecords]
          BY SetterTypes
        <5> QED BY <1>a, <5>1, <5>2
      <4> QED BY <4>2, <4>3
    <3> QED BY <1>a, <2>2, <3>1 DEF Create, TypeOK
  <2>3. CASE Update(s)
    BY <1>a, <2>3, SetterTypes, ConfigurationTypes DEF Update, TypeOK
  <2>4. CASE UpsertEvents(s)
    <3> DEFINE E == setter[s].draft.events
               v == [setter[s].draft EXCEPT !.events = Merged(s, E)]
    <3>1. E \in SUBSET Setters
      BY <2>0 DEF Configurations
    <3>2. v \in Configurations
      BY <3>1, ConfigurationTypes
    <3>3. setter' = [setter EXCEPT ![s].step = "commit", ![s].draft = v]
      BY <2>4, <1>a, <2>0 DEF UpsertEvents
    <3>4. setter' \in [Setters -> SetterRecords]
      BY <3>2, <3>3, SetterTypes
    <3> QED BY <1>a, <2>4, <3>4 DEF UpsertEvents, TypeOK
  <2>5. CASE Commit(s)
    BY <1>a, <2>0, <2>5, SetterTypes, ConfigurationTypes DEF Commit, TypeOK
  <2>6. CASE Fail(s)
    BY <1>a, <2>6, SetterTypes DEF Fail, TypeOK
  <2>7. CASE Forget(s)
    BY <1>a, <1>b, <2>7, SetterTypes DEF Forget, TypeOK
  <2>8. CASE ForgetFails(s)
    BY <1>a, <2>8, SetterTypes DEF ForgetFails, TypeOK
  <2> QED BY <1>1, <2>1, <2>2, <2>3, <2>4, <2>5, <2>6, <2>7, <2>8 DEF SetStep
<1>2. ASSUME NEW d \in Dispatchers, Dispatch(d) PROVE TypeOK'
  <2>0. lookup[d] \in Lookups /\ lookup[d].value \in Configurations
        /\ entry.value \in Configurations
    BY <1>a DEF Lookups, Entries
  <2>1. CASE Hit(d)
    BY <1>a, <2>0, <2>1 DEF Hit, TypeOK, Lookups
  <2>2. CASE Miss(d)
    BY <1>a, <2>0, <2>2 DEF Miss, TypeOK, Lookups
  <2>3. CASE Read(d)
    BY <1>a, <2>0, <2>3 DEF Read, TypeOK, Lookups
  <2>4. CASE Put(d)
    <3>1. entry' \in Entries
      <4>1. [held |-> TRUE, value |-> lookup[d].value] \in Entries
        BY <2>0 DEF Entries
      <4> QED BY <1>a, <2>4, <4>1 DEF Put
    <3>2. lookup' \in [Dispatchers -> Lookups]
      BY <1>a, <2>0, <2>4 DEF Put, Lookups
    <3> QED BY <1>a, <2>4, <3>1, <3>2 DEF Put, TypeOK
  <2> QED BY <1>2, <2>1, <2>2, <2>3, <2>4 DEF Dispatch
<1>3. CASE Expire
  BY <1>a, <1>b, <1>3 DEF Expire, TypeOK
<1>4. CASE UNCHANGED vars
  BY <1>a, <1>4 DEF vars, TypeOK
<1> QED BY <1>1, <1>2, <1>3, <1>4 DEF Next

\* Every variable keeps its shape (the row of the instance, the cache entry and
\* what the calls and the dispatchers carry between two statements).
THEOREM TypeCorrect == Spec => []TypeOK
BY InitTypes, NextTypes, PTL DEF Spec

-----------------------------------------------------------------------------
(* Concurrent calls of Set, and what the dispatchers see of them.          *)

\* No call changes its mind about the events it asks for.
LEMMA AsksKept ==
    ASSUME TypeOK, [Next]_vars
    PROVE  \A s \in Setters : setter'[s].asks = setter[s].asks
<1>1. ASSUME NEW s \in Setters, SetStep(s)
      PROVE  \A t \in Setters : setter'[t].asks = setter[t].asks
  BY <1>1 DEF TypeOK, SetterRecords, SetStep, Find, Create, Update, UpsertEvents, Commit, Fail,
              Forget, ForgetFails
<1>2. ASSUME UNCHANGED setter
      PROVE  \A t \in Setters : setter'[t].asks = setter[t].asks
  BY <1>2
<1>3. ASSUME NEW d \in Dispatchers, Dispatch(d) PROVE UNCHANGED setter
  BY <1>3 DEF Dispatch, Hit, Miss, Read, Put
<1> QED BY <1>1, <1>2, <1>3 DEF Next, Expire, vars

\* Whole, of the next state's calls.
WholeAfter(v) ==
    v.url # NoSetter =>
        CASE setter'[v.url].asks = "own" -> v.url \in v.events
          [] setter'[v.url].asks = "clear" -> v.events = {}
          [] OTHER -> TRUE

\* A configuration once written whole stays whole.
LEMMA WholeKept ==
    ASSUME TypeOK, [Next]_vars, NEW v \in Configurations, Whole(v)
    PROVE  WholeAfter(v)
BY AsksKept DEF Whole, WholeAfter, Configurations

\* The two facts about whole configurations, from what they hold next.
LEMMA WholeNext ==
    ASSUME WholeAfter(row'), WholeAfter(entry'.value),
           \A d \in Dispatchers : WholeAfter(lookup'[d].value)
    PROVE  Whole(row)' /\ NoHalfConfiguration'
BY DEF Whole, WholeAfter, NoHalfConfiguration

\* A step that leaves the row and the readers alone leaves them whole.
LEMMA ReadersKept ==
    ASSUME Inv, [Next]_vars
    PROVE  /\ WholeAfter(row)
           /\ WholeAfter(entry.value)
           /\ \A d \in Dispatchers : WholeAfter(lookup[d].value)
           /\ WholeAfter(NoConfiguration)
<1>1. /\ row \in Configurations /\ entry.value \in Configurations
      /\ \A d \in Dispatchers : lookup[d].value \in Configurations
  BY DEF Inv, TypeOK, Entries, Lookups
<1>2. Whole(row) /\ Whole(entry.value) /\ \A d \in Dispatchers : Whole(lookup[d].value)
  BY DEF Inv, NoHalfConfiguration
<1>3. TypeOK
  BY DEF Inv
<1>4. WholeAfter(NoConfiguration)
  BY DEF WholeAfter, NoConfiguration
<1> QED BY <1>1, <1>2, <1>3, <1>4, WholeKept

\* Only one call holds the row: the others are before their UPDATE or past
\* their commit.
LEMMA OthersWait ==
    ASSUME Inv, NEW s \in Setters, writer \in {s, NoSetter}
    PROVE  \A t \in Setters : t # s => setter[t].step \notin {"events", "commit"}
BY SetterAssumption DEF Inv, WritersHold

\* Before the first call nothing is written, cached or asked for.
LEMMA InitInv == Init => Inv
<1> SUFFICES ASSUME Init PROVE Inv
  OBVIOUS
<1>1. \A s \in Setters : setter[s].step = "find"
  BY DEF Init
<1>2. WritersHold /\ DraftsAreFresh
  BY <1>1 DEF WritersHold, DraftsAreFresh
<1>3. Whole(NoConfiguration)
  BY DEF Whole, NoConfiguration
<1>4. Whole(row) /\ NoHalfConfiguration
  BY <1>3 DEF Init, NoHalfConfiguration, NoEntry
<1>5. EventsSurvive
  BY DEF Init, EventsSurvive, NoConfiguration
<1> QED BY <1>2, <1>4, <1>5, InitTypes DEF Inv

\* Every step of a call keeps what the calls know of the row, and the row whole.
LEMMA SetStepInv ==
    ASSUME Inv, [Next]_vars, NEW s \in Setters, SetStep(s)
    PROVE  WritersHold' /\ DraftsAreFresh' /\ EventsSurvive' /\ WholeAfter(row')
<1>a. /\ setter \in [Setters -> SetterRecords] /\ setter[s] \in SetterRecords
      /\ writer \in Setters \union {NoSetter} /\ row \in Configurations
  BY DEF Inv, TypeOK
<1>b. \A t \in Setters : setter'[t].asks = setter[t].asks
  BY AsksKept DEF Inv
<1>c. WholeAfter(row)
  BY ReadersKept
<1>1. CASE Find(s) \/ ForgetFails(s) \/ Forget(s)
  <2>1. /\ \A t \in Setters : setter'[t].step \in {"events", "commit"} => setter'[t] = setter[t]
        /\ UNCHANGED <<row, writer, enabled>>
    <3>1. /\ \A t \in Setters : t # s => setter'[t] = setter[t]
          /\ setter'[s].step \in {"create", "update", "done"}
      BY <1>a, <1>1 DEF Find, ForgetFails, Forget, SetterRecords
    <3>2. UNCHANGED <<row, writer, enabled>>
      BY <1>1 DEF Find, ForgetFails, Forget
    <3> QED BY <3>1, <3>2
  <2> QED BY <2>1, <1>b, <1>c DEF Inv, WritersHold, DraftsAreFresh, EventsSurvive, Merged
<1>2. CASE Create(s)
  <2>0. UNCHANGED <<row, enabled>>
    BY <1>2 DEF Create
  <2>1. CASE row = NoConfiguration
    <3>1. /\ \A t \in Setters : t # s => setter'[t] = setter[t]
          /\ setter'[s].step = "events" /\ setter'[s].draft.url = s
          /\ setter'[s].draft.events = row.events
          /\ writer = NoSetter /\ writer' = s
      BY <1>a, <1>2, <2>1 DEF Create, NoConfiguration, SetterRecords
    <3> QED BY <3>1, <2>0, <1>c, OthersWait DEF Inv, WritersHold, DraftsAreFresh, EventsSurvive
  <2>2. CASE row # NoConfiguration
    <3>1. /\ \A t \in Setters : setter'[t].step \in {"events", "commit"} => setter'[t] = setter[t]
          /\ UNCHANGED writer
      <4>1. setter' = [setter EXCEPT ![s].step = "failed"] /\ UNCHANGED writer
        BY <1>2, <2>2 DEF Create
      <4>2. /\ \A t \in Setters : t # s => setter'[t] = setter[t]
            /\ setter'[s].step = "failed"
        BY <1>a, <4>1 DEF SetterRecords
      <4> QED BY <4>1, <4>2
    <3> QED BY <3>1, <2>0, <1>b, <1>c DEF Inv, WritersHold, DraftsAreFresh, EventsSurvive, Merged
  <2> QED BY <2>1, <2>2
<1>3. CASE Update(s)
  <2>1. /\ \A t \in Setters : t # s => setter'[t] = setter[t]
        /\ setter'[s].step = "events" /\ setter'[s].draft = Updated(s)
        /\ writer = NoSetter /\ writer' = s /\ UNCHANGED <<row, enabled>>
    BY <1>a, <1>3 DEF Update, SetterRecords
  <2>2. Updated(s).url = s /\ Updated(s).events = row.events
    BY <1>a DEF Updated, Configurations
  <2> QED BY <2>1, <2>2, <1>c, OthersWait DEF Inv, WritersHold, DraftsAreFresh, EventsSurvive
<1>4. CASE UpsertEvents(s)
  <2>1. writer = s /\ setter[s].draft.url = s /\ setter[s].draft.events = row.events
    BY <1>4 DEF Inv, WritersHold, DraftsAreFresh, UpsertEvents
  <2>2. /\ \A t \in Setters : t # s => setter'[t] = setter[t]
        /\ setter'[s].step = "commit"
        /\ setter'[s].draft = [setter[s].draft EXCEPT !.events = Merged(s, row.events)]
        /\ UNCHANGED <<row, writer, enabled>>
    BY <1>a, <1>4, <2>1 DEF UpsertEvents, SetterRecords
  <2>3. setter'[s].draft.url = s /\ setter'[s].draft.events = Merged(s, row.events)
    BY <2>1, <2>2, <1>a DEF SetterRecords, Configurations
  <2>4. Merged(s, row.events)' = Merged(s, row.events)
    BY <2>2, <1>b DEF Merged
  <2> QED BY <2>1, <2>2, <2>3, <2>4, <1>c, OthersWait
          DEF Inv, WritersHold, DraftsAreFresh, EventsSurvive
<1>5. CASE Commit(s)
  <2>1. /\ writer = s /\ setter[s].draft.url = s
        /\ setter[s].draft.events = Merged(s, row.events) /\ row.events = enabled
    BY <1>5 DEF Inv, WritersHold, DraftsAreFresh, Commit, EventsSurvive
  <2>2. /\ \A t \in Setters : t # s => setter'[t] = setter[t]
        /\ setter'[s].step = "forget"
        /\ row' = setter[s].draft /\ enabled' = Merged(s, enabled)
    BY <1>a, <1>5 DEF Commit, SetterRecords
  <2>3. WholeAfter(row')
    BY <2>1, <2>2, <1>b DEF WholeAfter, Merged
  <2> QED BY <2>1, <2>2, <2>3, OthersWait DEF WritersHold, DraftsAreFresh, EventsSurvive
<1>6. CASE Fail(s)
  <2>1. /\ \A t \in Setters : t # s => setter'[t] = setter[t]
        /\ setter'[s].step = "failed" /\ UNCHANGED <<row, enabled>>
        /\ writer' = IF writer = s THEN NoSetter ELSE writer
    BY <1>a, <1>6 DEF Fail, SetterRecords
  <2>2. \A t \in Setters : setter'[t].step \in {"events", "commit"} =>
            writer' = t /\ setter'[t] = setter[t] /\ setter[t].draft.url = t
    BY <2>1, <1>a DEF Inv, WritersHold
  <2> QED BY <2>1, <2>2, <1>b, <1>c DEF Inv, WritersHold, DraftsAreFresh, EventsSurvive, Merged
<1> QED BY <1>1, <1>2, <1>3, <1>4, <1>5, <1>6 DEF SetStep

\* Every step keeps the invariant: a call's by SetStepInv, and a reader's gives
\* it the row or the cache's answer, which are whole.
LEMMA NextInv == Inv /\ [Next]_vars => Inv'
<1> SUFFICES ASSUME Inv, [Next]_vars PROVE Inv'
  OBVIOUS
<1>a. TypeOK'
  BY NextTypes DEF Inv
<1>b. /\ WholeAfter(row) /\ WholeAfter(entry.value) /\ WholeAfter(NoConfiguration)
      /\ \A d \in Dispatchers : WholeAfter(lookup[d].value)
  BY ReadersKept
<1>c. ASSUME UNCHANGED <<row, writer, setter, enabled>>
      PROVE  WritersHold' /\ DraftsAreFresh' /\ EventsSurvive' /\ WholeAfter(row')
  BY <1>b, <1>c DEF Inv, WritersHold, DraftsAreFresh, EventsSurvive, Merged
<1>1. ASSUME NEW s \in Setters, SetStep(s) PROVE Inv'
  <2>1. UNCHANGED lookup /\ entry' \in {entry, NoEntry}
    BY <1>1 DEF SetStep, Find, Create, Update, UpsertEvents, Commit, Fail, Forget, ForgetFails
  <2>2. WholeAfter(entry'.value) /\ \A d \in Dispatchers : WholeAfter(lookup'[d].value)
    BY <1>b, <2>1 DEF NoEntry
  <2> QED BY <1>a, <1>1, <2>2, SetStepInv, WholeNext DEF Inv
<1>2. ASSUME NEW d \in Dispatchers, Dispatch(d) PROVE Inv'
  <2>0. lookup \in [Dispatchers -> Lookups]
    BY DEF Inv, TypeOK
  <2>1. UNCHANGED <<row, writer, setter, enabled>>
    BY <1>2 DEF Dispatch, Hit, Miss, Read, Put
  <2>2. entry' = entry \/ entry'.value = lookup[d].value
    BY <1>2 DEF Dispatch, Hit, Miss, Read, Put
  <2>3. \A e \in Dispatchers : lookup'[e].value \in {lookup[e].value, entry.value, row}
    BY <1>2, <2>0 DEF Dispatch, Hit, Miss, Read, Put, Lookups
  <2>4. WholeAfter(entry'.value) /\ \A e \in Dispatchers : WholeAfter(lookup'[e].value)
    BY <1>b, <2>2, <2>3
  <2> QED BY <1>a, <1>c, <2>1, <2>4, WholeNext DEF Inv
<1>3. CASE Expire
  <2>1. UNCHANGED <<row, writer, setter, enabled, lookup>> /\ entry'.value = NoConfiguration
    BY <1>3 DEF Expire, NoEntry
  <2>2. WholeAfter(entry'.value) /\ \A e \in Dispatchers : WholeAfter(lookup'[e].value)
    BY <1>b, <2>1
  <2> QED BY <1>a, <1>c, <2>1, <2>2, WholeNext DEF Inv
<1>4. CASE UNCHANGED vars
  <2>1. UNCHANGED <<row, writer, setter, enabled, lookup, entry>>
    BY <1>4 DEF vars
  <2>2. WholeAfter(entry'.value) /\ \A e \in Dispatchers : WholeAfter(lookup'[e].value)
    BY <1>b, <2>1
  <2> QED BY <1>a, <1>c, <2>1, <2>2, WholeNext DEF Inv
<1> QED BY <1>1, <1>2, <1>3, <1>4 DEF Next

\* The committed events are those that the committed calls asked for, and no
\* reader holds a URL without its events.
THEOREM ConcurrentSetsSafe == Spec => []EventsSurvive /\ []NoHalfConfiguration
<1>1. Inv => EventsSurvive /\ NoHalfConfiguration
  BY DEF Inv
<1> QED BY <1>1, InitInv, NextInv, PTL DEF Spec

-----------------------------------------------------------------------------
(* The calls and lookups implement ConfigurationContract.                  *)

\* What was ever in effect: nothing, and what the calls committed.
Past == {NoConfiguration} \union {Written[s] : s \in Setters}

\* The row, the cache and the dispatchers hold nothing else.
Remembered ==
    /\ row \in Past
    /\ entry.value \in Past
    /\ \A d \in Dispatchers : lookup[d].value \in Past

\* A step of the detailed specification is one of the abstract one, or none.
Promised == Contract!Next \/ UNCHANGED <<row, Asked, Written, Known>>

\* Only its commit changes what a call has written, and it writes once.
LEMMA CommitWrites ==
    ASSUME TypeOK, NEW s \in Setters, Commit(s)
    PROVE  /\ Written[s] = NoConfiguration
           /\ Written' = [Written EXCEPT ![s] = setter[s].draft]
<1>1. /\ setter[s].step = "commit"
      /\ setter'[s].step = "forget" /\ setter'[s].draft = setter[s].draft
      /\ \A t \in Setters : t # s => setter'[t] = setter[t]
  BY DEF TypeOK, SetterRecords, Commit
<1> QED BY <1>1 DEF Written

\* No other step of a call does.
LEMMA OthersWriteNothing ==
    ASSUME TypeOK, NEW s \in Setters,
           Find(s) \/ Create(s) \/ Update(s) \/ UpsertEvents(s) \/ Fail(s)
               \/ Forget(s) \/ ForgetFails(s)
    PROVE  Written' = Written /\ row' = row
<1>1. /\ \A t \in Setters : t # s => setter'[t] = setter[t]
      /\ \/ /\ setter[s].step \notin {"forget", "done"}
            /\ setter'[s].step \notin {"forget", "done"}
         \/ /\ setter[s].step = "forget" /\ setter'[s].step = "done"
            /\ setter'[s].draft = setter[s].draft
  <2>0. setter \in [Setters -> SetterRecords] /\ setter[s] \in SetterRecords
    BY DEF TypeOK
  <2>1. CASE Find(s) \/ Update(s) \/ UpsertEvents(s) \/ Fail(s)
    BY <2>0, <2>1 DEF SetterRecords, Find, Update, UpsertEvents, Fail
  <2>2. CASE Create(s)
    BY <2>0, <2>2 DEF SetterRecords, Create
  <2>3. CASE Forget(s) \/ ForgetFails(s)
    BY <2>0, <2>3 DEF SetterRecords, Forget, ForgetFails
  <2> QED BY <2>1, <2>2, <2>3
<1>2. row' = row
  BY DEF Find, Create, Update, UpsertEvents, Fail, Forget, ForgetFails
<1> QED BY <1>1, <1>2 DEF Written

\* What the calls ask for is a constant of a behaviour.
LEMMA AskedKept ==
    ASSUME TypeOK, [Next]_vars
    PROVE  Asked' = Asked
BY AsksKept DEF Asked

\* A commit is the abstract Set: whole, and on top of the configuration that
\* was in effect, because the call held the row since it read it.
LEMMA CommitSets ==
    ASSUME Inv, [Next]_vars, NEW s \in Setters, Commit(s)
    PROVE  Contract!Set(s)
<1>a. TypeOK /\ setter[s].draft \in Configurations
  BY DEF Inv, TypeOK, SetterRecords
<1>1. setter[s].draft.url = s /\ setter[s].draft.events = Merged(s, row.events)
  BY DEF Inv, WritersHold, DraftsAreFresh, Commit
<1>2. Contract!After(s, row.events) = Merged(s, row.events)
  <2>1. setter[s].asks \in Asks /\ Asked[s] = setter[s].asks
    BY <1>a DEF TypeOK, SetterRecords, Asked
  <2> QED BY <2>1 DEF Contract!After, Merged, Asks
<1>3. setter[s].draft = [url |-> s, events |-> Contract!After(s, row.events)]
  BY <1>a, <1>1, <1>2 DEF Configurations
<1>4. row' = setter[s].draft
  BY DEF Commit
<1>5. Written[s] = NoConfiguration /\ Written' = [Written EXCEPT ![s] = row']
  BY <1>a, <1>4, CommitWrites
<1>6. Asked' = Asked
  BY <1>a, AskedKept
<1>7. Known' = Known
  BY DEF Commit, Known
<1> QED BY <1>3, <1>4, <1>5, <1>6, <1>7 DEF Contract!Set, Contract!Nothing, NoConfiguration

\* The past only grows.
LEMMA PastGrows ==
    ASSUME TypeOK, [Next]_vars
    PROVE  /\ Past \subseteq Past'
           /\ (\A s \in Setters : ~ Commit(s)) => UNCHANGED <<row, Written>>
           /\ \A s \in Setters : Commit(s) => row' \in Past'
<1>1. ASSUME NEW s \in Setters, Commit(s)
      PROVE  Past \subseteq Past' /\ row' \in Past'
  <2>1. /\ Written[s] = NoConfiguration
        /\ Written' = [Written EXCEPT ![s] = setter[s].draft]
        /\ row' = setter[s].draft
    BY <1>1, CommitWrites DEF Commit
  <2>2. Written'[s] = row' /\ \A t \in Setters : t # s => Written'[t] = Written[t]
    BY <2>1 DEF Written
  <2> QED BY <2>1, <2>2 DEF Past
<1>2. ASSUME \A s \in Setters : ~ Commit(s)
      PROVE  UNCHANGED <<row, Written>>
  <2>1. ASSUME NEW s \in Setters, SetStep(s) PROVE UNCHANGED <<row, Written>>
    BY <1>2, <2>1, OthersWriteNothing DEF SetStep
  <2>2. ASSUME UNCHANGED <<row, setter>> PROVE UNCHANGED <<row, Written>>
    BY <2>2 DEF Written
  <2>3. ASSUME NEW d \in Dispatchers, Dispatch(d) PROVE UNCHANGED <<row, setter>>
    BY <2>3 DEF Dispatch, Hit, Miss, Read, Put
  <2> QED BY <2>1, <2>2, <2>3 DEF Next, Expire, vars
<1>3. UNCHANGED Written => Past' = Past
  BY DEF Past
<1> QED BY <1>1, <1>2, <1>3

\* What the row, the cache and the dispatchers hold next, they or the row held
\* before, or it is committed now.
LEMMA RememberedNext == Inv /\ Remembered /\ [Next]_vars => Remembered'
<1> SUFFICES ASSUME Inv, Remembered, [Next]_vars PROVE Remembered'
  OBVIOUS
<1>a. TypeOK /\ lookup \in [Dispatchers -> Lookups]
  BY DEF Inv, TypeOK
<1>1. Past \subseteq Past' /\ NoConfiguration \in Past
  BY <1>a, PastGrows DEF Past
<1>2. row' \in Past'
  BY <1>a, <1>1, PastGrows DEF Remembered
<1>3. /\ entry'.value \in {entry.value, NoConfiguration} \union {lookup[d].value : d \in Dispatchers}
      /\ \A e \in Dispatchers : lookup'[e].value \in {lookup[e].value, entry.value, row}
  <2>1. ASSUME NEW s \in Setters, SetStep(s)
        PROVE  UNCHANGED lookup /\ entry' \in {entry, NoEntry}
    BY <2>1 DEF SetStep, Find, Create, Update, UpsertEvents, Commit, Fail, Forget, ForgetFails
  <2>2. ASSUME NEW d \in Dispatchers, Dispatch(d)
        PROVE  /\ entry' = entry \/ entry'.value = lookup[d].value
               /\ \A e \in Dispatchers : lookup'[e].value \in {lookup[e].value, entry.value, row}
    BY <2>2, <1>a DEF Dispatch, Hit, Miss, Read, Put, Lookups
  <2>3. CASE Expire \/ UNCHANGED vars
    BY <2>3 DEF Expire, NoEntry, vars
  <2> QED BY <2>1, <2>2, <2>3 DEF Next, NoEntry
<1> QED BY <1>1, <1>2, <1>3 DEF Remembered

\* An answer is learned from the past, and everything else but a commit is
\* hidden from the abstract specification.
LEMMA StepsKeepPromise == Inv /\ Remembered /\ [Next]_vars => Promised
<1> SUFFICES ASSUME Inv, Remembered, [Next]_vars PROVE Promised
  OBVIOUS
<1>a. TypeOK /\ lookup \in [Dispatchers -> Lookups]
  BY DEF Inv, TypeOK
<1>b. Asked' = Asked
  BY <1>a, AskedKept
<1>1. ASSUME NEW s \in Setters, Commit(s) PROVE Contract!Next
  BY <1>1, CommitSets DEF Contract!Next
<1>2. ASSUME \A s \in Setters : ~ Commit(s) PROVE Promised
  <2>0. UNCHANGED <<row, Written>>
    BY <1>a, <1>2, PastGrows
  <2>1. ASSUME NEW d \in Dispatchers, Hit(d) \/ Read(d) PROVE Contract!Next
    <3>1. PICK v \in Past : Known' = [Known EXCEPT ![d] = v]
      <4>1. CASE Hit(d)
        <5>1. lookup' = [lookup EXCEPT ![d].value = entry.value]
          BY <4>1 DEF Hit
        <5> QED BY <5>1, <1>a DEF Remembered, Known, Lookups
      <4>2. CASE Read(d)
        <5>1. lookup' = [lookup EXCEPT ![d].step = "put", ![d].value = row]
          BY <4>2 DEF Read
        <5> QED BY <5>1, <1>a DEF Remembered, Known, Lookups
      <4> QED BY <2>1, <4>1, <4>2
    <3>2. Contract!Past = Past
      BY DEF Contract!Past, Past, Contract!Nothing, NoConfiguration
    <3>3. Contract!Learn(d)
      BY <3>1, <3>2, <2>0, <1>b DEF Contract!Learn
    <3> QED BY <3>3 DEF Contract!Next
  <2>2. ASSUME NEW d \in Dispatchers, Miss(d) \/ Put(d) PROVE Known' = Known
    BY <2>2, <1>a DEF Miss, Put, Known, Lookups
  <2>3. ASSUME NEW s \in Setters, SetStep(s) PROVE Known' = Known
    <3>1. UNCHANGED lookup
      BY <2>3 DEF SetStep, Find, Create, Update, UpsertEvents, Commit, Fail, Forget, ForgetFails
    <3> QED BY <3>1 DEF Known
  <2>4. CASE Expire \/ UNCHANGED vars
    BY <2>4, <2>0, <1>b DEF Expire, vars, Known, Promised
  <2> QED BY <2>0, <2>1, <2>2, <2>3, <2>4, <1>b DEF Next, Dispatch, Promised
<1> QED BY <1>1, <1>2 DEF Promised

\* The first state is an abstract first state.
LEMMA InitPromise == Init => Contract!Init /\ Remembered
<1> SUFFICES ASSUME Init PROVE Contract!Init /\ Remembered
  OBVIOUS
<1>1. Written = [s \in Setters |-> NoConfiguration]
  BY DEF Init, Written
<1>2. Asked \in [Setters -> {"nothing", "own", "clear"}]
  BY DEF Init, Asked, Asks
<1>3. Known = [d \in Dispatchers |-> NoConfiguration]
  BY DEF Init, Known
<1>4. Remembered
  BY DEF Init, Remembered, Past, NoEntry
<1> QED BY <1>1, <1>2, <1>3, <1>4 DEF Init, Contract!Init, Contract!Nothing, NoConfiguration

\* Calls of Set take effect one after the other, each whole and at its commit,
\* on what the one before left; and every answer a dispatcher acts on was in
\* effect once, however late a slow lookup put it into the cache (Set, lookup).
THEOREM KeepsContract == Spec => KeepsConfigurationContract
<1>1. Promised => [Contract!Next]_(Contract!vars)
  BY DEF Promised, Contract!vars
<1>2. Init => Inv /\ Remembered /\ Contract!Init
  BY InitInv, InitPromise
<1>3. Inv /\ Remembered /\ [Next]_vars => (Inv /\ Remembered)' /\ Promised
  BY NextInv, RememberedNext, StepsKeepPromise
<1> QED BY <1>1, <1>2, <1>3, PTL DEF Spec, KeepsConfigurationContract, Contract!Spec

-----------------------------------------------------------------------------
(* A configuration that was replaced does not return.                      *)

\* What a call has written carries its own URL.
WrittenIsOwn == \A s \in Setters : Written[s] = NoConfiguration \/ Written[s].url = s

\* No call of Set brings back what another one replaced, although each of them
\* writes what it read before it committed (Update, UpsertEvents).
NothingReturns == [][row' # row => row' \notin Past]_vars

\* A commit is new, and the call's own.
LEMMA CommitsAreNew ==
    ASSUME Inv, WrittenIsOwn, [Next]_vars
    PROVE  WrittenIsOwn' /\ (row' # row => row' \notin Past)
<1>a. TypeOK
  BY DEF Inv
<1>1. ASSUME NEW s \in Setters, Commit(s)
      PROVE  WrittenIsOwn' /\ row' \notin Past
  <2>1. /\ Written[s] = NoConfiguration
        /\ Written' = [Written EXCEPT ![s] = setter[s].draft]
    BY <1>a, <1>1, CommitWrites
  <2>2. row' = setter[s].draft /\ setter[s].draft.url = s
    BY <1>1 DEF Inv, WritersHold, Commit
  <2>3. WrittenIsOwn'
    <3>1. Written'[s].url = s /\ \A t \in Setters : t # s => Written'[t] = Written[t]
      BY <2>1, <2>2 DEF Written
    <3> QED BY <3>1 DEF WrittenIsOwn
  <2>4. NoConfiguration.url # s
    BY SetterAssumption DEF NoConfiguration
  <2>5. \A t \in Setters : Written[t] = NoConfiguration \/ (t # s /\ Written[t].url = t)
    BY <2>1 DEF WrittenIsOwn
  <2> QED BY <2>2, <2>3, <2>4, <2>5 DEF Past
<1>2. CASE \A s \in Setters : ~ Commit(s)
  BY <1>a, <1>2, PastGrows DEF WrittenIsOwn
<1> QED BY <1>1, <1>2

\* Each configuration is in effect for one time only, from the commit of the
\* call that set it until the next call's (Set).
THEOREM NoConfigurationReturns == Spec => NothingReturns
<1>1. Init => Inv /\ WrittenIsOwn
  BY InitInv DEF Init, WrittenIsOwn, Written
<1>2. Inv /\ WrittenIsOwn /\ [Next]_vars =>
        (Inv /\ WrittenIsOwn)' /\ [row' # row => row' \notin Past]_vars
  BY NextInv, CommitsAreNew
<1> QED BY <1>1, <1>2, PTL DEF Spec, NothingReturns

=============================================================================
