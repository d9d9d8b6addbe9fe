------------------------- MODULE MessageStore_proofs -------------------------
(***************************************************************************)
(* Proofs about the stored messages of one instance, for any sets of       *)
(* messages, chats, goroutines and requests.                               *)
(***************************************************************************)
EXTENDS MessageStore, TLAPS

(***************************************************************************)
(* Types.                                                                  *)
(***************************************************************************)

WorkRecords == [step : EventSteps, message : Messages \union {NoMessage},
                left : SUBSET Messages, status : Statuses]

CallRecords == [step : CallSteps, message : Messages \union {NoMessage}, seen : Content,
                text : Texts, ids : SUBSET Messages, chats : SUBSET Chats]

\* A goroutine that handles one message knows which, and one of a receipt finds
\* it among those that are left.
WorkKnown(g) ==
    /\ work[g].step \in {"store", "announce", "listen", "update", "inform"} =>
         work[g].message \in Messages
    /\ work[g].step \in {"update", "inform"} => work[g].message \in work[g].left

\* A request for one message knows which.
CallKnown(r) == call[r].step \notin {"idle", "read", "save read"} => call[r].message \in Messages

Typed ==
    /\ TypeOK
    /\ \A g \in Goroutines : WorkKnown(g)
    /\ \A r \in Requests : CallKnown(r)

\* What an event's goroutine writes into its record.
LEMMA NoWorkTyped == NoWork \in WorkRecords
BY StatusAssumption DEF NoWork, WorkRecords, EventSteps

\* The contents and records that the actions build are typed.
LEMMA FreshTyped == Fresh \in Content
BY DEF Fresh, Content, Texts

\* So is the record of a caller without a call.
LEMMA NoCallTyped == NoCall \in CallRecords
BY FreshTyped DEF NoCall, CallRecords, CallSteps, Texts

\* What a goroutine is given is what it has, and the others keep theirs.
LEMMA WorkSet ==
    ASSUME TypeOK, NEW g \in Goroutines, NEW w \in WorkRecords, work' = [work EXCEPT ![g] = w]
    PROVE  /\ work' \in [Goroutines -> WorkRecords]
           /\ work'[g] = w
           /\ \A h \in Goroutines : h # g => work'[h] = work[h]
BY DEF TypeOK, WorkRecords

\* A goroutine that ends is idle.
LEMMA WorkEnded ==
    ASSUME TypeOK, NEW g \in Goroutines, Ends(g)
    PROVE  /\ work' \in [Goroutines -> WorkRecords]
           /\ work'[g].step = "idle"
           /\ \A h \in Goroutines : h # g => work'[h] = work[h]
<1>1. NoWork.step = "idle"
  BY DEF NoWork
<1> QED BY <1>1, WorkSet, NoWorkTyped DEF Ends

\* One that goes on keeps its event.
LEMMA WorkMoved ==
    ASSUME TypeOK, NEW g \in Goroutines, NEW s \in EventSteps, DoesNext(g, s)
    PROVE  /\ work' \in [Goroutines -> WorkRecords]
           /\ work'[g].step = s
           /\ work'[g].message = work[g].message
           /\ work'[g].left = work[g].left
           /\ work'[g].status = work[g].status
           /\ \A h \in Goroutines : h # g => work'[h] = work[h]
BY DEF TypeOK, WorkRecords, DoesNext

\* One that found a message of its receipt goes on with that message.
LEMMA WorkFound ==
    ASSUME TypeOK, NEW g \in Goroutines, NEW m \in Messages, NEW s \in EventSteps,
           work' = [work EXCEPT ![g].message = m, ![g].step = s]
    PROVE  /\ work' \in [Goroutines -> WorkRecords]
           /\ work'[g].message = m /\ work'[g].left = work[g].left
           /\ \A h \in Goroutines : h # g => work'[h] = work[h]
<1> DEFINE w == [work[g] EXCEPT !.message = m, !.step = s]
<1>1. work \in [Goroutines -> WorkRecords] /\ work[g] \in WorkRecords
  BY DEF TypeOK, WorkRecords
<1>2. w \in WorkRecords /\ w.message = m /\ w.left = work[g].left
  BY <1>1 DEF WorkRecords
<1>3. work' = [work EXCEPT ![g] = w]
  BY <1>1
<1> HIDE DEF w
<1> QED BY <1>2, <1>3, WorkSet

\* One that leaves a message out goes on with the rest of its receipt.
LEMMA WorkContinued ==
    ASSUME TypeOK, NEW g \in Goroutines, NEW m, Continue(g, m)
    PROVE  /\ work' \in [Goroutines -> WorkRecords]
           /\ work'[g].step \in {"idle", "find"}
           /\ work'[g].step = "find" => /\ work'[g].left \subseteq work[g].left
                                        /\ work'[g].status = work[g].status
           /\ \A h \in Goroutines : h # g => work'[h] = work[h]
<1>1. work[g].left \ {m} \in SUBSET Messages /\ work[g].status \in Statuses
  BY DEF TypeOK
<1>2. CASE work[g].left \ {m} = {}
  <2>1. Ends(g)
    BY <1>2 DEF Continue, Ends
  <2> QED BY <2>1, WorkEnded
<1>3. CASE work[g].left \ {m} # {}
  <2> DEFINE w == [NoWork EXCEPT !.step = "find", !.left = work[g].left \ {m},
                                 !.status = work[g].status]
  <2>1. /\ w \in WorkRecords
        /\ w.step = "find" /\ w.left = work[g].left \ {m} /\ w.status = work[g].status
    BY <1>1, NoWorkTyped DEF WorkRecords, EventSteps
  <2>2. work' = [work EXCEPT ![g] = w]
    BY <1>3 DEF Continue
  <2> HIDE DEF w
  <2> QED BY <2>1, <2>2, WorkSet
<1> QED BY <1>2, <1>3

\* What a call is given is what it has, and the others keep theirs.
LEMMA CallSet ==
    ASSUME TypeOK, NEW r \in Requests, NEW c \in CallRecords, call' = [call EXCEPT ![r] = c]
    PROVE  /\ call' \in [Requests -> CallRecords]
           /\ call'[r] = c
           /\ \A q \in Requests : q # r => call'[q] = call[q]
BY DEF TypeOK, CallRecords

\* A call that goes on keeps what it read.
LEMMA CallMoved ==
    ASSUME TypeOK, NEW r \in Requests, NEW s \in CallSteps, Goto(r, s)
    PROVE  /\ call' \in [Requests -> CallRecords]
           /\ call'[r].step = s
           /\ call'[r].message = call[r].message
           /\ call'[r].seen = call[r].seen
           /\ call'[r].text = call[r].text
           /\ call'[r].ids = call[r].ids
           /\ call'[r].chats = call[r].chats
           /\ \A q \in Requests : q # r => call'[q] = call[q]
BY DEF TypeOK, CallRecords, Goto

\* A call that returns is idle.
LEMMA CallReturned ==
    ASSUME TypeOK, NEW r \in Requests, Return(r)
    PROVE  /\ call' \in [Requests -> CallRecords]
           /\ call'[r].step = "idle"
           /\ \A q \in Requests : q # r => call'[q] = call[q]
<1>1. NoCall.step = "idle"
  BY DEF NoCall
<1> QED BY <1>1, CallSet, NoCallTyped DEF Return

(***************************************************************************)
(* Every step keeps the types.                                             *)
(***************************************************************************)

\* Other records than that of goroutine g are as they were.
LEMMA WorkKnownStep ==
    ASSUME Typed, NEW g \in Goroutines,
           \A h \in Goroutines : h # g => work'[h] = work[h],
           WorkKnown(g)'
    PROVE  \A h \in Goroutines : WorkKnown(h)'
BY DEF Typed, WorkKnown

\* A step of one call leaves what the others know.
LEMMA CallKnownStep ==
    ASSUME Typed, NEW r \in Requests,
           \A q \in Requests : q # r => call'[q] = call[q],
           CallKnown(r)'
    PROVE  \A q \in Requests : CallKnown(q)'
BY DEF Typed, CallKnown

\* The initial state is typed.
LEMMA InitTyped == Init => Typed
<1> SUFFICES ASSUME Init PROVE Typed
  OBVIOUS
<1>1. /\ work \in [Goroutines -> WorkRecords] /\ \A g \in Goroutines : work[g].step = "idle"
      /\ call \in [Requests -> CallRecords] /\ \A r \in Requests : call[r].step = "idle"
  <2>1. NoWork.step = "idle" /\ NoCall.step = "idle"
    BY DEF NoWork, NoCall
  <2> QED BY <2>1, NoWorkTyped, NoCallTyped DEF Init
<1>2. content \in [Messages -> Content] /\ shown \in [Messages -> Content]
  BY FreshTyped DEF Init
<1>3. TypeOK
  BY <1>1, <1>2 DEF Init, TypeOK, WorkRecords, CallRecords
<1> QED BY <1>1, <1>3 DEF Typed, WorkKnown, CallKnown

\* The steps of an event's goroutine.
LEMMA HandleTyped ==
    ASSUME Typed, NEW g \in Goroutines, Handle(g)
    PROVE  Typed'
<1>0. TypeOK /\ WorkKnown(g)
  BY DEF Typed
<1>1. UNCHANGED <<instance, call, texts, shown, status, disturbed>>
  BY DEF Handle, CreateOrIgnore, AnnounceUpsert, TellInbound, FindForReceipt, SaveUpdate,
         AnnounceUpdate, database, whatsapp
<1>2. \A r \in Requests : CallKnown(r)'
  BY <1>1 DEF Typed, CallKnown
<1>3. SUFFICES /\ stored' \subseteq Messages /\ content' \in [Messages -> Content]
               /\ updates' \subseteq Messages \X Statuses
               /\ announced' \in (Messages \union {NoMessage}) \X (Statuses \union {"upsert", "sent"})
               /\ work' \in [Goroutines -> WorkRecords]
               /\ \A h \in Goroutines : h # g => work'[h] = work[h]
               /\ WorkKnown(g)'
  <2>1. TypeOK'
    BY <1>0, <1>1, <1>3 DEF TypeOK, WorkRecords
  <2> QED BY <1>2, <1>3, <2>1, WorkKnownStep DEF Typed
<1>4. CASE CreateOrIgnore(g)
  <2>1. work[g].message \in Messages
    BY <1>0, <1>4 DEF CreateOrIgnore, Does, WorkKnown
  <2>2. stored' \subseteq Messages /\ content' \in [Messages -> Content]
    BY <1>0, <1>4, <2>1, FreshTyped DEF CreateOrIgnore, Insert, TypeOK
  <2>3. UNCHANGED <<updates, announced>>
    BY <1>4 DEF CreateOrIgnore
  <2>4. CASE DoesNext(g, "announce")
    BY <1>0, <2>1, <2>2, <2>3, <2>4, WorkMoved DEF TypeOK, WorkKnown, EventSteps
  <2>5. CASE Ends(g)
    BY <1>0, <2>2, <2>3, <2>5, WorkEnded DEF TypeOK, WorkKnown
  <2> QED BY <1>4, <2>4, <2>5 DEF CreateOrIgnore
<1>5. CASE AnnounceUpsert(g)
  <2>1. work[g].message \in Messages /\ UNCHANGED <<stored, content, updates>>
    BY <1>0, <1>5 DEF AnnounceUpsert, Does, WorkKnown, database
  <2>2. announced' \in {announced, <<work[g].message, "upsert">>}
    BY <1>5 DEF AnnounceUpsert, Dispatch
  <2>3. CASE DoesNext(g, "listen")
    BY <1>0, <2>1, <2>2, <2>3, WorkMoved DEF TypeOK, WorkKnown, EventSteps
  <2>4. CASE Ends(g)
    BY <1>0, <2>1, <2>2, <2>4, WorkEnded DEF TypeOK, WorkKnown
  <2> QED BY <1>5, <2>3, <2>4 DEF AnnounceUpsert
<1>6. CASE TellInbound(g)
  BY <1>0, <1>6, WorkEnded DEF TellInbound, database, TypeOK, WorkKnown
<1>7. CASE FindForReceipt(g)
  <2>1. UNCHANGED <<stored, content, updates, announced>>
    BY <1>7 DEF FindForReceipt, database
  <2>2. PICK m \in work[g].left :
          \/ work' = [work EXCEPT ![g].message = m,
                                 ![g].step = IF SaveUpdates THEN "update" ELSE "inform"]
          \/ Continue(g, m)
    BY <1>7 DEF FindForReceipt
  <2>3. CASE Continue(g, m)
    BY <1>0, <2>1, <2>3, WorkContinued DEF TypeOK, WorkKnown
  <2>4. CASE work' = [work EXCEPT ![g].message = m,
                                  ![g].step = IF SaveUpdates THEN "update" ELSE "inform"]
    <3>1. m \in Messages
      BY <1>0 DEF TypeOK
    <3>2. (IF SaveUpdates THEN "update" ELSE "inform") \in EventSteps
      BY DEF EventSteps
    <3>3. /\ work' \in [Goroutines -> WorkRecords]
          /\ work'[g].message = m /\ work'[g].left = work[g].left
          /\ \A h \in Goroutines : h # g => work'[h] = work[h]
      BY <1>0, <2>4, <3>1, <3>2, WorkFound
    <3> QED BY <1>0, <2>1, <3>1, <3>3 DEF TypeOK, WorkKnown
  <2> QED BY <2>2, <2>3, <2>4
<1>8. CASE SaveUpdate(g)
  <2>1. work[g].message \in Messages /\ work[g].message \in work[g].left
    BY <1>0, <1>8 DEF SaveUpdate, Does, WorkKnown
  <2>2. UNCHANGED <<stored, content, announced>>
    BY <1>8 DEF SaveUpdate
  <2>3. updates' \in {updates, updates \union {<<work[g].message, work[g].status>>}}
    BY <1>8 DEF SaveUpdate
  <2>4. updates' \subseteq Messages \X Statuses
    BY <1>0, <2>1, <2>3 DEF TypeOK
  <2>5. CASE DoesNext(g, "inform")
    BY <1>0, <2>1, <2>2, <2>4, <2>5, WorkMoved DEF TypeOK, WorkKnown, EventSteps
  <2>6. CASE Continue(g, work[g].message)
    BY <1>0, <2>2, <2>4, <2>6, WorkContinued DEF TypeOK, WorkKnown
  <2> QED BY <1>8, <2>5, <2>6 DEF SaveUpdate
<1>9. CASE AnnounceUpdate(g)
  <2>1. work[g].message \in Messages /\ UNCHANGED <<stored, content, updates>>
    BY <1>0, <1>9 DEF AnnounceUpdate, Does, WorkKnown, database
  <2>2. announced' \in {announced, <<work[g].message, work[g].status>>}
    BY <1>9 DEF AnnounceUpdate, Dispatch
  <2>3. Continue(g, work[g].message)
    BY <1>9 DEF AnnounceUpdate
  <2> QED BY <1>0, <2>1, <2>2, <2>3, WorkContinued DEF TypeOK, WorkKnown
<1> QED BY <1>4, <1>5, <1>6, <1>7, <1>8, <1>9 DEF Handle

\* What a step of request r has to leave typed.
ServeKeeps(r) ==
    /\ stored' \subseteq Messages /\ content' \in [Messages -> Content]
    /\ updates' \subseteq Messages \X Statuses
    /\ announced' \in (Messages \union {NoMessage}) \X (Statuses \union {"upsert", "sent"})
    /\ call' \in [Requests -> CallRecords]
    /\ \A q \in Requests : q # r => call'[q] = call[q]
    /\ CallKnown(r)'
    /\ texts' \in [Messages -> SUBSET Texts] /\ shown' \in [Messages -> Content]
    /\ status' \in [Messages -> SUBSET Statuses] /\ disturbed' \subseteq Messages

\* A read receipt that goes on to its next chat,
LEMMA MarkedRecord ==
    ASSUME NEW c \in CallRecords, NEW left \in SUBSET Chats, NEW s \in CallSteps
    PROVE  [c EXCEPT !.chats = left, !.step = s] \in CallRecords
BY DEF CallRecords

\* a content that is edited
LEMMA KnownText ==
    ASSUME NEW c \in Content, NEW t \in Texts
    PROVE  [c EXCEPT !.text = t] \in Content
BY DEF Content

\* and one that is deleted keep their types.
LEMMA KnownDeleted ==
    ASSUME NEW c \in Content
    PROVE  [c EXCEPT !.deleted = TRUE] \in Content
BY DEF Content

\* The steps of a request.
LEMMA ServeTyped ==
    ASSUME Typed, NEW r \in Requests, Serve(r)
    PROVE  Typed'
<1>0. TypeOK /\ CallKnown(r)
  BY DEF Typed
<1>1. UNCHANGED <<instance, work>>
  BY DEF Serve, SendMessage, PersistSentMessage, ReportSent, SendEdit, SendRevoke, SendChange,
         SaveEdit, SaveDelete, UpdateContent, MarkRead, SaveRead, database
<1>2. \A g \in Goroutines : WorkKnown(g)'
  BY <1>1 DEF Typed, WorkKnown
<1>3. SUFFICES ServeKeeps(r)
  <2>1. TypeOK'
    BY <1>0, <1>1, <1>3 DEF TypeOK, CallRecords, ServeKeeps
  <2> QED BY <1>2, <1>3, <2>1, CallKnownStep DEF Typed, ServeKeeps
<1>4. ASSUME NEW s \in CallSteps, Goto(r, s), call[r].step \notin {"idle", "read", "save read"}
      PROVE  /\ call' \in [Requests -> CallRecords]
             /\ \A q \in Requests : q # r => call'[q] = call[q]
             /\ CallKnown(r)'
  BY <1>0, <1>4, CallMoved DEF CallKnown
<1>5. ASSUME Return(r)
      PROVE  /\ call' \in [Requests -> CallRecords]
             /\ \A q \in Requests : q # r => call'[q] = call[q]
             /\ CallKnown(r)'
  BY <1>0, <1>5, CallReturned DEF CallKnown
<1>6. CASE SendMessage(r)
  <2>1. call[r].message \in Messages /\ call[r].step = "send"
    BY <1>0, <1>6 DEF SendMessage, At, CallKnown
  <2>2. UNCHANGED <<stored, content, updates, announced, shown, status, disturbed>>
    BY <1>6 DEF SendMessage, database
  <2>3. texts' \in {texts, [texts EXCEPT ![call[r].message] = @ \union {Original}]}
    BY <1>6 DEF SendMessage
  <2>4. texts' \in [Messages -> SUBSET Texts]
    BY <1>0, <2>1, <2>3 DEF TypeOK, Texts
  <2>5. Goto(r, "create") \/ Return(r)
    BY <1>6 DEF SendMessage
  <2> QED BY <1>0, <1>4, <1>5, <2>1, <2>2, <2>4, <2>5 DEF TypeOK, CallSteps, ServeKeeps
<1>7. CASE PersistSentMessage(r)
  <2>1. call[r].message \in Messages /\ call[r].step = "create"
    BY <1>0, <1>7 DEF PersistSentMessage, At, CallKnown
  <2>2. UNCHANGED <<updates, announced, texts, shown, status, disturbed>>
    BY <1>7 DEF PersistSentMessage, whatsapp
  <2>3. stored' \subseteq Messages /\ content' \in [Messages -> Content]
    BY <1>0, <1>7, <2>1, FreshTyped DEF PersistSentMessage, Insert, TypeOK
  <2>4. Goto(r, "report") \/ Return(r)
    BY <1>7 DEF PersistSentMessage
  <2> QED BY <1>0, <1>4, <1>5, <2>1, <2>2, <2>3, <2>4 DEF TypeOK, CallSteps, ServeKeeps
<1>8. CASE ReportSent(r)
  <2>1. call[r].message \in Messages
    BY <1>0, <1>8 DEF ReportSent, At, CallKnown
  <2>2. UNCHANGED <<stored, content, updates, texts, shown, status, disturbed>> /\ Return(r)
    BY <1>8 DEF ReportSent, database, whatsapp
  <2>3. announced' \in {announced, <<call[r].message, "sent">>}
    BY <1>8 DEF ReportSent, Dispatch
  <2> QED BY <1>0, <1>5, <2>1, <2>2, <2>3 DEF TypeOK, ServeKeeps
<1>9. ASSUME NEW step \in {"edit", "delete"}, NEW save \in {"save edit", "save delete"},
             NEW newTexts \in [Messages -> SUBSET Texts], NEW newShown \in [Messages -> Content],
             SendChange(r, step, save, newTexts, newShown)
      PROVE  ServeKeeps(r)
  <2>1. call[r].message \in Messages /\ call[r].step \notin {"idle", "read", "save read"}
    BY <1>0, <1>9 DEF SendChange, At, CallKnown
  <2>2. UNCHANGED <<stored, content, updates, announced, status>>
    BY <1>9 DEF SendChange, database
  <2>3. /\ texts' \in {texts, newTexts} /\ shown' \in {shown, newShown}
        /\ disturbed' \in {disturbed, disturbed \union {call[r].message}}
    BY <1>9 DEF SendChange
  <2>4. Goto(r, save) \/ Return(r)
    BY <1>9 DEF SendChange
  <2> QED BY <1>0, <1>4, <1>5, <1>9, <2>1, <2>2, <2>3, <2>4 DEF TypeOK, CallSteps, ServeKeeps
<1>10. CASE SendEdit(r)
  <2>1. [texts EXCEPT ![call[r].message] = @ \union {call[r].text}] \in [Messages -> SUBSET Texts]
    <3>1. texts \in [Messages -> SUBSET Texts] /\ call[r].text \in Texts
      BY <1>0 DEF TypeOK
    <3> QED BY <3>1
  <2>2. [shown EXCEPT ![call[r].message].text = call[r].text] \in [Messages -> Content]
    BY <1>0 DEF TypeOK, Content
  <2> QED BY <1>9, <1>10, <2>1, <2>2 DEF SendEdit
<1>11. CASE SendRevoke(r)
  <2>1. [shown EXCEPT ![call[r].message].deleted = TRUE] \in [Messages -> Content]
    BY <1>0 DEF TypeOK, Content
  <2> QED BY <1>0, <1>9, <1>11, <2>1 DEF SendRevoke, TypeOK
<1>12. ASSUME NEW step \in {"save edit", "save delete"}, NEW new \in Content,
              UpdateContent(r, step, new)
       PROVE  ServeKeeps(r)
  <2>1. call[r].message \in Messages
    BY <1>0, <1>12 DEF UpdateContent, At, CallKnown
  <2>2. UNCHANGED <<stored, updates, announced, texts, shown, status>> /\ Return(r)
    BY <1>12 DEF UpdateContent, whatsapp
  <2>3. /\ content' \in {content, [content EXCEPT ![call[r].message] = new]}
        /\ disturbed' \in {disturbed, disturbed \union {call[r].message}}
    BY <1>12 DEF UpdateContent
  <2>4. content' \in [Messages -> Content]
    BY <1>0, <2>3 DEF TypeOK
  <2> QED BY <1>0, <1>5, <2>1, <2>2, <2>3, <2>4 DEF TypeOK, ServeKeeps
<1>13. CASE SaveEdit(r)
  <2>1. [call[r].seen EXCEPT !.text = call[r].text] \in Content
    BY <1>0, KnownText DEF TypeOK
  <2> QED BY <1>12, <1>13, <2>1 DEF SaveEdit
<1>14. CASE SaveDelete(r)
  <2>1. [call[r].seen EXCEPT !.deleted = TRUE] \in Content
    BY <1>0, KnownDeleted DEF TypeOK
  <2> QED BY <1>12, <1>14, <2>1 DEF SaveDelete
<1>15. CASE MarkRead(r)
  <2>1. UNCHANGED <<stored, content, updates, announced, texts, shown, disturbed>>
    BY <1>15 DEF MarkRead, database
  <2> DEFINE known(c) == [m \in Messages |-> status[m] \union
                            (IF m \in call[r].ids /\ Chat[m] = c THEN {"read"} ELSE {})]
             left(c) == call[r].chats \ {c}
  <2>2. PICK c \in call[r].chats :
          \/ /\ status' = known(c)
             /\ call' = [call EXCEPT ![r].chats = left(c),
                                     ![r].step = IF left(c) = {} THEN "save read" ELSE "read"]
          \/ Return(r) /\ status' \in {status, known(c)}
    BY <1>15 DEF MarkRead
  <2>3. status' \in [Messages -> SUBSET Statuses]
    <3>1. status' = status \/ status' = known(c)
      BY <2>2
    <3>2. known(c) \in [Messages -> SUBSET Statuses]
      BY <1>0, StatusAssumption DEF TypeOK
    <3> QED BY <1>0, <3>1, <3>2 DEF TypeOK
  <2>4. CASE Return(r)
    BY <1>0, <1>5, <2>1, <2>3, <2>4 DEF TypeOK, ServeKeeps
  <2>5. CASE call' = [call EXCEPT ![r].chats = left(c),
                                  ![r].step = IF left(c) = {} THEN "save read" ELSE "read"]
    <3>1. left(c) \in SUBSET Chats
      BY <1>0 DEF TypeOK
    <3>2. PICK s \in {"read", "save read"} :
            call' = [call EXCEPT ![r].chats = left(c), ![r].step = s]
      BY <2>5
    <3> HIDE DEF left
    <3>3. s \in CallSteps
      BY DEF CallSteps
    <3>4. [call[r] EXCEPT !.chats = left(c), !.step = s] \in CallRecords
      <4>1. call[r] \in CallRecords
        BY <1>0 DEF TypeOK, CallRecords
      <4> QED BY <3>1, <3>3, <4>1, MarkedRecord
    <3>5. [call[r] EXCEPT !.chats = left(c), !.step = s].step = s
      BY <1>0 DEF TypeOK
    <3>6. call' = [call EXCEPT ![r] = [call[r] EXCEPT !.chats = left(c), !.step = s]]
      BY <1>0, <3>2 DEF TypeOK
    <3>7. /\ call' \in [Requests -> CallRecords] /\ call'[r].step = s
          /\ \A q \in Requests : q # r => call'[q] = call[q]
      BY <1>0, <3>4, <3>5, <3>6, CallSet
    <3> QED BY <1>0, <2>1, <2>3, <3>7 DEF TypeOK, CallKnown, ServeKeeps
  <2> QED BY <2>2, <2>4, <2>5
<1>16. CASE SaveRead(r)
  <2>1. UNCHANGED <<stored, content, announced, texts, shown, status, disturbed>> /\ Return(r)
    BY <1>16 DEF SaveRead, whatsapp
  <2>2. updates' \in {updates, updates \union (call[r].ids \X {"read"})}
    BY <1>16 DEF SaveRead
  <2>3. updates' \subseteq Messages \X Statuses
    BY <1>0, <2>2, StatusAssumption DEF TypeOK
  <2> QED BY <1>0, <1>5, <2>1, <2>3 DEF TypeOK, ServeKeeps
<1> QED BY <1>6, <1>7, <1>8, <1>10, <1>11, <1>13, <1>14, <1>15, <1>16 DEF Serve

\* The steps that begin something, and those of the environment.
LEMMA ArrivalTyped ==
    ASSUME Typed, NEW g \in Goroutines,
           \/ \E m \in Messages : MessageArrives(g, m)
           \/ \E ids \in SUBSET Messages, s \in Statuses : ReceiptArrives(g, ids, s)
    PROVE  Typed'
<1>0. TypeOK
  BY DEF Typed
<1>1. UNCHANGED <<instance, stored, content, updates, announced, call, shown, disturbed>>
  BY DEF MessageArrives, ReceiptArrives, database
<1>2. \A r \in Requests : CallKnown(r)'
  BY <1>1 DEF Typed, CallKnown
<1>3. CASE \E m \in Messages : MessageArrives(g, m)
  <2>1. PICK m \in Messages : MessageArrives(g, m)
    BY <1>3
  <2> DEFINE w == [NoWork EXCEPT !.step = "store", !.message = m]
  <2>2. w \in WorkRecords /\ w.step = "store" /\ w.message = m
    BY NoWorkTyped DEF WorkRecords, EventSteps
  <2>3. work' = [work EXCEPT ![g] = w] /\ UNCHANGED status
    BY <2>1 DEF MessageArrives
  <2> HIDE DEF w
  <2>4. /\ work' \in [Goroutines -> WorkRecords] /\ work'[g] = w
        /\ \A h \in Goroutines : h # g => work'[h] = work[h]
    BY <1>0, <2>2, <2>3, WorkSet
  <2>5. texts' \in [Messages -> SUBSET Texts]
    BY <1>0, <2>1 DEF MessageArrives, TypeOK, Texts
  <2>6. TypeOK'
    BY <1>0, <1>1, <2>3, <2>4, <2>5 DEF TypeOK, WorkRecords
  <2>7. WorkKnown(g)'
    BY <2>2, <2>4 DEF WorkKnown
  <2> QED BY <1>2, <2>4, <2>6, <2>7, WorkKnownStep DEF Typed
<1>4. CASE \E ids \in SUBSET Messages, s \in Statuses : ReceiptArrives(g, ids, s)
  <2>1. PICK ids \in SUBSET Messages, s \in Statuses : ReceiptArrives(g, ids, s)
    BY <1>4
  <2> DEFINE w == [NoWork EXCEPT !.step = "find", !.left = ids, !.status = s]
  <2>2. w \in WorkRecords /\ w.step = "find"
    BY NoWorkTyped DEF WorkRecords, EventSteps
  <2>3. work' = [work EXCEPT ![g] = w] /\ UNCHANGED texts
    BY <2>1 DEF ReceiptArrives
  <2> HIDE DEF w
  <2>4. /\ work' \in [Goroutines -> WorkRecords] /\ work'[g] = w
        /\ \A h \in Goroutines : h # g => work'[h] = work[h]
    BY <1>0, <2>2, <2>3, WorkSet
  <2>5. status' \in [Messages -> SUBSET Statuses]
    BY <1>0, <2>1 DEF ReceiptArrives, TypeOK
  <2>6. TypeOK'
    BY <1>0, <1>1, <2>3, <2>4, <2>5 DEF TypeOK, WorkRecords
  <2>7. WorkKnown(g)'
    BY <2>2, <2>4 DEF WorkKnown
  <2> QED BY <1>2, <2>4, <2>6, <2>7, WorkKnownStep DEF Typed
<1> QED BY <1>3, <1>4

\* A request that begins keeps the types.
LEMMA BeginTyped ==
    ASSUME Typed, NEW r \in Requests,
           \/ \E m \in Messages : BeginSend(r, m)
           \/ \E m \in Messages, text \in NewTexts : BeginChange(r, m, "edit", text)
           \/ \E m \in Messages : BeginChange(r, m, "delete", Original)
           \/ \E ids \in SUBSET Messages : BeginRead(r, ids)
    PROVE  Typed'
<1>0. TypeOK
  BY DEF Typed
<1>1. UNCHANGED <<instance, stored, content, updates, announced, work, texts, shown, status>>
  BY DEF BeginSend, BeginChange, BeginRead, database, whatsapp
<1>2. \A g \in Goroutines : WorkKnown(g)'
  BY <1>1 DEF Typed, WorkKnown
<1>3. ASSUME NEW c \in CallRecords, call' = [call EXCEPT ![r] = c], disturbed' \subseteq Messages,
             c.step \in {"read"} \/ c.message \in Messages
      PROVE  Typed'
  <2>1. /\ call' \in [Requests -> CallRecords] /\ call'[r] = c
        /\ \A q \in Requests : q # r => call'[q] = call[q]
    BY <1>0, <1>3, CallSet
  <2>2. TypeOK'
    BY <1>0, <1>1, <1>3, <2>1 DEF TypeOK, CallRecords
  <2>3. CallKnown(r)'
    BY <1>3, <2>1 DEF CallKnown
  <2> QED BY <1>2, <2>1, <2>2, <2>3, CallKnownStep DEF Typed
<1>4. ASSUME NEW m \in Messages, BeginSend(r, m)
      PROVE  Typed'
  <2> DEFINE c == [NoCall EXCEPT !.step = "send", !.message = m]
  <2>1. c \in CallRecords /\ c.message = m
    BY NoCallTyped DEF CallRecords, CallSteps
  <2>2. call' = [call EXCEPT ![r] = c] /\ disturbed' = disturbed
    BY <1>4 DEF BeginSend
  <2> HIDE DEF c
  <2> QED BY <1>0, <1>3, <2>1, <2>2 DEF TypeOK
<1>5. ASSUME NEW m \in Messages, NEW step \in {"edit", "delete"}, NEW text \in Texts,
             BeginChange(r, m, step, text)
      PROVE  Typed'
  <2> DEFINE c == [NoCall EXCEPT !.step = step, !.message = m, !.text = text, !.seen = content[m]]
  <2>1. content[m] \in Content /\ step \in CallSteps
    BY <1>0 DEF TypeOK, CallSteps
  <2>2. c \in CallRecords /\ c.message = m
    BY <2>1, NoCallTyped DEF CallRecords
  <2>3. call' = [call EXCEPT ![r] = c] /\ disturbed' \in {disturbed, disturbed \union {m}}
    BY <1>5 DEF BeginChange
  <2> HIDE DEF c
  <2> QED BY <1>0, <1>3, <2>2, <2>3 DEF TypeOK
<1>6. ASSUME NEW ids \in SUBSET Messages, BeginRead(r, ids)
      PROVE  Typed'
  <2> DEFINE c == [NoCall EXCEPT !.step = "read", !.ids = ids, !.chats = {Chat[m] : m \in ids}]
  <2>1. {Chat[m] : m \in ids} \in SUBSET Chats
    BY DEF Chats
  <2>2. c \in CallRecords /\ c.step = "read"
    BY <2>1, NoCallTyped DEF CallRecords, CallSteps
  <2>3. call' = [call EXCEPT ![r] = c] /\ disturbed' = disturbed
    BY <1>6 DEF BeginRead
  <2> HIDE DEF c
  <2> QED BY <1>0, <1>3, <2>2, <2>3 DEF TypeOK
<1> QED BY <1>4, <1>5, <1>6 DEF Texts

\* So do the deletion of the instance, a crash and a step that changes nothing.
LEMMA EnvironmentTyped == Typed /\ (DeleteInstance \/ Crash \/ UNCHANGED vars) => Typed'
<1> SUFFICES ASSUME Typed, DeleteInstance \/ Crash \/ UNCHANGED vars PROVE Typed'
  OBVIOUS
<1>1. NoWork.step = "idle" /\ NoCall.step = "idle"
  BY DEF NoWork, NoCall
<1>2. CASE DeleteInstance
  <2>1. shown' \in [Messages -> Content] /\ content' \in [Messages -> Content]
    BY <1>2, FreshTyped DEF DeleteInstance
  <2>2. UNCHANGED <<work, call, texts>>
    BY <1>2 DEF DeleteInstance
  <2>3. TypeOK'
    BY <1>2, <2>1, <2>2 DEF DeleteInstance, Typed, TypeOK
  <2> QED BY <2>2, <2>3 DEF Typed, WorkKnown, CallKnown
<1>3. CASE Crash
  <2>1. /\ work' \in [Goroutines -> WorkRecords] /\ \A g \in Goroutines : work'[g].step = "idle"
        /\ call' \in [Requests -> CallRecords] /\ \A r \in Requests : call'[r].step = "idle"
    BY <1>1, <1>3, NoWorkTyped, NoCallTyped DEF Crash
  <2>2. TypeOK'
    BY <1>3, <2>1 DEF Crash, database, whatsapp, Typed, TypeOK, WorkRecords, CallRecords
  <2> QED BY <2>1, <2>2 DEF Typed, WorkKnown, CallKnown
<1>4. CASE UNCHANGED vars
  BY <1>4 DEF vars, Typed, TypeOK, WorkKnown, CallKnown
<1> QED BY <1>2, <1>3, <1>4

\* Every step keeps the types.
LEMMA NextTyped == Typed /\ [Next]_vars => Typed'
<1> SUFFICES ASSUME Typed, [Next]_vars PROVE Typed'
  OBVIOUS
<1> QED BY HandleTyped, ServeTyped, ArrivalTyped, BeginTyped, EnvironmentTyped DEF Next

\* TypeOK holds in every reachable state: each step of a handler or a request
\* leaves rows, records and histories well formed.
THEOREM TypeCorrect == Spec => []TypeOK
<1>1. Typed => TypeOK
  BY DEF Typed
<1> QED BY <1>1, InitTyped, NextTyped, PTL DEF Spec

(***************************************************************************)
(* What rows, webhooks and listeners say is true.                          *)
(***************************************************************************)

Changing == {"edit", "save edit", "delete", "save delete"}

\* What a handler relies on, as long as the instance exists.
WorkTrue(g) ==
    /\ Does(g, "store") => Original \in texts[work[g].message]
    /\ work[g].step \in {"announce", "listen"} => work[g].message \in stored
    /\ work[g].step \in {"find", "update", "inform"} =>
         \A m \in work[g].left : work[g].status \in status[m]
    /\ Does(g, "inform") /\ SaveUpdates =>
         work[g].message \in stored /\ <<work[g].message, work[g].status>> \in updates

\* What a request relies on: it has read something that was sent, and it saves
\* what it has sent.
CallTrue(r) ==
    /\ At(r, "create") => Original \in texts[call[r].message]
    /\ At(r, "report") => call[r].message \in stored
    /\ call[r].step \in Changing =>
         /\ call[r].seen.text \in texts[call[r].message]
         /\ call[r].seen.deleted => shown[call[r].message].deleted
    /\ At(r, "save edit") => call[r].text \in texts[call[r].message]
    /\ At(r, "save delete") => shown[call[r].message].deleted
    /\ call[r].step \in {"read", "save read"} =>
         \A m \in call[r].ids : Chat[m] \in call[r].chats \/ "read" \in status[m]
    /\ At(r, "save read") => call[r].chats = {}

Truth ==
    /\ ~ instance => stored = {} /\ updates = {}
    /\ instance => /\ \A g \in Goroutines : WorkTrue(g)
                   /\ \A r \in Requests : CallTrue(r)
    /\ ContentWasSent /\ UpdatesAreTrue /\ AnnouncedIsStored

\* Rows stay, and WhatsApp takes nothing back.
Grows ==
    /\ instance /\ instance'
    /\ stored \subseteq stored' /\ updates \subseteq updates'
    /\ \A m \in Messages : /\ texts[m] \subseteq texts'[m]
                           /\ status[m] \subseteq status'[m]
                           /\ shown[m].deleted => shown'[m].deleted

\* What a handler or a request that does nothing relies on stays true.
LEMMA OtherWork ==
    ASSUME Typed, Truth, Grows, NEW g \in Goroutines, work'[g] = work[g]
    PROVE  WorkTrue(g)'
<1>1. WorkTrue(g) /\ WorkKnown(g) /\ work[g].left \subseteq Messages
  BY DEF Typed, TypeOK, Truth, Grows
<1>2. (Does(g, "store") => Original \in texts[work[g].message])'
  BY <1>1 DEF WorkTrue, WorkKnown, Grows, Does
<1>3. (work[g].step \in {"announce", "listen"} => work[g].message \in stored)'
  BY <1>1 DEF WorkTrue, Grows
<1>4. (work[g].step \in {"find", "update", "inform"} =>
         \A m \in work[g].left : work[g].status \in status[m])'
  BY <1>1 DEF WorkTrue, Grows
<1>5. (Does(g, "inform") /\ SaveUpdates =>
         work[g].message \in stored /\ <<work[g].message, work[g].status>> \in updates)'
  BY <1>1 DEF WorkTrue, Grows, Does
<1> QED BY <1>2, <1>3, <1>4, <1>5 DEF WorkTrue

\* What a call was told stays true while it takes no step.
LEMMA OtherCall ==
    ASSUME Typed, Truth, Grows, NEW r \in Requests, call'[r] = call[r]
    PROVE  CallTrue(r)'
<1>1. CallTrue(r) /\ CallKnown(r) /\ call[r].ids \subseteq Messages
  BY DEF Typed, TypeOK, Truth, Grows
<1>2. (At(r, "create") => Original \in texts[call[r].message])'
  BY <1>1 DEF CallTrue, CallKnown, Grows, At
<1>3. (At(r, "report") => call[r].message \in stored)'
  BY <1>1 DEF CallTrue, Grows, At
<1>4. (call[r].step \in Changing =>
         /\ call[r].seen.text \in texts[call[r].message]
         /\ call[r].seen.deleted => shown[call[r].message].deleted)'
  BY <1>1 DEF CallTrue, CallKnown, Grows, Changing
<1>5. (At(r, "save edit") => call[r].text \in texts[call[r].message])'
  BY <1>1 DEF CallTrue, CallKnown, Grows, At
<1>6. (At(r, "save delete") => shown[call[r].message].deleted)'
  BY <1>1 DEF CallTrue, CallKnown, Grows, At
<1>7. (call[r].step \in {"read", "save read"} =>
         \A m \in call[r].ids : Chat[m] \in call[r].chats \/ "read" \in status[m])'
  BY <1>1 DEF CallTrue, Grows
<1>8. (At(r, "save read") => call[r].chats = {})'
  BY <1>1 DEF CallTrue, At
<1> QED BY <1>2, <1>3, <1>4, <1>5, <1>6, <1>7, <1>8 DEF CallTrue

\* A row that is written says something true, an update that is added is known
\* to WhatsApp, and a webhook that goes out speaks of rows.
LEMMA Growing ==
    ASSUME Typed, Truth, Grows,
           \A m \in stored' : \/ m \in stored /\ content'[m] = content[m]
                              \/ /\ content'[m].text \in texts'[m]
                                 /\ content'[m].deleted => shown'[m].deleted,
           \A u \in updates' : u \in updates \/ u[2] \in status'[u[1]],
           \/ announced' = announced
           \/ announced'[1] \in stored' /\ (announced'[2] \in Statuses => announced' \in updates')
           \/ announced'[2] \in Statuses /\ ~ SaveUpdates,
           \A g \in Goroutines : WorkTrue(g)',
           \A r \in Requests : CallTrue(r)'
    PROVE  Truth'
<1>1. ContentWasSent'
  <2> SUFFICES ASSUME NEW m \in stored'
               PROVE  /\ content'[m].text \in texts'[m]
                      /\ content'[m].deleted => shown'[m].deleted
    BY DEF ContentWasSent
  <2>1. CASE m \in stored /\ content'[m] = content[m]
    BY <2>1 DEF Truth, ContentWasSent, Grows, Typed, TypeOK
  <2> QED BY <2>1
<1>2. UpdatesAreTrue'
  <2> SUFFICES ASSUME NEW u \in updates' PROVE u[2] \in status'[u[1]]
    BY DEF UpdatesAreTrue
  <2>1. CASE u \in updates
    <3>1. u[1] \in Messages
      BY <2>1 DEF Typed, TypeOK
    <3> QED BY <2>1, <3>1 DEF Truth, UpdatesAreTrue, Grows
  <2> QED BY <2>1
<1>3. AnnouncedIsStored'
  BY DEF AnnouncedIsStored, Truth, Grows
<1> QED BY <1>1, <1>2, <1>3 DEF Truth, Grows

\* Where the instance is gone there are no rows, and there will be none.
LEMMA Gone ==
    ASSUME Typed, Truth, ~ instance', stored' = {}, updates' = {}
    PROVE  Truth'
BY DEF Truth, ContentWasSent, UpdatesAreTrue, AnnouncedIsStored

\* The handlers of events
LEMMA HandleTrue ==
    ASSUME Typed, Truth, NEW g \in Goroutines, Handle(g)
    PROVE  Truth'
<1>1. UNCHANGED <<instance, call, texts, shown, status>>
  BY DEF Handle, CreateOrIgnore, AnnounceUpsert, TellInbound, FindForReceipt, SaveUpdate,
         AnnounceUpdate, database, whatsapp
<1>2. TypeOK /\ WorkKnown(g)
  BY DEF Typed
<1>3. CASE ~ instance
  <2>1. stored = {} /\ updates = {}
    BY <1>3 DEF Truth
  <2>2. stored' = {} /\ updates' = {}
    BY <1>3, <2>1 DEF Handle, CreateOrIgnore, AnnounceUpsert, TellInbound, FindForReceipt,
                      SaveUpdate, AnnounceUpdate, database
  <2> QED BY <1>1, <1>3, <2>2, Gone
<1>4. CASE instance
  <2>0. WorkTrue(g) /\ instance'
    BY <1>1, <1>4 DEF Truth
  <2>1. ASSUME stored \subseteq stored', updates \subseteq updates',
               \A h \in Goroutines : h # g => work'[h] = work[h],
               WorkTrue(g)',
               \A m \in stored' : \/ m \in stored /\ content'[m] = content[m]
                                  \/ /\ content'[m].text \in texts'[m]
                                     /\ content'[m].deleted => shown'[m].deleted,
               \A u \in updates' : u \in updates \/ u[2] \in status'[u[1]],
               \/ announced' = announced
               \/ announced'[1] \in stored' /\ (announced'[2] \in Statuses => announced' \in updates')
               \/ announced'[2] \in Statuses /\ ~ SaveUpdates
        PROVE  Truth'
    <3>1. Grows
      BY <1>1, <1>4, <2>1 DEF Grows
    <3>2. \A h \in Goroutines : WorkTrue(h)'
      <4> SUFFICES ASSUME NEW h \in Goroutines PROVE WorkTrue(h)'
        OBVIOUS
      <4>1. CASE h = g
        BY <2>1, <4>1
      <4>2. CASE h # g
        BY <2>1, <3>1, <4>2, OtherWork
      <4> QED BY <4>1, <4>2
    <3>3. \A r \in Requests : CallTrue(r)'
      BY <1>1, <3>1, OtherCall
    <3> QED BY <2>1, <3>1, <3>2, <3>3, Growing
  <2>2. ASSUME Ends(g)
        PROVE  WorkTrue(g)' /\ \A h \in Goroutines : h # g => work'[h] = work[h]
    BY <1>2, <2>2, WorkEnded DEF WorkTrue, Does
  <2>3. ASSUME NEW m, Continue(g, m), work[g].step \in {"find", "update", "inform"}
        PROVE  WorkTrue(g)' /\ \A h \in Goroutines : h # g => work'[h] = work[h]
    <3>1. /\ work'[g].step \in {"idle", "find"}
          /\ work'[g].step = "find" => /\ work'[g].left \subseteq work[g].left
                                       /\ work'[g].status = work[g].status
          /\ \A h \in Goroutines : h # g => work'[h] = work[h]
      BY <1>2, <2>3, WorkContinued
    <3>2. \A n \in work[g].left : work[g].status \in status[n]
      BY <2>0, <2>3 DEF WorkTrue
    <3> QED BY <1>1, <3>1, <3>2 DEF WorkTrue, Does
  <2>4. CASE CreateOrIgnore(g)
    <3>1. work[g].message \in Messages /\ Original \in texts[work[g].message]
      BY <1>2, <2>0, <2>4 DEF CreateOrIgnore, Does, WorkKnown, WorkTrue
    <3>2. UNCHANGED <<updates, announced>>
      BY <2>4 DEF CreateOrIgnore
    <3>3. CASE Insert(work[g].message) /\ DoesNext(g, "announce")
      <4>1. /\ stored' = stored \union {work[g].message}
            /\ \A m \in stored : content'[m] = content[m]
            /\ work[g].message \in stored \/ content'[work[g].message] = Fresh
        BY <1>2, <3>1, <3>3 DEF Insert, TypeOK
      <4>2. Fresh.text = Original /\ ~ Fresh.deleted
        BY DEF Fresh
      <4>3. WorkTrue(g)' /\ \A h \in Goroutines : h # g => work'[h] = work[h]
        BY <1>2, <3>3, <4>1, WorkMoved DEF WorkTrue, Does, EventSteps
      <4> QED BY <1>1, <2>1, <3>1, <3>2, <4>1, <4>2, <4>3
    <3>4. CASE Ends(g) /\ UNCHANGED <<stored, content>>
      BY <2>1, <2>2, <3>2, <3>4
    <3> QED BY <2>4, <3>3, <3>4 DEF CreateOrIgnore
  <2>5. CASE AnnounceUpsert(g)
    <3>1. work[g].message \in stored
      BY <2>0, <2>5 DEF AnnounceUpsert, Does, WorkTrue
    <3>2. UNCHANGED <<stored, content, updates>>
      BY <2>5 DEF AnnounceUpsert, database
    <3>3. announced' \in {announced, <<work[g].message, "upsert">>}
      BY <2>5 DEF AnnounceUpsert, Dispatch
    <3>4. CASE DoesNext(g, "listen")
      <4>1. WorkTrue(g)' /\ \A h \in Goroutines : h # g => work'[h] = work[h]
        BY <1>2, <3>1, <3>2, <3>4, WorkMoved DEF WorkTrue, Does, EventSteps
      <4> QED BY <2>1, <3>1, <3>2, <3>3, <4>1, StatusAssumption
    <3>5. CASE Ends(g)
      BY <2>1, <2>2, <3>1, <3>2, <3>3, <3>5, StatusAssumption
    <3> QED BY <2>5, <3>4, <3>5 DEF AnnounceUpsert
  <2>6. CASE TellInbound(g)
    BY <2>1, <2>2, <2>6 DEF TellInbound, database
  <2>7. CASE FindForReceipt(g)
    <3>1. UNCHANGED <<stored, content, updates, announced>> /\ work[g].step = "find"
      BY <2>7 DEF FindForReceipt, database, Does
    <3>2. PICK m \in work[g].left :
            \/ work' = [work EXCEPT ![g].message = m,
                                   ![g].step = IF SaveUpdates THEN "update" ELSE "inform"]
            \/ Continue(g, m)
      BY <2>7 DEF FindForReceipt
    <3>3. CASE Continue(g, m)
      BY <2>1, <2>3, <3>1, <3>3
    <3>4. CASE work' = [work EXCEPT ![g].message = m,
                                    ![g].step = IF SaveUpdates THEN "update" ELSE "inform"]
      <4>1. /\ work'[g].step = IF SaveUpdates THEN "update" ELSE "inform"
            /\ work'[g].left = work[g].left /\ work'[g].status = work[g].status
            /\ \A h \in Goroutines : h # g => work'[h] = work[h]
        BY <1>2, <3>4 DEF TypeOK
      <4>2. \A n \in work[g].left : work[g].status \in status[n]
        BY <2>0, <3>1 DEF WorkTrue
      <4>3. WorkTrue(g)'
        BY <1>1, <4>1, <4>2 DEF WorkTrue, Does
      <4> QED BY <2>1, <3>1, <4>1, <4>3
    <3> QED BY <3>2, <3>3, <3>4
  <2>8. CASE SaveUpdate(g)
    <3>1. /\ work[g].step = "update" /\ work[g].message \in work[g].left
          /\ work[g].status \in status[work[g].message]
          /\ \A n \in work[g].left : work[g].status \in status[n]
      BY <1>2, <2>0, <2>8 DEF SaveUpdate, Does, WorkKnown, WorkTrue
    <3>2. UNCHANGED <<stored, content, announced>>
      BY <2>8 DEF SaveUpdate
    <3>3. CASE /\ work[g].message \in stored /\ DoesNext(g, "inform")
               /\ updates' = updates \union {<<work[g].message, work[g].status>>}
      <4>1. WorkTrue(g)' /\ \A h \in Goroutines : h # g => work'[h] = work[h]
        BY <1>1, <1>2, <3>1, <3>2, <3>3, WorkMoved DEF WorkTrue, Does, EventSteps
      <4> QED BY <1>1, <2>1, <3>1, <3>2, <3>3, <4>1
    <3>4. CASE Continue(g, work[g].message) /\ UNCHANGED updates
      BY <2>1, <2>3, <3>1, <3>2, <3>4
    <3> QED BY <2>8, <3>3, <3>4 DEF SaveUpdate
  <2>9. CASE AnnounceUpdate(g)
    <3>1. /\ work[g].step = "inform"
          /\ SaveUpdates => work[g].message \in stored /\ <<work[g].message, work[g].status>> \in updates
      BY <2>0, <2>9 DEF AnnounceUpdate, Does, WorkTrue
    <3>2. UNCHANGED <<stored, content, updates>> /\ Continue(g, work[g].message)
      BY <2>9 DEF AnnounceUpdate, database
    <3>3. announced' \in {announced, <<work[g].message, work[g].status>>}
      BY <2>9 DEF AnnounceUpdate, Dispatch
    <3>4. work[g].status \in Statuses
      BY <1>2 DEF TypeOK
    <3> QED BY <2>1, <2>3, <3>1, <3>2, <3>3, <3>4
  <2> QED BY <2>4, <2>5, <2>6, <2>7, <2>8, <2>9 DEF Handle
<1> QED BY <1>3, <1>4

\* and the steps of the requests tell the truth.
LEMMA ServeTrue ==
    ASSUME Typed, Truth, NEW r \in Requests, Serve(r)
    PROVE  Truth'
<1>1. UNCHANGED <<instance, work>>
  BY DEF Serve, SendMessage, PersistSentMessage, ReportSent, SendEdit, SendRevoke, SendChange,
         SaveEdit, SaveDelete, UpdateContent, MarkRead, SaveRead, database
<1>2. TypeOK /\ CallKnown(r)
  BY DEF Typed
<1>3. CASE ~ instance
  <2>1. stored = {} /\ updates = {}
    BY <1>3 DEF Truth
  <2>2. stored' = {}
    BY <1>3, <2>1 DEF Serve, SendMessage, PersistSentMessage, ReportSent, SendEdit, SendRevoke,
                      SendChange, SaveEdit, SaveDelete, UpdateContent, MarkRead, SaveRead, database
  <2>3. updates' = {}
    <3>1. CASE SaveRead(r)
      <4>1. updates' = updates \/ (call[r].ids \subseteq stored
                                   /\ updates' = updates \union (call[r].ids \X {"read"}))
        BY <3>1 DEF SaveRead
      <4>2. call[r].ids \subseteq stored => call[r].ids \X {"read"} = {}
        BY <2>1
      <4> QED BY <2>1, <4>1, <4>2
    <3>2. CASE ~ SaveRead(r)
      BY <2>1, <3>2 DEF Serve, SendMessage, PersistSentMessage, ReportSent, SendEdit, SendRevoke,
                        SendChange, SaveEdit, SaveDelete, UpdateContent, MarkRead, database
    <3> QED BY <3>1, <3>2
  <2> QED BY <1>1, <1>3, <2>2, <2>3, Gone
<1>4. CASE instance
  <2>0. CallTrue(r) /\ instance'
    BY <1>1, <1>4 DEF Truth
  <2>1. ASSUME stored \subseteq stored', updates \subseteq updates',
               \A m \in Messages : /\ texts[m] \subseteq texts'[m]
                                   /\ status[m] \subseteq status'[m]
                                   /\ shown[m].deleted => shown'[m].deleted,
               \A q \in Requests : q # r => call'[q] = call[q],
               CallTrue(r)',
               \A m \in stored' : \/ m \in stored /\ content'[m] = content[m]
                                  \/ /\ content'[m].text \in texts'[m]
                                     /\ content'[m].deleted => shown'[m].deleted,
               \A u \in updates' : u \in updates \/ u[2] \in status'[u[1]],
               \/ announced' = announced
               \/ announced'[1] \in stored' /\ (announced'[2] \in Statuses => announced' \in updates')
        PROVE  Truth'
    <3>1. Grows
      BY <1>1, <1>4, <2>1 DEF Grows
    <3>2. \A q \in Requests : CallTrue(q)'
      <4> SUFFICES ASSUME NEW q \in Requests PROVE CallTrue(q)'
        OBVIOUS
      <4>1. CASE q = r
        BY <2>1, <4>1
      <4>2. CASE q # r
        BY <2>1, <3>1, <4>2, OtherCall
      <4> QED BY <4>1, <4>2
    <3>3. \A g \in Goroutines : WorkTrue(g)'
      BY <1>1, <3>1, OtherWork
    <3> QED BY <2>1, <3>1, <3>2, <3>3, Growing
  <2>2. ASSUME Return(r)
        PROVE  CallTrue(r)' /\ \A q \in Requests : q # r => call'[q] = call[q]
    BY <1>2, <2>2, CallReturned DEF CallTrue, At, Changing
  <2>3. CASE SendMessage(r)
    <3>1. call[r].message \in Messages
      BY <1>2, <2>3 DEF SendMessage, At, CallKnown
    <3>2. UNCHANGED <<stored, content, updates, announced, shown, status>>
      BY <2>3 DEF SendMessage, database
    <3> DEFINE arrived == [texts EXCEPT ![call[r].message] = @ \union {Original}]
    <3>3. /\ \A m \in Messages : texts[m] \subseteq arrived[m]
          /\ Original \in arrived[call[r].message]
      BY <1>2, <3>1 DEF TypeOK
    <3> HIDE DEF arrived
    <3>4. CASE Goto(r, "create") /\ texts' = arrived
      <4>1. CallTrue(r)' /\ \A q \in Requests : q # r => call'[q] = call[q]
        BY <1>2, <3>3, <3>4, CallMoved DEF CallTrue, At, Changing, CallSteps
      <4> QED BY <2>1, <3>2, <3>3, <3>4, <4>1
    <3>5. CASE Return(r) /\ texts' \in {texts, arrived}
      BY <2>1, <2>2, <3>2, <3>3, <3>5
    <3> QED BY <2>3, <3>4, <3>5 DEF SendMessage, arrived
  <2>4. CASE PersistSentMessage(r)
    <3>1. call[r].message \in Messages /\ Original \in texts[call[r].message]
      BY <1>2, <2>0, <2>4 DEF PersistSentMessage, At, CallKnown, CallTrue
    <3>2. UNCHANGED <<updates, announced, texts, shown, status>>
      BY <2>4 DEF PersistSentMessage, whatsapp
    <3>3. CASE Insert(call[r].message) /\ (Goto(r, "report") \/ Return(r))
      <4>1. /\ stored' = stored \union {call[r].message}
            /\ \A m \in stored : content'[m] = content[m]
            /\ call[r].message \in stored \/ content'[call[r].message] = Fresh
        BY <1>2, <3>1, <3>3 DEF Insert, TypeOK
      <4>2. Fresh.text = Original /\ ~ Fresh.deleted
        BY DEF Fresh
      <4>3. ASSUME Goto(r, "report")
            PROVE  CallTrue(r)' /\ \A q \in Requests : q # r => call'[q] = call[q]
        BY <1>2, <4>1, <4>3, CallMoved DEF CallTrue, At, Changing, CallSteps
      <4> QED BY <2>1, <2>2, <3>1, <3>2, <3>3, <4>1, <4>2, <4>3
    <3>4. CASE Return(r) /\ UNCHANGED <<stored, content>>
      BY <2>1, <2>2, <3>2, <3>4
    <3> QED BY <2>4, <3>3, <3>4 DEF PersistSentMessage
  <2>5. CASE ReportSent(r)
    <3>1. call[r].message \in stored
      BY <2>0, <2>5 DEF ReportSent, At, CallTrue
    <3>2. UNCHANGED <<stored, content, updates, texts, shown, status>> /\ Return(r)
      BY <2>5 DEF ReportSent, database, whatsapp
    <3>3. announced' \in {announced, <<call[r].message, "sent">>}
      BY <2>5 DEF ReportSent, Dispatch
    <3> QED BY <2>1, <2>2, <3>1, <3>2, <3>3, StatusAssumption
  <2>6. ASSUME NEW step \in {"edit", "delete"}, NEW save \in {"save edit", "save delete"},
               NEW newTexts, NEW newShown, SendChange(r, step, save, newTexts, newShown),
               \A m \in Messages : /\ texts[m] \subseteq newTexts[m]
                                   /\ shown[m].deleted => newShown[m].deleted,
               save = "save edit" => call[r].text \in newTexts[call[r].message],
               save = "save delete" => newShown[call[r].message].deleted
        PROVE  Truth'
    <3>1. /\ call[r].message \in Messages
          /\ call[r].seen.text \in texts[call[r].message]
          /\ call[r].seen.deleted => shown[call[r].message].deleted
      BY <1>2, <2>0, <2>6 DEF SendChange, At, CallKnown, CallTrue, Changing
    <3>2. UNCHANGED <<stored, content, updates, announced, status>>
      BY <2>6 DEF SendChange, database
    <3>3. CASE Goto(r, save) /\ texts' = newTexts /\ shown' = newShown
      <4>1. CallTrue(r)' /\ \A q \in Requests : q # r => call'[q] = call[q]
        BY <1>2, <2>6, <3>1, <3>3, CallMoved DEF CallTrue, At, Changing, CallSteps
      <4> QED BY <2>1, <2>6, <3>2, <3>3, <4>1
    <3>4. CASE /\ Return(r)
               /\ texts' \in {texts, newTexts} /\ shown' \in {shown, newShown}
      BY <2>1, <2>2, <2>6, <3>2, <3>4
    <3> QED BY <2>6, <3>3, <3>4 DEF SendChange
  <2>7. CASE SendEdit(r)
    <3> DEFINE newTexts == [texts EXCEPT ![call[r].message] = @ \union {call[r].text}]
               newShown == [shown EXCEPT ![call[r].message].text = call[r].text]
    <3>1. call[r].message \in Messages
      BY <1>2, <2>7 DEF SendEdit, SendChange, At, CallKnown
    <3>2. /\ \A m \in Messages : texts[m] \subseteq newTexts[m]
          /\ call[r].text \in newTexts[call[r].message]
      BY <1>2, <3>1 DEF TypeOK
    <3>3. \A m \in Messages : shown[m].deleted => newShown[m].deleted
      BY <1>2 DEF TypeOK, Content
    <3>4. SendChange(r, "edit", "save edit", newTexts, newShown)
      BY <2>7 DEF SendEdit
    <3> HIDE DEF newTexts, newShown
    <3> QED BY <2>6, <3>2, <3>3, <3>4
  <2>8. CASE SendRevoke(r)
    <3> DEFINE newShown == [shown EXCEPT ![call[r].message].deleted = TRUE]
    <3>1. call[r].message \in Messages
      BY <1>2, <2>8 DEF SendRevoke, SendChange, At, CallKnown
    <3>2. /\ \A m \in Messages : shown[m].deleted => newShown[m].deleted
          /\ newShown[call[r].message].deleted
      BY <1>2, <3>1 DEF TypeOK, Content
    <3>3. SendChange(r, "delete", "save delete", texts, newShown)
      BY <2>8 DEF SendRevoke
    <3> HIDE DEF newShown
    <3> QED BY <2>6, <3>2, <3>3
  <2>9. ASSUME NEW step \in {"save edit", "save delete"}, NEW new,
               UpdateContent(r, step, new),
               new.text \in texts[call[r].message],
               new.deleted => shown[call[r].message].deleted
        PROVE  Truth'
    <3>1. call[r].message \in Messages
      BY <1>2, <2>9 DEF UpdateContent, At, CallKnown
    <3>2. UNCHANGED <<stored, updates, announced, texts, shown, status>> /\ Return(r)
      BY <2>9 DEF UpdateContent, whatsapp
    <3>3. content' \in {content, [content EXCEPT ![call[r].message] = new]}
      BY <2>9 DEF UpdateContent
    <3>4. \A m \in Messages : content'[m] = content[m] \/ (m = call[r].message /\ content'[m] = new)
      BY <1>2, <3>3 DEF TypeOK
    <3>5. stored \subseteq Messages
      BY <1>2 DEF TypeOK
    <3> QED BY <2>1, <2>2, <2>9, <3>2, <3>4, <3>5
  <2>10. CASE SaveEdit(r)
    <3> DEFINE new == [call[r].seen EXCEPT !.text = call[r].text]
    <3>1. UpdateContent(r, "save edit", new) /\ At(r, "save edit")
      BY <2>10 DEF SaveEdit, UpdateContent
    <3>2. new.text = call[r].text /\ new.deleted = call[r].seen.deleted
      BY <1>2 DEF TypeOK, Content
    <3>3. /\ call[r].text \in texts[call[r].message]
          /\ call[r].seen.deleted => shown[call[r].message].deleted
      BY <2>0, <3>1 DEF CallTrue, At, Changing
    <3> HIDE DEF new
    <3> QED BY <2>9, <3>1, <3>2, <3>3
  <2>11. CASE SaveDelete(r)
    <3> DEFINE new == [call[r].seen EXCEPT !.deleted = TRUE]
    <3>1. UpdateContent(r, "save delete", new) /\ At(r, "save delete")
      BY <2>11 DEF SaveDelete, UpdateContent
    <3>2. new.text = call[r].seen.text
      BY <1>2 DEF TypeOK, Content
    <3>3. /\ call[r].seen.text \in texts[call[r].message]
          /\ shown[call[r].message].deleted
      BY <2>0, <3>1 DEF CallTrue, At, Changing
    <3> HIDE DEF new
    <3> QED BY <2>9, <3>1, <3>2, <3>3
  <2>12. CASE MarkRead(r)
    <3>1. UNCHANGED <<stored, content, updates, announced, texts, shown>>
      BY <2>12 DEF MarkRead, database
    <3> DEFINE known(c) == [m \in Messages |-> status[m] \union
                              (IF m \in call[r].ids /\ Chat[m] = c THEN {"read"} ELSE {})]
               left(c) == call[r].chats \ {c}
    <3>2. PICK c \in call[r].chats :
            \/ /\ status' = known(c)
               /\ call' = [call EXCEPT ![r].chats = left(c),
                                       ![r].step = IF left(c) = {} THEN "save read" ELSE "read"]
            \/ Return(r) /\ status' \in {status, known(c)}
      BY <2>12 DEF MarkRead
    <3>3. \A m \in Messages : /\ status[m] \subseteq known(c)[m]
                              /\ m \in call[r].ids /\ Chat[m] = c => "read" \in known(c)[m]
      OBVIOUS
    <3>4. /\ \A m \in call[r].ids : Chat[m] \in call[r].chats \/ "read" \in status[m]
          /\ call[r].ids \subseteq Messages
      BY <1>2, <2>0, <2>12 DEF MarkRead, At, CallTrue, TypeOK
    <3>5. CASE Return(r) /\ status' \in {status, known(c)}
      <4> HIDE DEF known
      <4> QED BY <2>1, <2>2, <3>1, <3>3, <3>5
    <3>6. CASE /\ status' = known(c)
               /\ call' = [call EXCEPT ![r].chats = left(c),
                                       ![r].step = IF left(c) = {} THEN "save read" ELSE "read"]
      <4>1. /\ call'[r].chats = left(c) /\ call'[r].ids = call[r].ids
            /\ call'[r].step = IF left(c) = {} THEN "save read" ELSE "read"
            /\ \A q \in Requests : q # r => call'[q] = call[q]
        BY <1>2, <3>6 DEF TypeOK
      <4>2. \A m \in call'[r].ids : Chat[m] \in call'[r].chats \/ "read" \in status'[m]
        <5> HIDE DEF known
        <5> QED BY <3>3, <3>4, <3>6, <4>1
      <4>3. CallTrue(r)'
        BY <4>1, <4>2 DEF CallTrue, At, Changing
      <4> HIDE DEF known, left
      <4> QED BY <2>1, <3>1, <3>3, <3>6, <4>1, <4>3
    <3> QED BY <3>2, <3>5, <3>6
  <2>13. CASE SaveRead(r)
    <3>1. UNCHANGED <<stored, content, announced, texts, shown, status>> /\ Return(r)
      BY <2>13 DEF SaveRead, whatsapp
    <3>2. updates' \in {updates, updates \union (call[r].ids \X {"read"})}
      BY <2>13 DEF SaveRead
    <3>3. \A m \in call[r].ids : "read" \in status[m]
      BY <2>0, <2>13 DEF SaveRead, At, CallTrue
    <3>4. \A u \in call[r].ids \X {"read"} : u[2] \in status[u[1]]
      BY <3>3
    <3> QED BY <2>1, <2>2, <3>1, <3>2, <3>4
  <2> QED BY <2>3, <2>4, <2>5, <2>7, <2>8, <2>10, <2>11, <2>12, <2>13 DEF Serve
<1> QED BY <1>3, <1>4

\* So does an event that arrives,
LEMMA ArrivalTrue ==
    ASSUME Typed, Truth, NEW g \in Goroutines,
           \/ \E m \in Messages : MessageArrives(g, m)
           \/ \E ids \in SUBSET Messages, s \in Statuses : ReceiptArrives(g, ids, s)
    PROVE  Truth'
<1>1. UNCHANGED <<instance, stored, content, updates, announced, call, shown>>
  BY DEF MessageArrives, ReceiptArrives, database
<1>2. TypeOK
  BY DEF Typed
<1>3. CASE ~ instance
  BY <1>1, <1>3, Gone DEF Truth
<1>4. ASSUME instance,
             \A m \in Messages : texts[m] \subseteq texts'[m] /\ status[m] \subseteq status'[m],
             \A h \in Goroutines : h # g => work'[h] = work[h],
             WorkTrue(g)'
      PROVE  Truth'
  <2>1. Grows
    BY <1>1, <1>4 DEF Grows
  <2>2. \A h \in Goroutines : WorkTrue(h)'
    <3> SUFFICES ASSUME NEW h \in Goroutines PROVE WorkTrue(h)'
      OBVIOUS
    <3>1. CASE h = g
      BY <1>4, <3>1
    <3>2. CASE h # g
      BY <1>4, <2>1, <3>2, OtherWork
    <3> QED BY <3>1, <3>2
  <2>3. \A r \in Requests : CallTrue(r)'
    BY <1>1, <2>1, OtherCall
  <2> QED BY <1>1, <2>1, <2>2, <2>3, Growing
<1>5. ASSUME instance, NEW m \in Messages, MessageArrives(g, m)
      PROVE  Truth'
  <2> DEFINE w == [NoWork EXCEPT !.step = "store", !.message = m]
  <2>1. w \in WorkRecords /\ w.step = "store" /\ w.message = m
    BY NoWorkTyped DEF WorkRecords, EventSteps
  <2>2. work' = [work EXCEPT ![g] = w] /\ UNCHANGED status
    BY <1>5 DEF MessageArrives
  <2> HIDE DEF w
  <2>3. work'[g] = w /\ \A h \in Goroutines : h # g => work'[h] = work[h]
    BY <1>2, <2>1, <2>2, WorkSet
  <2>4. (\A n \in Messages : texts[n] \subseteq texts'[n]) /\ Original \in texts'[m]
    BY <1>2, <1>5 DEF MessageArrives, TypeOK
  <2>5. WorkTrue(g)'
    BY <2>1, <2>3, <2>4 DEF WorkTrue, Does
  <2> QED BY <1>4, <1>5, <2>2, <2>3, <2>4, <2>5
<1>6. ASSUME instance, NEW ids \in SUBSET Messages, NEW s \in Statuses, ReceiptArrives(g, ids, s)
      PROVE  Truth'
  <2> DEFINE w == [NoWork EXCEPT !.step = "find", !.left = ids, !.status = s]
  <2>1. w \in WorkRecords /\ w.step = "find" /\ w.left = ids /\ w.status = s
    BY NoWorkTyped DEF WorkRecords, EventSteps
  <2>2. work' = [work EXCEPT ![g] = w] /\ UNCHANGED texts
    BY <1>6 DEF ReceiptArrives
  <2> HIDE DEF w
  <2>3. work'[g] = w /\ \A h \in Goroutines : h # g => work'[h] = work[h]
    BY <1>2, <2>1, <2>2, WorkSet
  <2>4. \A m \in Messages : status[m] \subseteq status'[m] /\ (m \in ids => s \in status'[m])
    BY <1>6 DEF ReceiptArrives
  <2>5. WorkTrue(g)'
    BY <2>1, <2>3, <2>4 DEF WorkTrue, Does
  <2> QED BY <1>4, <1>6, <2>2, <2>3, <2>4, <2>5
<1> QED BY <1>3, <1>5, <1>6

\* a request that begins,
LEMMA BeginTrue ==
    ASSUME Typed, Truth, NEW r \in Requests,
           \/ \E m \in Messages : BeginSend(r, m)
           \/ \E m \in Messages, text \in NewTexts : BeginChange(r, m, "edit", text)
           \/ \E m \in Messages : BeginChange(r, m, "delete", Original)
           \/ \E ids \in SUBSET Messages : BeginRead(r, ids)
    PROVE  Truth'
<1>1. /\ instance
      /\ UNCHANGED <<instance, stored, content, updates, announced, work, texts, shown, status>>
  BY DEF BeginSend, BeginChange, BeginRead, database, whatsapp
<1>2. TypeOK /\ Grows
  BY <1>1 DEF Typed, Grows
<1>3. ASSUME NEW c \in CallRecords, call' = [call EXCEPT ![r] = c],
             CallTrue(r)'
      PROVE  Truth'
  <2>1. call'[r] = c /\ \A q \in Requests : q # r => call'[q] = call[q]
    BY <1>2, <1>3, CallSet
  <2>2. \A q \in Requests : CallTrue(q)'
    <3> SUFFICES ASSUME NEW q \in Requests PROVE CallTrue(q)'
      OBVIOUS
    <3>1. CASE q = r
      BY <1>3, <3>1
    <3>2. CASE q # r
      BY <1>2, <2>1, <3>2, OtherCall
    <3> QED BY <3>1, <3>2
  <2>3. \A g \in Goroutines : WorkTrue(g)'
    BY <1>1, <1>2, OtherWork
  <2> QED BY <1>1, <1>2, <2>2, <2>3, Growing
<1>4. ASSUME NEW m \in Messages, BeginSend(r, m)
      PROVE  Truth'
  <2> DEFINE c == [NoCall EXCEPT !.step = "send", !.message = m]
  <2>1. c \in CallRecords /\ c.step = "send"
    BY NoCallTyped DEF CallRecords, CallSteps
  <2>2. call' = [call EXCEPT ![r] = c]
    BY <1>4 DEF BeginSend
  <2> HIDE DEF c
  <2>3. CallTrue(r)'
    BY <1>2, <2>1, <2>2, CallSet DEF CallTrue, At, Changing
  <2> QED BY <1>3, <2>1, <2>2, <2>3
<1>5. ASSUME NEW m \in Messages, NEW step \in {"edit", "delete"}, NEW text \in Texts,
             BeginChange(r, m, step, text)
      PROVE  Truth'
  <2> DEFINE c == [NoCall EXCEPT !.step = step, !.message = m, !.text = text, !.seen = content[m]]
  <2>1. content[m] \in Content /\ step \in CallSteps
    BY <1>2 DEF TypeOK, CallSteps
  <2>2. c \in CallRecords /\ c.step = step /\ c.message = m /\ c.seen = content[m]
    BY <2>1, NoCallTyped DEF CallRecords
  <2>3. call' = [call EXCEPT ![r] = c] /\ m \in stored
    BY <1>5 DEF BeginChange
  <2> HIDE DEF c
  <2>4. content[m].text \in texts[m] /\ (content[m].deleted => shown[m].deleted)
    BY <2>3 DEF Truth, ContentWasSent
  <2>5. CallTrue(r)'
    BY <1>1, <1>2, <2>2, <2>3, <2>4, CallSet DEF CallTrue, At, Changing
  <2> QED BY <1>3, <2>2, <2>3, <2>5
<1>6. ASSUME NEW ids \in SUBSET Messages, BeginRead(r, ids)
      PROVE  Truth'
  <2> DEFINE c == [NoCall EXCEPT !.step = "read", !.ids = ids, !.chats = {Chat[m] : m \in ids}]
  <2>1. {Chat[m] : m \in ids} \in SUBSET Chats
    BY DEF Chats
  <2>2. /\ c \in CallRecords /\ c.step = "read" /\ c.ids = ids
        /\ c.chats = {Chat[m] : m \in ids}
    BY <2>1, NoCallTyped DEF CallRecords, CallSteps
  <2>3. call' = [call EXCEPT ![r] = c]
    BY <1>6 DEF BeginRead
  <2> HIDE DEF c
  <2>4. call'[r] = c
    BY <1>2, <2>2, <2>3, CallSet
  <2>5. \A m \in ids : Chat[m] \in c.chats
    BY <2>2
  <2>6. CallTrue(r)'
    BY <2>2, <2>4, <2>5 DEF CallTrue, At, Changing
  <2> QED BY <1>3, <2>2, <2>3, <2>6
<1> QED BY <1>4, <1>5, <1>6 DEF Texts

\* and what happens to the instance.
LEMMA EnvironmentTrue ==
    ASSUME Typed, Truth, DeleteInstance \/ Crash \/ UNCHANGED vars
    PROVE  Truth'
<1>1. CASE DeleteInstance
  BY <1>1, Gone DEF DeleteInstance
<1>2. CASE Crash
  <2>1. /\ \A g \in Goroutines : work'[g].step = "idle"
        /\ \A r \in Requests : call'[r].step = "idle"
    BY <1>2 DEF Crash, NoWork, NoCall
  <2>2. UNCHANGED <<instance, stored, content, updates, announced, texts, shown, status>>
    BY <1>2 DEF Crash, database, whatsapp
  <2>3. \A g \in Goroutines : WorkTrue(g)'
    BY <2>1 DEF WorkTrue, Does
  <2>4. \A r \in Requests : CallTrue(r)'
    BY <2>1 DEF CallTrue, At, Changing
  <2> QED BY <2>2, <2>3, <2>4
          DEF Truth, ContentWasSent, UpdatesAreTrue, AnnouncedIsStored
<1>3. CASE UNCHANGED vars
  BY <1>3 DEF vars, Truth, ContentWasSent, UpdatesAreTrue, AnnouncedIsStored, WorkTrue, CallTrue,
              Does, At
<1> QED BY <1>1, <1>2, <1>3

\* Nobody has been told anything at first.
LEMMA InitTrue == Init => Truth
<1> SUFFICES ASSUME Init PROVE Truth
  OBVIOUS
<1>1. NoWork.step = "idle" /\ NoCall.step = "idle"
  BY DEF NoWork, NoCall
<1>2. (\A g \in Goroutines : WorkTrue(g)) /\ \A r \in Requests : CallTrue(r)
  BY <1>1 DEF Init, WorkTrue, CallTrue, Does, At, Changing
<1>3. announced[1] = NoMessage
  BY DEF Init
<1>4. AnnouncedIsStored
  BY <1>3 DEF AnnouncedIsStored
<1>5. ContentWasSent /\ UpdatesAreTrue
  BY DEF Init, ContentWasSent, UpdatesAreTrue
<1> QED BY <1>2, <1>4, <1>5 DEF Init, Truth

\* What was told stays true in every step.
LEMMA NextTrue == Typed /\ Truth /\ [Next]_vars => Truth'
<1> SUFFICES ASSUME Typed, Truth, [Next]_vars PROVE Truth'
  OBVIOUS
<1> QED BY HandleTrue, ServeTrue, ArrivalTrue, BeginTrue, EnvironmentTrue DEF Next

\* Whatever fails, repeats or overlaps: rows show only what WhatsApp was sent,
\* stored updates are known to WhatsApp, and webhooks and listeners speak of
\* messages and updates that are stored.
THEOREM StoreTells ==
    Spec => [](ContentWasSent /\ UpdatesAreTrue /\ AnnouncedIsStored /\ ListenersHearOfStored)
<1>1. Init => Typed /\ Truth
  BY InitTyped, InitTrue
<1>2. (Typed /\ Truth) /\ [Next]_vars => (Typed /\ Truth)'
  BY NextTyped, NextTrue
<1>3. Truth => ContentWasSent /\ UpdatesAreTrue /\ AnnouncedIsStored /\ ListenersHearOfStored
  BY DEF Truth, WorkTrue, ListenersHearOfStored, Does
<1> QED BY <1>1, <1>2, <1>3, PTL DEF Spec

(***************************************************************************)
(* Where no change overlaps or fails, the rows agree with WhatsApp.        *)
(***************************************************************************)

\* The one request that changes m has read what its row still says, and what m
\* shows is what the request will write.
ChangeAgrees(r, m) ==
    /\ \A q \in Requests : Changes(q, m) => q = r
    /\ call[r].seen = content[m]
    /\ call[r].step \in {"edit", "delete"} => shown[m] = content[m]
    /\ At(r, "save edit") => /\ shown[m].text = call[r].text
                             /\ shown[m].deleted = content[m].deleted
    /\ At(r, "save delete") => /\ shown[m].text = content[m].text
                               /\ shown[m].deleted = TRUE

Agrees(m) ==
    /\ m \notin stored => /\ content[m] = Fresh /\ shown[m] = Fresh
                          /\ \A r \in Requests : ~ Changes(r, m)
    /\ m \in stored \ disturbed =>
         /\ \A r \in Requests : Changes(r, m) => ChangeAgrees(r, m)
         /\ (\A r \in Requests : ~ Changes(r, m)) => content[m] = shown[m]

Agreement == instance => \A m \in Messages : Agrees(m)

\* Two contents that agree on the text and the deletion are one.
LEMMA SameContent ==
    ASSUME NEW c \in Content, NEW d \in Content, c.text = d.text, c.deleted = d.deleted
    PROVE  c = d
BY DEF Content

\* A step that leaves the row, the appearance and the changes of m alone.
LEMMA StillAgrees ==
    ASSUME NEW m \in Messages, Agrees(m),
           stored \subseteq stored', disturbed \subseteq disturbed',
           content'[m] = content[m], shown'[m] = shown[m],
           \A q \in Requests : \/ call'[q] = call[q]
                               \/ ~ Changes(q, m) /\ ~ Changes(q, m)'
    PROVE  Agrees(m)'
<1>1. \A q \in Requests : Changes(q, m)' <=> Changes(q, m)
  BY DEF Changes
<1>2. \A q \in Requests : Changes(q, m) => call'[q] = call[q]
  OBVIOUS
<1>3. (m \notin stored => /\ content[m] = Fresh /\ shown[m] = Fresh
                          /\ \A r \in Requests : ~ Changes(r, m))'
  BY <1>1 DEF Agrees, Fresh
<1>4. CASE m \in stored
  <2>1. ASSUME NEW r \in Requests, Changes(r, m), ChangeAgrees(r, m)
        PROVE  ChangeAgrees(r, m)'
    BY <1>1, <1>2, <2>1 DEF ChangeAgrees, At
  <2> QED BY <1>1, <1>3, <1>4, <2>1 DEF Agrees
<1>5. CASE m \notin stored
  <2>1. content'[m] = shown'[m] /\ \A r \in Requests : ~ Changes(r, m)'
    BY <1>1, <1>5 DEF Agrees
  <2> QED BY <1>3, <2>1 DEF Agrees
<1> QED BY <1>4, <1>5

\* A row that is created says what its message shows.
LEMMA InsertKeeps ==
    ASSUME TypeOK, instance, Agreement, NEW x \in Messages, Insert(x)
    PROVE  stored \subseteq stored' /\ \A m \in Messages : content'[m] = content[m]
<1>1. stored \subseteq stored'
  BY DEF Insert
<1>2. CASE x \in stored
  BY <1>1, <1>2 DEF Insert
<1>3. CASE x \notin stored
  <2>1. content' = [content EXCEPT ![x] = Fresh] /\ content[x] = Fresh
    BY <1>3 DEF Insert, Agreement, Agrees
  <2> QED BY <1>1, <2>1 DEF TypeOK
<1> QED BY <1>2, <1>3

\* Where request r moves and its message is m, the others are left alone.
LEMMA OthersAgree ==
    ASSUME Agreement, instance, NEW r \in Requests, NEW m,
           stored \subseteq stored', disturbed \subseteq disturbed',
           \A n \in Messages : n # m => content'[n] = content[n] /\ shown'[n] = shown[n],
           \A q \in Requests : q # r => call'[q] = call[q],
           \A n \in Messages : n # m => ~ Changes(r, n) /\ ~ Changes(r, n)',
           m \in Messages => Agrees(m)'
    PROVE  Agreement'
<1>1. SUFFICES ASSUME NEW n \in Messages, n # m PROVE Agrees(n)'
  BY DEF Agreement
<1>2. Agrees(n)
  BY DEF Agreement
<1> QED BY <1>1, <1>2, StillAgrees

\* Events write rows of messages that have none, and change nothing.
LEMMA EventsAgree ==
    ASSUME Typed, Agreement, NEW g \in Goroutines,
           \/ Handle(g)
           \/ \E m \in Messages : MessageArrives(g, m)
           \/ \E ids \in SUBSET Messages, s \in Statuses : ReceiptArrives(g, ids, s)
    PROVE  Agreement'
<1>1. UNCHANGED <<instance, call, shown, disturbed>>
  BY DEF Handle, CreateOrIgnore, AnnounceUpsert, TellInbound, FindForReceipt, SaveUpdate,
         AnnounceUpdate, MessageArrives, ReceiptArrives, database, whatsapp
<1>2. SUFFICES ASSUME instance,
                      stored \subseteq stored', \A m \in Messages : content'[m] = content[m]
               PROVE  Agreement'
  <2>1. CASE ~ instance
    BY <1>1, <2>1 DEF Agreement
  <2>2. ASSUME instance, Insert(work[g].message), Does(g, "store")
        PROVE  stored \subseteq stored' /\ \A m \in Messages : content'[m] = content[m]
    <3>1. PICK x \in Messages : x = work[g].message
      BY <2>2 DEF Typed, WorkKnown, Does
    <3> QED BY <2>2, <3>1, InsertKeeps DEF Typed
  <2>3. CASE UNCHANGED <<stored, content>>
    BY <1>2, <2>1, <2>3
  <2> QED
    BY <1>2, <2>1, <2>2, <2>3 DEF Handle, CreateOrIgnore, AnnounceUpsert, TellInbound,
       FindForReceipt, SaveUpdate, AnnounceUpdate, MessageArrives, ReceiptArrives, database
<1> QED BY <1>1, <1>2, StillAgrees DEF Agreement

\* The steps of requests that neither edit nor revoke.
LEMMA OtherRequestsAgree ==
    ASSUME Typed, Agreement, NEW r \in Requests,
           \/ \E m \in Messages : BeginSend(r, m)
           \/ \E ids \in SUBSET Messages : BeginRead(r, ids)
           \/ SendMessage(r) \/ PersistSentMessage(r) \/ ReportSent(r)
           \/ MarkRead(r) \/ SaveRead(r)
    PROVE  Agreement'
<1>1. UNCHANGED <<instance, shown, disturbed>>
  BY DEF BeginSend, BeginRead, SendMessage, PersistSentMessage, ReportSent, MarkRead, SaveRead,
         database, whatsapp
<1>2. CASE ~ instance
  BY <1>1, <1>2 DEF Agreement
<1>3. CASE instance
  <2>1. TypeOK
    BY DEF Typed
  <2>2. stored \subseteq stored' /\ \A m \in Messages : content'[m] = content[m]
    <3>1. ASSUME Insert(call[r].message), At(r, "create")
          PROVE  stored \subseteq stored' /\ \A m \in Messages : content'[m] = content[m]
      <4>1. PICK x \in Messages : x = call[r].message
        BY <3>1 DEF Typed, CallKnown, At
      <4> QED BY <1>3, <2>1, <3>1, <4>1, InsertKeeps
    <3> QED
      BY <3>1 DEF BeginSend, BeginRead, SendMessage, PersistSentMessage, ReportSent, MarkRead,
         SaveRead, database
  <2>3. \A m \in Messages : ~ Changes(r, m)
    BY DEF BeginSend, BeginRead, SendMessage, PersistSentMessage, ReportSent, MarkRead, SaveRead,
       At, Changes
  <2> DEFINE Elsewhere == /\ \A q \in Requests : q # r => call'[q] = call[q]
                          /\ call'[r].step \notin {"edit", "save edit", "delete", "save delete"}
  <2>4. Elsewhere
    <3>1. ASSUME NEW m \in Messages, BeginSend(r, m)
          PROVE  Elsewhere
      <4> DEFINE c == [NoCall EXCEPT !.step = "send", !.message = m]
      <4>1. c \in CallRecords /\ c.step = "send"
        BY NoCallTyped DEF CallRecords, CallSteps
      <4>2. call' = [call EXCEPT ![r] = c]
        BY <3>1 DEF BeginSend
      <4> HIDE DEF c
      <4> QED BY <2>1, <4>1, <4>2, CallSet
    <3>2. ASSUME NEW ids \in SUBSET Messages, BeginRead(r, ids)
          PROVE  Elsewhere
      <4> DEFINE c == [NoCall EXCEPT !.step = "read", !.ids = ids, !.chats = {Chat[m] : m \in ids}]
      <4>1. {Chat[m] : m \in ids} \in SUBSET Chats
        BY DEF Chats
      <4>2. c \in CallRecords /\ c.step = "read"
        BY <4>1, NoCallTyped DEF CallRecords, CallSteps
      <4>3. call' = [call EXCEPT ![r] = c]
        BY <3>2 DEF BeginRead
      <4> HIDE DEF c
      <4> QED BY <2>1, <4>2, <4>3, CallSet
    <3>3. ASSUME NEW s \in {"create", "report", "save read"}, Goto(r, s)
          PROVE  Elsewhere
      BY <2>1, <3>3, CallMoved DEF CallSteps
    <3>4. CASE Return(r)
      BY <2>1, <3>4, CallReturned
    <3>5. ASSUME NEW left, NEW s \in {"read", "save read"},
                 call' = [call EXCEPT ![r].chats = left, ![r].step = s]
          PROVE  Elsewhere
      BY <2>1, <3>5 DEF TypeOK
    <3>6. CASE MarkRead(r)
      <4>1. PICK c \in call[r].chats :
              \/ call' = [call EXCEPT ![r].chats = call[r].chats \ {c},
                                      ![r].step = IF call[r].chats \ {c} = {} THEN "save read"
                                                  ELSE "read"]
              \/ Return(r)
        BY <3>6 DEF MarkRead
      <4>2. PICK left : left = call[r].chats \ {c}
        OBVIOUS
      <4>3. PICK s \in {"read", "save read"} : s = IF left = {} THEN "save read" ELSE "read"
        OBVIOUS
      <4> QED BY <3>4, <3>5, <4>1, <4>2, <4>3
    <3> QED BY <3>1, <3>2, <3>3, <3>4, <3>6
            DEF SendMessage, PersistSentMessage, ReportSent, SaveRead
  <2>5. \A m \in Messages : ~ Changes(r, m)'
    BY <2>4 DEF Changes
  <2>6. NoMessage \in Messages => Agrees(NoMessage)'
    BY NameAssumption
  <2> QED BY <1>1, <1>3, <2>2, <2>3, <2>4, <2>5, <2>6, OthersAgree
<1> QED BY <1>2, <1>3

\* A change that begins has read the row.
LEMMA BeginChangeAgrees ==
    ASSUME Typed, Agreement, NEW r \in Requests, NEW m \in Messages, NEW step \in {"edit", "delete"},
           NEW text \in Texts, BeginChange(r, m, step, text)
    PROVE  Agreement'
<1>1. /\ TypeOK /\ instance /\ m \in stored /\ At(r, "idle")
      /\ UNCHANGED <<instance, stored, content, shown>> /\ disturbed \subseteq disturbed'
  BY DEF Typed, BeginChange, database, whatsapp
<1> DEFINE c == [NoCall EXCEPT !.step = step, !.message = m, !.text = text, !.seen = content[m]]
<1>2. content[m] \in Content /\ step \in CallSteps
  BY <1>1 DEF TypeOK, CallSteps
<1>3. c \in CallRecords /\ c.step = step /\ c.message = m /\ c.seen = content[m]
  BY <1>2, NoCallTyped DEF CallRecords
<1>4. call' = [call EXCEPT ![r] = c]
  BY DEF BeginChange
<1> HIDE DEF c
<1>5. call'[r] = c /\ \A q \in Requests : q # r => call'[q] = call[q]
  BY <1>1, <1>3, <1>4, CallSet
<1>6. \A n \in Messages : ~ Changes(r, n) /\ (n # m => ~ Changes(r, n)')
  BY <1>1, <1>3, <1>5 DEF Changes, At
<1>7. Agrees(m)'
  <2>1. CASE \E q \in Requests : Changes(q, m)
    BY <1>1, <2>1 DEF Agrees, BeginChange
  <2>2. CASE disturbed' = disturbed /\ \A q \in Requests : ~ Changes(q, m)
    <3>1. \A q \in Requests : Changes(q, m)' => q = r
      BY <1>5, <2>2 DEF Changes
    <3>2. Changes(r, m)'
      BY <1>3, <1>5 DEF Changes
    <3>3. m \notin disturbed => content[m] = shown[m]
      BY <1>1, <2>2 DEF Agreement, Agrees
    <3>4. m \notin disturbed => ChangeAgrees(r, m)'
      BY <1>1, <1>3, <1>5, <3>1, <3>3 DEF ChangeAgrees, At
    <3> QED BY <1>1, <2>2, <3>1, <3>2, <3>4 DEF Agrees
  <2> QED BY <2>1, <2>2 DEF BeginChange
<1> QED BY <1>1, <1>5, <1>6, <1>7, OthersAgree

\* WhatsApp answers a change, or it fails.
LEMMA SendChangeAgrees ==
    ASSUME Typed, Agreement, instance, NEW r \in Requests,
           NEW step \in {"edit", "delete"}, NEW save \in {"save edit", "save delete"},
           NEW newTexts, NEW newShown, SendChange(r, step, save, newTexts, newShown),
           \A n \in Messages : n # call[r].message => newShown[n] = shown[n],
           save = "save edit" =>
             /\ newShown[call[r].message].text = call[r].text
             /\ newShown[call[r].message].deleted = shown[call[r].message].deleted,
           save = "save delete" =>
             /\ newShown[call[r].message].text = shown[call[r].message].text
             /\ newShown[call[r].message].deleted = TRUE
    PROVE  Agreement'
<1>1. /\ TypeOK /\ At(r, step) /\ UNCHANGED <<instance, stored, content>>
      /\ disturbed \subseteq disturbed'
  BY DEF Typed, SendChange, database
<1>2. PICK m \in Messages : m = call[r].message
  BY <1>1 DEF Typed, CallKnown, At
<1>3. Changes(r, m) /\ m \in stored /\ Agrees(m)
  BY <1>1, <1>2 DEF Changes, At, Agreement, Agrees
<1>4. \A n \in Messages : n # m => newShown[n] = shown[n] /\ ~ Changes(r, n)
  BY <1>2 DEF Changes
<1>5. CASE Goto(r, save) /\ shown' = newShown /\ UNCHANGED disturbed
  <2>1. /\ call'[r].step = save /\ call'[r].message = m
        /\ call'[r].seen = call[r].seen /\ call'[r].text = call[r].text
        /\ \A q \in Requests : q # r => call'[q] = call[q]
    BY <1>1, <1>2, <1>5, CallMoved DEF CallSteps
  <2>2. m \in stored' /\ disturbed' = disturbed /\ Agrees(m)
    BY <1>1, <1>3, <1>5
  <2>3. ASSUME m \notin disturbed PROVE Agrees(m)'
    <3>1. ChangeAgrees(r, m) /\ shown[m] = content[m]
      BY <1>1, <1>3, <2>3 DEF Agrees, ChangeAgrees, At
    <3>2. Changes(r, m)' /\ \A q \in Requests : Changes(q, m)' => q = r
      BY <2>1, <3>1 DEF Changes, ChangeAgrees
    <3>3. ChangeAgrees(r, m)'
      BY <1>1, <1>2, <1>5, <2>1, <3>1, <3>2 DEF ChangeAgrees, At
    <3> QED BY <2>2, <3>2, <3>3 DEF Agrees
  <2>4. Agrees(m)'
    BY <2>2, <2>3 DEF Agrees
  <2>5. \A n \in Messages : n # m => ~ Changes(r, n)'
    BY <2>1 DEF Changes
  <2> QED BY <1>1, <1>4, <1>5, <2>1, <2>4, <2>5, OthersAgree
<1>6. ASSUME Return(r), shown' \in {shown, newShown},
             disturbed' = disturbed \union {m} \/ (UNCHANGED <<shown, disturbed>>)
      PROVE  Agreement'
  <2>1. call'[r].step = "idle" /\ \A q \in Requests : q # r => call'[q] = call[q]
    BY <1>1, <1>6, CallReturned
  <2>2. \A n \in Messages : ~ Changes(r, n)'
    BY <2>1 DEF Changes
  <2>3. Agrees(m)'
    <3>1. CASE m \in disturbed'
      BY <1>1, <1>3, <3>1 DEF Agrees
    <3>2. CASE m \notin disturbed'
      <4>1. ChangeAgrees(r, m) /\ shown[m] = content[m] /\ shown' = shown
        BY <1>1, <1>3, <1>6, <3>2 DEF Agrees, ChangeAgrees, At
      <4>2. \A q \in Requests : ~ Changes(q, m)'
        BY <2>1, <2>2, <4>1 DEF ChangeAgrees, Changes
      <4> QED BY <1>1, <1>3, <4>1, <4>2 DEF Agrees
    <3> QED BY <3>1, <3>2
  <2> QED BY <1>1, <1>4, <1>6, <2>1, <2>2, <2>3, OthersAgree
<1> QED BY <1>2, <1>5, <1>6 DEF SendChange

\* The row is written, or it is known that it was not.
LEMMA UpdateContentAgrees ==
    ASSUME Typed, Agreement, instance, NEW r \in Requests,
           NEW step \in {"save edit", "save delete"}, NEW new \in Content,
           UpdateContent(r, step, new),
           step = "save edit" => /\ new.text = call[r].text
                                 /\ new.deleted = call[r].seen.deleted,
           step = "save delete" => /\ new.text = call[r].seen.text
                                   /\ new.deleted = TRUE
    PROVE  Agreement'
<1>1. /\ TypeOK /\ At(r, step) /\ UNCHANGED <<instance, stored, shown>>
      /\ disturbed \subseteq disturbed' /\ Return(r)
  BY DEF Typed, UpdateContent, whatsapp
<1>2. PICK m \in Messages : m = call[r].message
  BY <1>1 DEF Typed, CallKnown, At
<1>3. Changes(r, m) /\ m \in stored /\ Agrees(m)
  BY <1>1, <1>2 DEF Changes, At, Agreement, Agrees
<1>4. call'[r].step = "idle" /\ \A q \in Requests : q # r => call'[q] = call[q]
  BY <1>1, CallReturned
<1>5. /\ \A n \in Messages : ~ Changes(r, n)'
      /\ \A n \in Messages : n # m => ~ Changes(r, n)
  BY <1>2, <1>4 DEF Changes
<1>6. /\ \/ content' = [content EXCEPT ![m] = new] /\ disturbed' = disturbed
         \/ m \in disturbed' /\ content' = content
      /\ m \in stored'
  BY <1>1, <1>2, <1>3 DEF UpdateContent
<1>7. \A n \in Messages : n # m => content'[n] = content[n]
  BY <1>1, <1>6 DEF TypeOK
<1>8. Agrees(m)'
  <2>1. CASE m \in disturbed'
    BY <1>6, <2>1 DEF Agrees
  <2>2. CASE m \notin disturbed'
    <3>1. ChangeAgrees(r, m) /\ content'[m] = new
      BY <1>1, <1>3, <1>6, <2>2 DEF Agrees, TypeOK
    <3>2. \A q \in Requests : ~ Changes(q, m)'
      BY <1>4, <1>5, <3>1 DEF ChangeAgrees, Changes
    <3>3. new.text = shown[m].text /\ new.deleted = shown[m].deleted
      BY <1>1, <3>1 DEF ChangeAgrees, At
    <3>4. new = shown[m]
      BY <1>1, <3>3, SameContent DEF TypeOK
    <3> QED BY <1>1, <1>6, <3>1, <3>2, <3>4 DEF Agrees
  <2> QED BY <2>1, <2>2
<1> QED BY <1>1, <1>4, <1>5, <1>7, <1>8, OthersAgree

\* The edits and deletions of the requests keep rows and server in agreement.
LEMMA ChangesAgree ==
    ASSUME Typed, Agreement, NEW r \in Requests,
           SendEdit(r) \/ SendRevoke(r) \/ SaveEdit(r) \/ SaveDelete(r)
    PROVE  Agreement'
<1>1. TypeOK /\ instance' = instance
  BY DEF Typed, SendEdit, SendRevoke, SaveEdit, SaveDelete, SendChange, UpdateContent, database
<1>2. CASE ~ instance
  BY <1>1, <1>2 DEF Agreement
<1>3. call[r].message \in Messages /\ call[r].seen \in Content /\ call[r].text \in Texts
  BY <1>1 DEF Typed, CallKnown, TypeOK, SendEdit, SendRevoke, SaveEdit, SaveDelete, SendChange,
              UpdateContent, At
<1>4. CASE instance /\ SendEdit(r)
  <2> DEFINE newTexts == [texts EXCEPT ![call[r].message] = @ \union {call[r].text}]
             newShown == [shown EXCEPT ![call[r].message].text = call[r].text]
  <2>1. /\ \A n \in Messages : n # call[r].message => newShown[n] = shown[n]
        /\ newShown[call[r].message].text = call[r].text
        /\ newShown[call[r].message].deleted = shown[call[r].message].deleted
    BY <1>1, <1>3 DEF TypeOK, Content
  <2>2. SendChange(r, "edit", "save edit", newTexts, newShown)
    BY <1>4 DEF SendEdit
  <2> HIDE DEF newTexts, newShown
  <2>3. /\ "edit" \in {"edit", "delete"} /\ "save edit" \in {"save edit", "save delete"}
        /\ "save edit" # "save delete"
    OBVIOUS
  <2> QED BY <1>4, <2>1, <2>2, <2>3, SendChangeAgrees, Zenon
<1>5. CASE instance /\ SendRevoke(r)
  <2> DEFINE newShown == [shown EXCEPT ![call[r].message].deleted = TRUE]
  <2>1. /\ \A n \in Messages : n # call[r].message => newShown[n] = shown[n]
        /\ newShown[call[r].message].text = shown[call[r].message].text
        /\ newShown[call[r].message].deleted = TRUE
    BY <1>1, <1>3 DEF TypeOK, Content
  <2>2. SendChange(r, "delete", "save delete", texts, newShown)
    BY <1>5 DEF SendRevoke
  <2> HIDE DEF newShown
  <2> QED BY <1>5, <2>1, <2>2, SendChangeAgrees
<1>6. CASE instance /\ SaveEdit(r)
  <2> DEFINE new == [call[r].seen EXCEPT !.text = call[r].text]
  <2>1. new \in Content /\ new.text = call[r].text /\ new.deleted = call[r].seen.deleted
    BY <1>3 DEF Content
  <2>2. UpdateContent(r, "save edit", new)
    BY <1>6 DEF SaveEdit
  <2> HIDE DEF new
  <2> QED BY <1>6, <2>1, <2>2, UpdateContentAgrees
<1>7. CASE instance /\ SaveDelete(r)
  <2> DEFINE new == [call[r].seen EXCEPT !.deleted = TRUE]
  <2>1. new \in Content /\ new.text = call[r].seen.text /\ new.deleted = TRUE
    BY <1>3 DEF Content
  <2>2. UpdateContent(r, "save delete", new)
    BY <1>7 DEF SaveDelete
  <2> HIDE DEF new
  <2> QED BY <1>7, <2>1, <2>2, UpdateContentAgrees
<1> QED BY <1>2, <1>4, <1>5, <1>6, <1>7

\* A crash leaves its changes halfway.
LEMMA EnvironmentAgrees ==
    ASSUME Typed, Agreement, DeleteInstance \/ Crash \/ UNCHANGED vars
    PROVE  Agreement'
<1>1. CASE DeleteInstance
  BY <1>1 DEF DeleteInstance, Agreement
<1>2. CASE Crash
  <2>1. UNCHANGED <<instance, stored, content, shown>>
    BY <1>2 DEF Crash, database, whatsapp
  <2>2. \A r \in Requests, m \in Messages : ~ Changes(r, m)'
    BY <1>2 DEF Crash, NoCall, Changes
  <2>3. disturbed' = disturbed \union {m \in Messages : \E r \in Requests : Changes(r, m)}
    BY <1>2 DEF Crash
  <2>4. ASSUME NEW m \in Messages, Agrees(m) PROVE Agrees(m)'
    <3>1. m \notin stored => content[m] = Fresh /\ shown[m] = Fresh
      BY <2>4 DEF Agrees
    <3>2. m \in stored' \ disturbed' => content[m] = shown[m]
      BY <2>1, <2>3, <2>4 DEF Agrees
    <3>3. (m \notin stored => /\ content[m] = Fresh /\ shown[m] = Fresh
                              /\ \A r \in Requests : ~ Changes(r, m))'
      BY <2>1, <2>2, <3>1 DEF Fresh
    <3> QED BY <2>1, <2>2, <3>2, <3>3 DEF Agrees
  <2> QED BY <2>1, <2>4 DEF Agreement
<1>3. CASE UNCHANGED vars
  <2>1. UNCHANGED <<instance, stored, content, shown, disturbed, call>>
    BY <1>3 DEF vars
  <2> QED BY <2>1, StillAgrees DEF Agreement
<1> QED BY <1>1, <1>2, <1>3

\* Rows and server agree at first.
LEMMA InitAgrees == Init => Agreement
<1> SUFFICES ASSUME Init, NEW m \in Messages PROVE Agrees(m)
  BY DEF Agreement
<1>1. \A r \in Requests : ~ Changes(r, m)
  BY DEF Init, NoCall, Changes
<1> QED BY <1>1 DEF Init, Agrees

\* Every step keeps their agreement.
LEMMA NextAgrees == Typed /\ Agreement /\ [Next]_vars => Agreement'
<1> SUFFICES ASSUME Typed, Agreement, [Next]_vars PROVE Agreement'
  OBVIOUS
<1>1. ASSUME NEW g \in Goroutines,
             \/ Handle(g)
             \/ \E m \in Messages : MessageArrives(g, m)
             \/ \E ids \in SUBSET Messages, s \in Statuses : ReceiptArrives(g, ids, s)
      PROVE  Agreement'
  BY <1>1, EventsAgree
<1>2. ASSUME NEW r \in Requests, Serve(r) PROVE Agreement'
  BY <1>2, OtherRequestsAgree, ChangesAgree DEF Serve
<1>3. ASSUME NEW r \in Requests,
             \/ \E m \in Messages : BeginSend(r, m)
             \/ \E ids \in SUBSET Messages : BeginRead(r, ids)
      PROVE  Agreement'
  BY <1>3, OtherRequestsAgree
<1>4. ASSUME NEW r \in Requests, NEW m \in Messages,
             \/ \E text \in NewTexts : BeginChange(r, m, "edit", text)
             \/ BeginChange(r, m, "delete", Original)
      PROVE  Agreement'
  BY <1>4, BeginChangeAgrees DEF Texts
<1>5. CASE DeleteInstance \/ Crash \/ UNCHANGED vars
  BY <1>5, EnvironmentAgrees
<1> QED BY <1>1, <1>2, <1>3, <1>4, <1>5 DEF Next

\* However messages, receipts, sends and marks interleave with them: a row says
\* what the accepted edits and revocations of its message made of it, unless two
\* of them overlapped or one failed halfway.
THEOREM QuietRowsAgree == Spec => []QuietMeansAgreed
<1>1. Init => Typed /\ Truth /\ Agreement
  BY InitTyped, InitTrue, InitAgrees
<1>2. (Typed /\ Truth /\ Agreement) /\ [Next]_vars => (Typed /\ Truth /\ Agreement)'
  BY NextTyped, NextTrue, NextAgrees
<1>3. Typed /\ Truth /\ Agreement => QuietMeansAgreed
  <2> SUFFICES ASSUME Typed, Truth, Agreement, NEW m \in stored \ disturbed,
                      \A r \in Requests : ~ Changes(r, m)
               PROVE  content[m] = shown[m]
    BY DEF QuietMeansAgreed
  <2>1. instance /\ m \in Messages
    BY DEF Truth, Typed, TypeOK
  <2> QED BY <2>1 DEF Agreement, Agrees
<1> QED BY <1>1, <1>2, <1>3, PTL DEF Spec

(***************************************************************************)
(* Redelivery changes nothing.                                             *)
(***************************************************************************)

\* No row and no update is lost, and a row changes by a change of its message.
RowsKept ==
    /\ stored \subseteq stored' /\ updates \subseteq updates'
    /\ \A m \in stored : content'[m] # content[m] => \E r \in Requests : Changes(r, m)

\* As long as the instance exists, a message that is delivered again, a receipt
\* that comes again or late, and the echo of a message that was sent never undo
\* an edit or a revocation, and nothing stored is lost (CreateOrIgnore,
\* persistSentMessage, UpdateContentForInstance).
RedeliveryIsHarmless == [][instance' => RowsKept]_vars

\* The handlers of events only add rows and updates.
LEMMA HandleKeepsRows ==
    ASSUME TypeOK, NEW g \in Goroutines, Handle(g)
    PROVE  RowsKept
<1>1. CASE CreateOrIgnore(g)
  <2>1. updates' = updates
    BY <1>1 DEF CreateOrIgnore
  <2>2. CASE Insert(work[g].message)
    BY <2>1, <2>2 DEF Insert, RowsKept, TypeOK
  <2>3. CASE UNCHANGED <<stored, content>>
    BY <2>1, <2>3 DEF RowsKept
  <2> QED BY <1>1, <2>2, <2>3 DEF CreateOrIgnore
<1>2. CASE SaveUpdate(g)
  BY <1>2 DEF SaveUpdate, RowsKept
<1>3. CASE AnnounceUpsert(g) \/ TellInbound(g) \/ FindForReceipt(g) \/ AnnounceUpdate(g)
  BY <1>3 DEF AnnounceUpsert, TellInbound, FindForReceipt, AnnounceUpdate, database, RowsKept
<1> QED BY <1>1, <1>2, <1>3 DEF Handle

\* A request writes the row of the message it changes, or a new one.
LEMMA ServeKeepsRows ==
    ASSUME TypeOK, NEW r \in Requests, Serve(r)
    PROVE  RowsKept
<1>1. CASE PersistSentMessage(r)
  <2>1. updates' = updates
    BY <1>1 DEF PersistSentMessage
  <2>2. CASE Insert(call[r].message)
    BY <2>1, <2>2 DEF Insert, RowsKept, TypeOK
  <2>3. CASE UNCHANGED <<stored, content>>
    BY <2>1, <2>3 DEF RowsKept
  <2> QED BY <1>1, <2>2, <2>3 DEF PersistSentMessage
<1>2. CASE SaveEdit(r) \/ SaveDelete(r)
  <2>1. /\ UNCHANGED <<stored, updates>> /\ Changes(r, call[r].message)
        /\ \/ content' = content
           \/ \E new : content' = [content EXCEPT ![call[r].message] = new]
    BY <1>2 DEF SaveEdit, SaveDelete, UpdateContent, Changes, At
  <2>2. \A m \in stored : content'[m] # content[m] => m = call[r].message
    BY <2>1 DEF TypeOK
  <2> QED BY <2>1, <2>2 DEF RowsKept
<1>3. CASE SaveRead(r)
  BY <1>3 DEF SaveRead, RowsKept
<1>4. CASE SendMessage(r) \/ ReportSent(r) \/ SendEdit(r) \/ SendRevoke(r) \/ MarkRead(r)
  BY <1>4 DEF SendMessage, ReportSent, SendEdit, SendRevoke, SendChange, MarkRead, database, RowsKept
<1> QED BY <1>1, <1>2, <1>3, <1>4 DEF Serve

\* Rows and updates only grow, and only a change changes a row.
THEOREM RedeliveryKeepsRows == Spec => RedeliveryIsHarmless
<1>1. TypeOK /\ [Next]_vars => [instance' => RowsKept]_vars
  <2> SUFFICES ASSUME TypeOK, Next, instance' PROVE RowsKept
    BY DEF vars
  <2>1. ASSUME NEW g \in Goroutines, Handle(g) PROVE RowsKept
    BY <2>1, HandleKeepsRows
  <2>2. ASSUME NEW r \in Requests, Serve(r) PROVE RowsKept
    BY <2>2, ServeKeepsRows
  <2>3. ASSUME NEW g \in Goroutines,
               \/ \E m \in Messages : MessageArrives(g, m)
               \/ \E ids \in SUBSET Messages, s \in Statuses : ReceiptArrives(g, ids, s)
        PROVE  RowsKept
    BY <2>3 DEF MessageArrives, ReceiptArrives, database, RowsKept
  <2>4. ASSUME NEW r \in Requests,
               \/ \E m \in Messages : BeginSend(r, m)
               \/ \E m \in Messages, text \in NewTexts : BeginChange(r, m, "edit", text)
               \/ \E m \in Messages : BeginChange(r, m, "delete", Original)
               \/ \E ids \in SUBSET Messages : BeginRead(r, ids)
        PROVE  RowsKept
    BY <2>4 DEF BeginSend, BeginChange, BeginRead, database, RowsKept
  <2>5. CASE DeleteInstance \/ Crash
    BY <2>5 DEF DeleteInstance, Crash, database, RowsKept
  <2> QED BY <2>1, <2>2, <2>3, <2>4, <2>5 DEF Next
<1> QED BY <1>1, TypeCorrect, PTL DEF Spec, RedeliveryIsHarmless

=============================================================================
