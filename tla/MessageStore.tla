---------------------------- MODULE MessageStore ----------------------------
(***************************************************************************)
(* The stored messages of one instance (internal/whatsapp:                 *)
(* event_persistence.go; internal/message: service.go; internal/chat:      *)
(* service.go; internal/database/repository: message_repository.go,        *)
(* message_update_repository.go).  Each message or receipt that WhatsApp   *)
(* delivers has a goroutine of its own; API requests send, edit, revoke    *)
(* and mark messages at the same time.  A step is one statement or         *)
(* transaction, one network call, or one call of a listener.               *)
(*                                                                         *)
(* WhatsApp is external: it delivers what it likes, as often as it likes,  *)
(* and a network call that fails may have arrived.                         *)
(***************************************************************************)
CONSTANTS
    Sent,           \* ids of messages the API sends
    Phoned,         \* ids of messages the paired phone sends
    Incoming,       \* ids of messages others send
    Chat,           \* chat and sender of each message
    Goroutines,     \* bound: events handled at a time
    Requests,       \* bound: requests served at a time
    Original,       \* a message's first text
    NewTexts,       \* bound: what messages are edited to
    Statuses,       \* bound: what receipts say
    NoMessage,
    SaveUpdates     \* SaveMessageUpdate; SaveDataNewMessage is on

Messages == Sent \union Phoned \union Incoming

\* key_from_me: the messages that can be edited and revoked.
Outgoing == Sent \union Phoned

Chats == {Chat[m] : m \in Messages}

ASSUME OriginAssumption == Sent \intersect (Phoned \union Incoming) = {}
ASSUME ChatAssumption == DOMAIN Chat = Messages
ASSUME NameAssumption == NoMessage \notin Messages /\ Original \notin NewTexts
ASSUME StatusAssumption == "read" \in Statuses /\ {"upsert", "sent"} \intersect Statuses = {}
ASSUME SaveAssumption == SaveUpdates \in BOOLEAN

VARIABLES
    instance,    \* whether the instance's row exists
    stored,      \* the messages with a row
    content,     \* content[m]: what the row of m says
    updates,     \* the rows of whatsapp_message_updates
    announced,   \* history: the last webhook that was dispatched: its message and event
    work,        \* work[g]: the event goroutine g handles
    call,        \* call[r]: the request r serves
    texts,       \* history: texts[m], the texts WhatsApp accepted for m
    shown,       \* history: what m shows, as far as our calls went
    status,      \* history: status[m], what WhatsApp knows of m's fate
    disturbed    \* history: messages with overlapping or failed changes

vars == <<instance, stored, content, updates, announced, work, call, texts, shown, status,
          disturbed>>

Texts == NewTexts \union {Original}

Content == [text : Texts, deleted : BOOLEAN]

Fresh == [text |-> Original, deleted |-> FALSE]

EventSteps == {"idle", "store", "announce", "listen", "find", "update", "inform"}

CallSteps == {"idle", "send", "create", "report", "edit", "save edit", "delete", "save delete",
              "read", "save read"}

TypeOK ==
    /\ instance \in BOOLEAN
    /\ stored \subseteq Messages
    /\ content \in [Messages -> Content]
    /\ updates \subseteq Messages \X Statuses
    /\ announced \in (Messages \union {NoMessage}) \X (Statuses \union {"upsert", "sent"})
    /\ work \in [Goroutines -> [step : EventSteps, message : Messages \union {NoMessage},
                                left : SUBSET Messages, status : Statuses]]
    /\ call \in [Requests -> [step : CallSteps, message : Messages \union {NoMessage},
                              seen : Content, text : Texts, ids : SUBSET Messages, chats : SUBSET Chats]]
    /\ texts \in [Messages -> SUBSET Texts]
    /\ shown \in [Messages -> Content]
    /\ status \in [Messages -> SUBSET Statuses]
    /\ disturbed \subseteq Messages

NoWork == [step |-> "idle", message |-> NoMessage, left |-> {}, status |-> "read"]

NoCall == [step |-> "idle", message |-> NoMessage, seen |-> Fresh, text |-> Original,
           ids |-> {}, chats |-> {}]

Init ==
    /\ instance = TRUE
    /\ stored = {}
    /\ content = [m \in Messages |-> Fresh]
    /\ updates = {}
    /\ announced = <<NoMessage, "sent">>
    /\ work = [g \in Goroutines |-> NoWork]
    /\ call = [r \in Requests |-> NoCall]
    /\ texts = [m \in Messages |-> {}]
    /\ shown = [m \in Messages |-> Fresh]
    /\ status = [m \in Messages |-> {}]
    /\ disturbed = {}

database == <<instance, stored, content, updates>>
whatsapp == <<texts, shown, status>>

Does(g, step) == work[g].step = step
DoesNext(g, step) == work' = [work EXCEPT ![g].step = step]
Ends(g) == work' = [work EXCEPT ![g] = NoWork]

At(r, step) == call[r].step = step
Goto(r, step) == call' = [call EXCEPT ![r].step = step]
Return(r) == call' = [call EXCEPT ![r] = NoCall]

\* The dispatch of a webhook finds the instance by its name, and may fail.
Dispatch(m, event) ==
    \/ instance /\ announced' = <<m, event>>
    \/ UNCHANGED announced

\* WhatsApp has message m.
Exists(m) == texts[m] # {}

Insert(m) ==
    /\ stored' = stored \union {m}
    /\ content' = IF m \in stored THEN content ELSE [content EXCEPT ![m] = Fresh]

-----------------------------------------------------------------------------
(* Events: one goroutine each.                                             *)

\* WhatsApp delivers m, perhaps again.
MessageArrives(g, m) ==
    /\ Does(g, "idle")
    /\ m \in Phoned \union Incoming
    /\ texts' = [texts EXCEPT ![m] = @ \union {Original}]
    /\ work' = [work EXCEPT ![g] = [NoWork EXCEPT !.step = "store", !.message = m]]
    /\ UNCHANGED <<database, announced, call, shown, status, disturbed>>

\* The error of the INSERT is logged, and the handler goes on.
CreateOrIgnore_GoesOn(g) ==
    /\ Does(g, "store")
    /\ \/ instance /\ Insert(work[g].message)
       \/ UNCHANGED <<stored, content>>
    /\ DoesNext(g, "announce")
    /\ UNCHANGED <<instance, updates, announced, call, whatsapp, disturbed>>

\* CreateOrIgnore: the foreign key refuses a message of no instance.
CreateOrIgnore(g) ==
    /\ Does(g, "store")
    /\ \/ instance /\ Insert(work[g].message) /\ DoesNext(g, "announce")
       \/ Ends(g) /\ UNCHANGED <<stored, content>>
    /\ UNCHANGED <<instance, updates, announced, call, whatsapp, disturbed>>

\* dispatchMessageUpsertWebhook reads the message again.  Then
\* HandleMessage calls the listeners, and HandleFBMessage ends.
AnnounceUpsert(g) ==
    LET m == work[g].message IN
    /\ Does(g, "announce")
    /\ IF m \in stored THEN Dispatch(m, "upsert") ELSE UNCHANGED announced
    /\ DoesNext(g, "listen") \/ Ends(g)
    /\ UNCHANGED <<database, call, whatsapp, disturbed>>

\* tellInbound has called its listeners.
TellInbound(g) ==
    /\ Does(g, "listen")
    /\ Ends(g)
    /\ UNCHANGED <<database, announced, call, whatsapp, disturbed>>

\* A receipt says s of some messages that WhatsApp has.
ReceiptArrives(g, ids, s) ==
    /\ Does(g, "idle")
    /\ ids # {} /\ \A m \in ids : Exists(m)
    /\ status' = [m \in Messages |-> status[m] \union (IF m \in ids THEN {s} ELSE {})]
    /\ work' = [work EXCEPT ![g] = [NoWork EXCEPT !.step = "find", !.left = ids, !.status = s]]
    /\ UNCHANGED <<database, announced, call, texts, shown, disturbed>>

\* The loop of HandleReceipt goes on without m, or ends.
Continue(g, m) ==
    LET left == work[g].left \ {m} IN
    work' = [work EXCEPT ![g] =
                IF left = {} THEN NoWork
                ELSE [NoWork EXCEPT !.step = "find", !.left = left, !.status = work[g].status]]

\* findMessageWithRetry: an attempt that finds nothing changes nothing; the last
\* one, another error, and a context that ended give the message up.
FindForReceipt(g) ==
    /\ Does(g, "find")
    /\ \E m \in work[g].left :
         \/ /\ m \in stored \/ ~ SaveUpdates
            /\ work' = [work EXCEPT ![g].message = m,
                                    ![g].step = IF SaveUpdates THEN "update" ELSE "inform"]
         \/ SaveUpdates /\ Continue(g, m)
    /\ UNCHANGED <<database, announced, call, whatsapp, disturbed>>

\* The loop does not leave out a receipt it could not store.
SaveUpdate_NoContinue(g) ==
    LET m == work[g].message IN
    /\ Does(g, "update")
    /\ \/ m \in stored /\ updates' = updates \union {<<m, work[g].status>>}
       \/ UNCHANGED updates
    /\ DoesNext(g, "inform")
    /\ UNCHANGED <<instance, stored, content, announced, call, whatsapp, disturbed>>

\* MessageUpdateRepository.CreateOrIgnore.
SaveUpdate(g) ==
    LET m == work[g].message IN
    /\ Does(g, "update")
    /\ \/ m \in stored /\ updates' = updates \union {<<m, work[g].status>>} /\ DoesNext(g, "inform")
       \/ Continue(g, m) /\ UNCHANGED updates
    /\ UNCHANGED <<instance, stored, content, announced, call, whatsapp, disturbed>>

AnnounceUpdate(g) ==
    LET m == work[g].message IN
    /\ Does(g, "inform")
    /\ Dispatch(m, work[g].status)
    /\ Continue(g, m)
    /\ UNCHANGED <<database, call, whatsapp, disturbed>>

-----------------------------------------------------------------------------
(* Requests.  Each begins when it has found an instance and a client.      *)

\* send: a message with a new id.
BeginSend(r, m) ==
    /\ At(r, "idle") /\ instance
    /\ m \in Sent /\ ~ Exists(m) /\ \A q \in Requests : call[q].message # m
    /\ call' = [call EXCEPT ![r] = [NoCall EXCEPT !.step = "send", !.message = m]]
    /\ UNCHANGED <<database, announced, work, whatsapp, disturbed>>

SendMessage(r) ==
    LET arrived == [texts EXCEPT ![call[r].message] = @ \union {Original}] IN
    /\ At(r, "send")
    /\ \/ Goto(r, "create") /\ texts' = arrived
       \/ Return(r) /\ texts' \in {texts, arrived}
    /\ UNCHANGED <<database, announced, work, shown, status, disturbed>>

\* persistSentMessage: the message stays sent where this fails, and stored where
\* only the read after the INSERT fails.
PersistSentMessage(r) ==
    /\ At(r, "create")
    /\ \/ /\ instance /\ call[r].message \notin stored
          /\ Insert(call[r].message)
          /\ Goto(r, "report") \/ Return(r)
       \/ Return(r) /\ UNCHANGED <<stored, content>>
    /\ UNCHANGED <<instance, updates, announced, work, whatsapp, disturbed>>

ReportSent(r) ==
    /\ At(r, "report")
    /\ Dispatch(call[r].message, "sent")
    /\ Return(r)
    /\ UNCHANGED <<database, work, whatsapp, disturbed>>

\* Request r is editing or revoking m.
Changes(r, m) ==
    call[r].message = m /\ call[r].step \in {"edit", "save edit", "delete", "save delete"}

\* EditMessage or DeleteMessageForEveryone has read the row of m.
BeginChange(r, m, step, text) ==
    /\ At(r, "idle") /\ instance
    /\ m \in stored \intersect Outgoing
    /\ call' = [call EXCEPT ![r] = [NoCall EXCEPT !.step = step, !.message = m, !.text = text,
                                                  !.seen = content[m]]]
    /\ disturbed' = disturbed \union (IF \E q \in Requests : Changes(q, m) THEN {m} ELSE {})
    /\ UNCHANGED <<database, announced, work, whatsapp>>

\* The row is written whatever WhatsApp answered.
SendChange_Ignored(r, step, save, newTexts, newShown) ==
    /\ At(r, step)
    /\ Goto(r, save)
    /\ \/ texts' = newTexts /\ shown' = newShown
       \/ UNCHANGED <<texts, shown>>
    /\ UNCHANGED <<database, announced, work, status, disturbed>>

\* WhatsApp is sent the change of call[r].message.
SendChange(r, step, save, newTexts, newShown) ==
    LET m == call[r].message IN
    /\ At(r, step)
    /\ \/ /\ Goto(r, save)
          /\ texts' = newTexts /\ shown' = newShown
          /\ UNCHANGED disturbed
       \/ Return(r) /\ UNCHANGED <<texts, shown, disturbed>>
       \/ /\ Return(r)
          /\ texts' = newTexts /\ shown' = newShown
          /\ disturbed' = disturbed \union {m}
    /\ UNCHANGED <<database, announced, work, status>>

SendEdit(r) ==
    LET m == call[r].message IN
    SendChange(r, "edit", "save edit", [texts EXCEPT ![m] = @ \union {call[r].text}],
               [shown EXCEPT ![m].text = call[r].text])

SendRevoke(r) ==
    SendChange(r, "delete", "save delete", texts,
               [shown EXCEPT ![call[r].message].deleted = TRUE])

\* UpdateContentForInstance writes what was read, changed; the read after the
\* UPDATE changes nothing but the answer.
UpdateContent(r, step, new) ==
    LET m == call[r].message IN
    /\ At(r, step)
    /\ \/ m \in stored /\ content' = [content EXCEPT ![m] = new] /\ UNCHANGED disturbed
       \/ disturbed' = disturbed \union {m} /\ UNCHANGED content
    /\ Return(r)
    /\ UNCHANGED <<instance, stored, updates, announced, work, whatsapp>>

\* The content is written anew instead of changed.
SaveEdit_Anew(r) ==
    UpdateContent(r, "save edit", [text |-> call[r].text, deleted |-> FALSE])

\* markEditedContent
SaveEdit(r) == UpdateContent(r, "save edit", [call[r].seen EXCEPT !.text = call[r].text])

\* markDeletedContent
SaveDelete(r) == UpdateContent(r, "save delete", [call[r].seen EXCEPT !.deleted = TRUE])

\* readMessagesByDatabaseIDs has found every message it was asked for.
BeginRead(r, ids) ==
    /\ At(r, "idle") /\ instance
    /\ ids # {} /\ ids \subseteq stored
    /\ call' = [call EXCEPT ![r] = [NoCall EXCEPT !.step = "read", !.ids = ids,
                                                  !.chats = {Chat[m] : m \in ids}]]
    /\ UNCHANGED <<database, announced, work, whatsapp, disturbed>>

\* The first of the calls ends the loop.
MarkRead_First(r) ==
    /\ At(r, "read")
    /\ \E c \in call[r].chats :
         LET known == [m \in Messages |-> status[m] \union
                          (IF m \in call[r].ids /\ Chat[m] = c THEN {"read"} ELSE {})]
         IN \/ Goto(r, "save read") /\ status' = known
            \/ Return(r) /\ status' \in {status, known}
    /\ UNCHANGED <<database, announced, work, texts, shown, disturbed>>

\* One call of WhatsApp per chat and sender, in any order.
MarkRead(r) ==
    /\ At(r, "read")
    /\ \E c \in call[r].chats :
         LET known == [m \in Messages |-> status[m] \union
                          (IF m \in call[r].ids /\ Chat[m] = c THEN {"read"} ELSE {})]
             left == call[r].chats \ {c}
         IN \/ /\ status' = known
               /\ call' = [call EXCEPT ![r].chats = left,
                                       ![r].step = IF left = {} THEN "save read" ELSE "read"]
            \/ Return(r) /\ status' \in {status, known}
    /\ UNCHANGED <<database, announced, work, texts, shown, disturbed>>

\* The rows get a status that no receipt has.
SaveRead_Seen(r) ==
    /\ At(r, "save read")
    /\ \/ call[r].ids \subseteq stored /\ updates' = updates \union (call[r].ids \X {"seen"})
       \/ UNCHANGED updates
    /\ Return(r)
    /\ UNCHANGED <<instance, stored, content, announced, work, whatsapp, disturbed>>

\* MarkReadForInstance: all of them, in one transaction, or none.
SaveRead(r) ==
    /\ At(r, "save read")
    /\ \/ call[r].ids \subseteq stored /\ updates' = updates \union (call[r].ids \X {"read"})
       \/ UNCHANGED updates
    /\ Return(r)
    /\ UNCHANGED <<instance, stored, content, announced, work, whatsapp, disturbed>>

-----------------------------------------------------------------------------

\* The rows go with the instance, and with them what the histories are about.
DeleteInstance ==
    /\ instance
    /\ instance' = FALSE
    /\ stored' = {} /\ updates' = {} /\ disturbed' = {}
    /\ content' = [m \in Messages |-> Fresh] /\ shown' = [m \in Messages |-> Fresh]
    /\ status' = [m \in Messages |-> {}]
    /\ announced' = <<NoMessage, "sent">>
    /\ UNCHANGED <<work, call, texts>>

\* The process stops and starts again.
Crash ==
    /\ work' = [g \in Goroutines |-> NoWork]
    /\ call' = [r \in Requests |-> NoCall]
    /\ disturbed' = disturbed \union {m \in Messages : \E r \in Requests : Changes(r, m)}
    /\ UNCHANGED <<database, announced, whatsapp>>

Handle(g) ==
    \/ CreateOrIgnore(g) \/ AnnounceUpsert(g) \/ TellInbound(g)
    \/ FindForReceipt(g) \/ SaveUpdate(g) \/ AnnounceUpdate(g)

Serve(r) ==
    \/ SendMessage(r) \/ PersistSentMessage(r) \/ ReportSent(r)
    \/ SendEdit(r) \/ SaveEdit(r) \/ SendRevoke(r) \/ SaveDelete(r)
    \/ MarkRead(r) \/ SaveRead(r)

Next ==
    \/ \E g \in Goroutines :
         \/ \E m \in Messages : MessageArrives(g, m)
         \/ \E ids \in SUBSET Messages, s \in Statuses : ReceiptArrives(g, ids, s)
         \/ Handle(g)
    \/ \E r \in Requests :
         \/ \E m \in Messages : BeginSend(r, m)
         \/ \E m \in Messages, text \in NewTexts : BeginChange(r, m, "edit", text)
         \/ \E m \in Messages : BeginChange(r, m, "delete", Original)
         \/ \E ids \in SUBSET Messages : BeginRead(r, ids)
         \/ Serve(r)
    \/ DeleteInstance
    \/ Crash

Spec == Init /\ [][Next]_vars

-----------------------------------------------------------------------------
(* What the store promises.                                                *)

\* A row says what the accepted edits and revocations made of its message, unless
\* two changes of it overlapped or one failed halfway (EditMessage,
\* DeleteMessageForEveryone: read, send, write back).
QuietMeansAgreed ==
    \A m \in stored \ disturbed :
        (\A r \in Requests : ~ Changes(r, m)) => content[m] = shown[m]

\* Even then a row never shows a text WhatsApp was not sent, or a revocation that
\* was not accepted.
ContentWasSent ==
    \A m \in stored : /\ content[m].text \in texts[m]
                      /\ content[m].deleted => shown[m].deleted

\* A stored update is one that WhatsApp knows of: a receipt it sent, or a mark it
\* was sent before, for all the chats of the request (readMessagesByDatabaseIDs).
UpdatesAreTrue == \A u \in updates : u[2] \in status[u[1]]

\* What a webhook announced is in the database, as long as the instance is: the
\* message, and the update (docs/webhooks.md: of an already known message).
AnnouncedIsStored ==
    instance /\ announced[1] # NoMessage =>
        \/ announced[1] \in stored /\ (announced[2] \in Statuses => announced \in updates)
        \/ announced[2] \in Statuses /\ ~ SaveUpdates

\* A listener hears of a message after it was stored (tellInbound).
ListenersHearOfStored ==
    instance => \A g \in Goroutines : Does(g, "listen") => work[g].message \in stored

=============================================================================
