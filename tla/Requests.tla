------------------------------- MODULE Requests -------------------------------
(***************************************************************************)
(* One HTTP request through all its layers: the controller reads it, the   *)
(* facade asks the policy for a grant, a service takes its steps under     *)
(* that grant, and the controller turns the outcome into a status.         *)
(* Meanwhile others delete the instance, switch it off, log it out or lose *)
(* its connection, between any two steps.                                  *)
(*                                                                         *)
(* What concurrent requests do to one another's pairing, configuration or  *)
(* stored messages is in InstanceConnection, WebhookConfiguration and      *)
(* MessageStore; this module is about what one caller is told.             *)
(***************************************************************************)
EXTENDS HttpAnswers, RequestSteps, TLC

Message  == INSTANCE MessageRequests
Chat     == INSTANCE ChatRequests
Group    == INSTANCE GroupRequests
Instance == INSTANCE InstanceRequests

--------------------------------------------------------------------------------
(* The facade: the action each operation asks a grant of.                  *)

CheckTenant == Check({"Forbidden"})

\* The policy is asked before the instance is looked up, and again about the
\* instance that was found.
AuthorizedInstance ==
    CheckTenant \o Check({"InvalidInput"}) \o Check({"Forbidden"})
        \o FindByName \o Check({"Forbidden"})

Operation(action, flows) ==
    [action |-> action, flows |-> [f \in DOMAIN flows |-> AuthorizedInstance \o flows[f]]]

CreateInstance ==
    [action |-> "instance.create",
     flows  |-> [direct |-> CheckTenant \o Check({"InvalidInput", "InvalidJSON"})
                              \o Check({"Forbidden"}) \o CreateInstanceRow]]

ListInstances ==
    [action |-> "instance.list",
     flows  |-> [direct |-> CheckTenant \o Check({"Forbidden"}) \o ListInstancePage]]

FindInstance == Operation("instance.view", [direct |-> <<>>])

\* The number is normalised before anything is asked of the policy.
ConnectPhone ==
    LET authorized == Operation("connection.pair", Instance!ConnectPhone)
    IN  [authorized EXCEPT !.flows.direct =
             CheckTenant \o Check({"InvalidPhoneNumber"}) \o Instance!NormalizePhoneNumber \o @]

ConnectionOperations ==
    [connection_qr      |-> Operation("connection.pair", Instance!ConnectQRCode),
     connection_phone   |-> ConnectPhone,
     passkey_challenge  |-> Operation("connection.pair", Instance!RequestPasskeyChallenge),
     passkey_assertion  |-> Operation("connection.pair", Instance!SubmitPasskeyAssertion),
     connection_show    |-> Operation("connection.view", Instance!ConnectionState),
     connection_destroy |-> Operation("connection.logout", Instance!Logout),
     instances_destroy  |-> Operation("instance.delete", Instance!DeleteInstance),
     webhook_update     |-> Operation("webhook.set", Instance!SetWebhook),
     webhook_show       |-> Operation("webhook.view", Instance!FindInstanceWebhook)]

SendOperations ==
    [messages_text       |-> Operation("message.send", Message!SendText),
     messages_link       |-> Operation("message.send", Message!SendLink),
     messages_media      |-> Operation("message.send", Message!SendMedia),
     messages_media_file |-> Operation("message.send", Message!SendMediaFile),
     messages_audio      |-> Operation("message.send", Message!SendWhatsAppAudio),
     messages_audio_file |-> Operation("message.send", Message!SendWhatsAppAudioFile),
     messages_contact    |-> Operation("message.send", Message!SendContact),
     messages_location   |-> Operation("message.send", Message!SendLocation),
     messages_reaction   |-> Operation("message.send", Message!SendReaction)]

ChatOperations ==
    [contacts_check   |-> Operation("contact.check", Chat!CheckWhatsAppNumbers),
     messages_index   |-> Operation("message.list", Chat!FindMessages),
     messages_read    |-> Operation("message.read", Chat!ReadMessages),
     chats_archive    |-> Operation("chat.archive", Chat!ArchiveChat),
     messages_destroy |-> Operation("message.delete", Chat!DeleteMessageForEveryone),
     profile_picture  |-> Operation("profile.picture.view", Chat!FetchProfilePicture),
     calls_reject     |-> Operation("call.reject", Chat!RejectCall),
     messages_update  |-> Operation("message.edit", Chat!EditMessage),
     media_download   |-> Operation("message.media.download", Chat!MediaData)]

GroupOperations ==
    [groups_store        |-> Operation("group.create", Group!Create),
     groups_picture      |-> Operation("group.picture.update", Group!UpdatePicture),
     groups_invite       |-> Operation("group.invite.view", Group!InviteCode),
     groups_revoke       |-> Operation("group.invite.revoke", Group!RevokeInviteCode),
     groups_participants |-> Operation("group.participant.update", Group!UpdateParticipant),
     groups_leave        |-> Operation("group.leave", Group!Leave)]

InstanceOperations ==
    [instances_store |-> CreateInstance,
     instances_index |-> ListInstances,
     instances_show  |-> FindInstance]

Facade == InstanceOperations @@ ConnectionOperations @@ SendOperations
              @@ ChatOperations @@ GroupOperations

--------------------------------------------------------------------------------
(* The controllers: what each reads of a request before the facade.        *)

DecodeJSON == Check({"PayloadTooLarge", "Malformed"})
OptionalBool == Check({"Malformed"})
Identifier == Check({"ValidationError"})

MultipartAttachment == Check({"PayloadTooLarge", "InvalidRequest"})

InstanceInputs ==
    [instances_store    |-> DecodeJSON,
     instances_index    |-> Check({"InvalidInput", "InvalidCursor"}),
     instances_show     |-> <<>>,
     instances_destroy  |-> OptionalBool,
     connection_qr      |-> <<>>,
     connection_phone   |-> DecodeJSON,
     passkey_challenge  |-> <<>>,
     passkey_assertion  |-> DecodeJSON \o Check({"Malformed"}),
     connection_show    |-> <<>>,
     connection_destroy |-> <<>>,
     webhook_update     |-> DecodeJSON,
     webhook_show       |-> <<>>]

MessageInputs ==
    [op \in DOMAIN SendOperations |->
        CASE op = "messages_media_file" ->
                MultipartAttachment \o Message!ParseMultipartMessageOptions
          [] op = "messages_audio_file" ->
                MultipartAttachment \o Message!ParseMultipartAudioOptions
          [] OTHER -> DecodeJSON]

ChatInputs ==
    [op \in DOMAIN ChatOperations |->
        CASE op = "messages_destroy" -> Identifier
          [] op = "messages_update"  -> DecodeJSON \o Identifier
          [] op = "media_download"   -> OptionalBool \o DecodeJSON \o Chat!ValidateMediaData
          [] OTHER                   -> DecodeJSON]

GroupInputs ==
    [op \in DOMAIN GroupOperations |->
        IF op \in {"groups_invite", "groups_revoke", "groups_leave"} THEN <<>> ELSE DecodeJSON]

Inputs == InstanceInputs @@ MessageInputs @@ ChatInputs @@ GroupInputs

SuccessOf(op, flow) ==
    CASE op \in {"instances_store", "groups_store"}                        -> 201
      [] op = "passkey_assertion" \/ flow = "queued"                       -> 202
      [] op \in {"chats_archive", "messages_destroy", "calls_reject"}      -> 204
      [] OTHER                                                             -> 200

\* The steps of every operation, controller and facade included.
FlowOf ==
    [op \in DOMAIN Facade |->
        [f \in DOMAIN Facade[op].flows |-> Inputs[op] \o Facade[op].flows[f]]]

Documented == DocumentedSends @@ DocumentedInstances @@ DocumentedMessages
                  @@ DocumentedChatsAndGroups

--------------------------------------------------------------------------------
(* One request, and what others do meanwhile.                              *)

VARIABLES
    instance,      \* the row: is it there, is its status online, is it logged out
    connected,     \* the hub has a client for it that is connected and logged in
    request,       \* the request under way: operation, flow, and the step it is at
    loaded,        \* the instance as the request last read it
    done,          \* what the request has changed so far
    answer         \* the status it was answered with; 0 while it is under way

vars == <<instance, connected, request, loaded, done, answer>>

Row == [exists : BOOLEAN, online : BOOLEAN, loggedOut : BOOLEAN]
Gone == [exists |-> FALSE, online |-> FALSE, loggedOut |-> FALSE]
New == [exists |-> TRUE, online |-> TRUE, loggedOut |-> FALSE]

Idle == [op |-> "none", flow |-> "none", at |-> 0]

Flow == FlowOf[request.op][request.flow]
Action == Facade[request.op].action
UnderWay == request # Idle /\ answer = 0
AtStep == UnderWay /\ request.at <= Len(Flow)
Upcoming == Flow[request.at]

Init ==
    /\ instance \in Row /\ (instance.exists \/ instance = Gone)
    /\ connected \in BOOLEAN
    /\ connected => instance.exists /\ ~instance.loggedOut
    /\ request = Idle /\ loaded = Gone /\ done = {} /\ answer = 0

Receive(op, flow) ==
    /\ ~UnderWay
    /\ request' = [op |-> op, flow |-> flow, at |-> 1]
    /\ done' = {} /\ answer' = 0 /\ loaded' = Gone
    /\ UNCHANGED <<instance, connected>>

\* The step can succeed: the row and the connection it needs are there.
Possible(step) ==
    /\ step.kind \in {"load", "write"} => instance.exists
    /\ step.kind = "reopen" => loaded.online \/ (loaded.loggedOut /\ instance.exists)
    /\ step.kind = "create" => ~instance.exists
    /\ step.kind = "client" => connected
    /\ step.does \in {"told", "typing"} => connected

\* The columns a successful step leaves behind.
After(step) ==
    CASE step.does = "created"    -> New
      [] step.does = "deleted"    -> Gone
      [] step.does = "loggedOut"  -> [instance EXCEPT !.loggedOut = TRUE]
      [] step.does = "connecting" -> [instance EXCEPT !.loggedOut = FALSE]
      [] step.does = "reopened" /\ ~(step.kind = "reopen" /\ loaded.online) ->
             [instance EXCEPT !.online = TRUE]
      [] OTHER -> instance

\* A check, a read, and the reopening of an instance that is open change nothing.
Changes(step) ==
    IF step.does = "nothing" \/ (step.kind = "reopen" /\ loaded.online)
    THEN {} ELSE {step.does}

Proceed ==
    /\ AtStep /\ Possible(Upcoming)
    /\ request' = [request EXCEPT !.at = @ + 1]
    /\ instance' = After(Upcoming)
    /\ connected' = (connected /\ Upcoming.does \notin {"unlinked", "loggedOut", "deleted"})
    /\ done' = done \cup Changes(Upcoming)
    /\ loaded' = IF Upcoming.kind = "load" THEN instance ELSE loaded
    /\ UNCHANGED answer

\* The request has no use for the steps here, or ignores that one of them failed.
Skip ==
    /\ AtStep
    /\ \/ Upcoming.skips > 0 /\ request' = [request EXCEPT !.at = @ + Upcoming.skips]
       \/ Upcoming.fails = {} /\ request' = [request EXCEPT !.at = @ + 1]
    /\ UNCHANGED <<instance, connected, loaded, done, answer>>

\* An error that speaks of the instance or its client needs them to be so.
MayFail(step, error) ==
    /\ error \in step.fails
    /\ error \in {"InstanceNotFound", "PasskeyInstanceNotFound"}
          => /\ ~instance.exists
             /\ step.kind = "reopen" => ~loaded.online /\ loaded.loggedOut
    /\ error = "InstanceInactive" => ~loaded.online /\ ~loaded.loggedOut
    /\ step.kind = "client" => ~connected

Fail(error) ==
    /\ AtStep /\ MayFail(Upcoming, error)
    /\ answer' = StatusForError(error)
    /\ UNCHANGED <<instance, connected, request, loaded, done>>

Answer ==
    /\ UnderWay /\ request.at > Len(Flow)
    /\ answer' = SuccessOf(request.op, request.flow)
    /\ UNCHANGED <<instance, connected, request, loaded, done>>

Disturb(row, link) ==
    /\ instance.exists
    /\ instance' = row /\ connected' = link
    /\ UNCHANGED <<request, loaded, done, answer>>

\* A variant for the runs: the hub keeps the client of an instance that is gone.
Delete_KeepsClient == Disturb(Gone, connected)

Delete == Disturb(Gone, FALSE)
LogOut == Disturb([instance EXCEPT !.online = TRUE, !.loggedOut = TRUE], FALSE)
Close  == Disturb([instance EXCEPT !.online = FALSE], connected)
Drop   == connected /\ Disturb(instance, FALSE)
Connect == ~connected /\ Disturb([instance EXCEPT !.loggedOut = FALSE], TRUE)

Next ==
    \/ \E op \in DOMAIN FlowOf : \E flow \in DOMAIN FlowOf[op] : Receive(op, flow)
    \/ Proceed \/ Skip \/ Answer
    \/ AtStep /\ \E error \in Upcoming.fails : Fail(error)
    \/ Delete \/ LogOut \/ Close \/ Drop \/ Connect

Spec == Init /\ [][Next]_vars

--------------------------------------------------------------------------------
(* Properties.                                                             *)

Effects == {"told", "typing", "stored", "queued", "reopened", "created", "deleted",
            "dialed", "unlinked", "loggedOut", "configured", "connecting"}

\* Every variable has its type, and the request is at a step of its flow or past the
\* last one.
TypeOK ==
    /\ instance \in Row /\ (instance.exists \/ instance = Gone)
    /\ connected \in BOOLEAN /\ (connected => instance.exists)
    /\ loaded \in Row /\ done \subseteq Effects /\ answer \in Nat
    /\ request # Idle => request.at \in 1..(Len(Flow) + 1)

\* A caller is only ever answered with a status that the documentation of the route
\* names (OperationDefinitions.go), whatever layer the error comes from, however it was
\* wrapped on its way, and whatever happened to the instance meanwhile.
StatusIsDocumented ==
    answer # 0 => \/ answer \in Documented[request.op]
                  \/ <<request.op, answer>> \in KnownDivergence

\* A grant that the facade obtained is never refused further inside: every check on the
\* way (internal/authz) knows the action the operation was authorized for, and an action
\* that is listed as one that only reads comes to no statement that writes.
NeverRefusedInside ==
    AtStep => /\ Action \in Upcoming.under
              /\ Upcoming.kind \in {"write", "statement", "create", "reopen"} => Writes(Action)

\* The operations that may be refused after they have begun: pairing finds another pairing
\* ahead when it has dialled, and the end of a session or of an instance meets a
\* concurrent deletion, or a dependency, when the session is gone.
MayStopHalfway == {"connection_qr", "connection_phone", "connection_destroy",
                   "instances_destroy"}


================================================================================
