------------------------------ MODULE RequestSteps ------------------------------
(***************************************************************************)
(* The steps a request is made of, and the repository methods that every   *)
(* service calls.  A Go function is a sequence of steps; a call is the     *)
(* concatenation of the callee's steps.                                    *)
(*                                                                         *)
(* A step has the actions whose grant it accepts ("under"), the errors it  *)
(* may end with ("fails"), the change it makes ("does"), and how many      *)
(* steps a request may leave out here because it does not ask for them     *)
(* ("skips").                                                              *)
(***************************************************************************)
EXTENDS Naturals, Sequences, Authorization

Step(kind, under, fails, does) ==
    <<[kind |-> kind, under |-> under, fails |-> fails, does |-> does, skips |-> 0]>>

\* A condition on the request, on what was read, or on memory.
Check(fails) == Step("check", Actions, fails, "nothing")

\* A call to WhatsApp or to another server.
Remote(fails, does) == Step("remote", Actions, fails, does)

Read(under, fails) == Step("read", under, fails \cup {"Unmapped"}, "nothing")

\* A statement that changes something and needs the instance's row; one of the kind
\* "statement" changes something and does not.
Write(under, fails, does) == Step("write", under, fails \cup {"Unmapped"}, does)

\* What a step does is tried, and its failure ignored.
Attempt(steps) == [i \in DOMAIN steps |-> [steps[i] EXCEPT !.fails = {}]]

Optionally(steps) == <<[Head(steps) EXCEPT !.skips = Len(steps)]>> \o Tail(steps)

\* The caller puts errors of its own in the place of those it is given.
Renaming(Rename(_), steps) ==
    [i \in DOMAIN steps |-> [steps[i] EXCEPT !.fails = {Rename(error) : error \in @}]]

Reporting(own, steps) == LET Own(error) == own IN Renaming(Own, steps)

--------------------------------------------------------------------------------
(* The repository methods.                                                 *)

FindByName == Step("load", CheckInstanceLookup, {"InstanceNotFound", "Unmapped"}, "nothing")

\* authenticateInstance of every service: an instance that is not online is opened
\* again when it was logged out, and refused otherwise.
Reopen == Step("reopen", CheckInstanceStatus,
               {"InstanceInactive", "InstanceNotFound", "Unmapped"}, "reopened")

UpdateStatus(does) == Write(CheckInstanceStatus, {"InstanceNotFound"}, does)

UpdateConnectionState(does) == Write(CheckConnectionState, {"InstanceNotFound"}, does)

\* A row that is gone needs no clearing: its caller goes on.
ClearWhatsAppDevice == Step("statement", CheckClearDevice, {"Unmapped"}, "nothing")

TryAcquireConnectionLock == Step("statement", CheckConnectionLock, {"Unmapped"}, "nothing")

CreateInstanceRow ==
    Step("create", {"instance.create"},
         {"InvalidInput", "InvalidJSON", "InstanceNameAlreadyExists", "Unmapped"}, "created")

ListInstancePage == Read({"instance.list"}, {"InvalidInput", "InvalidCursor"})

EnsureDeletable == Read({"instance.delete"}, {"InstanceDependencies"})

DeleteRow(force) ==
    Write({"instance.delete"},
          IF force THEN {"InstanceNotFound"}
                   ELSE {"InstanceNotFound", "InstanceDependencies"}, "deleted")

CreateMessage == Write(CheckMessageCreate, {"InstanceNotFound", "InvalidInput", "InvalidJSON"}, "stored")

FindByIDForInstance == Read(CheckMessageByID, {"MessageNotFound"})

FindByKeyIDForInstance == Read(CheckMessageByKey, {"MessageNotFound"})

FindByIDsForInstance == Read({"message.read"}, {})

FindOutgoingForInstance == Read({"message.edit"}, {"MessageNotFound"})

MarkReadForInstance == Write({"message.read"}, {"MessageNotFound"}, "stored")

UpdateContentForInstance ==
    Write(CheckMessageContentUpdate, {"InvalidJSON", "MessageNotFound"}, "stored")

ListMessagePage == Read({"message.list"}, {})

FindWebhook == Read(CheckWebhookLookup, {"WebhookNotFound"})

\* Inside a transaction: what they do is done when it commits.
CreateWebhook == Write({"webhook.set"}, {"WebhookAlreadyExists", "InstanceNotFound",
                                         "InvalidJSON"}, "nothing")

UpdateWebhook == Write({"webhook.set"}, {"WebhookNotFound", "InvalidJSON"}, "nothing")

UpsertWebhookEvents == Write({"webhook.set"}, {"WebhookNotFound", "InvalidWebhookEvent"},
                             "nothing")

EnqueueMessageJob == Write({"message.send"}, {}, "queued")

\* An event is dispatched with the request's grant; a failure is only logged.
Dispatch == Attempt(Read(CheckInstanceLookup, {}))

FindAddress == Attempt(Read(CheckAddressResolution, {}))

UpsertAddress == Attempt(Step("statement", CheckAddressResolution, {}, "nothing"))

DeviceStore == Read(CheckDeviceStore, {"SessionMissing"})

RuntimeGrantFromPair == Step("check", {"connection.pair"}, {}, "nothing")
================================================================================
