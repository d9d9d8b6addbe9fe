------------------------------ MODULE ChatRequests ------------------------------
(***************************************************************************)
(* internal/chat: what each of its operations does, step by step.  An      *)
(* operation is a record of the flows a request can take.                  *)
(***************************************************************************)
EXTENDS RequestSteps

AuthenticateInstance == Check({"InvalidInput"}) \o FindByName \o Reopen

\* The client of the hub, which must also be logged in.
AuthorizedClient ==
    AuthenticateInstance \o FindByName
        \o Step("client", Actions, {"ClientNotConnected"}, "nothing")
        \o Step("client", Actions, {"InstanceDisconnected"}, "nothing")

\* What a call to WhatsApp fails with.
RemoteOperation(does) == Remote({"RemoteOperation"}, does)

ValidateWhatsAppNumbers == Check({"ValidationError"})
ValidateReadMessages == Check({"ValidationError"})
ValidateFindMessages == Check({"ValidationError"})
ValidateArchiveChat == Check({"ValidationError"})
ValidateFetchProfilePicture == Check({"ValidationError"})
ValidateRejectCall == Check({"ValidationError"})
ValidateEditMessage == Check({"ValidationError"})

NormalizeNumberLookup == Check({"InvalidRecipient"})
ParseChatJID == Check({"InvalidRecipient"})
ParseSenderJID == ParseChatJID \o Check({"InvalidRecipient"})

\* The chat of a stored message, and its key, must be there.
RemoteJIDFromMessage == ParseChatJID
SenderJIDFromMessage == Optionally(ParseSenderJID)

--------------------------------------------------------------------------------

\* Numbers that are JIDs of hidden users are not asked about.
CheckWhatsAppNumbers ==
    [direct |-> ValidateWhatsAppNumbers \o AuthorizedClient \o NormalizeNumberLookup
                  \o Optionally(RemoteOperation("nothing"))]

FindMessages ==
    [direct |-> ValidateFindMessages \o AuthenticateInstance \o ListMessagePage]

\* Every chat of the messages is told before the first of them is marked; two chats
\* stand for any number.
ReadMessagesByDatabaseIDs ==
    FindByIDsForInstance \o Check({"MessageNotFound"})
        \o RemoteJIDFromMessage \o SenderJIDFromMessage \o Check({"InvalidRequestMode"})
        \o RemoteOperation("told") \o Optionally(RemoteOperation("told"))
        \o Reporting("DatabaseOperation", MarkReadForInstance)

ReadMessagesOfChat ==
    ParseChatJID \o ParseSenderJID \o Check({"InvalidRequestMode"}) \o RemoteOperation("told")

ReadMessages ==
    LET prepare == ValidateReadMessages \o AuthorizedClient
    IN  [direct |-> prepare \o ReadMessagesByDatabaseIDs,
         ofChat |-> prepare \o ReadMessagesOfChat]

ArchiveChat ==
    [direct |-> ValidateArchiveChat \o AuthorizedClient \o ParseChatJID
                  \o RemoteOperation("told")]

UpdateContent == Reporting("DatabaseOperation", UpdateContentForInstance)

DeleteMessageForEveryone ==
    [direct |-> Check({"ValidationError"}) \o AuthorizedClient
                  \o FindByIDForInstance \o Check({"MessageNotOutgoing"})
                  \o RemoteJIDFromMessage \o Check({"InvalidRecipient"})
                  \o RemoteOperation("told") \o UpdateContent]

ResolveRecipient == Check({"InvalidRecipient"})

\* A JID the resolver refuses is parsed as it is.
ResolveRecipientJID ==
    Check({"InvalidAddress", "InvalidRecipient"})
        \o Optionally(FindAddress
                        \o Optionally(Remote({"RecipientNotOnWhatsApp", "AmbiguousRecipient",
                                              "Unmapped"}, "nothing")
                                        \o UpsertAddress))

FetchProfilePicture ==
    [direct |-> ValidateFetchProfilePicture \o AuthorizedClient
                  \o ResolveRecipient \o ResolveRecipientJID
                  \o RemoteOperation("nothing")]

RejectCall ==
    [direct |-> ValidateRejectCall \o AuthorizedClient \o ParseSenderJID
                  \o RemoteOperation("told")]

FindOutgoingMessage == Check({"ValidationError"}) \o FindOutgoingForInstance

\* The typing notice is sent whatever comes of it.
EditMessage ==
    [direct |-> ValidateEditMessage \o AuthorizedClient \o FindOutgoingMessage
                  \o Check({"MessageNotEditable"}) \o RemoteJIDFromMessage
                  \o Check({"InvalidRecipient"}) \o Optionally(Attempt(Remote({}, "typing")))
                  \o RemoteOperation("told") \o UpdateContent]

--------------------------------------------------------------------------------
(* Media downloads.                                                        *)

MediaLookupError(error) ==
    IF error = "MessageNotFound" THEN "MediaMessageNotFound" ELSE "DatabaseOperation"

MediaRequestFromStoredMessage == Check({"MessageIsNotMedia", "InvalidMediaContent"})

ValidateMediaData ==
    Check({"ValidationError", "ChatUnsupportedMediaType", "InvalidMediaContent"})

BuildDownloadableMessage ==
    Check({"ChatUnsupportedMediaType", "InvalidMediaContent"})

MediaData ==
    LET prepare == ValidateMediaData \o AuthorizedClient
        load    == BuildDownloadableMessage \o Check({"MediaTooLarge"})
                     \o Remote({"MediaDownloadFailed", "Unmapped"}, "nothing")
                     \o Check({"MediaTooLarge"})
        stored(find) == prepare \o Renaming(MediaLookupError, find)
                          \o MediaRequestFromStoredMessage \o load
    IN  [direct |-> prepare \o load,
         byID   |-> stored(FindByIDForInstance),
         byKey  |-> stored(FindByKeyIDForInstance)]
================================================================================
