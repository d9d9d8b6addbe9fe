------------------------------- MODULE HttpAnswers -------------------------------
(***************************************************************************)
(* What a caller sees of a request: the status that the controllers give   *)
(* an error, and the statuses the API documentation names for a route.     *)
(*                                                                         *)
(* An error is named as in the code, without "Err".  Two packages that     *)
(* declare an error of one name share it here when their statuses agree.   *)
(* "Unmapped" is every other error: a failing statement, an ended context. *)
(***************************************************************************)
EXTENDS Naturals

Refused403 == {"Forbidden", "InstanceInactive", "MessageNotOutgoing"}

Malformed400 ==
    {"Malformed", "InvalidInput", "InvalidJSON", "InvalidWebhookEvent",
     "InvalidWebhookURL", "InvalidCursor", "InvalidPhoneNumber", "InvalidRequest",
     "MentionAllRequiresGroup", "MentionAllUnsupported", "RecipientInvalid",
     "PresenceInvalid", "DelayInvalid", "QuotedMessageInvalid",
     "InvalidAudioDuration", "InvalidRecipient", "InvalidRequestMode",
     "InvalidMediaRequest", "ChatUnsupportedMediaType", "InvalidMediaContent",
     "MessageIsNotMedia", "InvalidGroupJID", "InvalidParticipant", "InvalidAddress"}

Absent404 ==
    {"InstanceNotFound", "WebhookNotFound", "MessageNotFound",
     "PasskeyInstanceNotFound", "PairingSessionNotFound", "MediaMessageNotFound",
     "RecipientNotOnWhatsApp"}

Conflict409 ==
    {"InstanceNameAlreadyExists", "WhatsAppDeviceAlreadyLinked",
     "WebhookAlreadyExists", "ConnectionInProgress", "InstanceConnected",
     "PairingSessionNotActive", "InvalidPairingState", "PasskeyRequestMismatch",
     "PasskeyChallengeAlreadyUsed", "AmbiguousRecipient", "InstanceDependencies"}

\* A variant for the runs: a client that is not connected as an unprocessable request.
Unprocessable422_Disconnected ==
    {"ValidationError", "MessageNotEditable", "InvalidPasskeyAssertion",
     "PasskeyNotAvailable", "ClientNotConnected"}

Unprocessable422 ==
    {"ValidationError", "MessageNotEditable", "InvalidPasskeyAssertion",
     "PasskeyNotAvailable"}

TooLarge413 == {"PayloadTooLarge", "MediaTooLarge", "ImageTooLarge"}

NotAcceptable406 == {"PersistenceFailed", "QuotedMessageLookup", "DatabaseOperation"}

Unavailable503 ==
    {"QRChannelClosed", "PairingFailed", "ClientOutdated", "WhatsAppUnavailable",
     "ClientNotConnected", "PasskeyServiceUnavailable", "SessionMissing",
     "DeviceMismatch", "InstanceDisconnected", "RemoteOperation",
     "MediaDownloadFailed", "GroupDownloadFailed"}

Internal500 == {"DownloadFailed", "UploadFailed", "SendFailed", "AudioProcessing",
                "Unmapped"}

StatusForError(error) ==
    CASE error \in Refused403                      -> 403
      [] error \in Malformed400                    -> 400
      [] error \in Unprocessable422                -> 422
      [] error \in Absent404                       -> 404
      [] error \in Conflict409                     -> 409
      [] error = "PasskeyChallengeExpired"         -> 410
      [] error = "QRCodeTimeout"                   -> 408
      [] error \in TooLarge413                     -> 413
      [] error = "UnsupportedMediaType"            -> 415
      [] error \in NotAcceptable406                -> 406
      [] error \in Unavailable503                  -> 503
      [] error \in Internal500                     -> 500

\* The statuses by which a route says that the request itself was refused; a
\* timeout, a failed record (406) and a failed server are not among them.
Refusals == {400, 403, 404, 409, 410, 413, 415, 422}

--------------------------------------------------------------------------------
(* The documented statuses.  Every route names 400, 403 and 500.           *)

Everywhere == {400, 403, 500}

DocumentedSends ==
    LET send == Everywhere \cup {200, 202, 404, 406, 409, 413, 503}
    IN  [messages_text |-> send, messages_link |-> send, messages_media |-> send,
         messages_media_file |-> send,
         messages_audio |-> send \cup {415}, messages_audio_file |-> send \cup {415},
         messages_contact |-> send, messages_location |-> send]

DocumentedInstances ==
    [messages_reaction |-> Everywhere \cup {200, 404, 406, 413, 503},
     instances_store |-> Everywhere \cup {201, 404, 409, 413},
     instances_index |-> Everywhere \cup {200},
     instances_show |-> Everywhere \cup {200, 404},
     instances_destroy |-> Everywhere \cup {200, 404, 409, 503},
     connection_qr |-> Everywhere \cup {200, 404, 408, 409, 422, 503},
     connection_phone |-> Everywhere \cup {200, 404, 409, 503},
     passkey_challenge |-> Everywhere \cup {200, 404, 409, 422, 503},
     passkey_assertion |-> Everywhere \cup {202, 404, 409, 410, 413, 422, 503},
     connection_show |-> Everywhere \cup {200, 404}]

DocumentedMessages ==
    [connection_destroy |-> Everywhere \cup {200, 404, 409, 503},
     webhook_update |-> Everywhere \cup {200, 404, 409, 413},
     webhook_show |-> Everywhere \cup {200, 404},
     messages_index |-> Everywhere \cup {200, 404, 413, 422},
     messages_read |-> Everywhere \cup {200, 404, 406, 413, 422, 503},
     messages_destroy |-> Everywhere \cup {204, 404, 406, 422, 503},
     messages_update |-> Everywhere \cup {200, 404, 406, 413, 422, 503},
     media_download |-> Everywhere \cup {200, 404, 406, 413, 422, 503},
     contacts_check |-> Everywhere \cup {200, 404, 413, 422, 503}]

DocumentedChatsAndGroups ==
    LET change == Everywhere \cup {404, 413, 503}
        group  == Everywhere \cup {200, 404, 503}
    IN  [profile_picture |-> change \cup {200, 409, 422},
         chats_archive |-> change \cup {204, 422},
         calls_reject |-> change \cup {204, 422},
         groups_store |-> change \cup {201},
         groups_picture |-> change \cup {200},
         groups_invite |-> group, groups_revoke |-> group,
         groups_participants |-> group \cup {413},
         groups_leave |-> group]

\* The body of connection_phone is limited like every other, and a larger one is
\* answered with 413, which its documentation does not name.
KnownDivergence == {<<"connection_phone", 413>>}
================================================================================
