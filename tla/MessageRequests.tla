----------------------------- MODULE MessageRequests -----------------------------
(***************************************************************************)
(* internal/message: what each of its operations does, step by step.       *)
(*                                                                         *)
(* An operation is a record of flows.  "direct" is a send; "queued", where *)
(* the operation has it, is the same request with mentionAll, which leaves *)
(* a job behind instead of telling WhatsApp.                               *)
(***************************************************************************)
EXTENDS RequestSteps

AuthenticateInstance == Check({"InvalidInput"}) \o FindByName \o Reopen

RecipientAddress == Check({"RecipientInvalid"})

ValidateOptions == Check({"DelayInvalid", "PresenceInvalid"})

\* The quoted message is named by id, given as an object, or not there.
ContextInfo == Check({"QuotedMessageInvalid"})

ResolveQuoted ==
    LET Quoted(error) == IF error = "MessageNotFound" THEN error ELSE "QuotedMessageLookup"
    IN  Optionally(Check({"QuotedMessageInvalid"}) \o Renaming(Quoted, FindByIDForInstance))
          \o Optionally(ContextInfo)

\* ResolveConnectedClient reads the instance again and asks the hub; the service
\* then looks at the client once more.
HubClient == Step("client", Actions, {"ClientNotConnected"}, "nothing")
ConnectedClient == FindByName \o HubClient \o HubClient

\* A direct JID needs no lookup; a number is looked up in the stored mappings and,
\* when none is valid, asked of WhatsApp.
ResolveAddress ==
    Check({"InvalidAddress"})
        \o Optionally(FindAddress
                        \o Optionally(Remote({"RecipientNotOnWhatsApp", "AmbiguousRecipient",
                                              "Unmapped"}, "nothing")
                                        \o UpsertAddress))

ApplyPresenceAndDelay ==
    Optionally(Remote({"SendFailed"}, "typing")) \o Optionally(Check({"Unmapped"}))

SendMessage == Remote({"SendFailed"}, "told")


PersistSentMessage == Reporting("PersistenceFailed", CreateMessage)

Upload == Remote({"UploadFailed"}, "nothing")

Download == Remote({"DownloadFailed"}, "nothing")

BuildMediaProto == Check({"InvalidRequest"})

EnqueueMentionAll(build) ==
    Check({"MentionAllRequiresGroup", "Unmapped"})
        \o build
        \o Check({"MentionAllUnsupported", "InvalidRequest"})
        \o EnqueueMessageJob

\* Resolution comes before the message is built, and the message is told before it
\* is stored.
Send(validate, build) ==
    LET prepare == validate \o AuthenticateInstance \o RecipientAddress \o ValidateOptions
                     \o ResolveQuoted \o ConnectedClient \o ResolveAddress
    IN  [direct |-> prepare \o build \o ApplyPresenceAndDelay \o SendMessage
                      \o PersistSentMessage \o Dispatch,
         queued |-> prepare \o EnqueueMentionAll(build)]

ValidateText == Check({"InvalidRequest"})
SendText == Send(ValidateText, <<>>)

ValidateLink == Check({"InvalidRequest"})
SendLink == Send(ValidateLink, Optionally(Download \o Upload))

ValidateMedia == Check({"InvalidRequest"})
SendMedia == Send(ValidateMedia,
                  Download \o Check({"InvalidRequest"}) \o Upload \o BuildMediaProto)

ReadMediaFile == Check({"PayloadTooLarge", "InvalidRequest"})
SendMediaFile == Send(Check({"InvalidRequest"}) \o ReadMediaFile, Upload \o BuildMediaProto)

ValidateContacts == Check({"InvalidRequest"})
SendContact == Send(ValidateContacts, <<>>)

ValidateLocation == Check({"InvalidRequest"})
SendLocation == Send(ValidateLocation, <<>>)

\* A reaction names its chat by JID: nothing is resolved, typed or queued.
ValidateReaction == Check({"InvalidRequest"})
SendReaction ==
    [direct |-> Check({"MentionAllUnsupported"}) \o ValidateReaction \o AuthenticateInstance
                  \o ConnectedClient \o SendMessage \o PersistSentMessage \o Dispatch]

--------------------------------------------------------------------------------
(* Voice messages.                                                         *)

LooksLikeSupportedAudio == Check({"UnsupportedMediaType"})
ProbeAudio(error) == Check({error})
ConvertToOggOpus == Check({"AudioProcessing"})
NormalizeDuration == Check({"InvalidAudioDuration"})

\* A recording that is Ogg Opus already is not converted.
PreparePTT ==
    Check({"InvalidRequest", "PayloadTooLarge"}) \o LooksLikeSupportedAudio
        \o Check({"AudioProcessing"}) \o ProbeAudio("UnsupportedMediaType")
        \o Optionally(ConvertToOggOpus \o ProbeAudio("AudioProcessing"))
        \o NormalizeDuration \o Check({"PayloadTooLarge"})

ValidateAudioOptions == Check({"DelayInvalid", "PresenceInvalid"})

\* A presence is always shown: "recording" by default, or "paused".
ApplyAudioPresenceAndDelay ==
    Remote({"SendFailed"}, "typing") \o Optionally(Check({"Unmapped"}))

\* An empty quotedMessage object is no quote.
ResolveAudioQuoted == ResolveQuoted

DownloadAudio == Remote({"InvalidRequest", "PayloadTooLarge", "DownloadFailed"}, "nothing")

SendAudio(source) ==
    LET prepare == source \o AuthenticateInstance \o ValidateAudioOptions
                     \o ResolveAudioQuoted \o ConnectedClient \o ResolveAddress
    IN  [direct |-> prepare \o PreparePTT \o Upload \o ApplyAudioPresenceAndDelay
                      \o SendMessage \o PersistSentMessage \o Dispatch,
         queued |-> prepare \o EnqueueMentionAll(PreparePTT \o Upload)]

\* The file is fetched before the instance is looked at.
SendWhatsAppAudio == SendAudio(Check({"InvalidRequest"}) \o DownloadAudio)

SendWhatsAppAudioFile == SendAudio(Check({"InvalidRequest", "PayloadTooLarge"}))

--------------------------------------------------------------------------------
(* A reader of forms: its errors come before everything above.             *)

ParseMultipartMessageOptions == Check({"InvalidRequest", "QuotedMessageInvalid"})
ParseMultipartAudioOptions == Check({"InvalidRequest", "QuotedMessageInvalid"})
================================================================================
