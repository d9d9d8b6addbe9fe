----------------------------- MODULE GroupRequests -----------------------------
(***************************************************************************)
(* internal/group: what each of its operations does, step by step.  It     *)
(* keeps nothing: a group lives at WhatsApp.                               *)
(***************************************************************************)
EXTENDS RequestSteps

AuthenticateInstance == Check({"InvalidInput"}) \o FindByName \o Reopen

AuthorizedClient ==
    AuthenticateInstance \o FindByName
        \o Step("client", Actions, {"ClientNotConnected"}, "nothing")
        \o Step("client", Actions, {"InstanceDisconnected"}, "nothing")

RemoteOperation(does) == Remote({"RemoteOperation"}, does)

ParseGroupJID == Check({"InvalidGroupJID"})
ParseParticipants == Check({"InvalidParticipant"})
AuthorizedGroup == AuthorizedClient \o ParseGroupJID

ValidateCreate == Check({"InvalidRequest", "InvalidParticipant"})
ValidateUpdatePicture == Check({"InvalidRequest", "InvalidGroupJID"})
ValidateUpdateParticipant == Check({"InvalidRequest", "InvalidParticipant"})


\* A description is set after the group is there, and its failure answers for the
\* whole request.
Create ==
    [direct |-> ValidateCreate \o AuthorizedClient \o ParseParticipants
                  \o RemoteOperation("told")
                  \o Optionally(RemoteOperation("told") \o RemoteOperation("nothing"))]

DownloadImage == Remote({"InvalidRequest", "ImageTooLarge", "GroupDownloadFailed"}, "nothing")

UpdatePicture ==
    [direct |-> ValidateUpdatePicture \o AuthorizedClient \o ParseGroupJID
                  \o DownloadImage \o RemoteOperation("told") \o RemoteOperation("nothing")]

InviteCode == [direct |-> AuthorizedGroup \o RemoteOperation("nothing")]

RevokeInviteCode == [direct |-> AuthorizedGroup \o RemoteOperation("told")]

UpdateParticipant ==
    [direct |-> ValidateUpdateParticipant \o AuthorizedGroup \o ParseParticipants
                  \o RemoteOperation("told")]

Leave == [direct |-> AuthorizedGroup \o RemoteOperation("told")]
================================================================================
