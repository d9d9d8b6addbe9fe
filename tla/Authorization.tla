----------------------------- MODULE Authorization -----------------------------
(***************************************************************************)
(* The authorization vocabulary of internal/authz/actions.go.  The facade  *)
(* asks the policy for a grant of one action; every repository method then *)
(* looks at the action of the grant it is handed and refuses those it does *)
(* not know.  A set below is what one of those checks accepts.             *)
(***************************************************************************)

MessageActions == {"message.send", "message.list", "message.read",
                   "message.delete", "message.edit", "message.media.download"}

ChatActions == {"contact.check", "chat.archive", "profile.picture.view",
                "call.reject"}

GroupActions == {"group.create", "group.picture.update", "group.invite.view",
                 "group.invite.revoke", "group.participant.update", "group.leave"}

ConnectionActions == {"connection.pair", "connection.view", "connection.logout"}

\* What a host can be granted; "runtime" and "runtime.discover" are the module's.
PublicActions ==
    {"instance.create", "instance.list", "instance.view", "instance.update",
     "instance.delete", "webhook.set", "webhook.view"}
        \cup ConnectionActions \cup MessageActions \cup ChatActions \cup GroupActions

Actions == PublicActions \cup {"runtime", "runtime.discover"}

\* A grant of any other action is refused by every write.
ReadActions == {"instance.list", "instance.view", "webhook.view"}
Writes(action) == action \notin ReadActions

\* The actions whose flow loads an instance by its name.
CheckInstanceLookup ==
    {"instance.view", "instance.delete", "webhook.set", "webhook.view", "runtime"}
        \cup ConnectionActions \cup MessageActions \cup ChatActions \cup GroupActions

\* A variant for the runs: the check forgot the group operations.
CheckInstanceStatus_NoGroups ==
    {"instance.delete", "runtime"} \cup ConnectionActions \cup MessageActions \cup ChatActions

\* The actions that may open a logged-out instance again.
CheckInstanceStatus ==
    {"instance.delete", "runtime"}
        \cup ConnectionActions \cup MessageActions \cup ChatActions \cup GroupActions

CheckConnectionState == {"connection.pair", "connection.logout", "runtime"}

CheckConnectionLock ==
    {"connection.pair", "connection.logout", "instance.delete", "runtime"}

CheckClearDevice == {"connection.logout", "runtime"}

CheckMessageCreate == {"message.send"}

CheckMessageByID == {"message.send", "message.delete", "message.media.download"}

CheckMessageByKey == {"message.send", "message.media.download", "runtime"}

CheckMessageContentUpdate == {"message.delete", "message.edit"}

CheckWebhookLookup == {"webhook.set", "webhook.view"}

CheckAddressResolution == {"message.send", "profile.picture.view"}

CheckDeviceStore ==
    {"connection.pair", "connection.logout", "instance.delete", "runtime"}
================================================================================
