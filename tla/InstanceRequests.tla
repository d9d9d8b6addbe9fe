---------------------------- MODULE InstanceRequests ----------------------------
(***************************************************************************)
(* internal/whatsapp and internal/webhook as a request meets them: the     *)
(* errors of each operation and the order they come in.  How pairings,     *)
(* locks and clients interleave is the subject of InstanceConnection and   *)
(* PasskeySession, how configurations do of WebhookConfiguration.          *)
(***************************************************************************)
EXTENDS RequestSteps

AuthenticateInstance == Check({"InvalidInput"}) \o FindByName \o Reopen

HubReserve == Check({"InstanceConnected", "ConnectionInProgress"})
HubRegister == Check({"InstanceConnected"})

Connect == Remote({"WhatsAppUnavailable"}, "dialed")

\* The device of the row, or a new one.
NewClientForManualConnect == DeviceStore

ValidateManagedDevice == Check({"DeviceMismatch"})

ReconcileInstanceState == UpdateConnectionState("connecting")

\* A client that is logged in is only recorded so; any other is connected.
ConnectManagedSession ==
    Optionally(ReconcileInstanceState) \o Optionally(Attempt(UpdateConnectionState("connecting"))
                                                       \o Connect)

ConnectExistingSession ==
    Optionally(DeviceStore) \o ValidateManagedDevice \o Optionally(HubRegister)
        \o ConnectManagedSession

\* What the QR consumer gives a caller that still waits for its first code.
FirstQRCode ==
    Check({"QRCodeTimeout", "QRChannelClosed", "PairingFailed", "ClientOutdated",
           "PasskeyNotAvailable", "Unmapped"})

ConnectQRCode ==
    LET prepare == AuthenticateInstance \o RuntimeGrantFromPair \o TryAcquireConnectionLock
        start   == prepare \o HubReserve \o UpdateConnectionState("connecting")
                     \o NewClientForManualConnect
    IN  [direct     |-> start \o Check({"ConnectionInProgress"})
                          \o Check({"InstanceConnected", "WhatsAppUnavailable"})
                          \o HubRegister \o Connect \o FirstQRCode,
         linked     |-> start \o ValidateManagedDevice \o HubRegister \o ConnectManagedSession,
         existing   |-> prepare \o ConnectExistingSession,
         inProgress |-> prepare]

NormalizePhoneNumber == Check({"InvalidPhoneNumber"})

ConnectPhone ==
    [direct |-> AuthenticateInstance \o RuntimeGrantFromPair \o NormalizePhoneNumber
                  \o Check({"ConnectionInProgress"}) \o TryAcquireConnectionLock
                  \o Check({"ConnectionInProgress"}) \o HubReserve
                  \o NewClientForManualConnect \o UpdateConnectionState("connecting")
                  \o Connect \o Remote({"WhatsAppUnavailable"}, "told")
                  \o Attempt(UpdateConnectionState("connecting")) \o HubRegister]

\* Only the instance's absence has an error of its own here.
AuthenticatePasskeyInstance ==
    LET Passkey(error) == IF error = "InstanceNotFound" THEN "PasskeyInstanceNotFound" ELSE error
    IN  Renaming(Passkey, AuthenticateInstance)

ActivePasskeySession == Check({"PairingSessionNotFound", "ClientNotConnected"})
ValidatePasskeyClientReady == Check({"ClientNotConnected", "InstanceConnected"})
PasskeyCommand == Check({"InvalidPairingState"})

\* A challenge that is still valid is answered without a fetch.
RequestPasskeyChallenge ==
    [direct |-> AuthenticatePasskeyInstance \o ActivePasskeySession
                  \o ValidatePasskeyClientReady \o PasskeyCommand \o Check({"InvalidPairingState"})
                  \o Optionally(Remote({"PasskeyServiceUnavailable", "PasskeyNotAvailable"},
                                       "nothing"))]

ReservePasskeyAssertion ==
    Check({"PairingSessionNotActive", "PasskeyRequestMismatch", "InvalidPairingState",
           "PasskeyChallengeAlreadyUsed", "PasskeyChallengeExpired", "InvalidPasskeyAssertion"})

SubmitPasskeyAssertion ==
    [direct |-> AuthenticatePasskeyInstance \o ActivePasskeySession
                  \o ValidatePasskeyClientReady \o PasskeyCommand \o ReservePasskeyAssertion
                  \o Remote({"PasskeyServiceUnavailable"}, "told")]

ConnectionState == [direct |-> AuthenticateInstance]

--------------------------------------------------------------------------------
(* The end of a session, and of an instance.                               *)

LogoutOrDeleteStore == Remote({"WhatsAppUnavailable"}, "unlinked")

\* A store without the device has nothing to log out of.
CleanupWhatsAppClient ==
    TryAcquireConnectionLock \o Check({"ConnectionInProgress"})
        \o Optionally(Step("read", CheckDeviceStore, {"Unmapped"}, "nothing"))
        \o Optionally(LogoutOrDeleteStore)

MarkInstanceLoggedOut ==
    UpdateStatus("reopened") \o UpdateConnectionState("loggedOut") \o ClearWhatsAppDevice

Logout == [direct |-> AuthenticateInstance \o CleanupWhatsAppClient \o MarkInstanceLoggedOut]

DeleteInstance ==
    [direct |-> AuthenticateInstance \o EnsureDeletable \o CleanupWhatsAppClient
                  \o DeleteRow(FALSE),
     forced |-> AuthenticateInstance \o CleanupWhatsAppClient \o DeleteRow(TRUE)]

--------------------------------------------------------------------------------
(* The webhook configuration of an instance.                               *)

ValidateWebhook == Check({"InvalidInput", "InvalidWebhookURL", "InvalidWebhookEvent"})

SetWebhook ==
    LET found == ValidateWebhook \o FindByName \o FindWebhook
        commit == Optionally(UpsertWebhookEvents)
                    \o Step("write", {"webhook.set"}, {"Unmapped"}, "configured")
    IN  [direct  |-> found \o UpdateWebhook \o commit,
         created |-> ValidateWebhook \o FindByName \o Attempt(FindWebhook)
                       \o CreateWebhook \o commit]

FindInstanceWebhook == [direct |-> Check({"InvalidInput"}) \o FindByName \o FindWebhook]
================================================================================
