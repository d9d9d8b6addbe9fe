---------------------------- MODULE PasskeySession ----------------------------
(***************************************************************************)
(* The Passkey part of one pairing session (internal/whatsapp: passkey.go, *)
(* pairing.go, and consumeQRCodeChannel of service.go).  Requests fetch a  *)
(* challenge and submit an assertion under the session's command mutex;    *)
(* the goroutine that consumes the QR channel changes the same data, and   *)
(* takes the mutex only to send a confirmation.  A step is one critical    *)
(* section of session.mu, or one network call.                             *)
(*                                                                         *)
(* WhatsApp and its library are external: the QR channel delivers what it  *)
(* likes, but a confirmation only after an assertion, and success only     *)
(* once the device is linked.                                              *)
(***************************************************************************)
EXTENDS Naturals

CONSTANTS
    Callers,         \* HTTP requests served at a time
    MaxChallenges,   \* bound: how many challenges a session sees
    Consumer,        \* the goroutine of the QR channel
    NoOne

ASSUME MaxChallengesAssumption == MaxChallenges \in Nat
ASSUME CallerAssumption == Consumer # NoOne /\ Consumer \notin Callers /\ NoOne \notin Callers

VARIABLES
    passkey,      \* session.passkey
    fresh,        \* whether now is before passkey.ExpiresAt
    challenges,   \* how many challenges were made; the last one's request id
    mutex,        \* who holds session.passkeyCommandMu
    call,         \* call[c]: the command of caller c
    consumer,     \* where the consumer of the QR channel is
    linked,       \* whether the client's store holds a device identity
    sent          \* history: how often WhatsApp received challenge r's assertion

vars == <<passkey, fresh, challenges, mutex, call, consumer, linked, sent>>

States == {"IDLE", "FETCHING_CHALLENGE", "AWAITING_ASSERTION", "SUBMITTING_ASSERTION",
           "AWAITING_CONFIRMATION", "CONFIRMATION_SENT", "COMPLETED", "FAILED", "EXPIRED"}

\* "IDLE" stands for the empty state too, which beginPasskeyChallengeFetch treats
\* alike and a new session has.  Request 0 is the empty request id, which goes
\* with no public key.
Requests == 0 .. MaxChallenges

Steps == {"idle", "lock", "begin", "fetch", "set", "reserve", "send", "await", "failed"}

TypeOK ==
    /\ passkey \in [state : States, request : Requests, consumed : BOOLEAN]
    /\ fresh \in BOOLEAN
    /\ challenges \in Requests
    /\ mutex \in Callers \union {Consumer, NoOne}
    /\ call \in [Callers -> [command : {"challenge", "assertion"}, step : Steps,
                             request : Requests]]
    /\ consumer \in {"listen", "lock", "confirm", "over"}
    /\ linked \in BOOLEAN
    /\ sent \in [Requests -> Nat]

Init ==
    /\ passkey = [state |-> "IDLE", request |-> 0, consumed |-> FALSE]
    /\ fresh = TRUE
    /\ challenges = 0
    /\ mutex = NoOne
    /\ call = [c \in Callers |-> [command |-> "challenge", step |-> "idle", request |-> 0]]
    /\ consumer = "listen"
    /\ linked = FALSE
    /\ sent = [r \in Requests |-> 0]

At(c, step) == call[c].step = step

Goto(c, step) == call' = [call EXCEPT ![c].step = step]

\* The command returns, and its deferred Unlock runs.
Return(c) == Goto(c, "idle") /\ mutex' = NoOne

InState(state) == passkey' = [passkey EXCEPT !.state = state]

\* setPasskeyChallenge: a new request id, whatever was there.
SetPasskeyChallenge ==
    /\ challenges' = challenges + 1
    /\ passkey' = [state |-> "AWAITING_ASSERTION", request |-> challenges + 1, consumed |-> FALSE]
    /\ fresh' = TRUE

IsPasskeyInProgress ==
    passkey.state \in {"FETCHING_CHALLENGE", "AWAITING_ASSERTION", "SUBMITTING_ASSERTION",
                       "AWAITING_CONFIRMATION", "CONFIRMATION_SENT"}

\* The clock passes ExpiresAt.
Expire ==
    /\ fresh
    /\ passkey.request # 0
    /\ fresh' = FALSE
    /\ UNCHANGED <<passkey, challenges, mutex, call, consumer, linked, sent>>

-----------------------------------------------------------------------------
(* RequestPasskeyChallenge and SubmitPasskeyAssertion.                     *)

\* activePasskeySession and validatePasskeyClientReady; the request id is one
\* that a caller was given.
Enter(c, command, request) ==
    /\ At(c, "idle")
    /\ consumer # "over"
    /\ ~ linked
    /\ request <= challenges
    /\ call' = [call EXCEPT ![c] = [command |-> command, step |-> "lock", request |-> request]]
    /\ UNCHANGED <<passkey, fresh, challenges, mutex, consumer, linked, sent>>

\* TryLock: a command is refused while another one runs.
TryLock(c) ==
    /\ At(c, "lock")
    /\ IF mutex = NoOne
       THEN /\ mutex' = c
            /\ Goto(c, IF call[c].command = "challenge" THEN "begin" ELSE "reserve")
       ELSE /\ Goto(c, "idle")
            /\ UNCHANGED mutex
    /\ UNCHANGED <<passkey, fresh, challenges, consumer, linked, sent>>

\* The challenge of passkey is for the asking.
Offered == passkey.request # 0 /\ passkey.state = "AWAITING_ASSERTION" /\ ~ passkey.consumed

\* A fetch that clears the session without a state.
BeginPasskeyChallengeFetch_Cleared(c) ==
    /\ At(c, "begin")
    /\ IF \/ Offered /\ ~ fresh
          \/ passkey.state \in {"IDLE", "EXPIRED", "FAILED"}
       THEN /\ passkey' = [state |-> "", request |-> 0, consumed |-> FALSE]
            /\ Goto(c, "fetch")
            /\ UNCHANGED mutex
       ELSE Return(c) /\ UNCHANGED passkey
    /\ UNCHANGED <<fresh, challenges, consumer, linked, sent>>

\* beginPasskeyChallengeFetch: the current challenge, or a fetch, or neither.
BeginPasskeyChallengeFetch(c) ==
    /\ At(c, "begin")
    /\ IF \/ Offered /\ ~ fresh
          \/ passkey.state \in {"IDLE", "EXPIRED", "FAILED"}
       THEN /\ passkey' = [state |-> "FETCHING_CHALLENGE", request |-> 0, consumed |-> FALSE]
            /\ Goto(c, "fetch")
            /\ UNCHANGED mutex
       ELSE Return(c) /\ UNCHANGED passkey
    /\ UNCHANGED <<fresh, challenges, consumer, linked, sent>>

\* GetPasskeyRequestOptions ends: a key (within MaxChallenges), or an error or
\* no key.
GetPasskeyRequestOptions(c) ==
    /\ At(c, "fetch")
    /\ \/ challenges < MaxChallenges /\ Goto(c, "set")
       \/ Goto(c, "failed")
    /\ UNCHANGED <<passkey, fresh, challenges, mutex, consumer, linked, sent>>

SetChallenge(c) ==
    /\ At(c, "set")
    /\ SetPasskeyChallenge
    /\ Return(c)
    /\ UNCHANGED <<consumer, linked, sent>>

\* A failure that lets the caller try again.
MarkPasskeyFailed_Offers(c) ==
    /\ At(c, "failed")
    /\ passkey' = IF call[c].command = "challenge" THEN [passkey EXCEPT !.state = "FAILED"]
                  ELSE [passkey EXCEPT !.state = "AWAITING_ASSERTION", !.consumed = FALSE]
    /\ Return(c)
    /\ UNCHANGED <<fresh, challenges, consumer, linked, sent>>

\* A failure that keeps the mutex.
MarkPasskeyFailed_Locked(c) ==
    /\ At(c, "failed")
    /\ InState("FAILED")
    /\ Goto(c, "idle")
    /\ UNCHANGED <<fresh, challenges, mutex, consumer, linked, sent>>

\* A failure that returns without marking the session.
MarkPasskeyFailed_Unmarked(c) ==
    /\ At(c, "failed")
    /\ Return(c)
    /\ UNCHANGED <<passkey, fresh, challenges, consumer, linked, sent>>

MarkPasskeyFailed(c) ==
    /\ At(c, "failed")
    /\ InState("FAILED")
    /\ Return(c)
    /\ UNCHANGED <<fresh, challenges, consumer, linked, sent>>

\* reservePasskeyAssertion: the current challenge, once, and in time; an
\* assertion that is not well formed is refused.
ReservePasskeyAssertion(c) ==
    LET usable == Offered /\ passkey.request = call[c].request IN
    /\ At(c, "reserve")
    /\ \/ /\ usable /\ fresh
          /\ passkey' = [passkey EXCEPT !.consumed = TRUE, !.state = "SUBMITTING_ASSERTION"]
          /\ Goto(c, "send")
          /\ UNCHANGED mutex
       \/ usable /\ ~ fresh /\ InState("EXPIRED") /\ Return(c)
       \/ (usable => fresh) /\ Return(c) /\ UNCHANGED passkey
    /\ UNCHANGED <<fresh, challenges, consumer, linked, sent>>

\* SendPasskeyResponse ends; an error does not tell whether it arrived.
SendPasskeyResponse(c) ==
    LET received == [sent EXCEPT ![call[c].request] = @ + 1] IN
    /\ At(c, "send")
    /\ \/ Goto(c, "await") /\ sent' = received
       \/ Goto(c, "failed") /\ sent' \in {sent, received}
    /\ UNCHANGED <<passkey, fresh, challenges, mutex, consumer, linked>>

\* markPasskeyAwaitingConfirmation, whatever happened since the call began.
MarkPasskeyAwaitingConfirmation(c) ==
    /\ At(c, "await")
    /\ InState("AWAITING_CONFIRMATION")
    /\ Return(c)
    /\ UNCHANGED <<fresh, challenges, consumer, linked, sent>>

Command(c) ==
    \/ TryLock(c)
    \/ BeginPasskeyChallengeFetch(c)
    \/ GetPasskeyRequestOptions(c)
    \/ SetChallenge(c)
    \/ MarkPasskeyFailed(c)
    \/ ReservePasskeyAssertion(c)
    \/ SendPasskeyResponse(c)
    \/ MarkPasskeyAwaitingConfirmation(c)

-----------------------------------------------------------------------------
(* consumeQRCodeChannel.                                                   *)

\* WhatsApp accepts the pairing: events.PairSuccess stores the identity.
Link ==
    /\ ~ linked
    /\ consumer # "over"
    /\ linked' = TRUE
    /\ UNCHANGED <<passkey, fresh, challenges, mutex, call, consumer, sent>>

\* A code is ignored while a Passkey is in progress; the last one that is shown
\* ends the session.
OnCode ==
    /\ consumer = "listen"
    /\ ~ IsPasskeyInProgress
    /\ consumer' = "over"
    /\ UNCHANGED <<passkey, fresh, challenges, mutex, call, linked, sent>>

OnSuccess ==
    /\ consumer = "listen"
    /\ linked
    /\ InState("COMPLETED")
    /\ consumer' = "over"
    /\ UNCHANGED <<fresh, challenges, mutex, call, linked, sent>>

\* The context ends, the channel is closed, or an event ends the session.
OnEnd ==
    /\ consumer = "listen"
    /\ consumer' = "over"
    /\ UNCHANGED <<passkey, fresh, challenges, mutex, call, linked, sent>>

\* An error of the channel, or a Passkey event that lacks its data; the error
\* alone is no failure of a Passkey that is not in progress.
OnError ==
    /\ consumer = "listen"
    /\ InState("FAILED")
    /\ consumer' = "over"
    /\ UNCHANGED <<fresh, challenges, mutex, call, linked, sent>>

\* The last challenge that MaxChallenges allows is left to a fetch.
OnRequest ==
    /\ consumer = "listen"
    /\ challenges + 1 < MaxChallenges
    /\ SetPasskeyChallenge
    /\ UNCHANGED <<mutex, call, consumer, linked, sent>>

\* handlePasskeyConfirmation: no more is needed, no client is left to send it
\* with, or the consumer waits for the mutex.
OnResponse ==
    /\ consumer = "listen"
    /\ \E r \in Requests : sent[r] > 0
    /\ \/ InState("AWAITING_CONFIRMATION") /\ consumer' \in {"listen", "lock"}
       \/ InState("FAILED") /\ consumer' = "over"
    /\ UNCHANGED <<fresh, challenges, mutex, call, linked, sent>>

\* A confirmation that does not wait for the commands.
LockForConfirmation_Barges ==
    /\ consumer = "lock"
    /\ mutex' = Consumer
    /\ consumer' = "confirm"
    /\ UNCHANGED <<passkey, fresh, challenges, call, linked, sent>>

LockForConfirmation ==
    /\ consumer = "lock"
    /\ mutex = NoOne
    /\ mutex' = Consumer
    /\ consumer' = "confirm"
    /\ UNCHANGED <<passkey, fresh, challenges, call, linked, sent>>

\* SendPasskeyConfirmation ends, its result is marked and the mutex unlocked.
SendPasskeyConfirmation ==
    /\ consumer = "confirm"
    /\ \/ InState("CONFIRMATION_SENT") /\ consumer' = "listen"
       \/ InState("FAILED") /\ consumer' = "over"
    /\ mutex' = NoOne
    /\ UNCHANGED <<fresh, challenges, call, linked, sent>>

Next ==
    \/ \E c \in Callers :
         \/ \E command \in {"challenge", "assertion"}, request \in Requests :
              Enter(c, command, request)
         \/ Command(c)
    \/ Link \/ Expire
    \/ OnCode \/ OnSuccess \/ OnEnd \/ OnError \/ OnRequest \/ OnResponse
    \/ LockForConfirmation \/ SendPasskeyConfirmation

Spec == Init /\ [][Next]_vars

\* Network calls of commands and of the confirmation have a timeout, and a
\* goroutine that waits for a sync.Mutex is not passed over by TryLock for ever.
Fairness ==
    /\ \A c \in Callers : WF_vars(Command(c))
    /\ SF_vars(LockForConfirmation)
    /\ WF_vars(SendPasskeyConfirmation)

FairSpec == Spec /\ Fairness

-----------------------------------------------------------------------------
(* What a session promises.                                                *)

\* The assertion of a challenge reaches WhatsApp at most once, whoever submits
\* it how often, and whatever the QR channel does to the session meanwhile
\* (reservePasskeyAssertion).
AssertionOnce == \A r \in Requests : sent[r] <= 1

\* A session is never stuck fetching or submitting: whoever put it in that
\* state still runs and will mark the outcome, also where an event interfered
\* or the call failed (RequestPasskeyChallenge, SubmitPasskeyAssertion).
CommandsOwnTheirStates ==
    /\ passkey.state = "FETCHING_CHALLENGE" =>
         mutex \in Callers /\ call[mutex].step \in {"fetch", "set", "failed"}
    /\ passkey.state = "SUBMITTING_ASSERTION" =>
         /\ mutex \in Callers /\ call[mutex].step \in {"send", "await", "failed"}
         /\ call[mutex].request = passkey.request

\* A confirmation that waits for the commands is sent in the end, although it
\* waits without a deadline (handlePasskeyConfirmation's Lock).
ConfirmationProceeds == consumer = "lock" ~> consumer \in {"listen", "over"}

\* The challenge that may be answered now.
Open == IF Offered /\ fresh THEN passkey.request ELSE 0

\* The goroutines that wait for an answer of WhatsApp.
Asking ==
    {c \in Callers : call[c].step \in {"fetch", "send"}}
        \union {x \in {Consumer} : consumer = "confirm"}

Answering == [c \in Callers |-> IF At(c, "send") THEN call[c].request ELSE 0]

Contract == INSTANCE PasskeyContract WITH
    open <- Open,
    issued <- challenges,
    asking <- Asking,
    answering <- Answering,
    received <- sent

\* The session's states, its mutex and the marks that its commands and its
\* consumer set over each other keep the promise of PasskeyContract: only a new
\* challenge can be answered again, whatever a failure or an event marked, an
\* answer leaves in time and while nothing else is under way, and nobody
\* confirms before an answer arrived (beginPasskeyChallengeFetch,
\* reservePasskeyAssertion, handlePasskeyConfirmation).
KeepsPasskeyContract == Contract!Spec

=============================================================================
