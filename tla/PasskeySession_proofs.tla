------------------------- MODULE PasskeySession_proofs -------------------------
(***************************************************************************)
(* Proofs about the Passkey part of a pairing session, for any number of   *)
(* callers and challenges.                                                 *)
(***************************************************************************)
EXTENDS PasskeySession, TLAPS

(***************************************************************************)
(* The invariant.                                                          *)
(***************************************************************************)

\* The steps a command makes with the mutex.
Holding == {"begin", "fetch", "set", "reserve", "send", "await", "failed"}

\* The mutex is with the command that is past its TryLock, or with the consumer
\* that sends a confirmation.  A fetched key has a request id to go with.
MutexKnown ==
    /\ \A c \in Callers : call[c].step \in Holding <=> mutex = c
    /\ consumer = "confirm" <=> mutex = Consumer
    /\ \A c \in Callers : At(c, "set") => challenges < MaxChallenges

\* Challenge r can never be submitted any more.
Spent(r) == r # 0 /\ r <= challenges /\ (passkey.request = r => passkey.consumed)

\* What is being sent, or was received, is spent.
SentOnce ==
    /\ passkey.request <= challenges
    /\ \A c \in Callers : At(c, "send") => Spent(call[c].request) /\ sent[call[c].request] = 0
    /\ \A r \in Requests : sent[r] > 0 => Spent(r) /\ sent[r] = 1

Inv == TypeOK /\ MutexKnown /\ SentOnce /\ CommandsOwnTheirStates

\* A new session has no challenge and no command.
LEMMA InitInv == Init => Inv
<1> SUFFICES ASSUME Init PROVE Inv
  OBVIOUS
<1>1. 0 \in Requests
  BY MaxChallengesAssumption DEF Requests
<1>2. /\ call \in [Callers -> [command : {"challenge", "assertion"}, step : Steps,
                              request : Requests]]
      /\ \A c \in Callers : call[c].step = "idle"
  BY <1>1 DEF Init, Steps
<1>3. TypeOK
  BY <1>1, <1>2 DEF Init, TypeOK, States
<1>4. MutexKnown /\ CommandsOwnTheirStates
  BY <1>2, CallerAssumption DEF Init, MutexKnown, CommandsOwnTheirStates, Holding, At
<1>5. SentOnce
  BY <1>2 DEF Init, SentOnce, At
<1> QED BY <1>3, <1>4, <1>5 DEF Inv

\* A command that moves from one step to the next keeps the rest of its call.
LEMMA Moved ==
    ASSUME TypeOK, NEW c \in Callers, NEW s \in Steps, Goto(c, s)
    PROVE  /\ call' \in [Callers -> [command : {"challenge", "assertion"}, step : Steps,
                                     request : Requests]]
           /\ call'[c].step = s
           /\ call'[c].request = call[c].request
           /\ \A d \in Callers : d # c => call'[d] = call[d]
BY DEF Goto, TypeOK

\* A command that returns gives the mutex back, and everything stays known.
LEMMA Returned ==
    ASSUME Inv, NEW c \in Callers, Return(c), call[c].step \in Holding,
           UNCHANGED <<challenges, consumer>>
    PROVE  /\ call' \in [Callers -> [command : {"challenge", "assertion"}, step : Steps,
                                     request : Requests]]
           /\ mutex = c /\ mutex' = NoOne /\ call'[c].step = "idle"
           /\ \A d \in Callers : /\ d # c => call'[d] = call[d]
                                /\ call'[d].step \notin Holding
           /\ MutexKnown'
<1>1. /\ call' \in [Callers -> [command : {"challenge", "assertion"}, step : Steps,
                                request : Requests]]
      /\ call'[c].step = "idle"
      /\ \A d \in Callers : d # c => call'[d] = call[d]
  BY Moved DEF Return, Inv, Steps
<1>2. mutex = c /\ mutex' = NoOne
  BY DEF Return, Inv, MutexKnown
<1>3. \A d \in Callers : call'[d].step \notin Holding
  BY <1>1, <1>2 DEF Inv, MutexKnown, Holding
<1>4. consumer' # "confirm"
  BY <1>2, CallerAssumption DEF Inv, MutexKnown
<1>5. MutexKnown'
  BY <1>2, <1>3, <1>4, CallerAssumption DEF MutexKnown, Holding, At
<1> QED BY <1>1, <1>2, <1>3, <1>5

\* A command that goes on keeps the mutex, and everything stays known.
LEMMA Proceeded ==
    ASSUME Inv, NEW c \in Callers, NEW s \in Holding, Goto(c, s), call[c].step \in Holding,
           UNCHANGED <<challenges, consumer, mutex>>,
           s = "set" => challenges < MaxChallenges
    PROVE  /\ call' \in [Callers -> [command : {"challenge", "assertion"}, step : Steps,
                                     request : Requests]]
           /\ mutex = c /\ call'[c].step = s /\ call'[c].request = call[c].request
           /\ \A d \in Callers : d # c => call'[d] = call[d] /\ call[d].step \notin Holding
           /\ MutexKnown'
<1>1. s \in Steps
  BY DEF Holding, Steps
<1>2. /\ call' \in [Callers -> [command : {"challenge", "assertion"}, step : Steps,
                                request : Requests]]
      /\ call'[c].step = s /\ call'[c].request = call[c].request
      /\ \A d \in Callers : d # c => call'[d] = call[d]
  BY <1>1, Moved DEF Inv
<1>3. mutex = c
  BY DEF Inv, MutexKnown
<1>4. \A d \in Callers : d # c => call[d].step \notin Holding
  BY <1>3 DEF Inv, MutexKnown
<1>5. MutexKnown'
  BY <1>2, <1>3, <1>4 DEF Inv, MutexKnown, At, Holding
<1> QED BY <1>2, <1>3, <1>4, <1>5

\* Where the session changes without a new challenge and without an assertion
\* coming back, what was spent stays spent.
LEMMA StaysSpent ==
    ASSUME Inv, UNCHANGED <<challenges, sent>>,
           passkey'.request \in {0, passkey.request},
           passkey.consumed /\ passkey'.request = passkey.request => passkey'.consumed,
           \A d \in Callers : At(d, "send")' => call'[d] = call[d]
    PROVE  SentOnce'
<1>1. \A r \in Requests : Spent(r) => Spent(r)'
  BY DEF Spent
<1>2. passkey'.request <= challenges' /\ challenges \in Nat
  BY MaxChallengesAssumption DEF Inv, SentOnce, TypeOK, Requests
<1>3. \A d \in Callers : At(d, "send")' => (Spent(call[d].request) /\ sent[call[d].request] = 0)'
  <2> SUFFICES ASSUME NEW d \in Callers, At(d, "send")'
               PROVE  (Spent(call[d].request) /\ sent[call[d].request] = 0)'
    OBVIOUS
  <2>1. call'[d] = call[d] /\ At(d, "send")
    BY DEF At
  <2>2. Spent(call[d].request) /\ sent[call[d].request] = 0
    BY <2>1 DEF Inv, SentOnce
  <2> QED BY <2>1, <2>2 DEF Spent
<1> QED BY <1>1, <1>2, <1>3 DEF Inv, SentOnce, At

\* A new challenge is one that was never sent, and spends the one before.
LEMMA NewChallenge ==
    ASSUME Inv, SetPasskeyChallenge, challenges < MaxChallenges, UNCHANGED sent,
           \A d \in Callers : At(d, "send")' => call'[d] = call[d]
    PROVE  /\ challenges' \in Requests /\ fresh' \in BOOLEAN
           /\ passkey' \in [state : States, request : Requests, consumed : BOOLEAN]
           /\ passkey'.state = "AWAITING_ASSERTION"
           /\ SentOnce'
<1>1. challenges + 1 \in Requests /\ challenges \in Nat
  BY MaxChallengesAssumption DEF Inv, TypeOK, Requests
<1>2. /\ challenges' = challenges + 1 /\ fresh' \in BOOLEAN
      /\ passkey' = [state |-> "AWAITING_ASSERTION", request |-> challenges + 1, consumed |-> FALSE]
  BY DEF SetPasskeyChallenge
<1>3. /\ passkey' \in [state : States, request : Requests, consumed : BOOLEAN]
      /\ passkey'.request = challenges + 1 /\ passkey'.state = "AWAITING_ASSERTION"
  BY <1>1, <1>2 DEF States
<1>4. \A r \in Requests : Spent(r) => Spent(r)'
  BY <1>1, <1>2, <1>3 DEF Spent, Requests
<1>5. \A d \in Callers : At(d, "send")' => (Spent(call[d].request) /\ sent[call[d].request] = 0)'
  <2> SUFFICES ASSUME NEW d \in Callers, At(d, "send")'
               PROVE  (Spent(call[d].request) /\ sent[call[d].request] = 0)'
    OBVIOUS
  <2>1. call'[d] = call[d] /\ At(d, "send") /\ call[d].request \in Requests
    BY DEF At, Inv, TypeOK
  <2>2. Spent(call[d].request) /\ sent[call[d].request] = 0
    BY <2>1 DEF Inv, SentOnce
  <2>3. Spent(call[d].request)'
    BY <1>4, <2>1, <2>2 DEF Spent
  <2> QED BY <2>1, <2>2, <2>3
<1>6. SentOnce'
  BY <1>1, <1>2, <1>3, <1>4, <1>5 DEF Inv, SentOnce
<1> QED BY <1>1, <1>2, <1>3, <1>6

\* Every step of a command keeps the invariant.
LEMMA CommandInv ==
    ASSUME Inv, NEW c \in Callers, Command(c)
    PROVE  Inv'
<1> USE DEF Inv
<1>0. UNCHANGED <<consumer, linked>>
  BY DEF Command, TryLock, BeginPasskeyChallengeFetch, GetPasskeyRequestOptions, SetChallenge,
         MarkPasskeyFailed, ReservePasskeyAssertion, SendPasskeyResponse,
         MarkPasskeyAwaitingConfirmation
<1>1. CASE TryLock(c)
  <2>1. UNCHANGED <<passkey, fresh, challenges, consumer, linked, sent>>
    BY <1>1 DEF TryLock
  <2>2. PICK s \in {"begin", "reserve", "idle"} :
          /\ Goto(c, s)
          /\ \/ s # "idle" /\ mutex = NoOne /\ mutex' = c
             \/ s = "idle" /\ UNCHANGED mutex
    BY <1>1 DEF TryLock
  <2>3. /\ call' \in [Callers -> [command : {"challenge", "assertion"}, step : Steps,
                                  request : Requests]]
        /\ call'[c].step = s
        /\ \A d \in Callers : d # c => call'[d] = call[d]
    BY <2>2, Moved DEF Steps
  <2>4. call[c].step = "lock"
    BY <1>1 DEF TryLock, At
  <2>5. TypeOK'
    BY <2>1, <2>2, <2>3 DEF TypeOK
  <2>6. MutexKnown'
    BY <2>1, <2>2, <2>3, <2>4, CallerAssumption DEF MutexKnown, Holding, At
  <2>7. SentOnce'
    BY <2>1, <2>2, <2>3, StaysSpent DEF At
  <2>8. CommandsOwnTheirStates'
    BY <2>1, <2>2, <2>3, <2>4, CallerAssumption DEF CommandsOwnTheirStates
  <2> QED BY <2>5, <2>6, <2>7, <2>8
<1>2. CASE BeginPasskeyChallengeFetch(c)
  <2>1. call[c].step = "begin" /\ UNCHANGED <<fresh, challenges, consumer, linked, sent>>
    BY <1>2 DEF BeginPasskeyChallengeFetch, At
  <2>2. CASE Return(c) /\ UNCHANGED passkey
    <3>1. /\ call' \in [Callers -> [command : {"challenge", "assertion"}, step : Steps,
                                    request : Requests]]
          /\ mutex = c /\ mutex' = NoOne /\ MutexKnown'
          /\ \A d \in Callers : /\ d # c => call'[d] = call[d]
                               /\ call'[d].step \notin Holding
      BY <2>1, <2>2, Returned DEF Holding
    <3>2. TypeOK' /\ SentOnce'
      BY <2>1, <2>2, <3>1, StaysSpent DEF TypeOK, At, Holding
    <3>3. CommandsOwnTheirStates'
      BY <2>1, <2>2, <3>1 DEF CommandsOwnTheirStates
    <3> QED BY <3>1, <3>2, <3>3
  <2>3. CASE ~ (Return(c) /\ UNCHANGED passkey)
    <3>1. /\ Goto(c, "fetch") /\ UNCHANGED mutex
          /\ passkey' = [state |-> "FETCHING_CHALLENGE", request |-> 0, consumed |-> FALSE]
      BY <1>2, <2>3 DEF BeginPasskeyChallengeFetch
    <3>2. /\ call' \in [Callers -> [command : {"challenge", "assertion"}, step : Steps,
                                    request : Requests]]
          /\ mutex = c /\ call'[c].step = "fetch" /\ MutexKnown'
          /\ \A d \in Callers : d # c => call'[d] = call[d]
      BY <2>1, <3>1, Proceeded DEF Holding
    <3>3. /\ passkey' \in [state : States, request : Requests, consumed : BOOLEAN]
          /\ passkey'.state = "FETCHING_CHALLENGE" /\ passkey'.request = 0
      BY <3>1, MaxChallengesAssumption DEF States, Requests
    <3>4. TypeOK'
      BY <2>1, <3>1, <3>2, <3>3 DEF TypeOK
    <3>5. SentOnce'
      <4>1. \A r \in Requests : Spent(r) => Spent(r)'
        BY <2>1, <3>3 DEF Spent
      <4>2. \A d \in Callers : ~ At(d, "send")'
        BY <2>1, <3>2, CallerAssumption DEF MutexKnown, At, Holding
      <4>3. challenges \in Nat
        BY MaxChallengesAssumption DEF TypeOK, Requests
      <4> QED BY <2>1, <3>3, <4>1, <4>2, <4>3 DEF SentOnce
    <3>6. CommandsOwnTheirStates'
      BY <3>1, <3>2, <3>3 DEF CommandsOwnTheirStates
    <3> QED BY <3>2, <3>4, <3>5, <3>6
  <2> QED BY <2>2, <2>3
<1>3. CASE GetPasskeyRequestOptions(c)
  <2>1. call[c].step = "fetch" /\ UNCHANGED <<passkey, fresh, challenges, mutex, consumer, linked, sent>>
    BY <1>3 DEF GetPasskeyRequestOptions, At
  <2>2. PICK s \in {"set", "failed"} : Goto(c, s) /\ (s = "set" => challenges < MaxChallenges)
    BY <1>3 DEF GetPasskeyRequestOptions
  <2>3. /\ call' \in [Callers -> [command : {"challenge", "assertion"}, step : Steps,
                                  request : Requests]]
        /\ mutex = c /\ call'[c].step = s /\ MutexKnown'
        /\ \A d \in Callers : d # c => call'[d] = call[d]
    BY <2>1, <2>2, Proceeded DEF Holding
  <2>4. TypeOK' /\ SentOnce'
    BY <2>1, <2>2, <2>3, StaysSpent DEF TypeOK, At
  <2>5. CommandsOwnTheirStates'
    BY <2>1, <2>2, <2>3 DEF CommandsOwnTheirStates
  <2> QED BY <2>3, <2>4, <2>5
<1>4. CASE SetChallenge(c)
  <2>1. /\ call[c].step = "set" /\ Return(c) /\ SetPasskeyChallenge
        /\ UNCHANGED <<consumer, linked, sent>>
    BY <1>4 DEF SetChallenge, At
  <2>2. challenges < MaxChallenges
    BY <2>1 DEF MutexKnown, At
  <2>3. /\ call' \in [Callers -> [command : {"challenge", "assertion"}, step : Steps,
                                  request : Requests]]
        /\ mutex' = NoOne
        /\ \A d \in Callers : /\ d # c => call'[d] = call[d]
                             /\ call'[d].step \notin Holding
    <3>1. /\ call' \in [Callers -> [command : {"challenge", "assertion"}, step : Steps,
                                    request : Requests]]
          /\ call'[c].step = "idle"
          /\ \A d \in Callers : d # c => call'[d] = call[d]
      BY <2>1, Moved DEF Return, Steps
    <3>2. mutex = c
      BY <2>1 DEF MutexKnown, Holding
    <3> QED BY <2>1, <3>1, <3>2 DEF Return, MutexKnown, Holding
  <2>4. MutexKnown'
    <3>1. consumer' # "confirm"
      BY <2>1, CallerAssumption DEF MutexKnown, Holding
    <3> QED BY <2>3, <3>1, CallerAssumption DEF MutexKnown, Holding, At
  <2>5. /\ challenges' \in Requests /\ fresh' \in BOOLEAN /\ SentOnce'
        /\ passkey' \in [state : States, request : Requests, consumed : BOOLEAN]
        /\ passkey'.state = "AWAITING_ASSERTION"
    BY <2>1, <2>2, <2>3, NewChallenge DEF At, Holding
  <2>6. TypeOK' /\ CommandsOwnTheirStates'
    BY <2>1, <2>3, <2>5 DEF TypeOK, CommandsOwnTheirStates
  <2> QED BY <2>4, <2>5, <2>6
<1>5. CASE MarkPasskeyFailed(c) \/ MarkPasskeyAwaitingConfirmation(c)
  <2>1. /\ call[c].step \in {"failed", "await"} /\ Return(c)
        /\ UNCHANGED <<fresh, challenges, consumer, linked, sent>>
    BY <1>5 DEF MarkPasskeyFailed, MarkPasskeyAwaitingConfirmation, At
  <2>2. PICK st \in {"FAILED", "AWAITING_CONFIRMATION"} : InState(st)
    BY <1>5 DEF MarkPasskeyFailed, MarkPasskeyAwaitingConfirmation
  <2>3. /\ passkey' \in [state : States, request : Requests, consumed : BOOLEAN]
        /\ passkey'.state = st /\ passkey'.request = passkey.request
        /\ passkey'.consumed = passkey.consumed
    BY <2>2 DEF InState, TypeOK, States
  <2>4. /\ call' \in [Callers -> [command : {"challenge", "assertion"}, step : Steps,
                                  request : Requests]]
        /\ mutex' = NoOne /\ MutexKnown'
        /\ \A d \in Callers : /\ d # c => call'[d] = call[d]
                             /\ call'[d].step \notin Holding
    BY <2>1, Returned DEF Holding
  <2>5. TypeOK' /\ SentOnce'
    BY <2>1, <2>3, <2>4, StaysSpent DEF TypeOK, At, Holding
  <2>6. CommandsOwnTheirStates'
    BY <2>2, <2>3 DEF CommandsOwnTheirStates
  <2> QED BY <2>4, <2>5, <2>6
<1>6. CASE ReservePasskeyAssertion(c)
  <2>1. call[c].step = "reserve" /\ UNCHANGED <<fresh, challenges, consumer, linked, sent>>
    BY <1>6 DEF ReservePasskeyAssertion, At
  <2>2. CASE Return(c) /\ (InState("EXPIRED") \/ UNCHANGED passkey)
    <3>1. /\ passkey' \in [state : States, request : Requests, consumed : BOOLEAN]
          /\ passkey'.request = passkey.request /\ passkey'.consumed = passkey.consumed
          /\ passkey'.state \in {"EXPIRED", passkey.state}
      BY <2>2 DEF InState, TypeOK, States
    <3>2. /\ call' \in [Callers -> [command : {"challenge", "assertion"}, step : Steps,
                                    request : Requests]]
          /\ mutex = c /\ mutex' = NoOne /\ MutexKnown'
          /\ \A d \in Callers : /\ d # c => call'[d] = call[d]
                               /\ call'[d].step \notin Holding
      BY <2>1, <2>2, Returned DEF Holding
    <3>3. TypeOK' /\ SentOnce'
      BY <2>1, <3>1, <3>2, StaysSpent DEF TypeOK, At, Holding
    <3>4. CommandsOwnTheirStates'
      BY <2>1, <3>1, <3>2 DEF CommandsOwnTheirStates
    <3> QED BY <3>2, <3>3, <3>4
  <2>3. CASE ~ (Return(c) /\ (InState("EXPIRED") \/ UNCHANGED passkey))
    <3> DEFINE r == call[c].request
    <3>1. /\ Offered /\ passkey.request = r /\ Goto(c, "send") /\ UNCHANGED mutex
          /\ passkey' = [passkey EXCEPT !.consumed = TRUE, !.state = "SUBMITTING_ASSERTION"]
      BY <1>6, <2>3 DEF ReservePasskeyAssertion
    <3>2. /\ call' \in [Callers -> [command : {"challenge", "assertion"}, step : Steps,
                                    request : Requests]]
          /\ mutex = c /\ call'[c].step = "send" /\ call'[c].request = r /\ MutexKnown'
          /\ \A d \in Callers : d # c => call'[d] = call[d] /\ call[d].step \notin Holding
      BY <2>1, <3>1, Proceeded DEF Holding
    <3>3. /\ passkey' \in [state : States, request : Requests, consumed : BOOLEAN]
          /\ passkey'.state = "SUBMITTING_ASSERTION" /\ passkey'.request = r /\ passkey'.consumed
      BY <3>1 DEF TypeOK, States
    <3>4. TypeOK'
      BY <2>1, <3>1, <3>2, <3>3 DEF TypeOK
    <3>5. r \in Requests /\ r # 0 /\ ~ passkey.consumed /\ r <= challenges
      BY <3>1 DEF Offered, TypeOK, SentOnce
    <3>6. ~ (sent[r] > 0) /\ sent[r] \in Nat
      BY <3>1, <3>5 DEF SentOnce, Spent, TypeOK
    <3>7. \A q \in Requests : Spent(q) => Spent(q)'
      BY <2>1, <3>3 DEF Spent
    <3>8. Spent(r)'
      BY <2>1, <3>2, <3>3, <3>5 DEF Spent
    <3>9. SentOnce'
      <4>1. \A d \in Callers : At(d, "send")' => d = c
        BY <3>2 DEF At, Holding
      <4>2. (Spent(call[c].request) /\ sent[call[c].request] = 0)'
        BY <2>1, <3>2, <3>6, <3>8 DEF Spent
      <4> QED BY <2>1, <3>3, <3>5, <3>7, <4>1, <4>2 DEF SentOnce
    <3>10. CommandsOwnTheirStates'
      BY <3>1, <3>2, <3>3 DEF CommandsOwnTheirStates
    <3> QED BY <3>2, <3>4, <3>9, <3>10
  <2> QED BY <2>2, <2>3
<1>7. CASE SendPasskeyResponse(c)
  <2> DEFINE r == call[c].request
  <2>1. call[c].step = "send" /\ UNCHANGED <<passkey, fresh, challenges, mutex, consumer, linked>>
    BY <1>7 DEF SendPasskeyResponse, At
  <2>2. PICK s \in {"await", "failed"} : Goto(c, s)
    BY <1>7 DEF SendPasskeyResponse
  <2>3. /\ call' \in [Callers -> [command : {"challenge", "assertion"}, step : Steps,
                                  request : Requests]]
        /\ mutex = c /\ call'[c].step = s /\ call'[c].request = r /\ MutexKnown'
        /\ \A d \in Callers : d # c => call'[d] = call[d] /\ call[d].step \notin Holding
    BY <2>1, <2>2, Proceeded DEF Holding
  <2>4. sent' = sent \/ sent' = [sent EXCEPT ![r] = @ + 1]
    BY <1>7 DEF SendPasskeyResponse
  <2>5. r \in Requests /\ Spent(r) /\ sent[r] = 0
    BY <2>1 DEF TypeOK, SentOnce, At
  <2>6. /\ sent' \in [Requests -> Nat] /\ sent'[r] \in {0, 1}
        /\ \A q \in Requests : q # r => sent'[q] = sent[q]
    BY <2>4, <2>5 DEF TypeOK
  <2>7. TypeOK'
    BY <2>1, <2>3, <2>6 DEF TypeOK
  <2>8. SentOnce'
    <3>1. \A d \in Callers : ~ At(d, "send")'
      BY <2>2, <2>3 DEF At, Holding
    <3>2. \A q \in Requests : Spent(q) => Spent(q)'
      BY <2>1 DEF Spent
    <3>3. \A q \in Requests : sent'[q] > 0 => Spent(q) /\ sent'[q] = 1
      BY <2>5, <2>6 DEF SentOnce
    <3> QED BY <2>1, <3>1, <3>2, <3>3 DEF SentOnce
  <2>9. CommandsOwnTheirStates'
    BY <2>1, <2>2, <2>3 DEF CommandsOwnTheirStates
  <2> QED BY <2>3, <2>7, <2>8, <2>9
<1> QED BY <1>1, <1>2, <1>3, <1>4, <1>5, <1>6, <1>7 DEF Command

\* Every step of the consumer, a new caller, and time, keep the invariant.
LEMMA OtherInv ==
    ASSUME Inv,
           \/ \E c \in Callers, command \in {"challenge", "assertion"}, request \in Requests :
                Enter(c, command, request)
           \/ Link \/ Expire
           \/ OnCode \/ OnSuccess \/ OnEnd \/ OnError \/ OnRequest \/ OnResponse
           \/ LockForConfirmation \/ SendPasskeyConfirmation
    PROVE  Inv'
<1> USE DEF Inv
<1>1. ASSUME NEW c \in Callers, NEW command \in {"challenge", "assertion"}, NEW request \in Requests,
             Enter(c, command, request)
      PROVE  Inv'
  <2>1. /\ call[c].step = "idle"
        /\ call' = [call EXCEPT ![c] = [command |-> command, step |-> "lock", request |-> request]]
        /\ UNCHANGED <<passkey, fresh, challenges, mutex, consumer, linked, sent>>
    BY <1>1 DEF Enter, At
  <2>2. /\ call' \in [Callers -> [command : {"challenge", "assertion"}, step : Steps,
                                  request : Requests]]
        /\ call'[c].step = "lock"
        /\ \A d \in Callers : d # c => call'[d] = call[d]
    BY <2>1 DEF TypeOK, Steps
  <2>3. TypeOK' /\ MutexKnown'
    BY <2>1, <2>2 DEF TypeOK, MutexKnown, Holding, At
  <2>4. SentOnce'
    BY <2>1, <2>2, StaysSpent DEF At
  <2>5. mutex # c
    BY <2>1 DEF MutexKnown, Holding
  <2>6. CommandsOwnTheirStates'
    BY <2>1, <2>2, <2>5 DEF CommandsOwnTheirStates
  <2> QED BY <2>3, <2>4, <2>6
<1>2. CASE Link \/ Expire \/ OnCode \/ OnEnd \/ LockForConfirmation
  <2>1. UNCHANGED <<passkey, challenges, call, sent>>
    BY <1>2 DEF Link, Expire, OnCode, OnEnd, LockForConfirmation
  <2>2. SentOnce'
    BY <2>1, StaysSpent
  <2>3. TypeOK'
    BY <1>2 DEF Link, Expire, OnCode, OnEnd, LockForConfirmation, TypeOK
  <2>4. MutexKnown' /\ CommandsOwnTheirStates'
    <3>1. CASE LockForConfirmation
      <4>1. mutex = NoOne /\ mutex' = Consumer /\ consumer' = "confirm"
        BY <3>1 DEF LockForConfirmation
      <4>2. MutexKnown'
        BY <2>1, <4>1, CallerAssumption DEF MutexKnown, At
      <4>3. CommandsOwnTheirStates'
        BY <2>1, <4>1, CallerAssumption DEF CommandsOwnTheirStates
      <4> QED BY <4>2, <4>3
    <3>2. CASE Link \/ Expire \/ OnCode \/ OnEnd
      <4>1. UNCHANGED mutex /\ (consumer' = "confirm" <=> consumer = "confirm")
        BY <3>2 DEF Link, Expire, OnCode, OnEnd
      <4> QED BY <2>1, <4>1 DEF MutexKnown, CommandsOwnTheirStates, At
    <3> QED BY <1>2, <3>1, <3>2
  <2> QED BY <2>2, <2>3, <2>4
<1>3. CASE OnSuccess \/ OnError \/ OnResponse \/ SendPasskeyConfirmation
  <2>1. PICK st \in {"COMPLETED", "FAILED", "AWAITING_CONFIRMATION", "CONFIRMATION_SENT"} :
          InState(st)
    BY <1>3 DEF OnSuccess, OnError, OnResponse, SendPasskeyConfirmation
  <2>2. /\ passkey' \in [state : States, request : Requests, consumed : BOOLEAN]
        /\ passkey'.state = st /\ passkey'.request = passkey.request
        /\ passkey'.consumed = passkey.consumed
    BY <2>1 DEF InState, TypeOK, States
  <2>3. UNCHANGED <<fresh, challenges, call, linked, sent>>
    BY <1>3 DEF OnSuccess, OnError, OnResponse, SendPasskeyConfirmation
  <2>4. /\ mutex' \in Callers \union {Consumer, NoOne}
        /\ consumer' \in {"listen", "lock", "over"}
        /\ \/ mutex' = mutex /\ consumer = "listen"
           \/ mutex' = NoOne /\ consumer = "confirm"
    BY <1>3 DEF OnSuccess, OnError, OnResponse, SendPasskeyConfirmation, TypeOK
  <2>5. TypeOK'
    BY <2>2, <2>3, <2>4 DEF TypeOK
  <2>6. MutexKnown'
    BY <2>3, <2>4, CallerAssumption DEF MutexKnown, At
  <2>7. SentOnce'
    BY <2>2, <2>3, StaysSpent
  <2>8. CommandsOwnTheirStates'
    BY <2>1, <2>2 DEF CommandsOwnTheirStates
  <2> QED BY <2>5, <2>6, <2>7, <2>8
<1>4. CASE OnRequest
  <2>1. SetPasskeyChallenge /\ UNCHANGED <<mutex, call, consumer, linked, sent>>
    BY <1>4 DEF OnRequest
  <2>2. challenges + 1 < MaxChallenges /\ challenges \in Nat /\ challenges' = challenges + 1
    BY <1>4, MaxChallengesAssumption DEF OnRequest, SetPasskeyChallenge, TypeOK, Requests
  <2>3. /\ challenges' \in Requests /\ fresh' \in BOOLEAN /\ SentOnce'
        /\ passkey' \in [state : States, request : Requests, consumed : BOOLEAN]
        /\ passkey'.state = "AWAITING_ASSERTION"
    <3>1. challenges < MaxChallenges
      BY <2>2, MaxChallengesAssumption
    <3> QED BY <2>1, <3>1, NewChallenge
  <2>4. TypeOK' /\ CommandsOwnTheirStates'
    BY <2>1, <2>3 DEF TypeOK, CommandsOwnTheirStates
  <2>5. MutexKnown'
    BY <2>1, <2>2 DEF MutexKnown, At
  <2> QED BY <2>3, <2>4, <2>5
<1> QED BY <1>1, <1>2, <1>3, <1>4

\* Nothing that happens to a session breaks the invariant.
LEMMA NextInv == Inv /\ [Next]_vars => Inv'
<1> SUFFICES ASSUME Inv, [Next]_vars PROVE Inv'
  OBVIOUS
<1>1. CASE UNCHANGED vars
  BY <1>1 DEF vars, Inv, TypeOK, MutexKnown, SentOnce, Spent, CommandsOwnTheirStates, At
<1>2. CASE Next
  BY <1>2, CommandInv, OtherInv DEF Next
<1> QED BY <1>1, <1>2

\* Session, mutex and commands keep their shape, whatever the QR channel says.
THEOREM TypeCorrect == Spec => []TypeOK
<1>1. Inv => TypeOK
  BY DEF Inv
<1> QED BY <1>1, InitInv, NextInv, PTL DEF Spec

\* However often a challenge's assertion is submitted, and whatever the QR
\* channel does to the session meanwhile, WhatsApp receives it at most once; and
\* no session stays in a command's state without that command
\* (reservePasskeyAssertion, markPasskeyFailed).
THEOREM SessionSafe == Spec => [](AssertionOnce /\ CommandsOwnTheirStates)
<1>1. Inv => AssertionOnce /\ CommandsOwnTheirStates
  <2> SUFFICES ASSUME Inv, NEW r \in Requests PROVE sent[r] <= 1
    BY DEF Inv, AssertionOnce
  <2>1. sent[r] \in Nat /\ (sent[r] > 0 => sent[r] = 1)
    BY DEF Inv, TypeOK, SentOnce
  <2> QED BY <2>1
<1> QED BY <1>1, InitInv, NextInv, PTL DEF Spec

(***************************************************************************)
(* Commands and consumer implement PasskeyContract.                        *)
(***************************************************************************)

\* The consumer confirms only what WhatsApp received.
ConfirmsReceived == consumer \in {"lock", "confirm"} => \E r \in Requests : sent[r] > 0

\* A step of the detailed specification is one of the abstract one, or none.
Promised ==
    \/ Contract!Next
    \/ UNCHANGED <<Open, challenges, Asking, Answering, sent>>

\* A command that holds the mutex is the only one that may ask.
LEMMA AsksAlone ==
    ASSUME Inv, NEW c \in Callers, call[c].step \in Holding
    PROVE  /\ call[c].step \in {"fetch", "send"} => Asking = {c}
           /\ call[c].step \notin {"fetch", "send"} => Asking = {}
           /\ \A d \in Callers : d # c => ~ At(d, "send")
           /\ consumer # "confirm"
<1>1. mutex = c
  BY DEF Inv, MutexKnown
<1>2. consumer # "confirm" /\ \A d \in Callers : d # c => call[d].step \notin Holding
  BY <1>1, CallerAssumption DEF Inv, MutexKnown
<1> QED BY <1>2 DEF Asking, Holding, At

\* While the mutex is free nobody asks.
LEMMA NobodyAsks ==
    ASSUME Inv, mutex = NoOne
    PROVE  Asking = {}
<1>1. consumer # "confirm" /\ \A d \in Callers : call[d].step \notin Holding
  BY CallerAssumption DEF Inv, MutexKnown
<1> QED BY <1>1 DEF Asking, Holding

\* Steps before and after a question are no part of the promise.
LEMMA AskingKept ==
    ASSUME consumer' = "confirm" <=> consumer = "confirm",
           \A d \in Callers :
               \/ call'[d] = call[d]
               \/ call[d].step \notin {"fetch", "send"} /\ call'[d].step \notin {"fetch", "send"}
    PROVE  Asking' = Asking /\ Answering' = Answering
BY DEF Asking, Answering, At

\* Every step of a command is promised.
LEMMA CommandPromised ==
    ASSUME Inv, NEW c \in Callers, Command(c)
    PROVE  Promised
<1>a. TypeOK /\ passkey \in [state : States, request : Requests, consumed : BOOLEAN]
  BY DEF Inv, TypeOK
<1>1. CASE TryLock(c)
  <2>1. UNCHANGED <<passkey, fresh, challenges, consumer, sent>>
    BY <1>1 DEF TryLock
  <2>2. PICK s \in {"begin", "reserve", "idle"} : Goto(c, s)
    BY <1>1 DEF TryLock
  <2>3. call[c].step = "lock" /\ call'[c].step = s /\ \A d \in Callers : d # c => call'[d] = call[d]
    BY <1>1, <1>a, <2>2, Moved DEF TryLock, At, Steps
  <2>4. Asking' = Asking /\ Answering' = Answering
    BY <2>1, <2>3, AskingKept
  <2> QED BY <2>1, <2>4 DEF Promised, Open, Offered
<1>2. CASE BeginPasskeyChallengeFetch(c)
  <2>1. call[c].step = "begin" /\ UNCHANGED <<fresh, challenges, consumer, sent>>
    BY <1>2 DEF BeginPasskeyChallengeFetch, At
  <2>2. CASE Return(c) /\ UNCHANGED passkey
    <3>1. call'[c].step = "idle" /\ \A d \in Callers : d # c => call'[d] = call[d]
      BY <1>a, <2>2, Moved DEF Return, Steps
    <3>2. Asking' = Asking /\ Answering' = Answering
      BY <2>1, <3>1, AskingKept
    <3> QED BY <2>1, <2>2, <3>2 DEF Promised, Open, Offered
  <2>3. CASE ~ (Return(c) /\ UNCHANGED passkey)
    <3>1. /\ Goto(c, "fetch")
          /\ passkey' = [state |-> "FETCHING_CHALLENGE", request |-> 0, consumed |-> FALSE]
      BY <1>2, <2>3 DEF BeginPasskeyChallengeFetch
    <3>2. call'[c].step = "fetch" /\ \A d \in Callers : d # c => call'[d] = call[d]
      BY <1>a, <3>1, Moved DEF Steps
    <3>3. Asking = {} /\ consumer # "confirm" /\ \A d \in Callers : call[d].step \notin {"fetch", "send"}
      BY <2>1, AsksAlone DEF Holding, Asking
    <3>4. Asking' = {c} /\ Answering' = Answering
      BY <2>1, <3>2, <3>3 DEF Asking, Answering, At
    <3>5. Open' = 0
      BY <3>1 DEF Open, Offered
    <3>6. Contract!Fetch(c)
      BY <2>1, <3>3, <3>4, <3>5 DEF Contract!Fetch
    <3> QED BY <3>6 DEF Promised, Contract!Next
  <2> QED BY <2>2, <2>3
<1>3. CASE GetPasskeyRequestOptions(c)
  <2>1. call[c].step = "fetch" /\ UNCHANGED <<passkey, fresh, challenges, consumer, sent>>
    BY <1>3 DEF GetPasskeyRequestOptions, At
  <2>2. PICK s \in {"set", "failed"} : Goto(c, s)
    BY <1>3 DEF GetPasskeyRequestOptions
  <2>3. call'[c].step = s /\ \A d \in Callers : d # c => call'[d] = call[d]
    BY <1>a, <2>2, Moved DEF Steps
  <2>4. /\ Asking = {c} /\ consumer # "confirm"
        /\ \A d \in Callers : d # c => call[d].step \notin {"fetch", "send"}
    BY <2>1, AsksAlone DEF Holding, Asking
  <2>5. Asking' = Asking \ {c}
    BY <2>1, <2>3, <2>4 DEF Asking
  <2>6. Answering' = Answering /\ Answering[c] = 0
    BY <2>1, <2>2, <2>3 DEF Answering, At
  <2>7. Open' = Open
    BY <2>1 DEF Open, Offered
  <2>8. Contract!Fetched(c)
    BY <2>1, <2>4, <2>5, <2>6, <2>7 DEF Contract!Fetched
  <2> QED BY <2>8 DEF Promised, Contract!Next
<1>4. CASE SetChallenge(c)
  <2>1. call[c].step = "set" /\ Return(c) /\ SetPasskeyChallenge /\ UNCHANGED <<consumer, sent>>
    BY <1>4 DEF SetChallenge, At
  <2>2. call'[c].step = "idle" /\ \A d \in Callers : d # c => call'[d] = call[d]
    BY <1>a, <2>1, Moved DEF Return, Steps
  <2>3. Asking' = Asking /\ Answering' = Answering
    BY <2>1, <2>2, AskingKept
  <2>4. challenges < MaxChallenges /\ challenges \in Nat
    BY <2>1, MaxChallengesAssumption DEF Inv, MutexKnown, At, TypeOK, Requests
  <2>5. Contract!Issue
    <3>1. challenges + 1 \in Requests /\ challenges + 1 # 0
      BY <2>4, MaxChallengesAssumption DEF Requests
    <3>2. challenges' = challenges + 1 /\ Open' = challenges + 1
      BY <2>1, <3>1 DEF SetPasskeyChallenge, Open, Offered
    <3> QED BY <2>1, <2>3, <3>1, <3>2 DEF Contract!Issue
  <2> QED BY <2>5 DEF Promised, Contract!Next
<1>5. CASE MarkPasskeyFailed(c) \/ MarkPasskeyAwaitingConfirmation(c)
  <2>1. /\ call[c].step \in {"failed", "await"} /\ Return(c)
        /\ UNCHANGED <<challenges, consumer, sent>>
    BY <1>5 DEF MarkPasskeyFailed, MarkPasskeyAwaitingConfirmation, At
  <2>2. passkey'.state \in {"FAILED", "AWAITING_CONFIRMATION"}
    BY <1>5, <1>a DEF MarkPasskeyFailed, MarkPasskeyAwaitingConfirmation, InState
  <2>3. call'[c].step = "idle" /\ \A d \in Callers : d # c => call'[d] = call[d]
    BY <1>a, <2>1, Moved DEF Return, Steps
  <2>4. Asking' = Asking /\ Answering' = Answering
    BY <2>1, <2>3, AskingKept
  <2>5. Contract!Close
    BY <2>1, <2>2, <2>4 DEF Contract!Close, Open, Offered
  <2> QED BY <2>5 DEF Promised, Contract!Next
<1>6. CASE ReservePasskeyAssertion(c)
  <2>1. call[c].step = "reserve" /\ UNCHANGED <<fresh, challenges, consumer, sent>>
    BY <1>6 DEF ReservePasskeyAssertion, At
  <2>2. CASE Return(c) /\ (InState("EXPIRED") \/ UNCHANGED passkey)
    <3>1. call'[c].step = "idle" /\ \A d \in Callers : d # c => call'[d] = call[d]
      BY <1>a, <2>2, Moved DEF Return, Steps
    <3>2. Asking' = Asking /\ Answering' = Answering
      BY <2>1, <3>1, AskingKept
    <3>3. Open' \in {Open, 0}
      BY <1>a, <2>1, <2>2 DEF InState, Open, Offered
    <3>4. Open' = 0 => Contract!Close
      BY <2>1, <3>2 DEF Contract!Close
    <3> QED BY <2>1, <3>2, <3>3, <3>4 DEF Promised, Contract!Next
  <2>3. CASE ~ (Return(c) /\ (InState("EXPIRED") \/ UNCHANGED passkey))
    <3> DEFINE r == call[c].request
    <3>1. /\ Offered /\ fresh /\ passkey.request = r /\ Goto(c, "send")
          /\ passkey' = [passkey EXCEPT !.consumed = TRUE, !.state = "SUBMITTING_ASSERTION"]
      BY <1>6, <2>3 DEF ReservePasskeyAssertion
    <3>2. /\ call'[c].step = "send" /\ call'[c].request = r
          /\ \A d \in Callers : d # c => call'[d] = call[d]
      BY <1>a, <3>1, Moved DEF Steps
    <3>3. Asking = {} /\ consumer # "confirm" /\ \A d \in Callers : call[d].step \notin {"fetch", "send"}
      BY <2>1, AsksAlone DEF Holding, Asking
    <3>4. Asking' = {c}
      BY <2>1, <3>2, <3>3 DEF Asking
    <3>5. Open = r /\ r # 0 /\ Open' = 0
      BY <3>1, <1>a DEF Open, Offered
    <3>6. Answering' = [Answering EXCEPT ![c] = Open]
      BY <3>2, <3>5 DEF Answering, At
    <3>7. Contract!Answer(c)
      BY <2>1, <3>3, <3>4, <3>5, <3>6 DEF Contract!Answer
    <3> QED BY <3>7 DEF Promised, Contract!Next
  <2> QED BY <2>2, <2>3
<1>7. CASE SendPasskeyResponse(c)
  <2> DEFINE r == call[c].request
  <2>1. call[c].step = "send" /\ UNCHANGED <<passkey, fresh, challenges, consumer>>
    BY <1>7 DEF SendPasskeyResponse, At
  <2>2. PICK s \in {"await", "failed"} : Goto(c, s)
    BY <1>7 DEF SendPasskeyResponse
  <2>3. call'[c].step = s /\ \A d \in Callers : d # c => call'[d] = call[d]
    BY <1>a, <2>2, Moved DEF Steps
  <2>4. sent' \in {sent, [sent EXCEPT ![r] = @ + 1]}
    BY <1>7 DEF SendPasskeyResponse
  <2>5. r # 0
    BY <2>1 DEF Inv, SentOnce, Spent, At
  <2>6. /\ Asking = {c} /\ consumer # "confirm"
        /\ \A d \in Callers : d # c => call[d].step \notin {"fetch", "send"}
    BY <2>1, AsksAlone DEF Holding, Asking
  <2>7. Asking' = Asking \ {c}
    BY <2>1, <2>3, <2>6 DEF Asking
  <2>8. Answering[c] = r /\ Answering' = [Answering EXCEPT ![c] = 0]
    BY <2>1, <2>2, <2>3 DEF Answering, At
  <2>9. Open' = Open
    BY <2>1 DEF Open, Offered
  <2>10. Contract!Answered(c)
    BY <2>1, <2>4, <2>5, <2>6, <2>7, <2>8, <2>9 DEF Contract!Answered
  <2> QED BY <2>10 DEF Promised, Contract!Next
<1> QED BY <1>1, <1>2, <1>3, <1>4, <1>5, <1>6, <1>7 DEF Command

\* So is every other step: of the consumer, of the clock, or a new caller's.
LEMMA OtherPromised ==
    ASSUME Inv, ConfirmsReceived,
           \/ \E c \in Callers, command \in {"challenge", "assertion"}, request \in Requests :
                Enter(c, command, request)
           \/ Link \/ Expire
           \/ OnCode \/ OnSuccess \/ OnEnd \/ OnError \/ OnRequest \/ OnResponse
           \/ LockForConfirmation \/ SendPasskeyConfirmation
    PROVE  Promised
<1>a. passkey \in [state : States, request : Requests, consumed : BOOLEAN]
  BY DEF Inv, TypeOK
<1>1. ASSUME NEW c \in Callers, NEW command \in {"challenge", "assertion"}, NEW request \in Requests,
             Enter(c, command, request)
      PROVE  Promised
  <2>1. call[c].step = "idle" /\ UNCHANGED <<passkey, fresh, challenges, consumer, sent>>
    BY <1>1 DEF Enter, At
  <2>2. call'[c].step = "lock" /\ \A d \in Callers : d # c => call'[d] = call[d]
    BY <1>1 DEF Enter, Inv, TypeOK
  <2>3. Asking' = Asking /\ Answering' = Answering
    BY <2>1, <2>2, AskingKept
  <2> QED BY <2>1, <2>3 DEF Promised, Open, Offered
<1>2. CASE Link \/ OnCode \/ OnEnd
  <2>1. /\ UNCHANGED <<passkey, fresh, challenges, call, sent>>
        /\ consumer' = "confirm" <=> consumer = "confirm"
    BY <1>2 DEF Link, OnCode, OnEnd
  <2>2. Asking' = Asking /\ Answering' = Answering
    BY <2>1, AskingKept
  <2> QED BY <2>1, <2>2 DEF Promised, Open, Offered
<1>3. CASE Expire \/ OnSuccess \/ OnError \/ OnResponse
  <2>1. /\ UNCHANGED <<challenges, call, sent>>
        /\ consumer' = "confirm" <=> consumer = "confirm"
    BY <1>3 DEF Expire, OnSuccess, OnError, OnResponse
  <2>2. Asking' = Asking /\ Answering' = Answering
    BY <2>1, AskingKept
  <2>3. Open' = 0
    BY <1>3, <1>a DEF Expire, OnSuccess, OnError, OnResponse, InState, Open, Offered
  <2>4. Contract!Close
    BY <2>1, <2>2, <2>3 DEF Contract!Close
  <2> QED BY <2>4 DEF Promised, Contract!Next
<1>4. CASE OnRequest
  <2>1. SetPasskeyChallenge /\ UNCHANGED <<call, consumer, sent>>
    BY <1>4 DEF OnRequest
  <2>2. Asking' = Asking /\ Answering' = Answering
    BY <2>1, AskingKept
  <2>3. challenges + 1 < MaxChallenges /\ challenges \in Nat
    BY <1>4, MaxChallengesAssumption DEF OnRequest, Inv, TypeOK, Requests
  <2>4. challenges + 1 \in Requests /\ challenges + 1 # 0
    BY <2>3, MaxChallengesAssumption DEF Requests
  <2>5. challenges' = challenges + 1 /\ Open' = challenges + 1
    BY <2>1, <2>4 DEF SetPasskeyChallenge, Open, Offered
  <2>6. Contract!Issue
    BY <2>1, <2>2, <2>4, <2>5 DEF Contract!Issue
  <2> QED BY <2>6 DEF Promised, Contract!Next
<1>5. CASE LockForConfirmation
  <2>1. /\ consumer = "lock" /\ mutex = NoOne /\ consumer' = "confirm"
        /\ UNCHANGED <<passkey, fresh, challenges, call, sent>>
    BY <1>5 DEF LockForConfirmation
  <2>2. Asking = {}
    BY <2>1, NobodyAsks
  <2>3. Asking' = {Consumer} /\ Answering' = Answering /\ Open' = Open
    BY <2>1, <2>2 DEF Asking, Answering, At, Open, Offered
  <2>4. Contract!Confirm
    BY <2>1, <2>2, <2>3 DEF Contract!Confirm, ConfirmsReceived
  <2> QED BY <2>4 DEF Promised, Contract!Next
<1>6. CASE SendPasskeyConfirmation
  <2>1. consumer = "confirm" /\ consumer' # "confirm" /\ UNCHANGED <<challenges, call, sent>>
    BY <1>6 DEF SendPasskeyConfirmation
  <2>2. /\ Consumer \in Asking /\ Asking' = Asking \ {Consumer}
        /\ Answering' = Answering
    BY <2>1, CallerAssumption DEF Asking, Answering, At
  <2>3. Open' = 0
    BY <1>6, <1>a DEF SendPasskeyConfirmation, InState, Open, Offered
  <2>4. Contract!Confirmed
    BY <2>1, <2>2, <2>3 DEF Contract!Confirmed
  <2> QED BY <2>4 DEF Promised, Contract!Next
<1> QED BY <1>1, <1>2, <1>3, <1>4, <1>5, <1>6

\* What WhatsApp received stays received, so the consumer may rely on it.
LEMMA ConfirmsReceivedNext == Inv /\ ConfirmsReceived /\ [Next]_vars => ConfirmsReceived'
<1> SUFFICES ASSUME Inv, ConfirmsReceived, [Next]_vars PROVE ConfirmsReceived'
  OBVIOUS
<1>1. \A r \in Requests : sent[r] > 0 => sent'[r] > 0
  <2>1. ASSUME NEW c \in Callers, SendPasskeyResponse(c)
        PROVE  \A r \in Requests : sent[r] > 0 => sent'[r] > 0
    BY <2>1 DEF SendPasskeyResponse, Inv, TypeOK
  <2>2. ASSUME NEW c \in Callers, Command(c), ~ SendPasskeyResponse(c)
        PROVE  UNCHANGED sent
    BY <2>2 DEF Command, TryLock, BeginPasskeyChallengeFetch, GetPasskeyRequestOptions,
                SetChallenge, MarkPasskeyFailed, ReservePasskeyAssertion,
                MarkPasskeyAwaitingConfirmation
  <2>3. ASSUME NEW c \in Callers, NEW command \in {"challenge", "assertion"},
               NEW request \in Requests, Enter(c, command, request)
        PROVE  UNCHANGED sent
    BY <2>3 DEF Enter
  <2> QED BY <2>1, <2>2, <2>3 DEF Next, vars, Link, Expire, OnCode, OnSuccess, OnEnd, OnError,
              OnRequest, OnResponse, LockForConfirmation, SendPasskeyConfirmation
<1>2. consumer' \in {"lock", "confirm"} =>
        consumer \in {"lock", "confirm"} \/ \E r \in Requests : sent[r] > 0
  <2>1. ASSUME NEW c \in Callers, Command(c) PROVE UNCHANGED consumer
    BY <2>1 DEF Command, TryLock, BeginPasskeyChallengeFetch, GetPasskeyRequestOptions,
                SetChallenge, MarkPasskeyFailed, ReservePasskeyAssertion, SendPasskeyResponse,
                MarkPasskeyAwaitingConfirmation
  <2>2. ASSUME NEW c \in Callers, NEW command \in {"challenge", "assertion"},
               NEW request \in Requests, Enter(c, command, request)
        PROVE  UNCHANGED consumer
    BY <2>2 DEF Enter
  <2> QED BY <2>1, <2>2 DEF Next, vars, Link, Expire, OnCode, OnSuccess, OnEnd, OnError,
              OnRequest, OnResponse, LockForConfirmation, SendPasskeyConfirmation
<1> QED BY <1>1, <1>2 DEF ConfirmsReceived

\* A new session has issued nothing and asks nothing.
LEMMA InitPromise == Init => Contract!Init /\ ConfirmsReceived
<1> SUFFICES ASSUME Init PROVE Contract!Init /\ ConfirmsReceived
  OBVIOUS
<1>1. Asking = {} /\ Answering = [c \in Callers |-> 0] /\ Open = 0
  BY DEF Init, Asking, Answering, At, Open, Offered
<1> QED BY <1>1 DEF Init, Contract!Init, ConfirmsReceived

\* No step of the session leaves the promise.
LEMMA StepsKeepPromise == Inv /\ ConfirmsReceived /\ [Next]_vars => Promised
<1> SUFFICES ASSUME Inv, ConfirmsReceived, [Next]_vars PROVE Promised
  OBVIOUS
<1>1. ASSUME NEW c \in Callers, Command(c) PROVE Promised
  BY <1>1, CommandPromised
<1>2. CASE Next /\ ~ \E c \in Callers : Command(c)
  BY <1>2, OtherPromised DEF Next
<1>3. CASE UNCHANGED vars
  <2>1. UNCHANGED <<passkey, fresh, challenges, call, consumer, sent>>
    BY <1>3 DEF vars
  <2>2. Asking' = Asking /\ Answering' = Answering
    BY <2>1, AskingKept
  <2> QED BY <2>1, <2>2 DEF Promised, Open, Offered
<1> QED BY <1>1, <1>2, <1>3

\* Whatever states, marks and deadlines do, the commands and the QR channel's
\* goroutine keep the promise of PasskeyContract: one question at a time, one
\* answer for a challenge and only for the open one, and no confirmation before
\* an answer arrived (passkeyCommandMu, reservePasskeyAssertion,
\* handlePasskeyConfirmation).
THEOREM KeepsContract == Spec => KeepsPasskeyContract
<1>1. Promised => [Contract!Next]_(Contract!vars)
  BY DEF Promised, Contract!vars
<1>2. Init => Inv /\ ConfirmsReceived /\ Contract!Init
  BY InitInv, InitPromise
<1>3. Inv /\ ConfirmsReceived /\ [Next]_vars => (Inv /\ ConfirmsReceived)' /\ Promised
  BY NextInv, ConfirmsReceivedNext, StepsKeepPromise
<1> QED BY <1>1, <1>2, <1>3, PTL DEF Spec, KeepsPasskeyContract, Contract!Spec

(***************************************************************************)
(* What a user of the session may rely on.                                 *)
(***************************************************************************)

\* A challenge whose answer is on its way, or arrived, is not for the asking.
NeverOfferedAgain ==
    \A r \in Requests :
        sent[r] > 0 \/ (\E c \in Callers : At(c, "send") /\ call[c].request = r)
            => ~ (Offered /\ passkey.request = r)

\* Whatever fails after an answer left, the same challenge is never offered
\* again, and a confirmation waits or is under way only after some answer
\* arrived (markPasskeyFailed, handlePasskeyConfirmation).
THEOREM AnswersAreFinal == Spec => [](NeverOfferedAgain /\ ConfirmsReceived)
<1>1. Inv => NeverOfferedAgain
  BY DEF Inv, SentOnce, Spent, NeverOfferedAgain, Offered
<1>2. Init => Inv /\ ConfirmsReceived
  BY InitInv, InitPromise
<1>3. Inv /\ ConfirmsReceived /\ [Next]_vars => (Inv /\ ConfirmsReceived)'
  BY NextInv, ConfirmsReceivedNext
<1> QED BY <1>1, <1>2, <1>3, PTL DEF Spec

=============================================================================
