-------------------------- MODULE PasskeyContract --------------------------
(***************************************************************************)
(* What the Passkey part of a pairing session promises, without states,    *)
(* mutexes, deadlines and marks: at most one question to WhatsApp is on    *)
(* its way at a time, a challenge is answered at most once and only while  *)
(* it is the session's open one, and the pairing is confirmed only after   *)
(* an answer arrived.  PasskeySession implements this specification.       *)
(***************************************************************************)
EXTENDS Naturals

CONSTANTS
    Callers,    \* requests of HTTP callers
    Consumer,   \* the goroutine of the QR channel
    Requests    \* the challenges, and 0 for none

VARIABLES
    open,       \* the challenge that may be answered, or 0
    issued,     \* the newest challenge
    asking,     \* who waits for WhatsApp
    answering,  \* answering[c]: the challenge whose answer c sends, or 0
    received    \* received[r]: how often WhatsApp received an answer to r

vars == <<open, issued, asking, answering, received>>

Init ==
    /\ open = 0
    /\ issued = 0
    /\ asking = {}
    /\ answering = [c \in Callers |-> 0]
    /\ received = [r \in Requests |-> 0]

\* A new challenge replaces the one before; an old one never opens again.
Issue ==
    /\ issued + 1 \in Requests
    /\ issued' = issued + 1
    /\ open' = issued + 1
    /\ UNCHANGED <<asking, answering, received>>

\* The challenge expires, or the session fails or comes to its end.
Close ==
    /\ open' = 0
    /\ UNCHANGED <<issued, asking, answering, received>>

Fetch(c) ==
    /\ asking = {}
    /\ asking' = {c}
    /\ open' = 0
    /\ UNCHANGED <<issued, answering, received>>

Fetched(c) ==
    /\ c \in asking
    /\ answering[c] = 0
    /\ asking' = asking \ {c}
    /\ UNCHANGED <<open, issued, answering, received>>

Answer(c) ==
    /\ asking = {}
    /\ open # 0
    /\ asking' = {c}
    /\ answering' = [answering EXCEPT ![c] = open]
    /\ open' = 0
    /\ UNCHANGED <<issued, received>>

\* The answer arrived, or it did not.
Answered(c) ==
    LET r == answering[c] IN
    /\ c \in asking
    /\ r # 0
    /\ asking' = asking \ {c}
    /\ answering' = [answering EXCEPT ![c] = 0]
    /\ received' \in {received, [received EXCEPT ![r] = @ + 1]}
    /\ UNCHANGED <<open, issued>>

Confirm ==
    /\ asking = {}
    /\ \E r \in Requests : received[r] > 0
    /\ asking' = {Consumer}
    /\ UNCHANGED <<open, issued, answering, received>>

Confirmed ==
    /\ Consumer \in asking
    /\ asking' = asking \ {Consumer}
    /\ open' = 0
    /\ UNCHANGED <<issued, answering, received>>

Next ==
    \/ \E c \in Callers : Fetch(c) \/ Fetched(c) \/ Answer(c) \/ Answered(c)
    \/ Issue \/ Close \/ Confirm \/ Confirmed

Spec == Init /\ [][Next]_vars

=============================================================================
