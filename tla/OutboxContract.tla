--------------------------- MODULE OutboxContract ---------------------------
(***************************************************************************)
(* What an accepted mention-all message is promised, without jobs, queue,  *)
(* retries, retention and rollbacks: attempts begin while its request is   *)
(* held, one at a time; it has one result, "sent" only if WhatsApp         *)
(* accepted it; and the result, the record of the message and the end of   *)
(* the request are one step.  MentionAll implements this specification.    *)
(***************************************************************************)
EXTENDS Sequences

CONSTANTS Processes, Workers

VARIABLES
    alive,       \* whether the instance exists
    request,     \* request[p]: whether p's request is held
    attempts,    \* attempts[p]: the workers that try to send the message of p
    overlapped,  \* overlapped[p]: p lost the promise of one attempt at a time
    passed,      \* the processes whose message WhatsApp accepted
    answers,     \* answers[p]: the results told
    stored       \* stored[p]: whether the sent message is on record

vars == <<alive, request, attempts, overlapped, passed, answers, stored>>

Init ==
    /\ alive = TRUE
    /\ request = [p \in Processes |-> "none"]
    /\ attempts = [p \in Processes |-> {}]
    /\ overlapped = [p \in Processes |-> FALSE]
    /\ passed = {}
    /\ answers = [p \in Processes |-> <<>>]
    /\ stored = [p \in Processes |-> FALSE]

Accept(p) ==
    /\ alive
    /\ request[p] = "none"
    /\ request' = [request EXCEPT ![p] = "stored"]
    /\ UNCHANGED <<alive, attempts, overlapped, passed, answers, stored>>

Begin(w, p) ==
    /\ request[p] = "stored"
    /\ overlapped[p] \/ attempts[p] = {}
    /\ attempts' = [attempts EXCEPT ![p] = @ \union {w}]
    /\ UNCHANGED <<alive, request, overlapped, passed, answers, stored>>

\* The attempt is given up, or its worker stops: nothing is told of it.
Leave(w, p) ==
    /\ w \in attempts[p]
    /\ attempts' = [attempts EXCEPT ![p] = @ \ {w}]
    /\ UNCHANGED <<alive, request, overlapped, passed, answers, stored>>

Pass(p) ==
    /\ attempts[p] # {}
    /\ passed' = passed \union {p}
    /\ UNCHANGED <<alive, request, attempts, overlapped, answers, stored>>

\* The result is told, and the request ends with it.
Answer(w, p, result) ==
    /\ alive
    /\ w \in attempts[p]
    /\ overlapped[p] \/ answers[p] = <<>>
    /\ result = "sent" => p \in passed
    /\ answers' = [answers EXCEPT ![p] = Append(@, result)]
    /\ stored' = [stored EXCEPT ![p] = @ \/ result = "sent"]
    /\ request' = [request EXCEPT ![p] = "removed"]
    /\ attempts' = [attempts EXCEPT ![p] = @ \ {w}]
    /\ UNCHANGED <<alive, overlapped, passed>>

\* Retention ends the request; an attempt under way may still tell its result.
Abandon(p) ==
    /\ request[p] = "stored"
    /\ request' = [request EXCEPT ![p] = "removed"]
    /\ UNCHANGED <<alive, attempts, overlapped, passed, answers, stored>>

Overlap(p) ==
    /\ overlapped' = [overlapped EXCEPT ![p] = TRUE]
    /\ UNCHANGED <<alive, request, attempts, passed, answers, stored>>

\* The instance goes, and its requests and records with it.
Erase ==
    /\ alive
    /\ alive' = FALSE
    /\ request' = [p \in Processes |-> IF request[p] = "stored" THEN "removed" ELSE request[p]]
    /\ stored' = [p \in Processes |-> FALSE]
    /\ UNCHANGED <<attempts, overlapped, passed, answers>>

Next ==
    \/ \E p \in Processes : Accept(p) \/ Pass(p) \/ Abandon(p) \/ Overlap(p)
    \/ \E w \in Workers, p \in Processes :
         \/ Begin(w, p)
         \/ Leave(w, p)
         \/ \E result \in {"sent", "failed"} : Answer(w, p, result)
    \/ Erase

Spec == Init /\ [][Next]_vars

=============================================================================
