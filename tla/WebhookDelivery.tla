-------------------------- MODULE WebhookDelivery --------------------------
(***************************************************************************)
(* The state machine of whatsapp_webhook_deliveries, as sqlDeliveryStore   *)
(* (internal/webhook/repository.go) drives it: Create, Claim, Complete,    *)
(* Fail and Prune, each SQL statement one atomic step, run by any number   *)
(* of queue workers that may stop between two statements.  The job runner  *)
(* and the HTTP POST belong to the host's queue and are external: a worker *)
(* may pick up the job of any created delivery at any time, any number of  *)
(* times, and the POST may end in any way.                                 *)
(***************************************************************************)
EXTENDS Naturals

CONSTANTS
    Deliveries,   \* delivery identifiers
    Workers,      \* queue workers, in any process
    NoDelivery,   \* the delivery of a worker that never had one
    MaxClaims     \* bound: how many claims are ever granted

ASSUME DeliveryAssumption == NoDelivery \notin Deliveries
ASSUME MaxClaimsAssumption == MaxClaims \in Nat

VARIABLES
    row,        \* row[d]: the table row of delivery d
    work,       \* work[w]: what worker w's job knows, between two statements
    lastToken   \* how many claim tokens data.NewID has produced

vars == <<row, work, lastToken>>

NoToken == 0

Statuses == {"absent", "pending", "processing", "delivered", "failed", "removed"}
Leases == {"none", "running", "lapsed"}

\* attempts moves in step with claim_version and is left out.
Rows == [status : Statuses, permanent : BOOLEAN, token : Nat, version : Nat,
         lease : Leases, snapshot : BOOLEAN]

\* "find" and "fence" are the two reads Claim makes after its UPDATE, "refused"
\* the read it makes when the UPDATE matched no row, "check" the read Complete
\* and Fail make when theirs matched none.
Steps == {"idle", "find", "fence", "post", "refused", "check"}
Answers == {"none", "busy", "gone", "lost", "settled", "stale"}

Works == [step : Steps, delivery : Deliveries \union {NoDelivery}, token : Nat,
          version : Nat, snapshot : BOOLEAN, answer : Answers]

TypeOK ==
    /\ row \in [Deliveries -> Rows]
    /\ work \in [Workers -> Works]
    /\ \A w \in Workers : work[w].step # "idle" => work[w].delivery \in Deliveries
    /\ lastToken \in Nat

NoRow(status) ==
    [status |-> status, permanent |-> FALSE, token |-> NoToken, version |-> 0,
     lease |-> "none", snapshot |-> FALSE]

Idle == [step |-> "idle", delivery |-> NoDelivery, token |-> NoToken,
         version |-> 0, snapshot |-> FALSE, answer |-> "none"]

Init ==
    /\ row = [d \in Deliveries |-> NoRow("absent")]
    /\ work = [w \in Workers |-> Idle]
    /\ lastToken = 0

-----------------------------------------------------------------------------
(* Rows and claims.                                                        *)

Stored(r) == r.status \notin {"absent", "removed"}

\* A claim that forgets permanent = FALSE.
Claimable_IgnoresPermanent(r) ==
    /\ Stored(r)
    /\ r.status # "delivered"
    /\ r.lease # "running"

\* The WHERE clause of Claim.
Claimable(r) ==
    /\ Stored(r)
    /\ r.status # "delivered"
    /\ ~ r.permanent
    /\ r.lease # "running"

Claimed(r, token) ==
    [r EXCEPT !.status = "processing", !.token = token, !.version = @ + 1,
              !.lease = "running"]

\* The row Complete writes: the snapshot is erased, a tombstone remains.
Completed(r) ==
    [r EXCEPT !.status = "delivered", !.token = NoToken, !.lease = "none",
              !.snapshot = FALSE]

\* A failure that records a status of its own.
Failed_Retry(r, permanent) ==
    [r EXCEPT !.status = IF permanent THEN "failed" ELSE "retry", !.permanent = permanent,
              !.token = NoToken, !.lease = "none"]

Failed(r, permanent) ==
    [r EXCEPT !.status = "failed", !.permanent = permanent, !.token = NoToken,
              !.lease = "none"]

\* A settlement that trusts the status and forgets the fence.
Current_ByStatus(w) ==
    row[work[w].delivery].status = "processing"

\* The WHERE clause of Complete and Fail: the claim is still the row's.
Current(w) ==
    /\ Stored(row[work[w].delivery])
    /\ row[work[w].delivery].token = work[w].token
    /\ row[work[w].delivery].version = work[w].version

AnswerFor(w, a) ==
    work' = [work EXCEPT ![w] = [Idle EXCEPT !.delivery = work[w].delivery, !.answer = a]]

Goto(w, step) == work' = [work EXCEPT ![w].step = step]

-----------------------------------------------------------------------------
(* The operations.                                                         *)

\* Create: the snapshot and its job commit in one transaction.  A second
\* insert of the same id is ignored, and is not a step.
Create(d) ==
    /\ row[d].status = "absent"
    /\ row' = [row EXCEPT ![d] = [NoRow("pending") EXCEPT !.snapshot = TRUE]]
    /\ UNCHANGED <<work, lastToken>>

\* Claim's UPDATE matches the row.
ClaimRow(w, d) ==
    /\ work[w].step = "idle"
    /\ Claimable(row[d])
    /\ lastToken < MaxClaims
    /\ lastToken' = lastToken + 1
    /\ row' = [row EXCEPT ![d] = Claimed(@, lastToken + 1)]
    /\ work' = [work EXCEPT ![w] = [Idle EXCEPT !.step = "find", !.delivery = d,
                                                !.token = lastToken + 1]]

\* Claim's UPDATE matches no row: the delivery is over, removed, or leased.
ClaimNoRow(w, d) ==
    /\ work[w].step = "idle"
    /\ row[d].status # "absent"
    /\ ~ Claimable(row[d])
    /\ work' = [work EXCEPT ![w] = [Idle EXCEPT !.step = "refused", !.delivery = d]]
    /\ UNCHANGED <<row, lastToken>>

\* Claim then reads the row to tell a finished delivery from a leased one.
ClaimRefused(w) ==
    /\ work[w].step = "refused"
    /\ LET r == row[work[w].delivery]
       IN  AnswerFor(w, IF ~ Stored(r) \/ r.status = "delivered" \/ r.permanent
                        THEN "gone" ELSE "busy")
    /\ UNCHANGED <<row, lastToken>>

\* The first read after a matched UPDATE copies the snapshot into the claim.
FindClaimed(w) ==
    /\ work[w].step = "find"
    /\ LET r == row[work[w].delivery]
       IN  IF Stored(r)
           THEN work' = [work EXCEPT ![w].step = "fence", ![w].snapshot = r.snapshot]
           ELSE AnswerFor(w, "gone")
    /\ UNCHANGED <<row, lastToken>>

\* A fence read that trusts the earlier read and does not ask for the token.
ReadFence_AnyToken(w) ==
    /\ work[w].step = "fence"
    /\ LET r == row[work[w].delivery]
       IN  IF Stored(r)
           THEN work' = [work EXCEPT ![w].step = "post", ![w].version = r.version]
           ELSE AnswerFor(w, "lost")
    /\ UNCHANGED <<row, lastToken>>

\* The second read takes the fence by token; no row means the claim was lost.
ReadFence(w) ==
    /\ work[w].step = "fence"
    /\ LET r == row[work[w].delivery]
       IN  IF Stored(r) /\ r.token = work[w].token
           THEN work' = [work EXCEPT ![w].step = "post", ![w].version = r.version]
           ELSE AnswerFor(w, "lost")
    /\ UNCHANGED <<row, lastToken>>

\* Complete, after a 2xx answer.
Complete(w) ==
    /\ work[w].step = "post"
    /\ IF Current(w)
       THEN /\ row' = [row EXCEPT ![work[w].delivery] = Completed(@)]
            /\ AnswerFor(w, "settled")
       ELSE /\ Goto(w, "check")
            /\ UNCHANGED row
    /\ UNCHANGED lastToken

\* Fail, after any other answer; the delivery engine says which are permanent.
Fail(w) ==
    /\ work[w].step = "post"
    /\ IF Current(w)
       THEN /\ \E permanent \in BOOLEAN :
                 row' = [row EXCEPT ![work[w].delivery] = Failed(@, permanent)]
            /\ AnswerFor(w, "settled")
       ELSE /\ Goto(w, "check")
            /\ UNCHANGED row
    /\ UNCHANGED lastToken

\* requireCurrentClaim: a removed delivery needs no settlement.
CheckClaim(w) ==
    /\ work[w].step = "check"
    /\ AnswerFor(w, IF Stored(row[work[w].delivery]) THEN "stale" ELSE "settled")
    /\ UNCHANGED <<row, lastToken>>

\* Retention (created_at < cutoff) and the instance's cascade both delete rows
\* in whatever state they are.
Prune(S) ==
    /\ S # {}
    /\ \A d \in S : Stored(row[d])
    /\ row' = [d \in Deliveries |-> IF d \in S THEN NoRow("removed") ELSE row[d]]
    /\ UNCHANGED <<work, lastToken>>

\* Time passes lease_until.
LeaseLapses(d) ==
    /\ row[d].lease = "running"
    /\ row' = [row EXCEPT ![d].lease = "lapsed"]
    /\ UNCHANGED <<work, lastToken>>

\* The process dies, or a statement fails, between two statements.
Crash(w) ==
    /\ work[w].step # "idle"
    /\ work' = [work EXCEPT ![w] = Idle]
    /\ UNCHANGED <<row, lastToken>>

JobStep(w) ==
    \/ ClaimRefused(w)
    \/ FindClaimed(w)
    \/ ReadFence(w)
    \/ Complete(w)
    \/ Fail(w)
    \/ CheckClaim(w)
    \/ Crash(w)

Next ==
    \/ \E d \in Deliveries : Create(d) \/ LeaseLapses(d)
    \/ \E w \in Workers, d \in Deliveries : ClaimRow(w, d) \/ ClaimNoRow(w, d)
    \/ \E w \in Workers : JobStep(w)
    \/ \E S \in SUBSET Deliveries : Prune(S)

Spec == Init /\ [][Next]_vars

-----------------------------------------------------------------------------
(* What the operations promise.                                            *)

\* Holds(w, d): w's job has claimed d and nothing has taken it away since.
Holds(w, d) ==
    /\ work[w].step \in {"find", "fence", "post"}
    /\ work[w].delivery = d
    /\ row[d].token = work[w].token

\* A worker never POSTs a snapshot that was already erased: between Claim's
\* UPDATE and its two reads another worker may reclaim the row and complete
\* it, and the fence read has to notice (Claim, Complete).
SnapshotInHand == \A w \in Workers : work[w].step = "post" => work[w].snapshot

\* A job that is told its delivery is gone ends for good, so a delivery one
\* job was told is gone may never become due again (Claim's ErrDeliveryNotFound).
GoneMeansOver ==
    \A w \in Workers :
        work[w].answer = "gone" =>
            LET r == row[work[w].delivery]
            IN  r.status \in {"delivered", "removed"} \/ (r.status = "failed" /\ r.permanent)

\* What the contract sees of the table: a failed attempt leaves the delivery
\* open unless the failure was permanent, and a claim is held until its token
\* leaves the row.
Outcome ==
    [d \in Deliveries |->
        LET r == row[d]
        IN  CASE r.status = "failed" /\ r.permanent -> "refused"
              [] r.status \in {"absent", "delivered", "removed"} -> r.status
              [] OTHER -> "open"]

Holders == [d \in Deliveries |-> {w \in Workers : Holds(w, d)}]

Contract == INSTANCE WebhookContract WITH outcome <- Outcome, holders <- Holders

\* The table implements the contract: one outcome, recorded by the current
\* holder only, whatever a worker whose lease lapsed still tries (Complete and
\* Fail's WHERE clause, requireCurrentClaim).
ImplementsContract == Contract!Spec

=============================================================================
