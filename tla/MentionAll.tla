----------------------------- MODULE MentionAll -----------------------------
(***************************************************************************)
(* Mention-all processing (internal/message/processor.go, service.go): the *)
(* snapshot of an accepted message, its message job, which sends it and    *)
(* announces the result, and its retention job, which removes what was     *)
(* abandoned.  A step is one statement, one transaction or one call of     *)
(* WhatsApp.                                                               *)
(*                                                                         *)
(* The queue is external: it hands a job to one worker, again after an     *)
(* error, and again when the worker stopped.  The handler's time limit is  *)
(* to end before the queue hands its job to a second worker; "overlap"     *)
(* says that it may not.                                                   *)
(***************************************************************************)
EXTENDS Naturals, Sequences

CONSTANTS
    Processes,     \* accepted requests; each has a message id of its own
    Workers,
    NoProcess,
    MaxTries,      \* messageProcessingMaxTries
    Disturbances   \* "crash": a worker stops; "overlap": its job is given away early;
                   \* "delete": the instance is deleted

ASSUME ProcessAssumption == NoProcess \notin Processes
ASSUME TriesAssumption == MaxTries \in Nat \ {0}

VARIABLES
    instance,   \* whether the instance's row exists
    snapshot,   \* snapshot[p]: the row of whatsapp_message_jobs
    expired,    \* expired[p]: Retention has passed since p was enqueued
    job,        \* job[p]: the message job
    cleanup,    \* cleanup[p]: the retention job
    run,        \* run[w]: the handler worker w runs
    record,     \* record[p]: the row of whatsapp_messages
    early,      \* history: early[p]: the queue gave p's job away while it ran
    sent,       \* history: how often WhatsApp accepted the message of p
    results     \* history: the results announced by webhook, in turn

vars == <<instance, snapshot, expired, job, cleanup, run, record, early, sent, results>>

JobStates == {"none", "ready", "running", "stalled", "gone"}

\* "check" to "send" are processMentionAllJob; an error leaves it by "failed".
Steps == {"idle", "find", "discard", "check", "prepare", "send", "succeed", "failed",
          "jobs", "remove", "done", "retry"}

\* existing is execution.Existing; final says that the error is not retried.
Runs == [step : Steps, process : Processes \union {NoProcess}, kind : {"message", "cleanup"},
         attempt : 0 .. MaxTries, existing : BOOLEAN, final : BOOLEAN]

TypeOK ==
    /\ instance \in BOOLEAN
    /\ snapshot \in [Processes -> {"none", "stored", "removed"}]
    /\ expired \in [Processes -> BOOLEAN]
    /\ job \in [Processes -> [state : JobStates, attempts : 0 .. MaxTries]]
    /\ cleanup \in [Processes -> JobStates]
    /\ run \in [Workers -> Runs]
    /\ \A w \in Workers : run[w].step # "idle" => run[w].process \in Processes
    /\ record \in [Processes -> BOOLEAN]
    /\ early \in [Processes -> BOOLEAN]
    /\ sent \in [Processes -> Nat]
    /\ results \in [Processes -> Seq({"sent", "failed"})]

Idle == [step |-> "idle", process |-> NoProcess, kind |-> "message",
         attempt |-> 0, existing |-> FALSE, final |-> FALSE]

\* What a worker holds when it takes a job of p up.
Taken(p, kind, attempt) ==
    [step |-> IF kind = "message" THEN "find" ELSE "jobs", process |-> p, kind |-> kind,
     attempt |-> attempt, existing |-> FALSE, final |-> FALSE]

Init ==
    /\ instance = TRUE
    /\ snapshot = [p \in Processes |-> "none"]
    /\ expired = [p \in Processes |-> FALSE]
    /\ job = [p \in Processes |-> [state |-> "none", attempts |-> 0]]
    /\ cleanup = [p \in Processes |-> "none"]
    /\ run = [w \in Workers |-> Idle]
    /\ record = [p \in Processes |-> FALSE]
    /\ early = [p \in Processes |-> FALSE]
    /\ sent = [p \in Processes |-> 0]
    /\ results = [p \in Processes |-> <<>>]

At(w, step) == run[w].step = step

Goto(w, step) == run' = [run EXCEPT ![w].step = step]

Without(p) == [snapshot EXCEPT ![p] = "removed"]

\* DeleteJob, whoever runs the job.
WithoutJob(p) == [job EXCEPT ![p].state = "gone"]

-----------------------------------------------------------------------------
(* enqueue, and the queue (external).                                      *)

\* The snapshot and both jobs, in one transaction.
Enqueue(p) ==
    /\ instance
    /\ snapshot[p] = "none"
    /\ snapshot' = [snapshot EXCEPT ![p] = "stored"]
    /\ job' = [job EXCEPT ![p].state = "ready"]
    /\ cleanup' = [cleanup EXCEPT ![p] = "ready"]
    /\ UNCHANGED <<instance, expired, run, record, early, sent, results>>

\* The queue counts the attempt, and gives a job up that has no try left.
ReserveMessage(w, p) ==
    /\ At(w, "idle")
    /\ job[p].state = "ready"
    /\ IF job[p].attempts < MaxTries
       THEN /\ job' = [job EXCEPT ![p].state = "running", ![p].attempts = @ + 1]
            /\ run' = [run EXCEPT ![w] = Taken(p, "message", job[p].attempts + 1)]
       ELSE /\ job' = WithoutJob(p)
            /\ UNCHANGED run
    /\ UNCHANGED <<instance, snapshot, expired, cleanup, record, early, sent, results>>

\* The retention job is due after Retention and has no limit of attempts.
ReserveCleanup(w, p) ==
    /\ At(w, "idle")
    /\ expired[p]
    /\ cleanup[p] = "ready"
    /\ cleanup' = [cleanup EXCEPT ![p] = "running"]
    /\ run' = [run EXCEPT ![w] = Taken(p, "cleanup", 0)]
    /\ UNCHANGED <<instance, snapshot, expired, job, record, early, sent, results>>

\* The handler's answer: nil deletes the job, an error gives it back.
Settled(state, step) ==
    IF state = "gone" \/ step = "done" THEN "gone" ELSE "ready"

Settle(w) ==
    LET p == run[w].process
        step == run[w].step
    IN
    /\ step \in {"done", "retry"}
    /\ IF run[w].kind = "message"
       THEN /\ job' = [job EXCEPT ![p].state = Settled(@, step)]
            /\ UNCHANGED cleanup
       ELSE /\ cleanup' = [cleanup EXCEPT ![p] = Settled(@, step)]
            /\ UNCHANGED job
    /\ run' = [run EXCEPT ![w] = Idle]
    /\ UNCHANGED <<instance, snapshot, expired, record, early, sent, results>>

Stalled(state) == IF state = "running" THEN "stalled" ELSE state

\* A worker stops: the job waits until its reservation ends.
Crash(w) ==
    LET p == run[w].process IN
    /\ "crash" \in Disturbances
    /\ ~ At(w, "idle")
    /\ IF run[w].kind = "message"
       THEN job' = [job EXCEPT ![p].state = Stalled(@)] /\ UNCHANGED cleanup
       ELSE cleanup' = [cleanup EXCEPT ![p] = Stalled(@)] /\ UNCHANGED job
    /\ run' = [run EXCEPT ![w] = Idle]
    /\ UNCHANGED <<instance, snapshot, expired, record, early, sent, results>>

MessageReservationEnds(p) ==
    /\ job[p].state = "stalled"
    /\ job' = [job EXCEPT ![p].state = "ready"]
    /\ UNCHANGED <<instance, snapshot, expired, cleanup, run, record, early, sent, results>>

CleanupReservationEnds(p) ==
    /\ cleanup[p] = "stalled"
    /\ cleanup' = [cleanup EXCEPT ![p] = "ready"]
    /\ UNCHANGED <<instance, snapshot, expired, job, run, record, early, sent, results>>

\* A run outlives its reservation, and the queue gives its job away.
Overlap(p) ==
    /\ "overlap" \in Disturbances
    /\ job[p].state = "running"
    /\ job' = [job EXCEPT ![p].state = "ready"]
    /\ early' = [early EXCEPT ![p] = TRUE]
    /\ UNCHANGED <<instance, snapshot, expired, cleanup, run, record, sent, results>>

RetentionPasses(p) ==
    /\ snapshot[p] # "none"
    /\ ~ expired[p]
    /\ expired' = [expired EXCEPT ![p] = TRUE]
    /\ UNCHANGED <<instance, snapshot, job, cleanup, run, record, early, sent, results>>

\* The foreign keys cascade to snapshots and messages; the jobs stay.
DeleteInstance ==
    /\ "delete" \in Disturbances
    /\ instance
    /\ instance' = FALSE
    /\ snapshot' = [p \in Processes |-> IF snapshot[p] = "stored" THEN "removed" ELSE snapshot[p]]
    /\ record' = [p \in Processes |-> FALSE]
    /\ UNCHANGED <<expired, job, cleanup, run, early, sent, results>>

-----------------------------------------------------------------------------
(* handle.                                                                 *)

\* No snapshot is no error; an expired one is discarded.
Find(w) ==
    LET p == run[w].process IN
    /\ At(w, "find")
    /\ Goto(w, IF snapshot[p] # "stored" THEN "done"
               ELSE IF expired[p] THEN "discard" ELSE "check")
    /\ UNCHANGED <<instance, snapshot, expired, job, cleanup, record, early, sent, results>>

\* A removal that forgets which process the run is for.
Discard_Resets(w) ==
    LET p == run[w].process IN
    /\ At(w, "discard")
    /\ snapshot' = Without(p)
    /\ job' = WithoutJob(p)
    /\ cleanup' = [cleanup EXCEPT ![p] = "gone"]
    /\ run' = [run EXCEPT ![w] = [Idle EXCEPT !.step = "done"]]
    /\ UNCHANGED <<instance, expired, record, early, sent, results>>

\* removeSnapshotAndJobs.
Discard(w) ==
    LET p == run[w].process IN
    /\ At(w, "discard")
    /\ snapshot' = Without(p)
    /\ job' = WithoutJob(p)
    /\ cleanup' = [cleanup EXCEPT ![p] = "gone"]
    /\ Goto(w, "done")
    /\ UNCHANGED <<instance, expired, record, early, sent, results>>

\* FindByName and FindByKeyIDForInstance: a recorded message is not sent again.
\* A statement fails, there is no such instance, or its name now belongs to
\* another one, which ends the process for good.
CheckRecord(w) ==
    LET p == run[w].process IN
    /\ At(w, "check")
    /\ \/ instance /\ record[p]
          /\ run' = [run EXCEPT ![w].step = "succeed", ![w].existing = TRUE]
       \/ instance /\ ~ record[p] /\ Goto(w, "prepare")
       \/ \E final \in BOOLEAN :
            run' = [run EXCEPT ![w].step = "failed", ![w].final = final]
    /\ UNCHANGED <<instance, snapshot, expired, job, cleanup, record, early, sent, results>>

\* The connected client, the group's participants, presence and delay.
Prepare(w) ==
    /\ At(w, "prepare")
    /\ Goto(w, "send") \/ Goto(w, "failed")
    /\ UNCHANGED <<instance, snapshot, expired, job, cleanup, record, early, sent, results>>

\* A SendMessage whose error is not looked at.
Send_IgnoresError(w) ==
    LET p == run[w].process IN
    /\ At(w, "send")
    /\ Goto(w, "succeed")
    /\ sent' \in {sent, [sent EXCEPT ![p] = @ + 1]}
    /\ UNCHANGED <<instance, snapshot, expired, job, cleanup, record, early, results>>

\* SendMessage; an error does not tell whether WhatsApp accepted the message.
Send(w) ==
    LET p == run[w].process IN
    /\ At(w, "send")
    /\ \/ Goto(w, "succeed") /\ sent' = [sent EXCEPT ![p] = @ + 1]
       \/ Goto(w, "failed") /\ sent' \in {sent, [sent EXCEPT ![p] = @ + 1]}
    /\ UNCHANGED <<instance, snapshot, expired, job, cleanup, record, early, results>>

Announced(p, result) == [results EXCEPT ![p] = Append(@, result)]

\* A success whose record commits by itself.
FinalizeSuccess_InParts(w) ==
    LET p == run[w].process IN
    /\ At(w, "succeed")
    /\ instance /\ (run[w].existing \/ ~ record[p])
    /\ record' = [record EXCEPT ![p] = TRUE]
    /\ \/ /\ results' = Announced(p, "sent")
          /\ cleanup' = [cleanup EXCEPT ![p] = "gone"]
          /\ snapshot' = Without(p)
          /\ Goto(w, "done")
       \/ Goto(w, "retry") /\ UNCHANGED <<results, cleanup, snapshot>>
    /\ UNCHANGED <<instance, expired, job, early, sent>>

\* A success that takes the retention job out before its transaction.
FinalizeSuccess_CleanupFirst(w) ==
    LET p == run[w].process IN
    /\ At(w, "succeed")
    /\ instance /\ (run[w].existing \/ ~ record[p])
    /\ cleanup' = [cleanup EXCEPT ![p] = "gone"]
    /\ \/ /\ record' = [record EXCEPT ![p] = TRUE]
          /\ results' = Announced(p, "sent")
          /\ snapshot' = Without(p)
          /\ Goto(w, "done")
       \/ Goto(w, "retry") /\ UNCHANGED <<results, record, snapshot>>
    /\ UNCHANGED <<instance, expired, job, early, sent>>

\* finalizeSuccess commits; the unique message key refuses a second record.
FinalizeSuccess(w) ==
    LET p == run[w].process IN
    /\ At(w, "succeed")
    /\ instance /\ (run[w].existing \/ ~ record[p])
    /\ record' = [record EXCEPT ![p] = TRUE]
    /\ results' = Announced(p, "sent")
    /\ cleanup' = [cleanup EXCEPT ![p] = "gone"]
    /\ snapshot' = Without(p)
    /\ Goto(w, "done")
    /\ UNCHANGED <<instance, expired, job, early, sent>>

\* It rolls back: the job is tried again, however many attempts it had.
SuccessFails(w) ==
    /\ At(w, "succeed")
    /\ Goto(w, "retry")
    /\ UNCHANGED <<instance, snapshot, expired, job, cleanup, record, early, sent, results>>

IsLast(w) == run[w].final \/ run[w].attempt >= MaxTries

HandlerFails(w) ==
    /\ At(w, "failed")
    /\ ~ IsLast(w)
    /\ Goto(w, "retry")
    /\ UNCHANGED <<instance, snapshot, expired, job, cleanup, record, early, sent, results>>

\* A failure whose webhook is dispatched outside the transaction.
FinalizeFailure_DispatchFirst(w) ==
    LET p == run[w].process IN
    /\ At(w, "failed")
    /\ IsLast(w)
    /\ instance
    /\ results' = Announced(p, "failed")
    /\ \/ /\ cleanup' = [cleanup EXCEPT ![p] = "gone"]
          /\ snapshot' = Without(p)
          /\ Goto(w, "done")
       \/ Goto(w, "retry") /\ UNCHANGED <<cleanup, snapshot>>
    /\ UNCHANGED <<instance, expired, job, record, early, sent>>

\* A failure that leaves the snapshot to the retention job.
FinalizeFailure_KeepsSnapshot(w) ==
    /\ At(w, "failed")
    /\ IsLast(w)
    /\ instance
    /\ results' = Announced(run[w].process, "failed")
    /\ Goto(w, "done")
    /\ UNCHANGED <<instance, snapshot, expired, job, cleanup, record, early, sent>>

\* finalizeFailure commits.
FinalizeFailure(w) ==
    LET p == run[w].process IN
    /\ At(w, "failed")
    /\ IsLast(w)
    /\ instance
    /\ results' = Announced(p, "failed")
    /\ cleanup' = [cleanup EXCEPT ![p] = "gone"]
    /\ snapshot' = Without(p)
    /\ Goto(w, "done")
    /\ UNCHANGED <<instance, expired, job, record, early, sent>>

FailureFails(w) ==
    /\ At(w, "failed")
    /\ IsLast(w)
    /\ Goto(w, "retry")
    /\ UNCHANGED <<instance, snapshot, expired, job, cleanup, record, early, sent, results>>

-----------------------------------------------------------------------------
(* handleCleanup.                                                          *)

FindJobIDs(w) ==
    /\ At(w, "jobs")
    /\ Goto(w, IF snapshot[run[w].process] = "stored" THEN "remove" ELSE "done")
    /\ UNCHANGED <<instance, snapshot, expired, job, cleanup, record, early, sent, results>>

\* A retention job that removes the message job and forgets the snapshot.
RemoveAbandoned_JobOnly(w) ==
    /\ At(w, "remove")
    /\ job' = WithoutJob(run[w].process)
    /\ Goto(w, "done")
    /\ UNCHANGED <<instance, snapshot, expired, cleanup, record, early, sent, results>>

RemoveAbandoned(w) ==
    LET p == run[w].process IN
    /\ At(w, "remove")
    /\ job' = WithoutJob(p)
    /\ snapshot' = Without(p)
    /\ Goto(w, "done")
    /\ UNCHANGED <<instance, expired, cleanup, record, early, sent, results>>

\* A statement of a handler fails outside what is told apart above.
StatementFails(w) ==
    /\ run[w].step \in {"find", "discard", "jobs", "remove"}
    /\ Goto(w, "retry")
    /\ UNCHANGED <<instance, snapshot, expired, job, cleanup, record, early, sent, results>>

HandlerStep(w) ==
    \/ Find(w)
    \/ Discard(w)
    \/ CheckRecord(w)
    \/ Prepare(w)
    \/ Send(w)
    \/ FinalizeSuccess(w)
    \/ SuccessFails(w)
    \/ HandlerFails(w)
    \/ FinalizeFailure(w)
    \/ FailureFails(w)
    \/ FindJobIDs(w)
    \/ RemoveAbandoned(w)
    \/ StatementFails(w)
    \/ Settle(w)

Next ==
    \/ \E p \in Processes :
         \/ Enqueue(p) \/ RetentionPasses(p)
         \/ MessageReservationEnds(p) \/ CleanupReservationEnds(p) \/ Overlap(p)
    \/ \E w \in Workers, p \in Processes : ReserveMessage(w, p) \/ ReserveCleanup(w, p)
    \/ \E w \in Workers : HandlerStep(w) \/ Crash(w)
    \/ DeleteInstance

Spec == Init /\ [][Next]_vars

\* Time passes, reservations end and handlers return; a queue that is drained
\* hands every job out; and a database that is asked again and again does not
\* fail, nor does a worker stop, every time.
Fairness ==
    /\ \A p \in Processes : WF_vars(RetentionPasses(p)) /\ WF_vars(CleanupReservationEnds(p))
    /\ \A w \in Workers : WF_vars(HandlerStep(w))
    /\ \A w \in Workers, p \in Processes :
         /\ SF_vars(ReserveCleanup(w, p))
         /\ SF_vars(run[w].process = p /\ FindJobIDs(w))
         /\ SF_vars(run[w].process = p /\ RemoveAbandoned(w))

FairSpec == Spec /\ Fairness

-----------------------------------------------------------------------------
(* What the processing promises.                                           *)

\* "202 Accepted" is followed by at most one result, although a job is handed
\* out again after a crash between the commit and the queue's own bookkeeping,
\* and although the retention job may run meanwhile (finalizeSuccess,
\* finalizeFailure); two runs of one job at a time are outside this promise.
ResultOnce == \A p \in Processes : ~ early[p] => Len(results[p]) <= 1

\* A message is never sent once its result is out or its record is stored,
\* whichever attempt finds what (handle's Find), if runs do not overlap.
NoSendAfterResult ==
    [][\A p \in Processes :
         ~ early[p] /\ sent'[p] # sent[p] => results[p] = <<>> /\ ~ record[p]]_vars

\* "Persistence, the durable result webhook, and removal of the snapshot and
\* the retention job are committed atomically" (docs/send-messages.md), also
\* when a second attempt overlaps the first.
SuccessIsAtomic ==
    \A p \in Processes :
        /\ record[p] => results[p] # <<>> /\ snapshot[p] = "removed" /\ cleanup[p] = "gone"
        /\ "sent" \in {results[p][i] : i \in DOMAIN results[p]} => record[p] \/ ~ instance

\* A snapshot always has a retention job that has not been given up, whichever
\* of the handlers stopped or rolled back where (removeSnapshotAndJobs).
SnapshotsAreTimed ==
    \A p \in Processes :
        snapshot[p] = "stored" => cleanup[p] \in {"ready", "running", "stalled"}

\* An abandoned snapshot is removed in the end: by its result, or by the
\* retention job, which is tried without limit (handleCleanup).
SnapshotsEnd == \A p \in Processes : snapshot[p] = "stored" ~> snapshot[p] = "removed"

\* The attempt of processMentionAllJob is under way.
AttemptSteps == {"check", "prepare", "send", "succeed", "failed"}

Attempts == [p \in Processes |->
               {w \in Workers : run[w].process = p /\ run[w].step \in AttemptSteps}]

Passed == {p \in Processes : sent[p] > 0}

Contract == INSTANCE OutboxContract WITH
    alive <- instance,
    request <- snapshot,
    attempts <- Attempts,
    overlapped <- early,
    passed <- Passed,
    answers <- results,
    stored <- record

\* Jobs, retries, reservations, retention and rollbacks together keep the
\* promise of OutboxContract: no attempt begins without a request or beside
\* another one, "sent" is told of a message WhatsApp accepted only, and result,
\* record and the end of the request are one step (handle, finalizeSuccess,
\* finalizeFailure, handleCleanup).
KeepsOutboxContract == Contract!Spec

=============================================================================
