--------------------------- MODULE MentionAll_proofs ---------------------------
(***************************************************************************)
(* Proofs about mention-all processing, for any number of processes,       *)
(* workers and tries, with any disturbances.                               *)
(***************************************************************************)
EXTENDS MentionAll, TLAPS

\* A run that moves to another step keeps everything else, and so do the others.
LEMMA Moved ==
    ASSUME TypeOK, NEW w \in Workers, NEW s \in Steps, s # "idle", ~ At(w, "idle"), Goto(w, s)
    PROVE  /\ run' \in [Workers -> Runs]
           /\ run'[w] = [run[w] EXCEPT !.step = s]
           /\ run'[w].step = s
           /\ run'[w].process = run[w].process
           /\ run'[w].kind = run[w].kind
           /\ \A v \in Workers : v # w => run'[v] = run[v]
           /\ \A v \in Workers : run'[v].step # "idle" => run'[v].process \in Processes
<1>1. run[w] \in Runs /\ run[w].process \in Processes
  BY DEF TypeOK, At
<1>2. run'[w] = [run[w] EXCEPT !.step = s]
  BY DEF TypeOK, Goto
<1>3. run'[w] \in Runs
  BY <1>1, <1>2 DEF Runs
<1>4. \A v \in Workers : v # w => run'[v] = run[v]
  BY DEF TypeOK, Goto
<1>5. run' \in [Workers -> Runs]
  BY <1>3, <1>4 DEF TypeOK, Goto
<1>6. run'[w].step = s /\ run'[w].process = run[w].process /\ run'[w].kind = run[w].kind
  BY <1>1, <1>2 DEF Runs
<1> QED BY <1>1, <1>2, <1>4, <1>5, <1>6 DEF TypeOK

-----------------------------------------------------------------------------
(* Type correctness.                                                       *)

\* A worker that takes a job up, or has none, has a run of the right shape.
LEMMA RunTypes ==
    /\ Idle \in Runs
    /\ Idle.step = "idle" /\ Idle.kind = "message"
    /\ \A p \in Processes, n \in 0 .. MaxTries, kind \in {"message", "cleanup"} :
         /\ Taken(p, kind, n) \in Runs
         /\ Taken(p, kind, n).step = IF kind = "message" THEN "find" ELSE "jobs"
         /\ Taken(p, kind, n).process = p
         /\ Taken(p, kind, n).kind = kind
BY TriesAssumption DEF Idle, Taken, Runs, Steps

\* What the queue makes of a job's state is a state of a job.
LEMMA JobTypes ==
    \A state \in JobStates : Stalled(state) \in JobStates
                         /\ \A step \in Steps : Settled(state, step) \in JobStates
BY DEF JobStates, Stalled, Settled

\* A job whose state or attempts change is a job; the others stay as they are.
LEMMA JobSet ==
    ASSUME TypeOK, NEW p \in Processes, NEW state \in JobStates, NEW n \in 0 .. MaxTries,
           \/ job' = [job EXCEPT ![p].state = state, ![p].attempts = n]
           \/ job' = [job EXCEPT ![p].state = state]
    PROVE  /\ job' \in [Processes -> [state : JobStates, attempts : 0 .. MaxTries]]
           /\ job'[p].state = state
           /\ \A q \in Processes : q # p => job'[q] = job[q]
<1>1. job[p] \in [state : JobStates, attempts : 0 .. MaxTries]
  BY DEF TypeOK
<1>2. \/ job'[p] = [job[p] EXCEPT !.state = state, !.attempts = n]
      \/ job'[p] = [job[p] EXCEPT !.state = state]
  BY DEF TypeOK
<1>3. /\ job'[p] \in [state : JobStates, attempts : 0 .. MaxTries]
      /\ job'[p].state = state
  BY <1>1, <1>2
<1>4. \A q \in Processes : q # p => job'[q] = job[q]
  BY DEF TypeOK
<1>5. job' = [q \in Processes |-> job'[q]]
  BY DEF TypeOK
<1> QED BY <1>1, <1>3, <1>4, <1>5 DEF TypeOK

\* A state alone may change.
LEMMA JobStateSet ==
    ASSUME TypeOK, NEW p \in Processes, NEW state \in JobStates,
           job' = [job EXCEPT ![p].state = state]
    PROVE  /\ job' \in [Processes -> [state : JobStates, attempts : 0 .. MaxTries]]
           /\ job'[p].state = state
           /\ \A q \in Processes : q # p => job'[q] = job[q]
<1>1. 0 \in 0 .. MaxTries
  BY TriesAssumption
<1> QED BY <1>1, JobSet

\* The first state is of the right shape.
LEMMA InitTypes == Init => TypeOK
<1> SUFFICES ASSUME Init PROVE TypeOK
  OBVIOUS
<1>1. run \in [Workers -> Runs] /\ \A w \in Workers : run[w].step = "idle"
  BY RunTypes DEF Init
<1>2. job \in [Processes -> [state : JobStates, attempts : 0 .. MaxTries]]
  BY TriesAssumption DEF Init, JobStates
<1>3. results \in [Processes -> Seq({"sent", "failed"})] /\ sent \in [Processes -> Nat]
  BY DEF Init
<1> QED BY <1>1, <1>2, <1>3 DEF Init, TypeOK, JobStates

\* No handler, transaction or queue step breaks the shape.
LEMMA NextTypes == TypeOK /\ [Next]_vars => TypeOK'
<1> SUFFICES ASSUME TypeOK, [Next]_vars PROVE TypeOK'
  OBVIOUS
<1>1. ASSUME NEW p \in Processes, Enqueue(p) PROVE TypeOK'
  BY <1>1 DEF Enqueue, TypeOK, JobStates
<1>2. ASSUME NEW p \in Processes, RetentionPasses(p) PROVE TypeOK'
  BY <1>2 DEF RetentionPasses, TypeOK
<1>3. ASSUME NEW p \in Processes, MessageReservationEnds(p) PROVE TypeOK'
  BY <1>3 DEF MessageReservationEnds, TypeOK, JobStates
<1>4. ASSUME NEW p \in Processes, CleanupReservationEnds(p) PROVE TypeOK'
  BY <1>4 DEF CleanupReservationEnds, TypeOK, JobStates
<1>5. ASSUME NEW p \in Processes, Overlap(p) PROVE TypeOK'
  BY <1>5 DEF Overlap, TypeOK, JobStates
<1>6. ASSUME NEW w \in Workers, NEW p \in Processes, ReserveMessage(w, p) PROVE TypeOK'
  <2>1. CASE job[p].attempts < MaxTries
    <3> DEFINE n == job[p].attempts + 1
    <3>1. n \in 0 .. MaxTries
      BY <2>1, TriesAssumption DEF TypeOK
    <3>2. /\ job' = [job EXCEPT ![p].state = "running", ![p].attempts = n]
          /\ run' = [run EXCEPT ![w] = Taken(p, "message", n)]
      BY <1>6, <2>1 DEF ReserveMessage
    <3>3. Taken(p, "message", n) \in Runs /\ Taken(p, "message", n).process = p
      BY <3>1, RunTypes
    <3> HIDE DEF n
    <3>4. job' \in [Processes -> [state : JobStates, attempts : 0 .. MaxTries]]
      BY <3>1, <3>2, JobSet DEF JobStates
    <3>5. /\ run' \in [Workers -> Runs]
          /\ \A v \in Workers : run'[v].step # "idle" => run'[v].process \in Processes
      BY <3>2, <3>3 DEF TypeOK
    <3> QED BY <1>6, <3>4, <3>5 DEF ReserveMessage, TypeOK
  <2>2. CASE ~ (job[p].attempts < MaxTries)
    <3>1. job' \in [Processes -> [state : JobStates, attempts : 0 .. MaxTries]]
      BY <1>6, <2>2, JobSet DEF ReserveMessage, WithoutJob, JobStates, TypeOK
    <3> QED BY <1>6, <2>2, <3>1 DEF ReserveMessage, TypeOK
  <2> QED BY <2>1, <2>2
<1>7. ASSUME NEW w \in Workers, NEW p \in Processes, ReserveCleanup(w, p) PROVE TypeOK'
  <2>1. Taken(p, "cleanup", 0) \in Runs /\ Taken(p, "cleanup", 0).process = p
    BY RunTypes, TriesAssumption
  <2>2. /\ run' \in [Workers -> Runs]
        /\ \A v \in Workers : run'[v].step # "idle" => run'[v].process \in Processes
    BY <1>7, <2>1 DEF ReserveCleanup, TypeOK
  <2>3. cleanup' \in [Processes -> JobStates]
    BY <1>7 DEF ReserveCleanup, TypeOK, JobStates
  <2> QED BY <1>7, <2>2, <2>3 DEF ReserveCleanup, TypeOK
<1>8. ASSUME NEW w \in Workers, Settle(w) \/ Crash(w) PROVE TypeOK'
  <2>1. run' = [run EXCEPT ![w] = Idle]
    BY <1>8 DEF Settle, Crash
  <2>2. /\ run' \in [Workers -> Runs]
        /\ \A v \in Workers : run'[v].step # "idle" => run'[v].process \in Processes
    BY <2>1, RunTypes DEF TypeOK
  <2>3. run[w].step \in Steps /\ run[w].step # "idle" /\ run[w].process \in Processes
    BY <1>8 DEF Settle, Crash, At, TypeOK, Runs
  <2> DEFINE p == run[w].process
  <2>4. cleanup' \in [Processes -> JobStates]
    <3>1. /\ Settled(cleanup[p], run[w].step) \in JobStates
          /\ Stalled(cleanup[p]) \in JobStates
      BY <2>3, JobTypes DEF TypeOK
    <3> QED BY <1>8, <2>3, <3>1 DEF Settle, Crash, TypeOK
  <2>5. job' \in [Processes -> [state : JobStates, attempts : 0 .. MaxTries]]
    <3>1. /\ Settled(job[p].state, run[w].step) \in JobStates
          /\ Stalled(job[p].state) \in JobStates
      BY <2>3, JobTypes DEF TypeOK
    <3>2. \/ job' = [job EXCEPT ![p].state = Settled(job[p].state, run[w].step)]
          \/ job' = [job EXCEPT ![p].state = Stalled(job[p].state)]
          \/ job' = job
      BY <1>8, <2>3 DEF Settle, Crash, TypeOK
    <3>3. 0 \in 0 .. MaxTries
      BY TriesAssumption
    <3> QED BY <2>3, <3>1, <3>2, <3>3, JobSet DEF TypeOK
  <2>6. UNCHANGED <<instance, snapshot, expired, record, early, sent, results>>
    BY <1>8 DEF Settle, Crash
  <2> QED BY <2>2, <2>4, <2>5, <2>6 DEF TypeOK
<1>9. ASSUME DeleteInstance PROVE TypeOK'
  BY <1>9 DEF DeleteInstance, TypeOK
<1>10. ASSUME NEW w \in Workers, HandlerStep(w), ~ Settle(w) PROVE TypeOK'
  <2>1. ~ At(w, "idle") /\ run[w].process \in Processes /\ run[w] \in Runs
    BY <1>10 DEF HandlerStep, Find, Discard, CheckRecord, Prepare, Send, FinalizeSuccess,
                 SuccessFails, HandlerFails, FinalizeFailure, FailureFails, FindJobIDs,
                 RemoveAbandoned, StatementFails, At, TypeOK
  <2>2. /\ run' \in [Workers -> Runs]
        /\ \A v \in Workers : run'[v].step # "idle" => run'[v].process \in Processes
    <3>1. CASE \E s \in Steps : s # "idle" /\ Goto(w, s)
      BY <2>1, <3>1, Moved
    <3>2. CASE run' = [run EXCEPT ![w].step = "succeed", ![w].existing = TRUE]
      <4>1. run'[w] = [run[w] EXCEPT !.step = "succeed", !.existing = TRUE]
        BY <3>2 DEF TypeOK
      <4>2. run'[w] \in Runs /\ run'[w].process = run[w].process
        BY <2>1, <4>1 DEF Runs, Steps
      <4> QED BY <2>1, <3>2, <4>2 DEF TypeOK
    <3>3. CASE \E final \in BOOLEAN :
                 run' = [run EXCEPT ![w].step = "failed", ![w].final = final]
      <4>1. PICK final \in BOOLEAN :
               run' = [run EXCEPT ![w].step = "failed", ![w].final = final]
        BY <3>3
      <4>2. run'[w] = [run[w] EXCEPT !.step = "failed", !.final = final]
        BY <4>1 DEF TypeOK
      <4>3. run'[w] \in Runs /\ run'[w].process = run[w].process
        BY <2>1, <4>2 DEF Runs, Steps
      <4> QED BY <2>1, <4>1, <4>3 DEF TypeOK
    <3> QED BY <1>10, <3>1, <3>2, <3>3
            DEF HandlerStep, Find, Discard, CheckRecord, Prepare, Send, FinalizeSuccess,
                SuccessFails, HandlerFails, FinalizeFailure, FailureFails, FindJobIDs,
                RemoveAbandoned, StatementFails, Steps
  <2> DEFINE p == run[w].process
  <2>3. snapshot' \in [Processes -> {"none", "stored", "removed"}]
    BY <1>10, <2>1 DEF HandlerStep, Find, Discard, CheckRecord, Prepare, Send, FinalizeSuccess,
                SuccessFails, HandlerFails, FinalizeFailure, FailureFails, FindJobIDs,
                RemoveAbandoned, StatementFails, Without, TypeOK
  <2>4. job' \in [Processes -> [state : JobStates, attempts : 0 .. MaxTries]]
    <3>1. job' = job \/ job' = [job EXCEPT ![p].state = "gone"]
      BY <1>10 DEF HandlerStep, Find, Discard, CheckRecord, Prepare, Send, FinalizeSuccess,
                SuccessFails, HandlerFails, FinalizeFailure, FailureFails, FindJobIDs,
                RemoveAbandoned, StatementFails, WithoutJob
    <3>2. 0 \in 0 .. MaxTries
      BY TriesAssumption
    <3> QED BY <2>1, <3>1, <3>2, JobSet DEF JobStates, TypeOK
  <2>5. cleanup' \in [Processes -> JobStates] /\ record' \in [Processes -> BOOLEAN]
    BY <1>10, <2>1 DEF HandlerStep, Find, Discard, CheckRecord, Prepare, Send, FinalizeSuccess,
                SuccessFails, HandlerFails, FinalizeFailure, FailureFails, FindJobIDs,
                RemoveAbandoned, StatementFails, TypeOK, JobStates
  <2>6. sent' \in [Processes -> Nat]
    BY <1>10, <2>1 DEF HandlerStep, Find, Discard, CheckRecord, Prepare, Send, FinalizeSuccess,
                SuccessFails, HandlerFails, FinalizeFailure, FailureFails, FindJobIDs,
                RemoveAbandoned, StatementFails, TypeOK
  <2>7. results' \in [Processes -> Seq({"sent", "failed"})]
    <3>1. \A x \in {"sent", "failed"} :
             Announced(p, x) \in [Processes -> Seq({"sent", "failed"})]
      BY <2>1 DEF Announced, TypeOK
    <3> QED BY <1>10, <3>1
            DEF HandlerStep, Find, Discard, CheckRecord, Prepare, Send, FinalizeSuccess,
                SuccessFails, HandlerFails, FinalizeFailure, FailureFails, FindJobIDs,
                RemoveAbandoned, StatementFails, TypeOK
  <2>8. UNCHANGED <<instance, expired, early>>
    BY <1>10 DEF HandlerStep, Find, Discard, CheckRecord, Prepare, Send, FinalizeSuccess,
                SuccessFails, HandlerFails, FinalizeFailure, FailureFails, FindJobIDs,
                RemoveAbandoned, StatementFails
  <2> QED BY <2>2, <2>3, <2>4, <2>5, <2>6, <2>7, <2>8 DEF TypeOK
<1>11. CASE UNCHANGED vars
  BY <1>11 DEF vars, TypeOK
<1> QED BY <1>1, <1>2, <1>3, <1>4, <1>5, <1>6, <1>7, <1>8, <1>9, <1>10, <1>11 DEF Next, HandlerStep

\* Snapshots, jobs, runs and results keep their shape whatever the queue hands
\* out and whichever worker stops (enqueue, handle, handleCleanup).
THEOREM TypeCorrect == Spec => []TypeOK
BY InitTypes, NextTypes, PTL DEF Spec

-----------------------------------------------------------------------------
(* One result per process.                                                 *)

MessageSteps == {"find", "discard", "check", "prepare", "send", "succeed", "failed"}

\* Worker w runs the message job of p.
On(w, p) == ~ At(w, "idle") /\ run[w].kind = "message" /\ run[w].process = p

\* The kind of a run is known from where it is.
KindKnown ==
    \A w \in Workers :
        /\ run[w].step \in MessageSteps => run[w].kind = "message"
        /\ run[w].step \in {"jobs", "remove"} => run[w].kind = "cleanup"

\* What was never enqueued has no job and no run.
Fresh ==
    \A p \in Processes : snapshot[p] = "none" =>
        /\ job[p].state = "none" /\ cleanup[p] = "none"
        /\ \A w \in Workers : ~ At(w, "idle") => run[w].process # p

\* A job that is never given away early is with one worker, and not on offer.
Alone ==
    \A p \in Processes : ~ early[p] =>
        \A v \in Workers : On(v, p) =>
            /\ job[p].state \in {"running", "gone"}
            /\ \A w \in Workers : On(w, p) => v = w

\* Where the result is out, snapshot and retention job are gone, and the run of
\* the message job is over or has not looked yet.
Over ==
    \A p \in Processes : results[p] # <<>> =>
        /\ snapshot[p] = "removed" /\ cleanup[p] = "gone"
        /\ ~ early[p] => \A w \in Workers : On(w, p) => run[w].step \in {"find", "done", "retry"}

\* A retention run that ends well leaves no snapshot behind.
CleanupEnds ==
    \A w \in Workers :
        run[w].kind = "cleanup" /\ At(w, "done") => snapshot[run[w].process] # "stored"

\* A record is stored with the result only, and goes with the instance only.
Recorded ==
    \A p \in Processes :
        /\ record[p] => results[p] # <<>>
        /\ "sent" \in {results[p][i] : i \in DOMAIN results[p]} => record[p] \/ ~ instance

Inv ==
    /\ TypeOK
    /\ KindKnown
    /\ Fresh
    /\ Alone
    /\ Over
    /\ CleanupEnds
    /\ Recorded
    /\ SnapshotsAreTimed
    /\ ResultOnce

\* Before the first request nothing exists.
LEMMA InitInv == Init => Inv
<1> SUFFICES ASSUME Init PROVE Inv
  OBVIOUS
<1>1. TypeOK
  BY InitTypes
<1>2. \A w \in Workers : At(w, "idle") /\ run[w].kind = "message"
  BY RunTypes DEF Init, At
<1>3. \A p \in Processes : /\ results[p] = <<>> /\ snapshot[p] = "none" /\ ~ record[p]
                          /\ job[p].state = "none" /\ cleanup[p] = "none"
  BY DEF Init
<1>4. KindKnown /\ Fresh /\ Alone /\ Over /\ CleanupEnds
  BY <1>2, <1>3 DEF KindKnown, Fresh, Alone, Over, CleanupEnds, On, At, MessageSteps
<1>5. Recorded /\ SnapshotsAreTimed /\ ResultOnce
  BY <1>3 DEF Recorded, SnapshotsAreTimed, ResultOnce
<1> QED BY <1>1, <1>4, <1>5 DEF Inv

\* A run that moves on without touching tables or jobs keeps the invariant, if
\* the step fits what is known of its process.
LEMMA MoveKeeps ==
    ASSUME Inv, TypeOK', NEW w \in Workers, ~ At(w, "idle"), ~ At(w, "idle")',
           UNCHANGED <<instance, snapshot, job, cleanup, record, early, results>>,
           \A v \in Workers : v # w => run'[v] = run[v],
           run'[w].process = run[w].process, run'[w].kind = run[w].kind,
           run'[w].step \in MessageSteps => run[w].kind = "message",
           run'[w].step \in {"jobs", "remove"} => run[w].kind = "cleanup",
           run[w].kind = "message" /\ ~ early[run[w].process] /\ results[run[w].process] # <<>>
             => run'[w].step \in {"find", "done", "retry"},
           run[w].kind = "cleanup" /\ run'[w].step = "done"
             => snapshot[run[w].process] # "stored"
    PROVE  Inv'
<1>1. \A v \in Workers, p \in Processes : On(v, p)' <=> On(v, p)
  BY DEF On, At
<1>2. KindKnown'
  BY DEF Inv, KindKnown
<1>3. Fresh'
  BY DEF Inv, Fresh, At
<1>4. Alone'
  BY <1>1 DEF Inv, Alone
<1>5. Over'
  <2> SUFFICES ASSUME NEW p \in Processes, results[p] # <<>>, ~ early[p],
                      NEW v \in Workers, On(v, p)
               PROVE  run'[v].step \in {"find", "done", "retry"}
    BY <1>1 DEF Inv, Over
  <2>1. CASE v = w
    BY <2>1 DEF On
  <2>2. CASE v # w
    BY <2>2 DEF Inv, Over
  <2> QED BY <2>1, <2>2
<1>6. CleanupEnds'
  BY DEF Inv, CleanupEnds, At
<1>7. Recorded' /\ SnapshotsAreTimed' /\ ResultOnce'
  BY DEF Inv, Recorded, SnapshotsAreTimed, ResultOnce
<1> QED BY <1>2, <1>3, <1>4, <1>5, <1>6, <1>7 DEF Inv

\* Announcing a result, with all that the transaction does beside it, keeps the
\* invariant: the run is the only one, so there was no result.
LEMMA AnnounceKeeps ==
    ASSUME Inv, TypeOK', NEW w \in Workers, FinalizeSuccess(w) \/ FinalizeFailure(w)
    PROVE  Inv'
<1> DEFINE p == run[w].process
<1>1. /\ run[w].step \in {"succeed", "failed"} /\ run[w].kind = "message"
      /\ p \in Processes /\ On(w, p) /\ instance /\ ~ At(w, "idle")
  BY DEF FinalizeSuccess, FinalizeFailure, At, On, Inv, KindKnown, MessageSteps, TypeOK
<1>2. /\ run'[w].step = "done" /\ run'[w].process = p /\ run'[w].kind = "message"
      /\ \A v \in Workers : v # w => run'[v] = run[v]
  BY <1>1, Moved DEF FinalizeSuccess, FinalizeFailure, Inv, Steps
<1>3. /\ snapshot'[p] = "removed" /\ cleanup'[p] = "gone"
      /\ \A q \in Processes : q # p => snapshot'[q] = snapshot[q] /\ cleanup'[q] = cleanup[q]
      /\ UNCHANGED <<instance, job, early>>
  BY <1>1 DEF FinalizeSuccess, FinalizeFailure, Without, Inv, TypeOK
<1>4. \A q \in Processes : q # p => results'[q] = results[q] /\ record'[q] = record[q]
  BY <1>1 DEF FinalizeSuccess, FinalizeFailure, Announced, Inv, TypeOK
<1>5. \/ results'[p] = Append(results[p], "sent") /\ record'[p]
      \/ results'[p] = Append(results[p], "failed") /\ record'[p] = record[p]
  BY <1>1 DEF FinalizeSuccess, FinalizeFailure, Announced, Inv, TypeOK
<1>6. results[p] \in Seq({"sent", "failed"}) /\ (~ early[p] => results[p] = <<>>)
  BY <1>1 DEF Inv, Over, TypeOK
<1>7. \A v \in Workers, q \in Processes : On(v, q)' <=> On(v, q)
  BY <1>1, <1>2 DEF On, At
<1>8. results'[p] # <<>> /\ (~ early[p] => Len(results'[p]) <= 1)
  BY <1>5, <1>6
<1>9. KindKnown' /\ Fresh' /\ CleanupEnds'
  <2>1. KindKnown'
    BY <1>1, <1>2 DEF Inv, KindKnown, MessageSteps
  <2>2. Fresh'
    BY <1>1, <1>2, <1>3 DEF Inv, Fresh, At
  <2>3. CleanupEnds'
    <3> SUFFICES ASSUME NEW v \in Workers, run'[v].kind = "cleanup", run'[v].step = "done"
                 PROVE  snapshot'[run'[v].process] # "stored"
      BY DEF CleanupEnds, At
    <3>1. v # w /\ run'[v] = run[v] /\ run[v].process \in Processes
      BY <1>2 DEF Inv, TypeOK
    <3>2. snapshot[run[v].process] # "stored"
      BY <3>1 DEF Inv, CleanupEnds, At
    <3> QED BY <1>3, <3>1, <3>2
  <2> QED BY <2>1, <2>2, <2>3
<1>10. Alone'
  BY <1>3, <1>7 DEF Inv, Alone
<1>11. Over'
  <2> SUFFICES ASSUME NEW q \in Processes, results'[q] # <<>>
               PROVE  /\ snapshot'[q] = "removed" /\ cleanup'[q] = "gone"
                      /\ ~ early[q] => \A v \in Workers :
                           On(v, q) => run'[v].step \in {"find", "done", "retry"}
    BY <1>3, <1>7 DEF Over
  <2>1. CASE q = p
    <3>1. \A v \in Workers : ~ early[p] /\ On(v, p) => v = w
      BY <1>1 DEF Inv, Alone
    <3> QED BY <1>2, <1>3, <2>1, <3>1
  <2>2. CASE q # p
    BY <1>1, <1>2, <1>3, <1>4, <2>2 DEF Inv, Over, On
  <2> QED BY <2>1, <2>2
<1>12. Recorded'
  <2> SUFFICES ASSUME NEW q \in Processes
               PROVE  /\ record'[q] => results'[q] # <<>>
                      /\ (\E i \in DOMAIN results'[q] : results'[q][i] = "sent")
                           => record'[q] \/ ~ instance
    BY <1>3 DEF Recorded
  <2>1. CASE q = p
    <3>1. CASE record'[p]
      BY <1>8, <2>1, <3>1
    <3>2. CASE ~ record'[p]
      <4>1. results'[p] = Append(results[p], "failed") /\ ~ record[p]
        BY <1>5, <3>2
      <4>2. \A i \in DOMAIN results[p] : results[p][i] # "sent"
        BY <1>1, <4>1 DEF Inv, Recorded
      <4>3. \A i \in DOMAIN results'[p] : results'[p][i] # "sent"
        BY <1>6, <4>1, <4>2
      <4> QED BY <2>1, <3>2, <4>3
    <3> QED BY <3>1, <3>2
  <2>2. CASE q # p
    BY <1>3, <1>4, <2>2 DEF Inv, Recorded
  <2> QED BY <2>1, <2>2
<1>13. SnapshotsAreTimed' /\ ResultOnce'
  BY <1>3, <1>4, <1>8 DEF Inv, SnapshotsAreTimed, ResultOnce
<1> QED BY <1>9, <1>10, <1>11, <1>12, <1>13 DEF Inv

\* Removing a snapshot, with the jobs that go with it, keeps the invariant.
LEMMA RemovalKeeps ==
    ASSUME Inv, TypeOK', NEW w \in Workers, Discard(w) \/ RemoveAbandoned(w)
    PROVE  Inv'
<1> DEFINE p == run[w].process
<1>1. p \in Processes /\ ~ At(w, "idle") /\ run[w].step \in {"discard", "remove"}
  BY DEF Discard, RemoveAbandoned, At, Inv, TypeOK
<1>2. /\ run'[w].step = "done" /\ run'[w].process = p /\ run'[w].kind = run[w].kind
      /\ \A v \in Workers : v # w => run'[v] = run[v]
  BY <1>1, Moved DEF Discard, RemoveAbandoned, Inv, Steps
<1>3. /\ snapshot'[p] = "removed" /\ cleanup'[p] \in {"gone", cleanup[p]}
      /\ \A q \in Processes : q # p => snapshot'[q] = snapshot[q] /\ cleanup'[q] = cleanup[q]
      /\ UNCHANGED <<instance, early, record, results>>
  BY <1>1 DEF Discard, RemoveAbandoned, Without, Inv, TypeOK
<1>4. job' = [job EXCEPT ![p].state = "gone"]
  BY DEF Discard, RemoveAbandoned, WithoutJob
<1>5. job'[p].state = "gone" /\ \A q \in Processes : q # p => job'[q] = job[q]
  <2>1. 0 \in 0 .. MaxTries
    BY TriesAssumption
  <2> QED BY <1>1, <1>4, <2>1, JobSet DEF JobStates, Inv
<1>6. \A v \in Workers, q \in Processes : On(v, q)' <=> On(v, q)
  BY <1>1, <1>2 DEF On, At
<1>7. KindKnown'
  BY <1>1, <1>2 DEF Inv, KindKnown, MessageSteps
<1>8. Fresh'
  BY <1>1, <1>2, <1>3, <1>5 DEF Inv, Fresh, At
<1>9. CleanupEnds'
  <2> SUFFICES ASSUME NEW v \in Workers, run'[v].kind = "cleanup", run'[v].step = "done"
               PROVE  snapshot'[run'[v].process] # "stored"
    BY DEF CleanupEnds, At
  <2>1. CASE v = w
    BY <1>2, <1>3, <2>1
  <2>2. CASE v # w
    <3>1. run'[v] = run[v] /\ run[v].process \in Processes
      BY <1>2, <2>2 DEF Inv, TypeOK
    <3>2. snapshot[run[v].process] # "stored"
      BY <3>1 DEF Inv, CleanupEnds, At
    <3> QED BY <1>3, <3>1, <3>2
  <2> QED BY <2>1, <2>2
<1>10. Alone'
  BY <1>3, <1>5, <1>6 DEF Inv, Alone
<1>11. Over'
  <2> SUFFICES ASSUME NEW q \in Processes, results[q] # <<>>
               PROVE  /\ snapshot'[q] = "removed" /\ cleanup'[q] = "gone"
                      /\ ~ early[q] => \A v \in Workers :
                           On(v, q) => run'[v].step \in {"find", "done", "retry"}
    BY <1>3, <1>6 DEF Over
  <2>1. snapshot'[q] = "removed" /\ cleanup'[q] = "gone"
    BY <1>3 DEF Inv, Over
  <2>2. ASSUME ~ early[q], NEW v \in Workers, On(v, q)
        PROVE  run'[v].step \in {"find", "done", "retry"}
    BY <1>2, <2>2 DEF Inv, Over
  <2> QED BY <2>1, <2>2
<1>12. Recorded' /\ SnapshotsAreTimed' /\ ResultOnce'
  BY <1>3 DEF Inv, Recorded, SnapshotsAreTimed, ResultOnce
<1> QED BY <1>7, <1>8, <1>9, <1>10, <1>11, <1>12 DEF Inv

\* Every step keeps the invariant.
LEMMA NextInv == Inv /\ [Next]_vars => Inv'
<1> SUFFICES ASSUME Inv, [Next]_vars PROVE Inv'
  OBVIOUS
<1> USE DEF Inv
<1>0. TypeOK' /\ 0 \in 0 .. MaxTries
  BY NextTypes, TriesAssumption
<1>1. ASSUME NEW p \in Processes, Enqueue(p) PROVE Inv'
  <2>1. /\ snapshot'[p] = "stored" /\ cleanup'[p] = "ready"
        /\ \A q \in Processes : q # p => snapshot'[q] = snapshot[q] /\ cleanup'[q] = cleanup[q]
        /\ UNCHANGED <<instance, run, record, early, results>>
    BY <1>1 DEF Enqueue, TypeOK
  <2>2. job'[p].state = "ready" /\ \A q \in Processes : q # p => job'[q] = job[q]
    BY <1>0, <1>1, JobSet DEF Enqueue, JobStates
  <2>3. /\ results[p] = <<>>
        /\ \A v \in Workers : ~ At(v, "idle") => run[v].process # p
    BY <1>1 DEF Enqueue, Fresh, Over
  <2>4. KindKnown' /\ Fresh' /\ Alone' /\ Over' /\ CleanupEnds'
    <3>1. \A v \in Workers : ~ At(v, "idle") => run[v].process \in Processes
      BY DEF TypeOK, At
    <3> QED BY <2>1, <2>2, <2>3, <3>1 DEF KindKnown, Fresh, Alone, Over, CleanupEnds, On, At
  <2>5. Recorded' /\ SnapshotsAreTimed' /\ ResultOnce'
    BY <2>1 DEF Recorded, SnapshotsAreTimed, ResultOnce
  <2> QED BY <1>0, <2>4, <2>5
<1>2. ASSUME NEW p \in Processes, RetentionPasses(p) PROVE Inv'
  BY <1>0, <1>2 DEF RetentionPasses, KindKnown, Fresh, Alone, Over, CleanupEnds, Recorded,
                    SnapshotsAreTimed, ResultOnce, On, At
<1>3. ASSUME NEW p \in Processes, MessageReservationEnds(p) \/ Overlap(p) PROVE Inv'
  <2>1. job[p].state \in {"running", "stalled"} /\ job'[p].state = "ready"
        /\ \A q \in Processes : q # p => job'[q] = job[q]
    BY <1>0, <1>3, JobSet DEF MessageReservationEnds, Overlap, JobStates
  <2>2. UNCHANGED <<instance, snapshot, cleanup, run, record, results>>
    BY <1>3 DEF MessageReservationEnds, Overlap
  <2>3. /\ \A q \in Processes : q # p => early'[q] = early[q]
        /\ early[p] => early'[p]
        /\ job[p].state = "running" => early'[p]
    BY <1>3 DEF MessageReservationEnds, Overlap, TypeOK
  <2>4. KindKnown' /\ Fresh' /\ Over' /\ CleanupEnds'
    BY <2>1, <2>2, <2>3 DEF KindKnown, Fresh, Over, CleanupEnds, On, At
  <2>5. Alone'
    BY <2>1, <2>2, <2>3 DEF Alone, On, At
  <2>6. Recorded' /\ SnapshotsAreTimed' /\ ResultOnce'
    BY <2>2, <2>3 DEF Recorded, SnapshotsAreTimed, ResultOnce
  <2> QED BY <1>0, <2>4, <2>5, <2>6
<1>4. ASSUME NEW p \in Processes, CleanupReservationEnds(p) PROVE Inv'
  <2>1. /\ cleanup[p] = "stalled" /\ cleanup'[p] = "ready"
        /\ \A q \in Processes : q # p => cleanup'[q] = cleanup[q]
        /\ UNCHANGED <<instance, snapshot, job, run, record, early, results>>
    BY <1>4 DEF CleanupReservationEnds, TypeOK
  <2> QED BY <1>0, <2>1 DEF KindKnown, Fresh, Alone, Over, CleanupEnds, Recorded,
                    SnapshotsAreTimed, ResultOnce, On, At
<1>5. ASSUME NEW w \in Workers, NEW p \in Processes, ReserveMessage(w, p) PROVE Inv'
  <2>1. UNCHANGED <<instance, snapshot, cleanup, record, early, results>>
    BY <1>5 DEF ReserveMessage
  <2>2. Recorded' /\ SnapshotsAreTimed' /\ ResultOnce'
    BY <2>1 DEF Recorded, SnapshotsAreTimed, ResultOnce
  <2>3. /\ job[p].state = "ready" /\ job'[p].state \in {"running", "gone"}
        /\ \A q \in Processes : q # p => job'[q] = job[q]
    <3>1. CASE job[p].attempts < MaxTries
      <4>1. job[p].attempts + 1 \in 0 .. MaxTries
        BY <3>1, TriesAssumption DEF TypeOK
      <4>2. job' = [job EXCEPT ![p].state = "running", ![p].attempts = job[p].attempts + 1]
        BY <1>5, <3>1 DEF ReserveMessage
      <4> QED BY <1>5, <4>1, <4>2, JobSet DEF ReserveMessage, JobStates
    <3>2. CASE ~ (job[p].attempts < MaxTries)
      BY <1>0, <1>5, <3>2, JobSet DEF ReserveMessage, WithoutJob, JobStates
    <3> QED BY <3>1, <3>2
  <2>4. /\ snapshot[p] # "none"
        /\ ~ early[p] => \A v \in Workers : ~ On(v, p)
    BY <2>3 DEF Fresh, Alone
  <2>5. CASE UNCHANGED run
    <3>1. KindKnown' /\ Fresh' /\ Over' /\ CleanupEnds'
      BY <2>1, <2>3, <2>4, <2>5 DEF KindKnown, Fresh, Over, CleanupEnds, On, At
    <3>2. Alone'
      BY <2>1, <2>3, <2>4, <2>5 DEF Alone, On, At
    <3> QED BY <1>0, <2>2, <3>1, <3>2
  <2>6. CASE ~ UNCHANGED run
    <3>1. job[p].attempts + 1 \in 0 .. MaxTries
          /\ run' = [run EXCEPT ![w] = Taken(p, "message", job[p].attempts + 1)]
      BY <1>5, <2>6, TriesAssumption DEF ReserveMessage, TypeOK
    <3>2. /\ run'[w].step = "find" /\ run'[w].process = p /\ run'[w].kind = "message"
          /\ \A v \in Workers : v # w => run'[v] = run[v]
      BY <3>1, RunTypes DEF TypeOK
    <3>3. KindKnown' /\ CleanupEnds'
      BY <2>1, <3>2 DEF KindKnown, CleanupEnds, At
    <3>4. Fresh'
      BY <2>1, <2>3, <2>4, <3>2 DEF Fresh, At
    <3>5. Over'
      BY <2>1, <3>2 DEF Over, On, At
    <3>6. Alone'
      BY <2>1, <2>3, <2>4, <3>2 DEF Alone, On, At
    <3> QED BY <1>0, <2>2, <3>3, <3>4, <3>5, <3>6
  <2> QED BY <2>5, <2>6
<1>6. ASSUME NEW w \in Workers, NEW p \in Processes, ReserveCleanup(w, p) PROVE Inv'
  <2>1. /\ cleanup[p] = "ready" /\ cleanup'[p] = "running"
        /\ \A q \in Processes : q # p => cleanup'[q] = cleanup[q]
        /\ UNCHANGED <<instance, snapshot, job, record, early, results>>
    BY <1>6 DEF ReserveCleanup, TypeOK
  <2>2. /\ run'[w].step = "jobs" /\ run'[w].process = p /\ run'[w].kind = "cleanup"
        /\ \A v \in Workers : v # w => run'[v] = run[v]
    BY <1>0, <1>6, RunTypes DEF ReserveCleanup, TypeOK
  <2>3. KindKnown' /\ CleanupEnds'
    BY <2>1, <2>2 DEF KindKnown, CleanupEnds, At, MessageSteps
  <2>4. Fresh'
    BY <2>1, <2>2 DEF Fresh, At
  <2>5. Alone' /\ Over'
    BY <2>1, <2>2 DEF Alone, Over, On, At
  <2>6. Recorded' /\ SnapshotsAreTimed' /\ ResultOnce'
    BY <2>1 DEF Recorded, SnapshotsAreTimed, ResultOnce
  <2> QED BY <1>0, <2>3, <2>4, <2>5, <2>6
<1>7. ASSUME NEW w \in Workers, Settle(w) \/ Crash(w) PROVE Inv'
  <2> DEFINE p == run[w].process
  <2>1. /\ run'[w].step = "idle" /\ run'[w].kind = "message"
        /\ \A v \in Workers : v # w => run'[v] = run[v]
    BY <1>7, RunTypes DEF Settle, Crash, TypeOK
  <2>2. p \in Processes /\ ~ At(w, "idle") /\ run[w].step \in Steps
    BY <1>7 DEF Settle, Crash, At, TypeOK, Runs
  <2>3. UNCHANGED <<instance, snapshot, record, early, results>>
    BY <1>7 DEF Settle, Crash
  <2>4. Recorded' /\ ResultOnce'
    BY <2>3 DEF Recorded, ResultOnce
  <2>5. KindKnown' /\ CleanupEnds'
    BY <2>1, <2>3 DEF KindKnown, CleanupEnds, At, MessageSteps
  <2>6. snapshot[p] # "none"
    BY <2>2 DEF Fresh
  <2>7. CASE run[w].kind = "message"
    <3>1. UNCHANGED cleanup
      BY <1>7, <2>7 DEF Settle, Crash
    <3>2. /\ job'[p].state \in {Settled(job[p].state, run[w].step), Stalled(job[p].state)}
          /\ \A q \in Processes : q # p => job'[q] = job[q]
      <4>1. /\ Settled(job[p].state, run[w].step) \in JobStates
            /\ Stalled(job[p].state) \in JobStates
        BY <2>2, JobTypes DEF TypeOK
      <4>2. \/ job' = [job EXCEPT ![p].state = Settled(job[p].state, run[w].step)]
            \/ job' = [job EXCEPT ![p].state = Stalled(job[p].state)]
        BY <1>7, <2>2, <2>7 DEF Settle, Crash, TypeOK
      <4>3. CASE job' = [job EXCEPT ![p].state = Settled(job[p].state, run[w].step)]
        BY <1>0, <2>2, <4>1, <4>3, JobStateSet
      <4>4. CASE job' = [job EXCEPT ![p].state = Stalled(job[p].state)]
        BY <1>0, <2>2, <4>1, <4>4, JobStateSet
      <4> QED BY <4>2, <4>3, <4>4
    <3>3. \A v \in Workers, q \in Processes : On(v, q)' => On(v, q) /\ v # w
      BY <2>1 DEF On, At
    <3>4. On(w, p)
      BY <2>2, <2>7 DEF On
    <3>5. Alone'
      <4> SUFFICES ASSUME NEW q \in Processes, ~ early[q], NEW v \in Workers, On(v, q)'
                   PROVE  /\ job'[q].state \in {"running", "gone"}
                          /\ \A u \in Workers : On(u, q)' => v = u
        BY <2>3 DEF Alone
      <4>1. On(v, q) /\ v # w
        BY <3>3
      <4>2. /\ job[q].state \in {"running", "gone"}
            /\ \A u \in Workers : On(u, q) => v = u
        BY <4>1 DEF Alone
      <4>3. q # p
        BY <3>4, <4>1, <4>2
      <4> QED BY <3>2, <3>3, <4>2, <4>3
    <3>6. Fresh'
      BY <2>1, <2>3, <2>6, <3>1, <3>2 DEF Fresh, At
    <3>7. Over'
      BY <2>1, <2>3, <3>1, <3>3 DEF Over
    <3>8. SnapshotsAreTimed'
      BY <2>3, <3>1 DEF SnapshotsAreTimed
    <3> QED BY <1>0, <2>4, <2>5, <3>5, <3>6, <3>7, <3>8
  <2>8. CASE run[w].kind # "message"
    <3>1. UNCHANGED job /\ run[w].kind = "cleanup"
      BY <1>7, <2>8 DEF Settle, Crash, TypeOK, Runs
    <3>2. /\ \A q \in Processes : q # p => cleanup'[q] = cleanup[q]
          /\ \/ run[w].step = "done" /\ cleanup'[p] = "gone"
             \/ cleanup'[p] \in {"gone", "ready"} /\ (cleanup'[p] = "gone" <=> cleanup[p] = "gone")
             \/ cleanup'[p] = Stalled(cleanup[p])
      BY <1>7, <2>2, <2>8 DEF Settle, Crash, Settled, TypeOK
    <3>3. \A v \in Workers, q \in Processes : On(v, q)' <=> On(v, q)
      BY <2>1, <2>8 DEF On, At
    <3>4. SnapshotsAreTimed'
      <4>1. run[w].step = "done" => snapshot[p] # "stored"
        BY <3>1 DEF CleanupEnds, At
      <4> QED BY <2>3, <3>2, <4>1 DEF SnapshotsAreTimed, Stalled
    <3>5. Fresh'
      BY <2>1, <2>3, <2>6, <3>1, <3>2 DEF Fresh, At
    <3>6. Alone'
      BY <2>3, <3>1, <3>3 DEF Alone
    <3>7. Over'
      <4>1. \A q \in Processes : cleanup[q] = "gone" => cleanup'[q] = "gone"
        BY <3>2 DEF Stalled
      <4>2. \A v \in Workers, q \in Processes : On(v, q) => run'[v] = run[v]
        BY <2>1, <2>8 DEF On
      <4> QED BY <2>3, <3>3, <4>1, <4>2 DEF Over
    <3> QED BY <1>0, <2>4, <2>5, <3>4, <3>5, <3>6, <3>7
  <2> QED BY <2>7, <2>8
<1>8. ASSUME DeleteInstance PROVE Inv'
  <2>1. job' = job /\ cleanup' = cleanup /\ run' = run /\ early' = early /\ results' = results
        /\ ~ instance'
    BY <1>8 DEF DeleteInstance
  <2>2. \A q \in Processes : ~ record'[q]
    BY <1>8 DEF DeleteInstance
  <2>3. \A q \in Processes :
          /\ snapshot'[q] = "none" => snapshot[q] = "none"
          /\ snapshot[q] = "removed" => snapshot'[q] = "removed"
          /\ snapshot'[q] # "stored"
    BY <1>8 DEF DeleteInstance, TypeOK
  <2>4. KindKnown' /\ Fresh' /\ Alone' /\ Over'
    <3>1. KindKnown' /\ Alone'
      BY <2>1 DEF KindKnown, Alone, On, At
    <3>2. Fresh'
      BY <2>1, <2>3 DEF Fresh, At
    <3>3. Over'
      BY <2>1, <2>3 DEF Over, On, At
    <3> QED BY <3>1, <3>2, <3>3
  <2>5. CleanupEnds'
    <3>1. \A v \in Workers : At(v, "done") => run[v].process \in Processes
      BY DEF TypeOK, At
    <3> QED BY <2>1, <2>3, <3>1 DEF CleanupEnds, At
  <2>6. Recorded'
    BY <2>1, <2>2 DEF Recorded
  <2>7. SnapshotsAreTimed' /\ ResultOnce'
    BY <2>1, <2>3 DEF SnapshotsAreTimed, ResultOnce
  <2> QED BY <1>0, <2>4, <2>5, <2>6, <2>7
<1>9. ASSUME NEW w \in Workers, HandlerStep(w), ~ Settle(w),
             ~ FinalizeSuccess(w), ~ FinalizeFailure(w), ~ Discard(w), ~ RemoveAbandoned(w)
      PROVE  Inv'
  <2> DEFINE p == run[w].process
  <2>1. p \in Processes /\ ~ At(w, "idle")
    BY <1>9 DEF HandlerStep, Find, CheckRecord, Prepare, Send, SuccessFails, HandlerFails,
                FailureFails, FindJobIDs, StatementFails, At, TypeOK
  <2>2. UNCHANGED <<instance, snapshot, job, cleanup, record, early, results>>
    BY <1>9 DEF HandlerStep, Find, CheckRecord, Prepare, Send, SuccessFails, HandlerFails,
                FailureFails, FindJobIDs, StatementFails
  <2>3. \/ \E s \in {"done", "discard", "check"} :
              /\ At(w, "find") /\ Goto(w, s)
              /\ s # "done" => snapshot[p] = "stored"
        \/ \E s \in Steps : /\ run[w].step \in {"check", "prepare", "send", "succeed", "failed"}
                           /\ s \in {"prepare", "send", "succeed", "failed", "retry"}
                           /\ \/ Goto(w, s)
                              \/ run' = [run EXCEPT ![w].step = s, ![w].existing = TRUE]
                              \/ \E final \in BOOLEAN :
                                   run' = [run EXCEPT ![w].step = s, ![w].final = final]
        \/ \E s \in {"remove", "done"} :
              At(w, "jobs") /\ Goto(w, s) /\ (s = "done" => snapshot[p] # "stored")
        \/ run[w].step \in {"find", "discard", "jobs", "remove"} /\ Goto(w, "retry")
    <3>1. CASE Find(w)
      <4>1. At(w, "find")
            /\ Goto(w, IF snapshot[p] # "stored" THEN "done"
                       ELSE IF expired[p] THEN "discard" ELSE "check")
        BY <3>1 DEF Find
      <4>2. CASE snapshot[p] # "stored"
        BY <4>1, <4>2
      <4>3. CASE snapshot[p] = "stored" /\ expired[p]
        BY <4>1, <4>3
      <4>4. CASE snapshot[p] = "stored" /\ ~ expired[p]
        BY <4>1, <4>4
      <4> QED BY <4>2, <4>3, <4>4
    <3>2. CASE CheckRecord(w)
      BY <3>2 DEF CheckRecord, At, Steps
    <3>3. CASE Prepare(w) \/ Send(w)
      BY <3>3 DEF Prepare, Send, At, Steps
    <3>4. CASE SuccessFails(w) \/ HandlerFails(w) \/ FailureFails(w)
      BY <3>4 DEF SuccessFails, HandlerFails, FailureFails, At, Steps
    <3>5. CASE FindJobIDs(w)
      BY <3>5 DEF FindJobIDs
    <3>6. CASE StatementFails(w)
      BY <3>6 DEF StatementFails
    <3> QED BY <1>9, <3>1, <3>2, <3>3, <3>4, <3>5, <3>6 DEF HandlerStep
  <2>4. /\ run'[w].process = p /\ run'[w].kind = run[w].kind
        /\ \A v \in Workers : v # w => run'[v] = run[v]
        /\ \/ /\ run[w].step = "find" /\ run'[w].step \in {"done", "discard", "check"}
              /\ run'[w].step # "done" => snapshot[p] = "stored"
           \/ /\ run[w].step \in {"check", "prepare", "send", "succeed", "failed"}
              /\ run'[w].step \in {"prepare", "send", "succeed", "failed", "retry"}
           \/ /\ run[w].step = "jobs" /\ run'[w].step \in {"remove", "done"}
              /\ run'[w].step = "done" => snapshot[p] # "stored"
           \/ /\ run[w].step \in {"find", "discard", "jobs", "remove"}
              /\ run'[w].step = "retry"
    <3>1. run[w] \in Runs
      BY DEF TypeOK
    <3>2. ASSUME NEW s \in Steps,
                 \/ Goto(w, s)
                 \/ run' = [run EXCEPT ![w].step = s, ![w].existing = TRUE]
                 \/ \E final \in BOOLEAN :
                      run' = [run EXCEPT ![w].step = s, ![w].final = final]
          PROVE  /\ run'[w].step = s /\ run'[w].process = p /\ run'[w].kind = run[w].kind
                 /\ \A v \in Workers : v # w => run'[v] = run[v]
      <4>1. \/ run'[w] = [run[w] EXCEPT !.step = s]
            \/ run'[w] = [run[w] EXCEPT !.step = s, !.existing = TRUE]
            \/ \E final \in BOOLEAN : run'[w] = [run[w] EXCEPT !.step = s, !.final = final]
        BY <3>2 DEF Goto, TypeOK
      <4>2. \A v \in Workers : v # w => run'[v] = run[v]
        BY <3>2 DEF Goto, TypeOK
      <4>3. run'[w].step = s /\ run'[w].process = p /\ run'[w].kind = run[w].kind
        BY <3>1, <4>1 DEF Runs
      <4> QED BY <4>2, <4>3
    <3> QED BY <2>3, <3>2 DEF At, Steps
  <2>5. ~ At(w, "idle")'
    BY <2>4 DEF At
  <2>6. run[w].step \in MessageSteps => run[w].kind = "message"
    BY DEF KindKnown
  <2>7. run[w].step \in {"jobs", "remove"} => run[w].kind = "cleanup"
    BY DEF KindKnown
  <2>8. run'[w].step \in MessageSteps => run[w].kind = "message"
    BY <2>4, <2>6 DEF MessageSteps
  <2>9. run'[w].step \in {"jobs", "remove"} => run[w].kind = "cleanup"
    BY <2>4, <2>7
  <2>10. run[w].kind = "message" /\ ~ early[p] /\ results[p] # <<>>
           => run'[w].step \in {"find", "done", "retry"}
    <3>1. run[w].kind = "message" /\ ~ early[p] /\ results[p] # <<>>
            => run[w].step \in {"find", "done", "retry"} /\ snapshot[p] = "removed"
      BY <2>1 DEF Over, On
    <3> QED BY <2>4, <3>1
  <2>11. run[w].kind = "cleanup" /\ run'[w].step = "done" => snapshot[p] # "stored"
    BY <2>4, <2>6 DEF MessageSteps
  <2> HIDE DEF Inv
  <2> QED BY <1>0, <2>1, <2>2, <2>4, <2>5, <2>8, <2>9, <2>10, <2>11, MoveKeeps
<1>10. ASSUME NEW w \in Workers,
              FinalizeSuccess(w) \/ FinalizeFailure(w) \/ Discard(w) \/ RemoveAbandoned(w)
       PROVE  Inv'
  <2> HIDE DEF Inv
  <2> QED BY <1>0, <1>10, AnnounceKeeps, RemovalKeeps
<1>11. CASE UNCHANGED vars
  BY <1>0, <1>11 DEF vars, KindKnown, Fresh, Alone, Over, CleanupEnds, Recorded,
                     SnapshotsAreTimed, ResultOnce, On, At
<1> HIDE DEF Inv
<1> QED BY <1>1, <1>2, <1>3, <1>4, <1>5, <1>6, <1>7, <1>8, <1>9, <1>10, <1>11
        DEF Next, HandlerStep

\* Whatever the queue hands out again, and whichever worker stops where: a
\* process has one result (unless two workers run its job at a time), a stored
\* record has its result and no snapshot beside it, and a snapshot has its
\* retention job (enqueue, finalizeSuccess, finalizeFailure, handleCleanup).
THEOREM ProcessingSafe == Spec => [](ResultOnce /\ SuccessIsAtomic /\ SnapshotsAreTimed)
<1>1. Inv => ResultOnce /\ SuccessIsAtomic /\ SnapshotsAreTimed
  BY DEF Inv, Recorded, Over, SuccessIsAtomic
<1> QED BY <1>1, InitInv, NextInv, PTL DEF Spec

\* No attempt sends a message whose result is out or whose record is stored,
\* if its job is never given away early (handle's Find and CheckRecord).
THEOREM NothingSentAgain == Spec => NoSendAfterResult
<1> DEFINE Sends == \A p \in Processes :
                      ~ early[p] /\ sent'[p] # sent[p] => results[p] = <<>> /\ ~ record[p]
<1>1. Inv /\ [Next]_vars => [Sends]_vars
  <2> SUFFICES ASSUME Inv, [Next]_vars, NEW p \in Processes, ~ early[p], sent'[p] # sent[p]
               PROVE  results[p] = <<>> /\ ~ record[p]
    OBVIOUS
  <2>1. PICK w \in Workers : Send(w)
    BY DEF Next, HandlerStep, vars, Enqueue, RetentionPasses, MessageReservationEnds,
           CleanupReservationEnds, Overlap, ReserveMessage, ReserveCleanup, Crash,
           DeleteInstance, Find, Discard, CheckRecord, Prepare, FinalizeSuccess,
           SuccessFails, HandlerFails, FinalizeFailure, FailureFails, FindJobIDs,
           RemoveAbandoned, StatementFails, Settle
  <2>2. run[w].process = p
    BY <2>1 DEF Send, Inv, TypeOK
  <2>3. On(w, p) /\ At(w, "send")
    BY <2>1, <2>2 DEF Send, On, At, Inv, KindKnown, MessageSteps
  <2>4. results[p] = <<>>
    BY <2>3 DEF Inv, Over, At
  <2> QED BY <2>4 DEF Inv, Recorded
<1> QED BY <1>1, InitInv, NextInv, PTL DEF Spec, NoSendAfterResult

-----------------------------------------------------------------------------
(* The outbox contract.                                                    *)

\* Who is about to tell a success has had the message accepted, or has read its
\* record; and a message on record was accepted.
Accepted ==
    /\ \A w \in Workers : At(w, "succeed") => sent[run[w].process] > 0
    /\ \A p \in Processes : record[p] => sent[p] > 0

\* What WhatsApp has accepted stays accepted.
LEMMA AcceptedStays ==
    ASSUME Inv, [Next]_vars, NEW p \in Processes
    PROVE  sent[p] > 0 => sent'[p] > 0
<1>1. sent \in [Processes -> Nat]
  BY DEF Inv, TypeOK
<1>2. CASE \E w \in Workers : Send(w)
  <2>1. PICK w \in Workers : Send(w)
    BY <1>2
  <2>2. sent' = sent \/ sent' = [sent EXCEPT ![run[w].process] = @ + 1]
    BY <2>1 DEF Send
  <2> QED BY <1>1, <2>2
<1>3. CASE ~ \E w \in Workers : Send(w)
  BY <1>3 DEF Next, HandlerStep, vars, Enqueue, RetentionPasses, MessageReservationEnds,
         CleanupReservationEnds, Overlap, ReserveMessage, ReserveCleanup, Crash,
         DeleteInstance, Find, Discard, CheckRecord, Prepare, FinalizeSuccess,
         SuccessFails, HandlerFails, FinalizeFailure, FailureFails, FindJobIDs,
         RemoveAbandoned, StatementFails, Settle
<1> QED BY <1>2, <1>3

\* A step moves one worker at most.
LEMMA OneMoves ==
    ASSUME Inv, [Next]_vars, NEW w \in Workers, run'[w] # run[w]
    PROVE  /\ \A v \in Workers : v # w => run'[v] = run[v]
           /\ \/ HandlerStep(w) \/ Crash(w)
              \/ \E p \in Processes : ReserveMessage(w, p) \/ ReserveCleanup(w, p)
<1>1. PICK v \in Workers :
         \/ HandlerStep(v) \/ Crash(v)
         \/ \E p \in Processes : ReserveMessage(v, p) \/ ReserveCleanup(v, p)
  BY DEF Next, vars, Enqueue, RetentionPasses, MessageReservationEnds,
         CleanupReservationEnds, Overlap, DeleteInstance
<1>2. run \in [Workers -> Runs]
  BY DEF Inv, TypeOK
<1>3. \A u \in Workers : u # v => run'[u] = run[u]
  BY <1>1, <1>2 DEF HandlerStep, Goto, ReserveMessage, ReserveCleanup, Crash, Find, Discard,
         CheckRecord, Prepare, Send, FinalizeSuccess, SuccessFails, HandlerFails,
         FinalizeFailure, FailureFails, FindJobIDs, RemoveAbandoned, StatementFails, Settle
<1>4. v = w
  BY <1>3
<1> QED BY <1>1, <1>3, <1>4

\* No message is accepted, recorded or about to be announced before the first.
LEMMA InitAccepted == Init => Accepted
BY RunTypes DEF Init, Accepted, At

\* Whoever comes to announce a success has just sent, or has read the record.
LEMMA NextAccepted == Inv /\ Accepted /\ [Next]_vars => Accepted'
<1> SUFFICES ASSUME Inv, Accepted, [Next]_vars PROVE Accepted'
  OBVIOUS
<1>1. TypeOK /\ TypeOK'
  BY NextTypes DEF Inv
<1>2. ASSUME NEW w \in Workers, At(w, "succeed")' PROVE sent'[run'[w].process] > 0
  <2>1. CASE run'[w] = run[w]
    <3>1. At(w, "succeed") /\ run[w].process \in Processes
      BY <1>1, <1>2, <2>1 DEF At, TypeOK
    <3> QED BY <2>1, <3>1, AcceptedStays DEF Accepted
  <2>2. CASE run'[w] # run[w]
    <3> DEFINE p == run[w].process
    <3>1. CheckRecord(w) \/ Send(w)
      <4>1. \/ HandlerStep(w) \/ Crash(w)
            \/ \E q \in Processes : ReserveMessage(w, q) \/ ReserveCleanup(w, q)
        BY <2>2, OneMoves
      <4>2. run'[w].step = "succeed"
        BY <1>2 DEF At
      <4>3. ASSUME NEW q \in Processes, ReserveMessage(w, q) \/ ReserveCleanup(w, q)
            PROVE  FALSE
        <5> DEFINE n == job[q].attempts + 1
        <5>0. job[q].attempts < MaxTries => n \in 0 .. MaxTries
          BY <1>1, TriesAssumption DEF TypeOK
        <5>1. \/ n \in 0 .. MaxTries /\ run' = [run EXCEPT ![w] = Taken(q, "message", n)]
              \/ run' = [run EXCEPT ![w] = Taken(q, "cleanup", 0)]
          BY <2>2, <4>3, <5>0 DEF ReserveMessage, ReserveCleanup
        <5> HIDE DEF n
        <5>2. \/ n \in 0 .. MaxTries /\ run'[w] = Taken(q, "message", n)
              \/ run'[w] = Taken(q, "cleanup", 0)
          BY <1>1, <5>1 DEF TypeOK
        <5>3. 0 \in 0 .. MaxTries
          BY TriesAssumption
        <5> QED BY <4>2, <5>2, <5>3, RunTypes
      <4>4. ASSUME Settle(w) \/ Crash(w) PROVE FALSE
        BY <1>1, <4>2, <4>4, RunTypes DEF Settle, Crash, TypeOK
      <4>5. ASSUME NEW s \in Steps \ {"idle", "succeed"}, ~ At(w, "idle"), Goto(w, s)
            PROVE  FALSE
        BY <1>1, <4>2, <4>5, Moved
      <4>6. ASSUME Find(w) \/ FindJobIDs(w) PROVE FALSE
        <5>1. Goto(w, "done") \/ Goto(w, "discard") \/ Goto(w, "check") \/ Goto(w, "remove")
          BY <4>6 DEF Find, FindJobIDs
        <5>2. ~ At(w, "idle")
          BY <4>6 DEF Find, FindJobIDs, At
        <5> QED BY <4>5, <5>1, <5>2 DEF Steps
      <4>7. ASSUME Discard(w) \/ Prepare(w) \/ FinalizeSuccess(w) \/ SuccessFails(w)
                   \/ HandlerFails(w) \/ FinalizeFailure(w) \/ FailureFails(w)
                   \/ RemoveAbandoned(w) \/ StatementFails(w)
            PROVE  FALSE
        <5>1. Goto(w, "done") \/ Goto(w, "send") \/ Goto(w, "failed") \/ Goto(w, "retry")
          BY <4>7 DEF Discard, Prepare, FinalizeSuccess, SuccessFails, HandlerFails,
                 FinalizeFailure, FailureFails, RemoveAbandoned, StatementFails
        <5>2. ~ At(w, "idle")
          BY <4>7 DEF Discard, Prepare, FinalizeSuccess, SuccessFails, HandlerFails,
                 FinalizeFailure, FailureFails, RemoveAbandoned, StatementFails, At
        <5> QED BY <4>5, <5>1, <5>2 DEF Steps
      <4> QED BY <4>1, <4>3, <4>4, <4>6, <4>7 DEF HandlerStep
    <3>2. p \in Processes /\ run[w] \in Runs
      BY <1>1, <3>1 DEF CheckRecord, Send, At, TypeOK
    <3>3. CASE CheckRecord(w)
      <4>1. CASE Goto(w, "prepare")
        BY <1>1, <1>2, <3>3, <4>1, Moved DEF CheckRecord, At, Steps
      <4>2. CASE \E final \in BOOLEAN :
                    run' = [run EXCEPT ![w].step = "failed", ![w].final = final]
        <5>1. PICK final \in BOOLEAN :
                 run' = [run EXCEPT ![w].step = "failed", ![w].final = final]
          BY <4>2
        <5>2. run'[w] = [run[w] EXCEPT !.step = "failed", !.final = final]
          BY <1>1, <5>1 DEF TypeOK
        <5> QED BY <1>2, <3>2, <5>2 DEF At, Runs
      <4>3. CASE record[p] /\ run' = [run EXCEPT ![w].step = "succeed", ![w].existing = TRUE]
        <5>1. run'[w] = [run[w] EXCEPT !.step = "succeed", !.existing = TRUE]
          BY <1>1, <4>3 DEF TypeOK
        <5>2. run'[w].process = p
          BY <3>2, <5>1 DEF Runs
        <5> QED BY <3>2, <4>3, <5>2, AcceptedStays DEF Accepted
      <4> QED BY <3>3, <4>1, <4>2, <4>3 DEF CheckRecord
    <3>4. CASE Send(w)
      <4>1. ~ At(w, "idle")
        BY <3>4 DEF Send, At
      <4>2. CASE Goto(w, "failed")
        BY <1>1, <1>2, <4>1, <4>2, Moved DEF At, Steps
      <4>3. CASE Goto(w, "succeed") /\ sent' = [sent EXCEPT ![p] = @ + 1]
        <5>1. run'[w].process = p
          BY <1>1, <4>1, <4>3, Moved DEF Steps
        <5>2. sent'[p] > 0
          BY <1>1, <3>2, <4>3 DEF TypeOK
        <5> QED BY <5>1, <5>2
      <4> QED BY <3>4, <4>2, <4>3 DEF Send
    <3> QED BY <3>1, <3>3, <3>4
  <2> QED BY <2>1, <2>2
<1>3. ASSUME NEW p \in Processes, record'[p] PROVE sent'[p] > 0
  <2>1. CASE record[p]
    BY <2>1, AcceptedStays DEF Accepted
  <2>2. CASE ~ record[p]
    <3>1. PICK w \in Workers : FinalizeSuccess(w)
      BY <1>3, <2>2
         DEF Next, HandlerStep, vars, Enqueue, RetentionPasses, MessageReservationEnds,
             CleanupReservationEnds, Overlap, ReserveMessage, ReserveCleanup, Crash,
             DeleteInstance, Find, Discard, CheckRecord, Prepare, Send,
             SuccessFails, HandlerFails, FinalizeFailure, FailureFails, FindJobIDs,
             RemoveAbandoned, StatementFails, Settle
    <3>2. At(w, "succeed") /\ run[w].process = p
      BY <1>1, <1>3, <2>2, <3>1 DEF FinalizeSuccess, TypeOK
    <3> QED BY <3>2, AcceptedStays DEF Accepted
  <2> QED BY <2>1, <2>2
<1> QED BY <1>2, <1>3 DEF Accepted

\* What a step may be to the contract.
Promised ==
    \/ Contract!Next
    \/ UNCHANGED <<instance, snapshot, Attempts, early, Passed, results, record>>

\* A worker that moves begins an attempt, leaves one, or does neither.
LEMMA AttemptsMove ==
    ASSUME TypeOK, NEW w \in Workers, \A v \in Workers : v # w => run'[v] = run[v],
           \/ run'[w].step \notin AttemptSteps
           \/ run'[w].process = run[w].process /\ run[w].process \in Processes
    PROVE  /\ (run[w].step \in AttemptSteps <=> run'[w].step \in AttemptSteps)
                => Attempts' = Attempts
           /\ run[w].step \notin AttemptSteps /\ run'[w].step \in AttemptSteps
                => Attempts' = [Attempts EXCEPT ![run[w].process] = @ \union {w}]
           /\ run[w].step \in AttemptSteps /\ run'[w].step \notin AttemptSteps
                => /\ w \in Attempts[run[w].process]
                   /\ Attempts' = [Attempts EXCEPT ![run[w].process] = @ \ {w}]
<1> DEFINE p == run[w].process
<1>1. run[w].step \in AttemptSteps => p \in Processes
  BY DEF TypeOK, AttemptSteps
<1>2. ASSUME run[w].step \in AttemptSteps <=> run'[w].step \in AttemptSteps
      PROVE  Attempts' = Attempts
  <2>1. \A q \in Processes, v \in Workers :
           (run'[v].process = q /\ run'[v].step \in AttemptSteps)
             <=> (run[v].process = q /\ run[v].step \in AttemptSteps)
    BY <1>2
  <2>2. \A q \in Processes :
           {v \in Workers : run'[v].process = q /\ run'[v].step \in AttemptSteps}
             = {v \in Workers : run[v].process = q /\ run[v].step \in AttemptSteps}
    BY <2>1
  <2> QED BY <2>2 DEF Attempts
<1>3. ASSUME run[w].step \notin AttemptSteps, run'[w].step \in AttemptSteps
      PROVE  Attempts' = [Attempts EXCEPT ![p] = @ \union {w}]
  <2>1. \A q \in Processes :
           {v \in Workers : run'[v].process = q /\ run'[v].step \in AttemptSteps}
             = IF q = p THEN Attempts[p] \union {w} ELSE Attempts[q]
    BY <1>3 DEF Attempts
  <2>2. Attempts' = [q \in Processes |-> IF q = p THEN Attempts[p] \union {w} ELSE Attempts[q]]
    BY <2>1 DEF Attempts
  <2> QED BY <2>2 DEF Attempts
<1>4. ASSUME run[w].step \in AttemptSteps, run'[w].step \notin AttemptSteps
      PROVE  /\ w \in Attempts[p]
             /\ Attempts' = [Attempts EXCEPT ![p] = @ \ {w}]
  <2>1. \A q \in Processes :
           {v \in Workers : run'[v].process = q /\ run'[v].step \in AttemptSteps}
             = IF q = p THEN Attempts[p] \ {w} ELSE Attempts[q]
    BY <1>1, <1>4 DEF Attempts
  <2>2. w \in Attempts[p]
    BY <1>1, <1>4 DEF Attempts
  <2>3. Attempts' = [q \in Processes |-> IF q = p THEN Attempts[p] \ {w} ELSE Attempts[q]]
    BY <2>1 DEF Attempts
  <2> QED BY <2>2, <2>3 DEF Attempts
<1> QED BY <1>2, <1>3, <1>4

\* Before the first request the contract's first state holds.
LEMMA OutboxInitially == Init => Contract!Init
<1> SUFFICES ASSUME Init PROVE Contract!Init
  OBVIOUS
<1>1. \A w \in Workers : run[w].step = "idle"
  BY RunTypes DEF Init
<1>2. Attempts = [p \in Processes |-> {}]
  BY <1>1 DEF Attempts, AttemptSteps
<1>3. Passed = {}
  <2>1. \A p \in Processes : sent[p] = 0
    BY DEF Init
  <2> QED BY <2>1 DEF Passed
<1> QED BY <1>2, <1>3 DEF Init, Contract!Init

\* What the queue and the passing of time do is no step of the contract, but
\* for a run that stops, which leaves its attempt.
LEMMA QueuePromises ==
    ASSUME Inv, TypeOK', NEW w \in Workers,
           \/ \E p \in Processes : ReserveMessage(w, p) \/ ReserveCleanup(w, p)
           \/ Settle(w)
           \/ Crash(w)
    PROVE  Promised
<1>1. TypeOK
  BY DEF Inv
<1>2. UNCHANGED <<instance, snapshot, early, sent, results, record>>
  BY DEF ReserveMessage, ReserveCleanup, Settle, Crash
<1>3. UNCHANGED Passed
  BY <1>2 DEF Passed
<1>4. CASE UNCHANGED run
  BY <1>2, <1>3, <1>4 DEF Promised, Attempts
<1>5. CASE ~ UNCHANGED run
  <2>1. /\ \A v \in Workers : v # w => run'[v] = run[v]
        /\ run'[w].step \in {"idle", "find", "jobs"}
    <3>1. ASSUME NEW p \in Processes, ReserveMessage(w, p)
          PROVE  \E r \in {Taken(p, "message", n) : n \in 0 .. MaxTries} :
                    run' = [run EXCEPT ![w] = r]
      <4>1. job[p].attempts + 1 \in 0 .. MaxTries
        BY <1>1, <1>5, <3>1, TriesAssumption DEF ReserveMessage, TypeOK
      <4> QED BY <1>5, <3>1, <4>1 DEF ReserveMessage
    <3>2. ASSUME NEW p \in Processes, ReserveCleanup(w, p)
          PROVE  run' = [run EXCEPT ![w] = Taken(p, "cleanup", 0)]
      BY <3>2 DEF ReserveCleanup
    <3>3. ASSUME Settle(w) \/ Crash(w) PROVE run' = [run EXCEPT ![w] = Idle]
      BY <3>3 DEF Settle, Crash
    <3>4. \E r : run' = [run EXCEPT ![w] = r] /\ r.step \in {"idle", "find", "jobs"}
      BY <3>1, <3>2, <3>3, RunTypes, TriesAssumption
    <3> QED BY <1>1, <3>4 DEF TypeOK
  <2>2. run'[w].step \notin AttemptSteps
    BY <2>1 DEF AttemptSteps
  <2>3. CASE run[w].step \notin AttemptSteps
    <3>1. UNCHANGED Attempts
      BY <1>1, <2>1, <2>2, <2>3, AttemptsMove
    <3> QED BY <1>2, <1>3, <3>1 DEF Promised
  <2>4. CASE run[w].step \in AttemptSteps
    <3> DEFINE p == run[w].process
    <3>1. p \in Processes
      BY <1>1, <2>4 DEF TypeOK, AttemptSteps
    <3>2. w \in Attempts[p] /\ Attempts' = [Attempts EXCEPT ![p] = @ \ {w}]
      BY <1>1, <2>1, <2>2, <2>4, AttemptsMove
    <3>3. Contract!Leave(w, p)
      BY <1>2, <1>3, <3>2 DEF Contract!Leave
    <3> QED BY <3>1, <3>3 DEF Promised, Contract!Next
  <2> QED BY <2>3, <2>4
<1> QED BY <1>4, <1>5

\* A handler that reads, fails or gives up begins an attempt, leaves one, or is
\* no step of the contract; an attempt begins where the request is held.
LEMMA WalkPromises ==
    ASSUME Inv, NEW w \in Workers,
           \/ Find(w) \/ CheckRecord(w) \/ Prepare(w) \/ SuccessFails(w) \/ HandlerFails(w)
           \/ FailureFails(w) \/ FindJobIDs(w) \/ StatementFails(w)
    PROVE  Promised
<1> DEFINE p == run[w].process
<1>1. TypeOK /\ p \in Processes /\ ~ At(w, "idle") /\ run[w] \in Runs
  BY DEF Inv, TypeOK, At, Find, CheckRecord, Prepare, SuccessFails, HandlerFails,
         FailureFails, FindJobIDs, StatementFails
<1>2. UNCHANGED <<instance, snapshot, early, sent, results, record>>
  BY DEF Find, CheckRecord, Prepare, SuccessFails, HandlerFails,
         FailureFails, FindJobIDs, StatementFails
<1>3. UNCHANGED Passed
  BY <1>2 DEF Passed
<1>4. /\ \A v \in Workers : v # w => run'[v] = run[v]
      /\ run'[w].process = p
      /\ \/ run[w].step = "find" /\ run'[w].step = "check" /\ snapshot[p] = "stored"
         \/ run[w].step \in AttemptSteps /\ run'[w].step \in AttemptSteps
         \/ run'[w].step \notin AttemptSteps
  <2>1. ASSUME NEW s \in Steps, s # "idle", Goto(w, s)
        PROVE  /\ \A v \in Workers : v # w => run'[v] = run[v]
               /\ run'[w].process = p /\ run'[w].step = s
    BY <1>1, <2>1, Moved
  <2>2. CASE Find(w)
    <3>1. \/ Goto(w, "done") \/ Goto(w, "discard")
          \/ Goto(w, "check") /\ snapshot[p] = "stored"
      BY <2>2 DEF Find
    <3> QED BY <2>1, <2>2, <3>1 DEF Find, At, AttemptSteps, Steps
  <2>3. CASE CheckRecord(w)
    <3>1. \/ Goto(w, "prepare")
          \/ run' = [run EXCEPT ![w].step = "succeed", ![w].existing = TRUE]
          \/ \E final \in BOOLEAN : run' = [run EXCEPT ![w].step = "failed", ![w].final = final]
      BY <2>3 DEF CheckRecord
    <3>2. \/ Goto(w, "prepare")
          \/ run'[w] = [run[w] EXCEPT !.step = "succeed", !.existing = TRUE]
          \/ \E final \in BOOLEAN : run'[w] = [run[w] EXCEPT !.step = "failed", !.final = final]
      BY <1>1, <3>1 DEF TypeOK
    <3>3. \A v \in Workers : v # w => run'[v] = run[v]
      BY <1>1, <3>1 DEF TypeOK, Goto
    <3>4. run'[w].process = p /\ run'[w].step \in AttemptSteps
      BY <1>1, <2>1, <3>2 DEF Runs, AttemptSteps, Steps
    <3> QED BY <2>3, <3>3, <3>4 DEF CheckRecord, At, AttemptSteps
  <2>4. CASE Prepare(w)
    BY <2>1, <2>4 DEF Prepare, At, AttemptSteps, Steps
  <2>5. CASE ~ Find(w) /\ ~ CheckRecord(w) /\ ~ Prepare(w)
    <3>1. Goto(w, "retry") \/ Goto(w, "done") \/ Goto(w, "remove")
      BY <2>5 DEF SuccessFails, HandlerFails, FailureFails, FindJobIDs, StatementFails
    <3> QED BY <2>1, <3>1 DEF AttemptSteps, Steps
  <2> QED BY <2>2, <2>3, <2>4, <2>5
<1>5. CASE run[w].step = "find" /\ run'[w].step = "check" /\ snapshot[p] = "stored"
  <2>1. Attempts' = [Attempts EXCEPT ![p] = @ \union {w}]
    BY <1>1, <1>4, <1>5, AttemptsMove DEF AttemptSteps
  <2>2. early[p] \/ Attempts[p] = {}
    <3> SUFFICES ASSUME ~ early[p], NEW v \in Workers, run[v].process = p,
                        run[v].step \in AttemptSteps
                 PROVE  FALSE
      BY <1>1 DEF Attempts
    <3>1. On(v, p) /\ On(w, p)
      BY <1>5 DEF On, At, AttemptSteps, Inv, KindKnown, MessageSteps
    <3>2. v = w
      BY <1>1, <3>1 DEF Inv, Alone
    <3> QED BY <1>5, <3>2 DEF AttemptSteps
  <2>3. Contract!Begin(w, p)
    BY <1>2, <1>3, <1>5, <2>1, <2>2 DEF Contract!Begin
  <2> QED BY <1>1, <2>3 DEF Promised, Contract!Next
<1>6. CASE run[w].step \in AttemptSteps /\ run'[w].step \notin AttemptSteps
  <2>1. w \in Attempts[p] /\ Attempts' = [Attempts EXCEPT ![p] = @ \ {w}]
    BY <1>1, <1>4, <1>6, AttemptsMove
  <2>2. Contract!Leave(w, p)
    BY <1>2, <1>3, <2>1 DEF Contract!Leave
  <2> QED BY <1>1, <2>2 DEF Promised, Contract!Next
<1>7. CASE run[w].step \in AttemptSteps <=> run'[w].step \in AttemptSteps
  <2>1. UNCHANGED Attempts
    BY <1>1, <1>4, <1>7, AttemptsMove
  <2> QED BY <1>2, <1>3, <2>1 DEF Promised
<1> QED BY <1>4, <1>5, <1>6, <1>7

\* SendMessage hands the message to WhatsApp within an attempt.
LEMMA SendPromises ==
    ASSUME Inv, NEW w \in Workers, Send(w)
    PROVE  Promised
<1> DEFINE p == run[w].process
<1>1. TypeOK /\ p \in Processes /\ ~ At(w, "idle") /\ run[w].step = "send"
  BY DEF Inv, TypeOK, At, Send
<1>2. UNCHANGED <<instance, snapshot, early, results, record>>
  BY DEF Send
<1>3. /\ run'[w].process = p /\ run'[w].step \in AttemptSteps
      /\ \A v \in Workers : v # w => run'[v] = run[v]
  BY <1>1, Moved DEF Send, AttemptSteps, Steps
<1>4. UNCHANGED Attempts /\ w \in Attempts[p]
  <2>1. UNCHANGED Attempts
    BY <1>1, <1>3, AttemptsMove DEF AttemptSteps
  <2>2. w \in Attempts[p]
    BY <1>1 DEF Attempts, AttemptSteps
  <2> QED BY <2>1, <2>2
<1>5. CASE sent' = sent
  BY <1>2, <1>4, <1>5 DEF Promised, Passed
<1>6. CASE sent' = [sent EXCEPT ![p] = @ + 1]
  <2>1. /\ sent'[p] > 0
        /\ \A q \in Processes : q # p => sent'[q] = sent[q]
    BY <1>1, <1>6 DEF TypeOK
  <2>2. Passed' = Passed \union {p}
    BY <1>1, <2>1 DEF Passed
  <2>3. Contract!Pass(p)
    BY <1>2, <1>4, <2>2 DEF Contract!Pass
  <2> QED BY <1>1, <2>3 DEF Promised, Contract!Next
<1> QED BY <1>5, <1>6 DEF Send

\* Retention ends a request that is still held.
LEMMA RemovalPromises ==
    ASSUME Inv, NEW w \in Workers, Discard(w) \/ RemoveAbandoned(w)
    PROVE  Promised
<1> DEFINE p == run[w].process
<1>1. /\ TypeOK /\ p \in Processes /\ ~ At(w, "idle")
      /\ run[w].step \in {"discard", "remove"}
  BY DEF Inv, TypeOK, At, Discard, RemoveAbandoned
<1>2. UNCHANGED <<instance, early, results, record, sent>> /\ Goto(w, "done")
  BY DEF Discard, RemoveAbandoned
<1>3. UNCHANGED Passed
  BY <1>2 DEF Passed
<1>4. UNCHANGED Attempts
  <2>1. run'[w].step = "done" /\ \A v \in Workers : v # w => run'[v] = run[v]
    BY <1>1, <1>2, Moved DEF Steps
  <2> QED BY <1>1, <2>1, AttemptsMove DEF AttemptSteps
<1>5. snapshot' = [snapshot EXCEPT ![p] = "removed"]
  BY DEF Discard, RemoveAbandoned, Without
<1>6. CASE snapshot[p] = "stored"
  <2>1. Contract!Abandon(p)
    BY <1>2, <1>3, <1>4, <1>5, <1>6 DEF Contract!Abandon
  <2> QED BY <1>1, <2>1 DEF Promised, Contract!Next
<1>7. CASE snapshot[p] # "stored"
  <2>1. snapshot[p] = "removed"
    BY <1>1, <1>7 DEF Inv, Fresh, TypeOK
  <2>2. UNCHANGED snapshot
    BY <1>1, <1>5, <2>1 DEF TypeOK
  <2> QED BY <1>2, <1>3, <1>4, <2>2 DEF Promised
<1> QED BY <1>6, <1>7

\* The transaction of finalizeSuccess or finalizeFailure is the contract's answer.
LEMMA AnswerPromises ==
    ASSUME Inv, Accepted, NEW w \in Workers, FinalizeSuccess(w) \/ FinalizeFailure(w)
    PROVE  Promised
<1> DEFINE p == run[w].process
<1>1. /\ TypeOK /\ p \in Processes /\ ~ At(w, "idle") /\ instance
      /\ run[w].step \in {"succeed", "failed"}
  BY DEF Inv, TypeOK, At, FinalizeSuccess, FinalizeFailure
<1>2. /\ UNCHANGED <<instance, early, sent>> /\ Goto(w, "done")
      /\ snapshot' = [snapshot EXCEPT ![p] = "removed"]
  BY DEF FinalizeSuccess, FinalizeFailure, Without
<1>3. UNCHANGED Passed
  BY <1>2 DEF Passed
<1>4. w \in Attempts[p] /\ Attempts' = [Attempts EXCEPT ![p] = @ \ {w}]
  <2>1. run'[w].step = "done" /\ \A v \in Workers : v # w => run'[v] = run[v]
    BY <1>1, <1>2, Moved DEF Steps
  <2> QED BY <1>1, <2>1, AttemptsMove DEF AttemptSteps
<1>5. early[p] \/ results[p] = <<>>
  <2>1. On(w, p) /\ run[w].step \notin {"find", "done", "retry"}
    BY <1>1 DEF On, At, Inv, KindKnown, MessageSteps
  <2> QED BY <1>1, <2>1 DEF Inv, Over
<1>6. CASE FinalizeSuccess(w)
  <2>1. p \in Passed
    BY <1>1, <1>6 DEF FinalizeSuccess, Accepted, Passed
  <2>2. results' = [results EXCEPT ![p] = Append(@, "sent")]
    BY <1>6 DEF FinalizeSuccess, Announced
  <2>3. record' = [record EXCEPT ![p] = @ \/ "sent" = "sent"]
    BY <1>6 DEF FinalizeSuccess
  <2>4. Contract!Answer(w, p, "sent")
    BY <1>1, <1>2, <1>3, <1>4, <1>5, <2>1, <2>2, <2>3 DEF Contract!Answer
  <2> QED BY <1>1, <2>4 DEF Promised, Contract!Next
<1>7. CASE FinalizeFailure(w)
  <2>1. results' = [results EXCEPT ![p] = Append(@, "failed")] /\ record' = record
    BY <1>7 DEF FinalizeFailure, Announced
  <2>2. record' = [record EXCEPT ![p] = @ \/ "failed" = "sent"]
    <3>1. record = [record EXCEPT ![p] = @]
      BY <1>1 DEF TypeOK
    <3>2. (record[p] \/ "failed" = "sent") = record[p]
      BY <1>1 DEF TypeOK
    <3> QED BY <2>1, <3>1, <3>2
  <2>3. Contract!Answer(w, p, "failed")
    BY <1>1, <1>2, <1>3, <1>4, <1>5, <2>1, <2>2 DEF Contract!Answer
  <2> QED BY <1>1, <2>3 DEF Promised, Contract!Next
<1> QED BY <1>6, <1>7

\* Every step is a step of the contract, or none.
LEMMA NextPromises == Inv /\ Accepted /\ [Next]_vars => Promised
<1> SUFFICES ASSUME Inv, Accepted, [Next]_vars PROVE Promised
  OBVIOUS
<1>1. TypeOK /\ TypeOK'
  BY NextTypes DEF Inv
<1>2. ASSUME NEW p \in Processes, Enqueue(p) PROVE Promised
  <2>1. UNCHANGED <<instance, Attempts, early, Passed, results, record>>
    BY <1>2 DEF Enqueue, Attempts, Passed
  <2>2. Contract!Accept(p)
    BY <1>2, <2>1 DEF Enqueue, Contract!Accept
  <2> QED BY <2>2 DEF Promised, Contract!Next
<1>3. ASSUME NEW p \in Processes,
             RetentionPasses(p) \/ MessageReservationEnds(p) \/ CleanupReservationEnds(p)
      PROVE  Promised
  BY <1>3 DEF RetentionPasses, MessageReservationEnds, CleanupReservationEnds, Promised,
              Attempts, Passed
<1>4. ASSUME NEW p \in Processes, Overlap(p) PROVE Promised
  <2>1. UNCHANGED <<instance, snapshot, Attempts, Passed, results, record>>
    BY <1>4 DEF Overlap, Attempts, Passed
  <2>2. Contract!Overlap(p)
    BY <1>4, <2>1 DEF Overlap, Contract!Overlap
  <2> QED BY <2>2 DEF Promised, Contract!Next
<1>5. ASSUME DeleteInstance PROVE Promised
  <2>1. UNCHANGED <<Attempts, early, Passed, results>>
    BY <1>5 DEF DeleteInstance, Attempts, Passed
  <2>2. Contract!Erase
    BY <1>5, <2>1 DEF DeleteInstance, Contract!Erase
  <2> QED BY <2>2 DEF Promised, Contract!Next
<1>6. ASSUME NEW w \in Workers, HandlerStep(w) PROVE Promised
  BY <1>1, <1>6, QueuePromises, WalkPromises, SendPromises, RemovalPromises, AnswerPromises
     DEF HandlerStep
<1>7. ASSUME NEW w \in Workers,
             Crash(w) \/ \E p \in Processes : ReserveMessage(w, p) \/ ReserveCleanup(w, p)
      PROVE  Promised
  BY <1>1, <1>7, QueuePromises
<1>8. CASE UNCHANGED vars
  BY <1>8 DEF vars, Promised, Attempts, Passed
<1> QED BY <1>2, <1>3, <1>4, <1>5, <1>6, <1>7, <1>8 DEF Next

\* For any processes, workers and tries, and with any disturbances, the
\* handlers, the queue and retention implement the outbox contract: one attempt
\* at a time and only for a held request, "sent" only of a message that WhatsApp
\* accepted, and result, record and the end of the request in one step.
THEOREM KeepsContract == Spec => KeepsOutboxContract
<1>1. Promised => [Contract!Next]_(Contract!vars)
  BY DEF Promised, Contract!vars
<1>2. Init => Inv /\ Accepted /\ Contract!Init
  BY InitInv, InitAccepted, OutboxInitially
<1>3. Inv /\ Accepted /\ [Next]_vars => Inv' /\ Accepted' /\ Promised
  BY NextInv, NextAccepted, NextPromises
<1> QED BY <1>1, <1>2, <1>3, PTL DEF Spec, KeepsOutboxContract, Contract!Spec

-----------------------------------------------------------------------------
(* What the contract gives the receiver of a result.                       *)

\* A result that says "sent" is true.
SuccessIsTrue ==
    \A p \in Processes : \A i \in DOMAIN results[p] : results[p][i] = "sent" => p \in Passed

\* A result, once told, is the result of that request: later ones only follow.
ResultsAreKept ==
    [][\A p \in Processes : \A i \in DOMAIN results[p] :
         i \in DOMAIN results'[p] /\ results'[p][i] = results[p][i]]_vars

\* A step the contract allows tells at most one more result, a true one.
LEMMA PromisedResults ==
    ASSUME TypeOK, Promised, NEW p \in Processes
    PROVE  /\ Passed \subseteq Passed'
           /\ \/ results'[p] = results[p]
              \/ \E result \in {"sent", "failed"} :
                   /\ results'[p] = Append(results[p], result)
                   /\ result = "sent" => p \in Passed
<1>0. results \in [Processes -> Seq({"sent", "failed"})]
  BY DEF TypeOK
<1>1. CASE UNCHANGED <<instance, snapshot, Attempts, early, Passed, results, record>>
  BY <1>1
<1>2. ASSUME NEW q \in Processes,
             Contract!Accept(q) \/ Contract!Pass(q) \/ Contract!Abandon(q) \/ Contract!Overlap(q)
      PROVE  Passed \subseteq Passed' /\ results'[p] = results[p]
  BY <1>2 DEF Contract!Accept, Contract!Pass, Contract!Abandon, Contract!Overlap
<1>3. ASSUME NEW w \in Workers, NEW q \in Processes, Contract!Begin(w, q) \/ Contract!Leave(w, q)
      PROVE  Passed \subseteq Passed' /\ results'[p] = results[p]
  BY <1>3 DEF Contract!Begin, Contract!Leave
<1>4. ASSUME NEW w \in Workers, NEW q \in Processes, NEW result \in {"sent", "failed"},
             Contract!Answer(w, q, result)
      PROVE  /\ Passed \subseteq Passed'
             /\ \/ results'[p] = results[p]
                \/ /\ results'[p] = Append(results[p], result)
                   /\ result = "sent" => p \in Passed
  BY <1>0, <1>4 DEF Contract!Answer
<1>5. CASE Contract!Erase
  BY <1>5 DEF Contract!Erase
<1> QED BY <1>1, <1>2, <1>3, <1>4, <1>5 DEF Promised, Contract!Next

\* So what was told stays told, and what is told is true.
LEMMA ResultsNext ==
    ASSUME TypeOK, Promised, SuccessIsTrue
    PROVE  /\ SuccessIsTrue'
           /\ \A p \in Processes : \A i \in DOMAIN results[p] :
                i \in DOMAIN results'[p] /\ results'[p][i] = results[p][i]
<1> SUFFICES ASSUME NEW p \in Processes
             PROVE  /\ \A i \in DOMAIN results'[p] : results'[p][i] = "sent" => p \in Passed'
                    /\ \A i \in DOMAIN results[p] :
                         i \in DOMAIN results'[p] /\ results'[p][i] = results[p][i]
  BY DEF SuccessIsTrue
<1>0. results[p] \in Seq({"sent", "failed"})
  BY DEF TypeOK
<1>1. Passed \subseteq Passed' /\ \A i \in DOMAIN results[p] : results[p][i] = "sent" => p \in Passed
  BY PromisedResults DEF SuccessIsTrue
<1>2. CASE results'[p] = results[p]
  BY <1>1, <1>2
<1>3. ASSUME NEW result \in {"sent", "failed"}, results'[p] = Append(results[p], result),
             result = "sent" => p \in Passed
      PROVE  /\ \A i \in DOMAIN results'[p] : results'[p][i] = "sent" => p \in Passed'
             /\ \A i \in DOMAIN results[p] :
                  i \in DOMAIN results'[p] /\ results'[p][i] = results[p][i]
  <2>1. /\ DOMAIN results'[p] = 1 .. (Len(results[p]) + 1)
        /\ DOMAIN results[p] = 1 .. Len(results[p])
        /\ Len(results[p]) \in Nat
        /\ \A i \in 1 .. Len(results[p]) : results'[p][i] = results[p][i]
        /\ results'[p][Len(results[p]) + 1] = result
    BY <1>0, <1>3
  <2> QED BY <1>1, <1>3, <2>1
<1> QED BY <1>2, <1>3, PromisedResults

\* Whatever is retried, crashes, overlaps or rolls back: "sent" is told of a
\* message that WhatsApp accepted only, and no result is taken back or replaced
\* by a later attempt (finalizeSuccess, finalizeFailure).
THEOREM ResultsAreTrue == Spec => []SuccessIsTrue /\ ResultsAreKept
<1>1. Init => SuccessIsTrue
  BY DEF Init, SuccessIsTrue
<1>2. Init => Inv /\ Accepted
  BY InitInv, InitAccepted
<1>3. Inv /\ Accepted /\ [Next]_vars => Inv' /\ Accepted' /\ Promised
  BY NextInv, NextAccepted, NextPromises
<1>4. Inv /\ Promised /\ SuccessIsTrue =>
        /\ SuccessIsTrue'
        /\ [\A p \in Processes : \A i \in DOMAIN results[p] :
              i \in DOMAIN results'[p] /\ results'[p][i] = results[p][i]]_vars
  BY ResultsNext DEF Inv
<1> QED BY <1>1, <1>2, <1>3, <1>4, PTL DEF Spec, ResultsAreKept

=============================================================================
