----------------------- MODULE WebhookDelivery_proofs -----------------------
(* Proofs about WebhookDelivery, for every set of deliveries and workers   *)
(* and every bound on the number of claims.                                *)
EXTENDS WebhookDelivery, TLAPS

-----------------------------------------------------------------------------
(* Type correctness.                                                       *)

\* The rows the SQL statements write are rows.
LEMMA RowTypes ==
    ASSUME NEW r \in Rows, NEW t \in Nat, NEW p \in BOOLEAN
    PROVE  /\ Claimed(r, t) \in Rows
           /\ Completed(r) \in Rows
           /\ Failed(r, p) \in Rows
           /\ [r EXCEPT !.lease = "lapsed"] \in Rows
           /\ \A s \in Statuses : NoRow(s) \in Rows
<1>1. Claimed(r, t) \in Rows
  <2>1. r.version + 1 \in Nat
    <3>1. r.version \in Nat
      BY DEF Rows
    <3> QED BY <3>1
  <2> QED BY <2>1 DEF Claimed, Rows, Statuses, Leases
<1>2. Completed(r) \in Rows
  BY DEF Completed, Rows, Statuses, Leases, NoToken
<1>3. Failed(r, p) \in Rows
  BY DEF Failed, Rows, Statuses, Leases, NoToken
<1>4. [r EXCEPT !.lease = "lapsed"] \in Rows
  BY DEF Rows, Leases
<1>5. \A s \in Statuses : NoRow(s) \in Rows
  BY DEF NoRow, Rows, Leases, NoToken
<1> QED BY <1>1, <1>2, <1>3, <1>4, <1>5

\* What AnswerFor leaves a worker with.
LEMMA AnswerTypes ==
    ASSUME TypeOK, NEW w \in Workers, NEW a \in Answers, AnswerFor(w, a)
    PROVE  /\ work' \in [Workers -> Works]
           /\ work'[w].step = "idle"
           /\ \A v \in Workers : v # w => work'[v] = work[v]
BY DEF TypeOK, AnswerFor, Idle, Works, Steps, NoToken

\* Every row and every worker's job keeps its shape (the columns of
\* whatsapp_webhook_deliveries and the claim a job carries).
THEOREM TypeCorrect == Spec => []TypeOK
<1>1. Init => TypeOK
  BY DEF Init, TypeOK, Idle, Works, Steps, Answers, NoRow, Rows, Statuses, Leases, NoToken
<1>2. TypeOK /\ [Next]_vars => TypeOK'
  <2> SUFFICES ASSUME TypeOK, [Next]_vars PROVE TypeOK'
    OBVIOUS
  <2>a. /\ row \in [Deliveries -> Rows] /\ work \in [Workers -> Works] /\ lastToken \in Nat
        /\ \A w \in Workers : work[w].step # "idle" => work[w].delivery \in Deliveries
    BY DEF TypeOK
  <2>1. ASSUME NEW d \in Deliveries, Create(d) PROVE TypeOK'
    BY <2>a, <2>1 DEF TypeOK, Create, NoRow, NoToken, Rows, Statuses, Leases
  <2>2. ASSUME NEW d \in Deliveries, LeaseLapses(d) PROVE TypeOK'
    BY <2>a, <2>2, RowTypes DEF TypeOK, LeaseLapses
  <2>3. ASSUME NEW w \in Workers, NEW d \in Deliveries, ClaimRow(w, d) PROVE TypeOK'
    <3>0. lastToken + 1 \in Nat
      BY <2>a
    <3>1. row' \in [Deliveries -> Rows] /\ lastToken' \in Nat
      <4>1. Claimed(row[d], lastToken + 1) \in Rows
        BY <2>a, <3>0, RowTypes
      <4> QED BY <2>a, <2>3, <3>0, <4>1 DEF ClaimRow
    <3>2. /\ work' \in [Workers -> Works]
          /\ \A v \in Workers : work'[v].step # "idle" => work'[v].delivery \in Deliveries
      <4> DEFINE c == [Idle EXCEPT !.step = "find", !.delivery = d, !.token = lastToken + 1]
      <4>1. c \in Works /\ c.delivery = d
        BY <3>0 DEF Idle, Works, Steps, Answers, NoToken
      <4>2. work' = [work EXCEPT ![w] = c]
        BY <2>3 DEF ClaimRow
      <4> QED BY <2>a, <4>1, <4>2
    <3> QED BY <3>1, <3>2 DEF TypeOK
  <2>4. ASSUME NEW w \in Workers, NEW d \in Deliveries, ClaimNoRow(w, d) PROVE TypeOK'
    BY <2>a, <2>4 DEF TypeOK, ClaimNoRow, Idle, Works, Steps, Answers, NoToken
  <2>5. ASSUME NEW w \in Workers, JobStep(w) PROVE TypeOK'
    <3>1. CASE ClaimRefused(w)
      BY <2>a, <3>1, AnswerTypes DEF TypeOK, ClaimRefused, Answers
    <3>2. CASE FindClaimed(w)
      <4>1. CASE Stored(row[work[w].delivery])
        <5>1. row[work[w].delivery] \in Rows
          BY <2>a, <3>2 DEF FindClaimed
        <5>2. row[work[w].delivery].snapshot \in BOOLEAN
          BY <5>1 DEF Rows
        <5> QED BY <2>a, <5>2, <3>2, <4>1 DEF TypeOK, FindClaimed, Works, Steps
      <4>2. CASE ~ Stored(row[work[w].delivery])
        BY <2>a, <3>2, <4>2, AnswerTypes DEF TypeOK, FindClaimed, Answers
      <4> QED BY <4>1, <4>2
    <3>3. CASE ReadFence(w)
      <4>1. CASE Stored(row[work[w].delivery]) /\ row[work[w].delivery].token = work[w].token
        <5>1. row[work[w].delivery] \in Rows
          BY <2>a, <3>3 DEF ReadFence
        <5>2. row[work[w].delivery].version \in Nat
          BY <5>1 DEF Rows
        <5> QED BY <2>a, <5>2, <3>3, <4>1 DEF TypeOK, ReadFence, Works, Steps
      <4>2. CASE ~ (Stored(row[work[w].delivery]) /\ row[work[w].delivery].token = work[w].token)
        BY <2>a, <3>3, <4>2, AnswerTypes DEF TypeOK, ReadFence, Answers
      <4> QED BY <4>1, <4>2
    <3>4. ASSUME Goto(w, "check"), work[w].step = "post", UNCHANGED <<row, lastToken>>
          PROVE TypeOK'
      BY <2>a, <3>4 DEF TypeOK, Goto, Works, Steps
    <3>5. CASE Complete(w)
      <4>1. CASE Current(w)
        <5>1. Completed(row[work[w].delivery]) \in Rows
          BY <2>a, <3>5, RowTypes DEF Complete
        <5> QED BY <2>a, <3>5, <4>1, <5>1, AnswerTypes DEF TypeOK, Complete, Answers
      <4> QED BY <3>5, <3>4, <4>1 DEF Complete
    <3>6. CASE Fail(w)
      <4>1. CASE Current(w)
        <5>1. \A p \in BOOLEAN : Failed(row[work[w].delivery], p) \in Rows
          BY <2>a, <3>6, RowTypes DEF Fail
        <5> QED BY <2>a, <3>6, <4>1, <5>1, AnswerTypes DEF TypeOK, Fail, Answers
      <4> QED BY <3>6, <3>4, <4>1 DEF Fail
    <3>7. CASE CheckClaim(w)
      BY <2>a, <3>7, AnswerTypes DEF TypeOK, CheckClaim, Answers
    <3>8. CASE Crash(w)
      BY <2>a, <3>8 DEF TypeOK, Crash, Idle, Works, Steps, Answers, NoToken
    <3> QED BY <2>5, <3>1, <3>2, <3>3, <3>5, <3>6, <3>7, <3>8 DEF JobStep
  <2>6. ASSUME NEW S \in SUBSET Deliveries, Prune(S) PROVE TypeOK'
    BY <2>a, <2>6, RowTypes DEF TypeOK, Prune, Statuses, NoRow, Rows, Leases, NoToken
  <2>7. CASE UNCHANGED vars
    BY <2>a, <2>7 DEF TypeOK, vars
  <2> QED BY <2>1, <2>2, <2>3, <2>4, <2>5, <2>6, <2>7 DEF Next
<1> QED BY <1>1, <1>2, PTL DEF Spec

-----------------------------------------------------------------------------
(* The inductive invariant.  SnapshotInHand and GoneMeansOver are not      *)
(* inductive alone: they hold because a token names one claim for ever,    *)
(* and because a row carries a token exactly while it is being processed.  *)

Claiming(w) == work[w].step \in {"find", "fence", "post"}

RowInv ==
    \A d \in Deliveries :
        /\ row[d].token <= lastToken
        /\ row[d].token # 0 <=> row[d].status = "processing"
        /\ row[d].status \in {"pending", "processing", "failed"} => row[d].snapshot
        /\ row[d].permanent => row[d].status = "failed"

TokenInv ==
    /\ \A w \in Workers : work[w].token <= lastToken
    /\ \A w \in Workers : Claiming(w) => work[w].token # 0
    /\ \A v, w \in Workers :
          Claiming(v) /\ Claiming(w) /\ work[v].token = work[w].token => v = w

ClaimInv ==
    \A w \in Workers :
        LET r == row[work[w].delivery]
        IN  /\ work[w].step # "idle" => r.status # "absent"
            /\ work[w].step = "fence" /\ r.token = work[w].token => work[w].snapshot
            /\ work[w].step = "post" => work[w].snapshot
            /\ work[w].answer = "gone" =>
                  /\ work[w].step = "idle"
                  /\ work[w].delivery \in Deliveries
                  /\ r.status \in {"delivered", "removed"} \/ (r.status = "failed" /\ r.permanent)

FenceInv == RowInv /\ TokenInv /\ ClaimInv


\* A worker that ends its job keeps the invariant, if "gone" is the truth.
LEMMA AnswerKeepsFence ==
    ASSUME TypeOK, FenceInv, NEW w \in Workers, NEW a \in Answers,
           work[w].step # "idle", AnswerFor(w, a), UNCHANGED <<row, lastToken>>,
           a = "gone" => LET r == row[work[w].delivery]
                         IN  \/ r.status \in {"delivered", "removed"}
                             \/ r.status = "failed" /\ r.permanent
    PROVE  FenceInv'
<1>1. /\ work'[w].step = "idle" /\ work'[w].delivery = work[w].delivery
      /\ work'[w].token = 0 /\ work'[w].answer = a
      /\ \A v \in Workers : v # w => work'[v] = work[v]
      /\ work[w].delivery \in Deliveries
  BY DEF AnswerFor, Idle, NoToken, TypeOK
<1>2. lastToken \in Nat
  BY DEF TypeOK
<1>3. RowInv'
  BY DEF FenceInv, RowInv
<1>4. TokenInv'
  BY <1>1, <1>2 DEF FenceInv, TokenInv, Claiming
<1>5. ClaimInv'
  <2> SUFFICES ASSUME NEW v \in Workers PROVE ClaimInv!(v)'
    BY DEF ClaimInv
  <2>1. CASE v = w
    BY <2>1, <1>1
  <2>2. CASE v # w
    BY <2>2, <1>1 DEF FenceInv, ClaimInv
  <2> QED BY <2>1, <2>2
<1> QED BY <1>3, <1>4, <1>5 DEF FenceInv

\* A worker whose UPDATE matched no row only moves on to its read.
LEMMA CheckKeepsFence ==
    ASSUME TypeOK, FenceInv, NEW w \in Workers, work[w].step = "post",
           Goto(w, "check"), UNCHANGED <<row, lastToken>>
    PROVE  FenceInv'
<1>1. /\ work'[w].step = "check" /\ work'[w].delivery = work[w].delivery
      /\ work'[w].token = work[w].token /\ work'[w].answer = work[w].answer
      /\ \A v \in Workers : v # w => work'[v] = work[v]
  BY DEF Goto, TypeOK, Works
<1>2. RowInv'
  BY DEF FenceInv, RowInv
<1>3. TokenInv'
  BY <1>1 DEF FenceInv, TokenInv, Claiming
<1>4. ClaimInv'
  <2> SUFFICES ASSUME NEW v \in Workers PROVE ClaimInv!(v)'
    BY DEF ClaimInv
  <2>1. CASE v = w
    BY <2>1, <1>1 DEF FenceInv, ClaimInv
  <2>2. CASE v # w
    BY <2>2, <1>1 DEF FenceInv, ClaimInv
  <2> QED BY <2>1, <2>2
<1> QED BY <1>2, <1>3, <1>4 DEF FenceInv

\* Recording the outcome of a current claim keeps the invariant: the row was
\* being processed, so no job can have been told that it is gone.
LEMMA SettleKeepsFence ==
    ASSUME TypeOK, FenceInv, NEW w \in Workers, NEW s \in Rows,
           work[w].step = "post", Current(w), AnswerFor(w, "settled"),
           row' = [row EXCEPT ![work[w].delivery] = s], UNCHANGED lastToken,
           s.token = 0, s.status \in {"delivered", "failed"},
           s.status = "failed" => s.snapshot, s.permanent => s.status = "failed"
    PROVE  FenceInv'
<1> DEFINE d == work[w].delivery
<1>1. /\ work'[w].step = "idle" /\ work'[w].delivery = d
      /\ work'[w].token = 0 /\ work'[w].answer = "settled"
      /\ \A v \in Workers : v # w => work'[v] = work[v]
      /\ d \in Deliveries
  BY DEF AnswerFor, Idle, NoToken, TypeOK
<1>2. lastToken \in Nat /\ row'[d] = s /\ \A e \in Deliveries : e # d => row'[e] = row[e]
  BY <1>1 DEF TypeOK
<1>3. row[d].token = work[w].token /\ work[w].token # 0 /\ row[d].status = "processing"
  BY <1>1 DEF Current, FenceInv, TokenInv, RowInv, Claiming
<1>4. RowInv'
  BY <1>1, <1>2 DEF FenceInv, RowInv
<1>5. TokenInv'
  BY <1>1, <1>2 DEF FenceInv, TokenInv, Claiming
<1>6. ClaimInv'
  <2> SUFFICES ASSUME NEW v \in Workers PROVE ClaimInv!(v)'
    BY DEF ClaimInv
  <2>1. CASE v = w
    BY <2>1, <1>1
  <2>2. CASE v # w /\ work[v].delivery # d
    <3>1. row'[work[v].delivery] = row[work[v].delivery]
      BY <2>2, <1>1 DEF TypeOK
    <3> QED BY <2>2, <3>1, <1>1 DEF FenceInv, ClaimInv
  <2>3. CASE v # w /\ work[v].delivery = d
    <3>1. work'[v] = work[v] /\ work[v].answer # "gone"
      BY <2>3, <1>1, <1>3 DEF FenceInv, ClaimInv
    <3>2. ~ (work[v].step = "fence" /\ row'[d].token = work[v].token)
      BY <1>2 DEF FenceInv, TokenInv, Claiming
    <3> QED BY <2>3, <3>1, <3>2, <1>2 DEF FenceInv, ClaimInv
  <2> QED BY <2>1, <2>2, <2>3
<1> QED BY <1>4, <1>5, <1>6 DEF FenceInv

\* With no row and no claim the fence holds.
LEMMA FenceInitially == Init => FenceInv
BY DEF Init, FenceInv, RowInv, TokenInv, ClaimInv, Claiming, NoRow, Idle, NoToken

\* Every statement, lapse and crash keeps the fence.
LEMMA FenceStep == TypeOK /\ FenceInv /\ [Next]_vars => FenceInv'
<1> SUFFICES ASSUME TypeOK, FenceInv, [Next]_vars PROVE FenceInv'
  OBVIOUS
<1>a. /\ row \in [Deliveries -> Rows] /\ work \in [Workers -> Works] /\ lastToken \in Nat
      /\ \A w \in Workers : work[w].step # "idle" => work[w].delivery \in Deliveries
  BY DEF TypeOK
<1>b. /\ \A d \in Deliveries : row[d] \in Rows /\ row[d].token \in Nat /\ row[d].status \in Statuses
      /\ \A w \in Workers : work[w] \in Works /\ work[w].token \in Nat /\ work[w].step \in Steps
  BY <1>a DEF Rows, Works
<1> USE DEF NoToken
<1>1. ASSUME NEW d \in Deliveries, Create(d) PROVE FenceInv'
  <2>1. RowInv'
    BY <1>a, <1>b, <1>1 DEF FenceInv, RowInv, TokenInv, ClaimInv, Claiming, Create, NoRow
  <2>2. TokenInv'
    BY <1>a, <1>b, <1>1 DEF FenceInv, RowInv, TokenInv, Claiming, Create, NoRow
  <2>3. ClaimInv'
    BY <1>a, <1>b, <1>1 DEF FenceInv, RowInv, TokenInv, ClaimInv, Claiming, Create, NoRow
  <2> QED BY <2>1, <2>2, <2>3 DEF FenceInv
<1>2. ASSUME NEW d \in Deliveries, LeaseLapses(d) PROVE FenceInv'
  <2>1. RowInv'
    BY <1>a, <1>b, <1>2 DEF FenceInv, RowInv, TokenInv, ClaimInv, Claiming, LeaseLapses
  <2>2. TokenInv'
    BY <1>a, <1>b, <1>2 DEF FenceInv, RowInv, TokenInv, Claiming, LeaseLapses
  <2>3. ClaimInv'
    BY <1>a, <1>b, <1>2 DEF FenceInv, RowInv, TokenInv, ClaimInv, Claiming, LeaseLapses
  <2> QED BY <2>1, <2>2, <2>3 DEF FenceInv
<1>3. ASSUME NEW w \in Workers, NEW d \in Deliveries, ClaimRow(w, d) PROVE FenceInv'
  <2>1. RowInv'
    <3>1. lastToken' = lastToken + 1 /\ \A e \in Deliveries : e # d => row'[e] = row[e]
      BY <1>a, <1>3 DEF ClaimRow
    <3>2. /\ row'[d].token = lastToken + 1 /\ row'[d].status = "processing"
          /\ row'[d].permanent = row[d].permanent /\ row'[d].snapshot = row[d].snapshot
      BY <1>a, <1>b, <1>3 DEF ClaimRow, Claimed, Rows
    <3>3. ~ row[d].permanent /\ row[d].status \in {"pending", "processing", "failed"}
      BY <1>b, <1>3 DEF ClaimRow, Claimable, Stored, Statuses
    <3> QED BY <3>1, <3>2, <3>3, <1>a, <1>b DEF FenceInv, RowInv
  <2>2. TokenInv'
    BY <1>a, <1>b, <1>3 DEF FenceInv, RowInv, TokenInv, Claiming, ClaimRow, Claimed, Claimable, Stored, Idle
  <2>3. ClaimInv'
    BY <1>a, <1>b, <1>3 DEF FenceInv, RowInv, TokenInv, ClaimInv, Claiming, ClaimRow, Claimed, Claimable, Stored, Idle
  <2> QED BY <2>1, <2>2, <2>3 DEF FenceInv
<1>4. ASSUME NEW w \in Workers, NEW d \in Deliveries, ClaimNoRow(w, d) PROVE FenceInv'
  <2>1. RowInv'
    BY <1>a, <1>b, <1>4 DEF FenceInv, RowInv, TokenInv, ClaimInv, Claiming, ClaimNoRow, Idle
  <2>2. TokenInv'
    BY <1>a, <1>b, <1>4 DEF FenceInv, RowInv, TokenInv, Claiming, ClaimNoRow, Idle
  <2>3. ClaimInv'
    BY <1>a, <1>b, <1>4 DEF FenceInv, RowInv, TokenInv, ClaimInv, Claiming, ClaimNoRow, Idle
  <2> QED BY <2>1, <2>2, <2>3 DEF FenceInv
<1>5. ASSUME NEW w \in Workers, ClaimRefused(w) PROVE FenceInv'
  <2>0. work[w].delivery \in Deliveries /\ work[w].step # "idle"
    BY <1>a, <1>5 DEF ClaimRefused
  <2> QED BY <2>0, <1>b, <1>5, AnswerKeepsFence
          DEF ClaimRefused, Answers, Stored, FenceInv, RowInv, ClaimInv, Statuses
<1>6. ASSUME NEW w \in Workers, FindClaimed(w) PROVE FenceInv'
  <2>0. work[w].delivery \in Deliveries /\ work[w].step # "idle"
    BY <1>a, <1>6 DEF FindClaimed
  <2> DEFINE r == row[work[w].delivery]
  <2>1. CASE Stored(r)
    <3>1. /\ work'[w].step = "fence" /\ work'[w].delivery = work[w].delivery
          /\ work'[w].token = work[w].token /\ work'[w].answer = work[w].answer
          /\ work'[w].snapshot = r.snapshot
          /\ \A v \in Workers : v # w => work'[v] = work[v]
      BY <1>a, <1>b, <1>6, <2>1 DEF FindClaimed, Works
    <3>2. RowInv'
      BY <1>6 DEF FindClaimed, FenceInv, RowInv
    <3>3. TokenInv'
      BY <3>1, <1>6 DEF FindClaimed, FenceInv, TokenInv, Claiming
    <3>4. ClaimInv'
      <4> SUFFICES ASSUME NEW v \in Workers PROVE ClaimInv!(v)'
        BY DEF ClaimInv
      <4>1. CASE v = w
        BY <1>b, <4>1, <3>1, <2>0, <2>1, <1>6
           DEF FindClaimed, FenceInv, RowInv, TokenInv, ClaimInv, Claiming
      <4>2. CASE v # w
        BY <4>2, <3>1, <1>6 DEF FindClaimed, FenceInv, ClaimInv
      <4> QED BY <4>1, <4>2
    <3> QED BY <3>2, <3>3, <3>4 DEF FenceInv
  <2>2. CASE ~ Stored(r)
    BY <2>0, <2>2, <1>b, <1>6, AnswerKeepsFence
       DEF FindClaimed, Answers, Stored, FenceInv, ClaimInv
  <2> QED BY <2>1, <2>2
<1>7. ASSUME NEW w \in Workers, ReadFence(w) PROVE FenceInv'
  <2>0. work[w].delivery \in Deliveries /\ work[w].step # "idle"
    BY <1>a, <1>7 DEF ReadFence
  <2> DEFINE r == row[work[w].delivery]
  <2>1. CASE Stored(r) /\ r.token = work[w].token
    <3>1. /\ work'[w].step = "post" /\ work'[w].delivery = work[w].delivery
          /\ work'[w].token = work[w].token /\ work'[w].answer = work[w].answer
          /\ work'[w].snapshot = work[w].snapshot
          /\ \A v \in Workers : v # w => work'[v] = work[v]
      BY <1>a, <1>b, <1>7, <2>1 DEF ReadFence, Works
    <3>2. RowInv'
      BY <1>7 DEF ReadFence, FenceInv, RowInv
    <3>3. TokenInv'
      BY <3>1, <1>7 DEF ReadFence, FenceInv, TokenInv, Claiming
    <3>4. ClaimInv'
      <4> SUFFICES ASSUME NEW v \in Workers PROVE ClaimInv!(v)'
        BY DEF ClaimInv
      <4>1. CASE v = w
        BY <1>b, <4>1, <3>1, <2>0, <2>1, <1>7
           DEF ReadFence, FenceInv, RowInv, TokenInv, ClaimInv, Claiming
      <4>2. CASE v # w
        BY <4>2, <3>1, <1>7 DEF ReadFence, FenceInv, ClaimInv
      <4> QED BY <4>1, <4>2
    <3> QED BY <3>2, <3>3, <3>4 DEF FenceInv
  <2>2. CASE ~ (Stored(r) /\ r.token = work[w].token)
    BY <2>0, <2>2, <1>7, AnswerKeepsFence DEF ReadFence, Answers
  <2> QED BY <2>1, <2>2
<1>8. ASSUME NEW w \in Workers, Complete(w) PROVE FenceInv'
  <2>0. work[w].delivery \in Deliveries /\ work[w].step # "idle"
    BY <1>a, <1>8 DEF Complete
  <2> DEFINE r == row[work[w].delivery]
  <2>1. CASE Current(w)
    <3>1. r \in Rows /\ r.snapshot /\ ~ r.permanent
      BY <1>b, <2>0, <2>1, <1>8 DEF Complete, Current, FenceInv, RowInv, TokenInv, Claiming
    <3>2. /\ Completed(r) \in Rows /\ Completed(r).token = 0
          /\ Completed(r).status = "delivered" /\ Completed(r).permanent = r.permanent
      BY <3>1, RowTypes DEF Completed, Rows
    <3> QED BY <3>1, <3>2, <2>0, <2>1, <1>8, SettleKeepsFence DEF Complete
  <2>2. CASE ~ Current(w)
    BY <2>2, <1>8, CheckKeepsFence DEF Complete
  <2> QED BY <2>1, <2>2
<1>9. ASSUME NEW w \in Workers, Fail(w) PROVE FenceInv'
  <2>0. work[w].delivery \in Deliveries /\ work[w].step # "idle"
    BY <1>a, <1>9 DEF Fail
  <2> DEFINE r == row[work[w].delivery]
  <2>1. CASE Current(w)
    <3>1. r \in Rows /\ r.snapshot /\ ~ r.permanent
      BY <1>b, <2>0, <2>1, <1>9 DEF Fail, Current, FenceInv, RowInv, TokenInv, Claiming
    <3>2. PICK p \in BOOLEAN : row' = [row EXCEPT ![work[w].delivery] = Failed(r, p)]
      BY <2>1, <1>9 DEF Fail
    <3>3. /\ Failed(r, p) \in Rows /\ Failed(r, p).token = 0
          /\ Failed(r, p).status = "failed" /\ Failed(r, p).snapshot = r.snapshot
      BY <3>1, RowTypes DEF Failed, Rows
    <3> QED BY <3>1, <3>2, <3>3, <2>0, <2>1, <1>9, SettleKeepsFence DEF Fail
  <2>2. CASE ~ Current(w)
    BY <2>2, <1>9, CheckKeepsFence DEF Fail
  <2> QED BY <2>1, <2>2
<1>10. ASSUME NEW w \in Workers, CheckClaim(w) PROVE FenceInv'
  <2>0. work[w].delivery \in Deliveries /\ work[w].step # "idle"
    BY <1>a, <1>10 DEF CheckClaim
  <2> QED BY <2>0, <1>10, AnswerKeepsFence DEF CheckClaim, Answers
<1>11. ASSUME NEW w \in Workers, Crash(w) PROVE FenceInv'
  <2>1. RowInv'
    BY <1>a, <1>b, <1>11 DEF FenceInv, RowInv, TokenInv, ClaimInv, Claiming, Crash, Idle
  <2>2. TokenInv'
    BY <1>a, <1>b, <1>11 DEF FenceInv, RowInv, TokenInv, Claiming, Crash, Idle
  <2>3. ClaimInv'
    BY <1>a, <1>b, <1>11 DEF FenceInv, RowInv, TokenInv, ClaimInv, Claiming, Crash, Idle
  <2> QED BY <2>1, <2>2, <2>3 DEF FenceInv
<1>12. ASSUME NEW S \in SUBSET Deliveries, Prune(S) PROVE FenceInv'
  <2>1. RowInv'
    BY <1>a, <1>b, <1>12 DEF FenceInv, RowInv, TokenInv, ClaimInv, Claiming, Prune, NoRow, Stored
  <2>2. TokenInv'
    BY <1>a, <1>b, <1>12 DEF FenceInv, RowInv, TokenInv, Claiming, Prune, NoRow, Stored
  <2>3. ClaimInv'
    BY <1>a, <1>b, <1>12 DEF FenceInv, RowInv, TokenInv, ClaimInv, Claiming, Prune, NoRow, Stored
  <2> QED BY <2>1, <2>2, <2>3 DEF FenceInv
<1>13. CASE UNCHANGED vars
  BY <1>13 DEF vars, FenceInv, RowInv, TokenInv, ClaimInv, Claiming
<1> QED BY <1>1, <1>2, <1>3, <1>4, <1>5, <1>6, <1>7, <1>8, <1>9, <1>10, <1>11, <1>12, <1>13
        DEF Next, JobStep


\* The snapshot a worker POSTs was still stored when its claim was fenced
\* (Claim's two reads), and a delivery a job was told is gone stays gone.
THEOREM FencingSafe == Spec => [](SnapshotInHand /\ GoneMeansOver)
<1>1. FenceInv => SnapshotInHand /\ GoneMeansOver
  BY DEF FenceInv, ClaimInv, SnapshotInHand, GoneMeansOver
<1> QED BY <1>1, FenceInitially, FenceStep, TypeCorrect, PTL DEF Spec

-----------------------------------------------------------------------------
(* The table implements WebhookContract.                                   *)

Promised == Contract!Next \/ UNCHANGED <<Outcome, Holders>>

\* A step that takes a claim away from w alone, and touches no row, is the
\* holder giving up, or nothing the contract sees.
LEMMA LosingAClaim ==
    ASSUME TypeOK, FenceInv, NEW w \in Workers, UNCHANGED row,
           work'[w].step \notin {"find", "fence", "post"},
           \A v \in Workers : v # w => work'[v] = work[v]
    PROVE  Promised
<1> DEFINE d == work[w].delivery
<1>1. Outcome' = Outcome
  BY DEF Outcome
<1>2. CASE Claiming(w) /\ Holds(w, d)
  <2>1. d \in Deliveries /\ row[d].status = "processing"
    BY <1>2 DEF TypeOK, FenceInv, TokenInv, RowInv, Claiming, Holds
  <2>2. Outcome[d] = "open" /\ Outcome = [Outcome EXCEPT ![d] = "open"]
    BY <2>1 DEF Outcome
  <2>3. \A v \in Workers : Holds(v, d) <=> v = w
    BY <1>2 DEF FenceInv, TokenInv, Claiming, Holds
  <2>4. Holders[d] = {w}
    BY <2>1, <2>3 DEF Holders
  <2>5. \A v \in Workers, e \in Deliveries : Holds(v, e)' <=> Holds(v, e) /\ v # w
    BY DEF Holds
  <2>6. \A v \in Workers, e \in Deliveries : Holds(v, e)' <=> Holds(v, e) /\ e # d
    BY <2>3, <2>5 DEF Holds
  <2>7. Holders' = [Holders EXCEPT ![d] = {}]
    BY <2>1, <2>6 DEF Holders
  <2>8. Contract!Settle(w, d)
    BY <1>1, <2>2, <2>4, <2>7 DEF Contract!Settle
  <2> QED BY <2>1, <2>8 DEF Promised, Contract!Next
<1>3. CASE ~ (Claiming(w) /\ Holds(w, d))
  <2>1. \A v \in Workers, e \in Deliveries : Holds(v, e)' <=> Holds(v, e)
    BY <1>3 DEF Holds, Claiming
  <2>2. Holders' = Holders
    BY <2>1 DEF Holders
  <2> QED BY <1>1, <2>2 DEF Promised
<1> QED BY <1>2, <1>3

\* A step in which a claiming worker reads keeps the contract's state.
LEMMA KeepingAClaim ==
    ASSUME NEW w \in Workers, UNCHANGED row, Claiming(w),
           work'[w].step \in {"find", "fence", "post"},
           work'[w].delivery = work[w].delivery, work'[w].token = work[w].token,
           \A v \in Workers : v # w => work'[v] = work[v]
    PROVE  Promised
<1>1. \A v \in Workers, e \in Deliveries : Holds(v, e)' <=> Holds(v, e)
  BY DEF Holds, Claiming
<1> QED BY <1>1 DEF Promised, Outcome, Holders

\* Recording an outcome is the contract's Settle.
LEMMA SettlingAClaim ==
    ASSUME TypeOK, FenceInv, NEW w \in Workers, NEW s \in Rows,
           work[w].step = "post", Current(w), AnswerFor(w, "settled"),
           row' = [row EXCEPT ![work[w].delivery] = s],
           s.token = 0, s.status \in {"delivered", "failed"}
    PROVE  Promised
<1> DEFINE d == work[w].delivery
           o == CASE s.status = "failed" /\ s.permanent -> "refused"
                  [] s.status = "delivered" -> "delivered"
                  [] OTHER -> "open"
<1>1. /\ d \in Deliveries /\ row'[d] = s /\ Holds(w, d)
      /\ \A e \in Deliveries : e # d => row'[e] = row[e]
      /\ work'[w].step = "idle"
      /\ \A v \in Workers : v # w => work'[v] = work[v]
  BY DEF TypeOK, Holds, Current, AnswerFor, Idle
<1>2. row[d].status = "processing"
  BY <1>1 DEF Holds, FenceInv, RowInv, TokenInv, Claiming
<1>3. Outcome[d] = "open"
  BY <1>1, <1>2 DEF Outcome
<1>4. Outcome' = [Outcome EXCEPT ![d] = o] /\ o \in {"open", "delivered", "refused"}
  <2>1. Outcome'[d] = o
    BY <1>1 DEF Outcome
  <2>2. \A e \in Deliveries : e # d => Outcome'[e] = Outcome[e]
    BY <1>1 DEF Outcome
  <2>3. /\ Outcome = [e \in Deliveries |-> Outcome[e]]
        /\ Outcome' = [e \in Deliveries |-> Outcome'[e]]
    BY DEF Outcome
  <2>4. o \in {"open", "delivered", "refused"}
    OBVIOUS
  <2> HIDE DEF o
  <2> QED BY <1>1, <2>1, <2>2, <2>3, <2>4
<1>5. \A v \in Workers : Holds(v, d) <=> v = w
  BY <1>1 DEF FenceInv, TokenInv, Claiming, Holds
<1>6. \A v \in Workers, e \in Deliveries : Holds(v, e)' <=> Holds(v, e) /\ e # d
  <2> TAKE v \in Workers, e \in Deliveries
  <2>1. CASE v = w
    BY <2>1, <1>1 DEF Holds
  <2>2. CASE v # w /\ e = d
    BY <2>2, <1>1 DEF Holds, FenceInv, TokenInv, Claiming
  <2>3. CASE v # w /\ e # d
    BY <2>3, <1>1 DEF Holds
  <2> QED BY <2>1, <2>2, <2>3
<1>7. Holders[d] = {w} /\ Holders' = [Holders EXCEPT ![d] = {}]
  BY <1>1, <1>5, <1>6 DEF Holders
<1>8. Contract!Settle(w, d)
  BY <1>3, <1>4, <1>7 DEF Contract!Settle
<1> QED BY <1>1, <1>8 DEF Promised, Contract!Next

\* The initial states are those of the contract.
LEMMA ContractInitially == Init => Contract!Init
<1> SUFFICES ASSUME Init PROVE Contract!Init
  OBVIOUS
<1>1. Outcome = [d \in Deliveries |-> "absent"]
  BY DEF Init, Outcome, NoRow
<1>2. Holders = [d \in Deliveries |-> {}]
  BY DEF Init, Holders, Holds, Idle
<1> QED BY <1>1, <1>2 DEF Contract!Init

\* Every step is a step of the contract or changes nothing of it.
LEMMA ContractStep == TypeOK /\ FenceInv /\ [Next]_vars => Promised
<1> SUFFICES ASSUME TypeOK, FenceInv, [Next]_vars PROVE Promised
  OBVIOUS
<1>a. /\ row \in [Deliveries -> Rows] /\ work \in [Workers -> Works] /\ lastToken \in Nat
      /\ \A w \in Workers : work[w].step # "idle" => work[w].delivery \in Deliveries
  BY DEF TypeOK
<1>b. /\ \A d \in Deliveries : row[d] \in Rows /\ row[d].token \in Nat /\ row[d].status \in Statuses
      /\ \A w \in Workers : work[w] \in Works /\ work[w].token \in Nat /\ work[w].step \in Steps
  BY <1>a DEF Rows, Works
<1>c. ASSUME NEW w \in Workers, NEW x \in Answers, AnswerFor(w, x), UNCHANGED row
      PROVE  Promised
  <2>1. work'[w].step = "idle" /\ \A v \in Workers : v # w => work'[v] = work[v]
    BY <1>a, <1>c DEF AnswerFor, Idle
  <2> QED BY <1>c, <2>1, LosingAClaim
<1>1. ASSUME NEW d \in Deliveries, Create(d) PROVE Promised
  <2>1. row[d].token = 0 /\ row'[d].token = 0
    BY <1>a, <1>1 DEF Create, NoRow, NoToken, FenceInv, RowInv
  <2>2. \A v \in Workers, e \in Deliveries : Holds(v, e)' <=> Holds(v, e)
    BY <1>a, <1>1, <2>1 DEF Create, Holds, FenceInv, TokenInv, Claiming
  <2>3. Holders' = Holders
    BY <2>2 DEF Holders
  <2>4. Outcome[d] = "absent" /\ Outcome' = [Outcome EXCEPT ![d] = "open"]
    BY <1>a, <1>1 DEF Create, NoRow, Outcome
  <2> QED BY <2>3, <2>4 DEF Promised, Contract!Next, Contract!Open
<1>2. ASSUME NEW d \in Deliveries, LeaseLapses(d) PROVE Promised
  <2>1. \A e \in Deliveries : /\ row'[e].token = row[e].token /\ row'[e].status = row[e].status
                              /\ row'[e].permanent = row[e].permanent
    BY <1>a, <1>b, <1>2 DEF LeaseLapses, Rows
  <2>2. \A v \in Workers, e \in Deliveries : Holds(v, e)' <=> Holds(v, e)
    BY <1>2, <2>1 DEF LeaseLapses, Holds
  <2> QED BY <2>1, <2>2 DEF Promised, Outcome, Holders
<1>3. ASSUME NEW w \in Workers, NEW d \in Deliveries, ClaimRow(w, d) PROVE Promised
  <2>1. /\ row'[d].token = lastToken + 1 /\ row'[d].status = "processing"
        /\ row'[d].permanent = row[d].permanent
        /\ \A e \in Deliveries : e # d => row'[e] = row[e]
    BY <1>a, <1>b, <1>3 DEF ClaimRow, Claimed, Rows
  <2>2. /\ work[w].step = "idle" /\ work'[w].step = "find" /\ work'[w].delivery = d
        /\ work'[w].token = lastToken + 1
        /\ \A v \in Workers : v # w => work'[v] = work[v]
    BY <1>a, <1>3 DEF ClaimRow, Idle
  <2>3. Outcome[d] = "open" /\ Outcome' = Outcome
    <3>1. ~ row[d].permanent /\ row[d].status \in {"pending", "processing", "failed"}
      BY <1>b, <1>3 DEF ClaimRow, Claimable, Stored, Statuses
    <3> QED BY <3>1, <2>1 DEF Outcome
  <2>4. \A v \in Workers : work[v].token # lastToken + 1
    BY <1>a, <1>b DEF FenceInv, TokenInv
  <2>5. \A v \in Workers, e \in Deliveries :
           Holds(v, e)' <=> IF e = d THEN v = w ELSE Holds(v, e)
    BY <2>1, <2>2, <2>4 DEF Holds
  <2>6. Holders' = [Holders EXCEPT ![d] = {w}]
    BY <2>5 DEF Holders
  <2> QED BY <2>3, <2>6 DEF Promised, Contract!Next, Contract!Grant
<1>4. ASSUME NEW w \in Workers, NEW d \in Deliveries, ClaimNoRow(w, d) PROVE Promised
  <2>1. work'[w].step = "refused" /\ \A v \in Workers : v # w => work'[v] = work[v]
    BY <1>a, <1>4 DEF ClaimNoRow, Idle
  <2> QED BY <1>4, <2>1, LosingAClaim DEF ClaimNoRow
<1>5. ASSUME NEW w \in Workers, ClaimRefused(w) PROVE Promised
  BY <1>5, <1>c DEF ClaimRefused, Answers
<1>6. ASSUME NEW w \in Workers, FindClaimed(w) PROVE Promised
  <2>1. CASE Stored(row[work[w].delivery])
    <3>1. /\ work'[w].step = "fence" /\ work'[w].delivery = work[w].delivery
          /\ work'[w].token = work[w].token /\ UNCHANGED row /\ Claiming(w)
          /\ \A v \in Workers : v # w => work'[v] = work[v]
      BY <1>a, <1>b, <1>6, <2>1 DEF FindClaimed, Works, Claiming
    <3> QED BY <3>1, KeepingAClaim
  <2>2. CASE ~ Stored(row[work[w].delivery])
    BY <1>6, <2>2, <1>c DEF FindClaimed, Answers
  <2> QED BY <2>1, <2>2
<1>7. ASSUME NEW w \in Workers, ReadFence(w) PROVE Promised
  <2> DEFINE mine == Stored(row[work[w].delivery]) /\ row[work[w].delivery].token = work[w].token
  <2>1. CASE mine
    <3>1. /\ work'[w].step = "post" /\ work'[w].delivery = work[w].delivery
          /\ work'[w].token = work[w].token /\ UNCHANGED row /\ Claiming(w)
          /\ \A v \in Workers : v # w => work'[v] = work[v]
      BY <1>a, <1>b, <1>7, <2>1 DEF ReadFence, Works, Claiming
    <3> QED BY <3>1, KeepingAClaim
  <2>2. CASE ~ mine
    BY <1>7, <2>2, <1>c DEF ReadFence, Answers
  <2> QED BY <2>1, <2>2
<1>d. ASSUME NEW w \in Workers, Goto(w, "check"), UNCHANGED row PROVE Promised
  <2>1. work'[w].step = "check" /\ \A v \in Workers : v # w => work'[v] = work[v]
    BY <1>a, <1>d DEF Goto, Works
  <2> QED BY <1>d, <2>1, LosingAClaim
<1>8. ASSUME NEW w \in Workers, Complete(w) PROVE Promised
  <2> DEFINE r == row[work[w].delivery]
  <2>1. CASE Current(w)
    <3>1. r \in Rows
      BY <1>a, <1>8 DEF Complete
    <3>2. /\ Completed(r) \in Rows /\ Completed(r).token = 0
          /\ Completed(r).status = "delivered"
      BY <3>1, RowTypes DEF Completed, Rows, NoToken
    <3> QED BY <3>2, <2>1, <1>8, SettlingAClaim DEF Complete
  <2> QED BY <1>8, <1>d, <2>1 DEF Complete
<1>9. ASSUME NEW w \in Workers, Fail(w) PROVE Promised
  <2> DEFINE r == row[work[w].delivery]
  <2>1. CASE Current(w)
    <3>1. r \in Rows
      BY <1>a, <1>9 DEF Fail
    <3>2. PICK p \in BOOLEAN : row' = [row EXCEPT ![work[w].delivery] = Failed(r, p)]
      BY <2>1, <1>9 DEF Fail
    <3>3. /\ Failed(r, p) \in Rows /\ Failed(r, p).token = 0
          /\ Failed(r, p).status = "failed"
      BY <3>1, RowTypes DEF Failed, Rows, NoToken
    <3> QED BY <3>2, <3>3, <2>1, <1>9, SettlingAClaim DEF Fail
  <2> QED BY <1>9, <1>d, <2>1 DEF Fail
<1>10. ASSUME NEW w \in Workers, CheckClaim(w) PROVE Promised
  BY <1>10, <1>c DEF CheckClaim, Answers
<1>11. ASSUME NEW w \in Workers, Crash(w) PROVE Promised
  <2>1. work'[w].step = "idle" /\ \A v \in Workers : v # w => work'[v] = work[v]
    BY <1>a, <1>11 DEF Crash, Idle
  <2> QED BY <1>11, <2>1, LosingAClaim DEF Crash
<1>12. ASSUME NEW S \in SUBSET Deliveries, Prune(S) PROVE Promised
  <2>1. \A d \in Deliveries : row'[d] = IF d \in S THEN NoRow("removed") ELSE row[d]
    BY <1>12 DEF Prune
  <2>2. \A v \in Workers, e \in Deliveries : Holds(v, e)' <=> Holds(v, e) /\ e \notin S
    BY <1>12, <2>1 DEF Prune, Holds, NoRow, NoToken, FenceInv, TokenInv, Claiming
  <2>3. Holders' = [d \in Deliveries |-> IF d \in S THEN {} ELSE Holders[d]]
    BY <2>2 DEF Holders
  <2>4. Outcome' = [d \in Deliveries |-> IF d \in S THEN "removed" ELSE Outcome[d]]
    BY <2>1 DEF Outcome, NoRow
  <2>5. \A d \in S : Outcome[d] \notin {"absent", "removed"}
    BY <1>b, <1>12 DEF Outcome, Prune, Stored, Statuses
  <2> QED BY <2>3, <2>4, <2>5 DEF Promised, Contract!Next, Contract!Remove
<1>13. CASE UNCHANGED vars
  BY <1>13 DEF vars, Promised, Outcome, Holders, Holds
<1> QED BY <1>1, <1>2, <1>3, <1>4, <1>5, <1>6, <1>7, <1>8, <1>9, <1>10, <1>11, <1>12, <1>13
        DEF Next, JobStep

\* Every behaviour of the table is one the contract allows: deliveries end
\* once, and only by the worker that holds them.
THEOREM Implements == Spec => ImplementsContract
<1>1. Promised => [Contract!Next]_(Contract!vars)
  BY DEF Promised, Contract!vars
<1> QED BY <1>1, ContractInitially, ContractStep, FenceInitially, FenceStep, TypeCorrect, PTL
        DEF Spec, ImplementsContract, Contract!Spec

-----------------------------------------------------------------------------
(* What the contract gives the reader of the table.                        *)

\* How an outcome may change: it comes from the one worker that held the
\* delivery, which no longer does, and then it stands until it is removed.
OutcomeMoves(d) ==
    /\ Outcome[d] \in {"delivered", "refused"} => Outcome'[d] \in {Outcome[d], "removed"}
    /\ Outcome[d] = "removed" => Outcome'[d] = "removed"
    /\ Outcome[d] = "open" /\ Outcome'[d] \in {"delivered", "refused"} =>
         \E w \in Workers : Holders[d] = {w} /\ Holders'[d] = {}

\* No later attempt, late settlement or prune takes a recorded outcome back or
\* turns it into another one, and nobody but the holder of the current claim
\* records one (Complete, Fail, Prune).
OutcomesStand == [][\A d \in Deliveries : OutcomeMoves(d)]_vars

\* What the contract allows moves outcomes like that.
LEMMA PromisedMoves ==
    ASSUME Promised, NEW d \in Deliveries
    PROVE  OutcomeMoves(d)
<1>1. Outcome = [e \in Deliveries |-> Outcome[e]] /\ Holders = [e \in Deliveries |-> Holders[e]]
  BY DEF Outcome, Holders
<1>2. CASE UNCHANGED <<Outcome, Holders>>
  BY <1>2 DEF OutcomeMoves
<1>3. ASSUME NEW e \in Deliveries, Contract!Open(e) PROVE OutcomeMoves(d)
  BY <1>1, <1>3 DEF Contract!Open, OutcomeMoves
<1>4. ASSUME NEW w \in Workers, NEW e \in Deliveries, Contract!Grant(w, e)
      PROVE  OutcomeMoves(d)
  BY <1>1, <1>4 DEF Contract!Grant, OutcomeMoves
<1>5. ASSUME NEW w \in Workers, NEW e \in Deliveries, Contract!Settle(w, e)
      PROVE  OutcomeMoves(d)
  BY <1>1, <1>5 DEF Contract!Settle, OutcomeMoves
<1>6. ASSUME NEW S \in SUBSET Deliveries, Contract!Remove(S) PROVE OutcomeMoves(d)
  BY <1>1, <1>6 DEF Contract!Remove, OutcomeMoves
<1> QED BY <1>2, <1>3, <1>4, <1>5, <1>6 DEF Promised, Contract!Next

\* A recorded outcome is final, and its recorder held the delivery
\* (requireCurrentClaim): the contract, read as a property of each step.
THEOREM OutcomesAreFinal == Spec => OutcomesStand
<1>1. Promised => [\A d \in Deliveries : OutcomeMoves(d)]_vars
  BY PromisedMoves
<1> QED BY <1>1, ContractStep, FenceInitially, FenceStep, TypeCorrect, PTL
        DEF Spec, OutcomesStand

=============================================================================
