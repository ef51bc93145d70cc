---------------------------- MODULE WorkerProofs ----------------------------
(***************************************************************************)
(* Proofs about Worker for every value of the constants: any set of        *)
(* workers, keys, any attempt limit, lease, retention and bounds; and then *)
(* about a single worker.                                                  *)
(***************************************************************************)
EXTENDS WorkerRefinement, TLAPS

(***************************************************************************)
(* The inductive invariant.  Its queue part, QInv, is preserved by every   *)
(* operation of the queue on its own, except that fail() needs the row it  *)
(* updates to have been claimed: its backoff is undefined for 0 attempts.  *)
(* HolderOK supplies that: a worker holds an attempt the row has counted.  *)
(***************************************************************************)
QInv == QueueTypeOK /\ AttemptsBounded /\ TimestampsConsistent

HolderOK ==
  \A w \in Workers : pc[w] = "process" =>
    /\ hold[w] \in 1..lastId
    /\ att[w] >= 1

IInv == TypeOK /\ QInv /\ HolderOK /\ AttemptsExclusive

\* Attempts are never uncounted and the ids of new rows are fresh.
Monotone ==
  /\ lastId <= lastId'
  /\ \A i \in DOMAIN jobs' :
       \/ i > lastId
       \/ i \in DOMAIN jobs /\ jobs'[i].attempt_count >= jobs[i].attempt_count

-----------------------------------------------------------------------------
(* Rows.  QInv says the same of every row; each way the code rewrites a    *)
(* row preserves it.                                                       *)

RowInv(r) ==
  /\ r \in Row
  /\ r.attempt_count <= MaxAttempts
  /\ r.status = "queued" => r.attempt_count < MaxAttempts
  /\ r.status = "processing" => r.started_ago # Null
  /\ r.status = "queued" => r.started_ago = Null
  /\ r.status \in Settled => r.completed_ago # Null

\* QInv, row by row.
LEMMA QInvRows ==
  ASSUME QInv
  PROVE  /\ lastId \in 0..MaxId
         /\ DOMAIN jobs \subseteq 1..lastId
         /\ \A i \in DOMAIN jobs :
              RowInv(jobs[i]) /\ jobs[i].attempt_count \in Nat /\ i \in 1..lastId
         /\ jobs \in [DOMAIN jobs -> Row]
BY DEF QInv, QueueTypeOK, AttemptsBounded, TimestampsConsistent, RowInv, Row

\* The row that enqueue inserts.
LEMMA RowNew == ASSUME NEW k \in Keys PROVE RowInv(NewRow(k))
BY QueueAssumption DEF RowInv, NewRow, Row, JobStatus, Null, Settled

\* The row that claim_next returns: one more attempt, still within the limit.
LEMMA RowClaimed ==
  ASSUME NEW r, RowInv(r), r.status = "queued", NEW s,
         s = [r EXCEPT !.status = "processing", !.started_ago = 0,
                       !.attempt_count = @ + 1]
  PROVE  /\ RowInv(s)
         /\ s.attempt_count = r.attempt_count + 1 /\ s.status = "processing"
<1>1. r.attempt_count + 1 \in Nat
  BY DEF RowInv, Row
<1>2. s \in Row
  <2>1. PICK n \in Nat : n = r.attempt_count + 1
    BY <1>1
  <2> QED BY <2>1 DEF RowInv, Row, JobStatus
<1>3. /\ s.attempt_count = r.attempt_count + 1
      /\ s.status = "processing" /\ s.started_ago = 0
  BY DEF RowInv, Row
<1> QED BY <1>2, <1>3, QueueAssumption DEF RowInv, Settled, Null, Row

\* A row given up: fail, or recovery at the limit.
LEMMA RowFailed ==
  ASSUME NEW r, RowInv(r), NEW s,
         s = [r EXCEPT !.status = "failed", !.completed_ago = 0]
  PROVE  RowInv(s) /\ s.attempt_count = r.attempt_count /\ s.status = "failed"
<1>1. s \in Row
  BY DEF RowInv, Row, JobStatus, Settled
<1> QED BY <1>1 DEF RowInv, Row, Settled, Null

\* A row that complete has dated.
LEMMA RowCompleted ==
  ASSUME NEW r, RowInv(r), NEW s,
         s = [r EXCEPT !.status = "completed", !.completed_ago = 0]
  PROVE  RowInv(s) /\ s.attempt_count = r.attempt_count /\ s.status = "completed"
<1>1. s \in Row
  BY DEF RowInv, Row, JobStatus, Settled
<1> QED BY <1>1 DEF RowInv, Row, Settled, Null

\* A row that recovery returns to the queue.
LEMMA RowRequeued ==
  ASSUME NEW r, RowInv(r), r.attempt_count < MaxAttempts, NEW s,
         s = [r EXCEPT !.status = "queued", !.started_ago = Null]
  PROVE  RowInv(s) /\ s.attempt_count = r.attempt_count /\ s.status = "queued"
<1>1. s \in Row
  BY DEF RowInv, Row, JobStatus
<1> QED BY <1>1 DEF RowInv, Row, Settled

\* A row that fail returns to the queue for later.
LEMMA RowBackedOff ==
  ASSUME NEW r, RowInv(r), r.attempt_count < MaxAttempts, r.attempt_count >= 1,
         NEW s, s = [r EXCEPT !.status = "queued",
                              !.available_in = Backoff(r.attempt_count),
                              !.started_ago = Null]
  PROVE  RowInv(s) /\ s.attempt_count = r.attempt_count /\ s.status = "queued"
<1>1. PICK d \in 0..BackoffCap : d = Backoff(r.attempt_count)
  <2>1. r.attempt_count \in 1..MaxAttempts
    BY QueueAssumption DEF RowInv, Row
  <2>2. Backoff(r.attempt_count) \in Nat
    BY <2>1, QueueAssumption
  <2>3. Backoff(r.attempt_count) \in 0..BackoffCap
    <3> DEFINE delay == BackoffBase * 2^(r.attempt_count - 1)
    <3>1. Backoff(r.attempt_count) = IF delay <= BackoffCap THEN delay ELSE BackoffCap
      BY Zenon DEF Backoff
    <3> HIDE DEF delay
    <3>2. CASE delay <= BackoffCap
      BY <3>1, <3>2, <2>2, QueueAssumption
    <3>3. CASE ~(delay <= BackoffCap)
      BY <3>1, <3>3, QueueAssumption
    <3> QED BY <3>2, <3>3
  <2> QED BY <2>3
<1>2. s = [r EXCEPT !.status = "queued", !.available_in = d, !.started_ago = Null]
  BY <1>1
<1>3. s \in Row
  BY <1>2 DEF RowInv, Row, JobStatus
<1> QED BY <1>2, <1>3 DEF RowInv, Row, Settled

\* A row after one unit of time.
LEMMA RowAged ==
  ASSUME NEW r, RowInv(r), NEW s,
         s = [r EXCEPT !.available_in = Sooner(@),
                       !.started_ago = Older(@, Lease),
                       !.completed_ago = Older(@, JobRetention + 1)]
  PROVE  RowInv(s) /\ s.attempt_count = r.attempt_count /\ s.status = r.status
<1>1. /\ Sooner(r.available_in) \in 0..BackoffCap
      /\ Older(r.started_ago, Lease) \in Nat \cup {Null}
      /\ Older(r.started_ago, Lease) = Null <=> r.started_ago = Null
      /\ Older(r.completed_ago, JobRetention + 1) \in Nat \cup {Null}
      /\ Older(r.completed_ago, JobRetention + 1) = Null <=> r.completed_ago = Null
  BY QueueAssumption DEF Sooner, Older, RowInv, Row, Null
<1>2. PICK a \in 0..BackoffCap, b \in Nat \cup {Null}, c \in Nat \cup {Null} :
        /\ a = Sooner(r.available_in)
        /\ b = Older(r.started_ago, Lease)
        /\ c = Older(r.completed_ago, JobRetention + 1)
  BY <1>1
<1>3. s = [r EXCEPT !.available_in = a, !.started_ago = b, !.completed_ago = c]
  BY <1>2
<1>4. s \in Row
  BY <1>3 DEF RowInv, Row
<1> QED BY <1>1, <1>2, <1>3, <1>4 DEF RowInv, Row

-----------------------------------------------------------------------------
(* The operations of the queue.                                            *)

\* An UPDATE that rewrites rows one by one.
LEMMA RowsUpdated ==
  ASSUME QInv, UNCHANGED <<lastId, deliveries>>,
         jobs' = [i \in DOMAIN jobs |-> jobs'[i]],
         \A i \in DOMAIN jobs : /\ RowInv(jobs'[i])
                                /\ jobs'[i].attempt_count >= jobs[i].attempt_count
  PROVE  QInv' /\ Monotone
<1>1. QueueTypeOK'
  BY DEF QInv, QueueTypeOK, RowInv
<1>2. AttemptsBounded' /\ TimestampsConsistent'
  BY DEF AttemptsBounded, TimestampsConsistent, RowInv
<1>3. Monotone
  BY DEF Monotone, QInv, QueueTypeOK
<1> QED BY <1>1, <1>2, <1>3 DEF QInv

\* enqueue: at most one new row, with a new id and a new key.
LEMMA EnqueueQ ==
  ASSUME QInv, NEW k \in Keys, Enqueue(k)
  PROVE  QInv' /\ Monotone
<1>1. CASE UNCHANGED <<jobs, lastId>>
  <2>1. UNCHANGED <<lastId, deliveries>> /\ jobs' = jobs
    BY <1>1 DEF Enqueue
  <2>2. QueueTypeOK' /\ AttemptsBounded' /\ TimestampsConsistent'
    BY <2>1 DEF QInv, QueueTypeOK, AttemptsBounded, TimestampsConsistent
  <2>3. Monotone
    BY <2>1, QInvRows DEF Monotone
  <2> QED BY <2>2, <2>3 DEF QInv
<1>2. CASE /\ lastId < MaxId
           /\ lastId' = lastId + 1
           /\ jobs' = [i \in DOMAIN jobs \cup {lastId + 1} |->
                         IF i = lastId + 1 THEN NewRow(k) ELSE jobs[i]]
  <2>1. \A i \in DOMAIN jobs' : RowInv(jobs'[i])
    BY <1>2, RowNew, QInvRows
  <2>2. /\ DOMAIN jobs' \subseteq 1..lastId' /\ lastId' \in 0..MaxId
        /\ jobs' \in [DOMAIN jobs' -> Row]
    BY <1>2, <2>1, QInvRows, QueueAssumption DEF RowInv
  <2>3. QueueTypeOK'
    BY <2>2 DEF QInv, QueueTypeOK, Enqueue
  <2>4. AttemptsBounded' /\ TimestampsConsistent'
    BY <2>1 DEF AttemptsBounded, TimestampsConsistent, RowInv
  <2>5. Monotone
    BY <1>2, QInvRows DEF Monotone
  <2> QED BY <2>3, <2>4, <2>5 DEF QInv
<1> QED BY <1>1, <1>2 DEF Enqueue

\* claim_next: one queued row gets a new attempt number.
LEMMA ClaimQ ==
  ASSUME QInv, NEW i \in Runnable, ClaimNext(i)
  PROVE  /\ QInv' /\ Monotone
         /\ i \in DOMAIN jobs /\ i \in 1..lastId /\ DOMAIN jobs' = DOMAIN jobs
         /\ jobs[i].status = "queued"
         /\ jobs'[i].attempt_count = jobs[i].attempt_count + 1
         /\ jobs'[i].status = "processing"
         /\ \A j \in DOMAIN jobs : j # i => jobs'[j] = jobs[j]
<1>1. i \in DOMAIN jobs /\ i \in 1..lastId /\ jobs[i].status = "queued"
  BY QInvRows DEF Runnable
<1>2. /\ jobs' = [j \in DOMAIN jobs |-> jobs'[j]]
      /\ jobs'[i] = [jobs[i] EXCEPT !.status = "processing", !.started_ago = 0,
                                    !.attempt_count = @ + 1]
      /\ \A j \in DOMAIN jobs : j # i => jobs'[j] = jobs[j]
      /\ UNCHANGED <<lastId, deliveries>>
  BY <1>1 DEF ClaimNext, Update
<1>3. /\ RowInv(jobs'[i]) /\ jobs'[i].attempt_count = jobs[i].attempt_count + 1
      /\ jobs'[i].status = "processing"
  BY <1>1, <1>2, RowClaimed, QInvRows
<1>4. \A j \in DOMAIN jobs : /\ RowInv(jobs'[j])
                             /\ jobs'[j].attempt_count >= jobs[j].attempt_count
  <2> SUFFICES ASSUME NEW j \in DOMAIN jobs
               PROVE  RowInv(jobs'[j]) /\ jobs'[j].attempt_count >= jobs[j].attempt_count
    OBVIOUS
  <2>1. RowInv(jobs[j]) /\ jobs[j].attempt_count \in Nat
    BY QInvRows
  <2>2. CASE j = i
    BY <1>3, <2>1, <2>2
  <2>3. CASE j # i
    BY <1>2, <2>1, <2>3
  <2> QED BY <2>2, <2>3
<1>5. QInv' /\ Monotone
  BY <1>2, <1>4, RowsUpdated
<1> QED BY <1>1, <1>2, <1>3, <1>5

\* complete() and fail(): row i at most changes, and not in its attempts.
ReportsOn(i) ==
  /\ UNCHANGED lastId /\ DOMAIN jobs' = DOMAIN jobs
  /\ \A j \in DOMAIN jobs : j # i => jobs'[j] = jobs[j]
  /\ i \in DOMAIN jobs => jobs'[i].attempt_count = jobs[i].attempt_count

\* complete touches one row and no attempt number.
LEMMA CompleteQ ==
  ASSUME QInv, NEW i, Complete(i)
  PROVE  /\ QInv' /\ Monotone /\ ReportsOn(i)
         /\ i \in DOMAIN jobs => jobs'[i].status = "completed"
<1>1. /\ jobs' = [j \in DOMAIN jobs |-> jobs'[j]]
      /\ i \in DOMAIN jobs =>
           jobs'[i] = [jobs[i] EXCEPT !.status = "completed", !.completed_ago = 0]
      /\ \A j \in DOMAIN jobs : j # i => jobs'[j] = jobs[j]
      /\ UNCHANGED <<lastId, deliveries>>
  BY DEF Complete, Update
<1>2. i \in DOMAIN jobs => /\ RowInv(jobs'[i])
                           /\ jobs'[i].attempt_count = jobs[i].attempt_count
                           /\ jobs'[i].status = "completed"
  <2> SUFFICES ASSUME i \in DOMAIN jobs
               PROVE  /\ RowInv(jobs'[i])
                      /\ jobs'[i].attempt_count = jobs[i].attempt_count
                      /\ jobs'[i].status = "completed"
    OBVIOUS
  <2>1. RowInv(jobs[i])
    BY QInvRows
  <2> QED BY <1>1, <2>1, RowCompleted
<1>3. \A j \in DOMAIN jobs : /\ RowInv(jobs'[j])
                             /\ jobs'[j].attempt_count >= jobs[j].attempt_count
  BY <1>1, <1>2, QInvRows
<1>4. QInv' /\ Monotone
  BY <1>1, <1>3, RowsUpdated
<1> QED BY <1>1, <1>2, <1>4 DEF ReportsOn

\* fail touches one row and no attempt number, whatever the error was.
LEMMA FailQ ==
  ASSUME QInv, NEW i, NEW permanent \in BOOLEAN, Fail(i, permanent),
         i \in DOMAIN jobs => jobs[i].attempt_count >= 1
  PROVE  /\ QInv' /\ Monotone /\ ReportsOn(i)
         /\ i \in DOMAIN jobs => jobs'[i].status \in {"failed", "queued"}
<1>1. /\ jobs' = [j \in DOMAIN jobs |-> jobs'[j]]
      /\ i \in DOMAIN jobs =>
           \/ jobs'[i] = [jobs[i] EXCEPT !.status = "failed", !.completed_ago = 0]
           \/ /\ jobs[i].attempt_count < MaxAttempts
              /\ jobs'[i] = [jobs[i] EXCEPT !.status = "queued",
                                            !.available_in = Backoff(jobs[i].attempt_count),
                                            !.started_ago = Null]
      /\ \A j \in DOMAIN jobs : j # i => jobs'[j] = jobs[j]
      /\ UNCHANGED <<lastId, deliveries>>
  <2>1. CASE Update({i}, LAMBDA r : [r EXCEPT !.status = "failed", !.completed_ago = 0])
    BY <2>1 DEF Fail, Update
  <2>2. CASE /\ ~Exhausted(i)
             /\ Update({i}, LAMBDA r : [r EXCEPT !.status = "queued",
                                              !.available_in = Backoff(r.attempt_count),
                                              !.started_ago = Null])
    <3>1. jobs[i].attempt_count < MaxAttempts
      BY <2>2, QInvRows, QueueAssumption DEF Exhausted
    <3> QED BY <2>2, <3>1 DEF Fail, Update
  <2> QED BY <2>1, <2>2 DEF Fail
<1>2. i \in DOMAIN jobs => /\ RowInv(jobs'[i])
                           /\ jobs'[i].attempt_count = jobs[i].attempt_count
                           /\ jobs'[i].status \in {"failed", "queued"}
  <2> SUFFICES ASSUME i \in DOMAIN jobs
               PROVE  /\ RowInv(jobs'[i])
                      /\ jobs'[i].attempt_count = jobs[i].attempt_count
                      /\ jobs'[i].status \in {"failed", "queued"}
    OBVIOUS
  <2>1. RowInv(jobs[i])
    BY QInvRows
  <2>2. CASE jobs'[i] = [jobs[i] EXCEPT !.status = "failed", !.completed_ago = 0]
    BY <2>1, <2>2, RowFailed
  <2>3. CASE /\ jobs[i].attempt_count < MaxAttempts
             /\ jobs'[i] = [jobs[i] EXCEPT !.status = "queued",
                                           !.available_in = Backoff(jobs[i].attempt_count),
                                           !.started_ago = Null]
    BY <2>1, <2>3, RowBackedOff
  <2> QED BY <1>1, <2>2, <2>3
<1>3. \A j \in DOMAIN jobs : /\ RowInv(jobs'[j])
                             /\ jobs'[j].attempt_count >= jobs[j].attempt_count
  BY <1>1, <1>2, QInvRows
<1>4. QInv' /\ Monotone
  BY <1>1, <1>3, RowsUpdated
<1> QED BY <1>1, <1>2, <1>4 DEF ReportsOn

\* Both recoveries: only processing rows change, to queued below the limit
\* or to failed at it.
Recovers ==
  /\ UNCHANGED lastId /\ DOMAIN jobs' = DOMAIN jobs
  /\ \A j \in DOMAIN jobs :
       /\ jobs'[j].attempt_count = jobs[j].attempt_count
       /\ \/ jobs'[j] = jobs[j]
          \/ /\ jobs[j].status = "processing"
             /\ \/ jobs'[j].status = "queued"
                \/ jobs'[j].status = "failed" /\ jobs[j].attempt_count >= MaxAttempts

\* recover_stale_jobs re-queues processing rows, or fails them at the limit.
LEMMA RecoverStaleQ ==
  ASSUME QInv, RecoverStaleJobs
  PROVE  QInv' /\ Monotone /\ Recovers
<1>1. /\ jobs' = [j \in DOMAIN jobs |-> jobs'[j]]
      /\ UNCHANGED <<lastId, deliveries>>
  BY DEF RecoverStaleJobs
<1>2. ASSUME NEW j \in DOMAIN jobs
      PROVE  /\ RowInv(jobs'[j]) /\ jobs'[j].attempt_count = jobs[j].attempt_count
             /\ jobs'[j].attempt_count >= jobs[j].attempt_count
             /\ \/ jobs'[j] = jobs[j]
                \/ /\ jobs[j].status = "processing"
                   /\ \/ jobs'[j].status = "queued"
                      \/ /\ jobs'[j].status = "failed"
                         /\ jobs[j].attempt_count >= MaxAttempts
  <2>1. RowInv(jobs[j]) /\ jobs[j].attempt_count \in Nat
    BY QInvRows
  <2>2. CASE j \in Processing /\ LeaseExpired(j) /\ jobs[j].attempt_count >= MaxAttempts
    <3>1. jobs'[j] = [jobs[j] EXCEPT !.status = "failed", !.completed_ago = 0]
      BY <2>2 DEF RecoverStaleJobs
    <3>2. jobs[j].status = "processing"
      BY <2>2 DEF Processing
    <3>3. /\ RowInv(jobs'[j]) /\ jobs'[j].attempt_count = jobs[j].attempt_count
          /\ jobs'[j].status = "failed"
      BY <2>1, <3>1, RowFailed
    <3> QED BY <2>1, <2>2, <3>2, <3>3
  <2>3. CASE j \in Processing /\ LeaseExpired(j) /\ ~(jobs[j].attempt_count >= MaxAttempts)
    <3>1. jobs'[j] = [jobs[j] EXCEPT !.status = "queued", !.started_ago = Null]
      BY <2>3 DEF RecoverStaleJobs
    <3>2. jobs[j].status = "processing" /\ jobs[j].attempt_count < MaxAttempts
      BY <2>1, <2>3, QueueAssumption DEF Processing
    <3>3. /\ RowInv(jobs'[j]) /\ jobs'[j].attempt_count = jobs[j].attempt_count
          /\ jobs'[j].status = "queued"
      BY <2>1, <3>1, <3>2, RowRequeued
    <3> QED BY <2>1, <3>2, <3>3
  <2>4. CASE ~(j \in Processing /\ LeaseExpired(j))
    <3>1. jobs'[j] = jobs[j]
      BY <2>4 DEF RecoverStaleJobs
    <3> QED BY <2>1, <3>1
  <2> QED BY <2>2, <2>3, <2>4
<1>3. QInv' /\ Monotone
  BY <1>1, <1>2, RowsUpdated
<1> QED BY <1>1, <1>2, <1>3 DEF Recovers

\* recover_all_processing re-queues processing rows and touches no others.
LEMMA RecoverAllQ ==
  ASSUME QInv, RecoverAllProcessing
  PROVE  /\ QInv' /\ Monotone /\ Recovers
         /\ \A j \in DOMAIN jobs : jobs'[j].status = "processing" =>
              jobs[j].attempt_count = MaxAttempts
<1>1. /\ jobs' = [j \in DOMAIN jobs |-> jobs'[j]]
      /\ UNCHANGED <<lastId, deliveries>>
  BY DEF RecoverAllProcessing, Update
<1>2. ASSUME NEW j \in DOMAIN jobs
      PROVE  /\ RowInv(jobs'[j]) /\ jobs'[j].attempt_count = jobs[j].attempt_count
             /\ jobs'[j].attempt_count >= jobs[j].attempt_count
             /\ \/ jobs'[j] = jobs[j]
                \/ jobs[j].status = "processing" /\ jobs'[j].status = "queued"
             /\ jobs'[j].status = "processing" => jobs[j].attempt_count = MaxAttempts
  <2>1. RowInv(jobs[j]) /\ jobs[j].attempt_count \in Nat
    BY QInvRows
  <2>2. CASE jobs[j].status = "processing" /\ jobs[j].attempt_count < MaxAttempts
    <3>1. jobs'[j] = [jobs[j] EXCEPT !.status = "queued", !.started_ago = Null]
      BY <2>2 DEF RecoverAllProcessing, Update, Processing
    <3>2. /\ RowInv(jobs'[j]) /\ jobs'[j].attempt_count = jobs[j].attempt_count
          /\ jobs'[j].status = "queued"
      BY <2>1, <2>2, <3>1, RowRequeued
    <3> QED BY <2>1, <2>2, <3>2
  <2>3. CASE ~(jobs[j].status = "processing" /\ jobs[j].attempt_count < MaxAttempts)
    <3>1. jobs'[j] = jobs[j]
      BY <2>3 DEF RecoverAllProcessing, Update, Processing
    <3> QED BY <2>1, <2>3, <3>1, QueueAssumption DEF RowInv
  <2> QED BY <2>2, <2>3
<1>3. QInv' /\ Monotone
  BY <1>1, <1>2, RowsUpdated
<1> QED BY <1>1, <1>2, <1>3 DEF Recovers

\* purge_completed: settled rows go, the others stay as they are.
LEMMA PurgeCompletedQ ==
  ASSUME QInv, PurgeCompleted
  PROVE  /\ QInv' /\ Monotone
         /\ UNCHANGED lastId /\ DOMAIN jobs' \subseteq DOMAIN jobs
         /\ \A j \in DOMAIN jobs' : jobs'[j] = jobs[j]
         /\ \A j \in DOMAIN jobs \ DOMAIN jobs' : jobs[j].status \in Settled
<1>1. /\ UNCHANGED <<lastId, deliveries>> /\ DOMAIN jobs' \subseteq DOMAIN jobs
      /\ jobs' = [j \in DOMAIN jobs' |-> jobs'[j]]
      /\ \A j \in DOMAIN jobs' : jobs'[j] = jobs[j]
      /\ \A j \in DOMAIN jobs \ DOMAIN jobs' : jobs[j].status \in Settled
  BY DEF PurgeCompleted
<1>2. \A j \in DOMAIN jobs' : RowInv(jobs'[j])
  BY <1>1, QInvRows
<1>3. QueueTypeOK'
  BY <1>1, <1>2 DEF QInv, QueueTypeOK, RowInv
<1>4. AttemptsBounded' /\ TimestampsConsistent'
  BY <1>2 DEF AttemptsBounded, TimestampsConsistent, RowInv
<1>5. Monotone
  BY <1>1, QInvRows DEF Monotone
<1> QED BY <1>1, <1>3, <1>4, <1>5 DEF QInv

\* A step that leaves the jobs table alone.
LEMMA UnchangedQ ==
  ASSUME QInv, UNCHANGED <<jobs, lastId>>,
         DOMAIN deliveries' \subseteq DeliveryIds,
         deliveries' \in [DOMAIN deliveries' -> Nat]
  PROVE  QInv' /\ Monotone
<1>1. QInv'
  BY DEF QInv, QueueTypeOK, AttemptsBounded, TimestampsConsistent
<1>2. Monotone
  BY QInvRows DEF Monotone
<1> QED BY <1>1, <1>2

\* record_delivery leaves the jobs table alone.
LEMMA RecordDeliveryQ ==
  ASSUME QInv, NEW d \in DeliveryIds, RecordDelivery(d)
  PROVE  QInv' /\ Monotone /\ UNCHANGED <<jobs, lastId>>
<1>1. /\ UNCHANGED <<jobs, lastId>>
      /\ DOMAIN deliveries' \subseteq DeliveryIds
      /\ deliveries' \in [DOMAIN deliveries' -> Nat]
  BY DEF RecordDelivery, QInv, QueueTypeOK
<1> QED BY <1>1, UnchangedQ

\* purge_deliveries leaves the jobs table alone.
LEMMA PurgeDeliveriesQ ==
  ASSUME QInv, PurgeDeliveries
  PROVE  QInv' /\ Monotone /\ UNCHANGED <<jobs, lastId>>
<1>1. /\ UNCHANGED <<jobs, lastId>>
      /\ DOMAIN deliveries' \subseteq DeliveryIds
      /\ deliveries' \in [DOMAIN deliveries' -> Nat]
  BY DEF PurgeDeliveries, QInv, QueueTypeOK
<1> QED BY <1>1, UnchangedQ

\* Time changes neither a status nor an attempt.
LEMMA TickQ ==
  ASSUME QInv, QueueTick
  PROVE  /\ QInv' /\ Monotone
         /\ UNCHANGED lastId /\ DOMAIN jobs' = DOMAIN jobs
         /\ \A j \in DOMAIN jobs : /\ jobs'[j].status = jobs[j].status
                                   /\ jobs'[j].attempt_count = jobs[j].attempt_count
<1>1. /\ UNCHANGED lastId /\ DOMAIN jobs' = DOMAIN jobs
      /\ jobs' = [j \in DOMAIN jobs |-> jobs'[j]]
  BY DEF QueueTick
<1>2. ASSUME NEW j \in DOMAIN jobs
      PROVE  /\ RowInv(jobs'[j]) /\ jobs'[j].attempt_count = jobs[j].attempt_count
             /\ jobs'[j].attempt_count \in Nat /\ jobs'[j].status = jobs[j].status
  <2>1. RowInv(jobs[j]) /\ jobs[j].attempt_count \in Nat
    BY QInvRows
  <2>2. jobs'[j] = [jobs[j] EXCEPT !.available_in = Sooner(@),
                                  !.started_ago = Older(@, Lease),
                                  !.completed_ago = Older(@, JobRetention + 1)]
    BY DEF QueueTick
  <2> QED BY <2>1, <2>2, RowAged
<1>3. /\ DOMAIN deliveries' = DOMAIN deliveries
      /\ deliveries' \in [DOMAIN deliveries -> Nat]
  <2>1. \A d \in DOMAIN deliveries : deliveries[d] \in Nat
    BY DEF QInv, QueueTypeOK
  <2>2. \A n \in Nat : Older(n, DeliveryRetention + 1) \in Nat
    BY QueueAssumption DEF Older, Null
  <2> QED BY <2>1, <2>2 DEF QueueTick
<1>4. QueueTypeOK'
  BY <1>1, <1>2, <1>3 DEF QInv, QueueTypeOK, RowInv
<1>5. AttemptsBounded' /\ TimestampsConsistent'
  BY <1>1, <1>2 DEF AttemptsBounded, TimestampsConsistent, RowInv
<1>6. Monotone
  BY <1>1, <1>2, QInvRows DEF Monotone
<1> QED BY <1>1, <1>2, <1>4, <1>5, <1>6 DEF QInv

-----------------------------------------------------------------------------
(* The worker.                                                             *)

\* The worker's part of TypeOK.
WorkerTypeOK ==
  /\ pc \in [Workers -> PC]
  /\ hold \in [Workers -> 0..lastId]
  /\ att \in [Workers -> Nat]
  /\ since \in [Workers -> Nat]
  /\ stopping \in [Workers -> BOOLEAN]
  /\ disruptions \in 0..MaxDisruptions

\* No worker takes up a job in this step.
NoNewHolder ==
  \A w \in Workers : pc'[w] = "process" =>
    pc[w] = "process" /\ hold'[w] = hold[w] /\ att'[w] = att[w]

\* What a worker at work knows of the job it holds.
LEMMA HolderFacts ==
  ASSUME IInv, NEW w \in Workers, pc[w] = "process"
  PROVE  /\ hold[w] \in 1..lastId /\ att[w] \in Nat /\ att[w] >= 1
         /\ hold[w] \in DOMAIN jobs => jobs[hold[w]].attempt_count >= 1
<1>1. hold[w] \in 1..lastId /\ att[w] \in Nat /\ att[w] >= 1
  BY DEF IInv, HolderOK, TypeOK
<1>2. hold[w] \in DOMAIN jobs => jobs[hold[w]].attempt_count >= att[w]
  BY QInvRows, <1>1 DEF IInv, AttemptsExclusive
<1>3. hold[w] \in DOMAIN jobs => jobs[hold[w]].attempt_count \in Nat
  BY QInvRows DEF IInv
<1> QED BY <1>1, <1>2, <1>3

\* A step that adds no holder and lowers no attempt number keeps holders apart.
LEMMA HoldersKept ==
  ASSUME IInv, QInv', Monotone, WorkerTypeOK', NoNewHolder
  PROVE  IInv'
<1>1. \A w \in Workers : pc'[w] = "process" =>
        hold'[w] \in 1..lastId /\ att'[w] \in Nat /\ att'[w] >= 1
  BY HolderFacts DEF NoNewHolder
<1>2. HolderOK'
  BY <1>1, QInvRows DEF HolderOK, Monotone, QInv, QueueTypeOK, IInv
<1>3. ASSUME NEW w \in Workers, pc'[w] = "process", hold'[w] \in DOMAIN jobs'
      PROVE  att'[w] <= jobs'[hold'[w]].attempt_count
  <2>1. /\ hold[w] \in DOMAIN jobs /\ hold[w] = hold'[w] /\ att'[w] = att[w]
        /\ jobs'[hold[w]].attempt_count >= jobs[hold[w]].attempt_count
    BY <1>1, <1>3 DEF NoNewHolder, Monotone, IInv, QInv, QueueTypeOK
  <2>2. att[w] <= jobs[hold[w]].attempt_count
    BY <1>3, <2>1 DEF NoNewHolder, IInv, AttemptsExclusive
  <2>3. jobs[hold[w]].attempt_count \in Nat /\ jobs'[hold[w]].attempt_count \in Nat
    BY <1>3, <2>1 DEF IInv, QInv, QueueTypeOK, Row
  <2> QED BY <1>1, <1>3, <2>1, <2>2, <2>3
<1>4. \A w \in Workers : pc'[w] = "process" =>
        \A v \in Workers \ {w} :
          (pc'[v] = "process" /\ hold'[v] = hold'[w]) => att'[v] # att'[w]
  BY DEF NoNewHolder, IInv, AttemptsExclusive
<1>5. AttemptsExclusive'
  BY <1>3, <1>4 DEF AttemptsExclusive
<1>6. TypeOK'
  BY DEF TypeOK, WorkerTypeOK, QInv
<1> QED BY <1>2, <1>5, <1>6 DEF IInv

\* A claim makes a holder of an attempt number that nobody holds.
LEMMA ClaimStep ==
  ASSUME IInv, NEW w \in Workers, Claim(w)
  PROVE  IInv'
<1>1. PICK i \in Runnable :
        /\ ClaimNext(i)
        /\ hold' = [hold EXCEPT ![w] = i]
        /\ att' = [att EXCEPT ![w] = jobs[i].attempt_count + 1]
  BY DEF Claim
<1>2. /\ QInv' /\ Monotone
      /\ i \in DOMAIN jobs /\ i \in 1..lastId /\ DOMAIN jobs' = DOMAIN jobs
      /\ jobs'[i].attempt_count = jobs[i].attempt_count + 1
      /\ \A j \in DOMAIN jobs : j # i => jobs'[j] = jobs[j]
      /\ jobs[i].attempt_count \in Nat
  BY <1>1, ClaimQ, QInvRows DEF IInv
<1>3. /\ pc' = [pc EXCEPT ![w] = "process"]
      /\ UNCHANGED <<since, stopping, disruptions, lastId>>
  BY <1>1 DEF Claim, Goto, ClaimNext
<1>4. WorkerTypeOK'
  BY <1>1, <1>2, <1>3 DEF IInv, TypeOK, WorkerTypeOK, PC
<1>5. /\ pc'[w] = "process" /\ hold'[w] = i /\ att'[w] = jobs'[i].attempt_count
      /\ \A v \in Workers \ {w} :
           pc'[v] = pc[v] /\ hold'[v] = hold[v] /\ att'[v] = att[v]
  BY <1>1, <1>2, <1>3 DEF IInv, TypeOK
<1>6. \A v \in Workers : pc[v] = "process" => 
        /\ hold[v] \in 1..lastId /\ att[v] \in Nat /\ att[v] >= 1
        /\ hold[v] = i => att[v] <= jobs[i].attempt_count
        /\ hold[v] \in DOMAIN jobs => att[v] <= jobs[hold[v]].attempt_count
  BY <1>2, HolderFacts DEF IInv, AttemptsExclusive
<1>7. HolderOK'
  BY <1>2, <1>3, <1>5, <1>6 DEF HolderOK
<1>8. ASSUME NEW v \in Workers, pc'[v] = "process", hold'[v] \in DOMAIN jobs'
      PROVE  att'[v] <= jobs'[hold'[v]].attempt_count
  <2>1. CASE v = w
    BY <1>2, <1>5, <2>1
  <2>2. CASE v # w
    <3>1. pc[v] = "process" /\ hold'[v] = hold[v] /\ att'[v] = att[v]
      BY <1>5, <1>8, <2>2
    <3>2. CASE hold[v] = i
      BY <1>2, <1>6, <3>1, <3>2
    <3>3. CASE hold[v] # i
      BY <1>2, <1>6, <1>8, <3>1, <3>3
    <3> QED BY <3>2, <3>3
  <2> QED BY <2>1, <2>2
<1>9. ASSUME NEW v \in Workers, NEW u \in Workers \ {v}, pc'[v] = "process",
             pc'[u] = "process", hold'[u] = hold'[v]
      PROVE  att'[u] # att'[v]
  <2>1. CASE v = w
    BY <1>2, <1>5, <1>6, <1>9, <2>1
  <2>2. CASE u = w
    BY <1>2, <1>5, <1>6, <1>9, <2>2
  <2>3. CASE u # w /\ v # w
    BY <1>5, <1>9, <2>3 DEF IInv, AttemptsExclusive
  <2> QED BY <2>1, <2>2, <2>3
<1>10. AttemptsExclusive'
  BY <1>8, <1>9 DEF AttemptsExclusive
<1>11. TypeOK'
  BY <1>2, <1>4 DEF TypeOK, WorkerTypeOK, QInv
<1> QED BY <1>2, <1>7, <1>10, <1>11 DEF IInv

\* One step of the system, action by action.
LEMMA InvStep ==
  ASSUME IInv, [Next]_vars
  PROVE  IInv'
<1> USE WorkerAssumption
<1>q. QInv
  BY DEF IInv
<1>t. WorkerTypeOK /\ 0 \in 0..lastId
  BY QueueAssumption DEF IInv, TypeOK, WorkerTypeOK, QueueTypeOK
<1>0. ASSUME NEW w \in Workers, Start(w) \/ FallAsleep(w) \/ Wake(w)
                               \/ RequestShutdown(w) \/ Exit(w) \/ Die(w)
      PROVE  IInv'
  <2>1. UNCHANGED queueVars
    BY <1>0 DEF Start, FallAsleep, Wake, RequestShutdown, Exit, Die
  <2>2. QInv' /\ Monotone
    BY <1>q, <2>1, UnchangedQ DEF queueVars, QInv, QueueTypeOK
  <2>3. WorkerTypeOK'
    <3> USE <1>0, <1>t, <2>1 DEF WorkerTypeOK, queueVars, Start, FallAsleep, Wake,
            RequestShutdown, Exit, Die, Goto, LeaveJob
    <3>1. pc' \in [Workers -> PC]
      BY DEF PC
    <3>2. /\ hold' \in [Workers -> 0..lastId'] /\ att' \in [Workers -> Nat]
          /\ since' \in [Workers -> Nat]
      OBVIOUS
    <3>3. stopping' \in [Workers -> BOOLEAN]
      OBVIOUS
    <3>4. disruptions' \in 0..MaxDisruptions
      BY DEF Disrupt
    <3> QED BY <3>1, <3>2, <3>3, <3>4
  <2>4. NoNewHolder
    BY <1>0, <1>t DEF WorkerTypeOK, NoNewHolder, Start, FallAsleep, Wake,
       RequestShutdown, Exit, Die, Goto, LeaveJob, Disrupt
  <2> QED BY <2>2, <2>3, <2>4, HoldersKept
<1>1. ASSUME NEW w \in Workers, Startup(w) \/ RecoverStale(w)
                               \/ PurgeOldDeliveries(w) \/ PurgeOldJobs(w)
      PROVE  IInv'
  <2>1. RecoverAllProcessing \/ RecoverStaleJobs \/ PurgeDeliveries \/ PurgeCompleted
    BY <1>1 DEF Startup, RecoverStale, PurgeOldDeliveries, PurgeOldJobs
  <2>2. QInv' /\ Monotone /\ UNCHANGED lastId
    BY <1>q, <2>1, RecoverAllQ, RecoverStaleQ, PurgeDeliveriesQ, PurgeCompletedQ
       DEF Recovers
  <2>3. WorkerTypeOK'
    BY <1>1, <1>t, <2>2 DEF WorkerTypeOK, PC, Startup, RecoverStale,
       PurgeOldDeliveries, PurgeOldJobs, Goto
  <2>4. NoNewHolder
    BY <1>1, <1>t DEF WorkerTypeOK, NoNewHolder, Startup, RecoverStale,
       PurgeOldDeliveries, PurgeOldJobs, Goto
  <2> QED BY <2>2, <2>3, <2>4, HoldersKept
<1>2. ASSUME NEW w \in Workers, Succeed(w) \/ FailTransient(w) \/ FailPermanent(w)
      PROVE  IInv'
  <2>1. /\ pc[w] = "process" /\ LeaveJob(w) /\ Goto(w, "loop")
        /\ UNCHANGED <<since, stopping, disruptions>>
        /\ Complete(hold[w]) \/ Fail(hold[w], FALSE) \/ Fail(hold[w], TRUE)
    BY <1>2 DEF Succeed, FailTransient, FailPermanent, Finish
  <2>2. hold[w] \in DOMAIN jobs => jobs[hold[w]].attempt_count >= 1
    BY <2>1, HolderFacts
  <2>3. QInv' /\ Monotone /\ UNCHANGED lastId
    BY <1>q, <2>1, <2>2, CompleteQ, FailQ DEF ReportsOn
  <2>4. WorkerTypeOK'
    BY <1>t, <2>1, <2>3 DEF WorkerTypeOK, PC, LeaveJob, Goto
  <2>5. NoNewHolder
    BY <1>t, <2>1 DEF WorkerTypeOK, NoNewHolder, LeaveJob, Goto
  <2> QED BY <2>3, <2>4, <2>5, HoldersKept
<1>3. ASSUME NEW w \in Workers, Claim(w)
      PROVE  IInv'
  BY <1>3, ClaimStep
<1>4. ASSUME NEW k \in Keys, Submit(k)
      PROVE  IInv'
  <2>1. QInv' /\ Monotone /\ UNCHANGED workerVars
    BY <1>4, <1>q, EnqueueQ DEF Submit
  <2>2. WorkerTypeOK'
    BY <1>t, <2>1, QInvRows DEF WorkerTypeOK, workerVars, Monotone, QInv, QueueTypeOK, IInv
  <2>3. NoNewHolder
    BY <2>1 DEF NoNewHolder, workerVars
  <2> QED BY <2>1, <2>2, <2>3, HoldersKept
<1>7. ASSUME NEW d \in DeliveryIds, Receive(d)
      PROVE  IInv'
  <2>1. QInv' /\ Monotone /\ UNCHANGED <<jobs, lastId>> /\ UNCHANGED workerVars
    BY <1>7, <1>q, RecordDeliveryQ DEF Receive
  <2>2. WorkerTypeOK' /\ NoNewHolder
    BY <1>t, <2>1 DEF workerVars, WorkerTypeOK, NoNewHolder
  <2> QED BY <2>1, <2>2, HoldersKept
<1>5. CASE Tick
  <2>1. QInv' /\ Monotone /\ UNCHANGED lastId
    BY <1>5, <1>q, TickQ DEF Tick
  <2>2. \A n \in Nat : Older(n, MaintInterval + 1) \in Nat
    BY DEF Older, Null
  <2>3. WorkerTypeOK'
    BY <1>5, <1>t, <2>1, <2>2 DEF WorkerTypeOK, Tick
  <2>4. NoNewHolder
    BY <1>5 DEF NoNewHolder, Tick
  <2> QED BY <2>1, <2>3, <2>4, HoldersKept
<1>6. CASE UNCHANGED vars
  <2>1. QInv' /\ Monotone
    BY <1>6, <1>q, UnchangedQ DEF vars, queueVars, QInv, QueueTypeOK
  <2>2. WorkerTypeOK' /\ NoNewHolder
    BY <1>6, <1>t DEF vars, queueVars, workerVars, WorkerTypeOK, NoNewHolder
  <2> QED BY <2>1, <2>2, HoldersKept
<1> QED
  BY <1>0, <1>1, <1>2, <1>3, <1>4, <1>5, <1>6, <1>7 DEF Next, WorkerStep, Progress

\* Empty tables, workers not started.
LEMMA InvInit == Init => IInv
<1> SUFFICES ASSUME Init PROVE IInv
  OBVIOUS
<1>1. DOMAIN jobs = {} /\ jobs \in [{} -> Row]
      /\ DOMAIN deliveries = {} /\ deliveries \in [{} -> Nat]
  BY DEF Init, QueueInit
<1>2. QInv
  BY <1>1, QueueAssumption DEF Init, QueueInit, QInv, QueueTypeOK, AttemptsBounded,
     TimestampsConsistent
<1>3. TypeOK
  BY <1>2, WorkerAssumption DEF QInv, TypeOK, Init, QueueInit, WorkerInit, PC
<1>4. HolderOK /\ AttemptsExclusive
  BY DEF Init, WorkerInit, HolderOK, AttemptsExclusive
<1> QED BY <1>2, <1>3, <1>4 DEF IInv

\* IInv holds in every reachable state.
THEOREM Invariance == Spec => []IInv
<1>1. Init => IInv
  BY InvInit
<1>2. IInv /\ [Next]_vars => IInv'
  BY InvStep
<1> QED BY <1>1, <1>2, PTL DEF Spec

\* The tables and the workers' local state keep their types.
THEOREM TypeCorrect == Spec => []TypeOK
<1>1. IInv => TypeOK
  BY DEF IInv
<1> QED BY <1>1, Invariance, PTL

\* No job is attempted more often than max_attempts, by however many workers.
THEOREM AttemptLimit == Spec => []AttemptsBounded
<1>1. IInv => AttemptsBounded
  BY DEF IInv, QInv
<1> QED BY <1>1, Invariance, PTL

\* started_at and completed_at always agree with the status.
THEOREM TimestampsAgree == Spec => []TimestampsConsistent
<1>1. IInv => TimestampsConsistent
  BY DEF IInv, QInv
<1> QED BY <1>1, Invariance, PTL

\* No two workers ever hold the same attempt of a job.
THEOREM ClaimsExclusive == Spec => []AttemptsExclusive
<1>1. IInv => AttemptsExclusive
  BY DEF IInv
<1> QED BY <1>1, Invariance, PTL

-----------------------------------------------------------------------------
(***************************************************************************)
(* The deployment of compose.yaml: at most one worker process at a time,   *)
(* everything else as general as above.  The single worker is a hypothesis *)
(* of the theorems, not an assumption on the constants: run TwoWorkers     *)
(* shows that they fail without it.                                        *)
(***************************************************************************)

OneWorker == \A v, w \in Workers : v = w

\* A worker that processes nothing holds nothing.
IdleHoldsNothing == \A w \in Workers : pc[w] # "process" => hold[w] = 0

SInv == IInv /\ IdleHoldsNothing /\ HeldIsLeased /\ StrandedOnlyAtLimit

-----------------------------------------------------------------------------
(* What one step can do to the rows, as JobLifecycle sees them.            *)

SameRows == UNCHANGED lastId /\ DOMAIN jobs' = DOMAIN jobs

Kept(j) ==
  /\ jobs'[j].attempt_count = jobs[j].attempt_count
  /\ \/ jobs'[j].status = jobs[j].status
     \/ jobs[j].status \notin Settled /\ jobs'[j].status \notin Settled

Saved ==
  /\ lastId < MaxId /\ lastId' = lastId + 1
  /\ DOMAIN jobs' = DOMAIN jobs \cup {lastId + 1}
  /\ jobs'[lastId + 1].status = "queued" /\ jobs'[lastId + 1].attempt_count = 0
  /\ \A j \in DOMAIN jobs : jobs'[j] = jobs[j]

Attempted(i) ==
  /\ SameRows /\ i \in DOMAIN jobs
  /\ jobs[i].status \notin Settled /\ jobs'[i].status = "processing"
  /\ jobs[i].attempt_count < MaxAttempts
  /\ jobs'[i].attempt_count = jobs[i].attempt_count + 1
  /\ \A j \in DOMAIN jobs \ {i} : jobs'[j] = jobs[j]

Concluded(i) ==
  /\ SameRows /\ i \in DOMAIN jobs
  /\ jobs[i].status \notin Settled /\ jobs'[i].status \in Settled
  /\ jobs[i].attempt_count >= 1
  /\ jobs'[i].attempt_count = jobs[i].attempt_count
  /\ \A j \in DOMAIN jobs \ {i} : jobs'[j] = jobs[j]

\* Rows at the attempt limit may fail; the others are kept.
Abandoned ==
  /\ SameRows
  /\ \A j \in DOMAIN jobs :
       \/ Kept(j)
       \/ /\ jobs'[j].attempt_count = jobs[j].attempt_count
          /\ jobs[j].attempt_count = MaxAttempts
          /\ jobs[j].status \notin Settled /\ jobs'[j].status = "failed"

Purged ==
  /\ UNCHANGED lastId /\ DOMAIN jobs' \subseteq DOMAIN jobs
  /\ \A j \in DOMAIN jobs' : jobs'[j] = jobs[j]
  /\ \A j \in DOMAIN jobs \ DOMAIN jobs' : jobs[j].status \in Settled

Shape ==
  \/ Saved \/ Abandoned \/ Purged
  \/ \E i \in DOMAIN jobs : Attempted(i) \/ Concluded(i)

\* What QInv says of one row.
LEMMA StatusFacts ==
  ASSUME QInv, NEW j \in DOMAIN jobs
  PROVE  /\ jobs[j].status \in JobStatus /\ jobs[j].attempt_count \in Nat
         /\ jobs[j].attempt_count <= MaxAttempts /\ j \in 1..lastId /\ j # 0
BY QInvRows DEF RowInv, Row

\* enqueue saves one job or does nothing.
LEMMA EnqueueShape ==
  ASSUME QInv, NEW k \in Keys, Enqueue(k)
  PROVE  Saved \/ UNCHANGED <<jobs, lastId>>
<1>1. CASE UNCHANGED <<jobs, lastId>>
  BY <1>1
<1>2. CASE /\ lastId < MaxId
           /\ lastId' = lastId + 1
           /\ jobs' = [i \in DOMAIN jobs \cup {lastId + 1} |->
                         IF i = lastId + 1 THEN NewRow(k) ELSE jobs[i]]
  <2>1. \A j \in DOMAIN jobs : j # lastId + 1
    BY QInvRows
  <2>2. NewRow(k).status = "queued" /\ NewRow(k).attempt_count = 0
    BY DEF NewRow
  <2> QED BY <1>2, <2>1, <2>2 DEF Saved
<1> QED BY <1>1, <1>2 DEF Enqueue

\* Recovery re-queues jobs, which JobLifecycle does not see, or abandons them.
LEMMA RecoverShape ==
  ASSUME QInv, Recovers
  PROVE  Abandoned
<1>1. ASSUME NEW j \in DOMAIN jobs
      PROVE  \/ Kept(j)
             \/ /\ jobs'[j].attempt_count = jobs[j].attempt_count
                /\ jobs[j].attempt_count = MaxAttempts
                /\ jobs[j].status \notin Settled /\ jobs'[j].status = "failed"
  BY StatusFacts, QueueAssumption DEF Recovers, Kept, Settled
<1> QED BY <1>1 DEF Abandoned, SameRows, Recovers

-----------------------------------------------------------------------------
(* Every step has one of the shapes, and preserves SInv.                   *)

\* A step that is not a worker's leaves processing rows processing and adds
\* none.
LEMMA EnvironmentStep ==
  ASSUME SInv, IInv', UNCHANGED <<pc, hold, att>>,
         \A j \in DOMAIN jobs : /\ j \in DOMAIN jobs'
                                /\ jobs'[j].status = jobs[j].status
                                /\ jobs'[j].attempt_count = jobs[j].attempt_count,
         \A j \in DOMAIN jobs' \ DOMAIN jobs : jobs'[j].status = "queued"
  PROVE  SInv'
<1>1. IdleHoldsNothing'
  BY DEF SInv, IdleHoldsNothing
<1>2. Processing' = Processing
  BY DEF Processing
<1>3. HeldIsLeased'
  BY <1>2 DEF SInv, HeldIsLeased, Processing
<1>4. StrandedOnlyAtLimit'
  BY <1>2 DEF SInv, StrandedOnlyAtLimit, Processing
<1> QED BY <1>1, <1>3, <1>4 DEF SInv

\* A step of a worker that is not processing afterwards.
LEMMA IdleStep ==
  ASSUME OneWorker, SInv, IInv', NEW w \in Workers, pc'[w] # "process", hold'[w] = 0,
         pc'[w] \notin {"down", "startup"} =>
           \A j \in Processing' : jobs'[j].attempt_count = MaxAttempts
  PROVE  SInv'
BY DEF OneWorker, SInv, IdleHoldsNothing, HeldIsLeased, StrandedOnlyAtLimit

\* A step with one worker keeps SInv and has one of the shapes.
LEMMA SingleStep ==
  ASSUME OneWorker, SInv, [Next]_vars
  PROVE  SInv' /\ Shape
<1>i. IInv /\ QInv /\ IInv'
  BY InvStep DEF SInv, IInv
<1>t. WorkerTypeOK
  BY <1>i DEF IInv, TypeOK, WorkerTypeOK
<1>u. UNCHANGED <<jobs, lastId>> => Abandoned
  BY DEF Abandoned, SameRows, Kept
<1>0. ASSUME NEW w \in Workers, Start(w) \/ FallAsleep(w) \/ Wake(w) \/ Exit(w) \/ Die(w)
      PROVE  SInv' /\ Shape
  <2>1. UNCHANGED <<jobs, lastId>>
    BY <1>0 DEF Start, FallAsleep, Wake, Exit, Die, queueVars
  <2>2. pc'[w] # "process" /\ hold'[w] = 0
    BY <1>0, <1>t DEF WorkerTypeOK, SInv, IdleHoldsNothing, Start, FallAsleep, Wake,
       Exit, Die, Goto, LeaveJob, AtClaim
  <2>3. pc'[w] \notin {"down", "startup"} => /\ pc[w] \notin {"down", "startup"}
                                             /\ hold[w] = 0
    BY <1>0, <1>t DEF WorkerTypeOK, SInv, IdleHoldsNothing, Start, FallAsleep, Wake,
       Exit, Die, Goto, AtClaim
  <2>4. \A j \in Processing : j # 0
    BY <1>i, StatusFacts DEF Processing
  <2>5. pc'[w] \notin {"down", "startup"} =>
          \A j \in Processing' : jobs'[j].attempt_count = MaxAttempts
    BY <2>1, <2>3, <2>4 DEF SInv, StrandedOnlyAtLimit, Processing
  <2> QED BY <1>i, <1>u, <2>1, <2>2, <2>5, IdleStep DEF Shape
<1>1. ASSUME NEW w \in Workers, RequestShutdown(w)
      PROVE  SInv' /\ Shape
  <2>1. UNCHANGED <<jobs, lastId>> /\ UNCHANGED <<pc, hold, att>>
    BY <1>1 DEF RequestShutdown, queueVars
  <2> QED BY <1>i, <1>u, <2>1, EnvironmentStep DEF Shape
<1>2. ASSUME NEW w \in Workers, Startup(w)
      PROVE  SInv' /\ Shape
  <2>1. /\ Recovers
        /\ \A j \in DOMAIN jobs : jobs'[j].status = "processing" =>
             jobs[j].attempt_count = MaxAttempts
    BY <1>2, <1>i, RecoverAllQ DEF Startup
  <2>2. \A j \in Processing' : jobs'[j].attempt_count = MaxAttempts
    BY <2>1 DEF Recovers, Processing
  <2>3. pc'[w] # "process" /\ hold'[w] = 0
    BY <1>2, <1>t DEF WorkerTypeOK, SInv, IdleHoldsNothing, Startup, Goto
  <2> QED BY <1>i, <2>1, <2>2, <2>3, IdleStep, RecoverShape DEF Shape
<1>3. ASSUME NEW w \in Workers,
             RecoverStale(w) \/ PurgeOldDeliveries(w) \/ PurgeOldJobs(w)
      PROVE  SInv' /\ Shape
  <2>1. /\ pc[w] \notin {"down", "startup", "process"} /\ hold[w] = 0
        /\ pc'[w] # "process" /\ hold'[w] = 0
        /\ RecoverStaleJobs \/ PurgeDeliveries \/ PurgeCompleted
    BY <1>3, <1>t DEF WorkerTypeOK, SInv, IdleHoldsNothing, RecoverStale,
       PurgeOldDeliveries, PurgeOldJobs, Goto
  <2>2. Recovers \/ UNCHANGED <<jobs, lastId>> \/ Purged
    BY <1>i, <2>1, RecoverStaleQ, PurgeDeliveriesQ, PurgeCompletedQ DEF Purged
  <2>3. \A j \in Processing : jobs[j].attempt_count = MaxAttempts
    BY <1>i, <2>1, StatusFacts DEF SInv, StrandedOnlyAtLimit, Processing
  <2>4. \A j \in Processing' : jobs'[j].attempt_count = MaxAttempts
    BY <2>2, <2>3 DEF Processing, Recovers, Purged
  <2> QED BY <1>i, <1>u, <2>1, <2>2, <2>4, IdleStep, RecoverShape DEF Shape
<1>4. ASSUME NEW w \in Workers, Claim(w)
      PROVE  SInv' /\ Shape
  <2>1. PICK i \in Runnable :
          /\ ClaimNext(i)
          /\ hold' = [hold EXCEPT ![w] = i]
          /\ att' = [att EXCEPT ![w] = jobs[i].attempt_count + 1]
    BY <1>4 DEF Claim
  <2>2. /\ i \in DOMAIN jobs /\ i \in 1..lastId /\ DOMAIN jobs' = DOMAIN jobs
        /\ jobs[i].status = "queued" /\ jobs'[i].status = "processing"
        /\ jobs'[i].attempt_count = jobs[i].attempt_count + 1
        /\ \A j \in DOMAIN jobs : j # i => jobs'[j] = jobs[j]
        /\ UNCHANGED lastId
    BY <1>i, <2>1, ClaimQ DEF ClaimNext
  <2>3. jobs[i].attempt_count < MaxAttempts
    BY <1>i, <2>2 DEF QInv, AttemptsBounded
  <2>4. /\ pc[w] \notin {"down", "startup", "process"} /\ hold[w] = 0
        /\ pc'[w] = "process" /\ hold'[w] = i /\ att'[w] = jobs'[i].attempt_count
    BY <1>4, <1>t, <2>1, <2>2 DEF WorkerTypeOK, SInv, IdleHoldsNothing, Claim, AtClaim, Goto
  <2>5. \A j \in Processing : jobs[j].attempt_count = MaxAttempts
    BY <1>i, <2>4, StatusFacts DEF SInv, StrandedOnlyAtLimit, Processing
  <2>6. \A j \in Processing' : j = i \/ jobs'[j].attempt_count = MaxAttempts
    BY <2>2, <2>5 DEF Processing
  <2>7. i \in Processing'
    BY <2>2 DEF Processing
  <2>8. SInv'
    BY <1>i, <2>4, <2>6, <2>7 DEF OneWorker, SInv, IdleHoldsNothing, HeldIsLeased,
       StrandedOnlyAtLimit
  <2>9. Attempted(i)
    BY <2>2, <2>3 DEF Attempted, SameRows, Settled
  <2> QED BY <2>2, <2>8, <2>9 DEF Shape
<1>5. ASSUME NEW w \in Workers, Succeed(w) \/ FailTransient(w) \/ FailPermanent(w)
      PROVE  SInv' /\ Shape
  <2>1. /\ pc[w] = "process" /\ LeaveJob(w) /\ Goto(w, "loop")
        /\ Complete(hold[w]) \/ Fail(hold[w], FALSE) \/ Fail(hold[w], TRUE)
    BY <1>5 DEF Succeed, FailTransient, FailPermanent, Finish
  <2>2. /\ hold[w] \in DOMAIN jobs /\ jobs[hold[w]].status = "processing"
        /\ jobs[hold[w]].attempt_count >= 1
    BY <1>i, <2>1, HolderFacts DEF SInv, HeldIsLeased, Processing
  <2>3. /\ ReportsOn(hold[w])
        /\ jobs'[hold[w]].status \in {"completed", "failed", "queued"}
    BY <1>i, <2>1, <2>2, CompleteQ, FailQ
  <2>4. pc'[w] # "process" /\ hold'[w] = 0
    BY <1>t, <2>1 DEF WorkerTypeOK, LeaveJob, Goto
  <2>5. \A j \in Processing' : jobs'[j].attempt_count = MaxAttempts
    <3>1. \A j \in Processing' : j # hold[w] /\ j \in Processing /\ jobs'[j] = jobs[j]
      BY <2>3 DEF Processing, ReportsOn
    <3> QED BY <2>1, <3>1 DEF SInv, StrandedOnlyAtLimit
  <2>6. Concluded(hold[w]) \/ Abandoned
    BY <2>2, <2>3 DEF Concluded, Abandoned, SameRows, Kept, ReportsOn, Settled
  <2> QED BY <1>i, <2>2, <2>4, <2>5, <2>6, IdleStep DEF Shape
<1>6. ASSUME NEW k \in Keys, Submit(k)
      PROVE  SInv' /\ Shape
  <2>1. (Saved \/ UNCHANGED <<jobs, lastId>>) /\ UNCHANGED <<pc, hold, att>>
    BY <1>6, <1>i, EnqueueShape DEF Submit, workerVars
  <2> QED BY <1>i, <1>u, <2>1, EnvironmentStep DEF Shape, Saved
<1>9. ASSUME NEW d \in DeliveryIds, Receive(d)
      PROVE  SInv' /\ Shape
  <2>1. UNCHANGED <<jobs, lastId>> /\ UNCHANGED <<pc, hold, att>>
    BY <1>9, <1>i, RecordDeliveryQ DEF Receive, workerVars
  <2> QED BY <1>i, <1>u, <2>1, EnvironmentStep DEF Shape
<1>7. CASE Tick
  <2>1. /\ SameRows /\ UNCHANGED <<pc, hold, att>>
        /\ \A j \in DOMAIN jobs : /\ jobs'[j].status = jobs[j].status
                                  /\ jobs'[j].attempt_count = jobs[j].attempt_count
    BY <1>7, <1>i, TickQ DEF Tick, SameRows
  <2>2. Abandoned
    BY <2>1 DEF Abandoned, Kept
  <2>3. SInv'
    BY <1>i, <2>1, EnvironmentStep DEF SameRows
  <2> QED BY <2>2, <2>3 DEF Shape
<1>8. CASE UNCHANGED vars
  <2>1. UNCHANGED <<jobs, lastId>> /\ UNCHANGED <<pc, hold, att>>
    BY <1>8 DEF vars, queueVars, workerVars
  <2> QED BY <1>i, <1>u, <2>1, EnvironmentStep DEF Shape
<1> QED
  BY <1>0, <1>1, <1>2, <1>3, <1>4, <1>5, <1>6, <1>7, <1>8, <1>9
     DEF Next, WorkerStep, Progress

\* Empty tables, the worker not started.
LEMMA SingleInit == Init => SInv
<1> SUFFICES ASSUME Init PROVE SInv
  OBVIOUS
<1>1. IInv
  BY InvInit
<1>2. \A w \in Workers : pc[w] = "down" /\ hold[w] = 0
  BY DEF Init, WorkerInit
<1> QED BY <1>1, <1>2 DEF SInv, IdleHoldsNothing, HeldIsLeased, StrandedOnlyAtLimit

\* SInv holds in every reachable state when there is one worker.
LEMMA SingleInvariance == OneWorker => (Spec => []SInv)
<1> SUFFICES ASSUME OneWorker PROVE Spec => []SInv
  OBVIOUS
<1>1. Init => SInv
  BY SingleInit
<1>2. SInv /\ [Next]_vars => SInv'
  BY SingleStep
<1> QED BY <1>1, <1>2, PTL DEF Spec

\* With one worker, the job being processed stays a processing row that
\* counts this very attempt until process() reports, however long it takes.
THEOREM HeldStaysLeased == OneWorker => (Spec => []HeldIsLeased)
<1>1. SInv => HeldIsLeased
  BY DEF SInv
<1> QED BY <1>1, SingleInvariance, PTL

\* With one worker, only jobs interrupted in their last attempt are left in
\* processing by a worker that is past its startup.
THEOREM StrandedAtLimit == OneWorker => (Spec => []StrandedOnlyAtLimit)
<1>1. SInv => StrandedOnlyAtLimit
  BY DEF SInv
<1> QED BY <1>1, SingleInvariance, PTL

\* With one worker, no step re-runs or re-labels a completed or failed job.
THEOREM SettledStaysSettled == OneWorker => (Spec => SettledIsFinal)
<1> SUFFICES ASSUME OneWorker PROVE Spec => SettledIsFinal
  OBVIOUS
<1>1. SInv /\ [Next]_vars =>
        [\A i \in DOMAIN jobs \cap DOMAIN jobs' :
           jobs[i].status \in Settled => jobs'[i].status = jobs[i].status]_vars
  <2> SUFFICES ASSUME SInv, [Next]_vars, NEW i \in DOMAIN jobs \cap DOMAIN jobs',
                      jobs[i].status \in Settled
               PROVE  jobs'[i].status = jobs[i].status
    OBVIOUS
  <2>1. Shape
    BY SingleStep
  <2> QED BY <2>1 DEF Shape, Saved, Attempted, Concluded, Abandoned, Kept, Purged
<1>2. Spec => []SInv
  BY SingleInvariance
<1> QED BY <1>1, <1>2, PTL DEF Spec, SettledIsFinal

-----------------------------------------------------------------------------
(* Refinement: the shapes are the steps of JobLifecycle.                   *)

\* An id not used yet is an absent job.
LEMMA LifeUnsaved ==
  ASSUME QInv, NEW i \in 1..MaxId, i > lastId
  PROVE  LifeOf(i) = "absent" /\ TriesOf(i) = 0
BY QInvRows, QueueAssumption DEF LifeOf, TriesOf

\* A row shows its job's life and attempts.
LEMMA LifeSaved ==
  ASSUME QInv, NEW i \in DOMAIN jobs
  PROVE  /\ i \in 1..MaxId /\ i <= lastId /\ TriesOf(i) = jobs[i].attempt_count
         /\ jobs[i].status \in Settled => LifeOf(i) = jobs[i].status
         /\ jobs[i].status \notin Settled => LifeOf(i) = "pending"
<1>1. i \in 1..lastId /\ lastId \in 0..MaxId
  BY QInvRows
<1> QED BY <1>1, QueueAssumption DEF LifeOf, TriesOf

\* A saved row is JobLifecycle's Save.
LEMMA SavedRefines ==
  ASSUME QInv, QInv', Saved
  PROVE  Lifecycle!Next
<1>0. PICK n \in 1..MaxId : n = lastId + 1
  BY QInvRows, QueueAssumption DEF Saved
<1>1. n > lastId /\ n = lastId + 1 /\ lastId \in 0..MaxId
  BY <1>0, QInvRows, QueueAssumption
<1>2. /\ LifeOf(n) = "absent" /\ TriesOf(n) = 0
      /\ LifeOf(n)' = "pending" /\ TriesOf(n)' = 0
  BY <1>1, LifeUnsaved DEF Saved, LifeOf, TriesOf, Settled
<1>3. \A j \in 1..MaxId : j # n => LifeOf(j)' = LifeOf(j) /\ TriesOf(j)' = TriesOf(j)
  BY <1>1, QInvRows DEF Saved, LifeOf, TriesOf
<1>4. \A j \in 1..MaxId : j < n => LifeOf(j) # "absent"
  BY <1>1, QInvRows DEF LifeOf, Settled
<1>5. Lifecycle!Save(n)
  BY <1>1, <1>2, <1>3, <1>4 DEF Lifecycle!Save, Lifecycle!Ids
<1> QED BY <1>1, <1>5 DEF Lifecycle!Next, Lifecycle!Ids

\* Rows that a step leaves as they are look the same to JobLifecycle.
LEMMA LifeKept ==
  ASSUME QInv, UNCHANGED lastId, NEW j \in 1..MaxId,
         j \in DOMAIN jobs <=> j \in DOMAIN jobs',
         j \in DOMAIN jobs => Kept(j)
  PROVE  LifeOf(j)' = LifeOf(j) /\ TriesOf(j)' = TriesOf(j)
BY DEF LifeOf, TriesOf, Kept

\* A claimed row is its Attempt.
LEMMA AttemptedRefines ==
  ASSUME QInv, QInv', NEW i \in DOMAIN jobs, Attempted(i)
  PROVE  Lifecycle!Next
<1>1. /\ i \in 1..MaxId /\ i <= lastId /\ LifeOf(i) = "pending"
      /\ TriesOf(i) = jobs[i].attempt_count
  BY LifeSaved DEF Attempted
<1>2. TriesOf(i)' = TriesOf(i) + 1 /\ LifeOf(i)' = "pending" /\ TriesOf(i) < MaxAttempts
  BY <1>1, QInvRows DEF Attempted, SameRows, LifeOf, TriesOf, Settled
<1>3. \A j \in 1..MaxId : j # i => LifeOf(j)' = LifeOf(j) /\ TriesOf(j)' = TriesOf(j)
  BY LifeKept DEF Attempted, SameRows, Kept
<1>4. Lifecycle!Attempt(i)
  BY <1>1, <1>2, <1>3 DEF Lifecycle!Attempt, Lifecycle!Ids
<1> QED BY <1>1, <1>4 DEF Lifecycle!Next, Lifecycle!Ids

\* A row that complete or fail settles is its Conclude.
LEMMA ConcludedRefines ==
  ASSUME QInv, QInv', NEW i \in DOMAIN jobs, Concluded(i)
  PROVE  Lifecycle!Next
<1>1. /\ i \in 1..MaxId /\ i <= lastId /\ LifeOf(i) = "pending"
      /\ TriesOf(i) = jobs[i].attempt_count
  BY LifeSaved DEF Concluded
<1>2. TriesOf(i)' = TriesOf(i) /\ LifeOf(i)' \in Settled /\ TriesOf(i) > 0
  BY <1>1, QInvRows DEF Concluded, SameRows, LifeOf, TriesOf
<1>3. \A j \in 1..MaxId : j # i => LifeOf(j)' = LifeOf(j) /\ TriesOf(j)' = TriesOf(j)
  BY LifeKept DEF Concluded, SameRows, Kept
<1>4. Lifecycle!Conclude(i)
  BY <1>1, <1>2, <1>3 DEF Lifecycle!Conclude, Lifecycle!Ids, Lifecycle!Final, Settled
<1> QED BY <1>1, <1>4 DEF Lifecycle!Next, Lifecycle!Ids

\* Rows that recovery fails are its Abandon.
LEMMA AbandonedRefines ==
  ASSUME QInv, QInv', Abandoned
  PROVE  Lifecycle!Next
<1> DEFINE S == {j \in DOMAIN jobs : ~Kept(j)}
<1>1. \A j \in S : /\ j \in 1..MaxId /\ LifeOf(j) = "pending" /\ TriesOf(j) = MaxAttempts
                   /\ LifeOf(j)' = "failed" /\ TriesOf(j)' = TriesOf(j)
  <2> SUFFICES ASSUME NEW j \in S
               PROVE  /\ j \in 1..MaxId /\ LifeOf(j) = "pending"
                      /\ TriesOf(j) = MaxAttempts
                      /\ LifeOf(j)' = "failed" /\ TriesOf(j)' = TriesOf(j)
    OBVIOUS
  <2>1. /\ jobs'[j].attempt_count = jobs[j].attempt_count
        /\ jobs[j].attempt_count = MaxAttempts
        /\ jobs[j].status \notin Settled /\ jobs'[j].status = "failed"
        /\ j \in DOMAIN jobs' /\ lastId' = lastId
    BY DEF Abandoned, SameRows
  <2>2. /\ j \in 1..MaxId /\ j <= lastId /\ LifeOf(j) = "pending"
        /\ TriesOf(j) = jobs[j].attempt_count /\ lastId \in Nat
    BY <2>1, LifeSaved, QInvRows
  <2> QED BY <2>1, <2>2 DEF LifeOf, TriesOf, Settled
<1>2. \A j \in 1..MaxId : j \notin S => LifeOf(j)' = LifeOf(j) /\ TriesOf(j)' = TriesOf(j)
  BY LifeKept DEF Abandoned, SameRows
<1>3. S \in SUBSET Lifecycle!Ids
  BY <1>1 DEF Lifecycle!Ids
<1>4. Lifecycle!Abandon(S)
  BY <1>1, <1>2 DEF Lifecycle!Abandon, Lifecycle!Ids
<1> QED BY <1>3, <1>4 DEF Lifecycle!Next

\* Purged rows are its Forget.
LEMMA PurgedRefines ==
  ASSUME QInv, QInv', Purged
  PROVE  Lifecycle!Next
<1> DEFINE S == DOMAIN jobs \ DOMAIN jobs'
<1>1. \A j \in S : /\ j \in 1..MaxId /\ LifeOf(j) \in Settled
                   /\ LifeOf(j)' = "purged" /\ TriesOf(j)' = 0
  <2> SUFFICES ASSUME NEW j \in S
               PROVE  /\ j \in 1..MaxId /\ LifeOf(j) \in Settled
                      /\ LifeOf(j)' = "purged" /\ TriesOf(j)' = 0
    OBVIOUS
  <2>1. jobs[j].status \in Settled /\ j \notin DOMAIN jobs' /\ lastId' = lastId
    BY DEF Purged
  <2>2. /\ j \in 1..MaxId /\ j <= lastId /\ LifeOf(j) = jobs[j].status
        /\ lastId \in Nat
    BY <2>1, LifeSaved, QInvRows
  <2> QED BY <2>1, <2>2 DEF LifeOf, TriesOf
<1>2. \A j \in 1..MaxId : j \notin S => LifeOf(j)' = LifeOf(j) /\ TriesOf(j)' = TriesOf(j)
  BY LifeKept DEF Purged, Kept
<1>3. S \in SUBSET Lifecycle!Ids
  BY <1>1 DEF Lifecycle!Ids
<1>4. Lifecycle!Forget(S)
  BY <1>1, <1>2 DEF Lifecycle!Forget, Lifecycle!Ids, Lifecycle!Final, Settled
<1> QED BY <1>3, <1>4 DEF Lifecycle!Next

\* An empty table is its initial state.
LEMMA InitRefines == Init => Lifecycle!Init
<1> SUFFICES ASSUME Init PROVE Lifecycle!Init
  OBVIOUS
<1>1. \A i \in 1..MaxId : i > lastId
  BY DEF Init, QueueInit
<1>2. QInv
  BY InvInit DEF IInv
<1>3. \A i \in 1..MaxId : LifeOf(i) = "absent" /\ TriesOf(i) = 0
  BY <1>1, <1>2, LifeUnsaved
<1> QED BY <1>3 DEF Lifecycle!Init, Lifecycle!Ids

\* With one worker, the queue and the worker implement JobLifecycle: each
\* job is attempted at most MaxAttempts times, concluded once and for good,
\* and forgotten only when settled.
THEOREM Refinement == OneWorker => (Spec => ImplementsLifecycle)
<1> SUFFICES ASSUME OneWorker PROVE Spec => Lifecycle!Spec
  BY DEF ImplementsLifecycle
<1>1. Init => Lifecycle!Init
  BY InitRefines
<1>2. SInv /\ SInv' /\ [Next]_vars => [Lifecycle!Next]_(Lifecycle!lifeVars)
  <2> SUFFICES ASSUME SInv, SInv', [Next]_vars PROVE Lifecycle!Next
    OBVIOUS
  <2>1. Shape /\ QInv /\ QInv'
    BY SingleStep DEF SInv, IInv
  <2> QED BY <2>1, SavedRefines, AttemptedRefines, ConcludedRefines,
             AbandonedRefines, PurgedRefines DEF Shape
<1>3. Spec => []SInv
  BY SingleInvariance
<1> QED BY <1>1, <1>2, <1>3, PTL DEF Spec, Lifecycle!Spec
=============================================================================
