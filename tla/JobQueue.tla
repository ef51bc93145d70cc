------------------------------ MODULE JobQueue ------------------------------
(***************************************************************************)
(* The durable SQLite job queue of app/queue.py over the schema of         *)
(* app/db.py: the tables jobs and webhook_deliveries, and one action for   *)
(* each method of JobQueue that writes them.  Every method runs in a       *)
(* single BEGIN IMMEDIATE transaction (db.transaction), so every method is *)
(* one atomic step; which process calls it, and when, is left to the       *)
(* modules Worker and Webhook.                                             *)
(*                                                                         *)
(* Time.  The code stores timestamps and compares them with now.  Here a   *)
(* timestamp is kept as its distance from now: available_in counts down to *)
(* 0, the ..._ago columns count up and stop where no comparison of the     *)
(* code can tell them apart any more.  Tick lets one unit of time pass.    *)
(* The state space is therefore finite without a bound on time.            *)
(***************************************************************************)
EXTENDS Integers

CONSTANTS
  Keys,              \* dedupe keys, i.e. (project, ref, before, after)
  DeliveryIds,       \* values of the X-GitHub-Delivery header
  MaxId,             \* bound: rows ever inserted (AUTOINCREMENT stops here)
  MaxAttempts,       \* max_attempts
  Lease,             \* lease_seconds
  BackoffBase,       \* retry_backoff_seconds
  BackoffCap,        \* the 900 seconds that cap the backoff
  JobRetention,      \* older_than_days of purge_completed
  DeliveryRetention  \* older_than_hours of purge_deliveries

VARIABLES
  jobs,              \* table jobs: a function from the ids of its rows
  lastId,            \* AUTOINCREMENT counter of jobs.id
  deliveries         \* table webhook_deliveries: delivery_id -> received_ago

queueVars == <<jobs, lastId, deliveries>>

-----------------------------------------------------------------------------
(* Columns and rows.                                                       *)

Null == -1           \* SQL NULL in a timestamp column

JobStatus == {"queued", "processing", "completed", "failed"}
Settled == {"completed", "failed"}

\* No row waits longer than the cap of the backoff.
Row == [key           : Keys,
        status        : JobStatus,
        attempt_count : Nat,
        available_in  : 0..BackoffCap,
        started_ago   : Nat \cup {Null},
        completed_ago : Nat \cup {Null}]

\* Mutant: the delay is not capped.
BackoffUncapped(attempts) == BackoffBase * 2^(attempts - 1)

\* _now() + timedelta(seconds=delay): exponential backoff, capped.
Backoff(attempts) ==
  LET delay == BackoffBase * 2^(attempts - 1)
  IN  IF delay <= BackoffCap THEN delay ELSE BackoffCap

ASSUME QueueAssumption ==
  /\ MaxId \in Nat
  /\ MaxAttempts \in Nat \ {0}
  /\ Lease \in Nat
  /\ BackoffCap \in Nat
  /\ JobRetention \in Nat
  /\ DeliveryRetention \in Nat
  /\ \A a \in 1..MaxAttempts : Backoff(a) \in Nat

QueueInit ==
  /\ jobs = [i \in {} |-> 0]
  /\ lastId = 0
  /\ deliveries = [d \in {} |-> 0]

-----------------------------------------------------------------------------
(* Producer: the webhook process.                                          *)

NewRow(k) ==
  [key |-> k, status |-> "queued", attempt_count |-> 0,
   available_in |-> 0, started_ago |-> Null, completed_ago |-> Null]

HasRow(k) == \E i \in DOMAIN jobs : jobs[i].key = k

\* enqueue: INSERT ... ON CONFLICT(dedupe_key) DO NOTHING.
Enqueue(k) ==
  /\ \/ /\ HasRow(k)
        /\ UNCHANGED <<jobs, lastId>>
     \/ /\ ~HasRow(k)
        /\ lastId < MaxId
        /\ lastId' = lastId + 1
        /\ jobs' = [i \in DOMAIN jobs \cup {lastId + 1} |->
                      IF i = lastId + 1 THEN NewRow(k) ELSE jobs[i]]
  /\ UNCHANGED deliveries

\* record_delivery: INSERT ... ON CONFLICT(delivery_id) DO NOTHING; it
\* returns TRUE exactly when d was not in the table.
RecordDelivery(d) ==
  /\ deliveries' = [e \in DOMAIN deliveries \cup {d} |->
                      IF e \in DOMAIN deliveries THEN deliveries[e] ELSE 0]
  /\ UNCHANGED <<jobs, lastId>>

-----------------------------------------------------------------------------
(* Consumer: a worker process.                                             *)

\* UPDATE jobs SET ... WHERE id IN ids, each row r becoming New(r).
Update(ids, New(_)) ==
  jobs' = [i \in DOMAIN jobs |-> IF i \in ids THEN New(jobs[i]) ELSE jobs[i]]

Runnable ==
  {i \in DOMAIN jobs : jobs[i].status = "queued" /\ jobs[i].available_in = 0}

\* Mutant: the attempt is not counted when the row is claimed.
ClaimUncounted(i) ==
  /\ i \in Runnable
  /\ \A j \in Runnable : i <= j
  /\ Update({i}, LAMBDA r : [r EXCEPT !.status = "processing",
                                      !.started_ago = 0])
  /\ UNCHANGED <<lastId, deliveries>>

\* claim_next returning row i: the runnable row with the smallest id.
ClaimNext(i) ==
  /\ i \in Runnable
  /\ \A j \in Runnable : i <= j
  /\ Update({i}, LAMBDA r : [r EXCEPT !.status = "processing",
                                      !.started_ago = 0,
                                      !.attempt_count = @ + 1])
  /\ UNCHANGED <<lastId, deliveries>>

\* Mutant: completed_at is left NULL.
CompleteUndated(i) ==
  /\ Update({i}, LAMBDA r : [r EXCEPT !.status = "completed"])
  /\ UNCHANGED <<lastId, deliveries>>

\* complete(job_id): unconditional on the row's status.
Complete(i) ==
  /\ Update({i}, LAMBDA r : [r EXCEPT !.status = "completed",
                                      !.completed_ago = 0])
  /\ UNCHANGED <<lastId, deliveries>>

\* attempts >= max_attempts, a missing row counting as exhausted.
Exhausted(i) == i \in DOMAIN jobs => jobs[i].attempt_count >= MaxAttempts

\* Mutant: the re-queued row keeps its started_at.
FailKeepsStart(i, permanent) ==
  /\ \/ /\ permanent \/ Exhausted(i)
        /\ Update({i}, LAMBDA r : [r EXCEPT !.status = "failed",
                                            !.completed_ago = 0])
     \/ /\ ~permanent /\ ~Exhausted(i)
        /\ Update({i}, LAMBDA r : [r EXCEPT !.status = "queued",
                                            !.available_in = Backoff(r.attempt_count)])
  /\ UNCHANGED <<lastId, deliveries>>

\* fail(job_id, permanent): unconditional on the row's status as well.
Fail(i, permanent) ==
  /\ \/ /\ permanent \/ Exhausted(i)
        /\ Update({i}, LAMBDA r : [r EXCEPT !.status = "failed",
                                            !.completed_ago = 0])
     \/ /\ ~permanent /\ ~Exhausted(i)
        /\ Update({i}, LAMBDA r : [r EXCEPT !.status = "queued",
                                            !.available_in = Backoff(r.attempt_count),
                                            !.started_ago = Null])
  /\ UNCHANGED <<lastId, deliveries>>

-----------------------------------------------------------------------------
(* Recovery and retention, called by the worker.                           *)

Processing == {i \in DOMAIN jobs : jobs[i].status = "processing"}

LeaseExpired(i) == jobs[i].started_ago = Null \/ jobs[i].started_ago >= Lease

\* Mutant: the second UPDATE, for jobs at the attempt limit, is missing.
RecoverStaleBelowLimit ==
  /\ Update({i \in Processing : LeaseExpired(i) /\ jobs[i].attempt_count < MaxAttempts},
            LAMBDA r : [r EXCEPT !.status = "queued", !.started_ago = Null])
  /\ UNCHANGED <<lastId, deliveries>>

\* recover_stale_jobs: expired leases are re-queued, or failed outright at
\* the attempt limit.  Both UPDATEs are one transaction.
RecoverStaleJobs ==
  /\ LET stale == {i \in Processing : LeaseExpired(i)}
         spent == {i \in stale : jobs[i].attempt_count >= MaxAttempts}
     IN  jobs' = [i \in DOMAIN jobs |->
                    CASE i \in stale \ spent -> [jobs[i] EXCEPT !.status = "queued",
                                                                !.started_ago = Null]
                      [] i \in spent -> [jobs[i] EXCEPT !.status = "failed",
                                                        !.completed_ago = 0]
                      [] OTHER -> jobs[i]]
  /\ UNCHANGED <<lastId, deliveries>>

\* Mutant: no attempt limit.
RecoverAllUnlimited ==
  /\ Update(Processing,
            LAMBDA r : [r EXCEPT !.status = "queued", !.started_ago = Null])
  /\ UNCHANGED <<lastId, deliveries>>

\* Mutant: no condition on the status.
RecoverAllRows ==
  /\ Update({i \in DOMAIN jobs : jobs[i].attempt_count < MaxAttempts},
            LAMBDA r : [r EXCEPT !.status = "queued", !.started_ago = Null])
  /\ UNCHANGED <<lastId, deliveries>>

\* recover_all_processing: every processing row below the attempt limit.
RecoverAllProcessing ==
  /\ Update({i \in Processing : jobs[i].attempt_count < MaxAttempts},
            LAMBDA r : [r EXCEPT !.status = "queued", !.started_ago = Null])
  /\ UNCHANGED <<lastId, deliveries>>

\* Mutant: the cutoff is one unit too late.
PurgeTooEarly ==
  /\ jobs' = [i \in {j \in DOMAIN jobs :
                       ~ /\ jobs[j].status \in Settled
                         /\ jobs[j].completed_ago # Null
                         /\ jobs[j].completed_ago >= JobRetention} |-> jobs[i]]
  /\ UNCHANGED <<lastId, deliveries>>

\* purge_completed: completed_at < now - retention; NULL never compares.
PurgeCompleted ==
  /\ jobs' = [i \in {j \in DOMAIN jobs :
                       ~ /\ jobs[j].status \in Settled
                         /\ jobs[j].completed_ago # Null
                         /\ jobs[j].completed_ago > JobRetention} |-> jobs[i]]
  /\ UNCHANGED <<lastId, deliveries>>

\* purge_deliveries: received_at < now - retention.
PurgeDeliveries ==
  /\ deliveries' = [d \in {e \in DOMAIN deliveries :
                             deliveries[e] <= DeliveryRetention} |-> deliveries[d]]
  /\ UNCHANGED <<jobs, lastId>>

-----------------------------------------------------------------------------
(* The clock.                                                              *)

Sooner(t) == IF t = 0 THEN 0 ELSE t - 1
Older(t, limit) == IF t = Null \/ t >= limit THEN t ELSE t + 1

\* One unit of time passes for every stored timestamp.
QueueTick ==
  /\ jobs' = [i \in DOMAIN jobs |->
                [jobs[i] EXCEPT !.available_in = Sooner(@),
                                !.started_ago = Older(@, Lease),
                                !.completed_ago = Older(@, JobRetention + 1)]]
  /\ deliveries' = [d \in DOMAIN deliveries |->
                      Older(deliveries[d], DeliveryRetention + 1)]
  /\ UNCHANGED lastId

QueueTypeOK ==
  /\ lastId \in 0..MaxId
  /\ DOMAIN jobs \subseteq 1..lastId
  /\ jobs \in [DOMAIN jobs -> Row]
  /\ DOMAIN deliveries \subseteq DeliveryIds
  /\ deliveries \in [DOMAIN deliveries -> Nat]
=============================================================================
