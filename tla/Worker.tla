------------------------------- MODULE Worker -------------------------------
(***************************************************************************)
(* The worker process of app/worker.py: the claim -> analyse -> complete   *)
(* loop over the queue of module JobQueue, run by any number of worker     *)
(* processes.  A worker is down, or stands between two database            *)
(* transactions of run; pc names the place.  What the analysis of a job    *)
(* does inside is left to module Pipeline: here it ends in one of the      *)
(* three ways process distinguishes, or the process dies under it.         *)
(*                                                                         *)
(* All database calls of the loop are synchronous, so a signal handler     *)
(* runs only at an await: while the worker sleeps or processes a job.      *)
(***************************************************************************)
EXTENDS JobQueue

CONSTANTS
  Workers,          \* worker processes
  MaintInterval,    \* MAINTENANCE_INTERVAL_SECONDS
  MaxDisruptions    \* bound: shutdown requests and deaths outside a job

ASSUME WorkerAssumption ==
  /\ MaintInterval \in Nat
  /\ MaxDisruptions \in Nat

VARIABLES
  pc,               \* where each worker stands in run
  hold,             \* id of the job being processed, 0 when none
  att,              \* attempt_count of the Job object being processed
  since,            \* time since last_maintenance
  stopping,         \* the _shutdown event
  disruptions       \* deaths outside a job and shutdown requests so far

workerVars == <<pc, hold, att, since, stopping, disruptions>>
vars == <<queueVars, workerVars>>

PC == {"down", "startup", "loop", "purge_deliveries", "purge_completed",
       "claim", "sleep", "process"}

WorkerInit ==
  /\ pc = [w \in Workers |-> "down"]
  /\ hold = [w \in Workers |-> 0]
  /\ att = [w \in Workers |-> 0]
  /\ since = [w \in Workers |-> 0]
  /\ stopping = [w \in Workers |-> FALSE]
  /\ disruptions = 0

Goto(w, place) == pc' = [pc EXCEPT ![w] = place]

-----------------------------------------------------------------------------
(* Start of the process and of run.                                        *)

\* main_async: the container (re)starts and builds a Worker.
Start(w) ==
  /\ pc[w] = "down"
  /\ Goto(w, "startup")
  /\ UNCHANGED <<queueVars, hold, att, since, stopping, disruptions>>

\* Mutant: startup honours the lease.
StartupStaleOnly(w) ==
  /\ pc[w] = "startup"
  /\ RecoverStaleJobs
  /\ since' = [since EXCEPT ![w] = 0]
  /\ Goto(w, "loop")
  /\ UNCHANGED <<hold, att, stopping, disruptions>>

\* run up to the loop: reclaim every stuck job, start the maintenance clock.
Startup(w) ==
  /\ pc[w] = "startup"
  /\ RecoverAllProcessing
  /\ since' = [since EXCEPT ![w] = 0]
  /\ Goto(w, "loop")
  /\ UNCHANGED <<hold, att, stopping, disruptions>>

-----------------------------------------------------------------------------
(* One turn of the loop.                                                   *)

MaintenanceDue(w) == since[w] > MaintInterval

\* Mutant: recovery runs on a timer, also while a job is processed.
RecoverStaleOnTimer(w) ==
  /\ pc[w] \in {"loop", "process"} /\ ~stopping[w] /\ MaintenanceDue(w)
  /\ RecoverStaleJobs
  /\ pc' = [pc EXCEPT ![w] = IF @ = "loop" THEN "purge_deliveries" ELSE @]
  /\ UNCHANGED <<hold, att, since, stopping, disruptions>>

\* _maintenance is three transactions with nothing awaited in between.
RecoverStale(w) ==
  /\ pc[w] = "loop" /\ ~stopping[w] /\ MaintenanceDue(w)
  /\ RecoverStaleJobs
  /\ Goto(w, "purge_deliveries")
  /\ UNCHANGED <<hold, att, since, stopping, disruptions>>

PurgeOldDeliveries(w) ==
  /\ pc[w] = "purge_deliveries"
  /\ PurgeDeliveries
  /\ Goto(w, "purge_completed")
  /\ UNCHANGED <<hold, att, since, stopping, disruptions>>

PurgeOldJobs(w) ==
  /\ pc[w] = "purge_completed"
  /\ PurgeCompleted
  /\ since' = [since EXCEPT ![w] = 0]
  /\ Goto(w, "claim")
  /\ UNCHANGED <<hold, att, stopping, disruptions>>

AtClaim(w) ==
  \/ pc[w] = "claim"
  \/ pc[w] = "loop" /\ ~stopping[w] /\ ~MaintenanceDue(w)

Claim(w) ==
  /\ AtClaim(w)
  /\ \E i \in Runnable :
       /\ ClaimNext(i)
       /\ hold' = [hold EXCEPT ![w] = i]
       /\ att' = [att EXCEPT ![w] = jobs[i].attempt_count + 1]
  /\ Goto(w, "process")
  /\ UNCHANGED <<since, stopping, disruptions>>

\* claim_next returned None.
FallAsleep(w) ==
  /\ AtClaim(w)
  /\ Runnable = {}
  /\ Goto(w, "sleep")
  /\ UNCHANGED <<queueVars, hold, att, since, stopping, disruptions>>

\* Mutant: the sleep consumes the shutdown event that ended it.
WakeAndClear(w) ==
  /\ pc[w] = "sleep"
  /\ Goto(w, "loop")
  /\ stopping' = [stopping EXCEPT ![w] = FALSE]
  /\ UNCHANGED <<queueVars, hold, att, since, disruptions>>

\* _sleep returns: the poll delay is over or shutdown was requested.
Wake(w) ==
  /\ pc[w] = "sleep"
  /\ Goto(w, "loop")
  /\ UNCHANGED <<queueVars, hold, att, since, stopping, disruptions>>

-----------------------------------------------------------------------------
(* process(job): the three ways an analysis ends.                          *)

LeaveJob(w) ==
  /\ hold' = [hold EXCEPT ![w] = 0]
  /\ att' = [att EXCEPT ![w] = 0]

Finish(w, Record(_)) ==
  /\ pc[w] = "process"
  /\ Record(hold[w])
  /\ LeaveJob(w)
  /\ Goto(w, "loop")
  /\ UNCHANGED <<since, stopping, disruptions>>

Succeed(w) == Finish(w, Complete)

\* any Exception other than the two permanent ones
FailTransient(w) == Finish(w, LAMBDA i : Fail(i, FALSE))

\* PermanentJobError or UnknownRevisionError
FailPermanent(w) == Finish(w, LAMBDA i : Fail(i, TRUE))

-----------------------------------------------------------------------------
(* Shutdown and death.                                                     *)

Disrupt ==
  /\ disruptions < MaxDisruptions
  /\ disruptions' = disruptions + 1

\* SIGTERM or SIGINT, handled by the event loop at an await.
RequestShutdown(w) ==
  /\ pc[w] \in {"sleep", "process"}
  /\ ~stopping[w]
  /\ Disrupt
  /\ stopping' = [stopping EXCEPT ![w] = TRUE]
  /\ UNCHANGED <<queueVars, pc, hold, att, since>>

\* The while condition is false: aclose, and the process ends.
Exit(w) ==
  /\ pc[w] = "loop" /\ stopping[w]
  /\ stopping' = [stopping EXCEPT ![w] = FALSE]
  /\ Goto(w, "down")
  /\ UNCHANGED <<queueVars, hold, att, since, disruptions>>

\* Kill, power loss, or a database error that leaves run (a fail or complete
\* that raises included).  A death while processing needs no bound: every
\* claim spends an attempt.
Die(w) ==
  /\ pc[w] # "down"
  /\ IF pc[w] = "process" THEN UNCHANGED disruptions ELSE Disrupt
  /\ LeaveJob(w)
  /\ stopping' = [stopping EXCEPT ![w] = FALSE]
  /\ Goto(w, "down")
  /\ UNCHANGED <<queueVars, since>>

-----------------------------------------------------------------------------
(* The specification.                                                      *)

\* What the worker does by itself once its container is kept running.
Progress(w) ==
  \/ Start(w) \/ Startup(w)
  \/ RecoverStale(w) \/ PurgeOldDeliveries(w) \/ PurgeOldJobs(w)
  \/ Claim(w) \/ FallAsleep(w) \/ Wake(w)
  \/ Succeed(w) \/ FailTransient(w) \/ FailPermanent(w)
  \/ Exit(w)

WorkerStep(w) == Progress(w) \/ RequestShutdown(w) \/ Die(w)

\* The webhook process inserts a push (see module Webhook).
Submit(k) == Enqueue(k) /\ UNCHANGED workerVars

\* The webhook process registers a delivery id.
Receive(d) == RecordDelivery(d) /\ UNCHANGED workerVars

Tick ==
  /\ QueueTick
  /\ since' = [w \in Workers |-> Older(since[w], MaintInterval + 1)]
  /\ UNCHANGED <<pc, hold, att, stopping, disruptions>>

Init == QueueInit /\ WorkerInit

Next ==
  \/ \E w \in Workers : WorkerStep(w)
  \/ \E k \in Keys : Submit(k)
  \/ \E d \in DeliveryIds : Receive(d)
  \/ Tick

Spec == Init /\ [][Next]_vars

Fairness ==
  /\ \A w \in Workers : WF_vars(Progress(w))
  /\ WF_vars(Tick)

FairSpec == Spec /\ Fairness

-----------------------------------------------------------------------------
(* Invariants that hold for any number of workers.                         *)

\* Types of the tables and of each worker's local state.
TypeOK ==
  /\ QueueTypeOK
  /\ pc \in [Workers -> PC]
  /\ hold \in [Workers -> 0..lastId]
  /\ att \in [Workers -> Nat]
  /\ since \in [Workers -> Nat]
  /\ stopping \in [Workers -> BOOLEAN]
  /\ disruptions \in 0..MaxDisruptions

\* The attempt limit of queue.py is never exceeded and a job that waits to be
\* claimed always has an attempt left, whatever the workers, the recoveries
\* and a late fail() do.
AttemptsBounded ==
  \A i \in DOMAIN jobs :
    /\ jobs[i].attempt_count <= MaxAttempts
    /\ jobs[i].status = "queued" => jobs[i].attempt_count < MaxAttempts

\* The NULLable columns agree with the status, so that no comparison with a
\* NULL hides a row from recovery (started_at) or from retention
\* (completed_at) for ever.
TimestampsConsistent ==
  \A i \in DOMAIN jobs :
    /\ (jobs[i].status = "processing") => (jobs[i].started_ago # Null)
    /\ (jobs[i].status = "queued") => (jobs[i].started_ago = Null)
    /\ (jobs[i].status \in Settled) => (jobs[i].completed_ago # Null)

\* queue.py: "claim_next is atomic -- two workers never claim the same row".
\* Two live workers may hold one job (after a recovery), but never the same
\* attempt of it, and no worker holds an attempt the row does not count.
AttemptsExclusive ==
  \A w \in Workers : pc[w] = "process" =>
    /\ hold[w] \in DOMAIN jobs => att[w] <= jobs[hold[w]].attempt_count
    /\ \A v \in Workers \ {w} :
         (pc[v] = "process" /\ hold[v] = hold[w]) => att[v] # att[w]

-----------------------------------------------------------------------------
(* Properties of the deployment with one worker (compose.yaml).            *)

\* The job a worker processes is, until it reports, a processing row that
\* counts this attempt: nobody re-queued, settled or purged it meanwhile,
\* however long the analysis outlives the lease.
HeldIsLeased ==
  \A w \in Workers : pc[w] = "process" =>
    /\ hold[w] \in Processing
    /\ jobs[hold[w]].attempt_count = att[w]

\* A settled job never runs again and never changes its outcome.
SettledIsFinal ==
  [][\A i \in DOMAIN jobs \cap DOMAIN jobs' :
       jobs[i].status \in Settled => jobs'[i].status = jobs[i].status]_vars

\* Past its startup, the only jobs a worker leaves in processing without
\* working on them are those interrupted in their last attempt.
StrandedOnlyAtLimit ==
  \A w \in Workers : pc[w] \notin {"down", "startup"} =>
    \A i \in Processing : i = hold[w] \/ jobs[i].attempt_count = MaxAttempts

\* At most one worker works on a job at any time (db.py: "WAL mode plus short
\* IMMEDIATE transactions make concurrent workers safe"; locks.py: "the lock
\* makes multi-worker safe").
OneWorkerPerJob ==
  \A v, w \in Workers :
    (v # w /\ pc[v] = "process" /\ pc[w] = "process") => hold[v] # hold[w]

-----------------------------------------------------------------------------
(* Liveness.                                                               *)

Unsettled(i) == i \in DOMAIN jobs /\ jobs[i].status \notin Settled

\* Every push that got a row is settled, be it a job that kills the worker on
\* every attempt: interrupted jobs are recovered and attempts run out.
EveryJobSettles == \A i \in 1..MaxId : Unsettled(i) ~> ~Unsettled(i)

\* request_shutdown: "finishing current job", and then the process ends.
ShutdownEnds == \A w \in Workers : stopping[w] ~> (pc[w] = "down")

\* Retention: a settled row does not stay in the table for ever.
SettledIsPurged ==
  \A i \in 1..MaxId :
    (i \in DOMAIN jobs /\ jobs[i].status \in Settled)
      ~> (i \notin DOMAIN jobs \/ Unsettled(i))
=============================================================================
