----------------------------- MODULE BotProofs -----------------------------
(***************************************************************************)
(* Proofs about the composed system, for any set of requests and workers.  *)
(***************************************************************************)
EXTENDS Bot, WorkerProofs

-----------------------------------------------------------------------------
(* The receiver is an environment of the worker.                           *)

\* A handler's step is an enqueue, a record_delivery or nothing to the database.
LEMMA WebhookSteps ==
  ASSUME WebhookStep
  PROVE  \/ UNCHANGED queueVars
         \/ \E d \in DeliveryIds : RecordDelivery(d)
         \/ \E k \in Keys : Enqueue(k)
<1> PICK r \in Requests : Handle(r) \/ CutOff(r)
  BY DEF WebhookStep
<1>1. r.key \in Keys /\ r.id \in DeliveryIds \cup {NoId}
  BY WebhookAssumption DEF Request
<1>2. CASE TurnAway(r) \/ Drop(r) \/ CutOff(r)
  BY <1>2 DEF TurnAway, Drop, CutOff
<1>3. CASE Record(r) \/ Replay(r)
  BY <1>1, <1>3 DEF Record, Replay
<1>4. CASE Store(r)
  BY <1>1, <1>4 DEF Store
<1> QED BY <1>2, <1>3, <1>4 DEF Handle

\* A step of the system is a step of Worker or a stutter.
LEMMA BotStepIsWorkerStep ==
  ASSUME [BotNext]_botVars
  PROVE  [Next]_vars
<1>1. CASE \E w \in Workers : WorkerStep(w) /\ UNCHANGED webhookVars
  BY <1>1 DEF Next
<1>2. CASE WebhookStep /\ UNCHANGED workerVars
  BY <1>2, WebhookSteps DEF Next, Submit, Receive, vars
<1>3. CASE Tick /\ WebhookTick
  BY <1>3 DEF Next
<1>4. CASE UNCHANGED botVars
  BY <1>4 DEF botVars
<1> QED BY <1>1, <1>2, <1>3, <1>4 DEF BotNext

\* Every behaviour of the system is one of Worker, so that the theorems of
\* WorkerProofs hold of the system as well.
THEOREM BotImplementsWorker == BotSpec => ImplementsWorker
<1>1. BotInit => Init
  BY DEF BotInit
<1>2. [BotNext]_botVars => [Next]_vars
  BY BotStepIsWorkerStep
<1> QED BY <1>1, <1>2, PTL DEF BotSpec, Spec, ImplementsWorker

-----------------------------------------------------------------------------
(* No re-run within the retention.  A row is never older than savedAgo     *)
(* says, and a key without a row was saved more than the retention ago.    *)

SavedType == savedAgo \in [Keys -> Nat \cup {Null}]

Remembered ==
  \A i \in DOMAIN jobs :
    /\ savedAgo[jobs[i].key] # Null
    /\ jobs[i].completed_ago <= savedAgo[jobs[i].key]

Forgotten ==
  \A k \in Keys : (savedAgo[k] # Null /\ ~HasRow(k)) => savedAgo[k] > JobRetention

BInv == IInv /\ SavedType /\ Remembered /\ Forgotten

\* What the worker does to the columns the argument is about.
RowsOnlySettle ==
  /\ DOMAIN jobs' \subseteq DOMAIN jobs
  /\ \A i \in DOMAIN jobs' : /\ jobs'[i].key = jobs[i].key
                             /\ jobs'[i].completed_ago \in {jobs[i].completed_ago, 0}
  /\ \A i \in DOMAIN jobs \ DOMAIN jobs' : jobs[i].completed_ago > JobRetention

\* claim_next keeps the key and completed_at.
LEMMA ClaimedColumns ==
  ASSUME NEW r \in Row, NEW n
  PROVE  LET s == [r EXCEPT !.status = "processing", !.started_ago = 0,
                            !.attempt_count = n]
         IN  s.key = r.key /\ s.completed_ago = r.completed_ago
BY DEF Row

\* So does fail when it re-queues.
LEMMA BackedOffColumns ==
  ASSUME NEW r \in Row, NEW d
  PROVE  LET s == [r EXCEPT !.status = "queued", !.available_in = d,
                            !.started_ago = Null]
         IN  s.key = r.key /\ s.completed_ago = r.completed_ago
BY DEF Row

\* Worker steps insert no rows, keep keys, and delete rows only when old enough.
LEMMA WorkerOnlySettles ==
  ASSUME IInv, NEW w \in Workers, WorkerStep(w)
  PROVE  RowsOnlySettle
<1>r. \A i \in DOMAIN jobs : jobs[i] \in Row
  BY DEF IInv, QInv, QueueTypeOK
<1>1. \/ UNCHANGED jobs
      \/ RecoverAllProcessing \/ RecoverStaleJobs \/ PurgeDeliveries \/ PurgeCompleted
      \/ \E i \in Runnable : ClaimNext(i)
      \/ Complete(hold[w]) \/ Fail(hold[w], FALSE) \/ Fail(hold[w], TRUE)
  BY DEF WorkerStep, Progress, Start, Startup, RecoverStale, PurgeOldDeliveries,
     PurgeOldJobs, Claim, FallAsleep, Wake, Succeed, FailTransient, FailPermanent,
     Finish, Exit, RequestShutdown, Die, queueVars
<1>2. CASE UNCHANGED jobs \/ PurgeDeliveries
  BY <1>2 DEF RowsOnlySettle, PurgeDeliveries
<1>3. CASE RecoverAllProcessing
  BY <1>r, <1>3 DEF RowsOnlySettle, RecoverAllProcessing, Update, Row
<1>4. CASE RecoverStaleJobs
  BY <1>r, <1>4 DEF RowsOnlySettle, RecoverStaleJobs, Row
<1>5. CASE PurgeCompleted
  BY <1>r, <1>5 DEF RowsOnlySettle, PurgeCompleted
<1>6. CASE \E i \in Runnable : ClaimNext(i)
  <2>1. PICK i \in DOMAIN jobs : ClaimNext(i)
    BY <1>6 DEF Runnable
  <2>2. /\ DOMAIN jobs' = DOMAIN jobs
        /\ jobs'[i] = [jobs[i] EXCEPT !.status = "processing", !.started_ago = 0,
                                      !.attempt_count = jobs[i].attempt_count + 1]
        /\ \A j \in DOMAIN jobs : j # i => jobs'[j] = jobs[j]
    BY <2>1 DEF ClaimNext, Update
  <2>3. jobs'[i].key = jobs[i].key /\ jobs'[i].completed_ago = jobs[i].completed_ago
    BY <1>r, <2>2, ClaimedColumns
  <2> QED BY <2>2, <2>3 DEF RowsOnlySettle
<1>7. CASE Complete(hold[w])
  BY <1>r, <1>7 DEF RowsOnlySettle, Complete, Update, Row
<1>8. CASE Fail(hold[w], FALSE) \/ Fail(hold[w], TRUE)
  <2> DEFINE h == hold[w]
  <2>1. /\ DOMAIN jobs' = DOMAIN jobs
        /\ \A j \in DOMAIN jobs : j # h => jobs'[j] = jobs[j]
        /\ h \in DOMAIN jobs =>
             \/ jobs'[h] = [jobs[h] EXCEPT !.status = "failed", !.completed_ago = 0]
             \/ jobs'[h] = [jobs[h] EXCEPT !.status = "queued",
                                           !.available_in = Backoff(jobs[h].attempt_count),
                                           !.started_ago = Null]
    BY <1>8 DEF Fail, Update
  <2>2. ASSUME h \in DOMAIN jobs
        PROVE  /\ jobs'[h].key = jobs[h].key
               /\ jobs'[h].completed_ago \in {jobs[h].completed_ago, 0}
    <3>1. CASE jobs'[h] = [jobs[h] EXCEPT !.status = "failed", !.completed_ago = 0]
      BY <1>r, <2>2, <3>1 DEF Row
    <3>2. CASE jobs'[h] = [jobs[h] EXCEPT !.status = "queued",
                                          !.available_in = Backoff(jobs[h].attempt_count),
                                          !.started_ago = Null]
      BY <1>r, <2>2, <3>2, BackedOffColumns
    <3> QED BY <2>1, <2>2, <3>1, <3>2
  <2> QED BY <2>1, <2>2 DEF RowsOnlySettle
<1> QED BY <1>1, <1>2, <1>3, <1>4, <1>5, <1>6, <1>7, <1>8

\* Such a step keeps BInv.
LEMMA SettlingKeeps ==
  ASSUME BInv, IInv', RowsOnlySettle, UNCHANGED savedAgo
  PROVE  BInv'
<1>r. \A i \in DOMAIN jobs : jobs[i].key \in Keys /\ jobs[i].completed_ago \in Nat \cup {Null}
  BY DEF BInv, IInv, QInv, QueueTypeOK, Row
<1>1. SavedType' /\ JobRetention \in Nat
  BY QueueAssumption DEF BInv, SavedType
<1>2. Remembered'
  <2> SUFFICES ASSUME NEW i \in DOMAIN jobs'
               PROVE  /\ savedAgo[jobs'[i].key] # Null
                      /\ jobs'[i].completed_ago <= savedAgo[jobs'[i].key]
    BY DEF Remembered
  <2>1. /\ i \in DOMAIN jobs /\ jobs'[i].key = jobs[i].key
        /\ jobs'[i].completed_ago \in {jobs[i].completed_ago, 0}
    BY DEF RowsOnlySettle
  <2>2. /\ savedAgo[jobs[i].key] # Null /\ savedAgo[jobs[i].key] \in Nat
        /\ jobs[i].completed_ago <= savedAgo[jobs[i].key]
    BY <1>r, <2>1 DEF BInv, Remembered, SavedType
  <2> QED BY <2>1, <2>2
<1>3. Forgotten'
  <2> SUFFICES ASSUME NEW k \in Keys, savedAgo[k] # Null, ~HasRow(k)'
               PROVE  savedAgo[k] > JobRetention
    BY DEF Forgotten
  <2>1. CASE ~HasRow(k)
    BY <2>1 DEF BInv, Forgotten
  <2>2. CASE HasRow(k)
    <3>1. PICK i \in DOMAIN jobs : jobs[i].key = k
      BY <2>2 DEF HasRow
    <3>2. jobs[i].completed_ago > JobRetention
      BY <3>1 DEF HasRow, RowsOnlySettle
    <3>3. jobs[i].completed_ago <= savedAgo[k] /\ savedAgo[k] \in Nat
      BY <3>1 DEF BInv, Remembered, SavedType
    <3> QED BY <1>r, <1>1, <3>1, <3>2, <3>3 DEF Null
  <2> QED BY <2>1, <2>2
<1> QED BY <1>1, <1>2, <1>3 DEF BInv

\* A new row only for a key that has none, which is then saved now.
LEMMA StoreKeeps ==
  ASSUME BInv, IInv', NEW r \in Requests, Store(r)
  PROVE  /\ BInv'
         /\ \A i \in DOMAIN jobs' \ DOMAIN jobs :
              savedAgo[jobs'[i].key] = Null \/ savedAgo[jobs'[i].key] > JobRetention
<1>k. r.key \in Keys
  BY WebhookAssumption DEF Request
<1>1. CASE HasRow(r.key)
  <2>1. UNCHANGED <<jobs, savedAgo>>
    BY <1>1 DEF Store, Enqueue
  <2>2. RowsOnlySettle
    BY <2>1 DEF RowsOnlySettle
  <2> QED BY <2>1, <2>2, SettlingKeeps
<1>2. CASE ~HasRow(r.key)
  <2> DEFINE n == lastId + 1
  <2>1. /\ jobs' = [i \in DOMAIN jobs \cup {n} |-> IF i = n THEN NewRow(r.key) ELSE jobs[i]]
        /\ savedAgo' = [savedAgo EXCEPT ![r.key] = 0]
    BY <1>2 DEF Store, Enqueue
  <2>2. \A i \in DOMAIN jobs : /\ i # n /\ jobs'[i] = jobs[i] /\ jobs[i].key \in Keys
                               /\ jobs[i].key # r.key
    <3>1. \A i \in DOMAIN jobs : i # n
      BY QInvRows DEF BInv, IInv
    <3> QED BY <1>2, <2>1, <3>1 DEF HasRow, BInv, IInv, QInv, QueueTypeOK, Row
  <2>3. jobs'[n].key = r.key /\ jobs'[n].completed_ago = Null
    BY <2>1 DEF NewRow
  <2>4. SavedType'
    BY <1>k, <2>1 DEF BInv, SavedType
  <2>5. /\ savedAgo'[r.key] = 0
        /\ \A k \in Keys : k # r.key => savedAgo'[k] = savedAgo[k]
    BY <1>k, <2>1 DEF BInv, SavedType
  <2>6. Remembered'
    <3> SUFFICES ASSUME NEW i \in DOMAIN jobs'
                 PROVE  /\ savedAgo'[jobs'[i].key] # Null
                        /\ jobs'[i].completed_ago <= savedAgo'[jobs'[i].key]
      BY DEF Remembered
    <3>1. CASE i \in DOMAIN jobs
      BY <2>2, <2>5, <3>1 DEF BInv, Remembered
    <3>2. CASE i = n
      BY <2>3, <2>5, <3>2 DEF Null
    <3> QED BY <2>1, <3>1, <3>2
  <2>7. Forgotten'
    <3> SUFFICES ASSUME NEW k \in Keys, savedAgo'[k] # Null, ~HasRow(k)'
                 PROVE  savedAgo'[k] > JobRetention
      BY DEF Forgotten
    <3>1. k # r.key
      BY <2>1, <2>3 DEF HasRow
    <3>2. ~HasRow(k)
      BY <2>1, <2>2 DEF HasRow
    <3> QED BY <2>5, <3>1, <3>2 DEF BInv, Forgotten
  <2>8. savedAgo[r.key] = Null \/ savedAgo[r.key] > JobRetention
    BY <1>k, <1>2 DEF BInv, Forgotten
  <2> QED BY <2>1, <2>3, <2>4, <2>6, <2>7, <2>8 DEF BInv
<1> QED BY <1>1, <1>2

\* Time ages a row's completion no faster than the saving of its key.
LEMMA TickKeeps ==
  ASSUME BInv, IInv', Tick, WebhookTick
  PROVE  BInv' /\ DOMAIN jobs' = DOMAIN jobs
<1> DEFINE L == JobRetention + 1
<1>0. L \in Nat /\ JobRetention \in Nat
  BY QueueAssumption
<1>1. savedAgo' = [k \in Keys |-> Older(savedAgo[k], L)]
  BY DEF WebhookTick
<1>2. \A t \in Nat \cup {Null} : /\ Older(t, L) \in Nat \cup {Null}
                                 /\ Older(t, L) = Null <=> t = Null
                                 /\ t > JobRetention => Older(t, L) > JobRetention
  BY <1>0 DEF Older, Null
<1>3. \A s, t \in Nat \cup {Null} : s <= t /\ t # Null => Older(s, L) <= Older(t, L)
  BY <1>0 DEF Older, Null
<1>4. SavedType'
  BY <1>1, <1>2 DEF BInv, SavedType
<1>5. /\ DOMAIN jobs' = DOMAIN jobs
      /\ \A i \in DOMAIN jobs : /\ jobs'[i].key = jobs[i].key /\ jobs[i].key \in Keys
                                /\ jobs[i].completed_ago \in Nat \cup {Null}
                                /\ jobs'[i].completed_ago = Older(jobs[i].completed_ago, L)
  <2>1. DOMAIN jobs' = DOMAIN jobs
    BY DEF Tick, QueueTick
  <2> SUFFICES ASSUME NEW i \in DOMAIN jobs
               PROVE  /\ jobs'[i].key = jobs[i].key /\ jobs[i].key \in Keys
                      /\ jobs[i].completed_ago \in Nat \cup {Null}
                      /\ jobs'[i].completed_ago = Older(jobs[i].completed_ago, L)
    BY <2>1
  <2>2. jobs[i] \in Row
    BY DEF BInv, IInv, QInv, QueueTypeOK
  <2>3. PICK a, b, c : /\ c = Older(jobs[i].completed_ago, L)
                       /\ a = Sooner(jobs[i].available_in)
                       /\ b = Older(jobs[i].started_ago, Lease)
    OBVIOUS
  <2>4. jobs'[i] = [jobs[i] EXCEPT !.available_in = a, !.started_ago = b,
                                   !.completed_ago = c]
    BY <2>3 DEF Tick, QueueTick
  <2> QED BY <2>2, <2>3, <2>4 DEF Row
<1>6. Remembered'
  <2> SUFFICES ASSUME NEW i \in DOMAIN jobs
               PROVE  /\ savedAgo'[jobs'[i].key] # Null
                      /\ jobs'[i].completed_ago <= savedAgo'[jobs'[i].key]
    BY <1>5 DEF Remembered
  <2>1. /\ savedAgo[jobs[i].key] # Null /\ savedAgo[jobs[i].key] \in Nat \cup {Null}
        /\ jobs[i].completed_ago <= savedAgo[jobs[i].key]
    BY <1>5 DEF BInv, Remembered, SavedType
  <2>2. savedAgo'[jobs'[i].key] = Older(savedAgo[jobs[i].key], L)
    BY <1>1, <1>5
  <2>3. jobs'[i].completed_ago = Older(jobs[i].completed_ago, L)
        /\ jobs[i].completed_ago \in Nat \cup {Null}
    BY <1>5
  <2> QED BY <1>2, <1>3, <2>1, <2>2, <2>3
<1>7. Forgotten'
  <2> SUFFICES ASSUME NEW k \in Keys, savedAgo'[k] # Null, ~HasRow(k)'
               PROVE  savedAgo'[k] > JobRetention
    BY DEF Forgotten
  <2>1. savedAgo'[k] = Older(savedAgo[k], L) /\ savedAgo[k] \in Nat \cup {Null}
    BY <1>1 DEF BInv, SavedType
  <2>2. ~HasRow(k) /\ savedAgo[k] # Null
    BY <1>2, <1>5, <2>1 DEF HasRow
  <2>3. savedAgo[k] > JobRetention
    BY <2>2 DEF BInv, Forgotten
  <2> QED BY <1>2, <2>1, <2>3
<1> QED BY <1>4, <1>5, <1>6, <1>7 DEF BInv

\* BInv is inductive, and a new row is a new push or comes after the retention.
LEMMA BotStep ==
  ASSUME BInv, [BotNext]_botVars
  PROVE  /\ BInv'
         /\ \A i \in DOMAIN jobs' \ DOMAIN jobs :
              savedAgo[jobs'[i].key] = Null \/ savedAgo[jobs'[i].key] > JobRetention
<1>i. IInv /\ IInv'
  BY BotStepIsWorkerStep, InvStep DEF BInv
<1>0. ASSUME UNCHANGED <<jobs, savedAgo>> PROVE BInv' /\ DOMAIN jobs' = DOMAIN jobs
  BY <1>0, <1>i, SettlingKeeps DEF RowsOnlySettle
<1>1. CASE \E w \in Workers : WorkerStep(w) /\ UNCHANGED webhookVars
  <2>1. RowsOnlySettle /\ UNCHANGED savedAgo
    BY <1>1, <1>i, WorkerOnlySettles DEF webhookVars
  <2> QED BY <1>i, <2>1, SettlingKeeps DEF RowsOnlySettle
<1>2. CASE WebhookStep /\ UNCHANGED workerVars
  <2>1. PICK r \in Requests : Handle(r) \/ CutOff(r)
    BY <1>2 DEF WebhookStep
  <2>2. CASE Store(r)
    BY <1>i, <2>2, StoreKeeps
  <2>3. CASE ~Store(r)
    <3>1. UNCHANGED <<jobs, savedAgo>>
      BY <2>1, <2>3 DEF Handle, TurnAway, Record, Replay, Drop, CutOff,
         RecordDelivery, queueVars
    <3> QED BY <1>0, <3>1
  <2> QED BY <2>2, <2>3
<1>3. CASE Tick /\ WebhookTick
  BY <1>3, <1>i, TickKeeps
<1>4. CASE UNCHANGED botVars
  BY <1>0, <1>4 DEF botVars, vars, queueVars, webhookVars
<1> QED BY <1>1, <1>2, <1>3, <1>4 DEF BotNext

\* A push is not saved, and so not analysed, twice within the job retention,
\* with any number of workers and whatever is delivered and purged when.
THEOREM NoRerun == BotSpec => NoRerunWithinRetention
<1>1. BotInit => BInv
  <2> SUFFICES ASSUME BotInit PROVE BInv
    OBVIOUS
  <2>1. IInv
    BY InvInit DEF BotInit
  <2>2. DOMAIN jobs = {} /\ savedAgo = [k \in Keys |-> Null]
    BY DEF BotInit, Init, QueueInit, WebhookInit
  <2> QED BY <2>1, <2>2 DEF BInv, SavedType, Remembered, Forgotten
<1>2. BInv /\ [BotNext]_botVars => BInv'
  BY BotStep
<1>3. BInv /\ [BotNext]_botVars =>
        [\A i \in DOMAIN jobs' \ DOMAIN jobs :
           LET ago == savedAgo[jobs'[i].key]
           IN  ago = Null \/ ago > JobRetention]_botVars
  BY BotStep
<1> QED BY <1>1, <1>2, <1>3, PTL DEF BotSpec, NoRerunWithinRetention

-----------------------------------------------------------------------------
(* What the receiver promises to GitHub, by itself and in the system.      *)

\* Every row in the table was saved by a handler.
RowsSaved ==
  \A i \in DOMAIN jobs : jobs[i].key \in Keys /\ savedAgo[jobs[i].key] # Null

\* As long as no handler was cut off, the push of a recorded delivery id has
\* been saved or is in the hands of the handler.
IdsSaved ==
  failures = 0 =>
    \A r \in Requests :
      (ReachesQueue(r) /\ WorthAJob(r) /\ r.id # NoId /\ r.id \in DOMAIN deliveries)
      => savedAgo[r.key] # Null \/ (current # NoRequest /\ current.id = r.id)

AnswerIsToARequest == answer.req = NoRequest => answer.status = "none"

WInv == /\ ReceiverTypeOK /\ RowsSaved /\ IdsSaved
        /\ AnswerIsToARequest /\ SavedUnlessCutOff

\* What the rest of the system does to the tables.
OthersSettle ==
  /\ DOMAIN jobs' \subseteq DOMAIN jobs
  /\ \A i \in DOMAIN jobs' : jobs'[i].key = jobs[i].key
  /\ DOMAIN deliveries' \subseteq DOMAIN deliveries

\* A request that verify_webhook lets through is trusted.
LEMMA VerifiedIsTrusted ==
  ASSUME NEW r, Verified(r)
  PROVE  Trusted(r)
BY DEF Verified, Verify, Compare, Trusted

\* A key that was saved stays saved in any step of a handler.
LEMMA StoreSaves ==
  ASSUME WInv, NEW r \in Requests, Store(r)
  PROVE  /\ savedAgo' \in [Keys -> Nat \cup {Null}]
         /\ savedAgo'[r.key] # Null
         /\ \A k \in Keys : savedAgo[k] # Null => savedAgo'[k] # Null
         /\ RowsSaved'
<1>k. r.key \in Keys
  BY WebhookAssumption DEF Request
<1>t. savedAgo \in [Keys -> Nat \cup {Null}] /\ RowsSaved
  BY DEF WInv, ReceiverTypeOK
<1>1. CASE HasRow(r.key)
  <2>1. UNCHANGED <<jobs, savedAgo>>
    BY <1>1 DEF Store, Enqueue
  <2>2. savedAgo[r.key] # Null
    BY <1>1, <1>t DEF HasRow, RowsSaved
  <2> QED BY <1>t, <2>1, <2>2 DEF RowsSaved
<1>2. CASE ~HasRow(r.key)
  <2> DEFINE n == lastId + 1
  <2>1. /\ jobs' = [i \in DOMAIN jobs \cup {n} |-> IF i = n THEN NewRow(r.key) ELSE jobs[i]]
        /\ savedAgo' = [savedAgo EXCEPT ![r.key] = 0]
    BY <1>2 DEF Store, Enqueue
  <2>2. /\ savedAgo' \in [Keys -> Nat \cup {Null}]
        /\ savedAgo'[r.key] # Null
        /\ \A k \in Keys : savedAgo[k] # Null => savedAgo'[k] # Null
    BY <1>k, <1>t, <2>1 DEF Null
  <2>3. RowsSaved'
    <3> SUFFICES ASSUME NEW i \in DOMAIN jobs'
                 PROVE  jobs'[i].key \in Keys /\ savedAgo'[jobs'[i].key] # Null
      BY DEF RowsSaved
    <3>1. CASE i = n
      BY <1>k, <2>1, <2>2, <3>1 DEF NewRow
    <3>2. CASE i # n
      <4>1. i \in DOMAIN jobs /\ jobs'[i] = jobs[i]
        BY <2>1, <3>2
      <4> QED BY <1>t, <2>2, <4>1 DEF RowsSaved
    <3> QED BY <3>1, <3>2
  <2> QED BY <2>2, <2>3
<1> QED BY <1>1, <1>2

\* A handler's step keeps the types of the receiver's state.
LEMMA HandlerTypes ==
  ASSUME WInv, WebhookStep
  PROVE  ReceiverTypeOK'
<1>1. PICK r \in Requests : Handle(r) \/ CutOff(r)
  BY DEF WebhookStep
<1>t. ReceiverTypeOK
  BY DEF WInv
<1>0. cfg' = cfg /\ \A q : ReachesQueue(q)' <=> ReachesQueue(q)
  BY <1>1 DEF Handle, TurnAway, Record, Replay, Drop, Store, CutOff,
     ReachesQueue, Verified, Verify
<1>2. CASE TurnAway(r)
  <2>1. Turned(r) \in Answers
    BY DEF Turned, Answers
  <2> QED BY <1>0, <1>t, <1>2, <2>1 DEF TurnAway, ReceiverTypeOK, Answer
<1>3. CASE Record(r)
  BY <1>0, <1>t, <1>3 DEF Record, ReceiverTypeOK
<1>4. CASE Replay(r)
  BY <1>0, <1>t, <1>4 DEF Replay, ReceiverTypeOK, Answer, Answers
<1>5. CASE Drop(r)
  BY <1>0, <1>t, <1>5 DEF Drop, ReceiverTypeOK, Answer, Answers
<1>6. CASE Store(r)
  BY <1>0, <1>t, <1>6, StoreSaves DEF Store, ReceiverTypeOK, Answer, Answers
<1>7. CASE CutOff(r)
  <2>1. failures' \in 0..MaxFailures
    <3>1. failures \in 0..MaxFailures /\ MaxFailures \in Nat
      BY <1>t, WebhookAssumption DEF ReceiverTypeOK
    <3>2. failures < MaxFailures /\ failures' = failures + 1
      BY <1>7 DEF CutOff
    <3> QED BY <3>1, <3>2
  <2> QED BY <1>0, <1>t, <1>7, <2>1 DEF CutOff, ReceiverTypeOK, Answer, Answers
<1> QED BY <1>1, <1>2, <1>3, <1>4, <1>5, <1>6, <1>7 DEF Handle

\* A handler's step keeps WInv: an id is recorded for the push in hand, and
\* the handler lets go of a push that is worth a job only once it is saved.
LEMMA HandlerKeeps ==
  ASSUME WInv, WebhookStep
  PROVE  WInv'
<1>1. PICK r \in Requests : Handle(r) \/ CutOff(r)
  BY DEF WebhookStep
<1>0. cfg' = cfg /\ \A q : ReachesQueue(q)' <=> ReachesQueue(q)
  BY <1>1 DEF Handle, TurnAway, Record, Replay, Drop, Store, CutOff,
     ReachesQueue, Verified, Verify
<1>t. ReceiverTypeOK /\ ReceiverTypeOK' /\ RowsSaved /\ IdsSaved /\ SavedUnlessCutOff
  BY HandlerTypes DEF WInv
<1>n. r # NoRequest /\ r.key \in Keys
  BY WebhookAssumption DEF Request
<1>a. AnswerIsToARequest'
  <2>1. UNCHANGED answer \/ \E status : Answer(r, status)
    BY <1>1 DEF Handle, TurnAway, Record, Replay, Drop, Store, CutOff
  <2> QED BY <1>n, <2>1 DEF WInv, AnswerIsToARequest, Answer
<1>2. CASE TurnAway(r)
  <2>1. UNCHANGED <<jobs, deliveries, savedAgo, failures, current>>
    BY <1>2 DEF TurnAway, queueVars
  <2>2. answer'.status \notin {"accepted", "duplicate"}
    BY <1>2 DEF TurnAway, Answer, Turned
  <2> QED BY <1>0, <1>a, <1>t, <2>1, <2>2 DEF WInv, RowsSaved, IdsSaved, SavedUnlessCutOff, AnsweredIsSaved
<1>3. CASE Record(r)
  <2>1. /\ UNCHANGED <<jobs, savedAgo, failures, answer>>
        /\ current' = r /\ current = NoRequest
        /\ \A d \in DOMAIN deliveries' : d \in DOMAIN deliveries \/ d = r.id
    BY <1>3 DEF Record, RecordDelivery, queueVars
  <2>2. IdsSaved'
    BY <1>0, <1>t, <1>n, <2>1 DEF IdsSaved
  <2> QED BY <1>a, <1>t, <2>1, <2>2 DEF WInv, RowsSaved, SavedUnlessCutOff, AnsweredIsSaved
<1>4. CASE Replay(r)
  <2>1. /\ UNCHANGED <<jobs, savedAgo, failures, current>>
        /\ DOMAIN deliveries' = DOMAIN deliveries
        /\ answer' = [req |-> r, status |-> "duplicate"]
        /\ current = NoRequest /\ ReachesQueue(r) /\ r.id # NoId /\ r.id \in DOMAIN deliveries
    BY <1>4 DEF Replay, RecordDelivery, Answer
  <2>2. IdsSaved' /\ RowsSaved'
    BY <1>0, <1>t, <2>1 DEF IdsSaved, RowsSaved
  <2>3. SavedUnlessCutOff'
    BY <1>t, <1>n, <2>1 DEF SavedUnlessCutOff, AnsweredIsSaved, IdsSaved
  <2> QED BY <1>a, <1>t, <2>2, <2>3 DEF WInv
<1>5. CASE Drop(r)
  <2>1. /\ UNCHANGED <<jobs, deliveries, savedAgo, failures>>
        /\ current' = NoRequest /\ current = r /\ ~WorthAJob(r)
        /\ answer'.status \notin {"accepted", "duplicate"}
    BY <1>5 DEF Drop, Answer, queueVars
  <2>2. ReachesQueue(r)
    BY <1>t, <1>n, <2>1 DEF ReceiverTypeOK
  <2>3. IdsSaved'
    <3> SUFFICES ASSUME failures = 0, NEW q \in Requests, ReachesQueue(q), WorthAJob(q),
                        q.id # NoId, q.id \in DOMAIN deliveries
                 PROVE  savedAgo[q.key] # Null
      BY <1>0, <2>1 DEF IdsSaved
    <3>1. q.id # r.id
      BY <2>1, <2>2, DeliveryIdAssumption DEF ReachesQueue
    <3> QED BY <1>t, <2>1, <3>1 DEF IdsSaved
  <2> QED BY <1>a, <1>t, <2>1, <2>3 DEF WInv, RowsSaved, SavedUnlessCutOff, AnsweredIsSaved
<1>6. CASE Store(r)
  <2>1. /\ UNCHANGED <<deliveries, failures>>
        /\ current' = NoRequest /\ current = r /\ answer'.req = r
    BY <1>6 DEF Store, Answer, Enqueue
  <2>2. ReachesQueue(r)
    BY <1>t, <1>n, <2>1 DEF ReceiverTypeOK
  <2>3. /\ savedAgo'[r.key] # Null /\ RowsSaved'
        /\ \A k \in Keys : savedAgo[k] # Null => savedAgo'[k] # Null
    BY <1>6, StoreSaves
  <2>4. IdsSaved'
    <3> SUFFICES ASSUME failures = 0, NEW q \in Requests, ReachesQueue(q), WorthAJob(q),
                        q.id # NoId, q.id \in DOMAIN deliveries
                 PROVE  savedAgo'[q.key] # Null
      BY <1>0, <2>1 DEF IdsSaved
    <3>1. q.key \in Keys
      BY WebhookAssumption DEF Request
    <3>2. CASE q.id = r.id
      BY <2>2, <2>3, <3>2, DeliveryIdAssumption DEF ReachesQueue
    <3>3. CASE q.id # r.id
      BY <1>t, <2>1, <2>3, <3>1, <3>3 DEF IdsSaved
    <3> QED BY <3>2, <3>3
  <2>5. SavedUnlessCutOff'
    BY <2>1, <2>3 DEF SavedUnlessCutOff, AnsweredIsSaved
  <2> QED BY <1>a, <1>t, <2>3, <2>4, <2>5 DEF WInv
<1>7. CASE CutOff(r)
  <2>1. failures \in Nat
    BY <1>t DEF ReceiverTypeOK
  <2>2. failures' # 0
    <3>1. failures' = failures + 1
      BY <1>7 DEF CutOff
    <3> QED BY <2>1, <3>1
  <2>3. /\ UNCHANGED <<jobs, savedAgo>>
        /\ answer'.status \notin {"accepted", "duplicate"}
    BY <1>7 DEF CutOff, Answer, queueVars
  <2> QED BY <1>a, <1>t, <2>2, <2>3 DEF WInv, RowsSaved, IdsSaved, SavedUnlessCutOff, AnsweredIsSaved
<1> QED BY <1>1, <1>2, <1>3, <1>4, <1>5, <1>6, <1>7 DEF Handle

\* Purging, settling and working on jobs keep WInv.
LEMMA OthersKeep ==
  ASSUME WInv, OthersSettle, UNCHANGED webhookVars
  PROVE  WInv'
<1>1. UNCHANGED <<cfg, current, answer, savedAgo, failures>>
  BY DEF webhookVars
<1>2. \A q : ReachesQueue(q)' <=> ReachesQueue(q)
  BY <1>1 DEF ReachesQueue, Verified, Verify
<1>3. ReceiverTypeOK' /\ AnswerIsToARequest' /\ SavedUnlessCutOff'
  BY <1>1, <1>2 DEF WInv, ReceiverTypeOK, AnswerIsToARequest, SavedUnlessCutOff, AnsweredIsSaved
<1>4. RowsSaved'
  BY <1>1 DEF WInv, RowsSaved, OthersSettle
<1>5. IdsSaved'
  BY <1>1, <1>2 DEF WInv, IdsSaved, OthersSettle
<1> QED BY <1>3, <1>4, <1>5 DEF WInv

\* So does time: a key that was saved is never unsaved.
LEMMA ClockKeeps ==
  ASSUME WInv, QueueTick, WebhookTick, jobs \in [DOMAIN jobs -> Row]
  PROVE  WInv'
<1>1. /\ UNCHANGED <<cfg, current, answer, failures>>
      /\ savedAgo' = [k \in Keys |-> Older(savedAgo[k], JobRetention + 1)]
  BY DEF WebhookTick
<1>2. \A q : ReachesQueue(q)' <=> ReachesQueue(q)
  BY <1>1 DEF ReachesQueue, Verified, Verify
<1>3. \A t \in Nat \cup {Null} : /\ Older(t, JobRetention + 1) \in Nat \cup {Null}
                                 /\ t # Null => Older(t, JobRetention + 1) # Null
  BY QueueAssumption DEF Older, Null
<1>4. /\ savedAgo' \in [Keys -> Nat \cup {Null}]
      /\ \A k \in Keys : savedAgo[k] # Null => savedAgo'[k] # Null
  BY <1>1, <1>3 DEF WInv, ReceiverTypeOK
<1>5. ReceiverTypeOK'
  BY <1>1, <1>2, <1>4 DEF WInv, ReceiverTypeOK
<1>k. \A r \in Requests : r.key \in Keys
  BY WebhookAssumption DEF Request
<1>6. SavedUnlessCutOff'
  <2>1. answer.req \in Requests \cup {NoRequest}
    BY DEF WInv, ReceiverTypeOK
  <2>2. CASE answer.req = NoRequest
    BY <1>1, <2>2 DEF WInv, AnswerIsToARequest, SavedUnlessCutOff, AnsweredIsSaved
  <2> QED BY <1>1, <1>4, <1>k, <2>1, <2>2 DEF WInv, SavedUnlessCutOff, AnsweredIsSaved
<1>7. RowsSaved'
  <2>1. DOMAIN jobs' = DOMAIN jobs /\ \A i \in DOMAIN jobs : jobs'[i].key = jobs[i].key
    BY DEF QueueTick, Row
  <2> QED BY <1>4, <2>1 DEF WInv, RowsSaved
<1>8. IdsSaved'
  <2>1. DOMAIN deliveries' = DOMAIN deliveries
    BY DEF QueueTick
  <2> QED BY <1>1, <1>2, <1>4, <1>k, <2>1 DEF WInv, IdsSaved
<1> QED BY <1>1, <1>5, <1>6, <1>7, <1>8 DEF WInv, AnswerIsToARequest

\* Before the first request.
LEMMA WInvInit ==
  ASSUME QueueInit, WebhookInit
  PROVE  WInv
<1>1. failures = 0 /\ MaxFailures \in Nat
  BY WebhookAssumption DEF WebhookInit
<1>2. failures \in 0..MaxFailures
  BY <1>1
<1>3. ReceiverTypeOK
  BY <1>2 DEF WebhookInit, ReceiverTypeOK, Answers
<1> QED BY <1>3 DEF QueueInit, WebhookInit, WInv, RowsSaved, IdsSaved,
        AnswerIsToARequest, SavedUnlessCutOff, AnsweredIsSaved

\* The worker's part of OthersSettle.
LEMMA WorkerSettles ==
  ASSUME IInv, NEW w \in Workers, WorkerStep(w)
  PROVE  OthersSettle
<1>1. RowsOnlySettle
  BY WorkerOnlySettles
<1>2. UNCHANGED deliveries \/ PurgeDeliveries
  BY DEF WorkerStep, Progress, Start, Startup, RecoverStale, PurgeOldDeliveries,
     PurgeOldJobs, Claim, FallAsleep, Wake, Succeed, FailTransient, FailPermanent,
     Finish, Exit, RequestShutdown, Die, queueVars, RecoverAllProcessing,
     RecoverStaleJobs, PurgeCompleted, ClaimNext, Complete, Fail
<1>3. DOMAIN deliveries' \subseteq DOMAIN deliveries
  BY <1>2 DEF PurgeDeliveries
<1> QED BY <1>1, <1>3 DEF RowsOnlySettle, OthersSettle

\* A handler writes to the tables only for a request that is trusted.
LEMMA TracesAreTrusted ==
  ASSUME WInv, WebhookStep
  PROVE  /\ DOMAIN deliveries' \subseteq DOMAIN deliveries \/ Trusted(current')
         /\ DOMAIN jobs' \subseteq DOMAIN jobs \/ Trusted(current)
<1>1. PICK r \in Requests : Handle(r) \/ CutOff(r)
  BY DEF WebhookStep
<1>2. CASE TurnAway(r) \/ Drop(r) \/ CutOff(r)
  BY <1>2 DEF TurnAway, Drop, CutOff, queueVars
<1>3. CASE Record(r)
  <2>1. Trusted(r) /\ current' = r
    BY <1>3, VerifiedIsTrusted DEF Record, ReachesQueue
  <2>2. UNCHANGED jobs
    BY <1>3 DEF Record, RecordDelivery, queueVars
  <2> QED BY <2>1, <2>2
<1>4. CASE Replay(r)
  BY <1>4 DEF Replay, RecordDelivery
<1>5. CASE Store(r)
  <2>1. UNCHANGED deliveries /\ current = r /\ r # NoRequest
    BY <1>5, WebhookAssumption DEF Store, Enqueue
  <2>2. ReachesQueue(r)
    BY <2>1 DEF WInv, ReceiverTypeOK
  <2>3. Trusted(r)
    BY <2>2, VerifiedIsTrusted DEF ReachesQueue
  <2> QED BY <2>1, <2>3
<1> QED BY <1>1, <1>2, <1>3, <1>4, <1>5 DEF Handle

-----------------------------------------------------------------------------
(* The receiver by itself.                                                 *)

AloneNext ==
  \/ WebhookStep
  \/ ForgetDeliveries
  \/ QueueTick /\ WebhookTick

\* WInv and QInv are inductive, and what is written is trusted.
LEMMA AloneStep ==
  ASSUME WInv, QInv, [AloneNext]_<<queueVars, webhookVars>>
  PROVE  /\ WInv' /\ QInv'
         /\ DOMAIN deliveries' \subseteq DOMAIN deliveries \/ Trusted(current')
         /\ DOMAIN jobs' \subseteq DOMAIN jobs \/ Trusted(current)
<1>0. ASSUME UNCHANGED queueVars PROVE QInv'
  BY <1>0 DEF queueVars, QInv, QueueTypeOK, AttemptsBounded, TimestampsConsistent
<1>1. CASE WebhookStep
  <2>1. \/ UNCHANGED queueVars
        \/ \E d \in DeliveryIds : RecordDelivery(d)
        \/ \E k \in Keys : Enqueue(k)
    BY <1>1, WebhookSteps
  <2>2. QInv'
    BY <1>0, <2>1, RecordDeliveryQ, EnqueueQ
  <2> QED BY <1>1, <2>2, HandlerKeeps, TracesAreTrusted
<1>2. CASE ForgetDeliveries
  <2>1. QInv'
    BY <1>2, PurgeDeliveriesQ DEF ForgetDeliveries
  <2>2. OthersSettle /\ UNCHANGED webhookVars
    BY <1>2 DEF ForgetDeliveries, OthersSettle, PurgeDeliveries
  <2> QED BY <2>1, <2>2, OthersKeep DEF OthersSettle
<1>3. CASE QueueTick /\ WebhookTick
  <2>1. DOMAIN jobs' = DOMAIN jobs /\ DOMAIN deliveries' = DOMAIN deliveries
    BY <1>3 DEF QueueTick
  <2> QED BY <1>3, <2>1, TickQ, ClockKeeps, QInvRows
<1>4. CASE UNCHANGED <<queueVars, webhookVars>>
  <2>1. OthersSettle /\ UNCHANGED webhookVars
    BY <1>4 DEF OthersSettle, queueVars
  <2> QED BY <1>0, <1>4, <2>1, OthersKeep DEF OthersSettle
<1> QED BY <1>1, <1>2, <1>3, <1>4 DEF AloneNext

\* WInv and QInv hold of the receiver by itself.
LEMMA AloneInvariance == WebhookSpec => [](WInv /\ QInv)
<1>1. AloneInit => WInv /\ QInv
  <2> SUFFICES ASSUME AloneInit PROVE WInv /\ QInv
    OBVIOUS
  <2>1. WInv
    BY WInvInit DEF AloneInit
  <2>2. QInv
    BY QueueAssumption DEF AloneInit, QueueInit, QInv, QueueTypeOK, AttemptsBounded,
       TimestampsConsistent
  <2> QED BY <2>1, <2>2
<1>2. (WInv /\ QInv) /\ [AloneNext]_<<queueVars, webhookVars>> => (WInv /\ QInv)'
  BY AloneStep
<1> QED BY <1>1, <1>2, PTL DEF WebhookSpec, AloneNext

\* The tables, the settings, the answers and the histories keep their types,
\* and past its first transaction the handler only has a request that passed
\* verify_webhook and the checks before it, whatever is received.
THEOREM WebhookTypeCorrect == WebhookSpec => []WebhookTypeOK
<1>1. WInv /\ QInv => WebhookTypeOK
  BY DEF WInv, QInv, WebhookTypeOK
<1> QED BY <1>1, AloneInvariance, PTL

\* For any requests in any order: as long as no handler is cut off, a push
\* answered "accepted" or "duplicate" has been saved.
THEOREM AnsweredPushesAreSaved == WebhookSpec => []SavedUnlessCutOff
<1>1. WInv /\ QInv => SavedUnlessCutOff
  BY DEF WInv
<1> QED BY <1>1, AloneInvariance, PTL

\* A request that does not authenticate leaves no row and no delivery id.
THEOREM TracesOfTrustedOnly == WebhookSpec => OnlyTrustedLeaveTraces
<1>1. WInv /\ QInv /\ [AloneNext]_<<queueVars, webhookVars>> =>
        [/\ DOMAIN deliveries' \subseteq DOMAIN deliveries \/ Trusted(current')
         /\ DOMAIN jobs' \subseteq DOMAIN jobs \/ Trusted(current)
        ]_<<queueVars, webhookVars>>
  BY AloneStep
<1> QED BY <1>1, AloneInvariance, PTL DEF WebhookSpec, AloneNext, OnlyTrustedLeaveTraces

-----------------------------------------------------------------------------
(* The same in the system, with any number of workers.                     *)

LEMMA SystemStep ==
  ASSUME IInv, WInv, [BotNext]_botVars
  PROVE  /\ WInv'
         /\ DOMAIN deliveries' \subseteq DOMAIN deliveries \/ Trusted(current')
         /\ DOMAIN jobs' \subseteq DOMAIN jobs \/ Trusted(current)
<1>1. CASE \E w \in Workers : WorkerStep(w) /\ UNCHANGED webhookVars
  <2>1. OthersSettle /\ UNCHANGED webhookVars
    BY <1>1, WorkerSettles
  <2> QED BY <2>1, OthersKeep DEF OthersSettle
<1>2. CASE WebhookStep /\ UNCHANGED workerVars
  BY <1>2, HandlerKeeps, TracesAreTrusted
<1>3. CASE Tick /\ WebhookTick
  <2>1. QueueTick /\ jobs \in [DOMAIN jobs -> Row]
    BY <1>3, QInvRows DEF Tick, IInv
  <2>2. DOMAIN jobs' = DOMAIN jobs /\ DOMAIN deliveries' = DOMAIN deliveries
    BY <2>1 DEF QueueTick
  <2> QED BY <1>3, <2>1, <2>2, ClockKeeps
<1>4. CASE UNCHANGED botVars
  <2>1. OthersSettle /\ UNCHANGED webhookVars
    BY <1>4 DEF OthersSettle, botVars, vars, queueVars
  <2> QED BY <2>1, OthersKeep DEF OthersSettle
<1> QED BY <1>1, <1>2, <1>3, <1>4 DEF BotNext

\* In the whole system too, with workers that settle and purge what the
\* handlers saved: answered pushes are saved, and only trusted ones.
THEOREM SystemKeepsPromises ==
  BotSpec => [](WebhookTypeOK /\ SavedUnlessCutOff) /\ OnlyTrustedLeaveTraces
<1>1. BotInit => IInv /\ WInv
  BY InvInit, WInvInit DEF BotInit, Init
<1>2. IInv /\ WInv /\ [BotNext]_botVars => (IInv /\ WInv)'
  BY SystemStep, BotStepIsWorkerStep, InvStep
<1>3. IInv /\ WInv => WebhookTypeOK /\ SavedUnlessCutOff
  BY DEF WInv, IInv, QInv, WebhookTypeOK
<1>4. IInv /\ WInv /\ [BotNext]_botVars =>
        [/\ DOMAIN deliveries' \subseteq DOMAIN deliveries \/ Trusted(current')
         /\ DOMAIN jobs' \subseteq DOMAIN jobs \/ Trusted(current)
        ]_<<queueVars, webhookVars>>
  BY SystemStep
<1> QED BY <1>1, <1>2, <1>3, <1>4, PTL DEF BotSpec, OnlyTrustedLeaveTraces
=============================================================================
