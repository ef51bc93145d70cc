--------------------------- MODULE PipelineProofs ---------------------------
(***************************************************************************)
(* Proofs about Pipeline for every value of the constants: any number of   *)
(* workers and pushes, any retry limits; and with one worker what a push   *)
(* may cost in requests and when its message may reach Slack twice.        *)
(***************************************************************************)
EXTENDS Pipeline, WorkerProofs

allVars == <<vars, pipelineVars>>

-----------------------------------------------------------------------------
(* The pipeline implements the worker.                                     *)

\* The steps inside analyze, which Worker does not see.
InsideStep(w) ==
  \/ BranchDeleted(w) \/ Skip(w)
  \/ NothingToAnalyze(w) \/ NeedsModel(w) \/ PrepareFails(w)
  \/ ModelAnswers(w) \/ ModelFailsRetryably(w) \/ ModelFailsForGood(w)
  \/ SlackAccepts(w) \/ SlackAnswerLost(w) \/ SlackFailsRetryably(w) \/ SlackRefuses(w)

\* They leave the database and the worker's loop alone, and the settings too.
LEMMA InsideIsStutter ==
  ASSUME NEW w \in Workers, InsideStep(w)
  PROVE  UNCHANGED <<vars, conf, push, outcome>>
BY DEF InsideStep, InsideJob, BranchDeleted, Skip, NothingToAnalyze, NeedsModel,
   PrepareFails, ModelAnswers, ModelFailsRetryably, ModelFailsForGood, SlackAccepts,
   SlackAnswerLost, SlackFailsRetryably, SlackRefuses

\* The cases of PipelineNext, each with the Worker step it contains.
LEMMA PipelineCases ==
  ASSUME [PipelineNext]_allVars
  PROVE  \/ \E w \in Workers : InsideStep(w)
         \/ \E w \in Workers : BeginJob(w)
         \/ \E w \in Workers : AroundJob(w)
         \/ \E w \in Workers : RequestShutdown(w) /\ UNCHANGED pipelineVars
         \/ \E w \in Workers : ReportSuccess(w)
         \/ \E w \in Workers : ReportError(w) \/ ReportPermanent(w)
         \/ \E w \in Workers : DieInPipeline(w)
         \/ \E k \in Keys : Submit(k) /\ UNCHANGED pipelineVars
         \/ Tick /\ UNCHANGED pipelineVars
         \/ UNCHANGED allVars
BY DEF PipelineNext, PipelineStep, PipelineProgress, InsideStep

\* Every step of the pipeline is a step of Worker or invisible to it.
LEMMA PipelineStepIsWorkerStep ==
  ASSUME [PipelineNext]_allVars
  PROVE  [Next]_vars
<1>1. CASE \E w \in Workers : InsideStep(w)
  BY <1>1, InsideIsStutter
<1>2. CASE \E w \in Workers : BeginJob(w)
  BY <1>2 DEF BeginJob, Next, WorkerStep, Progress
<1>3. CASE \E w \in Workers : AroundJob(w)
  BY <1>3 DEF AroundJob, Next, WorkerStep, Progress
<1>4. CASE \E w \in Workers : RequestShutdown(w) /\ UNCHANGED pipelineVars
  BY <1>4 DEF Next, WorkerStep
<1>5. CASE \E w \in Workers : ReportSuccess(w)
  BY <1>5 DEF ReportSuccess, Next, WorkerStep, Progress
<1>6. CASE \E w \in Workers : ReportError(w) \/ ReportPermanent(w)
  BY <1>6 DEF ReportError, ReportPermanent, Next, WorkerStep, Progress
<1>7. CASE \E w \in Workers : DieInPipeline(w)
  BY <1>7 DEF DieInPipeline, Next, WorkerStep
<1>8. CASE \E k \in Keys : Submit(k) /\ UNCHANGED pipelineVars
  BY <1>8 DEF Next
<1>9. CASE Tick /\ UNCHANGED pipelineVars
  BY <1>9 DEF Next
<1>10. CASE UNCHANGED allVars
  BY <1>10 DEF allVars
<1> QED BY <1>1, <1>2, <1>3, <1>4, <1>5, <1>6, <1>7, <1>8, <1>9, <1>10, PipelineCases

\* Every behaviour of the pipeline is one of Worker: the theorems of
\* WorkerProofs hold of it as well.
THEOREM PipelineRefinesWorker == PipelineSpec => PipelineImplementsWorker
<1>1. [PipelineNext]_allVars => [Next]_vars
  BY PipelineStepIsWorkerStep
<1> QED BY <1>1, PTL DEF PipelineSpec, Spec, PipelineImplementsWorker, allVars

-----------------------------------------------------------------------------
(* No job is completed before its message was accepted.                    *)

(***************************************************************************)
(* CompletedMeansNotified is not inductive: complete() is called in a      *)
(* later step than Slack's answer.  PInv adds what links the two: a worker *)
(* in stage done that owed a message has had it accepted for the very job  *)
(* it holds, and only workers that process a job have a stage.             *)
(***************************************************************************)
HistoryOK ==
  /\ stage \in [Workers -> Stages]
  /\ result \in [Workers -> Outcomes]
  /\ outcome \in [1..MaxId -> Outcomes]
  /\ ledger \in [1..MaxId -> Account]

StagedIsProcessing == \A w \in Workers : stage[w] # "idle" => pc[w] = "process"

DoneMeansNotified ==
  \A w \in Workers :
    (stage[w] = "done" /\ WantsNotice(result[w])) => ledger[hold[w]].accepted > 0

PInv == /\ IInv /\ HistoryOK /\ StagedIsProcessing
        /\ DoneMeansNotified /\ CompletedMeansNotified

\* No row becomes completed in this step.
NoneCompleted ==
  \A i \in DOMAIN jobs' : jobs'[i].status = "completed" =>
    i \in DOMAIN jobs /\ jobs[i].status = "completed"

\* Messages are never taken back.
LedgerGrows == \A i \in 1..MaxId : ledger'[i].accepted >= ledger[i].accepted

\* A worker that processes a job goes on processing it, except w.
OthersGoOn(w) ==
  \A v \in Workers \ {w} : pc[v] = "process" => pc'[v] = "process" /\ hold'[v] = hold[v]

\* The ids of rows index the history.
LEMMA IdsInRange ==
  ASSUME IInv
  PROVE  /\ DOMAIN jobs \subseteq 1..MaxId
         /\ \A w \in Workers : pc[w] = "process" => hold[w] \in 1..MaxId
BY QueueAssumption DEF IInv, QInv, QueueTypeOK, HolderOK

\* In a step that completes no row, completed rows stay notified.
LEMMA StayNotified ==
  ASSUME PInv, IInv', NoneCompleted, LedgerGrows, HistoryOK', UNCHANGED <<conf, outcome>>
  PROVE  CompletedMeansNotified'
<1> SUFFICES ASSUME NEW i \in DOMAIN jobs', jobs'[i].status = "completed",
                    WantsNotice(outcome[i])'
             PROVE  ledger'[i].accepted > 0
  BY DEF CompletedMeansNotified
<1>1. i \in DOMAIN jobs /\ jobs[i].status = "completed" /\ i \in 1..MaxId
  BY IdsInRange DEF NoneCompleted, PInv
<1>2. WantsNotice(outcome[i])
  BY DEF WantsNotice
<1>3. ledger[i].accepted > 0
  BY <1>1, <1>2 DEF PInv, CompletedMeansNotified
<1>4. ledger[i].accepted \in Nat /\ ledger'[i].accepted \in Nat
  BY <1>1 DEF PInv, HistoryOK, Account
<1> QED BY <1>1, <1>3, <1>4 DEF LedgerGrows

\* A step of worker w leaves the other workers' stages as they should be.
LEMMA OthersStayDone ==
  ASSUME PInv, NEW w, OthersGoOn(w), LedgerGrows, HistoryOK', UNCHANGED conf,
         \A v \in Workers \ {w} : stage'[v] = stage[v] /\ result'[v] = result[v]
  PROVE  \A v \in Workers \ {w} :
           /\ stage'[v] # "idle" => pc'[v] = "process"
           /\ (stage'[v] = "done" /\ WantsNotice(result[v])') =>
                ledger'[hold'[v]].accepted > 0
<1> SUFFICES ASSUME NEW v \in Workers \ {w}, stage'[v] # "idle"
             PROVE  /\ pc'[v] = "process"
                    /\ (stage'[v] = "done" /\ WantsNotice(result[v])') =>
                         ledger'[hold'[v]].accepted > 0
  OBVIOUS
<1>1. pc[v] = "process" /\ pc'[v] = "process" /\ hold'[v] = hold[v]
  BY DEF PInv, StagedIsProcessing, OthersGoOn
<1>2. hold[v] \in 1..MaxId
  BY <1>1, IdsInRange DEF PInv
<1>3. ASSUME stage'[v] = "done", WantsNotice(result[v])'
      PROVE  ledger[hold[v]].accepted > 0
  BY <1>3 DEF PInv, DoneMeansNotified, WantsNotice
<1>4. ledger[hold[v]].accepted \in Nat /\ ledger'[hold[v]].accepted \in Nat
  BY <1>2 DEF PInv, HistoryOK, Account
<1> QED BY <1>1, <1>2, <1>3, <1>4 DEF LedgerGrows

-----------------------------------------------------------------------------
(* The steps.                                                              *)

\* The single entries a step makes in a job's account.
LEMMA Entries ==
  ASSUME NEW r \in Account, NEW n \in Nat
  PROVE  /\ [r EXCEPT !.model = n] \in Account
         /\ [r EXCEPT !.model = n].accepted = r.accepted
         /\ [r EXCEPT !.slack = n] \in Account
         /\ [r EXCEPT !.slack = n].accepted = r.accepted
         /\ [r EXCEPT !.excuses = n] \in Account
         /\ [r EXCEPT !.excuses = n].accepted = r.accepted
BY DEF Account

\* What a step inside analyze does to the bookkeeping of worker w.
LEMMA InsideEffect ==
  ASSUME PInv, NEW w \in Workers, InsideStep(w)
  PROVE  /\ HistoryOK' /\ LedgerGrows
         /\ pc[w] = "process"
         /\ \A v \in Workers \ {w} : stage'[v] = stage[v] /\ result'[v] = result[v]
         /\ (stage'[w] = "done" /\ WantsNotice(result[w])') => ledger'[hold[w]].accepted > 0
<1>0. /\ HistoryOK /\ UNCHANGED <<vars, conf, push, outcome>>
      /\ stage[w] # "idle" /\ pc[w] = "process" /\ hold[w] \in 1..MaxId
  <2>1. stage[w] # "idle"
    BY DEF InsideStep, BranchDeleted, Skip, NothingToAnalyze, NeedsModel, PrepareFails,
       Prepares, ModelAnswers, ModelFailsRetryably, ModelFailsForGood, SlackAccepts,
       SlackAnswerLost, SlackFailsRetryably, SlackRefuses
  <2> QED BY <2>1, InsideIsStutter, IdsInRange DEF PInv, StagedIsProcessing
<1>k. \A i \in 1..MaxId : /\ ledger[i].model \in Nat /\ ledger[i].slack \in Nat
                          /\ ledger[i].accepted \in Nat /\ ledger[i].excuses \in Nat
                          /\ ledger[i] \in Account
  BY <1>0 DEF HistoryOK, Account
<1> DEFINE h == hold[w]
<1>a. /\ ledger' \in [1..MaxId -> Account] /\ LedgerGrows
      /\ SlackAccepts(w) => ledger'[h].accepted > 0
  <2>1. CASE UNCHANGED ledger /\ ~SlackAccepts(w)
    BY <1>0, <1>k, <2>1 DEF HistoryOK, LedgerGrows
  <2>2. CASE (Charge(w, "model") \/ Charge(w, "slack")) /\ ~SlackAccepts(w)
    <3> DEFINE m == [ledger[h] EXCEPT !.model = ledger[h].model + 1]
               s == [ledger[h] EXCEPT !.slack = ledger[h].slack + 1]
    <3>0. /\ ledger[h] \in Account
          /\ ledger[h].model + 1 \in Nat /\ ledger[h].slack + 1 \in Nat
      BY <1>0, <1>k
    <3>1. ledger' = [ledger EXCEPT ![h] = m] \/ ledger' = [ledger EXCEPT ![h] = s]
      BY <1>0, <2>2 DEF Charge, HistoryOK, Account
    <3>3. /\ m \in Account /\ m.accepted = ledger[h].accepted
          /\ s \in Account /\ s.accepted = ledger[h].accepted
      BY <3>0, Entries
    <3> HIDE DEF m, s
    <3>2. PICK r \in Account : /\ ledger' = [ledger EXCEPT ![h] = r]
                              /\ r.accepted = ledger[h].accepted
      BY <3>1, <3>3
    <3> QED BY <1>0, <1>k, <2>2, <3>2 DEF HistoryOK, LedgerGrows
  <2>3. CASE SlackAccepts(w) \/ SlackAnswerLost(w)
    <3>0. PICK q \in Account, a \in Nat, b \in Nat, c \in Nat :
            /\ q = ledger[h] /\ a = ledger[h].slack + 1
            /\ b = ledger[h].accepted + 1 /\ c = ledger[h].excuses + 1
      <4>1. /\ ledger[h] \in Account /\ ledger[h].slack + 1 \in Nat
            /\ ledger[h].accepted + 1 \in Nat /\ ledger[h].excuses + 1 \in Nat
        BY <1>0, <1>k
      <4> QED BY <4>1, Zenon
    <3>1. PICK r \in Account : /\ ledger' = [ledger EXCEPT ![h] = r]
                              /\ r.accepted = ledger[h].accepted + 1
      <4>1. CASE SlackAccepts(w)
        <5> DEFINE r == [q EXCEPT !.slack = a, !.accepted = b]
        <5>1. ledger' = [ledger EXCEPT ![h] = r]
          BY <1>0, <3>0, <4>1 DEF SlackAccepts, HistoryOK, Account
        <5>2. r \in Account /\ r.accepted = b
          BY DEF Account
        <5> HIDE DEF r
        <5> QED BY <3>0, <5>1, <5>2
      <4>2. CASE SlackAnswerLost(w)
        <5> DEFINE r == [q EXCEPT !.slack = a, !.accepted = b, !.excuses = c]
        <5>1. ledger' = [ledger EXCEPT ![h] = r]
          BY <1>0, <3>0, <4>2 DEF SlackAnswerLost, HistoryOK, Account
        <5>2. r \in Account /\ r.accepted = b
          BY DEF Account
        <5> HIDE DEF r
        <5> QED BY <3>0, <5>1, <5>2
      <4> QED BY <2>3, <4>1, <4>2
    <3>2. ledger' \in [1..MaxId -> Account] /\ ledger'[h].accepted = ledger[h].accepted + 1
      BY <1>0, <3>1 DEF HistoryOK
    <3>3. \A i \in 1..MaxId : i # h => ledger'[i] = ledger[i]
      BY <1>0, <3>1 DEF HistoryOK
    <3> QED BY <1>0, <1>k, <3>2, <3>3 DEF LedgerGrows
  <2> QED BY <2>1, <2>2, <2>3 DEF InsideStep, BranchDeleted, Skip, NothingToAnalyze,
       NeedsModel, PrepareFails, ModelAnswers, ModelFailsRetryably, ModelFailsForGood,
       SlackFailsRetryably, SlackRefuses
<1>b. \/ \E status \in Outcomes : Conclude(w, status)
      \/ /\ UNCHANGED result
         /\ \E place \in {"model", "error", "permanent"} : stage' = [stage EXCEPT ![w] = place]
      \/ UNCHANGED <<stage, result>> /\ stage[w] \in {"model", "slack"}
      \/ SlackAccepts(w)
  BY DEF InsideStep, BranchDeleted, Skip, NothingToAnalyze, NeedsModel, PrepareFails,
     ModelAnswers, ModelFailsRetryably, ModelFailsForGood, SlackAnswerLost,
     SlackFailsRetryably, SlackRefuses, Retry, Stage, Outcomes
<1>1. CASE \E status \in Outcomes : Conclude(w, status)
  <2>1. PICK status \in Outcomes : Conclude(w, status)
    BY <1>1
  <2>2. WantsNotice(status)' => WantsNotice(status)
    BY <1>0 DEF WantsNotice
  <2>3. /\ stage' = [stage EXCEPT ![w] = IF WantsNotice(status) THEN "slack" ELSE "done"]
        /\ result' = [result EXCEPT ![w] = status]
    BY <2>1 DEF Conclude, Stage
  <2>4. HistoryOK' /\ result'[w] = status
    BY <1>0, <1>a, <2>3 DEF HistoryOK, Stages
  <2>5. WantsNotice(result[w])' => WantsNotice(status)
    BY <2>2, <2>4 DEF WantsNotice
  <2> QED BY <1>0, <1>a, <2>3, <2>4, <2>5 DEF HistoryOK
<1>2. CASE /\ UNCHANGED result
           /\ \E place \in {"model", "error", "permanent"} :
                stage' = [stage EXCEPT ![w] = place]
  BY <1>0, <1>a, <1>2 DEF HistoryOK, Stages
<1>3. CASE UNCHANGED <<stage, result>> /\ stage[w] \in {"model", "slack"}
  BY <1>0, <1>a, <1>3 DEF HistoryOK
<1>4. CASE SlackAccepts(w)
  <2>1. stage' = [stage EXCEPT ![w] = "done"] /\ UNCHANGED result
    BY <1>4 DEF SlackAccepts, Stage
  <2> QED BY <1>0, <1>a, <1>4, <2>1 DEF HistoryOK, Stages
<1> QED BY <1>b, <1>1, <1>2, <1>3, <1>4

\* Only complete() completes a row.
LEMMA QueueCompletesNone ==
  ASSUME IInv,
         \/ UNCHANGED jobs \/ RecoverAllProcessing \/ RecoverStaleJobs \/ PurgeCompleted
         \/ \E i \in Runnable : ClaimNext(i)
         \/ \E k \in Keys : Enqueue(k)
         \/ QueueTick
         \/ \E w \in Workers, permanent \in BOOLEAN :
              pc[w] = "process" /\ Fail(hold[w], permanent)
  PROVE  NoneCompleted
<1>q. QInv
  BY DEF IInv
<1>1. CASE UNCHANGED jobs
  BY <1>1 DEF NoneCompleted
<1>2. CASE RecoverAllProcessing \/ RecoverStaleJobs
  BY <1>q, <1>2, RecoverAllQ, RecoverStaleQ DEF NoneCompleted, Recovers
<1>3. CASE PurgeCompleted
  BY <1>q, <1>3, PurgeCompletedQ DEF NoneCompleted
<1>4. CASE \E i \in Runnable : ClaimNext(i)
  BY <1>q, <1>4, ClaimQ DEF NoneCompleted
<1>5. CASE \E k \in Keys : Enqueue(k)
  BY <1>5 DEF NoneCompleted, Enqueue, NewRow
<1>6. CASE QueueTick
  BY <1>q, <1>6, TickQ DEF NoneCompleted
<1>7. CASE \E w \in Workers, permanent \in BOOLEAN :
             pc[w] = "process" /\ Fail(hold[w], permanent)
  <2>1. PICK w \in Workers, permanent \in BOOLEAN :
               pc[w] = "process" /\ Fail(hold[w], permanent)
    BY <1>7
  <2>2. /\ ReportsOn(hold[w])
        /\ hold[w] \in DOMAIN jobs => jobs'[hold[w]].status \in {"failed", "queued"}
    BY <1>q, <2>1, FailQ, HolderFacts
  <2> QED BY <2>2 DEF NoneCompleted, ReportsOn
<1> QED BY <1>1, <1>2, <1>3, <1>4, <1>5, <1>6, <1>7

\* The common part of every step of a worker w that completes no row.
LEMMA StepKeeps ==
  ASSUME PInv, IInv', NEW w \in Workers, HistoryOK', LedgerGrows, NoneCompleted,
         OthersGoOn(w), UNCHANGED <<conf, outcome>>,
         \A v \in Workers \ {w} : stage'[v] = stage[v] /\ result'[v] = result[v],
         stage'[w] # "idle" => pc'[w] = "process",
         (stage'[w] = "done" /\ WantsNotice(result[w])') => ledger'[hold'[w]].accepted > 0
  PROVE  PInv'
<1>1. StagedIsProcessing'
  BY OthersStayDone DEF StagedIsProcessing
<1>2. DoneMeansNotified'
  <2> SUFFICES ASSUME NEW v \in Workers, stage'[v] = "done", WantsNotice(result[v])'
               PROVE  ledger'[hold'[v]].accepted > 0
    BY DEF DoneMeansNotified
  <2>1. CASE v = w
    BY <2>1
  <2>2. CASE v # w
    BY <2>2, OthersStayDone
  <2> QED BY <2>1, <2>2
<1> QED BY <1>1, <1>2, StayNotified DEF PInv

\* A step that leaves the pipeline and the holders alone.
LEMMA OutsideKeeps ==
  ASSUME PInv, IInv', NoneCompleted, UNCHANGED <<pc, hold, pipelineVars>>
  PROVE  PInv'
<1>1. UNCHANGED <<conf, stage, result, outcome, ledger>>
  BY DEF pipelineVars, analysisVars
<1>2. HistoryOK' /\ StagedIsProcessing'
  BY <1>1 DEF PInv, HistoryOK, StagedIsProcessing
<1>3. DoneMeansNotified'
  BY <1>1 DEF PInv, DoneMeansNotified, WantsNotice
<1>4. LedgerGrows
  BY <1>1 DEF PInv, HistoryOK, Account, LedgerGrows
<1> QED BY <1>1, <1>2, <1>3, <1>4, StayNotified DEF PInv

\* PInv is inductive.
LEMMA PipelineInvStep ==
  ASSUME PInv, [PipelineNext]_allVars
  PROVE  PInv'
<1>i. IInv /\ IInv'
  BY PipelineStepIsWorkerStep, InvStep DEF PInv
<1>h. HistoryOK
  BY DEF PInv
<1>t. pc \in [Workers -> PC] /\ hold \in [Workers -> 0..lastId]
  BY <1>i DEF IInv, TypeOK
<1>1. CASE \E w \in Workers : InsideStep(w)
  <2>1. PICK w \in Workers : InsideStep(w)
    BY <1>1
  <2>2. UNCHANGED <<jobs, pc, hold, conf, outcome>>
    BY <2>1, InsideIsStutter DEF vars, queueVars, workerVars
  <2>3. NoneCompleted
    BY <1>i, <2>2, QueueCompletesNone
  <2>4. OthersGoOn(w)
    BY <2>2 DEF OthersGoOn
  <2> QED BY <1>i, <2>1, <2>2, <2>3, <2>4, InsideEffect, StepKeeps
<1>2. CASE \E w \in Workers : BeginJob(w)
  <2>1. PICK w \in Workers : BeginJob(w)
    BY <1>2
  <2>2. /\ \E i \in Runnable : ClaimNext(i) /\ hold' = [hold EXCEPT ![w] = i]
        /\ pc' = [pc EXCEPT ![w] = "process"]
        /\ stage' = [stage EXCEPT ![w] = "analyze"]
        /\ UNCHANGED <<conf, result, outcome, ledger>>
    BY <2>1 DEF BeginJob, Claim, Stage, Goto
  <2>3. NoneCompleted
    BY <1>i, <2>2, QueueCompletesNone
  <2>4. OthersGoOn(w) /\ pc'[w] = "process" /\ stage'[w] = "analyze"
    BY <1>t, <1>h, <2>2 DEF OthersGoOn, HistoryOK
  <2>5. HistoryOK' /\ LedgerGrows
    BY <1>h, <2>2 DEF HistoryOK, Stages, LedgerGrows, Account
  <2> QED BY <1>i, <2>2, <2>3, <2>4, <2>5, StepKeeps
<1>3. CASE \E w \in Workers : AroundJob(w)
  <2>1. PICK w \in Workers : AroundJob(w)
    BY <1>3
  <2>2. UNCHANGED <<conf, stage, result, outcome, ledger, hold>>
    BY <2>1 DEF AroundJob, pipelineVars, analysisVars, Start, Startup, RecoverStale,
       PurgeOldDeliveries, PurgeOldJobs, FallAsleep, Wake, Exit
  <2>3. pc[w] # "process" /\ \E place : pc' = [pc EXCEPT ![w] = place]
    BY <2>1 DEF AroundJob, Start, Startup, RecoverStale, PurgeOldDeliveries,
       PurgeOldJobs, FallAsleep, Wake, Exit, AtClaim, Goto
  <2>4. \/ UNCHANGED jobs \/ RecoverAllProcessing \/ RecoverStaleJobs \/ PurgeCompleted
    BY <2>1 DEF AroundJob, Start, Startup, RecoverStale, PurgeOldDeliveries,
       PurgeOldJobs, FallAsleep, Wake, Exit, PurgeDeliveries, queueVars
  <2>5. NoneCompleted
    BY <1>i, <2>4, QueueCompletesNone
  <2>6. OthersGoOn(w) /\ stage'[w] = "idle"
    BY <1>t, <2>2, <2>3 DEF OthersGoOn, PInv, StagedIsProcessing
  <2>7. HistoryOK' /\ LedgerGrows
    BY <1>h, <2>2 DEF HistoryOK, LedgerGrows, Account
  <2> QED BY <1>i, <2>2, <2>5, <2>6, <2>7, StepKeeps
<1>4. CASE \E w \in Workers : RequestShutdown(w) /\ UNCHANGED pipelineVars
  <2>1. UNCHANGED <<jobs, pc, hold, pipelineVars>>
    BY <1>4 DEF RequestShutdown, queueVars
  <2> QED BY <1>i, <2>1, QueueCompletesNone, OutsideKeeps
<1>8. CASE \E k \in Keys : Submit(k) /\ UNCHANGED pipelineVars
  <2>1. UNCHANGED <<pc, hold, pipelineVars>> /\ \E k \in Keys : Enqueue(k)
    BY <1>8 DEF Submit, workerVars
  <2> QED BY <1>i, <2>1, QueueCompletesNone, OutsideKeeps
<1>9. CASE Tick /\ UNCHANGED pipelineVars
  <2>1. UNCHANGED <<pc, hold, pipelineVars>> /\ QueueTick
    BY <1>9 DEF Tick
  <2> QED BY <1>i, <2>1, QueueCompletesNone, OutsideKeeps
<1>10. CASE UNCHANGED allVars
  <2>1. UNCHANGED <<jobs, pc, hold, pipelineVars>>
    BY <1>10 DEF allVars, vars, queueVars, workerVars
  <2> QED BY <1>i, <2>1, QueueCompletesNone, OutsideKeeps
<1>6. CASE \E w \in Workers : ReportError(w) \/ ReportPermanent(w)
  <2>1. PICK w \in Workers : ReportError(w) \/ ReportPermanent(w)
    BY <1>6
  <2>2. \E permanent \in BOOLEAN : pc[w] = "process" /\ Fail(hold[w], permanent)
    BY <2>1 DEF ReportError, ReportPermanent, FailTransient, FailPermanent, Finish
  <2>3. /\ hold' = [hold EXCEPT ![w] = 0] /\ pc' = [pc EXCEPT ![w] = "loop"]
        /\ stage' = [stage EXCEPT ![w] = "idle"] /\ result' = [result EXCEPT ![w] = "none"]
        /\ UNCHANGED <<conf, outcome, ledger>>
    BY <2>1 DEF ReportError, ReportPermanent, FailTransient, FailPermanent, Finish,
       LeaveJob, Goto, EndJob, Stage
  <2>4. NoneCompleted
    BY <1>i, <2>2, QueueCompletesNone
  <2>5. OthersGoOn(w) /\ stage'[w] = "idle"
    BY <1>t, <1>h, <2>3 DEF OthersGoOn, HistoryOK
  <2>6. HistoryOK' /\ LedgerGrows
    BY <1>h, <2>3 DEF HistoryOK, Stages, Outcomes, LedgerGrows, Account
  <2> QED BY <1>i, <2>3, <2>4, <2>5, <2>6, StepKeeps
<1>7. CASE \E w \in Workers : DieInPipeline(w)
  <2>1. PICK w \in Workers : DieInPipeline(w)
    BY <1>7
  <2>2. /\ hold' = [hold EXCEPT ![w] = 0] /\ pc' = [pc EXCEPT ![w] = "down"]
        /\ stage' = [stage EXCEPT ![w] = "idle"] /\ result' = [result EXCEPT ![w] = "none"]
        /\ UNCHANGED <<jobs, conf, outcome>>
    BY <2>1 DEF DieInPipeline, Die, LeaveJob, Goto, EndJob, Stage, queueVars
  <2>3. NoneCompleted
    BY <1>i, <2>2, QueueCompletesNone
  <2>4. OthersGoOn(w) /\ stage'[w] = "idle"
    BY <1>t, <1>h, <2>2 DEF OthersGoOn, HistoryOK
  <2>5. ledger' \in [1..MaxId -> Account] /\ LedgerGrows
    <3>1. CASE UNCHANGED ledger
      BY <1>h, <3>1 DEF HistoryOK, LedgerGrows, Account
    <3>2. CASE ledger' = [ledger EXCEPT ![hold[w]].excuses = @ + 1] /\ stage[w] = "done"
      <4>1. hold[w] \in 1..MaxId
        BY <1>i, <3>2, IdsInRange DEF PInv, StagedIsProcessing
      <4>2. ledger[hold[w]] \in Account /\ ledger[hold[w]].excuses + 1 \in Nat
        BY <1>h, <4>1 DEF HistoryOK, Account
      <4> DEFINE r == [ledger[hold[w]] EXCEPT !.excuses = ledger[hold[w]].excuses + 1]
      <4>3. r \in Account /\ r.accepted = ledger[hold[w]].accepted
        BY <4>2, Entries
      <4>4. ledger' = [ledger EXCEPT ![hold[w]] = r]
        BY <1>h, <3>2, <4>1 DEF HistoryOK, Account
      <4> HIDE DEF r
      <4>5. ledger' \in [1..MaxId -> Account]
        BY <1>h, <4>3, <4>4 DEF HistoryOK
      <4>6. \A i \in 1..MaxId : ledger'[i].accepted = ledger[i].accepted
        BY <1>h, <4>1, <4>3, <4>4 DEF HistoryOK
      <4>7. \A i \in 1..MaxId : ledger[i].accepted \in Nat
        BY <1>h DEF HistoryOK, Account
      <4> QED BY <4>5, <4>6, <4>7 DEF LedgerGrows
    <3> QED BY <2>1, <3>1, <3>2 DEF DieInPipeline
  <2>6. HistoryOK'
    BY <1>h, <2>2, <2>5 DEF HistoryOK, Stages, Outcomes
  <2> QED BY <1>i, <2>2, <2>3, <2>4, <2>5, <2>6, StepKeeps
<1>5. CASE \E w \in Workers : ReportSuccess(w)
  <2>1. PICK w \in Workers : ReportSuccess(w)
    BY <1>5
  <2>2. /\ stage[w] = "done" /\ pc[w] = "process" /\ Complete(hold[w])
        /\ hold' = [hold EXCEPT ![w] = 0] /\ pc' = [pc EXCEPT ![w] = "loop"]
        /\ stage' = [stage EXCEPT ![w] = "idle"] /\ result' = [result EXCEPT ![w] = "none"]
        /\ outcome' = [outcome EXCEPT ![hold[w]] = result[w]]
        /\ UNCHANGED <<conf, ledger>>
    BY <2>1 DEF ReportSuccess, Succeed, Finish, LeaveJob, Goto, EndJob, Stage
  <2>3. hold[w] \in 1..MaxId
    BY <1>i, <2>2, IdsInRange
  <2>4. OthersGoOn(w) /\ stage'[w] = "idle"
    BY <1>t, <1>h, <2>2 DEF OthersGoOn, HistoryOK
  <2>5. HistoryOK' /\ LedgerGrows
    <3>1. LedgerGrows
      BY <1>h, <2>2 DEF HistoryOK, LedgerGrows, Account
    <3>2. HistoryOK'
      BY <1>h, <2>2, <2>3 DEF HistoryOK, Stages, Outcomes
    <3> QED BY <3>1, <3>2
  <2>6. \A v \in Workers \ {w} : stage'[v] = stage[v] /\ result'[v] = result[v]
    BY <1>h, <2>2 DEF HistoryOK
  <2>7. StagedIsProcessing' /\ DoneMeansNotified'
    BY <2>2, <2>4, <2>5, <2>6, OthersStayDone DEF StagedIsProcessing, DoneMeansNotified
  <2>8. CompletedMeansNotified'
    <3> SUFFICES ASSUME NEW i \in DOMAIN jobs', jobs'[i].status = "completed",
                        WantsNotice(outcome[i])'
                 PROVE  ledger'[i].accepted > 0
      BY DEF CompletedMeansNotified
    <3>1. CASE i = hold[w]
      <4>1. WantsNotice(result[w])
        BY <1>h, <2>2, <2>3, <3>1 DEF WantsNotice, HistoryOK
      <4> QED BY <2>2, <3>1, <4>1 DEF PInv, DoneMeansNotified
    <3>2. CASE i # hold[w]
      <4>1. i \in DOMAIN jobs /\ jobs'[i] = jobs[i]
        BY <1>i, <2>2, <3>2, CompleteQ DEF ReportsOn, IInv
      <4>2. i \in 1..MaxId /\ outcome'[i] = outcome[i]
        BY <1>h, <1>i, <2>2, <3>2, <4>1, IdsInRange DEF HistoryOK
      <4>3. WantsNotice(outcome[i])
        BY <2>2, <4>2 DEF WantsNotice
      <4> QED BY <2>2, <4>1, <4>3 DEF PInv, CompletedMeansNotified
    <3> QED BY <3>1, <3>2
  <2> QED BY <1>i, <2>5, <2>7, <2>8 DEF PInv
<1> QED BY <1>1, <1>2, <1>3, <1>4, <1>5, <1>6, <1>7, <1>8, <1>9, <1>10, PipelineCases

\* Empty tables, no analysis under way.
LEMMA PipelineInvInit == Init /\ PipelineInit => PInv
<1> SUFFICES ASSUME Init, PipelineInit PROVE PInv
  OBVIOUS
<1>1. IInv
  BY InvInit
<1>2. HistoryOK
  BY DEF PipelineInit, HistoryOK, Stages, Outcomes, Account
<1>3. StagedIsProcessing /\ DoneMeansNotified
  BY DEF PipelineInit, StagedIsProcessing, DoneMeansNotified
<1>4. CompletedMeansNotified
  BY DEF Init, QueueInit, CompletedMeansNotified
<1> QED BY <1>1, <1>2, <1>3, <1>4 DEF PInv

\* A push whose notification is wanted is never marked completed before Slack
\* has accepted the message, with any number of workers, whatever is retried,
\* recovered or lost.
THEOREM NotifiedBeforeCompleted == PipelineSpec => []CompletedMeansNotified
<1>1. Init /\ PipelineInit => PInv
  BY PipelineInvInit
<1>2. PInv /\ [PipelineNext]_allVars => PInv'
  BY PipelineInvStep
<1>3. PInv => CompletedMeansNotified
  BY DEF PInv
<1> QED BY <1>1, <1>2, <1>3, PTL DEF PipelineSpec, allVars
-----------------------------------------------------------------------------
(***************************************************************************)
(* Neither property is inductive.  For the cost, CInv adds what the        *)
(* attempt in progress may still spend: the ledger of the job held plus    *)
(* that credit is within what its attempts allow.  For the repeats it says *)
(* exactly where the one unexcused message may be: with a job that is      *)
(* completed or gone, or in the hands of a worker about to report it.      *)
(***************************************************************************)
ModelCost == (MaxGroups + 1) * (ModelRetries + 1)
SlackCost == SlackRetries + 1

\* Requests an attempt may still make, from its stage, calls and tries.
ModelCredit(st, c, t) ==
  IF st = "analyze" THEN ModelCost
  ELSE IF st = "model" THEN c * (ModelRetries + 1) - t
  ELSE 0

SlackCredit(st, t) ==
  IF st \in {"analyze", "model"} THEN SlackCost
  ELSE IF st = "slack" THEN SlackCost - t
  ELSE 0

CountersOK ==
  /\ calls \in [Workers -> 0..(MaxGroups + 1)]
  /\ tries \in [Workers -> Nat]
  /\ \A w \in Workers :
       /\ stage[w] = "model" => calls[w] >= 1 /\ tries[w] <= ModelRetries
       /\ stage[w] = "slack" => tries[w] <= SlackRetries /\ WantsNotice(result[w])

NothingSpent == [model |-> 0, slack |-> 0, accepted |-> 0, excuses |-> 0]

UnsavedIsFree == \A i \in 1..MaxId : i > lastId => ledger[i] = NothingSpent

HeldIsPaid ==
  \A w \in Workers : stage[w] # "idle" =>
    /\ ledger[hold[w]].model + ModelCredit(stage[w], calls[w], tries[w])
         <= jobs[hold[w]].attempt_count * ModelCost
    /\ ledger[hold[w]].slack + SlackCredit(stage[w], tries[w])
         <= jobs[hold[w]].attempt_count * SlackCost

RowsArePaid ==
  \A i \in DOMAIN jobs :
    /\ ledger[i].model <= jobs[i].attempt_count * ModelCost
    /\ ledger[i].slack <= jobs[i].attempt_count * SlackCost

\* A worker is about to complete job i, whose message Slack has taken.
Owing(i) == \E w \in Workers : stage[w] = "done" /\ hold[w] = i /\ WantsNotice(result[w])

\* The job may still be attempted.
Open(i) == i > lastId \/ (i \in DOMAIN jobs /\ jobs[i].status # "completed")

OpenIsExcused ==
  \A i \in 1..MaxId : (Open(i) /\ ~Owing(i)) => ledger[i].accepted <= ledger[i].excuses

CInv == /\ PInv /\ SInv /\ CountersOK /\ UnsavedIsFree
        /\ HeldIsPaid /\ RowsArePaid /\ OpenIsExcused /\ RepeatsAreExcused

-----------------------------------------------------------------------------
(* Arithmetic.                                                             *)

\* The costs of an attempt.
LEMMA CostTypes ==
  /\ ModelCost \in Nat /\ SlackCost \in Nat
  /\ ModelRetries + 1 \in Nat /\ MaxGroups \in Nat
BY PipelineAssumption DEF ModelCost, SlackCost

\* More attempts allow more.
LEMMA MoreAllows ==
  ASSUME NEW m \in Nat, NEW n \in Nat, m <= n, NEW c \in Nat
  PROVE  m * c \in Nat /\ n * c \in Nat /\ m * c <= n * c
<1>0. n - m \in Nat /\ n = m + (n - m)
  OBVIOUS
<1>1. PICK d \in Nat : n = m + d
  BY <1>0
<1>2. n * c = m * c + d * c /\ d * c \in Nat /\ m * c \in Nat
  BY <1>1
<1> QED BY <1>2

\* One more attempt allows one cost more.
LEMMA OneMoreAllows ==
  ASSUME NEW m \in Nat, NEW c \in Nat
  PROVE  (m + 1) * c = m * c + c /\ m * c \in Nat
OBVIOUS

-----------------------------------------------------------------------------
(* The steps inside analyze.                                               *)

\* The ledger after a step of a worker that held job h: what the step adds
\* to the account of h, and nothing elsewhere.
Adds(h, m, s, a, e) ==
  /\ \A i \in (1..MaxId) \ {h} : ledger'[i] = ledger[i]
  /\ ledger'[h].model = ledger[h].model + m
  /\ ledger'[h].slack = ledger[h].slack + s
  /\ ledger'[h].accepted = ledger[h].accepted + a
  /\ ledger'[h].excuses = ledger[h].excuses + e

\* What a step adds, by action.
LEMMA InsideAdds ==
  ASSUME HistoryOK, NEW w \in Workers, hold[w] \in 1..MaxId
  PROVE  /\ UNCHANGED ledger => Adds(hold[w], 0, 0, 0, 0)
         /\ Charge(w, "model") => Adds(hold[w], 1, 0, 0, 0)
         /\ Charge(w, "slack") => Adds(hold[w], 0, 1, 0, 0)
         /\ SlackAccepts(w) => Adds(hold[w], 0, 1, 1, 0)
         /\ SlackAnswerLost(w) => Adds(hold[w], 0, 1, 1, 1)
<1> DEFINE h == hold[w]
<1>1. /\ ledger \in [1..MaxId -> Account] /\ h \in 1..MaxId /\ ledger[h] \in Account
      /\ ledger[h].model \in Nat /\ ledger[h].slack \in Nat
      /\ ledger[h].accepted \in Nat /\ ledger[h].excuses \in Nat
  BY DEF HistoryOK, Account
<1>2. UNCHANGED ledger => Adds(h, 0, 0, 0, 0)
  BY <1>1 DEF Adds
<1>3. ASSUME Charge(w, "model") PROVE Adds(h, 1, 0, 0, 0)
  BY <1>1, <1>3 DEF Adds, Charge, Account
<1>4. ASSUME Charge(w, "slack") PROVE Adds(h, 0, 1, 0, 0)
  BY <1>1, <1>4 DEF Adds, Charge, Account
<1>5. ASSUME SlackAccepts(w) PROVE Adds(h, 0, 1, 1, 0)
  BY <1>1, <1>5 DEF Adds, SlackAccepts, Account
<1>6. ASSUME SlackAnswerLost(w) PROVE Adds(h, 0, 1, 1, 1)
  BY <1>1, <1>6 DEF Adds, SlackAnswerLost, Account
<1> QED BY <1>2, <1>3, <1>4, <1>5, <1>6

\* Where a step inside analyze leads the worker.
LEMMA InsideMoves ==
  ASSUME NEW w \in Workers, InsideStep(w)
  PROVE  \/ /\ stage[w] = "analyze" /\ UNCHANGED ledger
            /\ \/ \E status : Conclude(w, status)
               \/ \E n \in 1..(MaxGroups + 1) : Stage(w, "model", n) /\ UNCHANGED result
               \/ \E place \in {"error", "permanent"} : Stage(w, place, 0) /\ UNCHANGED result
         \/ /\ stage[w] = "model" /\ Charge(w, "model")
            /\ \/ calls[w] > 1 /\ Stage(w, "model", calls[w] - 1) /\ UNCHANGED result
               \/ Conclude(w, "analyzed")
               \/ Retry(w, ModelRetries)
               \/ Stage(w, "error", 0) /\ UNCHANGED result
         \/ /\ stage[w] = "slack" /\ SlackAccepts(w)
            /\ Stage(w, "done", 0) /\ UNCHANGED result
         \/ /\ stage[w] = "slack"
            /\ Charge(w, "slack") \/ SlackAnswerLost(w)
            /\ Retry(w, SlackRetries) \/ (Stage(w, "error", 0) /\ UNCHANGED result)
BY DEF InsideStep, BranchDeleted, Skip, NothingToAnalyze, NeedsModel, PrepareFails,
   Prepares, ModelAnswers, ModelFailsRetryably, ModelFailsForGood, SlackAccepts,
   SlackAnswerLost, SlackFailsRetryably, SlackRefuses

\* The counters after a move of worker w.
LEMMA StageSets ==
  ASSUME HistoryOK, CountersOK, NEW w \in Workers, NEW place, NEW n, Stage(w, place, n)
  PROVE  stage'[w] = place /\ calls'[w] = n /\ tries'[w] = 0
BY DEF Stage, HistoryOK, CountersOK

\* Concluding leads to Slack or to the report.
LEMMA ConcludeSets ==
  ASSUME HistoryOK, CountersOK, NEW w \in Workers, NEW status, Conclude(w, status),
         UNCHANGED conf
  PROVE  /\ calls'[w] = 0 /\ tries'[w] = 0
         /\ \/ stage'[w] = "slack" /\ WantsNotice(result[w])'
            \/ stage'[w] = "done" /\ ~WantsNotice(result[w])'
<1>1. result'[w] = status
  BY DEF Conclude, HistoryOK
<1>2. WantsNotice(result[w])' <=> WantsNotice(status)
  BY <1>1 DEF WantsNotice
<1>3. Stage(w, IF WantsNotice(status) THEN "slack" ELSE "done", 0)
  BY DEF Conclude
<1>4. /\ calls'[w] = 0 /\ tries'[w] = 0
      /\ stage'[w] = IF WantsNotice(status) THEN "slack" ELSE "done"
  BY <1>3, StageSets
<1> QED BY <1>2, <1>4

\* A repeated request stays where it is and counts; otherwise the call failed.
LEMMA RetrySets ==
  ASSUME HistoryOK, CountersOK, NEW w \in Workers, NEW limit \in Nat, Retry(w, limit)
  PROVE  /\ UNCHANGED result
         /\ \/ /\ tries[w] < limit /\ tries'[w] = tries[w] + 1
               /\ stage'[w] = stage[w] /\ calls'[w] = calls[w]
            \/ stage'[w] = "error" /\ calls'[w] = 0 /\ tries'[w] = 0
<1>1. CASE tries[w] < limit
  BY <1>1 DEF Retry, CountersOK
<1>2. CASE ~(tries[w] < limit)
  BY <1>2, StageSets DEF Retry
<1> QED BY <1>1, <1>2

\* What is left of the attempt's credit, in every reachable situation.
LEMMA CreditNatural ==
  ASSUME NEW st, NEW c \in 0..(MaxGroups + 1), NEW t \in Nat,
         st = "model" => c >= 1 /\ t <= ModelRetries,
         st = "slack" => t <= SlackRetries
  PROVE  ModelCredit(st, c, t) \in Nat /\ SlackCredit(st, t) \in Nat
<1>1. CASE st = "model"
  <2>1. c - 1 \in Nat /\ ModelRetries \in Nat
    BY <1>1, PipelineAssumption
  <2>2. (c - 1) * (ModelRetries + 1) \in Nat
    BY <2>1
  <2>3. c * (ModelRetries + 1) - t = (c - 1) * (ModelRetries + 1) + (ModelRetries + 1 - t)
    BY <2>1
  <2>4. c * (ModelRetries + 1) - t \in Nat
    BY <1>1, <2>1, <2>2, <2>3
  <2> QED BY <1>1, <2>4, CostTypes DEF ModelCredit, SlackCredit
<1>2. CASE st # "model"
  BY <1>2, CostTypes, PipelineAssumption DEF ModelCredit, SlackCredit, SlackCost
<1> QED BY <1>1, <1>2

\* The credit of a number of calls is within that of an attempt.
LEMMA CallsWithin ==
  ASSUME NEW n \in 1..(MaxGroups + 1)
  PROVE  ModelCredit("model", n, 0) <= ModelCost
<1>1. n \in Nat /\ MaxGroups + 1 \in Nat /\ ModelRetries + 1 \in Nat /\ n <= MaxGroups + 1
  BY PipelineAssumption
<1>2. n * (ModelRetries + 1) \in Nat /\ n * (ModelRetries + 1) <= (MaxGroups + 1) * (ModelRetries + 1)
  BY <1>1, MoreAllows
<1> QED BY <1>2 DEF ModelCredit, ModelCost

\* A step of w leaves the counters of the others alone.
LEMMA CountersKept ==
  ASSUME HistoryOK, CountersOK, NEW w \in Workers, UNCHANGED conf,
         calls' = [calls EXCEPT ![w] = calls'[w]], calls'[w] \in 0..(MaxGroups + 1),
         tries' = [tries EXCEPT ![w] = tries'[w]], tries'[w] \in Nat,
         \A v \in Workers \ {w} : stage'[v] = stage[v] /\ result'[v] = result[v],
         stage'[w] = "model" => calls'[w] >= 1 /\ tries'[w] <= ModelRetries,
         stage'[w] = "slack" => tries'[w] <= SlackRetries /\ WantsNotice(result[w])'
  PROVE  CountersOK'
<1>1. calls' \in [Workers -> 0..(MaxGroups + 1)] /\ tries' \in [Workers -> Nat]
  BY DEF CountersOK
<1>2. ASSUME NEW v \in Workers
      PROVE  /\ stage'[v] = "model" => calls'[v] >= 1 /\ tries'[v] <= ModelRetries
             /\ stage'[v] = "slack" => tries'[v] <= SlackRetries /\ WantsNotice(result[v])'
  <2>1. CASE v # w
    <3>1. calls'[v] = calls[v] /\ tries'[v] = tries[v]
      BY <2>1 DEF CountersOK
    <3>2. result'[v] = result[v] => (WantsNotice(result[v])' <=> WantsNotice(result[v]))
      BY DEF WantsNotice
    <3> QED BY <2>1, <3>1, <3>2 DEF CountersOK
  <2> QED BY <2>1
<1> QED BY <1>1, <1>2 DEF CountersOK

\* Only the entries of w change.
LEMMA InsideCounters ==
  ASSUME HistoryOK, CountersOK, NEW w \in Workers, InsideStep(w)
  PROVE  /\ calls' = [calls EXCEPT ![w] = calls'[w]]
         /\ tries' = [tries EXCEPT ![w] = tries'[w]]
<1>1. ASSUME NEW place, NEW n, Stage(w, place, n)
      PROVE  /\ calls' = [calls EXCEPT ![w] = calls'[w]]
             /\ tries' = [tries EXCEPT ![w] = tries'[w]]
  BY <1>1 DEF Stage, CountersOK
<1>2. ASSUME NEW limit, Retry(w, limit)
      PROVE  /\ calls' = [calls EXCEPT ![w] = calls'[w]]
             /\ tries' = [tries EXCEPT ![w] = tries'[w]]
  BY <1>1, <1>2 DEF Retry, CountersOK
<1> QED BY <1>1, <1>2, InsideMoves DEF Conclude

\* Every step inside analyze pays what it adds out of the credit.
LEMMA InsidePays ==
  ASSUME PInv, CountersOK, NEW w \in Workers, InsideStep(w)
  PROVE  /\ CountersOK'
         /\ \E m, s, a, e \in {0, 1} :
              /\ Adds(hold[w], m, s, a, e)
              /\ m + ModelCredit(stage'[w], calls'[w], tries'[w])
                   <= ModelCredit(stage[w], calls[w], tries[w])
              /\ s + SlackCredit(stage'[w], tries'[w]) <= SlackCredit(stage[w], tries[w])
              /\ a <= e \/ (a = 1 /\ stage'[w] = "done" /\ WantsNotice(result[w])')
         /\ stage[w] # "done"
<1>0. /\ HistoryOK /\ hold[w] \in 1..MaxId
      /\ UNCHANGED <<vars, conf>>
      /\ \A v \in Workers \ {w} : stage'[v] = stage[v] /\ result'[v] = result[v]
  BY InsideEffect, InsideIsStutter, IdsInRange DEF PInv
<1>1. /\ calls[w] \in 0..(MaxGroups + 1) /\ tries[w] \in Nat
      /\ stage[w] = "model" => calls[w] >= 1 /\ tries[w] <= ModelRetries
      /\ stage[w] = "slack" => tries[w] <= SlackRetries /\ WantsNotice(result[w])
  BY DEF CountersOK
<1>2. ModelRetries \in Nat /\ SlackRetries \in Nat /\ MaxGroups \in Nat
  BY PipelineAssumption
<1>3. /\ ModelCredit(stage[w], calls[w], tries[w]) \in Nat
      /\ SlackCredit(stage[w], tries[w]) \in Nat
  BY <1>1, CreditNatural
<1>4. /\ \A c, t : ModelCredit("slack", c, t) = 0 /\ ModelCredit("done", c, t) = 0
      /\ \A c, t : ModelCredit("error", c, t) = 0 /\ ModelCredit("permanent", c, t) = 0
      /\ \A t : SlackCredit("done", t) = 0 /\ SlackCredit("error", t) = 0
      /\ \A t : SlackCredit("permanent", t) = 0
      /\ SlackCredit("slack", 0) = SlackCost
      /\ \A t : SlackCredit("analyze", t) = SlackCost /\ SlackCredit("model", t) = SlackCost
      /\ \A c, t : ModelCredit("analyze", c, t) = ModelCost
  BY CostTypes DEF ModelCredit, SlackCredit
<1>5. CASE /\ stage[w] = "analyze" /\ UNCHANGED ledger
           /\ \/ \E status : Conclude(w, status)
              \/ \E n \in 1..(MaxGroups + 1) : Stage(w, "model", n) /\ UNCHANGED result
              \/ \E place \in {"error", "permanent"} : Stage(w, place, 0) /\ UNCHANGED result
  <2>1. Adds(hold[w], 0, 0, 0, 0)
    BY <1>0, <1>5, InsideAdds
  <2>2. \/ /\ calls'[w] = 0 /\ tries'[w] = 0
           /\ \/ stage'[w] = "slack" /\ WantsNotice(result[w])'
              \/ stage'[w] = "done"
              \/ stage'[w] \in {"error", "permanent"}
        \/ /\ calls'[w] \in 1..(MaxGroups + 1) /\ tries'[w] = 0
           /\ stage'[w] = "model"
    BY <1>0, <1>5, ConcludeSets, StageSets
  <2>3. CountersOK'
    BY <1>0, <1>2, <2>2, InsideCounters, CountersKept
  <2>4. /\ ModelCredit(stage'[w], calls'[w], tries'[w]) <= ModelCost
        /\ SlackCredit(stage'[w], tries'[w]) <= SlackCost
    BY <1>4, <2>2, CallsWithin, CostTypes
  <2>5. /\ ModelCredit(stage'[w], calls'[w], tries'[w]) \in Nat
        /\ SlackCredit(stage'[w], tries'[w]) \in Nat
    BY <1>2, <2>2, CreditNatural
  <2> QED BY <1>4, <1>5, <2>1, <2>3, <2>4, <2>5
<1>6. CASE /\ stage[w] = "model" /\ Charge(w, "model")
           /\ \/ calls[w] > 1 /\ Stage(w, "model", calls[w] - 1) /\ UNCHANGED result
              \/ Conclude(w, "analyzed")
              \/ Retry(w, ModelRetries)
              \/ Stage(w, "error", 0) /\ UNCHANGED result
  <2>1. Adds(hold[w], 1, 0, 0, 0)
    BY <1>0, <1>6, InsideAdds
  <2>2. \/ /\ calls[w] > 1 /\ calls'[w] = calls[w] - 1 /\ tries'[w] = 0 /\ stage'[w] = "model"
        \/ /\ calls'[w] = 0 /\ tries'[w] = 0
           /\ stage'[w] = "slack" /\ WantsNotice(result[w])'
        \/ /\ calls'[w] = 0 /\ tries'[w] = 0
           /\ stage'[w] \in {"done", "error"}
        \/ /\ tries[w] < ModelRetries /\ tries'[w] = tries[w] + 1
           /\ calls'[w] = calls[w] /\ stage'[w] = "model"
    BY <1>0, <1>2, <1>6, ConcludeSets, StageSets, RetrySets
  <2>3. CountersOK'
    <3>1. /\ calls'[w] \in 0..(MaxGroups + 1) /\ tries'[w] \in Nat
          /\ stage'[w] = "model" => calls'[w] >= 1 /\ tries'[w] <= ModelRetries
          /\ stage'[w] = "slack" => tries'[w] <= SlackRetries /\ WantsNotice(result[w])'
      BY <1>1, <1>2, <1>6, <2>2
    <3> QED BY <1>0, <3>1, InsideCounters, CountersKept
  <2>4. 1 + ModelCredit(stage'[w], calls'[w], tries'[w]) <= ModelCredit(stage[w], calls[w], tries[w])
    <3> DEFINE R == ModelRetries + 1
    <3>1. ModelCredit(stage[w], calls[w], tries[w]) = calls[w] * R - tries[w]
      BY <1>6 DEF ModelCredit
    <3>2. /\ calls[w] - 1 \in Nat /\ R \in Nat /\ R >= 1 /\ tries[w] + 1 <= R
          /\ (calls[w] - 1) * R \in Nat
          /\ calls[w] * R = (calls[w] - 1) * R + R
      BY <1>1, <1>2, <1>6
    <3>3. ModelCredit("model", calls[w] - 1, 0) = (calls[w] - 1) * R
      BY <3>2 DEF ModelCredit
    <3>4. ModelCredit("model", calls[w], tries[w] + 1) = calls[w] * R - (tries[w] + 1)
      BY DEF ModelCredit
    <3> HIDE DEF R
    <3> QED BY <1>1, <1>4, <2>2, <3>1, <3>2, <3>3, <3>4
  <2>5. SlackCredit(stage'[w], tries'[w]) <= SlackCredit(stage[w], tries[w])
    BY <1>4, <1>6, <2>2, CostTypes
  <2>6. SlackCredit(stage'[w], tries'[w]) \in Nat
    BY <1>4, <2>2, CostTypes
  <2> QED BY <1>6, <2>1, <2>3, <2>4, <2>5, <2>6
<1>7. CASE /\ stage[w] = "slack" /\ SlackAccepts(w)
           /\ Stage(w, "done", 0) /\ UNCHANGED result
  <2>1. Adds(hold[w], 0, 1, 1, 0)
    BY <1>0, <1>7, InsideAdds
  <2>2. stage'[w] = "done" /\ calls'[w] = 0 /\ tries'[w] = 0
    BY <1>0, <1>7, StageSets
  <2>3. CountersOK'
    BY <1>0, <1>2, <2>2, InsideCounters, CountersKept
  <2>4. WantsNotice(result[w])'
    BY <1>0, <1>1, <1>7 DEF WantsNotice
  <2>5. /\ 1 + SlackCredit("done", 0) <= SlackCredit(stage[w], tries[w])
        /\ ModelCredit(stage[w], calls[w], tries[w]) = 0
    BY <1>1, <1>2, <1>4, <1>7 DEF SlackCredit, SlackCost
  <2> QED BY <1>4, <1>7, <2>1, <2>2, <2>3, <2>4, <2>5
<1>8. CASE /\ stage[w] = "slack"
           /\ Charge(w, "slack") \/ SlackAnswerLost(w)
           /\ Retry(w, SlackRetries) \/ (Stage(w, "error", 0) /\ UNCHANGED result)
  <2>1. Adds(hold[w], 0, 1, 0, 0) \/ Adds(hold[w], 0, 1, 1, 1)
    BY <1>0, <1>8, InsideAdds
  <2>2. /\ UNCHANGED result
        /\ \/ /\ tries[w] < SlackRetries /\ tries'[w] = tries[w] + 1
              /\ stage'[w] = "slack" /\ calls'[w] = calls[w]
           \/ stage'[w] = "error" /\ calls'[w] = 0 /\ tries'[w] = 0
    BY <1>0, <1>2, <1>8, StageSets, RetrySets
  <2>3. WantsNotice(result[w])'
    BY <1>0, <1>1, <1>8, <2>2 DEF WantsNotice
  <2>4. CountersOK'
    <3>1. calls'[w] \in 0..(MaxGroups + 1) /\ tries'[w] \in Nat /\ stage'[w] # "model"
      BY <1>1, <1>2, <2>2
    <3>2. stage'[w] = "slack" => tries'[w] <= SlackRetries
      BY <1>1, <1>2, <2>2
    <3> QED BY <1>0, <2>3, <3>1, <3>2, InsideCounters, CountersKept
  <2>5. 1 + SlackCredit(stage'[w], tries'[w]) <= SlackCredit(stage[w], tries[w])
    <3>1. SlackCredit(stage[w], tries[w]) = SlackRetries + 1 - tries[w]
      BY <1>1, <1>2, <1>8 DEF SlackCredit, SlackCost
    <3>2. SlackCredit("slack", tries[w] + 1) = SlackRetries + 1 - (tries[w] + 1)
      BY <1>1, <1>2 DEF SlackCredit, SlackCost
    <3> QED BY <1>1, <1>2, <1>4, <1>8, <2>2, <3>1, <3>2
  <2>6. ModelCredit(stage'[w], calls'[w], tries'[w]) = 0 /\ ModelCredit(stage[w], calls[w], tries[w]) = 0
    BY <1>4, <1>8, <2>2
  <2> QED BY <1>8, <2>1, <2>4, <2>5, <2>6
<1> QED BY <1>5, <1>6, <1>7, <1>8, InsideMoves

-----------------------------------------------------------------------------
(* The other steps.                                                        *)

\* Rows keep their attempts, completed rows stay so, new rows have new ids.
RowsMove ==
  /\ lastId' >= lastId
  /\ \A i \in DOMAIN jobs' : i \in DOMAIN jobs \/ i > lastId
  /\ \A i \in DOMAIN jobs' \cap DOMAIN jobs :
       /\ jobs'[i].attempt_count >= jobs[i].attempt_count
       /\ jobs[i].status = "completed" => jobs'[i].status = "completed"

\* The queue's operations are such steps.
LEMMA ShapeMoves ==
  ASSUME QInv, Shape
  PROVE  RowsMove
<1>0. /\ lastId \in Nat
      /\ \A i \in DOMAIN jobs : jobs[i].attempt_count \in Nat
  BY QInvRows
<1>1. CASE Saved
  BY <1>0, <1>1 DEF Saved, RowsMove
<1>2. CASE Abandoned
  BY <1>0, <1>2 DEF Abandoned, SameRows, Kept, RowsMove, Settled
<1>3. CASE Purged
  BY <1>0, <1>3 DEF Purged, RowsMove
<1>4. CASE \E i \in DOMAIN jobs : Attempted(i) \/ Concluded(i)
  <2>1. PICK i \in DOMAIN jobs : Attempted(i) \/ Concluded(i)
    BY <1>4
  <2>2. /\ SameRows /\ jobs[i].status # "completed"
        /\ jobs'[i].attempt_count >= jobs[i].attempt_count
        /\ \A j \in DOMAIN jobs \ {i} : jobs'[j] = jobs[j]
    BY <1>0, <2>1 DEF Attempted, Concluded, Settled
  <2> QED BY <1>0, <2>2 DEF RowsMove, SameRows
<1> QED BY <1>1, <1>2, <1>3, <1>4 DEF Shape

\* The facts about the rows and the ledger that the steps need.
LEMMA PaidFacts ==
  ASSUME CInv
  PROVE  /\ HistoryOK /\ QInv /\ lastId \in Nat
         /\ \A i \in 1..MaxId :
              /\ ledger[i].model \in Nat /\ ledger[i].slack \in Nat
              /\ ledger[i].accepted \in Nat /\ ledger[i].excuses \in Nat
         /\ \A i \in DOMAIN jobs : i \in 1..MaxId /\ jobs[i].attempt_count \in Nat
         /\ \A w \in Workers : stage[w] # "idle" =>
              /\ pc[w] = "process" /\ hold[w] \in DOMAIN jobs
              /\ hold[w] \in 1..MaxId /\ hold[w] <= lastId
              /\ jobs[hold[w]].status = "processing"
<1>1. HistoryOK /\ IInv /\ QInv
  BY DEF CInv, PInv, IInv
<1>2. \A i \in DOMAIN jobs : i \in 1..lastId /\ i \in 1..MaxId /\ jobs[i].attempt_count \in Nat
  BY <1>1, QInvRows, IdsInRange
<1>3. \A w \in Workers : stage[w] # "idle" =>
        /\ pc[w] = "process" /\ hold[w] \in DOMAIN jobs
        /\ jobs[hold[w]].status = "processing"
  BY DEF CInv, PInv, StagedIsProcessing, SInv, HeldIsLeased, Processing
<1>4. lastId \in Nat
  BY <1>1, QInvRows
<1> QED BY <1>1, <1>2, <1>3, <1>4 DEF HistoryOK, Account

\* A step that sends no request keeps the books, but for the attempt in hand.
LEMMA QuietBooks ==
  ASSUME CInv, PInv', RowsMove,
         \A i \in 1..MaxId :
           /\ ledger'[i].model = ledger[i].model /\ ledger'[i].slack = ledger[i].slack
           /\ ledger'[i].accepted = ledger[i].accepted
           /\ ledger'[i].excuses >= ledger[i].excuses
           /\ i > lastId => ledger'[i] = ledger[i],
         \A i \in 1..MaxId : Owing(i) /\ Open(i)' =>
           Owing(i)' \/ ledger'[i].accepted <= ledger'[i].excuses
  PROVE  /\ UnsavedIsFree' /\ RowsArePaid' /\ OpenIsExcused' /\ RepeatsAreExcused'
         /\ lastId' \in Nat
         /\ \A i \in DOMAIN jobs' : i \in 1..MaxId /\ jobs'[i].attempt_count \in Nat
<1>q. QInv' /\ HistoryOK'
  BY DEF PInv, IInv
<1>0. HistoryOK /\ lastId \in Nat /\ lastId' \in Nat /\ lastId' >= lastId
  BY <1>q, PaidFacts DEF RowsMove, QInv, QueueTypeOK
<1>a. /\ \A i \in DOMAIN jobs : i \in 1..MaxId /\ jobs[i].attempt_count \in Nat
      /\ \A i \in DOMAIN jobs' : i \in 1..MaxId /\ jobs'[i].attempt_count \in Nat
  <2>1. \A i \in DOMAIN jobs' : jobs'[i] \in Row /\ i \in 1..MaxId
    BY <1>q, QueueAssumption DEF QInv, QueueTypeOK
  <2> QED BY <2>1, PaidFacts DEF Row
<1>b. \A i \in 1..MaxId :
        /\ ledger[i].model \in Nat /\ ledger[i].slack \in Nat
        /\ ledger[i].accepted \in Nat /\ ledger[i].excuses \in Nat
        /\ ledger'[i].excuses \in Nat
  BY <1>q, PaidFacts DEF HistoryOK, Account
<1>c. ModelCost \in Nat /\ SlackCost \in Nat
  BY CostTypes
<1>1. UnsavedIsFree'
  BY <1>0 DEF CInv, UnsavedIsFree
<1>2. RowsArePaid'
  <2> SUFFICES ASSUME NEW i \in DOMAIN jobs'
               PROVE  /\ ledger'[i].model <= jobs'[i].attempt_count * ModelCost
                      /\ ledger'[i].slack <= jobs'[i].attempt_count * SlackCost
    BY DEF RowsArePaid
  <2>0. i \in 1..MaxId /\ jobs'[i].attempt_count \in Nat
    BY <1>a
  <2>1. CASE i \in DOMAIN jobs
    <3>1. jobs[i].attempt_count \in Nat /\ jobs[i].attempt_count <= jobs'[i].attempt_count
      BY <1>a, <2>0, <2>1 DEF RowsMove
    <3>2. /\ jobs[i].attempt_count * ModelCost <= jobs'[i].attempt_count * ModelCost
          /\ jobs[i].attempt_count * SlackCost <= jobs'[i].attempt_count * SlackCost
          /\ jobs[i].attempt_count * ModelCost \in Nat /\ jobs'[i].attempt_count * ModelCost \in Nat
          /\ jobs[i].attempt_count * SlackCost \in Nat /\ jobs'[i].attempt_count * SlackCost \in Nat
      BY <1>c, <2>0, <3>1, MoreAllows
    <3>3. /\ ledger[i].model <= jobs[i].attempt_count * ModelCost
          /\ ledger[i].slack <= jobs[i].attempt_count * SlackCost
      BY <2>1 DEF CInv, RowsArePaid
    <3> QED BY <1>b, <2>0, <3>2, <3>3
  <2>2. CASE i > lastId
    <3>1. ledger'[i].model = 0 /\ ledger'[i].slack = 0
      BY <2>0, <2>2 DEF CInv, UnsavedIsFree, NothingSpent
    <3>2. /\ jobs'[i].attempt_count * ModelCost \in Nat
          /\ jobs'[i].attempt_count * SlackCost \in Nat
      BY <1>c, <2>0
    <3> QED BY <3>1, <3>2
  <2> QED BY <2>1, <2>2 DEF RowsMove
<1>4. \A i \in 1..MaxId : Open(i)' => Open(i)
  BY <1>0 DEF Open, RowsMove
<1>5. OpenIsExcused'
  <2> SUFFICES ASSUME NEW i \in 1..MaxId, Open(i)', ~Owing(i)'
               PROVE  ledger'[i].accepted <= ledger'[i].excuses
    BY DEF OpenIsExcused
  <2>1. CASE Owing(i)
    BY <2>1
  <2>2. CASE ~Owing(i)
    <3>1. ledger[i].accepted <= ledger[i].excuses
      BY <1>4, <2>2 DEF CInv, OpenIsExcused
    <3> QED BY <1>b, <3>1
  <2> QED BY <2>1, <2>2
<1>6. RepeatsAreExcused'
  BY <1>b DEF CInv, RepeatsAreExcused
<1> QED BY <1>0, <1>a, <1>1, <1>2, <1>5, <1>6

\* If moreover no job is taken up, the attempt in hand is as it was.
LEMMA QuietStep ==
  ASSUME CInv, PInv', SInv', RowsMove, CountersOK',
         \A i \in 1..MaxId :
           /\ ledger'[i].model = ledger[i].model /\ ledger'[i].slack = ledger[i].slack
           /\ ledger'[i].accepted = ledger[i].accepted
           /\ ledger'[i].excuses >= ledger[i].excuses
           /\ i > lastId => ledger'[i] = ledger[i],
         \A w \in Workers : stage'[w] # "idle" =>
           /\ stage'[w] = stage[w] /\ hold'[w] = hold[w]
           /\ calls'[w] = calls[w] /\ tries'[w] = tries[w],
         \A i \in 1..MaxId : Owing(i) /\ Open(i)' =>
           Owing(i)' \/ ledger'[i].accepted <= ledger'[i].excuses
  PROVE  CInv'
<1>1. /\ UnsavedIsFree' /\ RowsArePaid' /\ OpenIsExcused' /\ RepeatsAreExcused'
      /\ \A i \in DOMAIN jobs' : i \in 1..MaxId /\ jobs'[i].attempt_count \in Nat
  BY QuietBooks
<1>a. \A i \in DOMAIN jobs : i \in 1..MaxId /\ jobs[i].attempt_count \in Nat
  BY PaidFacts
<1>b. \A i \in 1..MaxId : ledger[i].model \in Nat /\ ledger[i].slack \in Nat
  BY PaidFacts
<1>c. ModelCost \in Nat /\ SlackCost \in Nat
  BY CostTypes
<1>3. HeldIsPaid'
  <2> SUFFICES ASSUME NEW w \in Workers, stage'[w] # "idle"
               PROVE  /\ ledger'[hold'[w]].model + ModelCredit(stage'[w], calls'[w], tries'[w])
                           <= jobs'[hold'[w]].attempt_count * ModelCost
                      /\ ledger'[hold'[w]].slack + SlackCredit(stage'[w], tries'[w])
                           <= jobs'[hold'[w]].attempt_count * SlackCost
    BY DEF HeldIsPaid, ModelCredit, SlackCredit, ModelCost, SlackCost
  <2> DEFINE i == hold[w]
             m == ModelCredit(stage[w], calls[w], tries[w])
             s == SlackCredit(stage[w], tries[w])
  <2>1. /\ stage[w] # "idle" /\ stage'[w] = stage[w] /\ hold'[w] = i
        /\ calls'[w] = calls[w] /\ tries'[w] = tries[w]
    OBVIOUS
  <2>2. i \in DOMAIN jobs /\ i \in 1..MaxId
    BY <2>1, PaidFacts
  <2>3. i \in DOMAIN jobs'
    BY <2>1 DEF PInv, StagedIsProcessing, SInv, HeldIsLeased, Processing
  <2>4. /\ jobs[i].attempt_count \in Nat /\ jobs'[i].attempt_count \in Nat
        /\ jobs[i].attempt_count <= jobs'[i].attempt_count
    BY <1>1, <1>a, <2>2, <2>3 DEF RowsMove
  <2>5. /\ jobs[i].attempt_count * ModelCost <= jobs'[i].attempt_count * ModelCost
        /\ jobs[i].attempt_count * SlackCost <= jobs'[i].attempt_count * SlackCost
        /\ jobs[i].attempt_count * ModelCost \in Nat /\ jobs'[i].attempt_count * ModelCost \in Nat
        /\ jobs[i].attempt_count * SlackCost \in Nat /\ jobs'[i].attempt_count * SlackCost \in Nat
    BY <1>c, <2>4, MoreAllows
  <2>6. /\ ledger[i].model + m <= jobs[i].attempt_count * ModelCost
        /\ ledger[i].slack + s <= jobs[i].attempt_count * SlackCost
    BY <2>1 DEF CInv, HeldIsPaid
  <2>7. m \in Nat /\ s \in Nat
    BY CreditNatural DEF CInv, CountersOK
  <2>8. ledger'[i].model = ledger[i].model /\ ledger'[i].slack = ledger[i].slack
    BY <2>2
  <2>9. /\ ModelCredit(stage'[w], calls'[w], tries'[w]) = m
        /\ SlackCredit(stage'[w], tries'[w]) = s
    BY <2>1
  <2> HIDE DEF m, s
  <2>10. /\ ledger'[i].model + m <= jobs'[i].attempt_count * ModelCost
         /\ ledger'[i].slack + s <= jobs'[i].attempt_count * SlackCost
    BY <1>b, <2>2, <2>5, <2>6, <2>7, <2>8
  <2> QED BY <2>1, <2>9, <2>10
<1> QED BY <1>1, <1>3 DEF CInv

\* A step inside analyze pays from the credit of its attempt.
LEMMA InsideKeeps ==
  ASSUME OneWorker, CInv, PInv', SInv', NEW w \in Workers, InsideStep(w)
  PROVE  CInv'
<1> DEFINE h == hold[w]
           c == ModelCredit(stage[w], calls[w], tries[w])
           d == SlackCredit(stage[w], tries[w])
           cc == ModelCredit(stage'[w], calls'[w], tries'[w])
           dd == SlackCredit(stage'[w], tries'[w])
<1>1. PICK m, s, a, e \in {0, 1} :
        /\ Adds(h, m, s, a, e)
        /\ m + cc <= c /\ s + dd <= d
        /\ a <= e \/ (a = 1 /\ stage'[w] = "done" /\ WantsNotice(result[w])')
  BY InsidePays DEF CInv
<1>2. CountersOK' /\ stage[w] # "done" /\ stage[w] # "idle"
  BY InsidePays, InsideMoves DEF CInv
<1>3. UNCHANGED <<jobs, lastId, hold>>
  BY InsideIsStutter DEF vars, queueVars, workerVars
<1>4. /\ h \in DOMAIN jobs /\ h \in 1..MaxId /\ h <= lastId /\ lastId \in Nat
      /\ jobs[h].status = "processing" /\ jobs[h].attempt_count \in Nat
      /\ ledger[h].model \in Nat /\ ledger[h].slack \in Nat
      /\ ledger[h].accepted \in Nat /\ ledger[h].excuses \in Nat
      /\ \A i \in DOMAIN jobs : i \in 1..MaxId
  BY <1>2, PaidFacts
<1>5. /\ ledger[h].model + c <= jobs[h].attempt_count * ModelCost
      /\ ledger[h].slack + d <= jobs[h].attempt_count * SlackCost
  BY <1>2 DEF CInv, HeldIsPaid
<1>6. c \in Nat /\ d \in Nat
  BY CreditNatural DEF CInv, CountersOK
<1>7. cc \in Nat /\ dd \in Nat
  BY <1>2, CreditNatural DEF CountersOK
<1>8. /\ jobs[h].attempt_count * ModelCost \in Nat
      /\ jobs[h].attempt_count * SlackCost \in Nat
  BY <1>4, CostTypes
<1> HIDE DEF c, d, cc, dd
<1>9. /\ ledger'[h].model + cc <= jobs[h].attempt_count * ModelCost
      /\ ledger'[h].slack + dd <= jobs[h].attempt_count * SlackCost
      /\ ledger'[h].model <= jobs[h].attempt_count * ModelCost
      /\ ledger'[h].slack <= jobs[h].attempt_count * SlackCost
  BY <1>1, <1>4, <1>5, <1>6, <1>7, <1>8 DEF Adds
<1>10. HeldIsPaid'
  <2>1. \A v \in Workers : v = w
    BY DEF OneWorker
  <2>2. /\ ledger'[hold'[w]].model + ModelCredit(stage'[w], calls'[w], tries'[w])
             <= jobs'[hold'[w]].attempt_count * ModelCost
        /\ ledger'[hold'[w]].slack + SlackCredit(stage'[w], tries'[w])
             <= jobs'[hold'[w]].attempt_count * SlackCost
    BY <1>3, <1>9 DEF cc, dd
  <2> QED BY <2>1, <2>2 DEF HeldIsPaid, ModelCredit, SlackCredit, ModelCost, SlackCost
<1>11. RowsArePaid'
  <2> SUFFICES ASSUME NEW i \in DOMAIN jobs'
               PROVE  /\ ledger'[i].model <= jobs'[i].attempt_count * ModelCost
                      /\ ledger'[i].slack <= jobs'[i].attempt_count * SlackCost
    BY DEF RowsArePaid
  <2>1. CASE i = h
    BY <1>3, <1>9, <2>1
  <2>2. CASE i # h
    <3>1. ledger'[i] = ledger[i]
      BY <1>1, <1>3, <1>4, <2>2 DEF Adds
    <3> QED BY <1>3, <3>1 DEF CInv, RowsArePaid
  <2> QED BY <2>1, <2>2
<1>12. UnsavedIsFree'
  <2> SUFFICES ASSUME NEW i \in 1..MaxId, i > lastId PROVE ledger'[i] = NothingSpent
    BY <1>3 DEF UnsavedIsFree
  <2> QED BY <1>1, <1>4 DEF Adds, CInv, UnsavedIsFree
<1>13. ledger[h].accepted <= ledger[h].excuses
  <2>1. Open(h)
    BY <1>4 DEF Open
  <2>2. ~Owing(h)
    BY <1>2 DEF Owing, OneWorker
  <2> QED BY <1>4, <2>1, <2>2 DEF CInv, OpenIsExcused
<1>14. OpenIsExcused'
  <2> SUFFICES ASSUME NEW i \in 1..MaxId, Open(i)', ~Owing(i)'
               PROVE  ledger'[i].accepted <= ledger'[i].excuses
    BY DEF OpenIsExcused
  <2>1. CASE i = h
    <3>1. ~(stage'[w] = "done" /\ WantsNotice(result[w])')
      BY <1>3, <2>1 DEF Owing
    <3> QED BY <1>1, <1>4, <1>13, <2>1, <3>1 DEF Adds
  <2>2. CASE i # h
    <3>1. ledger'[i] = ledger[i] /\ Open(i)
      BY <1>1, <1>3, <2>2 DEF Adds, Open
    <3>2. ~Owing(i)
      BY <2>2 DEF Owing, OneWorker
    <3> QED BY <3>1, <3>2 DEF CInv, OpenIsExcused
  <2> QED BY <2>1, <2>2
<1>15. RepeatsAreExcused'
  <2> SUFFICES ASSUME NEW i \in 1..MaxId
               PROVE  ledger'[i].accepted <= 1 + ledger'[i].excuses
    BY DEF RepeatsAreExcused
  <2>1. CASE i = h
    BY <1>1, <1>4, <1>13, <2>1 DEF Adds
  <2>2. CASE i # h
    BY <1>1, <2>2 DEF Adds, CInv, RepeatsAreExcused
  <2> QED BY <2>1, <2>2
<1> QED BY <1>2, <1>10, <1>11, <1>12, <1>14, <1>15 DEF CInv

\* A worker that does not process a job has no stage.
LEMMA IdleStage ==
  ASSUME CInv, NEW w \in Workers, pc[w] # "process"
  PROVE  stage[w] = "idle"
BY DEF CInv, PInv, StagedIsProcessing

\* The claim of a job opens the credit of one attempt.
LEMMA BeginJobKeeps ==
  ASSUME OneWorker, CInv, PInv', SInv', RowsMove, NEW w \in Workers, BeginJob(w)
  PROVE  CInv'
<1>1. PICK i \in Runnable : ClaimNext(i) /\ hold' = [hold EXCEPT ![w] = i]
  BY DEF BeginJob, Claim
<1>2. /\ pc[w] # "process" /\ Stage(w, "analyze", 0)
      /\ UNCHANGED <<conf, result, ledger>>
  BY DEF BeginJob, Claim, AtClaim
<1>3. HistoryOK /\ CountersOK /\ QInv /\ stage[w] = "idle" /\ hold'[w] = i
  BY <1>1, <1>2, PaidFacts, IdleStage DEF CInv, PInv, IInv, TypeOK
<1>4. /\ i \in DOMAIN jobs /\ jobs'[i].attempt_count = jobs[i].attempt_count + 1
      /\ i \in 1..MaxId /\ jobs[i].attempt_count \in Nat
      /\ ledger[i].model \in Nat /\ ledger[i].slack \in Nat
  BY <1>1, <1>3, ClaimQ, PaidFacts
<1>5. stage'[w] = "analyze" /\ calls'[w] = 0 /\ tries'[w] = 0
  BY <1>2, <1>3, StageSets
<1>6. CountersOK'
  <2>1. /\ calls' = [calls EXCEPT ![w] = calls'[w]] /\ tries' = [tries EXCEPT ![w] = tries'[w]]
        /\ \A v \in Workers \ {w} : stage'[v] = stage[v] /\ result'[v] = result[v]
    BY <1>2, <1>3 DEF Stage, CountersOK, HistoryOK
  <2>2. 0 \in 0..(MaxGroups + 1)
    BY PipelineAssumption
  <2> QED BY <1>2, <1>3, <1>5, <2>1, <2>2, CountersKept
<1>7. HeldIsPaid'
  <2>1. /\ ModelCredit("analyze", 0, 0) = ModelCost /\ SlackCredit("analyze", 0) = SlackCost
        /\ ModelCost \in Nat /\ SlackCost \in Nat
    BY CostTypes DEF ModelCredit, SlackCredit
  <2>2. /\ ledger[i].model <= jobs[i].attempt_count * ModelCost
        /\ ledger[i].slack <= jobs[i].attempt_count * SlackCost
    BY <1>4 DEF CInv, RowsArePaid
  <2>3. /\ jobs'[i].attempt_count * ModelCost = jobs[i].attempt_count * ModelCost + ModelCost
        /\ jobs'[i].attempt_count * SlackCost = jobs[i].attempt_count * SlackCost + SlackCost
        /\ jobs[i].attempt_count * ModelCost \in Nat /\ jobs[i].attempt_count * SlackCost \in Nat
    BY <1>4, <2>1, OneMoreAllows
  <2>4. /\ ledger'[i].model + ModelCost <= jobs'[i].attempt_count * ModelCost
        /\ ledger'[i].slack + SlackCost <= jobs'[i].attempt_count * SlackCost
    BY <1>2, <1>4, <2>1, <2>2, <2>3
  <2>5. \A v \in Workers : v = w
    BY DEF OneWorker
  <2>6. /\ ledger'[hold'[w]].model + ModelCredit(stage'[w], calls'[w], tries'[w])
             <= jobs'[hold'[w]].attempt_count * ModelCost
        /\ ledger'[hold'[w]].slack + SlackCredit(stage'[w], tries'[w])
             <= jobs'[hold'[w]].attempt_count * SlackCost
    BY <1>3, <1>5, <2>1, <2>4
  <2> QED BY <2>5, <2>6 DEF HeldIsPaid, ModelCredit, SlackCredit, ModelCost, SlackCost
<1>8. \A k \in 1..MaxId : ~Owing(k)
  BY <1>3 DEF Owing, OneWorker
<1>9. \A k \in 1..MaxId : ledger[k].excuses \in Nat
  BY PaidFacts
<1>10. UnsavedIsFree' /\ RowsArePaid' /\ OpenIsExcused' /\ RepeatsAreExcused'
  BY <1>2, <1>8, <1>9, QuietBooks
<1> QED BY <1>6, <1>7, <1>10 DEF CInv

\* A step that leaves the analysis alone, of the loop or of the environment.
LEMMA OutsideStaysPaid ==
  ASSUME CInv, PInv', SInv', RowsMove, UNCHANGED pipelineVars,
         \A w \in Workers : stage[w] # "idle" => hold'[w] = hold[w]
  PROVE  CInv'
<1>1. UNCHANGED <<conf, stage, calls, tries, result, ledger>>
  BY DEF pipelineVars, analysisVars
<1>2. CountersOK'
  BY <1>1 DEF CInv, CountersOK, WantsNotice
<1>3. \A i \in 1..MaxId : Owing(i) => Owing(i)'
  BY <1>1 DEF Owing, WantsNotice
<1>4. \A i \in 1..MaxId : ledger[i].excuses \in Nat
  BY PaidFacts
<1> QED BY <1>1, <1>2, <1>3, <1>4, QuietStep

\* The end of an attempt: a report, or the death of the process.
LEMMA EndKeeps ==
  ASSUME OneWorker, CInv, PInv', SInv', RowsMove, NEW w \in Workers,
         ReportSuccess(w) \/ ReportError(w) \/ ReportPermanent(w) \/ DieInPipeline(w)
  PROVE  CInv'
<1>1. EndJob(w)
  BY DEF ReportSuccess, ReportError, ReportPermanent, DieInPipeline
<1>2. HistoryOK /\ CountersOK /\ QInv
  BY PaidFacts DEF CInv
<1>3. /\ stage'[w] = "idle" /\ calls'[w] = 0 /\ tries'[w] = 0
      /\ result' = [result EXCEPT ![w] = "none"] /\ UNCHANGED conf
  BY <1>1, <1>2, StageSets DEF EndJob
<1>4. CountersOK'
  <2>1. /\ calls' = [calls EXCEPT ![w] = calls'[w]] /\ tries' = [tries EXCEPT ![w] = tries'[w]]
        /\ \A v \in Workers \ {w} : stage'[v] = stage[v] /\ result'[v] = result[v]
    BY <1>1, <1>2, <1>3 DEF EndJob, Stage, CountersOK, HistoryOK
  <2>2. 0 \in 0..(MaxGroups + 1)
    BY PipelineAssumption
  <2> QED BY <1>2, <1>3, <2>1, <2>2, CountersKept
<1>5. \A v \in Workers : stage'[v] = "idle"
  BY <1>3 DEF OneWorker
<1>6. ASSUME NEW i \in 1..MaxId
      PROVE  /\ ledger'[i].model = ledger[i].model /\ ledger'[i].slack = ledger[i].slack
             /\ ledger'[i].accepted = ledger[i].accepted
             /\ ledger'[i].excuses >= ledger[i].excuses
             /\ i > lastId => ledger'[i] = ledger[i]
             /\ Owing(i) /\ Open(i)' => ledger'[i].accepted <= ledger'[i].excuses
  <2>0. /\ ledger[i].accepted \in Nat /\ ledger[i].excuses \in Nat
        /\ ledger[i].accepted <= 1 + ledger[i].excuses
    BY PaidFacts DEF CInv, RepeatsAreExcused
  <2>1. CASE ReportSuccess(w)
    <3>1. UNCHANGED ledger /\ stage[w] = "done" /\ Complete(hold[w])
      BY <2>1 DEF ReportSuccess, Succeed, Finish
    <3>2. hold[w] \in DOMAIN jobs /\ hold[w] <= lastId /\ lastId \in Nat
      BY <3>1, PaidFacts
    <3>3. jobs'[hold[w]].status = "completed" /\ UNCHANGED lastId
      BY <1>2, <3>1, <3>2, CompleteQ DEF Complete
    <3>4. ASSUME Owing(i) PROVE ~Open(i)'
      <4>1. i = hold[w]
        BY <3>4 DEF Owing, OneWorker
      <4> QED BY <3>2, <3>3, <4>1 DEF Open
    <3> QED BY <2>0, <3>1, <3>4
  <2>2. CASE ReportError(w) \/ ReportPermanent(w)
    <3>1. UNCHANGED ledger /\ stage[w] # "done"
      BY <2>2 DEF ReportError, ReportPermanent
    <3>2. ~Owing(i)
      BY <3>1 DEF Owing, OneWorker
    <3> QED BY <2>0, <3>1, <3>2
  <2>3. CASE DieInPipeline(w)
    <3>1. CASE stage[w] = "done" /\ WantsNotice(result[w])
      <4>1. ledger' = [ledger EXCEPT ![hold[w]].excuses = @ + 1]
        BY <2>3, <3>1 DEF DieInPipeline
      <4>2. hold[w] \in 1..MaxId /\ hold[w] <= lastId /\ lastId \in Nat
        BY <3>1, PaidFacts
      <4>3. ledger \in [1..MaxId -> Account] /\ ledger[hold[w]] \in Account
        BY <1>2, <4>2 DEF HistoryOK
      <4>4. CASE i = hold[w]
        <5>1. /\ ledger'[i].model = ledger[i].model /\ ledger'[i].slack = ledger[i].slack
              /\ ledger'[i].accepted = ledger[i].accepted
              /\ ledger'[i].excuses = ledger[i].excuses + 1
          BY <4>1, <4>3, <4>4 DEF Account
        <5> QED BY <2>0, <4>2, <4>4, <5>1
      <4>5. CASE i # hold[w]
        <5>1. ledger'[i] = ledger[i]
          BY <4>1, <4>3, <4>5
        <5>2. ~Owing(i)
          BY <4>5 DEF Owing, OneWorker
        <5> QED BY <2>0, <5>1, <5>2
      <4> QED BY <4>4, <4>5
    <3>2. CASE ~(stage[w] = "done" /\ WantsNotice(result[w]))
      <4>1. UNCHANGED ledger
        BY <2>3, <3>2 DEF DieInPipeline
      <4>2. ~Owing(i)
        BY <3>2 DEF Owing, OneWorker
      <4> QED BY <2>0, <4>1, <4>2
    <3> QED BY <3>1, <3>2
  <2> QED BY <2>1, <2>2, <2>3
<1> QED BY <1>4, <1>5, <1>6, QuietStep

\* CInv is inductive.
LEMMA CostInvStep ==
  ASSUME OneWorker, CInv, [PipelineNext]_allVars
  PROVE  CInv'
<1>1. PInv' /\ [Next]_vars
  BY PipelineInvStep, PipelineStepIsWorkerStep DEF CInv
<1>2. SInv' /\ Shape
  BY <1>1, SingleStep DEF CInv
<1>3. RowsMove
  BY <1>2, ShapeMoves, PaidFacts
<1>4. CASE \E w \in Workers : AroundJob(w)
  <2>1. PICK w \in Workers : AroundJob(w)
    BY <1>4
  <2>2. UNCHANGED <<hold, pipelineVars>>
    BY <2>1 DEF AroundJob, Start, Startup, RecoverStale, PurgeOldDeliveries,
       PurgeOldJobs, FallAsleep, Wake, Exit
  <2> QED BY <1>1, <1>2, <1>3, <2>2, OutsideStaysPaid
<1>5. CASE \/ \E w \in Workers : RequestShutdown(w) /\ UNCHANGED pipelineVars
           \/ \E k \in Keys : Submit(k) /\ UNCHANGED pipelineVars
           \/ Tick /\ UNCHANGED pipelineVars
           \/ UNCHANGED allVars
  <2>1. UNCHANGED <<hold, pipelineVars>>
    BY <1>5 DEF RequestShutdown, Submit, Tick, allVars, vars, workerVars
  <2> QED BY <1>1, <1>2, <1>3, <2>1, OutsideStaysPaid
<1> QED BY <1>1, <1>2, <1>3, <1>4, <1>5, PipelineCases, InsideKeeps, BeginJobKeeps, EndKeeps

\* No rows, no requests.
LEMMA CostInvInit == Init /\ PipelineInit => CInv
<1> SUFFICES ASSUME Init, PipelineInit PROVE CInv
  OBVIOUS
<1>1. PInv /\ SInv
  BY PipelineInvInit, SingleInit
<1>2. CountersOK
  BY PipelineAssumption DEF PipelineInit, CountersOK
<1>3. \A i \in 1..MaxId : ledger[i] = NothingSpent
  BY DEF PipelineInit, NothingSpent
<1>4. UnsavedIsFree /\ OpenIsExcused /\ RepeatsAreExcused
  BY <1>3 DEF UnsavedIsFree, OpenIsExcused, RepeatsAreExcused, NothingSpent
<1>5. HeldIsPaid /\ RowsArePaid
  BY DEF Init, QueueInit, PipelineInit, HeldIsPaid, RowsArePaid
<1> QED BY <1>1, <1>2, <1>4, <1>5 DEF CInv

\* CInv holds in every reachable state when there is one worker.
LEMMA CostInvariance == OneWorker => (PipelineSpec => []CInv)
<1> SUFFICES ASSUME OneWorker PROVE PipelineSpec => []CInv
  OBVIOUS
<1>1. Init /\ PipelineInit => CInv
  BY CostInvInit
<1>2. CInv /\ [PipelineNext]_allVars => CInv'
  BY CostInvStep
<1> QED BY <1>1, <1>2, PTL DEF PipelineSpec, allVars

\* With one worker, a push costs at most as many requests to the model and to
\* Slack as its attempts, the calls of an attempt and the retries of a call
\* multiply to, whatever fails and wherever the process dies.
THEOREM PushCostIsBounded == OneWorker => (PipelineSpec => []CostIsBounded)
<1>1. CInv => CostIsBounded
  <2> SUFFICES ASSUME CInv, NEW i \in DOMAIN jobs
               PROVE  /\ ledger[i].model
                           <= jobs[i].attempt_count * (MaxGroups + 1) * (ModelRetries + 1)
                      /\ ledger[i].slack <= jobs[i].attempt_count * (SlackRetries + 1)
    BY DEF CostIsBounded
  <2>1. jobs[i].attempt_count \in Nat
    BY PaidFacts
  <2>2. jobs[i].attempt_count * ModelCost
          = jobs[i].attempt_count * (MaxGroups + 1) * (ModelRetries + 1)
    BY <2>1, PipelineAssumption DEF ModelCost
  <2> QED BY <2>2 DEF CInv, RowsArePaid, SlackCost
<1> QED BY <1>1, CostInvariance, PTL

\* With one worker, Slack receives a message twice only when its first answer
\* was lost, or the process died between that answer and complete().
THEOREM RepeatsHaveExcuses == OneWorker => (PipelineSpec => []RepeatsAreExcused)
<1>1. CInv => RepeatsAreExcused
  BY DEF CInv
<1> QED BY <1>1, CostInvariance, PTL
=============================================================================
