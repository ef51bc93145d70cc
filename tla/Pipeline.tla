------------------------------ MODULE Pipeline ------------------------------
(***************************************************************************)
(* What a worker does between claiming a job and reporting on it:          *)
(* ChangeAnalyzer.analyze (app/analyzer.py) with the retry loops of the    *)
(* language model (app/llm/base.py, google_provider.py) and of Slack       *)
(* (app/slack.py), as a refinement of module Worker.  stage[w] says where  *)
(* in analyze worker w stands; its error stages say which except clause of *)
(* Worker.process will report.                                             *)
(*                                                                         *)
(* Every HTTP request is a step and the process may die between any two.   *)
(* The git phase (_prepare) is one step here: it ends in a verdict on the  *)
(* push, which may differ between two attempts because the mirror moved    *)
(* on; what it does to the disk is module Mirror.                          *)
(***************************************************************************)
EXTENDS Worker

CONSTANTS
  MaxGroups,        \* hierarchical_max_groups
  ModelRetries,     \* max_retries of the language model
  SlackRetries      \* max_retries of Slack

ASSUME PipelineAssumption ==
  /\ MaxGroups \in Nat \ {0}
  /\ ModelRetries \in Nat
  /\ SlackRetries \in Nat

VARIABLES
  conf,             \* the settings analyze looks at
  push,             \* kind of push behind each dedupe key
  stage,            \* where each worker stands in analyze
  calls,            \* model calls still to be answered in this attempt
  tries,            \* failed requests of the current call or message
  result,           \* status of the AnalysisOutcome under construction
  outcome,          \* outcome of a completed job, as logged
  ledger            \* history: what each job has cost and sent so far

analysisVars == <<stage, calls, tries, result>>
pipelineVars == <<conf, push, analysisVars, outcome, ledger>>

Kinds == {"normal", "created", "deleted"}

Outcomes == {"none", "branch_deleted", "skipped", "branch_created",
             "ignored_only", "no_changes", "analyzed"}

Stages == {"idle", "analyze", "model", "slack", "done", "error", "permanent"}

\* model and slack count HTTP requests, accepted the messages Slack took,
\* excuses the accepted messages whose success the queue never learnt of.
Account == [model : Nat, slack : Nat, accepted : Nat, excuses : Nat]

PipelineInit ==
  /\ conf \in [slack : BOOLEAN, watched : BOOLEAN, notify_on_branch_delete : BOOLEAN,
               notify_on_branch_create : BOOLEAN, notify_on_ignored_only : BOOLEAN]
  /\ push \in [Keys -> Kinds]
  /\ stage = [w \in Workers |-> "idle"]
  /\ calls = [w \in Workers |-> 0]
  /\ tries = [w \in Workers |-> 0]
  /\ result = [w \in Workers |-> "none"]
  /\ outcome = [i \in 1..MaxId |-> "none"]
  /\ ledger = [i \in 1..MaxId |-> [model |-> 0, slack |-> 0, accepted |-> 0, excuses |-> 0]]

Charge(w, item) == ledger' = [ledger EXCEPT ![hold[w]][item] = @ + 1]

Stage(w, place, left) ==
  /\ stage' = [stage EXCEPT ![w] = place]
  /\ calls' = [calls EXCEPT ![w] = left]
  /\ tries' = [tries EXCEPT ![w] = 0]

\* The parts of the system that a step inside analyze leaves alone.
InsideJob == UNCHANGED <<vars, conf, push, outcome>>

\* claim_next returned a job and process(job) starts.
BeginJob(w) ==
  /\ Claim(w)
  /\ Stage(w, "analyze", 0)
  /\ UNCHANGED <<conf, push, result, outcome, ledger>>

-----------------------------------------------------------------------------
(* analyze up to the model.                                                *)

WantsNotice(status) ==
  /\ conf.slack
  /\ \/ status = "analyzed"
     \/ status = "branch_deleted" /\ conf.notify_on_branch_delete
     \/ status = "branch_created" /\ conf.notify_on_branch_create
     \/ status = "ignored_only" /\ conf.notify_on_ignored_only

\* The outcome is known; what remains is the message, if one is wanted.
Conclude(w, status) ==
  /\ result' = [result EXCEPT ![w] = status]
  /\ Stage(w, IF WantsNotice(status) THEN "slack" ELSE "done", 0)

KindOf(w) == push[jobs[hold[w]].key]

BranchDeleted(w) ==
  /\ stage[w] = "analyze" /\ KindOf(w) = "deleted"
  /\ Conclude(w, "branch_deleted")
  /\ InsideJob /\ UNCHANGED ledger

Skip(w) ==
  /\ stage[w] = "analyze" /\ KindOf(w) # "deleted" /\ ~conf.watched
  /\ Conclude(w, "skipped")
  /\ InsideJob /\ UNCHANGED ledger

\* The push reaches _prepare.
Prepares(w) == stage[w] = "analyze" /\ KindOf(w) # "deleted" /\ conf.watched

\* _prepare found no baseline, only ignored files, or nothing at all.
NothingToAnalyze(w) ==
  /\ Prepares(w)
  /\ \E status \in {"branch_created", "ignored_only", "no_changes"} : Conclude(w, status)
  /\ InsideJob /\ UNCHANGED ledger

\* One request, or one per subsystem and a synthesis.
NeedsModel(w) ==
  /\ Prepares(w)
  /\ \E n \in 1..(MaxGroups + 1) : Stage(w, "model", n)
  /\ InsideJob /\ UNCHANGED <<result, ledger>>

\* git failed or timed out, or the commits are not in the mirror after a fetch.
PrepareFails(w) ==
  /\ Prepares(w)
  /\ \E place \in {"error", "permanent"} : Stage(w, place, 0)
  /\ InsideJob /\ UNCHANGED <<result, ledger>>

-----------------------------------------------------------------------------
(* _complete_with_retries over _complete.                                  *)

\* Schema-conforming output; the last call of the attempt ends the analysis.
ModelAnswers(w) ==
  /\ stage[w] = "model"
  /\ IF calls[w] > 1 THEN Stage(w, "model", calls[w] - 1) /\ UNCHANGED result
                     ELSE Conclude(w, "analyzed")
  /\ Charge(w, "model")
  /\ InsideJob

\* Mutant: the counter of retries is compared after one try too many.
RetryOnceMore(w, limit) ==
  /\ IF tries[w] <= limit
       THEN /\ tries' = [tries EXCEPT ![w] = @ + 1]
            /\ UNCHANGED <<stage, calls>>
       ELSE Stage(w, "error", 0)
  /\ UNCHANGED result

\* A failed request is repeated, up to limit times.
Retry(w, limit) ==
  /\ IF tries[w] < limit
       THEN /\ tries' = [tries EXCEPT ![w] = @ + 1]
            /\ UNCHANGED <<stage, calls>>
       ELSE Stage(w, "error", 0)
  /\ UNCHANGED result

\* Timeout, 408/429/5xx, no candidates, empty or non-conforming output.
ModelFailsRetryably(w) ==
  /\ stage[w] = "model"
  /\ Retry(w, ModelRetries)
  /\ Charge(w, "model")
  /\ InsideJob

\* FatalLLMError ends the loop; an exception that is no LLMError leaves it.
ModelFailsForGood(w) ==
  /\ stage[w] = "model"
  /\ Stage(w, "error", 0)
  /\ Charge(w, "model")
  /\ InsideJob /\ UNCHANGED result

-----------------------------------------------------------------------------
(* SlackNotifier.send.                                                     *)

\* Mutant: the loop does not return on success.
SlackAcceptsAndLoops(w) ==
  /\ stage[w] = "slack"
  /\ IF tries[w] < SlackRetries
       THEN tries' = [tries EXCEPT ![w] = @ + 1] /\ UNCHANGED <<stage, calls>>
       ELSE Stage(w, "done", 0)
  /\ ledger' = [ledger EXCEPT ![hold[w]].slack = @ + 1, ![hold[w]].accepted = @ + 1]
  /\ InsideJob /\ UNCHANGED result

\* Status below 300.
SlackAccepts(w) ==
  /\ stage[w] = "slack"
  /\ Stage(w, "done", 0)
  /\ ledger' = [ledger EXCEPT ![hold[w]].slack = @ + 1, ![hold[w]].accepted = @ + 1]
  /\ InsideJob /\ UNCHANGED result

\* Slack took the message and the answer was lost: a transport error.
SlackAnswerLost(w) ==
  /\ stage[w] = "slack"
  /\ Retry(w, SlackRetries)
  /\ ledger' = [ledger EXCEPT ![hold[w]].slack = @ + 1, ![hold[w]].accepted = @ + 1,
                              ![hold[w]].excuses = @ + 1]
  /\ InsideJob

\* Mutant: the function returns when its retries are used up.
SlackGivesUpQuietly(w) ==
  /\ stage[w] = "slack"
  /\ IF tries[w] < SlackRetries
       THEN tries' = [tries EXCEPT ![w] = @ + 1] /\ UNCHANGED <<stage, calls>>
       ELSE Stage(w, "done", 0)
  /\ Charge(w, "slack")
  /\ InsideJob /\ UNCHANGED result

\* Transport error, 429 or 5xx.
SlackFailsRetryably(w) ==
  /\ stage[w] = "slack"
  /\ Retry(w, SlackRetries)
  /\ Charge(w, "slack")
  /\ InsideJob

\* Any other status: break, and SlackError is raised.
SlackRefuses(w) ==
  /\ stage[w] = "slack"
  /\ Stage(w, "error", 0)
  /\ Charge(w, "slack")
  /\ InsideJob /\ UNCHANGED result

-----------------------------------------------------------------------------
(* process: the report, or the death of the process.                       *)

EndJob(w) ==
  /\ Stage(w, "idle", 0)
  /\ result' = [result EXCEPT ![w] = "none"]
  /\ UNCHANGED <<conf, push>>

ReportSuccess(w) ==
  /\ stage[w] = "done"
  /\ Succeed(w)
  /\ outcome' = [outcome EXCEPT ![hold[w]] = result[w]]
  /\ EndJob(w) /\ UNCHANGED ledger

\* Mutant: the exception is logged and the queue is not told.
ReportErrorToLog(w) ==
  /\ stage[w] = "error"
  /\ LeaveJob(w) /\ Goto(w, "loop")
  /\ UNCHANGED <<queueVars, since, stopping, disruptions>>
  /\ EndJob(w) /\ UNCHANGED <<outcome, ledger>>

\* except Exception
ReportError(w) ==
  /\ stage[w] = "error"
  /\ FailTransient(w)
  /\ EndJob(w) /\ UNCHANGED <<outcome, ledger>>

\* except (PermanentJobError, UnknownRevisionError)
ReportPermanent(w) ==
  /\ stage[w] = "permanent"
  /\ FailPermanent(w)
  /\ EndJob(w) /\ UNCHANGED <<outcome, ledger>>

\* A death after Slack's answer and before complete() loses that answer.
DieInPipeline(w) ==
  /\ Die(w)
  /\ ledger' = IF stage[w] = "done" /\ WantsNotice(result[w])
                 THEN [ledger EXCEPT ![hold[w]].excuses = @ + 1] ELSE ledger
  /\ EndJob(w) /\ UNCHANGED outcome

-----------------------------------------------------------------------------
(* The specification.                                                      *)

\* The steps of the loop around process.
AroundJob(w) ==
  /\ \/ Start(w) \/ Startup(w)
     \/ RecoverStale(w) \/ PurgeOldDeliveries(w) \/ PurgeOldJobs(w)
     \/ FallAsleep(w) \/ Wake(w) \/ Exit(w)
  /\ UNCHANGED pipelineVars

PipelineProgress(w) ==
  \/ AroundJob(w) \/ BeginJob(w)
  \/ BranchDeleted(w) \/ Skip(w)
  \/ NothingToAnalyze(w) \/ NeedsModel(w) \/ PrepareFails(w)
  \/ ModelAnswers(w) \/ ModelFailsRetryably(w) \/ ModelFailsForGood(w)
  \/ SlackAccepts(w) \/ SlackAnswerLost(w) \/ SlackFailsRetryably(w) \/ SlackRefuses(w)
  \/ ReportSuccess(w) \/ ReportError(w) \/ ReportPermanent(w)

PipelineStep(w) ==
  \/ PipelineProgress(w)
  \/ RequestShutdown(w) /\ UNCHANGED pipelineVars
  \/ DieInPipeline(w)

PipelineNext ==
  \/ \E w \in Workers : PipelineStep(w)
  \/ \E k \in Keys : Submit(k) /\ UNCHANGED pipelineVars
  \/ Tick /\ UNCHANGED pipelineVars

PipelineSpec == Init /\ PipelineInit /\ [][PipelineNext]_<<vars, pipelineVars>>

-----------------------------------------------------------------------------
(* Properties.                                                             *)

\* The stages of analyze are what Worker calls processing, and every way out
\* of them is one of the ways Worker allows: what is shown of Worker (attempt
\* limit, leases, recovery) holds for the pipeline with all its retries.
PipelineImplementsWorker == Spec

\* A job is completed only if its notification, where one is wanted, was
\* accepted by Slack: no retry loop, error or crash on the way turns an
\* unsent message into a completed job.
CompletedMeansNotified ==
  \A i \in DOMAIN jobs :
    (jobs[i].status = "completed" /\ WantsNotice(outcome[i])) => ledger[i].accepted > 0

\* A message is repeated only for a reason the bot cannot see: an answer of
\* Slack that was lost, or a death between that answer and complete().
RepeatsAreExcused == \A i \in 1..MaxId : ledger[i].accepted <= 1 + ledger[i].excuses

\* What a push can cost, whatever fails: the retries of one call, of one
\* attempt and of the queue multiply, and deaths do not reset any of them.
CostIsBounded ==
  \A i \in DOMAIN jobs :
    /\ ledger[i].model <= jobs[i].attempt_count * (MaxGroups + 1) * (ModelRetries + 1)
    /\ ledger[i].slack <= jobs[i].attempt_count * (SlackRetries + 1)
=============================================================================
