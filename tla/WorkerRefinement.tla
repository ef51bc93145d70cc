-------------------------- MODULE WorkerRefinement --------------------------
(* One worker over the queue implements JobLifecycle.                      *)
EXTENDS Worker

\* A row is pending until it is settled, whether queued or processing.
LifeOf(i) ==
  IF i > lastId THEN "absent"
  ELSE IF i \notin DOMAIN jobs THEN "purged"
  ELSE IF jobs[i].status \in Settled THEN jobs[i].status
  ELSE "pending"

TriesOf(i) == IF i \in DOMAIN jobs THEN jobs[i].attempt_count ELSE 0

Lifecycle == INSTANCE JobLifecycle
  WITH life <- [i \in 1..MaxId |-> LifeOf(i)],
       tries <- [i \in 1..MaxId |-> TriesOf(i)]

\* With one worker every step of the queue and the worker is a step of the
\* abstract life cycle, or changes nothing in it.
ImplementsLifecycle == Lifecycle!Spec
=============================================================================
