---------------------------- MODULE JobLifecycle ----------------------------
(***************************************************************************)
(* What the queue and its worker promise of a job, with the rows, leases,  *)
(* timestamps and workers left out.  A push that was saved is pending; it  *)
(* is attempted at most MaxAttempts times; it is concluded once, after at  *)
(* least one attempt; the outcome never changes; and only settled jobs are *)
(* ever forgotten.                                                         *)
(***************************************************************************)
EXTENDS Integers

CONSTANTS MaxId, MaxAttempts

VARIABLES life, tries

lifeVars == <<life, tries>>

Ids == 1..MaxId
Final == {"completed", "failed"}

Init ==
  /\ life = [i \in Ids |-> "absent"]
  /\ tries = [i \in Ids |-> 0]

\* Jobs are numbered in the order they are saved.
Save(i) ==
  /\ life[i] = "absent"
  /\ \A j \in Ids : j < i => life[j] # "absent"
  /\ life' = [life EXCEPT ![i] = "pending"]
  /\ UNCHANGED tries

Attempt(i) ==
  /\ life[i] = "pending"
  /\ tries[i] < MaxAttempts
  /\ tries' = [tries EXCEPT ![i] = @ + 1]
  /\ UNCHANGED life

Conclude(i) ==
  /\ life[i] = "pending"
  /\ tries[i] > 0
  /\ \E outcome \in Final : life' = [life EXCEPT ![i] = outcome]
  /\ UNCHANGED tries

\* Jobs that used up their attempts without an answer.
Abandon(S) ==
  /\ \A i \in S : life[i] = "pending" /\ tries[i] = MaxAttempts
  /\ life' = [i \in Ids |-> IF i \in S THEN "failed" ELSE life[i]]
  /\ UNCHANGED tries

Forget(S) ==
  /\ \A i \in S : life[i] \in Final
  /\ life' = [i \in Ids |-> IF i \in S THEN "purged" ELSE life[i]]
  /\ tries' = [i \in Ids |-> IF i \in S THEN 0 ELSE tries[i]]

Next ==
  \/ \E i \in Ids : Save(i) \/ Attempt(i) \/ Conclude(i)
  \/ \E S \in SUBSET Ids : Abandon(S) \/ Forget(S)

Spec == Init /\ [][Next]_lifeVars
=============================================================================
