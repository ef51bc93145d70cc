------------------------------ MODULE Prepare ------------------------------
(***************************************************************************)
(* ChangeAnalyzer._prepare (app/analyzer.py) from the diff to the requests *)
(* for the pushes of one branch: selection of the files, update of the     *)
(* repository map, context.  The queue hands out the oldest push that is   *)
(* due, so a push that failed is prepared again after newer ones; the map  *)
(* belongs to the project and is written by each preparation.  The project *)
(* lock makes preparations exclude each other, so one is modelled at a     *)
(* time; the mirror and the choice of the baseline are modules Mirror and  *)
(* Baseline.                                                               *)
(***************************************************************************)
EXTENDS RepoIndex, Context

CONSTANTS
  Commits, Starts,  \* trees the branch may be at, and may be at first
  Links,            \* versions that are symbolic links
  Alike,            \* pairs of versions git takes for a rename
  MaxPushes,        \* bound: pushes of a behaviour
  MaxFaults         \* bound: maps that are lost or not saved, pushes given up

ASSUME PrepareAssumption ==
  /\ Commits \subseteq Trees /\ Starts \subseteq Commits
  /\ Links \subseteq Versions /\ Alike \subseteq Versions \X Versions
  /\ MaxPushes \in Nat /\ MaxFaults \in Nat

VARIABLES
  head,             \* tree of the branch
  pushes,           \* pushes not settled yet, oldest first
  current,          \* the one being prepared
  repoMap,          \* repo-map.json
  outcome,          \* status of the AnalysisOutcome
  stale,            \* history: paths whose entry may be out of date
  arrived, faults   \* pushes and faults so far, for the bounds

prepareVars == <<head, pushes, current, repoMap, outcome, stale, arrived, faults>>
vars == <<selectionVars, contextVars, prepareVars>>

-----------------------------------------------------------------------------
(* git diff --name-status --find-renames.                                  *)

Gone(push) == {p \in Paths : push.before[p] # Absent /\ push.after[p] = Absent}
Come(push) == {p \in Paths : push.before[p] = Absent /\ push.after[p] # Absent}
Touched(push) == {p \in Paths : push.before[p] # push.after[p]}

\* Pairs of a deleted and an added path, each path in one pair at most.
Renames(push) ==
  LET alike == {r \in Gone(push) \X Come(push) : <<push.before[r[1]], push.after[r[2]]>> \in Alike}
  IN  {r \in alike : \A q \in alike \ {r} :
         r[1] < q[1] \/ (r[1] = q[1] /\ r[2] < q[2]) \/ (r[1] # q[1] /\ r[2] # q[2])}

NameStatus(push) ==
  LET Entry(code, p, q, new) ==
        [code |-> code, path |-> p, new |-> new, from |-> push.before[p], to |-> push.after[q]]
      paired == UNION {{r[1], r[2]} : r \in Renames(push)}
      Code(p) == IF p \in Gone(push) THEN "D"
                 ELSE IF p \in Come(push) THEN "A"
                 ELSE IF (push.before[p] \in Links) # (push.after[p] \in Links) THEN "T"
                 ELSE "M"
  IN  {Entry("R", r[1], r[2], r[2]) : r \in Renames(push)} \cup
      {Entry(Code(p), p, p, NoPath) : p \in Touched(push) \ paired}

-----------------------------------------------------------------------------
(* The life of a push.                                                     *)

\* The repository was indexed by bootstrap, or never.
Init ==
  /\ SelectionInit /\ ContextInit
  /\ head \in Starts
  /\ pushes = <<>> /\ current = 0 /\ outcome = "none" /\ arrived = 0 /\ faults = 0
  /\ \/ repoMap = BuildFull(head) /\ stale = {}
     \/ repoMap = EmptyMap /\ stale = Paths

\* A push to the branch is queued.  One that arrives during a preparation
\* changes nothing that preparation reads, and is taken to arrive after it.
Push ==
  /\ phase = "idle" /\ arrived < MaxPushes
  /\ arrived' = arrived + 1
  /\ head' \in Commits
  /\ pushes' = Append(pushes, [before |-> head, after |-> head', overtaken |-> {}, applied |-> FALSE])
  /\ UNCHANGED <<selectionVars, contextVars, current, repoMap, outcome, stale, faults>>

\* An attempt starts, not always on the oldest push: a failed one waits.
Begin ==
  /\ phase = "idle"
  /\ current' \in DOMAIN pushes
  /\ entries' = NameStatus(pushes[current'])
  /\ phase' = "listed"
  /\ UNCHANGED <<todo, kept, dropped, ignored, total, contextVars, head, pushes, repoMap, outcome, stale, arrived, faults>>

Select == SelectionStep /\ UNCHANGED <<contextVars, prepareVars>>

\* The current push is settled for the map: what it touched is from now on
\* newer than anything an older push has to say.
Overtake ==
  pushes' = [i \in DOMAIN pushes |->
    IF i = current THEN [pushes[i] EXCEPT !.applied = TRUE]
    ELSE IF i < current THEN [pushes[i] EXCEPT !.overtaken = @ \cup Touched(pushes[current])]
    ELSE pushes[i]]

\* What the current push changes and no newer one has overtaken.
OwnPaths == Touched(pushes[current]) \ pushes[current].overtaken

\* Paths of the files that were dropped.
Missed == (UNION {{f.old, f.new} : f \in dropped}) \ {NoPath}

\* _nothing_to_analyze; the map is left alone.
NothingToAnalyze ==
  /\ phase = "selected" /\ kept = {}
  /\ outcome' = IF ignored # {} THEN "ignored_only" ELSE "no_changes"
  /\ phase' = "done"
  /\ Overtake
  /\ stale' = stale \cup OwnPaths
  /\ UNCHANGED <<entries, todo, kept, dropped, ignored, total, contextVars>>
  /\ UNCHANGED <<head, current, repoMap, arrived, faults>>

\* _update_repo_map: an unreadable map is replaced by an empty one, and a
\* map that cannot be saved is used for this push only.
UpdateRepoMap ==
  /\ phase = "selected" /\ kept # {}
  /\ \E readable \in BOOLEAN, saved \in BOOLEAN :
       /\ (readable /\ saved) \/ faults < MaxFaults
       /\ faults' = IF readable /\ saved THEN faults ELSE faults + 1
       /\ LET loaded == IF readable THEN repoMap ELSE EmptyMap
              old == IF readable THEN stale ELSE Paths
              push == pushes[current]
          IN  IF saved
                THEN /\ repoMap' = Updated(loaded, push.after, kept)
                     /\ stale' = (old \ (OwnPaths \ Missed)) \cup Missed
                                   \cup (Touched(push) \cap push.overtaken)
                ELSE repoMap' = repoMap /\ stale' = stale \cup OwnPaths
  /\ Overtake
  /\ phase' = "plan"
  /\ UNCHANGED <<entries, todo, kept, dropped, ignored, total, contextVars>>
  /\ UNCHANGED <<head, current, outcome, arrived>>

BuildContext == ContextStep /\ UNCHANGED prepareVars

\* The requests are complete.
Prepared ==
  /\ phase = "request" /\ groups = {}
  /\ outcome' = "analyzed"
  /\ phase' = "done"
  /\ UNCHANGED <<entries, todo, kept, dropped, ignored, total, contextVars>>
  /\ UNCHANGED <<head, pushes, current, repoMap, stale, arrived, faults>>

\* Nothing of an attempt but the map outlives it.
Forget ==
  /\ phase' = "idle" /\ outcome' = "none" /\ current' = 0
  /\ entries' = {} /\ todo' = {} /\ kept' = {} /\ dropped' = {} /\ ignored' = {}
  /\ total' = 0
  /\ groups' = {} /\ made' = 0 /\ limits' = NoLimits
  /\ request' = <<>> /\ at' = 0 /\ budget' = 0
  /\ shown' = {} /\ left' = {}
  /\ UNCHANGED <<head, repoMap, arrived>>

\* The attempt succeeds and the push leaves the queue.
Settle ==
  /\ phase = "done"
  /\ pushes' = RemoveAt(pushes, current)
  /\ Forget /\ UNCHANGED <<stale, faults>>

\* An error or a death at any point; the push will be prepared again.
FailAndRetry ==
  /\ phase # "idle"
  /\ Forget /\ UNCHANGED <<pushes, stale, faults>>

\* The same at the limit of its attempts: the push is given up.
FailForGood ==
  /\ phase # "idle" /\ faults < MaxFaults
  /\ faults' = faults + 1
  /\ LET push == pushes[current]
         Behind(i) == [pushes[i] EXCEPT !.overtaken = @ \cup Touched(push)]
     IN  /\ pushes' = RemoveAt([i \in DOMAIN pushes |-> IF i < current THEN Behind(i) ELSE pushes[i]],
                               current)
         /\ stale' = IF push.applied THEN stale ELSE stale \cup OwnPaths
  /\ Forget

\* All pushes of the bound are settled.
Finished == arrived = MaxPushes /\ pushes = <<>> /\ UNCHANGED vars

Next ==
  \/ Push \/ Begin
  \/ Select \/ NothingToAnalyze \/ UpdateRepoMap \/ BuildContext \/ Prepared
  \/ Settle \/ FailAndRetry \/ FailForGood \/ Finished

Spec == Init /\ [][Next]_vars

-----------------------------------------------------------------------------
(* Properties.                                                             *)

\* Where the map may differ from the tree it describes: on ignored paths that
\* were renamed, on files dropped by the limits, on pushes that were given up
\* or whose save failed, and on what an older push wrote over a newer one.
\* Everywhere else the incremental updates of many pushes, retried and out of
\* order, give what a full index of the head would.
MapIsFreshElsewhere ==
  \A p \in Paths \ (Ignored \cup stale) :
    (\A i \in DOMAIN pushes : p \notin Touched(pushes[i])) => repoMap[p] = BuildFull(head)[p]
=============================================================================
