------------------------------- MODULE Mirror -------------------------------
(***************************************************************************)
(* The files of one project on disk: the bare mirror (GitMirror in         *)
(* app/git_repo.py), its staging directory, the repository map             *)
(* (RepoMapStore in app/repo_map.py) and the advisory lock                 *)
(* (app/locks.py).  They are used by ChangeAnalyzer._prepare in the worker *)
(* processes and by scripts/bootstrap_repo.py, all of them under the lock. *)
(*                                                                         *)
(* One step is one git command or one file operation; a process may fail   *)
(* or die between any two.  The remote repository changes at any time: its *)
(* branches advance, are rewritten and are deleted.                        *)
(***************************************************************************)
EXTENDS Baseline

CONSTANTS
  Graph,            \* the commits of the project, see module Baseline
  Files,            \* indexable paths
  Tree,             \* Tree[c][f]: version of f in commit c, 0 when absent
  Branches, Main,   \* branches of the remote, and the default branch
  Pushes,           \* the pushes the workers analyse: [before, after]
  Procs,            \* worker processes and bootstrap runs
  NoProc            \* nobody holds the lock

Commits == DOMAIN Graph

ASSUME MirrorAssumption ==
  /\ IsGraph(Graph)
  /\ Main \in Branches
  /\ Pushes \subseteq [before : Commits \cup {0}, after : Commits]
  /\ NoProc \notin Procs

VARIABLES
  remote,           \* heads of the remote's branches, 0 for no such branch
  lock,             \* holder of the flock
  staging, mirror,  \* the directories <id>.tmp and <id>.git
  repoMap,          \* repo-map.json: [commit, files]
  pc, task,         \* where each process stands, and its push or Bootstrap
  draft             \* the RepoMap a process has in memory: [map, loaded]

vars == <<remote, lock, staging, mirror, repoMap, pc, task, draft>>
disk == <<staging, mirror, repoMap>>

-----------------------------------------------------------------------------
(* Values.                                                                 *)

Bootstrap == [before |-> -1, after |-> -1]   \* the task of the script

Heads == [Branches -> Commits \cup {0}]

\* A directory: its objects and refs, whether the clone into it finished,
\* whether its configuration still holds the URL with the token and, as a
\* history, whether the last removal of it failed.  An empty directory is none.
NoDir == [exists |-> FALSE, whole |-> FALSE, token |-> FALSE, stuck |-> FALSE,
          objects |-> {}, heads |-> [b \in Branches |-> 0]]

Reachable(heads) == UNION {Ancestors(Graph, heads[b]) : b \in Branches}

EmptyMap == [commit |-> 0, files |-> [f \in Files |-> 0]]
FullMap(c) == [commit |-> c, files |-> Tree[c]]

\* No RepoMap in memory; loaded tells, as a history, that load did not fail.
NoDraft == [map |-> EmptyMap, loaded |-> TRUE]

\* load, which gives an empty map when the file cannot be read or parsed.
Load(loaded) == IF loaded THEN repoMap ELSE EmptyMap

\* apply_changes: touched paths are read at the pushed commit, the entries of
\* deleted paths and of the old paths of renames are dropped.
Apply(map, touched, after) ==
  [commit |-> after,
   files |-> [f \in Files |-> IF f \in touched THEN Tree[after][f] ELSE map.files[f]]]

Changed(a, b) == {f \in Files : Tree[a][f] # Tree[b][f]}

Places == {"idle", "lock", "ensure", "clone", "set_url", "rename", "objects",
           "fetch", "recheck", "diff", "index", "save", "unlock"}

Idle(p) == pc[p] = "idle"
Goto(p, place) == pc' = [pc EXCEPT ![p] = place]

Init ==
  /\ remote \in Heads /\ remote[Main] # 0
  /\ lock = NoProc
  /\ staging = NoDir /\ mirror = NoDir
  /\ repoMap = EmptyMap
  /\ pc = [p \in Procs |-> "idle"]
  /\ task = [p \in Procs |-> Bootstrap]
  /\ draft = [p \in Procs |-> NoDraft]

-----------------------------------------------------------------------------
(* project_lock.                                                           *)

\* _prepare is called for a push, or the script is started.
Begin(p) ==
  /\ Idle(p)
  /\ \E t \in Pushes \cup {Bootstrap} : task' = [task EXCEPT ![p] = t]
  /\ Goto(p, "lock")
  /\ UNCHANGED <<remote, lock, disk, draft>>

\* Mutant: open() without flock.
AcquireWithoutLock(p) ==
  /\ pc[p] = "lock"
  /\ lock' = p
  /\ Goto(p, "ensure")
  /\ UNCHANGED <<remote, disk, task, draft>>

Acquire(p) ==
  /\ pc[p] = "lock" /\ lock = NoProc
  /\ lock' = p
  /\ Goto(p, "ensure")
  /\ UNCHANGED <<remote, disk, task, draft>>

\* The with block is left, normally or by an exception, or the process dies
\* and the kernel closes its files.
Leave(p) ==
  /\ lock' = IF lock = p THEN NoProc ELSE lock
  /\ Goto(p, "idle")
  /\ task' = [task EXCEPT ![p] = Bootstrap]
  /\ draft' = [draft EXCEPT ![p] = NoDraft]

-----------------------------------------------------------------------------
(* ensure.                                                                 *)

\* Mutant: what an interrupted clone left behind is not removed.
StartCloneOnTop(p) ==
  /\ pc[p] = "ensure" /\ ~mirror.exists
  /\ Goto(p, "clone")
  /\ UNCHANGED <<remote, lock, staging, mirror, repoMap, task, draft>>

\* What a failed removal leaves.
Remnant == [exists |-> TRUE, whole |-> FALSE, token |-> staging.token, stuck |-> TRUE,
            objects |-> {}, heads |-> [b \in Branches |-> 0]]

\* No mirror yet: remove what an interrupted clone left behind.  Errors of the
\* removal are ignored.
StartClone(p) ==
  /\ pc[p] = "ensure" /\ ~mirror.exists
  /\ staging' \in {NoDir} \cup {d \in {Remnant} : staging.exists}
  /\ Goto(p, "clone")
  /\ UNCHANGED <<remote, lock, mirror, repoMap, task, draft>>

\* Mutant: a mirror is taken to exist without looking for it.
FindMirrorUnseen(p) ==
  /\ pc[p] = "ensure"
  /\ Goto(p, IF task[p] = Bootstrap THEN "fetch" ELSE "objects")
  /\ UNCHANGED <<remote, lock, disk, task, draft>>

\* The mirror exists.  The script then fetches, _prepare looks first.
FindMirror(p) ==
  /\ pc[p] = "ensure" /\ mirror.exists
  /\ Goto(p, IF task[p] = Bootstrap THEN "fetch" ELSE "objects")
  /\ UNCHANGED <<remote, lock, disk, task, draft>>

\* git clone --mirror into the staging directory, with the token in the URL.
Clone(p) ==
  /\ pc[p] = "clone" /\ ~staging.exists
  /\ staging' = [exists |-> TRUE, whole |-> TRUE, token |-> TRUE, stuck |-> FALSE,
                 objects |-> Reachable(remote), heads |-> remote]
  /\ Goto(p, "set_url")
  /\ UNCHANGED <<remote, lock, mirror, repoMap, task, draft>>

\* git clone refuses a directory that is not empty: GitError.
CloneRefused(p) ==
  /\ pc[p] = "clone" /\ staging.exists
  /\ Leave(p)
  /\ UNCHANGED <<remote, disk>>

\* git clone is killed, with its timeout or together with the process.
CloneInterrupted(p) ==
  /\ pc[p] = "clone" /\ ~staging.exists
  /\ staging' = [NoDir EXCEPT !.exists = TRUE, !.token = TRUE]
  /\ Leave(p)
  /\ UNCHANGED <<remote, mirror, repoMap>>

\* git remote set-url origin <plain URL>
SetUrl(p) ==
  /\ pc[p] = "set_url"
  /\ staging' = [staging EXCEPT !.token = FALSE]
  /\ Goto(p, "rename")
  /\ UNCHANGED <<remote, lock, mirror, repoMap, task, draft>>

\* Mutant: the directory is renamed before its URL is replaced.
RenameEarly(p) ==
  /\ pc[p] \in {"set_url", "rename"}
  /\ mirror' = staging
  /\ staging' = NoDir
  /\ \/ Goto(p, "objects") /\ task[p] # Bootstrap
     \/ Goto(p, "index") /\ task[p] = Bootstrap
     \/ Goto(p, "fetch") /\ task[p] = Bootstrap
  /\ UNCHANGED <<remote, lock, repoMap, task, draft>>

\* staging.rename(path).  With --force-refetch the script fetches even now.
Rename(p) ==
  /\ pc[p] = "rename"
  /\ mirror' = staging
  /\ staging' = NoDir
  /\ \/ Goto(p, "objects") /\ task[p] # Bootstrap
     \/ Goto(p, "index") /\ task[p] = Bootstrap
     \/ Goto(p, "fetch") /\ task[p] = Bootstrap
  /\ UNCHANGED <<remote, lock, repoMap, task, draft>>

-----------------------------------------------------------------------------
(* ensure_objects and fetch.                                               *)

Has(p) == task[p].after \in mirror.objects

EnsureObjects(p) ==
  /\ pc[p] = "objects"
  /\ Goto(p, IF Has(p) THEN "diff" ELSE "fetch")
  /\ UNCHANGED <<remote, lock, disk, task, draft>>

\* fetch --prune --force: refs follow the remote, old objects stay.
Fetch(p) ==
  /\ pc[p] = "fetch"
  /\ mirror' = [mirror EXCEPT !.objects = @ \cup Reachable(remote), !.heads = remote]
  /\ Goto(p, IF task[p] = Bootstrap THEN "index" ELSE "recheck")
  /\ UNCHANGED <<remote, lock, staging, repoMap, task, draft>>

\* git fetch is killed: the objects are there, some refs may have been moved.
FetchInterrupted(p) ==
  /\ pc[p] = "fetch"
  /\ \E heads \in {h \in Heads : \A b \in Branches : h[b] \in {mirror.heads[b], remote[b]}} :
       mirror' = [mirror EXCEPT !.objects = @ \cup Reachable(remote), !.heads = heads]
  /\ Leave(p)
  /\ UNCHANGED <<remote, staging, repoMap>>

\* Mutant: the fetch is trusted to have brought the commit.
RecheckNothing(p) ==
  /\ pc[p] = "recheck"
  /\ Goto(p, "diff")
  /\ UNCHANGED <<remote, lock, disk, task, draft>>

\* Still missing after the fetch: UnknownRevisionError.
Recheck(p) ==
  /\ pc[p] = "recheck"
  /\ IF Has(p) THEN Goto(p, "diff") /\ UNCHANGED <<lock, task, draft>> ELSE Leave(p)
  /\ UNCHANGED <<remote, disk>>

-----------------------------------------------------------------------------
(* The diff and the repository map.                                        *)

\* What the names <default>, origin/<default>, refs/heads/<default> resolve to.
Candidates == <<mirror.heads[Main], 0, mirror.heads[Main]>>

Baselines(p) ==
  ResolveBaseline(Graph, task[p].before, task[p].before \in mirror.objects,
                  task[p].after, Candidates)

\* No baseline, or every changed file is ignored or over the limits of
\* build_diff_result: the map is not touched.
DiffEmpty(p) ==
  /\ pc[p] = "diff"
  /\ Leave(p)
  /\ UNCHANGED <<remote, disk>>

\* The diff, then load and apply_changes to the files that build_diff_result
\* left in; none of them needs to be indexable.
Diff(p) ==
  /\ pc[p] = "diff"
  /\ \E b \in Baselines(p) \ {0}, loaded \in BOOLEAN :
       \E touched \in SUBSET Changed(b, task[p].after) :
         draft' = [draft EXCEPT ![p] =
                     [map |-> Apply(Load(loaded), touched, task[p].after), loaded |-> loaded]]
  /\ Goto(p, "save")
  /\ UNCHANGED <<remote, lock, disk, task>>

\* bootstrap: the ref is resolved and every file of its commit is indexed.
Index(p) ==
  /\ pc[p] = "index" /\ mirror.heads[Main] # 0
  /\ draft' = [draft EXCEPT ![p] = [map |-> FullMap(mirror.heads[Main]), loaded |-> TRUE]]
  /\ Goto(p, "save")
  /\ UNCHANGED <<remote, lock, disk, task>>

\* "ref not found in the mirror": exit code 2.
IndexNothing(p) ==
  /\ pc[p] = "index" /\ mirror.heads[Main] = 0
  /\ Leave(p)
  /\ UNCHANGED <<remote, disk>>

\* save: written to a temporary file, then os.replace.
Save(p) ==
  /\ pc[p] = "save"
  /\ repoMap' = draft[p].map
  /\ Goto(p, "unlock")
  /\ UNCHANGED <<remote, lock, staging, mirror, task, draft>>

\* OSError: _update_repo_map goes on with the unsaved map.
SaveFails(p) ==
  /\ pc[p] = "save" /\ task[p] # Bootstrap
  /\ Goto(p, "unlock")
  /\ UNCHANGED <<remote, lock, disk, task, draft>>

\* The context is read from the mirror and the lock is given back.
Unlock(p) ==
  /\ pc[p] = "unlock"
  /\ Leave(p)
  /\ UNCHANGED <<remote, disk>>

\* Any other exception (GitError, a timeout, OSError), or the process dies.
Abandon(p) ==
  /\ ~Idle(p)
  /\ Leave(p)
  /\ UNCHANGED <<remote, disk>>

-----------------------------------------------------------------------------
(* The remote, and the specification.                                      *)

\* Somebody pushes, rewrites or deletes a branch.
RemoteMoves ==
  /\ remote' \in {[remote EXCEPT ![b] = c] : b \in Branches, c \in Commits \cup {0}}
  /\ UNCHANGED <<lock, disk, pc, task, draft>>

\* What a process does once it holds the lock.
Work(p) ==
  \/ StartClone(p) \/ FindMirror(p)
  \/ Clone(p) \/ CloneRefused(p) \/ CloneInterrupted(p) \/ SetUrl(p) \/ Rename(p)
  \/ EnsureObjects(p) \/ Fetch(p) \/ FetchInterrupted(p) \/ Recheck(p)
  \/ DiffEmpty(p) \/ Diff(p) \/ Index(p) \/ IndexNothing(p)
  \/ Save(p) \/ SaveFails(p) \/ Unlock(p)

Next ==
  \/ \E p \in Procs : Begin(p) \/ Acquire(p) \/ Work(p) \/ Abandon(p)
  \/ RemoteMoves

Spec == Init /\ [][Next]_vars

-----------------------------------------------------------------------------
(* Properties.                                                             *)

\* Types of the disk and of the processes.
TypeOK ==
  /\ remote \in Heads
  /\ lock \in Procs \cup {NoProc}
  /\ \A d \in {staging, mirror} :
       d.heads \in Heads /\ d.objects \subseteq Commits /\ (~d.exists => d = NoDir)
  /\ repoMap.commit \in Commits \cup {0}
  /\ pc \in [Procs -> Places]
  /\ task \in [Procs -> Pushes \cup {Bootstrap}]

\* Whenever a mirror is found it is the whole result of a clone and holds the
\* plain URL, wherever an earlier clone was interrupted.
MirrorIsWhole == mirror.exists => (mirror.whole /\ ~mirror.token)

\* git clone refuses a directory that is not empty.  What an interrupted clone
\* left keeps the project from being cloned only while it cannot be removed:
\* it is never forgotten, and no other process puts it there meanwhile.
OnlyStuckLeftoversBlock ==
  \A p \in Procs : (pc[p] = "clone" /\ staging.exists) => staging.stuck

\* The diff is asked for commits the mirror has, whatever the remote did with
\* its branches between the push and the fetch.
DiffHasItsCommits ==
  \A p \in Procs : pc[p] = "diff" =>
    /\ task[p].after \in mirror.objects
    /\ Baselines(p) \subseteq mirror.objects \cup {0}

\* The map a process saves was derived from the map on disk: no entry that
\* another worker or the script saved meanwhile is lost.  Only if the map could
\* not be loaded are all of them lost, and then none but the push's remain.
NoLostUpdate ==
  [][\A p \in Procs :
       (pc[p] = "save" /\ pc'[p] = "unlock" /\ task[p] # Bootstrap /\ repoMap' # repoMap) =>
         \A f \in Files :
           repoMap'.files[f] \in {Load(draft[p].loaded).files[f], Tree[task[p].after][f]}]_vars
=============================================================================
