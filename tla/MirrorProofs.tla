---------------------------- MODULE MirrorProofs ----------------------------
(***************************************************************************)
(* Proofs about resolve_baseline for every commit graph, however many      *)
(* commits it has, and about Mirror for any graph, any files, any number   *)
(* of processes and any behaviour of the remote.                           *)
(***************************************************************************)
EXTENDS Mirror, MCBaseline, SortingProofs

-----------------------------------------------------------------------------
(* Histories.  The recursive function is compared with a definition that   *)
(* needs no recursion: the commits in every set that has the commit and    *)
(* with each commit its parents.                                           *)

Closed(g, T) == T \subseteq DOMAIN g /\ \A x \in T : Parents(g, x) \subseteq T

Behind(g, c) == {d \in DOMAIN g : \A T \in SUBSET DOMAIN g : c \in T /\ Closed(g, T) => d \in T}

\* What is behind a commit is the smallest closed set with it.
LEMMA BehindFacts ==
  ASSUME NEW g, IsGraph(g), NEW c \in DOMAIN g
  PROVE  /\ c \in Behind(g, c) /\ Closed(g, Behind(g, c))
         /\ \A T \in SUBSET DOMAIN g : c \in T /\ Closed(g, T) => Behind(g, c) \subseteq T
<1>1. c \in Behind(g, c)
  BY DEF Behind
<1>2. ASSUME NEW x \in Behind(g, c), NEW p \in Parents(g, x)
      PROVE  p \in Behind(g, c)
  <2>1. x \in DOMAIN g /\ p \in DOMAIN g
    BY DEF Behind, IsGraph
  <2>2. ASSUME NEW T \in SUBSET DOMAIN g, c \in T, Closed(g, T) PROVE p \in T
    <3>1. x \in T
      BY <2>2 DEF Behind
    <3> QED BY <2>2, <3>1 DEF Closed
  <2> QED BY <2>1, <2>2 DEF Behind
<1>3. Behind(g, c) \subseteq DOMAIN g
  BY DEF Behind
<1>4. ASSUME NEW T \in SUBSET DOMAIN g, c \in T, Closed(g, T) PROVE Behind(g, c) \subseteq T
  BY <1>4 DEF Behind
<1> QED BY <1>1, <1>2, <1>3, <1>4 DEF Closed

\* It is the commit and what is behind its parents.
LEMMA BehindUnfolds ==
  ASSUME NEW g, IsGraph(g), NEW c \in DOMAIN g
  PROVE  Behind(g, c) = {c} \cup UNION {Behind(g, p) : p \in Parents(g, c)}
<1> DEFINE S == {c} \cup UNION {Behind(g, p) : p \in Parents(g, c)}
<1>1. Parents(g, c) \subseteq DOMAIN g
  BY DEF IsGraph
<1>2. S \subseteq DOMAIN g
  BY <1>1 DEF Behind
<1>3. ASSUME NEW x \in S PROVE Parents(g, x) \subseteq S
  <2>1. CASE x = c
    BY <1>1, <2>1, BehindFacts
  <2>2. CASE x # c
    <3>1. PICK p \in Parents(g, c) : x \in Behind(g, p)
      BY <1>3, <2>2
    <3>2. Parents(g, x) \subseteq Behind(g, p)
      BY <1>1, <3>1, BehindFacts DEF Closed
    <3> QED BY <3>1, <3>2
  <2> QED BY <2>1, <2>2
<1>4. Behind(g, c) \subseteq S
  <2>1. c \in S
    OBVIOUS
  <2>2. Closed(g, S)
    BY <1>2, <1>3 DEF Closed
  <2> HIDE DEF S
  <2> QED BY <1>2, <2>1, <2>2, BehindFacts
<1>5. ASSUME NEW p \in Parents(g, c) PROVE Behind(g, p) \subseteq Behind(g, c)
  <2>1. p \in Behind(g, c) /\ Closed(g, Behind(g, c)) /\ Behind(g, c) \subseteq DOMAIN g
    BY BehindFacts DEF Closed
  <2> QED BY <1>1, <2>1, BehindFacts
<1>6. S \subseteq Behind(g, c)
  BY <1>5, BehindFacts
<1> QED BY <1>4, <1>6

\* The recursive function has a value.
LEMMA HistoriesUnfold ==
  ASSUME NEW g, IsGraph(g)
  PROVE  Histories(g) =
           [c \in DOMAIN g |-> {c} \cup UNION {Histories(g)[p] : p \in Parents(g, c)}]
<1> DEFINE Is(f) == f = [c \in DOMAIN g |-> {c} \cup UNION {f[p] : p \in Parents(g, c)}]
           h == [c \in DOMAIN g |-> Behind(g, c)]
<1>1. ASSUME NEW c \in DOMAIN g
      PROVE  h[c] = {c} \cup UNION {h[p] : p \in Parents(g, c)}
  <2>1. \A p \in Parents(g, c) : h[p] = Behind(g, p)
    BY DEF IsGraph
  <2>2. {h[p] : p \in Parents(g, c)} = {Behind(g, p) : p \in Parents(g, c)}
    BY <2>1
  <2> QED BY <2>2, BehindUnfolds
<1>2. Is(h)
  BY <1>1
<1>3. \E f : Is(f)
  BY <1>2
<1>4. Histories(g) = CHOOSE f : Is(f)
  BY Zenon DEF Histories
<1>5. Is(CHOOSE f : Is(f))
  <2> HIDE DEF Is
  <2> QED BY <1>3, Zenon
<1>6. Is(Histories(g))
  <2> HIDE DEF Is
  <2> QED BY <1>4, <1>5, Zenon
<1> QED BY <1>6, Zenon

\* The history of a commit is what is behind it: a least commit for which it
\* were not has parents for which it is.
LEMMA HistoryIsBehind ==
  ASSUME NEW g, IsGraph(g), NEW c \in DOMAIN g
  PROVE  Histories(g)[c] = Behind(g, c)
<1> DEFINE B == {x \in DOMAIN g : Histories(g)[x] # Behind(g, x)}
<1> SUFFICES ASSUME B # {} PROVE FALSE
  OBVIOUS
<1>1. B \in SUBSET Nat
  BY DEF IsGraph
<1>2. PICK m \in B : \A n \in B : m <= n
  <2> HIDE DEF B
  <2> QED BY <1>1, LeastNumber
<1>3. ASSUME NEW p \in Parents(g, m) PROVE Histories(g)[p] = Behind(g, p)
  <2>1. p \in DOMAIN g /\ p < m /\ p \in Nat /\ m \in Nat
    BY DEF IsGraph
  <2> QED BY <1>2, <2>1
<1>4. {Histories(g)[p] : p \in Parents(g, m)} = {Behind(g, p) : p \in Parents(g, m)}
  BY <1>3
<1>5. Histories(g)[m] = {m} \cup UNION {Histories(g)[p] : p \in Parents(g, m)}
  <2>1. m \in DOMAIN g
    OBVIOUS
  <2> QED BY <2>1, HistoriesUnfold, Zenon
<1> QED BY <1>4, <1>5, BehindUnfolds

\* The facts about ancestors everything else rests on.
LEMMA AncestorFacts ==
  ASSUME NEW g, IsGraph(g), NEW c \in DOMAIN g
  PROVE  /\ c \in Ancestors(g, c)
         /\ Closed(g, Ancestors(g, c))
         /\ \A T \in SUBSET DOMAIN g : c \in T /\ Closed(g, T) => Ancestors(g, c) \subseteq T
         /\ \A d \in Ancestors(g, c) : d <= c /\ Ancestors(g, d) \subseteq Ancestors(g, c)
<1>1. \A d \in DOMAIN g : Ancestors(g, d) = Behind(g, d)
  BY HistoryIsBehind DEF Ancestors, IsGraph
<1>2. /\ c \in Ancestors(g, c) /\ Closed(g, Ancestors(g, c))
      /\ \A T \in SUBSET DOMAIN g : c \in T /\ Closed(g, T) => Ancestors(g, c) \subseteq T
  BY <1>1, BehindFacts
<1>3. ASSUME NEW d \in Ancestors(g, c)
      PROVE  d <= c /\ Ancestors(g, d) \subseteq Ancestors(g, c)
  <2>1. d \in DOMAIN g /\ Ancestors(g, c) \in SUBSET DOMAIN g
    BY <1>2 DEF Closed
  <2>2. Ancestors(g, d) \subseteq Ancestors(g, c)
    BY <1>1, <1>2, <2>1, BehindFacts
  <2> DEFINE T == {x \in DOMAIN g : x <= c}
  <2>3. c \in T /\ T \in SUBSET DOMAIN g
    BY DEF IsGraph
  <2>4. ASSUME NEW x \in T, NEW p \in Parents(g, x) PROVE p \in T
    <3>1. p \in DOMAIN g /\ p < x /\ x <= c /\ p \in Nat /\ x \in Nat /\ c \in Nat
      BY DEF IsGraph
    <3> QED BY <3>1
  <2>5. Closed(g, T)
    BY <2>4 DEF Closed
  <2>6. d \in T
    <3> HIDE DEF T
    <3> QED BY <1>2, <2>3, <2>5
  <2> QED BY <2>2, <2>6
<1> QED BY <1>2, <1>3

-----------------------------------------------------------------------------
(* git merge-base and resolve_baseline.                                    *)

\* Commits that have a common ancestor have a merge base: the latest one.
LEMMA MergeBaseExists ==
  ASSUME NEW g, IsGraph(g), NEW a \in DOMAIN g, NEW b \in DOMAIN g,
         Ancestors(g, a) \cap Ancestors(g, b) # {}
  PROVE  MergeBases(g, a, b) # {}
<1> DEFINE common == Ancestors(g, a) \cap Ancestors(g, b)
           S == {b - c : c \in common}
<1>1. common \subseteq DOMAIN g /\ b \in Nat /\ \A c \in common : c \in Nat /\ c <= b
  BY AncestorFacts DEF Closed, IsGraph
<1>2. S \in SUBSET Nat /\ S # {}
  BY <1>1
<1>3. PICK m \in S : \A n \in S : m <= n
  <2> HIDE DEF S
  <2> QED BY <1>2, LeastNumber
<1>4. PICK c \in common : m = b - c
  OBVIOUS
<1>5. ASSUME NEW d \in common \ {c} PROVE c \notin Ancestors(g, d)
  <2>1. b - c <= b - d
    BY <1>3, <1>4
  <2>2. d \in Nat /\ c \in Nat /\ d # c /\ d \in DOMAIN g
    BY <1>1
  <2>3. ~(c <= d)
    BY <1>1, <2>1, <2>2
  <2> QED BY <2>2, <2>3, AncestorFacts
<1> QED BY <1>5 DEF MergeBases

\* Whatever the default branch is, the baseline of a new branch is behind the
\* new commit, or it is the first parent git rev-parse finds.
LEMMA BranchBaselineIsBehind ==
  ASSUME NEW g, IsGraph(g), NEW new \in DOMAIN g, NEW names, NEW base,
         base \in BranchBaseline(g, new, names)
  PROVE  base = FirstParent(g, new) \/ base \in Ancestors(g, new) \ {new}
BY DEF BranchBaseline, MergeBases

\* A first name of the default branch that has history in common with the new
\* commit, and not the commit itself, decides.
LEMMA FirstNameDecides ==
  ASSUME NEW g, IsGraph(g), NEW new \in DOMAIN g, NEW names,
         1 \in DOMAIN names, DOMAIN names \subseteq Nat \ {0}, names[1] \in DOMAIN g,
         Ancestors(g, names[1]) \cap Ancestors(g, new) # {},
         new \notin Ancestors(g, names[1])
  PROVE  BranchBaseline(g, new, names) = MergeBases(g, names[1], new)
<1> DEFINE usable == {i \in DOMAIN names : names[i] \notin {0, new}}
           first == CHOOSE i \in usable : \A j \in usable : i <= j
           bases == IF usable = {} THEN {} ELSE MergeBases(g, names[first], new)
<1>1. names[1] # 0 /\ names[1] # new
  BY AncestorFacts DEF IsGraph
<1>2. 1 \in usable /\ \A j \in usable : j \in Nat /\ 1 <= j
  BY <1>1
<1>3. first \in usable /\ \A j \in usable : first <= j
  <2>1. \E i \in usable : \A j \in usable : i <= j
    BY <1>2
  <2> QED BY <2>1, Zenon
<1>4. first = 1
  BY <1>2, <1>3
<1>5. bases = MergeBases(g, names[1], new)
  BY <1>2, <1>4
<1>6. MergeBases(g, names[1], new) # {} /\ new \notin MergeBases(g, names[1], new)
  BY MergeBaseExists DEF MergeBases
<1>7. bases \ {new} = MergeBases(g, names[1], new)
  BY <1>5, <1>6
<1>8. BranchBaseline(g, new, names) =
        IF bases \ {new} = {} THEN {FirstParent(g, new)} ELSE bases \ {new}
  BY Zenon DEF BranchBaseline
<1> QED BY <1>6, <1>7, <1>8

-----------------------------------------------------------------------------
(* Theorems.                                                               *)

\* The graphs of the instance are graphs.
LEMMA GraphsAreGraphs ==
  ASSUME NEW g \in Graphs
  PROVE  IsGraph(g) /\ DOMAIN g = Numbers /\ \A c \in Numbers : g[c].first = 0 => g[c].second = 0
<1>1. DOMAIN g = Numbers /\ Numbers \subseteq Nat \ {0}
  BY CommitsAssumption DEF Graphs, Numbers
<1>2. ASSUME NEW c \in Numbers
      PROVE  /\ Parents(g, c) \subseteq {p \in Numbers : p < c}
             /\ g[c].first = 0 => g[c].second = 0
  <2>1. /\ g[c].first \in 0..(N - 1) /\ g[c].second \in 0..(N - 1)
        /\ g[c].first < c /\ g[c].second < c
        /\ g[c].second # 0 => g[c].first \notin {0, g[c].second}
    BY <1>2 DEF Graphs
  <2> QED BY <2>1, CommitsAssumption DEF Parents, Numbers
<1> QED BY <1>1, <1>2 DEF IsGraph

\* What a call is given never changes, and its result is one of the values
\* resolve_baseline may return.
ResolveInv ==
  /\ graph \in Graphs /\ after \in Numbers
  /\ \E tag, head \in 0..N : candidates = <<IF tag = 0 THEN head ELSE tag, 0, head>>
  /\ Resolved => baseline \in ResolveBaseline(graph, before, present, after, candidates)

\* ResolveInv is kept.
LEMMA ResolveInvariance == ResolveSpec => []ResolveInv
<1>1. ResolveInit => ResolveInv
  BY DEF ResolveInit, ResolveInv, Resolved
<1>2. ResolveInv /\ [Resolve]_pushVars => ResolveInv'
  <2> SUFFICES ASSUME ResolveInv, [Resolve]_pushVars PROVE ResolveInv'
    OBVIOUS
  <2>1. CASE Resolve
    BY <2>1 DEF Resolve, ResolveInv, Resolved
  <2>2. CASE UNCHANGED pushVars
    BY <2>2 DEF pushVars, ResolveInv, Resolved
  <2> QED BY <2>1, <2>2
<1> QED BY <1>1, <1>2, PTL DEF ResolveSpec

\* resolve_baseline, for every commit graph: without a usable before the push
\* is diffed with a proper ancestor of the new commit, and with nothing exactly
\* when the commit has no parent.
THEOREM BaselineStaysBehind == ResolveSpec => []BaselineIsBehind
<1>1. ResolveInv => BaselineIsBehind
  <2> SUFFICES ASSUME ResolveInv, Resolved, ~UsesBefore
               PROVE  IF Parents(graph, after) = {} THEN baseline = 0
                      ELSE baseline \in Ancestors(graph, after) \ {after}
    BY DEF BaselineIsBehind
  <2>1. /\ IsGraph(graph) /\ after \in DOMAIN graph
        /\ graph[after].first = 0 => graph[after].second = 0
    BY GraphsAreGraphs DEF ResolveInv
  <2>2. baseline \in BranchBaseline(graph, after, candidates)
    BY DEF ResolveInv, ResolveBaseline, UsesBefore
  <2>3. \/ baseline = FirstParent(graph, after)
        \/ baseline \in Ancestors(graph, after) \ {after}
    BY <2>1, <2>2, BranchBaselineIsBehind
  <2>4. CASE Parents(graph, after) = {}
    <3>1. Closed(graph, {after})
      BY <2>1, <2>4 DEF Closed
    <3>2. Ancestors(graph, after) \subseteq {after}
      BY <2>1, <3>1, AncestorFacts
    <3>3. FirstParent(graph, after) = 0
      BY <2>4 DEF Parents, FirstParent
    <3> QED BY <2>3, <2>4, <3>2, <3>3
  <2>5. CASE Parents(graph, after) # {}
    <3>1. FirstParent(graph, after) \in Parents(graph, after)
      BY <2>1, <2>5 DEF Parents, FirstParent
    <3>2. FirstParent(graph, after) \in Ancestors(graph, after)
      BY <2>1, <3>1, AncestorFacts DEF Closed
    <3>3. FirstParent(graph, after) # after
      BY <2>1, <3>1 DEF IsGraph
    <3> QED BY <2>3, <2>5, <3>2, <3>3
  <2> QED BY <2>4, <2>5
<1> QED BY <1>1, ResolveInvariance, PTL

\* resolve_baseline, for every commit graph and every position of the default
\* branch: nothing that only a new branch has is behind its baseline.
THEOREM NewWorkIsShown == ResolveSpec => []NothingNewIsSkipped
<1>1. ResolveInv => NothingNewIsSkipped
  <2> DEFINE head == candidates[1]
  <2> SUFFICES ASSUME ResolveInv, Resolved, ~UsesBefore,
                      Ancestors(graph, head) \cap Ancestors(graph, after) # {},
                      after \notin Ancestors(graph, head)
               PROVE  Ancestors(graph, baseline) \subseteq Ancestors(graph, head)
    BY DEF NothingNewIsSkipped
  <2>1. IsGraph(graph) /\ after \in DOMAIN graph /\ DOMAIN graph = Numbers
    BY GraphsAreGraphs DEF ResolveInv
  <2>2. baseline \in BranchBaseline(graph, after, candidates)
    BY DEF ResolveInv, ResolveBaseline, UsesBefore
  <2>3. head \in 0..N /\ DOMAIN candidates = 1..3
    BY DEF ResolveInv
  <2>4. head # 0
    BY DEF Ancestors
  <2>5. head \in DOMAIN graph
    BY <2>1, <2>3, <2>4, CommitsAssumption DEF Numbers
  <2>6. baseline \in MergeBases(graph, head, after)
    <3>1. 1 \in DOMAIN candidates /\ DOMAIN candidates \subseteq Nat \ {0}
      BY <2>3
    <3> QED BY <2>1, <2>2, <2>5, <3>1, FirstNameDecides
  <2>7. baseline \in Ancestors(graph, head)
    BY <2>6 DEF MergeBases
  <2> QED BY <2>1, <2>5, <2>7, AncestorFacts
<1> QED BY <1>1, ResolveInvariance, PTL

-----------------------------------------------------------------------------
(***************************************************************************)
(* The inductive invariant: only the holder of the lock is past "lock",    *)
(* and what it may rely on at each place, since nobody else touches the    *)
(* files: before the clone no staging directory but one that could not be  *)
(* removed, a whole one after it, a plain one before the rename, a run of  *)
(* the script before a full index, and before the save a draft made from   *)
(* the map on disk, or from an empty one when that map could not be loaded.*)
(***************************************************************************)

\* A directory value has the six fields of NoDir.
IsDir(d) ==
  d = [exists |-> d.exists, whole |-> d.whole, token |-> d.token, stuck |-> d.stuck,
       objects |-> d.objects, heads |-> d.heads]

LocalType ==
  /\ pc \in [Procs -> Places]
  /\ task \in [Procs -> Pushes \cup {Bootstrap}]
  /\ DOMAIN draft = Procs
  /\ IsDir(staging) /\ IsDir(mirror)

Holding == \A p \in Procs : pc[p] \notin {"idle", "lock"} => lock = p

InSteps ==
  \A p \in Procs :
    /\ pc[p] = "set_url" => staging.whole
    /\ pc[p] = "rename" => staging.whole /\ ~staging.token
    /\ pc[p] = "index" => task[p] = Bootstrap

DraftIsCurrent ==
  \A p \in Procs : (pc[p] = "save" /\ task[p] # Bootstrap) =>
    \A f \in Files :
      draft[p].map.files[f] \in {Load(draft[p].loaded).files[f], Tree[task[p].after][f]}

MInv == /\ LocalType /\ Holding /\ MirrorIsWhole
        /\ OnlyStuckLeftoversBlock /\ InSteps /\ DraftIsCurrent

-----------------------------------------------------------------------------
\* The initial state: no files, nobody at work.
LEMMA MInvInit == Init => MInv
<1> SUFFICES ASSUME Init PROVE MInv
  OBVIOUS
<1>1. LocalType
  BY DEF Init, LocalType, Places, IsDir, NoDir
<1>2. Holding /\ OnlyStuckLeftoversBlock /\ InSteps /\ DraftIsCurrent
  BY DEF Init, Holding, OnlyStuckLeftoversBlock, InSteps, DraftIsCurrent
<1>3. MirrorIsWhole
  BY DEF Init, MirrorIsWhole, NoDir
<1> QED BY <1>1, <1>2, <1>3 DEF MInv

\* A process that leaves the lock disturbs nobody.
LEMMA LeaveKeeps ==
  ASSUME MInv, NEW p \in Procs, Leave(p), UNCHANGED repoMap, IsDir(staging'),
         IsDir(mirror'), MirrorIsWhole',
         UNCHANGED staging \/ pc[p] = "clone"
  PROVE  MInv'
<1>1. /\ pc' = [pc EXCEPT ![p] = "idle"] /\ task' = [task EXCEPT ![p] = Bootstrap]
      /\ draft' = [draft EXCEPT ![p] = NoDraft]
      /\ lock' = IF lock = p THEN NoProc ELSE lock
  BY DEF Leave, Goto
<1>2. LocalType'
  BY <1>1 DEF MInv, LocalType, Places, IsDir
<1>3. /\ pc'[p] = "idle"
      /\ \A q \in Procs \ {p} : pc'[q] = pc[q] /\ task'[q] = task[q] /\ draft'[q] = draft[q]
  BY <1>1 DEF MInv, LocalType
<1>4. Holding'
  BY <1>1, <1>3 DEF MInv, Holding
<1>5. pc[p] = "clone" => \A q \in Procs \ {p} : pc[q] \in {"idle", "lock"}
  BY DEF MInv, Holding
<1>6. MirrorIsWhole' /\ OnlyStuckLeftoversBlock' /\ InSteps'
  BY <1>3, <1>5 DEF MInv, MirrorIsWhole, OnlyStuckLeftoversBlock, InSteps
<1>7. DraftIsCurrent'
  BY <1>3 DEF MInv, DraftIsCurrent, Load
<1> QED BY <1>2, <1>4, <1>6, <1>7 DEF MInv

\* A step of the holder to another place, which has to establish what that
\* place relies on; everybody else is idle or waits.
LEMMA HolderKeeps ==
  ASSUME MInv, NEW p \in Procs, NEW place \in Places, lock = p, pc[p] # "idle",
         pc' = [pc EXCEPT ![p] = place], UNCHANGED <<lock, task>>,
         \A q \in Procs \ {p} : pc[q] \in {"idle", "lock"},
         DOMAIN draft' = Procs, IsDir(staging'), IsDir(mirror'), MirrorIsWhole',
         place = "clone" => (staging'.exists => staging'.stuck),
         place = "set_url" => staging'.whole,
         place = "rename" => staging'.whole /\ ~staging'.token,
         place = "index" => task[p] = Bootstrap,
         (place = "save" /\ task[p] # Bootstrap) =>
           \A f \in Files :
             draft'[p].map.files[f] \in {(IF draft'[p].loaded THEN repoMap' ELSE EmptyMap).files[f],
                                         Tree[task[p].after][f]}
  PROVE  MInv'
<1>1. pc'[p] = place /\ \A q \in Procs \ {p} : pc'[q] \in {"idle", "lock"}
  BY DEF MInv, LocalType
<1>2. LocalType'
  BY DEF MInv, LocalType
<1>3. Holding'
  BY <1>1 DEF Holding
<1>4. OnlyStuckLeftoversBlock' /\ InSteps'
  BY <1>1 DEF OnlyStuckLeftoversBlock, InSteps
<1>5. DraftIsCurrent'
  BY <1>1 DEF DraftIsCurrent, Load
<1> QED BY <1>2, <1>3, <1>4, <1>5 DEF MInv

\* Where the holder of the lock stands, everybody else is idle or waits.
LEMMA Alone ==
  ASSUME MInv, NEW p \in Procs, pc[p] \notin {"idle", "lock"}
  PROVE  lock = p /\ \A q \in Procs \ {p} : pc[q] \in {"idle", "lock"}
BY DEF MInv, Holding

-----------------------------------------------------------------------------
\* Beginning and getting the lock.
LEMMA BeginKeeps ==
  ASSUME MInv, NEW p \in Procs, Begin(p)
  PROVE  MInv'
<1>0. PICK t \in Pushes \cup {Bootstrap} : task' = [task EXCEPT ![p] = t]
  BY DEF Begin
<1>1. /\ pc' = [pc EXCEPT ![p] = "lock"] /\ pc[p] = "idle"
      /\ UNCHANGED <<lock, staging, mirror, repoMap, draft>>
  BY DEF Begin, Goto, Idle, disk
<1>2. LocalType'
  BY <1>0, <1>1 DEF MInv, LocalType, Places, IsDir
<1>3. pc'[p] = "lock" /\ \A q \in Procs \ {p} : pc'[q] = pc[q] /\ task'[q] = task[q]
  BY <1>0, <1>1 DEF MInv, LocalType
<1>4. Holding' /\ MirrorIsWhole' /\ OnlyStuckLeftoversBlock' /\ InSteps'
  BY <1>1, <1>3 DEF MInv, Holding, MirrorIsWhole, OnlyStuckLeftoversBlock, InSteps
<1>5. DraftIsCurrent'
  BY <1>1, <1>3 DEF MInv, DraftIsCurrent, Load
<1> QED BY <1>2, <1>4, <1>5 DEF MInv

\* The lock is free, so nobody is past it.
LEMMA AcquireKeeps ==
  ASSUME MInv, NEW p \in Procs, Acquire(p)
  PROVE  MInv'
<1>1. /\ pc' = [pc EXCEPT ![p] = "ensure"] /\ lock = NoProc /\ lock' = p
      /\ UNCHANGED <<staging, mirror, repoMap, task, draft>>
  BY DEF Acquire, Goto, disk
<1>2. \A q \in Procs : pc[q] \in {"idle", "lock"}
  BY <1>1, MirrorAssumption DEF MInv, Holding
<1>3. pc'[p] = "ensure" /\ \A q \in Procs \ {p} : pc'[q] \in {"idle", "lock"}
  BY <1>1, <1>2 DEF MInv, LocalType
<1>4. LocalType'
  BY <1>1 DEF MInv, LocalType, Places, IsDir
<1>5. Holding' /\ OnlyStuckLeftoversBlock' /\ InSteps' /\ DraftIsCurrent'
  BY <1>1, <1>3 DEF Holding, OnlyStuckLeftoversBlock, InSteps, DraftIsCurrent
<1>6. MirrorIsWhole'
  BY <1>1 DEF MInv, MirrorIsWhole
<1> QED BY <1>4, <1>5, <1>6 DEF MInv

\* The steps that end the with block.
LEMMA LeavingKeeps ==
  ASSUME MInv, NEW p \in Procs,
         \/ CloneInterrupted(p) \/ DiffEmpty(p) \/ IndexNothing(p) \/ Unlock(p)
         \/ Abandon(p) \/ FetchInterrupted(p) \/ CloneRefused(p)
  PROVE  MInv'
<1>0. IsDir(staging) /\ IsDir(mirror) /\ MirrorIsWhole
  BY DEF MInv, LocalType
<1>1. CASE CloneInterrupted(p)
  <2>1. staging' = [exists |-> TRUE, whole |-> FALSE, token |-> TRUE, stuck |-> FALSE,
                    objects |-> {}, heads |-> [b \in Branches |-> 0]]
    BY <1>1 DEF CloneInterrupted, NoDir
  <2>2. IsDir(staging')
    BY <2>1 DEF IsDir
  <2>3. IsDir(mirror') /\ MirrorIsWhole'
    BY <1>0, <1>1 DEF CloneInterrupted, IsDir, MirrorIsWhole
  <2> QED BY <1>1, <2>2, <2>3, LeaveKeeps DEF CloneInterrupted
<1>2. CASE DiffEmpty(p) \/ IndexNothing(p) \/ Unlock(p) \/ Abandon(p) \/ CloneRefused(p)
  <2>1. Leave(p) /\ UNCHANGED <<staging, mirror, repoMap>>
    BY <1>2 DEF CloneRefused, DiffEmpty, IndexNothing, Unlock, Abandon, disk
  <2>2. IsDir(staging') /\ IsDir(mirror') /\ MirrorIsWhole'
    BY <1>0, <2>1 DEF IsDir, MirrorIsWhole
  <2> QED BY <2>1, <2>2, LeaveKeeps
<1>3. CASE FetchInterrupted(p)
  <2>1. PICK heads :
          mirror' = [mirror EXCEPT !.objects = @ \cup Reachable(remote), !.heads = heads]
    BY <1>3 DEF FetchInterrupted
  <2>2. mirror' = [exists |-> mirror.exists, whole |-> mirror.whole, token |-> mirror.token,
                   stuck |-> mirror.stuck, objects |-> mirror.objects \cup Reachable(remote),
                   heads |-> heads]
    BY <1>0, <2>1 DEF IsDir
  <2>3. IsDir(mirror') /\ MirrorIsWhole'
    BY <1>0, <2>2 DEF IsDir, MirrorIsWhole
  <2>4. Leave(p) /\ UNCHANGED <<staging, repoMap>>
    BY <1>3 DEF FetchInterrupted
  <2>5. IsDir(staging')
    BY <1>0, <2>4 DEF IsDir
  <2> QED BY <2>3, <2>4, <2>5, LeaveKeeps
<1> QED BY <1>1, <1>2, <1>3

\* The steps of ensure: the staging directory is removed, filled, stripped of
\* the token and renamed, in this order.
LEMMA EnsureKeeps ==
  ASSUME MInv, NEW p \in Procs,
         StartClone(p) \/ FindMirror(p) \/ Clone(p) \/ SetUrl(p) \/ Rename(p)
  PROVE  MInv'
<1>0. pc[p] \in {"ensure", "clone", "set_url", "rename"}
  BY DEF StartClone, FindMirror, Clone, SetUrl, Rename
<1>1. lock = p /\ \A q \in Procs \ {p} : pc[q] \in {"idle", "lock"}
  BY <1>0, Alone
<1>2. IsDir(staging) /\ IsDir(mirror) /\ DOMAIN draft = Procs /\ MirrorIsWhole
  BY DEF MInv, LocalType
<1>3. ~NoDir.exists /\ IsDir(NoDir) /\ IsDir(Remnant) /\ Remnant.stuck
  <2>1. IsDir(Remnant) /\ Remnant.stuck
    BY DEF Remnant, IsDir
  <2>2. ~NoDir.exists /\ IsDir(NoDir)
    BY DEF NoDir, IsDir
  <2> QED BY <2>1, <2>2
<1>4. CASE StartClone(p)
  <2>1. /\ pc' = [pc EXCEPT ![p] = "clone"] /\ staging' \in {NoDir, Remnant}
        /\ UNCHANGED <<lock, task, mirror, draft>>
    BY <1>4 DEF StartClone, Goto
  <2>2. /\ staging'.exists => staging'.stuck
        /\ IsDir(staging') /\ IsDir(mirror') /\ MirrorIsWhole'
    BY <1>2, <1>3, <2>1 DEF MirrorIsWhole, IsDir
  <2> QED BY <1>0, <1>1, <1>2, <2>1, <2>2, HolderKeeps DEF Places
<1>5. CASE FindMirror(p)
  <2>1. UNCHANGED <<lock, task, staging, mirror, draft>>
    BY <1>5 DEF FindMirror, disk
  <2>2. IsDir(staging') /\ IsDir(mirror') /\ MirrorIsWhole'
    BY <1>2, <2>1 DEF MirrorIsWhole, IsDir
  <2>3. PICK place \in {"fetch", "objects"} : pc' = [pc EXCEPT ![p] = place]
    BY <1>5 DEF FindMirror, Goto
  <2> QED BY <1>0, <1>1, <1>2, <2>1, <2>2, <2>3, HolderKeeps DEF Places
<1>6. CASE Clone(p)
  <2>1. /\ pc' = [pc EXCEPT ![p] = "set_url"] /\ UNCHANGED <<lock, task, mirror, draft>>
        /\ staging' = [exists |-> TRUE, whole |-> TRUE, token |-> TRUE, stuck |-> FALSE,
                       objects |-> Reachable(remote), heads |-> remote]
    BY <1>6 DEF Clone, Goto
  <2>2. staging'.whole /\ IsDir(staging') /\ IsDir(mirror') /\ MirrorIsWhole'
    BY <1>2, <2>1 DEF MirrorIsWhole, IsDir
  <2> QED BY <1>0, <1>1, <1>2, <2>1, <2>2, HolderKeeps DEF Places
<1>7. CASE SetUrl(p)
  <2>1. /\ pc' = [pc EXCEPT ![p] = "rename"] /\ UNCHANGED <<lock, task, mirror, draft>>
        /\ staging' = [staging EXCEPT !.token = FALSE] /\ staging.whole
    BY <1>7 DEF SetUrl, Goto, MInv, InSteps
  <2>2. staging' = [exists |-> staging.exists, whole |-> staging.whole, token |-> FALSE,
                    stuck |-> staging.stuck, objects |-> staging.objects,
                    heads |-> staging.heads]
    BY <1>2, <2>1 DEF IsDir
  <2>3. staging'.whole /\ ~staging'.token /\ IsDir(staging')
    BY <2>1, <2>2 DEF IsDir
  <2>4. IsDir(mirror') /\ MirrorIsWhole'
    BY <1>2, <2>1 DEF MirrorIsWhole, IsDir
  <2> QED BY <1>0, <1>1, <1>2, <2>1, <2>3, <2>4, HolderKeeps DEF Places
<1>8. CASE Rename(p)
  <2>1. /\ mirror' = staging /\ staging' = NoDir /\ UNCHANGED <<lock, task, draft>>
        /\ staging.whole /\ ~staging.token
    BY <1>8 DEF Rename, MInv, InSteps
  <2>2. MirrorIsWhole' /\ IsDir(mirror') /\ IsDir(staging')
    BY <1>2, <1>3, <2>1 DEF MirrorIsWhole, IsDir
  <2>3. PICK place \in {"objects", "index", "fetch"} :
          pc' = [pc EXCEPT ![p] = place] /\ (place = "index" => task[p] = Bootstrap)
    BY <1>8 DEF Rename, Goto
  <2> QED BY <1>0, <1>1, <1>2, <2>1, <2>2, <2>3, HolderKeeps DEF Places
<1> QED BY <1>4, <1>5, <1>6, <1>7, <1>8

\* The steps that leave the directories or only fetch into the mirror.
LEMMA UseKeeps ==
  ASSUME MInv, NEW p \in Procs,
         \/ EnsureObjects(p) \/ Fetch(p) \/ Recheck(p) \/ Diff(p) \/ Index(p)
         \/ Save(p) \/ SaveFails(p)
  PROVE  MInv'
<1>0. pc[p] \in {"objects", "fetch", "recheck", "diff", "index", "save"}
  BY DEF EnsureObjects, Fetch, Recheck, Diff, Index, Save, SaveFails
<1>1. lock = p /\ \A q \in Procs \ {p} : pc[q] \in {"idle", "lock"}
  BY <1>0, Alone
<1>2. IsDir(staging) /\ IsDir(mirror) /\ DOMAIN draft = Procs /\ MirrorIsWhole
  BY DEF MInv, LocalType
<1>3. CASE EnsureObjects(p) \/ Save(p) \/ SaveFails(p)
  <2>1. UNCHANGED <<lock, task, staging, mirror, draft>>
    BY <1>3 DEF EnsureObjects, Save, SaveFails, disk
  <2>2. IsDir(staging') /\ IsDir(mirror') /\ MirrorIsWhole'
    BY <1>2, <2>1 DEF MirrorIsWhole, IsDir
  <2>3. PICK place \in {"diff", "fetch", "unlock"} : pc' = [pc EXCEPT ![p] = place]
    BY <1>3 DEF EnsureObjects, Save, SaveFails, Goto
  <2> QED BY <1>0, <1>1, <1>2, <2>1, <2>2, <2>3, HolderKeeps DEF Places
<1>4. CASE Fetch(p)
  <2>1. /\ mirror' = [mirror EXCEPT !.objects = @ \cup Reachable(remote), !.heads = remote]
        /\ UNCHANGED <<lock, task, staging, draft>>
    BY <1>4 DEF Fetch
  <2>2. mirror' = [exists |-> mirror.exists, whole |-> mirror.whole, token |-> mirror.token,
                   stuck |-> mirror.stuck, objects |-> mirror.objects \cup Reachable(remote),
                   heads |-> remote]
    BY <1>2, <2>1 DEF IsDir
  <2>3. IsDir(mirror') /\ MirrorIsWhole'
    BY <1>2, <2>2 DEF IsDir, MirrorIsWhole
  <2>4. IsDir(staging')
    BY <1>2, <2>1 DEF IsDir
  <2>5. PICK place \in {"index", "recheck"} :
          pc' = [pc EXCEPT ![p] = place] /\ (place = "index" => task[p] = Bootstrap)
    BY <1>4 DEF Fetch, Goto
  <2> QED BY <1>0, <1>1, <1>2, <2>1, <2>3, <2>4, <2>5, HolderKeeps DEF Places
<1>5. CASE Recheck(p)
  <2>1. UNCHANGED <<staging, mirror, repoMap>>
    BY <1>5 DEF Recheck, disk
  <2>2. IsDir(staging') /\ IsDir(mirror') /\ MirrorIsWhole'
    BY <1>2, <2>1 DEF MirrorIsWhole, IsDir
  <2>3. CASE Has(p)
    <3>1. pc' = [pc EXCEPT ![p] = "diff"] /\ UNCHANGED <<lock, task, draft>>
      BY <1>5, <2>3 DEF Recheck, Goto
    <3> QED BY <1>0, <1>1, <1>2, <2>2, <3>1, HolderKeeps DEF Places
  <2>4. CASE ~Has(p)
    <3>1. Leave(p)
      BY <1>5, <2>4 DEF Recheck
    <3> QED BY <2>1, <2>2, <3>1, LeaveKeeps
  <2> QED BY <2>3, <2>4
<1>6. CASE Diff(p)
  <2>1. /\ pc' = [pc EXCEPT ![p] = "save"]
        /\ UNCHANGED <<lock, task, staging, mirror, repoMap>>
    BY <1>6 DEF Diff, Goto, disk
  <2>2. PICK loaded \in BOOLEAN, touched \in SUBSET Files :
          draft' = [draft EXCEPT ![p] = [map |-> Apply(Load(loaded), touched, task[p].after),
                                         loaded |-> loaded]]
    BY <1>6 DEF Diff, Changed
  <2>3. /\ DOMAIN draft' = Procs
        /\ draft'[p].map = Apply(Load(loaded), touched, task[p].after)
        /\ draft'[p].loaded = loaded
    BY <1>2, <2>2
  <2>4. (IF loaded THEN repoMap' ELSE EmptyMap) = Load(loaded)
    BY <2>1 DEF Load
  <2>6. \A f \in Files :
          draft'[p].map.files[f] \in {Load(loaded).files[f], Tree[task[p].after][f]}
    BY <2>3 DEF Apply
  <2>7. \A f \in Files :
          draft'[p].map.files[f] \in {(IF draft'[p].loaded THEN repoMap' ELSE EmptyMap).files[f],
                                      Tree[task[p].after][f]}
    BY <2>3, <2>4, <2>6
  <2>5. IsDir(staging') /\ IsDir(mirror') /\ MirrorIsWhole'
    BY <1>2, <2>1 DEF MirrorIsWhole, IsDir
  <2> QED BY <1>0, <1>1, <2>1, <2>3, <2>7, <2>5, HolderKeeps DEF Places
<1>7. CASE Index(p)
  <2>1. /\ pc' = [pc EXCEPT ![p] = "save"] /\ UNCHANGED <<lock, task, staging, mirror>>
        /\ task[p] = Bootstrap
    BY <1>7 DEF Index, Goto, disk, MInv, InSteps
  <2>2. DOMAIN draft' = Procs
    BY <1>2, <1>7 DEF Index
  <2>3. IsDir(staging') /\ IsDir(mirror') /\ MirrorIsWhole'
    BY <1>2, <2>1 DEF MirrorIsWhole, IsDir
  <2> QED BY <1>0, <1>1, <2>1, <2>2, <2>3, HolderKeeps DEF Places
<1> QED BY <1>3, <1>4, <1>5, <1>6, <1>7

\* The invariant is kept by every step.
LEMMA MInvStep == MInv /\ [Next]_vars => MInv'
<1> SUFFICES ASSUME MInv, [Next]_vars PROVE MInv'
  OBVIOUS
<1>1. CASE UNCHANGED <<lock, staging, mirror, repoMap, pc, task, draft>>
  BY <1>1 DEF MInv, LocalType, IsDir, Holding, MirrorIsWhole, OnlyStuckLeftoversBlock,
              InSteps, DraftIsCurrent, Load
<1>2. ASSUME NEW p \in Procs, Begin(p) \/ Acquire(p) \/ Work(p) \/ Abandon(p)
      PROVE  MInv'
  BY <1>2, BeginKeeps, AcquireKeeps, LeavingKeeps, EnsureKeeps, UseKeeps DEF Work
<1>3. RemoteMoves \/ UNCHANGED vars => UNCHANGED <<lock, staging, mirror, repoMap, pc, task, draft>>
  BY DEF RemoteMoves, vars, disk
<1> QED BY <1>1, <1>2, <1>3 DEF Next

\* The invariant holds in every reachable state.
THEOREM MirrorInvariance == Spec => []MInv
BY MInvInit, MInvStep, PTL DEF Spec

\* GitMirror.ensure: whatever interrupts a clone, a mirror that is found is
\* complete and holds no token.
THEOREM MirrorStaysWhole == Spec => []MirrorIsWhole
<1>1. MInv => MirrorIsWhole
  BY DEF MInv
<1> QED BY <1>1, MirrorInvariance, PTL

\* GitMirror.ensure: an interrupted clone blocks the next one only while what it
\* left cannot be removed.
THEOREM LeftoversAreRemoved == Spec => []OnlyStuckLeftoversBlock
<1>1. MInv => OnlyStuckLeftoversBlock
  BY DEF MInv
<1> QED BY <1>1, MirrorInvariance, PTL

\* repo-map.json is written by save alone.
LEMMA OnlySaveWrites ==
  ASSUME NEW p \in Procs, Begin(p) \/ Acquire(p) \/ Work(p) \/ Abandon(p), ~Save(p)
  PROVE  repoMap' = repoMap
<1>1. CASE Begin(p) \/ Acquire(p) \/ Abandon(p)
  BY <1>1 DEF Begin, Acquire, Abandon, disk
<1>2. CASE \/ StartClone(p) \/ FindMirror(p) \/ Clone(p) \/ CloneInterrupted(p)
          \/ CloneRefused(p) \/ SetUrl(p)
  BY <1>2 DEF StartClone, FindMirror, Clone, CloneInterrupted, SetUrl, CloneRefused, disk
<1>3. CASE Rename(p) \/ EnsureObjects(p) \/ Fetch(p) \/ FetchInterrupted(p) \/ Recheck(p)
  BY <1>3 DEF Rename, EnsureObjects, Fetch, FetchInterrupted, Recheck, disk
<1>4. CASE DiffEmpty(p) \/ Diff(p) \/ Index(p) \/ IndexNothing(p) \/ SaveFails(p) \/ Unlock(p)
  BY <1>4 DEF DiffEmpty, Diff, Index, IndexNothing, SaveFails, Unlock, disk
<1> QED BY <1>1, <1>2, <1>3, <1>4 DEF Work

\* A save of repo-map.json keeps what others have saved, unless the map could
\* not be loaded: the lock spans the read of the map and its replacement.
THEOREM UpdatesAreKept == Spec => NoLostUpdate
<1> DEFINE Kept ==
      \A p \in Procs :
        (pc[p] = "save" /\ pc'[p] = "unlock" /\ task[p] # Bootstrap /\ repoMap' # repoMap) =>
          \A f \in Files :
            repoMap'.files[f] \in {Load(draft[p].loaded).files[f], Tree[task[p].after][f]}
<1>1. MInv /\ [Next]_vars => [Kept]_vars
  <2> SUFFICES ASSUME MInv, Next,
                      NEW p \in Procs, pc[p] = "save", pc'[p] = "unlock", task[p] # Bootstrap,
                      repoMap' # repoMap, NEW f \in Files
               PROVE  repoMap'.files[f] \in {Load(draft[p].loaded).files[f], Tree[task[p].after][f]}
    OBVIOUS
  <2>1. draft[p].map.files[f] \in {Load(draft[p].loaded).files[f], Tree[task[p].after][f]}
    BY DEF MInv, DraftIsCurrent
  <2>2. repoMap' = repoMap \/ \E q \in Procs : Save(q)
    BY OnlySaveWrites DEF Next, RemoteMoves, disk
  <2>3. ASSUME NEW q \in Procs, Save(q) PROVE q = p
    BY <2>3 DEF Save, MInv, Holding
  <2>4. Save(p) => repoMap' = draft[p].map
    BY DEF Save
  <2> QED BY <2>1, <2>2, <2>3, <2>4
<1> QED BY <1>1, MirrorInvariance, PTL DEF Spec, NoLostUpdate

-----------------------------------------------------------------------------
(* Types, and the commits of the diff.  Beside MInv this needs that a      *)
(* directory has with each commit its history, which clone and fetch       *)
(* bring, and which places are only reached with a directory and a commit  *)
(* that are there.                                                         *)

DirOK(d) ==
  d.heads \in Heads /\ Closed(Graph, d.objects) /\ (~d.exists => d = NoDir)

DiskOK ==
  /\ remote \in Heads /\ lock \in Procs \cup {NoProc}
  /\ DirOK(staging) /\ DirOK(mirror)
  /\ repoMap.commit \in Commits \cup {0}
  /\ \A p \in Procs : draft[p].map.commit \in Commits \cup {0}

Relies ==
  \A p \in Procs :
    /\ pc[p] \in {"set_url", "rename"} => staging.exists
    /\ pc[p] \in {"objects", "fetch", "recheck", "diff", "index"} => mirror.exists
    /\ pc[p] = "diff" => task[p].after \in mirror.objects

\* No directory, and the one an interrupted clone leaves.
LEMMA NoDirOK ==
  ASSUME NEW d, d.heads = [b \in Branches |-> 0], d.objects = {}, d.exists \/ d = NoDir
  PROVE  DirOK(d)
BY DEF DirOK, Heads, Closed, NoDir

\* What clone and fetch bring has its history.
LEMMA ReachableIsClosed ==
  ASSUME NEW heads \in Heads
  PROVE  Closed(Graph, Reachable(heads))
<1>1. ASSUME NEW b \in Branches PROVE Closed(Graph, Ancestors(Graph, heads[b]))
  <2>1. heads[b] \in Commits \cup {0}
    BY DEF Heads
  <2>2. CASE heads[b] = 0
    BY <2>2 DEF Ancestors, Closed
  <2>3. CASE heads[b] # 0
    BY <2>1, <2>3, AncestorFacts, MirrorAssumption DEF Commits
  <2> QED BY <2>2, <2>3
<1> QED BY <1>1 DEF Closed, Reachable

\* So has what was there with it.
LEMMA UnionIsClosed ==
  ASSUME NEW S, NEW T, Closed(Graph, S), Closed(Graph, T)
  PROVE  Closed(Graph, S \cup T)
BY DEF Closed

\* A fetch, whole or interrupted.
LEMMA FetchedIsOK ==
  ASSUME IsDir(mirror), DirOK(mirror), mirror.exists, remote \in Heads, NEW heads \in Heads,
         mirror' = [mirror EXCEPT !.objects = @ \cup Reachable(remote), !.heads = heads]
  PROVE  DirOK(mirror') /\ mirror'.exists
<1>1. mirror' = [exists |-> mirror.exists, whole |-> mirror.whole, token |-> mirror.token,
                 stuck |-> mirror.stuck, objects |-> mirror.objects \cup Reachable(remote),
                   heads |-> heads]
  BY DEF IsDir
<1>2. Closed(Graph, mirror.objects \cup Reachable(remote))
  BY ReachableIsClosed, UnionIsClosed DEF DirOK
<1>3. mirror'.exists /\ mirror'.heads = heads /\ mirror'.objects = mirror.objects \cup Reachable(remote)
  BY <1>1
<1> QED BY <1>2, <1>3 DEF DirOK

\* A step of the holder: the others rely on nothing.
LEMMA HolderRelies ==
  ASSUME MInv, NEW p \in Procs, pc[p] \notin {"idle", "lock"}, NEW place,
         pc' = [pc EXCEPT ![p] = place],
         place \in {"set_url", "rename"} => staging'.exists,
         place \in {"objects", "fetch", "recheck", "diff", "index"} => mirror'.exists,
         place = "diff" => task'[p].after \in mirror'.objects
  PROVE  Relies'
<1>1. pc'[p] = place /\ \A q \in Procs \ {p} : pc'[q] \in {"idle", "lock"}
  BY Alone DEF MInv, LocalType
<1> QED BY <1>1 DEF Relies

\* A step that leaves the directories and the tasks of the others.
LEMMA OthersRely ==
  ASSUME MInv, Relies, NEW p \in Procs, NEW place \in {"idle", "lock", "ensure"},
         pc' = [pc EXCEPT ![p] = place], UNCHANGED <<staging, mirror>>,
         \A q \in Procs \ {p} : task'[q] = task[q]
  PROVE  Relies'
<1>1. pc'[p] = place /\ \A q \in Procs \ {p} : pc'[q] = pc[q]
  BY DEF MInv, LocalType
<1> QED BY <1>1 DEF Relies

\* The with block is left.
LEMMA LeaveTypes ==
  ASSUME MInv, DiskOK, NEW p \in Procs, Leave(p)
  PROVE  /\ lock' \in Procs \cup {NoProc} /\ pc' = [pc EXCEPT ![p] = "idle"]
         /\ \A q \in Procs : draft'[q].map.commit \in Commits \cup {0}
         /\ \A q \in Procs \ {p} : task'[q] = task[q]
<1>1. draft' = [draft EXCEPT ![p] = NoDraft] /\ NoDraft.map.commit = 0
  BY DEF Leave, NoDraft, EmptyMap
<1>2. \A q \in Procs : draft'[q].map.commit \in Commits \cup {0}
  BY <1>1 DEF MInv, LocalType, DiskOK
<1>3. \A q \in Procs \ {p} : task'[q] = task[q]
  BY DEF MInv, LocalType, Leave
<1> QED BY <1>2, <1>3 DEF Leave, Goto, DiskOK

\* The steps around the lock.
LEMMA LockDisk ==
  ASSUME MInv, DiskOK, Relies, NEW p \in Procs,
         \/ Begin(p) \/ Acquire(p) \/ DiffEmpty(p) \/ IndexNothing(p) \/ Unlock(p) \/ Abandon(p)
         \/ CloneRefused(p) \/ (Recheck(p) /\ ~Has(p))
  PROVE  (DiskOK /\ Relies)'
<1>1. CASE Begin(p)
  <2>1. /\ pc' = [pc EXCEPT ![p] = "lock"] /\ UNCHANGED <<remote, lock, staging, mirror, repoMap, draft>>
        /\ \A q \in Procs \ {p} : task'[q] = task[q]
    BY <1>1 DEF Begin, Goto, disk, MInv, LocalType
  <2> QED BY <2>1, OthersRely DEF DiskOK, DirOK
<1>2. CASE Acquire(p)
  <2>1. /\ pc' = [pc EXCEPT ![p] = "ensure"] /\ lock' = p
        /\ UNCHANGED <<remote, staging, mirror, repoMap, task, draft>>
    BY <1>2 DEF Acquire, Goto, disk
  <2> QED BY <2>1, OthersRely DEF DiskOK, DirOK
<1>3. CASE \/ DiffEmpty(p) \/ IndexNothing(p) \/ Unlock(p) \/ Abandon(p)
          \/ CloneRefused(p) \/ (Recheck(p) /\ ~Has(p))
  <2>1. Leave(p) /\ UNCHANGED <<remote, staging, mirror, repoMap>>
    BY <1>3 DEF DiffEmpty, IndexNothing, Unlock, Abandon, CloneRefused, Recheck, disk
  <2>2. Relies'
    BY <2>1, LeaveTypes, OthersRely
  <2>3. DiskOK'
    BY <2>1, LeaveTypes DEF DiskOK, DirOK
  <2> QED BY <2>2, <2>3
<1> QED BY <1>1, <1>2, <1>3

\* The steps of ensure.
LEMMA EnsureDisk ==
  ASSUME MInv, DiskOK, Relies, NEW p \in Procs,
         \/ StartClone(p) \/ FindMirror(p) \/ Clone(p) \/ CloneInterrupted(p)
         \/ SetUrl(p) \/ Rename(p)
  PROVE  (DiskOK /\ Relies)'
<1>0. IsDir(staging) /\ IsDir(mirror) /\ remote \in Heads
  BY DEF MInv, LocalType, DiskOK
<1>1. DirOK(NoDir) /\ DirOK(Remnant)
  <2>1. Remnant.exists /\ Remnant.objects = {} /\ Remnant.heads = [b \in Branches |-> 0]
    BY DEF Remnant, NoDir
  <2> QED BY <2>1, NoDirOK DEF NoDir
<1>2. CASE StartClone(p)
  <2>1. /\ pc[p] = "ensure" /\ pc' = [pc EXCEPT ![p] = "clone"] /\ staging' \in {NoDir, Remnant}
        /\ UNCHANGED <<remote, lock, mirror, repoMap, task, draft>>
    BY <1>2 DEF StartClone, Goto
  <2>2. Relies'
    BY <2>1, HolderRelies
  <2> QED BY <1>1, <2>1, <2>2 DEF DiskOK, DirOK
<1>3. CASE FindMirror(p)
  <2>1. /\ pc[p] = "ensure" /\ mirror.exists
        /\ UNCHANGED <<remote, lock, staging, mirror, repoMap, task, draft>>
    BY <1>3 DEF FindMirror, disk
  <2>2. PICK place \in {"fetch", "objects"} : pc' = [pc EXCEPT ![p] = place]
    BY <1>3 DEF FindMirror, Goto
  <2>3. Relies'
    BY <2>1, <2>2, HolderRelies
  <2> QED BY <2>1, <2>3 DEF DiskOK, DirOK
<1>4. CASE Clone(p)
  <2>1. /\ pc[p] = "clone" /\ pc' = [pc EXCEPT ![p] = "set_url"]
        /\ staging' = [exists |-> TRUE, whole |-> TRUE, token |-> TRUE, stuck |-> FALSE,
                       objects |-> Reachable(remote), heads |-> remote]
        /\ UNCHANGED <<remote, lock, mirror, repoMap, task, draft>>
    BY <1>4 DEF Clone, Goto
  <2>2. staging'.exists /\ staging'.heads = remote /\ staging'.objects = Reachable(remote)
    BY <2>1
  <2>3. DirOK(staging')
    BY <1>0, <2>2, ReachableIsClosed DEF DirOK
  <2>4. Relies'
    BY <2>1, <2>2, HolderRelies
  <2> QED BY <2>1, <2>3, <2>4 DEF DiskOK, DirOK
<1>5. CASE CloneInterrupted(p)
  <2>1. pc[p] = "clone" /\ Leave(p) /\ UNCHANGED <<remote, mirror, repoMap>>
    BY <1>5 DEF CloneInterrupted
  <2>2. /\ staging'.exists /\ staging'.objects = {}
        /\ staging'.heads = [b \in Branches |-> 0]
    BY <1>5 DEF CloneInterrupted, NoDir
  <2>3. DirOK(staging')
    BY <2>2, NoDirOK
  <2>4. Relies'
    BY <2>1, LeaveTypes, HolderRelies
  <2> QED BY <2>1, <2>3, <2>4, LeaveTypes DEF DiskOK, DirOK
<1>6. CASE SetUrl(p)
  <2>1. /\ pc[p] = "set_url" /\ pc' = [pc EXCEPT ![p] = "rename"] /\ staging.exists
        /\ staging' = [staging EXCEPT !.token = FALSE]
        /\ UNCHANGED <<remote, lock, mirror, repoMap, task, draft>>
    BY <1>6 DEF SetUrl, Goto, Relies
  <2>2. staging' = [exists |-> staging.exists, whole |-> staging.whole, token |-> FALSE,
                    stuck |-> staging.stuck, objects |-> staging.objects,
                    heads |-> staging.heads]
    BY <1>0, <2>1 DEF IsDir
  <2>3. staging'.exists /\ staging'.objects = staging.objects /\ staging'.heads = staging.heads
    BY <2>1, <2>2
  <2>4. DirOK(staging')
    BY <2>3 DEF DiskOK, DirOK
  <2>5. Relies'
    BY <2>1, <2>3, HolderRelies
  <2> QED BY <2>1, <2>4, <2>5 DEF DiskOK, DirOK
<1>7. CASE Rename(p)
  <2>1. /\ pc[p] = "rename" /\ mirror' = staging /\ staging' = NoDir /\ staging.exists
        /\ UNCHANGED <<remote, lock, repoMap, task, draft>>
    BY <1>7 DEF Rename, Relies
  <2>2. PICK place \in {"objects", "index", "fetch"} : pc' = [pc EXCEPT ![p] = place]
    BY <1>7 DEF Rename, Goto
  <2>3. Relies'
    BY <2>1, <2>2, HolderRelies
  <2> QED BY <1>1, <2>1, <2>3 DEF DiskOK, DirOK
<1> QED BY <1>2, <1>3, <1>4, <1>5, <1>6, <1>7

\* The steps that use the mirror and the map.
LEMMA UseDisk ==
  ASSUME MInv, DiskOK, Relies, NEW p \in Procs,
         \/ EnsureObjects(p) \/ Fetch(p) \/ FetchInterrupted(p) \/ (Recheck(p) /\ Has(p))
         \/ Diff(p) \/ Index(p) \/ Save(p) \/ SaveFails(p)
  PROVE  (DiskOK /\ Relies)'
<1>0. IsDir(mirror) /\ DirOK(mirror) /\ remote \in Heads /\ DOMAIN draft = Procs
  BY DEF MInv, LocalType, DiskOK
<1>1. CASE EnsureObjects(p) \/ (Recheck(p) /\ Has(p))
  <2>1. /\ pc[p] \in {"objects", "recheck"} /\ mirror.exists
        /\ UNCHANGED <<remote, lock, staging, mirror, repoMap, task, draft>>
    BY <1>1 DEF EnsureObjects, Recheck, disk, Relies
  <2>2. PICK place \in {"diff", "fetch"} :
          pc' = [pc EXCEPT ![p] = place] /\ (place = "diff" => Has(p))
    BY <1>1 DEF EnsureObjects, Recheck, Goto
  <2>3. Relies'
    BY <2>1, <2>2, HolderRelies DEF Has
  <2> QED BY <2>1, <2>3 DEF DiskOK, DirOK
<1>2. CASE Fetch(p)
  <2>1. /\ pc[p] = "fetch" /\ mirror.exists
        /\ mirror' = [mirror EXCEPT !.objects = @ \cup Reachable(remote), !.heads = remote]
        /\ UNCHANGED <<remote, lock, staging, repoMap, task, draft>>
    BY <1>2 DEF Fetch, Relies
  <2>2. PICK place \in {"index", "recheck"} : pc' = [pc EXCEPT ![p] = place]
    BY <1>2 DEF Fetch, Goto
  <2>3. DirOK(mirror') /\ mirror'.exists
    BY <1>0, <2>1, FetchedIsOK
  <2>4. Relies'
    BY <2>1, <2>2, <2>3, HolderRelies
  <2> QED BY <2>1, <2>3, <2>4 DEF DiskOK, DirOK
<1>3. CASE FetchInterrupted(p)
  <2>1. pc[p] = "fetch" /\ mirror.exists /\ Leave(p) /\ UNCHANGED <<remote, staging, repoMap>>
    BY <1>3 DEF FetchInterrupted, Relies
  <2>2. PICK heads \in Heads :
          mirror' = [mirror EXCEPT !.objects = @ \cup Reachable(remote), !.heads = heads]
    BY <1>3 DEF FetchInterrupted
  <2>3. DirOK(mirror')
    BY <1>0, <2>1, <2>2, FetchedIsOK
  <2>4. Relies'
    BY <2>1, LeaveTypes, HolderRelies
  <2> QED BY <2>1, <2>3, <2>4, LeaveTypes DEF DiskOK, DirOK
<1>4. CASE Diff(p)
  <2>1. /\ pc[p] = "diff" /\ pc' = [pc EXCEPT ![p] = "save"]
        /\ UNCHANGED <<remote, lock, staging, mirror, repoMap, task>>
    BY <1>4 DEF Diff, Goto, disk
  <2>2. PICK loaded \in BOOLEAN, touched \in SUBSET Files :
          draft' = [draft EXCEPT ![p] = [map |-> Apply(Load(loaded), touched, task[p].after),
                                         loaded |-> loaded]]
    BY <1>4 DEF Diff, Changed
  <2>3. draft'[p].map.commit = task[p].after /\ \A q \in Procs \ {p} : draft'[q] = draft[q]
    BY <1>0, <2>2 DEF Apply
  <2>4. task[p].after \in Commits
    BY <1>0, <2>1 DEF Relies, DirOK, Closed, Commits
  <2>5. Relies'
    BY <2>1, HolderRelies
  <2>6. \A q \in Procs : draft'[q].map.commit \in Commits \cup {0}
    BY <2>3, <2>4 DEF DiskOK
  <2> QED BY <2>1, <2>5, <2>6 DEF DiskOK, DirOK
<1>5. CASE Index(p)
  <2>1. /\ pc[p] = "index" /\ pc' = [pc EXCEPT ![p] = "save"]
        /\ draft' = [draft EXCEPT ![p] = [map |-> FullMap(mirror.heads[Main]), loaded |-> TRUE]]
        /\ UNCHANGED <<remote, lock, staging, mirror, repoMap, task>>
    BY <1>5 DEF Index, Goto, disk
  <2>2. draft'[p].map.commit = mirror.heads[Main] /\ \A q \in Procs \ {p} : draft'[q] = draft[q]
    BY <1>0, <2>1 DEF FullMap
  <2>3. mirror.heads[Main] \in Commits \cup {0}
    BY <1>0, MirrorAssumption DEF DirOK, Heads
  <2>4. Relies'
    BY <2>1, HolderRelies
  <2>5. \A q \in Procs : draft'[q].map.commit \in Commits \cup {0}
    BY <2>2, <2>3 DEF DiskOK
  <2> QED BY <2>1, <2>4, <2>5 DEF DiskOK, DirOK
<1>6. CASE Save(p) \/ SaveFails(p)
  <2>1. /\ pc[p] = "save" /\ pc' = [pc EXCEPT ![p] = "unlock"]
        /\ repoMap' \in {repoMap, draft[p].map}
        /\ UNCHANGED <<remote, lock, staging, mirror, task, draft>>
    BY <1>6 DEF Save, SaveFails, Goto, disk
  <2>2. Relies'
    BY <2>1, HolderRelies
  <2> QED BY <2>1, <2>2 DEF DiskOK, DirOK
<1> QED BY <1>1, <1>2, <1>3, <1>4, <1>5, <1>6

\* The three invariants are kept together.
LEMMA DiskStep == MInv /\ DiskOK /\ Relies /\ [Next]_vars => (DiskOK /\ Relies)'
<1> SUFFICES ASSUME MInv, DiskOK, Relies, [Next]_vars PROVE (DiskOK /\ Relies)'
  OBVIOUS
<1>1. ASSUME NEW p \in Procs, Begin(p) \/ Acquire(p) \/ Work(p) \/ Abandon(p)
      PROVE  (DiskOK /\ Relies)'
  BY <1>1, LockDisk, EnsureDisk, UseDisk DEF Work
<1>2. CASE RemoteMoves
  <2>1. UNCHANGED <<lock, staging, mirror, repoMap, pc, task, draft>>
    BY <1>2 DEF RemoteMoves, disk
  <2>2. remote' \in Heads
    BY <1>2 DEF RemoteMoves, DiskOK, Heads
  <2> QED BY <2>1, <2>2 DEF DiskOK, DirOK, Relies
<1>3. CASE UNCHANGED vars
  BY <1>3 DEF vars, DiskOK, DirOK, Relies
<1> QED BY <1>1, <1>2, <1>3 DEF Next

\* They hold in every reachable state.
THEOREM DiskInvariance == Spec => [](MInv /\ DiskOK /\ Relies)
<1>1. Init => DiskOK /\ Relies
  <2> SUFFICES ASSUME Init PROVE DiskOK /\ Relies
    OBVIOUS
  <2>1. DirOK(NoDir)
    BY NoDirOK DEF NoDir
  <2>2. EmptyMap.commit = 0 /\ NoDraft.map.commit = 0
    BY DEF EmptyMap, NoDraft
  <2> QED BY <2>1, <2>2 DEF Init, DiskOK, Relies
<1> QED BY <1>1, MInvInit, MInvStep, DiskStep, PTL DEF Spec

\* The disk, the lock, the remote and the processes keep their types; what
\* does not exist has no content, and a mirror only has commits of the project.
THEOREM MirrorTypeCorrect == Spec => []TypeOK
<1>1. MInv /\ DiskOK => TypeOK
  BY DEF MInv, LocalType, DiskOK, DirOK, Closed, Commits, TypeOK
<1> QED BY <1>1, DiskInvariance, PTL

\* GitMirror.diff: the new commit and every baseline resolve_baseline may
\* return are in the mirror, for any commit graph, whatever the remote does to
\* its branches and wherever clones and fetches are interrupted.
THEOREM DiffFindsItsCommits == Spec => []DiffHasItsCommits
<1>1. MInv /\ DiskOK /\ Relies => DiffHasItsCommits
  <2> SUFFICES ASSUME DiskOK, Relies, NEW p \in Procs, pc[p] = "diff"
               PROVE  /\ task[p].after \in mirror.objects
                      /\ Baselines(p) \subseteq mirror.objects \cup {0}
    BY DEF DiffHasItsCommits
  <2> DEFINE new == task[p].after
  <2>1. new \in mirror.objects /\ Closed(Graph, mirror.objects)
    BY DEF Relies, DiskOK, DirOK
  <2>2. new \in DOMAIN Graph /\ Ancestors(Graph, new) \subseteq mirror.objects
    BY <2>1, AncestorFacts, MirrorAssumption DEF Closed
  <2>3. FirstParent(Graph, new) \in mirror.objects \cup {0}
    BY <2>1 DEF FirstParent, Closed, Parents
  <2>4. ASSUME NEW base \in Baselines(p) PROVE base \in mirror.objects \cup {0}
    <3>1. CASE task[p].before # 0 /\ task[p].before \in mirror.objects
      BY <2>4, <3>1 DEF Baselines, ResolveBaseline
    <3>2. CASE ~(task[p].before # 0 /\ task[p].before \in mirror.objects)
      <4>1. base \in BranchBaseline(Graph, new, Candidates)
        BY <2>4, <3>2 DEF Baselines, ResolveBaseline
      <4>2. base = FirstParent(Graph, new) \/ base \in Ancestors(Graph, new)
        BY <2>2, <4>1, BranchBaselineIsBehind, MirrorAssumption
      <4> QED BY <2>2, <2>3, <4>2
    <3> QED BY <3>1, <3>2
  <2> QED BY <2>1, <2>4
<1> QED BY <1>1, DiskInvariance, PTL
=============================================================================
