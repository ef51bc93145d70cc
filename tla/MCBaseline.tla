----------------------------- MODULE MCBaseline -----------------------------
(***************************************************************************)
(* resolve_baseline on every commit graph of up to N commits, every push   *)
(* and every position of the default branch.                               *)
(***************************************************************************)
EXTENDS Baseline

CONSTANT N           \* bound: commits

ASSUME CommitsAssumption == N \in Nat

VARIABLES graph, before, present, after, candidates, baseline

pushVars == <<graph, before, present, after, candidates, baseline>>

Numbers == 1..N

\* A second parent only beside a different first one.
Graphs ==
  {g \in [Numbers -> [first : 0..(N - 1), second : 0..(N - 1)]] :
     \A c \in Numbers :
       /\ g[c].first < c /\ g[c].second < c
       /\ g[c].second # 0 => g[c].first \notin {0, g[c].second}}

Unresolved == -1

\* In a mirror clone origin/<branch> resolves to nothing, and the plain name
\* to the branch, or to a tag of that name.
ResolveInit ==
  /\ graph \in Graphs
  /\ before \in 0..N
  /\ present \in BOOLEAN
  /\ after \in Numbers /\ after # before
  /\ \E tag, head \in 0..N : candidates = <<IF tag = 0 THEN head ELSE tag, 0, head>>
  /\ baseline = Unresolved

Resolve ==
  /\ baseline = Unresolved
  /\ baseline' \in ResolveBaseline(graph, before, present, after, candidates)
  /\ UNCHANGED <<graph, before, present, after, candidates>>

ResolveSpec == ResolveInit /\ [][Resolve]_pushVars

-----------------------------------------------------------------------------
Resolved == baseline # Unresolved
UsesBefore == before # 0 /\ present

\* Without a usable before the push is diffed with a proper ancestor of the
\* new commit, so the diff contains nothing but work that led to it; "None
\* means no safe baseline", and exactly a root commit has none.
BaselineIsBehind ==
  (Resolved /\ ~UsesBefore) =>
    IF Parents(graph, after) = {} THEN baseline = 0
    ELSE baseline \in Ancestors(graph, after) \ {after}

\* A new branch that left the default branch somewhere is summarised in full:
\* no commit that only the new branch has lies behind the baseline.
NothingNewIsSkipped ==
  LET head == candidates[1]
  IN  (/\ Resolved /\ ~UsesBefore
       /\ Ancestors(graph, head) \cap Ancestors(graph, after) # {}
       /\ after \notin Ancestors(graph, head)) =>
        Ancestors(graph, baseline) \subseteq Ancestors(graph, head)
=============================================================================
