------------------------------ MODULE Baseline ------------------------------
(***************************************************************************)
(* resolve_baseline of app/git_repo.py: the commit a push is diffed with,  *)
(* over the commit graph of the mirror.                                    *)
(*                                                                         *)
(* Commits are numbered in an order in which parents come before their     *)
(* children; 0 stands for the zero SHA, for a missing parent and for None. *)
(* A graph g gives each commit its first and second parent.                *)
(***************************************************************************)
EXTENDS Integers, Sequences

Parents(g, c) == {g[c].first, g[c].second} \ {0}

IsGraph(g) ==
  DOMAIN g \subseteq Nat \ {0} /\ \A c \in DOMAIN g : Parents(g, c) \subseteq {p \in DOMAIN g : p < c}

\* The history of every commit, the commit itself included.
Histories(g) ==
  LET hist[c \in DOMAIN g] == {c} \cup UNION {hist[p] : p \in Parents(g, c)}
  IN  hist

Ancestors(g, c) == IF c = 0 THEN {} ELSE Histories(g)[c]

\* git merge-base: a common ancestor that is not behind another one.
MergeBases(g, a, b) ==
  LET common == Ancestors(g, a) \cap Ancestors(g, b)
  IN  {c \in common : \A d \in common \ {c} : c \notin Ancestors(g, d)}

\* git rev-parse c^
FirstParent(g, c) == g[c].first

\* Mutant: the merge base is not compared with the new commit.
BranchBaselineUnchecked(g, after, candidates) ==
  LET usable == {i \in DOMAIN candidates : candidates[i] \notin {0, after}}
      first == CHOOSE i \in usable : \A j \in usable : i <= j
      bases == IF usable = {} THEN {} ELSE MergeBases(g, candidates[first], after)
  IN  IF bases = {} THEN {FirstParent(g, after)} ELSE bases

\* Mutant: the default branch is not looked at.
BranchBaselineParent(g, after, candidates) == {FirstParent(g, after)}

\* The first name of the default branch that resolves to something other than
\* the new commit decides; its merge base is used unless it is the new commit.
BranchBaseline(g, after, candidates) ==
  LET usable == {i \in DOMAIN candidates : candidates[i] \notin {0, after}}
      first == CHOOSE i \in usable : \A j \in usable : i <= j
      bases == IF usable = {} THEN {} ELSE MergeBases(g, candidates[first], after)
  IN  IF bases \ {after} = {} THEN {FirstParent(g, after)} ELSE bases \ {after}

\* The values resolve_baseline may return.  present: the mirror has before.
\* candidates: what the three names of the default branch resolve to.
ResolveBaseline(g, before, present, after, candidates) ==
  IF before # 0 /\ present THEN {before} ELSE BranchBaseline(g, after, candidates)
=============================================================================
