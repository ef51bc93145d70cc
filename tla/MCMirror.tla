------------------------------ MODULE MCMirror ------------------------------
(***************************************************************************)
(* The disk for TLC: a root commit 1, commit 2 on main and commit 3 on a   *)
(* branch that left main at 1; two files, one deleted by commit 3.         *)
(***************************************************************************)
EXTENDS Mirror

MCGraph ==
  <<[first |-> 0, second |-> 0], [first |-> 1, second |-> 0], [first |-> 1, second |-> 0]>>

MCTree == <<[a |-> 1, b |-> 1], [a |-> 2, b |-> 1], [a |-> 3, b |-> 0]>>

MCFiles == {"a", "b"}

\* The push that creates main, one on main, and one that creates the branch.
MCPushes ==
  {[before |-> 0, after |-> 1], [before |-> 1, after |-> 2], [before |-> 0, after |-> 3]}
=============================================================================
