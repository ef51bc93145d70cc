----------------------------- MODULE MCPrepare -----------------------------
(***************************************************************************)
(* Preparation for TLC: five paths in three top directories, one of them   *)
(* ignored and one not source, and six trees between which pushes add,     *)
(* modify, delete, rename into and out of the ignored path, replace a file *)
(* by a link, and change a binary and a large file.                        *)
(***************************************************************************)
EXTENDS Prepare

MCPaths == 1..5
MCIgnored == {4}
MCSources == {1, 2, 4, 5}
MCDir == <<<<"b">>, <<"a", "x">>, <<"a", "y">>, <<"v">>, <<>>>>

MCVersions == 1..5
MCBinaries == {3}
MCLinks == {4}
MCAlike == {<<v, v>> : v \in 1..3} \cup {<<1, 2>>}

\* Version 5 is large; a rename without a change has a header only, even of
\* a binary file; code is shown around changes of text.
MCPatch ==
  [v \in 0..5 |-> [w \in 0..5 |->
     [size |-> IF v = w THEN 1 ELSE IF w = 5 THEN 13 ELSE IF v = 5 THEN 9 ELSE 2 + ((v + w) % 3),
      weight |-> IF v = w \/ 3 \in {v, w} THEN 0 ELSE IF 5 \in {v, w} THEN 3 ELSE 1 + (w % 2),
      binary |-> v # w /\ 3 \in {v, w},
      upto |-> IF v = w \/ {v, w} \cap {0, 3, 4} # {} THEN <<>>
               ELSE IF w = 5 THEN <<2, 3>> ELSE <<3, 15>>]]]

MCCommits ==
  {<<1, 1, 0, 1, 0>>, <<1, 1, 0, 2, 0>>, <<4, 1, 1, 1, 0>>, <<2, 2, 2, 1, 3>>,
   <<0, 0, 0, 1, 1>>, <<1, 5, 0, 0, 0>>}
MCStarts == {<<1, 1, 0, 1, 0>>, <<2, 2, 2, 1, 3>>}
=============================================================================
