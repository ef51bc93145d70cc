------------------------------ MODULE MCLines ------------------------------
(***************************************************************************)
(* Lines for TLC: one or two sections of a diff, and the code shown around *)
(* the lines a section touches, for files of several lengths and layouts.  *)
(***************************************************************************)
EXTENDS Excerpt

MCNames == {"plain", "quoted", "x b/y", "a/inner", "inner"}
MCCut == [n \in MCNames |-> IF n = "a/inner" THEN "inner" ELSE n]

Change(status, body, old, new) == [status |-> status, body |-> body, old |-> old, new |-> new]

\* Every status, every body, and every kind of name where it makes trouble.
MCChanges ==
  {Change("added", "none", "plain", "plain"), Change("added", "hunks", "x b/y", "x b/y"),
   Change("deleted", "hunks", "quoted", "quoted"), Change("deleted", "binary", "plain", "plain"),
   Change("modified", "hunks", "a/inner", "a/inner"), Change("modified", "none", "x b/y", "x b/y"),
   Change("modified", "binary", "quoted", "quoted"), Change("renamed", "hunks", "quoted", "x b/y"),
   Change("renamed", "none", "a/inner", "plain"), Change("copied", "hunks", "plain", "inner")}

MCLengths == 1..7
MCWindows == 0..2

\* Nested and neighbouring definitions.
MCLayouts == {{}, {<<2, 3>>}, {<<1, 6>>, <<2, 3>>, <<4, 6>>}, {<<1, 2>>, <<3, 3>>, <<5, 7>>, <<6, 6>>}}
=============================================================================
