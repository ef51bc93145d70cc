------------------------------- MODULE MCBot -------------------------------
(***************************************************************************)
(* The whole system for TLC: one worker and one push that arrives any      *)
(* number of times, with a delivery id and without one, correctly signed.  *)
(***************************************************************************)
EXTENDS Bot

CONSTANTS k1, d1

Push ==
  [large |-> FALSE, stamp |-> "none", sig |-> "good", token |-> "none",
   event |-> "push", id |-> d1, shape |-> "ok", branch |-> TRUE,
   kind |-> "normal", commits |-> 1, key |-> k1]

MCRequests == {Push, [Push EXCEPT !.id = NoId]}
=============================================================================
