----------------------------- MODULE MCWebhook -----------------------------
(***************************************************************************)
(* The receiver for TLC.  One push arrives with every combination of       *)
(* credentials and under two delivery ids or none, every other body under  *)
(* an id that never carries a push worth a job.                            *)
(***************************************************************************)
EXTENDS Webhook

CONSTANTS k1, k2, d1, d2, d3

Push ==
  [large |-> FALSE, stamp |-> "none", sig |-> "good", token |-> "none",
   event |-> "push", id |-> d1, shape |-> "ok", branch |-> TRUE,
   kind |-> "normal", commits |-> 1, key |-> k1]

\* One push under every combination of signature and token.
Signings ==
  {[Push EXCEPT !.sig = g, !.token = t] :
     g \in {"none", "malformed", "nonascii", "bad", "good"},
     t \in {"none", "nonascii", "bad", "good"}}

Stampings ==
  {[Push EXCEPT !.stamp = s, !.id = d2] :
     s \in {"fresh", "stale", "unparseable"}}

\* Everything that ends without a job, each for its own reason.
Bodies ==
  LET Other == [Push EXCEPT !.id = d3]
  IN  {[Other EXCEPT !.large = TRUE], [Other EXCEPT !.event = "ping"],
       [Other EXCEPT !.event = "other"], [Other EXCEPT !.shape = "missing"],
       [Other EXCEPT !.shape = "mistyped"], [Other EXCEPT !.branch = FALSE],
       [Other EXCEPT !.commits = 0]}

\* A branch deletion has no commits and is worth a job all the same.
Deletion == [Push EXCEPT !.id = NoId, !.kind = "deleted", !.commits = 0,
                           !.key = k2]

MCRequests ==
  Signings \cup Stampings \cup Bodies \cup {[Push EXCEPT !.id = NoId], Deletion}
=============================================================================
