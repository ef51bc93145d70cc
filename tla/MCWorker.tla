------------------------------ MODULE MCWorker ------------------------------
(***************************************************************************)
(* The worker for TLC.  The .cfg files choose the instance: WorkerOne the  *)
(* deployment of compose.yaml (one worker, with fairness), WorkerMany two  *)
(* workers, TwoWorkers the statement that fails.                           *)
(***************************************************************************)
EXTENDS WorkerRefinement
=============================================================================
