-------------------------------- MODULE Bot --------------------------------
(***************************************************************************)
(* The running system: the webhook receiver and the worker processes over  *)
(* one database, with one clock.                                           *)
(***************************************************************************)
EXTENDS Worker, Webhook

botVars == <<vars, webhookVars>>

BotInit == Init /\ WebhookInit

BotNext ==
  \/ \E w \in Workers : WorkerStep(w) /\ UNCHANGED webhookVars
  \/ WebhookStep /\ UNCHANGED workerVars
  \/ Tick /\ WebhookTick

BotSpec == BotInit /\ [][BotNext]_botVars

-----------------------------------------------------------------------------
\* The receiver does to the database only what Worker expects of its
\* environment, so that everything shown of Worker holds in the system.
ImplementsWorker == Spec

\* However often and late a push is delivered, under whatever delivery ids,
\* it gets a second row only when the job retention has passed since it got
\* its first one: the dedupe key covers what purge_deliveries has forgotten.
NoRerunWithinRetention ==
  [][\A i \in DOMAIN jobs' \ DOMAIN jobs :
       LET ago == savedAgo[jobs'[i].key]
       IN  ago = Null \/ ago > JobRetention]_botVars
=============================================================================
