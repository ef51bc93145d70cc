------------------------------ MODULE Webhook ------------------------------
(***************************************************************************)
(* The webhook receiver of app/main.py with the authentication of          *)
(* app/security.py and the payload parser of app/models.py, over the       *)
(* queue of module JobQueue.                                               *)
(*                                                                         *)
(* One uvicorn process serves all requests on one event loop and the       *)
(* handler awaits nothing after it has the body, so handlers do not        *)
(* interleave with each other.  They do interleave with the worker, and    *)
(* the process can die or the database can refuse, between the handler's   *)
(* two transactions: record_delivery and enqueue.  Any request may arrive  *)
(* any number of times in any order: deliveries are lost, repeated,        *)
(* delayed and reordered on the way.                                       *)
(***************************************************************************)
EXTENDS JobQueue

CONSTANTS
  Requests,         \* the requests that may arrive, a set of Request records
  NoId,             \* the X-GitHub-Delivery header is absent
  NoRequest,        \* the handler is idle
  MaxFailures       \* bound: handlers cut off between their transactions

VARIABLES
  cfg,              \* settings: secret and legacy token set, require_signature
  current,          \* the request between record_delivery and enqueue
  answer,           \* last answer given: the request and its status
  savedAgo,         \* history: time since a row for the key was inserted
  failures          \* cut-off handlers so far

webhookVars == <<cfg, current, answer, savedAgo, failures>>

(***************************************************************************)
(* A request, reduced to what the handler tells apart.  stamp, sig and     *)
(* token are the headers as the checks judge them; shape tells whether the *)
(* body has every required field ("ok"), lacks one or is not JSON          *)
(* ("missing"), or has a non-object where an object is expected            *)
(* ("mistyped").                                                           *)
(***************************************************************************)
Request ==
  [large   : BOOLEAN,
   stamp   : {"none", "fresh", "stale", "unparseable"},
   sig     : {"none", "malformed", "nonascii", "bad", "good"},
   token   : {"none", "nonascii", "bad", "good"},
   event   : {"ping", "push", "other"},
   id      : DeliveryIds \cup {NoId},
   shape   : {"ok", "missing", "mistyped"},
   branch  : BOOLEAN,
   kind    : {"normal", "created", "deleted"},
   commits : Nat,
   key     : Keys]

Config == [secret : BOOLEAN, token : BOOLEAN, require : BOOLEAN]

Answers == {"none", "too large", "unauthorized", "pong", "ignored",
            "accepted", "duplicate", "malformed", "internal error"}

ASSUME WebhookAssumption ==
  /\ Requests \subseteq Request
  /\ NoRequest \notin Requests
  /\ NoId \notin DeliveryIds
  /\ MaxFailures \in Nat

WebhookInit ==
  /\ cfg \in Config
  /\ current = NoRequest
  /\ answer = [req |-> NoRequest, status |-> "none"]
  /\ savedAgo = [k \in Keys |-> Null]
  /\ failures = 0

-----------------------------------------------------------------------------
(* security.verify_webhook.                                                *)

\* compare_digest raises TypeError for a string that is not ASCII.
Compare(header, method) ==
  CASE header = "good" -> method
    [] header = "nonascii" -> "raises"
    [] OTHER -> "refused"

\* Mutant: a signature that does not match falls through to the token.
VerifyAnyCredential(r) ==
  IF r.stamp \in {"stale", "unparseable"} THEN "refused"
  ELSE IF cfg.secret /\ r.sig = "good" THEN "hmac-sha256"
  ELSE IF cfg.token /\ r.token # "none" THEN Compare(r.token, "legacy-token")
  ELSE IF cfg.require /\ r.sig = "none" THEN "refused"
  ELSE "unverified"

\* The way the request was authenticated, or why it was not.
Verify(r) ==
  IF r.stamp \in {"stale", "unparseable"} THEN "refused"
  ELSE IF cfg.secret /\ r.sig # "none" THEN Compare(r.sig, "hmac-sha256")
  ELSE IF cfg.token /\ r.token # "none" THEN Compare(r.token, "legacy-token")
  ELSE IF cfg.require THEN "refused"
  ELSE "unverified"

Verified(r) == Verify(r) \in {"hmac-sha256", "legacy-token", "unverified"}

-----------------------------------------------------------------------------
(* main.github_webhook.                                                    *)

Answer(r, status) == answer' = [req |-> r, status |-> status]

\* Answers given before the database is touched.
Turned(r) ==
  IF r.large THEN "too large"
  ELSE IF Verify(r) = "raises" THEN "internal error"
  ELSE IF ~Verified(r) THEN "unauthorized"
  ELSE IF r.event = "ping" THEN "pong"
  ELSE "ignored"

ReachesQueue(r) == ~r.large /\ Verified(r) /\ r.event = "push"

TurnAway(r) ==
  /\ current = NoRequest
  /\ ~ReachesQueue(r)
  /\ Answer(r, Turned(r))
  /\ UNCHANGED <<queueVars, cfg, current, savedAgo, failures>>

\* Mutant: the delivery id is recorded before the signature is checked.
RecordUnverified(r) ==
  /\ current = NoRequest
  /\ ~r.large /\ r.event = "push"
  /\ r.id \notin DOMAIN deliveries
  /\ IF r.id = NoId THEN UNCHANGED queueVars ELSE RecordDelivery(r.id)
  /\ current' = r
  /\ UNCHANGED <<cfg, answer, savedAgo, failures>>

\* First transaction: the delivery id is new, or the request carries none.
Record(r) ==
  /\ current = NoRequest
  /\ ReachesQueue(r)
  /\ r.id \notin DOMAIN deliveries
  /\ IF r.id = NoId THEN UNCHANGED queueVars ELSE RecordDelivery(r.id)
  /\ current' = r
  /\ UNCHANGED <<cfg, answer, savedAgo, failures>>

\* Mutant: ON CONFLICT DO UPDATE SET received_at.
ReplayRefreshed(r) ==
  /\ current = NoRequest
  /\ ReachesQueue(r)
  /\ r.id # NoId /\ r.id \in DOMAIN deliveries
  /\ deliveries' = [deliveries EXCEPT ![r.id] = 0]
  /\ Answer(r, "duplicate")
  /\ UNCHANGED <<jobs, lastId, cfg, current, savedAgo, failures>>

\* record_delivery returned False.
Replay(r) ==
  /\ current = NoRequest
  /\ ReachesQueue(r)
  /\ r.id # NoId /\ r.id \in DOMAIN deliveries
  /\ RecordDelivery(r.id)
  /\ Answer(r, "duplicate")
  /\ UNCHANGED <<cfg, current, savedAgo, failures>>

\* A branch push that PushEvent accepts and that is worth a job.
WorthAJob(r) ==
  r.shape = "ok" /\ r.branch /\ ~(r.kind = "normal" /\ r.commits = 0)

\* GitHub sends a push again under its id and another push under another id.
ASSUME DeliveryIdAssumption ==
  \A r, s \in Requests :
    (r.id = s.id /\ r.id # NoId /\ r.event = "push" /\ s.event = "push"
       /\ ~r.large /\ ~s.large)
    => r.key = s.key /\ (WorthAJob(r) <=> WorthAJob(s))

\* Parsed and found not worth a job.  from_github_payload turns KeyError and
\* TypeError into ValueError, answered 400; the AttributeError of a field
\* that is not an object passes through.
Drop(r) ==
  /\ current = r
  /\ ~WorthAJob(r)
  /\ Answer(r, CASE r.shape = "missing" -> "malformed"
                 [] r.shape = "mistyped" -> "internal error"
                 [] OTHER -> "ignored")
  /\ current' = NoRequest
  /\ UNCHANGED <<queueVars, cfg, savedAgo, failures>>

\* Mutant: the answer is given although the insert was rolled back.
StoreRolledBack(r) ==
  /\ current = r
  /\ WorthAJob(r)
  /\ Answer(r, IF HasRow(r.key) THEN "duplicate" ELSE "accepted")
  /\ current' = NoRequest
  /\ UNCHANGED <<queueVars, cfg, savedAgo, failures>>

\* Second transaction.
Store(r) ==
  /\ current = r
  /\ WorthAJob(r)
  /\ Enqueue(r.key)
  /\ savedAgo' = IF HasRow(r.key) THEN savedAgo ELSE [savedAgo EXCEPT ![r.key] = 0]
  /\ Answer(r, IF HasRow(r.key) THEN "duplicate" ELSE "accepted")
  /\ current' = NoRequest
  /\ UNCHANGED <<cfg, failures>>

\* The process dies, or a transaction raises because the database stays
\* locked: the first one, or the second after the first has committed.
CutOff(r) ==
  /\ \/ current = r
     \/ current = NoRequest /\ ReachesQueue(r) /\ r.id # NoId
  /\ failures < MaxFailures
  /\ failures' = failures + 1
  /\ Answer(r, "internal error")
  /\ current' = NoRequest
  /\ UNCHANGED <<queueVars, cfg, savedAgo>>

Handle(r) ==
  TurnAway(r) \/ Record(r) \/ Replay(r) \/ Drop(r) \/ Store(r)

WebhookStep == \E r \in Requests : Handle(r) \/ CutOff(r)

WebhookTick ==
  /\ savedAgo' = [k \in Keys |-> Older(savedAgo[k], JobRetention + 1)]
  /\ UNCHANGED <<cfg, current, answer, failures>>

-----------------------------------------------------------------------------
(* The receiver by itself, the worker reduced to its delivery retention.   *)

ForgetDeliveries == PurgeDeliveries /\ UNCHANGED webhookVars

AloneInit == QueueInit /\ WebhookInit

WebhookSpec ==
  /\ AloneInit
  /\ [][\/ WebhookStep
        \/ ForgetDeliveries
        \/ QueueTick /\ WebhookTick]_<<queueVars, webhookVars>>

-----------------------------------------------------------------------------
(* Properties.                                                             *)

\* Types of the receiver's own state; past its first transaction the handler
\* only has a request that passed the checks before it.
ReceiverTypeOK ==
  /\ cfg \in Config
  /\ current \in {r \in Requests : ReachesQueue(r)} \cup {NoRequest}
  /\ answer \in [req : Requests \cup {NoRequest}, status : Answers]
  /\ savedAgo \in [Keys -> Nat \cup {Null}]
  /\ failures \in 0..MaxFailures

\* Types of the tables and of the receiver.
WebhookTypeOK == QueueTypeOK /\ ReceiverTypeOK

\* The sender proved to know a configured secret, or none is required.
Trusted(r) ==
  /\ r.stamp \notin {"stale", "unparseable"}
  /\ \/ cfg.secret /\ r.sig = "good"
     \/ cfg.token /\ r.token = "good"
     \/ ~cfg.require

\* Whatever a request that does not authenticate contains, it leaves no trace
\* in the database: it cannot save a push and cannot use up a delivery id, so
\* that the real delivery is not taken for a replay.
OnlyTrustedLeaveTraces ==
  [][/\ DOMAIN deliveries' \subseteq DOMAIN deliveries \/ Trusted(current')
     /\ DOMAIN jobs' \subseteq DOMAIN jobs \/ Trusted(current)
    ]_<<queueVars, webhookVars>>

\* A push answered "accepted" or "duplicate" has been saved: GitHub need not
\* deliver it again.
AnsweredIsSaved ==
  (answer.status \in {"accepted", "duplicate"} /\ WorthAJob(answer.req)) =>
    savedAgo[answer.req.key] # Null

\* What remains of it when handlers are cut off: "accepted" always means saved,
\* and so does "duplicate" for a delivery without an id, which only enqueue
\* can take for a repetition.
SavedUnlessCutOff ==
  (failures = 0 \/ answer.status = "accepted" \/ answer.req = NoRequest \/ answer.req.id = NoId) =>
    AnsweredIsSaved
=============================================================================
