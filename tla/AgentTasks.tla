------------------------------ MODULE AgentTasks ------------------------------
(***************************************************************************)
(* What the agent side does behind its requests.  A request commits a row  *)
(* and then sends its task: POST /billing/stripe/webhook with              *)
(* reconcile_stripe_event, POST /auth/signup with process_provisioning_job *)
(* and POST /direct-mail/campaigns with submit_direct_mail_campaign.  A    *)
(* provisioning job, once committed, sends ingest_market and               *)
(* regenerate_zip_cache for its ZIP; an ingestion sends another            *)
(* regeneration before it commits.  A regeneration reads the signals,      *)
(* commits the cached payload to PostgreSQL and copies it to Redis, which  *)
(* readers fill from PostgreSQL when it is empty.  The freight pipelines   *)
(* commit signals of the same ZIP and send nothing.                        *)
(* One ZIP; a payload is known by whether it shows cards of signals.       *)
(***************************************************************************)
EXTENDS Naturals, FiniteSets

CONSTANTS
    Jobs,          \* requests, each with its row and its task
    Ingests,       \* messages of ingest_market
    Regens,        \* messages of regenerate_zip_cache
    Readers,       \* readers of the cache: dashboards and digests
    MaxRetries     \* max_retries of the tasks (5 in the program)

ASSUME AgentTasksAssumption == MaxRetries \in Nat

Kinds == {"event", "provisioning", "mail"}

VARIABLES
    kind,          \* of each job
    state,         \* of each job: its row, its message, the step of its task
    finished,      \* processed_at, status "ready" or status "submitted"
    retries,
    handed,        \* history: how often each job sent the ingestion of its ZIP
    cut,           \* history: jobs whose task ended where it was about to
    killed,        \* history: jobs whose message was lost with a child
    ingest,        \* the ingestions
    regen,         \* the regenerations
    signals,       \* the ZIP has active signals
    payload,       \* zip_signal_cache: "none" without a row
    redis,         \* zip:{zip}:signals:v1, "none" when the key is gone
    reader,        \* what each reader has read and is about to put in Redis
    disturbed      \* history: signals were committed with no regeneration
                   \* queued, regenerations overlapped, or one failed for
                   \* another reason than what it read

vars == <<kind, state, finished, retries, handed, cut, killed, ingest, regen,
          signals, payload, redis, reader, disturbed>>

jobs == <<kind, state, finished, retries, handed, cut, killed>>
zip == <<ingest, regen, signals, payload, redis, reader, disturbed>>

Payloads == {"none", "empty", "cards"}

NoRegen == [step |-> "none", saw |-> "none", tries |-> 0]

TypeOK ==
    /\ kind \in [Jobs -> Kinds]
    /\ state \in [Jobs -> {"new", "refused", "committed", "unsent", "queued", "running",
                           "hand_over", "send_regen", "snapshot", "done", "dropped"}]
    /\ finished \in [Jobs -> BOOLEAN]
    /\ retries \in [Jobs -> 0..MaxRetries]
    /\ handed \in [Jobs -> Nat]
    /\ cut \in SUBSET Jobs
    /\ killed \in SUBSET Jobs
    /\ ingest \in [Ingests -> {"none", "queued", "sent"}]
    /\ regen \in [Regens -> [step : {"none", "queued", "read", "committed"},
                            saw : Payloads, tries : 0..MaxRetries]]
    /\ signals \in BOOLEAN
    /\ payload \in Payloads
    /\ redis \in Payloads
    /\ reader \in [Readers -> Payloads]
    /\ disturbed \in BOOLEAN

Init ==
    /\ kind \in [Jobs -> Kinds]
    /\ state = [j \in Jobs |-> "new"]
    /\ finished = [j \in Jobs |-> FALSE]
    /\ retries = [j \in Jobs |-> 0]
    /\ handed = [j \in Jobs |-> 0]
    /\ cut = {}
    /\ killed = {}
    /\ ingest = [i \in Ingests |-> "none"]
    /\ regen = [g \in Regens |-> NoRegen]
    /\ signals = FALSE
    /\ payload = "none"
    /\ redis = "none"
    /\ reader = [r \in Readers |-> "none"]
    /\ disturbed = FALSE

SendRegen == \E g \in Regens : /\ regen[g] = NoRegen
                               /\ regen' = [regen EXCEPT ![g].step = "queued"]

Turn(j, from, to) == state[j] = from /\ state' = [state EXCEPT ![j] = to]

-----------------------------------------------------------------------------
(* a request and its task *)

Persist(j) ==
    /\ Turn(j, "new", "committed")
    /\ UNCHANGED <<kind, finished, retries, handed, cut, killed, zip>>

PersistEvent(j) == kind[j] = "event" /\ Persist(j)

PersistSignup(j) == kind[j] = "provisioning" /\ Persist(j)

PersistCampaign(j) == kind[j] = "mail" /\ Persist(j)

Refuse(j) ==
    /\ Turn(j, "new", "refused")
    /\ UNCHANGED <<kind, finished, retries, handed, cut, killed, zip>>

(* The event or the email has its row: stripe_event_id and email are unique. *)
(* Nothing is sent for it again, whatever has become of the first message.   *)
RefuseKnown(j) ==
    /\ kind[j] # "mail"
    /\ \E o \in Jobs \ {j} : kind[o] = kind[j] /\ state[o] \notin {"new", "refused"}
    /\ Refuse(j)

(* The rollback of the ComplianceError takes the abuse flag with it.         *)
RefuseCampaign(j) == kind[j] = "mail" /\ Refuse(j)

Send(j) ==
    /\ Turn(j, "committed", "queued")
    /\ UNCHANGED <<kind, finished, retries, handed, cut, killed, zip>>

(* the process dies, or the broker refuses, between the two *)
SendFails(j) ==
    /\ Turn(j, "committed", "unsent")
    /\ UNCHANGED <<kind, finished, retries, handed, cut, killed, zip>>

(* variant: a task does not look at the status of its row *)
StartAnyway(j) ==
    /\ Turn(j, "queued", "running")
    /\ UNCHANGED <<kind, finished, retries, handed, cut, killed, zip>>

(* Ready jobs and submitted campaigns are left alone; an event runs again.  *)
Start(j) ==
    /\ Turn(j, "queued", IF kind[j] # "event" /\ finished[j] THEN "done" ELSE "running")
    /\ UNCHANGED <<kind, finished, retries, handed, cut, killed, zip>>

(* the commit of the task *)
Finish(j, to) ==
    /\ Turn(j, "running", to)
    /\ finished' = [finished EXCEPT ![j] = TRUE]
    /\ UNCHANGED <<kind, retries, handed, cut, killed, zip>>

Reconcile(j) == kind[j] = "event" /\ Finish(j, "done")

Provision(j) == kind[j] = "provisioning" /\ Finish(j, "hand_over")

Submit(j) == kind[j] = "mail" /\ Finish(j, "done")

(* process_provisioning_job, after its commit *)
(* one ZIP; build_dashboard_snapshot and set_json follow *)
SendIngest(j) ==
    /\ Turn(j, "hand_over", "send_regen")
    /\ \E i \in Ingests : /\ ingest[i] = "none"
                          /\ ingest' = [ingest EXCEPT ![i] = "queued"]
    /\ handed' = [handed EXCEPT ![j] = @ + 1]
    /\ UNCHANGED <<kind, finished, retries, cut, killed, regen, signals, payload,
                   redis, reader, disturbed>>

HandOver(j) ==
    /\ Turn(j, "send_regen", "snapshot")
    /\ SendRegen
    /\ UNCHANGED <<kind, finished, retries, handed, cut, killed, ingest, signals,
                   payload, redis, reader, disturbed>>

Snapshot(j) ==
    /\ Turn(j, "snapshot", "done")
    /\ UNCHANGED <<kind, finished, retries, handed, cut, killed, zip>>

AtWork == {"running", "hand_over", "send_regen", "snapshot"}

(* the task ends: what is left of it stays undone if it runs again *)
Cut(j) == cut' = IF state[j] = "hand_over" THEN cut \cup {j} ELSE cut

(* variant: the exception is logged and not raised again *)
FailQuietly(j) ==
    /\ state[j] \in AtWork
    /\ state' = [state EXCEPT ![j] = "done"]
    /\ Cut(j)
    /\ UNCHANGED <<kind, finished, retries, handed, killed, zip>>

(* variant: one retry more than there are *)
FailOnceMore(j) ==
    /\ state[j] \in AtWork
    /\ IF retries[j] <= MaxRetries
       THEN /\ state' = [state EXCEPT ![j] = "queued"]
            /\ retries' = [retries EXCEPT ![j] = @ + 1]
       ELSE /\ state' = [state EXCEPT ![j] = "dropped"]
            /\ UNCHANGED retries
    /\ Cut(j)
    /\ UNCHANGED <<kind, finished, handed, killed, zip>>

(* An exception rolls back what is not committed and the task runs again,   *)
(* until its retries are used up.                                           *)
Fail(j) ==
    /\ state[j] \in AtWork
    /\ IF retries[j] < MaxRetries
       THEN /\ state' = [state EXCEPT ![j] = "queued"]
            /\ retries' = [retries EXCEPT ![j] = @ + 1]
       ELSE /\ state' = [state EXCEPT ![j] = "dropped"]
            /\ UNCHANGED retries
    /\ Cut(j)
    /\ UNCHANGED <<kind, finished, handed, killed, zip>>

(* task_acks_late alone: when the child that runs the task is killed, the    *)
(* worker acknowledges the message all the same (task_reject_on_worker_lost *)
(* is not set).                                                             *)
ChildDies(j) ==
    /\ state[j] \in AtWork
    /\ state' = [state EXCEPT ![j] = "dropped"]
    /\ killed' = killed \cup {j}
    /\ Cut(j)
    /\ UNCHANGED <<kind, finished, retries, handed, zip>>

(* The worker itself dies before it acknowledges: the broker delivers again. *)
Redeliver(j) ==
    /\ state[j] \in AtWork \cup {"done"}
    /\ state' = [state EXCEPT ![j] = "queued"]
    /\ Cut(j)
    /\ UNCHANGED <<kind, finished, retries, handed, killed, zip>>

-----------------------------------------------------------------------------
(* the signals of the ZIP *)

RegenQueued == \E g \in Regens : regen[g].step = "queued"

(* the commit of signals; a regeneration that is queued will read them *)
CommitSignals ==
    /\ signals' = TRUE
    /\ disturbed' = (disturbed \/ ~RegenQueued)

(* ingest_market: apply_async of the regeneration, before the commit of the *)
(* upserts                                                                  *)
IngestSends(i) ==
    /\ ingest[i] = "queued"
    /\ ingest' = [ingest EXCEPT ![i] = "sent"]
    /\ SendRegen
    /\ UNCHANGED <<jobs, signals, payload, redis, reader, disturbed>>

(* The message is acknowledged, or its worker dies first and it is          *)
(* delivered again.                                                         *)
IngestCommits(i) ==
    /\ ingest[i] = "sent"
    /\ \E next \in {"none", "queued"} : ingest' = [ingest EXCEPT ![i] = next]
    /\ CommitSignals
    /\ UNCHANGED <<jobs, regen, payload, redis, reader>>

(* rolled back: tried again, or given up, or lost with its child *)
IngestFails(i) ==
    /\ ingest[i] # "none"
    /\ \E next \in {"none", "queued"} : ingest' = [ingest EXCEPT ![i] = next]
    /\ UNCHANGED <<jobs, regen, signals, payload, redis, reader, disturbed>>

(* a freight pipeline commits signals of the ZIP and sends nothing *)
PipelineCommits ==
    /\ CommitSignals
    /\ UNCHANGED <<jobs, ingest, regen, payload, redis, reader>>

-----------------------------------------------------------------------------
(* regenerate_zip_cache *)

Busy(g) == regen[g].step \in {"read", "committed"}

(* the best hundred: none of them or some *)
RegenReads(g) ==
    /\ regen[g].step = "queued"
    /\ regen' = [regen EXCEPT ![g].step = "read",
                              ![g].saw = IF signals THEN "cards" ELSE "empty"]
    /\ disturbed' = (disturbed \/ \E o \in Regens : Busy(o))
    /\ UNCHANGED <<jobs, ingest, signals, payload, redis, reader>>

(* The card of a signal holds its id, a UUID, and the times at which it was *)
(* fired and claimed: the JSONB column is bound with json.dumps, without a  *)
(* default for them.                                                        *)
Serializable(saw) == saw # "cards"

(* INSERT ... ON CONFLICT DO UPDATE *)
RegenCommits(g) ==
    /\ regen[g].step = "read"
    /\ Serializable(regen[g].saw)
    /\ payload' = regen[g].saw
    /\ regen' = [regen EXCEPT ![g].step = "committed"]
    /\ UNCHANGED <<jobs, ingest, signals, redis, reader, disturbed>>

(* tried again while there are retries, or given up *)
RegenEnds(g) ==
    regen' = [regen EXCEPT ![g] =
                 IF regen[g].tries < MaxRetries
                 THEN [step |-> "queued", saw |-> "none", tries |-> regen[g].tries + 1]
                 ELSE NoRegen]

(* the TypeError of json.dumps *)
RegenRaises(g) ==
    /\ regen[g].step = "read"
    /\ ~Serializable(regen[g].saw)
    /\ RegenEnds(g)
    /\ UNCHANGED <<jobs, ingest, signals, payload, redis, reader, disturbed>>

(* another exception, or the message is lost with its child *)
RegenFails(g) ==
    /\ Busy(g)
    /\ RegenEnds(g) \/ regen' = [regen EXCEPT ![g] = NoRegen]
    /\ disturbed' = TRUE
    /\ UNCHANGED <<jobs, ingest, signals, payload, redis, reader>>

(* set_json has a default for what json.dumps does not know, and swallows a *)
(* RedisError                                                               *)
RegenCaches(g) ==
    /\ regen[g].step = "committed"
    /\ redis' \in {regen[g].saw, redis}
    /\ regen' = [regen EXCEPT ![g] = NoRegen]
    /\ UNCHANGED <<jobs, ingest, signals, payload, reader, disturbed>>

-----------------------------------------------------------------------------
(* get_zip_signal_payload *)

ReadPayload(r) ==
    /\ redis = "none"
    /\ reader[r] = "none" /\ payload # "none"
    /\ reader' = [reader EXCEPT ![r] = payload]
    /\ UNCHANGED <<jobs, ingest, regen, signals, payload, redis, disturbed>>

FillRedis(r) ==
    /\ reader[r] # "none"
    /\ redis' \in {reader[r], redis}
    /\ reader' = [reader EXCEPT ![r] = "none"]
    /\ UNCHANGED <<jobs, ingest, regen, signals, payload, disturbed>>

RedisExpires ==
    /\ redis # "none"
    /\ redis' = "none"
    /\ UNCHANGED <<jobs, ingest, regen, signals, payload, reader, disturbed>>

-----------------------------------------------------------------------------

Job(j) ==
    \/ PersistEvent(j) \/ PersistSignup(j) \/ PersistCampaign(j)
    \/ RefuseKnown(j) \/ RefuseCampaign(j)
    \/ Send(j) \/ SendFails(j) \/ Start(j)
    \/ Reconcile(j) \/ Provision(j) \/ Submit(j)
    \/ SendIngest(j) \/ HandOver(j) \/ Snapshot(j)
    \/ Fail(j) \/ ChildDies(j) \/ Redeliver(j)

Ingest(i) == IngestSends(i) \/ IngestCommits(i) \/ IngestFails(i)

Regenerate(g) ==
    RegenReads(g) \/ RegenCommits(g) \/ RegenCaches(g) \/ RegenRaises(g) \/ RegenFails(g)

Next ==
    \/ \E j \in Jobs : Job(j)
    \/ \E i \in Ingests : Ingest(i)
    \/ PipelineCommits
    \/ \E g \in Regens : Regenerate(g)
    \/ \E r \in Readers : ReadPayload(r) \/ FillRedis(r)
    \/ RedisExpires

Spec == Init /\ [][Next]_vars

-----------------------------------------------------------------------------
(***************************************************************************)
(* Properties.                                                             *)
(***************************************************************************)

(* The work of a message that is gone from its queue was committed, unless  *)
(* the message was given up after its last retry or lost with a killed      *)
(* child: no failing task, dying worker or second delivery loses an event,  *)
(* a job or a campaign in another way.                                      *)
AcknowledgedIsFinished ==
    \A j \in Jobs :
        state[j] \in {"done", "dropped"} =>
            \/ finished[j]
            \/ state[j] = "dropped" /\ (j \in killed \/ retries[j] = MaxRetries)

(* A ready provisioning job has sent the ingestion of its ZIP once, unless  *)
(* the task ended right after its commit: then the retry finds the job      *)
(* ready and never sends it.  No retry and no redelivery sends it twice.    *)
IngestedOnce ==
    \A j \in Jobs : kind[j] = "provisioning" =>
        /\ handed[j] <= 1
        /\ finished[j] => handed[j] = 1 \/ state[j] = "hand_over" \/ j \in cut

Resting ==
    /\ \A i \in Ingests : ingest[i] = "none"
    /\ \A g \in Regens : regen[g] = NoRegen

(* "The dashboard will fill from cached ZIP datasets" (dashboard.py): once  *)
(* nothing of the ZIP is on its way and nothing disturbed it, the cached    *)
(* payload shows its signals.                                               *)
DashboardFills == Resting /\ ~disturbed /\ signals => payload = "cards"

=============================================================================
