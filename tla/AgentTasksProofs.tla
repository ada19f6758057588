-------------------------- MODULE AgentTasksProofs --------------------------
(***************************************************************************)
(* Proofs about AgentTasks, for any jobs, messages, readers and retries,   *)
(* and, at the end, about the rows that Stripe's events write, module      *)
(* Subscriptions.                                                          *)
(* JobsHold says what the states of a job rely on: a job that was not       *)
(* finished has handed nothing over, and one past its commit is finished.  *)
(***************************************************************************)
EXTENDS AgentTasks, Subscriptions, TLAPS

JobsHold ==
    \A j \in Jobs :
        /\ state[j] \in {"hand_over", "send_regen", "snapshot", "done"} => finished[j]
        /\ state[j] = "dropped" => finished[j] \/ j \in killed \/ retries[j] = MaxRetries
        /\ kind[j] = "provisioning" =>
              /\ state[j] = "running" => ~finished[j]
              /\ state[j] = "hand_over" => handed[j] = 0
              /\ ~finished[j] => handed[j] = 0

IInv ==
    /\ TypeOK
    /\ JobsHold
    /\ IngestedOnce

-----------------------------------------------------------------------------

LEMMA TypeInit == Init => TypeOK
  <1>1. 0 \in 0..MaxRetries
    BY AgentTasksAssumption
  <1>2. NoRegen \in [step : {"none", "queued", "read", "committed"},
                     saw : Payloads, tries : 0..MaxRetries]
    BY <1>1 DEF NoRegen, Payloads
  <1>3. Init => /\ finished \in [Jobs -> BOOLEAN]
                /\ regen \in [Regens -> [step : {"none", "queued", "read", "committed"},
                                         saw : Payloads, tries : 0..MaxRetries]]
    BY <1>2 DEF Init
  <1>4. Init => /\ retries \in [Jobs -> 0..MaxRetries]
                /\ handed \in [Jobs -> Nat]
                /\ reader \in [Readers -> Payloads]
    BY <1>1 DEF Init, Payloads
  <1>5. Init => /\ signals \in BOOLEAN /\ disturbed \in BOOLEAN
                /\ payload \in Payloads /\ redis \in Payloads
    BY DEF Init, Payloads
  <1>6. Init => /\ cut \in SUBSET Jobs /\ killed \in SUBSET Jobs
    BY DEF Init
  <1> QED
    BY <1>3, <1>4, <1>5, <1>6 DEF Init, TypeOK

LEMMA TypeStep == TypeOK /\ [Next]_vars => TypeOK'
  <1> SUFFICES ASSUME TypeOK, [Next]_vars PROVE TypeOK'
    OBVIOUS
  <1> USE AgentTasksAssumption DEF TypeOK, Payloads
  <1>1. ASSUME NEW j \in Jobs, Job(j) PROVE TypeOK'
    <2>1. CASE PersistEvent(j) \/ PersistSignup(j) \/ PersistCampaign(j)
      BY <2>1 DEF PersistEvent, PersistSignup, PersistCampaign, Persist, Turn, zip
    <2>2. CASE RefuseKnown(j) \/ RefuseCampaign(j)
      BY <2>2 DEF RefuseKnown, RefuseCampaign, Refuse, Turn, zip
    <2>3. CASE Send(j) \/ SendFails(j) \/ Start(j)
      BY <2>3 DEF Send, SendFails, Start, Turn, zip
    <2>4. CASE Reconcile(j) \/ Provision(j) \/ Submit(j)
      BY <2>4 DEF Reconcile, Provision, Submit, Finish, Turn, zip
    <2>5. CASE SendIngest(j)
      BY <2>5 DEF SendIngest, Turn
    <2>6. CASE HandOver(j)
      BY <2>6 DEF HandOver, SendRegen, Turn
    <2>7. CASE Snapshot(j)
      BY <2>7 DEF Snapshot, Turn, zip
    <2>8. CASE Fail(j)
      BY <2>8 DEF Fail, Cut, zip
    <2>9. CASE Redeliver(j) \/ ChildDies(j)
      BY <2>9 DEF Redeliver, ChildDies, Cut, zip
    <2> QED
      BY <1>1, <2>1, <2>2, <2>3, <2>4, <2>5, <2>6, <2>7, <2>8, <2>9 DEF Job
  <1>2. ASSUME NEW i \in Ingests, Ingest(i) PROVE TypeOK'
    <2>1. CASE IngestSends(i)
      BY <2>1 DEF IngestSends, SendRegen, jobs
    <2>2. CASE IngestCommits(i)
      <3>1. disturbed' \in BOOLEAN
        BY <2>2 DEF IngestCommits, CommitSignals, RegenQueued
      <3> QED
        BY <2>2, <3>1 DEF IngestCommits, CommitSignals, jobs
    <2>3. CASE IngestFails(i)
      BY <2>3 DEF IngestFails, jobs
    <2> QED
      BY <1>2, <2>1, <2>2, <2>3 DEF Ingest
  <1>3. ASSUME NEW g \in Regens, Regenerate(g) PROVE TypeOK'
    <2> DEFINE R == [step : {"none", "queued", "read", "committed"},
                     saw : Payloads, tries : 0..MaxRetries]
    <2>1. CASE RegenReads(g)
      <3>1. disturbed' \in BOOLEAN
        BY <2>1 DEF RegenReads, Busy
      <3>2. regen' \in [Regens -> R]
        BY <2>1 DEF RegenReads
      <3> QED
        BY <2>1, <3>1, <3>2 DEF RegenReads, jobs
    <2>2. CASE RegenCommits(g)
      BY <2>2 DEF RegenCommits, jobs
    <2>3. NoRegen \in R
      BY DEF NoRegen
    <2>4. CASE RegenCaches(g)
      BY <2>3, <2>4 DEF RegenCaches, jobs
    <2>5. ASSUME RegenEnds(g) PROVE regen' \in [Regens -> R]
      <3>1. CASE regen[g].tries < MaxRetries
        <4>1. regen[g].tries + 1 \in 0..MaxRetries
          BY <3>1
        <4>2. [step |-> "queued", saw |-> "none", tries |-> regen[g].tries + 1] \in R
          BY <4>1
        <4> QED
          BY <2>5, <3>1, <4>2 DEF RegenEnds
      <3>2. CASE ~(regen[g].tries < MaxRetries)
        BY <2>3, <2>5, <3>2 DEF RegenEnds
      <3> QED
        BY <3>1, <3>2
    <2>6. CASE RegenRaises(g)
      BY <2>5, <2>6 DEF RegenRaises, jobs
    <2>7. CASE RegenFails(g)
      <3>1. regen' \in [Regens -> R]
        BY <2>3, <2>5, <2>7 DEF RegenFails
      <3> QED
        BY <2>7, <3>1 DEF RegenFails, jobs
    <2> QED
      BY <1>3, <2>1, <2>2, <2>4, <2>6, <2>7 DEF Regenerate
  <1>4. ASSUME NEW r \in Readers, ReadPayload(r) \/ FillRedis(r) PROVE TypeOK'
    BY <1>4 DEF ReadPayload, FillRedis, jobs
  <1>5. CASE RedisExpires
    BY <1>5 DEF RedisExpires, jobs
  <1>6. CASE PipelineCommits
    <2>1. disturbed' \in BOOLEAN
      BY <1>6 DEF PipelineCommits, CommitSignals, RegenQueued
    <2> QED
      BY <1>6, <2>1 DEF PipelineCommits, CommitSignals, jobs
  <1>7. CASE UNCHANGED vars
    BY <1>7 DEF vars
  <1> QED
    BY <1>1, <1>2, <1>3, <1>4, <1>5, <1>6, <1>7 DEF Next

(* The rows, messages and caches keep their types.                          *)
THEOREM TypeCorrect == Spec => []TypeOK
  BY TypeInit, TypeStep, PTL DEF Spec

-----------------------------------------------------------------------------

LEMMA InvInit == Init => IInv
  BY TypeInit DEF Init, IInv, JobsHold, IngestedOnce

LEMMA JobsStep == IInv /\ [Next]_vars => JobsHold' /\ IngestedOnce'
  <1> SUFFICES ASSUME IInv, [Next]_vars PROVE JobsHold' /\ IngestedOnce'
    OBVIOUS
  <1>0. TypeOK /\ JobsHold /\ IngestedOnce
    BY DEF IInv
  <1> USE <1>0 DEF TypeOK, JobsHold, IngestedOnce
  <1>1. ASSUME NEW j \in Jobs, Job(j) PROVE JobsHold' /\ IngestedOnce'
    <2>1. CASE PersistEvent(j) \/ PersistSignup(j) \/ PersistCampaign(j)
      BY <2>1 DEF PersistEvent, PersistSignup, PersistCampaign, Persist, Turn
    <2>2. CASE RefuseKnown(j) \/ RefuseCampaign(j)
      BY <2>2 DEF RefuseKnown, RefuseCampaign, Refuse, Turn
    <2>3. CASE Send(j) \/ SendFails(j)
      BY <2>3 DEF Send, SendFails, Turn
    <2>4. CASE Start(j)
      BY <2>4 DEF Start, Turn
    <2>5. CASE Reconcile(j) \/ Submit(j)
      BY <2>5 DEF Reconcile, Submit, Finish, Turn
    <2>6. CASE Provision(j)
      BY <2>6 DEF Provision, Finish, Turn
    <2>7. CASE SendIngest(j)
      <3>1. /\ state[j] = "hand_over"
            /\ state' = [state EXCEPT ![j] = "send_regen"]
            /\ handed' = [handed EXCEPT ![j] = handed[j] + 1]
            /\ UNCHANGED <<kind, finished, cut, killed, retries>>
        BY <2>7 DEF SendIngest, Turn
      <3>2. kind[j] = "provisioning" => handed'[j] = 1
        BY <3>1
      <3> QED
        BY <3>1, <3>2
    <2>8. CASE HandOver(j) \/ Snapshot(j)
      BY <2>8 DEF HandOver, Snapshot, Turn
    <2>9. CASE Fail(j) \/ Redeliver(j) \/ ChildDies(j)
      <3>1. /\ \/ state' = [state EXCEPT ![j] = "queued"]
               \/ /\ state' = [state EXCEPT ![j] = "dropped"]
                  /\ j \in killed' \/ retries'[j] = MaxRetries
            /\ UNCHANGED <<kind, finished, handed>>
            /\ \A o \in Jobs \ {j} : retries'[o] = retries[o]
            /\ cut \subseteq cut' /\ killed \subseteq killed'
            /\ state[j] = "hand_over" => j \in cut'
        <4>1. retries[j] \in 0..MaxRetries
          OBVIOUS
        <4>2. CASE Fail(j)
          BY <4>1, <4>2, AgentTasksAssumption DEF Fail, Cut
        <4>3. CASE Redeliver(j) \/ ChildDies(j)
          BY <4>3 DEF Redeliver, ChildDies, Cut
        <4> QED
          BY <2>9, <4>2, <4>3
      <3> QED
        BY <3>1
    <2> QED
      BY <1>1, <2>1, <2>2, <2>3, <2>4, <2>5, <2>6, <2>7, <2>8, <2>9 DEF Job
  <1>2. CASE UNCHANGED jobs
    BY <1>2 DEF jobs
  <1> QED
    BY <1>1, <1>2 DEF Next, Ingest, IngestSends, IngestCommits, IngestFails,
       Regenerate, RegenReads, RegenCommits, RegenCaches, RegenRaises,
       RegenFails, PipelineCommits, ReadPayload, FillRedis, RedisExpires, jobs, vars

LEMMA InvAlways == Spec => []IInv
  <1>1. IInv /\ [Next]_vars => IInv'
    BY TypeStep, JobsStep DEF IInv
  <1> QED
    BY <1>1, InvInit, PTL DEF Spec

(* Whatever fails, dies and is delivered again, the work of a message that  *)
(* has left its queue is committed, or the message was given up after its   *)
(* last retry, or a killed child took it along.                             *)
THEOREM NothingLostByTasks == Spec => []AcknowledgedIsFinished
  <1>1. IInv => AcknowledgedIsFinished
    BY DEF IInv, JobsHold, AcknowledgedIsFinished
  <1> QED
    BY <1>1, InvAlways, PTL

(* A ready job has handed its ZIP over exactly once, unless its task was    *)
(* cut where it was about to.                                               *)
THEOREM HandedOverOnce == Spec => []IngestedOnce
  <1>1. IInv => IngestedOnce
    BY DEF IInv
  <1> QED
    BY <1>1, InvAlways, PTL

-----------------------------------------------------------------------------
(***************************************************************************)
(* Subscriptions, for any events, tenants, users, signals and requests.    *)
(* RowsTold says that each column of a subscription row is what some       *)
(* applied event said, even when the row was torn; AlertsOnce says that a  *)
(* user has one alert at most and was shown nothing without one, which is  *)
(* what lets a claim read the table before it writes to it.                *)
(***************************************************************************)

Alerts == [user : Users, signal : Signals, shown : BOOLEAN]

BillingTypes ==
    /\ content \in [Events -> [tenant : Tenants, sub : Subs]]
    /\ running \subseteq Events
    /\ read \in [Events -> Subs \cup {NoSub}]
    /\ sub \in [Tenants -> Subs \cup {NoSub}]
    /\ applied \in [Tenants -> SUBSET Subs]
    /\ claimed \in [Signals -> Users \cup {Nobody}]
    /\ alerts \subseteq Alerts
    /\ second \in [Users -> BOOLEAN]
    /\ request \in [Requests ->
          [step : {"idle", "checked", "claiming", "showing"},
           user : Users \cup {Nobody}, signal : Signals \cup {Nobody},
           to : SUBSET Users]]

(* what the events of the user's tenant have said makes a priority plan *)
Told(t) ==
    /\ \E x \in applied[t] : x.plan = "priority"
    /\ \E x \in applied[t] : x.status = "active"

(* rows are never deleted, and each column was said by an applied event *)
RowsTold ==
    /\ \A t \in Tenants : sub[t] # NoSub =>
          /\ \E x \in applied[t] : x.plan = sub[t].plan
          /\ \E x \in applied[t] : x.status = sub[t].status
    /\ \A e \in Events : read[e] # NoSub => sub[content[e].tenant] # NoSub

(* what the steps of a request rely on *)
RequestsHold ==
    \A r \in Requests :
        /\ request[r].step \in {"checked", "claiming"} =>
              request[r].user \in Users /\ request[r].signal \in Signals
        /\ request[r].step = "claiming" => Told(TenantOf[request[r].user])
        /\ request[r].step = "showing" =>
              /\ request[r].user \in Users
              /\ \E a \in alerts : a.user = request[r].user

AlertsOnce ==
    /\ \A a, b \in alerts : a.user = b.user => a = b
    /\ \A u \in Users : second[u] => \E a \in alerts : a.user = u

BillingInv ==
    /\ BillingTypes
    /\ RowsTold
    /\ RequestsHold
    /\ AlertsOnce
    /\ ClaimsBacked
    /\ AlertsConsumable

-----------------------------------------------------------------------------

LEMMA BillingTypeInit == BillingInit => BillingTypes
  BY DEF BillingInit, BillingTypes, NoRequest

(* whichever columns a task writes, the row keeps its type *)
LEMMA WrittenIsASub ==
  ASSUME BillingTypes, RowsTold, NEW e \in Events
  PROVE  Written(e) \in Subs
  <1>1. CASE read[e] = NoSub
    BY <1>1 DEF Written, BillingTypes
  <1>2. CASE read[e] # NoSub
    <2>1. sub[content[e].tenant] \in Subs
      BY <1>2 DEF RowsTold, BillingTypes
    <2>2. content[e].sub \in Subs
      BY DEF BillingTypes
    <2> QED
      BY <1>2, <2>1, <2>2 DEF Written, Subs
  <1> QED
    BY <1>1, <1>2

(* the columns of the written row are those of the event or of the row *)
LEMMA WrittenIsTold ==
  ASSUME BillingTypes, RowsTold, NEW e \in Events, ~InsertConflicts(e)
  PROVE  /\ Written(e).plan \in {content[e].sub.plan, sub[content[e].tenant].plan}
         /\ Written(e).status \in {content[e].sub.status, sub[content[e].tenant].status}
  BY DEF Written

LEMMA BillingTypeStep ==
  BillingTypes /\ RowsTold /\ RequestsHold /\ [BillingNext]_billingVars =>
    BillingTypes'
  <1> SUFFICES ASSUME BillingTypes, RowsTold, RequestsHold,
                      [BillingNext]_billingVars
               PROVE  BillingTypes'
    OBVIOUS
  <1>1. ASSUME NEW e \in Events, Load(e) PROVE BillingTypes'
    BY <1>1 DEF Load, rows, claims, BillingTypes
  <1>2. ASSUME NEW e \in Events, SyncSubscription(e) PROVE BillingTypes'
    <2>1. Written(e) \in Subs
      BY WrittenIsASub
    <2> QED
      BY <1>2, <2>1 DEF SyncSubscription, End, claims, BillingTypes
  <1>3. ASSUME NEW e \in Events, ReconcileFails(e) PROVE BillingTypes'
    BY <1>3 DEF ReconcileFails, End, rows, claims, BillingTypes
  <1> USE DEF BillingTypes
  <1>4. ASSUME NEW r \in Requests, NEW u \in Users, NEW s \in Signals, Check(r, u, s)
        PROVE  BillingTypes'
    BY <1>4 DEF Check, rows
  <1>5. ASSUME NEW r \in Requests, Select(r) PROVE BillingTypes'
    BY <1>5 DEF Select, rows, NoRequest
  <1>6. ASSUME NEW r \in Requests, Claim(r) PROVE BillingTypes'
    <2>1. request[r].user \in Users /\ request[r].signal \in Signals
      BY <1>6 DEF Claim, RequestsHold
    <2>2. request[r].to \subseteq Users
      OBVIOUS
    <2>3. ASSUME NEW a \in Alert(r) PROVE a \in Alerts
      <3>1. PICK u \in request[r].to :
               a = [user |-> u, signal |-> request[r].signal, shown |-> FALSE]
        BY DEF Alert
      <3> QED
        BY <2>1, <2>2, <3>1 DEF Alerts
    <2>4. Alert(r) \subseteq Alerts
      BY <2>3
    <2> QED
      BY <1>6, <2>1, <2>4 DEF Claim, rows, NoRequest
  <1>7. ASSUME NEW r \in Requests, NEW u \in Users, Look(r, u) PROVE BillingTypes'
    BY <1>7 DEF Look, rows
  <1>8. ASSUME NEW r \in Requests, Show(r) PROVE BillingTypes'
    <2>1. PICK a \in alerts :
             alerts' = (alerts \ {a}) \cup {[a EXCEPT !.shown = TRUE]}
      BY <1>8 DEF Show
    <2>2. [a EXCEPT !.shown = TRUE] \in Alerts
      BY <2>1 DEF Alerts
    <2>3. request[r].user \in Users
      BY <1>8 DEF Show, RequestsHold
    <2> QED
      BY <1>8, <2>1, <2>2, <2>3 DEF Show, rows, NoRequest
  <1>9. ASSUME NEW r \in Requests, Abandon(r) PROVE BillingTypes'
    BY <1>9 DEF Abandon, rows, NoRequest
  <1>10. CASE UNCHANGED billingVars
    BY <1>10 DEF billingVars
  <1> QED
    BY <1>1, <1>2, <1>3, <1>4, <1>5, <1>6, <1>7, <1>8, <1>9, <1>10
    DEF BillingNext, Sync, Serve

-----------------------------------------------------------------------------

LEMMA BillingInvInit == BillingInit => BillingInv
  <1> SUFFICES ASSUME BillingInit PROVE BillingInv
    OBVIOUS
  <1>1. BillingTypes
    BY BillingTypeInit
  <1>2. \A t \in Tenants : sub[t] # NoSub => sub[t] \in applied[t]
    BY <1>1 DEF BillingInit, BillingTypes
  <1>3. RowsTold
    BY <1>2 DEF BillingInit, RowsTold
  <1> QED
    BY <1>1, <1>3 DEF BillingInit, BillingInv, RequestsHold, AlertsOnce,
       ClaimsBacked,
       AlertsConsumable, NoRequest

(* what Stripe has said is never unsaid *)
LEMMA ToldStays ==
  ASSUME BillingTypes, RowsTold, [BillingNext]_billingVars, NEW t \in Tenants
  PROVE  applied[t] \subseteq applied'[t]
  <1>1. ASSUME NEW e \in Events, Sync(e) PROVE applied[t] \subseteq applied'[t]
    BY <1>1 DEF Sync, Load, SyncSubscription, ReconcileFails, rows, BillingTypes
  <1>2. ASSUME NEW r \in Requests, Serve(r) PROVE applied' = applied
    BY <1>2 DEF Serve, Check, Select, Claim, Look, Show, Abandon, rows
  <1>3. CASE UNCHANGED billingVars
    BY <1>3 DEF billingVars
  <1> QED
    BY <1>1, <1>2, <1>3 DEF BillingNext

LEMMA RowsStep == BillingTypes /\ RowsTold /\ [BillingNext]_billingVars => RowsTold'
  <1> SUFFICES ASSUME BillingTypes, RowsTold, [BillingNext]_billingVars PROVE RowsTold'
    OBVIOUS
  <1>1. ASSUME NEW e \in Events, Load(e) PROVE RowsTold'
    BY <1>1 DEF Load, rows, RowsTold, BillingTypes
  <1>2. ASSUME NEW e \in Events, SyncSubscription(e) PROVE RowsTold'
    <2> DEFINE t == content[e].tenant
    <2>1. /\ t \in Tenants /\ content' = content
          /\ content[e].sub \in applied'[t]
          /\ applied[t] \subseteq applied'[t]
      BY <1>2, ToldStays DEF SyncSubscription, BillingTypes
    <2>2. sub'[t] = Written(e) /\ \A o \in Tenants \ {t} :
             sub'[o] = sub[o] /\ applied'[o] = applied[o]
      BY <1>2 DEF SyncSubscription, BillingTypes
    <2>3. Written(e) # NoSub
      <3>1. Written(e).plan \in Plans
        BY WrittenIsASub DEF Subs
      <3> QED
        BY <3>1 DEF NoSub, Plans
    <2>4. \A f \in Events : read'[f] # NoSub => read'[f] = read[f]
      BY <1>2 DEF SyncSubscription, End, BillingTypes
    <2>5. sub[t] = NoSub => Written(e) = content[e].sub
      BY DEF RowsTold, Written
    <2>6. /\ \E x \in applied'[t] : x.plan = Written(e).plan
          /\ \E x \in applied'[t] : x.status = Written(e).status
      BY <1>2, <2>1, <2>5, WrittenIsTold DEF SyncSubscription, RowsTold
    <2>7. \A f \in Events : read'[f] # NoSub => sub'[content'[f].tenant] # NoSub
      BY <2>1, <2>2, <2>3, <2>4 DEF RowsTold, BillingTypes
    <2> QED
      BY <2>2, <2>6, <2>7 DEF RowsTold
  <1>3. ASSUME NEW e \in Events, ReconcileFails(e) PROVE RowsTold'
    BY <1>3 DEF ReconcileFails, End, rows, RowsTold, BillingTypes
  <1>4. ASSUME NEW r \in Requests, Serve(r) PROVE RowsTold'
    BY <1>4 DEF Serve, Check, Select, Claim, Look, Show, Abandon, rows, RowsTold
  <1>5. CASE UNCHANGED billingVars
    BY <1>5 DEF billingVars, RowsTold
  <1> QED
    BY <1>1, <1>2, <1>3, <1>4, <1>5 DEF BillingNext, Sync

LEMMA PriorityIsTold ==
  ASSUME BillingTypes, RowsTold, NEW u \in Users, HasPriorityPlan(u)
  PROVE  Told(TenantOf[u])
  <1>1. TenantOf[u] \in Tenants
    BY SubscriptionsAssumption
  <1>2. /\ sub[TenantOf[u]].plan = "priority"
        /\ sub[TenantOf[u]].status = "active"
    BY DEF HasPriorityPlan
  <1>3. sub[TenantOf[u]] # NoSub
    BY <1>2 DEF NoSub
  <1> QED
    BY <1>1, <1>2, <1>3 DEF RowsTold, Told

LEMMA RequestsStep == BillingInv /\ [BillingNext]_billingVars => RequestsHold'
  <1> SUFFICES ASSUME BillingInv, [BillingNext]_billingVars PROVE RequestsHold'
    OBVIOUS
  <1>0. BillingTypes /\ RowsTold /\ RequestsHold
    BY DEF BillingInv
  <1> DEFINE StillTold(t) == /\ \E x \in applied'[t] : x.plan = "priority"
                             /\ \E x \in applied'[t] : x.status = "active"
  <1>a. \A u \in Users : Told(TenantOf[u]) => StillTold(TenantOf[u])
    BY <1>0, ToldStays, SubscriptionsAssumption DEF Told
  <1>b. \A a \in alerts : \E b \in alerts' : b.user = a.user
    <2>1. ASSUME NEW r \in Requests, Show(r)
          PROVE  \A a \in alerts : \E b \in alerts' : b.user = a.user
      <3>1. PICK x \in alerts :
               alerts' = (alerts \ {x}) \cup {[x EXCEPT !.shown = TRUE]}
        BY <2>1 DEF Show
      <3>2. [x EXCEPT !.shown = TRUE].user = x.user
        BY <1>0 DEF BillingTypes, Alerts
      <3> QED
        BY <3>1, <3>2
    <2>2. ASSUME NEW r \in Requests, Claim(r)
          PROVE  \A a \in alerts : \E b \in alerts' : b.user = a.user
      BY <2>2 DEF Claim
    <2>3. ASSUME NEW e \in Events, Sync(e) PROVE alerts' = alerts
      BY <2>3 DEF Sync, Load, SyncSubscription, ReconcileFails, claims
    <2> QED
      BY <2>1, <2>2, <2>3 DEF BillingNext, Serve, Check, Select, Look, Abandon,
         billingVars
  <1> DEFINE Holds(q) ==
        /\ q.step \in {"checked", "claiming"} => q.user \in Users /\ q.signal \in Signals
        /\ q.step = "claiming" => StillTold(TenantOf[q.user])
        /\ q.step = "showing" => /\ q.user \in Users
                                 /\ \E a \in alerts' : a.user = q.user
  <1>c. ASSUME NEW r \in Requests PROVE Holds(request[r])
    BY <1>0, <1>a, <1>b DEF RequestsHold
  <1>d. Holds(NoRequest)
    BY DEF NoRequest
  <1>e. SUFFICES ASSUME NEW r \in Requests PROVE Holds(request'[r])
    BY DEF RequestsHold, Told
  <1> HIDE DEF Holds, StillTold
  <1>1. ASSUME NEW p \in Requests, NEW u \in Users, NEW s \in Signals, Check(p, u, s)
        PROVE  Holds(request'[r])
    BY <1>0, <1>1, <1>c DEF Check, Holds, BillingTypes
  <1>2. ASSUME NEW p \in Requests, Select(p) PROVE Holds(request'[r])
    <2>1. request[p].user \in Users /\ request[p].signal \in Signals
      BY <1>0, <1>2 DEF Select, RequestsHold
    <2>2. CASE HasPriorityPlan(request[p].user)
      <3>1. StillTold(TenantOf[request[p].user])
        BY <1>0, <1>a, <2>1, <2>2, PriorityIsTold
      <3>2. /\ request'[p].step = "claiming"
            /\ request'[p].user = request[p].user
            /\ request'[p].signal = request[p].signal
            /\ r # p => request'[r] = request[r]
        BY <1>0, <1>2, <2>2 DEF Select, BillingTypes
      <3>3. request'[r] = request[r] \/ r = p
        BY <3>2
      <3> QED
        BY <1>c, <2>1, <3>1, <3>2, <3>3 DEF Holds
    <2>3. CASE ~HasPriorityPlan(request[p].user)
      BY <1>0, <1>2, <1>c, <1>d, <2>3 DEF Select, BillingTypes
    <2> QED
      BY <2>2, <2>3
  <1>3. ASSUME NEW p \in Requests, Claim(p) \/ Show(p) \/ Abandon(p)
        PROVE  Holds(request'[r])
    <2>1. request' = [request EXCEPT ![p] = NoRequest]
      BY <1>3 DEF Claim, Show, Abandon
    <2>2. request'[r] \in {NoRequest, request[r]}
      BY <1>0, <2>1 DEF BillingTypes
    <2> QED
      BY <1>c, <1>d, <2>2
  <1>4. ASSUME NEW p \in Requests, NEW u \in Users, Look(p, u) PROVE Holds(request'[r])
    <2>1. \E a \in alerts' : a.user = u
      BY <1>4 DEF Look, Due
    <2>2. \/ request'[r] = request[r]
          \/ request'[r] = [step |-> "showing", user |-> u, signal |-> Nobody, to |-> {}]
      BY <1>0, <1>4 DEF Look, BillingTypes
    <2>3. Holds([step |-> "showing", user |-> u, signal |-> Nobody, to |-> {}])
      BY <2>1 DEF Holds
    <2> QED
      BY <1>c, <2>2, <2>3
  <1>5. CASE UNCHANGED request
    BY <1>5, <1>c
  <1> QED
    BY <1>1, <1>2, <1>3, <1>4, <1>5
    DEF BillingNext, Sync, Load, SyncSubscription,
       ReconcileFails, claims, Serve,
        billingVars

(* AlertsOnce and AlertsConsumable together: a claim writes only alerts of  *)
(* users without one, who thus were shown nothing                           *)
LEMMA AlertsStep ==
  BillingInv /\ [BillingNext]_billingVars => AlertsOnce' /\ AlertsConsumable'
  <1> SUFFICES ASSUME BillingInv, [BillingNext]_billingVars
               PROVE  AlertsOnce' /\ AlertsConsumable'
    OBVIOUS
  <1>0. BillingTypes /\ RequestsHold /\ AlertsOnce /\ AlertsConsumable
    BY DEF BillingInv
  <1>1. ASSUME NEW r \in Requests, Claim(r) PROVE AlertsOnce' /\ AlertsConsumable'
    <2>0. /\ request[r].user \in Users /\ request[r].signal \in Signals
          /\ request[r].to \subseteq Users
          /\ second' = second
      BY <1>0, <1>1 DEF Claim, RequestsHold, BillingTypes
    <2>1. CASE AlertConflicts(r)
      BY <1>0, <1>1, <2>0, <2>1 DEF Claim, AlertsOnce, AlertsConsumable
    <2>2. CASE ~AlertConflicts(r)
      <3>1. /\ alerts' = alerts \cup Alert(r)
            /\ claimed' = [claimed EXCEPT ![request[r].signal] = request[r].user]
        BY <1>1, <2>2 DEF Claim
      <3>2. \A a \in Alert(r) : /\ a.user \in request[r].to
                                /\ a.signal = request[r].signal
                                /\ a.shown = FALSE
        BY DEF Alert
      <3>3. ASSUME NEW a \in Alert(r), NEW b \in Alert(r), a.user = b.user
            PROVE  a = b
        <4>1. PICK u \in request[r].to :
                 a = [user |-> u, signal |-> request[r].signal, shown |-> FALSE]
          BY DEF Alert
        <4>2. PICK v \in request[r].to :
                 b = [user |-> v, signal |-> request[r].signal, shown |-> FALSE]
          BY DEF Alert
        <4> QED
          BY <3>3, <4>1, <4>2
      <3>4. \A a \in alerts, b \in Alert(r) : a.user # b.user
        BY <2>2, <3>2 DEF AlertConflicts
      <3>5. \A b \in Alert(r) : second[b.user] = FALSE
        BY <1>0, <2>0, <2>2, <3>2 DEF AlertConflicts, AlertsOnce, BillingTypes
      <3>6. claimed'[request[r].signal] # Nobody
        BY <1>0, <2>0, <3>1, SubscriptionsAssumption DEF BillingTypes
      <3>7. \A s \in Signals : claimed[s] # Nobody => claimed'[s] # Nobody
        BY <1>0, <2>0, <3>1, <3>6 DEF BillingTypes
      <3>8. \A a \in alerts : a.signal \in Signals
        BY <1>0 DEF BillingTypes, Alerts
      <3>9. AlertsOnce'
        BY <1>0, <2>0, <3>1, <3>3, <3>4 DEF AlertsOnce
      <3>10. AlertsConsumable'
        BY <1>0, <2>0, <3>1, <3>2, <3>5, <3>6, <3>7, <3>8 DEF AlertsConsumable
      <3> QED
        BY <3>9, <3>10
    <2> QED
      BY <2>1, <2>2
  <1>2. ASSUME NEW r \in Requests, Show(r) PROVE AlertsOnce' /\ AlertsConsumable'
    <2>1. PICK a \in alerts :
             /\ a.user = request[r].user
             /\ alerts' = (alerts \ {a}) \cup {[a EXCEPT !.shown = TRUE]}
      BY <1>2 DEF Show
    <2> DEFINE b == [a EXCEPT !.shown = TRUE]
    <2>2. b.user = a.user /\ b.signal = a.signal /\ b.shown = TRUE
      BY <1>0 DEF BillingTypes, Alerts
    <2>3. alerts' = (alerts \ {a}) \cup {b}
      BY <2>1
    <2>4. \A x \in alerts \ {a} : x.user # a.user
      BY <1>0 DEF AlertsOnce
    <2>5. /\ second'[a.user] = TRUE
          /\ \A u \in Users : u # a.user => second'[u] = second[u]
          /\ claimed' = claimed
      BY <1>0, <1>2, <2>1 DEF Show, BillingTypes, Alerts
    <2>6. \A x \in alerts : x.user \in Users
      BY <1>0 DEF BillingTypes, Alerts
    <2> HIDE DEF b
    <2>7. AlertsOnce'
      <3>1. \A x, y \in alerts' : x.user = y.user => x = y
        BY <1>0, <2>2, <2>3, <2>4 DEF AlertsOnce
      <3>2. ASSUME NEW u \in Users, second'[u] PROVE \E x \in alerts' : x.user = u
        <4>1. CASE u = a.user
          BY <2>2, <2>3, <4>1
        <4>2. CASE u # a.user
          <5>1. PICK x \in alerts : x.user = u
            BY <1>0, <2>5, <3>2, <4>2 DEF AlertsOnce
          <5> QED
            BY <2>3, <4>2, <5>1
        <4> QED
          BY <4>1, <4>2
      <3> QED
        BY <3>1, <3>2 DEF AlertsOnce
    <2>8. AlertsConsumable'
      BY <1>0, <2>2, <2>3, <2>4, <2>5, <2>6 DEF AlertsConsumable
    <2> QED
      BY <2>7, <2>8
  <1>3. CASE UNCHANGED <<alerts, second, claimed>>
    BY <1>0, <1>3 DEF AlertsOnce, AlertsConsumable
  <1> QED
    BY <1>1, <1>2, <1>3 DEF BillingNext, Sync, Load, SyncSubscription,
       ReconcileFails, claims, Serve,
       Check, Select, Look, Abandon,
         billingVars

LEMMA ClaimsStep == BillingInv /\ [BillingNext]_billingVars => ClaimsBacked'
  <1> SUFFICES ASSUME BillingInv, [BillingNext]_billingVars PROVE ClaimsBacked'
    OBVIOUS
  <1>0. BillingTypes /\ RowsTold /\ RequestsHold /\ ClaimsBacked
    BY DEF BillingInv
  <1>1. \A t \in Tenants : applied[t] \subseteq applied'[t]
    BY <1>0, ToldStays
  <1> SUFFICES ASSUME NEW s \in Signals, claimed'[s] # Nobody
               PROVE  /\ \E x \in applied'[TenantOf[claimed'[s]]] : x.plan = "priority"
                      /\ \E x \in applied'[TenantOf[claimed'[s]]] : x.status = "active"
    BY DEF ClaimsBacked
  <1>2. \/ claimed'[s] = claimed[s]
        \/ \E r \in Requests : /\ request[r].step = "claiming"
                               /\ claimed'[s] = request[r].user
    <2>1. ASSUME NEW r \in Requests, Claim(r)
          PROVE  claimed'[s] \in {claimed[s], request[r].user}
      BY <1>0, <2>1 DEF Claim, BillingTypes
    <2>2. ASSUME NEW r \in Requests, Claim(r) PROVE request[r].step = "claiming"
      BY <2>2 DEF Claim
    <2>3. claimed' = claimed \/ \E r \in Requests : Claim(r)
      BY DEF BillingNext, Sync, Load, SyncSubscription,
       ReconcileFails, claims, Serve, Check, Select,
         Look, Show, Abandon, billingVars
    <2> QED
      BY <2>1, <2>2, <2>3
  <1>3. CASE claimed'[s] = claimed[s]
    <2>1. TenantOf[claimed[s]] \in Tenants
      BY <1>0, <1>3, SubscriptionsAssumption DEF BillingTypes
    <2> QED
      BY <1>0, <1>1, <1>3, <2>1 DEF ClaimsBacked
  <1>4. ASSUME NEW r \in Requests, request[r].step = "claiming",
               claimed'[s] = request[r].user
        PROVE  /\ \E x \in applied'[TenantOf[claimed'[s]]] : x.plan = "priority"
               /\ \E x \in applied'[TenantOf[claimed'[s]]] : x.status = "active"
    <2>1. request[r].user \in Users /\ Told(TenantOf[request[r].user])
      BY <1>0, <1>4 DEF RequestsHold
    <2>2. TenantOf[request[r].user] \in Tenants
      BY <2>1, SubscriptionsAssumption
    <2> QED
      BY <1>1, <1>4, <2>1, <2>2 DEF Told
  <1> QED
    BY <1>2, <1>3, <1>4

LEMMA BillingAlways == BillingSpec => []BillingInv
  <1>1. BillingInv /\ [BillingNext]_billingVars => BillingInv'
    BY BillingTypeStep, RowsStep, RequestsStep, AlertsStep, ClaimsStep DEF BillingInv
  <1> QED
    BY <1>1, BillingInvInit, PTL DEF BillingSpec

(* Whoever holds a claim belongs to a tenant that Stripe told to be on a    *)
(* priority plan and to be active, whatever events, replays and claims      *)
(* overlap, torn rows included.                                             *)
THEOREM ClaimsArePaidFor == BillingSpec => []ClaimsBacked
  <1>1. BillingInv => ClaimsBacked
    BY DEF BillingInv
  <1> QED
    BY <1>1, BillingAlways, PTL

(* No second-place alert is stranded, although a claim selects the users to *)
(* alert before it writes, and requests that show an alert overlap.         *)
THEOREM AlertsAreShown == BillingSpec => []AlertsConsumable
  <1>1. BillingInv => AlertsConsumable
    BY DEF BillingInv
  <1> QED
    BY <1>1, BillingAlways, PTL

=============================================================================
