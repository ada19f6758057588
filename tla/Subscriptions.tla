---------------------------- MODULE Subscriptions ----------------------------
(***************************************************************************)
(* The subscription rows that Stripe events write and the signal claims    *)
(* that those rows decide: reconcile_stripe_event, claim_signal_for_user   *)
(* (POST /signals/{id}/view and /claim) and consume_second_place_alert.    *)
(* The task of an event may run early, late, again or never (module        *)
(* AgentTasks has the way of its message).  PostgreSQL runs at READ        *)
(* COMMITTED and SQLAlchemy writes, at the commit, the columns of a row    *)
(* that differ from what the session had read: a row is torn when two      *)
(* tasks write different columns of it.  A tenant has one Stripe           *)
(* subscription.  Plans other than flexible claim alike and are "priority".*)
(* The entitlements that are also cached have no reader in the program.    *)
(***************************************************************************)
CONSTANTS
    Events,       \* the events whose rows are committed
    Tenants,
    Users,
    TenantOf,     \* the tenant of each user
    Signals,
    Requests      \* requests that may overlap

Plans == {"flexible", "priority"}
Statuses == {"active", "canceled"}
Subs == [plan : Plans, status : Statuses]
NoSub == [plan |-> "none", status |-> "none"]
Nobody == "nobody"

ASSUME SubscriptionsAssumption ==
    /\ TenantOf \in [Users -> Tenants]
    /\ Nobody \notin Users

VARIABLES
    content,      \* what each event says: a tenant, a plan, a status
    running,      \* the events whose task has loaded its rows
    read,         \* the subscription row that it loaded
    sub,          \* subscriptions
    applied,      \* history: what reconciled events have said, per tenant
    claimed,      \* signals.claimed_by_user_id
    alerts,       \* second_place_alerts
    second,       \* users.second_place_shown
    request       \* the requests under way

billingVars == <<content, running, read, sub, applied, claimed, alerts,
                 second, request>>

NoRequest == [step |-> "idle", user |-> Nobody, signal |-> Nobody, to |-> {}]

BillingInit ==
    /\ content \in [Events -> [tenant : Tenants, sub : Subs]]
    /\ running = {}
    /\ read = [e \in Events |-> NoSub]
    /\ sub \in [Tenants -> Subs \cup {NoSub}]
    /\ applied = [t \in Tenants |-> {sub[t]} \ {NoSub}]
    /\ claimed = [s \in Signals |-> Nobody]
    /\ alerts = {}
    /\ second = [u \in Users |-> FALSE]
    /\ request = [r \in Requests |-> NoRequest]

claims == <<claimed, alerts, second, request>>
rows == <<sub, applied>>

-----------------------------------------------------------------------------
(* reconcile_stripe_event *)

Load(e) ==
    /\ e \notin running
    /\ running' = running \cup {e}
    /\ read' = [read EXCEPT ![e] = sub[content[e].tenant]]
    /\ UNCHANGED <<content, rows, claims>>

(* what the row holds after the commit *)
Written(e) ==
    LET row == sub[content[e].tenant]
        new == content[e].sub
    IN IF read[e] = NoSub THEN new
       ELSE [plan   |-> IF new.plan # read[e].plan THEN new.plan ELSE row.plan,
             status |-> IF new.status # read[e].status THEN new.status ELSE row.status]

(* an INSERT that finds the row fails on the unique stripe_subscription_id *)
InsertConflicts(e) == read[e] = NoSub /\ sub[content[e].tenant] # NoSub

End(e) ==
    /\ e \in running
    /\ running' = running \ {e}
    /\ read' = [read EXCEPT ![e] = NoSub]

SyncSubscription(e) ==
    /\ End(e)
    /\ ~InsertConflicts(e)
    /\ sub' = [sub EXCEPT ![content[e].tenant] = Written(e)]
    /\ applied' = [applied EXCEPT ![content[e].tenant] = @ \cup {content[e].sub}]
    /\ UNCHANGED <<content, claims>>

(* An exception, that of a conflicting INSERT included, rolls back; Celery  *)
(* runs the task again, up to five times.                                   *)
ReconcileFails(e) ==
    /\ End(e)
    /\ UNCHANGED <<content, rows, claims>>

-----------------------------------------------------------------------------
(* claim_signal_for_user *)

(* A signal that is claimed already is answered at once. *)
Check(r, u, s) ==
    /\ request[r] = NoRequest
    /\ claimed[s] = Nobody
    /\ request' = [request EXCEPT ![r] =
                      [step |-> "checked", user |-> u, signal |-> s, to |-> {}]]
    /\ UNCHANGED <<content, running, read, rows, claimed, alerts, second>>

(* variant: any subscription will do *)
HasAnyPlan(u) == sub[TenantOf[u]].plan = "priority"

HasPriorityPlan(u) == sub[TenantOf[u]] = [plan |-> "priority", status |-> "active"]

Alertable(u) ==
    /\ sub[TenantOf[u]] = [plan |-> "flexible", status |-> "active"]
    /\ ~second[u]
    /\ \A a \in alerts : a.user # u

(* without a priority plan only the audit row is committed *)
Select(r) ==
    /\ request[r].step = "checked"
    /\ LET claimer == request[r].user
       IN request' = [request EXCEPT ![r] =
            IF HasPriorityPlan(claimer)
            THEN [step |-> "claiming", user |-> claimer, signal |-> request[r].signal,
                  to |-> {u \in Users \ {claimer} : Alertable(u)}]
            ELSE NoRequest]
    /\ UNCHANGED <<content, running, read, rows, claimed, alerts, second>>

Alert(r) == {[user |-> u, signal |-> request[r].signal, shown |-> FALSE] :
                 u \in request[r].to}

(* uq_second_place_alert_user_once *)
AlertConflicts(r) == \E a \in alerts : a.user \in request[r].to

(* variant: no unique index on second_place_alerts.user_id *)
ClaimUnindexed(r) ==
    /\ request[r].step = "claiming"
    /\ claimed' = [claimed EXCEPT ![request[r].signal] = request[r].user]
    /\ alerts' = alerts \cup Alert(r)
    /\ request' = [request EXCEPT ![r] = NoRequest]
    /\ UNCHANGED <<content, running, read, rows, second>>

(* One transaction; it takes the signal from whoever committed first, unless *)
(* a second alert for some user makes it fail as a whole.                    *)
Claim(r) ==
    /\ request[r].step = "claiming"
    /\ IF AlertConflicts(r)
       THEN UNCHANGED <<claimed, alerts>>
       ELSE /\ claimed' = [claimed EXCEPT ![request[r].signal] = request[r].user]
            /\ alerts' = alerts \cup Alert(r)
    /\ request' = [request EXCEPT ![r] = NoRequest]
    /\ UNCHANGED <<content, running, read, rows, second>>

-----------------------------------------------------------------------------
(* consume_second_place_alert *)

Due(u) == {a \in alerts : a.user = u /\ ~a.shown}

Look(r, u) ==
    /\ request[r] = NoRequest
    /\ ~second[u]
    /\ Due(u) # {}
    /\ request' = [request EXCEPT ![r] =
                      [step |-> "showing", user |-> u, signal |-> Nobody, to |-> {}]]
    /\ UNCHANGED <<content, running, read, rows, claimed, alerts, second>>

(* requests that overlap show the same alert, and write the same *)
Show(r) ==
    /\ request[r].step = "showing"
    /\ \E a \in alerts :
         /\ a.user = request[r].user
         /\ alerts' = (alerts \ {a}) \cup {[a EXCEPT !.shown = TRUE]}
    /\ second' = [second EXCEPT ![request[r].user] = TRUE]
    /\ request' = [request EXCEPT ![r] = NoRequest]
    /\ UNCHANGED <<content, running, read, rows, claimed>>

(* the request fails, or its process dies, before the commit *)
Abandon(r) ==
    /\ request[r] # NoRequest
    /\ request' = [request EXCEPT ![r] = NoRequest]
    /\ UNCHANGED <<content, running, read, rows, claimed, alerts, second>>

-----------------------------------------------------------------------------

Sync(e) == Load(e) \/ SyncSubscription(e) \/ ReconcileFails(e)

Serve(r) ==
    \/ \E u \in Users : Look(r, u) \/ \E s \in Signals : Check(r, u, s)
    \/ Select(r) \/ Claim(r) \/ Show(r) \/ Abandon(r)

BillingNext == (\E e \in Events : Sync(e)) \/ (\E r \in Requests : Serve(r))

BillingSpec == BillingInit /\ [][BillingNext]_billingVars

-----------------------------------------------------------------------------
(***************************************************************************)
(* Properties.                                                             *)
(***************************************************************************)

(* Who holds a claim belongs to a tenant that Stripe once told to be on a   *)
(* priority plan and once told to be active, whatever tasks and claims      *)
(* interleave.  The two need not be one event: tasks that load the row      *)
(* together each write what they change (sync_subscription_from_stripe_     *)
(* event), and replayed events overwrite newer ones.                        *)
ClaimsBacked ==
    \A s \in Signals : claimed[s] # Nobody =>
        LET told == applied[TenantOf[claimed[s]]]
        IN /\ \E x \in told : x.plan = "priority"
           /\ \E x \in told : x.status = "active"

(* No second-place alert is stranded: a user who was shown one has no other *)
(* alert waiting that consume_second_place_alert would never show, and each *)
(* alert is about a signal that somebody claimed.                           *)
AlertsConsumable ==
    \A a \in alerts : /\ second[a.user] = a.shown
                      /\ claimed[a.signal] # Nobody

=============================================================================
