----------------------------- MODULE MCAgentSide -----------------------------
(* AgentTasks and Subscriptions have no variable in common, and no action   *)
(* of one reads the other's: what holds of a state of one holds of it       *)
(* beside any state of the other.  A behaviour therefore goes through one   *)
(* of them, while the other rests at an initial state.                      *)
(* Two agents of one tenant, who may race for a signal, and one of another. *)
EXTENDS MCAgentTasks, Subscriptions

CONSTANTS j1, j2, i1, i2, g1, t1, t2, u1, u2, u3, e1, e2, r1, r2

TeamOf == [u \in {u1, u2, u3} |-> IF u = u3 THEN t2 ELSE t1]

Same(a, b) == a :> a @@ b :> b
Swap(a, b) == a :> b @@ b :> a

(* two pairs, one of either module, swapped together or not at all: one of  *)
(* the two is at rest                                                       *)
Either(a, b, c, d) == {Same(a, b) @@ Same(c, d), Swap(a, b) @@ Swap(c, d)}

Alike == {p @@ q @@ r : p \in Either(j1, j2, u1, u2),
                        q \in Either(i1, i2, e1, e2),
                        r \in {Same(r1, r2), Swap(r1, r2)}}

TasksRest == Init /\ kind = [j \in Jobs |-> "event"]

BillingRests ==
    /\ BillingInit
    /\ sub = [t \in Tenants |-> NoSub]
    /\ content = [e \in Events |-> [tenant |-> t1,
                     sub |-> [plan |-> "priority", status |-> "active"]]]

AgentSideInit == (Init /\ BillingRests) \/ (BillingInit /\ TasksRest)

AgentSideNext ==
    \/ BillingRests /\ Next /\ UNCHANGED billingVars
    \/ TasksRest /\ BillingNext /\ UNCHANGED vars

AgentSide == AgentSideInit /\ [][AgentSideNext]_<<vars, billingVars>>

=============================================================================
