------------------------------- MODULE Signup -------------------------------
(***************************************************************************)
(* Aviation sign-up.  POST /auth/register commits a signup_queue row and   *)
(* pushes its id on the Redis list queue:signup; the Celery task           *)
(* process_signup_queue, started every 5 seconds, pops ids and makes the   *)
(* accounts (process_signup_queue_item): the user row is flushed first,    *)
(* which takes the unique index on the email, two Stripe calls follow      *)
(* inside the open transaction, and one commit makes user, tenant,         *)
(* membership, profile and the processed status visible together.          *)
(* The id was popped before the work: nothing retries a task that failed.  *)
(***************************************************************************)
EXTENDS Naturals, Sequences

CONSTANTS
    Items,       \* registrations; a user who registers again is another one
    Emails,
    Workers,     \* concurrent runs of process_signup_queue
    NoItem       \* no registration

ASSUME SignupAssumption == NoItem \notin Items

VARIABLES
    email,       \* the email each registration gives
    api,         \* where POST /auth/register is, or its answer
    queue,       \* queue:signup, its head is popped next
    work,        \* the tasks: step and registration
    status,      \* the status of the signup_queue row
    customers,   \* registrations with a Stripe customer
    intents,     \* registrations with a Stripe payment intent
    accounts,    \* registrations whose account is committed, with an active profile
    taken,       \* emails of users committed by the other sign-up route
    welcomed,    \* registrations whose welcome mail was sent
    lost         \* history: registrations dropped by a task that failed

vars == <<email, api, queue, work, status, customers, intents, accounts,
          taken, welcomed, lost>>

Steps == {"idle", "insert", "create_customer", "create_intent", "commit",
          "welcome"}

(* the transaction holds the index entry of its email *)
Inserted == {"create_customer", "create_intent", "commit"}

TypeOK ==
    /\ email \in [Items -> Emails]
    /\ api \in [Items -> {"idle", "enqueue", "accepted", "error"}]
    /\ queue \in Seq(Items)
    /\ work \in [Workers -> [step: Steps, item: Items \cup {NoItem}]]
    /\ \A w \in Workers : work[w].step # "idle" => work[w].item \in Items
    /\ status \in [Items -> {"none", "queued", "processed"}]
    /\ customers \in SUBSET Items
    /\ intents \in SUBSET Items
    /\ accounts \in SUBSET Items
    /\ taken \in SUBSET Emails
    /\ welcomed \in SUBSET Items
    /\ lost \in SUBSET Items

Free == [step |-> "idle", item |-> NoItem]

Init ==
    /\ email \in [Items -> Emails]
    /\ api = [i \in Items |-> "idle"]
    /\ queue = <<>>
    /\ work = [w \in Workers |-> Free]
    /\ status = [i \in Items |-> "none"]
    /\ customers = {}
    /\ intents = {}
    /\ accounts = {}
    /\ taken = {}
    /\ welcomed = {}
    /\ lost = {}

-----------------------------------------------------------------------------
(* POST /auth/register *)

SaveItem(i) ==
    /\ api[i] = "idle"
    /\ api' = [api EXCEPT ![i] = "enqueue"]
    /\ status' = [status EXCEPT ![i] = "queued"]
    /\ UNCHANGED <<email, queue, work, customers, intents, accounts, taken,
                   welcomed, lost>>

(* lpush; a RedisError or a crash leaves the row behind, on the list or not *)
Enqueue(i) ==
    /\ api[i] = "enqueue"
    /\ \/ /\ queue' = Append(queue, i)
          /\ \E answer \in {"accepted", "error"} : api' = [api EXCEPT ![i] = answer]
       \/ /\ api' = [api EXCEPT ![i] = "error"]
          /\ UNCHANGED queue
    /\ UNCHANGED <<email, work, status, customers, intents, accounts, taken,
                   welcomed, lost>>

-----------------------------------------------------------------------------
(* process_signup_queue and process_signup_queue_item *)

Goto(w, from, to) ==
    /\ work[w].step = from
    /\ work' = [work EXCEPT ![w].step = to]

(* variant: the id is read, and left on the list until the work is done *)
Peek(w) ==
    /\ work[w].step = "idle"
    /\ queue # <<>>
    /\ work' = [work EXCEPT ![w] = [step |-> "insert", item |-> Head(queue)]]
    /\ UNCHANGED <<email, api, queue, status, customers, intents, accounts,
                   taken, welcomed, lost>>

(* variant: an empty list is not noticed *)
PopUnchecked(w) ==
    /\ work[w].step = "idle"
    /\ work' = [work EXCEPT ![w] =
                  [step |-> "insert",
                   item |-> IF queue = <<>> THEN NoItem ELSE Head(queue)]]
    /\ queue' = IF queue = <<>> THEN queue ELSE Tail(queue)
    /\ UNCHANGED <<email, api, status, customers, intents, accounts, taken,
                   welcomed, lost>>

(* rpop *)
Pop(w) ==
    /\ work[w].step = "idle"
    /\ queue # <<>>
    /\ work' = [work EXCEPT ![w] = [step |-> "insert", item |-> Head(queue)]]
    /\ queue' = Tail(queue)
    /\ UNCHANGED <<email, api, status, customers, intents, accounts, taken,
                   welcomed, lost>>

(* emails of committed users, which the unique index refuses *)
InUse == {email[i] : i \in accounts} \cup taken

(* emails inserted by a transaction that is still open *)
Held == {email[work[v].item] : v \in {x \in Workers : work[x].step \in Inserted}}

(* variant: the users are read before the insert, with no unique index *)
InsertUnindexed(w) ==
    /\ work[w].step = "insert"
    /\ email[work[w].item] \notin InUse
    /\ Goto(w, "insert", "create_customer")
    /\ UNCHANGED <<email, api, queue, status, customers, intents, accounts,
                   taken, welcomed, lost>>

(* db.flush: a duplicate of a committed email raises (see Fail), one of an  *)
(* email that another transaction has inserted waits for its end            *)
Insert(w) ==
    /\ work[w].step = "insert"
    /\ email[work[w].item] \notin InUse \cup Held
    /\ Goto(w, "insert", "create_customer")
    /\ UNCHANGED <<email, api, queue, status, customers, intents, accounts,
                   taken, welcomed, lost>>

CreateCustomer(w) ==
    /\ Goto(w, "create_customer", "create_intent")
    /\ customers' = customers \cup {work[w].item}
    /\ UNCHANGED <<email, api, queue, status, intents, accounts, taken,
                   welcomed, lost>>

(* variant: the charge is left to a later job *)
SkipIntent(w) ==
    /\ Goto(w, "create_intent", "commit")
    /\ UNCHANGED <<email, api, queue, status, customers, intents, accounts,
                   taken, welcomed, lost>>

(* the intent is created with confirm=false *)
CreateIntent(w) ==
    /\ Goto(w, "create_intent", "commit")
    /\ intents' = intents \cup {work[w].item}
    /\ UNCHANGED <<email, api, queue, status, customers, accounts, taken,
                   welcomed, lost>>

Commit(w) ==
    /\ Goto(w, "commit", "welcome")
    /\ accounts' = accounts \cup {work[w].item}
    /\ status' = [status EXCEPT ![work[w].item] = "processed"]
    /\ UNCHANGED <<email, api, queue, customers, intents, taken, welcomed,
                   lost>>

Welcome(w) ==
    /\ work[w].step = "welcome"
    /\ work' = [work EXCEPT ![w] = Free]
    /\ welcomed' = welcomed \cup {work[w].item}
    /\ UNCHANGED <<email, api, queue, status, customers, intents, accounts,
                   taken, lost>>

(* variant: the failed registration goes back to the list *)
FailAndRequeue(w) ==
    /\ work[w].step # "idle"
    /\ work' = [work EXCEPT ![w] = Free]
    /\ queue' = Append(queue, work[w].item)
    /\ UNCHANGED <<email, api, status, customers, intents, accounts, taken,
                   welcomed, lost>>

(* a remote call that raises may have been executed, its answer lost *)
MayHave(w, call, done) ==
    IF work[w].step = call THEN {done, done \cup {work[w].item}} ELSE {done}

(* An exception (Stripe, the unique index, Postmark) or a crash ends the    *)
(* task: the session is rolled back, the id is gone, Stripe keeps what it   *)
(* has.                                                                     *)
Fail(w) ==
    /\ work[w].step # "idle"
    /\ work' = [work EXCEPT ![w] = Free]
    /\ lost' = IF work[w].step = "welcome" THEN lost
                                           ELSE lost \cup {work[w].item}
    /\ customers' \in MayHave(w, "create_customer", customers)
    /\ intents' \in MayHave(w, "create_intent", intents)
    /\ welcomed' \in MayHave(w, "welcome", welcomed)
    /\ UNCHANGED <<email, api, queue, status, accounts, taken>>

(* the insert of a committed email *)
Duplicate(w) ==
    /\ work[w].step = "insert"
    /\ email[work[w].item] \in InUse
    /\ Fail(w)

(* POST /api/v1/auth/signup commits a user of the same table *)
OtherSignup(e) ==
    /\ e \notin InUse \cup Held
    /\ taken' = taken \cup {e}
    /\ UNCHANGED <<email, api, queue, work, status, customers, intents,
                   accounts, welcomed, lost>>

-----------------------------------------------------------------------------

Works(w) ==
    \/ Pop(w) \/ Insert(w) \/ Duplicate(w) \/ CreateCustomer(w)
    \/ CreateIntent(w) \/ Commit(w) \/ Welcome(w)

Next ==
    \/ \E i \in Items : SaveItem(i) \/ Enqueue(i)
    \/ \E w \in Workers : Works(w) \/ Fail(w)
    \/ \E e \in Emails : OtherSignup(e)

Spec == Init /\ [][Next]_vars

(* Beat starts the task again for ever, and every remote call of a task     *)
(* ends; no task has to fail.                                               *)
FairSpec == Spec /\ \A w \in Workers : WF_vars(Works(w))

-----------------------------------------------------------------------------
(***************************************************************************)
(* Properties.                                                             *)
(***************************************************************************)

(* Two users never share an email, whatever registrations race, on this     *)
(* route or the other one.                                                  *)
OneAccountPerEmail ==
    /\ \A i, j \in accounts : email[i] = email[j] => i = j
    /\ \A i \in accounts : email[i] \notin taken

(* An active account, the processed status and the welcome mail agree, and  *)
(* an active account has its Stripe customer and payment intent.            *)
ActiveAccountsAreBacked ==
    /\ accounts = {i \in Items : status[i] = "processed"}
    /\ accounts \subseteq customers \cap intents
    /\ welcomed \subseteq accounts

Waiting(i) == \E n \in 1..Len(queue) : queue[n] = i

Busy(i) == {w \in Workers : work[w].item = i}

(* A registration that was accepted is in one place: it waits on the list   *)
(* once, or one task works on it, or it is settled, by an account or by the *)
(* failure of the task that had popped it.                                  *)
AcceptedIsSomewhere ==
    \A i \in Items : api[i] = "accepted" =>
        /\ Waiting(i) \/ Busy(i) # {} \/ i \in accounts \cup lost
        /\ Waiting(i) => Busy(i) = {} /\ i \notin accounts \cup lost
        /\ \A m, n \in 1..Len(queue) : queue[m] = i /\ queue[n] = i => m = n
        /\ \A v, w \in Busy(i) : v = w
        /\ i \notin accounts \cap lost

(* What an accepted registration can count on: its account, or a task that  *)
(* failed while working on it.                                              *)
AcceptedIsSettled ==
    \A i \in Items : api[i] = "accepted" ~> i \in accounts \cup lost

(* What the 202 says: the account "is queued and should be active" soon.    *)
(* Expected to be violated, by a Stripe call that fails after the pop.      *)
AcceptedBecomesActive ==
    \A i \in Items : api[i] = "accepted" ~> email[i] \in InUse

=============================================================================
