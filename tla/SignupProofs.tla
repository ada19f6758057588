---------------------------- MODULE SignupProofs ----------------------------
(***************************************************************************)
(* Proofs about Signup, for any number of registrations, emails and tasks. *)
(* What makes the emails unique is the index entry that an open            *)
(* transaction holds from its insert to its commit: IInv says that no two  *)
(* open transactions, and no open transaction and a committed user, hold   *)
(* the same email.                                                         *)
(***************************************************************************)
EXTENDS Signup, TLAPS

(* the index entries of open transactions *)
IndexHolds ==
    /\ \A w \in Workers : work[w].step \in Inserted =>
          email[work[w].item] \notin InUse
    /\ \A v, w \in Workers :
          /\ work[v].step \in Inserted
          /\ work[w].step \in Inserted
          /\ email[work[v].item] = email[work[w].item]
          => v = w

(* what each step of a task relies on *)
StepsHold ==
    \A w \in Workers :
        /\ work[w].step \in {"create_intent", "commit", "welcome"} =>
              work[w].item \in customers
        /\ work[w].step \in {"commit", "welcome"} => work[w].item \in intents
        /\ work[w].step = "welcome" => work[w].item \in accounts

(* only registrations that POST /auth/register has left are on the list or  *)
(* at a task, so that saving a row never overwrites a processed one         *)
Left == {"accepted", "error"}

RowsComeFirst ==
    /\ \A i \in Items : api[i] = "idle" => status[i] = "none"
    /\ \A n \in 1..Len(queue) : api[queue[n]] \in Left
    /\ \A w \in Workers : work[w].step # "idle" => api[work[w].item] \in Left

IInv ==
    /\ TypeOK
    /\ RowsComeFirst
    /\ IndexHolds
    /\ StepsHold
    /\ OneAccountPerEmail
    /\ ActiveAccountsAreBacked

-----------------------------------------------------------------------------

LEMMA TypeInit == Init => TypeOK
  BY DEF Init, TypeOK, Free, Steps

LEMMA TypeStep == TypeOK /\ [Next]_vars => TypeOK'
  <1> SUFFICES ASSUME TypeOK, [Next]_vars PROVE TypeOK'
    OBVIOUS
  <1>1. ASSUME NEW i \in Items, SaveItem(i) PROVE TypeOK'
    BY <1>1 DEF TypeOK, SaveItem
  <1>2. ASSUME NEW i \in Items, Enqueue(i) PROVE TypeOK'
    <2>1. queue' \in Seq(Items)
      <3>1. queue \in Seq(Items) /\ queue' \in {queue, Append(queue, i)}
        BY <1>2 DEF TypeOK, Enqueue
      <3> QED
        BY <3>1
    <2>2. PICK answer \in {"accepted", "error"} :
             api' = [api EXCEPT ![i] = answer]
      BY <1>2 DEF Enqueue
    <2>3. api' \in [Items -> {"idle", "enqueue", "accepted", "error"}]
      BY <2>2 DEF TypeOK
    <2> QED
      BY <1>2, <2>1, <2>3 DEF TypeOK, Enqueue
  <1>3. ASSUME NEW w \in Workers, Pop(w) PROVE TypeOK'
    <2>1. Head(queue) \in Items /\ Tail(queue) \in Seq(Items)
      BY <1>3 DEF TypeOK, Pop
    <2>2. work' \in [Workers -> [step: Steps, item: Items \cup {NoItem}]]
      BY <1>3, <2>1 DEF TypeOK, Pop, Steps
    <2>3. \A v \in Workers : work'[v].step # "idle" => work'[v].item \in Items
      BY <1>3, <2>1 DEF TypeOK, Pop
    <2> QED
      BY <1>3, <2>1, <2>2, <2>3 DEF TypeOK, Pop
  <1>4. ASSUME NEW w \in Workers, Insert(w) PROVE TypeOK'
    BY <1>4 DEF TypeOK, Insert, Goto, Steps
  <1>5. ASSUME NEW w \in Workers, CreateCustomer(w) PROVE TypeOK'
    BY <1>5 DEF TypeOK, CreateCustomer, Goto, Steps
  <1>6. ASSUME NEW w \in Workers, CreateIntent(w) PROVE TypeOK'
    BY <1>6 DEF TypeOK, CreateIntent, Goto, Steps
  <1>7. ASSUME NEW w \in Workers, Commit(w) PROVE TypeOK'
    BY <1>7 DEF TypeOK, Commit, Goto, Steps
  <1>8. ASSUME NEW w \in Workers, Welcome(w) PROVE TypeOK'
    BY <1>8 DEF TypeOK, Welcome, Free, Steps
  <1>9. ASSUME NEW w \in Workers, Fail(w) PROVE TypeOK'
    BY <1>9 DEF TypeOK, Fail, MayHave, Free, Steps
  <1>10. ASSUME NEW e \in Emails, OtherSignup(e) PROVE TypeOK'
    BY <1>10 DEF TypeOK, OtherSignup
  <1>11. CASE UNCHANGED vars
    BY <1>11 DEF TypeOK, vars
  <1> QED
    BY <1>1, <1>2, <1>3, <1>4, <1>5, <1>6, <1>7, <1>8, <1>9, <1>10, <1>11
    DEF Next, Works, Duplicate

(* The tables, the list and the tasks of the sign-up keep their types.      *)
THEOREM TypeCorrect == Spec => []TypeOK
  BY TypeInit, TypeStep, PTL DEF Spec

-----------------------------------------------------------------------------

LEMMA InvInit == Init => IInv
  BY TypeInit DEF Init, IInv, IndexHolds, StepsHold, OneAccountPerEmail,
     ActiveAccountsAreBacked, RowsComeFirst, Inserted, Free

LEMMA RowsStep == IInv /\ [Next]_vars => RowsComeFirst'
  <1> SUFFICES ASSUME IInv, [Next]_vars PROVE RowsComeFirst'
    OBVIOUS
  <1>1. TypeOK /\ TypeOK' /\ RowsComeFirst
    BY TypeStep DEF IInv
  <1> USE DEF RowsComeFirst, Left, TypeOK
  <1>2. ASSUME NEW i \in Items, SaveItem(i) PROVE RowsComeFirst'
    BY <1>1, <1>2 DEF SaveItem
  <1>3. ASSUME NEW i \in Items, Enqueue(i) PROVE RowsComeFirst'
    <2>1. /\ api'[i] \in Left
          /\ \A j \in Items : j # i => api'[j] = api[j]
          /\ api[i] = "enqueue"
      BY <1>1, <1>3 DEF Enqueue
    <2>2. \A n \in 1..Len(queue') : queue'[n] = i
             \/ (n \in 1..Len(queue) /\ queue'[n] = queue[n])
      BY <1>1, <1>3 DEF Enqueue
    <2>3. \A n \in 1..Len(queue) : queue[n] \in Items
      BY <1>1
    <2>4. \A n \in 1..Len(queue') : api'[queue'[n]] \in Left
      BY <1>1, <2>1, <2>2, <2>3
    <2> QED
      BY <1>1, <1>3, <2>1, <2>4 DEF Enqueue
  <1>4. ASSUME NEW w \in Workers, Pop(w) PROVE RowsComeFirst'
    <2>1. /\ Len(queue) \in Nat /\ Len(queue) # 0
          /\ Head(queue) = queue[1]
          /\ Len(queue') = Len(queue) - 1
          /\ \A n \in 1..Len(queue') : queue'[n] = queue[n + 1]
      BY <1>1, <1>4 DEF Pop
    <2>2. api[Head(queue)] \in Left
      BY <1>1, <2>1
    <2>3. \A n \in 1..Len(queue') : api[queue'[n]] \in Left
      BY <1>1, <2>1
    <2> QED
      BY <1>1, <1>4, <2>2, <2>3 DEF Pop
  <1>5. ASSUME NEW w \in Workers, Insert(w) \/ CreateCustomer(w) \/ CreateIntent(w)
        PROVE  RowsComeFirst'
    BY <1>1, <1>5 DEF Insert, CreateCustomer, CreateIntent, Goto
  <1>6. ASSUME NEW w \in Workers, Commit(w) PROVE RowsComeFirst'
    BY <1>1, <1>6 DEF Commit, Goto
  <1>7. ASSUME NEW w \in Workers, Welcome(w) \/ Fail(w) PROVE RowsComeFirst'
    <2>1. /\ work' = [work EXCEPT ![w] = Free]
          /\ UNCHANGED <<api, queue, status>>
      BY <1>7 DEF Welcome, Fail
    <2> QED
      BY <1>1, <2>1 DEF Free
  <1>8. CASE UNCHANGED vars \/ \E e \in Emails : OtherSignup(e)
    BY <1>1, <1>8 DEF vars, OtherSignup
  <1> QED
    BY <1>2, <1>3, <1>4, <1>5, <1>6, <1>7, <1>8 DEF Next, Works, Duplicate

LEMMA InvStep == IInv /\ [Next]_vars => IInv'
  <1> SUFFICES ASSUME IInv, [Next]_vars PROVE IInv'
    OBVIOUS
  <1>1. TypeOK /\ TypeOK' /\ RowsComeFirst'
    BY TypeStep, RowsStep DEF IInv
  <1>a. IndexHolds /\ StepsHold /\ OneAccountPerEmail /\ ActiveAccountsAreBacked
    BY DEF IInv
  <1> DEFINE Rest == IndexHolds /\ StepsHold /\ OneAccountPerEmail
                        /\ ActiveAccountsAreBacked
  <1> SUFFICES Rest'
    BY <1>1 DEF IInv
  <1> USE DEF IndexHolds, StepsHold, OneAccountPerEmail,
              ActiveAccountsAreBacked, InUse, Inserted
  <1>2. ASSUME NEW i \in Items, SaveItem(i) PROVE Rest'
    <2>1. status[i] = "none"
      BY <1>2 DEF SaveItem, IInv, RowsComeFirst
    <2> QED
      BY <1>1, <1>a, <1>2, <2>1 DEF SaveItem, TypeOK
  <1>3. ASSUME NEW i \in Items, Enqueue(i) PROVE Rest'
    BY <1>1, <1>a, <1>3 DEF Enqueue, TypeOK
  <1>4. ASSUME NEW w \in Workers, Pop(w) PROVE Rest'
    BY <1>1, <1>a, <1>4 DEF Pop, TypeOK
  <1>5. ASSUME NEW w \in Workers, Insert(w) PROVE Rest'
    <2>1. \A v \in Workers : work[v].step \in Inserted =>
             email[work[v].item] # email[work[w].item]
      BY <1>5 DEF Insert, Held
    <2> QED
      BY <1>1, <1>a, <1>5, <2>1 DEF Insert, Goto, TypeOK
  <1>6. ASSUME NEW w \in Workers, CreateCustomer(w) PROVE Rest'
    BY <1>1, <1>a, <1>6 DEF CreateCustomer, Goto, TypeOK
  <1>7. ASSUME NEW w \in Workers, CreateIntent(w) PROVE Rest'
    BY <1>1, <1>a, <1>7 DEF CreateIntent, Goto, TypeOK
  <1>8. ASSUME NEW w \in Workers, Commit(w) PROVE Rest'
    BY <1>1, <1>a, <1>8 DEF Commit, Goto, TypeOK
  <1>9. ASSUME NEW w \in Workers, Welcome(w) PROVE Rest'
    BY <1>1, <1>a, <1>9 DEF Welcome, Free, TypeOK
  <1>10. ASSUME NEW w \in Workers, Fail(w) PROVE Rest'
    <2>1. customers \subseteq customers' /\ intents \subseteq intents'
      BY <1>10 DEF Fail, MayHave
    <2>2. welcomed' \subseteq accounts'
      BY <1>1, <1>a, <1>10 DEF Fail, MayHave
    <2> QED
      BY <1>1, <1>a, <1>10, <2>1, <2>2 DEF Fail, Free, TypeOK
  <1>11. ASSUME NEW e \in Emails, OtherSignup(e) PROVE Rest'
    BY <1>1, <1>a, <1>11 DEF OtherSignup, Held, TypeOK
  <1>12. CASE UNCHANGED vars
    BY <1>1, <1>a, <1>12 DEF vars
  <1> QED
    BY <1>2, <1>3, <1>4, <1>5, <1>6, <1>7, <1>8, <1>9, <1>10, <1>11, <1>12
    DEF Next, Works, Duplicate

LEMMA Inductive == Spec => []IInv
  BY InvInit, InvStep, PTL DEF Spec

(* However many tasks and registrations race, and whatever fails, no two    *)
(* committed users share an email.                                          *)
THEOREM EmailsUnique == Spec => []OneAccountPerEmail
  BY Inductive, PTL DEF IInv

(* Every active account has its processed status and its Stripe records,    *)
(* and only the owner of one is welcomed.                                   *)
THEOREM AccountsBacked == Spec => []ActiveAccountsAreBacked
  BY Inductive, PTL DEF IInv

-----------------------------------------------------------------------------
(* Where an accepted registration is. *)

Settled == accounts \cup lost

(* AcceptedIsSomewhere, for every registration: one that the route has not  *)
(* answered yet is nowhere                                                  *)
Place(i) ==
    /\ api[i] \in {"idle", "enqueue"} => i \notin Settled
    /\ Waiting(i) => Busy(i) = {} /\ i \notin Settled
    /\ \A m, n \in 1..Len(queue) : queue[m] = i /\ queue[n] = i => m = n
    /\ \A v, w \in Busy(i) : v = w
    /\ i \notin accounts \cap lost
    /\ api[i] = "accepted" => Waiting(i) \/ Busy(i) # {} \/ i \in Settled

OnePlace == \A i \in Items : Place(i)

(* a task settles what it works on with its last step, and with no other *)
WorkOpen ==
    \A w \in Workers :
        /\ work[w].step = "idle" => work[w].item = NoItem
        /\ work[w].step \notin {"idle", "welcome"} => work[w].item \notin Settled
        /\ work[w].step = "welcome" => work[w].item \notin lost

Placed == OnePlace /\ WorkOpen

(* the sequence facts that a push and a pop of the list rest on *)
LEMMA PushedAndPopped ==
  ASSUME NEW q \in Seq(Items), NEW i \in Items
  PROVE  /\ Len(q) \in Nat
         /\ Len(Append(q, i)) = Len(q) + 1
         /\ \A n \in 1..Len(q) : Append(q, i)[n] = q[n]
         /\ Append(q, i)[Len(q) + 1] = i
         /\ q # <<>> => /\ 1 \in 1..Len(q) /\ Head(q) = q[1]
                        /\ Head(q) \in Items
                        /\ Len(Tail(q)) = Len(q) - 1
                        /\ \A n \in 1..Len(Tail(q)) : Tail(q)[n] = q[n + 1]
  OBVIOUS

(* A step that leaves the list alone and moves one task: what it must not   *)
(* disturb.                                                                 *)
LEMMA TaskStep ==
  ASSUME TypeOK, IInv, Placed, UNCHANGED <<api, queue>>,
         NEW w \in Workers, work[w].step # "idle",
         NEW i \in Items, i = work[w].item,
         \A v \in Workers \ {w} : work'[v] = work[v],
         work'[w] = Free \/ (work'[w].item = i /\ work'[w].step # "idle"),
         work'[w] = Free => i \in Settled',
         accounts \subseteq accounts', accounts' \subseteq accounts \cup {i},
         lost \subseteq lost', lost' \subseteq lost \cup {i},
         i \notin accounts' \cap lost',
         /\ work'[w].step \notin {"idle", "welcome"} => i \notin Settled'
         /\ work'[w].step = "welcome" => i \notin lost'
  PROVE  Placed'
  <1>1. /\ w \in Busy(i) /\ \A v \in Workers : work[v].item = i => v = w
        /\ ~Waiting(i) /\ api[i] \in Left /\ i # NoItem
    BY SignupAssumption DEF Placed, OnePlace, Place, Busy, IInv, RowsComeFirst
  <1>2. ASSUME NEW j \in Items, j # i
        PROVE  /\ (j \in accounts)' <=> j \in accounts
               /\ (j \in lost)' <=> j \in lost
               /\ Busy(j)' = Busy(j)
               /\ Waiting(j)' <=> Waiting(j)
    <2>1. work'[w].item # j /\ work[w].item # j
      BY <1>2, SignupAssumption DEF Free
    <2>2. Busy(j)' = Busy(j)
      BY <2>1 DEF Busy
    <2> QED
      BY <1>2, <2>2 DEF Settled, Waiting
  <1>3. OnePlace'
    <2> SUFFICES ASSUME NEW j \in Items PROVE Place(j)'
      BY DEF OnePlace
    <2>0. Place(j)
      BY DEF Placed, OnePlace
    <2>1. CASE j # i
      BY <1>2, <2>0, <2>1 DEF Place, Settled
    <2>2. CASE j = i
      <3>1. ~Waiting(j)' /\ api'[j] \in Left
        BY <1>1, <2>2 DEF Waiting
      <3>2. \A v \in Busy(j)' : v = w
        BY <1>1, <2>2 DEF Busy
      <3>3. Busy(j)' # {} \/ (j \in Settled)'
        <4>1. CASE work'[w] = Free
          BY <2>2, <4>1
        <4>2. CASE work'[w].item = i
          BY <2>2, <4>2 DEF Busy
        <4> QED
          BY <4>1, <4>2
      <3>4. \A m, n \in 1..Len(queue') :
               queue'[m] = j /\ queue'[n] = j => m = n
        BY <2>0 DEF Place
      <3> QED
        BY <2>2, <3>1, <3>2, <3>3, <3>4 DEF Left, Place
    <2> QED
      BY <2>1, <2>2
  <1>4. WorkOpen'
    <2> SUFFICES ASSUME NEW v \in Workers
                 PROVE  /\ work'[v].step = "idle" => work'[v].item = NoItem
                        /\ work'[v].step \notin {"idle", "welcome"} =>
                              (work[v].item \notin Settled)'
                        /\ work'[v].step = "welcome" =>
                              (work[v].item \notin lost)'
      BY DEF WorkOpen
    <2>1. CASE v = w
      BY <2>1 DEF Free
    <2>2. CASE v # w
      <3>1. work'[v] = work[v] /\ work[v].item # i
        BY <1>1, <2>2
      <3> QED
        BY <3>1 DEF Placed, WorkOpen, Settled
    <2> QED
      BY <2>1, <2>2
  <1> QED
    BY <1>3, <1>4 DEF Placed

LEMMA PlacedInit == Init => Placed
  <1> SUFFICES ASSUME Init PROVE Placed
    OBVIOUS
  <1>1. Len(queue) = 0 /\ \A i \in Items : ~Waiting(i)
    BY DEF Init, Waiting
  <1>2. \A i \in Items : Busy(i) = {}
    BY SignupAssumption DEF Init, Busy, Free
  <1> QED
    BY <1>1, <1>2 DEF Init, Placed, OnePlace, Place, WorkOpen, Settled, Free

LEMMA PlacedStep == IInv /\ Placed /\ [Next]_vars => Placed'
  <1> SUFFICES ASSUME IInv, Placed, [Next]_vars PROVE Placed'
    OBVIOUS
  <1>1. /\ TypeOK /\ OnePlace /\ WorkOpen /\ RowsComeFirst
        /\ queue \in Seq(Items)
        /\ work \in [Workers -> [step: Steps, item: Items \cup {NoItem}]]
    BY DEF IInv, Placed, TypeOK
  <1>2. ASSUME UNCHANGED <<queue, work, accounts, lost>>,
               \A i \in Items : api'[i] = api[i] \/ api'[i] = "enqueue"
                                                 \/ api'[i] = "error",
               \A i \in Items : api'[i] = "enqueue" =>
                                   api[i] \in {"idle", "enqueue"}
        PROVE  Placed'
    <2>1. \A i \in Items : /\ Waiting(i)' <=> Waiting(i)
                           /\ Busy(i)' = Busy(i)
                           /\ (i \in Settled)' <=> i \in Settled
      BY <1>2 DEF Waiting, Busy, Settled
    <2>2. WorkOpen'
      BY <1>1, <1>2 DEF WorkOpen, Settled
    <2>3. OnePlace'
      <3> SUFFICES ASSUME NEW i \in Items PROVE Place(i)'
        BY DEF OnePlace
      <3>1. Place(i)
        BY <1>1 DEF OnePlace
      <3>2. /\ api'[i] = api[i] \/ api'[i] = "enqueue" \/ api'[i] = "error"
            /\ api'[i] = "enqueue" => api[i] \in {"idle", "enqueue"}
        BY <1>2
      <3> QED
        BY <1>2, <2>1, <3>1, <3>2 DEF Place
    <2> QED
      BY <2>2, <2>3 DEF Placed
  <1>3. ASSUME NEW i \in Items, SaveItem(i) PROVE Placed'
    BY <1>1, <1>2, <1>3 DEF SaveItem, TypeOK
  <1>4. ASSUME NEW i \in Items, Enqueue(i) PROVE Placed'
    <2>1. PICK answer \in {"accepted", "error"} :
             api' = [api EXCEPT ![i] = answer]
      BY <1>4 DEF Enqueue
    <2>2. /\ api'[i] = answer /\ \A j \in Items \ {i} : api'[j] = api[j]
          /\ api[i] = "enqueue"
      BY <1>1, <1>4, <2>1 DEF Enqueue, TypeOK
    <2>3. /\ UNCHANGED <<work, accounts, lost>>
          /\ \A j \in Items : Busy(j)' = Busy(j) /\ ((j \in Settled)' <=> j \in Settled)
          /\ WorkOpen'
      BY <1>1, <1>4 DEF Enqueue, Busy, Settled, WorkOpen
    <2>4. i \notin Settled /\ Busy(i) = {} /\ \A n \in 1..Len(queue) : queue[n] # i
      <3>1. i \notin Settled
        BY <1>1, <2>2 DEF OnePlace, Place
      <3>2. \A n \in 1..Len(queue) : queue[n] # i
        BY <1>1, <2>2 DEF RowsComeFirst, Left
      <3>3. ASSUME NEW v \in Workers PROVE work[v].item # i
        BY <1>1, <2>2, SignupAssumption DEF RowsComeFirst, Left, WorkOpen
      <3> QED
        BY <3>1, <3>2, <3>3 DEF Busy
    <2>5. CASE queue' = Append(queue, i)
      <3>1. /\ Len(queue) \in Nat /\ Len(queue') = Len(queue) + 1
            /\ \A n \in 1..Len(queue) : queue'[n] = queue[n]
            /\ queue'[Len(queue) + 1] = i
        BY <1>1, <2>5, PushedAndPopped
      <3>2. /\ \A n \in 1..Len(queue') : n \in 1..Len(queue) \/ n = Len(queue) + 1
            /\ 1..Len(queue) \subseteq 1..Len(queue')
            /\ Len(queue) + 1 \in 1..Len(queue')
        BY <3>1
      <3>3. Waiting(i)'
        BY <3>1, <3>2 DEF Waiting
      <3>4. \A j \in Items \ {i} : Waiting(j)' <=> Waiting(j)
        BY <3>1, <3>2 DEF Waiting
      <3>5. \A j \in Items : \A m, n \in 1..Len(queue') :
               queue'[m] = j /\ queue'[n] = j => m = n
        BY <1>1, <2>4, <3>1, <3>2 DEF OnePlace, Place
      <3>6. OnePlace'
        <4> SUFFICES ASSUME NEW j \in Items PROVE Place(j)'
          BY DEF OnePlace
        <4>1. Place(j)
          BY <1>1 DEF OnePlace
        <4>2. \A m, n \in 1..Len(queue') : queue'[m] = j /\ queue'[n] = j => m = n
          BY <3>5
        <4>3. CASE j = i
          BY <2>2, <2>3, <2>4, <3>3, <4>1, <4>2, <4>3 DEF Place, Settled
        <4>4. CASE j # i
          BY <2>2, <2>3, <3>4, <4>1, <4>2, <4>4 DEF Place, Settled
        <4> QED
          BY <4>3, <4>4
      <3> QED
        BY <2>3, <3>6 DEF Placed
    <2>6. CASE queue' = queue /\ api' = [api EXCEPT ![i] = "error"]
      BY <1>1, <1>2, <2>2, <2>3, <2>6 DEF TypeOK
    <2> QED
      BY <1>4, <2>5, <2>6 DEF Enqueue
  <1>5. ASSUME NEW w \in Workers, Pop(w) PROVE Placed'
    <2>1. PICK i \in Items : i = Head(queue)
      BY <1>1, <1>5, PushedAndPopped DEF Pop
    <2>2. /\ work[w].step = "idle"
          /\ work' = [work EXCEPT ![w] = [step |-> "insert", item |-> i]]
          /\ queue' = Tail(queue) /\ queue # <<>>
          /\ UNCHANGED <<api, accounts, lost>>
      BY <1>5, <2>1 DEF Pop
    <2>3. /\ Len(queue) \in Nat /\ 1 \in 1..Len(queue) /\ queue[1] = i
          /\ Len(queue') = Len(queue) - 1
          /\ \A n \in 1..Len(queue') : queue'[n] = queue[n + 1]
      BY <1>1, <2>1, <2>2, PushedAndPopped
    <2>4. Waiting(i) /\ Busy(i) = {} /\ i \notin Settled
      BY <1>1, <2>3 DEF OnePlace, Place, Waiting
    <2>5. \A j \in Items \ {i} : Waiting(j)' <=> Waiting(j)
      <3> SUFFICES ASSUME NEW j \in Items \ {i} PROVE Waiting(j)' <=> Waiting(j)
        OBVIOUS
      <3>1. ASSUME NEW n \in 1..Len(queue), queue[n] = j
            PROVE  n - 1 \in 1..Len(queue') /\ queue'[n - 1] = j
        <4>1. n # 1
          BY <2>3, <3>1
        <4>2. n - 1 \in 1..Len(queue')
          BY <2>3, <4>1
        <4> QED
          BY <2>3, <3>1, <4>2
      <3>2. ASSUME NEW n \in 1..Len(queue'), queue'[n] = j
            PROVE  n + 1 \in 1..Len(queue) /\ queue[n + 1] = j
        BY <2>3, <3>2
      <3> QED
        BY <3>1, <3>2 DEF Waiting
    <2>6. ~Waiting(i)'
      <3> SUFFICES ASSUME NEW n \in 1..Len(queue'), queue'[n] = i PROVE FALSE
        BY DEF Waiting
      <3>1. n + 1 \in 1..Len(queue) /\ queue[n + 1] = i /\ n + 1 # 1
        BY <2>3
      <3> QED
        BY <1>1, <2>3, <3>1 DEF OnePlace, Place
    <2>7. \A j \in Items : \A m, n \in 1..Len(queue') :
             queue'[m] = j /\ queue'[n] = j => m = n
      <3> SUFFICES ASSUME NEW j \in Items, NEW m \in 1..Len(queue'),
                          NEW n \in 1..Len(queue'), queue'[m] = j, queue'[n] = j
                   PROVE  m = n
        OBVIOUS
      <3>1. /\ m + 1 \in 1..Len(queue) /\ queue[m + 1] = j
            /\ n + 1 \in 1..Len(queue) /\ queue[n + 1] = j
        BY <2>3
      <3>2. m + 1 = n + 1
        BY <1>1, <3>1 DEF OnePlace, Place
      <3> QED
        BY <2>3, <3>2
    <2>8. /\ work'[w] = [step |-> "insert", item |-> i]
          /\ \A v \in Workers \ {w} : work'[v] = work[v]
          /\ work[w].item = NoItem /\ i # NoItem
      BY <1>1, <2>2, SignupAssumption DEF WorkOpen
    <2>9. Busy(i)' = {w} /\ \A j \in Items \ {i} : Busy(j)' = Busy(j)
      <3>1. Busy(i)' = {w}
        BY <2>4, <2>8 DEF Busy
      <3>2. ASSUME NEW j \in Items \ {i} PROVE Busy(j)' = Busy(j)
        BY <2>8, SignupAssumption DEF Busy
      <3> QED
        BY <3>1, <3>2
    <2>10. OnePlace'
      <3> SUFFICES ASSUME NEW j \in Items PROVE Place(j)'
        BY DEF OnePlace
      <3>1. Place(j)
        BY <1>1 DEF OnePlace
      <3>2. \A m, n \in 1..Len(queue') : queue'[m] = j /\ queue'[n] = j => m = n
        BY <2>7
      <3>3. (j \in Settled)' <=> j \in Settled
        BY <2>2 DEF Settled
      <3>4. CASE j = i
        <4>1. api'[i] \in Left
          BY <1>1, <2>2, <2>3 DEF RowsComeFirst
        <4> QED
          BY <2>2, <2>4, <2>6, <2>9, <3>1, <3>2, <3>3, <3>4, <4>1
          DEF Place, Left, Settled
      <3>5. CASE j # i
        BY <2>2, <2>5, <2>9, <3>1, <3>2, <3>3, <3>5 DEF Place
      <3> QED
        BY <3>4, <3>5
    <2>11. WorkOpen'
      BY <1>1, <2>2, <2>4, <2>8 DEF WorkOpen, Settled
    <2> QED
      BY <2>10, <2>11 DEF Placed
  <1>6. ASSUME NEW w \in Workers,
               Insert(w) \/ CreateCustomer(w) \/ CreateIntent(w)
        PROVE  Placed'
    <2>1. PICK i \in Items : i = work[w].item
      BY <1>1, <1>6 DEF TypeOK, Insert, CreateCustomer, CreateIntent, Goto
    <2>2. /\ work[w].step \notin {"idle", "welcome"}
          /\ UNCHANGED <<api, queue, accounts, lost>>
          /\ \A v \in Workers \ {w} : work'[v] = work[v]
          /\ work'[w].item = i /\ work'[w].step \notin {"idle", "welcome"}
      BY <1>1, <1>6, <2>1 DEF Insert, CreateCustomer, CreateIntent, Goto
    <2>3. i \notin Settled /\ work'[w] # Free
      BY <1>1, <2>1, <2>2 DEF WorkOpen, Free
    <2> QED
      BY <1>1, <2>1, <2>2, <2>3, TaskStep DEF Settled
  <1>7. ASSUME NEW w \in Workers, Commit(w) PROVE Placed'
    <2>1. PICK i \in Items : i = work[w].item
      BY <1>1, <1>7 DEF TypeOK, Commit, Goto
    <2>2. /\ work[w].step = "commit"
          /\ UNCHANGED <<api, queue, lost>> /\ accounts' = accounts \cup {i}
          /\ \A v \in Workers \ {w} : work'[v] = work[v]
          /\ work'[w].item = i /\ work'[w].step = "welcome"
      BY <1>1, <1>7, <2>1 DEF Commit, Goto
    <2>3. i \notin lost /\ work'[w] # Free
      BY <1>1, <2>1, <2>2 DEF WorkOpen, Settled, Free
    <2> QED
      BY <1>1, <2>1, <2>2, <2>3, TaskStep DEF Settled
  <1>8. ASSUME NEW w \in Workers, Welcome(w) \/ Fail(w) PROVE Placed'
    <2>1. PICK i \in Items : i = work[w].item
      BY <1>1, <1>8 DEF TypeOK, Welcome, Fail
    <2>2. /\ work[w].step # "idle" /\ work' = [work EXCEPT ![w] = Free]
          /\ UNCHANGED <<api, queue, accounts>>
          /\ lost' = IF work[w].step = "welcome" THEN lost ELSE lost \cup {i}
      BY <1>8, <2>1 DEF Welcome, Fail
    <2>3. \A v \in Workers \ {w} : work'[v] = work[v]
      BY <1>1, <2>2
    <2>4. work'[w] = Free /\ work'[w].step = "idle"
      BY <1>1, <2>2 DEF Free
    <2>5. /\ work[w].step = "welcome" => i \in accounts /\ i \notin lost
          /\ work[w].step # "welcome" => i \notin accounts
      BY <1>1, <2>1, <2>2 DEF WorkOpen, Settled, IInv, StepsHold
    <2>6. /\ lost \subseteq lost' /\ lost' \subseteq lost \cup {i}
          /\ i \notin accounts' \cap lost' /\ (i \in accounts' \cup lost')
      BY <2>2, <2>5
    <2>7. (i \in Settled)'
      BY <2>6 DEF Settled
    <2> QED
      BY <1>1, <2>1, <2>2, <2>3, <2>4, <2>6, <2>7, TaskStep
  <1>9. CASE UNCHANGED vars \/ \E e \in Emails : OtherSignup(e)
    BY <1>1, <1>2, <1>9 DEF vars, OtherSignup, TypeOK
  <1> QED
    BY <1>3, <1>4, <1>5, <1>6, <1>7, <1>8, <1>9 DEF Next, Works, Duplicate

(* An accepted registration is never lost between the list, the tasks and   *)
(* the accounts, nor in two of these places, whatever tasks race or fail.   *)
THEOREM AcceptedHasOnePlace == Spec => []AcceptedIsSomewhere
  <1>1. Placed => AcceptedIsSomewhere
    BY DEF Placed, OnePlace, Place, AcceptedIsSomewhere, Settled
  <1> QED
    BY <1>1, InvInit, InvStep, PlacedInit, PlacedStep, PTL DEF Spec

=============================================================================
