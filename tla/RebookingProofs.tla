--------------------------- MODULE RebookingProofs ---------------------------
(***************************************************************************)
(* Proofs about Rebooking, for any number of requests, users, signals and  *)
(* offers.  The invariants of the saga are not inductive by themselves:    *)
(* IInv adds what each step of confirm_booking relies on, which is what    *)
(* the steps before it have established in the stores.                     *)
(***************************************************************************)
EXTENDS Rebooking, TLAPS

(* where a request is after each milestone of the saga *)
Owned    == Steps \cup {"booking_failed", "ok"}
Opened   == Owned \ {"create_intent"}
Ticketed == {"confirm_intent", "commit", "queue_card", "push", "ok"}
Accepted == Ticketed \ {"confirm_intent"}
Recorded == Accepted \ {"commit"}
Carded   == Recorded \ {"queue_card"}
Fresh    == {"idle", "create_intent", "create_order"} \cup Refusals

(* what a request may rely on at its step *)
Milestones(r) ==
    /\ pc[r] \in Owned => arg[r].user = Owner[arg[r].signal]
    /\ pc[r] \in Opened => /\ intent[Key(r)].state # "none"
                           /\ intent[Key(r)].amount = Amount(r)
    /\ pc[r] \in Ticketed => r \in ordered
    /\ pc[r] \in Accepted => confirmed[Key(r)] \in {"charged", "unpaid"}
    /\ pc[r] \in Recorded => r \in booked
    /\ pc[r] \in Carded => r \in carded
    /\ pc[r] = "booking_failed" => intent[Key(r)].state = "canceled"
    /\ pc[r] \in Fresh => r \notin ordered \cup booked \cup carded

(* what the stores say of each other *)
StoresAgree ==
    /\ BookingBacked
    /\ ChargedOnlyWithTicket
    /\ \A k \in Keys : confirmed[k] = "charged" => Charged(k)
    /\ \A k \in Keys : confirmed[k] \in {"charged", "unpaid"} =>
          /\ intent[k].state # "none"
          /\ \E r \in ordered : Key(r) = k
    /\ \A k \in Keys : intent[k].state # "none" => k[1] = Owner[k[2]]

IInv ==
    /\ TypeOK
    /\ \A r \in Requests : Milestones(r)
    /\ StoresAgree

-----------------------------------------------------------------------------

LEMMA KeyAmountType ==
    ASSUME TypeOK, NEW r \in Requests
    PROVE  /\ Key(r) \in Keys
           /\ Amount(r) \in Nat
           /\ arg[r].user \in Users /\ arg[r].signal \in Signals
           /\ Key(r)[1] = arg[r].user /\ Key(r)[2] = arg[r].signal
  <1>1. arg[r] \in [user: Users, signal: Signals, offer: Offers]
    BY RebookingAssumption DEF TypeOK
  <1>2. Price[arg[r].offer] \in Nat /\ Fee \in Nat
    BY <1>1, RebookingAssumption
  <1> QED
    BY <1>1, <1>2 DEF Key, Keys, Amount, AmountOf

(***************************************************************************)
(* The type invariant.                                                     *)
(***************************************************************************)
LEMMA TypeInit == Init => TypeOK
  BY DEF Init, TypeOK, IntentStates

LEMMA TypeStep == TypeOK /\ [Next]_vars => TypeOK'
  <1> SUFFICES ASSUME TypeOK, [Next]_vars PROVE TypeOK'
    OBVIOUS
  <1> USE DEF TypeOK, Goto
  <1>1. ASSUME NEW r \in Requests, Check(r) PROVE TypeOK'
    <2>1. Verdict(arg[r]) \in {"idle", "crashed"} \cup Steps \cup Answers
      BY DEF Verdict, Steps, Answers, Refusals
    <2> QED
      BY <1>1, <2>1 DEF Check
  <1>2. ASSUME NEW r \in Requests, CreateIntent(r) PROVE TypeOK'
    <2>1. Key(r) \in Keys /\ Amount(r) \in Nat
      BY KeyAmountType
    <2>2. intent' \in [Keys -> [state: IntentStates, amount: Nat]]
      BY <1>2, <2>1 DEF CreateIntent, IntentStates
    <2>3. pc' \in [Requests -> {"idle", "crashed"} \cup Steps \cup Answers]
      BY <1>2 DEF CreateIntent, Steps, Answers
    <2> QED
      BY <1>2, <2>2, <2>3 DEF CreateIntent
  <1>3. ASSUME NEW r \in Requests, CreateOrder(r) PROVE TypeOK'
    BY <1>3 DEF CreateOrder, Steps, Answers
  <1>4. ASSUME NEW r \in Requests, CancelIntent(r) PROVE TypeOK'
    <2>1. Key(r) \in Keys
      BY KeyAmountType
    <2>2. intent' \in [Keys -> [state: IntentStates, amount: Nat]]
      BY <1>4, <2>1 DEF CancelIntent, IntentStates
    <2>3. pc' \in [Requests -> {"idle", "crashed"} \cup Steps \cup Answers]
      BY <1>4 DEF CancelIntent, Steps, Answers
    <2> QED
      BY <1>4, <2>2, <2>3 DEF CancelIntent
  <1>5. ASSUME NEW r \in Requests, ConfirmIntent(r) PROVE TypeOK'
    <2>1. Key(r) \in Keys
      BY KeyAmountType
    <2>2. intent' \in [Keys -> [state: IntentStates, amount: Nat]]
      BY <1>5, <2>1 DEF ConfirmIntent, IntentStates
    <2>3. confirmed' \in [Keys -> {"none", "charged", "unpaid", "declined"}]
      BY <1>5, <2>1 DEF ConfirmIntent
    <2>4. pc' \in [Requests -> {"idle", "crashed"} \cup Steps \cup Answers]
      BY <1>5 DEF ConfirmIntent, Steps, Answers
    <2> QED
      BY <1>5, <2>2, <2>3, <2>4 DEF ConfirmIntent
  <1>6. ASSUME NEW r \in Requests, Commit(r) PROVE TypeOK'
    BY <1>6 DEF Commit, Steps, Answers
  <1>7. ASSUME NEW r \in Requests, QueueCard(r) PROVE TypeOK'
    BY <1>7 DEF QueueCard, Steps, Answers
  <1>8. ASSUME NEW r \in Requests, Push(r) PROVE TypeOK'
    BY <1>8 DEF Push, Answers
  <1>9. ASSUME NEW r \in Requests, Crash(r) PROVE TypeOK'
    BY <1>9 DEF Crash
  <1>10. CASE CacheOffers
    BY <1>10 DEF CacheOffers
  <1>11. ASSUME NEW o \in Offers, ExpireOffer(o) PROVE TypeOK'
    BY <1>11 DEF ExpireOffer
  <1>12. ASSUME NEW k \in Keys, Settle(k) PROVE TypeOK'
    BY <1>12 DEF Settle, IntentStates
  <1>13. CASE UNCHANGED vars
    BY <1>13 DEF vars
  <1> QED
    BY <1>1, <1>2, <1>3, <1>4, <1>5, <1>6, <1>7, <1>8, <1>9, <1>10, <1>11, <1>12,
       <1>13
    DEF Next, Handle

(* The variables keep their types: what Redis, Stripe, Duffel and Postgres  *)
(* hold, and where every request of POST /bookings/confirm can be.          *)
THEOREM TypeCorrect == Spec => []TypeOK
  BY TypeInit, TypeStep, PTL DEF Spec

-----------------------------------------------------------------------------
(***************************************************************************)
(* The inductive invariant.                                                *)
(***************************************************************************)
LEMMA InvInit == Init => IInv
  BY TypeInit DEF Init, IInv, Milestones, StoresAgree, BookingBacked,
     ChargedOnlyWithTicket, Charged, Owned, Opened, Ticketed, Accepted, Recorded,
     Carded, Fresh, Steps, Refusals

(* Stripe never reopens, reprices or un-charges an intent and never revises *)
(* the stored result of a confirmation, and the stores of orders, bookings  *)
(* and cards only grow.                                                     *)
LEMMA StoresMove ==
    ASSUME TypeOK, [Next]_vars
    PROVE  /\ arg' = arg
           /\ \A k \in Keys : intent[k].state # "none" =>
                 /\ intent'[k].state # "none"
                 /\ intent'[k].amount = intent[k].amount
                 /\ intent[k].state # "open" => intent'[k] = intent[k]
           /\ \A k \in Keys : confirmed[k] # "none" => confirmed'[k] = confirmed[k]
           /\ ordered \subseteq ordered'
           /\ booked \subseteq booked'
           /\ carded \subseteq carded'
  <1>1. ASSUME NEW r \in Requests, Handle(r)
        PROVE  /\ arg' = arg
               /\ ordered \subseteq ordered'
               /\ booked \subseteq booked'
               /\ carded \subseteq carded'
    BY <1>1 DEF Handle, Check, CreateIntent, CreateOrder, CancelIntent,
       ConfirmIntent, Commit, QueueCard, Push, Crash
  <1>2. ASSUME NEW r \in Requests, Handle(r), NEW k \in Keys,
               intent[k].state # "none"
        PROVE  /\ intent'[k].state # "none"
               /\ intent'[k].amount = intent[k].amount
               /\ intent[k].state # "open" => intent'[k] = intent[k]
    <2>1. CASE UNCHANGED intent
      BY <1>2, <2>1
    <2>2. CASE CreateIntent(r) \/ CancelIntent(r) \/ ConfirmIntent(r)
      <3>1. Key(r) \in Keys
        BY KeyAmountType
      <3> QED
        BY <1>2, <2>2, <3>1
        DEF CreateIntent, CancelIntent, ConfirmIntent, TypeOK, IntentStates
    <2> QED
      BY <1>2, <2>1, <2>2 DEF Handle, Check, CreateOrder, Commit, QueueCard,
         Push, Crash
  <1>3. ASSUME NEW r \in Requests, Handle(r), NEW k \in Keys,
               confirmed[k] # "none"
        PROVE  confirmed'[k] = confirmed[k]
    <2>1. Key(r) \in Keys
      BY KeyAmountType
    <2> QED
      BY <1>3, <2>1 DEF Handle, Check, CreateIntent, CreateOrder, CancelIntent,
         ConfirmIntent, Commit, QueueCard, Push, Crash, TypeOK
  <1>4. ASSUME NEW s \in Keys, Settle(s), NEW k \in Keys,
               intent[k].state # "none"
        PROVE  /\ intent'[k].state # "none"
               /\ intent'[k].amount = intent[k].amount
               /\ intent[k].state # "open" => intent'[k] = intent[k]
    BY <1>4 DEF Settle, TypeOK, IntentStates
  <1> QED
    BY <1>1, <1>2, <1>3, <1>4 DEF Next, vars, Settle, CacheOffers, ExpireOffer

(* What the other requests rely on survives a step of one request.          *)
LEMMA OthersKeepMilestones ==
    ASSUME IInv, [Next]_vars, NEW q \in Requests, pc'[q] = pc[q],
           q \in ordered' => q \in ordered,
           q \in booked' => q \in booked,
           q \in carded' => q \in carded
    PROVE  Milestones(q)'
  <1>1. /\ TypeOK
        /\ Milestones(q)
    BY DEF IInv
  <1>2. Key(q) \in Keys
    BY <1>1, KeyAmountType
  <1>3. /\ Key(q)' = Key(q)
        /\ Amount(q)' = Amount(q)
    BY <1>1, StoresMove DEF Key, Amount
  <1>4. intent[Key(q)].state # "none" =>
          /\ intent'[Key(q)].state # "none"
          /\ intent'[Key(q)].amount = intent[Key(q)].amount
          /\ intent[Key(q)].state # "open" => intent'[Key(q)] = intent[Key(q)]
    BY <1>1, <1>2, StoresMove
  <1>6. confirmed[Key(q)] \in {"charged", "unpaid"} =>
          confirmed'[Key(q)] \in {"charged", "unpaid"}
    BY <1>1, <1>2, StoresMove
  <1>5. /\ ordered \subseteq ordered' /\ booked \subseteq booked'
        /\ carded \subseteq carded' /\ arg' = arg
    BY <1>1, StoresMove
  <1> QED
    BY <1>1, <1>3, <1>4, <1>5, <1>6 DEF Milestones, Owned, Opened, Ticketed,
       Accepted, Recorded, Carded, Fresh

LEMMA InvStep == IInv /\ [Next]_vars => IInv'
  <1> SUFFICES ASSUME IInv, [Next]_vars PROVE IInv'
    OBVIOUS
  <1>1. TypeOK /\ TypeOK'
    BY TypeStep DEF IInv
  <1>2. \A r \in Requests : Key(r) \in Keys
    BY <1>1, KeyAmountType
  <1>3. /\ arg' = arg
        /\ \A r \in Requests : Key(r)' = Key(r) /\ Amount(r)' = Amount(r)
    BY <1>1, StoresMove DEF Key, Amount
  <1>4. ASSUME NEW r \in Requests, Handle(r) PROVE IInv'
    <2>1. Milestones(r)
      BY DEF IInv
    <2>2. Milestones(r)'
      <3>1. Check(r) => Milestones(r)'
        BY <1>1, <1>3, <2>1 DEF Check, Verdict, Goto, Milestones, Owned, Opened,
           Ticketed, Accepted, Recorded, Carded, Fresh, Steps, Refusals, TypeOK
      <3>2. CreateIntent(r) => Milestones(r)'
        BY <1>1, <1>2, <1>3, <2>1, KeyAmountType DEF CreateIntent, Replayable,
           Goto, Milestones, Owned, Opened, Ticketed, Accepted, Recorded, Carded,
           Fresh, Steps, Refusals, TypeOK
      <3>3. CreateOrder(r) => Milestones(r)'
        BY <1>1, <1>3, <2>1 DEF CreateOrder, Goto, Milestones, Owned, Opened,
           Ticketed, Accepted, Recorded, Carded, Fresh, Steps, Refusals, TypeOK
      <3>4. CancelIntent(r) => Milestones(r)'
        BY <1>1, <1>2, <1>3, <2>1 DEF CancelIntent, Goto, Milestones, Owned,
           Opened, Ticketed, Accepted, Recorded, Carded, Fresh, Steps, Refusals,
           TypeOK
      <3>5. ConfirmIntent(r) => Milestones(r)'
        BY <1>1, <1>2, <1>3, <2>1 DEF ConfirmIntent, Goto, Milestones, Owned,
           Opened, Ticketed, Accepted, Recorded, Carded, Fresh, Steps, Refusals,
           TypeOK
      <3>6. Commit(r) => Milestones(r)'
        BY <1>1, <1>3, <2>1 DEF Commit, Goto, Milestones, Charged, Owned,
           Opened, Ticketed, Accepted, Recorded, Carded, Fresh, Steps, Refusals,
           TypeOK
      <3>7. QueueCard(r) => Milestones(r)'
        BY <1>1, <1>3, <2>1 DEF QueueCard, Goto, Milestones, Charged, Owned,
           Opened, Ticketed, Accepted, Recorded, Carded, Fresh, Steps, Refusals,
           TypeOK
      <3>8. Push(r) \/ Crash(r) => Milestones(r)'
        BY <1>1, <1>3, <2>1 DEF Push, Crash, Goto, Milestones, Charged, Owned,
           Opened, Ticketed, Accepted, Recorded, Carded, Fresh, Steps, Refusals,
           TypeOK
      <3> QED
        BY <1>4, <3>1, <3>2, <3>3, <3>4, <3>5, <3>6, <3>7, <3>8 DEF Handle
    <2>3. ASSUME NEW q \in Requests, q # r PROVE Milestones(q)'
      <3>1. /\ pc'[q] = pc[q]
            /\ q \in ordered' => q \in ordered
            /\ q \in booked' => q \in booked
            /\ q \in carded' => q \in carded
        BY <1>1, <1>4, <2>3 DEF Handle, Check, CreateIntent, CreateOrder,
           CancelIntent, ConfirmIntent, Commit, QueueCard, Push, Crash, Goto,
           TypeOK
      <3> QED
        BY <3>1, OthersKeepMilestones
    <2>4. BookingBacked'
      <3>1. ASSUME NEW b \in booked'
            PROVE  /\ b \in ordered'
                   /\ (Charged(Key(b)) \/ confirmed[Key(b)] = "unpaid")'
                   /\ (intent[Key(b)].amount = Amount(b))'
        <4>1. CASE b \in booked
          <5>1. b \in Requests /\ Key(b) \in Keys
            BY <1>1, <1>2, <4>1 DEF TypeOK
          <5>2. /\ b \in ordered
                /\ intent[Key(b)].amount = Amount(b)
                /\ Charged(Key(b)) \/ confirmed[Key(b)] = "unpaid"
            BY <4>1 DEF IInv, StoresAgree, BookingBacked
          <5>3. /\ intent[Key(b)].state # "none"
                /\ Charged(Key(b)) => Charged(Key(b))'
            <6>1. intent[Key(b)].state # "none"
              BY <5>1, <5>2 DEF IInv, StoresAgree, Charged
            <6> QED
              BY <1>1, <1>3, <5>1, <6>1, StoresMove DEF Charged
          <5> QED
            BY <1>1, <1>3, <5>1, <5>2, <5>3, StoresMove
        <4>2. CASE b \notin booked
          <5>1. Commit(r) /\ b = r
            BY <1>4, <3>1, <4>2 DEF Handle, Check, CreateIntent, CreateOrder,
               CancelIntent, ConfirmIntent, Commit, QueueCard, Push, Crash
          <5>2. confirmed[Key(r)] = "charged" => Charged(Key(r))
            BY <1>2 DEF IInv, StoresAgree
          <5> QED
            BY <1>3, <2>1, <5>1, <5>2 DEF Commit, Milestones, Charged, Accepted,
               Ticketed, Opened, Owned, Steps
        <4> QED
          BY <4>1, <4>2
      <3> QED
        BY <3>1 DEF BookingBacked
    <2>5. ChargedOnlyWithTicket'
      <3>1. ASSUME NEW k \in Keys, Charged(k)'
            PROVE  \E q \in ordered' : Key(q)' = k
        <4>1. CASE Charged(k)
          <5>1. PICK q \in ordered : Key(q) = k
            BY <4>1 DEF IInv, StoresAgree, ChargedOnlyWithTicket
          <5>2. q \in ordered' /\ q \in Requests
            BY <1>1, <5>1, StoresMove DEF TypeOK
          <5> QED
            BY <1>3, <5>1, <5>2
        <4>2. CASE ~Charged(k)
          <5>1. ConfirmIntent(r) /\ Key(r) = k
            BY <1>1, <1>2, <1>4, <3>1, <4>2 DEF Charged, Handle, Check,
               CreateIntent, CreateOrder, CancelIntent, ConfirmIntent, Commit,
               QueueCard, Push, Crash, TypeOK
          <5>2. r \in ordered'
            BY <2>1, <5>1 DEF ConfirmIntent, Milestones, Ticketed
          <5> QED
            BY <1>3, <5>1, <5>2
        <4> QED
          BY <4>1, <4>2
      <3> QED
        BY <3>1 DEF ChargedOnlyWithTicket
    <2>6. ASSUME NEW k \in Keys, confirmed'[k] = "charged" PROVE Charged(k)'
      <3>1. CASE ConfirmIntent(r)
        BY <1>1, <1>2, <2>6, <3>1 DEF ConfirmIntent, IInv, StoresAgree, Charged,
           TypeOK
      <3>2. CASE confirmed' = confirmed
        BY <1>1, <2>6, <3>2, StoresMove DEF IInv, StoresAgree, Charged, TypeOK
      <3> QED
        BY <1>4, <3>1, <3>2 DEF Handle, Check, CreateIntent, CreateOrder,
           CancelIntent, Commit, QueueCard, Push, Crash
    <2>7. ASSUME NEW k \in Keys, intent'[k].state # "none"
          PROVE  k[1] = Owner[k[2]]
      <3>1. CASE intent[k].state # "none"
        BY <3>1 DEF IInv, StoresAgree
      <3>2. CASE intent[k].state = "none"
        <4>1. CreateIntent(r) /\ Key(r) = k
          BY <1>1, <1>2, <1>4, <2>7, <3>2 DEF Handle, Check, CreateIntent,
             CreateOrder, CancelIntent, ConfirmIntent, Commit, QueueCard, Push,
             Crash, TypeOK
        <4> QED
          BY <1>1, <2>1, <4>1, KeyAmountType DEF CreateIntent, Milestones,
             Owned, Steps
      <3> QED
        BY <3>1, <3>2
    <2>8. ASSUME NEW k \in Keys, confirmed'[k] \in {"charged", "unpaid"}
          PROVE  /\ intent'[k].state # "none"
                 /\ \E q \in ordered' : (Key(q) = k)'
      <3>1. CASE confirmed[k] \in {"charged", "unpaid"}
        <4>1. PICK q \in ordered : Key(q) = k
          BY <3>1 DEF IInv, StoresAgree
        <4>2. q \in ordered' /\ q \in Requests
          BY <1>1, <4>1, StoresMove DEF TypeOK
        <4>3. intent'[k].state # "none"
          BY <1>1, <3>1, StoresMove DEF IInv, StoresAgree
        <4> QED
          BY <1>3, <4>1, <4>2, <4>3
      <3>2. CASE confirmed[k] \notin {"charged", "unpaid"}
        <4>1. ConfirmIntent(r) /\ Key(r) = k
          BY <1>1, <1>2, <1>4, <2>8, <3>2 DEF Handle, Check, CreateIntent,
             CreateOrder, CancelIntent, ConfirmIntent, Commit, QueueCard, Push,
             Crash, TypeOK
        <4>2. r \in ordered'
          BY <2>1, <4>1 DEF ConfirmIntent, Milestones, Ticketed
        <4>3. intent[k].state # "none"
          BY <2>1, <4>1 DEF ConfirmIntent, Milestones, Opened, Owned, Steps
        <4>4. intent'[k].state # "none"
          BY <1>1, <4>3, StoresMove
        <4> QED
          BY <1>3, <4>1, <4>2, <4>4
      <3> QED
        BY <3>1, <3>2
    <2> QED
      BY <1>1, <2>2, <2>3, <2>4, <2>5, <2>6, <2>7, <2>8 DEF IInv, StoresAgree
  <1>5. CASE UNCHANGED <<arg, pc, intent, confirmed, ordered, booked, carded>>
    <2>1. \A q \in Requests : Milestones(q)'
      BY <1>5, OthersKeepMilestones
    <2>2. StoresAgree'
      BY <1>5 DEF IInv, StoresAgree, BookingBacked, ChargedOnlyWithTicket,
         Charged, Key, Amount
    <2> QED
      BY <1>1, <2>1, <2>2 DEF IInv
  <1>6. ASSUME NEW k \in Keys, Settle(k) PROVE IInv'
    <2>1. \A q \in Requests : Milestones(q)'
      BY <1>6, OthersKeepMilestones DEF Settle
    <2>2. \A p \in Keys : Charged(p)' => Charged(p) \/ p = k
      BY <1>1, <1>6 DEF Settle, Charged, TypeOK
    <2>3. BookingBacked'
      <3>1. ASSUME NEW b \in booked
            PROVE  /\ b \in ordered
                   /\ (Charged(Key(b)) \/ confirmed[Key(b)] = "unpaid")'
                   /\ (intent[Key(b)].amount = Amount(b))'
        <4>1. b \in Requests /\ Key(b) \in Keys
          BY <1>1, <1>2 DEF TypeOK
        <4> QED
          BY <1>1, <1>3, <1>6, <4>1, StoresMove
          DEF Settle, IInv, StoresAgree, BookingBacked, Charged
      <3> QED
        BY <1>6, <3>1 DEF Settle, BookingBacked
    <2>4. ChargedOnlyWithTicket'
      <3>1. \E q \in ordered : Key(q) = k
        BY <1>6 DEF Settle, IInv, StoresAgree
      <3>2. \A p \in Keys : Charged(p)' => \E q \in ordered : Key(q) = p
        BY <2>2, <3>1 DEF IInv, StoresAgree, ChargedOnlyWithTicket
      <3>3. ordered' = ordered /\ ordered \subseteq Requests
        BY <1>1, <1>6 DEF Settle, TypeOK
      <3> QED
        BY <1>3, <3>2, <3>3 DEF ChargedOnlyWithTicket
    <2>5. \A p \in Keys : confirmed'[p] = "charged" => Charged(p)'
      BY <1>1, <1>6, StoresMove DEF Settle, IInv, StoresAgree, Charged, TypeOK
    <2>6. \A p \in Keys : confirmed'[p] \in {"charged", "unpaid"} =>
             /\ intent'[p].state # "none"
             /\ \E q \in ordered' : (Key(q) = p)'
      <3>1. ordered' = ordered /\ ordered \subseteq Requests
        BY <1>1, <1>6 DEF Settle, TypeOK
      <3> QED
        BY <1>1, <1>3, <1>6, <3>1, StoresMove DEF Settle, IInv, StoresAgree
    <2>7. \A p \in Keys : intent'[p].state # "none" => p[1] = Owner[p[2]]
      BY <1>1, <1>6 DEF Settle, IInv, StoresAgree, TypeOK
    <2> QED
      BY <1>1, <2>1, <2>3, <2>4, <2>5, <2>6, <2>7 DEF IInv, StoresAgree
  <1> QED
    BY <1>4, <1>5, <1>6 DEF Next, vars, CacheOffers, ExpireOffer

LEMMA Inductive == Spec => []IInv
  BY InvInit, InvStep, PTL DEF Spec

-----------------------------------------------------------------------------
(* Whatever the interleaving of requests, retries, lost answers and crashes *)
(* of confirm_booking, no payment of any signal is charged unless an order  *)
(* was placed for it.                                                       *)
THEOREM NoChargeWithoutTicket == Spec => []ChargedOnlyWithTicket
  BY Inductive, PTL DEF IInv, StoresAgree

(* Every aviation_bookings row has its order and an intent of its amount,   *)
(* which is charged unless Stripe accepted the confirmation unpaid.         *)
THEOREM RowsAreBacked == Spec => []BookingBacked
  BY Inductive, PTL DEF IInv, StoresAgree

(* A signal is paid by its owner only.                                      *)
THEOREM OwnerPays == Spec => []ChargedOnceByOwner
  <1>1. IInv => ChargedOnceByOwner
    BY DEF IInv, StoresAgree, ChargedOnceByOwner, Charged
  <1> QED
    BY <1>1, Inductive, PTL

(* "Payment cancelled" is true, and stays true: no other request about the  *)
(* signal can charge anything afterwards, and none records a booking unless *)
(* Stripe had accepted a confirmation without charging it.                  *)
THEOREM CancelledStaysUnpaid == Spec => []PaymentCancelledIsTrue
  <1>1. IInv => PaymentCancelledIsTrue
    BY DEF IInv, Milestones, StoresAgree, BookingBacked, PaymentCancelledIsTrue,
       Charged
  <1> QED
    BY <1>1, Inductive, PTL

(* The answers 200 and 4xx say the truth about the orders, the rows and the *)
(* proof-card jobs of the request.                                          *)
THEOREM TrueAnswers == Spec => []AnswersAreTrue
  <1>1. IInv => AnswersAreTrue
    BY DEF IInv, Milestones, AnswersAreTrue, Ticketed, Accepted, Recorded, Carded,
       Fresh, Refusals
  <1> QED
    BY <1>1, Inductive, PTL

-----------------------------------------------------------------------------
(***************************************************************************)
(* The refinement: every step of the saga is a step of RebookingContract   *)
(* or leaves its variables alone.                                          *)
(***************************************************************************)
payment == [k \in Keys |-> intent[k].state]
accepted == {k \in Keys : confirmed[k] \in {"charged", "unpaid"}}
tickets == [k \in Keys |-> {r \in ordered : Key(r) = k}]
records == [k \in Keys |-> {r \in booked : Key(r) = k}]

contract == <<payment, accepted, tickets, records>>

LEMMA ContractInit == Init => Contract!Init
  BY DEF Init, Contract!Init

LEMMA ContractStep ==
    IInv /\ [Next]_vars => [Contract!Next]_contract
  <1> SUFFICES ASSUME IInv, [Next]_vars
               PROVE  Contract!Next \/ UNCHANGED contract
    BY DEF contract
  <1>1. TypeOK
    BY DEF IInv
  <1>2. \A r \in Requests : Key(r) \in Keys /\ Key(r)' = Key(r)
    BY <1>1, KeyAmountType, StoresMove DEF Key
  <1>3. ordered \subseteq Requests /\ booked \subseteq Requests
    BY <1>1 DEF TypeOK
  <1>4. ordered' = ordered => tickets' = tickets
    BY <1>2, <1>3 DEF tickets
  <1>5. booked' = booked => records' = records
    BY <1>2, <1>3 DEF records
  <1>6. intent' = intent => payment' = payment
    BY DEF payment
  <1>15. confirmed' = confirmed => accepted' = accepted
    BY DEF accepted
  <1>7. ASSUME NEW r \in Requests, NEW k \in Keys, k = Key(r), CreateIntent(r)
        PROVE  Contract!Open(k) \/ UNCHANGED contract
    <2>1. UNCHANGED <<accepted, tickets, records>>
      BY <1>4, <1>5, <1>7, <1>15 DEF CreateIntent
    <2>2. CASE UNCHANGED intent
      BY <1>6, <2>1, <2>2 DEF contract
    <2>3. CASE ~UNCHANGED intent
      <3>1. /\ intent[k].state = "none"
            /\ intent' = [intent EXCEPT ![k] =
                             [state |-> "open", amount |-> Amount(r)]]
        BY <1>7, <2>3 DEF CreateIntent
      <3>2. payment' = [payment EXCEPT ![k] = "open"]
        BY <1>1, <1>2, <3>1 DEF payment, TypeOK
      <3> QED
        BY <1>2, <2>1, <3>1, <3>2 DEF Contract!Open, payment, accepted, tickets,
           records
    <2> QED
      BY <2>2, <2>3
  <1>8. ASSUME NEW r \in Requests, NEW k \in Keys, k = Key(r), CreateOrder(r)
        PROVE  Contract!Issue(k, r) \/ UNCHANGED contract
    <2>1. UNCHANGED <<payment, accepted, records>>
      BY <1>5, <1>6, <1>8, <1>15 DEF CreateOrder
    <2>2. CASE ordered' = ordered
      BY <1>4, <2>1, <2>2 DEF contract
    <2>3. CASE ordered' = ordered \cup {r}
      <3>1. tickets' = [tickets EXCEPT ![k] = @ \cup {r}]
        BY <1>2, <1>3, <1>8, <2>3 DEF tickets
      <3>2. payment[k] # "none"
        BY <1>2, <1>8 DEF CreateOrder, IInv, Milestones, Opened, Owned, Steps,
           payment
      <3> QED
        BY <2>1, <3>1, <3>2 DEF Contract!Issue, payment, accepted, tickets,
           records
    <2> QED
      BY <1>8, <2>2, <2>3 DEF CreateOrder
  <1>9. ASSUME NEW r \in Requests, NEW k \in Keys, k = Key(r), CancelIntent(r)
        PROVE  Contract!Cancel(k) \/ UNCHANGED contract
    <2>1. UNCHANGED <<accepted, tickets, records>>
      BY <1>4, <1>5, <1>9, <1>15 DEF CancelIntent
    <2>2. CASE UNCHANGED intent
      BY <1>6, <2>1, <2>2 DEF contract
    <2>3. CASE ~UNCHANGED intent
      <3>1. /\ intent[k].state = "open"
            /\ intent' = [intent EXCEPT ![k].state = "canceled"]
        BY <1>9, <2>3 DEF CancelIntent
      <3>2. payment' = [payment EXCEPT ![k] = "canceled"]
        BY <1>1, <1>2, <3>1 DEF payment, TypeOK
      <3> QED
        BY <1>2, <2>1, <3>1, <3>2 DEF Contract!Cancel, payment, accepted, tickets,
           records
    <2> QED
      BY <2>2, <2>3
  <1>10. ASSUME NEW r \in Requests, NEW k \in Keys, k = Key(r), ConfirmIntent(r)
         PROVE  Contract!Accept(k) \/ UNCHANGED contract
    <2>1. UNCHANGED <<tickets, records>>
      BY <1>4, <1>5, <1>10 DEF ConfirmIntent
    <2>2. r \in tickets[k]
      BY <1>2, <1>10 DEF ConfirmIntent, IInv, Milestones, Ticketed, tickets
    <2>3. CASE UNCHANGED <<intent, confirmed>>
      BY <1>6, <1>15, <2>1, <2>3 DEF contract
    <2>4. CASE confirmed' = [confirmed EXCEPT ![k] = "declined"]
               /\ confirmed[k] = "none" /\ UNCHANGED intent
      <3>1. accepted' = accepted
        BY <1>1, <2>4 DEF accepted, TypeOK
      <3> QED
        BY <1>6, <2>1, <2>4, <3>1 DEF contract
    <2>5. CASE /\ confirmed[k] = "none"
               /\ intent[k].state = "open"
               /\ \/ /\ intent' = [intent EXCEPT ![k].state = "succeeded"]
                     /\ confirmed' = [confirmed EXCEPT ![k] = "charged"]
                  \/ /\ confirmed' = [confirmed EXCEPT ![k] = "unpaid"]
                     /\ UNCHANGED intent
      <3>1. accepted' = accepted \cup {k} /\ k \notin accepted
        BY <1>1, <2>5 DEF accepted, TypeOK
      <3>2. payment' \in {payment, [payment EXCEPT ![k] = "succeeded"]}
        BY <1>1, <1>6, <2>5 DEF payment, TypeOK
      <3>3. payment[k] = "open"
        BY <2>5 DEF payment
      <3> QED
        BY <2>1, <2>2, <3>1, <3>2, <3>3
        DEF Contract!Accept, payment, accepted, tickets, records
    <2> QED
      BY <1>10, <2>3, <2>4, <2>5 DEF ConfirmIntent
  <1>11. ASSUME NEW r \in Requests, NEW k \in Keys, k = Key(r), Commit(r)
         PROVE  Contract!Record(k, r) \/ UNCHANGED contract
    <2>1. UNCHANGED <<payment, accepted, tickets>>
      BY <1>4, <1>6, <1>11, <1>15 DEF Commit
    <2>2. CASE booked' = booked
      BY <1>5, <2>1, <2>2 DEF contract
    <2>3. CASE booked' = booked \cup {r}
      <3>1. records' = [records EXCEPT ![k] = @ \cup {r}]
        BY <1>2, <1>3, <1>11, <2>3 DEF records
      <3>2. k \in accepted /\ r \in tickets[k]
        BY <1>2, <1>11 DEF Commit, IInv, Milestones, Ticketed, Accepted,
           accepted, tickets
      <3> QED
        BY <2>1, <3>1, <3>2 DEF Contract!Record, payment, accepted, tickets,
           records
    <2> QED
      BY <1>11, <2>2, <2>3 DEF Commit
  <1>12. ASSUME NEW r \in Requests,
                Check(r) \/ QueueCard(r) \/ Push(r) \/ Crash(r)
         PROVE  UNCHANGED contract
    BY <1>4, <1>5, <1>6, <1>12, <1>15 DEF Check, QueueCard, Push, Crash, contract
  <1>13. CASE CacheOffers \/ (\E o \in Offers : ExpireOffer(o)) \/ UNCHANGED vars
    BY <1>4, <1>5, <1>6, <1>13, <1>15 DEF CacheOffers, ExpireOffer, vars,
       contract
  <1>16. ASSUME NEW k \in Keys, Settle(k) PROVE Contract!Charge(k)
    <2>1. UNCHANGED <<accepted, tickets, records>>
      BY <1>4, <1>5, <1>15, <1>16 DEF Settle
    <2>2. payment' = [payment EXCEPT ![k] = "succeeded"]
      BY <1>1, <1>16 DEF Settle, payment, TypeOK
    <2>3. payment[k] = "open" /\ k \in accepted
      BY <1>16 DEF Settle, payment, accepted
    <2> QED
      BY <2>1, <2>2, <2>3
      DEF Contract!Charge, payment, accepted, tickets, records
  <1>14. ASSUME NEW r \in Requests, Handle(r)
         PROVE  Contract!Next \/ UNCHANGED contract
    <2>1. PICK k \in Keys : k = Key(r)
      BY <1>2
    <2>2. \/ Contract!Open(k) \/ Contract!Issue(k, r) \/ Contract!Cancel(k)
          \/ Contract!Accept(k) \/ Contract!Record(k, r)
          \/ UNCHANGED contract
      BY <1>7, <1>8, <1>9, <1>10, <1>11, <1>12, <1>14, <2>1 DEF Handle
    <2> QED
      BY <2>2 DEF Contract!Next
  <1> QED
    BY <1>13, <1>14, <1>16 DEF Next, Contract!Next

(* confirm_booking implements the contract: a payment is accepted and       *)
(* charged only with a ticket and cancelled only while open, a booking is   *)
(* recorded only for a ticket of an accepted payment.                       *)
THEOREM ImplementsContract == Spec => ContractSpec
  <1>1. Init => Contract!Init
    BY ContractInit
  <1>2. IInv /\ [Next]_vars => [Contract!Next]_contract
    BY ContractStep
  <1> QED
    BY <1>1, <1>2, Inductive, PTL
    DEF Spec, ContractSpec, Contract!Spec, contract, payment, accepted, tickets,
        records

=============================================================================
