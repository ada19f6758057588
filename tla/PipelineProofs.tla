--------------------------- MODULE PipelineProofs ---------------------------
(***************************************************************************)
(* Proofs about DisruptionPipeline, for any number of deliveries, flights  *)
(* and tasks.  Everything rests on one fact about the list: it holds the   *)
(* last deliveries in their order, so that a delivery popped by a task is  *)
(* on it no more and no other task has it.  What a step of a task relies   *)
(* on (StepsHold) is then untouched by every other task.                   *)
(***************************************************************************)
EXTENDS DisruptionPipeline, FiniteSetTheorems, TLAPS

(* the signal that a task is about to confirm, or to queue a card for *)
Targets ==
    \A w \in Drainers : drain[w].step \in {"confirm", "queue_card"} =>
        drain[w].target \in Deliveries

Typed == TypeOK /\ Targets

(* the deliveries that are still on the list are the last ones, in order *)
ListInOrder ==
    /\ Len(queue) <= received
    /\ \A k \in 1..Len(queue) : queue[k] = (received - Len(queue)) + k

Popped(n) == n <= received - Len(queue)

(* a task works on a delivery that was popped, and works on it alone *)
OneTaskEach ==
    /\ \A w \in Drainers : drain[w].step # "idle" => Popped(drain[w].item)
    /\ \A v, w \in Drainers :
          /\ drain[v].step # "idle"
          /\ drain[w].step # "idle"
          /\ drain[v].item = drain[w].item
          => v = w

(* nothing was done about a delivery that was not popped *)
Untouched ==
    \A n \in Deliveries : ~Popped(n) => n \notin fired /\ pushes[n] = 0

(* what each step of a drain task relies on *)
Holds(w) ==
    /\ drain[w].step \in {"resolve", "fire"} =>
          drain[w].item \notin fired /\ pushes[drain[w].item] = 0
    /\ drain[w].step = "store" =>
          /\ drain[w].item \in fired \ stored
          /\ pushes[drain[w].item] = 0
          /\ event[drain[w].item].kind = "alert"
    /\ drain[w].step = "notify" =>
          /\ drain[w].item \in stored
          /\ pushes[drain[w].item] = 0
          /\ event[drain[w].item].kind = "alert"
    /\ drain[w].step = "confirm" => drain[w].target \in fired
    /\ drain[w].step = "queue_card" => drain[w].target \in confirmed

StepsHold == \A w \in Drainers : Holds(w)

(* the commits of one signal come in their order *)
CommitsInOrder ==
    /\ stored \subseteq fired
    /\ confirmed \subseteq fired

(* a rendering task goes on with confirmed signals only *)
RendersConfirmed ==
    \A p \in Renderers : render[p].step \in {"commit", "push"} =>
        render[p].item \in confirmed

IInv ==
    /\ Typed
    /\ ListInOrder
    /\ OneTaskEach
    /\ Untouched
    /\ StepsHold
    /\ CommitsInOrder
    /\ RendersConfirmed
    /\ AlertedOnceWithAlternatives
    /\ CardsOnlyForConfirmed

-----------------------------------------------------------------------------
(* Types. *)

LEMMA Numbering ==
    /\ Deliveries \subseteq Nat
    /\ Nobody \notin Deliveries
    /\ Numbers \subseteq Nat
    /\ Deliveries \subseteq Numbers
    /\ Nobody \in Numbers
  BY PipelineAssumption DEF Deliveries, Nobody, Numbers

LEMMA TypeInit == Init => Typed
  BY Numbering, PipelineAssumption
  DEF Init, Typed, TypeOK, Targets, Free, DrainSteps, RenderSteps, Nobody

(* the conjuncts of Typed about the drain tasks and the rendering tasks *)
DrainTyped ==
    /\ drain \in [Drainers -> [step: DrainSteps, item: Numbers, target: Numbers]]
    /\ \A w \in Drainers : drain[w].step # "idle" => drain[w].item \in Deliveries
    /\ Targets

RenderTyped ==
    /\ render \in [Renderers -> [step: RenderSteps, item: Numbers]]
    /\ \A p \in Renderers : render[p].step # "idle" => render[p].item \in Deliveries

LEMMA TaskEnds ==
  ASSUME DrainTyped, NEW w \in Drainers, drain' = [drain EXCEPT ![w] = Free]
  PROVE  DrainTyped'
  BY Numbering DEF DrainTyped, Targets, Free, DrainSteps

LEMMA TaskMoves ==
  ASSUME DrainTyped, NEW w \in Drainers, drain[w].step # "idle",
         NEW to \in DrainSteps \ {"confirm"},
         to = "queue_card" => drain[w].step = "confirm",
         drain' = [drain EXCEPT ![w].step = to]
  PROVE  DrainTyped'
  BY DEF DrainTyped, Targets

LEMMA TaskSelects ==
  ASSUME DrainTyped, NEW w \in Drainers, drain[w].step # "idle",
         NEW n \in Deliveries,
         drain' = [drain EXCEPT ![w].step = "confirm", ![w].target = n]
  PROVE  DrainTyped'
  BY Numbering DEF DrainTyped, Targets, DrainSteps

LEMMA RenderEnds ==
  ASSUME RenderTyped, NEW p \in Renderers, render' = [render EXCEPT ![p] = NoCard]
  PROVE  RenderTyped'
  BY Numbering DEF RenderTyped, NoCard, RenderSteps

LEMMA RenderMoves ==
  ASSUME RenderTyped, NEW p \in Renderers, render[p].step # "idle",
         NEW to \in RenderSteps, render' = [render EXCEPT ![p].step = to]
  PROVE  RenderTyped'
  BY DEF RenderTyped

LEMMA TypeStep == Typed /\ [Next]_vars => Typed'
  <1> SUFFICES ASSUME Typed, [Next]_vars PROVE Typed'
    OBVIOUS
  <1> USE Numbering DEF Typed, TypeOK, Targets
  <1>1. CASE Receive
    <2>1. received + 1 \in Deliveries /\ queue' = Append(queue, received + 1)
      BY <1>1 DEF Receive
    <2>2. queue \in Seq(Deliveries)
      OBVIOUS
    <2>3. queue' \in Seq(Deliveries)
      BY <2>1, <2>2
    <2> QED
      BY <1>1, <2>1, <2>3 DEF Receive
  <1>2. ASSUME NEW w \in Drainers, Pop(w) PROVE Typed'
    <2>1. queue \in Seq(Deliveries) /\ queue # <<>>
      BY <1>2 DEF Pop
    <2>2. Head(queue) \in Deliveries /\ Tail(queue) \in Seq(Deliveries)
      BY <2>1
    <2>3. drain' \in [Drainers -> [step: DrainSteps, item: Numbers, target: Numbers]]
      BY <1>2, <2>2 DEF Pop, DrainSteps
    <2>4. \A v \in Drainers :
             /\ drain'[v].step # "idle" => drain'[v].item \in Deliveries
             /\ drain'[v].step \in {"confirm", "queue_card"} =>
                   drain'[v].target \in Deliveries
      BY <1>2, <2>2 DEF Pop
    <2> QED
      BY <1>2, <2>2, <2>3, <2>4 DEF Pop
  <1>3. ASSUME NEW w \in Drainers, Resolve(w) PROVE Typed'
    <2>1. DrainTyped'
      BY <1>3, TaskEnds, TaskMoves
      DEF DrainTyped, Resolve, Step, Finish, DrainSteps
    <2> QED
      BY <1>3, <2>1 DEF Resolve, DrainTyped
  <1>4. ASSUME NEW w \in Drainers, Fire(w) PROVE Typed'
    <2>1. DrainTyped'
      BY <1>4, TaskEnds, TaskMoves DEF DrainTyped, Fire, Step, Finish, DrainSteps
    <2> QED
      BY <1>4, <2>1 DEF Fire, DrainTyped
  <1>5. ASSUME NEW w \in Drainers, Store(w) PROVE Typed'
    BY <1>5 DEF Store, Step, DrainSteps
  <1>6. ASSUME NEW w \in Drainers, Notify(w) PROVE Typed'
    <2>1. DrainTyped'
      BY <1>6, TaskEnds DEF DrainTyped, Notify, Finish
    <2>2. pushes' \in [Deliveries -> Nat]
      <3>1. drain[w].item \in Deliveries
            /\ pushes' = [pushes EXCEPT ![drain[w].item] = @ + 1]
        BY <1>6 DEF Notify, Finish
      <3>2. pushes \in [Deliveries -> Nat]
        OBVIOUS
      <3> QED
        BY ONLY <3>1, <3>2
    <2> QED
      BY <1>6, <2>1, <2>2 DEF Notify, DrainTyped
  <1>7. ASSUME NEW w \in Drainers, Select(w) PROVE Typed'
    <2>1. DrainTyped'
      <3>1. CASE Finish(w, "select")
        BY <3>1, TaskEnds DEF DrainTyped, Finish
      <3>2. CASE ~Finish(w, "select")
        <4>1. PICK latest \in fired :
                 drain' = [drain EXCEPT ![w].step = "confirm", ![w].target = latest]
          BY <1>7, <3>2 DEF Select, Unconfirmed
        <4>2. latest \in Deliveries /\ drain[w].step = "select"
          BY <1>7, <4>1 DEF Select
        <4> QED
          BY <4>1, <4>2, TaskSelects DEF DrainTyped
      <3> QED
        BY <3>1, <3>2
    <2> QED
      BY <1>7, <2>1 DEF Select, DrainTyped
  <1>8. ASSUME NEW w \in Drainers, Confirm(w) PROVE Typed'
    BY <1>8 DEF Confirm, Step, DrainSteps
  <1>9. ASSUME NEW w \in Drainers, QueueCard(w) PROVE Typed'
    <2>1. cards' \in Seq(Deliveries)
      <3>1. cards \in Seq(Deliveries) /\ drain[w].target \in Deliveries
            /\ cards' = Append(cards, drain[w].target)
        BY <1>9 DEF QueueCard, Finish
      <3> QED
        BY <3>1
    <2> QED
      BY <1>9, <2>1 DEF QueueCard, Finish, Free, DrainSteps
  <1>10. ASSUME NEW w \in Drainers, DrainFails(w) PROVE Typed'
    <2>1. lost' \in SUBSET ({"payload", "card"} \X Deliveries)
      BY <1>10 DEF DrainFails
    <2>2. pushes' \in [Deliveries -> Nat]
      BY <1>10 DEF DrainFails
    <2>3. /\ drain' = [drain EXCEPT ![w] = Free]
          /\ UNCHANGED <<event, received, queue, fired, stored, confirmed,
                         cards, render, carded, bookings>>
      BY <1>10 DEF DrainFails
    <2> QED
      BY <2>1, <2>2, <2>3 DEF Free, DrainSteps
  <1>11. ASSUME NEW n \in Deliveries, BookingQueuesCard(n) PROVE Typed'
    <2>1. cards' \in Seq(Deliveries)
      <3>1. cards \in Seq(Deliveries) /\ cards' = Append(cards, n)
        BY <1>11 DEF BookingQueuesCard
      <3> QED
        BY <3>1
    <2>2. bookings' \in 0..MaxBookings
      BY <1>11, PipelineAssumption DEF BookingQueuesCard
    <2> QED
      BY <1>11, <2>1, <2>2 DEF BookingQueuesCard
  <1>12. ASSUME NEW p \in Renderers, PopCard(p) PROVE Typed'
    <2>1. cards \in Seq(Deliveries) /\ cards # <<>>
      BY <1>12 DEF PopCard
    <2>2. Head(cards) \in Deliveries /\ Tail(cards) \in Seq(Deliveries)
      BY <2>1
    <2> QED
      BY <1>12, <2>2 DEF PopCard, RenderSteps
  <1>13. ASSUME NEW p \in Renderers, Load(p) PROVE Typed'
    <2>1. RenderTyped'
      BY <1>13, RenderEnds, RenderMoves
      DEF RenderTyped, Load, RenderStep, RenderDone, RenderSteps
    <2> QED
      BY <1>13, <2>1 DEF Load, RenderTyped
  <1>14. ASSUME NEW p \in Renderers, CommitCard(p) PROVE Typed'
    <2>1. RenderTyped' /\ render[p].item \in Deliveries
      BY <1>14, RenderMoves DEF RenderTyped, CommitCard, RenderStep, RenderSteps
    <2> QED
      BY <1>14, <2>1 DEF CommitCard, RenderTyped
  <1>15. ASSUME NEW p \in Renderers, PushCard(p) \/ RenderFails(p) PROVE Typed'
    <2>1. RenderTyped'
      BY <1>15, RenderEnds DEF RenderTyped, PushCard, RenderFails, RenderDone
    <2>2. lost' \in SUBSET ({"payload", "card"} \X Deliveries)
      BY <1>15 DEF PushCard, RenderFails
    <2> QED
      BY <1>15, <2>1, <2>2 DEF PushCard, RenderFails, RenderTyped
  <1>16. CASE UNCHANGED vars
    BY <1>16 DEF vars
  <1> QED
    BY <1>1, <1>2, <1>3, <1>4, <1>5, <1>6, <1>7, <1>8, <1>9, <1>10, <1>11,
       <1>12, <1>13, <1>14, <1>15, <1>16 DEF Next, DrainWorks, RenderWorks

(* The lists, the signals and the tasks of the pipeline keep their types.   *)
THEOREM TypeCorrect == Spec => []TypeOK
  BY TypeInit, TypeStep, PTL DEF Spec, Typed

-----------------------------------------------------------------------------
(* The invariant. *)

LEMMA InvInit == Init => IInv
  BY TypeInit, Numbering
  DEF Init, IInv, Typed, ListInOrder, OneTaskEach, Untouched, Popped, StepsHold,
      Holds, CommitsInOrder, RendersConfirmed, AlertedOnceWithAlternatives,
      CardsOnlyForConfirmed, Free

LEMMA ListMoves ==
  [Next]_vars =>
     Receive \/ (\E w \in Drainers : Pop(w)) \/ UNCHANGED <<queue, received>>
  <1>1. ASSUME NEW w \in Drainers, DrainWorks(w) \/ DrainFails(w), ~Pop(w)
        PROVE  UNCHANGED <<queue, received>>
    BY <1>1 DEF DrainWorks, Resolve, Fire, Store, Notify, Select, Confirm,
       QueueCard, DrainFails
  <1>2. ASSUME NEW p \in Renderers, RenderWorks(p) \/ RenderFails(p)
        PROVE  UNCHANGED <<queue, received>>
    BY <1>2 DEF RenderWorks, PopCard, Load, CommitCard, PushCard, RenderFails
  <1> QED
    BY <1>1, <1>2 DEF Next, BookingQueuesCard, vars

LEMMA ListStep == IInv /\ [Next]_vars => ListInOrder'
  <1> SUFFICES ASSUME IInv, [Next]_vars PROVE ListInOrder'
    OBVIOUS
  <1>1. /\ ListInOrder
        /\ queue \in Seq(Deliveries) /\ received \in Nat /\ Len(queue) \in Nat
    BY Numbering DEF IInv, Typed, TypeOK
  <1>2. CASE Receive
    <2>1. queue' = Append(queue, received + 1) /\ received' = received + 1
          /\ received + 1 \in Deliveries
      BY <1>2 DEF Receive
    <2>2. Len(queue') = Len(queue) + 1
          /\ \A k \in 1..Len(queue') :
                queue'[k] = IF k = Len(queue) + 1 THEN received + 1 ELSE queue[k]
      BY <1>1, <2>1
    <2> QED
      BY <1>1, <2>1, <2>2 DEF ListInOrder
  <1>3. ASSUME NEW w \in Drainers, Pop(w) PROVE ListInOrder'
    <2>1. queue' = Tail(queue) /\ queue # <<>> /\ received' = received
      BY <1>3 DEF Pop
    <2>2. Len(queue') = Len(queue) - 1
          /\ \A k \in 1..Len(queue') : queue'[k] = queue[k + 1]
      BY <1>1, <2>1
    <2> QED
      BY <1>1, <2>1, <2>2 DEF ListInOrder
  <1>4. CASE UNCHANGED <<queue, received>>
    BY <1>1, <1>4 DEF ListInOrder
  <1> QED
    BY <1>2, <1>3, <1>4, ListMoves

(* the conjuncts of IInv about the drain tasks and their signals *)
DrainInv == OneTaskEach /\ Untouched /\ StepsHold /\ CommitsInOrder
                /\ AlertedOnceWithAlternatives

(* a step of one task that keeps its delivery, or ends, disturbs no other *)
LEMMA OneTaskKept ==
  ASSUME OneTaskEach, UNCHANGED <<received, queue>>,
         NEW w \in Drainers, drain[w].step # "idle",
         \A v \in Drainers \ {w} : drain'[v] = drain[v],
         drain'[w].step = "idle" \/ drain'[w].item = drain[w].item
  PROVE  OneTaskEach'
  <1>1. \A n : Popped(n)' <=> Popped(n)
    BY DEF Popped
  <1> QED
    BY <1>1 DEF OneTaskEach

LEMMA OthersHold ==
  ASSUME OneTaskEach, StepsHold, UNCHANGED event,
         \A v \in Drainers : drain[v].step # "idle" => drain[v].item \in Deliveries,
         NEW w \in Drainers, drain[w].step # "idle",
         \A v \in Drainers \ {w} : drain'[v] = drain[v],
         fired \subseteq fired', fired' \subseteq fired \cup {drain[w].item},
         stored \subseteq stored', stored' \subseteq stored \cup {drain[w].item},
         confirmed \subseteq confirmed',
         \A n \in Deliveries \ {drain[w].item} : pushes'[n] = pushes[n]
  PROVE  \A v \in Drainers \ {w} : Holds(v)'
  <1> SUFFICES ASSUME NEW v \in Drainers \ {w} PROVE Holds(v)'
    OBVIOUS
  <1>1. drain'[v] = drain[v] /\ Holds(v)
    BY DEF StepsHold
  <1>2. drain[v].step # "idle" =>
           drain[v].item \in Deliveries \ {drain[w].item}
    BY DEF OneTaskEach
  <1> QED
    BY <1>1, <1>2 DEF Holds

LEMMA DrainStep == IInv /\ [Next]_vars => DrainInv'
  <1> SUFFICES ASSUME IInv, [Next]_vars PROVE DrainInv'
    OBVIOUS
  <1>1. Typed /\ Typed' /\ ListInOrder /\ ListInOrder' /\ DrainInv
    BY TypeStep, ListStep DEF IInv, DrainInv
  <1>2. /\ received \in Nat /\ Len(queue) \in Nat /\ Deliveries \subseteq Nat
        /\ fired \subseteq Deliveries /\ stored \subseteq Deliveries
        /\ confirmed \subseteq Deliveries
        /\ pushes \in [Deliveries -> Nat]
        /\ drain \in [Drainers -> [step: DrainSteps, item: Numbers, target: Numbers]]
        /\ \A w \in Drainers : drain[w].step # "idle" => drain[w].item \in Deliveries
    BY <1>1, Numbering DEF Typed, TypeOK
  <1>3. CASE Receive
    <2>1. /\ queue' = Append(queue, received + 1) /\ received' = received + 1
          /\ UNCHANGED <<event, drain, fired, stored, pushes, confirmed>>
      BY <1>3 DEF Receive
    <2>2. Len(queue') = Len(queue) + 1
      BY <1>1, <2>1 DEF Typed, TypeOK
    <2>3. \A n \in Deliveries : Popped(n)' <=> Popped(n)
      BY <1>2, <2>1, <2>2 DEF Popped
    <2> QED
      BY <1>1, <1>2, <2>1, <2>3
      DEF DrainInv, OneTaskEach, Untouched, StepsHold, Holds, CommitsInOrder,
          AlertedOnceWithAlternatives
  <1>4. ASSUME NEW w \in Drainers, Pop(w) PROVE DrainInv'
    <2> DEFINE n == Head(queue)
    <2>1. /\ drain[w].step = "idle" /\ queue # <<>> /\ queue' = Tail(queue)
          /\ drain' = [drain EXCEPT ![w] =
                         [step |-> "resolve", item |-> n, target |-> Nobody]]
          /\ UNCHANGED <<event, received, fired, stored, pushes, confirmed>>
      BY <1>4 DEF Pop
    <2>2. /\ Len(queue') = Len(queue) - 1
          /\ n = queue[1] /\ n \in Deliveries /\ 1 \in 1..Len(queue)
      BY <1>1, <2>1 DEF Typed, TypeOK
    <2>3. n = (received - Len(queue)) + 1
      BY <1>1, <2>2 DEF ListInOrder
    <2> HIDE DEF n
    <2>4. ~Popped(n) /\ \A m \in Deliveries : Popped(m)' <=> Popped(m) \/ m = n
      <3>1. Len(queue') = Len(queue) - 1 /\ received' = received
        BY <2>1, <2>2
      <3> QED
        BY <1>2, <2>3, <3>1 DEF Popped
    <2>5. n \notin fired /\ pushes[n] = 0
      BY <1>1, <2>2, <2>4 DEF DrainInv, Untouched
    <2>6. \A v \in Drainers : drain[v].step # "idle" => drain[v].item # n
      BY <1>1, <2>4 DEF DrainInv, OneTaskEach
    <2>7. OneTaskEach'
      BY <1>1, <1>2, <2>1, <2>2, <2>4, <2>6 DEF DrainInv, OneTaskEach
    <2>8. Untouched' /\ CommitsInOrder' /\ AlertedOnceWithAlternatives'
      BY <1>1, <2>1, <2>4
      DEF DrainInv, Untouched, CommitsInOrder, AlertedOnceWithAlternatives
    <2>9. StepsHold'
      BY <1>1, <1>2, <2>1, <2>5 DEF DrainInv, StepsHold, Holds
    <2> QED
      BY <2>7, <2>8, <2>9 DEF DrainInv
  <1> DEFINE Moves(w) ==
        /\ drain[w].step # "idle"
        /\ UNCHANGED <<event, received, queue>>
        /\ \A v \in Drainers \ {w} : drain'[v] = drain[v]
        /\ drain'[w].step = "idle" \/ drain'[w].item = drain[w].item
  <1>5. ASSUME NEW w \in Drainers, Moves(w), Holds(w)',
               fired \subseteq fired', fired' \subseteq fired \cup {drain[w].item},
               stored \subseteq stored', stored' \subseteq stored \cup {drain[w].item},
               confirmed \subseteq confirmed',
               \A n \in Deliveries \ {drain[w].item} : pushes'[n] = pushes[n]
        PROVE  OneTaskEach' /\ Untouched' /\ StepsHold'
    <2>1. OneTaskEach' /\ \A v \in Drainers \ {w} : Holds(v)'
      BY <1>1, <1>2, <1>5, OneTaskKept, OthersHold DEF DrainInv
    <2>2. \A n : Popped(n)' <=> Popped(n)
      BY <1>5 DEF Popped
    <2>3. Popped(drain[w].item)
      BY <1>1, <1>5 DEF DrainInv, OneTaskEach
    <2>4. Untouched'
      BY <1>1, <1>5, <2>2, <2>3 DEF DrainInv, Untouched
    <2> QED
      BY <1>5, <2>1, <2>4 DEF StepsHold
  <1>6. ASSUME NEW w \in Drainers, Resolve(w) PROVE DrainInv'
    <2>1. Moves(w) /\ UNCHANGED <<fired, stored, pushes, confirmed>>
      BY <1>2, <1>6 DEF Resolve, Step, Finish, Free
    <2>2. Holds(w)'
      BY <1>1, <1>2, <1>6 DEF Resolve, Step, Finish, Free, DrainInv, StepsHold, Holds
    <2> QED
      BY <1>1, <1>5, <2>1, <2>2
      DEF DrainInv, CommitsInOrder, AlertedOnceWithAlternatives
  <1>7. ASSUME NEW w \in Drainers, Fire(w) PROVE DrainInv'
    <2>1. /\ Moves(w) /\ fired' = fired \cup {drain[w].item}
          /\ UNCHANGED <<stored, pushes, confirmed>>
      BY <1>2, <1>7 DEF Fire, Step, Finish, Free
    <2>2. drain[w].item \notin stored
      BY <1>1, <1>7 DEF Fire, DrainInv, StepsHold, Holds, CommitsInOrder
    <2>3. Holds(w)'
      BY <1>1, <1>2, <1>7, <2>2
      DEF Fire, Step, Finish, Free, DrainInv, StepsHold, Holds
    <2> QED
      BY <1>1, <1>5, <2>1, <2>3
      DEF DrainInv, CommitsInOrder, AlertedOnceWithAlternatives
  <1>8. ASSUME NEW w \in Drainers, Store(w) PROVE DrainInv'
    <2>1. /\ Moves(w) /\ stored' = stored \cup {drain[w].item}
          /\ UNCHANGED <<fired, pushes, confirmed>>
          /\ drain[w].item \in fired
      BY <1>1, <1>2, <1>8 DEF Store, Step, DrainInv, StepsHold, Holds
    <2>2. Holds(w)'
      BY <1>1, <1>2, <1>8 DEF Store, Step, DrainInv, StepsHold, Holds
    <2> QED
      BY <1>1, <1>5, <2>1, <2>2
      DEF DrainInv, CommitsInOrder, AlertedOnceWithAlternatives
  <1>9. ASSUME NEW w \in Drainers, drain[w].step # "idle",
               drain' = [drain EXCEPT ![w] = Free],
               \/ UNCHANGED pushes
               \/ /\ drain[w].step = "notify"
                  /\ pushes' = [pushes EXCEPT ![drain[w].item] = @ + 1],
               UNCHANGED <<event, received, queue, fired, stored, confirmed>>
        PROVE  DrainInv'
    <2>1. Moves(w) /\ Holds(w)'
      BY <1>2, <1>9 DEF Free, Holds
    <2>2. \A n \in Deliveries \ {drain[w].item} : pushes'[n] = pushes[n]
      BY <1>2, <1>9
    <2>3. AlertedOnceWithAlternatives'
      BY <1>1, <1>2, <1>9
      DEF DrainInv, StepsHold, Holds, AlertedOnceWithAlternatives
    <2> QED
      BY <1>1, <1>5, <1>9, <2>1, <2>2, <2>3 DEF DrainInv, CommitsInOrder
  <1>10. ASSUME NEW w \in Drainers, Select(w) PROVE DrainInv'
    <2>1. Moves(w) /\ UNCHANGED <<fired, stored, pushes, confirmed>>
      BY <1>2, <1>10 DEF Select, Finish, Free
    <2>2. Holds(w)'
      BY <1>2, <1>10 DEF Select, Unconfirmed, Finish, Free, Holds
    <2> QED
      BY <1>1, <1>5, <2>1, <2>2
      DEF DrainInv, CommitsInOrder, AlertedOnceWithAlternatives
  <1>11. ASSUME NEW w \in Drainers, Confirm(w) PROVE DrainInv'
    <2>1. /\ Moves(w) /\ confirmed' = confirmed \cup {drain[w].target}
          /\ UNCHANGED <<fired, stored, pushes>>
          /\ drain[w].target \in fired
      BY <1>1, <1>2, <1>11 DEF Confirm, Step, DrainInv, StepsHold, Holds
    <2>2. Holds(w)'
      BY <1>2, <1>11 DEF Confirm, Step, Holds
    <2> QED
      BY <1>1, <1>5, <2>1, <2>2
      DEF DrainInv, CommitsInOrder, AlertedOnceWithAlternatives
  <1>12. ASSUME NEW w \in Drainers, Notify(w) \/ QueueCard(w) \/ DrainFails(w)
         PROVE  DrainInv'
    BY <1>9, <1>12 DEF Notify, QueueCard, DrainFails, Finish
  <1>13. CASE UNCHANGED <<event, received, queue, drain, fired, stored, pushes,
                          confirmed>>
    BY <1>1, <1>13
    DEF DrainInv, OneTaskEach, Untouched, Popped, StepsHold, Holds,
        CommitsInOrder, AlertedOnceWithAlternatives
  <1>14. ASSUME NEW p \in Renderers, RenderWorks(p) \/ RenderFails(p)
         PROVE  UNCHANGED <<event, received, queue, drain, fired, stored, pushes,
                            confirmed>>
    BY <1>14 DEF RenderWorks, PopCard, Load, CommitCard, PushCard, RenderFails
  <1> QED
    BY <1>3, <1>4, <1>6, <1>7, <1>8, <1>10, <1>11, <1>12, <1>13, <1>14
    DEF Next, DrainWorks, BookingQueuesCard, vars

LEMMA InvStep == IInv /\ [Next]_vars => IInv'
  <1> SUFFICES ASSUME IInv, [Next]_vars PROVE IInv'
    OBVIOUS
  <1>1. Typed /\ Typed' /\ ListInOrder' /\ DrainInv'
    BY TypeStep, ListStep, DrainStep DEF IInv
  <1>2. RendersConfirmed /\ CardsOnlyForConfirmed
    BY DEF IInv
  <1> DEFINE Cards == RendersConfirmed /\ CardsOnlyForConfirmed
  <1> SUFFICES Cards'
    BY <1>1 DEF IInv, DrainInv
  <1> USE DEF RendersConfirmed, CardsOnlyForConfirmed
  <1>3. render \in [Renderers -> [step: RenderSteps, item: Numbers]]
    BY <1>1 DEF Typed, TypeOK
  <1>4. ASSUME NEW p \in Renderers, RenderWorks(p) \/ RenderFails(p) PROVE Cards'
    BY <1>2, <1>3, <1>4
    DEF RenderWorks, PopCard, Load, CommitCard, PushCard, RenderFails,
        RenderStep, RenderDone, NoCard
  <1>5. CASE UNCHANGED <<render, carded>> /\ confirmed \subseteq confirmed'
    BY <1>2, <1>5
  <1>6. ASSUME NEW w \in Drainers, DrainWorks(w) \/ DrainFails(w)
        PROVE  UNCHANGED <<render, carded>> /\ confirmed \subseteq confirmed'
    BY <1>6 DEF DrainWorks, Pop, Resolve, Fire, Store, Notify, Select, Confirm,
       QueueCard, DrainFails
  <1> QED
    BY <1>4, <1>5, <1>6 DEF Next, Receive, BookingQueuesCard, vars

LEMMA Inductive == Spec => []IInv
  BY InvInit, InvStep, PTL DEF Spec

(* No overlap of tasks, no redelivery and no failure alerts a subscriber    *)
(* twice about one delivery, nor before its alternatives are committed.     *)
THEOREM AlertsOnceAfterStore == Spec => []AlertedOnceWithAlternatives
  BY Inductive, PTL DEF IInv

(* A proof card is only ever published for a signal the airline confirmed,  *)
(* also when a booking queued the card.                                     *)
THEOREM CardsAfterConfirmation == Spec => []CardsOnlyForConfirmed
  BY Inductive, PTL DEF IInv

-----------------------------------------------------------------------------
(* Announcements and the signals they confirmed. *)

Announces(n) == event[n].kind = "confirmation" /\ FlightOf(n) \in Flights

(* A task that confirms holds an announcement, and a signal of its flight.  *)
AnnouncementsHeld ==
    \A w \in Drainers :
        /\ drain[w].step \in {"select", "confirm"} => Announces(drain[w].item)
        /\ drain[w].step = "confirm" =>
              FlightOf(drain[w].target) = FlightOf(drain[w].item)

(* a task holds the announcement and may confirm a signal for it yet *)
InHand(n) ==
    \E w \in Drainers :
        drain[w].item = n /\ drain[w].step \in {"resolve", "select", "confirm"}

(* the announcements for which no signal will be confirmed any more *)
Spent(f) == {m \in ConfirmationsOf(f) : Popped(m) /\ ~InHand(m)}

ConfirmedOf(f) == {n \in confirmed : FlightOf(n) = f}

(* ConfirmationsNotReused counts what was announced, and holds again after  *)
(* a commit only because the announcement in hand was not counted before.   *)
EnoughSpent ==
    \A f \in Flights : Cardinality(ConfirmedOf(f)) <= Cardinality(Spent(f))

LEMMA EventsStand == [Next]_vars => UNCHANGED event
  BY DEF Next, DrainWorks, RenderWorks, Receive, Pop, Resolve, Fire, Store,
     Notify, Select, Confirm, QueueCard, DrainFails, BookingQueuesCard,
     PopCard, Load, CommitCard, PushCard, RenderFails, vars

LEMMA AnnouncementsStep ==
  IInv /\ AnnouncementsHeld /\ [Next]_vars => AnnouncementsHeld'
  <1> SUFFICES ASSUME IInv, AnnouncementsHeld, [Next]_vars
               PROVE  AnnouncementsHeld'
    OBVIOUS
  <1>1. /\ drain \in [Drainers -> [step: DrainSteps, item: Numbers, target: Numbers]]
        /\ UNCHANGED event
    BY EventsStand DEF IInv, Typed, TypeOK
  <1>2. CASE UNCHANGED drain
    BY <1>1, <1>2 DEF AnnouncementsHeld, Announces, FlightOf
  <1>3. ASSUME NEW w \in Drainers,
               \A v \in Drainers \ {w} : drain'[v] = drain[v],
               /\ drain'[w].step \in {"select", "confirm"} =>
                     Announces(drain'[w].item)
               /\ drain'[w].step = "confirm" =>
                     FlightOf(drain'[w].target) = FlightOf(drain'[w].item)
        PROVE  AnnouncementsHeld'
    BY <1>1, <1>3 DEF AnnouncementsHeld, Announces, FlightOf
  <1>4. ASSUME NEW w \in Drainers, Resolve(w) PROVE AnnouncementsHeld'
    BY <1>1, <1>3, <1>4 DEF Resolve, Step, Finish, Free, Announces
  <1>5. ASSUME NEW w \in Drainers, Select(w) PROVE AnnouncementsHeld'
    BY <1>1, <1>3, <1>5
    DEF Select, Unconfirmed, Finish, Free, AnnouncementsHeld
  <1>6. ASSUME NEW w \in Drainers, DrainWorks(w) \/ DrainFails(w),
               ~Resolve(w), ~Select(w)
        PROVE  AnnouncementsHeld'
    <2>1. /\ \A v \in Drainers \ {w} : drain'[v] = drain[v]
          /\ drain'[w].step \notin {"select", "confirm"}
      BY <1>1, <1>6 DEF DrainWorks, Pop, Fire, Store, Notify, Confirm, QueueCard,
         DrainFails, Step, Finish, Free
    <2> QED
      BY <1>3, <2>1
  <1>7. CASE Receive \/ (\E n \in Deliveries : BookingQueuesCard(n))
               \/ \E p \in Renderers : RenderWorks(p) \/ RenderFails(p)
    BY <1>2, <1>7 DEF Receive, BookingQueuesCard, RenderWorks, PopCard, Load,
       CommitCard, PushCard, RenderFails
  <1> QED
    BY <1>2, <1>4, <1>5, <1>6, <1>7 DEF Next, vars

LEMMA FiniteCounts ==
  ASSUME TypeOK, NEW f
  PROVE  /\ IsFiniteSet(ConfirmationsOf(f)) /\ IsFiniteSet(Spent(f))
         /\ IsFiniteSet(ConfirmedOf(f))
         /\ Cardinality(Spent(f)) \in Nat /\ Cardinality(ConfirmedOf(f)) \in Nat
         /\ Cardinality(ConfirmationsOf(f)) \in Nat
  <1>1. IsFiniteSet(1..received)
    <2>1. received \in Nat
      BY Numbering DEF TypeOK
    <2>2. received \in Int /\ 1 \in Int
      BY <2>1
    <2> QED
      BY <2>2, FS_Interval
  <1>2. IsFiniteSet(Deliveries) /\ ConfirmedOf(f) \in SUBSET Deliveries
    <2>1. MaxDeliveries \in Int /\ 1 \in Int
      BY PipelineAssumption
    <2>2. IsFiniteSet(Deliveries)
      BY <2>1, FS_Interval DEF Deliveries
    <2> QED
      BY <2>2 DEF TypeOK, ConfirmedOf
  <1>3. /\ ConfirmationsOf(f) \in SUBSET (1..received)
        /\ Spent(f) \in SUBSET ConfirmationsOf(f)
    BY DEF ConfirmationsOf, Spent
  <1>4. IsFiniteSet(ConfirmationsOf(f)) /\ IsFiniteSet(ConfirmedOf(f))
    BY <1>1, <1>2, <1>3, FS_Subset
  <1>5. IsFiniteSet(Spent(f))
    BY <1>3, <1>4, FS_Subset
  <1> QED
    BY <1>4, <1>5, FS_CardinalityType

(* an announcement that is spent stays so *)
LEMMA SpentStays ==
  ASSUME IInv, [Next]_vars, NEW f
  PROVE  Spent(f) \subseteq Spent(f)'
  <1>1. /\ received \in Nat /\ Len(queue) \in Nat
        /\ queue \in Seq(Deliveries) /\ Deliveries \subseteq Nat
        /\ drain \in [Drainers -> [step: DrainSteps, item: Numbers, target: Numbers]]
    BY Numbering DEF IInv, Typed, TypeOK
  <1>2. ConfirmationsOf(f) \subseteq ConfirmationsOf(f)'
        /\ \A m \in Nat : Popped(m) => Popped(m)'
    <2>1. UNCHANGED event
      BY EventsStand
    <2>2. \/ UNCHANGED <<queue, received>>
          \/ Len(queue') = Len(queue) - 1 /\ received' = received
          \/ Len(queue') = Len(queue) + 1 /\ received' = received + 1
      BY <1>1, ListMoves DEF Receive, Pop
    <2> QED
      BY <1>1, <2>1, <2>2 DEF ConfirmationsOf, FlightOf, Popped
  <1> SUFFICES ASSUME NEW m \in Spent(f) PROVE ~InHand(m)'
    BY <1>1, <1>2 DEF Spent, ConfirmationsOf
  <1>3. Popped(m) /\ ~InHand(m)
    BY DEF Spent
  <1>4. CASE UNCHANGED drain
    BY <1>3, <1>4 DEF InHand
  <1>5. ASSUME NEW w \in Drainers, Pop(w) PROVE ~InHand(m)'
    <2>1. /\ queue # <<>> /\ m \in Nat
          /\ drain' = [drain EXCEPT ![w] =
                [step |-> "resolve", item |-> Head(queue), target |-> Nobody]]
      BY <1>5 DEF Pop, Spent, ConfirmationsOf
    <2>2. Head(queue) = (received - Len(queue)) + 1
      BY <1>1, <2>1 DEF IInv, ListInOrder
    <2>3. m # Head(queue)
      BY <1>1, <1>3, <2>1, <2>2 DEF Popped
    <2> QED
      BY <1>1, <1>3, <2>1, <2>3 DEF InHand
  <1>6. ASSUME NEW w \in Drainers, DrainWorks(w) \/ DrainFails(w), ~Pop(w)
        PROVE  ~InHand(m)'
    <2>1. /\ \A v \in Drainers \ {w} : drain'[v] = drain[v]
          /\ drain'[w].step \in {"resolve", "select", "confirm"} =>
                /\ drain[w].step \in {"resolve", "select", "confirm"}
                /\ drain'[w].item = drain[w].item
      BY <1>1, <1>6 DEF DrainWorks, Resolve, Fire, Store, Notify, Select, Confirm,
         QueueCard, DrainFails, Step, Finish, Free
    <2> QED
      BY <1>3, <2>1 DEF InHand
  <1>7. CASE Receive \/ (\E n \in Deliveries : BookingQueuesCard(n))
               \/ \E p \in Renderers : RenderWorks(p) \/ RenderFails(p)
    BY <1>4, <1>7 DEF Receive, BookingQueuesCard, RenderWorks, PopCard, Load,
       CommitCard, PushCard, RenderFails
  <1> QED
    BY <1>4, <1>5, <1>6, <1>7 DEF Next, vars

(* a commit spends the announcement that the task has in hand *)
LEMMA CommitSpends ==
  ASSUME IInv, AnnouncementsHeld, NEW w \in Drainers, Confirm(w),
         NEW n, n = drain[w].item, NEW f, f = FlightOf(n)
  PROVE  /\ n \notin Spent(f)
         /\ n \in Spent(f)'
         /\ ConfirmedOf(f)' = ConfirmedOf(f) \cup {drain[w].target}
         /\ \A g : g # f => ConfirmedOf(g)' = ConfirmedOf(g)
  <1>1. /\ drain \in [Drainers -> [step: DrainSteps, item: Numbers, target: Numbers]]
        /\ drain[w].step = "confirm" /\ drain' = [drain EXCEPT ![w].step = "queue_card"]
        /\ confirmed' = confirmed \cup {drain[w].target}
        /\ UNCHANGED <<event, received, queue>>
        /\ n \in Deliveries /\ received \in Nat /\ Len(queue) \in Nat
    BY Numbering DEF IInv, Typed, TypeOK, Confirm, Step
  <1>2. /\ Announces(n) /\ FlightOf(drain[w].target) = f
        /\ Popped(n) /\ n \in 1..received
    <2>1. Announces(n) /\ FlightOf(drain[w].target) = f
      BY <1>1 DEF AnnouncementsHeld
    <2>2. Popped(n)
      BY <1>1 DEF IInv, OneTaskEach
    <2>3. n \in Nat /\ n >= 1
      BY <1>1, PipelineAssumption DEF Deliveries
    <2> QED
      BY <1>1, <2>1, <2>2, <2>3 DEF Popped
  <1>3. InHand(n)
    BY <1>1 DEF InHand
  <1>4. ~InHand(n)'
    <2>1. \A v \in Drainers \ {w} : drain'[v] = drain[v]
             /\ (drain[v].step # "idle" => drain[v].item # n)
      BY <1>1 DEF IInv, OneTaskEach
    <2>2. drain'[w].step = "queue_card"
      BY <1>1
    <2> QED
      BY <2>1, <2>2 DEF InHand
  <1>5. n \in ConfirmationsOf(f)' /\ Popped(n)'
    BY <1>1, <1>2 DEF ConfirmationsOf, Popped, Announces, FlightOf
  <1>6. ConfirmedOf(f)' = ConfirmedOf(f) \cup {drain[w].target}
    BY <1>1, <1>2 DEF ConfirmedOf, FlightOf
  <1>7. ASSUME NEW g, g # f PROVE ConfirmedOf(g)' = ConfirmedOf(g)
    BY <1>1, <1>2, <1>7 DEF ConfirmedOf, FlightOf
  <1> QED
    BY <1>3, <1>4, <1>5, <1>6, <1>7 DEF Spent

LEMMA SpentStep ==
  IInv /\ AnnouncementsHeld /\ EnoughSpent /\ [Next]_vars => EnoughSpent'
  <1> SUFFICES ASSUME IInv, AnnouncementsHeld, EnoughSpent, [Next]_vars,
                      NEW f \in Flights
               PROVE  (Cardinality(ConfirmedOf(f)) <= Cardinality(Spent(f)))'
    BY DEF EnoughSpent
  <1> DEFINE C == ConfirmedOf(f)
             S == Spent(f)
  <1>1. TypeOK /\ TypeOK'
    BY TypeStep DEF IInv, Typed
  <1>2. /\ IsFiniteSet(C) /\ IsFiniteSet(S) /\ IsFiniteSet(S') /\ IsFiniteSet(C')
        /\ Cardinality(C) \in Nat /\ Cardinality(S) \in Nat
        /\ Cardinality(C') \in Nat /\ Cardinality(S') \in Nat
    <2>1. (IsFiniteSet(S) /\ IsFiniteSet(C)
             /\ Cardinality(S) \in Nat /\ Cardinality(C) \in Nat)'
      BY <1>1, FiniteCounts, PTL
    <2> QED
      BY <1>1, <2>1, FiniteCounts
  <1>3. Cardinality(C) <= Cardinality(S) /\ S \subseteq S'
    BY SpentStays DEF EnoughSpent
  <1>4. Cardinality(S) <= Cardinality(S')
    BY <1>2, <1>3, FS_Subset
  <1>5. CASE C' = C
    BY <1>2, <1>3, <1>4, <1>5
  <1>6. CASE UNCHANGED <<event, confirmed>>
    BY <1>5, <1>6 DEF ConfirmedOf, FlightOf
  <1>7. ASSUME NEW w \in Drainers, Confirm(w)
        PROVE  Cardinality(C') <= Cardinality(S')
    <2>1. CASE FlightOf(drain[w].item) # f
      <3>1. PICK n, g : n = drain[w].item /\ g = FlightOf(n)
        OBVIOUS
      <3>2. C' = C
        BY <1>7, <2>1, <3>1, CommitSpends
      <3> QED
        BY <1>5, <3>2
    <2>2. CASE FlightOf(drain[w].item) = f
      <3>0. PICK n, t : n = drain[w].item /\ t = drain[w].target
        OBVIOUS
      <3>1. n \notin S /\ n \in S' /\ C' = C \cup {t}
        BY <1>7, <2>2, <3>0, CommitSpends
      <3> HIDE DEF C, S
      <3>2. Cardinality(S \cup {n}) = Cardinality(S) + 1 /\ IsFiniteSet(S \cup {n})
        BY <1>2, <3>1, FS_AddElement
      <3>3. Cardinality(S \cup {n}) <= Cardinality(S')
        BY <1>2, <1>3, <3>1, FS_Subset
      <3>4. Cardinality(C') = Cardinality(C) \/ Cardinality(C') = Cardinality(C) + 1
        BY <1>2, <3>1, FS_AddElement
      <3> QED
        BY <1>2, <1>3, <3>2, <3>3, <3>4
    <2> QED
      BY <2>1, <2>2
  <1>8. ASSUME NEW w \in Drainers, DrainWorks(w) \/ DrainFails(w), ~Confirm(w)
        PROVE  UNCHANGED <<event, confirmed>>
    BY <1>8 DEF DrainWorks, Pop, Resolve, Fire, Store, Notify, Select,
       QueueCard, DrainFails
  <1>9. CASE Receive \/ (\E n \in Deliveries : BookingQueuesCard(n))
               \/ \E p \in Renderers : RenderWorks(p) \/ RenderFails(p)
    BY <1>6, <1>9 DEF Receive, BookingQueuesCard, RenderWorks, PopCard, Load,
       CommitCard, PushCard, RenderFails
  <1> QED
    BY <1>6, <1>7, <1>8, <1>9 DEF Next, vars

LEMMA SpentInit == Init => AnnouncementsHeld /\ EnoughSpent
  <1> SUFFICES ASSUME Init PROVE AnnouncementsHeld /\ EnoughSpent
    OBVIOUS
  <1>1. AnnouncementsHeld
    BY DEF Init, AnnouncementsHeld, Free
  <1>2. ASSUME NEW f \in Flights
        PROVE  Cardinality(ConfirmedOf(f)) <= Cardinality(Spent(f))
    <2>1. ConfirmedOf(f) = {}
      BY DEF Init, ConfirmedOf
    <2>2. Cardinality(ConfirmedOf(f)) = 0
      BY <2>1, FS_EmptySet
    <2>3. Cardinality(Spent(f)) \in Nat
      BY TypeInit, FiniteCounts DEF Typed
    <2> QED
      BY <2>2, <2>3
  <1> QED
    BY <1>1, <1>2 DEF EnoughSpent

LEMMA SpentIsAnnounced == IInv /\ EnoughSpent => ConfirmationsNotReused
  <1> SUFFICES ASSUME IInv, EnoughSpent, NEW f \in Flights
               PROVE  Cardinality(ConfirmedOf(f)) <= Cardinality(ConfirmationsOf(f))
    BY DEF ConfirmationsNotReused, ConfirmedOf
  <1>1. /\ Cardinality(Spent(f)) \in Nat /\ Cardinality(ConfirmedOf(f)) \in Nat
        /\ Cardinality(ConfirmationsOf(f)) \in Nat
        /\ IsFiniteSet(ConfirmationsOf(f))
    BY FiniteCounts DEF IInv, Typed
  <1>2. Spent(f) \in SUBSET ConfirmationsOf(f)
    BY DEF Spent
  <1>3. Cardinality(Spent(f)) <= Cardinality(ConfirmationsOf(f))
    BY <1>1, <1>2, FS_Subset
  <1>4. Cardinality(ConfirmedOf(f)) <= Cardinality(Spent(f))
    BY DEF EnoughSpent
  <1> QED
    BY <1>1, <1>3, <1>4

(* However many tasks drain the list and select the same signal, an         *)
(* announcement of the airline confirms at most one signal.                 *)
THEOREM AnnouncementsConfirmOnce == Spec => []ConfirmationsNotReused
  <1>1. Init => IInv /\ AnnouncementsHeld /\ EnoughSpent
    BY InvInit, SpentInit
  <1>2. /\ IInv /\ AnnouncementsHeld /\ EnoughSpent
        /\ [Next]_vars
        => (IInv /\ AnnouncementsHeld /\ EnoughSpent)'
    BY InvStep, AnnouncementsStep, SpentStep
  <1>3. IInv /\ AnnouncementsHeld /\ EnoughSpent => ConfirmationsNotReused
    BY SpentIsAnnounced
  <1> QED
    BY <1>1, <1>2, <1>3, PTL DEF Spec

-----------------------------------------------------------------------------
(* The pipeline implements SignalLife. *)

lifeVars == <<fired, stored, pushes, confirmed, carded>>

LEMMA LifeInit == Init => Life!Init
  BY DEF Init, Life!Init

LEMMA LifeStep == IInv /\ [Next]_vars => [Life!Next]_lifeVars
  <1> SUFFICES ASSUME IInv, [Next]_vars PROVE [Life!Next]_lifeVars
    OBVIOUS
  <1> USE DEF lifeVars
  <1>1. /\ StepsHold /\ pushes \in [Deliveries -> Nat]
        /\ \A w \in Drainers : drain[w].step # "idle" => drain[w].item \in Deliveries
        /\ \A p \in Renderers : render[p].step # "idle" => render[p].item \in Deliveries
        /\ Targets
    BY DEF IInv, Typed, TypeOK
  <1>2. CASE UNCHANGED lifeVars
    BY <1>2
  <1>3. ASSUME NEW n \in Deliveries,
               \/ Life!Fire(n) \/ Life!Store(n) \/ Life!Alert(n)
               \/ Life!Confirm(n) \/ Life!Publish(n)
        PROVE  Life!Next
    BY <1>3 DEF Life!Next
  <1>4. ASSUME NEW w \in Drainers, Fire(w) PROVE Life!Next
    <2>1. drain[w].item \in Deliveries \ fired
      BY <1>1, <1>4 DEF Fire, StepsHold, Holds
    <2>2. Life!Fire(drain[w].item)
      BY <1>4, <2>1 DEF Fire, Life!Fire
    <2> QED
      BY <1>3, <2>1, <2>2
  <1>5. ASSUME NEW w \in Drainers, Store(w) PROVE Life!Next
    <2>1. drain[w].item \in Deliveries /\ drain[w].item \in fired \ stored
      BY <1>1, <1>5 DEF Store, Step, StepsHold, Holds
    <2>2. Life!Store(drain[w].item)
      BY <1>5, <2>1 DEF Store, Life!Store
    <2> QED
      BY <1>3, <2>1, <2>2
  <1>6. ASSUME NEW w \in Drainers, drain[w].step = "notify",
               pushes' = [pushes EXCEPT ![drain[w].item] = @ + 1],
               UNCHANGED <<fired, stored, confirmed, carded>>
        PROVE  Life!Next
    <2>1. /\ drain[w].item \in Deliveries /\ drain[w].item \in stored
          /\ pushes[drain[w].item] = 0
      BY <1>1, <1>6 DEF StepsHold, Holds
    <2>2. pushes' = [pushes EXCEPT ![drain[w].item] = 1]
      BY <1>1, <1>6, <2>1
    <2>3. Life!Alert(drain[w].item)
      BY <1>6, <2>1, <2>2 DEF Life!Alert
    <2> QED
      BY <1>3, <2>1, <2>3
  <1>7. ASSUME NEW w \in Drainers, Confirm(w) PROVE [Life!Next]_lifeVars
    <2>1. drain[w].target \in Deliveries /\ drain[w].target \in fired
      BY <1>1, <1>7 DEF Confirm, Step, StepsHold, Holds, Targets
    <2>2. CASE drain[w].target \in confirmed
      BY <1>7, <2>2 DEF Confirm
    <2>3. CASE drain[w].target \notin confirmed
      <3>1. Life!Confirm(drain[w].target)
        BY <1>7, <2>1, <2>3 DEF Confirm, Life!Confirm
      <3> QED
        BY <1>3, <2>1, <3>1
    <2> QED
      BY <2>2, <2>3
  <1>8. ASSUME NEW p \in Renderers, CommitCard(p) PROVE [Life!Next]_lifeVars
    <2>1. render[p].item \in Deliveries /\ render[p].item \in confirmed
      BY <1>1, <1>8 DEF CommitCard, RenderStep, IInv, RendersConfirmed
    <2>2. CASE render[p].item \in carded
      BY <1>8, <2>2 DEF CommitCard
    <2>3. CASE render[p].item \notin carded
      <3>1. Life!Publish(render[p].item)
        BY <1>8, <2>1, <2>3 DEF CommitCard, Life!Publish
      <3> QED
        BY <1>3, <2>1, <3>1
    <2> QED
      BY <2>2, <2>3
  <1>9. ASSUME NEW w \in Drainers, Notify(w) \/ DrainFails(w)
        PROVE  [Life!Next]_lifeVars
    BY <1>2, <1>6, <1>9 DEF Notify, Finish, DrainFails
  <1>10. ASSUME NEW w \in Drainers, Pop(w) \/ Resolve(w) \/ Select(w) \/ QueueCard(w)
         PROVE  UNCHANGED lifeVars
    BY <1>10 DEF Pop, Resolve, Select, QueueCard
  <1>11. ASSUME NEW p \in Renderers,
                PopCard(p) \/ Load(p) \/ PushCard(p) \/ RenderFails(p)
         PROVE  UNCHANGED lifeVars
    BY <1>11 DEF PopCard, Load, PushCard, RenderFails
  <1>12. CASE Receive \/ (\E n \in Deliveries : BookingQueuesCard(n)) \/ UNCHANGED vars
    BY <1>12 DEF Receive, BookingQueuesCard, vars
  <1> QED
    BY <1>2, <1>4, <1>5, <1>7, <1>8, <1>9, <1>10, <1>11, <1>12
    DEF Next, DrainWorks, RenderWorks

(* Every step of the queues and tasks is, for each signal, a step of its    *)
(* life in SignalLife, or none.                                             *)
THEOREM ImplementsLife == Spec => LifeSpec
  BY LifeInit, LifeStep, Inductive, PTL DEF Spec, LifeSpec, Life!Spec, lifeVars

=============================================================================
