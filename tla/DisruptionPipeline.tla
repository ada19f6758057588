------------------------- MODULE DisruptionPipeline -------------------------
(***************************************************************************)
(* From a FlightAware webhook to an alert and a proof card                 *)
(* (aviation_pipeline.py).  The webhook handler pushes the payload on a    *)
(* Redis list; Celery beat starts a drain task every 5 seconds, so that    *)
(* several drain tasks may run at once.  A task pops a payload and, in     *)
(* steps that commit separately,                                           *)
(*   - scores it into a new AviationSignal, and above the threshold looks  *)
(*     for alternatives, stores them and alerts the subscriber; or         *)
(*   - when the airline itself announces the disruption, confirms the      *)
(*     latest unconfirmed signal of the flight and queues its proof card.  *)
(* A second kind of task renders the queued proof cards.  The aviation     *)
(* tasks are not retried and the lists are popped before the work is done: *)
(* what a task was working on when it fails is gone.                       *)
(***************************************************************************)
EXTENDS Naturals, Sequences, FiniteSets

CONSTANTS
    MaxDeliveries, \* bound on the webhook deliveries accepted
    Flights,       \* flights registered with FlightAware
    Unknown,       \* a payload that resolves to no flight
    Events,        \* what the provider may send: [kind, flight] records
    Drainers,      \* concurrent runs of drain_flightaware_webhooks
    Renderers,     \* concurrent runs of generate_proof_cards
    MaxBookings    \* bound on the card jobs queued by bookings

Kinds == {"confirmation", "alert", "quiet"}

Event == [kind: Kinds, flight: Flights \cup {Unknown}]

ASSUME PipelineAssumption ==
    /\ MaxDeliveries \in Nat
    /\ Unknown \notin Flights
    /\ Events \subseteq Event
    /\ MaxBookings \in Nat

(* A delivery and the signal made of it share their number. *)
VARIABLES
    event,       \* what the provider sends: kind and flight of each delivery
    received,    \* how many deliveries the webhook has accepted
    queue,       \* queue:flightaware:webhooks, its head is popped next
    drain,       \* the drain tasks: step, delivery, and signal to confirm
    fired,       \* signals committed
    stored,      \* signals whose alternatives are committed
    pushes,      \* calls of push_user that were made for each signal
    confirmed,   \* signals committed as confirmed
    cards,       \* queue:proof_cards
    render,      \* the rendering tasks: step and signal
    carded,      \* signals with a proof_card_url
    bookings,    \* card jobs queued by confirm_booking
    lost         \* history: <<kind of work, number>> dropped by a failed task

vars == <<event, received, queue, drain, fired, stored, pushes, confirmed,
          cards, render, carded, bookings, lost>>

Deliveries == 1..MaxDeliveries

Nobody == 0

Numbers == {Nobody} \cup Deliveries

DrainSteps == {"idle", "resolve", "fire", "store", "notify",
               "select", "confirm", "queue_card"}

RenderSteps == {"idle", "load", "commit", "push"}

TypeOK ==
    /\ event \in [Deliveries -> Events]
    /\ received \in Numbers
    /\ queue \in Seq(Deliveries)
    /\ drain \in [Drainers -> [step: DrainSteps, item: Numbers, target: Numbers]]
    /\ \A w \in Drainers : drain[w].step # "idle" => drain[w].item \in Deliveries
    /\ fired \in SUBSET Deliveries
    /\ stored \in SUBSET Deliveries
    /\ pushes \in [Deliveries -> Nat]
    /\ confirmed \in SUBSET Deliveries
    /\ cards \in Seq(Deliveries)
    /\ render \in [Renderers -> [step: RenderSteps, item: Numbers]]
    /\ \A p \in Renderers : render[p].step # "idle" => render[p].item \in Deliveries
    /\ carded \in SUBSET Deliveries
    /\ bookings \in 0..MaxBookings
    /\ lost \in SUBSET ({"payload", "card"} \X Deliveries)

-----------------------------------------------------------------------------

FlightOf(n) == event[n].flight

Free == [step |-> "idle", item |-> Nobody, target |-> Nobody]

Step(w, from, to) ==
    /\ drain[w].step = from
    /\ drain' = [drain EXCEPT ![w].step = to]

Finish(w, from) ==
    /\ drain[w].step = from
    /\ drain' = [drain EXCEPT ![w] = Free]

Init ==
    /\ event \in [Deliveries -> Events]
    /\ received = 0
    /\ queue = <<>>
    /\ drain = [w \in Drainers |-> Free]
    /\ fired = {}
    /\ stored = {}
    /\ pushes = [n \in Deliveries |-> 0]
    /\ confirmed = {}
    /\ cards = <<>>
    /\ render = [p \in Renderers |-> [step |-> "idle", item |-> Nobody]]
    /\ carded = {}
    /\ bookings = 0
    /\ lost = {}

(* flightaware_webhook outside the local environment.  When Redis refuses   *)
(* the push the provider gets a 500 and delivers again: another delivery.   *)
Receive ==
    /\ received + 1 \in Deliveries
    /\ received' = received + 1
    /\ queue' = Append(queue, received + 1)
    /\ UNCHANGED <<event, drain, fired, stored, pushes, confirmed, cards,
                   render, carded, bookings, lost>>

(* variant: the payload is read, and removed by whoever finishes it *)
Peek(w) ==
    /\ drain[w].step = "idle"
    /\ queue # <<>>
    /\ drain' = [drain EXCEPT ![w] =
                   [step |-> "resolve", item |-> Head(queue), target |-> Nobody]]
    /\ queue' \in {queue, Tail(queue)}
    /\ UNCHANGED <<event, received, fired, stored, pushes, confirmed, cards,
                   render, carded, bookings, lost>>

(* variant: an empty list is not noticed *)
PopUnchecked(w) ==
    /\ drain[w].step = "idle"
    /\ drain' = [drain EXCEPT ![w] =
                   [step |-> "resolve", target |-> Nobody,
                    item |-> IF queue = <<>> THEN Nobody ELSE Head(queue)]]
    /\ queue' = IF queue = <<>> THEN queue ELSE Tail(queue)
    /\ UNCHANGED <<event, received, fired, stored, pushes, confirmed, cards,
                   render, carded, bookings, lost>>

(* rpop *)
Pop(w) ==
    /\ drain[w].step = "idle"
    /\ queue # <<>>
    /\ drain' = [drain EXCEPT ![w] =
                   [step |-> "resolve", item |-> Head(queue), target |-> Nobody]]
    /\ queue' = Tail(queue)
    /\ UNCHANGED <<event, received, fired, stored, pushes, confirmed, cards,
                   render, carded, bookings, lost>>

(* _resolve_flight, which reads the flight whatever its status, and the     *)
(* choice between a confirmation and a payload to score                     *)
Resolve(w) ==
    /\ drain[w].step = "resolve"
    /\ \/ /\ FlightOf(drain[w].item) = Unknown
          /\ Finish(w, "resolve")
       \/ /\ FlightOf(drain[w].item) \in Flights
          /\ event[drain[w].item].kind = "confirmation"
          /\ Step(w, "resolve", "select")
       \/ /\ FlightOf(drain[w].item) \in Flights
          /\ event[drain[w].item].kind # "confirmation"
          /\ Step(w, "resolve", "fire")
    /\ UNCHANGED <<event, received, queue, fired, stored, pushes, confirmed,
                   cards, render, carded, bookings, lost>>

(* the signal is committed before anything is done about it *)
Fire(w) ==
    /\ drain[w].step = "fire"
    /\ fired' = fired \cup {drain[w].item}
    /\ \/ /\ event[drain[w].item].kind = "alert"
          /\ Step(w, "fire", "store")
       \/ /\ event[drain[w].item].kind = "quiet"
          /\ Finish(w, "fire")
    /\ UNCHANGED <<event, received, queue, stored, pushes, confirmed, cards,
                   render, carded, bookings, lost>>

(* find_and_cache_alternatives returned, with alternatives or with none, and *)
(* they are committed; when it raises, the task fails                        *)
Store(w) ==
    /\ Step(w, "store", "notify")
    /\ stored' = stored \cup {drain[w].item}
    /\ UNCHANGED <<event, received, queue, fired, pushes, confirmed, cards,
                   render, carded, bookings, lost>>

(* variant: no push without a default alternative *)
NotifySometimes(w) ==
    /\ Finish(w, "notify")
    /\ \/ pushes' = [pushes EXCEPT ![drain[w].item] = @ + 1]
       \/ UNCHANGED pushes
    /\ UNCHANGED <<event, received, queue, fired, stored, confirmed, cards,
                   render, carded, bookings, lost>>

(* push_user is called once for the signal and returns.  It sends nothing   *)
(* when the subscriber has no active device or Firebase is not configured,  *)
(* and does not read the status of Firebase's answer: the task goes on in   *)
(* the same way, and whether a device shows the alert is unknown to it.     *)
Notify(w) ==
    /\ Finish(w, "notify")
    /\ pushes' = [pushes EXCEPT ![drain[w].item] = @ + 1]
    /\ UNCHANGED <<event, received, queue, fired, stored, confirmed, cards,
                   render, carded, bookings, lost>>

Unconfirmed(f) == {m \in fired \ confirmed : FlightOf(m) = f}

(* The unconfirmed signal of the flight with the latest fired_at.  That is  *)
(* the start of the transaction that inserted it, and a task leaves its     *)
(* transaction open from one payload to the next: the order of fired_at is  *)
(* neither that of the pops nor that of the commits, and any may be latest. *)
Select(w) ==
    LET found == Unconfirmed(FlightOf(drain[w].item)) IN
    /\ drain[w].step = "select"
    /\ \/ /\ found = {}
          /\ Finish(w, "select")
       \/ \E latest \in found :
             drain' = [drain EXCEPT ![w].step = "confirm",
                                    ![w].target = latest]
    /\ UNCHANGED <<event, received, queue, fired, stored, pushes, confirmed,
                   cards, render, carded, bookings, lost>>

(* variant: every unconfirmed signal of the flight is confirmed *)
ConfirmAll(w) ==
    /\ Step(w, "confirm", "queue_card")
    /\ confirmed' = confirmed \cup {drain[w].target}
                       \cup Unconfirmed(FlightOf(drain[w].item))
    /\ UNCHANGED <<event, received, queue, fired, stored, pushes, cards,
                   render, carded, bookings, lost>>

(* The row is updated by its id: it may have been confirmed in between. *)
Confirm(w) ==
    /\ Step(w, "confirm", "queue_card")
    /\ confirmed' = confirmed \cup {drain[w].target}
    /\ UNCHANGED <<event, received, queue, fired, stored, pushes, cards,
                   render, carded, bookings, lost>>

(* variant: the card is left to the booking *)
QueueNoCard(w) ==
    /\ Finish(w, "queue_card")
    /\ UNCHANGED <<event, received, queue, fired, stored, pushes, confirmed,
                   cards, render, carded, bookings, lost>>

QueueCard(w) ==
    /\ Finish(w, "queue_card")
    /\ cards' = Append(cards, drain[w].target)
    /\ UNCHANGED <<event, received, queue, fired, stored, pushes, confirmed,
                   render, carded, bookings, lost>>

(* An exception or a crash ends the task.  The payload was popped and is    *)
(* gone; so is a card that was about to be queued.  The query of the tokens *)
(* may fail before push_user is called, the request to Firebase after.      *)
DrainFails(w) ==
    /\ drain[w].step # "idle"
    /\ drain' = [drain EXCEPT ![w] = Free]
    /\ lost' = lost \cup {<<"payload", drain[w].item>>} \cup
                 (IF drain[w].step = "queue_card"
                  THEN {<<"card", drain[w].target>>} ELSE {})
    /\ \/ UNCHANGED pushes
       \/ /\ drain[w].step = "notify"
          /\ pushes' = [pushes EXCEPT ![drain[w].item] = @ + 1]
    /\ UNCHANGED <<event, received, queue, fired, stored, confirmed, cards,
                   render, carded, bookings>>

-----------------------------------------------------------------------------
(* The proof cards. *)

(* queue_proof_card called by confirm_booking, for a signal the subscriber  *)
(* rebooked, which the airline may not have confirmed yet *)
BookingQueuesCard(n) ==
    /\ bookings < MaxBookings
    /\ n \in fired
    /\ bookings' = bookings + 1
    /\ cards' = Append(cards, n)
    /\ UNCHANGED <<event, received, queue, drain, fired, stored, pushes,
                   confirmed, render, carded, lost>>

NoCard == [step |-> "idle", item |-> Nobody]

RenderStep(p, from, to) ==
    /\ render[p].step = from
    /\ render' = [render EXCEPT ![p].step = to]

RenderDone(p, from) ==
    /\ render[p].step = from
    /\ render' = [render EXCEPT ![p] = NoCard]

PopCard(p) ==
    /\ render[p].step = "idle"
    /\ cards # <<>>
    /\ render' = [render EXCEPT ![p] = [step |-> "load", item |-> Head(cards)]]
    /\ cards' = Tail(cards)
    /\ UNCHANGED <<event, received, queue, drain, fired, stored, pushes,
                   confirmed, carded, bookings, lost>>

(* variant: the card is rendered for any signal *)
LoadAny(p) ==
    /\ RenderStep(p, "load", "commit")
    /\ UNCHANGED <<event, received, queue, drain, fired, stored, pushes,
                   confirmed, cards, carded, bookings, lost>>

(* a job for a signal that is not confirmed is dropped *)
Load(p) ==
    /\ \/ /\ render[p].item \in confirmed
          /\ RenderStep(p, "load", "commit")
       \/ /\ render[p].item \notin confirmed
          /\ RenderDone(p, "load")
    /\ UNCHANGED <<event, received, queue, drain, fired, stored, pushes,
                   confirmed, cards, carded, bookings, lost>>

(* rendering, store_png under the id of the signal, and the commit of the   *)
(* url *)
CommitCard(p) ==
    /\ RenderStep(p, "commit", "push")
    /\ carded' = carded \cup {render[p].item}
    /\ UNCHANGED <<event, received, queue, drain, fired, stored, pushes,
                   confirmed, cards, bookings, lost>>

PushCard(p) ==
    /\ RenderDone(p, "push")
    /\ UNCHANGED <<event, received, queue, drain, fired, stored, pushes,
                   confirmed, cards, carded, bookings, lost>>

RenderFails(p) ==
    /\ render[p].step # "idle"
    /\ render' = [render EXCEPT ![p] = NoCard]
    /\ lost' = lost \cup {<<"card", render[p].item>>}
    /\ UNCHANGED <<event, received, queue, drain, fired, stored, pushes,
                   confirmed, cards, carded, bookings>>

-----------------------------------------------------------------------------

DrainWorks(w) ==
    \/ Pop(w) \/ Resolve(w) \/ Fire(w) \/ Store(w) \/ Notify(w)
    \/ Select(w) \/ Confirm(w) \/ QueueCard(w)

RenderWorks(p) ==
    PopCard(p) \/ Load(p) \/ CommitCard(p) \/ PushCard(p)

Next ==
    \/ Receive
    \/ \E w \in Drainers : DrainWorks(w) \/ DrainFails(w)
    \/ \E n \in Deliveries : BookingQueuesCard(n)
    \/ \E p \in Renderers : RenderWorks(p) \/ RenderFails(p)

Spec == Init /\ [][Next]_vars

(* Beat starts the tasks again for ever, and every await has a timeout.     *)
(* Nothing makes the provider deliver, a subscriber book or a task fail.    *)
FairSpec ==
    /\ Spec
    /\ \A w \in Drainers : WF_vars(DrainWorks(w))
    /\ \A p \in Renderers : WF_vars(RenderWorks(p))

-----------------------------------------------------------------------------
(***************************************************************************)
(* Properties.                                                             *)
(***************************************************************************)

(* One delivery is pushed to a subscriber at most once, although several    *)
(* tasks drain the queue and may fail anywhere; and what the alert offers   *)
(* to tap on, the alternatives of the signal, was committed before it.      *)
AlertedOnceWithAlternatives ==
    \A n \in Deliveries :
        /\ pushes[n] <= 1
        /\ pushes[n] > 0 => n \in stored /\ event[n].kind = "alert"

(* A proof card ("you knew before the airline did") exists only for a       *)
(* signal that the airline confirmed, although bookings queue cards too.    *)
CardsOnlyForConfirmed == carded \subseteq confirmed

ConfirmationsOf(f) ==
    {m \in 1..received : event[m].kind = "confirmation" /\ FlightOf(m) = f}

(* An announcement of the airline confirms at most one signal: a flight     *)
(* never has more confirmed signals than announcements, even when two tasks *)
(* select the same signal at the same time.                                 *)
ConfirmationsNotReused ==
    \A f \in Flights :
        Cardinality({n \in confirmed : FlightOf(n) = f})
            <= Cardinality(ConfirmationsOf(f))

(* Every disruption above the threshold gets its one call of push_user (the *)
(* program's last word on it: see Notify), unless the task that had popped  *)
(* the delivery failed.                                                     *)
PushedOrLost ==
    \A n \in Deliveries :
        (n <= received /\ event[n].kind = "alert" /\ FlightOf(n) \in Flights)
            ~> (pushes[n] = 1 \/ <<"payload", n>> \in lost)

(* Every confirmed signal gets its proof card, unless the task that was to  *)
(* queue or to render it failed.                                            *)
ConfirmedGetsCard ==
    \A n \in Deliveries :
        n \in confirmed ~> (n \in carded \/ <<"card", n>> \in lost)

(* The pipeline implements the life of a signal of SignalLife.              *)
Life == INSTANCE SignalLife WITH Signals <- Deliveries

LifeSpec == Life!Spec

=============================================================================
