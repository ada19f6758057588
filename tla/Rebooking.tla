------------------------------ MODULE Rebooking ------------------------------
(***************************************************************************)
(* POST /bookings/confirm: a subscriber accepts a rebooking offer for one  *)
(* of his disruption signals.  confirm_booking (aviation_booking.py) runs  *)
(* a saga over three stores that share no transaction: a Stripe payment    *)
(* intent is opened, a Duffel order is placed, and the intent is then      *)
(* either confirmed (the charge) or, when the order failed, cancelled; the *)
(* aviation_bookings row, the proof-card job and the push come last.       *)
(*                                                                         *)
(* Every await is a step of its own, so that several requests, retries of  *)
(* a client included, interleave as they do on the event loop and across   *)
(* API processes.  A remote call has an effect or none, and its answer     *)
(* arrives or is lost (httpx timeouts); a process may die at any step.     *)
(***************************************************************************)
EXTENDS Naturals

CONSTANTS
    Requests,    \* HTTP requests; the retry of a client is another request
    Users,
    Signals,
    Offers,
    Owner,       \* Owner[s]: signal.flight.user_id
    Price,       \* Price[o]: the price of a Duffel offer, in cents
    Fee,         \* the convenience fee, in cents
    Customers,   \* users with a profile that has a stripe_customer_id
    Monthly,     \* users on the monthly plan
    Travellers,  \* users with an AviationPassenger row
    Asks         \* what clients ask for: who confirms which offer for which signal

ASSUME RebookingAssumption ==
    /\ Owner \in [Signals -> Users]
    /\ Price \in [Offers -> Nat]
    /\ Fee \in Nat
    /\ Customers \subseteq Users
    /\ Monthly \subseteq Users
    /\ Travellers \subseteq Users
    /\ Asks \subseteq [user: Users, signal: Signals, offer: Offers]

VARIABLES
    arg,         \* what each request asks for
    pc,          \* where confirm_booking is, or what the request was answered
    cached,      \* offers whose duffel:offer:{id} key is in Redis
    intent,      \* Stripe: the payment intent created under each idempotency key
    confirmed,   \* Stripe: the stored result of each confirm idempotency key
                 \* ("unpaid": a 200 whose intent is requires_action or processing)
    ordered,     \* Duffel: requests whose order was placed
    booked,      \* requests whose aviation_bookings row is committed
    carded       \* requests whose proof-card job was pushed

vars == <<arg, pc, cached, intent, confirmed, ordered, booked, carded>>

(***************************************************************************)
(* The idempotency keys booking-{user}-{signal} and                        *)
(* booking-confirm-{user}-{signal}: the offer is not a part of them.       *)
(***************************************************************************)
Keys == Users \X Signals

Steps == {"create_intent", "create_order", "cancel_intent", "confirm_intent",
          "commit", "queue_card", "push"}

Refusals == {"signal_not_found", "offer_expired", "payment_missing",
             "passenger_missing"}

Answers == Refusals \cup {"booking_failed", "error", "ok"}

IntentStates == {"none", "open", "canceled", "succeeded"}

TypeOK ==
    /\ arg \in [Requests -> Asks]
    /\ pc \in [Requests -> {"idle", "crashed"} \cup Steps \cup Answers]
    /\ cached \in SUBSET Offers
    /\ intent \in [Keys -> [state: IntentStates, amount: Nat]]
    /\ confirmed \in [Keys -> {"none", "charged", "unpaid", "declined"}]
    /\ ordered \in SUBSET Requests
    /\ booked \in SUBSET Requests
    /\ carded \in SUBSET Requests

Key(r) == <<arg[r].user, arg[r].signal>>

(* price of the offer, plus the fee on the monthly plan *)
AmountOf(a) == Price[a.offer] + (IF a.user \in Monthly THEN Fee ELSE 0)

Amount(r) == AmountOf(arg[r])

Goto(r, step) == pc' = [pc EXCEPT ![r] = step]

-----------------------------------------------------------------------------

Init ==
    /\ arg \in [Requests -> Asks]
    /\ pc = [r \in Requests |-> "idle"]
    /\ cached \in SUBSET Offers
    /\ intent = [k \in Keys |-> [state |-> "none", amount |-> 0]]
    /\ confirmed = [k \in Keys |-> "none"]
    /\ ordered = {}
    /\ booked = {}
    /\ carded = {}

(* The early returns, in their order.  A signal that does not exist and one *)
(* of another user get the same answer.                                     *)
(* variant: the ownership of the signal is not checked *)
VerdictWithoutOwner(a) ==
    IF a.offer \notin cached THEN "offer_expired"
    ELSE IF a.user \notin Customers THEN "payment_missing"
    ELSE IF a.user \notin Travellers THEN "passenger_missing"
    ELSE "create_intent"

Verdict(a) ==
    IF Owner[a.signal] # a.user THEN "signal_not_found"
    ELSE IF a.offer \notin cached THEN "offer_expired"
    ELSE IF a.user \notin Customers THEN "payment_missing"
    ELSE IF a.user \notin Travellers THEN "passenger_missing"
    ELSE "create_intent"

Check(r) ==
    /\ pc[r] = "idle"
    /\ Goto(r, Verdict(arg[r]))
    /\ UNCHANGED <<arg, cached, intent, confirmed, ordered, booked, carded>>

(* Stripe replays the first answer given under an idempotency key, and      *)
(* refuses a request that reuses the key with other parameters.             *)
Replayable(k, amount) == intent[k].state = "none" \/ intent[k].amount = amount

(* variant: the charge comes before the order *)
CreateIntentThenCharge(r) ==
    /\ pc[r] = "create_intent"
    /\ Replayable(Key(r), Amount(r))
    /\ intent' = [intent EXCEPT ![Key(r)] =
                     IF @.state = "none"
                     THEN [state |-> "open", amount |-> Amount(r)] ELSE @]
    /\ Goto(r, "confirm_intent")
    /\ UNCHANGED <<arg, cached, confirmed, ordered, booked, carded>>

CreateIntent(r) ==
    /\ pc[r] = "create_intent"
    /\ \/ /\ Replayable(Key(r), Amount(r))
          /\ IF intent[Key(r)].state = "none"
             THEN intent' = [intent EXCEPT ![Key(r)] =
                                [state |-> "open", amount |-> Amount(r)]]
             ELSE UNCHANGED intent
          /\ \E next \in {"create_order", "error"} : Goto(r, next)
       \/ /\ Goto(r, "error")
          /\ UNCHANGED intent
    /\ UNCHANGED <<arg, cached, confirmed, ordered, booked, carded>>

(* The order carries no idempotency key.  Any exception, a lost answer to   *)
(* an order that was placed included, leads to the cancellation.            *)
CreateOrder(r) ==
    /\ pc[r] = "create_order"
    /\ \/ /\ ordered' = ordered \cup {r}
          /\ \E next \in {"confirm_intent", "cancel_intent"} : Goto(r, next)
       \/ /\ Goto(r, "cancel_intent")
          /\ UNCHANGED ordered
    /\ UNCHANGED <<arg, cached, intent, confirmed, booked, carded>>

(* Stripe cancels an intent that is still open and refuses any other; the   *)
(* 502 "Booking failed; payment cancelled" follows an accepted cancellation *)
(* only, any other outcome leaves the handler as an unhandled exception.    *)
(* variant: a cancellation that failed is answered like one that succeeded *)
CancelIntentUnchecked(r) ==
    /\ pc[r] = "cancel_intent"
    /\ \/ /\ intent[Key(r)].state = "open"
          /\ intent' = [intent EXCEPT ![Key(r)].state = "canceled"]
       \/ UNCHANGED intent
    /\ Goto(r, "booking_failed")
    /\ UNCHANGED <<arg, cached, confirmed, ordered, booked, carded>>

CancelIntent(r) ==
    /\ pc[r] = "cancel_intent"
    /\ \/ /\ intent[Key(r)].state = "open"
          /\ intent' = [intent EXCEPT ![Key(r)].state = "canceled"]
          /\ \E next \in {"booking_failed", "error"} : Goto(r, next)
       \/ /\ Goto(r, "error")
          /\ UNCHANGED intent
    /\ UNCHANGED <<arg, cached, confirmed, ordered, booked, carded>>

(* Stripe answers an accepted confirmation with 200 and the intent, whose   *)
(* status may be succeeded (the charge) or requires_action or processing    *)
(* (no charge yet): the code reads the HTTP status only and goes on.  The   *)
(* outcome of the first confirmation executed under the key is stored and   *)
(* replayed: a card that was declined stays declined for this signal.       *)
(* variant: a failed confirmation does not stop the handler *)
ConfirmIntentUnchecked(r) ==
    /\ pc[r] = "confirm_intent"
    /\ \/ /\ confirmed[Key(r)] = "none"
          /\ intent[Key(r)].state = "open"
          /\ intent' = [intent EXCEPT ![Key(r)].state = "succeeded"]
          /\ confirmed' = [confirmed EXCEPT ![Key(r)] = "charged"]
       \/ UNCHANGED <<intent, confirmed>>
    /\ Goto(r, "commit")
    /\ UNCHANGED <<arg, cached, ordered, booked, carded>>

ConfirmIntent(r) ==
    /\ pc[r] = "confirm_intent"
    /\ \/ /\ confirmed[Key(r)] = "none"
          /\ intent[Key(r)].state = "open"
          /\ \/ /\ intent' = [intent EXCEPT ![Key(r)].state = "succeeded"]
                /\ confirmed' = [confirmed EXCEPT ![Key(r)] = "charged"]
             \/ /\ confirmed' = [confirmed EXCEPT ![Key(r)] = "unpaid"]
                /\ UNCHANGED intent
          /\ \E next \in {"commit", "error"} : Goto(r, next)
       \/ /\ confirmed[Key(r)] = "none"
          /\ intent[Key(r)].state = "open"
          /\ confirmed' = [confirmed EXCEPT ![Key(r)] = "declined"]
          /\ Goto(r, "error")
          /\ UNCHANGED intent
       \/ /\ confirmed[Key(r)] \in {"charged", "unpaid"}
          /\ Goto(r, "commit")
          /\ UNCHANGED <<intent, confirmed>>
       \/ /\ Goto(r, "error")
          /\ UNCHANGED <<intent, confirmed>>
    /\ UNCHANGED <<arg, cached, ordered, booked, carded>>

(* db.add and db.commit, whose answer may be lost as well; when it fails    *)
(* nothing undoes the charge                                                *)
Commit(r) ==
    /\ pc[r] = "commit"
    /\ \/ /\ booked' = booked \cup {r}
          /\ \E next \in {"queue_card", "error"} : Goto(r, next)
       \/ /\ Goto(r, "error")
          /\ UNCHANGED booked
    /\ UNCHANGED <<arg, cached, intent, confirmed, ordered, carded>>

(* variant: a failed push to the card queue is ignored *)
QueueCardUnchecked(r) ==
    /\ pc[r] = "queue_card"
    /\ \/ carded' = carded \cup {r}
       \/ UNCHANGED carded
    /\ Goto(r, "push")
    /\ UNCHANGED <<arg, cached, intent, confirmed, ordered, booked>>

(* queue_proof_card, which lets a RedisError escape *)
QueueCard(r) ==
    /\ pc[r] = "queue_card"
    /\ \/ /\ carded' = carded \cup {r}
          /\ \E next \in {"push", "error"} : Goto(r, next)
       \/ /\ Goto(r, "error")
          /\ UNCHANGED carded
    /\ UNCHANGED <<arg, cached, intent, confirmed, ordered, booked>>

(* variant: the handler ends without an answer *)
PushUnanswered(r) ==
    /\ pc[r] = "push"
    /\ Goto(r, "pushed")
    /\ UNCHANGED <<arg, cached, intent, confirmed, ordered, booked, carded>>

(* push_user raises when the push service cannot be reached *)
Push(r) ==
    /\ pc[r] = "push"
    /\ \E answer \in {"ok", "error"} : Goto(r, answer)
    /\ UNCHANGED <<arg, cached, intent, confirmed, ordered, booked, carded>>

(* the API process dies: the client sees no answer *)
Crash(r) ==
    /\ pc[r] \in Steps
    /\ Goto(r, "crashed")
    /\ UNCHANGED <<arg, cached, intent, confirmed, ordered, booked, carded>>

(* The payment goes through later: the customer authenticates, or the       *)
(* processing ends.  Nothing in the program waits for it or learns of it.   *)
Settle(k) ==
    /\ confirmed[k] = "unpaid"
    /\ intent[k].state = "open"
    /\ intent' = [intent EXCEPT ![k].state = "succeeded"]
    /\ UNCHANGED <<arg, pc, cached, confirmed, ordered, booked, carded>>

(* the pipeline caches the alternatives it found, and their keys expire *)
CacheOffers ==
    /\ \E offers \in SUBSET Offers : cached' = cached \cup offers
    /\ UNCHANGED <<arg, pc, intent, confirmed, ordered, booked, carded>>

ExpireOffer(o) ==
    /\ cached' = cached \ {o}
    /\ UNCHANGED <<arg, pc, intent, confirmed, ordered, booked, carded>>

Handle(r) ==
    \/ Check(r) \/ CreateIntent(r) \/ CreateOrder(r) \/ CancelIntent(r)
    \/ ConfirmIntent(r) \/ Commit(r) \/ QueueCard(r) \/ Push(r) \/ Crash(r)

Next ==
    \/ \E r \in Requests : Handle(r)
    \/ \E k \in Keys : Settle(k)
    \/ CacheOffers
    \/ \E o \in Offers : ExpireOffer(o)

Spec == Init /\ [][Next]_vars

-----------------------------------------------------------------------------
(***************************************************************************)
(* Properties.                                                             *)
(***************************************************************************)

Charged(k) == intent[k].state = "succeeded"

(* Nobody pays for nothing: money is taken under a key only when a Duffel   *)
(* order of some request with that key exists, whatever the interleaving of *)
(* requests, lost answers and crashes.                                      *)
ChargedOnlyWithTicket ==
    \A k \in Keys : Charged(k) => \E r \in ordered : Key(r) = k

(* A bookings row is backed by a placed order and by an intent of exactly   *)
(* the amount the row records (amount_charged), although the intent may     *)
(* have been created by another request with another offer; and the intent  *)
(* is charged, or Stripe accepted the confirmation without charging it,     *)
(* the one case in which confirm_booking records what nobody has paid.      *)
BookingBacked ==
    \A r \in booked : /\ r \in ordered
                      /\ intent[Key(r)].amount = Amount(r)
                      /\ Charged(Key(r)) \/ confirmed[Key(r)] = "unpaid"

(* The answer 502 "Booking failed; payment cancelled" is true of the        *)
(* payment, for ever and for every other request about the signal: the      *)
(* intent is cancelled and never charged, and a booking of that signal is   *)
(* or will be recorded only on a confirmation that Stripe had accepted      *)
(* without a charge.                                                        *)
PaymentCancelledIsTrue ==
    \A r \in Requests : pc[r] = "booking_failed" =>
        /\ intent[Key(r)].state = "canceled"
        /\ \A b \in booked : Key(b) = Key(r) => confirmed[Key(b)] = "unpaid"

(* However many requests confirm one signal, they charge one payment, of    *)
(* the owner of the signal; nobody else pays for it.                        *)
ChargedOnceByOwner ==
    \A k \in Keys : Charged(k) => k[1] = Owner[k[2]]

(* A 200 means that the order was placed, the row committed and its proof   *)
(* card queued, a 4xx that none of it was.                                  *)
AnswersAreTrue ==
    \A r \in Requests :
        /\ pc[r] = "ok" => r \in ordered \cap booked \cap carded
        /\ pc[r] \in Refusals => r \notin ordered \cup booked \cup carded

(* What the message of the 502 says of the booking: that it failed.         *)
(* Expected to be violated: an order placed whose answer was lost.          *)
BookingFailedMeansNoTicket ==
    \A r \in Requests : pc[r] = "booking_failed" => r \notin ordered

(***************************************************************************)
(* The saga implements the contract of RebookingContract.                  *)
(***************************************************************************)
Contract == INSTANCE RebookingContract WITH
    Payments <- Keys,
    Attempts <- Requests,
    payment  <- [k \in Keys |-> intent[k].state],
    accepted <- {k \in Keys : confirmed[k] \in {"charged", "unpaid"}},
    tickets  <- [k \in Keys |-> {r \in ordered : Key(r) = k}],
    records  <- [k \in Keys |-> {r \in booked : Key(r) = k}]

ContractSpec == Contract!Spec

=============================================================================
