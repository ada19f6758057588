# ZeroHour Aviation backend: TLA+ models, checks and proofs

These modules describe the parts of the backend (`src/app`) whose correctness
depends on the order of steps: sagas over services that share no transaction,
Redis lists drained by Celery tasks, races on rows and unique indexes. TLC
checks them on small instances; TLAPS proves the safety results for every value
of the constants. `PROJECT.json` maps each definition to its source lines.

## The system

FastAPI handlers and Celery tasks (`app/tasks`, beat schedule in
`app/workers/celery_app.py`) share PostgreSQL (READ COMMITTED, sessions with
`expire_on_commit=False`), one Redis (cache, lists, counters) and external
services: Stripe, Duffel, FlightAware, Firebase push, Postmark.

| component | state | operations | what is hard |
|---|---|---|---|
| rebooking confirmation (`services/aviation_booking.py`) | Stripe intents under idempotency keys, Duffel orders, `aviation_bookings`, cached offers | `confirm_booking` | five stores without a common transaction, lost answers, client retries, crashes |
| disruption pipeline (`services/aviation_pipeline.py`, `tasks/aviation.py`) | `queue:flightaware:webhooks`, `aviation_signals`, `queue:proof_cards` | webhook, drain, score, alternatives, alert, confirmation, proof card | overlapping tasks, lists popped before the work, commits between the steps |
| aviation sign-up (`routes/aviation.py`, `tasks/aviation.py`) | `signup_queue`, `queue:signup`, users, Stripe | `register`, `process_signup_queue` | unique emails under races, Stripe calls in an open transaction, lost jobs |
| alternatives cache, circuit breaker (`services/circuit_breaker.py`) | failure counter and open flag in Redis, cached alternatives | `find_and_cache_alternatives` | non-atomic incr/expire, one key for all time |
| owner resolution, rate limits (`services/owner_resolution.py`, `main.py`) | counters per window and per day, session cache | resolve, middleware | non-atomic counters, Redis that fails |
| flight search (`services/flight_booking_engine.py`, `flight_options.py`) | fresh and stale envelope of each route | search, rank, pick | slow providers, races on two caches, ties in the rankings |
| offers and handoff (`services/new_flight_booking.py`) | searched and refreshed offers in Redis, flights, handoffs, FlightAware registrations | search, refresh, book, add flight | registration before commit, a read of the cache, an await, a write |
| saved trips, price alerts (`services/flight_booking_engine.py`) | `saved_trips`, `price_alerts` | save, delete, set alert, monitor | overlapping monitors, commit before send, starvation |
| billing (`services/billing.py`, `routes/billing.py`, `tasks/billing.py`) | `billing_events`, `subscriptions`, entitlements | webhook, reconcile | duplicated and reordered events, crash before the task is sent, rows torn by two writers |
| provisioning (`services/provisioning.py`, `tasks/provisioning.py`) | jobs, territories | sign-up, process, retry | retries after a partial success |
| ingestion, ZIP cache (`services/ingestion.py`, `tasks/ingestion.py`, `services/cache.py`) | runs, signals, two cache levels | ingest, regenerate, read | tasks sent before the commit |
| signal claims (`services/signal_claims.py`, `routes/signals.py`) | claim of a signal, second-place alerts | view, claim, show | check-then-act races, a unique index per user |
| direct mail (`services/direct_mail.py`, `services/compliance.py`, `tasks/direct_mail.py`) | campaigns | queue, submit | retries, a refusal that rolls its own record back |
| freight chains (`engine/weekly_chain.py`, `jobs/scheduler.py`, `routes/freight.py`) | weekly chains, load cache | generate, reroute, announce | overlapping runs, legs that remember, defaults of missing lanes |
| freight market (`integrations`, `scrapers`, `engine/prophfesy.py`) | lanes, signals, dead zones, predictions | seven pipelines, scoring, grading | sessions that do not flush, rows torn by two scorers, unique indexes |

How they interact: a booking (`confirm_booking`) reads the offers that the
pipeline caches (`duffel:offer:{id}`) and pushes on the list of proof cards that
the pipeline's rendering task pops; sign-up shares the `users` table with
`POST /api/v1/auth/signup`; the handoff of a flight registers the FlightAware
webhook whose deliveries the pipeline drains; provisioning starts ingestion,
which invalidates the ZIP cache that the dashboard reads; the subscription rows
that billing writes decide who may claim a signal and who is told of it; the
dead zones and lane rates that the freight pipelines write decide which chains
are replaced.

## Modules

### Rebooking, RebookingContract

`Rebooking` models `confirm_booking` for any set of concurrent `Requests`. `pc`
is where a request is, or its answer. One action per await or commit:

| action | code |
|---|---|
| `Check` (`Verdict`) | the four early returns, in their order |
| `CreateIntent` | `create_payment_intent` under `booking-{user}-{signal}` |
| `CreateOrder`, `CancelIntent` | `create_order`; on any exception `cancel_payment_intent` and the 502 |
| `ConfirmIntent` | the confirmation under `booking-confirm-{user}-{signal}` |
| `Commit`, `QueueCard`, `Push` | the row, the card job, the push |
| `Crash` | the API process dies at any of these steps |
| `Settle` | Stripe is paid later; nothing in the code hears of it |
| `CacheOffers`, `ExpireOffer` | the pipeline caches offers, their keys expire |

A remote call takes effect or not, and its answer arrives or not. Stripe is
modelled by its contract: the first result under an idempotency key is replayed
(`intent`, `confirmed` are indexed by key), other parameters under the same key
are refused (`Replayable`), an intent is cancelled or confirmed only while open.
`confirm_payment_intent` looks at the HTTP status only: a 2xx whose intent is
`requires_action` or `processing` (`confirmed[k] = "unpaid"`) is taken for a
charge, and the row is committed; the charge may follow (`Settle`) or never come.
Stripe forgets keys after a day; the model keeps them, because an offer, and so
a retry, lives for minutes. Duffel may accept any number of orders: the code
sends no idempotency key. The retry of a client is simply another request. A
price belongs to an offer id and does not change.

`RebookingContract` is the promise about one payment: opened once, accepted and
charged only when a ticket exists, recorded only when accepted. It deliberately
allows a ticket under a cancelled payment and several tickets under one payment,
since the code does. `ContractSpec` is the refinement, with the payments grouped
by idempotency key.

Properties: `ChargedOnlyWithTicket`, `BookingBacked` (a row has its order and an
intent of exactly its `amount_charged`, although another request with another
offer may have created it, and the intent is charged unless Stripe accepted the
confirmation without a charge), `PaymentCancelledIsTrue` (after "payment
cancelled" the intent is never charged, and a row about the signal exists only
on such an unpaid confirmation), `ChargedOnceByOwner`, `AnswersAreTrue`,
`ContractSpec`. The run `rebooking_failed_ticket` shows what does not hold: a
request answered "Booking failed" may own an order.

### DisruptionPipeline, SignalLife

`DisruptionPipeline` models the webhook handler (outside the local environment,
where the handler would process the payload a second time itself), the drain
tasks and the rendering tasks. `drain[w]` and `render[p]` hold the step and the
item of each running task; beat starts a task every 5 (30) seconds whether the
previous one ended or not, so several run at once. A task that loops over many
payloads is a task that returns to `idle` and pops again. `DrainFails` and
`RenderFails` end a task at any step, by an exception or a crash; `lost` is a
history variable that records what it was working on. The score of a payload
is abstracted to its verdict (`alert`, `quiet`), and a payload that
`_is_airline_confirmation` accepts is a `confirmation`; `find_and_cache_alternatives`
returns or raises. `Select` and `Confirm` are two steps, as another process may
commit in between. `Select` takes the unconfirmed signal with the latest
`fired_at`; that is the start of the transaction that inserted the row, which a
task may have opened while it worked on the previous payload, so the model lets
any of them be latest.

`SignalLife` is the life of one signal, with no queue or task: fired, stored,
alerted once, confirmed, published; `LifeSpec` is the refinement.

Properties: `AlertedOnceWithAlternatives`, `CardsOnlyForConfirmed`,
`ConfirmationsNotReused` (a flight never has more confirmed signals than
announcements), `LifeSpec`, and under fairness `PushedOrLost` and
`ConfirmedGetsCard`: a push or a card is lost only with the failed task that had
taken it. `pushes` counts calls of `push_user`: it returns without sending when
the subscriber has no device token or Firebase is not configured, and does not
read Firebase's status, so that the properties say what the program did, not
that a device showed the alert.

### Signup

`Signup` models `POST /auth/register`, the list `queue:signup` and the task
that makes the accounts. The user row is flushed first, so an open transaction
holds the unique index entry of its email while it calls Stripe: `Insert` waits
for `Held` emails and `Duplicate` fails on committed ones. `OtherSignup` is the
other route that inserts users. `Fail` ends the task at any step; a Stripe call
that raised may have been executed (`MayHave`).

Properties: `OneAccountPerEmail`, `ActiveAccountsAreBacked`,
`AcceptedIsSomewhere` (an accepted registration is in exactly one place),
`AcceptedIsSettled` (under fairness: an account, or a failed task).
The run `signup_promise` shows that the 202's "should be active within 60
seconds" is not kept when the task fails: nothing pushes the id again.

### Throttles

Three protections that count in Redis: the rate limit of the middleware, the
daily limit of owner look-ups and the circuit breaker around Duffel. `count`
has the counters, `expiring` those with an expiry; each call goes through its
commands one by one, so that another call, an expiry, a crash or a Redis error
(`Lose`, after which the command may have been executed) falls between any two.
Each protection treats an error in its own way: `PassUncounted` lets the
request pass, `RefuseUncounted` answers 503, the breaker behaves as closed.
`torn` is a history variable: the counters whose expiry was never set.
`increment_daily_counter` cuts the seconds until midnight to an integer, so that
the key of a day may go in the last second of its day (`EndsEarly`) and be
counted anew; the new key lives for 60 seconds at least, so once a day
(`renewed`). Days are taken as 24 hours: a change of the server's clock is left
out, and so is the limit of zero that switches the middleware off.

Properties: `LimitsKept` (a day admits its limit, and once more if its counter
ended early), `CountersAgeOut`: a counter lives for ever only if a
call was cut between `incr` and `expire`, never because of what other calls,
deletions and expiries do in between.

### Offers

One offer whose price moves: `Search`, `Refresh`, `Book` and `AddFlight` of
several clients, `duffel:search_offer:{id}` shared by them. `seen` is what a
request read before its await, `quote` what Duffel answered to it. `Register`
(FlightAware) comes before `Commit`, so that a failure leaves a registration
behind (`Fail`); the briefing (`Brief`) is push, then mail, after the commit.

Properties: `FareShownOrWarned` (whatever other clients search and refresh
meanwhile), `HandoffMonitored`. The warning depends on the search entry: when
Redis has dropped it, or another client's search has replaced it, the client is
not warned. `forgotten` records that case, which the property excepts.

### PriceAlerts

Saved trips, alerts that copy the price of a trip, and overlapping runs of
`monitor_price_alerts`. A run reads the `Limit` oldest unsent alerts once
(`Select`), then for each asks Duffel and passes over it (`NoAnswer`, `NoDrop`)
or marks, pushes and mails; `Mark` commits before `Push` and `Mail`, and an
exception of these ends the run (`Abort`). The `flight_id` of an alert is the id
of a Duffel offer, which expires for good (`OfferExpires`) minutes after it was
made: most look-ups of a run that comes hours later fail, and only a run near
the creation of an alert can find its drop. `lost`, `overlapped` and
`unanswered` are history variables.

Properties: `DropIsReal`, `MarkMeansOneMail`, and under fairness
`HeldDropsAreMarked`: when a run has selected an alert whose fare has dropped,
the alert is marked, unless the fare rises, the offer expires, its own look-up
fails or the run is cut. It says nothing of alerts outside the window of the
query, which older ones do starve.

### AgentTasks, Subscriptions

`AgentTasks` is the way of a message on the agent side: a request commits its
row (`PersistEvent`, `PersistSignup`, `PersistCampaign`) or is refused, and then
sends its task, unless the process dies between the two (`SendFails`). Tasks are
retried (`Fail`) and acknowledged late: a worker that dies has its messages
delivered again (`Redeliver`), but when only the child that runs a task is
killed its message is acknowledged and lost (`ChildDies`), as
`task_reject_on_worker_lost` is not set. A provisioning job hands over to
ingestion after its commit; an ingestion sends the regeneration of the ZIP cache
before its own commit; the freight pipelines commit signals of the ZIP and send
nothing (`PipelineCommits`); a regeneration writes PostgreSQL, then Redis.

One ZIP, which has signals or not. A payload has cards or is empty, which is
what matters: the card of a signal holds a UUID and datetimes, and the JSONB
column is bound with plain `json.dumps`, so that a regeneration that read a
signal raises (`Serializable`, `RegenRaises`) at each of its retries. `cut`,
`killed` and `disturbed` are history variables: a hand-over that was cut, a
message lost with its child, an ingestion or a regeneration that something else
interfered with. An event that names no tenant is reconciled to nothing and
counts as finished. `POST /territories` sends an ingestion and a regeneration as
a hand-over does, and is not an action of its own.

Properties: `AcknowledgedIsFinished`, `IngestedOnce` (unless the task ended
between its commit and the hand-over: the retry finds the job ready). The run
`zip_cache` refutes `DashboardFills`, which is what the dashboard tells its user:
no cached payload ever shows a signal, although nothing interfered.

`Subscriptions` takes what AgentTasks leaves open: a reconciliation may run
early, late, again or never, and two may overlap. SQLAlchemy writes the columns
that differ from what was loaded (`Written`), so that a row can be torn. Claims
read these rows: `Check` and `Claim` are two steps, as the claim is committed
later and an alert to a user who has one fails the whole transaction.

Properties: `ClaimsBacked` (a plan and an active status were each told, though
not by one event), `AlertsConsumable`.

`MCAgentSide` runs the two side by side, one of them at rest: they have no
variable in common, so that what holds of the states of one holds of them beside
any state of the other.

### WeeklyChains, FreightMarket

`WeeklyChains` is the weekly load chain of one operator: candidates of a ZIP
from the boards and the fallback lists, the veto and the score of
`_choose_best_load`, a leg a day and the return leg; due runs on Sunday evening
of the operator's own time zone, requests, and the monitor that replaces chains
(`RerouteReason`). `Worth` is the code's score of a load times a common factor,
with the four severities of `_market_tightening_signal`. A leg is chosen by the
broker score and the weather of one reading and recorded with those of another:
both come from caches that may expire in between, or from a provider that does
not answer, so that each reading may differ (`Readings`, `Otherwise`; `other` is
a history field of the leg). The other reads of one chain are taken at one
moment. Dead zones, weather, scores and lanes change at will.

Properties: `ReroutesExplained` says why a chain can be replaced at all: for a
broker only if the second reading differed from the one the leg was chosen by,
for weather only then or if the leg was of last resort, for a dead zone that was
not CRITICAL when the leg was chosen, for the rate of a lane that nobody tracks
if a board paid 2.57 or more. A tracked lane without a rate counts as paying
nothing, which the property lets pass. `OneChainPerCause`: a
Sunday makes one chain and a bad chain has one successor unless two sessions
were open at once.

`FreightMarket` is where those zones and lanes come from: operators and requests
that track lanes, seven pipelines with their unique `subject_hash`, the scoring
of a lane from its signals of 72 hours (`Scored`, weights and recency as in the
code), predictions and their grading. Sessions read, and commit once at their
end; `Quiet` lets several of one kind overlap. Beat starts several kinds at
minute 0; of different kinds they write different columns and rows, and the
model keeps them apart. A session does not flush: two reporting lanes of one
origin without a dead zone add it twice, and the unique index ends the run
(`DatFails`). `AdviceBacked` ties the advice of a lane to its prediction and to
three signals of its direction; `GradesStand` says that a grade is given once,
after 72 hours.

`MCFreight` runs the two side by side, one of them at rest. WeeklyChains lets the
market change at will, so any behaviour of FreightMarket is one that it has
been checked with; FreightMarket does not read chains.

### FlightSearch, OptionRanking

`FlightSearch` models `search_booking_engine`: fresh envelope (30 s), provider
with its timeout of 0.45 s, stale envelope (600 s), empty envelope. Redis may
drop a key (`Evict`); a request may be cut between its two writes. An envelope
is known by the time and the source of its offers.

`OptionRanking` has the pure functions, without recursion: the viable offers and
their score, the three cards of an envelope, the rebooking options and their
default. What a filter keeps is a set of positions in the provider's list, and
`sorted()` and `min()` order positions by key, then by place. `MakeRanking`
applies them to one list of offers. Shares of a range are compared over one
denominator, where the code divides floats. Each offer of a list has an id of
its own, as the provider's offers have; the code compares ids.

Properties: `AnswersAreRecent`, and `PicksUndominated`, the reference: nothing
better in every respect is hidden behind a pick (`RankedWell`, `PickedWell`,
`RebookedWell`).

## Runs

| run | instance | result |
|---|---|---|
| `rebooking` | 3 requests, 2 users and signals, 2 offers of different price | 106,704 states up to symmetry, passes |
| `rebooking_failed_ticket` | 1 request | the message of the 502 is refuted |
| `pipeline` | 3 deliveries, 1 flight, 2 drain tasks, 1 renderer, 1 booking | about 152,000 states, passes |
| `signup` | 3 registrations, 2 emails, 2 tasks | 315,744 states, passes |
| `signup_promise` | 1 registration, 1 task | the promise of the 202 is refuted |
| `throttles` | 2 calls, 2 windows, limits 1, 1 and 2, counters to 2 | 3,300,182 states, passes |
| `offers` | 2 clients, one without a user row, 2 prices | 761,512 states, passes |
| `price_alerts` | 2 alerts, 1 flight and trip, 2 monitors, prices 1, 11 and 12 | 112,896 states, passes |
| `agent_side` | 2 requests of any kind, 2 ingestions, 1 regeneration, 1 reader, 1 retry; 2 events, 2 tenants, 3 users, 2 signals, 2 requests | 3,127,442 states up to symmetry, passes |
| `zip_cache` | 1 request, 1 ingestion, 2 regenerations, 1 reader, 1 retry | the dashboard's promise is refuted |
| `freight` | 2 runs, 2 monitors, 2 ZIPs, 3 chains of 2 legs, 1 second reading that differs; 2 lanes of one origin, 3 hours, 3 reports, 2 predictions | 2,250,802 states up to symmetry, passes |
| `flight_search` | 2 searches, 5 ticks; all lists of up to 3 of 9 offers, 3 wishes | 4,721,083 states up to symmetry, passes |

Why the bounds are enough. Rebooking: three requests allow a request to create
the intent, another to cancel or charge it and a third to come late; the two
users cover the early returns (a missing payment profile is refused where a
missing passenger is), and two prices under one key cover the refusal of Stripe.
Pipeline: `MaxDeliveries` = 3 is the least with two signals and an announcement,
or a signal and two announcements; flights do not interact, so one flight and a
payload without one suffice; `MaxBookings` = 1 lets a booking's card job arrive
before, between or after those of the pipeline. Signup: three registrations over
two emails give a duplicate and a third party, two tasks the race. Throttles:
two calls, with limits that two calls reach, put every command of one between
any two of the other; two windows and days let a counter outlive its own, and a
limit of one with counters to two is the least that a third command could break.
Offers: the second client is the one that searches, refreshes and expires under
the first. PriceAlerts: two alerts are a window, and prices ten and eleven apart
tell a drop from none. AgentTasks: in `zip_cache` two regenerations race; one
retry is a failure and a last failure. Subscriptions: two events tear a row;
three users of two tenants are a claimer, a colleague and a rival. Freight: two
open runs or monitors (`MaxSessions`) and a third chain that neither has made;
`MaxRereads` bounds the legs of all chains whose second reading differed, and
one is enough for each reason; the boards offer loads that only the market
signal or the broker tells apart, and the rates are zero and one that pays; the
operator has one list of lanes (`LaneLists`). Two lanes of one origin meet in
its dead zone, and a `Window` of one hour, with reports at the hours of
`Schedule`, has signals on both of its sides. FlightSearch: stale outlives fresh
by two ticks; of three offers each pick can be another one, and the nine are
what the filters tell apart.

Symmetry is used where only safety and action properties are checked, never with
liveness. `price_alerts`, `offers`, `throttles` and `rebooking` check deadlock.
The others come to rest: when every delivery, registration, job or claim is
dealt with, or at a bound on time, chains or reports. Each property has a
mutant, a plausible bug in one definition (the operators commented "variant:"),
that violates it.

Fairness (`FairSpec`): weak fairness of each task, because beat starts it again
for ever and each await has a timeout (`httpx` 10 or 15 s). Failures, webhook
deliveries, registrations and bookings are never forced. A task that finds its
list empty, or an email that is held, is not enabled and owes nothing.
`PriceAlerts` assumes only that a run that has started moves on or is cut; that a
look-up ever succeeds, or that another run ever starts, is not assumed.

## Proofs

| module | theorems |
|---|---|
| `RebookingProofs` | `TypeCorrect`, `NoChargeWithoutTicket`, `RowsAreBacked`, `OwnerPays`, `CancelledStaysUnpaid`, `TrueAnswers`, `ImplementsContract` |
| `PipelineProofs` | `TypeCorrect`, `AlertsOnceAfterStore`, `CardsAfterConfirmation`, `AnnouncementsConfirmOnce`, `ImplementsLife` |
| `SignupProofs` | `TypeCorrect`, `EmailsUnique`, `AccountsBacked`, `AcceptedHasOnePlace` |
| `ThrottlesProofs` | `TypeCorrect`, `LimitsAreKept`, `CountersExpire` |
| `OffersProofs` | of Offers: `TypeCorrect`, `NoSilentFare`, `CommittedIsMonitored`; of FlightSearch: `AnswersStayRecent`, `PicksAreUndominated` |
| `PriceAlertsProofs` | `DropsAreReal`, `MarkedMeansMailed` |
| `AgentTasksProofs` | of AgentTasks: `TypeCorrect`, `NothingLostByTasks`, `HandedOverOnce`; of Subscriptions: `ClaimsArePaidFor`, `AlertsAreShown` |
| `FreightProofs` | of FreightMarket: `GradesAreKept`, `AdviceIsBacked`; of WeeklyChains: `ReroutesHaveReasons`, `CausesMakeOneChain` |

They hold for any sets of requests, users, offers, deliveries, tasks,
registrations, calls, clients, lanes and runs, and any limits and bounds, under
the ASSUMEs of the modules: the types of the constants; that `Calls` of Throttles
and `Lanes` of FreightMarket are finite (a deployment has finitely many rows);
that the runs and the monitors of WeeklyChains are different sessions; and that
`Nobody` is not a user. The bounds that a run needs (`MaxChains`, `MaxTime`, ...)
are any naturals. A list of offers has any length and any integers in its
fields; its ids differ. Each module states its inductive invariants as conjunctions
of named parts. Two components that share a module of proofs have each their own
names (`SearchInit`, `BillingNext`, `MarketSpec`, ...).

- Rebooking. None of the properties is inductive: that a charge has a ticket
  follows from where a request is in the saga. `Milestones` says what a request
  at each step has done (an order before `confirm_intent`, an accepted
  confirmation before `commit`), and `StoresAgree` that the replay of Stripe
  returns "charged" only for a charged intent, and what is accepted has its
  ticket. A cancelled intent can never be charged and a charged one never
  cancelled, which gives `PaymentCancelledIsTrue`; the equality of amounts comes
  from `Replayable`. `ImplementsContract` maps each action to a step of the
  contract or a stutter.
- Pipeline. A delivery is on the list or was popped once: the list always holds
  the last deliveries in order, and two busy tasks never hold the same one. What
  a task at each step relies on (fired before store, stored before notify,
  confirmed before the card) then carries the properties and the refinement.
  `AnnouncementsConfirmOnce` counts: the confirmed signals of a flight are no
  more than the announcements that were popped and are in no task's hand any
  more (`EnoughSpent`); a commit of `Confirm` adds one to each side, as the
  announcement was in hand (`AnnouncementsHeld`) until then.
- Sign-up. The index entry that an open transaction holds from insert to commit
  excludes every other transaction and committed user of that email. `Placed`
  adds that every registration, accepted or not yet answered, waits at most
  once, is held by at most one task and is in one place only, and that a task
  settles what it works on with its last step and no other (`WorkOpen`).
- Throttles. A limit is counted first and acted on later, so `RateHolds` and
  `DailyHolds` add what is under way to what was let through: a call that still
  owes the expiry of a counter, or was allowed a look-up that it has not made
  (`Used`, a cardinality), already counts. What was let through is then at most
  the counter of the running window or day, and no more than the limit when that
  counter has expired; of a day whose counter ended early (`renewed`) the limit
  may be used a second time, which the invariant counts. `Places` ties each step
  of a call to its key, so that nothing is owed to a window or day that has not
  come.
- Offers. `PriceKept`: a search entry that is not `forgotten` is what the client
  saw, and so is the copy which a request read before its await. `Milestones`
  says what a request at each step has registered, committed and sent.
- FlightSearch. `HeardKept`: unless Redis dropped a key or failed a call
  (`lost`), the stale entry outlives the last offers that were kept by its whole
  time. `Accounts`: an envelope that says the provider timed out, wherever it
  is, was made when such offers were too old to be kept, or before they came.
  `EntriesExpire` ties the age of an entry to its expiry.
- OptionRanking. `PicksAreUndominated` is about every list of offers and every
  wish, beyond the lists of three that the run enumerates. The invariant says
  only that a ranking is what the functions make; the work is in the lemmas
  about them. `Counted`: if R is a strict order on a finite set, what comes
  later has more before it, so that there is a first (`FirstOfOrder`, which also
  gives the least and the greatest of a set of integers) and, if the order is
  total, each place of `Sorted` is taken once (`SortedIsOrdered`).
  `PenaltyRises`: what is beaten in every factor has the greater penalty,
  whatever the spans, as they are positive; the same with `BestValueIsGood` and
  `RecommendedIsGood`. Then `RankingIsGood`, `EnvelopeIsGood` and
  `OptionsAreGood` are the three parts of the property, the last two by cases on
  which picks coincide.
- PriceAlerts. `MailedOnce` carries two facts together: an alert that was mailed
  is marked, and if no two runs selected it at once nobody holds it any more.
  `BelowBase` keeps each price compared at or under the user's own, through the
  mark that overwrites it.
- Subscriptions. `RowsTold`: each column of a row was told by some event of its
  tenant, and rows are never deleted. `RequestsHold`: a request that claims has
  seen both told. `AlertsOnce` is the unique index: a user has one alert.
- AgentTasks. `JobsHold` says what a message at each place has committed, and
  why one that is gone has not.
- FreightMarket. A session commits what it read earlier, so each property needs
  what an open session holds. `GradingInv`: what an open grading holds is old
  enough, and ungraded unless another grading was open. `AdviceInv`: what an
  open scoring would write is borne by its own predictions, and stays so, as
  signals are only added and predictions only appended. `ScoredIsBacked` is the
  lemma under it: a score is a weighted sum over the signals in the window, and
  a sum that recommends to wait or to book has three signals of its direction.
  Its parts (`SumIsDefined`, `SumIsAnInteger`) are inductions, written with the
  set of the numbers for which the claim holds and the least one outside it
  (`Least`, `Upward`), as a library theorem with an operator parameter cannot be
  instantiated.
- WeeklyChains. `NextMoves` first reduces every action to one of seven kinds of
  step on chains and sessions (a run begins, a monitor begins, looks at a chain,
  a session commits, announces or drops, a request appends; the rest leaves both
  alone), and the two invariants are proved over the kinds. `ChainTypes` has
  what each leg records (`GoodLegs`: a broker of 70 or more unless its second
  reading differed, and, of a leg that was chosen, no zone CRITICAL at that time
  and no severe weather unless that reading differed). `ReasonsInv` says of each
  chain, kept or held, that its reason is true of its parent (`Accounted`,
  `Explained`). `CauseInv` is about sessions. `OpenBeside`: any two open
  sessions of a kind are marked. `WeekFree`: a run that is not marked holds a
  chain of a week that no kept chain has, and `ParentFree`: a monitor that is
  not marked watches, and holds one successor each of, chains that have none
  yet. `Successors` and `OneEach` are the property itself, and `Outbox` says
  that the chains a session has still to announce are its own and not announced
  yet.

Only model-checked:

- liveness (`PushedOrLost`, `ConfirmedGetsCard`, `AcceptedIsSettled`,
  `HeldDropsAreMarked`): the prover has neither fairness nor ENABLED;
- the three refuted promises, which are counterexamples.

## What the models show of the code

Besides the three findings (a failed booking that has a ticket, a registration
that never becomes an account, a ZIP cache that never shows a signal),
properties had to be stated with these exceptions, each of which the model
reaches:

- a booking is recorded, and its user told, on a confirmation that Stripe
  accepted without a charge (`"unpaid"`);
- the daily limit may be used twice on a day whose counter ended a second early
  (`renewed`);
- a killed child loses its message (`killed`);
- a retry of a provisioning job that failed after its commit never sends the
  ingestion (`cut`), and a row whose task was not sent is never looked at again;
- a client that books after its search entry was dropped or replaced is not
  warned of another fare (`forgotten`);
- two overlapping monitors mail a price drop twice (`overlapped`), and a mail
  that failed is not repeated (`lost`);
- a subscription row may mix the plan of one event with the status of another;
- a breaker's counter whose expiry was lost counts failures for ever (`torn`);
- an origin whose lanes all report a ratio never gets a dead zone, and stops the
  DAT pipeline for all lanes; the three lanes suggested to an operator are such;
- two scorings at once leave advice that no prediction backs (`torn` of
  FreightMarket); two gradings at once grade twice;
- the monitor of chains cannot see a broker's score fall, but replaces a chain
  whose leg was recorded with another score than it was chosen by; a lane of two
  trailer types ends its whole run (`MonitorRaises`).

## Not modelled

- Drawing of cards, password hashing, tokens and encryption, HTTP and parsing in
  providers and scrapers, schemas, migrations, infrastructure, read-only views,
  audit and telemetry rows: no protocol, or none of this code's.
- `ingest_normalized_signals` and `generate_weekly_chains`, which nothing
  schedules; `update_market_health`, the search log, booking history, outcomes,
  daily digests: rows that no other operation reads.
- `score_signal` and `score_flight_disruption_probability`: a verdict in
  `DisruptionPipeline`, whose properties do not depend on the number.
- The count behind the fair-use limit of direct mail, revenue figures of the
  optimized week, fuel alerts: data that no property tells apart. Broker scores
  are an input of WeeklyChains: the scheduled pipeline is called with no broker.
- A tenant with several Stripe subscriptions, and several operators: their rows
  do not meet, except in the load cache (`LaneLists`).

## Plan

1. An abstract subscription that takes each event once, and the refinement that
   holds when reconciliations neither overlap nor run again.
2. A contract of the weekly chain (a cause, a chain, its announcement), which
   `WeeklyChains` implements when sessions do not overlap; `CauseInv` is the
   invariant that it needs.
3. Type correctness of FlightSearch, PriceAlerts, Subscriptions, WeeklyChains and
   FreightMarket is part of the invariants above (`MarketTypes`, `ChainTypes`,
   ...); as theorems of their own they would add nothing that a run asks.
