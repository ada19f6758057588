----------------------------- MODULE PriceAlerts -----------------------------
(***************************************************************************)
(* Saved trips and price alerts: save_trip, delete_saved_trip,             *)
(* set_price_alert and the six-hour monitor_price_alerts.  An alert copies *)
(* its price from the request or the trip and keeps no reference to it.    *)
(* The monitor reads the oldest unsent alerts once, asks Duffel for each,  *)
(* and commits alert_sent_at before it pushes and mails; an exception of   *)
(* Duffel skips the alert, one of push or mail ends the run.  Beat starts  *)
(* a run whether or not the last one has ended.                            *)
(***************************************************************************)
EXTENDS Naturals, Sequences, FiniteSets

CONSTANTS
    Flights,
    Prices,
    Trips,
    Monitors,     \* runs of the monitor that may overlap
    Limit,        \* the limit of the monitor's query
    MaxAlerts     \* bound: alerts ever created

ASSUME PriceAlertsAssumption ==
    /\ Prices \subseteq Nat \ {0}
    /\ {Limit, MaxAlerts} \subseteq Nat \ {0}

NoPrice == 0

NoTrip == [flight |-> "none", price |-> NoPrice]

VARIABLES
    price,        \* what each offer costs now, NoPrice once it has expired
    trip,         \* saved_trips
    alerts,       \* price_alerts, in the order of created_at
    base,         \* history: the price that each alert was created with
    monitor,      \* the runs
    mails,        \* history: prices mailed for each alert, in order
    lost,         \* history: alerts whose run ended between mark and mail
    overlapped,   \* history: alerts that two runs had selected at once
    unanswered    \* history: alerts whose look-up failed, or whose run ended
                  \* before it, since a run last selected them

vars == <<price, trip, alerts, base, monitor, mails, lost, overlapped, unanswered>>

Ids == 1..MaxAlerts

Idle == [step |-> "idle", batch |-> {}, new |-> NoPrice]

Init ==
    /\ price \in [Flights -> Prices]
    /\ trip = [t \in Trips |-> NoTrip]
    /\ alerts = <<>>
    /\ base = <<>>
    /\ monitor = [m \in Monitors |-> Idle]
    /\ mails = [i \in Ids |-> <<>>]
    /\ lost = {}
    /\ overlapped = {}
    /\ unanswered = {}

history == <<base, mails, lost, overlapped, unanswered>>

-----------------------------------------------------------------------------
(* requests *)

(* A trip may name no flight and no price. *)
SaveTrip(t) ==
    /\ trip[t] = NoTrip
    /\ \E f \in Flights \cup {"none"}, p \in Prices \cup {NoPrice} :
         trip' = [trip EXCEPT ![t] = [flight |-> f, price |-> p]]
    /\ UNCHANGED <<price, alerts, monitor, history>>

DeleteTrip(t) ==
    /\ trip' = [trip EXCEPT ![t] = NoTrip]
    /\ UNCHANGED <<price, alerts, monitor, history>>

Create(f, p) ==
    /\ Len(alerts) < MaxAlerts
    /\ f \in Flights /\ p \in Prices      \* else 422
    /\ alerts' = Append(alerts, [flight |-> f, price |-> p, sent |-> FALSE])
    /\ base' = Append(base, p)

(* POST /alerts/price, with what the request leaves out taken from the trip *)
SetPriceAlert ==
    /\ \/ \E f \in Flights, p \in Prices : Create(f, p)
       \/ \E t \in Trips : \/ Create(trip[t].flight, trip[t].price)
                           \/ \E p \in Prices : Create(trip[t].flight, p)
    /\ UNCHANGED <<price, trip, monitor, mails, lost, overlapped, unanswered>>

(* The flight_id of an alert is the id of a Duffel offer: its fare may move, *)
(* and it expires for good.                                                 *)
Reprice(f) ==
    /\ price[f] # NoPrice
    /\ \E p \in Prices \ {price[f]} : price' = [price EXCEPT ![f] = p]
    /\ UNCHANGED <<trip, alerts, monitor, history>>

OfferExpires(f) ==
    /\ price[f] # NoPrice
    /\ price' = [price EXCEPT ![f] = NoPrice]
    /\ UNCHANGED <<trip, alerts, monitor, history>>

-----------------------------------------------------------------------------
(* monitor_price_alerts *)

Row(i) == [id |-> i, flight |-> alerts[i].flight, price |-> alerts[i].price]

(* the rows of the oldest alerts among ids *)
FirstOf(ids) == {Row(i) : i \in {i \in ids : Cardinality({j \in ids : j < i}) < Limit}}

Unsent == {i \in 1..Len(alerts) : ~alerts[i].sent}

Held(m) == {row.id : row \in monitor[m].batch}

Load(m, ids) ==
    LET batch == FirstOf(ids)
    IN /\ monitor[m].step = "idle"
       /\ batch # {}
       /\ monitor' = [monitor EXCEPT ![m] = [step |-> "ask", batch |-> batch, new |-> NoPrice]]
       /\ overlapped' = overlapped \cup
            {i \in {row.id : row \in batch} : \E o \in Monitors : i \in Held(o)}
       /\ unanswered' = unanswered \ {row.id : row \in batch}
       /\ UNCHANGED <<price, trip, alerts, base, mails, lost>>

Select(m) == Load(m, Unsent)

(* the loop goes through its rows in the order of created_at *)
Current(m) == {row \in monitor[m].batch : \A o \in monitor[m].batch : row.id <= o.id}

(* the rest of the run: the next alert, or the end *)
Proceed(m, row) ==
    LET rest == monitor[m].batch \ {row}
    IN monitor' = [monitor EXCEPT ![m] = IF rest = {} THEN Idle
                       ELSE [step |-> "ask", batch |-> rest, new |-> NoPrice]]

(* variant: a drop of ten is enough *)
DropsEnough(old, new) == old >= new + 10

Drops(old, new) == old > new + 10

(* variant: break instead of continue *)
NoAnswerEndsRun(m) ==
    /\ monitor[m].step = "ask"
    /\ monitor' = [monitor EXCEPT ![m] = Idle]
    /\ unanswered' = unanswered \cup {row.id : row \in Current(m)}
    /\ UNCHANGED <<price, trip, alerts, base, mails, lost, overlapped>>

(* get_offer raises, as it does for good once the offer has expired, or its *)
(* answer has no price, or the user is gone                                 *)
NoAnswer(m) ==
    /\ monitor[m].step = "ask"
    /\ \E row \in Current(m) :
          /\ Proceed(m, row)
          /\ unanswered' = unanswered \cup {row.id}
    /\ UNCHANGED <<price, trip, alerts, base, mails, lost, overlapped>>

NoDrop(m) ==
    /\ monitor[m].step = "ask"
    /\ \E row \in Current(m) :
          /\ price[row.flight] # NoPrice
          /\ ~Drops(row.price, price[row.flight])
          /\ Proceed(m, row)
    /\ UNCHANGED <<price, trip, alerts, history>>

Goto(m, step, new) ==
    monitor' = [monitor EXCEPT ![m] =
                    [step |-> step, batch |-> monitor[m].batch, new |-> new]]

(* variant: the alert is marked when the run ends *)
MarkLate(m) ==
    /\ monitor[m].step = "ask"
    /\ \E row \in Current(m) :
          /\ price[row.flight] # NoPrice
          /\ Drops(row.price, price[row.flight])
          /\ Goto(m, "push", price[row.flight])
    /\ UNCHANGED <<price, trip, alerts, history>>

(* get_offer, then the commit of alert_sent_at and of the new price *)
Mark(m) ==
    /\ monitor[m].step = "ask"
    /\ \E row \in Current(m) :
          /\ price[row.flight] # NoPrice
          /\ Drops(row.price, price[row.flight])
          /\ Goto(m, "push", price[row.flight])
          /\ alerts' = [alerts EXCEPT ![row.id] =
                [flight |-> row.flight, price |-> price[row.flight], sent |-> TRUE]]
    /\ UNCHANGED <<price, trip, history>>

Push(m) ==
    /\ monitor[m].step = "push"
    /\ Goto(m, "mail", monitor[m].new)
    /\ UNCHANGED <<price, trip, alerts, history>>

Mail(m) ==
    /\ monitor[m].step = "mail"
    /\ \E row \in Current(m) :
          /\ mails' = [mails EXCEPT ![row.id] = Append(@, monitor[m].new)]
          /\ Proceed(m, row)
    /\ UNCHANGED <<price, trip, alerts, base, lost, overlapped, unanswered>>

(* push or mail raises, or the worker dies: the rest of the batch is left *)
Abort(m) ==
    /\ monitor[m].step # "idle"
    /\ lost' = IF monitor[m].step = "ask" THEN lost
               ELSE lost \cup {row.id : row \in Current(m)}
    /\ unanswered' = unanswered \cup (IF monitor[m].step = "ask" THEN Held(m)
                        ELSE {row.id : row \in monitor[m].batch \ Current(m)})
    /\ monitor' = [monitor EXCEPT ![m] = Idle]
    /\ UNCHANGED <<price, trip, alerts, base, mails, overlapped>>

-----------------------------------------------------------------------------

MoveOn(m) == NoAnswer(m) \/ NoDrop(m) \/ Mark(m) \/ Push(m) \/ Mail(m)

Monitor(m) == Select(m) \/ MoveOn(m) \/ Abort(m)

Next ==
    \/ SetPriceAlert
    \/ \E t \in Trips : SaveTrip(t) \/ DeleteTrip(t)
    \/ \E f \in Flights : Reprice(f) \/ OfferExpires(f)
    \/ \E m \in Monitors : Monitor(m)

At(m, i) == \E row \in Current(m) : row.id = i

(* A run that has started moves on or dies.  That Duffel ever answers, or   *)
(* that any run gets to its end, is not assumed.                            *)
Fairness == \A m \in Monitors : WF_vars(MoveOn(m) \/ Abort(m))

Spec == Init /\ [][Next]_vars /\ Fairness

-----------------------------------------------------------------------------
(***************************************************************************)
(* Properties.                                                             *)
(***************************************************************************)

(* Every price mailed for an alert is more than ten below the price that    *)
(* the user set it at, although the first mail overwrites that price, runs  *)
(* overlap, and the fare moves between the look-up and the mail.            *)
DropIsReal ==
    \A i \in 1..Len(alerts) : \A n \in 1..Len(mails[i]) : base[i] > mails[i][n] + 10

MailDue(i) == \E m \in Monitors : monitor[m].step \in {"push", "mail"} /\ At(m, i)

(* A marked alert was mailed, is being mailed, or belongs to a run that     *)
(* ended right there; it is mailed again only by a run that had selected it *)
(* together with another one.                                               *)
MarkMeansOneMail ==
    \A i \in 1..Len(alerts) :
        /\ alerts[i].sent => mails[i] # <<>> \/ MailDue(i) \/ i \in lost
        /\ Len(mails[i]) > 1 => i \in overlapped

Dropped(i) == /\ i \in Unsent /\ price[alerts[i].flight] # NoPrice
              /\ Drops(alerts[i].price, price[alerts[i].flight])

(* When a run has selected an alert whose fare has dropped, the alert is     *)
(* marked as sent, by this run or an overlapping one, unless the fare rises *)
(* or the offer expires first, its own look-up fails, or the run is cut     *)
(* short before it: the failing look-ups of the alerts before it, and the   *)
(* fares that did not drop, do not end the run.                             *)
HeldDropsAreMarked ==
    \A m \in Monitors, i \in Ids :
        i \in Held(m) /\ Dropped(i) ~> i \in unanswered \/ ~Dropped(i)

=============================================================================
