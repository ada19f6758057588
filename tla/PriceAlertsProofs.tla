-------------------------- MODULE PriceAlertsProofs --------------------------
(***************************************************************************)
(* Proofs about PriceAlerts, for any flights, prices, trips, limit, number *)
(* of alerts and number of runs of the monitor that overlap.  An alert     *)
(* that is unmarked has never been mailed, and one that a single run holds *)
(* cannot be marked by another: both facts have to be carried together.    *)
(***************************************************************************)
EXTENDS PriceAlerts, TLAPS

Rows == [id : Ids, flight : Flights, price : Prices]

Runs == [step : {"idle", "ask", "push", "mail"}, batch : SUBSET Rows,
         new : Prices \cup {NoPrice}]

Alerts == [flight : Flights, price : Prices, sent : BOOLEAN]

TypeOK ==
    /\ price \in [Flights -> Prices \cup {NoPrice}]
    /\ alerts \in Seq(Alerts)
    /\ base \in Seq(Prices)
    /\ Len(alerts) <= MaxAlerts /\ Len(base) = Len(alerts)
    /\ monitor \in [Monitors -> Runs]
    /\ mails \in [Ids -> Seq(Prices)]

(* what a run holds: existing alerts, each once, none when it is idle, and  *)
(* the fare that it is about to mail                                        *)
RowsExist ==
    \A m \in Monitors :
        /\ monitor[m].step = "idle" => monitor[m].batch = {}
        /\ monitor[m].step \in {"push", "mail"} => monitor[m].new \in Prices
        /\ \A row \in monitor[m].batch : row.id \in 1..Len(alerts)
        /\ \A row, o \in monitor[m].batch : row.id = o.id => row = o

(* The prices compared are never above the price of the user. *)
BelowBase ==
    /\ \A i \in 1..Len(alerts) : alerts[i].price <= base[i]
    /\ \A m \in Monitors : \A row \in monitor[m].batch : row.price <= base[row.id]
    /\ \A m \in Monitors : \A row \in Current(m) :
          monitor[m].step \in {"push", "mail"} => base[row.id] > monitor[m].new + 10

(* An alert that no two runs selected at once is mailed at most once: it    *)
(* is marked before, and the run that mails it is the only one to hold it.  *)
MailedOnce ==
    /\ \A m, o \in Monitors : \A i \in Held(m) \cap Held(o) : m # o => i \in overlapped
    /\ \A i \in 1..Len(alerts) :
          /\ mails[i] # <<>> => alerts[i].sent
          /\ mails[i] # <<>> /\ i \notin overlapped =>
                Len(mails[i]) = 1 /\ \A m \in Monitors : i \notin Held(m)
    /\ \A i \in Ids : i > Len(alerts) => mails[i] = <<>>
    /\ \A m \in Monitors : \A row \in Current(m) :
          monitor[m].step \in {"push", "mail"} => alerts[row.id].sent

MarksCounted ==
    \A i \in 1..Len(alerts) : alerts[i].sent => mails[i] # <<>> \/ MailDue(i) \/ i \in lost

IInv == TypeOK /\ RowsExist /\ BelowBase /\ MailedOnce /\ MarksCounted /\ DropIsReal

-----------------------------------------------------------------------------

LEMMA Numbers ==
  /\ Prices \subseteq Nat /\ NoPrice \notin Prices /\ NoPrice = 0
  /\ MaxAlerts \in Nat /\ Ids \subseteq Nat
  /\ \A n \in Nat : n <= MaxAlerts => 1..n \subseteq Ids
  BY PriceAlertsAssumption DEF NoPrice, Ids

LEMMA Entries ==
  ASSUME TypeOK
  PROVE  /\ Len(alerts) \in Nat /\ 1..Len(alerts) \subseteq Ids
         /\ \A i \in 1..Len(alerts) : alerts[i] \in Alerts /\ base[i] \in Prices
  <1>1. Len(alerts) \in Nat /\ Len(base) = Len(alerts) /\ Len(alerts) <= MaxAlerts
    BY DEF TypeOK
  <1>2. 1..Len(alerts) \subseteq Ids
    BY <1>1, PriceAlertsAssumption DEF Ids
  <1>3. \A i \in 1..Len(alerts) : alerts[i] \in Alerts
    BY DEF TypeOK
  <1>4. \A i \in 1..Len(base) : base[i] \in Prices
    BY DEF TypeOK
  <1> QED
    BY <1>1, <1>2, <1>3, <1>4

(* the row that a run is at is unique, and it is one of the run *)
LEMMA CurrentIsOne ==
  ASSUME TypeOK, RowsExist, NEW m \in Monitors, NEW row \in Current(m)
  PROVE  /\ row \in monitor[m].batch /\ row \in Rows
         /\ row.id \in 1..Len(alerts) /\ row.id \in Ids
         /\ row.flight \in Flights /\ row.price \in Prices
         /\ \A o \in Current(m) : o = row
         /\ \A o \in monitor[m].batch : o.id = row.id => o = row
  <1>1. row \in monitor[m].batch /\ row \in Rows
    BY DEF Current, TypeOK, Runs
  <1>2. row.id \in 1..Len(alerts) /\ row.id \in Ids
    BY <1>1 DEF RowsExist, Rows
  <1>3. \A o \in monitor[m].batch : o.id = row.id => o = row
    BY <1>1 DEF RowsExist
  <1>4. ASSUME NEW o \in Current(m) PROVE o = row
    <2>0. o \in monitor[m].batch /\ o \in Rows
      BY DEF Current, TypeOK, Runs
    <2>1. o \in monitor[m].batch /\ o.id \in Nat /\ row.id \in Nat
      BY <1>1, <2>0, Numbers DEF Rows
    <2>2. o.id <= row.id /\ row.id <= o.id
      BY <1>1, <2>1 DEF Current
    <2> QED
      BY <1>3, <2>1, <2>2
  <1> QED
    BY <1>1, <1>2, <1>3, <1>4 DEF Rows

(* how one run goes on, whatever else the step changes *)
LEMMA GotoMoves ==
  ASSUME TypeOK, NEW m \in Monitors, NEW s \in {"idle", "ask", "push", "mail"},
         NEW n \in Prices \cup {NoPrice}, Goto(m, s, n)
  PROVE  /\ monitor' \in [Monitors -> Runs]
         /\ monitor'[m].step = s /\ monitor'[m].new = n
         /\ monitor'[m].batch = monitor[m].batch
         /\ \A o \in Monitors \ {m} : monitor'[o] = monitor[o]
  <1> DEFINE r == [step |-> s, batch |-> monitor[m].batch, new |-> n]
  <1>1. monitor[m] \in Runs
    BY DEF TypeOK
  <1>2. r \in Runs /\ r.step = s /\ r.new = n /\ r.batch = monitor[m].batch
    BY <1>1 DEF Runs
  <1>3. monitor' = [monitor EXCEPT ![m] = r]
    BY DEF Goto
  <1> HIDE DEF r
  <1>4. monitor'[m] = r
    BY <1>3 DEF TypeOK
  <1> QED
    BY <1>2, <1>3, <1>4 DEF TypeOK

LEMMA ProceedMoves ==
  ASSUME TypeOK, NEW m \in Monitors, NEW row \in monitor[m].batch, Proceed(m, row)
  PROVE  /\ monitor' \in [Monitors -> Runs]
         /\ monitor'[m].step \in {"idle", "ask"}
         /\ monitor'[m].step = "idle" => monitor'[m].batch = {}
         /\ monitor'[m].batch = monitor[m].batch \ {row}
         /\ \A o \in Monitors \ {m} : monitor'[o] = monitor[o]
  <1> DEFINE rest == monitor[m].batch \ {row}
             r == IF rest = {} THEN Idle
                  ELSE [step |-> "ask", batch |-> rest, new |-> NoPrice]
  <1>1. monitor[m].batch \in SUBSET Rows
    BY DEF TypeOK, Runs
  <1>2. /\ r \in Runs /\ r.step \in {"idle", "ask"} /\ r.batch = rest
        /\ r.step = "idle" => r.batch = {}
    BY <1>1 DEF Runs, Idle
  <1>3. monitor' = [monitor EXCEPT ![m] = r]
    BY DEF Proceed
  <1> HIDE DEF r
  <1>4. monitor'[m] = r
    BY <1>3 DEF TypeOK
  <1> QED
    BY <1>2, <1>3, <1>4 DEF TypeOK

(* the rows that a run selects *)
LEMMA Selected ==
  ASSUME TypeOK, NEW row \in FirstOf(Unsent)
  PROVE  /\ row \in Rows /\ row.id \in 1..Len(alerts)
         /\ ~alerts[row.id].sent /\ row.price = alerts[row.id].price
         /\ row = Row(row.id)
  <1>1. PICK i \in Unsent : row = Row(i)
    BY DEF FirstOf
  <1>2. i \in 1..Len(alerts) /\ ~alerts[i].sent
    BY <1>1 DEF Unsent
  <1>3. i \in Ids
    BY <1>2, Entries
  <1>4. alerts[i] \in Alerts
    BY <1>2, Entries
  <1>5. row.id = i /\ row.price = alerts[i].price /\ row \in Rows
    BY <1>1, <1>3, <1>4 DEF Row, Rows, Alerts
  <1> QED
    BY <1>1, <1>2, <1>5

LEMMA InvInit == Init => IInv
  <1> SUFFICES ASSUME Init PROVE IInv
    OBVIOUS
  <1>1. TypeOK
    <2>1. Idle \in Runs /\ NoPrice \in Nat
      BY DEF Idle, Runs, NoPrice
    <2>2. Len(alerts) = 0 /\ Len(base) = 0
      BY DEF Init
    <2> QED
      BY <2>1, <2>2, PriceAlertsAssumption DEF Init, TypeOK
  <1>2. \A m \in Monitors : monitor[m].step = "idle" /\ monitor[m].batch = {}
    BY DEF Init, Idle
  <1>3. 1..Len(alerts) = {}
    BY DEF Init
  <1>4. \A m \in Monitors : Current(m) = {} /\ Held(m) = {}
    BY <1>2 DEF Current, Held
  <1>5. RowsExist
    BY <1>2 DEF RowsExist
  <1>6. BelowBase
    BY <1>2, <1>3, <1>4 DEF BelowBase
  <1>7. MailedOnce
    BY <1>3, <1>4 DEF MailedOnce, Init
  <1>8. MarksCounted /\ DropIsReal
    BY <1>3 DEF MarksCounted, DropIsReal
  <1> QED
    BY <1>1, <1>5, <1>6, <1>7, <1>8 DEF IInv

LEMMA TypeStep == TypeOK /\ RowsExist /\ [Next]_vars => TypeOK'
  <1> SUFFICES ASSUME TypeOK, RowsExist, [Next]_vars PROVE TypeOK'
    OBVIOUS
  <1>1. ASSUME NEW f \in Flights \cup {"none"}, NEW p \in Nat, Create(f, p),
               UNCHANGED <<price, monitor, mails>>
        PROVE  TypeOK'
    <2> DEFINE a == [flight |-> f, price |-> p, sent |-> FALSE]
    <2>1. a \in Alerts /\ p \in Prices /\ Len(alerts) < MaxAlerts
      BY <1>1 DEF Create, Alerts
    <2>2. alerts' = Append(alerts, a) /\ base' = Append(base, p)
      BY <1>1 DEF Create
    <2> HIDE DEF a
    <2>3. alerts' \in Seq(Alerts) /\ Len(alerts') = Len(alerts) + 1
      BY <2>1, <2>2 DEF TypeOK
    <2>4. base' \in Seq(Prices) /\ Len(base') = Len(base) + 1
      BY <2>1, <2>2 DEF TypeOK
    <2>5. Len(alerts') <= MaxAlerts
      BY <2>1, <2>3, Numbers, Entries
    <2> QED
      BY <1>1, <2>3, <2>4, <2>5 DEF TypeOK
  <1>2. ASSUME NEW f, NEW p, Create(f, p), UNCHANGED <<price, monitor, mails>>
        PROVE  TypeOK'
    BY <1>1, <1>2, Numbers DEF Create
  <1>3. CASE SetPriceAlert
    BY <1>2, <1>3 DEF SetPriceAlert
  <1>4. ASSUME NEW f \in Flights, Reprice(f) \/ OfferExpires(f) PROVE TypeOK'
    BY <1>4 DEF Reprice, OfferExpires, history, TypeOK
  <1>5. ASSUME NEW m \in Monitors, Monitor(m) PROVE TypeOK'
    <2>1. CASE Select(m)
      <3> DEFINE r == [step |-> "ask", batch |-> FirstOf(Unsent), new |-> NoPrice]
      <3>1. FirstOf(Unsent) \subseteq Rows
        BY Selected
      <3>2. r \in Runs
        BY <3>1 DEF Runs
      <3>3. /\ monitor' = [monitor EXCEPT ![m] = r]
            /\ UNCHANGED <<price, alerts, base, mails>>
        BY <2>1 DEF Select, Load
      <3> HIDE DEF r
      <3> QED
        BY <3>2, <3>3 DEF TypeOK
    <2>2. CASE NoAnswer(m) \/ NoDrop(m)
      <3>1. PICK row \in Current(m) : Proceed(m, row)
        BY <2>2 DEF NoAnswer, NoDrop
      <3>2. monitor' \in [Monitors -> Runs]
        BY <3>1, CurrentIsOne, ProceedMoves
      <3> QED
        BY <2>2, <3>2 DEF NoAnswer, NoDrop, history, TypeOK
    <2>3. CASE Mark(m)
      <3>1. PICK row \in Current(m) :
              /\ price[row.flight] # NoPrice
              /\ Goto(m, "push", price[row.flight])
              /\ alerts' = [alerts EXCEPT ![row.id] =
                    [flight |-> row.flight, price |-> price[row.flight], sent |-> TRUE]]
        BY <2>3 DEF Mark
      <3>2. row.flight \in Flights /\ row.id \in 1..Len(alerts)
        BY CurrentIsOne
      <3>3. price[row.flight] \in Prices
        BY <3>1, <3>2 DEF TypeOK
      <3>4. [flight |-> row.flight, price |-> price[row.flight], sent |-> TRUE] \in Alerts
        BY <3>2, <3>3 DEF Alerts
      <3>5. alerts' \in Seq(Alerts) /\ Len(alerts') = Len(alerts)
        BY <3>1, <3>2, <3>4 DEF TypeOK
      <3>6. monitor' \in [Monitors -> Runs]
        BY <3>1, <3>3, GotoMoves
      <3> QED
        BY <2>3, <3>5, <3>6 DEF Mark, history, TypeOK
    <2>4. CASE Push(m)
      <3>1. monitor[m].new \in Prices \cup {NoPrice}
        BY DEF TypeOK, Runs
      <3>2. monitor' \in [Monitors -> Runs]
        BY <2>4, <3>1, GotoMoves DEF Push
      <3> QED
        BY <2>4, <3>2 DEF Push, history, TypeOK
    <2>5. CASE Mail(m)
      <3>1. PICK row \in Current(m) :
              /\ mails' = [mails EXCEPT ![row.id] = Append(mails[row.id], monitor[m].new)]
              /\ Proceed(m, row)
        BY <2>5 DEF Mail
      <3>2. monitor' \in [Monitors -> Runs] /\ row.id \in Ids
        BY <3>1, CurrentIsOne, ProceedMoves
      <3>3. monitor[m].new \in Prices
        BY <2>5 DEF Mail, RowsExist
      <3> QED
        BY <2>5, <3>1, <3>2, <3>3 DEF Mail, TypeOK
    <2>6. CASE Abort(m)
      BY <2>6 DEF Abort, TypeOK, Runs, Idle
    <2> QED
      BY <1>5, <2>1, <2>2, <2>3, <2>4, <2>5, <2>6 DEF Monitor, MoveOn
  <1>6. CASE UNCHANGED <<price, alerts, monitor, base, mails>>
    BY <1>6 DEF TypeOK
  <1> QED
    BY <1>3, <1>4, <1>5, <1>6 DEF Next, SaveTrip, DeleteTrip, history, vars

-----------------------------------------------------------------------------

(* a run that ends or goes to its next row: what it holds only shrinks *)
LEMMA Retreats ==
  ASSUME IInv, NEW m \in Monitors,
         monitor'[m].step \in {"idle", "ask"},
         monitor'[m].step = "idle" => monitor'[m].batch = {},
         monitor'[m].batch \subseteq monitor[m].batch,
         \A o \in Monitors \ {m} : monitor'[o] = monitor[o],
         UNCHANGED <<alerts, base, overlapped>>
  PROVE  /\ RowsExist' /\ BelowBase'
         /\ \A o \in Monitors : Held(o)' \subseteq Held(o)
         /\ \A q, o \in Monitors : \A i \in Held(q)' \cap Held(o)' : q # o => i \in overlapped'
         /\ \A o \in Monitors : \A row \in Current(o)' :
               monitor'[o].step \in {"push", "mail"} => alerts'[row.id].sent
  <1>1. \A o \in Monitors : monitor'[o].batch \subseteq monitor[o].batch
    OBVIOUS
  <1>2. \A o \in Monitors : monitor'[o].step \in {"push", "mail"} =>
           o # m /\ Current(o)' = Current(o)
    BY DEF Current
  <1>3. RowsExist'
    BY <1>1 DEF IInv, RowsExist
  <1>4. BelowBase'
    <2>1. \A i \in 1..Len(alerts') : alerts'[i].price <= base'[i]
      BY DEF IInv, BelowBase
    <2>2. \A o \in Monitors : \A row \in monitor'[o].batch : row.price <= base'[row.id]
      BY <1>1 DEF IInv, BelowBase
    <2>3. \A o \in Monitors : \A row \in Current(o)' :
             monitor'[o].step \in {"push", "mail"} => base'[row.id] > monitor'[o].new + 10
      BY <1>2 DEF IInv, BelowBase
    <2> QED
      BY <2>1, <2>2, <2>3 DEF BelowBase
  <1>5. \A o \in Monitors : Held(o)' \subseteq Held(o)
    BY <1>1 DEF Held
  <1>6. \A q, o \in Monitors : \A i \in Held(q)' \cap Held(o)' : q # o => i \in overlapped'
    BY <1>5 DEF IInv, MailedOnce
  <1>7. \A o \in Monitors : \A row \in Current(o)' :
           monitor'[o].step \in {"push", "mail"} => alerts'[row.id].sent
    BY <1>2 DEF IInv, MailedOnce
  <1> QED
    BY <1>3, <1>4, <1>5, <1>6, <1>7

LEMMA CreateStep ==
  ASSUME IInv, NEW f, NEW p, Create(f, p),
         UNCHANGED <<monitor, mails, lost, overlapped>>
  PROVE  RowsExist' /\ BelowBase' /\ MailedOnce' /\ MarksCounted' /\ DropIsReal'
  <1> DEFINE a == [flight |-> f, price |-> p, sent |-> FALSE]
             n == Len(alerts) + 1
  <1>1. a \in Alerts /\ p \in Prices /\ Len(alerts) < MaxAlerts /\ a.price = p /\ ~a.sent
    BY DEF Create, Alerts
  <1>2. alerts' = Append(alerts, a) /\ base' = Append(base, p)
    BY DEF Create
  <1>3. Len(alerts) \in Nat /\ Len(base) = Len(alerts) /\ n \in Ids
    BY <1>1, Entries, PriceAlertsAssumption DEF IInv, TypeOK, Ids
  <1> HIDE DEF a
  <1>4. /\ Len(alerts') = n /\ alerts'[n] = a /\ base'[n] = p
        /\ \A i \in 1..Len(alerts) : alerts'[i] = alerts[i] /\ base'[i] = base[i]
    BY <1>1, <1>2, <1>3 DEF IInv, TypeOK
  <1>5. 1..Len(alerts') = 1..Len(alerts) \cup {n} /\ n \notin 1..Len(alerts)
    BY <1>3, <1>4
  <1>6. mails[n] = <<>>
    BY <1>3 DEF IInv, MailedOnce
  <1>7. \A m \in Monitors : /\ Current(m)' = Current(m) /\ Held(m)' = Held(m)
                            /\ \A row \in Current(m) : row \in monitor[m].batch
                            /\ \A row \in monitor[m].batch : row.id \in 1..Len(alerts)
    BY DEF Current, Held, IInv, RowsExist
  <1>8. RowsExist'
    BY <1>5 DEF IInv, RowsExist
  <1>9. BelowBase'
    <2>1. \A i \in 1..Len(alerts') : alerts'[i].price <= base'[i]
      <3>1. p <= p
        BY <1>1, Numbers
      <3> QED
        BY <1>1, <1>4, <1>5, <3>1 DEF IInv, BelowBase
    <2>2. \A m \in Monitors : \A row \in monitor'[m].batch : row.price <= base'[row.id]
      BY <1>4, <1>7 DEF IInv, BelowBase
    <2>3. \A m \in Monitors : \A row \in Current(m)' :
             monitor'[m].step \in {"push", "mail"} => base'[row.id] > monitor'[m].new + 10
      BY <1>4, <1>7 DEF IInv, BelowBase
    <2> QED
      BY <2>1, <2>2, <2>3 DEF BelowBase
  <1>10. MailedOnce'
    <2>1. \A m, o \in Monitors : \A i \in Held(m)' \cap Held(o)' : m # o => i \in overlapped'
      BY <1>7 DEF IInv, MailedOnce
    <2>2. \A i \in 1..Len(alerts') :
             /\ mails'[i] # <<>> => alerts'[i].sent
             /\ mails'[i] # <<>> /\ i \notin overlapped' =>
                   Len(mails'[i]) = 1 /\ \A m \in Monitors : i \notin Held(m)'
      BY <1>4, <1>5, <1>6, <1>7 DEF IInv, MailedOnce
    <2>3. ASSUME NEW i \in Ids, i > Len(alerts') PROVE mails'[i] = <<>>
      <3>1. i > Len(alerts)
        BY <1>3, <1>4, <2>3, Numbers
      <3> QED
        BY <3>1 DEF IInv, MailedOnce
    <2>4. \A m \in Monitors : \A row \in Current(m)' :
             monitor'[m].step \in {"push", "mail"} => alerts'[row.id].sent
      BY <1>4, <1>7 DEF IInv, MailedOnce
    <2> QED
      BY <2>1, <2>2, <2>3, <2>4 DEF MailedOnce
  <1>11. MarksCounted'
    <2>1. \A i \in Ids : MailDue(i)' <=> MailDue(i)
      BY <1>7 DEF MailDue, At
    <2> QED
      BY <1>1, <1>3, <1>4, <1>5, <2>1, Entries DEF IInv, MarksCounted
  <1>12. DropIsReal'
    <2>1. \A k \in 1..Len(mails[n]) : FALSE
      BY <1>6
    <2> QED
      BY <1>4, <1>5, <2>1 DEF IInv, DropIsReal
  <1> QED
    BY <1>8, <1>9, <1>10, <1>11, <1>12

LEMMA SelectStep ==
  ASSUME IInv, NEW m \in Monitors, Select(m)
  PROVE  RowsExist' /\ BelowBase' /\ MailedOnce' /\ MarksCounted' /\ DropIsReal'
  <1> DEFINE new == FirstOf(Unsent)
             r == [step |-> "ask", batch |-> new, new |-> NoPrice]
  <1>1. /\ monitor' = [monitor EXCEPT ![m] = r] /\ monitor[m].step = "idle"
        /\ overlapped' = overlapped \cup
             {i \in {row.id : row \in new} : \E o \in Monitors : i \in Held(o)}
        /\ UNCHANGED <<alerts, base, mails, lost>>
    BY DEF Select, Load
  <1>2. r.step = "ask" /\ r.batch = new
    OBVIOUS
  <1>3. \A row \in new : /\ row.id \in 1..Len(alerts) /\ ~alerts[row.id].sent
                         /\ row.price = alerts[row.id].price /\ row = Row(row.id)
    BY Selected DEF IInv
  <1> HIDE DEF r, new
  <1>4. monitor'[m] = r /\ \A o \in Monitors \ {m} : monitor'[o] = monitor[o]
    BY <1>1 DEF IInv, TypeOK
  <1>5. \A o \in Monitors \ {m} : Current(o)' = Current(o) /\ Held(o)' = Held(o)
    BY <1>4 DEF Current, Held
  <1>6. Held(m)' = {row.id : row \in new} /\ Held(m) = {}
    BY <1>1, <1>2, <1>4 DEF Held, IInv, RowsExist
  <1>7. RowsExist'
    BY <1>1, <1>2, <1>3, <1>4 DEF IInv, RowsExist
  <1>8. BelowBase'
    <2>1. \A row \in new : row.price <= base[row.id]
      BY <1>3 DEF IInv, BelowBase
    <2> QED
      BY <1>1, <1>2, <1>4, <1>5, <2>1 DEF IInv, BelowBase
  <1>9. MailedOnce'
    <2>1. \A q, o \in Monitors : \A i \in Held(q)' \cap Held(o)' : q # o => i \in overlapped'
      BY <1>1, <1>5, <1>6 DEF IInv, MailedOnce
    <2>2. \A i \in 1..Len(alerts) :
             /\ mails[i] # <<>> => alerts[i].sent
             /\ mails[i] # <<>> /\ i \notin overlapped' =>
                   Len(mails[i]) = 1 /\ \A o \in Monitors : i \notin Held(o)'
      <3>1. \A i \in Held(m)' : ~alerts[i].sent
        BY <1>3, <1>6
      <3> QED
        BY <1>1, <1>5, <3>1 DEF IInv, MailedOnce
    <2>3. \A o \in Monitors : \A row \in Current(o)' :
             monitor'[o].step \in {"push", "mail"} => alerts'[row.id].sent
      BY <1>1, <1>2, <1>4, <1>5 DEF IInv, MailedOnce
    <2> QED
      BY <1>1, <2>1, <2>2, <2>3 DEF IInv, MailedOnce
  <1>10. \A i \in Ids : MailDue(i) => MailDue(i)'
    BY <1>1, <1>4, <1>5 DEF MailDue, At
  <1>11. MarksCounted'
    BY <1>1, <1>10, Entries DEF IInv, MarksCounted
  <1>12. DropIsReal'
    BY <1>1 DEF IInv, DropIsReal
  <1> QED
    BY <1>7, <1>8, <1>9, <1>11, <1>12

(* the next alert, with nothing else changed than the history of answers *)
LEMMA PassStep ==
  ASSUME IInv, NEW m \in Monitors, monitor[m].step = "ask",
         NEW row \in Current(m), Proceed(m, row),
         UNCHANGED <<alerts, base, mails, lost, overlapped>>
  PROVE  RowsExist' /\ BelowBase' /\ MailedOnce' /\ MarksCounted' /\ DropIsReal'
  <1>1. Proceed(m, row)
    OBVIOUS
  <1>2. monitor[m].step = "ask" /\ UNCHANGED <<alerts, base, mails, lost, overlapped>>
    OBVIOUS
  <1>3. /\ monitor'[m].step \in {"idle", "ask"}
        /\ monitor'[m].step = "idle" => monitor'[m].batch = {}
        /\ monitor'[m].batch \subseteq monitor[m].batch
        /\ \A o \in Monitors \ {m} : monitor'[o] = monitor[o]
    BY <1>1, CurrentIsOne, ProceedMoves DEF IInv
  <1>4. /\ RowsExist' /\ BelowBase'
        /\ \A o \in Monitors : Held(o)' \subseteq Held(o)
        /\ \A q, o \in Monitors : \A i \in Held(q)' \cap Held(o)' : q # o => i \in overlapped'
        /\ \A o \in Monitors : \A r \in Current(o)' :
              monitor'[o].step \in {"push", "mail"} => alerts'[r.id].sent
    BY <1>2, <1>3, Retreats
  <1>5. MailedOnce'
    BY <1>2, <1>4 DEF IInv, MailedOnce
  <1>6. \A i \in Ids : MailDue(i) => MailDue(i)'
    BY <1>2, <1>3 DEF MailDue, At, Current
  <1>7. MarksCounted'
    BY <1>2, <1>6, Entries DEF IInv, MarksCounted
  <1>8. DropIsReal'
    BY <1>2 DEF IInv, DropIsReal
  <1> QED
    BY <1>4, <1>5, <1>7, <1>8

LEMMA NoAnswerStep ==
  ASSUME IInv, NEW m \in Monitors, NoAnswer(m)
  PROVE  RowsExist' /\ BelowBase' /\ MailedOnce' /\ MarksCounted' /\ DropIsReal'
  <1>1. PICK row \in Current(m) : Proceed(m, row)
    BY DEF NoAnswer
  <1>2. monitor[m].step = "ask" /\ UNCHANGED <<alerts, base, mails, lost, overlapped>>
    BY DEF NoAnswer
  <1> QED
    BY <1>1, <1>2, PassStep

LEMMA NoDropStep ==
  ASSUME IInv, NEW m \in Monitors, NoDrop(m)
  PROVE  RowsExist' /\ BelowBase' /\ MailedOnce' /\ MarksCounted' /\ DropIsReal'
  <1>1. PICK row \in Current(m) : Proceed(m, row)
    BY DEF NoDrop
  <1>2. monitor[m].step = "ask" /\ UNCHANGED <<alerts, base, mails, lost, overlapped>>
    BY DEF NoDrop, history
  <1> QED
    BY <1>1, <1>2, PassStep

LEMMA MarkStep ==
  ASSUME IInv, NEW m \in Monitors, Mark(m)
  PROVE  RowsExist' /\ BelowBase' /\ MailedOnce' /\ MarksCounted' /\ DropIsReal'
  <1>1. PICK row \in Current(m) :
          /\ price[row.flight] # NoPrice
          /\ Drops(row.price, price[row.flight])
          /\ Goto(m, "push", price[row.flight])
          /\ alerts' = [alerts EXCEPT ![row.id] =
                [flight |-> row.flight, price |-> price[row.flight], sent |-> TRUE]]
    BY DEF Mark
  <1> DEFINE new == price[row.flight]
             a == [flight |-> row.flight, price |-> new, sent |-> TRUE]
             k == row.id
  <1>2. monitor[m].step = "ask" /\ UNCHANGED <<base, mails, lost, overlapped>>
    BY DEF Mark, history
  <1>3. /\ row \in monitor[m].batch /\ k \in 1..Len(alerts) /\ row.flight \in Flights
        /\ row.price \in Prices /\ \A o \in Current(m) : o = row
    BY CurrentIsOne DEF IInv
  <1>4. new \in Prices /\ a.sent /\ a.price = new
    BY <1>1, <1>3 DEF IInv, TypeOK
  <1>5. /\ monitor'[m].step = "push" /\ monitor'[m].new = new
        /\ \A o \in Monitors : monitor'[o].batch = monitor[o].batch
        /\ \A o \in Monitors \ {m} : monitor'[o] = monitor[o]
    BY <1>1, <1>4, GotoMoves DEF IInv
  <1>6. /\ Len(alerts') = Len(alerts) /\ alerts'[k] = a
        /\ \A i \in 1..Len(alerts) : i # k => alerts'[i] = alerts[i]
    BY <1>1, <1>3 DEF IInv, TypeOK
  <1>7. \A o \in Monitors : Current(o)' = Current(o) /\ Held(o)' = Held(o)
    BY <1>5 DEF Current, Held
  <1>8. row.price <= base[k] /\ base[k] > new + 10 /\ new <= base[k]
    <2>1. row.price <= base[k] /\ row.price > new + 10
      BY <1>1, <1>3 DEF IInv, BelowBase, Drops
    <2>2. row.price \in Nat /\ base[k] \in Nat /\ new \in Nat
      BY <1>3, <1>4, Entries, Numbers DEF IInv
    <2> HIDE DEF k, new
    <2> QED
      BY <2>1, <2>2
  <1> HIDE DEF new, a, k
  <1>9. \A i \in 1..Len(alerts) : alerts[i].sent => alerts'[i].sent
    BY <1>4, <1>6
  <1>10. \A o \in Monitors : \A r \in Current(o) : r \in monitor[o].batch /\ r.id \in 1..Len(alerts)
    BY DEF Current, IInv, RowsExist
  <1>11. RowsExist'
    BY <1>2, <1>4, <1>5, <1>6 DEF IInv, RowsExist
  <1>12. BelowBase'
    <2>1. \A i \in 1..Len(alerts') : alerts'[i].price <= base'[i]
      BY <1>2, <1>4, <1>6, <1>8 DEF IInv, BelowBase
    <2>2. \A o \in Monitors : \A r \in monitor'[o].batch : r.price <= base'[r.id]
      BY <1>2, <1>5 DEF IInv, BelowBase
    <2>3. \A o \in Monitors : \A r \in Current(o)' :
             monitor'[o].step \in {"push", "mail"} => base'[r.id] > monitor'[o].new + 10
      BY <1>2, <1>3, <1>5, <1>7, <1>8 DEF IInv, BelowBase, k
    <2> QED
      BY <2>1, <2>2, <2>3 DEF BelowBase
  <1>13. MailedOnce'
    <2>1. \A o \in Monitors : \A r \in Current(o)' :
             monitor'[o].step \in {"push", "mail"} => alerts'[r.id].sent
      BY <1>3, <1>4, <1>5, <1>6, <1>7, <1>9, <1>10 DEF IInv, MailedOnce, k
    <2>2. \A i \in 1..Len(alerts') :
             /\ mails'[i] # <<>> => alerts'[i].sent
             /\ mails'[i] # <<>> /\ i \notin overlapped' =>
                   Len(mails'[i]) = 1 /\ \A o \in Monitors : i \notin Held(o)'
      BY <1>2, <1>6, <1>7, <1>9 DEF IInv, MailedOnce
    <2> QED
      BY <1>2, <1>6, <1>7, <2>1, <2>2 DEF IInv, MailedOnce
  <1>14. MarksCounted'
    <2>1. MailDue(k)'
      BY <1>5, <1>7 DEF MailDue, At, k
    <2>2. \A i \in Ids : MailDue(i) => MailDue(i)'
      BY <1>2, <1>5, <1>7 DEF MailDue, At
    <2> QED
      BY <1>2, <1>6, <2>1, <2>2, Entries DEF IInv, MarksCounted
  <1>15. DropIsReal'
    BY <1>2, <1>6 DEF IInv, DropIsReal
  <1> QED
    BY <1>11, <1>12, <1>13, <1>14, <1>15

LEMMA PushStep ==
  ASSUME IInv, NEW m \in Monitors, Push(m)
  PROVE  RowsExist' /\ BelowBase' /\ MailedOnce' /\ MarksCounted' /\ DropIsReal'
  <1>1. monitor[m].new \in Prices
    BY DEF Push, IInv, RowsExist
  <1>2. /\ monitor[m].step = "push" /\ Goto(m, "mail", monitor[m].new)
        /\ UNCHANGED <<alerts, base, mails, lost, overlapped>>
    BY DEF Push, history
  <1>3. /\ monitor'[m].step = "mail"
        /\ \A o \in Monitors : /\ monitor'[o].batch = monitor[o].batch
                               /\ monitor'[o].new = monitor[o].new
        /\ \A o \in Monitors \ {m} : monitor'[o] = monitor[o]
    BY <1>1, <1>2, GotoMoves DEF IInv
  <1>4. \A o \in Monitors : /\ Current(o)' = Current(o) /\ Held(o)' = Held(o)
                            /\ monitor'[o].step \in {"push", "mail"}
                                  <=> monitor[o].step \in {"push", "mail"}
                            /\ monitor'[o].step = "idle" <=> monitor[o].step = "idle"
    BY <1>2, <1>3 DEF Current, Held
  <1>5. RowsExist'
    BY <1>2, <1>3, <1>4 DEF IInv, RowsExist
  <1>6. BelowBase'
    BY <1>2, <1>3, <1>4 DEF IInv, BelowBase
  <1>7. MailedOnce'
    BY <1>2, <1>3, <1>4 DEF IInv, MailedOnce
  <1>8. \A i : MailDue(i)' <=> MailDue(i)
    BY <1>4 DEF MailDue, At
  <1>9. MarksCounted' /\ DropIsReal'
    BY <1>2, <1>8 DEF IInv, MarksCounted, DropIsReal
  <1> QED
    BY <1>5, <1>6, <1>7, <1>9

LEMMA MailStep ==
  ASSUME IInv, NEW m \in Monitors, Mail(m)
  PROVE  RowsExist' /\ BelowBase' /\ MailedOnce' /\ MarksCounted' /\ DropIsReal'
  <1>1. PICK row \in Current(m) :
          /\ mails' = [mails EXCEPT ![row.id] = Append(mails[row.id], monitor[m].new)]
          /\ Proceed(m, row)
    BY DEF Mail
  <1> DEFINE k == row.id
             fare == monitor[m].new
  <1>2. monitor[m].step = "mail" /\ UNCHANGED <<alerts, base, lost, overlapped>>
    BY DEF Mail
  <1>3. /\ row \in monitor[m].batch /\ k \in 1..Len(alerts) /\ k \in Ids
        /\ \A o \in Current(m) : o = row
        /\ \A o \in monitor[m].batch : o.id = k => o = row
    BY CurrentIsOne DEF IInv
  <1>4. /\ monitor'[m].step \in {"idle", "ask"}
        /\ monitor'[m].step = "idle" => monitor'[m].batch = {}
        /\ monitor'[m].batch = monitor[m].batch \ {row}
        /\ \A o \in Monitors \ {m} : monitor'[o] = monitor[o]
    BY <1>1, <1>3, ProceedMoves DEF IInv
  <1>5. fare \in Prices /\ base[k] > fare + 10 /\ alerts[k].sent
    BY <1>2 DEF IInv, RowsExist, BelowBase, MailedOnce
  <1>6. mails[k] \in Seq(Prices)
    BY <1>3 DEF IInv, TypeOK
  <1> HIDE DEF k, fare
  <1>7. /\ Len(mails'[k]) = Len(mails[k]) + 1 /\ mails'[k] # <<>>
        /\ mails'[k][Len(mails[k]) + 1] = fare
        /\ \A n \in 1..Len(mails[k]) : mails'[k][n] = mails[k][n]
        /\ \A i \in Ids : i # k => mails'[i] = mails[i]
    <2>1. mails' = [mails EXCEPT ![k] = Append(mails[k], fare)]
      BY <1>1 DEF k, fare
    <2>2. mails'[k] = Append(mails[k], fare) /\ \A i \in Ids : i # k => mails'[i] = mails[i]
      BY <1>3, <2>1 DEF IInv, TypeOK
    <2> QED
      BY <1>5, <1>6, <2>2
  <1>8. /\ RowsExist' /\ BelowBase'
        /\ \A o \in Monitors : Held(o)' \subseteq Held(o)
        /\ \A q, o \in Monitors : \A i \in Held(q)' \cap Held(o)' : q # o => i \in overlapped'
        /\ \A o \in Monitors : \A r \in Current(o)' :
              monitor'[o].step \in {"push", "mail"} => alerts'[r.id].sent
    <2>1. monitor'[m].batch \subseteq monitor[m].batch
      BY <1>4
    <2> QED
      BY <1>2, <1>4, <2>1, Retreats
  <1>9. k \in Held(m) /\ k \notin Held(m)'
    BY <1>3, <1>4 DEF Held, k
  <1>10. MailedOnce'
    <2>1. k \notin overlapped =>
             Len(mails'[k]) = 1 /\ \A o \in Monitors : k \notin Held(o)'
      <3>1. SUFFICES ASSUME k \notin overlapped
                     PROVE  Len(mails'[k]) = 1 /\ \A o \in Monitors : k \notin Held(o)'
        OBVIOUS
      <3>2. mails[k] = <<>>
        BY <1>3, <1>9, <3>1 DEF IInv, MailedOnce
      <3>3. \A o \in Monitors \ {m} : k \notin Held(o)
        BY <1>9, <3>1 DEF IInv, MailedOnce
      <3>4. Len(mails[k]) = 0
        BY <3>2
      <3> QED
        BY <1>7, <1>8, <1>9, <3>3, <3>4
    <2>2. \A i \in 1..Len(alerts) :
             /\ mails'[i] # <<>> => alerts[i].sent
             /\ mails'[i] # <<>> /\ i \notin overlapped =>
                   Len(mails'[i]) = 1 /\ \A o \in Monitors : i \notin Held(o)'
      <3>1. ASSUME NEW i \in 1..Len(alerts), i # k
            PROVE  /\ mails'[i] # <<>> => alerts[i].sent
                   /\ mails'[i] # <<>> /\ i \notin overlapped =>
                         Len(mails'[i]) = 1 /\ \A o \in Monitors : i \notin Held(o)'
        <4>1. mails'[i] = mails[i]
          BY <1>7, <3>1, Entries DEF IInv
        <4> QED
          BY <1>8, <4>1 DEF IInv, MailedOnce
      <3> QED
        BY <1>5, <2>1, <3>1
    <2>3. \A i \in Ids : i > Len(alerts) => mails'[i] = <<>>
      <3>1. ~(k > Len(alerts))
        BY <1>3
      <3> QED
        BY <1>7, <3>1 DEF IInv, MailedOnce
    <2> QED
      BY <1>2, <1>8, <2>2, <2>3 DEF MailedOnce
  <1>11. MarksCounted'
    <2>1. ASSUME NEW i \in Ids, i # k, MailDue(i) PROVE MailDue(i)'
      <3>1. PICK o \in Monitors : monitor[o].step \in {"push", "mail"} /\ At(o, i)
        BY <2>1 DEF MailDue
      <3>2. o # m
        BY <1>3, <2>1, <3>1 DEF At, k
      <3> QED
        BY <1>4, <3>1, <3>2 DEF MailDue, At, Current
    <2> QED
      BY <1>2, <1>7, <2>1, Entries DEF IInv, MarksCounted
  <1>12. DropIsReal'
    <2>1. \A n \in 1..Len(mails'[k]) : base[k] > mails'[k][n] + 10
      <3>1. Len(mails[k]) \in Nat
        BY <1>6
      <3>2. \A n \in 1..Len(mails'[k]) : n \in 1..Len(mails[k]) \/ n = Len(mails[k]) + 1
        BY <1>7, <3>1
      <3> QED
        BY <1>3, <1>5, <1>7, <3>2 DEF IInv, DropIsReal
    <2> QED
      BY <1>2, <1>7, <2>1, Entries DEF IInv, DropIsReal
  <1> QED
    BY <1>8, <1>10, <1>11, <1>12

LEMMA AbortStep ==
  ASSUME IInv, NEW m \in Monitors, Abort(m)
  PROVE  RowsExist' /\ BelowBase' /\ MailedOnce' /\ MarksCounted' /\ DropIsReal'
  <1>1. /\ monitor' = [monitor EXCEPT ![m] = Idle]
        /\ lost' = IF monitor[m].step = "ask" THEN lost
                   ELSE lost \cup {row.id : row \in Current(m)}
        /\ UNCHANGED <<alerts, base, mails, overlapped>>
    BY DEF Abort
  <1>2. /\ monitor'[m].step = "idle" /\ monitor'[m].batch = {}
        /\ \A o \in Monitors \ {m} : monitor'[o] = monitor[o]
    BY <1>1 DEF Idle, IInv, TypeOK
  <1>3. /\ RowsExist' /\ BelowBase'
        /\ \A o \in Monitors : Held(o)' \subseteq Held(o)
        /\ \A q, o \in Monitors : \A i \in Held(q)' \cap Held(o)' : q # o => i \in overlapped'
        /\ \A o \in Monitors : \A r \in Current(o)' :
              monitor'[o].step \in {"push", "mail"} => alerts'[r.id].sent
    BY <1>1, <1>2, Retreats
  <1>4. MailedOnce'
    BY <1>1, <1>3 DEF IInv, MailedOnce
  <1>5. MarksCounted'
    <2>1. ASSUME NEW i \in Ids, MailDue(i) PROVE MailDue(i)' \/ i \in lost'
      <3>1. PICK o \in Monitors : monitor[o].step \in {"push", "mail"} /\ At(o, i)
        BY <2>1 DEF MailDue
      <3>2. CASE o = m
        BY <1>1, <3>1, <3>2 DEF At
      <3>3. CASE o # m
        BY <1>2, <3>1, <3>3 DEF MailDue, At, Current
      <3> QED
        BY <3>2, <3>3
    <2>2. lost \subseteq lost'
      BY <1>1
    <2> QED
      BY <1>1, <2>1, <2>2, Entries DEF IInv, MarksCounted
  <1>6. DropIsReal'
    BY <1>1 DEF IInv, DropIsReal
  <1> QED
    BY <1>3, <1>4, <1>5, <1>6

LEMMA InvStep == IInv /\ [Next]_vars => IInv'
  <1> SUFFICES ASSUME IInv, [Next]_vars PROVE IInv'
    OBVIOUS
  <1>1. TypeOK'
    BY TypeStep DEF IInv
  <1> DEFINE Rest == RowsExist /\ BelowBase /\ MailedOnce /\ MarksCounted /\ DropIsReal
  <1>2. ASSUME SetPriceAlert PROVE Rest'
    BY <1>2, CreateStep DEF SetPriceAlert
  <1>3. ASSUME NEW m \in Monitors, Monitor(m) PROVE Rest'
    BY <1>3, SelectStep, NoAnswerStep, NoDropStep, MarkStep, PushStep, MailStep,
       AbortStep DEF Monitor, MoveOn
  <1>4. ASSUME UNCHANGED <<alerts, monitor, history>> PROVE Rest'
    <2>1. UNCHANGED <<alerts, base, monitor, mails, lost, overlapped>>
      BY <1>4 DEF history
    <2>2. /\ \A m : Current(m)' = Current(m) /\ Held(m)' = Held(m)
          /\ \A i : MailDue(i)' <=> MailDue(i)
      BY <2>1 DEF Current, Held, MailDue, At
    <2>3. RowsExist' /\ BelowBase'
      BY <2>1, <2>2 DEF IInv, RowsExist, BelowBase
    <2>4. MailedOnce'
      BY <2>1, <2>2 DEF IInv, MailedOnce
    <2>5. MarksCounted' /\ DropIsReal'
      BY <2>1, <2>2 DEF IInv, MarksCounted, DropIsReal
    <2> QED
      BY <2>3, <2>4, <2>5
  <1>5. CASE SetPriceAlert \/ \E m \in Monitors : Monitor(m)
    BY <1>1, <1>2, <1>3, <1>5 DEF IInv
  <1>6. CASE UNCHANGED <<alerts, monitor, history>>
    BY <1>1, <1>4, <1>6 DEF IInv
  <1> QED
    BY <1>5, <1>6 DEF Next, SaveTrip, DeleteTrip, Reprice, OfferExpires, vars, history

LEMMA InvMails == IInv => MarkMeansOneMail
  <1> SUFFICES ASSUME IInv PROVE MarkMeansOneMail
    OBVIOUS
  <1>1. ASSUME NEW i \in 1..Len(alerts), Len(mails[i]) > 1 PROVE i \in overlapped
    <2>1. mails[i] # <<>>
      BY <1>1
    <2>2. Len(mails[i]) # 1
      BY <1>1
    <2> QED
      BY <2>1, <2>2 DEF IInv, MailedOnce
  <1> QED
    BY <1>1 DEF IInv, MarksCounted, MarkMeansOneMail

LEMMA Invariance == Spec => []IInv
  BY InvInit, InvStep, PTL DEF Spec

(* A price drop that is mailed is a drop of more than ten against the price *)
(* that the user set, for any number of overlapping runs of the monitor and *)
(* any movement of the fares.                                               *)
THEOREM DropsAreReal == Spec => []DropIsReal
  BY Invariance, PTL DEF IInv

(* alert_sent_at means a mail, one that is under way or one that was cut    *)
(* off, and an alert is mailed twice only if two runs held it at once.      *)
THEOREM MarkedMeansMailed == Spec => []MarkMeansOneMail
  BY Invariance, InvMails, PTL

=============================================================================
