-------------------------- MODULE RebookingContract --------------------------
(***************************************************************************)
(* What the rebooking saga promises about one payment, with no mention of  *)
(* requests in progress, idempotency keys or failures: a payment is opened *)
(* once and ends cancelled or charged; it is accepted, once and only when  *)
(* a ticket exists, and charged with the acceptance or after it; a booking *)
(* is recorded only for a ticket of an accepted payment.                   *)
(*                                                                         *)
(* What it does NOT promise is as telling: a ticket may be issued under a  *)
(* cancelled payment (a retry after a cancellation), a payment may have    *)
(* several tickets and several records (requests that race), and a record  *)
(* may stand on an accepted payment that is never charged.                 *)
(***************************************************************************)
CONSTANTS Payments,   \* the payments, one for each user and signal
          Attempts    \* the attempts to book

VARIABLES payment,    \* the life of each payment
          accepted,   \* payments whose confirmation was accepted
          tickets,    \* the attempts that were issued a ticket
          records     \* the attempts recorded as bookings

Init ==
    /\ payment = [p \in Payments |-> "none"]
    /\ accepted = {}
    /\ tickets = [p \in Payments |-> {}]
    /\ records = [p \in Payments |-> {}]

Open(p) ==
    /\ payment[p] = "none"
    /\ payment' = [payment EXCEPT ![p] = "open"]
    /\ UNCHANGED <<accepted, tickets, records>>

Issue(p, a) ==
    /\ payment[p] # "none"
    /\ tickets' = [tickets EXCEPT ![p] = @ \cup {a}]
    /\ UNCHANGED <<payment, accepted, records>>

Cancel(p) ==
    /\ payment[p] = "open"
    /\ payment' = [payment EXCEPT ![p] = "canceled"]
    /\ UNCHANGED <<accepted, tickets, records>>

Accept(p) ==
    /\ payment[p] = "open"
    /\ p \notin accepted
    /\ tickets[p] # {}
    /\ accepted' = accepted \cup {p}
    /\ payment' \in {payment, [payment EXCEPT ![p] = "succeeded"]}
    /\ UNCHANGED <<tickets, records>>

Charge(p) ==
    /\ payment[p] = "open"
    /\ p \in accepted
    /\ payment' = [payment EXCEPT ![p] = "succeeded"]
    /\ UNCHANGED <<accepted, tickets, records>>

Record(p, a) ==
    /\ p \in accepted
    /\ a \in tickets[p]
    /\ records' = [records EXCEPT ![p] = @ \cup {a}]
    /\ UNCHANGED <<payment, accepted, tickets>>

Next ==
    \E p \in Payments :
        \/ Open(p) \/ Cancel(p) \/ Accept(p) \/ Charge(p)
        \/ \E a \in Attempts : Issue(p, a) \/ Record(p, a)

Spec == Init /\ [][Next]_<<payment, accepted, tickets, records>>

=============================================================================
