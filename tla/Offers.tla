------------------------------- MODULE Offers -------------------------------
(***************************************************************************)
(* New flights: search_new_flight_offers, refresh_offer,                   *)
(* create_new_flight_booking and POST /flights, for one offer of Duffel    *)
(* whose price moves.  A search leaves the price it showed under           *)
(* duffel:search_offer:{id}; a refresh reads it, awaits Duffel and warns   *)
(* when the price is another one.  A booking refreshes, registers the      *)
(* flight with FlightAware, commits the flight and the handoff, and sends  *)
(* the mission briefing.  Nothing spans these services: any step may fail. *)
(* duffel:offer:{id}, written on the way, is read by confirm_booking only  *)
(* (module Rebooking).                                                     *)
(***************************************************************************)
EXTENDS Naturals

CONSTANTS
    Clients,     \* subscribers, each with one request at a time
    Strangers,   \* those among them whose user row is gone
    Prices,
    NoPrice      \* no price: the key is missing

ASSUME OffersAssumption == Strangers \subseteq Clients /\ NoPrice \notin Prices

VARIABLES
    price,       \* what Duffel asks for the offer now
    searched,    \* duffel:search_offer:{id}
    pc,          \* the step of each client's request, or its answer
    seen,        \* the search price that the request read before its await
    quote,       \* the price that Duffel answered to the request
    shown,       \* the price in the client's last search result
    forgotten,   \* history: the search entry stopped being the client's
    hooked,      \* the request registered its flight with FlightAware
    row,         \* the committed handoff: its fare and its warning
    told         \* the calls of the mission briefing that were made

vars == <<price, searched, pc, seen, quote, shown, forgotten, hooked, row, told>>

Answers == {"idle", "searched", "refreshed", "conflict", "unauthorized",
            "failed", "booked", "added"}

Steps == {"cache_search", "refresh_get", "refresh_cache", "book_get",
          "book_cache", "book_register", "add_register", "book_commit",
          "add_commit", "push", "mail"}

NoRow == [fare |-> NoPrice, warned |-> FALSE]

Init ==
    /\ price \in Prices
    /\ searched = NoPrice
    /\ pc = [c \in Clients |-> "idle"]
    /\ seen = [c \in Clients |-> NoPrice]
    /\ quote = [c \in Clients |-> NoPrice]
    /\ shown = [c \in Clients |-> NoPrice]
    /\ forgotten = [c \in Clients |-> TRUE]
    /\ hooked = [c \in Clients |-> FALSE]
    /\ row = [c \in Clients |-> NoRow]
    /\ told = [c \in Clients |-> {}]

Goto(c, step) == pc' = [pc EXCEPT ![c] = step]

(* a new request of the client: what the last one left is forgotten *)
Begin(c, step) ==
    /\ pc[c] \in Answers
    /\ Goto(c, step)
    /\ hooked' = [hooked EXCEPT ![c] = FALSE]
    /\ row' = [row EXCEPT ![c] = NoRow]
    /\ told' = [told EXCEPT ![c] = {}]

-----------------------------------------------------------------------------
(* search_new_flight_offers *)

Search(c) ==
    /\ Begin(c, "cache_search")
    /\ quote' = [quote EXCEPT ![c] = price]
    /\ UNCHANGED <<price, searched, seen, shown, forgotten>>

(* set_json, a RedisError is swallowed; the ranked offers are the answer *)
CacheSearch(c) ==
    /\ pc[c] = "cache_search"
    /\ Goto(c, "searched")
    /\ searched' \in {quote[c], searched}
    /\ shown' = [shown EXCEPT ![c] = quote[c]]
    /\ forgotten' = [d \in Clients |->
                       IF d = c THEN searched' # quote[c]
                                ELSE forgotten[d] \/ searched' # shown[d]]
    /\ seen' = [seen EXCEPT ![c] = NoPrice]
    /\ quote' = [quote EXCEPT ![c] = NoPrice]
    /\ UNCHANGED <<price, hooked, row, told>>

-----------------------------------------------------------------------------
(* refresh_offer, alone or in create_new_flight_booking *)

(* get_json answers nothing when Redis fails *)
ReadSearched(c, step) ==
    /\ Begin(c, step)
    /\ \/ /\ seen' = [seen EXCEPT ![c] = searched]
          /\ UNCHANGED forgotten
       \/ /\ seen' = [seen EXCEPT ![c] = NoPrice]
          /\ forgotten' = [forgotten EXCEPT ![c] = TRUE]
    /\ UNCHANGED <<price, searched, quote, shown>>

Refresh(c) == ReadSearched(c, "refresh_get")

Book(c) == ReadSearched(c, "book_get")

GetOffer(c, from, to) ==
    /\ pc[c] = from
    /\ Goto(c, to)
    /\ quote' = [quote EXCEPT ![c] = price]
    /\ UNCHANGED <<price, searched, seen, shown, forgotten, hooked, row, told>>

(* variant: the refreshed price also replaces the searched one *)
CacheOfferTwice(c) ==
    /\ \/ pc[c] = "refresh_cache" /\ Goto(c, "refreshed")
       \/ /\ pc[c] = "book_cache"
          /\ \/ Goto(c, "conflict")
             \/ Goto(c, IF c \in Strangers THEN "unauthorized"
                                           ELSE "book_register")
    /\ searched' = quote[c]
    /\ UNCHANGED <<price, seen, quote, shown, forgotten, hooked, row, told>>

(* the offer is available or not; only then is the user looked up *)
CacheOffer(c) ==
    /\ \/ pc[c] = "refresh_cache" /\ Goto(c, "refreshed")
       \/ /\ pc[c] = "book_cache"
          /\ \/ Goto(c, "conflict")
             \/ Goto(c, IF c \in Strangers THEN "unauthorized"
                                           ELSE "book_register")
    /\ UNCHANGED <<price, searched, seen, quote, shown, forgotten, hooked, row,
                   told>>

(* price_changed *)
Warned(c) == seen[c] # NoPrice /\ seen[c] # quote[c]

-----------------------------------------------------------------------------
(* create_new_flight_booking, POST /flights *)

AddFlight(c) ==
    /\ Begin(c, "add_register")
    /\ UNCHANGED <<price, searched, seen, quote, shown, forgotten>>

(* variant: a failed registration is reported and passed over *)
RegisterOrNot(c) ==
    /\ \/ pc[c] = "book_register" /\ Goto(c, "book_commit")
       \/ pc[c] = "add_register" /\ Goto(c, "add_commit")
    /\ \E done \in BOOLEAN : hooked' = [hooked EXCEPT ![c] = done]
    /\ UNCHANGED <<price, searched, seen, quote, shown, forgotten, row, told>>

(* register_webhook *)
Register(c) ==
    /\ \/ pc[c] = "book_register" /\ Goto(c, "book_commit")
       \/ pc[c] = "add_register" /\ Goto(c, "add_commit")
    /\ hooked' = [hooked EXCEPT ![c] = TRUE]
    /\ UNCHANGED <<price, searched, seen, quote, shown, forgotten, row, told>>

(* flight and handoff in one transaction *)
Commit(c) ==
    /\ \/ /\ pc[c] = "book_commit"
          /\ Goto(c, "push")
          /\ row' = [row EXCEPT ![c] = [fare |-> quote[c], warned |-> Warned(c)]]
       \/ /\ pc[c] = "add_commit"
          /\ Goto(c, "added")
          /\ UNCHANGED row
    /\ UNCHANGED <<price, searched, seen, quote, shown, forgotten, hooked, told>>

(* send_mission_briefing *)
Brief(c, part, next) ==
    /\ pc[c] = part
    /\ Goto(c, next)
    /\ told' = [told EXCEPT ![c] = @ \cup {part}]
    /\ UNCHANGED <<price, searched, seen, quote, shown, forgotten, hooked, row>>

(* An exception or a crash at any step: what was done stays done, and the   *)
(* remote call that raised may have been executed.                          *)
Fail(c) ==
    /\ pc[c] \in Steps
    /\ Goto(c, "failed")
    /\ hooked' \in {hooked, [hooked EXCEPT ![c] =
                       @ \/ pc[c] \in {"book_register", "add_register"}]}
    /\ told' \in {told, [told EXCEPT ![c] = @ \cup ({"push", "mail"} \cap {pc[c]})]}
    /\ UNCHANGED <<price, searched, seen, quote, shown, forgotten, row>>

-----------------------------------------------------------------------------

(* Duffel changes the price *)
Reprice ==
    /\ price' \in Prices \ {price}
    /\ UNCHANGED <<searched, pc, seen, quote, shown, forgotten, hooked, row, told>>

(* the search entry lives 900 seconds *)
Expire ==
    /\ searched # NoPrice
    /\ searched' = NoPrice
    /\ forgotten' = [c \in Clients |-> TRUE]
    /\ UNCHANGED <<price, pc, seen, quote, shown, hooked, row, told>>

Handle(c) ==
    \/ Search(c) \/ CacheSearch(c) \/ Refresh(c) \/ Book(c) \/ AddFlight(c)
    \/ GetOffer(c, "refresh_get", "refresh_cache")
    \/ GetOffer(c, "book_get", "book_cache")
    \/ CacheOffer(c) \/ Register(c) \/ Commit(c)
    \/ Brief(c, "push", "mail") \/ Brief(c, "mail", "booked")
    \/ Fail(c)

Next == Reprice \/ Expire \/ \E c \in Clients : Handle(c)

Spec == Init /\ [][Next]_vars

-----------------------------------------------------------------------------
(***************************************************************************)
(* Properties.                                                             *)
(***************************************************************************)

(* A client never gets a handoff at another fare than its search showed     *)
(* without the warning, whatever other clients search and refresh           *)
(* meanwhile, as long as the search entry is the one it was shown.          *)
FareShownOrWarned ==
    \A c \in Clients : row[c] # NoRow =>
        row[c].fare = shown[c] \/ row[c].warned \/ forgotten[c]

(* A committed handoff or flight is known to FlightAware, a 201 follows the *)
(* calls of push and mail about a committed handoff (whether they reach the *)
(* user is not said), and a request that was turned down registered and     *)
(* committed nothing.                                                       *)
HandoffMonitored ==
    \A c \in Clients :
        /\ row[c] # NoRow \/ pc[c] = "added" => hooked[c]
        /\ told[c] # {} => row[c] # NoRow
        /\ pc[c] = "booked" => told[c] = {"push", "mail"}
        /\ pc[c] \in {"conflict", "unauthorized"} => ~hooked[c] /\ row[c] = NoRow

=============================================================================
