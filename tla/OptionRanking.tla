----------------------------- MODULE OptionRanking -----------------------------
(***************************************************************************)
(* How the flights a provider offers are filtered, scored and picked: the  *)
(* ranking of a search (new_flight_booking.py), the three cards of a search *)
(* envelope (flight_booking_engine.py) and the three rebooking options of a *)
(* disruption (flight_options.py).  An offer has its shortest layover and  *)
(* nobag (basic economy without a carry-on bag); times are in quarters of  *)
(* an hour.  What is filtered is a set of positions in the provider's list. *)
(* Shares of a range are compared as integers over one denominator.        *)
(***************************************************************************)
EXTENDS Integers, Sequences, FiniteSets, SequencesExt

Offered == [id : STRING, departs : Int, arrives : Int, price : Int,
            duration : Int, stops : Int, risk : Int, layover : Int,
            nobag : BOOLEAN]

(* a list of offers, each with an id of its own *)
Lists ==
    {s \in Seq(Offered) : \A i, j \in DOMAIN s : s[i].id = s[j].id => i = j}

(* earliest departure, latest arrival, most stops, nonstop preferred; the   *)
(* scheduled arrival of the flight to be rebooked                           *)
Wished == [earliest : Int, latest : Int, stops : Int, nonstop : BOOLEAN,
           original : Int]

Values(S, f) == {o[f] : o \in S}

(* the denominator of _normalize, for which a range of one value is nothing *)
Span(S, f) == Max({Max(Values(S, f)) - Min(Values(S, f)), 1})

Above(S, o, f) == o[f] - Min(Values(S, f))

Below(S, o, f) == Max(Values(S, f)) - o[f]

Before(a, b) == \E n \in DOMAIN a : /\ a[n] < b[n]
                                    /\ \A m \in 1..(n - 1) : a[m] = b[m]

(* position i before j: the lesser key, or the same and the lower position  *)
Precedes(key, i, j) ==
    \/ Before(key[i], key[j])
    \/ key[i] = key[j] /\ i < j

(* min(): the position of the least key *)
Least(at, key) == CHOOSE i \in at : \A j \in at : i = j \/ Precedes(key, i, j)

(* sorted(): each position comes after those that precede it *)
Sorted(at, key) ==
    LET place == [i \in at |-> Cardinality({j \in at : Precedes(key, j, i)}) + 1]
    IN  [n \in 1..Cardinality(at) |-> CHOOSE i \in at : place[i] = n]

Hours(n) == 4 * n

-----------------------------------------------------------------------------
(* search_new_flight_offers *)

Viable(offers, wish) ==
    {i \in DOMAIN offers : /\ offers[i].departs >= wish.earliest
                           /\ offers[i].arrives <= wish.latest
                           /\ offers[i].stops <= wish.stops}

(* if none is viable, all are shown *)
Shown(offers, wish) ==
    IF Viable(offers, wish) = {} THEN DOMAIN offers ELSE Viable(offers, wish)

Factors == {"risk", "price", "duration", "miss", "stops"}

(* what a ranking looks at; miss: by how much it misses the deadline *)
Traits(o, wish) ==
    [risk |-> o.risk, price |-> o.price, duration |-> o.duration,
     miss |-> Max({0, o.arrives - wish.latest}), stops |-> o.stops]

Weight(f, wish) ==
    CASE f = "risk" -> 25 [] f = "price" -> 15 [] f = "duration" -> 16
      [] f = "miss" -> 32 [] OTHER -> IF wish.nonstop THEN 12 ELSE 8

(* the sum of the weighted shares, over the product of the five spans *)
Penalty(S, t, wish) ==
    LET spans == Span(S, "risk") * Span(S, "price") * Span(S, "duration")
                    * Span(S, "miss") * Span(S, "stops")
        Share(f) == Weight(f, wish) * Above(S, t, f) * (spans \div Span(S, f))
    IN  Share("risk") + Share("price") + Share("duration") + Share("miss")
            + Share("stops")

Ranked(offers, wish) ==
    LET at == Shown(offers, wish)
        S == {Traits(offers[i], wish) : i \in at}
        order == Sorted(at, [i \in at |->
                    <<Penalty(S, Traits(offers[i], wish), wish),
                      offers[i].price, offers[i].arrives>>])
    IN  [n \in 1..Cardinality(at) |-> offers[order[n]]]

-----------------------------------------------------------------------------
(* build_search_envelope, of at least one card *)

(* the cards of up to eight hours, all of them when none is *)
Short(cards) ==
    LET short == {i \in DOMAIN cards : cards[i].duration <= Hours(8)}
    IN  IF short = {} THEN DOMAIN cards ELSE short

(* the price and the duration over the least, 0.65 to 0.35, then the stops *)
BestValue(cards) ==
    LET at == Short(cards)
        S == {cards[i] : i \in at}
        price == Max({Min(Values(S, "price")), 1})
        duration == Max({Min(Values(S, "duration")), 1})
    IN  Least(at, [i \in at |->
            <<65 * Above(S, cards[i], "price") * duration
                + 35 * Above(S, cards[i], "duration") * price, cards[i].stops>>])

(* the cards not picked yet, all of them when none is left *)
Unused(cards, used) ==
    LET rest == {i \in DOMAIN cards : cards[i].id \notin used}
    IN  IF rest = {} THEN DOMAIN cards ELSE rest

Fastest(cards, at) == Least(at, [i \in at |-> <<cards[i].duration, cards[i].stops>>])

Cheapest(cards, at) == Least(at, [i \in at |-> <<cards[i].price>>])

Envelope(cards) ==
    LET best == cards[BestValue(cards)]
        fastest == cards[Fastest(cards, Unused(cards, {best.id}))]
        cheapest == cards[Cheapest(cards, Unused(cards, {best.id, fastest.id}))]
    IN  [best |-> best, fastest |-> fastest, cheapest |-> cheapest]

-----------------------------------------------------------------------------
(* build_rebooking_options *)

(* at least 45 minutes to change; original: the scheduled arrival *)
Rebookable(offers, original) ==
    {i \in DOMAIN offers : /\ offers[i].layover >= 3
                           /\ offers[i].arrives <= original + Hours(24)
                           /\ ~offers[i].nobag}

(* variant: the later the arrival, the better *)
LateScore(S, o) ==
    6 * Above(S, o, "arrives") * Span(S, "price")
        + 4 * Below(S, o, "price") * Span(S, "arrives")

(* 0.6 of the arrival and 0.4 of the price *)
BalancedScore(S, o) ==
    6 * Below(S, o, "arrives") * Span(S, "price")
        + 4 * Below(S, o, "price") * Span(S, "arrives")

Recommended(offers, at) ==
    LET S == {offers[i] : i \in at}
    IN  Least(at, [i \in at |-> <<-BalancedScore(S, offers[i]), offers[i].price>>])

(* The picks in the order shown, each offer once; the default is the        *)
(* recommended offer, or else, when that was picked as the fastest or the   *)
(* cheapest before, the last one shown.                                     *)
Options(offers, original) ==
    LET at == Rebookable(offers, original)
        fastest == Least(at, [i \in at |-> <<offers[i].arrives, offers[i].price>>])
        cheapest == Least(at, [i \in at |-> <<offers[i].price, offers[i].arrives>>])
        recommended == Recommended(offers, at)
        picks == <<fastest>>
            \o (IF cheapest = fastest THEN <<>> ELSE <<cheapest>>)
            \o (IF recommended \in {fastest, cheapest} THEN <<>> ELSE <<recommended>>)
    IN  IF at = {} THEN <<>> ELSE [n \in DOMAIN picks |-> offers[picks[n]]]

DefaultOption(options) == options[Len(options)]

===============================================================================
