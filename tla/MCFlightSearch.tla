---------------------------- MODULE MCFlightSearch ----------------------------
(* Offers and wishes for FlightSearch. *)
EXTENDS FlightSearch

Offer(id, departs, arrives, price, stops, risk, layover, nobag) ==
    [id |-> id, departs |-> departs, arrives |-> arrives, price |-> price,
     duration |-> arrives - departs, stops |-> stops, risk |-> risk,
     layover |-> layover, nobag |-> nobag]

(* Times from the morning of the original flight, which arrives at 8: fast  *)
(* and dear, slow and cheap, one in between, one that beats it, one over    *)
(* eight hours, one of a short layover, one without a bag, one at the end   *)
(* of the 24 hours and one after it.                                        *)
SmallOffers ==
    { Offer("fast", 4, 12, 9, 0, 3, 99, FALSE),
      Offer("cheap", 0, 28, 2, 2, 6, 3, FALSE),
      Offer("even", 6, 20, 5, 1, 2, 4, FALSE),
      Offer("better", 6, 20, 4, 1, 2, 4, FALSE),
      Offer("long", 4, 37, 1, 1, 1, 6, FALSE),
      Offer("dash", 4, 14, 3, 1, 4, 2, FALSE),
      Offer("nobag", 4, 14, 1, 0, 5, 99, TRUE),
      Offer("next day", 80, 104, 3, 0, 1, 99, FALSE),
      Offer("too late", 81, 105, 1, 0, 1, 99, FALSE) }

SmallOfferings ==
    UNION {{s \in [1..n -> SmallOffers] : IsInjective(s)} : n \in 1..3}

SmallWishes ==
    { [earliest |-> 0, latest |-> 999, stops |-> 9, nonstop |-> FALSE, original |-> 8],
      [earliest |-> 4, latest |-> 20, stops |-> 1, nonstop |-> TRUE, original |-> 8],
      [earliest |-> 5, latest |-> 19, stops |-> 0, nonstop |-> FALSE, original |-> 999] }

Interchangeable == Permutations(Searches)

===============================================================================
