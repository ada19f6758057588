------------------------------ MODULE MCFreight ------------------------------
(***************************************************************************)
(* WeeklyChains and FreightMarket in one run.  The chains live among zones  *)
(* and lanes that change at will, of which FreightMarket is what changes    *)
(* them: neither needs the other to move, so each is explored while the     *)
(* other rests in one of its initial states.                                *)
(***************************************************************************)
EXTENDS WeeklyChains, FreightMarket

CONSTANTS h, a, m1, l1, l2

VARIABLE resting     \* the module that rests

SmallBoard == (h :> <<[to |-> a, rate |-> 260, mc |-> m1]>>) @@ (a :> <<[to |-> a, rate |-> 240, mc |-> NoBroker],
                         [to |-> h, rate |-> 230, mc |-> NoBroker],
                         [to |-> h, rate |-> 180, mc |-> NoBroker]>>)
SmallHubs == <<a>>
SmallLists == {<<>>}
SmallLastResort == <<a, a>>
SmallTracked == {<<h, a>>}

OneOrigin == [l \in Lanes |-> h]
SmallMoves == {[port |-> "Los Angeles", direction |-> "DOWN"]}
SmallSchedule == [WEATHER |-> {0}, FUEL |-> {0}, FRED_DEMAND |-> {1},
                  PORT_VOLUME |-> {1}, CARRIER_CAPACITY |-> {2},
                  DAT_RATE_HISTORY |-> {0, 1}]
SmallAnswers == (l1 :> {[rate |-> 100, ratio |-> 40], [rate |-> 110, ratio |-> 10]})
             @@ (l2 :> {[rate |-> 0, ratio |-> 10]})

(* Sessions have no order; those of the two modules share their names.      *)
Interchangeable == Permutations(Runs) \cup Permutations(Monitors)

FreightInit ==
    /\ Init /\ MarketInit
    /\ \/ /\ resting = "FreightMarket"
          /\ \/ zone[a] = "CRITICAL" /\ lanes[<<h, a>>] = <<>>
             \/ zone[a] = "LOW" /\ lanes[<<h, a>>] = <<230>>
       \/ /\ resting = "WeeklyChains"
          /\ zone = [z \in Zips |-> "LOW"] /\ lanes = [p \in Tracked |-> <<>>]

FreightNext ==
    /\ \/ resting = "FreightMarket" /\ Next /\ UNCHANGED marketVars
       \/ resting = "WeeklyChains" /\ MarketNext /\ UNCHANGED vars
    /\ UNCHANGED resting

FreightSpec == FreightInit /\ [][FreightNext]_<<vars, marketVars, resting>>

==============================================================================
