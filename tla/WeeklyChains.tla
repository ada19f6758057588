----------------------------- MODULE WeeklyChains -----------------------------
(***************************************************************************)
(* The freight side's weekly load chain (app/engine/weekly_chain.py) of one *)
(* operator: a leg for each day, chosen among the loads of the boards and   *)
(* the preferred lanes.  It is generated on Sunday at 20:00 of the          *)
(* operator's own time, or on request; a monitor compares the legs that the *)
(* chain recorded with the dead zones and lane rates of now and replaces    *)
(* chains that went bad.  Runs and monitors overlap: each commits once, at  *)
(* its end, and then announces what it has made.                            *)
(* Rates are in cents per mile.                                             *)
(***************************************************************************)
EXTENDS Integers, Sequences, FiniteSets, SequencesExt, FiniteSetsExt

CONSTANTS
    Runs,          \* sessions of generate_weekly_load_chains
    Monitors,      \* sessions of evaluate_weekly_chain_reroutes
    Zips,
    Home,          \* home_base_zip
    Board,         \* what DAT and Truckstop list at each ZIP
    Brokers,       \* brokers with a score
    NoBroker,      \* a load without an MC number
    Hubs,          \* the five destinations every fallback list has
    LaneLists,     \* lists of preferred destinations: the operator's, others'
    SyntheticTo,   \* where the load of last resort goes on each day
    Days,          \* legs of a chain (6 in the program)
    Troubled,      \* ZIPs whose dead zone and weather change
    Tracked,       \* pairs of ZIPs that lanes may be added for
    Rates,         \* rates of such lanes, 0 for one without a rate
    MaxWeek,       \* bound: weeks of the run
    MaxChains,     \* bound: chains made
    MaxSessions,   \* bound: sessions at work at once
    MaxChanges,    \* bound: changes of zones, weather, scores and lanes
    MaxRereads     \* bound: legs of all chains whose second reading differed

ASSUME WeeklyChainsAssumption ==
    /\ Home \in Zips
    /\ Board \in [Zips -> Seq([to : Zips, rate : Nat, mc : Brokers \cup {NoBroker}])]
    /\ Hubs \in Seq(Zips) /\ LaneLists \subseteq Seq(Zips)
    /\ Runs \cap Monitors = {}
    /\ Days \in Nat \ {0}
    /\ SyntheticTo \in [1..Days -> Zips]
    /\ Troubled \subseteq Zips
    /\ Tracked \subseteq Zips \X Zips
    /\ Rates \subseteq Nat
    /\ {MaxWeek, MaxChains, MaxSessions, MaxChanges, MaxRereads} \subseteq Nat

VARIABLES
    chains,        \* weekly_load_chains, in the order of their creation
    session,       \* of runs and monitors: the step and what it holds
    zone,          \* severity of each ZIP, "LOW" without a row
    weather,       \* of each ZIP: "CLEAR", "ADVISORY" or "SEVERE"
    score,         \* of each broker, as cached for a day
    lanes,         \* of each tracked pair: the rates of its trailer types
    clock,         \* 2w in week w, 2w + 1 on its Sunday evening
    changes        \* of the four, counted for the bound

vars == <<chains, session, zone, weather, score, lanes, clock, changes>>

world == <<zone, weather, score, lanes, clock, changes>>

Sessions == Runs \cup Monitors

Severities == {"LOW", "MED", "HIGH", "CRITICAL"}

Idle == [step |-> "idle", left |-> {}, new |-> <<>>, beside |-> FALSE]

Init ==
    /\ chains = <<>>
    /\ session = [s \in Sessions |-> Idle]
    /\ zone \in {s \in [Zips -> Severities] :
                    \A z \in Zips \ Troubled : s[z] = "LOW"}
    /\ weather = [z \in Zips |-> "CLEAR"]
    /\ score = [m \in Brokers |-> 82]
    /\ lanes \in [Tracked -> {<<>>} \cup {<<r>> : r \in Rates}]
    /\ clock = 0
    /\ changes = 0

-----------------------------------------------------------------------------
(* choosing the legs *)

BrokerScore(mc) == IF mc = NoBroker THEN 82 ELSE score[mc]

(* statuses[0]: what the origin reports, if anything, hides the destination *)
Severe(from, to) ==
    \/ weather[from] = "SEVERE"
    \/ weather[from] = "CLEAR" /\ weather[to] = "SEVERE"

(* _market_tightening_signal, weighed 0.20, times 1000 *)
Signal(z) == CASE zone[z] = "LOW" -> 120 [] zone[z] = "MED" -> 60
               [] zone[z] = "HIGH" -> 20 [] OTHER -> -80

(* each destination once, where it comes first: dict.fromkeys *)
Once(list) ==
    LET upTo[i \in 0..Len(list)] ==
            IF i = 0 THEN <<>>
            ELSE IF list[i] \in Range(upTo[i - 1]) THEN upTo[i - 1]
            ELSE Append(upTo[i - 1], list[i])
    IN  upTo[Len(list)]

(* each destination is worth 3 cents less than the last *)
Preferred(list) ==
    LET to == Once(list \o Hubs)
    IN  [i \in 1..Len(to) |->
            [to |-> to[i], rate |-> 235 - 3 * (i - 1), mc |-> NoBroker]]

Candidates(from, list) ==
    IF Len(Board[from]) < 3 THEN Board[from] \o Preferred(list) ELSE Board[from]

(* variant: a load into a CRITICAL zone is only worth less *)
AcceptableAnywhere(from, load) ==
    /\ BrokerScore(load.mc) >= 72
    /\ load.rate >= 185
    /\ ~Severe(from, load.to)

Acceptable(from, load) ==
    /\ BrokerScore(load.mc) >= 72
    /\ load.rate >= 185
    /\ zone[load.to] # "CRITICAL"
    /\ ~Severe(from, load.to)

(* 0.50 of the rate and 0.30 of the score likewise *)
Worth(load) == 5 * load.rate + 3 * BrokerScore(load.mc) + Signal(load.to)

(* of the loads at these positions: the first of the best, if there is one  *)
Best(from, loads, at) ==
    LET good == {i \in at : Acceptable(from, loads[i])}
    IN  {loads[i] : i \in {j \in good : \A k \in good :
            \/ Worth(loads[j]) > Worth(loads[k])
            \/ Worth(loads[j]) = Worth(loads[k]) /\ j <= k}}

OtherScore(n) == IF n = 82 THEN 60 ELSE 82

(* The broker and the weather are read again for the record, from caches    *)
(* that may have expired since the load was chosen, or from a provider that *)
(* does not answer: other says which of the two reads otherwise.            *)
Readings == SUBSET {"broker", "weather"}

(* chosen: history, the load is not of last resort *)
Leg(from, load, chosen, other) ==
    LET differs == IF load.mc = NoBroker THEN other \ {"broker"} ELSE other
        score1 == BrokerScore(load.mc)
    IN  [from |-> from, to |-> load.to, rate |-> load.rate,
         broker |-> IF "broker" \in differs THEN OtherScore(score1) ELSE score1,
         severe |-> Severe(from, load.to) # ("weather" \in differs),
         chosen |-> chosen, other |-> differs]

DayLeg(day, from, list, other) ==
    LET loads == Candidates(from, list)
        best == Best(from, loads, DOMAIN loads)
    IN  IF best # {} THEN Leg(from, CHOOSE l \in best : TRUE, TRUE, other)
        ELSE Leg(from, [to |-> SyntheticTo[day], rate |-> 215, mc |-> NoBroker],
                 FALSE, other)

(* The day's list is cached by ZIP and equipment for whoever asks next, so   *)
(* it may have been made for another's lanes.                                *)
DayLegs(lists, others) ==
    LET upTo[d \in 0..Days] ==
            IF d = 0 THEN <<>>
            ELSE LET from == IF upTo[d - 1] = <<>> THEN Home ELSE Last(upTo[d - 1]).to
                 IN  Append(upTo[d - 1], DayLeg(d, from, lists[d], others[d]))
    IN  upTo[Days]

(* The last leg, if it ends elsewhere, is replaced by one that starts where *)
(* it ended and goes home if a load does.                                   *)
ReturnLeg(legs, list, other) ==
    LET from == Last(legs).to
        loads == Candidates(from, list)
        homeward == {i \in DOMAIN loads : loads[i].to = Home}
        best == Best(from, loads, IF homeward # {} THEN homeward ELSE DOMAIN loads)
    IN  IF from = Home \/ best = {} THEN legs
        ELSE Append(Front(legs), Leg(from, CHOOSE l \in best : TRUE, TRUE, other))

Week == clock \div 2
SundayEvening == clock % 2 = 1

(* midnight of the operator's Monday *)
LocalMonday == [of |-> "local", n |-> Week + 1]

(* midnight UTC, and by Sunday evening in America it is Monday there *)
NextMonday == [of |-> "UTC", n |-> IF SundayEvening THEN Week + 2 ELSE Week + 1]

(* the legs of these chains whose second reading differed *)
Odd(cs) == {p \in (DOMAIN cs) \X (1..Days) : cs[p[1]].legs[p[2]].other # {}}

(* room for more of them, of all chains that are held and kept *)
Rereads ==
    MaxRereads - FoldSet(LAMBDA s, n : n + Cardinality(Odd(session[s].new)),
                         Cardinality(Odd(chains)), Sessions)

(* of each day, and of the return leg, which is the leg of day 0 *)
Otherwise ==
    {others \in [0..Days -> Readings] :
        Cardinality({d \in 0..Days : others[d] # {}}) <= Rereads}

(* A chain of any lists; critical: history, the CRITICAL zones of then.      *)
Generated(cause, monday, parent, reason) ==
    {[cause |-> cause, week |-> monday, status |-> cause, parent |-> parent,
      reason |-> reason, legs |-> ReturnLeg(DayLegs(lists, others), back, others[0]),
      critical |-> {z \in Zips : zone[z] = "CRITICAL"},
      beside |-> FALSE, sent |-> 0]
        : lists \in [1..Days -> LaneLists], back \in LaneLists \cup {<<Home>>},
          others \in Otherwise}

-----------------------------------------------------------------------------
(* sessions *)

(* Sessions of a kind that have read and not committed.                     *)
Open(kin) == {s \in kin : session[s].step \in {"reading", "generated"}}

(* s begins beside the open sessions of its kind; beside: history *)
Begin(s, kin, to) ==
    /\ Cardinality({o \in Sessions : session[o] # Idle}) < MaxSessions
    /\ session' = [o \in Sessions |->
           IF o = s THEN [to EXCEPT !.beside = Open(kin) # {}]
           ELSE IF o \in Open(kin) THEN [session[o] EXCEPT !.beside = TRUE]
           ELSE session[o]]

(* the commit; the chains are announced afterwards *)
Commit(s, old) ==
    LET new == session[s].new
        ids == {Len(old) + i : i \in DOMAIN new}
    IN  /\ chains' = old \o [i \in DOMAIN new |->
                                 [new[i] EXCEPT !.beside = session[s].beside]]
        /\ session' = [session EXCEPT ![s] =
               IF new = <<>> THEN Idle ELSE [Idle EXCEPT !.step = "sending", !.left = ids]]
        /\ UNCHANGED world

(* room for one more, of all that is held and kept *)
Room == Len(chains) + FoldSet(LAMBDA s, n : n + Len(session[s].new), 0, Sessions) < MaxChains

(* variant: a run does not look for a chain of its week *)
DueGeneratesAgain(r) ==
    /\ session[r] = Idle
    /\ Room
    /\ SundayEvening
    /\ \E chain \in Generated("generated", LocalMonday, 0, "none") :
        Begin(r, Runs, [Idle EXCEPT !.step = "generated", !.new = <<chain>>])
    /\ UNCHANGED <<chains, world>>

(* A chain whose week begins at this very instant ends the run; two of them *)
(* raise.  Those of a request or a monitor begin at midnight UTC.           *)
DueGenerates(r) ==
    /\ session[r] = Idle
    /\ Room
    /\ SundayEvening
    /\ \A i \in DOMAIN chains : chains[i].week # LocalMonday
    /\ \E chain \in Generated("generated", LocalMonday, 0, "none") :
        Begin(r, Runs, [Idle EXCEPT !.step = "generated", !.new = <<chain>>])
    /\ UNCHANGED <<chains, world>>

DueCommits(r) ==
    /\ session[r].step = "generated"
    /\ Commit(r, chains)

(* POST /operators/{id}/weekly-chain *)
Request ==
    /\ Room
    /\ \E chain \in Generated("generated", NextMonday, 0, "none") :
        chains' = Append(chains, chain)
    /\ UNCHANGED <<session, world>>

(* nothing sets "delivered" *)
Watched == {i \in DOMAIN chains : chains[i].status \in {"generated", "delivered"}}

MonitorReads(m) ==
    /\ session[m] = Idle
    /\ Watched # {}
    /\ Begin(m, Monitors, [Idle EXCEPT !.step = "reading", !.left = Watched])
    /\ UNCHANGED <<chains, world>>

Tests == <<"broker", "dead", "weather", "raises", "rate">>

Holds(test, leg) ==
    LET pair == <<leg.from, leg.to>>
        known == IF pair \in Tracked THEN lanes[pair] ELSE <<>>
        rate == IF known = <<>> THEN 210 ELSE Head(known)
    IN  CASE test = "broker" -> leg.broker < 70
          [] test = "dead" -> zone[leg.to] = "CRITICAL"
          [] test = "weather" -> leg.severe
          [] test = "raises" -> Len(known) > 1
          [] test = "rate" -> rate * 100 < leg.rate * 82

Failing(leg) == {t \in DOMAIN Tests : Holds(Tests[t], leg)}

(* the first test that holds, of the first leg that has one *)
RerouteReason(chain) ==
    LET bad == {d \in DOMAIN chain.legs : Failing(chain.legs[d]) # {}}
    IN  IF bad = {} THEN "none" ELSE Tests[Min(Failing(chain.legs[Min(bad)]))]

(* the newest first *)
Looking(m) == Max(session[m].left)

Hold(m, new) ==
    LET held == session[m]
    IN  session' = [session EXCEPT ![m] =
            [step |-> "reading", left |-> held.left \ {Looking(m)},
             new |-> held.new \o new, beside |-> held.beside]]

MonitorKeeps(m) ==
    /\ session[m].step = "reading" /\ session[m].left # {}
    /\ RerouteReason(chains[Looking(m)]) = "none"
    /\ Hold(m, <<>>)
    /\ UNCHANGED <<chains, world>>

MonitorReplaces(m) ==
    /\ session[m].step = "reading" /\ session[m].left # {}
    /\ LET parent == Looking(m)
           reason == RerouteReason(chains[parent])
       IN  /\ reason \notin {"none", "raises"}
           /\ Room
           /\ \E chain \in Generated("rerouted", NextMonday, parent, reason) :
                Hold(m, <<chain>>)
    /\ UNCHANGED <<chains, world>>

(* a lane with several trailer types: nothing of the whole run is kept *)
MonitorRaises(m) ==
    /\ session[m].step = "reading" /\ session[m].left # {}
    /\ RerouteReason(chains[Looking(m)]) = "raises"
    /\ session' = [session EXCEPT ![m] = Idle]
    /\ UNCHANGED <<chains, world>>

MonitorCommits(m) ==
    /\ session[m].step = "reading" /\ session[m].left = {}
    /\ LET gone == {session[m].new[i].parent : i \in DOMAIN session[m].new}
       IN  Commit(m, [i \in DOMAIN chains |->
               IF i \in gone THEN [chains[i] EXCEPT !.status = "superseded"]
               ELSE chains[i]])

(* deliver_weekly_chain and deliver_reroute_alert *)
Announce(s) ==
    /\ session[s].step = "sending"
    /\ LET first == Min(session[s].left)
           rest == session[s].left \ {first}
       IN  /\ chains' = [chains EXCEPT ![first].sent = @ + 1]
           /\ session' = [session EXCEPT ![s] = IF rest = {} THEN Idle
                                                ELSE [session[s] EXCEPT !.left = rest]]
    /\ UNCHANGED world

(* An exception, of a board or the broker say, or a crash: the task is      *)
(* retried or delivered again, and begins anew.                             *)
Abort(s) ==
    /\ session[s] # Idle
    /\ session' = [session EXCEPT ![s] = Idle]
    /\ UNCHANGED <<chains, world>>

-----------------------------------------------------------------------------
(* the world *)

Change == changes < MaxChanges /\ changes' = changes + 1

ZoneChanges ==
    /\ Change
    /\ \E z \in Troubled : \E s \in Severities \ {zone[z]} :
        zone' = [zone EXCEPT ![z] = s]
    /\ UNCHANGED <<chains, session, weather, score, lanes, clock>>

WeatherChanges ==
    /\ Change
    /\ \E z \in Troubled : \E w \in {"CLEAR", "ADVISORY", "SEVERE"} \ {weather[z]} :
        weather' = [weather EXCEPT ![z] = w]
    /\ UNCHANGED <<chains, session, zone, score, lanes, clock>>

ScoreChanges ==
    /\ Change
    /\ \E m \in Brokers : score' = [score EXCEPT ![m] = OtherScore(@)]
    /\ UNCHANGED <<chains, session, zone, weather, lanes, clock>>

(* add_operator_lane, for another trailer type, and the DAT pipeline *)
LaneChanges ==
    /\ Change
    /\ \E p \in Tracked, r \in Rates :
        \/ Len(lanes[p]) < 2 /\ lanes' = [lanes EXCEPT ![p] = Append(@, r)]
        \/ Len(lanes[p]) = 1 /\ lanes[p] # <<r>> /\ lanes' = [lanes EXCEPT ![p] = <<r>>]
    /\ UNCHANGED <<chains, session, zone, weather, score, clock>>

TimePasses ==
    /\ clock < 2 * MaxWeek + 1
    /\ clock' = clock + 1
    /\ UNCHANGED <<chains, session, zone, weather, score, lanes, changes>>

Next ==
    \/ \E r \in Runs : DueGenerates(r) \/ DueCommits(r)
    \/ Request
    \/ \E m \in Monitors : \/ MonitorReads(m) \/ MonitorKeeps(m)
                           \/ MonitorReplaces(m) \/ MonitorRaises(m)
                           \/ MonitorCommits(m)
    \/ \E s \in Sessions : Announce(s) \/ Abort(s)
    \/ ZoneChanges \/ WeatherChanges \/ ScoreChanges \/ LaneChanges \/ TimePasses

Spec == Init /\ [][Next]_vars

-----------------------------------------------------------------------------
(***************************************************************************)
(* Properties.                                                             *)
(***************************************************************************)

Legs(i) == {chains[i].legs[d] : d \in DOMAIN chains[i].legs}

Rerouted == {i \in DOMAIN chains : chains[i].parent # 0}

(* What a chain is replaced for has happened since it was generated, as far *)
(* as the code looks.  A dead zone was not CRITICAL when the leg was        *)
(* chosen, unless the leg is of last resort, which is not vetted.  What the *)
(* leg recorded of broker and weather never changes, and what it was chosen *)
(* by is good: they reroute only a leg that is of last resort, as to the    *)
(* weather, or of which the second reading differed from the first.  A rate *)
(* reroutes a leg of a lane nobody tracks only if it came from a board, at  *)
(* 2.57 or more: the fallback lists start below.                            *)
ReroutesExplained ==
    \A i \in Rerouted : LET p == chains[i].parent IN
        /\ chains[i].reason = "broker" => \E leg \in Legs(p) :
            leg.broker < 70 /\ "broker" \in leg.other
        /\ chains[i].reason = "dead" => \E leg \in Legs(p) :
            /\ leg.to \in chains[i].critical
            /\ leg.chosen => leg.to \notin chains[p].critical
        /\ chains[i].reason = "weather" => \E leg \in Legs(p) :
            leg.severe /\ (leg.chosen => "weather" \in leg.other)
        /\ chains[i].reason = "rate" => \E leg \in Legs(p) :
            <<leg.from, leg.to>> \in Tracked \/ leg.rate >= 257

(* A Sunday makes one chain and a chain that goes bad has one successor,    *)
(* unless two sessions were open at once, whatever fails and is run again;  *)
(* a chain that has a successor is watched no more, and each is announced   *)
(* at most once.                                                            *)
OneChainPerCause ==
    /\ \A i, j \in DOMAIN chains : i < j =>
        ~ /\ chains[i].cause = chains[j].cause
          /\ ~chains[i].beside \/ ~chains[j].beside
          /\ \/ chains[i].week.of = "local" /\ chains[i].week = chains[j].week
             \/ chains[i].parent # 0 /\ chains[i].parent = chains[j].parent
    /\ \A i \in DOMAIN chains :
        /\ chains[i].status = "superseded" <=> \E j \in Rerouted : chains[j].parent = i
        /\ chains[i].sent <= 1

=============================================================================
