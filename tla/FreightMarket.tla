---------------------------- MODULE FreightMarket ----------------------------
(***************************************************************************)
(* The freight side's view of the market (app/integrations, app/scrapers    *)
(* and app/engine/prophfesy.py).  Pipelines write signals about the tracked *)
(* lanes; the DAT one also the rates of the lanes and the dead zones of     *)
(* their origins.  The engine, hourly, and GET /lanes score lanes from      *)
(* their signals of the last 72 hours, write the advice to the lane and     *)
(* keep a prediction, which a third task grades by the lane's rate of       *)
(* later.  Tasks are delivered again and overlap; a session reads as it     *)
(* goes and commits once, at its end, or rolls back.                        *)
(* The clock counts hours; rates are in cents and ratios in tenths.         *)
(***************************************************************************)
EXTENDS Integers, Sequences, FiniteSets, FiniteSetsExt, SequencesExt

CONSTANTS
    Lanes,         \* lanes that may be tracked
    Origin,        \* origin_zip of each
    LongHaul,      \* lanes of 500 miles and more
    Corridors,     \* corridors the weather may be worst on
    Demands,       \* which way FRED's series may go: "UP", "DOWN"
    PortMoves,     \* which port may have moved most, and which way
    Dats,          \* sessions of run_dat_pipeline
    Scorers,       \* sessions of the engine and of GET /lanes
    Graders,       \* sessions of calculate_prediction_accuracy
    Answers,       \* what DAT may say of each lane: a rate, or 0, and a
                   \* ratio, or -1
    Schedule,      \* bound: hours at which each type of signal may be read
    DayHours, WeekHours,    \* 24 and 168 in the program
    Window,        \* hours a signal counts, and a prediction waits (72)
    MaxTime,       \* bound: hours of the run
    MaxOpen,       \* bound: sessions open at once, of one kind: the kinds
                   \* write different columns
    MaxReports,    \* bound: pipelines that commit
    MaxPredictions \* bound: predictions kept

ASSUME FreightMarketAssumption ==
    /\ \A l \in Lanes : Answers[l] \subseteq [rate : Nat, ratio : Nat \cup {-1}]
    /\ Demands \subseteq {"UP", "DOWN"}
    /\ \A m \in PortMoves :
        m.direction \in {"STRONG_UP", "MODERATE_UP", "DOWN", "NEUTRAL"}
    /\ \A type \in DOMAIN Schedule : Schedule[type] \subseteq Nat
    /\ {DayHours, WeekHours, Window} \subseteq Nat \ {0}
    /\ {MaxTime, MaxOpen, MaxReports, MaxPredictions} \subseteq Nat
    /\ IsFiniteSet(Lanes)
    /\ LongHaul \subseteq Lanes

VARIABLES
    tracked,       \* the rows of lanes
    rate,          \* current_rate, 0 for none
    advice,        \* what the last scorings wrote to each lane
    zones,         \* dead_zones: the severity of each origin, or "none"
    signals,
    predictions,   \* in the order of their commit
    dat, scorer, grader,    \* the sessions
    now,
    reports,       \* counted for the bound
    torn           \* history: lanes last written by a scoring beside another

marketVars == <<tracked, rate, advice, zones, signals, predictions, dat, scorer,
          grader, now, reports, torn>>

Unscored == [change |-> 0, confidence |-> 0, action |-> "none", count |-> 0]

(* no signal of the last 72 hours *)
Waiting == [Unscored EXCEPT !.action = "WAITING"]

DatIdle == [step |-> "idle"]
ScorerIdle == [step |-> "idle", lanes |-> {}, beside |-> FALSE]
GraderIdle == [step |-> "idle", pending |-> {}, beside |-> FALSE]

MarketInit ==
    /\ tracked = {}
    /\ rate = [l \in Lanes |-> 0]
    /\ advice = [l \in Lanes |-> Unscored]
    /\ zones = [z \in Range(Origin) |-> "none"]
    /\ signals = {}
    /\ predictions = <<>>
    /\ dat = [d \in Dats |-> DatIdle]
    /\ scorer = [s \in Scorers |-> ScorerIdle]
    /\ grader = [g \in Graders |-> GraderIdle]
    /\ now = 0
    /\ reports = 0
    /\ torn = {}

Busy(S, f) == {s \in S : f[s].step # "idle"}

(* room for a session of S: those of one kind overlap, those of two do not  *)
Quiet(S, f) ==
    /\ Cardinality(Busy(S, f)) < MaxOpen
    /\ Busy(Dats, dat) \cup Busy(Scorers, scorer) \cup Busy(Graders, grader) \subseteq S

-----------------------------------------------------------------------------
(* lanes *)

Track(ls) ==
    /\ ~(ls \subseteq tracked)
    /\ tracked' = tracked \cup ls
    /\ UNCHANGED <<rate, advice, zones, signals, predictions, dat, scorer, grader,
                   now, reports, torn>>

(* the three lanes of a home base *)
SuggestTopLanes(z) == {l \in Lanes : Origin[l] = z}

(* signup_operator and verify_operator_mc_number, once the MC number is     *)
(* verified and its home base known: the suggested lanes that are missing.  *)
OperatorJoins == \E z \in Range(Origin) : Track(SuggestTopLanes(z))

AddOperatorLane == \E l \in Lanes : Track({l})

-----------------------------------------------------------------------------
(* signals *)

(* uq_signal_dedupe, the lane and the bucket being in subject_hash *)
Distinct(new) ==
    \A s \in new, o \in signals :
        ~(s.lane = o.lane /\ s.type = o.type /\ s.bucket = o.bucket)

(* A pipeline with one report for every lane; nothing if one is there.      *)
Report(type, direction, bucket) ==
    /\ now \in Schedule[type]
    /\ tracked # {} /\ reports < MaxReports
    /\ LET new == {[lane |-> l, type |-> type, direction |-> direction,
                    bucket |-> bucket, at |-> now] : l \in tracked}
       IN  /\ Distinct(new)
           /\ signals' = signals \cup new
    /\ reports' = reports + 1
    /\ UNCHANGED <<tracked, rate, advice, zones, predictions, dat, scorer, grader,
                   now, torn>>

(* nothing is written of fair weather, or of prices that do not rise *)
Weather == \E c \in Corridors : Report("WEATHER", "UP", <<c, now>>)

Fred == \E d \in Demands : Report("FRED_DEMAND", d, <<"FRED", now \div DayHours>>)

Fuel == Report("FUEL", "UP", <<"EIA", now \div DayHours>>)

PortVolume ==
    \E m \in PortMoves :
        Report("PORT_VOLUME", m.direction, <<m.port, now \div WeekHours>>)

Fmcsa == Report("CARRIER_CAPACITY", "NEUTRAL", <<"FMCSA", now \div DayHours>>)

-----------------------------------------------------------------------------
(* run_dat_pipeline *)

Severity(ratio) ==
    CASE ratio < 15 -> "CRITICAL" [] ratio >= 15 /\ ratio < 25 -> "HIGH"
      [] ratio >= 25 /\ ratio < 40 -> "MED" [] ratio >= 40 -> "LOW"

RatioDirection(ratio) ==
    IF ratio >= 40 THEN "UP" ELSE IF ratio < 25 THEN "DOWN" ELSE "NEUTRAL"

(* by more than a twentieth *)
RateDirection(previous, current) ==
    IF previous = 0 THEN "NEUTRAL"
    ELSE IF 20 * (current - previous) > previous THEN "UP"
    ELSE IF 20 * (previous - current) > previous THEN "DOWN" ELSE "NEUTRAL"

(* The loop over the lanes.  The session does not flush by itself: a zone   *)
(* that the loop has added is not found by its next query.                  *)
DatReads(d) ==
    /\ dat[d] = DatIdle
    /\ now \in Schedule.DAT_RATE_HISTORY
    /\ tracked # {} /\ Quiet(Dats, dat)
    /\ \E said \in {a \in [tracked -> UNION Range(Answers)] :
                    \A l \in tracked : a[l] \in Answers[l]} :
        dat' = [dat EXCEPT ![d] =
            [step |-> "read", at |-> now, said |-> said,
             rate |-> [l \in tracked |-> rate[l]],
             missing |-> {l \in tracked : zones[Origin[l]] = "none"}]]
    /\ UNCHANGED <<tracked, rate, advice, zones, signals, predictions, scorer,
                   grader, now, reports, torn>>

(* the lanes of a zone whose ratio is reported, and the zones of all *)
ReportedFrom(d, z) ==
    {l \in DOMAIN dat[d].said : Origin[l] = z /\ dat[d].said[l].ratio # -1}

DatSignals(d) ==
    LET said == dat[d].said
        Of(l, type, direction) ==
            [lane |-> l, type |-> type, direction |-> direction,
             bucket |-> <<"DAT", dat[d].at>>, at |-> dat[d].at]
    IN  {Of(l, "DAT_RATE_HISTORY", RateDirection(dat[d].rate[l], said[l].rate))
            : l \in {k \in DOMAIN said : said[k].rate # 0}}
        \cup
        {Of(l, "LOAD_TO_TRUCK", RatioDirection(said[l].ratio))
            : l \in {k \in DOMAIN said : said[k].ratio # -1}}

(* market_zip is unique: each lane that found no zone inserts one *)
ZonesDistinct(d) ==
    \A l \in dat[d].missing : dat[d].said[l].ratio # -1 =>
        /\ zones[Origin[l]] = "none"
        /\ ReportedFrom(d, Origin[l]) = {l}

DatCommits(d) ==
    /\ dat[d].step = "read"
    /\ reports < MaxReports
    /\ ZonesDistinct(d) /\ Distinct(DatSignals(d))
    /\ LET said == dat[d].said
           reported == {z \in DOMAIN zones : ReportedFrom(d, z) # {}}
       IN  /\ rate' = [l \in Lanes |->
                  IF l \in DOMAIN said /\ said[l].rate # 0 THEN said[l].rate ELSE rate[l]]
           /\ \E last \in [reported -> Lanes] :     \* the query has no order
                /\ \A z \in reported : last[z] \in ReportedFrom(d, z)
                /\ zones' = [z \in DOMAIN zones |->
                       IF z \in reported THEN Severity(said[last[z]].ratio) ELSE zones[z]]
    /\ signals' = signals \cup DatSignals(d)
    /\ reports' = reports + 1
    /\ dat' = [dat EXCEPT ![d] = DatIdle]
    /\ UNCHANGED <<tracked, advice, predictions, scorer, grader, now, torn>>

(* DAT does not answer, a row is there already, or the worker dies: nothing *)
(* is kept and the task is tried again, from the start.                     *)
DatFails(d) ==
    /\ dat[d] # DatIdle
    /\ dat' = [dat EXCEPT ![d] = DatIdle]
    /\ UNCHANGED <<tracked, rate, advice, zones, signals, predictions, scorer,
                   grader, now, reports, torn>>

-----------------------------------------------------------------------------
(* score_lane *)

Value(direction) ==
    CASE direction \in {"UP", "STRONG_UP"} -> 100 [] direction = "MODERATE_UP" -> 65
      [] direction = "NEUTRAL" -> 0 [] direction = "DOWN" -> -100

(* port_signal, of the change since last week *)
PortWeight(direction) ==
    CASE direction = "STRONG_UP" -> 35 [] direction = "MODERATE_UP" -> 20
      [] direction = "DOWN" -> 25 [] direction = "NEUTRAL" -> 10

(* in hundredths *)
Weight(s) ==
    CASE s.type = "DAT_RATE_HISTORY" -> 25 [] s.type = "CARRIER_CAPACITY" -> 20
      [] s.type = "LOAD_TO_TRUCK" -> 15 [] s.type = "FUEL" -> 5
      [] s.type \in {"WEATHER", "FRED_DEMAND"} -> 10
      [] s.type = "PORT_VOLUME" -> PortWeight(s.direction)

(* 1 - age/96, at least a quarter, times four windows *)
Recency(s) == Max({Window, 4 * Window - 3 * (now - s.at)})

Effective(s) == Weight(s) * Recency(s)

(* a quotient, half up *)
Rounded(a, b) == LET q == (2 * (IF a < 0 THEN -a ELSE a) + b) \div (2 * b)
                 IN  IF a < 0 THEN -q ELSE q

(* variant: the age of a signal is not asked *)
FreshOfAnyAge(l) == {s \in signals : s.lane = l}

Fresh(l) == {s \in signals : s.lane = l /\ s.at >= now - Window}

RecommendAction(change, confidence, fired) ==
    IF ~fired THEN "WATCH"
    ELSE IF change >= 800 /\ confidence >= 7000 THEN "HOLD"
    ELSE IF change <= -800 /\ confidence >= 7000 THEN "BOOK NOW"
    ELSE "MONITOR"

(* of the signals: those with the direction of the sum, or with none *)
Agreeing(fresh, sum) ==
    {s \in fresh : Value(s.direction) * sum > 0 \/ Value(s.direction) = 0}

(* change and confidence in hundredths of a percent *)
Scored(l) ==
    LET fresh == Fresh(l)
        weights == [s \in fresh |-> Effective(s)]
        total == SumFunction(weights)
        sum == SumFunction([s \in fresh |-> Value(s.direction) * weights[s]])
        same == {s \in fresh : Value(s.direction) * sum > 0}
        change == Rounded(20 * sum, total)
        agreed == SumFunctionOnSet(weights, Agreeing(fresh, sum))
        confidence == Rounded(10000 * agreed, total)
    IN  [change |-> change, confidence |-> confidence, count |-> Cardinality(fresh),
         action |-> RecommendAction(change, confidence, Cardinality(same) >= 3)]

(* optimized_week: its revenues and short hauls are left out *)
OptimizedWeek(l, action) == action = "HOLD" /\ l \in LongHaul

(* the engine takes every lane, GET /lanes/{origin}/{dest} one that is there *)
Asked == {tracked} \cup {{l} : l \in tracked}

(* A lane without a rate is left alone; one without signals is reset and     *)
(* gets no prediction.                                                      *)
ScoreReads(s) ==
    /\ scorer[s] = ScorerIdle
    /\ tracked # {} /\ Quiet(Scorers, scorer)
    /\ \E ls \in Asked :
        LET rated == {l \in ls : rate[l] > 0}
            it == [step |-> "scored", lanes |-> rated, at |-> now,
                   old |-> [l \in rated |-> advice[l]],
                   new |-> [l \in rated |-> IF Fresh(l) = {} THEN Waiting ELSE Scored(l)],
                   predicted |-> {l \in rated : Fresh(l) # {}},
                   beside |-> Busy(Scorers, scorer) # {}]
        IN  scorer' = [o \in Scorers |->
                IF o = s THEN it
                ELSE IF o \in Busy(Scorers, scorer) THEN [scorer[o] EXCEPT !.beside = TRUE]
                ELSE scorer[o]]
    /\ UNCHANGED <<tracked, rate, advice, zones, signals, predictions, dat, grader,
                   now, reports, torn>>

(* an UPDATE has the columns that differ from what was loaded *)
Written(row, old, new) ==
    [f \in DOMAIN row |-> IF new[f] # old[f] THEN new[f] ELSE row[f]]

(* the prediction of a scored lane; beside: history, of its grading *)
Predicted(it, l) ==
    [lane |-> l, at |-> it.at, change |-> it.new[l].change, action |-> it.new[l].action,
     week |-> OptimizedWeek(l, it.new[l].action), actual |-> 0, beside |-> FALSE]

ScoreCommits(s) ==
    /\ scorer[s].step = "scored"
    /\ LET it == scorer[s]
           order == SetToSeq(it.predicted)
       IN  /\ Len(predictions) + Len(order) <= MaxPredictions
           /\ predictions' = predictions \o [i \in DOMAIN order |-> Predicted(it, order[i])]
           /\ advice' = [l \in Lanes |->
                  IF l \in it.lanes THEN Written(advice[l], it.old[l], it.new[l])
                  ELSE advice[l]]
           /\ torn' = IF it.beside THEN torn \cup it.lanes ELSE torn \ it.lanes
    /\ scorer' = [scorer EXCEPT ![s] = ScorerIdle]
    /\ UNCHANGED <<tracked, rate, zones, signals, dat, grader, now, reports>>

ScoreFails(s) ==
    /\ scorer[s] # ScorerIdle
    /\ scorer' = [scorer EXCEPT ![s] = ScorerIdle]
    /\ UNCHANGED <<tracked, rate, advice, zones, signals, predictions, dat, grader,
                   now, reports, torn>>

(* what _lane_response shows beside the lane: the optimized week of the     *)
(* newest prediction                                                        *)
WeekShown(l) ==
    LET of == {i \in DOMAIN predictions : predictions[i].lane = l}
    IN  of # {} /\ predictions[Max(of)].week

-----------------------------------------------------------------------------
(* calculate_prediction_accuracy *)

(* variant: predictions that have been graded are graded again *)
PendingAgain == {i \in DOMAIN predictions : predictions[i].at <= now - Window}

Pending == {i \in DOMAIN predictions :
                predictions[i].actual = 0 /\ predictions[i].at <= now - Window}

GradeReads(g) ==
    /\ grader[g] = GraderIdle
    /\ Pending # {} /\ Quiet(Graders, grader)
    /\ grader' = [o \in Graders |->
          IF o = g THEN [step |-> "read", pending |-> Pending,
                         beside |-> Busy(Graders, grader) # {}]
          ELSE IF o \in Busy(Graders, grader) THEN [grader[o] EXCEPT !.beside = TRUE]
          ELSE grader[o]]
    /\ UNCHANGED <<tracked, rate, advice, zones, signals, predictions, dat, scorer,
                   now, reports, torn>>

(* each lane is loaded as the loop comes to its prediction *)
GradeCommits(g) ==
    /\ grader[g].step = "read"
    /\ predictions' = [i \in DOMAIN predictions |->
          IF i \in grader[g].pending /\ rate[predictions[i].lane] # 0
          THEN [predictions[i] EXCEPT !.actual = rate[predictions[i].lane],
                                      !.beside = grader[g].beside]
          ELSE predictions[i]]
    /\ grader' = [grader EXCEPT ![g] = GraderIdle]
    /\ UNCHANGED <<tracked, rate, advice, zones, signals, dat, scorer, now,
                   reports, torn>>

GradeFails(g) ==
    /\ grader[g] # GraderIdle
    /\ grader' = [grader EXCEPT ![g] = GraderIdle]
    /\ UNCHANGED <<tracked, rate, advice, zones, signals, predictions, dat, scorer,
                   now, reports, torn>>

-----------------------------------------------------------------------------

HourPasses ==
    /\ now < MaxTime
    /\ now' = now + 1
    /\ UNCHANGED <<tracked, rate, advice, zones, signals, predictions, dat, scorer,
                   grader, reports, torn>>

MarketNext ==
    \/ OperatorJoins \/ AddOperatorLane
    \/ Weather \/ Fred \/ Fuel \/ PortVolume \/ Fmcsa
    \/ \E d \in Dats : DatReads(d) \/ DatCommits(d) \/ DatFails(d)
    \/ \E s \in Scorers : ScoreReads(s) \/ ScoreCommits(s) \/ ScoreFails(s)
    \/ \E g \in Graders : GradeReads(g) \/ GradeCommits(g) \/ GradeFails(g)
    \/ HourPasses

MarketSpec == MarketInit /\ [][MarketNext]_marketVars

-----------------------------------------------------------------------------
(***************************************************************************)
(* Properties.                                                             *)
(***************************************************************************)

(* Advice to wait or to book has behind it a prediction of the move and     *)
(* three signals of its direction, none older than 72 hours then, and an    *)
(* optimized week is shown with advice to hold, or once the signals of that *)
(* advice have run out; unless two scorings of the lane were open at once,  *)
(* until the next that is alone.                                            *)
AdviceBacked ==
    \A l \in Lanes \ torn :
        /\ advice[l].action \in {"HOLD", "BOOK NOW"} =>
            \E i \in DOMAIN predictions : LET p == predictions[i] IN
                /\ p.lane = l /\ p.action = advice[l].action
                /\ p.change = advice[l].change
                /\ Cardinality({s \in signals :
                        /\ s.lane = l /\ s.at >= p.at - Window
                        /\ Value(s.direction) * p.change > 0}) >= 3
        /\ WeekShown(l) => advice[l].action \in {"HOLD", "WAITING"}

(* A prediction's grade stands, unless two gradings were open at once, and  *)
(* it is given 72 hours after the prediction or later.                      *)
GradesStand ==
    [][\A i \in DOMAIN predictions : predictions'[i].actual # predictions[i].actual =>
          /\ predictions[i].actual = 0 \/ predictions'[i].beside
          /\ now - predictions[i].at >= Window]_marketVars

=============================================================================
