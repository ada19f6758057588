---------------------------- MODULE FreightProofs ----------------------------
(***************************************************************************)
(* Proofs about the freight side: FreightMarket first, then WeeklyChains.   *)
(* Sums, sequences made by recursive functions and the newest of a set are  *)
(* reached by induction over sets of numbers (Upward): a set that has 0 and *)
(* with each number the next has them all.                                  *)
(***************************************************************************)
EXTENDS WeeklyChains, FreightMarket, FiniteSetTheorems, WellFoundedInduction, TLAPS

(* a set of numbers has a least *)
LEMMA Least ==
  ASSUME NEW T, T # {}, T \subseteq Nat
  PROVE  \E n \in T : \A k \in T : n <= k
  <1>1. IsWellFoundedOn({ss \in Nat \X Nat : ss[1] < ss[2]}, Nat)
    BY NatLessThanWellFounded DEF OpToRel
  <1>2. PICK n \in T : \A k \in T : <<k, n>> \notin {ss \in Nat \X Nat : ss[1] < ss[2]}
    BY <1>1, WFMin
  <1>3. n \in Nat /\ \A k \in T : k \in Nat /\ ~(k < n)
    BY <1>2
  <1>4. \A k \in T : n <= k
    BY <1>3
  <1> QED
    BY <1>4

(* induction, with a set for the property *)
LEMMA Upward ==
  ASSUME NEW P, 0 \in P, \A n \in Nat : n \in P => n + 1 \in P
  PROVE  \A n \in Nat : n \in P
  <1> SUFFICES ASSUME Nat \ P # {} PROVE FALSE
    OBVIOUS
  <1>1. PICK n \in Nat \ P : \A k \in Nat \ P : n <= k
    BY Least
  <1>2. n - 1 \in Nat /\ n - 1 \in P
    BY <1>1
  <1>3. (n - 1) + 1 \in P
    BY <1>2
  <1> QED
    BY <1>1, <1>3

(* a set of positions has a newest *)
LEMMA NewestIs ==
  ASSUME NEW n \in Nat, NEW S \in SUBSET (1..n), S # {}
  PROVE  Max(S) \in S /\ \A i \in S : i <= Max(S)
  <1> DEFINE Has(T) == T # {} => \E m \in T : \A i \in T : m >= i
             P == {k \in Nat : \A T \in SUBSET (1..k) : Has(T)}
  <1>1. 0 \in P
    <2>1. \A T \in SUBSET (1..0) : T = {}
      OBVIOUS
    <2> QED
      BY <2>1
  <1>2. ASSUME NEW k \in Nat, k \in P PROVE k + 1 \in P
    <2> SUFFICES ASSUME NEW T \in SUBSET (1..(k + 1)) PROVE Has(T)
      OBVIOUS
    <2>1. CASE k + 1 \in T
      <3>1. \A i \in T : k + 1 >= i
        OBVIOUS
      <3> QED
        BY <2>1, <3>1
    <2>2. CASE k + 1 \notin T
      <3>1. T \in SUBSET (1..k)
        BY <2>2
      <3> QED
        BY <1>2, <3>1
    <2> QED
      BY <2>1, <2>2
  <1>3. n \in P
    <2> HIDE DEF P
    <2> QED
      BY <1>1, <1>2, Upward
  <1>4. \E m \in S : \A i \in S : m >= i
    BY <1>3
  <1>5. PICK x : x = Max(S)
    OBVIOUS
  <1>6. x \in S /\ \A y \in S : x >= y
    BY <1>4, <1>5 DEF Max
  <1>7. \A y \in S : y \in Int
    OBVIOUS
  <1> QED
    BY <1>5, <1>6, <1>7

(* and an oldest *)
LEMMA OldestIs ==
  ASSUME NEW S \in SUBSET Nat, S # {}
  PROVE  Min(S) \in S /\ \A i \in S : Min(S) <= i
  <1>3. PICK m \in S : \A k \in S : m <= k
    BY Least
  <1>4. PICK x : x = Min(S)
    OBVIOUS
  <1>5. x \in S /\ \A k \in S : x <= k
    BY <1>3, <1>4 DEF Min
  <1> QED
    BY <1>4, <1>5

-----------------------------------------------------------------------------
(* FreightMarket *)

(* An element less leaves a smaller set. *)
LEMMA OneLess ==
  ASSUME NEW S, IsFiniteSet(S), NEW s \in SUBSET S
  PROVE  /\ IsFiniteSet(s) /\ Cardinality(s) \in Nat /\ Cardinality(s) <= Cardinality(S)
         /\ Cardinality(s) = 0 => s = {}
         /\ \A x \in s : /\ s \ {x} \in SUBSET S
                         /\ Cardinality(s \ {x}) = Cardinality(s) - 1
  <1>1. IsFiniteSet(s) /\ Cardinality(s) \in Nat /\ Cardinality(s) <= Cardinality(S)
    BY FS_Subset, FS_CardinalityType
  <1>2. Cardinality(s) = 0 => s = {}
    BY <1>1, FS_EmptySet
  <1>3. \A x \in s : Cardinality(s \ {x}) = Cardinality(s) - 1
    BY <1>1, FS_RemoveElement
  <1> QED
    BY <1>1, <1>2, <1>3

OneOf(s) == CHOOSE x \in s : TRUE

Table(g, f, T) == g = [s \in T |-> IF s = {} THEN 0
                                   ELSE f[OneOf(s)] + g[s \ {OneOf(s)}]]

(* there is one that adds over every part of a finite set *)
LEMMA SumIsDefined ==
  ASSUME NEW S, NEW f, IsFiniteSet(S)
  PROVE  \E g : SumFunctionOnSet(f, S) = g[S] /\ Table(g, f, SUBSET S)
  <1> DEFINE Step(g, s) == IF s = {} THEN 0 ELSE f[OneOf(s)] + g[s \ {OneOf(s)}]
             it == CHOOSE g : Table(g, f, SUBSET S)
             Sub(n) == {s \in SUBSET S : Cardinality(s) <= n}
             P == {n \in Nat : \E g : Table(g, f, Sub(n))}
  <1>1. SumFunctionOnSet(f, S) = it[S]
    BY DEF SumFunctionOnSet, FoldFunctionOnSet, MapThenFoldSet, Table, OneOf
  <1>2. 0 \in P
    <2> DEFINE g == [s \in Sub(0) |-> 0]
    <2>1. \A s \in Sub(0) : s = {}
      BY OneLess
    <2>2. Table(g, f, Sub(0))
      BY <2>1 DEF Table
    <2> HIDE DEF g, Sub
    <2> QED
      BY <2>2
  <1>3. ASSUME NEW n \in Nat, n \in P PROVE n + 1 \in P
    <2>1. PICK g : g = [s \in Sub(n) |-> Step(g, s)]
      BY <1>3 DEF Table
    <2> DEFINE h == [s \in Sub(n + 1) |-> Step(g, s)]
    <2>2. ASSUME NEW s \in Sub(n + 1) PROVE Step(g, s) = Step(h, s)
      <3>1. CASE s = {}
        BY <3>1
      <3>2. CASE s # {}
        <4>1. PICK x \in s : x = OneOf(s)
          BY <3>2 DEF OneOf
        <4>2. s \ {x} \in Sub(n)
          <5>1. /\ s \ {x} \in SUBSET S
                /\ Cardinality(s \ {x}) = Cardinality(s) - 1
                /\ Cardinality(s) \in Nat
            BY OneLess
          <5> QED
            BY <5>1
        <4>3. Sub(n) \subseteq Sub(n + 1)
          BY OneLess
        <4>4. h[s \ {OneOf(s)}] = g[s \ {OneOf(s)}]
          BY <2>1, <4>1, <4>2, <4>3
        <4> QED
          BY <3>2, <4>4
      <3> QED
        BY <3>1, <3>2
    <2>3. h = [s \in Sub(n + 1) |-> Step(h, s)]
      BY <2>2
    <2>4. Table(h, f, Sub(n + 1))
      <3> HIDE DEF h
      <3> QED
        BY <2>3 DEF Table
    <2> HIDE DEF h, Sub
    <2> QED
      BY <2>4
  <1>4. Cardinality(S) \in P
    <2> HIDE DEF P
    <2>1. \A n \in Nat : n \in P
      BY <1>2, <1>3, Upward
    <2> QED
      BY <2>1, FS_CardinalityType
  <1>5. \E g : Table(g, f, SUBSET S)
    <2>1. Sub(Cardinality(S)) = SUBSET S
      BY OneLess
    <2> HIDE DEF Sub
    <2> QED
      BY <1>4, <2>1
  <1> QED
    BY <1>1, <1>5

(* a sum of integers is one, and of positive ones positive *)
LEMMA SumIsAnInteger ==
  ASSUME NEW S, NEW f, IsFiniteSet(S), \A x \in S : f[x] \in Int
  PROVE  /\ SumFunctionOnSet(f, S) \in Int
         /\ S # {} /\ (\A x \in S : f[x] > 0) => SumFunctionOnSet(f, S) > 0
  <1>1. PICK g : SumFunctionOnSet(f, S) = g[S] /\ Table(g, f, SUBSET S)
    BY SumIsDefined
  <1>a. \A s \in SUBSET S : g[s] = IF s = {} THEN 0
                                  ELSE f[OneOf(s)] + g[s \ {OneOf(s)}]
    BY <1>1 DEF Table
  <1> DEFINE Fine(s) == /\ g[s] \in Int
                        /\ (\A x \in S : f[x] > 0) =>
                              g[s] >= 0 /\ (s # {} => g[s] > 0)
             P == {n \in Nat : \A s \in SUBSET S : Cardinality(s) = n => Fine(s)}
  <1>2. 0 \in P
    <2>1. g[{}] = 0
      BY <1>a
    <2>2. Fine({})
      BY <2>1
    <2> QED
      BY <2>2, OneLess
  <1>3. ASSUME NEW n \in Nat, n \in P PROVE n + 1 \in P
    <2> SUFFICES ASSUME NEW s \in SUBSET S, Cardinality(s) = n + 1 PROVE Fine(s)
      OBVIOUS
    <2>1. s # {}
      <3>1. Cardinality({}) = 0
        BY FS_EmptySet
      <3> QED
        BY <3>1
    <2>2. PICK x \in s : x = OneOf(s)
      BY <2>1 DEF OneOf
    <2>3. s \ {x} \in SUBSET S /\ Cardinality(s \ {x}) = n
      <3>1. /\ s \ {x} \in SUBSET S
            /\ Cardinality(s \ {x}) = Cardinality(s) - 1
        BY OneLess
      <3> QED
        BY <3>1
    <2>4. Fine(s \ {x})
      BY <1>3, <2>3
    <2>5. g[s] = f[x] + g[s \ {x}]
      BY <1>a, <2>1, <2>2
    <2> QED
      BY <2>2, <2>4, <2>5
  <1>4. Cardinality(S) \in P
    <2> HIDE DEF P
    <2>1. \A n \in Nat : n \in P
      BY <1>2, <1>3, Upward
    <2> QED
      BY <2>1, FS_CardinalityType
  <1>5. Fine(S)
    BY <1>4
  <1> QED
    BY <1>1, <1>5

-----------------------------------------------------------------------------
Actions == {"none", "WAITING", "WATCH", "HOLD", "BOOK NOW", "MONITOR"}
Scores == [change : Int, confidence : Int, action : Actions, count : Nat]
Moves == [lane : Lanes, at : Nat, change : Int, action : Actions,
          week : BOOLEAN, actual : Nat, beside : BOOLEAN]
SignalTypes == {"WEATHER", "FUEL", "FRED_DEMAND", "PORT_VOLUME",
                "CARRIER_CAPACITY", "DAT_RATE_HISTORY", "LOAD_TO_TRUCK"}
Directions == {"STRONG_UP", "MODERATE_UP", "UP", "NEUTRAL", "DOWN"}

(* what a scoring can weigh *)
Weighable(s) ==
    /\ s.lane \in Lanes /\ s.type \in SignalTypes /\ s.at \in Nat
    /\ s.direction \in Directions
    /\ s.type = "PORT_VOLUME" => s.direction # "UP"

DatSays == [rate : Nat, ratio : Nat \cup {-1}]

(* a run of the DAT pipeline that has read, and a scoring that has *)
DatRead(r) ==
    /\ DOMAIN r = {"step", "at", "said", "rate", "missing"}
    /\ r.step = "read" /\ r.at \in Nat
    /\ DOMAIN r.said \subseteq Lanes
    /\ \A l \in DOMAIN r.said : r.said[l] \in DatSays

ScoringOpen(r) ==
    /\ r \in [step : {"scored"}, lanes : SUBSET Lanes, at : Nat, old : {r.old},
              new : {r.new}, predicted : SUBSET r.lanes, beside : BOOLEAN]
    /\ r.old \in [r.lanes -> Scores]
    /\ r.new \in [r.lanes -> Scores]

MarketTypes ==
    /\ tracked \subseteq Lanes
    /\ now \in Nat
    /\ rate \in [Lanes -> Nat]
    /\ advice \in [Lanes -> Scores]
    /\ DOMAIN zones = Range(Origin)
    /\ IsFiniteSet(signals) /\ \A s \in signals : Weighable(s)
    /\ predictions \in Seq(Moves)
    /\ DOMAIN dat = Dats /\ \A d \in Dats : dat[d] = DatIdle \/ DatRead(dat[d])
    /\ DOMAIN scorer = Scorers
    /\ \A s \in Scorers : scorer[s] = ScorerIdle \/ ScoringOpen(scorer[s])
    /\ grader \in [Graders -> [step : {"idle", "read"}, pending : SUBSET Nat,
                               beside : BOOLEAN]]

(* three signals of a lane point where the change points, none older than   *)
(* the window before the scoring                                            *)
Pointing(l, at, change) ==
    {s \in signals : /\ s.lane = l /\ s.at >= at - Window
                     /\ Value(s.direction) * change > 0}

Backed(l, at, change) == Cardinality(Pointing(l, at, change)) >= 3

-----------------------------------------------------------------------------

(* what the assumption says of the constants, piece by piece *)
LEMMA MarketConstants ==
  /\ Window \in Nat /\ Window > 0 /\ DayHours \in Nat /\ WeekHours \in Nat
  /\ IsFiniteSet(Lanes)
  <1>1. {DayHours, WeekHours, Window} \subseteq Nat \ {0}
    BY FreightMarketAssumption
  <1> QED
    BY <1>1, FreightMarketAssumption

(* the greater of two integers *)
LEMMA MaxOfTwo ==
  ASSUME NEW a \in Int, NEW b \in Int
  PROVE  Max({a, b}) \in Int /\ Max({a, b}) >= a
  <1>1. \E x \in {a, b} : \A y \in {a, b} : x >= y
    BY a >= b \/ b >= a
  <1>2. PICK m : m = Max({a, b})
    OBVIOUS
  <1>3. m \in {a, b} /\ \A y \in {a, b} : m >= y
    BY <1>1, <1>2 DEF Max
  <1> QED
    BY <1>2, <1>3

(* a product of positive integers *)
LEMMA ProductSigns ==
  ASSUME NEW a \in Int, NEW b \in Int
  PROVE  a * b \in Int /\ (a > 0 /\ b > 0 => a * b > 0)
  OBVIOUS

(* every signal weighs something, and points up, down or nowhere *)
LEMMA WeightsPositive ==
  ASSUME NEW s, Weighable(s), now \in Nat
  PROVE  /\ Effective(s) \in Int /\ Effective(s) > 0
         /\ Value(s.direction) \in {100, 65, 0, -100}
         /\ Value(s.direction) * Effective(s) \in Int
  <1>1. Weight(s) \in {25, 20, 15, 5, 10, 35}
    BY DEF Weighable, SignalTypes, Directions, Weight, PortWeight
  <1>2. Value(s.direction) \in {100, 65, 0, -100}
    BY DEF Weighable, Directions, Value
  <1>3. PICK r : r = Recency(s)
    OBVIOUS
  <1>4. r \in Int /\ r >= Window
    <2>1. 4 * Window - 3 * (now - s.at) \in Int /\ Window \in Int
      BY MarketConstants DEF Weighable
    <2> QED
      BY <1>3, <2>1, MaxOfTwo DEF Recency
  <1>5. PICK w \in Int : w = Weight(s) /\ w > 0
    BY <1>1
  <1>6. r > 0
    BY <1>4, MarketConstants
  <1>7. PICK e : e = w * r
    OBVIOUS
  <1>8. e \in Int /\ e > 0
    BY <1>4, <1>5, <1>6, <1>7, ProductSigns
  <1>9. Effective(s) = e
    BY <1>3, <1>5, <1>7 DEF Effective
  <1> QED
    BY <1>2, <1>8, <1>9

(* a quotient has the sign of its dividend, or is zero *)
LEMMA RoundedSign ==
  ASSUME NEW a \in Int, NEW b \in Int, b > 0
  PROVE  /\ Rounded(a, b) \in Int
         /\ a >= 0 => Rounded(a, b) >= 0
         /\ a <= 0 => Rounded(a, b) <= 0
  <1> DEFINE m == IF a < 0 THEN -a ELSE a
             q == (2 * m + b) \div (2 * b)
  <1>1. m \in Nat
    OBVIOUS
  <1>2. q \in Int /\ q >= 0
    OBVIOUS
  <1>3. a = 0 => q = 0
    OBVIOUS
  <1>4. Rounded(a, b) = IF a < 0 THEN -q ELSE q
    BY DEF Rounded
  <1> QED
    BY <1>2, <1>3, <1>4

(* a score that advises has three signals that point its way *)
LEMMA ScoredIsBacked ==
  ASSUME now \in Nat, IsFiniteSet(signals), \A s \in signals : Weighable(s),
         NEW l, Fresh(l) # {}
  PROVE  /\ Scored(l) \in Scores
         /\ Scored(l).action \in {"HOLD", "BOOK NOW"} =>
               Backed(l, now, Scored(l).change)
  <1> DEFINE fresh == Fresh(l)
             weights == [s \in fresh |-> Effective(s)]
             pulls == [s \in fresh |-> Value(s.direction) * weights[s]]
  <1>1. /\ IsFiniteSet(fresh) /\ fresh \subseteq signals
        /\ \A s \in fresh : Weighable(s)
    <2>1. fresh \in SUBSET signals
      BY DEF Fresh
    <2> QED
      BY <2>1, FS_Subset
  <1>2. /\ DOMAIN weights = fresh /\ DOMAIN pulls = fresh
        /\ \A s \in fresh : weights[s] \in Int /\ weights[s] > 0
        /\ \A s \in fresh : pulls[s] \in Int
        /\ \A s \in fresh : Value(s.direction) \in {100, 65, 0, -100}
    BY <1>1, WeightsPositive
  <1> HIDE DEF weights, pulls
  <1>3. PICK total \in Int : total = SumFunction(weights) /\ total > 0
    BY <1>1, <1>2, SumIsAnInteger DEF SumFunction
  <1>4. PICK sum \in Int : sum = SumFunction(pulls)
    BY <1>1, <1>2, SumIsAnInteger DEF SumFunction
  <1> DEFINE same == {s \in fresh : Value(s.direction) * sum > 0}
  <1>5. PICK agreed \in Int :
           agreed = SumFunctionOnSet(weights, Agreeing(fresh, sum))
    <2>1. Agreeing(fresh, sum) \in SUBSET fresh
      BY DEF Agreeing
    <2>2. IsFiniteSet(Agreeing(fresh, sum))
      BY <1>1, <2>1, FS_Subset
    <2> QED
      BY <1>2, <2>1, <2>2, SumIsAnInteger
  <1>6. PICK change \in Int :
           /\ change = Rounded(20 * sum, total)
           /\ sum >= 0 => change >= 0
           /\ sum <= 0 => change <= 0
    <2>1. 20 * sum \in Int
      OBVIOUS
    <2> QED
      BY <1>3, <2>1, RoundedSign
  <1>7. PICK confidence \in Int : confidence = Rounded(10000 * agreed, total)
    <2>1. 10000 * agreed \in Int
      OBVIOUS
    <2> QED
      BY <1>3, <2>1, RoundedSign
  <1>14. PICK n \in Nat : n = Cardinality(same)
    <2>1. same \in SUBSET fresh
      OBVIOUS
    <2> QED
      BY <1>1, <2>1, FS_Subset, FS_CardinalityType
  <1>8. PICK action \in Actions :
           /\ action = RecommendAction(change, confidence, n >= 3)
           /\ action \in {"HOLD", "BOOK NOW"} =>
                 n >= 3 /\ (change >= 800 \/ change <= -800)
    BY DEF RecommendAction, Actions
  <1>9. Scored(l) = [change |-> change, confidence |-> confidence,
                     count |-> Cardinality(fresh), action |-> action]
    <2> DEFINE t == SumFunction(weights)
               d == SumFunction(pulls)
               same2 == {s \in fresh : Value(s.direction) * d > 0}
               ch == Rounded(20 * d, t)
               co == Rounded(10000 * SumFunctionOnSet(weights, Agreeing(fresh, d)), t)
    <2>1. Scored(l) = [change |-> ch, confidence |-> co,
                       count |-> Cardinality(fresh),
                       action |-> RecommendAction(ch, co, Cardinality(same2) >= 3)]
      BY DEF Scored, weights, pulls
    <2>2. t = total /\ d = sum
      BY <1>3, <1>4
    <2>3. same2 = same
      BY <2>2
    <2>4. ch = change /\ co = confidence
      BY <1>5, <1>6, <1>7, <2>2
    <2> HIDE DEF ch, co, same, same2, fresh
    <2>5. RecommendAction(ch, co, Cardinality(same2) >= 3) = action
      BY <1>8, <1>14, <2>3, <2>4
    <2> QED
      BY <2>1, <2>4, <2>5
  <1>10. Cardinality(fresh) \in Nat
    BY <1>1, FS_CardinalityType
  <1>11. ASSUME action \in {"HOLD", "BOOK NOW"} PROVE Backed(l, now, change)
    <2>1. Cardinality(same) >= 3 /\ (change >= 800 \/ change <= -800)
      BY <1>14, <1>8, <1>11
    <2>2. same \subseteq Pointing(l, now, change)
      <3> SUFFICES ASSUME NEW s \in fresh, Value(s.direction) * sum > 0
                   PROVE  Value(s.direction) * change > 0
        BY <1>1 DEF Pointing, Fresh
      <3>1. Value(s.direction) \in {100, 65, 0, -100}
        BY <1>2
      <3> QED
        BY <1>6, <2>1, <3>1
    <2>3. IsFiniteSet(Pointing(l, now, change))
      <3>1. Pointing(l, now, change) \in SUBSET signals
        BY DEF Pointing
      <3> QED
        BY <3>1, FS_Subset
    <2>4. /\ Cardinality(same) <= Cardinality(Pointing(l, now, change))
          /\ Cardinality(Pointing(l, now, change)) \in Nat
          /\ Cardinality(same) \in Nat
      BY <2>2, <2>3, FS_Subset, FS_CardinalityType
    <2> QED
      BY <2>1, <2>4 DEF Backed
  <1> HIDE DEF fresh
  <1>12. Scored(l) \in Scores
    BY <1>9, <1>10 DEF Scores
  <1>13. Scored(l).action = action /\ Scored(l).change = change
    BY <1>9
  <1> QED
    BY <1>11, <1>12, <1>13

(* two sequences, one after the other *)
LEMMA Concatenated ==
  ASSUME NEW S, NEW p \in Seq(S), NEW q \in Seq(S)
  PROVE  /\ p \o q \in Seq(S) /\ Len(p \o q) = Len(p) + Len(q)
         /\ DOMAIN p = 1..Len(p) /\ DOMAIN q = 1..Len(q)
         /\ DOMAIN (p \o q) = 1..(Len(p) + Len(q))
         /\ Len(p) \in Nat /\ Len(q) \in Nat
         /\ \A i \in 1..Len(p) : (p \o q)[i] = p[i]
         /\ \A i \in 1..Len(q) : (p \o q)[Len(p) + i] = q[i]
  OBVIOUS

(* what is made of a finite set, element by element, is finite *)
LEMMA ImageIsFinite ==
  ASSUME NEW S, NEW T, NEW f \in [S -> T], IsFiniteSet(S),
         \A y \in T : \E x \in S : f[x] = y
  PROVE  IsFiniteSet(T)
  <1>1. f \in Surjection(S, T)
    BY DEF Surjection
  <1> QED
    BY <1>1, FS_Surjection

(* SetToSeq lists a finite set, each element once *)
LEMMA EverySetHasASequence ==
  ASSUME NEW S, IsFiniteSet(S)
  PROVE  /\ Cardinality(S) \in Nat
         /\ SetToSeq(S) \in [1..Cardinality(S) -> S]
         /\ \A i, j \in 1..Cardinality(S) :
               SetToSeq(S)[i] = SetToSeq(S)[j] => i = j
         /\ \A x \in S : \E i \in 1..Cardinality(S) : SetToSeq(S)[i] = x
  <1>1. Cardinality(S) \in Nat /\ ExistsBijection(1..Cardinality(S), S)
    BY FS_CardinalityType
  <1>2. PICK n \in Nat : n = Cardinality(S)
    BY <1>1
  <1>3. \E f \in [1..n -> S] : IsInjective(f)
    BY <1>1, <1>2 DEF ExistsBijection, Bijection, Injection
  <1>4. PICK f : f = SetToSeq(S)
    OBVIOUS
  <1>5. f \in [1..n -> S] /\ IsInjective(f)
    BY <1>2, <1>3, <1>4 DEF SetToSeq
  <1>6. f \in Injection(1..n, S)
    BY <1>5 DEF Injection
  <1>7. Cardinality(1..n) = n
    <2>1. 1 \in Int /\ n \in Int
      OBVIOUS
    <2> QED
      BY <2>1, FS_Interval
  <1>8. f \in Surjection(1..n, S)
    BY <1>2, <1>6, <1>7, FS_Injection
  <1>9. \A x \in S : \E i \in 1..n : f[i] = x
    BY <1>8 DEF Surjection
  <1> QED
    BY <1>2, <1>4, <1>5, <1>9 DEF IsInjective

-----------------------------------------------------------------------------

(* the types hold at first *)
LEMMA MarketTypesInit == MarketInit => MarketTypes
  <1> SUFFICES ASSUME MarketInit PROVE MarketTypes
    OBVIOUS
  <1>1. Unscored \in Scores
    BY DEF Unscored, Scores, Actions
  <1>2. IsFiniteSet({})
    BY FS_EmptySet
  <1>3. predictions \in Seq(Moves)
    BY DEF MarketInit
  <1> QED
    BY <1>1, <1>2, <1>3 DEF MarketInit, MarketTypes, GraderIdle

(* what a pipeline reports can be weighed *)
LEMMA ReportedIsWeighable ==
  ASSUME MarketTypes, NEW type \in SignalTypes, NEW direction \in Directions,
         NEW bucket, type = "PORT_VOLUME" => direction # "UP",
         Report(type, direction, bucket)
  PROVE  /\ signals \subseteq signals' /\ IsFiniteSet(signals')
         /\ \A s \in signals' : Weighable(s)
  <1> DEFINE Of(l) == [lane |-> l, type |-> type, direction |-> direction,
                       bucket |-> bucket, at |-> now]
             new == {Of(l) : l \in tracked}
  <1>1. signals' = signals \cup new
    BY DEF Report
  <1>2. \A l \in tracked : Weighable(Of(l))
    BY DEF MarketTypes, Weighable
  <1>3. IsFiniteSet(new)
    <2>1. [l \in tracked |-> Of(l)] \in [tracked -> new]
      OBVIOUS
    <2>2. \A y \in new : \E l \in tracked : [k \in tracked |-> Of(k)][l] = y
      OBVIOUS
    <2>3. IsFiniteSet(tracked)
      BY MarketConstants, FS_Subset DEF MarketTypes
    <2> QED
      BY <2>1, <2>2, <2>3, ImageIsFinite
  <1>4. IsFiniteSet(signals')
    BY <1>1, <1>3, FS_Union DEF MarketTypes
  <1> QED
    BY <1>1, <1>2, <1>4 DEF MarketTypes

(* each pipeline but that of DAT reports a type and a direction *)
LEMMA SomeReport ==
  ASSUME MarketTypes, Weather \/ Fred \/ Fuel \/ PortVolume \/ Fmcsa
  PROVE  \E type \in SignalTypes, direction \in Directions : \E bucket :
            /\ type = "PORT_VOLUME" => direction # "UP"
            /\ Report(type, direction, bucket)
  <1>1. /\ \A d \in Demands : d \in Directions
        /\ \A m \in PortMoves : m.direction \in Directions \ {"UP"}
    BY FreightMarketAssumption DEF Directions
  <1> USE DEF SignalTypes, Directions
  <1>2. CASE Weather
    BY <1>2 DEF Weather
  <1>3. CASE Fred
    BY <1>1, <1>3 DEF Fred
  <1>4. CASE Fuel
    BY <1>4 DEF Fuel
  <1>5. CASE PortVolume
    BY <1>1, <1>5 DEF PortVolume
  <1>6. CASE Fmcsa
    BY <1>6 DEF Fmcsa
  <1> QED
    BY <1>2, <1>3, <1>4, <1>5, <1>6

(* and so can what DAT reports *)
LEMMA DatIsWeighable ==
  ASSUME MarketTypes, NEW d \in Dats, DatCommits(d)
  PROVE  /\ signals \subseteq signals' /\ IsFiniteSet(signals')
         /\ \A s \in signals' : Weighable(s)
  <1>1. DatRead(dat[d]) /\ signals' = signals \cup DatSignals(d)
    BY DEF DatCommits, MarketTypes, DatIdle
  <1> DEFINE said == dat[d].said
             Of(l, type, direction) ==
                [lane |-> l, type |-> type, direction |-> direction,
                 bucket |-> <<"DAT", dat[d].at>>, at |-> dat[d].at]
             One(l) == Of(l, "DAT_RATE_HISTORY",
                          RateDirection(dat[d].rate[l], said[l].rate))
             Two(l) == Of(l, "LOAD_TO_TRUCK", RatioDirection(said[l].ratio))
             D1 == {l \in DOMAIN said : said[l].rate # 0}
             D2 == {l \in DOMAIN said : said[l].ratio # -1}
             S1 == {One(l) : l \in D1}
             S2 == {Two(l) : l \in D2}
  <1>2. DatSignals(d) = S1 \cup S2
    BY DEF DatSignals
  <1>3. D1 \subseteq Lanes /\ D2 \subseteq Lanes /\ dat[d].at \in Nat
    BY <1>1 DEF DatRead
  <1>4. IsFiniteSet(D1) /\ IsFiniteSet(D2)
    BY <1>3, MarketConstants, FS_Subset
  <1> HIDE DEF D1, D2
  <1>5. \A x, y : /\ RateDirection(x, y) \in Directions
                  /\ RatioDirection(x) \in Directions
    BY DEF RateDirection, RatioDirection, Directions
  <1>6. \A s \in S1 : Weighable(s)
    BY <1>3, <1>5 DEF Weighable, SignalTypes
  <1>7. \A s \in S2 : Weighable(s)
    BY <1>3, <1>5 DEF Weighable, SignalTypes
  <1>8. IsFiniteSet(S1)
    <2> HIDE DEF One
    <2>1. [l \in D1 |-> One(l)] \in [D1 -> S1]
      OBVIOUS
    <2>2. \A y \in S1 : \E l \in D1 : [k \in D1 |-> One(k)][l] = y
      OBVIOUS
    <2> HIDE DEF S1
    <2> QED
      BY <1>4, <2>1, <2>2, ImageIsFinite
  <1>9. IsFiniteSet(S2)
    <2> HIDE DEF Two
    <2>1. [l \in D2 |-> Two(l)] \in [D2 -> S2]
      OBVIOUS
    <2>2. \A y \in S2 : \E l \in D2 : [k \in D2 |-> Two(k)][l] = y
      OBVIOUS
    <2> HIDE DEF S2
    <2> QED
      BY <1>4, <2>1, <2>2, ImageIsFinite
  <1> HIDE DEF S1, S2
  <1>10. IsFiniteSet(S1 \cup S2) /\ IsFiniteSet(signals)
    BY <1>8, <1>9, FS_Union DEF MarketTypes
  <1>11. IsFiniteSet(signals')
    BY <1>1, <1>2, <1>10, FS_Union
  <1> QED
    BY <1>1, <1>2, <1>6, <1>7, <1>11 DEF MarketTypes

(* what a scoring reads and what it will write *)
LEMMA ScoringIsOpen ==
  ASSUME MarketTypes, NEW ls \in SUBSET Lanes, NEW beside \in BOOLEAN,
         NEW it,
         it = [step |-> "scored", lanes |-> {l \in ls : rate[l] > 0}, at |-> now,
               old |-> [l \in {k \in ls : rate[k] > 0} |-> advice[l]],
               new |-> [l \in {k \in ls : rate[k] > 0} |->
                          IF Fresh(l) = {} THEN Waiting ELSE Scored(l)],
               predicted |-> {l \in {k \in ls : rate[k] > 0} : Fresh(l) # {}},
               beside |-> beside]
  PROVE  /\ ScoringOpen(it)
         /\ \A l \in it.lanes :
               /\ l \notin it.predicted => it.new[l] = Waiting
               /\ it.new[l].action \in {"HOLD", "BOOK NOW"} =>
                     l \in it.predicted /\ Backed(l, it.at, it.new[l].change)
  <1> DEFINE rated == {l \in ls : rate[l] > 0}
             New(l) == IF Fresh(l) = {} THEN Waiting ELSE Scored(l)
  <1>1. Waiting \in Scores /\ Waiting.action = "WAITING"
    <2>1. Waiting = [change |-> 0, confidence |-> 0, action |-> "WAITING",
                     count |-> 0]
      BY DEF Waiting, Unscored
    <2> QED
      BY <2>1 DEF Scores, Actions
  <1>2. ASSUME NEW l \in rated
        PROVE  /\ New(l) \in Scores
               /\ Fresh(l) = {} => New(l) = Waiting
               /\ New(l).action \in {"HOLD", "BOOK NOW"} =>
                     Fresh(l) # {} /\ Backed(l, now, New(l).change)
    BY <1>1, ScoredIsBacked DEF MarketTypes
  <1>3. rated \subseteq Lanes
    OBVIOUS
  <1> HIDE DEF rated, New
  <1>4. it = [step |-> "scored", lanes |-> rated, at |-> now,
              old |-> [l \in rated |-> advice[l]],
              new |-> [l \in rated |-> New(l)],
              predicted |-> {l \in rated : Fresh(l) # {}}, beside |-> beside]
    BY DEF rated, New
  <1>8. /\ it.lanes = rated /\ it.predicted = {l \in rated : Fresh(l) # {}}
        /\ it.at = now /\ it.old = [l \in rated |-> advice[l]]
        /\ it.new = [l \in rated |-> New(l)]
    BY <1>4
  <1>5. it.old \in [it.lanes -> Scores]
    BY <1>3, <1>8 DEF MarketTypes
  <1>6. it.new \in [it.lanes -> Scores]
    <2>1. [l \in rated |-> New(l)] \in [rated -> Scores]
      BY <1>2
    <2> QED
      BY <1>8, <2>1
  <1>7. ScoringOpen(it)
    <2>1. /\ it.lanes \in SUBSET Lanes /\ it.predicted \in SUBSET it.lanes
          /\ it.at \in Nat
      BY <1>3, <1>8 DEF MarketTypes
    <2>2. it = [step |-> "scored", lanes |-> it.lanes, at |-> it.at,
                old |-> it.old, new |-> it.new, predicted |-> it.predicted,
                beside |-> beside]
      BY <1>4
    <2> QED
      BY <1>5, <1>6, <2>1, <2>2 DEF ScoringOpen
  <1>9. ASSUME NEW l \in it.lanes
        PROVE  /\ l \notin it.predicted => it.new[l] = Waiting
               /\ it.new[l].action \in {"HOLD", "BOOK NOW"} =>
                     l \in it.predicted /\ Backed(l, it.at, it.new[l].change)
    <2>1. l \in rated /\ it.new[l] = New(l)
      BY <1>8
    <2> QED
      BY <1>2, <1>8, <2>1
  <1> QED
    BY <1>7, <1>9

(* the prediction says of its lane what the scoring did *)
LEMMA PredictionIsAMove ==
  ASSUME NEW it, ScoringOpen(it), NEW l \in it.predicted
  PROVE  /\ Predicted(it, l) \in Moves
         /\ Predicted(it, l).lane = l
         /\ Predicted(it, l).at = it.at
         /\ Predicted(it, l).action = it.new[l].action
         /\ Predicted(it, l).change = it.new[l].change
         /\ Predicted(it, l).week => it.new[l].action = "HOLD"
  <1>1. l \in it.lanes /\ l \in Lanes /\ it.at \in Nat /\ it.new[l] \in Scores
    BY DEF ScoringOpen
  <1>2. it.new[l].change \in Int /\ it.new[l].action \in Actions
    BY <1>1 DEF Scores
  <1>3. PICK week \in BOOLEAN : /\ week = OptimizedWeek(l, it.new[l].action)
                                /\ week => it.new[l].action = "HOLD"
    BY DEF OptimizedWeek
  <1>4. Predicted(it, l) = [lane |-> l, at |-> it.at, change |-> it.new[l].change,
                            action |-> it.new[l].action, week |-> week,
                            actual |-> 0, beside |-> FALSE]
    BY <1>3 DEF Predicted
  <1> QED
    BY <1>1, <1>2, <1>3, <1>4 DEF Moves

(* the predictions of a scoring come after those that are there, one for    *)
(* each lane that it predicts                                               *)
LEMMA PredictionsGrow ==
  ASSUME MarketTypes, NEW s \in Scorers, ScoreCommits(s),
         NEW it, it = scorer[s]
  PROVE  /\ ScoringOpen(it)
         /\ predictions' \in Seq(Moves)
         /\ \A i \in DOMAIN predictions :
               i \in DOMAIN predictions' /\ predictions'[i] = predictions[i]
         /\ \A i \in DOMAIN predictions' \ DOMAIN predictions :
               /\ \A j \in DOMAIN predictions : j < i
               /\ \E l \in it.predicted : predictions'[i] = Predicted(it, l)
         /\ \A l \in it.predicted : \E i \in DOMAIN predictions' \ DOMAIN predictions :
               predictions'[i] = Predicted(it, l)
  <1>1. ScoringOpen(it)
    BY DEF ScoreCommits, MarketTypes, ScorerIdle
  <1>2. PICK order : order = SetToSeq(it.predicted)
    OBVIOUS
  <1>3. IsFiniteSet(it.predicted)
    <2>1. it.predicted \in SUBSET Lanes
      BY <1>1 DEF ScoringOpen
    <2> QED
      BY <2>1, MarketConstants, FS_Subset
  <1>4. PICK n \in Nat : n = Cardinality(it.predicted)
    BY <1>3, FS_CardinalityType
  <1>5. /\ order \in [1..n -> it.predicted]
        /\ \A x \in it.predicted : \E i \in 1..n : order[i] = x
    BY <1>2, <1>3, <1>4, EverySetHasASequence
  <1> DEFINE more == [i \in 1..n |-> Predicted(it, order[i])]
  <1>6. \A i \in 1..n : Predicted(it, order[i]) \in Moves
    BY <1>1, <1>5, PredictionIsAMove
  <1>7. more \in Seq(Moves) /\ Len(more) = n
    <2> HIDE DEF more
    <2>1. more \in [1..n -> Moves]
      BY <1>6 DEF more
    <2> QED
      BY <2>1
  <1>8. predictions' = predictions \o more
    <2>1. DOMAIN order = 1..n
      BY <1>5
    <2> QED
      BY <1>2, <2>1 DEF ScoreCommits
  <1>9. \A i \in 1..n : more[i] = Predicted(it, order[i])
    OBVIOUS
  <1> HIDE DEF more
  <1>10. predictions \in Seq(Moves)
    BY DEF MarketTypes
  <1>11. PICK k \in Nat : k = Len(predictions) /\ DOMAIN predictions = 1..k
    BY <1>10
  <1>12. /\ predictions' \in Seq(Moves) /\ DOMAIN predictions' = 1..(k + n)
         /\ \A i \in 1..k : predictions'[i] = predictions[i]
         /\ \A i \in 1..n : predictions'[k + i] = more[i]
    <2>1. predictions \in Seq(Moves) /\ more \in Seq(Moves)
      BY <1>7, <1>10
    <2>2. /\ predictions \o more \in Seq(Moves)
          /\ DOMAIN (predictions \o more) = 1..(Len(predictions) + Len(more))
          /\ \A i \in 1..Len(predictions) :
                (predictions \o more)[i] = predictions[i]
          /\ \A i \in 1..Len(more) :
                (predictions \o more)[Len(predictions) + i] = more[i]
      BY <2>1, Concatenated
    <2> QED
      BY <1>7, <1>8, <1>11, <2>2
  <1>13. ASSUME NEW i \in DOMAIN predictions' \ DOMAIN predictions
         PROVE  /\ \A j \in DOMAIN predictions : j < i
                /\ \E l \in it.predicted : predictions'[i] = Predicted(it, l)
    <2>1. i - k \in 1..n /\ i = k + (i - k)
      BY <1>11, <1>12
    <2>2. predictions'[i] = Predicted(it, order[i - k])
      BY <1>9, <1>12, <2>1
    <2> QED
      BY <1>5, <1>11, <2>1, <2>2
  <1>14. ASSUME NEW l \in it.predicted
         PROVE  \E i \in DOMAIN predictions' \ DOMAIN predictions :
                   predictions'[i] = Predicted(it, l)
    <2>1. PICK j \in 1..n : order[j] = l
      BY <1>5
    <2>2. k + j \in DOMAIN predictions' \ DOMAIN predictions
      BY <1>11, <1>12
    <2>3. predictions'[k + j] = more[j] /\ more[j] = Predicted(it, l)
      BY <1>9, <1>12, <2>1
    <2> QED
      BY <2>2, <2>3
  <1> QED
    BY <1>1, <1>11, <1>12, <1>13, <1>14

(* a grading changes what came of predictions, and not what they were *)
LEMMA GradesKeepMoves ==
  ASSUME MarketTypes, NEW g \in Graders, GradeCommits(g)
  PROVE  /\ predictions' \in Seq(Moves) /\ DOMAIN predictions' = DOMAIN predictions
         /\ \A i \in DOMAIN predictions : \E r \in Nat, b \in BOOLEAN :
               /\ predictions'[i] = [predictions[i] EXCEPT !.actual = r, !.beside = b]
               /\ \/ r = predictions[i].actual /\ b = predictions[i].beside
                  \/ i \in grader[g].pending /\ b = grader[g].beside
  <1>1. predictions \in Seq(Moves) /\ grader[g].beside \in BOOLEAN /\ rate \in [Lanes -> Nat]
    BY DEF MarketTypes
  <1>2. \A i \in DOMAIN predictions : predictions[i] \in Moves
    BY <1>1
  <1>3. DOMAIN predictions' = DOMAIN predictions
    BY DEF GradeCommits
  <1>4. ASSUME NEW i \in DOMAIN predictions
        PROVE  \E r \in Nat, b \in BOOLEAN :
               /\ predictions'[i] = [predictions[i] EXCEPT !.actual = r, !.beside = b]
               /\ \/ r = predictions[i].actual /\ b = predictions[i].beside
                  \/ i \in grader[g].pending /\ b = grader[g].beside
    <2>1. PICK p \in Moves : p = predictions[i]
      BY <1>2
    <2>2. p.lane \in Lanes /\ p.actual \in Nat /\ p.beside \in BOOLEAN
      BY DEF Moves
    <2>3. CASE i \in grader[g].pending /\ rate[p.lane] # 0
      <3>1. predictions'[i] = [predictions[i] EXCEPT !.actual = rate[p.lane],
                                                    !.beside = grader[g].beside]
        BY <2>1, <2>3 DEF GradeCommits
      <3>2. rate[p.lane] \in Nat
        BY <1>1, <2>2
      <3> QED
        BY <1>1, <2>3, <3>1, <3>2
    <2>4. CASE ~(i \in grader[g].pending /\ rate[p.lane] # 0)
      <3>1. predictions'[i] = p
        BY <2>1, <2>4 DEF GradeCommits
      <3>2. p = [p EXCEPT !.actual = p.actual, !.beside = p.beside]
        BY DEF Moves
      <3> QED
        BY <2>1, <2>2, <3>1, <3>2
    <2> QED
      BY <2>3, <2>4
  <1>5. ASSUME NEW i \in DOMAIN predictions PROVE predictions'[i] \in Moves
    <2>1. PICK r \in Nat, b \in BOOLEAN :
             predictions'[i] = [predictions[i] EXCEPT !.actual = r, !.beside = b]
      BY <1>4
    <2> QED
      BY <1>2, <2>1 DEF Moves
  <1>6. PICK n \in Nat : DOMAIN predictions = 1..n
    BY <1>1
  <1>7. predictions' \in [1..n -> Moves]
    <2>1. predictions' = [i \in DOMAIN predictions |-> predictions'[i]]
      BY DEF GradeCommits
    <2> QED
      BY <1>5, <1>6, <2>1
  <1>8. predictions' \in Seq(Moves)
    BY <1>7
  <1> QED
    BY <1>3, <1>4, <1>8

(* a session is opened beside those that are open *)
LEMMA OpenedBeside ==
  ASSUME MarketTypes, NEW s \in Scorers, ScoreReads(s)
  PROVE  \E it :
           /\ ScoringOpen(it) /\ scorer'[s] = it /\ scorer[s] = ScorerIdle
           /\ it.beside = (Busy(Scorers, scorer) # {})
           /\ it.old = [l \in it.lanes |-> advice[l]]
           /\ DOMAIN scorer' = Scorers
           /\ \A o \in Scorers \ {s} :
                scorer'[o] = IF o \in Busy(Scorers, scorer)
                             THEN [scorer[o] EXCEPT !.beside = TRUE] ELSE scorer[o]
           /\ \A l \in it.lanes :
               /\ l \notin it.predicted => it.new[l] = Waiting
               /\ it.new[l].action \in {"HOLD", "BOOK NOW"} =>
                     l \in it.predicted /\ Backed(l, it.at, it.new[l].change)
  <1>1. PICK ls \in Asked :
           scorer' = [o \in Scorers |->
              IF o = s
              THEN [step |-> "scored", lanes |-> {l \in ls : rate[l] > 0}, at |-> now,
                    old |-> [l \in {k \in ls : rate[k] > 0} |-> advice[l]],
                    new |-> [l \in {k \in ls : rate[k] > 0} |->
                               IF Fresh(l) = {} THEN Waiting ELSE Scored(l)],
                    predicted |-> {l \in {k \in ls : rate[k] > 0} : Fresh(l) # {}},
                    beside |-> Busy(Scorers, scorer) # {}]
              ELSE IF o \in Busy(Scorers, scorer) THEN [scorer[o] EXCEPT !.beside = TRUE]
              ELSE scorer[o]]
    BY DEF ScoreReads
  <1>2. PICK beside \in BOOLEAN : beside = (Busy(Scorers, scorer) # {})
    OBVIOUS
  <1>3. ls \in SUBSET Lanes
    BY DEF Asked, MarketTypes
  <1>4. PICK it :
          it = [step |-> "scored", lanes |-> {l \in ls : rate[l] > 0}, at |-> now,
                old |-> [l \in {k \in ls : rate[k] > 0} |-> advice[l]],
                new |-> [l \in {k \in ls : rate[k] > 0} |->
                           IF Fresh(l) = {} THEN Waiting ELSE Scored(l)],
                predicted |-> {l \in {k \in ls : rate[k] > 0} : Fresh(l) # {}},
                beside |-> beside]
    OBVIOUS
  <1>5. /\ ScoringOpen(it)
        /\ \A l \in it.lanes :
               /\ l \notin it.predicted => it.new[l] = Waiting
               /\ it.new[l].action \in {"HOLD", "BOOK NOW"} =>
                     l \in it.predicted /\ Backed(l, it.at, it.new[l].change)
    BY <1>3, <1>4, ScoringIsOpen
  <1>6. scorer' = [o \in Scorers |->
              IF o = s THEN it
              ELSE IF o \in Busy(Scorers, scorer) THEN [scorer[o] EXCEPT !.beside = TRUE]
              ELSE scorer[o]]
    BY <1>1, <1>2, <1>4
  <1>7. it.beside = beside /\ it.old = [l \in it.lanes |-> advice[l]]
    BY <1>4
  <1>8. scorer[s] = ScorerIdle
    BY DEF ScoreReads
  <1> QED
    BY <1>2, <1>5, <1>6, <1>7, <1>8

(* a scoring that is marked as beside others keeps what it holds *)
LEMMA BesideKeepsOpen ==
  ASSUME NEW r, ScoringOpen(r)
  PROVE  /\ ScoringOpen([r EXCEPT !.beside = TRUE])
         /\ r.step = "scored"
         /\ [r EXCEPT !.beside = TRUE].step = "scored"
         /\ [r EXCEPT !.beside = TRUE].beside = TRUE
         /\ [r EXCEPT !.beside = TRUE].lanes = r.lanes
         /\ [r EXCEPT !.beside = TRUE].predicted = r.predicted
         /\ [r EXCEPT !.beside = TRUE].new = r.new
         /\ [r EXCEPT !.beside = TRUE].at = r.at
  BY DEF ScoringOpen

(* only the columns that change are written; unchanged rows take all *)
LEMMA WrittenIsAScore ==
  ASSUME NEW row \in Scores, NEW old \in Scores, NEW new \in Scores
  PROVE  /\ Written(row, old, new) \in Scores
         /\ row = old => Written(row, old, new) = new
  <1>1. DOMAIN row = {"change", "confidence", "action", "count"}
    BY DEF Scores
  <1>2. Written(row, old, new)
          = [change |-> IF new.change # old.change THEN new.change ELSE row.change,
             confidence |-> IF new.confidence # old.confidence THEN new.confidence
                            ELSE row.confidence,
             action |-> IF new.action # old.action THEN new.action ELSE row.action,
             count |-> IF new.count # old.count THEN new.count ELSE row.count]
    BY <1>1 DEF Written
  <1> QED
    BY <1>2 DEF Scores

(* a commit writes the lanes it has scored, and no other *)
LEMMA CommitWrites ==
  ASSUME MarketTypes, NEW s \in Scorers, ScoreCommits(s), NEW it, it = scorer[s]
  PROVE  /\ ScoringOpen(it) /\ advice' \in [Lanes -> Scores]
         /\ \A l \in Lanes \ it.lanes : advice'[l] = advice[l]
         /\ \A l \in it.lanes : it.old[l] = advice[l] => advice'[l] = it.new[l]
         /\ torn' = IF it.beside THEN torn \cup it.lanes ELSE torn \ it.lanes
  <1>1. ScoringOpen(it)
    BY PredictionsGrow
  <1>2. it.lanes \subseteq Lanes /\ it.old \in [it.lanes -> Scores]
        /\ it.new \in [it.lanes -> Scores]
    BY <1>1 DEF ScoringOpen
  <1>3. /\ advice' = [l \in Lanes |->
                        IF l \in it.lanes THEN Written(advice[l], it.old[l], it.new[l])
                        ELSE advice[l]]
        /\ torn' = IF it.beside THEN torn \cup it.lanes ELSE torn \ it.lanes
    BY DEF ScoreCommits
  <1>4. ASSUME NEW l \in it.lanes
        PROVE  /\ Written(advice[l], it.old[l], it.new[l]) \in Scores
               /\ advice[l] = it.old[l] =>
                     Written(advice[l], it.old[l], it.new[l]) = it.new[l]
    <2>1. advice[l] \in Scores /\ it.old[l] \in Scores /\ it.new[l] \in Scores
      BY <1>2 DEF MarketTypes
    <2> QED
      BY <2>1, WrittenIsAScore
  <1>5. advice' \in [Lanes -> Scores]
    BY <1>3, <1>4 DEF MarketTypes
  <1> QED
    BY <1>1, <1>2, <1>3, <1>4, <1>5

(* what a run of DAT has read: an answer and the zone of each lane *)
LEMMA DatReadsWell ==
  ASSUME MarketTypes, NEW d \in Dats, DatReads(d)
  PROVE  \E r : /\ DatRead(r) /\ dat' = [dat EXCEPT ![d] = r]
                /\ DOMAIN r.said = tracked
                /\ r.missing = {l \in tracked : zones[Origin[l]] = "none"}
  <1>1. PICK said \in {a \in [tracked -> UNION Range(Answers)] :
                         \A l \in tracked : a[l] \in Answers[l]} :
          dat' = [dat EXCEPT ![d] =
            [step |-> "read", at |-> now, said |-> said,
             rate |-> [l \in tracked |-> rate[l]],
             missing |-> {l \in tracked : zones[Origin[l]] = "none"}]]
    BY DEF DatReads
  <1>2. PICK r : r = [step |-> "read", at |-> now, said |-> said,
             rate |-> [l \in tracked |-> rate[l]],
             missing |-> {l \in tracked : zones[Origin[l]] = "none"}]
    OBVIOUS
  <1>3. DOMAIN said = tracked /\ \A l \in tracked : said[l] \in DatSays
    <2>1. DOMAIN said = tracked /\ \A l \in tracked : said[l] \in Answers[l]
      OBVIOUS
    <2> QED
      BY <2>1, FreightMarketAssumption DEF DatSays, MarketTypes
  <1>4. /\ DOMAIN r = {"step", "at", "said", "rate", "missing"}
        /\ r.step = "read" /\ r.at = now /\ r.said = said
        /\ r.missing = {l \in tracked : zones[Origin[l]] = "none"}
    BY <1>2
  <1>5. DatRead(r)
    BY <1>3, <1>4 DEF DatRead, MarketTypes
  <1> QED
    BY <1>1, <1>2, <1>3, <1>4, <1>5

(* every step keeps the types, action by action *)
LEMMA MarketTypesStep ==
  ASSUME MarketTypes, [MarketNext]_marketVars
  PROVE  MarketTypes'
  <1>1. CASE OperatorJoins \/ AddOperatorLane
    <2>1. PICK ls \in SUBSET Lanes : Track(ls)
      BY <1>1 DEF OperatorJoins, AddOperatorLane, SuggestTopLanes
    <2> QED
      BY <2>1 DEF Track, MarketTypes
  <1>2. CASE Weather \/ Fred \/ Fuel \/ PortVolume \/ Fmcsa
    <2>1. PICK type \in SignalTypes, direction \in Directions : \E bucket :
            /\ type = "PORT_VOLUME" => direction # "UP"
            /\ Report(type, direction, bucket)
      BY <1>2, SomeReport
    <2>2. PICK bucket : /\ type = "PORT_VOLUME" => direction # "UP"
                        /\ Report(type, direction, bucket)
      BY <2>1
    <2>3. IsFiniteSet(signals') /\ \A s \in signals' : Weighable(s)
      BY <2>2, ReportedIsWeighable
    <2> QED
      BY <2>2, <2>3 DEF Report, MarketTypes
  <1>3. ASSUME NEW d \in Dats, DatReads(d) PROVE MarketTypes'
    <2>1. PICK r : DatRead(r) /\ dat' = [dat EXCEPT ![d] = r]
      BY <1>3, DatReadsWell
    <2>2. /\ DOMAIN dat' = Dats
          /\ \A e \in Dats : dat'[e] = DatIdle \/ DatRead(dat'[e])
      BY <2>1 DEF MarketTypes
    <2> QED
      BY <1>3, <2>2 DEF DatReads, MarketTypes
  <1>4. ASSUME NEW d \in Dats, DatCommits(d) PROVE MarketTypes'
    <2>1. IsFiniteSet(signals') /\ \A s \in signals' : Weighable(s)
      BY <1>4, DatIsWeighable
    <2>2. DatRead(dat[d])
      BY <1>4 DEF DatCommits, MarketTypes, DatIdle
    <2>3. rate' \in [Lanes -> Nat]
      <3>1. rate' = [l \in Lanes |->
                       IF l \in DOMAIN dat[d].said /\ dat[d].said[l].rate # 0
                       THEN dat[d].said[l].rate ELSE rate[l]]
        BY <1>4 DEF DatCommits
      <3>2. \A l \in DOMAIN dat[d].said : dat[d].said[l].rate \in Nat
        BY <2>2 DEF DatRead, DatSays
      <3> QED
        BY <3>1, <3>2 DEF MarketTypes
    <2>4. DOMAIN zones' = Range(Origin)
      BY <1>4 DEF DatCommits, MarketTypes
    <2>5. /\ DOMAIN dat' = Dats
          /\ \A e \in Dats : dat'[e] = DatIdle \/ DatRead(dat'[e])
      BY <1>4 DEF DatCommits, MarketTypes
    <2> QED
      BY <1>4, <2>1, <2>3, <2>4, <2>5 DEF DatCommits, MarketTypes
  <1>5. ASSUME NEW d \in Dats, DatFails(d) PROVE MarketTypes'
    <2>1. /\ DOMAIN dat' = Dats
          /\ \A e \in Dats : dat'[e] = DatIdle \/ DatRead(dat'[e])
      BY <1>5 DEF DatFails, MarketTypes
    <2> QED
      BY <1>5, <2>1 DEF DatFails, MarketTypes
  <1>6. ASSUME NEW s \in Scorers, ScoreReads(s) PROVE MarketTypes'
    <2>1. PICK it :
            /\ ScoringOpen(it) /\ scorer'[s] = it
            /\ DOMAIN scorer' = Scorers
            /\ \A o \in Scorers \ {s} :
                 scorer'[o] = IF o \in Busy(Scorers, scorer)
                              THEN [scorer[o] EXCEPT !.beside = TRUE] ELSE scorer[o]
      BY <1>6, OpenedBeside
    <2>2. \A o \in Scorers : scorer'[o] = ScorerIdle \/ ScoringOpen(scorer'[o])
      <3> SUFFICES ASSUME NEW o \in Scorers \ {s}
                   PROVE  scorer'[o] = ScorerIdle \/ ScoringOpen(scorer'[o])
        BY <2>1
      <3>1. CASE o \in Busy(Scorers, scorer)
        <4>1. ScoringOpen(scorer[o])
          BY <3>1 DEF MarketTypes, Busy, ScorerIdle
        <4> QED
          BY <2>1, <3>1, <4>1, BesideKeepsOpen
      <3>2. CASE o \notin Busy(Scorers, scorer)
        BY <2>1, <3>2 DEF MarketTypes
      <3> QED
        BY <3>1, <3>2
    <2> QED
      BY <1>6, <2>1, <2>2 DEF ScoreReads, MarketTypes
  <1>7. ASSUME NEW s \in Scorers, ScoreCommits(s) PROVE MarketTypes'
    <2>1. predictions' \in Seq(Moves)
      BY <1>7, PredictionsGrow
    <2>2. advice' \in [Lanes -> Scores]
      BY <1>7, CommitWrites
    <2>3. /\ DOMAIN scorer' = Scorers
          /\ \A o \in Scorers : scorer'[o] = ScorerIdle \/ ScoringOpen(scorer'[o])
      BY <1>7 DEF ScoreCommits, MarketTypes
    <2> QED
      BY <1>7, <2>1, <2>2, <2>3 DEF ScoreCommits, MarketTypes
  <1>8. ASSUME NEW s \in Scorers, ScoreFails(s) PROVE MarketTypes'
    <2>1. /\ DOMAIN scorer' = Scorers
          /\ \A o \in Scorers : scorer'[o] = ScorerIdle \/ ScoringOpen(scorer'[o])
      BY <1>8 DEF ScoreFails, MarketTypes
    <2> QED
      BY <1>8, <2>1 DEF ScoreFails, MarketTypes
  <1> DEFINE G == [step : {"idle", "read"}, pending : SUBSET Nat, beside : BOOLEAN]
  <1>9. ASSUME NEW g \in Graders, GradeReads(g) PROVE MarketTypes'
    <2>1. Pending \in SUBSET Nat
      BY DEF Pending, MarketTypes
    <2>2. [step |-> "read", pending |-> Pending, beside |-> Busy(Graders, grader) # {}] \in G
      BY <2>1
    <2>3. \A o \in Graders : grader[o] \in G /\ [grader[o] EXCEPT !.beside = TRUE] \in G
      BY DEF MarketTypes
    <2> HIDE DEF G
    <2>4. grader' \in [Graders -> G]
      BY <1>9, <2>2, <2>3 DEF GradeReads
    <2> QED
      BY <1>9, <2>4 DEF GradeReads, MarketTypes, G
  <1>10. ASSUME NEW g \in Graders, GradeCommits(g) PROVE MarketTypes'
    <2>1. predictions' \in Seq(Moves)
      BY <1>10, GradesKeepMoves
    <2>2. grader' \in [Graders -> G]
      BY <1>10 DEF GradeCommits, MarketTypes, GraderIdle
    <2> QED
      BY <1>10, <2>1, <2>2 DEF GradeCommits, MarketTypes
  <1>11. ASSUME NEW g \in Graders, GradeFails(g) PROVE MarketTypes'
    <2>2. grader' \in [Graders -> G]
      BY <1>11 DEF GradeFails, MarketTypes, GraderIdle
    <2> QED
      BY <1>11, <2>2 DEF GradeFails, MarketTypes
  <1>12. CASE HourPasses
    BY <1>12 DEF HourPasses, MarketTypes
  <1>13. CASE UNCHANGED marketVars
    BY <1>13 DEF marketVars, MarketTypes
  <1> QED
    BY <1>1, <1>2, <1>3, <1>4, <1>5, <1>6, <1>7, <1>8, <1>9, <1>10, <1>11,
       <1>12, <1>13 DEF MarketNext

-----------------------------------------------------------------------------
(* Gradings open at once know it.  What one has read to grade is old        *)
(* enough, and not graded yet if it has been alone.                         *)
GradersKnown ==
    /\ \A g \in Graders : grader[g] = GraderIdle \/ grader[g].step = "read"
    /\ \A g, o \in Graders : g # o /\ grader[g].step = "read" /\ grader[o].step = "read"
                                => grader[g].beside

PendingWaits ==
    \A g \in Graders : \A i \in grader[g].pending :
        /\ i \in DOMAIN predictions
        /\ now - predictions[i].at >= Window
        /\ predictions[i].actual = 0 \/ grader[g].beside

GradingInv == MarketTypes /\ GradersKnown /\ PendingWaits

(* what every step leaves of a prediction *)
LEMMA PredictionsStay ==
  ASSUME MarketTypes, [MarketNext]_marketVars
  PROVE  /\ \A i \in DOMAIN predictions :
               /\ i \in DOMAIN predictions'
               /\ predictions'[i].at = predictions[i].at
               /\ \/ /\ predictions'[i].actual = predictions[i].actual
                     /\ predictions'[i].beside = predictions[i].beside
                  \/ \E g \in Graders : /\ GradeCommits(g) /\ i \in grader[g].pending
                                        /\ predictions'[i].beside = grader[g].beside
         /\ now' \in {now, now + 1}
  <1>1. CASE \E s \in Scorers : ScoreCommits(s)
    BY <1>1, PredictionsGrow DEF ScoreCommits
  <1>2. ASSUME NEW g \in Graders, GradeCommits(g)
        PROVE  \A i \in DOMAIN predictions :
               /\ i \in DOMAIN predictions'
               /\ predictions'[i].at = predictions[i].at
               /\ \/ /\ predictions'[i].actual = predictions[i].actual
                     /\ predictions'[i].beside = predictions[i].beside
                  \/ /\ i \in grader[g].pending
                     /\ predictions'[i].beside = grader[g].beside
    <2> SUFFICES ASSUME NEW i \in DOMAIN predictions
                 PROVE /\ i \in DOMAIN predictions'
                       /\ predictions'[i].at = predictions[i].at
                       /\ \/ /\ predictions'[i].actual = predictions[i].actual
                             /\ predictions'[i].beside = predictions[i].beside
                          \/ /\ i \in grader[g].pending
                             /\ predictions'[i].beside = grader[g].beside
      OBVIOUS
    <2>1. PICK r \in Nat, b \in BOOLEAN :
             /\ predictions'[i] = [predictions[i] EXCEPT !.actual = r, !.beside = b]
             /\ \/ r = predictions[i].actual /\ b = predictions[i].beside
                \/ i \in grader[g].pending /\ b = grader[g].beside
      BY <1>2, GradesKeepMoves
    <2>4. predictions \in Seq(Moves)
      BY DEF MarketTypes
    <2>2. PICK p \in Moves : p = predictions[i]
      BY <2>4
    <2>3. /\ [p EXCEPT !.actual = r, !.beside = b].at = p.at
          /\ [p EXCEPT !.actual = r, !.beside = b].actual = r
          /\ [p EXCEPT !.actual = r, !.beside = b].beside = b
      BY DEF Moves
    <2>5. i \in DOMAIN predictions'
      BY <1>2, GradesKeepMoves
    <2> QED
      BY <2>1, <2>2, <2>3, <2>5
  <1>3. CASE \E g \in Graders : GradeCommits(g)
    BY <1>2, <1>3 DEF GradeCommits
  <1>4. CASE UNCHANGED predictions /\ now' \in {now, now + 1}
    BY <1>4
  <1> QED
    BY <1>1, <1>3, <1>4 DEF MarketNext, marketVars, OperatorJoins,
       AddOperatorLane, Track, Weather, Fred, Fuel, PortVolume, Fmcsa, Report,
       DatReads, DatCommits, DatFails, ScoreReads, ScoreCommits, ScoreFails, GradeReads,
       GradeCommits, GradeFails, HourPasses

(* every step keeps GradingInv *)
LEMMA GradingStep ==
  ASSUME GradingInv, [MarketNext]_marketVars
  PROVE  GradingInv'
  <1>1. MarketTypes'
    BY MarketTypesStep DEF GradingInv
  <1>2. /\ now \in Nat /\ now' \in {now, now + 1}
        /\ \A i \in DOMAIN predictions :
             /\ i \in DOMAIN predictions' /\ predictions'[i].at = predictions[i].at
             /\ \/ predictions'[i].actual = predictions[i].actual
                \/ \E g \in Graders : GradeCommits(g)
    BY PredictionsStay DEF GradingInv, MarketTypes
  <1>3. \A i \in DOMAIN predictions : predictions[i].at \in Nat
    <2>1. predictions \in Seq(Moves)
      BY DEF GradingInv, MarketTypes
    <2>2. \A i \in DOMAIN predictions : predictions[i] \in Moves
      BY <2>1
    <2> QED
      BY <2>2 DEF Moves
  <1> DEFINE G == [step : {"idle", "read"}, pending : SUBSET Nat, beside : BOOLEAN]
  <1>4. grader \in [Graders -> G]
    BY DEF GradingInv, MarketTypes
  <1>5. ASSUME NEW g \in Graders, GradeReads(g) PROVE GradersKnown' /\ PendingWaits'
    <2>1. PICK it : it = [step |-> "read", pending |-> Pending,
                          beside |-> Busy(Graders, grader) # {}]
      OBVIOUS
    <2>2. /\ it.step = "read" /\ it.pending = Pending
          /\ it.beside = (Busy(Graders, grader) # {})
      BY <2>1
    <2>3. \A o \in Graders : /\ [grader[o] EXCEPT !.beside = TRUE].step = grader[o].step
                             /\ [grader[o] EXCEPT !.beside = TRUE].beside = TRUE
                             /\ [grader[o] EXCEPT !.beside = TRUE].pending = grader[o].pending
      BY <1>4
    <2>4. /\ grader' = [o \in Graders |->
                IF o = g THEN it
                ELSE IF o \in Busy(Graders, grader) THEN [grader[o] EXCEPT !.beside = TRUE]
                ELSE grader[o]]
          /\ UNCHANGED <<predictions, now>>
      BY <1>5, <2>1 DEF GradeReads
    <2>5. \A o \in Graders : o \in Busy(Graders, grader) <=> grader[o].step = "read"
      BY <1>4 DEF Busy
    <2>6. GradersKnown'
      BY <2>2, <2>3, <2>4, <2>5 DEF GradingInv, GradersKnown
    <2>7. PendingWaits'
      <3> SUFFICES ASSUME NEW o \in Graders, NEW i \in grader'[o].pending
                   PROVE  /\ i \in DOMAIN predictions
                          /\ now - predictions[i].at >= Window
                          /\ predictions[i].actual = 0 \/ grader'[o].beside
        BY <2>4 DEF PendingWaits
      <3>1. CASE o = g
        <4>1. i \in DOMAIN predictions /\ predictions[i].actual = 0
              /\ predictions[i].at <= now - Window
          BY <2>2, <2>4, <3>1 DEF Pending
        <4> QED
          BY <1>2, <1>3, <4>1, MarketConstants
      <3>2. CASE o # g
        <4>1. i \in grader[o].pending
          BY <2>3, <2>4, <3>2
        <4>2. grader[o].beside => grader'[o].beside
          BY <2>3, <2>4, <3>2
        <4> QED
          BY <4>1, <4>2 DEF GradingInv, PendingWaits
      <3> QED
        BY <3>1, <3>2
    <2> QED
      BY <2>6, <2>7
  <1>6. ASSUME NEW g \in Graders, GradeCommits(g) PROVE GradersKnown' /\ PendingWaits'
    <2>1. grader' = [grader EXCEPT ![g] = GraderIdle] /\ grader[g].step = "read"
          /\ now' = now
      BY <1>6 DEF GradeCommits
    <2>2. GradersKnown'
      BY <1>4, <2>1 DEF GradingInv, GradersKnown, GraderIdle
    <2>3. PendingWaits'
      <3> SUFFICES ASSUME NEW o \in Graders, NEW i \in grader'[o].pending
                   PROVE  /\ i \in DOMAIN predictions'
                          /\ now - predictions'[i].at >= Window
                          /\ predictions'[i].actual = 0 \/ grader'[o].beside
        BY <2>1 DEF PendingWaits
      <3>1. o # g /\ grader'[o] = grader[o]
        BY <1>4, <2>1 DEF GraderIdle
      <3>2. grader[o].step = "read"
        BY <3>1 DEF GradingInv, GradersKnown, GraderIdle
      <3>3. grader[o].beside
        BY <2>1, <3>1, <3>2 DEF GradingInv, GradersKnown
      <3> QED
        BY <1>2, <3>1, <3>3 DEF GradingInv, PendingWaits
    <2> QED
      BY <2>2, <2>3
  <1>7. ASSUME NEW g \in Graders, GradeFails(g) PROVE GradersKnown' /\ PendingWaits'
    <2>1. grader' = [grader EXCEPT ![g] = GraderIdle] /\ UNCHANGED <<now, predictions>>
      BY <1>7 DEF GradeFails
    <2>2. GradersKnown'
      BY <1>4, <2>1 DEF GradingInv, GradersKnown, GraderIdle
    <2>3. PendingWaits'
      BY <1>4, <2>1 DEF GradingInv, PendingWaits, GraderIdle
    <2> QED
      BY <2>2, <2>3
  <1>8. CASE UNCHANGED grader /\ ~\E g \in Graders : GradeCommits(g)
    <2>1. GradersKnown'
      BY <1>8 DEF GradingInv, GradersKnown
    <2>2. PendingWaits'
      <3> SUFFICES ASSUME NEW o \in Graders, NEW i \in grader[o].pending
                   PROVE  /\ i \in DOMAIN predictions'
                          /\ now' - predictions'[i].at >= Window
                          /\ predictions'[i].actual = 0 \/ grader[o].beside
        BY <1>8 DEF PendingWaits
      <3>1. /\ i \in DOMAIN predictions /\ now - predictions[i].at >= Window
            /\ predictions[i].actual = 0 \/ grader[o].beside
        BY DEF GradingInv, PendingWaits
      <3>2. predictions'[i].at = predictions[i].at /\ i \in DOMAIN predictions'
            /\ predictions'[i].actual = predictions[i].actual
        BY <1>2, <1>8, <3>1
      <3>3. now' - predictions[i].at >= now - predictions[i].at
        BY <1>2, <1>3, <3>1
      <3>4. now' - predictions[i].at >= Window
        BY <1>2, <1>3, <3>1, <3>3, MarketConstants
      <3> QED
        BY <3>1, <3>2, <3>4
    <2> QED
      BY <1>1, <2>1, <2>2 DEF GradingInv
  <1>9. (\E g \in Graders : GradeReads(g) \/ GradeCommits(g) \/ GradeFails(g))
        \/ UNCHANGED grader
    BY DEF MarketNext, marketVars, OperatorJoins,
       AddOperatorLane, Track, Weather, Fred, Fuel, PortVolume, Fmcsa, Report,
       DatReads, DatCommits, DatFails, ScoreReads, ScoreCommits, ScoreFails, HourPasses
  <1> QED
    BY <1>1, <1>5, <1>6, <1>7, <1>8, <1>9 DEF GradingInv

(* A grade is given no earlier than the window after its prediction, and    *)
(* stays what it is, unless two gradings were open at once.                 *)
THEOREM GradesAreKept == MarketSpec => GradesStand
  <1> DEFINE Kept == \A i \in DOMAIN predictions :
               predictions'[i].actual # predictions[i].actual =>
                  /\ predictions[i].actual = 0 \/ predictions'[i].beside
                  /\ now - predictions[i].at >= Window
  <1>1. MarketInit => GradingInv
    BY MarketTypesInit DEF GradingInv, MarketInit, GradersKnown, PendingWaits, GraderIdle
  <1>2. GradingInv /\ [MarketNext]_marketVars => GradingInv'
    BY GradingStep
  <1>3. GradingInv /\ [MarketNext]_marketVars => [Kept]_marketVars
    <2> SUFFICES ASSUME GradingInv, [MarketNext]_marketVars, NEW i \in DOMAIN predictions,
                        predictions'[i].actual # predictions[i].actual
                 PROVE  /\ predictions[i].actual = 0 \/ predictions'[i].beside
                        /\ now - predictions[i].at >= Window
      OBVIOUS
    <2>1. PICK g \in Graders : /\ i \in grader[g].pending
                               /\ predictions'[i].beside = grader[g].beside
      BY PredictionsStay DEF GradingInv
    <2> QED
      BY <2>1 DEF GradingInv, PendingWaits
  <1> QED
    BY <1>1, <1>2, <1>3, PTL DEF MarketSpec, GradesStand

-----------------------------------------------------------------------------
(* Scorings open at once know it.  What one will write asks of a lane       *)
(* nothing it does not also predict, and predicts nothing three signals do  *)
(* not bear; and the lanes of one that is alone are as it has read them.    *)
ScorersKnown ==
    \A s, o \in Scorers :
        s # o /\ scorer[s] # ScorerIdle /\ scorer[o] # ScorerIdle => scorer[s].beside

ScoresHeld(r) ==
    \A l \in r.lanes :
        /\ l \notin r.predicted => r.new[l] = Waiting
        /\ r.new[l].action \in {"HOLD", "BOOK NOW"} =>
              l \in r.predicted /\ Backed(l, r.at, r.new[l].change)
        /\ ~r.beside => r.old[l] = advice[l]

ScoresAreHeld == \A s \in Scorers : scorer[s] # ScorerIdle => ScoresHeld(scorer[s])

AdviceInv == MarketTypes /\ ScorersKnown /\ ScoresAreHeld /\ AdviceBacked

(* no signal is forgotten; each step adds some or none *)
LEMMA SignalsOnlyGrow ==
  ASSUME MarketTypes, [MarketNext]_marketVars
  PROVE  signals \subseteq signals' /\ IsFiniteSet(signals')
  <1>1. IsFiniteSet(signals)
    BY DEF MarketTypes
  <1>2. CASE Weather \/ Fred \/ Fuel \/ PortVolume \/ Fmcsa
    <2>1. PICK type \in SignalTypes, direction \in Directions : \E bucket :
            /\ type = "PORT_VOLUME" => direction # "UP"
            /\ Report(type, direction, bucket)
      BY <1>2, SomeReport
    <2> QED
      BY <2>1, ReportedIsWeighable
  <1>3. CASE \E d \in Dats : DatCommits(d)
    BY <1>3, DatIsWeighable
  <1>4. CASE UNCHANGED signals
    BY <1>1, <1>4
  <1> QED
    BY <1>2, <1>3, <1>4 DEF MarketNext, marketVars, OperatorJoins,
       AddOperatorLane, Track, DatReads, DatFails, ScoreReads, ScoreCommits,
       ScoreFails, GradeReads, GradeCommits, GradeFails, HourPasses

(* so what has backed a score still does *)
LEMMA BackedStays ==
  ASSUME MarketTypes, [MarketNext]_marketVars, NEW l, NEW at, NEW change,
         Backed(l, at, change)
  PROVE  Backed(l, at, change)'
  <1> DEFINE P == Pointing(l, at, change)
             Q == {s \in signals' : /\ s.lane = l /\ s.at >= at - Window
                                    /\ Value(s.direction) * change > 0}
  <1>1. P \subseteq Q /\ Q \in SUBSET signals' /\ IsFiniteSet(signals')
    BY SignalsOnlyGrow DEF Pointing
  <1>2. IsFiniteSet(Q)
    BY <1>1, FS_Subset
  <1>3. /\ Cardinality(P) <= Cardinality(Q) /\ Cardinality(P) \in Nat
        /\ Cardinality(Q) \in Nat
    BY <1>1, <1>2, FS_Subset, FS_CardinalityType
  <1>4. Cardinality(P) >= 3
    BY DEF Backed
  <1>5. Cardinality(Q) >= 3
    BY <1>3, <1>4
  <1> QED
    BY <1>5 DEF Backed, Pointing

Advised(l) ==
    /\ advice[l].action \in {"HOLD", "BOOK NOW"} =>
        \E i \in DOMAIN predictions :
            /\ predictions[i].lane = l /\ predictions[i].action = advice[l].action
            /\ predictions[i].change = advice[l].change
            /\ Backed(l, predictions[i].at, predictions[i].change)
    /\ WeekShown(l) => advice[l].action \in {"HOLD", "WAITING"}

(* AdviceBacked, one lane at a time *)
LEMMA BackedIsAdvised == AdviceBacked <=> \A l \in Lanes \ torn : Advised(l)
  BY DEF AdviceBacked, Advised, Backed, Pointing

PredictionsOf(ps, l) == {i \in DOMAIN ps : ps[i].lane = l}

(* the newest prediction of a lane is the one its advice shows *)
LEMMA MaxShown ==
  ASSUME NEW ps \in Seq(Moves), NEW l, PredictionsOf(ps, l) # {}
  PROVE  /\ Max(PredictionsOf(ps, l)) \in DOMAIN ps
         /\ ps[Max(PredictionsOf(ps, l))].lane = l
         /\ \A i \in PredictionsOf(ps, l) : i <= Max(PredictionsOf(ps, l))
  <1>1. PICK n \in Nat : DOMAIN ps = 1..n
    OBVIOUS
  <1>2. PredictionsOf(ps, l) \in SUBSET (1..n)
    BY <1>1 DEF PredictionsOf
  <1>3. /\ Max(PredictionsOf(ps, l)) \in PredictionsOf(ps, l)
        /\ \A i \in PredictionsOf(ps, l) : i <= Max(PredictionsOf(ps, l))
    BY <1>2, NewestIs
  <1>4. PICK m : m = Max(PredictionsOf(ps, l))
    OBVIOUS
  <1>5. m \in DOMAIN ps /\ ps[m].lane = l
    BY <1>3, <1>4 DEF PredictionsOf
  <1> QED
    BY <1>3, <1>4, <1>5

(* advice that is not rewritten stays borne, while what is predicted of its *)
(* lane is what was                                                         *)
LEMMA AdviceStays ==
  ASSUME MarketTypes, [MarketNext]_marketVars, NEW l, Advised(l),
         advice'[l] = advice[l],
         \A i \in DOMAIN predictions :
            /\ i \in DOMAIN predictions'
            /\ predictions'[i].lane = predictions[i].lane
            /\ predictions'[i].action = predictions[i].action
            /\ predictions'[i].change = predictions[i].change
            /\ predictions'[i].at = predictions[i].at
            /\ predictions'[i].week = predictions[i].week,
         \A i \in DOMAIN predictions' \ DOMAIN predictions : predictions'[i].lane # l
  PROVE  Advised(l)'
  <1>1. ASSUME advice[l].action \in {"HOLD", "BOOK NOW"}
        PROVE  \E i \in DOMAIN predictions' :
                  /\ predictions'[i].lane = l /\ predictions'[i].action = advice[l].action
                  /\ predictions'[i].change = advice[l].change
                  /\ Backed(l, predictions[i].at, predictions[i].change)'
                  /\ i \in DOMAIN predictions
    <2>1. PICK i \in DOMAIN predictions :
            /\ predictions[i].lane = l /\ predictions[i].action = advice[l].action
            /\ predictions[i].change = advice[l].change
            /\ Backed(l, predictions[i].at, predictions[i].change)
      BY <1>1 DEF Advised
    <2>2. PICK at, change : at = predictions[i].at /\ change = predictions[i].change
      OBVIOUS
    <2>3. Backed(l, at, change)'
      BY <2>1, <2>2, BackedStays
    <2>4. predictions'[i].at = at /\ predictions'[i].change = change
      BY <2>2
    <2>5. Backed(l, predictions[i].at, predictions[i].change)'
      BY <2>3, <2>4 DEF Backed, Pointing
    <2> QED
      BY <2>1, <2>5
  <1>2. WeekShown(l)' => WeekShown(l)
    <2>1. PICK of : of = PredictionsOf(predictions, l)
      OBVIOUS
    <2>2. of = {i \in DOMAIN predictions' : predictions'[i].lane = l}
      BY <2>1 DEF PredictionsOf
    <2> SUFFICES ASSUME of # {}, predictions'[Max(of)].week
                 PROVE  predictions[Max(of)].week
      BY <2>1, <2>2 DEF WeekShown, PredictionsOf
    <2>3. predictions \in Seq(Moves)
      BY DEF MarketTypes
    <2>4. Max(of) \in DOMAIN predictions
      BY <2>1, <2>3, MaxShown
    <2> QED
      BY <2>4
  <1> QED
    BY <1>1, <1>2 DEF Advised

(* a scoring that was alone leaves backed advice on its lanes *)
LEMMA CommitAdvises ==
  ASSUME AdviceInv, NEW s \in Scorers, ScoreCommits(s),
         NEW l \in Lanes \ torn', [MarketNext]_marketVars
  PROVE  Advised(l)'
  <1>1. PICK it : it = scorer[s]
    OBVIOUS
  <1>2. MarketTypes /\ ScoringOpen(it) /\ it # ScorerIdle
    <2>1. MarketTypes /\ it.step = "scored"
      BY <1>1 DEF AdviceInv, ScoreCommits
    <2>2. ScoringOpen(it)
      BY <1>1, <2>1, PredictionsGrow
    <2> QED
      BY <2>1, <2>2 DEF ScorerIdle
  <1>3. /\ predictions \in Seq(Moves) /\ predictions' \in Seq(Moves)
        /\ \A i \in DOMAIN predictions :
               i \in DOMAIN predictions' /\ predictions'[i] = predictions[i]
        /\ \A i \in DOMAIN predictions' \ DOMAIN predictions :
               /\ \A j \in DOMAIN predictions : j < i
               /\ \E k \in it.predicted : predictions'[i] = Predicted(it, k)
        /\ \A k \in it.predicted : \E i \in DOMAIN predictions' \ DOMAIN predictions :
               predictions'[i] = Predicted(it, k)
    BY <1>1, <1>2, PredictionsGrow DEF MarketTypes
  <1>4. ScoresHeld(it)
    BY <1>1, <1>2 DEF AdviceInv, ScoresAreHeld
  <1>5. /\ \A k \in Lanes \ it.lanes : advice'[k] = advice[k]
        /\ \A k \in it.lanes : it.old[k] = advice[k] => advice'[k] = it.new[k]
        /\ torn' = IF it.beside THEN torn \cup it.lanes ELSE torn \ it.lanes
    BY <1>1, <1>2, CommitWrites
  <1>6. \A k \in it.predicted : k \in it.lanes /\ Predicted(it, k).lane = k
    BY <1>2, PredictionIsAMove DEF ScoringOpen
  <1>7. CASE l \notin it.lanes
    <2>1. l \notin torn /\ advice'[l] = advice[l]
      BY <1>5, <1>7
    <2>2. Advised(l)
      BY <2>1, BackedIsAdvised DEF AdviceInv
    <2>3. \A i \in DOMAIN predictions' \ DOMAIN predictions : predictions'[i].lane # l
      BY <1>3, <1>6, <1>7
    <2> QED
      BY <1>2, <1>3, <2>1, <2>2, <2>3, AdviceStays
  <1>8. CASE l \in it.lanes
    <2>1. ~it.beside /\ advice'[l] = it.new[l]
      BY <1>4, <1>5, <1>8 DEF ScoresHeld
    <2>2. CASE l \notin it.predicted
      <3>1. advice'[l].action = "WAITING"
        BY <1>4, <1>8, <2>1, <2>2 DEF ScoresHeld, Waiting, Unscored
      <3> QED
        BY <3>1 DEF Advised
    <2>3. CASE l \in it.predicted
      <3>1. PICK i \in DOMAIN predictions' \ DOMAIN predictions :
               predictions'[i] = Predicted(it, l)
        BY <1>3, <2>3
      <3>2. ASSUME it.new[l].action \in {"HOLD", "BOOK NOW"}
            PROVE  /\ predictions'[i].lane = l /\ predictions'[i].action = it.new[l].action
                   /\ predictions'[i].change = it.new[l].change
                   /\ Backed(l, predictions[i].at, predictions[i].change)'
        <4>1. /\ Predicted(it, l).at = it.at /\ Predicted(it, l).change = it.new[l].change
              /\ Predicted(it, l).lane = l
              /\ Predicted(it, l).action = it.new[l].action
          BY <1>2, <2>3, PredictionIsAMove
        <4>2. PICK at, change : at = it.at /\ change = it.new[l].change
          OBVIOUS
        <4>3. Backed(l, at, change)
          BY <1>4, <1>8, <3>2, <4>2 DEF ScoresHeld
        <4>4. Backed(l, at, change)'
          BY <1>2, <4>3, BackedStays
        <4>5. predictions'[i].at = at /\ predictions'[i].change = change
          BY <3>1, <4>1, <4>2
        <4> QED
          BY <3>1, <4>1, <4>4, <4>5 DEF Backed, Pointing
      <3>3. ASSUME WeekShown(l)' PROVE it.new[l].action = "HOLD"
        <4>0. PICK ps \in Seq(Moves) : ps = predictions'
          BY <1>3
        <4>1. PICK of : of = PredictionsOf(ps, l)
          OBVIOUS
        <4>2. PICK m : m = Max(of)
          OBVIOUS
        <4>3. of # {} /\ predictions'[m].week
          BY <3>3, <4>0, <4>1, <4>2 DEF WeekShown, PredictionsOf
        <4>4. m \in DOMAIN predictions' /\ predictions'[m].lane = l
              /\ \A j \in of : j <= m
          <5>1. /\ Max(of) \in DOMAIN ps /\ ps[Max(of)].lane = l
                /\ \A j \in of : j <= Max(of)
            BY <4>1, <4>3, MaxShown
          <5>2. m \in DOMAIN ps /\ ps[m].lane = l /\ \A j \in of : j <= m
            BY <4>2, <5>1
          <5> QED
            BY <4>0, <5>2
        <4>5. i \in of
          BY <1>6, <2>3, <3>1, <4>0, <4>1 DEF PredictionsOf
        <4>6. PICK n \in Nat, k \in Nat : /\ DOMAIN predictions' = 1..n
                                          /\ DOMAIN predictions = 1..k
          <5>1. \E n \in Nat : DOMAIN ps = 1..n
            OBVIOUS
          <5>2. \E k \in Nat : DOMAIN predictions = 1..k
            BY <1>3
          <5> QED
            BY <4>0, <5>1, <5>2
        <4>7. m \notin DOMAIN predictions
          BY <1>3, <4>4, <4>5, <4>6
        <4>8. PICK k2 \in it.predicted : predictions'[m] = Predicted(it, k2)
          BY <1>3, <4>4, <4>7
        <4>9. k2 = l
          BY <1>6, <4>4, <4>8
        <4> QED
          BY <1>2, <4>3, <4>8, <4>9, PredictionIsAMove
      <3> QED
        BY <2>1, <3>2, <3>3 DEF Advised
    <2> QED
      BY <2>2, <2>3
  <1> QED
    BY <1>7, <1>8

(* what a scoring holds stays good, or it is beside another *)
LEMMA HeldStays ==
  ASSUME MarketTypes, [MarketNext]_marketVars, NEW r, NEW q, ScoresHeld(r),
         q.lanes = r.lanes, q.predicted = r.predicted, q.new = r.new, q.at = r.at,
         q.beside \/ (q.beside = r.beside /\ q.old = r.old /\ UNCHANGED advice)
  PROVE  ScoresHeld(q)'
  <1> SUFFICES ASSUME NEW l \in q.lanes
               PROVE  /\ l \notin q.predicted => q.new[l] = Waiting
                      /\ q.new[l].action \in {"HOLD", "BOOK NOW"} =>
                            l \in q.predicted /\ Backed(l, q.at, q.new[l].change)'
                      /\ ~q.beside => q.old[l] = advice'[l]
    BY DEF ScoresHeld, Backed, Pointing
  <1>1. ASSUME q.new[l].action \in {"HOLD", "BOOK NOW"}
        PROVE  l \in q.predicted /\ Backed(l, q.at, q.new[l].change)'
    <2>1. l \in q.predicted /\ Backed(l, q.at, q.new[l].change)
      BY <1>1 DEF ScoresHeld
    <2> QED
      BY <2>1, BackedStays
  <1> QED
    BY <1>1 DEF ScoresHeld

(* every step keeps what scorings hold *)
LEMMA ScorersStep ==
  ASSUME AdviceInv, [MarketNext]_marketVars
  PROVE  ScorersKnown' /\ ScoresAreHeld'
  <1>1. MarketTypes /\ DOMAIN scorer = Scorers
        /\ \A s \in Scorers : scorer[s] = ScorerIdle \/ ScoringOpen(scorer[s])
    BY DEF AdviceInv, MarketTypes
  <1>2. ASSUME NEW s \in Scorers, ScoreReads(s) PROVE ScorersKnown' /\ ScoresAreHeld'
    <2>1. PICK it :
           /\ ScoringOpen(it) /\ scorer'[s] = it /\ scorer[s] = ScorerIdle
           /\ it.beside = (Busy(Scorers, scorer) # {})
           /\ it.old = [l \in it.lanes |-> advice[l]]
           /\ \A o \in Scorers \ {s} :
                scorer'[o] = IF o \in Busy(Scorers, scorer)
                             THEN [scorer[o] EXCEPT !.beside = TRUE] ELSE scorer[o]
           /\ \A l \in it.lanes :
               /\ l \notin it.predicted => it.new[l] = Waiting
               /\ it.new[l].action \in {"HOLD", "BOOK NOW"} =>
                     l \in it.predicted /\ Backed(l, it.at, it.new[l].change)
      BY <1>1, <1>2, OpenedBeside
    <2>2. UNCHANGED <<advice, signals>>
      BY <1>2 DEF ScoreReads
    <2>3. \A o \in Scorers : (o \in Busy(Scorers, scorer)) <=> (scorer[o] # ScorerIdle)
      <3>1. ScorerIdle.step = "idle"
        BY DEF ScorerIdle
      <3>2. \A o \in Scorers : scorer[o] # ScorerIdle => scorer[o].step = "scored"
        BY <1>1, BesideKeepsOpen
      <3> QED
        BY <3>1, <3>2 DEF Busy
    <2>4. ASSUME NEW o \in Scorers \ {s}, scorer'[o] # ScorerIdle
          PROVE  /\ scorer[o] # ScorerIdle /\ ScoringOpen(scorer[o])
                 /\ scorer'[o] = [scorer[o] EXCEPT !.beside = TRUE]
                 /\ scorer'[o].beside
      <3>1. CASE scorer[o] = ScorerIdle
        BY <2>1, <2>3, <2>4, <3>1
      <3>2. CASE scorer[o] # ScorerIdle
        <4>1. PICK r, q : r = scorer[o] /\ q = [r EXCEPT !.beside = TRUE]
          OBVIOUS
        <4>2. scorer'[o] = q /\ ScoringOpen(r)
          BY <1>1, <2>1, <2>3, <3>2, <4>1
        <4>3. q.beside
          BY <4>1, <4>2, BesideKeepsOpen
        <4> QED
          BY <3>2, <4>1, <4>2, <4>3
      <3> QED
        BY <3>1, <3>2
    <2>5. ScorersKnown'
      BY <2>1, <2>3, <2>4 DEF ScorersKnown
    <2>6. ScoresHeld(it)'
      BY <2>1, <2>2 DEF ScoresHeld, Backed, Pointing
    <2>7. ASSUME NEW o \in Scorers \ {s}, scorer'[o] # ScorerIdle
          PROVE  ScoresHeld(scorer[o])'
      <3>1. PICK r, q : r = scorer[o] /\ q = [r EXCEPT !.beside = TRUE]
        OBVIOUS
      <3>2. ScoringOpen(r) /\ ScoresHeld(r) /\ scorer'[o] = q
        BY <2>4, <2>7, <3>1 DEF AdviceInv, ScoresAreHeld
      <3>3. /\ q.lanes = r.lanes /\ q.predicted = r.predicted /\ q.new = r.new
            /\ q.at = r.at /\ q.beside
        BY <3>1, <3>2, BesideKeepsOpen
      <3>4. ScoresHeld(q)'
        BY <1>1, <3>2, <3>3, HeldStays
      <3> QED
        BY <3>2, <3>4 DEF ScoresHeld, Backed, Pointing
    <2>8. ScoresAreHeld'
      BY <2>1, <2>6, <2>7 DEF ScoresAreHeld, ScoresHeld, Backed, Pointing
    <2> QED
      BY <2>5, <2>8
  <1>3. ASSUME NEW s \in Scorers, ScoreCommits(s) PROVE ScorersKnown' /\ ScoresAreHeld'
    <2>1. scorer' = [scorer EXCEPT ![s] = ScorerIdle] /\ scorer[s] # ScorerIdle
      BY <1>3 DEF ScoreCommits, ScorerIdle
    <2>2. ScorersKnown'
      BY <1>1, <2>1 DEF AdviceInv, ScorersKnown
    <2>3. ASSUME NEW o \in Scorers, scorer'[o] # ScorerIdle PROVE ScoresHeld(scorer[o])'
      <3>1. o # s /\ scorer'[o] = scorer[o] /\ scorer[o].beside
        BY <1>1, <2>1, <2>3 DEF AdviceInv, ScorersKnown
      <3>2. PICK r : r = scorer[o] /\ ScoresHeld(r) /\ r.beside
        BY <2>3, <3>1 DEF AdviceInv, ScoresAreHeld
      <3>3. ScoresHeld(r)'
        BY <1>1, <3>2, HeldStays
      <3> QED
        BY <3>1, <3>2, <3>3 DEF ScoresHeld, Backed, Pointing
    <2> QED
      BY <2>2, <2>3 DEF ScoresAreHeld, ScoresHeld, Backed, Pointing
  <1>4. CASE UNCHANGED advice /\ \/ UNCHANGED scorer
                                 \/ \E s \in Scorers : scorer' = [scorer EXCEPT ![s] = ScorerIdle]
    <2>1. \A o \in Scorers : scorer'[o] = scorer[o] \/ scorer'[o] = ScorerIdle
      BY <1>1, <1>4
    <2>2. ScorersKnown'
      BY <2>1 DEF AdviceInv, ScorersKnown
    <2>3. ASSUME NEW o \in Scorers, scorer'[o] # ScorerIdle PROVE ScoresHeld(scorer[o])'
      <3>1. PICK r : r = scorer[o] /\ r = scorer'[o] /\ ScoresHeld(r)
        BY <2>1, <2>3 DEF AdviceInv, ScoresAreHeld
      <3>3. ScoresHeld(r)'
        BY <1>1, <1>4, <3>1, HeldStays
      <3> QED
        BY <3>1, <3>3 DEF ScoresHeld, Backed, Pointing
    <2> QED
      BY <2>2, <2>3 DEF ScoresAreHeld, ScoresHeld, Backed, Pointing
  <1> QED
    BY <1>2, <1>3, <1>4 DEF MarketNext, marketVars, OperatorJoins,
       AddOperatorLane, Track, Weather, Fred, Fuel, PortVolume, Fmcsa, Report,
       DatReads, DatCommits, DatFails, ScoreFails, GradeReads, GradeCommits,
       GradeFails, HourPasses

(* every step keeps AdviceInv *)
LEMMA AdviceStep ==
  ASSUME AdviceInv, [MarketNext]_marketVars
  PROVE  AdviceInv'
  <1>1. MarketTypes' /\ ScorersKnown' /\ ScoresAreHeld' /\ MarketTypes
    BY MarketTypesStep, ScorersStep DEF AdviceInv
  <1>2. \A l \in Lanes \ torn : Advised(l)
    BY BackedIsAdvised DEF AdviceInv
  <1>3. \A l \in Lanes \ torn' : Advised(l)'
    <2>1. CASE \E s \in Scorers : ScoreCommits(s)
      BY <2>1, CommitAdvises
    <2>2. ASSUME NEW g \in Graders, GradeCommits(g), NEW l \in Lanes \ torn'
          PROVE  Advised(l)'
      <3>1. torn' = torn /\ advice' = advice
        BY <2>2 DEF GradeCommits
      <3>2. DOMAIN predictions' = DOMAIN predictions
        BY <1>1, <2>2, GradesKeepMoves
      <3>3. ASSUME NEW i \in DOMAIN predictions
            PROVE  /\ predictions'[i].lane = predictions[i].lane
                   /\ predictions'[i].action = predictions[i].action
                   /\ predictions'[i].change = predictions[i].change
                   /\ predictions'[i].at = predictions[i].at
                   /\ predictions'[i].week = predictions[i].week
        <4>1. PICK r \in Nat, b \in BOOLEAN :
                 predictions'[i] = [predictions[i] EXCEPT !.actual = r, !.beside = b]
          BY <1>1, <2>2, GradesKeepMoves
        <4>2. predictions \in Seq(Moves)
          BY <1>1 DEF MarketTypes
        <4>3. PICK p \in Moves : p = predictions[i]
          BY <4>2
        <4>4. PICK q : q = [p EXCEPT !.actual = r, !.beside = b]
          OBVIOUS
        <4>5. /\ q.lane = p.lane /\ q.action = p.action /\ q.change = p.change
              /\ q.at = p.at /\ q.week = p.week
          BY <4>4 DEF Moves
        <4> QED
          BY <4>1, <4>3, <4>4, <4>5
      <3>4. Advised(l)
        BY <1>2, <2>2, <3>1
      <3> QED
        BY <1>1, <3>1, <3>2, <3>3, <3>4, AdviceStays
    <2>3. CASE UNCHANGED <<advice, torn, predictions>>
      BY <1>1, <1>2, <2>3, AdviceStays
    <2> QED
      BY <2>1, <2>2, <2>3 DEF MarketNext, marketVars, OperatorJoins,
       AddOperatorLane, Track, Weather, Fred, Fuel, PortVolume, Fmcsa, Report,
       DatReads, DatCommits, DatFails, ScoreReads, ScoreFails, GradeReads,
       GradeFails, HourPasses
  <1>4. AdviceBacked'
    BY <1>3 DEF AdviceBacked, Advised, Backed, Pointing
  <1> QED
    BY <1>1, <1>4 DEF AdviceInv

(* Advice to wait or to book is borne, at its prediction, by three signals  *)
(* of its direction not older than the window, and an optimized week is     *)
(* shown with advice to hold or when the signals have run out, on each lane *)
(* last written by a scoring that was open alone.                           *)
THEOREM AdviceIsBacked == MarketSpec => []AdviceBacked
  <1>1. MarketInit => AdviceInv
    <2> SUFFICES ASSUME MarketInit PROVE AdviceInv
      OBVIOUS
    <2>1. MarketTypes
      BY MarketTypesInit
    <2>2. ScorersKnown /\ ScoresAreHeld
      BY DEF MarketInit, ScorersKnown, ScoresAreHeld
    <2>3. DOMAIN predictions = {} /\ \A l \in Lanes : advice[l].action = "none"
      BY DEF MarketInit, Unscored
    <2>4. AdviceBacked
      BY <2>3 DEF AdviceBacked, WeekShown
    <2> QED
      BY <2>1, <2>2, <2>4 DEF AdviceInv
  <1>2. AdviceInv /\ [MarketNext]_marketVars => AdviceInv'
    BY AdviceStep
  <1>3. AdviceInv => AdviceBacked
    BY DEF AdviceInv
  <1> QED
    BY <1>1, <1>2, <1>3, PTL DEF MarketSpec

-----------------------------------------------------------------------------
(* WeeklyChains *)

(* f is what the steps of g make of b *)
Repeats(f, n, S, b, g) ==
    /\ f \in [0..n -> S] /\ f[0] = b
    /\ \A i \in 1..n : f[i] = g[i][f[i - 1]]

(* there is one for any number of steps *)
LEMMA Repeated ==
  ASSUME NEW n \in Nat, NEW S, NEW b \in S, NEW g,
         \A i \in 1..n, s \in S : g[i][s] \in S
  PROVE  \E f : Repeats(f, n, S, b, g)
  <1> DEFINE Upto(k, f) == /\ f \in [0..k -> S] /\ f[0] = b
                           /\ \A i \in 1..k : f[i] = g[i][f[i - 1]]
             P == {k \in Nat : k <= n => \E f : Upto(k, f)}
  <1>1. 0 \in P
    <2>1. Upto(0, [i \in 0..0 |-> b])
      OBVIOUS
    <2> QED
      BY <2>1
  <1>2. ASSUME NEW k \in Nat, k \in P PROVE k + 1 \in P
    <2> SUFFICES ASSUME k + 1 <= n PROVE \E f : Upto(k + 1, f)
      OBVIOUS
    <2>1. PICK f : Upto(k, f)
      BY <1>2
    <2>2. PICK x \in S : x = g[k + 1][f[k]]
      <3>1. f[k] \in S /\ k + 1 \in 1..n
        BY <2>1
      <3> QED
        BY <3>1
    <2> DEFINE h == [i \in 0..(k + 1) |-> IF i = k + 1 THEN x ELSE f[i]]
    <2>3. h \in [0..(k + 1) -> S] /\ h[0] = b
      BY <2>1
    <2>4. ASSUME NEW i \in 1..(k + 1) PROVE h[i] = g[i][h[i - 1]]
      <3>1. CASE i = k + 1
        <4>1. h[i - 1] = f[k] /\ h[i] = x
          BY <3>1
        <4> QED
          BY <2>2, <3>1, <4>1
      <3>2. CASE i # k + 1
        <4>1. h[i - 1] = f[i - 1] /\ h[i] = f[i] /\ i \in 1..k
          BY <3>2
        <4> QED
          BY <2>1, <4>1
      <3> QED
        BY <3>1, <3>2
    <2>5. Upto(k + 1, h)
      BY <2>3, <2>4
    <2> HIDE DEF h
    <2> QED
      BY <2>5
  <1>3. n \in P
    <2> HIDE DEF P
    <2> QED
      BY <1>1, <1>2, Upward
  <1>4. \E f : Upto(n, f)
    BY <1>3
  <1> QED
    BY <1>4 DEF Repeats

(* dict.fromkeys adds no ZIP of its own *)
LEMMA OnceKeepsZips ==
  ASSUME NEW list \in Seq(Zips)
  PROVE  Once(list) \in Seq(Zips)
  <1> DEFINE n == Len(list)
             More(i, s) == IF list[i] \in Range(s) THEN s ELSE Append(s, list[i])
             Is(f) == f = [i \in 0..n |-> IF i = 0 THEN <<>>
                                           ELSE More(i, f[i - 1])]
             h == CHOOSE f : Is(f)
  <1>1. n \in Nat /\ \A i \in 1..n : list[i] \in Zips
    OBVIOUS
  <1>2. \A i \in 1..n, s \in Seq(Zips) : More(i, s) \in Seq(Zips)
    BY <1>1
  <1>3. Once(list) = h[n]
    BY DEF Once
  <1> HIDE DEF n, More
  <1>4. PICK S : S = Seq(Zips)
    OBVIOUS
  <1>5. PICK b \in S : b = <<>>
    <2>1. <<>> \in Seq(Zips)
      OBVIOUS
    <2> QED
      BY <1>4, <2>1
  <1>6. PICK g : \A i \in 1..n, s \in S : g[i][s] = More(i, s) /\ g[i][s] \in S
    <2> DEFINE g == [i \in 1..n |-> [s \in S |-> More(i, s)]]
    <2>1. \A i \in 1..n, s \in S : More(i, s) \in S
      BY <1>2, <1>4
    <2>2. \A i \in 1..n, s \in S : g[i][s] = More(i, s)
      OBVIOUS
    <2> HIDE DEF g
    <2> QED
      BY <2>1, <2>2
  <1>14. PICK f : Repeats(f, n, S, b, g)
    BY <1>1, <1>6, Repeated
  <1>7. ASSUME NEW i \in 1..n PROVE i - 1 \in 0..n /\ f[i] = More(i, f[i - 1])
    <2>1. i - 1 \in 0..n
      BY <1>1
    <2>2. f[i - 1] \in S
      BY <1>14, <2>1 DEF Repeats
    <2> QED
      BY <1>6, <1>14, <2>1, <2>2 DEF Repeats
  <1>8. Is(f)
    <2>1. \A i \in 0..n : f[i] = IF i = 0 THEN <<>> ELSE More(i, f[i - 1])
      BY <1>1, <1>5, <1>7, <1>14 DEF Repeats
    <2>2. f = [i \in 0..n |-> f[i]]
      BY <1>14 DEF Repeats
    <2> QED
      BY <2>1, <2>2
  <1>9. Is(h)
    <2> HIDE DEF Is
    <2> QED
      BY <1>8
  <1> HIDE DEF h
  <1>10. h[0] = <<>> /\ \A i \in 1..n : h[i] = More(i, h[i - 1])
    BY <1>1, <1>9
  <1> DEFINE P == {k \in Nat : k <= n => h[k] \in Seq(Zips)}
  <1>11. 0 \in P
    <2>1. h[0] \in Seq(Zips)
      BY <1>10
    <2> QED
      BY <2>1
  <1>12. ASSUME NEW k \in Nat, k \in P PROVE k + 1 \in P
    <2> SUFFICES ASSUME k + 1 <= n PROVE h[k + 1] \in Seq(Zips)
      OBVIOUS
    <2>1. k + 1 \in 1..n /\ (k + 1) - 1 = k /\ h[k] \in Seq(Zips)
      BY <1>1, <1>12
    <2>2. h[k + 1] = More(k + 1, h[k])
      BY <1>10, <2>1
    <2> QED
      BY <1>2, <2>1, <2>2
  <1>13. n \in P
    <2> HIDE DEF P
    <2> QED
      BY <1>1, <1>11, <1>12, Upward
  <1> QED
    BY <1>1, <1>3, <1>13

-----------------------------------------------------------------------------
LoadsOfAny == [to : Zips, rate : Int, mc : Brokers \cup {NoBroker}]

AnyLegs == [from : Zips, to : Zips, rate : Int, broker : Int,
            severe : BOOLEAN, chosen : BOOLEAN, other : Readings]

(* a leg records a broker below 70, or was chosen and records severe        *)
(* weather, only if that was read otherwise the second time; one that was   *)
(* chosen met no zone that was CRITICAL then                                *)
GoodLegs(critical) ==
    {leg \in AnyLegs : /\ leg.broker >= 70 \/ "broker" \in leg.other
                       /\ leg.chosen => /\ leg.to \notin critical
                                        /\ leg.severe => "weather" \in leg.other}

WorldTypes ==
    /\ zone \in [Zips -> Severities]
    /\ score \in [Brokers -> {60, 82}]
    /\ clock \in Nat

CriticalNow == {z \in Zips : zone[z] = "CRITICAL"}

(* two sequences of S in a row are one of S *)
LEMMA JoinedSequences ==
  ASSUME NEW S, NEW p \in Seq(S), NEW q \in Seq(S)
  PROVE  p \o q \in Seq(S)
  OBVIOUS

(* a sequence of S is one of every T around S *)
LEMMA SequencesWithin ==
  ASSUME NEW S, NEW T, S \subseteq T, NEW p \in Seq(S)
  PROVE  p \in Seq(T)
  <1>1. PICK n \in Nat : p \in [1..n -> S]
    OBVIOUS
  <1>2. p \in [1..n -> T]
    BY <1>1
  <1> QED
    BY <1>2

(* the candidates are loads of known brokers to known ZIPs *)
LEMMA CandidatesAreLoads ==
  ASSUME NEW from \in Zips, NEW list \in Seq(Zips)
  PROVE  Candidates(from, list) \in Seq(LoadsOfAny)
  <1>1. Board[from] \in Seq(LoadsOfAny)
    <2>1. Board[from] \in Seq([to : Zips, rate : Nat, mc : Brokers \cup {NoBroker}])
      BY WeeklyChainsAssumption
    <2>2. [to : Zips, rate : Nat, mc : Brokers \cup {NoBroker}] \subseteq LoadsOfAny
      BY DEF LoadsOfAny
    <2> QED
      BY <2>1, <2>2, SequencesWithin
  <1>2. Preferred(list) \in Seq(LoadsOfAny)
    <2>1. list \o Hubs \in Seq(Zips)
      BY WeeklyChainsAssumption, JoinedSequences
    <2>2. PICK to \in Seq(Zips) : to = Once(list \o Hubs)
      BY <2>1, OnceKeepsZips
    <2>3. PICK n \in Nat : n = Len(to) /\ \A i \in 1..n : to[i] \in Zips
      OBVIOUS
    <2>4. Preferred(list) = [i \in 1..n |-> [to |-> to[i], rate |-> 235 - 3 * (i - 1),
                                             mc |-> NoBroker]]
      BY <2>2, <2>3 DEF Preferred
    <2>5. \A i \in 1..n : [to |-> to[i], rate |-> 235 - 3 * (i - 1), mc |-> NoBroker]
                             \in LoadsOfAny
      BY <2>3 DEF LoadsOfAny
    <2>6. Preferred(list) \in [1..n -> LoadsOfAny]
      BY <2>4, <2>5
    <2> QED
      BY <2>6
  <1>3. Board[from] \o Preferred(list) \in Seq(LoadsOfAny)
    BY <1>1, <1>2, JoinedSequences
  <1> QED
    BY <1>1, <1>3 DEF Candidates

(* the best load is acceptable *)
LEMMA BestIsAcceptable ==
  ASSUME NEW from, NEW loads \in Seq(LoadsOfAny), NEW at \in SUBSET (DOMAIN loads),
         NEW load \in Best(from, loads, at)
  PROVE  load \in LoadsOfAny /\ Acceptable(from, load)
  BY DEF Best

(* a broker scores 60 or 82, and one that nobody knows 82 *)
LEMMA BrokerScores ==
  ASSUME WorldTypes, NEW mc \in Brokers \cup {NoBroker}
  PROVE  BrokerScore(mc) \in {60, 82}
  BY DEF WorldTypes, BrokerScore

(* a leg of an acceptable load is good *)
LEMMA ChosenLegIsGood ==
  ASSUME WorldTypes, NEW from \in Zips, NEW load \in LoadsOfAny, Acceptable(from, load),
         NEW other \in Readings
  PROVE  Leg(from, load, TRUE, other) \in GoodLegs(CriticalNow)
  <1>1. BrokerScore(load.mc) \in {60, 82} /\ load.to \in Zips /\ load.rate \in Int
    BY BrokerScores DEF LoadsOfAny
  <1>2. PICK severe \in BOOLEAN : severe = Severe(from, load.to)
    BY DEF Severe
  <1>5. PICK differs \in Readings :
           differs = IF load.mc = NoBroker THEN other \ {"broker"} ELSE other
    BY DEF Readings
  <1>6. PICK differ \in BOOLEAN : differ <=> "weather" \in differs
    OBVIOUS
  <1>7. PICK broker \in {60, 82} : broker = IF "broker" \in differs
                                            THEN OtherScore(BrokerScore(load.mc))
                                            ELSE BrokerScore(load.mc)
    BY <1>1 DEF OtherScore
  <1>3. Leg(from, load, TRUE, other)
          = [from |-> from, to |-> load.to, rate |-> load.rate, broker |-> broker,
             severe |-> severe # differ, chosen |-> TRUE, other |-> differs]
    BY <1>2, <1>5, <1>6, <1>7 DEF Leg
  <1>4. BrokerScore(load.mc) >= 72 /\ ~severe /\ zone[load.to] # "CRITICAL"
    BY <1>2 DEF Acceptable
  <1> QED
    <2>1. PICK met \in BOOLEAN : met = (severe # differ)
      OBVIOUS
    <2>2. PICK leg : leg = [from |-> from, to |-> load.to, rate |-> load.rate,
                            broker |-> broker, severe |-> met, chosen |-> TRUE,
                            other |-> differs]
      OBVIOUS
    <2>3. leg \in AnyLegs
      BY <1>1, <1>5, <1>7, <2>1, <2>2 DEF AnyLegs
    <2>4. leg.broker >= 70 \/ "broker" \in leg.other
      BY <1>1, <1>4, <1>7, <2>2
    <2>5. leg.severe => "weather" \in leg.other
      BY <1>4, <1>6, <2>1, <2>2
    <2>6. leg.to \notin CriticalNow
      BY <1>1, <1>4, <2>2 DEF CriticalNow
    <2>7. Leg(from, load, TRUE, other) = leg
      BY <1>3, <2>1, <2>2
    <2> QED
      BY <2>3, <2>4, <2>5, <2>6, <2>7 DEF GoodLegs

(* so is the leg of a day, whichever load it takes *)
LEMMA DayLegIsGood ==
  ASSUME WorldTypes, NEW day \in 1..Days, NEW from \in Zips, NEW list \in Seq(Zips),
         NEW other \in Readings
  PROVE  DayLeg(day, from, list, other) \in GoodLegs(CriticalNow)
  <1>1. PICK loads \in Seq(LoadsOfAny) : loads = Candidates(from, list)
    BY CandidatesAreLoads
  <1>2. PICK best : best = Best(from, loads, DOMAIN loads)
    OBVIOUS
  <1>3. CASE best # {}
    <2>1. PICK load \in best : load = CHOOSE l \in best : TRUE
      BY <1>3
    <2>2. load \in LoadsOfAny /\ Acceptable(from, load)
      BY <1>2, <2>1, BestIsAcceptable
    <2>3. DayLeg(day, from, list, other) = Leg(from, load, TRUE, other)
      BY <1>1, <1>2, <1>3, <2>1 DEF DayLeg
    <2> QED
      BY <2>2, <2>3, ChosenLegIsGood
  <1>4. CASE best = {}
    <2>1. PICK to \in Zips : to = SyntheticTo[day]
      BY WeeklyChainsAssumption
    <2>2. PICK load : load = [to |-> to, rate |-> 215, mc |-> NoBroker]
      OBVIOUS
    <2>3. DayLeg(day, from, list, other) = Leg(from, load, FALSE, other)
      BY <1>1, <1>2, <1>4, <2>1, <2>2 DEF DayLeg
    <2>11. PICK differs \in Readings : differs = other \ {"broker"}
      BY DEF Readings
    <2>4. PICK severe \in BOOLEAN : severe = (Severe(from, to) # ("weather" \in differs))
      BY DEF Severe
    <2>5. BrokerScore(NoBroker) = 82
      BY DEF BrokerScore
    <2>6. Leg(from, load, FALSE, other)
            = [from |-> from, to |-> to, rate |-> 215, broker |-> 82,
               severe |-> severe, chosen |-> FALSE, other |-> differs]
      BY <2>2, <2>4, <2>5, <2>11 DEF Leg
    <2>7. PICK leg : leg = [from |-> from, to |-> to, rate |-> 215, broker |-> 82,
                            severe |-> severe, chosen |-> FALSE, other |-> differs]
      OBVIOUS
    <2>8. leg \in AnyLegs
      BY <2>7 DEF AnyLegs
    <2>9. leg.broker >= 70 /\ ~leg.chosen
      BY <2>7
    <2>10. DayLeg(day, from, list, other) = leg
      BY <2>3, <2>6, <2>7
    <2> QED
      BY <2>8, <2>9, <2>10 DEF GoodLegs
  <1> QED
    BY <1>3, <1>4

(* and so are those of all the days *)
LEMMA DayLegsAreGood ==
  ASSUME WorldTypes, NEW lists \in [1..Days -> LaneLists],
         NEW others \in [0..Days -> Readings]
  PROVE  /\ DayLegs(lists, others) \in Seq(GoodLegs(CriticalNow))
         /\ DayLegs(lists, others) # <<>>
  <1> DEFINE n == Days
             From(s) == IF s = <<>> THEN Home ELSE Last(s).to
             More(d, s) == Append(s, DayLeg(d, From(s), lists[d], others[d]))
             Is(f) == f = [d \in 0..n |-> IF d = 0 THEN <<>>
                                           ELSE More(d, f[d - 1])]
             h == CHOOSE f : Is(f)
  <1>1. n \in Nat /\ n > 0 
        /\ \A d \in 1..n : lists[d] \in Seq(Zips) /\ others[d] \in Readings
    BY WeeklyChainsAssumption
  <1>4. PICK S, G : S = Seq(G) /\ G = GoodLegs(CriticalNow)
    OBVIOUS
  <1>2. ASSUME NEW d \in 1..n, NEW s \in S PROVE More(d, s) \in S /\ More(d, s) # <<>>
    <2>1. From(s) \in Zips
      <3>1. CASE s = <<>>
        BY <3>1, WeeklyChainsAssumption
      <3>2. CASE s # <<>>
        <4>1. PICK leg \in G : leg = Last(s)
          BY <1>4, <3>2 DEF Last
        <4>2. leg.to \in Zips
          BY <1>4 DEF GoodLegs, AnyLegs
        <4> QED
          BY <3>2, <4>1, <4>2
      <3> QED
        BY <3>1, <3>2
    <2>2. PICK leg \in G : leg = DayLeg(d, From(s), lists[d], others[d])
      <3> HIDE DEF From
      <3> QED
        BY <1>1, <1>4, <2>1, DayLegIsGood
    <2>3. Append(s, leg) \in Seq(G) /\ Append(s, leg) # <<>>
      BY <1>4
    <2> QED
      BY <1>4, <2>2, <2>3
  <1>3. DayLegs(lists, others) = h[n]
    BY DEF DayLegs
  <1> HIDE DEF n, More
  <1>5. PICK b \in S : b = <<>>
    <2>1. <<>> \in Seq(G)
      OBVIOUS
    <2> QED
      BY <1>4, <2>1
  <1>6. PICK g : \A d \in 1..n, s \in S : g[d][s] = More(d, s) /\ g[d][s] \in S
    <2> DEFINE g == [d \in 1..n |-> [s \in S |-> More(d, s)]]
    <2>1. \A d \in 1..n, s \in S : More(d, s) \in S
      BY <1>2
    <2>2. \A d \in 1..n, s \in S : g[d][s] = More(d, s)
      OBVIOUS
    <2> HIDE DEF g
    <2> QED
      BY <2>1, <2>2
  <1>7. PICK f : Repeats(f, n, S, b, g)
    BY <1>1, <1>6, Repeated
  <1>8. ASSUME NEW d \in 1..n PROVE d - 1 \in 0..n /\ f[d] = More(d, f[d - 1])
    <2>1. d - 1 \in 0..n
      BY <1>1
    <2>2. f[d - 1] \in S
      BY <1>7, <2>1 DEF Repeats
    <2> QED
      BY <1>6, <1>7, <2>1, <2>2 DEF Repeats
  <1>9. Is(f)
    <2>1. \A d \in 0..n : f[d] = IF d = 0 THEN <<>> ELSE More(d, f[d - 1])
      BY <1>1, <1>5, <1>7, <1>8 DEF Repeats
    <2>2. f = [d \in 0..n |-> f[d]]
      BY <1>7 DEF Repeats
    <2> QED
      BY <2>1, <2>2
  <1>10. Is(h)
    <2> HIDE DEF Is
    <2> QED
      BY <1>9
  <1> HIDE DEF h
  <1>11. h[0] = <<>> /\ \A d \in 1..n : h[d] = More(d, h[d - 1])
    BY <1>1, <1>10
  <1> DEFINE P == {k \in Nat : k <= n => h[k] \in S}
  <1>12. 0 \in P
    <2>1. h[0] \in S
      BY <1>5, <1>11
    <2> QED
      BY <2>1
  <1>13. ASSUME NEW k \in Nat, k \in P PROVE k + 1 \in P
    <2> SUFFICES ASSUME k + 1 <= n PROVE h[k + 1] \in S
      OBVIOUS
    <2>1. k + 1 \in 1..n /\ (k + 1) - 1 = k /\ h[k] \in S
      BY <1>1, <1>13
    <2>2. h[k + 1] = More(k + 1, h[k])
      BY <1>11, <2>1
    <2> QED
      BY <1>2, <2>1, <2>2
  <1>14. \A k \in Nat : k \in P
    <2> HIDE DEF P
    <2> QED
      BY <1>12, <1>13, Upward
  <1>15. n \in 1..n /\ n - 1 \in Nat /\ n - 1 <= n
    BY <1>1
  <1>16. h[n] = More(n, h[n - 1]) /\ h[n - 1] \in S
    BY <1>11, <1>14, <1>15
  <1>17. h[n] \in S /\ h[n] # <<>>
    BY <1>2, <1>15, <1>16
  <1> QED
    BY <1>3, <1>4, <1>17

(* the leg home, if there is one, is no worse *)
LEMMA ReturnLegIsGood ==
  ASSUME WorldTypes, NEW legs \in Seq(GoodLegs(CriticalNow)), legs # <<>>,
         NEW list \in Seq(Zips), NEW other \in Readings
  PROVE  ReturnLeg(legs, list, other) \in Seq(GoodLegs(CriticalNow))
  <1>1. PICK G : G = GoodLegs(CriticalNow)
    OBVIOUS
  <1>2. legs \in Seq(G) /\ Last(legs) \in G
    BY <1>1 DEF Last
  <1>3. PICK from \in Zips : from = Last(legs).to
    BY <1>1, <1>2 DEF GoodLegs, AnyLegs
  <1>4. PICK loads \in Seq(LoadsOfAny) : loads = Candidates(from, list)
    BY CandidatesAreLoads
  <1>5. PICK at \in SUBSET (DOMAIN loads) :
           at = LET homeward == {i \in DOMAIN loads : loads[i].to = Home}
                IN  IF homeward # {} THEN homeward ELSE DOMAIN loads
    OBVIOUS
  <1>6. PICK best : best = Best(from, loads, at)
    OBVIOUS
  <1>7. ReturnLeg(legs, list, other)
          = IF from = Home \/ best = {} THEN legs
            ELSE Append(Front(legs), Leg(from, CHOOSE l \in best : TRUE, TRUE, other))
    BY <1>3, <1>4, <1>5, <1>6 DEF ReturnLeg
  <1>8. CASE best # {}
    <2>1. PICK load \in best : load = CHOOSE l \in best : TRUE
      BY <1>8
    <2>2. load \in LoadsOfAny /\ Acceptable(from, load)
      BY <1>6, <2>1, BestIsAcceptable
    <2>3. PICK leg \in G : leg = Leg(from, load, TRUE, other)
      BY <1>1, <2>2, ChosenLegIsGood
    <2>4. Front(legs) \in Seq(G)
      BY <1>2 DEF Front
    <2>5. Append(Front(legs), leg) \in Seq(G)
      BY <2>4
    <2>6. ReturnLeg(legs, list, other) \in {legs, Append(Front(legs), leg)}
      BY <1>7, <2>1, <2>3
    <2> QED
      BY <1>1, <1>2, <2>5, <2>6
  <1>9. CASE best = {}
    BY <1>7, <1>9
  <1> QED
    BY <1>8, <1>9

-----------------------------------------------------------------------------
Reasons == {"none", "broker", "dead", "weather", "raises", "rate"}

Mondays == [of : {"local", "UTC"}, n : Nat]

(* A chain is generated, or made by a monitor of another, for a Monday in   *)
(* UTC; its legs were good when it was.                                     *)
Rows ==
    {c \in [cause : {"generated", "rerouted"}, week : Mondays,
            status : {"generated", "rerouted", "superseded"}, parent : Nat,
            reason : Reasons, legs : Seq(AnyLegs), critical : SUBSET Zips,
            beside : BOOLEAN, sent : Nat] :
        /\ c.cause = "generated" <=> c.parent = 0
        /\ c.parent # 0 => c.week.of = "UTC"
        /\ \A d \in DOMAIN c.legs : c.legs[d] \in GoodLegs(c.critical)}

NewRows == {c \in Rows : c.status # "superseded" /\ c.sent = 0}

SessionRows == [step : {"idle", "generated", "reading", "sending"},
                left : SUBSET Nat, new : Seq(NewRows), beside : BOOLEAN]

(* a run holds a chain without a parent, a monitor chains with one *)
Holding(s, r) ==
    /\ r.step = "idle" => r = Idle
    /\ r.step = "sending" => r.new = <<>> /\ r.left # {}
    /\ r.step = "generated" => /\ s \in Runs
                               /\ \A i \in DOMAIN r.new : r.new[i].parent = 0 /\ i = 1
    /\ r.step = "reading" => /\ s \in Monitors
                             /\ \A i \in DOMAIN r.new : r.new[i].parent # 0

ChainTypes ==
    /\ WorldTypes
    /\ chains \in Seq(Rows)
    /\ session \in [Sessions -> SessionRows]
    /\ \A s \in Sessions : /\ Holding(s, session[s])
                          /\ session[s].left \subseteq DOMAIN chains

(* A chain is generated with good legs, a Monday, and the zones of now. *)
LEMMA GeneratedIsNew ==
  ASSUME WorldTypes, NEW cause \in {"generated", "rerouted"}, NEW monday \in Mondays,
         NEW parent \in Nat, NEW reason \in Reasons,
         cause = "generated" <=> parent = 0,
         parent # 0 => monday.of = "UTC",
         NEW c \in Generated(cause, monday, parent, reason)
  PROVE  /\ c \in NewRows
         /\ c.week = monday /\ c.parent = parent /\ c.reason = reason
         /\ c.critical = CriticalNow
  <1>1. PICK lists \in [1..Days -> LaneLists], back \in LaneLists \cup {<<Home>>},
             others \in Otherwise :
           c = [cause |-> cause, week |-> monday, status |-> cause, parent |-> parent,
                reason |-> reason,
                legs |-> ReturnLeg(DayLegs(lists, others), back, others[0]),
                critical |-> {z \in Zips : zone[z] = "CRITICAL"},
                beside |-> FALSE, sent |-> 0]
    BY DEF Generated
  <1>s. others \in [0..Days -> Readings]
    BY DEF Otherwise
  <1>2. back \in Seq(Zips)
    <2>1. Home \in Zips /\ LaneLists \subseteq Seq(Zips)
      BY WeeklyChainsAssumption
    <2>2. <<Home>> \in Seq(Zips)
      BY <2>1
    <2> QED
      BY <2>1, <2>2
  <1>3. PICK legs : legs = ReturnLeg(DayLegs(lists, others), back, others[0])
    OBVIOUS
  <1>o. others[0] \in Readings
    BY <1>s, WeeklyChainsAssumption
  <1>4. legs \in Seq(GoodLegs(CriticalNow))
    BY <1>2, <1>3, <1>o, <1>s, DayLegsAreGood, ReturnLegIsGood
  <1>5. GoodLegs(CriticalNow) \subseteq AnyLegs
    BY DEF GoodLegs
  <1>6. legs \in Seq(AnyLegs)
    BY <1>4, <1>5, SequencesWithin
  <1>7. \A d \in DOMAIN legs : legs[d] \in GoodLegs(CriticalNow)
    <2>1. PICK G : G = GoodLegs(CriticalNow)
      OBVIOUS
    <2>2. legs \in Seq(G)
      BY <1>4, <2>1
    <2> QED
      BY <2>1, <2>2
  <1>8. PICK critical \in SUBSET Zips : critical = CriticalNow
    BY DEF CriticalNow
  <1>9. c = [cause |-> cause, week |-> monday, status |-> cause, parent |-> parent,
             reason |-> reason, legs |-> legs, critical |-> critical,
             beside |-> FALSE, sent |-> 0]
    BY <1>1, <1>3, <1>8 DEF CriticalNow
  <1>10. /\ c.cause = cause /\ c.week = monday /\ c.parent = parent
         /\ c.reason = reason /\ c.legs = legs /\ c.critical = critical
         /\ c.status = cause /\ c.sent = 0
    BY <1>9
  <1>11. c \in [cause : {"generated", "rerouted"}, week : Mondays,
            status : {"generated", "rerouted", "superseded"}, parent : Nat,
            reason : Reasons, legs : Seq(AnyLegs), critical : SUBSET Zips,
            beside : BOOLEAN, sent : Nat]
    <2> HIDE DEF Mondays, Reasons
    <2> QED
      BY <1>6, <1>9
  <1>12. c \in Rows
    BY <1>7, <1>8, <1>10, <1>11 DEF Rows
  <1> QED
    BY <1>8, <1>10, <1>12 DEF NewRows

(* a chain is replaced for a test that one of its legs does not pass *)
LEMMA ReasonIsFound ==
  ASSUME NEW p \in Rows
  PROVE  /\ RerouteReason(p) \in Reasons
         /\ RerouteReason(p) # "none" =>
               \E d \in DOMAIN p.legs : Holds(RerouteReason(p), p.legs[d])
  <1> DEFINE bad == {d \in DOMAIN p.legs : Failing(p.legs[d]) # {}}
  <1>1. RerouteReason(p) = IF bad = {} THEN "none"
                           ELSE Tests[Min(Failing(p.legs[Min(bad)]))]
    BY DEF RerouteReason
  <1>2. CASE bad = {}
    BY <1>1, <1>2 DEF Reasons
  <1>3. CASE bad # {}
    <2>1. p.legs \in Seq(AnyLegs)
      BY DEF Rows
    <2>2. bad \in SUBSET Nat
      BY <2>1
    <2>3. Min(bad) \in bad
      <3> HIDE DEF bad
      <3> QED
        BY <1>3, <2>2, OldestIs
    <2>4. PICK d \in DOMAIN p.legs : d = Min(bad) /\ Failing(p.legs[d]) # {}
      BY <2>3
    <2>5. DOMAIN Tests = 1..5
      BY DEF Tests
    <2>6. PICK f : f = Failing(p.legs[d])
      OBVIOUS
    <2>7. f \in SUBSET Nat
      BY <2>5, <2>6 DEF Failing
    <2>8. Min(f) \in f
      BY <2>4, <2>6, <2>7, OldestIs
    <2>9. PICK t \in 1..5 : t = Min(f) /\ Holds(Tests[t], p.legs[d])
      BY <2>5, <2>6, <2>8 DEF Failing
    <2>10. RerouteReason(p) = Tests[t]
      BY <1>1, <1>3, <2>4, <2>6, <2>9
    <2>11. Tests[t] \in Reasons
      BY DEF Tests, Reasons
    <2> QED
      BY <2>9, <2>10, <2>11
  <1> QED
    BY <1>2, <1>3

-----------------------------------------------------------------------------
(* A session that begins is beside those of its kind that are open, and     *)
(* they are beside it; they keep what they hold.                            *)
LEMMA Begun ==
  ASSUME ChainTypes, NEW s \in Sessions, NEW kin \in {Runs, Monitors},
         session[s] = Idle, NEW to \in SessionRows, Begin(s, kin, to)
  PROVE  /\ session' \in [Sessions -> SessionRows]
         /\ session'[s].step = to.step /\ session'[s].left = to.left
         /\ session'[s].new = to.new
         /\ session'[s].beside <=> Open(kin) # {}
         /\ \A o \in Sessions \ {s} :
               /\ session'[o].step = session[o].step
               /\ session'[o].left = session[o].left
               /\ session'[o].new = session[o].new
               /\ session[o].beside => session'[o].beside
               /\ o \in Open(kin) => session'[o].beside
               /\ o \notin Open(kin) => session'[o] = session[o]
  <1> DEFINE beside == [o \in Sessions |-> [session[o] EXCEPT !.beside = TRUE]]
  <1>1. PICK b \in BOOLEAN : b = (Open(kin) # {})
    OBVIOUS
  <1>2. PICK first : first = [to EXCEPT !.beside = b]
    OBVIOUS
  <1>3. session' = [o \in Sessions |->
           IF o = s THEN first
           ELSE IF o \in Open(kin) THEN beside[o] ELSE session[o]]
    BY <1>1, <1>2 DEF Begin
  <1>4. /\ first \in SessionRows /\ first.step = to.step /\ first.left = to.left
        /\ first.new = to.new /\ first.beside = b
    BY <1>2 DEF SessionRows
  <1>5. ASSUME NEW o \in Sessions
        PROVE  /\ beside[o] \in SessionRows /\ beside[o].step = session[o].step
               /\ beside[o].left = session[o].left /\ beside[o].new = session[o].new
               /\ beside[o].beside
    <2>1. PICK r \in SessionRows : r = session[o]
      BY DEF ChainTypes
    <2>2. beside[o] = [r EXCEPT !.beside = TRUE]
      BY <2>1
    <2> HIDE DEF beside
    <2> QED
      BY <2>1, <2>2 DEF SessionRows
  <1> HIDE DEF beside
  <1>6. session' \in [Sessions -> SessionRows]
    BY <1>3, <1>4, <1>5 DEF ChainTypes
  <1>7. ASSUME NEW o \in Sessions \ {s}
        PROVE  /\ session'[o].step = session[o].step
               /\ session'[o].left = session[o].left
               /\ session'[o].new = session[o].new
               /\ session[o].beside => session'[o].beside
               /\ o \in Open(kin) => session'[o].beside
               /\ o \notin Open(kin) => session'[o] = session[o]
    BY <1>3, <1>5
  <1> QED
    BY <1>1, <1>3, <1>4, <1>6, <1>7

(* every session still holds what its step allows *)
LEMMA BegunHolds ==
  ASSUME ChainTypes, NEW s \in Sessions, NEW kin \in {Runs, Monitors},
         session[s] = Idle, NEW to \in SessionRows, Begin(s, kin, to),
         Holding(s, to), to.step \in {"generated", "reading"}
  PROVE  /\ session' \in [Sessions -> SessionRows]
         /\ \A o \in Sessions : Holding(o, session'[o])
  <1>1. /\ session' \in [Sessions -> SessionRows]
        /\ session'[s].step = to.step /\ session'[s].new = to.new
        /\ \A o \in Sessions \ {s} :
               /\ session'[o].step = session[o].step
               /\ session'[o].left = session[o].left
               /\ session'[o].new = session[o].new
               /\ o \notin Open(kin) => session'[o] = session[o]
    BY Begun
  <1>2. Holding(s, session'[s])
    BY <1>1 DEF Holding
  <1>3. ASSUME NEW o \in Sessions \ {s} PROVE Holding(o, session'[o])
    <2>1. Holding(o, session[o])
      BY DEF ChainTypes
    <2>2. o \in Open(kin) => session[o].step \in {"reading", "generated"}
      BY DEF Open
    <2> QED
      BY <1>1, <2>1, <2>2 DEF Holding
  <1> QED
    BY <1>1, <1>2, <1>3

(* What a run or a monitor begins with. *)
LEMMA DueBegins ==
  ASSUME ChainTypes, NEW r \in Runs, DueGenerates(r)
  PROVE  \E to \in SessionRows, c \in NewRows :
            /\ session[r] = Idle /\ Begin(r, Runs, to) /\ Holding(r, to)
            /\ to.step = "generated" /\ to.left = {} /\ to.new = <<c>>
            /\ c.parent = 0 /\ \A i \in DOMAIN chains : chains[i].week # c.week
  <1>1. PICK c \in Generated("generated", LocalMonday, 0, "none") :
           Begin(r, Runs, [Idle EXCEPT !.step = "generated", !.new = <<c>>])
    BY DEF DueGenerates
  <1>2. LocalMonday \in Mondays
    <2>1. Week + 1 \in Nat
      BY DEF ChainTypes, WorldTypes, Week
    <2> QED
      BY <2>1 DEF LocalMonday, Mondays
  <1>3. c \in NewRows /\ c.week = LocalMonday /\ c.parent = 0
    BY <1>2, GeneratedIsNew DEF ChainTypes, Reasons
  <1>4. PICK to : to = [Idle EXCEPT !.step = "generated", !.new = <<c>>]
    OBVIOUS
  <1>5. to = [step |-> "generated", left |-> {}, new |-> <<c>>, beside |-> FALSE]
    BY <1>4 DEF Idle
  <1>6. to \in SessionRows /\ Holding(r, to)
    <2>1. <<c>> \in Seq(NewRows)
      BY <1>3
    <2>2. to \in SessionRows
      BY <1>5, <2>1 DEF SessionRows
    <2>3. /\ to.step = "generated" /\ to.new = <<c>>
          /\ \A i \in DOMAIN <<c>> : i = 1 /\ <<c>>[i] = c
      BY <1>5
    <2> QED
      BY <1>3, <2>2, <2>3 DEF Holding
  <1>7. to.step = "generated" /\ to.left = {} /\ to.new = <<c>>
    BY <1>5
  <1> QED
    BY <1>1, <1>3, <1>4, <1>6, <1>7 DEF DueGenerates

(* a monitor begins with what is watched *)
LEMMA MonitorBegins ==
  ASSUME ChainTypes, NEW m \in Monitors, MonitorReads(m)
  PROVE  \E to \in SessionRows :
            /\ session[m] = Idle /\ Begin(m, Monitors, to) /\ Holding(m, to)
            /\ to.step = "reading" /\ to.left = Watched /\ to.new = <<>>
  <1>1. PICK to : to = [Idle EXCEPT !.step = "reading", !.left = Watched]
    OBVIOUS
  <1>2. to = [step |-> "reading", left |-> Watched, new |-> <<>>, beside |-> FALSE]
    BY <1>1 DEF Idle
  <1>3. Watched \in SUBSET Nat
    <2>1. chains \in Seq(Rows)
      BY DEF ChainTypes
    <2> QED
      BY <2>1 DEF Watched
  <1>4. to \in SessionRows
    BY <1>2, <1>3 DEF SessionRows
  <1>5. to.step = "reading" /\ to.left = Watched /\ to.new = <<>>
    BY <1>2
  <1>6. Holding(m, to)
    BY <1>5 DEF Holding
  <1> QED
    BY <1>1, <1>4, <1>5, <1>6 DEF MonitorReads

(* A monitor that looks at a chain has one less to look at, and holds what  *)
(* it adds.                                                                 *)
LEMMA Held ==
  ASSUME ChainTypes, NEW m \in Monitors, session[m].step = "reading",
         session[m].left # {}, NEW add \in Seq(NewRows), Hold(m, add),
         \A i \in DOMAIN add : add[i].parent # 0
  PROVE  /\ Looking(m) \in session[m].left /\ Looking(m) \in DOMAIN chains
         /\ chains[Looking(m)] \in Rows
         /\ session' \in [Sessions -> SessionRows]
         /\ \A o \in Sessions \ {m} : session'[o] = session[o]
         /\ session'[m].step = "reading" /\ session'[m].beside = session[m].beside
         /\ session'[m].left = session[m].left \ {Looking(m)}
         /\ session'[m].new = session[m].new \o add
         /\ Holding(m, session'[m])
  <1>0. m \in Sessions
    BY DEF Sessions
  <1>1. PICK n \in Nat : DOMAIN chains = 1..n
    <2>1. chains \in Seq(Rows)
      BY DEF ChainTypes
    <2> QED
      BY <2>1
  <1>2. PICK r \in SessionRows : r = session[m]
    BY <1>0 DEF ChainTypes
  <1>3. r.left \in SUBSET (1..n) /\ r.left # {}
    BY <1>0, <1>1, <1>2 DEF ChainTypes
  <1>4. PICK p \in r.left : p = Looking(m)
    BY <1>2, <1>3, NewestIs DEF Looking
  <1>5. chains[p] \in Rows
    <2>1. chains \in Seq(Rows)
      BY DEF ChainTypes
    <2> QED
      BY <1>1, <1>3, <1>4, <2>1
  <1>6. PICK new : new = r.new \o add
    OBVIOUS
  <1>7. r.new \in Seq(NewRows) /\ new \in Seq(NewRows)
    BY <1>6, JoinedSequences DEF SessionRows
  <1>8. PICK q : q = [step |-> "reading", left |-> r.left \ {p}, new |-> new,
                      beside |-> r.beside]
    OBVIOUS
  <1>9. /\ q \in SessionRows /\ q.step = "reading" /\ q.left = r.left \ {p}
        /\ q.new = new /\ q.beside = r.beside
    BY <1>7, <1>8 DEF SessionRows
  <1>10. session' = [session EXCEPT ![m] = q]
    BY <1>2, <1>4, <1>6, <1>8 DEF Hold
  <1>11. /\ session' \in [Sessions -> SessionRows] /\ session'[m] = q
         /\ \A o \in Sessions \ {m} : session'[o] = session[o]
    BY <1>0, <1>9, <1>10 DEF ChainTypes
  <1>12. Holding(m, q)
    <2>1. \A i \in DOMAIN r.new : r.new[i].parent # 0
      BY <1>0, <1>2 DEF ChainTypes, Holding
    <2>2. ASSUME NEW i \in DOMAIN new PROVE new[i].parent # 0
      <3>1. PICK a \in Seq(NewRows) : a = r.new
        BY <1>7
      <3>2. /\ Len(a) \in Nat /\ Len(add) \in Nat /\ DOMAIN a = 1..Len(a)
            /\ DOMAIN add = 1..Len(add)
        OBVIOUS
      <3>3. /\ i \in 1..(Len(a) + Len(add))
            /\ i \in 1..Len(a) => new[i] = a[i]
            /\ i \notin 1..Len(a) => new[i] = add[i - Len(a)]
                                     /\ i - Len(a) \in 1..Len(add)
        BY <1>6, <3>1
      <3> QED
        BY <2>1, <3>1, <3>2, <3>3
    <2> QED
      BY <1>2, <1>9, <2>2 DEF Holding
  <1> QED
    BY <1>1, <1>2, <1>3, <1>4, <1>5, <1>6, <1>9, <1>11, <1>12

(* of a chain that passes its tests nothing is held *)
LEMMA KeptIsHeld ==
  ASSUME NEW m \in Monitors, MonitorKeeps(m)
  PROVE  /\ session[m].step = "reading" /\ session[m].left # {}
         /\ Hold(m, <<>>) /\ UNCHANGED <<chains, world>>
  BY DEF MonitorKeeps

(* of one that fails, the chain that replaces it *)
LEMMA ReplacedIsHeld ==
  ASSUME ChainTypes, NEW m \in Monitors, MonitorReplaces(m)
  PROVE  \E c \in NewRows :
            /\ session[m].step = "reading" /\ session[m].left # {}
            /\ Hold(m, <<c>>) /\ UNCHANGED <<chains, world>>
            /\ c.parent = Looking(m) /\ c.parent # 0
            /\ c.reason = RerouteReason(chains[Looking(m)])
            /\ c.reason # "none" /\ c.critical = CriticalNow
  <1>1. PICK c \in Generated("rerouted", NextMonday, Looking(m),
                             RerouteReason(chains[Looking(m)])) : Hold(m, <<c>>)
    BY DEF MonitorReplaces
  <1>0. m \in Sessions
    BY DEF Sessions
  <1>2. chains \in Seq(Rows)
    BY DEF ChainTypes
  <1>3. PICK n \in Nat : DOMAIN chains = 1..n
    BY <1>2
  <1>4. session[m].left \in SUBSET (1..n) /\ session[m].left # {}
    BY <1>0, <1>3 DEF ChainTypes, MonitorReplaces
  <1>5. PICK p \in 1..n : p = Looking(m)
    BY <1>4, NewestIs DEF Looking
  <1>6. PICK reason \in Reasons : reason = RerouteReason(chains[p])
    <2>1. chains[p] \in Rows
      BY <1>2, <1>3
    <2> QED
      BY <2>1, ReasonIsFound
  <1>7. NextMonday \in Mondays /\ NextMonday.of = "UTC"
    <2>1. Week + 1 \in Nat /\ Week + 2 \in Nat
      BY DEF ChainTypes, WorldTypes, Week
    <2> QED
      BY <2>1 DEF NextMonday, Mondays
  <1>8. c \in Generated("rerouted", NextMonday, p, reason)
    BY <1>1, <1>5, <1>6
  <1>9. /\ c \in NewRows /\ c.parent = p /\ c.reason = reason
        /\ c.critical = CriticalNow
    <2>1. WorldTypes /\ p \in Nat /\ p # 0
      BY DEF ChainTypes
    <2> QED
      BY <1>7, <1>8, <2>1, GeneratedIsNew
  <1> QED
    BY <1>1, <1>5, <1>6, <1>9 DEF MonitorReplaces
-----------------------------------------------------------------------------
(* What a chain says of itself never changes; only its status and how often *)
(* it was announced do.                                                     *)
Keeps(d, c) ==
    /\ d.cause = c.cause /\ d.week = c.week /\ d.parent = c.parent
    /\ d.reason = c.reason /\ d.legs = c.legs /\ d.critical = c.critical

(* the k new chains of s come after the n of old *)
Follow(s, n, old, k, new) ==
    /\ new = session[s].new
    /\ chains' \in Seq(Rows) /\ DOMAIN chains' = 1..(n + k)
    /\ \A i \in 1..n : chains'[i] = old[i]
    /\ \A j \in 1..k : /\ Keeps(chains'[n + j], new[j])
                       /\ chains'[n + j].status = new[j].status
                       /\ chains'[n + j].sent = 0
                       /\ chains'[n + j].beside = session[s].beside
    /\ session' \in [Sessions -> SessionRows]
    /\ \A o \in Sessions \ {s} : session'[o] = session[o]
    /\ k = 0 => session'[s] = Idle
    /\ k # 0 => /\ session'[s].step = "sending"
                /\ session'[s].left = {n + j : j \in 1..k}
                /\ session'[s].new = <<>>
    /\ UNCHANGED world

(* that is what a commit adds, whatever has become of the n before *)
LEMMA Added ==
  ASSUME ChainTypes, NEW s \in Sessions, NEW n \in Nat, NEW old \in [1..n -> Rows],
         Commit(s, old)
  PROVE  \E k \in Nat : \E new \in [1..k -> NewRows] : Follow(s, n, old, k, new)
  <1>1. PICK r \in SessionRows : r = session[s]
    BY DEF ChainTypes
  <1>2. PICK b \in BOOLEAN : b = r.beside
    BY DEF SessionRows
  <1>3. PICK new \in Seq(NewRows) : new = r.new
    BY DEF SessionRows
  <1>4. PICK k \in Nat : k = Len(new) /\ new \in [1..k -> NewRows] /\ DOMAIN new = 1..k
    OBVIOUS
  <1>5. /\ old \in Seq(Rows) /\ Len(old) = n
    OBVIOUS
  <1>6. PICK more : more = [i \in 1..k |-> [new[i] EXCEPT !.beside = b]]
    OBVIOUS
  <1>7. ASSUME NEW j \in 1..k
        PROVE  /\ more[j] \in Rows /\ Keeps(more[j], new[j])
               /\ more[j].status = new[j].status /\ more[j].sent = 0
               /\ more[j].beside = b
    <2>1. PICK c \in Rows : c = new[j] /\ c.sent = 0
      BY <1>4 DEF NewRows
    <2>2. more[j] = [c EXCEPT !.beside = b]
      BY <1>6, <2>1
    <2> HIDE DEF Mondays, Reasons
    <2>3. more[j] \in Rows
      BY <2>2 DEF Rows
    <2>4. /\ more[j].cause = c.cause /\ more[j].week = c.week
          /\ more[j].parent = c.parent /\ more[j].reason = c.reason
          /\ more[j].legs = c.legs /\ more[j].critical = c.critical
          /\ more[j].status = c.status /\ more[j].sent = 0 /\ more[j].beside = b
      BY <2>1, <2>2 DEF Rows
    <2> QED
      BY <2>1, <2>3, <2>4 DEF Keeps
  <1>8. more \in Seq(Rows) /\ Len(more) = k
    <2>1. DOMAIN more = 1..k /\ \A j \in 1..k : more[j] \in Rows
      BY <1>6, <1>7
    <2>2. more \in [1..k -> Rows]
      BY <1>6, <2>1
    <2> QED
      BY <2>2
  <1>9. chains' = old \o more
    BY <1>1, <1>2, <1>3, <1>4, <1>6 DEF Commit
  <1>10. /\ chains' \in Seq(Rows) /\ Len(chains') = n + k
         /\ DOMAIN chains' = 1..(n + k)
         /\ \A i \in 1..n : chains'[i] = old[i]
         /\ \A j \in 1..k : chains'[n + j] = more[j]
    <2>1. PICK x \in Seq(Rows) : x = old \o more
      BY <1>5, <1>8, JoinedSequences
    <2>2. Len(x) = n + k
      <3>1. PICK a \in Seq(Rows), d \in Seq(Rows) : a = old /\ d = more
        BY <1>5, <1>8
      <3>2. Len(a \o d) = Len(a) + Len(d)
        OBVIOUS
      <3> QED
        BY <1>5, <1>8, <2>1, <3>1, <3>2
    <2>3. \A i \in 1..n : x[i] = old[i]
      BY <1>5, <1>8, <2>1
    <2>4. ASSUME NEW j \in 1..k PROVE x[n + j] = more[j]
      <3>1. n + j \in 1..(n + k) /\ n + j > n /\ (n + j) - n = j
        OBVIOUS
      <3> QED
        BY <1>5, <1>8, <2>1, <3>1
    <2> QED
      BY <1>9, <2>1, <2>2, <2>3, <2>4
  <1>11. PICK ids : ids = {n + i : i \in 1..k}
    OBVIOUS
  <1>12. session' = [session EXCEPT ![s] =
               IF new = <<>> THEN Idle ELSE [Idle EXCEPT !.step = "sending", !.left = ids]]
    BY <1>1, <1>3, <1>4, <1>5, <1>11 DEF Commit
  <1>13. new = <<>> <=> k = 0
    BY <1>4
  <1>15. PICK sending : sending = [Idle EXCEPT !.step = "sending", !.left = ids]
    OBVIOUS
  <1>14. sending = [step |-> "sending", left |-> ids, new |-> <<>>, beside |-> FALSE]
    BY <1>15 DEF Idle
  <1>16. session' = [session EXCEPT ![s] = IF k = 0 THEN Idle ELSE sending]
    BY <1>12, <1>13, <1>15
  <1>17. sending \in SessionRows /\ Idle \in SessionRows
    <2>1. <<>> \in Seq(NewRows)
      OBVIOUS
    <2>2. ids \in SUBSET Nat
      BY <1>11
    <2> QED
      BY <1>14, <2>1, <2>2 DEF SessionRows, Idle
  <1>18. /\ session' \in [Sessions -> SessionRows]
         /\ \A o \in Sessions \ {s} : session'[o] = session[o]
         /\ session'[s] = IF k = 0 THEN Idle ELSE sending
    BY <1>16, <1>17 DEF ChainTypes
  <1>19. k # 0 => /\ session'[s].step = "sending"
                  /\ session'[s].left = {n + j : j \in 1..k}
                  /\ session'[s].new = <<>>
    <2>1. /\ sending.step = "sending" /\ sending.left = ids /\ sending.new = <<>>
      BY <1>14
    <2> QED
      BY <1>11, <1>18, <2>1
  <1>20. UNCHANGED world
    BY DEF Commit
  <1>21. \A j \in 1..k : /\ Keeps(chains'[n + j], new[j])
                         /\ chains'[n + j].status = new[j].status
                         /\ chains'[n + j].sent = 0
                         /\ chains'[n + j].beside = session[s].beside
    BY <1>1, <1>2, <1>7, <1>10
  <1>22. k = 0 => session'[s] = Idle
    BY <1>18
  <1>23. new = session[s].new
    BY <1>1, <1>3
  <1>24. /\ k \in Nat /\ new \in [1..k -> NewRows]
    BY <1>4
  <1>25. /\ session' \in [Sessions -> SessionRows]
         /\ \A o \in Sessions \ {s} : session'[o] = session[o]
    BY <1>18
  <1>26. /\ chains' \in Seq(Rows) /\ DOMAIN chains' = 1..(n + k)
         /\ \A i \in 1..n : chains'[i] = old[i]
    BY <1>10
  <1> HIDE DEF Rows, NewRows, SessionRows, Keeps
  <1>27. Follow(s, n, old, k, new)
    BY <1>19, <1>20, <1>21, <1>22, <1>23, <1>25, <1>26 DEF Follow
  <1> QED
    BY <1>24, <1>27

(* The k new chains of s come after the n there are; a parent of one of     *)
(* them is superseded, and nothing else of the n changes.                   *)
Adds(s, n, k, new) ==
    /\ chains \in [1..n -> Rows] /\ new = session[s].new
    /\ chains' \in Seq(Rows) /\ DOMAIN chains' = 1..(n + k)
    /\ \A i \in 1..n : /\ Keeps(chains'[i], chains[i])
                       /\ chains'[i].sent = chains[i].sent
                       /\ chains'[i].beside = chains[i].beside
                       /\ chains'[i].status = "superseded" <=>
                             \/ chains[i].status = "superseded"
                             \/ \E j \in 1..k : new[j].parent = i
    /\ \A j \in 1..k : /\ Keeps(chains'[n + j], new[j])
                       /\ chains'[n + j].status # "superseded"
                       /\ chains'[n + j].sent = 0
                       /\ chains'[n + j].beside = session[s].beside
    /\ session' \in [Sessions -> SessionRows]
    /\ \A o \in Sessions \ {s} : session'[o] = session[o]
    /\ k = 0 => session'[s] = Idle
    /\ k # 0 => /\ session'[s].step = "sending"
                /\ session'[s].left = {n + j : j \in 1..k}
                /\ session'[s].new = <<>>
    /\ UNCHANGED world

(* a run commits that way, and supersedes nothing *)
LEMMA DueAdds ==
  ASSUME ChainTypes, NEW r \in Runs, DueCommits(r)
  PROVE  \E n, k \in Nat : \E new \in [1..k -> NewRows] : Adds(r, n, k, new)
  <1>0. r \in Sessions /\ Commit(r, chains) /\ session[r].step = "generated"
    BY DEF Sessions, DueCommits
  <1>1. PICK n \in Nat : chains \in [1..n -> Rows]
    <2>1. chains \in Seq(Rows)
      BY DEF ChainTypes
    <2> QED
      BY <2>1
  <1>2. PICK old \in [1..n -> Rows] : old = chains
    BY <1>1
  <1>3. Commit(r, old)
    BY <1>0, <1>2
  <1>4. PICK k \in Nat : \E new \in [1..k -> NewRows] : Follow(r, n, old, k, new)
    BY <1>0, <1>3, Added
  <1>5. PICK new \in [1..k -> NewRows] : Follow(r, n, old, k, new)
    BY <1>4
  <1>6. \A j \in 1..k : new[j].parent = 0 /\ new[j].status # "superseded"
    <2>1. \A j \in DOMAIN new : new[j].parent = 0
      BY <1>0, <1>5 DEF Follow, ChainTypes, Holding
    <2> QED
      BY <2>1 DEF NewRows
  <1>7. \A i \in 1..n : /\ Keeps(chains'[i], chains[i])
                        /\ chains'[i].sent = chains[i].sent
                        /\ chains'[i].beside = chains[i].beside
                        /\ chains'[i].status = "superseded" <=>
                              \/ chains[i].status = "superseded"
                              \/ \E j \in 1..k : new[j].parent = i
    BY <1>2, <1>5, <1>6 DEF Follow, Keeps
  <1>8. \A j \in 1..k : /\ Keeps(chains'[n + j], new[j])
                        /\ chains'[n + j].status # "superseded"
                        /\ chains'[n + j].sent = 0
                        /\ chains'[n + j].beside = session[r].beside
    BY <1>5, <1>6 DEF Follow
  <1>9. Adds(r, n, k, new)
    BY <1>1, <1>5, <1>7, <1>8 DEF Follow, Adds
  <1> QED
    BY <1>9

(* a monitor does, and supersedes the parents *)
LEMMA MonitorAdds ==
  ASSUME ChainTypes, NEW m \in Monitors, MonitorCommits(m)
  PROVE  \E n, k \in Nat : \E new \in [1..k -> NewRows] : Adds(m, n, k, new)
  <1> DEFINE gone == {session[m].new[i].parent : i \in DOMAIN session[m].new}
             old == [i \in DOMAIN chains |->
                       IF i \in gone THEN [chains[i] EXCEPT !.status = "superseded"]
                       ELSE chains[i]]
  <1>0. m \in Sessions /\ Commit(m, old)
    BY DEF Sessions, MonitorCommits
  <1>1. PICK n \in Nat : chains \in [1..n -> Rows]
    <2>1. chains \in Seq(Rows)
      BY DEF ChainTypes
    <2> QED
      BY <2>1
  <1>2. PICK to : to = [i \in 1..n |-> [chains[i] EXCEPT !.status = "superseded"]]
    OBVIOUS
  <1>3. ASSUME NEW i \in 1..n
        PROVE  /\ to[i] \in Rows /\ Keeps(to[i], chains[i])
               /\ to[i].sent = chains[i].sent /\ to[i].beside = chains[i].beside
               /\ to[i].status = "superseded"
    <2>1. PICK c \in Rows : c = chains[i]
      BY <1>1
    <2>2. to[i] = [c EXCEPT !.status = "superseded"]
      BY <1>2, <2>1
    <2> HIDE DEF Mondays, Reasons
    <2> QED
      BY <2>1, <2>2 DEF Rows, Keeps
  <1>4. \A i \in 1..n : old[i] = IF i \in gone THEN to[i] ELSE chains[i]
    BY <1>1, <1>2
  <1>5. old \in [1..n -> Rows]
    BY <1>1, <1>3, <1>4
  <1>6. \A i \in 1..n : /\ Keeps(old[i], chains[i])
                        /\ old[i].sent = chains[i].sent
                        /\ old[i].beside = chains[i].beside
                        /\ old[i].status = "superseded" <=>
                              chains[i].status = "superseded" \/ i \in gone
    <2> HIDE DEF gone, old
    <2>1. \A i \in 1..n : Keeps(chains[i], chains[i])
      BY DEF Keeps
    <2> QED
      BY <1>3, <1>4, <2>1
  <1>7. PICK k \in Nat : \E new \in [1..k -> NewRows] : Follow(m, n, old, k, new)
    <2> HIDE DEF old
    <2> QED
      BY <1>0, <1>5, Added
  <1>8. PICK new \in [1..k -> NewRows] : Follow(m, n, old, k, new)
    BY <1>7
  <1>9. \A i : i \in gone <=> \E j \in 1..k : new[j].parent = i
    BY <1>8 DEF Follow
  <1> HIDE DEF gone, old
  <1>10. \A i \in 1..n : /\ Keeps(chains'[i], chains[i])
                         /\ chains'[i].sent = chains[i].sent
                         /\ chains'[i].beside = chains[i].beside
                         /\ chains'[i].status = "superseded" <=>
                               \/ chains[i].status = "superseded"
                               \/ \E j \in 1..k : new[j].parent = i
    <2>1. \A i \in 1..n : chains'[i] = old[i]
      BY <1>8 DEF Follow
    <2> QED
      BY <1>6, <1>9, <2>1
  <1>11. \A j \in 1..k : /\ Keeps(chains'[n + j], new[j])
                         /\ chains'[n + j].status # "superseded"
                         /\ chains'[n + j].sent = 0
                         /\ chains'[n + j].beside = session[m].beside
    <2>1. \A j \in 1..k : new[j].status # "superseded"
      BY <1>8 DEF NewRows
    <2> QED
      BY <1>8, <2>1 DEF Follow
  <1>12. Adds(m, n, k, new)
    BY <1>1, <1>8, <1>10, <1>11 DEF Follow, Adds
  <1> QED
    BY <1>12

(* An announcement counts, and is not due again. *)
Announces(s, first) ==
    /\ first \in session[s].left /\ first \in DOMAIN chains
    /\ chains' \in Seq(Rows) /\ DOMAIN chains' = DOMAIN chains
    /\ \A i \in DOMAIN chains : /\ Keeps(chains'[i], chains[i])
                                /\ chains'[i].status = chains[i].status
                                /\ chains'[i].beside = chains[i].beside
                                /\ i # first => chains'[i] = chains[i]
    /\ chains'[first].sent = chains[first].sent + 1
    /\ session' \in [Sessions -> SessionRows]
    /\ \A o \in Sessions \ {s} : session'[o] = session[o]
    /\ \/ session'[s] = Idle
       \/ /\ session'[s].step = "sending" /\ session'[s].new = <<>>
          /\ session'[s].left = session[s].left \ {first}
          /\ session'[s].left # {}
    /\ UNCHANGED world

(* an announcement is of a chain that its session still has to tell *)
LEMMA Announced ==
  ASSUME ChainTypes, NEW s \in Sessions, Announce(s)
  PROVE  \E first \in Nat : Announces(s, first)
  <1>1. PICK r \in SessionRows : r = session[s] /\ r.step = "sending"
    BY DEF ChainTypes, Announce
  <1>2. r.left # {} /\ r.new = <<>>
    BY <1>1 DEF ChainTypes, Holding
  <1>3. PICK n \in Nat : DOMAIN chains = 1..n /\ chains \in [1..n -> Rows]
    <2>1. chains \in Seq(Rows)
      BY DEF ChainTypes
    <2> QED
      BY <2>1
  <1>4. r.left \in SUBSET (1..n)
    BY <1>1, <1>3 DEF ChainTypes
  <1>5. PICK first \in r.left : first = Min(r.left)
    <2>1. r.left \in SUBSET Nat
      BY <1>4
    <2> QED
      BY <1>2, <2>1, OldestIs
  <1>6. PICK c \in Rows : c = chains[first]
    BY <1>3, <1>4
  <1>7. PICK d : d = [c EXCEPT !.sent = @ + 1]
    OBVIOUS
  <1>8. /\ d \in Rows /\ Keeps(d, c) /\ d.status = c.status
        /\ d.beside = c.beside /\ d.sent = c.sent + 1
    <2> HIDE DEF Mondays, Reasons
    <2> QED
      BY <1>7 DEF Rows, Keeps
  <1>9. chains' = [chains EXCEPT ![first] = d]
    BY <1>1, <1>5, <1>6, <1>7 DEF Announce
  <1>10. chains' \in [1..n -> Rows]
    BY <1>3, <1>8, <1>9
  <1>11. chains' \in Seq(Rows) /\ DOMAIN chains' = DOMAIN chains
    BY <1>3, <1>10
  <1>12. first \in 1..n /\ chains'[first] = d
    BY <1>3, <1>4, <1>9
  <1>13. /\ \A i \in DOMAIN chains : /\ Keeps(chains'[i], chains[i])
                                     /\ chains'[i].status = chains[i].status
                                     /\ chains'[i].beside = chains[i].beside
                                     /\ i # first => chains'[i] = chains[i]
         /\ chains'[first].sent = chains[first].sent + 1
    BY <1>3, <1>6, <1>8, <1>9, <1>12 DEF Keeps
  <1>14. PICK rest : rest = r.left \ {first}
    OBVIOUS
  <1>15. PICK q : q = [r EXCEPT !.left = rest]
    OBVIOUS
  <1>16. q \in SessionRows /\ q.step = "sending" /\ q.new = <<>> /\ q.left = rest
    <2>1. rest \in SUBSET Nat
      BY <1>4, <1>14
    <2> QED
      BY <1>1, <1>2, <1>15, <2>1 DEF SessionRows
  <1>17. Idle \in SessionRows
    <2>1. <<>> \in Seq(NewRows)
      OBVIOUS
    <2> QED
      BY <2>1 DEF SessionRows, Idle
  <1>18. session' = [session EXCEPT ![s] = IF rest = {} THEN Idle ELSE q]
    BY <1>1, <1>5, <1>14, <1>15 DEF Announce
  <1>19. /\ session' \in [Sessions -> SessionRows]
         /\ \A o \in Sessions \ {s} : session'[o] = session[o]
         /\ session'[s] = IF rest = {} THEN Idle ELSE q
    BY <1>16, <1>17, <1>18 DEF ChainTypes
  <1>20. \/ session'[s] = Idle
         \/ /\ session'[s].step = "sending" /\ session'[s].new = <<>>
            /\ session'[s].left = session[s].left \ {first}
            /\ session'[s].left # {}
    BY <1>1, <1>14, <1>16, <1>19
  <1>21. first \in session[s].left /\ first \in DOMAIN chains /\ first \in Nat
    BY <1>1, <1>3, <1>12
  <1>22. Announces(s, first)
    BY <1>11, <1>13, <1>19, <1>20, <1>21 DEF Announces, Announce
  <1> QED
    BY <1>21, <1>22

(* A request adds a chain of a Monday of UTC. *)
Requests(n, c) ==
    /\ chains \in [1..n -> Rows] /\ c.parent = 0 /\ c.week.of = "UTC"
    /\ chains' \in Seq(Rows) /\ DOMAIN chains' = 1..(n + 1)
    /\ \A i \in 1..n : chains'[i] = chains[i]
    /\ chains'[n + 1] = c
    /\ UNCHANGED <<session, world>>

(* that is what a request adds *)
LEMMA Requested ==
  ASSUME ChainTypes, Request
  PROVE  \E n \in Nat, c \in NewRows : Requests(n, c)
  <1>1. PICK c \in Generated("generated", NextMonday, 0, "none") :
           chains' = Append(chains, c)
    BY DEF Request
  <1>2. NextMonday \in Mondays /\ NextMonday.of = "UTC"
    <2>1. Week + 1 \in Nat /\ Week + 2 \in Nat
      BY DEF ChainTypes, WorldTypes, Week
    <2> QED
      BY <2>1 DEF NextMonday, Mondays
  <1>3. c \in NewRows /\ c.parent = 0 /\ c.week = NextMonday
    BY <1>1, <1>2, GeneratedIsNew DEF ChainTypes, Reasons
  <1>4. PICK n \in Nat : n = Len(chains) /\ chains \in [1..n -> Rows]
    <2>1. chains \in Seq(Rows)
      BY DEF ChainTypes
    <2> QED
      BY <2>1
  <1>5. c \in Rows
    BY <1>3 DEF NewRows
  <1>6. /\ chains' \in Seq(Rows) /\ DOMAIN chains' = 1..(n + 1)
        /\ \A i \in 1..n : chains'[i] = chains[i]
        /\ chains'[n + 1] = c
    BY <1>1, <1>4, <1>5
  <1>7. UNCHANGED <<session, world>>
    BY DEF Request
  <1>8. Requests(n, c)
    BY <1>2, <1>3, <1>4, <1>6, <1>7 DEF Requests
  <1> QED
    BY <1>3, <1>8

(* what s held is gone *)
LEMMA Dropped ==
  ASSUME ChainTypes, NEW s \in Sessions, session' = [session EXCEPT ![s] = Idle]
  PROVE  /\ session' \in [Sessions -> SessionRows] /\ session'[s] = Idle
         /\ \A o \in Sessions \ {s} : session'[o] = session[o]
  <1>1. Idle \in SessionRows
    <2>1. <<>> \in Seq(NewRows)
      OBVIOUS
    <2> QED
      BY <2>1 DEF SessionRows, Idle
  <1> QED
    BY <1>1 DEF ChainTypes

-----------------------------------------------------------------------------
(* What the actions do, by kind.                                            *)

Begins(s, kin, to) ==
    /\ s \in kin /\ session[s] = Idle /\ Holding(s, to)
    /\ session' \in [Sessions -> SessionRows]
    /\ session'[s].step = to.step /\ session'[s].left = to.left
    /\ session'[s].new = to.new
    /\ session'[s].beside <=> Open(kin) # {}
    /\ \A o \in Sessions \ {s} : /\ session'[o].step = session[o].step
                                 /\ session'[o].left = session[o].left
                                 /\ session'[o].new = session[o].new
                                 /\ session[o].beside => session'[o].beside
                                 /\ o \in Open(kin) => session'[o].beside
    /\ \A o \in Sessions : Holding(o, session'[o])
    /\ UNCHANGED <<chains, world>>

(* a run that found no chain of the week it has made one of *)
RunBegins(r) ==
    \E to \in SessionRows, c \in NewRows :
        /\ Begins(r, Runs, to)
        /\ to.step = "generated" /\ to.left = {} /\ to.new = <<c>>
        /\ \A i \in DOMAIN chains : chains[i].week # c.week

MonitorStarts(m) ==
    \E to \in SessionRows :
        /\ Begins(m, Monitors, to)
        /\ to.step = "reading" /\ to.left = Watched /\ to.new = <<>>

(* m has looked at p, and holds what replaces it, if anything does *)
Looks(m, p, add) ==
    /\ session[m].step = "reading" /\ p \in session[m].left
    /\ p \in DOMAIN chains /\ chains[p] \in Rows
    /\ session' \in [Sessions -> SessionRows]
    /\ \A o \in Sessions \ {m} : session'[o] = session[o]
    /\ session'[m].step = "reading" /\ session'[m].beside = session[m].beside
    /\ session'[m].left = session[m].left \ {p}
    /\ session'[m].new = session[m].new \o add
    /\ Holding(m, session'[m])
    /\ \A i \in DOMAIN add : /\ i = 1 /\ add[i].parent = p
                             /\ add[i].reason = RerouteReason(chains[p])
                             /\ add[i].reason # "none"
                             /\ add[i].critical = CriticalNow
    /\ UNCHANGED <<chains, world>>

Drops(s) ==
    /\ session' \in [Sessions -> SessionRows] /\ session'[s] = Idle
    /\ \A o \in Sessions \ {s} : session'[o] = session[o]
    /\ UNCHANGED <<chains, world>>

SessionMoves ==
    \/ \E r \in Runs : RunBegins(r)
    \/ \E m \in Monitors : MonitorStarts(m)
    \/ \E m \in Monitors, p \in Nat, add \in Seq(NewRows) : Looks(m, p, add)
    \/ \E s \in Sessions, n, k \in Nat : \E new \in [1..k -> NewRows] :
          /\ Adds(s, n, k, new)
          /\ s \in Runs => session[s].step = "generated"
          /\ s \in Monitors => session[s].step = "reading"
    \/ \E s \in Sessions, first \in Nat : /\ session[s].step = "sending"
                                          /\ Announces(s, first)
    \/ \E n \in Nat, c \in NewRows : Requests(n, c)
    \/ \E s \in Sessions : Drops(s)
    \/ UNCHANGED <<chains, session>> /\ WorldTypes'

(* every step is one of these *)
LEMMA NextMoves ==
  ASSUME ChainTypes, [Next]_vars
  PROVE  SessionMoves
  <1>0. Runs \subseteq Sessions /\ Monitors \subseteq Sessions /\ Runs \cap Monitors = {}
    BY WeeklyChainsAssumption DEF Sessions
  <1>1. ASSUME NEW r \in Runs, DueGenerates(r) PROVE RunBegins(r)
    <2>1. PICK to \in SessionRows, c \in NewRows :
            /\ session[r] = Idle /\ Begin(r, Runs, to) /\ Holding(r, to)
            /\ to.step = "generated" /\ to.left = {} /\ to.new = <<c>>
            /\ c.parent = 0 /\ \A i \in DOMAIN chains : chains[i].week # c.week
      BY <1>1, DueBegins
    <2>2. /\ session' \in [Sessions -> SessionRows]
          /\ session'[r].step = to.step /\ session'[r].left = to.left
          /\ session'[r].new = to.new
          /\ session'[r].beside <=> Open(Runs) # {}
          /\ \A o \in Sessions \ {r} : /\ session'[o].step = session[o].step
                                       /\ session'[o].left = session[o].left
                                       /\ session'[o].new = session[o].new
                                       /\ session[o].beside => session'[o].beside
                                       /\ o \in Open(Runs) => session'[o].beside
      BY <1>0, <2>1, Begun
    <2>3. \A o \in Sessions : Holding(o, session'[o])
      BY <1>0, <2>1, BegunHolds
    <2>4. Begins(r, Runs, to)
      BY <1>1, <2>1, <2>2, <2>3 DEF Begins, DueGenerates
    <2> QED
      BY <2>1, <2>4 DEF RunBegins
  <1>2. ASSUME NEW m \in Monitors, MonitorReads(m) PROVE MonitorStarts(m)
    <2>1. PICK to \in SessionRows :
            /\ session[m] = Idle /\ Begin(m, Monitors, to) /\ Holding(m, to)
            /\ to.step = "reading" /\ to.left = Watched /\ to.new = <<>>
      BY <1>2, MonitorBegins
    <2>2. /\ session' \in [Sessions -> SessionRows]
          /\ session'[m].step = to.step /\ session'[m].left = to.left
          /\ session'[m].new = to.new
          /\ session'[m].beside <=> Open(Monitors) # {}
          /\ \A o \in Sessions \ {m} : /\ session'[o].step = session[o].step
                                       /\ session'[o].left = session[o].left
                                       /\ session'[o].new = session[o].new
                                       /\ session[o].beside => session'[o].beside
                                       /\ o \in Open(Monitors) => session'[o].beside
      BY <1>0, <2>1, Begun
    <2>3. \A o \in Sessions : Holding(o, session'[o])
      BY <1>0, <2>1, BegunHolds
    <2>4. Begins(m, Monitors, to)
      BY <1>2, <2>1, <2>2, <2>3 DEF Begins, MonitorReads
    <2> QED
      BY <2>1, <2>4 DEF MonitorStarts
  <1>3. ASSUME NEW m \in Monitors, MonitorKeeps(m)
        PROVE  \E p \in Nat, add \in Seq(NewRows) : Looks(m, p, add)
    <2>1. /\ session[m].step = "reading" /\ session[m].left # {}
          /\ Hold(m, <<>>) /\ UNCHANGED <<chains, world>>
      BY <1>3, KeptIsHeld
    <2>2. PICK add \in Seq(NewRows) : add = <<>>
      <3>1. <<>> \in Seq(NewRows)
        OBVIOUS
      <3> QED
        BY <3>1
    <2>3. DOMAIN add = {}
      BY <2>2
    <2>4. PICK p : p = Looking(m)
      OBVIOUS
    <2>5. /\ p \in session[m].left /\ p \in DOMAIN chains
          /\ chains[p] \in Rows
          /\ session' \in [Sessions -> SessionRows]
          /\ \A o \in Sessions \ {m} : session'[o] = session[o]
          /\ session'[m].step = "reading" /\ session'[m].beside = session[m].beside
          /\ session'[m].left = session[m].left \ {p}
          /\ session'[m].new = session[m].new \o add
          /\ Holding(m, session'[m])
      BY <2>1, <2>2, <2>3, <2>4, Held
    <2>6. p \in Nat
      BY <2>5 DEF ChainTypes
    <2>7. Looks(m, p, add)
      BY <2>1, <2>3, <2>5 DEF Looks
    <2> QED
      BY <2>6, <2>7
  <1>4. ASSUME NEW m \in Monitors, MonitorReplaces(m)
        PROVE  \E p \in Nat, add \in Seq(NewRows) : Looks(m, p, add)
    <2>1. PICK c \in NewRows :
            /\ session[m].step = "reading" /\ session[m].left # {}
            /\ Hold(m, <<c>>) /\ UNCHANGED <<chains, world>>
            /\ c.parent = Looking(m) /\ c.parent # 0
            /\ c.reason = RerouteReason(chains[Looking(m)])
            /\ c.reason # "none" /\ c.critical = CriticalNow
      BY <1>4, ReplacedIsHeld
    <2>2. PICK add \in Seq(NewRows) : add = <<c>>
      <3>1. <<c>> \in Seq(NewRows)
        OBVIOUS
      <3> QED
        BY <3>1
    <2>3. \A i \in DOMAIN add : i = 1 /\ add[i] = c
      BY <2>2
    <2>4. PICK p : p = Looking(m)
      OBVIOUS
    <2>5. /\ p \in session[m].left /\ p \in DOMAIN chains
          /\ chains[p] \in Rows
          /\ session' \in [Sessions -> SessionRows]
          /\ \A o \in Sessions \ {m} : session'[o] = session[o]
          /\ session'[m].step = "reading" /\ session'[m].beside = session[m].beside
          /\ session'[m].left = session[m].left \ {p}
          /\ session'[m].new = session[m].new \o add
          /\ Holding(m, session'[m])
      BY <2>1, <2>2, <2>3, <2>4, Held
    <2>6. p \in Nat
      BY <2>5 DEF ChainTypes
    <2>7. Looks(m, p, add)
      BY <2>1, <2>3, <2>4, <2>5 DEF Looks
    <2> QED
      BY <2>6, <2>7
  <1>5. ASSUME NEW s \in Sessions, session' = [session EXCEPT ![s] = Idle],
               UNCHANGED <<chains, world>>
        PROVE  Drops(s)
    BY <1>5, Dropped DEF Drops
  <1>6. ASSUME NEW s \in Sessions, \/ s \in Runs /\ DueCommits(s)
                                   \/ s \in Monitors /\ MonitorCommits(s)
        PROVE  \E n, k \in Nat : \E new \in [1..k -> NewRows] :
                  /\ Adds(s, n, k, new)
                  /\ s \in Runs => session[s].step = "generated"
                  /\ s \in Monitors => session[s].step = "reading"
    <2>1. CASE s \in Runs /\ DueCommits(s)
      <3>1. \E n, k \in Nat : \E new \in [1..k -> NewRows] : Adds(s, n, k, new)
        BY <2>1, DueAdds
      <3>2. session[s].step = "generated" /\ s \notin Monitors
        BY <1>0, <2>1 DEF DueCommits
      <3> QED
        BY <3>1, <3>2
    <2>2. CASE s \in Monitors /\ MonitorCommits(s)
      <3>1. \E n, k \in Nat : \E new \in [1..k -> NewRows] : Adds(s, n, k, new)
        BY <2>2, MonitorAdds
      <3>2. session[s].step = "reading" /\ s \notin Runs
        BY <1>0, <2>2 DEF MonitorCommits
      <3> QED
        BY <3>1, <3>2
    <2> QED
      BY <1>6, <2>1, <2>2
  <1>7. ASSUME NEW s \in Sessions, Announce(s)
        PROVE  \E first \in Nat : session[s].step = "sending" /\ Announces(s, first)
    <2>1. PICK first \in Nat : Announces(s, first)
      BY <1>7, Announced
    <2> QED
      BY <1>7, <2>1 DEF Announce
  <1>8. ASSUME ZoneChanges \/ WeatherChanges \/ ScoreChanges \/ LaneChanges \/ TimePasses
        PROVE  UNCHANGED <<chains, session>> /\ WorldTypes'
    <2>1. CASE ZoneChanges
      <3>1. PICK z \in Troubled, s \in Severities :
               zone' = [zone EXCEPT ![z] = s]
        BY <2>1 DEF ZoneChanges
      <3>2. UNCHANGED <<chains, session, score, clock>>
        BY <2>1 DEF ZoneChanges
      <3> QED
        BY <3>1, <3>2 DEF ChainTypes, WorldTypes
    <2>2. CASE WeatherChanges
      BY <2>2 DEF ChainTypes, WorldTypes, WeatherChanges
    <2>3. CASE ScoreChanges
      BY <2>3 DEF ChainTypes, WorldTypes, ScoreChanges, OtherScore
    <2>4. CASE LaneChanges
      BY <2>4 DEF ChainTypes, WorldTypes, LaneChanges
    <2>5. CASE TimePasses
      BY <2>5 DEF ChainTypes, WorldTypes, TimePasses
    <2> QED
      BY <1>8, <2>1, <2>2, <2>3, <2>4, <2>5
  <1>9. ASSUME UNCHANGED vars PROVE UNCHANGED <<chains, session>> /\ WorldTypes'
    BY <1>9 DEF vars, ChainTypes, WorldTypes
  <1>10. CASE Next
    <2>1. CASE \E r \in Runs : DueGenerates(r) \/ DueCommits(r)
      BY <1>0, <1>1, <1>6, <2>1 DEF SessionMoves
    <2>2. CASE Request
      BY <2>2, Requested DEF SessionMoves
    <2>3. ASSUME NEW m \in Monitors,
                 \/ MonitorReads(m) \/ MonitorKeeps(m) \/ MonitorReplaces(m)
                 \/ MonitorRaises(m) \/ MonitorCommits(m)
          PROVE  SessionMoves
      <3>1. CASE MonitorReads(m)
        BY <1>2, <3>1 DEF SessionMoves
      <3>2. CASE MonitorKeeps(m)
        BY <1>3, <3>2 DEF SessionMoves
      <3>3. CASE MonitorReplaces(m)
        BY <1>4, <3>3 DEF SessionMoves
      <3>4. CASE MonitorRaises(m)
        <4>1. Drops(m)
          BY <1>0, <1>5, <3>4 DEF MonitorRaises
        <4> QED
          BY <1>0, <4>1 DEF SessionMoves
      <3>5. CASE MonitorCommits(m)
        BY <1>0, <1>6, <3>5 DEF SessionMoves
      <3> QED
        BY <2>3, <3>1, <3>2, <3>3, <3>4, <3>5
    <2>4. ASSUME NEW s \in Sessions, Announce(s) \/ Abort(s) PROVE SessionMoves
      <3>1. CASE Announce(s)
        BY <1>7, <3>1 DEF SessionMoves
      <3>2. CASE Abort(s)
        <4>1. Drops(s)
          BY <1>5, <3>2 DEF Abort
        <4> QED
          BY <4>1 DEF SessionMoves
      <3> QED
        BY <2>4, <3>1, <3>2
    <2>5. CASE ZoneChanges \/ WeatherChanges \/ ScoreChanges \/ LaneChanges \/ TimePasses
      BY <1>8, <2>5 DEF SessionMoves
    <2> QED
      BY <1>10, <2>1, <2>2, <2>3, <2>4, <2>5 DEF Next
  <1> QED
    BY <1>9, <1>10 DEF SessionMoves

(* the types hold at first *)
LEMMA ChainTypesInit == Init => ChainTypes
  <1> SUFFICES ASSUME Init PROVE ChainTypes
    OBVIOUS
  <1>1. WorldTypes
    BY DEF Init, WorldTypes
  <1>2. chains \in Seq(Rows)
    <2>1. <<>> \in Seq(Rows)
      OBVIOUS
    <2> QED
      BY <2>1 DEF Init
  <1>3. Idle \in SessionRows
    <2>1. <<>> \in Seq(NewRows)
      OBVIOUS
    <2> QED
      BY <2>1 DEF SessionRows, Idle
  <1>4. \A s \in Sessions : Holding(s, Idle) /\ Idle.left = {}
    BY DEF Holding, Idle
  <1> QED
    BY <1>1, <1>2, <1>3, <1>4 DEF Init, ChainTypes

(* every step keeps the types *)
LEMMA ChainTypesStep == ChainTypes /\ [Next]_vars => ChainTypes'
  <1> SUFFICES ASSUME ChainTypes, [Next]_vars PROVE ChainTypes'
    OBVIOUS
  <1>0. Runs \subseteq Sessions /\ Monitors \subseteq Sessions
    BY DEF Sessions
  <1>1. ASSUME UNCHANGED world PROVE WorldTypes'
    BY <1>1 DEF ChainTypes, WorldTypes, world
  <1>2. ASSUME UNCHANGED <<chains, world>>,
               session' \in [Sessions -> SessionRows],
               \A s \in Sessions : /\ Holding(s, session'[s])
                                   /\ session'[s].left \subseteq DOMAIN chains
        PROVE  ChainTypes'
    <2>1. WorldTypes'
      BY <1>1, <1>2
    <2>2. (chains \in Seq(Rows))'
      BY <1>2 DEF ChainTypes
    <2> QED
      BY <1>2, <2>1, <2>2 DEF ChainTypes
  <1>3. ASSUME NEW s \in Sessions, NEW kin, NEW to, Begins(s, kin, to),
               to.left \subseteq DOMAIN chains
        PROVE  ChainTypes'
    <2>1. \A o \in Sessions : session'[o].left \subseteq DOMAIN chains
      BY <1>3 DEF Begins, ChainTypes
    <2> QED
      BY <1>2, <1>3, <2>1 DEF Begins
  <1>4. ASSUME NEW m \in Monitors, NEW p, NEW add, Looks(m, p, add) PROVE ChainTypes'
    <2>1. \A o \in Sessions : /\ Holding(o, session'[o])
                              /\ session'[o].left \subseteq DOMAIN chains
      BY <1>0, <1>4 DEF Looks, ChainTypes
    <2> QED
      BY <1>2, <1>4, <2>1 DEF Looks
  <1>5. ASSUME NEW s \in Sessions, NEW n \in Nat, NEW k \in Nat,
               NEW new \in [1..k -> NewRows], Adds(s, n, k, new)
        PROVE  ChainTypes'
    <2>1. DOMAIN chains = 1..n /\ DOMAIN chains' = 1..(n + k)
      BY <1>5 DEF Adds
    <2>2. \A o \in Sessions \ {s} : /\ Holding(o, session'[o])
                                    /\ session'[o].left \subseteq DOMAIN chains'
      BY <1>5, <2>1 DEF Adds, ChainTypes
    <2>3. /\ Holding(s, session'[s])
          /\ session'[s].left \subseteq DOMAIN chains'
      <3>1. CASE k = 0
        BY <1>5, <3>1 DEF Adds, Holding, Idle
      <3>2. CASE k # 0
        <4>1. /\ session'[s].step = "sending"
              /\ session'[s].left = {n + j : j \in 1..k}
              /\ session'[s].new = <<>>
          BY <1>5, <3>2 DEF Adds
        <4>2. n + 1 \in {n + j : j \in 1..k}
          BY <3>2
        <4> QED
          BY <2>1, <4>1, <4>2 DEF Holding
      <3> QED
        BY <3>1, <3>2
    <2>4. WorldTypes'
      BY <1>1, <1>5 DEF Adds
    <2>5. chains' \in Seq(Rows) /\ session' \in [Sessions -> SessionRows]
      BY <1>5 DEF Adds
    <2> QED
      BY <2>2, <2>3, <2>4, <2>5 DEF ChainTypes
  <1>6. ASSUME NEW s \in Sessions, NEW first, Announces(s, first) PROVE ChainTypes'
    <2>1. \A o \in Sessions \ {s} : /\ Holding(o, session'[o])
                                    /\ session'[o].left \subseteq DOMAIN chains'
      BY <1>6 DEF Announces, ChainTypes
    <2>2. /\ Holding(s, session'[s])
          /\ session'[s].left \subseteq DOMAIN chains'
      <3>1. CASE session'[s] = Idle
        BY <3>1 DEF Holding, Idle
      <3>2. CASE session'[s] # Idle
        BY <1>6, <3>2 DEF Announces, Holding, ChainTypes
      <3> QED
        BY <3>1, <3>2
    <2>3. WorldTypes'
      BY <1>1, <1>6 DEF Announces
    <2>4. chains' \in Seq(Rows) /\ session' \in [Sessions -> SessionRows]
      BY <1>6 DEF Announces
    <2> QED
      BY <2>1, <2>2, <2>3, <2>4 DEF ChainTypes
  <1>7. ASSUME NEW n \in Nat, NEW c \in NewRows, Requests(n, c) PROVE ChainTypes'
    <2>1. DOMAIN chains \subseteq DOMAIN chains'
      BY <1>7 DEF Requests
    <2>2. session' = session /\ session \in [Sessions -> SessionRows]
      BY <1>7 DEF Requests, ChainTypes
    <2>3. \A s \in Sessions : /\ Holding(s, session'[s])
                              /\ session'[s].left \subseteq DOMAIN chains'
      BY <2>1, <2>2 DEF ChainTypes
    <2>4. WorldTypes'
      BY <1>1, <1>7 DEF Requests
    <2>5. chains' \in Seq(Rows)
      BY <1>7 DEF Requests
    <2> QED
      BY <2>2, <2>3, <2>4, <2>5 DEF ChainTypes
  <1>8. ASSUME NEW s \in Sessions, Drops(s) PROVE ChainTypes'
    <2>1. \A o \in Sessions : /\ Holding(o, session'[o])
                              /\ session'[o].left \subseteq DOMAIN chains
      BY <1>8 DEF Drops, ChainTypes, Holding, Idle
    <2> QED
      BY <1>2, <1>8, <2>1 DEF Drops
  <1>9. ASSUME UNCHANGED <<chains, session>>, WorldTypes' PROVE ChainTypes'
    BY <1>9 DEF ChainTypes
  <1>10. ASSUME NEW r \in Runs, RunBegins(r) PROVE ChainTypes'
    <2>1. PICK to \in SessionRows : Begins(r, Runs, to) /\ to.left = {}
      BY <1>10 DEF RunBegins
    <2> QED
      BY <1>0, <1>3, <2>1
  <1>11. ASSUME NEW m \in Monitors, MonitorStarts(m) PROVE ChainTypes'
    <2>1. PICK to \in SessionRows : Begins(m, Monitors, to) /\ to.left = Watched
      BY <1>11 DEF MonitorStarts
    <2>2. Watched \subseteq DOMAIN chains
      BY DEF Watched
    <2> QED
      BY <1>0, <1>3, <2>1, <2>2
  <1> QED
    BY <1>4, <1>5, <1>6, <1>7, <1>8, <1>9, <1>10, <1>11, NextMoves DEF SessionMoves

-----------------------------------------------------------------------------
(* ReroutesExplained.  What explains a chain is in the two chains, and      *)
(* neither of them changes what it says of itself: so the explanation holds *)
(* when the monitor looks, and is carried to the commit and from there on.  *)
Explained(c, p) ==
    /\ c.reason = "broker" => \E d \in DOMAIN p.legs :
        p.legs[d].broker < 70 /\ "broker" \in p.legs[d].other
    /\ c.reason = "dead" => \E d \in DOMAIN p.legs :
        /\ p.legs[d].to \in c.critical
        /\ p.legs[d].chosen => p.legs[d].to \notin p.critical
    /\ c.reason = "weather" => \E d \in DOMAIN p.legs :
        p.legs[d].severe /\ (p.legs[d].chosen => "weather" \in p.legs[d].other)
    /\ c.reason = "rate" => \E d \in DOMAIN p.legs :
        <<p.legs[d].from, p.legs[d].to>> \in Tracked \/ p.legs[d].rate >= 257

Accounted(c) ==
    c.parent # 0 => c.parent \in DOMAIN chains /\ Explained(c, chains[c.parent])

ReasonsInv ==
    /\ \A i \in DOMAIN chains : Accounted(chains[i])
    /\ \A s \in Sessions : \A k \in DOMAIN session[s].new : Accounted(session[s].new[k])

(* what a monitor finds explains the chain it makes of it *)
LEMMA FoundIsExplained ==
  ASSUME NEW p \in Rows, NEW c, c.reason = RerouteReason(p), c.reason # "none",
         c.critical = CriticalNow
  PROVE  Explained(c, p)
  <1>1. PICK t \in Reasons : t = RerouteReason(p)
    BY ReasonIsFound
  <1>2. PICK d \in DOMAIN p.legs : Holds(t, p.legs[d])
    BY <1>1, ReasonIsFound
  <1>3. PICK leg \in GoodLegs(p.critical) : leg = p.legs[d]
    BY DEF Rows
  <1>4. /\ leg.broker >= 70 \/ "broker" \in leg.other
        /\ leg.broker \in Int /\ leg.rate \in Int /\ leg.to \in Zips
        /\ leg.chosen => /\ leg.to \notin p.critical
                         /\ leg.severe => "weather" \in leg.other
    BY DEF GoodLegs, AnyLegs
  <1>5. Holds(t, leg)
    BY <1>2, <1>3
  <1>6. t = "broker" => leg.broker < 70 /\ "broker" \in leg.other
    <2>1. t = "broker" => leg.broker < 70
      BY <1>5 DEF Holds
    <2> QED
      BY <1>4, <2>1
  <1>7. t = "dead" => leg.to \in CriticalNow
    BY <1>4, <1>5 DEF Holds, CriticalNow
  <1>8. t = "weather" => leg.severe
    BY <1>5 DEF Holds
  <1>9. t = "rate" => <<leg.from, leg.to>> \in Tracked \/ leg.rate >= 257
    <2> SUFFICES ASSUME t = "rate", <<leg.from, leg.to>> \notin Tracked
                 PROVE  leg.rate >= 257
      OBVIOUS
    <2>1. 210 * 100 < leg.rate * 82
      BY <1>5 DEF Holds
    <2> QED
      BY <1>4, <2>1
  <1> QED
    BY <1>1, <1>3, <1>4, <1>6, <1>7, <1>8, <1>9 DEF Explained

(* and still does when chains are added or change their status *)
LEMMA AccountedKept ==
  ASSUME DOMAIN chains \subseteq DOMAIN chains',
         \A i \in DOMAIN chains : Keeps(chains'[i], chains[i]),
         NEW c, NEW d, Keeps(d, c), Accounted(c)
  PROVE  Accounted(d)'
  <1> SUFFICES ASSUME d.parent # 0
               PROVE  d.parent \in DOMAIN chains' /\ Explained(d, chains'[d.parent])
    BY DEF Accounted
  <1>1. /\ d.parent = c.parent /\ d.reason = c.reason /\ d.critical = c.critical
        /\ d.parent \in DOMAIN chains /\ Explained(c, chains[d.parent])
    BY DEF Keeps, Accounted
  <1>2. PICK p, q : p = chains[d.parent] /\ q = chains'[d.parent]
    OBVIOUS
  <1>3. q.legs = p.legs /\ q.critical = p.critical
    BY <1>1, <1>2 DEF Keeps
  <1>4. Explained(d, q)
    BY <1>1, <1>2, <1>3 DEF Explained
  <1> QED
    BY <1>1, <1>2, <1>4

(* no chain has a reason at first *)
LEMMA ReasonsInit == Init => ReasonsInv
  BY DEF Init, ReasonsInv, Idle

(* every step keeps ReasonsInv *)
LEMMA ReasonsStep == ChainTypes /\ ReasonsInv /\ [Next]_vars => ReasonsInv'
  <1> SUFFICES ASSUME ChainTypes, ReasonsInv, [Next]_vars PROVE ReasonsInv'
    OBVIOUS
  <1>0. Runs \subseteq Sessions /\ Monitors \subseteq Sessions
    BY DEF Sessions
  <1>1. ASSUME DOMAIN chains \subseteq DOMAIN chains',
               \A i \in DOMAIN chains : Keeps(chains'[i], chains[i])
        PROVE  /\ \A i \in DOMAIN chains : Accounted(chains[i])'
               /\ \A s \in Sessions : \A k \in DOMAIN session[s].new :
                     \A d : Keeps(d, session[s].new[k]) => Accounted(d)'
    <2>1. ASSUME NEW i \in DOMAIN chains PROVE Accounted(chains[i])'
      <3>1. PICK c, d : c = chains[i] /\ d = chains'[i]
        OBVIOUS
      <3>2. Accounted(c) /\ Keeps(d, c)
        BY <1>1, <3>1 DEF ReasonsInv
      <3>3. Accounted(d)'
        BY <1>1, <3>2, AccountedKept
      <3> QED
        BY <3>1, <3>3 DEF Accounted
    <2>2. ASSUME NEW s \in Sessions, NEW k \in DOMAIN session[s].new, NEW d,
                 Keeps(d, session[s].new[k])
          PROVE  Accounted(d)'
      <3>1. PICK c : c = session[s].new[k]
        OBVIOUS
      <3>2. Accounted(c) /\ Keeps(d, c)
        BY <2>2, <3>1 DEF ReasonsInv
      <3> QED
        BY <1>1, <3>2, AccountedKept
    <2> QED
      BY <2>1, <2>2
  <1>2. \A c : Keeps(c, c)
    BY DEF Keeps
  <1>3. ASSUME DOMAIN chains' = DOMAIN chains,
               \A i \in DOMAIN chains : Keeps(chains'[i], chains[i]),
               \A s \in Sessions : \/ session'[s].new = session[s].new
                                   \/ session'[s].new = <<>>
        PROVE  ReasonsInv'
    <2>1. \A i \in DOMAIN chains' : Accounted(chains[i])'
      BY <1>1, <1>3
    <2>2. ASSUME NEW s \in Sessions, NEW k \in DOMAIN session'[s].new
          PROVE  Accounted(session[s].new[k])'
      <3>1. k \in DOMAIN session[s].new /\ session'[s].new = session[s].new
        BY <1>3, <2>2
      <3>2. PICK d : d = session'[s].new[k]
        OBVIOUS
      <3>3. Keeps(d, session[s].new[k])
        BY <1>2, <3>1, <3>2
      <3>4. Accounted(d)'
        BY <1>1, <1>3, <3>1, <3>3
      <3> QED
        BY <3>2, <3>4 DEF Accounted
    <2> QED
      BY <2>1, <2>2 DEF ReasonsInv
  <1>4. ASSUME NEW r \in Runs, RunBegins(r) PROVE ReasonsInv'
    <2>1. PICK to \in SessionRows, c \in NewRows :
            Begins(r, Runs, to) /\ to.step = "generated" /\ to.new = <<c>>
      BY <1>4 DEF RunBegins
    <2>2. UNCHANGED chains
      BY <2>1 DEF Begins
    <2>3. \A i \in DOMAIN chains' : Accounted(chains[i])'
      BY <1>1, <1>2, <2>2
    <2>4. ASSUME NEW s \in Sessions \ {r}, NEW k \in DOMAIN session'[s].new
          PROVE  Accounted(session[s].new[k])'
      <3>1. session'[s].new = session[s].new /\ k \in DOMAIN session[s].new
        BY <2>1 DEF Begins
      <3>2. PICK d : d = session'[s].new[k]
        OBVIOUS
      <3>3. Keeps(d, session[s].new[k])
        BY <1>2, <3>1, <3>2
      <3>4. Accounted(d)'
        BY <1>1, <1>2, <2>2, <3>1, <3>3
      <3> QED
        BY <3>2, <3>4 DEF Accounted
    <2>5. ASSUME NEW k \in DOMAIN session'[r].new PROVE Accounted(session[r].new[k])'
      <3>1. session'[r].new[k].parent = 0
        BY <1>0, <2>1 DEF Begins, Holding
      <3> QED
        BY <3>1 DEF Accounted
    <2> QED
      BY <2>3, <2>4, <2>5 DEF ReasonsInv
  <1>5. ASSUME NEW m \in Monitors, MonitorStarts(m) PROVE ReasonsInv'
    <2>1. PICK to \in SessionRows : Begins(m, Monitors, to) /\ to.new = <<>>
      BY <1>5 DEF MonitorStarts
    <2>2. UNCHANGED chains
      BY <2>1 DEF Begins
    <2>3. \A s \in Sessions : \/ session'[s].new = session[s].new
                              \/ session'[s].new = <<>>
      BY <2>1 DEF Begins
    <2> QED
      BY <1>2, <1>3, <2>2, <2>3
  <1>6. ASSUME NEW m \in Monitors, NEW p \in Nat, NEW add \in Seq(NewRows),
               Looks(m, p, add)
        PROVE  ReasonsInv'
    <2>1. UNCHANGED chains
      BY <1>6 DEF Looks
    <2>2. \A i \in DOMAIN chains' : Accounted(chains[i])'
      BY <1>1, <1>2, <2>1
    <2>3. ASSUME NEW s \in Sessions \ {m}, NEW k \in DOMAIN session'[s].new
          PROVE  Accounted(session[s].new[k])'
      <3>1. session'[s].new = session[s].new /\ k \in DOMAIN session[s].new
        BY <1>6 DEF Looks
      <3>2. PICK d : d = session'[s].new[k]
        OBVIOUS
      <3>3. Keeps(d, session[s].new[k])
        BY <1>2, <3>1, <3>2
      <3>4. Accounted(d)'
        BY <1>1, <1>2, <2>1, <3>1, <3>3
      <3> QED
        BY <3>2, <3>4 DEF Accounted
    <2>4. ASSUME NEW k \in DOMAIN session'[m].new PROVE Accounted(session[m].new[k])'
      <3>1. PICK new \in Seq(NewRows) : new = session[m].new
        BY <1>0 DEF ChainTypes, SessionRows
      <3>2. session'[m].new = new \o add
        BY <1>6, <3>1 DEF Looks
      <3>3. \/ k \in DOMAIN new /\ (new \o add)[k] = new[k]
            \/ \E i \in DOMAIN add : (new \o add)[k] = add[i]
        <4>1. k \in 1..(Len(new) + Len(add)) /\ Len(new) \in Nat /\ Len(add) \in Nat
          BY <3>2
        <4>2. CASE k <= Len(new)
          BY <4>1, <4>2
        <4>3. CASE ~(k <= Len(new))
          <5>1. k - Len(new) \in DOMAIN add /\ (new \o add)[k] = add[k - Len(new)]
            BY <4>1, <4>3
          <5> QED
            BY <5>1
        <4> QED
          BY <4>2, <4>3
      <3>4. CASE k \in DOMAIN new /\ (new \o add)[k] = new[k]
        <4>1. PICK d : d = session'[m].new[k]
          OBVIOUS
        <4>2. k \in DOMAIN session[m].new /\ Keeps(d, session[m].new[k])
          BY <1>2, <3>1, <3>2, <3>4, <4>1
        <4>3. Accounted(d)'
          BY <1>0, <1>1, <1>2, <2>1, <4>2
        <4> QED
          BY <4>1, <4>3 DEF Accounted
      <3>5. ASSUME NEW i \in DOMAIN add, (new \o add)[k] = add[i]
            PROVE  Accounted(session[m].new[k])'
        <4>1. PICK c : c = add[i]
          OBVIOUS
        <4>2. /\ c.parent = p /\ c.reason = RerouteReason(chains[p])
              /\ c.reason # "none" /\ c.critical = CriticalNow
              /\ p \in DOMAIN chains /\ chains[p] \in Rows
          BY <1>6, <4>1 DEF Looks
        <4>3. PICK q \in Rows : q = chains[p]
          BY <4>2
        <4>4. Explained(c, q)
          BY <4>2, <4>3, FoundIsExplained
        <4>5. Accounted(c)'
          BY <2>1, <4>2, <4>3, <4>4 DEF Accounted
        <4>6. session'[m].new[k] = c
          BY <3>2, <3>5, <4>1
        <4> QED
          BY <4>5, <4>6 DEF Accounted
      <3> QED
        BY <3>3, <3>4, <3>5
    <2> QED
      BY <2>2, <2>3, <2>4 DEF ReasonsInv
  <1>7. ASSUME NEW s \in Sessions, NEW n \in Nat, NEW k \in Nat,
               NEW new \in [1..k -> NewRows], Adds(s, n, k, new)
        PROVE  ReasonsInv'
    <2>1. /\ DOMAIN chains = 1..n /\ DOMAIN chains' = 1..(n + k)
          /\ \A i \in DOMAIN chains : Keeps(chains'[i], chains[i])
      BY <1>7 DEF Adds
    <2>2. DOMAIN chains \subseteq DOMAIN chains'
      BY <2>1
    <2>3. ASSUME NEW i \in DOMAIN chains' PROVE Accounted(chains[i])'
      <3>1. CASE i \in 1..n
        BY <1>1, <2>1, <2>2, <3>1
      <3>2. CASE i \notin 1..n
        <4>1. PICK j \in 1..k : i = n + j
          <5>1. i - n \in 1..k /\ i = n + (i - n)
            BY <2>1, <3>2
          <5> QED
            BY <5>1
        <4>2. PICK d : d = chains'[i]
          OBVIOUS
        <4>3. j \in DOMAIN session[s].new /\ Keeps(d, session[s].new[j])
          BY <1>7, <4>1, <4>2 DEF Adds
        <4>4. Accounted(d)'
          BY <1>1, <2>1, <2>2, <4>3
        <4> QED
          BY <4>2, <4>4 DEF Accounted
      <3> QED
        BY <3>1, <3>2
    <2>4. ASSUME NEW o \in Sessions, NEW l \in DOMAIN session'[o].new
          PROVE  Accounted(session[o].new[l])'
      <3>1. o # s
        BY <1>7 DEF Adds, Idle
      <3>2. session'[o].new = session[o].new
        BY <1>7, <3>1 DEF Adds
      <3>3. PICK d : d = session'[o].new[l]
        OBVIOUS
      <3>4. l \in DOMAIN session[o].new /\ Keeps(d, session[o].new[l])
        BY <1>2, <3>2, <3>3
      <3>5. Accounted(d)'
        BY <1>1, <2>1, <2>2, <3>4
      <3> QED
        BY <3>3, <3>5 DEF Accounted
    <2> QED
      BY <2>3, <2>4 DEF ReasonsInv
  <1>8. ASSUME NEW s \in Sessions, NEW first, Announces(s, first) PROVE ReasonsInv'
    <2>1. \A o \in Sessions : \/ session'[o].new = session[o].new
                              \/ session'[o].new = <<>>
      BY <1>8 DEF Announces, Idle
    <2> QED
      BY <1>3, <1>8, <2>1 DEF Announces
  <1>9. ASSUME NEW n \in Nat, NEW c \in NewRows, Requests(n, c) PROVE ReasonsInv'
    <2>1. /\ DOMAIN chains = 1..n /\ DOMAIN chains' = 1..(n + 1)
          /\ \A i \in DOMAIN chains : Keeps(chains'[i], chains[i])
      BY <1>2, <1>9 DEF Requests
    <2>2. DOMAIN chains \subseteq DOMAIN chains'
      BY <2>1
    <2>3. ASSUME NEW i \in DOMAIN chains' PROVE Accounted(chains[i])'
      <3>1. CASE i \in 1..n
        BY <1>1, <2>1, <2>2, <3>1
      <3>2. CASE i \notin 1..n
        <4>1. i = n + 1
          BY <2>1, <3>2
        <4>2. chains'[i].parent = 0
          BY <1>9, <4>1 DEF Requests
        <4> QED
          BY <4>2 DEF Accounted
      <3> QED
        BY <3>1, <3>2
    <2>4. ASSUME NEW o \in Sessions, NEW l \in DOMAIN session'[o].new
          PROVE  Accounted(session[o].new[l])'
      <3>2. session'[o].new = session[o].new
        BY <1>9 DEF Requests
      <3>3. PICK d : d = session'[o].new[l]
        OBVIOUS
      <3>4. l \in DOMAIN session[o].new /\ Keeps(d, session[o].new[l])
        BY <1>2, <3>2, <3>3
      <3>5. Accounted(d)'
        BY <1>1, <2>1, <2>2, <3>4
      <3> QED
        BY <3>3, <3>5 DEF Accounted
    <2> QED
      BY <2>3, <2>4 DEF ReasonsInv
  <1>10. ASSUME NEW s \in Sessions, Drops(s) PROVE ReasonsInv'
    <2>1. \A o \in Sessions : \/ session'[o].new = session[o].new
                              \/ session'[o].new = <<>>
      BY <1>10 DEF Drops, Idle
    <2> QED
      BY <1>2, <1>3, <1>10, <2>1 DEF Drops
  <1>11. ASSUME UNCHANGED <<chains, session>> PROVE ReasonsInv'
    BY <1>2, <1>3, <1>11
  <1> QED
    BY <1>4, <1>5, <1>6, <1>7, <1>8, <1>9, <1>10, <1>11, NextMoves DEF SessionMoves

(* Whatever a chain is replaced for has happened since it was generated, or *)
(* is of a leg that was not vetted or whose record was read anew, in every  *)
(* state of weekly_chain.                                                   *)
THEOREM ReroutesHaveReasons == Spec => []ReroutesExplained
  <1>1. ChainTypes /\ ReasonsInv => ReroutesExplained
    <2> SUFFICES ASSUME ReasonsInv, NEW i \in DOMAIN chains, chains[i].parent # 0
                 PROVE  LET p == chains[i].parent IN
                          /\ chains[i].reason = "broker" => \E leg \in Legs(p) :
                              leg.broker < 70 /\ "broker" \in leg.other
                          /\ chains[i].reason = "dead" => \E leg \in Legs(p) :
                              /\ leg.to \in chains[i].critical
                              /\ leg.chosen => leg.to \notin chains[p].critical
                          /\ chains[i].reason = "weather" => \E leg \in Legs(p) :
                              leg.severe /\ (leg.chosen => "weather" \in leg.other)
                          /\ chains[i].reason = "rate" => \E leg \in Legs(p) :
                              <<leg.from, leg.to>> \in Tracked \/ leg.rate >= 257
      BY DEF ReroutesExplained, Rerouted
    <2>1. PICK c, p, q : c = chains[i] /\ p = c.parent /\ q = chains[p]
      OBVIOUS
    <2>2. Explained(c, q)
      BY <2>1 DEF ReasonsInv, Accounted
    <2>3. \A d \in DOMAIN q.legs : q.legs[d] \in Legs(p)
      BY <2>1 DEF Legs
    <2>4. /\ c.reason = "broker" => \E leg \in Legs(p) :
              leg.broker < 70 /\ "broker" \in leg.other
          /\ c.reason = "dead" => \E leg \in Legs(p) :
              /\ leg.to \in c.critical
              /\ leg.chosen => leg.to \notin q.critical
          /\ c.reason = "weather" => \E leg \in Legs(p) :
              leg.severe /\ (leg.chosen => "weather" \in leg.other)
          /\ c.reason = "rate" => \E leg \in Legs(p) :
              <<leg.from, leg.to>> \in Tracked \/ leg.rate >= 257
      BY <2>2, <2>3 DEF Explained
    <2> QED
      BY <2>1, <2>4
  <1> QED
    BY <1>1, ChainTypesInit, ChainTypesStep, ReasonsInit, ReasonsStep, PTL DEF Spec

-----------------------------------------------------------------------------
(* OneChainPerCause.  Two open sessions of a kind are beside each other.  A *)
(* chain that is added while a session holds one of its cause comes from    *)
(* such a session: so both, and both chains, are marked.                    *)

OpenBeside ==
    \A s, t \in Sessions :
        s # t /\ session[s].step = session[t].step
              /\ session[s].step \in {"generated", "reading"} => session[s].beside

(* what a run holds is of no week that has a chain *)
WeekFree(s) ==
    session[s].step = "generated" =>
        \A k \in DOMAIN session[s].new, i \in DOMAIN chains :
            session[s].new[k].week.of = "local"
            /\ chains[i].week = session[s].new[k].week
               => chains[i].beside /\ session[s].beside

(* the chains that a monitor has yet to look at, and those it replaces *)
Taken(r) == r.left \cup {r.new[k].parent : k \in DOMAIN r.new}

ParentFree(s) ==
    session[s].step = "reading" =>
        /\ \A k \in DOMAIN session[s].new :
              /\ session[s].new[k].parent \in DOMAIN chains \ session[s].left
              /\ \A l \in DOMAIN session[s].new :
                    session[s].new[k].parent = session[s].new[l].parent => k = l
        /\ \A i \in DOMAIN chains :
              chains[i].parent \in Taken(session[s])
                 => chains[i].beside /\ session[s].beside

Successors ==
    \A i \in DOMAIN chains :
        /\ chains[i].parent \in {0} \cup DOMAIN chains
        /\ chains[i].status = "superseded" <=>
              \E j \in DOMAIN chains : chains[j].parent = i

SameCause(c, d) ==
    \/ c.week.of = "local" /\ c.week = d.week
    \/ c.parent # 0 /\ c.parent = d.parent

OneEach ==
    \A i, j \in DOMAIN chains :
        i # j /\ SameCause(chains[i], chains[j]) => chains[i].beside

Outbox ==
    /\ \A i \in DOMAIN chains : chains[i].sent <= 1
    /\ \A s \in Sessions : session[s].step = "sending" =>
          /\ \A i \in session[s].left : chains[i].sent = 0
          /\ \A t \in Sessions : t # s /\ session[t].step = "sending"
                                    => session[s].left \cap session[t].left = {}

CauseInv ==
    /\ OpenBeside /\ Successors /\ OneEach /\ Outbox
    /\ \A s \in Sessions : WeekFree(s) /\ ParentFree(s)

(* there is no cause at first *)
LEMMA CauseInit == Init => CauseInv
  BY DEF Init, CauseInv, OpenBeside, Successors, OneEach, Outbox, WeekFree,
         ParentFree, Idle

(* a session that begins marks, and is marked by, those that are open *)
LEMMA OpenBesideStep == ChainTypes /\ OpenBeside /\ [Next]_vars => OpenBeside'
  <1> SUFFICES ASSUME ChainTypes, OpenBeside, [Next]_vars PROVE OpenBeside'
    OBVIOUS
  <1>0. Runs \subseteq Sessions /\ Monitors \subseteq Sessions
    BY DEF Sessions
  <1>1. ASSUME \A s \in Sessions :
                  \/ session'[s].step \notin {"generated", "reading"}
                  \/ /\ session'[s].step = session[s].step
                     /\ session[s].beside => session'[s].beside
        PROVE  OpenBeside'
    BY <1>1 DEF OpenBeside
  <1>2. ASSUME NEW r, NEW kin \in {Runs, Monitors}, NEW to, Begins(r, kin, to),
               to.step = IF kin = Runs THEN "generated" ELSE "reading"
        PROVE  OpenBeside'
    <2>0. r \in Sessions
      BY <1>0, <1>2 DEF Begins
    <2>1. ASSUME NEW o \in Sessions, session[o].step = to.step PROVE o \in Open(kin)
      <3>1. Holding(o, session[o])
        BY DEF ChainTypes
      <3> QED
        BY <1>2, <2>1, <3>1 DEF Open, Holding
    <2> SUFFICES ASSUME NEW s \in Sessions, NEW t \in Sessions, s # t,
                        session'[s].step = session'[t].step,
                        session'[s].step \in {"generated", "reading"}
                 PROVE  session'[s].beside
      BY DEF OpenBeside
    <2>2. CASE s = r
      <3>1. session[t].step = to.step
        BY <1>2, <2>2 DEF Begins
      <3> QED
        BY <1>2, <2>1, <2>2, <3>1 DEF Begins
    <2>3. CASE t = r
      <3>1. session[s].step = to.step
        BY <1>2, <2>3 DEF Begins
      <3> QED
        BY <1>2, <2>1, <2>3, <3>1 DEF Begins
    <2>4. CASE s # r /\ t # r
      BY <1>2, <2>4 DEF Begins, OpenBeside
    <2> QED
      BY <2>2, <2>3, <2>4
  <1>3. ASSUME NEW r \in Runs, RunBegins(r) PROVE OpenBeside'
    BY <1>2, <1>3 DEF RunBegins
  <1>4. ASSUME NEW m \in Monitors, MonitorStarts(m) PROVE OpenBeside'
    <2>1. Monitors # Runs
      BY <1>4, WeeklyChainsAssumption
    <2> QED
      BY <1>2, <1>4, <2>1 DEF MonitorStarts
  <1>5. ASSUME NEW m \in Monitors, NEW p \in Nat, NEW add \in Seq(NewRows),
               Looks(m, p, add)
        PROVE  OpenBeside'
    BY <1>1, <1>5 DEF Looks
  <1>6. ASSUME NEW s \in Sessions, NEW n \in Nat, NEW k \in Nat,
               NEW new \in [1..k -> NewRows], Adds(s, n, k, new)
        PROVE  OpenBeside'
    <2>1. session'[s].step \notin {"generated", "reading"}
      BY <1>6 DEF Adds, Idle
    <2> QED
      BY <1>1, <1>6, <2>1 DEF Adds
  <1>7. ASSUME NEW s \in Sessions, NEW first, Announces(s, first) PROVE OpenBeside'
    <2>1. session'[s].step \notin {"generated", "reading"}
      BY <1>7 DEF Announces, Idle
    <2> QED
      BY <1>1, <1>7, <2>1 DEF Announces
  <1>8. ASSUME NEW n \in Nat, NEW c \in NewRows, Requests(n, c) PROVE OpenBeside'
    BY <1>1, <1>8 DEF Requests
  <1>9. ASSUME NEW s \in Sessions, Drops(s) PROVE OpenBeside'
    <2>1. session'[s].step \notin {"generated", "reading"}
      BY <1>9 DEF Drops, Idle
    <2> QED
      BY <1>1, <1>9, <2>1 DEF Drops
  <1>10. ASSUME UNCHANGED <<chains, session>> PROVE OpenBeside'
    BY <1>1, <1>10
  <1> QED
    BY <1>3, <1>4, <1>5, <1>6, <1>7, <1>8, <1>9, <1>10, NextMoves DEF SessionMoves

(* each chain is in one outbox, until it is told *)
LEMMA OutboxStep == ChainTypes /\ Outbox /\ [Next]_vars => Outbox'
  <1> SUFFICES ASSUME ChainTypes, Outbox, [Next]_vars PROVE Outbox'
    OBVIOUS
  <1>0. Runs \subseteq Sessions /\ Monitors \subseteq Sessions
    BY DEF Sessions
  <1>1. ASSUME UNCHANGED chains,
               \A s \in Sessions :
                  \/ session'[s].step # "sending"
                  \/ /\ session'[s].step = session[s].step
                     /\ session'[s].left = session[s].left
        PROVE  Outbox'
    BY <1>1 DEF Outbox
  <1>2. ASSUME NEW r \in Sessions, NEW kin, NEW to, Begins(r, kin, to),
               to.step # "sending"
        PROVE  Outbox'
    BY <1>1, <1>2 DEF Begins
  <1>3. ASSUME NEW r \in Runs, RunBegins(r) PROVE Outbox'
    BY <1>0, <1>2, <1>3 DEF RunBegins
  <1>4. ASSUME NEW m \in Monitors, MonitorStarts(m) PROVE Outbox'
    BY <1>0, <1>2, <1>4 DEF MonitorStarts
  <1>5. ASSUME NEW m \in Monitors, NEW p \in Nat, NEW add \in Seq(NewRows),
               Looks(m, p, add)
        PROVE  Outbox'
    BY <1>1, <1>5 DEF Looks
  <1>6. ASSUME NEW s \in Sessions, NEW n \in Nat, NEW k \in Nat,
               NEW new \in [1..k -> NewRows], Adds(s, n, k, new)
        PROVE  Outbox'
    <2>1. DOMAIN chains = 1..n /\ DOMAIN chains' = 1..(n + k)
      BY <1>6 DEF Adds
    <2>2. \A i \in 1..n : chains'[i].sent = chains[i].sent
      BY <1>6 DEF Adds
    <2>3. ASSUME NEW i \in 1..(n + k), i \notin 1..n PROVE chains'[i].sent = 0
      <3>1. PICK j \in 1..k : i = n + j
        <4>1. i - n \in 1..k /\ i = n + (i - n)
          BY <2>3
        <4> QED
          BY <4>1
      <3> QED
        BY <1>6, <3>1 DEF Adds
    <2>4. \A i \in DOMAIN chains' : chains'[i].sent <= 1
      BY <2>1, <2>2, <2>3 DEF Outbox
    <2>5. \A o \in Sessions \ {s} : session'[o] = session[o]
                                    /\ session[o].left \subseteq 1..n
      <3>1. \A o \in Sessions : session[o].left \subseteq 1..n
        BY <2>1 DEF ChainTypes
      <3> QED
        BY <1>6, <3>1 DEF Adds
    <2>6. session'[s].step = "sending" => session'[s].left = {n + j : j \in 1..k}
      <3>1. k = 0 => session'[s].step # "sending"
        BY <1>6 DEF Adds, Idle
      <3> QED
        BY <1>6, <3>1 DEF Adds
    <2>7. {n + j : j \in 1..k} \subseteq 1..(n + k) /\ {n + j : j \in 1..k} \cap 1..n = {}
      OBVIOUS
    <2>8. ASSUME NEW o \in Sessions, session'[o].step = "sending",
                 NEW i \in session'[o].left
          PROVE  chains'[i].sent = 0
      <3>1. CASE o = s
        BY <2>3, <2>6, <2>7, <2>8, <3>1
      <3>2. CASE o # s
        BY <2>2, <2>5, <2>8, <3>2 DEF Outbox
      <3> QED
        BY <3>1, <3>2
    <2>9. ASSUME NEW o \in Sessions, NEW t \in Sessions, o # t,
                 session'[o].step = "sending", session'[t].step = "sending"
          PROVE  session'[o].left \cap session'[t].left = {}
      <3>1. CASE o = s
        BY <2>5, <2>6, <2>7, <2>9, <3>1
      <3>2. CASE t = s
        BY <2>5, <2>6, <2>7, <2>9, <3>2
      <3>3. CASE o # s /\ t # s
        BY <2>5, <2>9, <3>3 DEF Outbox
      <3> QED
        BY <3>1, <3>2, <3>3
    <2> QED
      BY <2>4, <2>8, <2>9 DEF Outbox
  <1>7. ASSUME NEW s \in Sessions, NEW first, Announces(s, first),
               session[s].step = "sending"
        PROVE  Outbox'
    <2>1. chains[first].sent = 0 /\ chains'[first].sent = 1
      BY <1>7 DEF Announces, Outbox
    <2>2. /\ DOMAIN chains' = DOMAIN chains
          /\ \A i \in DOMAIN chains : i # first => chains'[i] = chains[i]
      BY <1>7 DEF Announces
    <2>3. /\ \A o \in Sessions \ {s} : session'[o] = session[o]
          /\ session'[s].step = "sending" =>
                session'[s].left = session[s].left \ {first}
      BY <1>7 DEF Announces, Idle
    <2>4. \A o \in Sessions : session[o].left \subseteq DOMAIN chains
      BY DEF ChainTypes
    <2>5. \A o \in Sessions : session'[o].step = "sending" =>
             /\ session[o].step = "sending" /\ first \notin session'[o].left
             /\ session'[o].left \subseteq session[o].left
      BY <1>7, <2>3 DEF Announces, Outbox
    <2>6. \A i \in DOMAIN chains' : chains'[i].sent <= 1
      BY <2>1, <2>2 DEF Outbox
    <2>7. \A o \in Sessions : session'[o].step = "sending" =>
             \A i \in session'[o].left : chains'[i].sent = 0
      BY <2>2, <2>4, <2>5 DEF Outbox
    <2>8. \A o, t \in Sessions :
             t # o /\ session'[o].step = "sending" /\ session'[t].step = "sending"
                => session'[o].left \cap session'[t].left = {}
      BY <2>5 DEF Outbox
    <2> QED
      BY <2>6, <2>7, <2>8 DEF Outbox
  <1>8. ASSUME NEW n \in Nat, NEW c \in NewRows, Requests(n, c) PROVE Outbox'
    <2>1. /\ DOMAIN chains = 1..n /\ DOMAIN chains' = 1..(n + 1)
          /\ \A i \in 1..n : chains'[i] = chains[i]
          /\ chains'[n + 1].sent = 0 /\ session' = session
      BY <1>8 DEF Requests, NewRows
    <2>2. \A o \in Sessions : session[o].left \subseteq 1..n
      BY <2>1 DEF ChainTypes
    <2>3. \A i \in 1..(n + 1) : i \in 1..n \/ i = n + 1
      OBVIOUS
    <2> QED
      BY <2>1, <2>2, <2>3 DEF Outbox
  <1>9. ASSUME NEW s \in Sessions, Drops(s) PROVE Outbox'
    BY <1>1, <1>9 DEF Drops, Idle
  <1>10. ASSUME UNCHANGED <<chains, session>> PROVE Outbox'
    BY <1>1, <1>10
  <1> QED
    BY <1>3, <1>4, <1>5, <1>6, <1>7, <1>8, <1>9, <1>10, NextMoves DEF SessionMoves

(* The chains say the same, and are as many. *)
Calm == /\ DOMAIN chains' = DOMAIN chains
        /\ \A i \in DOMAIN chains : /\ Keeps(chains'[i], chains[i])
                                    /\ chains'[i].status = chains[i].status
                                    /\ chains'[i].beside = chains[i].beside

(* what a session that commits holds: nothing else that is open adds to it  *)
LEMMA Committing ==
  ASSUME ChainTypes, CauseInv, NEW s \in Sessions, NEW n \in Nat, NEW k \in Nat,
         NEW new \in [1..k -> NewRows], Adds(s, n, k, new),
         s \in Runs => session[s].step = "generated",
         s \in Monitors => session[s].step = "reading"
  PROVE  /\ session[s].step = "generated" =>
               k \in {0, 1} /\ \A j \in 1..k : new[j].parent = 0
         /\ session[s].step = "reading" =>
               /\ \A j \in 1..k : /\ new[j].parent \in 1..n
                                  /\ new[j].week.of # "local"
               /\ \A j, l \in 1..k : new[j].parent = new[l].parent => j = l
         /\ session[s].step \in {"generated", "reading"}
         /\ \A i \in 1..n, j \in 1..k : SameCause(chains[i], new[j])
               => chains[i].beside /\ session[s].beside
  <1>1. /\ new = session[s].new /\ DOMAIN new = 1..k /\ DOMAIN chains = 1..n
    BY DEF Adds
  <1>2. Holding(s, session[s]) /\ WeekFree(s) /\ ParentFree(s)
    BY DEF ChainTypes, CauseInv
  <1>3. session[s].step \in {"generated", "reading"}
    BY DEF Sessions
  <1>4. \A j \in 1..k : new[j] \in Rows
    BY DEF NewRows
  <1>5. CASE session[s].step = "generated"
    <2>1. \A j \in 1..k : new[j].parent = 0 /\ j = 1
      BY <1>1, <1>2, <1>5 DEF Holding
    <2>2. k \in {0, 1}
      <3>1. k # 0 => k \in 1..k
        OBVIOUS
      <3> QED
        BY <2>1, <3>1
    <2>3. ASSUME NEW i \in 1..n, NEW j \in 1..k, SameCause(chains[i], new[j])
          PROVE  chains[i].beside /\ session[s].beside
      <3>1. chains[i].week.of = "local" /\ chains[i].week = new[j].week
        BY <2>1, <2>3 DEF SameCause
      <3> QED
        BY <1>1, <1>2, <1>5, <3>1 DEF WeekFree
    <2> QED
      BY <1>5, <2>1, <2>2, <2>3
  <1>6. CASE session[s].step = "reading"
    <2>1. /\ \A j \in 1..k : new[j].parent \in 1..n
          /\ \A j, l \in 1..k : new[j].parent = new[l].parent => j = l
      BY <1>1, <1>2, <1>6 DEF ParentFree
    <2>2. \A j \in 1..k : new[j].week.of # "local"
      <3>1. \A j \in 1..k : new[j].parent # 0
        BY <2>1
      <3> QED
        BY <1>4, <3>1 DEF Rows
    <2>3. ASSUME NEW i \in 1..n, NEW j \in 1..k, SameCause(chains[i], new[j])
          PROVE  chains[i].beside /\ session[s].beside
      <3>1. chains[i].parent = new[j].parent
        BY <2>2, <2>3 DEF SameCause
      <3>2. chains[i].parent \in Taken(session[s])
        BY <1>1, <3>1 DEF Taken
      <3> QED
        BY <1>1, <1>2, <1>6, <3>2 DEF ParentFree
    <2> QED
      BY <1>6, <2>1, <2>2, <2>3
  <1> QED
    BY <1>3, <1>5, <1>6

(* each chain of 1..(n + k) is one of n or one of k *)
LEMMA OldOrNew ==
  ASSUME NEW n \in Nat, NEW k \in Nat, NEW i \in 1..(n + k)
  PROVE  i \in 1..n \/ \E j \in 1..k : i = n + j
  <1>1. i \notin 1..n => i - n \in 1..k /\ i = n + (i - n)
    OBVIOUS
  <1> QED
    BY <1>1

(* causes stay apart while no chain is added *)
LEMMA CalmKeepsCauses ==
  ASSUME ChainTypes, CauseInv, Calm
  PROVE  Successors' /\ OneEach'
  <1>1. Successors'
    BY DEF Calm, CauseInv, Successors, Keeps
  <1>2. OneEach'
    <2> SUFFICES ASSUME NEW i \in DOMAIN chains, NEW j \in DOMAIN chains, i # j,
                        SameCause(chains'[i], chains'[j])
                 PROVE  chains'[i].beside
      BY DEF Calm, OneEach
    <2>1. SameCause(chains[i], chains[j])
      BY DEF SameCause, Calm, Keeps
    <2> QED
      BY <2>1 DEF Calm, CauseInv, OneEach
  <1> QED
    BY <1>1, <1>2

(* and when a session commits: what it holds was free of them *)
LEMMA CommitKeepsCauses ==
  ASSUME ChainTypes, CauseInv, NEW s \in Sessions, NEW n \in Nat, NEW k \in Nat,
         NEW new \in [1..k -> NewRows], Adds(s, n, k, new),
         s \in Runs => session[s].step = "generated",
         s \in Monitors => session[s].step = "reading"
  PROVE  Successors' /\ OneEach'
  <1>1. DOMAIN chains = 1..n /\ DOMAIN chains' = 1..(n + k)
    BY DEF Adds
  <1>2. \A i \in 1..n : /\ Keeps(chains'[i], chains[i])
                        /\ chains'[i].beside = chains[i].beside
                        /\ chains'[i].status = "superseded" <=>
                              \/ chains[i].status = "superseded"
                              \/ \E j \in 1..k : new[j].parent = i
    BY DEF Adds
  <1>3. \A j \in 1..k : /\ Keeps(chains'[n + j], new[j]) /\ n + j \in 1..(n + k)
                        /\ chains'[n + j].status # "superseded"
                        /\ chains'[n + j].beside = session[s].beside
    <2>1. \A j \in 1..k : n + j \in 1..(n + k)
      OBVIOUS
    <2> QED
      BY <2>1 DEF Adds
  <1>4. \A j \in 1..k : new[j].parent \in {0} \cup 1..n
    <2>1. /\ session[s].step = "generated" => \A j \in 1..k : new[j].parent = 0
          /\ session[s].step = "reading" => \A j \in 1..k : new[j].parent \in 1..n
          /\ session[s].step \in {"generated", "reading"}
      BY Committing
    <2> QED
      BY <2>1
  <1>5. \A i \in 1..n : chains[i].parent \in {0} \cup 1..n
    BY <1>1 DEF CauseInv, Successors
  <1>6. Successors'
    <2>1. ASSUME NEW i \in 1..(n + k)
          PROVE  /\ chains'[i].parent \in {0} \cup 1..(n + k)
                 /\ chains'[i].status = "superseded" <=>
                       \E l \in 1..(n + k) : chains'[l].parent = i
      <3>1. ASSUME NEW l \in 1..(n + k)
            PROVE  /\ chains'[l].parent \in {0} \cup 1..n
                   /\ chains'[l].parent = i <=>
                         \/ l \in 1..n /\ chains[l].parent = i
                         \/ \E j \in 1..k : l = n + j /\ new[j].parent = i
        <4>1. CASE l \in 1..n
          <5>1. \A j \in 1..k : l # n + j
            BY <4>1
          <5> QED
            BY <1>2, <1>5, <4>1, <5>1 DEF Keeps
        <4>2. ASSUME NEW j \in 1..k, l = n + j
              PROVE  /\ chains'[l].parent \in {0} \cup 1..n
                     /\ chains'[l].parent = i <=>
                           \/ l \in 1..n /\ chains[l].parent = i
                           \/ \E h \in 1..k : l = n + h /\ new[h].parent = i
          <5>1. l \notin 1..n /\ \A h \in 1..k : l = n + h => h = j
            BY <4>2
          <5>2. chains'[l].parent = new[j].parent
            BY <1>3, <4>2 DEF Keeps
          <5> QED
            BY <1>4, <4>2, <5>1, <5>2
        <4> QED
          BY <4>1, <4>2, OldOrNew
      <3>2. (\E l \in 1..(n + k) : chains'[l].parent = i) <=>
               \/ \E l \in 1..n : chains[l].parent = i
               \/ \E j \in 1..k : new[j].parent = i
        <4>1. \A l \in 1..n : l \in 1..(n + k)
          OBVIOUS
        <4> QED
          BY <1>3, <3>1, <4>1
      <3>3. CASE i \in 1..n
        <4>1. chains[i].status = "superseded" <=> \E l \in 1..n : chains[l].parent = i
          BY <1>1, <3>3 DEF CauseInv, Successors
        <4>2. \A l \in 1..(n + k) : chains'[l].parent \in {0} \cup 1..(n + k)
          <5>1. {0} \cup 1..n \subseteq {0} \cup 1..(n + k)
            OBVIOUS
          <5> QED
            BY <3>1, <5>1
        <4>3. chains'[i].status = "superseded" <=>
                 \/ chains[i].status = "superseded"
                 \/ \E j \in 1..k : new[j].parent = i
          BY <1>2, <3>3
        <4> QED
          BY <3>2, <4>1, <4>2, <4>3
      <3>4. CASE i \notin 1..n
        <4>1. chains'[i].status # "superseded"
          <5>1. PICK j \in 1..k : i = n + j
            BY <3>4, OldOrNew
          <5> QED
            BY <1>3, <5>1
        <4>2. /\ \A l \in 1..n : chains[l].parent # i
              /\ \A j \in 1..k : new[j].parent # i
          BY <1>4, <1>5, <3>4
        <4> QED
          BY <3>1, <3>2, <4>1, <4>2
      <3> QED
        BY <3>3, <3>4
    <2> QED
      BY <1>1, <2>1 DEF Successors
  <1>7. OneEach'
    <2> SUFFICES ASSUME NEW i \in 1..(n + k), NEW j \in 1..(n + k), i # j,
                        SameCause(chains'[i], chains'[j])
                 PROVE  chains'[i].beside
      BY <1>1 DEF OneEach
    <2>1. CASE i \in 1..n /\ j \in 1..n
      <3>1. SameCause(chains[i], chains[j])
        BY <1>2, <2>1 DEF SameCause, Keeps
      <3> QED
        BY <1>1, <1>2, <2>1, <3>1 DEF CauseInv, OneEach
    <2>2. ASSUME i \in 1..n, NEW l \in 1..k, j = n + l PROVE chains'[i].beside
      <3>1. SameCause(chains[i], new[l])
        BY <1>2, <1>3, <2>2 DEF SameCause, Keeps
      <3> QED
        BY <1>2, <2>2, <3>1, Committing
    <2>3. ASSUME j \in 1..n, NEW l \in 1..k, i = n + l PROVE chains'[i].beside
      <3>1. SameCause(chains[j], new[l])
        BY <1>2, <1>3, <2>3 DEF SameCause, Keeps
      <3>2. session[s].beside
        BY <2>3, <3>1, Committing
      <3> QED
        BY <1>3, <2>3, <3>2
    <2>4. ASSUME NEW h \in 1..k, NEW l \in 1..k, i = n + h, j = n + l
          PROVE  chains'[i].beside
      <3>1. h # l /\ SameCause(new[h], new[l])
        BY <1>3, <2>4 DEF SameCause, Keeps
      <3>2. session[s].step \in {"generated", "reading"}
        BY Committing
      <3>3. session[s].step # "generated"
        <4>1. session[s].step = "generated" => k \in {0, 1}
          BY Committing
        <4>2. k \notin {0, 1}
          BY <3>1
        <4> QED
          BY <4>1, <4>2
      <3>4. /\ new[h].week.of # "local"
            /\ new[h].parent = new[l].parent => h = l
        BY <3>2, <3>3, Committing
      <3> QED
        BY <3>1, <3>4 DEF SameCause
    <2>5. /\ i \in 1..n \/ \E h \in 1..k : i = n + h
          /\ j \in 1..n \/ \E l \in 1..k : j = n + l
      BY OldOrNew
    <2> QED
      BY <2>1, <2>2, <2>3, <2>4, <2>5
  <1> QED
    BY <1>6, <1>7

(* and when a request adds one, which has a cause of its own *)
LEMMA RequestKeepsCauses ==
  ASSUME ChainTypes, CauseInv, NEW n \in Nat, NEW c \in NewRows, Requests(n, c)
  PROVE  Successors' /\ OneEach'
  <1>1. /\ DOMAIN chains = 1..n /\ DOMAIN chains' = 1..(n + 1)
        /\ \A i \in 1..n : chains'[i] = chains[i]
        /\ chains'[n + 1] = c /\ c.parent = 0 /\ c.week.of # "local"
        /\ c.status # "superseded"
    BY DEF Requests, NewRows
  <1>2. \A i \in 1..(n + 1) : i \in 1..n \/ i = n + 1
    OBVIOUS
  <1>3. \A i \in 1..n : i \in 1..(n + 1) /\ i # n + 1 /\ i # 0
    OBVIOUS
  <1>4. \A i \in 1..n : /\ chains[i].parent \in {0} \cup 1..n
                        /\ chains[i].status = "superseded" <=>
                              \E j \in 1..n : chains[j].parent = i
    BY <1>1 DEF CauseInv, Successors
  <1>5. ASSUME NEW i \in 1..(n + 1)
        PROVE  /\ chains'[i].parent \in {0} \cup 1..(n + 1)
               /\ chains'[i].status = "superseded" <=>
                     \E j \in 1..(n + 1) : chains'[j].parent = i
    <2>1. CASE i \in 1..n
      BY <1>1, <1>2, <1>3, <1>4, <2>1
    <2>2. CASE i = n + 1
      <3>1. \A j \in 1..(n + 1) : chains'[j].parent \in {0} \cup 1..n
        BY <1>1, <1>2, <1>4
      <3>2. i \notin {0} \cup 1..n
        BY <2>2
      <3> QED
        BY <1>1, <2>2, <3>1, <3>2
    <2> QED
      BY <1>2, <2>1, <2>2
  <1>6. Successors'
    BY <1>1, <1>5 DEF Successors
  <1>7. OneEach'
    <2> SUFFICES ASSUME NEW i \in 1..(n + 1), NEW j \in 1..(n + 1), i # j,
                        SameCause(chains'[i], chains'[j])
                 PROVE  chains'[i].beside
      BY <1>1 DEF OneEach
    <2>1. i # n + 1 /\ j # n + 1
      BY <1>1 DEF SameCause
    <2> QED
      BY <1>1, <1>2, <2>1 DEF CauseInv, OneEach
  <1> QED
    BY <1>6, <1>7

(* what a session holds stays free of others while nothing is added *)
LEMMA CalmKeepsHeld ==
  ASSUME ChainTypes, CauseInv, Calm, NEW s \in Sessions,
         session'[s].step = session[s].step, session'[s].left = session[s].left,
         session'[s].new = session[s].new,
         session[s].beside => session'[s].beside
  PROVE  (WeekFree(s) /\ ParentFree(s))'
  <1>1. WeekFree(s)'
    <2>1. WeekFree(s)
      BY DEF CauseInv
    <2>2. \A i \in DOMAIN chains' : /\ i \in DOMAIN chains
                                    /\ chains'[i].week = chains[i].week
                                    /\ chains'[i].beside = chains[i].beside
      BY DEF Calm, Keeps
    <2> QED
      BY <2>1, <2>2 DEF WeekFree
  <1>2. PICK q, r : q = session[s] /\ r = session'[s]
    OBVIOUS
  <1>3. r.step = q.step /\ r.left = q.left /\ r.new = q.new /\ (q.beside => r.beside)
    BY <1>2
  <1>4. Taken(r) = Taken(q)
    BY <1>3 DEF Taken
  <1>5. ParentFree(s)
    BY DEF CauseInv
  <1>6. ASSUME r.step = "reading"
        PROVE  /\ \A k \in DOMAIN r.new :
                     /\ r.new[k].parent \in DOMAIN chains' \ r.left
                     /\ \A l \in DOMAIN r.new : r.new[k].parent = r.new[l].parent => k = l
               /\ \A i \in DOMAIN chains' :
                     chains'[i].parent \in Taken(r) => chains'[i].beside /\ r.beside
    <2>1. /\ \A k \in DOMAIN q.new :
                /\ q.new[k].parent \in DOMAIN chains \ q.left
                /\ \A l \in DOMAIN q.new : q.new[k].parent = q.new[l].parent => k = l
          /\ \A i \in DOMAIN chains :
                chains[i].parent \in Taken(q) => chains[i].beside /\ q.beside
      BY <1>2, <1>3, <1>5, <1>6 DEF ParentFree
    <2> QED
      BY <1>3, <1>4, <2>1 DEF Calm, Keeps
  <1>7. ParentFree(s)'
    BY <1>2, <1>6 DEF ParentFree
  <1> QED
    BY <1>1, <1>7

(* a session that is not open holds nothing to keep free *)
LEMMA ClosedHoldsNothing ==
  ASSUME NEW s \in Sessions, session'[s].step \notin {"generated", "reading"}
  PROVE  (WeekFree(s) /\ ParentFree(s))'
  BY DEF WeekFree, ParentFree

(* what another adds is of another cause, or they are beside each other *)
LEMMA CommitKeepsHeld ==
  ASSUME ChainTypes, CauseInv, NEW s \in Sessions, NEW n \in Nat, NEW k \in Nat,
         NEW new \in [1..k -> NewRows], Adds(s, n, k, new),
         s \in Runs => session[s].step = "generated",
         s \in Monitors => session[s].step = "reading",
         NEW o \in Sessions \ {s}
  PROVE  (WeekFree(o) /\ ParentFree(o))'
  <1>1. DOMAIN chains = 1..n /\ DOMAIN chains' = 1..(n + k)
    BY DEF Adds
  <1>2. \A i \in 1..n : Keeps(chains'[i], chains[i])
                        /\ chains'[i].beside = chains[i].beside
    BY DEF Adds
  <1>3. \A j \in 1..k : Keeps(chains'[n + j], new[j])
                        /\ chains'[n + j].beside = session[s].beside
    BY DEF Adds
  <1>4. session'[o] = session[o]
    BY DEF Adds
  <1>5. PICK r \in SessionRows : r = session[o]
    BY DEF ChainTypes
  <1>6. /\ session[s].step = "generated" => \A j \in 1..k : new[j].parent = 0
        /\ session[s].step = "reading" => \A j \in 1..k : new[j].week.of # "local"
        /\ session[s].step \in {"generated", "reading"}
    BY Committing
  <1>7. session[s].step = r.step => session[s].beside /\ r.beside
    BY <1>5, <1>6 DEF CauseInv, OpenBeside
  <1>8. WeekFree(o) /\ ParentFree(o) /\ r.left \subseteq 1..n
    BY <1>1, <1>5 DEF CauseInv, ChainTypes
  <1>9. ASSUME r.step = "generated", NEW h \in DOMAIN r.new, NEW i \in 1..(n + k),
               r.new[h].week.of = "local", chains'[i].week = r.new[h].week
        PROVE  chains'[i].beside /\ r.beside
    <2>1. CASE i \in 1..n
      <3>1. chains[i].week = r.new[h].week
        BY <1>2, <1>9, <2>1 DEF Keeps
      <3> QED
        BY <1>1, <1>2, <1>5, <1>8, <1>9, <2>1, <3>1 DEF WeekFree
    <2>2. ASSUME NEW j \in 1..k, i = n + j PROVE chains'[i].beside /\ r.beside
      <3>1. new[j].week.of = "local"
        BY <1>3, <1>9, <2>2 DEF Keeps
      <3>2. session[s].step = r.step
        BY <1>6, <1>9, <3>1
      <3> QED
        BY <1>3, <1>7, <2>2, <3>2
    <2>3. i \in 1..n \/ \E j \in 1..k : i = n + j
      BY <1>9, OldOrNew
    <2> QED
      BY <2>1, <2>2, <2>3
  <1>10. WeekFree(o)'
    BY <1>1, <1>4, <1>5, <1>9 DEF WeekFree
  <1>11. ASSUME r.step = "reading"
         PROVE  /\ \A h \in DOMAIN r.new :
                      /\ r.new[h].parent \in 1..n \ r.left
                      /\ \A l \in DOMAIN r.new : r.new[h].parent = r.new[l].parent => h = l
                /\ \A i \in 1..n :
                      chains[i].parent \in Taken(r) => chains[i].beside /\ r.beside
    BY <1>1, <1>5, <1>8, <1>11 DEF ParentFree
  <1>12. ASSUME r.step = "reading", NEW i \in 1..(n + k), chains'[i].parent \in Taken(r)
         PROVE  chains'[i].beside /\ r.beside
    <2>1. CASE i \in 1..n
      BY <1>2, <1>11, <1>12, <2>1 DEF Keeps
    <2>2. ASSUME NEW j \in 1..k, i = n + j PROVE chains'[i].beside /\ r.beside
      <3>1. new[j].parent \in Taken(r)
        BY <1>3, <1>12, <2>2 DEF Keeps
      <3>2. new[j].parent # 0
        BY <1>8, <1>11, <1>12, <3>1 DEF Taken
      <3>3. session[s].step = r.step
        BY <1>6, <1>12, <3>2
      <3> QED
        BY <1>3, <1>7, <2>2, <3>3
    <2> QED
      BY <2>1, <2>2, OldOrNew
  <1>13. 1..n \subseteq 1..(n + k)
    OBVIOUS
  <1>14. ParentFree(o)'
    BY <1>1, <1>4, <1>5, <1>11, <1>12, <1>13 DEF ParentFree
  <1> QED
    BY <1>10, <1>14

(* a request is of a cause that no session holds *)
LEMMA RequestKeepsHeld ==
  ASSUME ChainTypes, CauseInv, NEW n \in Nat, NEW c \in NewRows, Requests(n, c),
         NEW o \in Sessions
  PROVE  (WeekFree(o) /\ ParentFree(o))'
  <1>1. /\ DOMAIN chains = 1..n /\ DOMAIN chains' = 1..(n + 1)
        /\ \A i \in 1..n : chains'[i] = chains[i]
        /\ chains'[n + 1] = c /\ c.parent = 0 /\ c.week.of # "local"
        /\ session' = session
    BY DEF Requests
  <1>2. \A i \in 1..(n + 1) : i \in 1..n \/ i = n + 1
    OBVIOUS
  <1>3. PICK r \in SessionRows : r = session[o]
    BY DEF ChainTypes
  <1>4. WeekFree(o) /\ ParentFree(o) /\ r.left \subseteq 1..n
    BY <1>1, <1>3 DEF CauseInv, ChainTypes
  <1>5. WeekFree(o)'
    BY <1>1, <1>2, <1>4 DEF WeekFree
  <1>6. ASSUME r.step = "reading"
        PROVE  /\ \A h \in DOMAIN r.new :
                      /\ r.new[h].parent \in 1..n \ r.left
                      /\ \A l \in DOMAIN r.new : r.new[h].parent = r.new[l].parent => h = l
               /\ \A i \in 1..n :
                      chains[i].parent \in Taken(r) => chains[i].beside /\ r.beside
    BY <1>1, <1>3, <1>4, <1>6 DEF ParentFree
  <1>7. r.step = "reading" => 0 \notin Taken(r)
    BY <1>4, <1>6 DEF Taken
  <1>8. 1..n \subseteq 1..(n + 1)
    OBVIOUS
  <1>9. ParentFree(o)'
    BY <1>1, <1>2, <1>3, <1>6, <1>7, <1>8 DEF ParentFree
  <1> QED
    BY <1>5, <1>9

(* a monitor that moves on has still one successor at most for each chain *)
LEMMA LookKeepsHeld ==
  ASSUME ChainTypes, CauseInv, NEW m \in Monitors, NEW p \in Nat,
         NEW add \in Seq(NewRows), Looks(m, p, add)
  PROVE  (WeekFree(m) /\ ParentFree(m))'
  <1>1. WeekFree(m)'
    BY DEF Looks, WeekFree
  <1>2. PICK r \in SessionRows : r = session[m]
    BY DEF ChainTypes, Sessions
  <1>3. PICK a \in Seq(NewRows) : a = r.new
    BY DEF SessionRows
  <1>4. PICK new : new = a \o add
    OBVIOUS
  <1>5. /\ r.step = "reading" /\ p \in r.left /\ p \in DOMAIN chains
        /\ chains' = chains
        /\ session'[m].left = r.left \ {p} /\ session'[m].new = new
        /\ session'[m].beside = r.beside
    BY <1>2, <1>3, <1>4 DEF Looks
  <1>6. /\ \A k \in DOMAIN a :
              /\ a[k].parent \in DOMAIN chains \ r.left
              /\ \A l \in DOMAIN a : a[k].parent = a[l].parent => k = l
        /\ \A i \in DOMAIN chains :
              chains[i].parent \in Taken(r) => chains[i].beside /\ r.beside
    BY <1>2, <1>3, <1>5 DEF CauseInv, ParentFree, Sessions
  <1>7. ASSUME NEW k \in DOMAIN new
        PROVE  \/ k \in DOMAIN a /\ new[k] = a[k]
               \/ k = Len(a) + 1 /\ k \notin DOMAIN a /\ new[k].parent = p
    <2>1. /\ Len(a) \in Nat /\ Len(add) \in Nat /\ DOMAIN a = 1..Len(a)
          /\ DOMAIN add = 1..Len(add) /\ k \in 1..(Len(a) + Len(add))
      BY <1>4
    <2>2. CASE k <= Len(a)
      BY <1>4, <2>1, <2>2
    <2>3. CASE ~(k <= Len(a))
      <3>1. k - Len(a) \in DOMAIN add /\ new[k] = add[k - Len(a)]
        BY <1>4, <2>1, <2>3
      <3>2. k - Len(a) = 1 /\ add[k - Len(a)].parent = p
        BY <3>1 DEF Looks
      <3> QED
        BY <2>1, <2>3, <3>1, <3>2
    <2> QED
      BY <2>2, <2>3
  <1>8. \A k \in DOMAIN new :
           /\ new[k].parent \in DOMAIN chains \ (r.left \ {p})
           /\ new[k].parent \in Taken(r)
           /\ \A l \in DOMAIN new : new[k].parent = new[l].parent => k = l
    <2>1. \A k \in DOMAIN a : a[k].parent \in Taken(r)
      BY <1>3 DEF Taken
    <2>2. p \in Taken(r)
      BY <1>5 DEF Taken
    <2> QED
      BY <1>5, <1>6, <1>7, <2>1, <2>2
  <1>9. ASSUME NEW i \in DOMAIN chains, chains[i].parent \in Taken(session'[m])
        PROVE  chains[i].beside /\ r.beside
    <2>1. chains[i].parent \in Taken(r)
      BY <1>5, <1>8, <1>9 DEF Taken
    <2> QED
      BY <1>6, <2>1
  <1>10. ParentFree(m)'
    BY <1>5, <1>8, <1>9 DEF ParentFree
  <1> QED
    BY <1>1, <1>10

(* every step keeps CauseInv *)
LEMMA CauseStep == ChainTypes /\ CauseInv /\ [Next]_vars => CauseInv'
  <1> SUFFICES ASSUME ChainTypes, CauseInv, [Next]_vars PROVE CauseInv'
    OBVIOUS
  <1>0. Runs \subseteq Sessions /\ Monitors \subseteq Sessions
    BY DEF Sessions
  <1>1. OpenBeside' /\ Outbox'
    BY OpenBesideStep, OutboxStep DEF CauseInv
  <1>2. UNCHANGED chains => Calm
    BY DEF Calm, Keeps
  <1> SUFFICES /\ Successors' /\ OneEach'
               /\ \A s \in Sessions : (WeekFree(s) /\ ParentFree(s))'
    BY <1>1 DEF CauseInv
  <1>3. ASSUME NEW r \in Sessions, NEW kin, NEW to, Begins(r, kin, to)
        PROVE  /\ Successors' /\ OneEach'
               /\ \A s \in Sessions \ {r} : (WeekFree(s) /\ ParentFree(s))'
    <2>1. Calm
      BY <1>2, <1>3 DEF Begins
    <2>2. ASSUME NEW s \in Sessions \ {r} PROVE (WeekFree(s) /\ ParentFree(s))'
      <3>1. /\ session'[s].step = session[s].step /\ session'[s].left = session[s].left
            /\ session'[s].new = session[s].new
            /\ session[s].beside => session'[s].beside
        BY <1>3 DEF Begins
      <3> QED
        BY <2>1, <3>1, CalmKeepsHeld
    <2> QED
      BY <2>1, <2>2, CalmKeepsCauses
  <1>4. ASSUME NEW r \in Runs, RunBegins(r)
        PROVE  /\ Successors' /\ OneEach'
               /\ \A s \in Sessions : (WeekFree(s) /\ ParentFree(s))'
    <2>1. PICK to \in SessionRows, c \in NewRows :
            /\ Begins(r, Runs, to)
            /\ to.step = "generated" /\ to.left = {} /\ to.new = <<c>>
            /\ \A i \in DOMAIN chains : chains[i].week # c.week
      BY <1>4 DEF RunBegins
    <2>2. /\ session'[r].step = "generated" /\ session'[r].new = <<c>>
          /\ chains' = chains
      BY <2>1 DEF Begins
    <2>3. (WeekFree(r) /\ ParentFree(r))'
      BY <2>1, <2>2 DEF WeekFree, ParentFree
    <2> QED
      BY <1>0, <1>3, <2>1, <2>3
  <1>5. ASSUME NEW m \in Monitors, MonitorStarts(m)
        PROVE  /\ Successors' /\ OneEach'
               /\ \A s \in Sessions : (WeekFree(s) /\ ParentFree(s))'
    <2>1. PICK to \in SessionRows :
            /\ Begins(m, Monitors, to)
            /\ to.step = "reading" /\ to.left = Watched /\ to.new = <<>>
      BY <1>5 DEF MonitorStarts
    <2>2. /\ session'[m].step = "reading" /\ session'[m].new = <<>>
          /\ session'[m].left = Watched /\ chains' = chains
      BY <2>1 DEF Begins
    <2>3. Taken(session'[m]) = Watched
      BY <2>2 DEF Taken
    <2>4. \A i \in DOMAIN chains : chains[i].parent \notin Watched
      BY DEF Watched, CauseInv, Successors
    <2>5. (WeekFree(m) /\ ParentFree(m))'
      BY <2>2, <2>3, <2>4 DEF WeekFree, ParentFree
    <2> QED
      BY <1>0, <1>3, <2>1, <2>5
  <1>6. ASSUME NEW m \in Monitors, NEW p \in Nat, NEW add \in Seq(NewRows),
               Looks(m, p, add)
        PROVE  /\ Successors' /\ OneEach'
               /\ \A s \in Sessions : (WeekFree(s) /\ ParentFree(s))'
    <2>1. Calm
      BY <1>2, <1>6 DEF Looks
    <2>2. ASSUME NEW s \in Sessions \ {m} PROVE (WeekFree(s) /\ ParentFree(s))'
      BY <1>6, <2>1, CalmKeepsHeld DEF Looks
    <2> QED
      BY <1>6, <2>1, <2>2, CalmKeepsCauses, LookKeepsHeld
  <1>7. ASSUME NEW s \in Sessions, NEW n \in Nat, NEW k \in Nat,
               NEW new \in [1..k -> NewRows], Adds(s, n, k, new),
               s \in Runs => session[s].step = "generated",
               s \in Monitors => session[s].step = "reading"
        PROVE  /\ Successors' /\ OneEach'
               /\ \A o \in Sessions : (WeekFree(o) /\ ParentFree(o))'
    <2>1. session'[s].step \notin {"generated", "reading"}
      BY <1>7 DEF Adds, Idle
    <2>2. (WeekFree(s) /\ ParentFree(s))'
      BY <2>1, ClosedHoldsNothing
    <2>3. \A o \in Sessions \ {s} : (WeekFree(o) /\ ParentFree(o))'
      BY <1>7, CommitKeepsHeld
    <2>4. Successors' /\ OneEach'
      BY <1>7, CommitKeepsCauses
    <2> QED
      BY <2>2, <2>3, <2>4
  <1>8. ASSUME NEW s \in Sessions, session'[s].step \notin {"generated", "reading"},
               Calm, \A o \in Sessions \ {s} : session'[o] = session[o]
        PROVE  /\ Successors' /\ OneEach'
               /\ \A o \in Sessions : (WeekFree(o) /\ ParentFree(o))'
    <2>1. (WeekFree(s) /\ ParentFree(s))'
      BY <1>8, ClosedHoldsNothing
    <2>2. \A o \in Sessions \ {s} : (WeekFree(o) /\ ParentFree(o))'
      BY <1>8, CalmKeepsHeld
    <2> QED
      BY <1>8, <2>1, <2>2, CalmKeepsCauses
  <1>9. ASSUME NEW s \in Sessions, NEW first, Announces(s, first)
        PROVE  /\ Successors' /\ OneEach'
               /\ \A o \in Sessions : (WeekFree(o) /\ ParentFree(o))'
    <2>1. session'[s].step \notin {"generated", "reading"}
      BY <1>9 DEF Announces, Idle
    <2>2. Calm /\ \A o \in Sessions \ {s} : session'[o] = session[o]
      BY <1>9 DEF Announces, Calm
    <2> QED
      BY <1>8, <2>1, <2>2
  <1>10. ASSUME NEW n \in Nat, NEW c \in NewRows, Requests(n, c)
         PROVE  /\ Successors' /\ OneEach'
                /\ \A o \in Sessions : (WeekFree(o) /\ ParentFree(o))'
    BY <1>10, RequestKeepsCauses, RequestKeepsHeld
  <1>11. ASSUME NEW s \in Sessions, Drops(s)
         PROVE  /\ Successors' /\ OneEach'
                /\ \A o \in Sessions : (WeekFree(o) /\ ParentFree(o))'
    <2>1. session'[s].step \notin {"generated", "reading"}
      BY <1>11 DEF Drops, Idle
    <2> QED
      BY <1>2, <1>8, <1>11, <2>1 DEF Drops
  <1>12. ASSUME UNCHANGED <<chains, session>>
         PROVE  /\ Successors' /\ OneEach'
                /\ \A o \in Sessions : (WeekFree(o) /\ ParentFree(o))'
    <2>1. \A o \in Sessions : (WeekFree(o) /\ ParentFree(o))'
      BY <1>2, <1>12, CalmKeepsHeld
    <2> QED
      BY <1>2, <1>12, <2>1, CalmKeepsCauses
  <1> QED
    BY <1>4, <1>5, <1>6, <1>7, <1>9, <1>10, <1>11, <1>12, NextMoves DEF SessionMoves

(* A Sunday makes one chain and a chain that goes bad has one successor,    *)
(* unless the two sessions were open at once, and each chain is announced   *)
(* at most once, in every state of weekly_chain.                            *)
THEOREM CausesMakeOneChain == Spec => []OneChainPerCause
  <1>1. ChainTypes /\ CauseInv => OneChainPerCause
    <2> SUFFICES ASSUME ChainTypes, CauseInv PROVE OneChainPerCause
      OBVIOUS
    <2>1. PICK n \in Nat : DOMAIN chains = 1..n
      <3>1. chains \in Seq(Rows)
        BY DEF ChainTypes
      <3> QED
        BY <3>1
    <2>2. ASSUME NEW i \in DOMAIN chains, NEW j \in DOMAIN chains, i < j,
                 \/ chains[i].week.of = "local" /\ chains[i].week = chains[j].week
                 \/ chains[i].parent # 0 /\ chains[i].parent = chains[j].parent
          PROVE  chains[i].beside /\ chains[j].beside
      <3>1. i # j
        BY <2>1, <2>2
      <3>2. SameCause(chains[i], chains[j]) /\ SameCause(chains[j], chains[i])
        BY <2>2 DEF SameCause
      <3> QED
        BY <3>1, <3>2 DEF CauseInv, OneEach
    <2>3. ASSUME NEW i \in DOMAIN chains
          PROVE  /\ chains[i].status = "superseded" <=> \E j \in Rerouted : chains[j].parent = i
                 /\ chains[i].sent <= 1
      <3>1. i # 0
        BY <2>1
      <3>2. (\E j \in Rerouted : chains[j].parent = i)
              <=> \E j \in DOMAIN chains : chains[j].parent = i
        BY <3>1 DEF Rerouted
      <3> QED
        BY <3>2 DEF CauseInv, Successors, Outbox
    <2> QED
      BY <2>2, <2>3 DEF OneChainPerCause
  <1> QED
    BY <1>1, ChainTypesInit, ChainTypesStep, CauseInit, CauseStep, PTL DEF Spec
=============================================================================
