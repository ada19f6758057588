--------------------------- MODULE ThrottlesProofs ---------------------------
(***************************************************************************)
(* Proofs about Throttles, for any limits, windows and finite set of       *)
(* concurrent calls.  A limit counts first and acts later, so the argument *)
(* adds what is under way to what is done: a call that still owes its      *)
(* expiry, or has been allowed a look-up, counts as one that passed.       *)
(***************************************************************************)
EXTENDS Throttles, FiniteSetTheorems, TLAPS

CallType == [step : Answers \cup Steps, key : Keys, n : 0..MaxCount,
             stale : BOOLEAN, opened : BOOLEAN]

(* the key that each step of a call is about *)
Places ==
    \A c \in Calls :
        /\ call[c].step = "rate_expire" =>
              \E w \in Windows : w <= window /\ call[c].key = <<"rate", w>>
        /\ call[c].step \in {"daily_expire", "session", "lookup"} =>
              \E d \in Days : d <= day /\ call[c].key = <<"daily", d>>
        /\ call[c].step \in {"ask", "search", "forget_failures", "forget_open",
              "store", "failures_incr", "failures_expire", "trip", "fall_back"} =>
              call[c].key = Failures

-----------------------------------------------------------------------------

LEMMA DayIsDay == \A w \in Windows : DayOf(w) \in Days
  BY DEF Days

LEMMA DayGrows ==
  ASSUME NEW w \in Nat \ {0}
  PROVE  DayOf(w) \in Nat /\ DayOf(w) <= DayOf(w + 1)
  <1> DEFINE p == WindowsPerDay
             q == (w - 1) \div p
             r == w \div p
  <1>1. p \in Nat /\ p > 0 /\ w - 1 \in Nat
    BY ThrottlesAssumption
  <1>2. q \in Nat /\ r \in Nat
    BY <1>1
  <1>3. p * q <= w - 1 /\ w < p * (r + 1)
    BY <1>1, <1>2
  <1>4. q <= r
    <2>1. SUFFICES ASSUME r + 1 <= q PROVE FALSE
      BY <1>2
    <2>2. p * (r + 1) <= p * q
      BY <1>1, <1>2, <2>1
    <2> QED
      BY <1>1, <1>2, <1>3, <2>2
  <1>5. DayOf(w) = q + 1 /\ DayOf(w + 1) = r + 1
    BY <1>1 DEF DayOf
  <1> QED
    BY <1>2, <1>4, <1>5

LEMMA KeysDiffer ==
  /\ \A w \in Windows : <<"rate", w>> \in Keys /\ <<"rate", w>> # Failures
  /\ \A d \in Days : <<"daily", d>> \in Keys /\ <<"daily", d>> # Failures
  /\ \A w \in Windows, d \in Days : <<"rate", w>> # <<"daily", d>>
  /\ Failures \in Keys
  BY DEF Keys, Failures

LEMMA TypeInit == Init => TypeOK
  <1> SUFFICES ASSUME Init PROVE TypeOK
    OBVIOUS
  <1>1. 0 \in 0..MaxCount
    BY ThrottlesAssumption
  <1>2. AtRest("idle") \in CallType
    BY <1>1, KeysDiffer DEF AtRest, Owing, CallType, Answers
  <1>3. window \in Windows
    BY ThrottlesAssumption DEF Init, Windows
  <1> QED
    BY <1>1, <1>2, <1>3 DEF Init, TypeOK, CallType

(* the records that calls are set to *)
LEMMA Records ==
  ASSUME TypeOK, NEW c \in Calls
  PROVE  /\ \A s \in Answers \cup Steps : \A k \in Keys : Owing(s, k) \in CallType
         /\ \A s \in Answers \cup Steps : AtRest(s) \in CallType
         /\ \A s \in Answers \cup Steps : [call[c] EXCEPT !.step = s] \in CallType
  <1>1. 0 \in 0..MaxCount
    BY ThrottlesAssumption
  <1>2. \A s \in Answers \cup Steps : \A k \in Keys : Owing(s, k) \in CallType
    BY <1>1 DEF Owing, CallType
  <1>3. \A s \in Answers \cup Steps : [call[c] EXCEPT !.step = s] \in CallType
    BY DEF TypeOK, CallType
  <1> QED
    BY <1>2, <1>3, KeysDiffer DEF AtRest

(* counters and histories of one step on one key *)
LEMMA CountersTyped ==
  ASSUME TypeOK, NEW k \in Keys,
         \/ Incr(k) \/ SetExpiry(k) \/ Lose(k) \/ Drop(k) \/ UNCHANGED keys
  PROVE  /\ count' \in [Keys -> 0..MaxCount]
         /\ expiring' \in SUBSET Keys
         /\ torn' \in SUBSET Keys
  <1>1. CASE Incr(k)
    BY <1>1, ThrottlesAssumption DEF Incr, TypeOK
  <1>2. CASE SetExpiry(k)
    BY <1>2 DEF SetExpiry, TypeOK
  <1>3. CASE Lose(k)
    BY <1>3, ThrottlesAssumption DEF Lose, keys, TypeOK
  <1>4. CASE Drop(k)
    BY <1>4, ThrottlesAssumption DEF Drop, TypeOK
  <1>5. CASE UNCHANGED keys
    BY <1>5 DEF keys, TypeOK
  <1> QED
    BY <1>1, <1>2, <1>3, <1>4, <1>5

LEMMA TearTyped ==
  ASSUME TypeOK, NEW c \in Calls, Tear(c)
  PROVE  /\ count' \in [Keys -> 0..MaxCount]
         /\ expiring' \in SUBSET Keys
         /\ torn' \in SUBSET Keys
  BY DEF Tear, TypeOK

LEMMA TypeStep == TypeOK /\ Places /\ [Next]_vars => TypeOK'
  <1> SUFFICES ASSUME TypeOK, Places, [Next]_vars PROVE TypeOK'
    OBVIOUS
  <1> DEFINE CountersOK == /\ count' \in [Keys -> 0..MaxCount]
                           /\ expiring' \in SUBSET Keys
                           /\ torn' \in SUBSET Keys
             CallOK == call' \in [Calls -> CallType]
  <1>a. window \in Windows /\ day \in Days
    BY DayIsDay DEF TypeOK, day
  <1>b. <<"rate", window>> \in Keys /\ <<"daily", day>> \in Keys
    BY <1>a, KeysDiffer
  <1>c. ASSUME NEW c \in Calls, NEW r \in CallType, call' = [call EXCEPT ![c] = r]
        PROVE  CallOK
    BY <1>c DEF TypeOK, CallType
  <1>d. ASSUME NEW c \in Calls, NEW s \in Answers \cup Steps, Answer(c, s) \/ Goto(c, s)
        PROVE  CallOK
    <2>1. PICK r \in CallType : call' = [call EXCEPT ![c] = r]
      <3>1. CASE Answer(c, s)
        BY <3>1, Records DEF Answer
      <3>2. CASE Goto(c, s)
        BY <3>2, Records DEF Goto
      <3> QED
        BY <1>d, <3>1, <3>2
    <2> QED
      BY <1>c, <2>1
  <1> HIDE DEF CallOK
  <1>1. ASSUME NEW c \in Calls, Request(c) PROVE TypeOK'
    <2>1. CallOK
      BY <1>1, <1>d DEF Request, Answer, Steps
    <2> QED
      BY <1>1, <2>1 DEF Request, TypeOK, CallOK, CallType, clock, keys, breaker, owner
  <1>e. ASSUME NEW c \in Calls, NEW w \in Windows, NEW n, Admit(c, <<"rate", w>>, n)
        PROVE  CallOK /\ passed' \in [Windows -> Nat]
    <2>1. CallOK
      BY <1>d, <1>e DEF Admit, Answers, Steps
    <2>2. passed' \in [Windows -> Nat]
      BY <1>e DEF Admit, TypeOK
    <2> QED
      BY <2>1, <2>2
  <1>f. ASSUME NEW c \in Calls, NEW k \in Keys, NEW n, Allow(c, k, n) PROVE CallOK
    <2>1. CASE n > DailyLimit
      BY <1>d, <1>f, <2>1 DEF Allow, Answers
    <2>2. CASE ~(n > DailyLimit)
      <3>1. Owing("session", k) \in CallType
        BY Records DEF Steps
      <3> QED
        BY <1>c, <1>f, <2>2, <3>1 DEF Allow
    <2> QED
      BY <2>1, <2>2
  <1>2. ASSUME NEW c \in Calls, CountRequest(c) PROVE TypeOK'
    <2>1. CountersOK
      BY <1>2, <1>b, CountersTyped DEF CountRequest
    <2>2. CallOK /\ passed' \in [Windows -> Nat]
      <3>1. CASE Admit(c, <<"rate", window>>, count[<<"rate", window>>] + 1)
        BY <1>a, <1>e, <3>1
      <3>2. CASE /\ call' = [call EXCEPT ![c] = Owing("rate_expire", <<"rate", window>>)]
                 /\ UNCHANGED passed
        <4>1. Owing("rate_expire", <<"rate", window>>) \in CallType
          BY <1>b, Records DEF Steps
        <4> QED
          BY <1>c, <3>2, <4>1 DEF TypeOK
      <3> QED
        BY <1>2, <3>1, <3>2 DEF CountRequest
    <2> QED
      BY <1>2, <2>1, <2>2 DEF CountRequest, TypeOK, CallOK, CallType, clock, breaker, owner
  <1>3. ASSUME NEW c \in Calls, ExpireRequests(c) PROVE TypeOK'
    <2>1. PICK w \in Windows : call[c].key = <<"rate", w>>
      BY <1>3 DEF ExpireRequests, Places
    <2>2. CountersOK
      BY <1>3, <2>1, KeysDiffer, CountersTyped DEF ExpireRequests
    <2>3. CallOK /\ passed' \in [Windows -> Nat]
      BY <1>3, <1>e, <2>1 DEF ExpireRequests
    <2> QED
      BY <1>3, <2>2, <2>3 DEF ExpireRequests, TypeOK, CallOK, CallType, clock, breaker, owner
  <1>4. ASSUME NEW c \in Calls, PassUncounted(c) PROVE TypeOK'
    <2>1. CountersOK
      BY <1>4, <1>b, CountersTyped, TearTyped DEF PassUncounted
    <2>2. CallOK
      BY <1>4, <1>d DEF PassUncounted, Steps
    <2> QED
      BY <1>4, <2>1, <2>2 DEF PassUncounted, TypeOK, CallOK, CallType, clock, breaker, owner
  <1>5. ASSUME NEW c \in Calls, CountLookup(c) PROVE TypeOK'
    <2>1. CountersOK
      BY <1>5, <1>b, CountersTyped DEF CountLookup
    <2>2. CallOK
      <3>1. CASE Allow(c, <<"daily", day>>, count[<<"daily", day>>] + 1)
        BY <1>b, <1>f, <3>1
      <3>2. CASE call' = [call EXCEPT ![c] = Owing("daily_expire", <<"daily", day>>)]
        <4>1. Owing("daily_expire", <<"daily", day>>) \in CallType
          BY <1>b, Records DEF Steps
        <4> QED
          BY <1>c, <3>2, <4>1
      <3> QED
        BY <1>5, <3>1, <3>2 DEF CountLookup
    <2> QED
      BY <1>5, <2>1, <2>2 DEF CountLookup, TypeOK, CallOK, CallType, clock, breaker, owner
  <1>6. ASSUME NEW c \in Calls, ExpireLookups(c) PROVE TypeOK'
    <2>1. call[c].key \in Keys
      BY DEF TypeOK
    <2>2. CountersOK
      BY <1>6, <2>1, CountersTyped DEF ExpireLookups
    <2>3. CallOK
      BY <1>6, <1>f, <2>1 DEF ExpireLookups
    <2> QED
      BY <1>6, <2>2, <2>3 DEF ExpireLookups, TypeOK, CallOK, CallType, clock, breaker, owner
  <1>7. ASSUME NEW c \in Calls, RefuseUncounted(c) PROVE TypeOK'
    <2>1. CountersOK
      BY <1>7, <1>b, CountersTyped, TearTyped DEF RefuseUncounted
    <2>2. CallOK
      BY <1>7, <1>d DEF RefuseUncounted, Answers
    <2> QED
      BY <1>7, <2>1, <2>2 DEF RefuseUncounted, TypeOK, CallOK, CallType, clock, breaker, owner
  <1>8. ASSUME NEW c \in Calls, ReadSession(c) PROVE TypeOK'
    <2>1. CallOK
      BY <1>8, <1>d DEF ReadSession, Answers, Steps
    <2> QED
      BY <1>8, <2>1 DEF ReadSession, TypeOK, CallOK, CallType, clock, keys, breaker, owner
  <1>9. ASSUME NEW c \in Calls, Lookup(c) PROVE TypeOK'
    <2>1. CallOK
      BY <1>9, <1>d DEF Lookup, Answers
    <2>2. PICK d \in Days : call[c].key = <<"daily", d>>
      BY <1>9 DEF Lookup, Places
    <2>3. lookups' \in [Days -> Nat]
      BY <1>9, <2>2 DEF Lookup, TypeOK
    <2>4. session' \in BOOLEAN
      BY <1>9 DEF Lookup, TypeOK
    <2> QED
      BY <1>9, <2>1, <2>3, <2>4 DEF Lookup, TypeOK, CallOK, CallType, clock, keys, breaker
  <1>10. ASSUME NEW c \in Calls, ReadAlternatives(c) PROVE TypeOK'
    <2>1. [AtRest("ask") EXCEPT !.stale = alternatives] \in CallType
      <3>1. AtRest("ask") \in CallType
        BY Records DEF Steps
      <3> QED
        BY <3>1 DEF CallType, TypeOK
    <2>2. CallOK
      BY <1>10, <1>c, <1>d, <2>1 DEF ReadAlternatives, Answers
    <2> QED
      BY <1>10, <2>2 DEF ReadAlternatives, TypeOK, CallOK, CallType, clock, keys, breaker, owner
  <1>11. ASSUME NEW c \in Calls, Ask(c) \/ Search(c) PROVE TypeOK'
    <2>1. CallOK
      BY <1>11, <1>d DEF Ask, Search, Answers, Steps
    <2> QED
      BY <1>11, <2>1 DEF Ask, Search, TypeOK, CallOK, CallType, clock, keys, breaker, owner
  <1>12. ASSUME NEW c \in Calls, ForgetFailures(c) PROVE TypeOK'
    <2>1. CallOK
      BY <1>12, <1>d DEF ForgetFailures, Steps
    <2>2. CountersOK
      BY <1>12, KeysDiffer, CountersTyped DEF ForgetFailures
    <2> QED
      BY <1>12, <2>1, <2>2 DEF ForgetFailures, TypeOK, CallOK, CallType, clock, breaker, owner
  <1>13. ASSUME NEW c \in Calls, ForgetOpen(c) PROVE TypeOK'
    <2>1. CallOK
      BY <1>13, <1>d DEF ForgetOpen, Steps
    <2> QED
      BY <1>13, <2>1 DEF ForgetOpen, TypeOK, CallOK, CallType, clock, keys, owner
  <1>14. ASSUME NEW c \in Calls, Store(c) PROVE TypeOK'
    <2>1. CallOK
      BY <1>14, <1>d DEF Store, Answers
    <2> QED
      BY <1>14, <2>1 DEF Store, TypeOK, CallOK, CallType, clock, keys, owner
  <1>15. ASSUME NEW c \in Calls, CountFailure(c) PROVE TypeOK'
    <2>1. CountersOK
      BY <1>15, KeysDiffer, CountersTyped DEF CountFailure
    <2>2. count[Failures] + 1 \in 0..MaxCount
      BY <1>15, KeysDiffer, ThrottlesAssumption DEF CountFailure, Incr, TypeOK
    <2>3. PICK s \in {"failures_expire", "trip"} :
             call' = [call EXCEPT ![c].n = count[Failures] + 1, ![c].step = s]
      BY <1>15 DEF CountFailure
    <2>4. s \in Steps
      BY <2>3 DEF Steps
    <2>5. CallOK
      BY <2>2, <2>3, <2>4 DEF CallOK, CallType, TypeOK
    <2> QED
      BY <1>15, <2>1, <2>5 DEF CountFailure, TypeOK, CallOK, CallType, clock, breaker, owner
  <1>16. ASSUME NEW c \in Calls, ExpireFailures(c) PROVE TypeOK'
    <2>1. CallOK
      BY <1>16, <1>d DEF ExpireFailures, Steps
    <2>2. CountersOK
      BY <1>16, KeysDiffer, CountersTyped DEF ExpireFailures
    <2> QED
      BY <1>16, <2>1, <2>2 DEF ExpireFailures, TypeOK, CallOK, CallType, clock, breaker, owner
  <1>17. ASSUME NEW c \in Calls, Trip(c) PROVE TypeOK'
    <2>1. (call[c].n >= FailureLimit) \in BOOLEAN /\ open' \in BOOLEAN
      BY <1>17 DEF Trip
    <2>2. "fall_back" \in Steps
      BY DEF Steps
    <2>3. CallOK
      BY <1>17, <2>1, <2>2 DEF Trip, CallOK, CallType, TypeOK
    <2> QED
      BY <1>17, <2>1, <2>3 DEF Trip, TypeOK, CallOK, CallType, clock, keys, owner
  <1>18. ASSUME NEW c \in Calls, FailUncounted(c) PROVE TypeOK'
    <2>1. CallOK
      BY <1>18, <1>d DEF FailUncounted, Steps
    <2>2. CountersOK
      BY <1>18, KeysDiffer, CountersTyped, TearTyped DEF FailUncounted
    <2> QED
      BY <1>18, <2>1, <2>2 DEF FailUncounted, TypeOK, CallOK, CallType, clock, breaker, owner
  <1>19. ASSUME NEW c \in Calls, FallBack(c) PROVE TypeOK'
    <2>1. CallOK
      BY <1>19, <1>d DEF FallBack, Answers
    <2> QED
      BY <1>19, <2>1 DEF FallBack, TypeOK, CallOK, CallType, clock, keys, breaker, owner
  <1>20. ASSUME NEW c \in Calls, Crash(c) PROVE TypeOK'
    <2>1. CallOK
      BY <1>20, <1>d DEF Crash, Answers
    <2>2. CountersOK
      BY <1>20, TearTyped DEF Crash
    <2> QED
      BY <1>20, <2>1, <2>2 DEF Crash, TypeOK, CallOK, CallType, clock, breaker, owner
  <1>21. CASE NextWindow
    <2>1. window' \in Windows
      BY <1>21, ThrottlesAssumption DEF NextWindow, Windows, TypeOK
    <2> QED
      BY <1>21, <2>1 DEF NextWindow, TypeOK, keys, breaker, owner
  <1>22. ASSUME NEW k \in Keys, Expire(k) PROVE TypeOK'
    <2>1. CountersOK
      BY <1>22, CountersTyped DEF Expire
    <2>2. renewed' \in SUBSET Days
      BY <1>22, DayIsDay DEF Expire, TypeOK, day
    <2> QED
      BY <1>22, <2>1, <2>2 DEF Expire, TypeOK, clock, breaker, owner
  <1>23. CASE ExpireCaches
    BY <1>23 DEF ExpireCaches, TypeOK, clock, keys
  <1>24. CASE UNCHANGED vars
    BY <1>24 DEF vars, TypeOK
  <1> QED
    BY <1>1, <1>2, <1>3, <1>4, <1>5, <1>6, <1>7, <1>8, <1>9, <1>10, <1>11, <1>12,
       <1>13, <1>14, <1>15, <1>16, <1>17, <1>18, <1>19, <1>20, <1>21, <1>22,
       <1>23, <1>24 DEF Next, Resolve, FindAlternatives

-----------------------------------------------------------------------------

LEMMA TimeGrows ==
  ASSUME TypeOK, [Next]_vars
  PROVE  /\ window <= window' /\ day <= day'
         /\ \A w \in Windows : w > window' => w > window
         /\ \A d \in Days : d > day' => d > day
  <1>0. window \in Nat \ {0} /\ Windows \subseteq Nat \ {0} /\ Days \subseteq Nat
    <2>1. window \in Nat \ {0} /\ Windows \subseteq Nat \ {0}
      BY ThrottlesAssumption DEF TypeOK, Windows
    <2>2. \A w \in Windows : DayOf(w) \in Nat
      BY <2>1, DayGrows
    <2> QED
      BY <2>1, <2>2 DEF Days
  <1>1. day \in Nat
    BY <1>0, DayGrows DEF day
  <1>2. CASE NextWindow
    <2>1. window' = window + 1
      BY <1>2 DEF NextWindow
    <2>2. day' = DayOf(window + 1)
      BY <2>1 DEF day
    <2>3. day' \in Nat /\ day <= day'
      BY <1>0, <2>2, DayGrows DEF day
    <2> QED
      BY <1>0, <1>1, <2>1, <2>3
  <1>3. CASE UNCHANGED window
    BY <1>0, <1>1, <1>3 DEF day
  <1> QED
    BY <1>2, <1>3 DEF Next, Resolve, FindAlternatives, Request, CountRequest,
       ExpireRequests, PassUncounted, CountLookup, ExpireLookups,
       RefuseUncounted, ReadSession, Lookup, ReadAlternatives, Ask, Search,
       ForgetFailures, ForgetOpen, Store, CountFailure, ExpireFailures, Trip,
       FailUncounted, FallBack, Crash, Expire, ExpireCaches, clock, vars

FailureSteps ==
    {"ask", "search", "forget_failures", "forget_open", "store", "failures_incr",
     "failures_expire", "trip", "fall_back"}

LookupSteps == {"daily_expire", "session", "lookup"}

(* where a call may be with its key *)
Placed(r) ==
    /\ r.step = "rate_expire" => \E w \in Windows : w <= window /\ r.key = <<"rate", w>>
    /\ r.step \in LookupSteps => \E d \in Days : d <= day /\ r.key = <<"daily", d>>
    /\ r.step \in FailureSteps => r.key = Failures

LEMMA PlacedAtRest ==
  \A s : s \notin {"rate_expire"} \cup LookupSteps => Placed(AtRest(s))
  BY DEF Placed, AtRest, Owing

LEMMA PlacesArePlaced == Places <=> \A c \in Calls : Placed(call[c])
  BY DEF Places, Placed, FailureSteps, LookupSteps

LEMMA PlacesStep == TypeOK /\ Places /\ [Next]_vars => Places'
  <1> SUFFICES ASSUME TypeOK, Places, [Next]_vars PROVE Places'
    OBVIOUS
  <1>0. \A c \in Calls : Placed(call[c])
    BY PlacesArePlaced
  <1>a. window \in Windows /\ day \in Days
    BY DayIsDay DEF TypeOK, day
  <1>b. Windows \subseteq Nat /\ Days \subseteq Nat
    <2>1. Windows \subseteq Nat \ {0}
      BY ThrottlesAssumption DEF Windows
    <2>2. \A w \in Windows : DayOf(w) \in Nat
      BY <2>1, DayGrows
    <2> QED
      BY <2>1, <2>2 DEF Days
  <1> SUFFICES \A c \in Calls : Placed(call'[c])
    <2>1. window <= window' /\ day <= day' /\ window' \in Nat /\ day' \in Nat
      <3>1. TypeOK'
        BY TypeStep
      <3>2. window' \in Windows /\ day' \in Days
        BY <3>1, DayIsDay DEF TypeOK, day
      <3> QED
        BY <1>b, <3>2, TimeGrows
    <2>2. ASSUME NEW c \in Calls, Placed(call'[c]) PROVE
             /\ call'[c].step = "rate_expire" =>
                  \E w \in Windows : w <= window' /\ call'[c].key = <<"rate", w>>
             /\ call'[c].step \in LookupSteps =>
                  \E d \in Days : d <= day' /\ call'[c].key = <<"daily", d>>
             /\ call'[c].step \in FailureSteps => call'[c].key = Failures
      BY <1>a, <1>b, <2>1, <2>2 DEF Placed
    <2> QED
      BY <2>2 DEF Places, LookupSteps, FailureSteps
  <1>c. ASSUME NEW c \in Calls, NEW r, Placed(r), call' = [call EXCEPT ![c] = r]
        PROVE  \A o \in Calls : Placed(call'[o])
    BY <1>0, <1>c DEF TypeOK
  <1>d. ASSUME NEW c \in Calls,
               NEW s, s \notin {"rate_expire"} \cup LookupSteps, Answer(c, s)
        PROVE  \A o \in Calls : Placed(call'[o])
    BY <1>c, <1>d, PlacedAtRest DEF Answer
  <1>e. Placed(Owing("rate_expire", <<"rate", window>>))
    BY <1>a, <1>b DEF Placed, Owing, LookupSteps, FailureSteps
  <1>f. \A s \in LookupSteps : Placed(Owing(s, <<"daily", day>>))
    BY <1>a, <1>b DEF Placed, Owing, LookupSteps, FailureSteps
  <1>g. ASSUME NEW c \in Calls, NEW s \in FailureSteps,
               call'[c].step = s, call'[c].key = Failures,
               \A o \in Calls \ {c} : call'[o] = call[o]
        PROVE  \A o \in Calls : Placed(call'[o])
    <2>1. Placed(call'[c])
      BY <1>g DEF Placed, FailureSteps, LookupSteps
    <2> QED
      BY <1>0, <1>g, <2>1
  <1>h. ASSUME NEW c \in Calls, NEW s \in FailureSteps, Goto(c, s),
               call[c].step \in FailureSteps
        PROVE  \A o \in Calls : Placed(call'[o])
    <2>1. call[c].key = Failures
      BY <1>0, <1>h DEF Placed
    <2>2. /\ call'[c].step = s /\ call'[c].key = Failures
          /\ \A o \in Calls \ {c} : call'[o] = call[o]
      BY <1>h, <2>1 DEF Goto, TypeOK
    <2> QED
      BY <1>g, <2>2
  <1> USE DEF LookupSteps
  <1>1. ASSUME NEW c \in Calls, Request(c) PROVE \A o \in Calls : Placed(call'[o])
    BY <1>1, <1>d DEF Request, Answer
  <1>2. ASSUME NEW c \in Calls, CountRequest(c) PROVE \A o \in Calls : Placed(call'[o])
    BY <1>2, <1>c, <1>d, <1>e DEF CountRequest, Admit
  <1>3. ASSUME NEW c \in Calls,
               \/ ExpireRequests(c) \/ PassUncounted(c) \/ RefuseUncounted(c)
               \/ Lookup(c) \/ FallBack(c) \/ Crash(c) \/ Store(c)
        PROVE  \A o \in Calls : Placed(call'[o])
    <2>1. CASE ExpireRequests(c)
      BY <2>1, <1>d DEF ExpireRequests, Admit
    <2>2. CASE PassUncounted(c) \/ RefuseUncounted(c) \/ Crash(c) \/ Store(c)
      BY <2>2, <1>d DEF PassUncounted, RefuseUncounted, Crash, Store
    <2>3. CASE Lookup(c) \/ FallBack(c)
      BY <2>3, <1>d DEF Lookup, FallBack
    <2> QED
      BY <1>3, <2>1, <2>2, <2>3
  <1>4. ASSUME NEW c \in Calls, CountLookup(c) PROVE \A o \in Calls : Placed(call'[o])
    BY <1>4, <1>c, <1>d, <1>f DEF CountLookup, Allow
  <1>5. ASSUME NEW c \in Calls, ExpireLookups(c) PROVE \A o \in Calls : Placed(call'[o])
    <2>1. PICK d \in Days : d <= day /\ call[c].key = <<"daily", d>>
      BY <1>5 DEF ExpireLookups, Places
    <2>2. Placed(Owing("session", <<"daily", d>>))
      BY <2>1 DEF Placed, Owing, FailureSteps
    <2> QED
      BY <1>5, <1>c, <1>d, <2>1, <2>2 DEF ExpireLookups, Allow
  <1>6. ASSUME NEW c \in Calls, ReadSession(c) PROVE \A o \in Calls : Placed(call'[o])
    <2>1. CASE Answer(c, "resolved")
      BY <1>d, <2>1
    <2>2. CASE Goto(c, "lookup")
      <3>1. /\ call'[c].step = "lookup" /\ call'[c].key = call[c].key
            /\ \A o \in Calls \ {c} : call'[o] = call[o]
        BY <2>2 DEF Goto, TypeOK
      <3>2. Placed(call'[c])
        BY <1>0, <1>6, <3>1 DEF ReadSession, Placed, FailureSteps
      <3> QED
        BY <1>0, <3>1, <3>2
    <2> QED
      BY <1>6, <2>1, <2>2 DEF ReadSession
  <1>7. ASSUME NEW c \in Calls, ReadAlternatives(c) PROVE \A o \in Calls : Placed(call'[o])
    <2>1. Placed([AtRest("ask") EXCEPT !.stale = alternatives])
      BY DEF Placed, AtRest, Owing, FailureSteps
    <2> QED
      BY <1>7, <1>c, <1>d, <2>1 DEF ReadAlternatives
  <1>8. ASSUME NEW c \in Calls, \/ Ask(c) \/ Search(c) \/ ForgetFailures(c)
                                \/ ForgetOpen(c) \/ ExpireFailures(c)
                                \/ FailUncounted(c)
        PROVE  \A o \in Calls : Placed(call'[o])
    <2>1. CASE Answer(c, "cached")
      BY <1>d, <2>1
    <2>2. ASSUME NEW s \in FailureSteps, Goto(c, s) PROVE \A o \in Calls : Placed(call'[o])
      <3>1. call[c].step \in FailureSteps
        BY <1>8 DEF Ask, Search, ForgetFailures, ForgetOpen, ExpireFailures,
           FailUncounted, FailureSteps
      <3> QED
        BY <1>h, <2>2, <3>1
    <2> QED
      BY <1>8, <2>1, <2>2 DEF Ask, Search, ForgetFailures, ForgetOpen,
         ExpireFailures, FailUncounted, FailureSteps
  <1>9. ASSUME NEW c \in Calls, CountFailure(c) \/ Trip(c)
        PROVE  \A o \in Calls : Placed(call'[o])
    <2>1. call[c].key = Failures
      BY <1>0, <1>9 DEF CountFailure, Trip, Placed, FailureSteps
    <2>2. /\ call'[c].step \in {"failures_expire", "trip", "fall_back"}
          /\ call'[c].key = call[c].key
          /\ \A o \in Calls \ {c} : call'[o] = call[o]
      BY <1>9 DEF CountFailure, Trip, TypeOK
    <2> QED
      BY <1>g, <2>1, <2>2 DEF FailureSteps
  <1>10. CASE UNCHANGED call
    BY <1>0, <1>10
  <1> QED
    BY <1>1, <1>2, <1>3, <1>4, <1>5, <1>6, <1>7, <1>8, <1>9, <1>10 DEF Next, Resolve,
       FindAlternatives, NextWindow, Expire, ExpireCaches, vars

-----------------------------------------------------------------------------

DueSteps == {"rate_expire", "daily_expire", "failures_expire"}

Aged(k) == count[k] > 0 => k \in expiring \/ DueFor(k) \/ k \in torn

(* One call moves from o to r; every counter that it leaves without an      *)
(* expiry, and that it was due to set one for, is torn.                     *)
LEMMA AgedMove ==
  ASSUME TypeOK, CountersAgeOut, NEW c \in Calls,
         \A o \in Calls \ {c} : call'[o] = call[o],
         NEW k \in Keys,
         \/ count'[k] = 0
         \/ k \in expiring' \/ k \in torn'
         \/ call'[c].key = k /\ call'[c].step \in DueSteps
         \/ /\ count[k] > 0
            /\ k \in expiring => k \in expiring'
            /\ k \in torn => k \in torn'
            /\ call[c].step \in DueSteps => call[c].key # k
  PROVE  Aged(k)'
  <1>1. CASE /\ count[k] > 0
             /\ k \in expiring => k \in expiring'
             /\ k \in torn => k \in torn'
             /\ call[c].step \in DueSteps => call[c].key # k
    <2>1. CASE DueFor(k)
      <3>1. PICK o \in Calls : call[o].key = k /\ call[o].step \in DueSteps
        BY <2>1 DEF DueFor, DueSteps
      <3>2. o # c /\ call'[o] = call[o]
        BY <1>1, <3>1
      <3> QED
        BY <3>1, <3>2 DEF Aged, DueFor, DueSteps
    <2>2. CASE k \in expiring \/ k \in torn
      BY <1>1, <2>2 DEF Aged
    <2> QED
      BY <1>1, <2>1, <2>2 DEF CountersAgeOut
  <1>2. CASE call'[c].key = k /\ call'[c].step \in DueSteps
    BY <1>2 DEF Aged, DueFor, DueSteps
  <1>3. CASE count'[k] = 0 \/ k \in expiring' \/ k \in torn'
    BY <1>3 DEF Aged
  <1> QED
    BY <1>1, <1>2, <1>3

LEMMA AgesStep ==
  TypeOK /\ Places /\ CountersAgeOut /\ [Next]_vars => CountersAgeOut'
  <1> SUFFICES ASSUME TypeOK, Places, CountersAgeOut, [Next]_vars,
                      NEW k \in Keys
               PROVE  Aged(k)'
    BY DEF CountersAgeOut, Aged
  <1> DEFINE Rest(c) ==
        \/ count'[k] = 0
        \/ k \in expiring' \/ k \in torn'
        \/ call'[c].key = k /\ call'[c].step \in DueSteps
        \/ /\ count[k] > 0
           /\ k \in expiring => k \in expiring'
           /\ k \in torn => k \in torn'
           /\ call[c].step \in DueSteps => call[c].key # k
  <1>0. count[k] \in Nat
    BY ThrottlesAssumption DEF TypeOK
  <1>a. window \in Windows /\ day \in Days
    BY DayIsDay DEF TypeOK, day
  <1>b. <<"rate", window>> \in Keys /\ <<"daily", day>> \in Keys
    BY <1>a, KeysDiffer
  <1>c. ASSUME NEW c \in Calls,
               UNCHANGED keys, call[c].step \notin DueSteps
        PROVE  Rest(c)
    BY <1>0, <1>c DEF keys
  <1>d. ASSUME NEW c \in Calls, NEW q \in Keys, Incr(q), call[c].step \notin DueSteps,
               count[q] = 0 => call'[c].key = q /\ call'[c].step \in DueSteps
        PROVE  Rest(c)
    <2>1. CASE k = q
      BY <1>0, <1>d, <2>1 DEF Incr
    <2>2. CASE k # q
      BY <1>0, <1>d, <2>2 DEF Incr, TypeOK
    <2> QED
      BY <2>1, <2>2
  <1>e. ASSUME NEW c \in Calls, NEW q \in Keys, SetExpiry(q), call[c].key = q
        PROVE  Rest(c)
    <2>1. CASE k = q
      BY <1>0, <1>e, <2>1 DEF SetExpiry
    <2>2. CASE k # q
      BY <1>0, <1>e, <2>2 DEF SetExpiry
    <2> QED
      BY <2>1, <2>2
  <1>f. ASSUME NEW c \in Calls, Tear(c) PROVE Rest(c)
    <2>1. CASE call[c].step \in DueSteps /\ call[c].key = k
      BY <1>f, <2>1 DEF Tear, DueSteps
    <2>2. CASE ~(call[c].step \in DueSteps /\ call[c].key = k)
      BY <1>0, <1>f, <2>2 DEF Tear
    <2> QED
      BY <2>1, <2>2
  <1>g. ASSUME NEW c \in Calls, NEW q \in Keys, Lose(q), call[c].step \notin DueSteps
        PROVE  Rest(c)
    <2>1. CASE UNCHANGED keys
      BY <1>c, <1>g, <2>1
    <2>2. CASE ~UNCHANGED keys
      <3>1. CASE k = q
        BY <1>0, <1>g, <2>2, <3>1 DEF Lose
      <3>2. CASE k # q
        BY <1>0, <1>g, <2>2, <3>2 DEF Lose, TypeOK
      <3> QED
        BY <3>1, <3>2
    <2> QED
      BY <2>1, <2>2
  <1>h. ASSUME NEW c \in Calls, NEW q \in Keys, Drop(q), call[c].step \notin DueSteps
        PROVE  Rest(c)
    <2>1. CASE k = q
      BY <1>h, <2>1 DEF Drop, TypeOK
    <2>2. CASE k # q
      BY <1>0, <1>h, <2>2 DEF Drop, TypeOK
    <2> QED
      BY <2>1, <2>2
  <1> HIDE DEF Rest
  <1>i. ASSUME NEW c \in Calls, Rest(c), \A o \in Calls \ {c} : call'[o] = call[o]
        PROVE  Aged(k)'
    BY <1>i, AgedMove DEF Rest
  <1>1. ASSUME NEW c \in Calls, Resolve(c) \/ FindAlternatives(c) \/ Crash(c)
        PROVE  Aged(k)'
    <2>1. \A o \in Calls \ {c} : call'[o] = call[o]
      BY <1>1 DEF TypeOK, Resolve, FindAlternatives, Request, CountRequest, Admit,
         ExpireRequests, PassUncounted, CountLookup, Allow, ExpireLookups,
         RefuseUncounted, ReadSession, Lookup, ReadAlternatives, Ask, Search,
         ForgetFailures, ForgetOpen, Store, CountFailure, ExpireFailures, Trip,
         FailUncounted, FallBack, Crash, Goto, Answer
    <2>2. CASE CountRequest(c)
      <3>1. \/ call'[c].key = <<"rate", window>> /\ call'[c].step = "rate_expire"
            \/ count[<<"rate", window>>] # 0
        BY <1>0, <2>2 DEF CountRequest, Owing, TypeOK
      <3> QED
        BY <1>b, <1>d, <1>i, <2>1, <2>2, <3>1 DEF CountRequest, DueSteps
    <2>3. CASE CountLookup(c)
      <3>1. \/ call'[c].key = <<"daily", day>> /\ call'[c].step = "daily_expire"
            \/ count[<<"daily", day>>] # 0
        BY <1>0, <2>3 DEF CountLookup, Owing, TypeOK
      <3> QED
        BY <1>b, <1>d, <1>i, <2>1, <2>3, <3>1 DEF CountLookup, DueSteps
    <2>4. CASE CountFailure(c)
      <3>1. call[c].key = Failures
        BY <2>4 DEF CountFailure, Places
      <3>2. \/ call'[c].key = Failures /\ call'[c].step = "failures_expire"
            \/ count[Failures] # 0
        BY <1>0, <2>4, <3>1 DEF CountFailure, TypeOK
      <3> QED
        BY <1>d, <1>i, <2>1, <2>4, <3>2, KeysDiffer DEF CountFailure, DueSteps
    <2>5. CASE ExpireRequests(c) \/ ExpireLookups(c) \/ ExpireFailures(c)
      <3>1. call[c].key \in Keys
        BY DEF TypeOK
      <3>2. SetExpiry(call[c].key)
        BY <2>5 DEF ExpireRequests, ExpireLookups, ExpireFailures, Places
      <3> QED
        BY <1>e, <1>i, <2>1, <3>1, <3>2
    <2>6. CASE PassUncounted(c) \/ RefuseUncounted(c) \/ FailUncounted(c) \/ Crash(c)
      <3>1. \/ Tear(c)
            \/ /\ call[c].step \notin DueSteps
               /\ \E q \in Keys : Lose(q)
        BY <1>b, <2>6, KeysDiffer DEF PassUncounted, RefuseUncounted, FailUncounted,
           Crash, DueSteps
      <3> QED
        BY <1>f, <1>g, <1>i, <2>1, <3>1
    <2>7. CASE ForgetFailures(c)
      <3>1. call[c].step \notin DueSteps
        BY <2>7 DEF ForgetFailures, DueSteps
      <3> QED
        BY <1>c, <1>h, <1>i, <2>1, <2>7, <3>1, KeysDiffer DEF ForgetFailures
    <2>8. CASE \/ Request(c) \/ ReadSession(c) \/ Lookup(c) \/ ReadAlternatives(c)
               \/ Ask(c) \/ Search(c) \/ ForgetOpen(c) \/ Store(c) \/ Trip(c)
               \/ FallBack(c)
      <3>1. UNCHANGED keys /\ call[c].step \notin DueSteps
        BY <2>8 DEF Request, ReadSession, Lookup, ReadAlternatives, Ask, Search,
           ForgetOpen, Store, Trip, FallBack, DueSteps, Answers
      <3> QED
        BY <1>c, <1>i, <2>1, <3>1
    <2> QED
      BY <1>1, <2>2, <2>3, <2>4, <2>5, <2>6, <2>7, <2>8 DEF Resolve, FindAlternatives
  <1>2. ASSUME NEW q \in Keys, Expire(q) PROVE Aged(k)'
    <2>1. CASE k = q
      BY <1>2, <2>1 DEF Expire, Drop, TypeOK, Aged
    <2>2. CASE k # q
      BY <1>2, <2>2 DEF Expire, Drop, TypeOK, Aged, CountersAgeOut, DueFor
    <2> QED
      BY <2>1, <2>2
  <1>3. CASE UNCHANGED <<keys, call>>
    BY <1>3 DEF keys, CountersAgeOut, Aged, DueFor
  <1> QED
    BY <1>1, <1>2, <1>3 DEF Next, NextWindow, ExpireCaches, vars, keys

-----------------------------------------------------------------------------

RateDue(w) == \E c \in Calls : call[c].step = "rate_expire" /\ call[c].key = <<"rate", w>>

(* a call that is about to set the expiry of the window's key will pass     *)
RateHolds ==
    /\ \A w \in Windows :
          /\ passed[w] <= RateLimit
          /\ RateDue(w) /\ RateLimit > 0 => passed[w] < RateLimit
          /\ w = window => /\ passed[w] <= count[<<"rate", w>>]
                           /\ RateDue(w) => passed[w] < count[<<"rate", w>>]
          /\ w > window => passed[w] = 0
    /\ \A b, c \in Calls :
          /\ call[b].step = "rate_expire" /\ call[c].step = "rate_expire"
          /\ call[b].key = call[c].key
          => b = c

LEMMA Numbers ==
  ASSUME TypeOK
  PROVE  /\ window \in Windows /\ day \in Days
         /\ Windows \subseteq Nat /\ Days \subseteq Nat
         /\ RateLimit \in Nat /\ DailyLimit \in Nat
         /\ \A k \in Keys : count[k] \in Nat
         /\ \A w \in Windows : passed[w] \in Nat /\ count[<<"rate", w>>] \in Nat
         /\ \A d \in Days : lookups[d] \in Nat /\ count[<<"daily", d>>] \in Nat
  <1>1. Windows \subseteq Nat \ {0}
    BY ThrottlesAssumption DEF Windows
  <1>2. \A w \in Windows : DayOf(w) \in Nat
    BY <1>1, DayGrows
  <1>3. \A k \in Keys : count[k] \in Nat
    BY ThrottlesAssumption DEF TypeOK
  <1>4. RateLimit \in Nat /\ DailyLimit \in Nat
    BY ThrottlesAssumption
  <1> QED
    BY <1>1, <1>2, <1>3, <1>4, DayIsDay, KeysDiffer DEF TypeOK, Days, day

(* a step of another kind: it neither lets a request pass nor makes one due *)
LEMMA RateQuiet ==
  ASSUME TypeOK, TypeOK', RateHolds, NEW c \in Calls,
         UNCHANGED <<window, passed>>,
         count'[<<"rate", window>>] >= count[<<"rate", window>>],
         \A o \in Calls \ {c} : call'[o] = call[o],
         call'[c].step # "rate_expire"
  PROVE  RateHolds'
  <1>1. \A w \in Windows : RateDue(w)' => RateDue(w)
    BY DEF RateDue
  <1>2. count[<<"rate", window>>] \in Nat /\ count'[<<"rate", window>>] \in Nat
        /\ passed[window] \in Nat /\ window \in Windows
    BY Numbers, KeysDiffer, ThrottlesAssumption DEF TypeOK
  <1>3. \A w \in Windows : w = window =>
           /\ passed[w] <= count'[<<"rate", w>>]
           /\ RateDue(w)' => passed[w] < count'[<<"rate", w>>]
    BY <1>1, <1>2 DEF RateHolds
  <1>4. \A b, d \in Calls :
           /\ call'[b].step = "rate_expire" /\ call'[d].step = "rate_expire"
           /\ call'[b].key = call'[d].key
           => b = d
    BY DEF RateHolds
  <1> QED
    BY <1>1, <1>3, <1>4 DEF RateHolds

LEMMA RateStep == TypeOK /\ Places /\ RateHolds /\ [Next]_vars => RateHolds'
  <1> SUFFICES ASSUME TypeOK, Places, RateHolds, [Next]_vars PROVE RateHolds'
    OBVIOUS
  <1>t. TypeOK'
    BY TypeStep
  <1>n. /\ window \in Windows /\ Windows \subseteq Nat /\ RateLimit \in Nat
        /\ \A w \in Windows : passed[w] \in Nat /\ count[<<"rate", w>>] \in Nat
    BY Numbers
  <1>k. <<"rate", window>> \in Keys
    BY <1>n, KeysDiffer
  <1>1. ASSUME NEW c \in Calls, CountRequest(c) PROVE RateHolds'
    <2> DEFINE k == <<"rate", window>>
               n == count[k] + 1
    <2>1. /\ count'[k] = n /\ window' = window
          /\ \A w \in Windows : w # window => count'[<<"rate", w>>] = count[<<"rate", w>>]
      BY <1>1, <1>k, KeysDiffer DEF CountRequest, Incr, TypeOK, clock
    <2>2. \A o \in Calls \ {c} : call'[o] = call[o]
      BY <1>1 DEF CountRequest, Admit, Answer, TypeOK
    <2>3. k[2] = window /\ n \in Nat /\ n >= 1
      BY <1>n
    <2>4. CASE n = 1
      <3>1. UNCHANGED passed /\ call'[c] = Owing("rate_expire", k)
        BY <1>1, <2>4 DEF CountRequest, TypeOK
      <3>2. ~RateDue(window) /\ passed[window] = 0
        BY <1>n, <2>4 DEF RateHolds
      <3>3. \A w \in Windows : w # window => (RateDue(w)' => RateDue(w))
        <4>1. call'[c].key = k
          BY <3>1 DEF Owing
        <4> QED
          BY <2>2, <4>1 DEF RateDue
      <3>4. \A o \in Calls \ {c} : ~(call[o].step = "rate_expire" /\ call[o].key = k)
        BY <3>2 DEF RateDue
      <3>5. \A b, d \in Calls :
               /\ call'[b].step = "rate_expire" /\ call'[d].step = "rate_expire"
               /\ call'[b].key = call'[d].key
               => b = d
        BY <2>2, <3>1, <3>4 DEF RateHolds, Owing
      <3>6. ASSUME NEW w \in Windows
            PROVE  /\ passed[w] <= RateLimit
                   /\ RateDue(w)' /\ RateLimit > 0 => passed[w] < RateLimit
                   /\ w = window => /\ passed[w] <= count'[<<"rate", w>>]
                                    /\ RateDue(w)' => passed[w] < count'[<<"rate", w>>]
                   /\ w > window => passed[w] = 0
        <4>1. CASE w = window
          BY <1>n, <2>1, <2>3, <3>2, <4>1
        <4>2. CASE w # window
          BY <3>3, <4>2 DEF RateHolds
        <4> QED
          BY <4>1, <4>2
      <3> QED
        BY <2>1, <3>1, <3>5, <3>6 DEF RateHolds
    <2>5. CASE n > 1 /\ n > RateLimit
      <3>1. /\ UNCHANGED passed
            /\ call'[c] = AtRest("429")
        BY <1>1, <2>3, <2>5 DEF CountRequest, Admit, Answer, TypeOK
      <3>2. call'[c].step # "rate_expire" /\ count'[k] >= count[k]
        BY <1>n, <2>1, <3>1 DEF AtRest, Owing
      <3> QED
        BY <1>t, <2>1, <2>2, <3>1, <3>2, RateQuiet
    <2>6. CASE n > 1 /\ n <= RateLimit
      <3>1. /\ passed' = [passed EXCEPT ![window] = passed[window] + 1]
            /\ call'[c] = AtRest("daily_incr")
        BY <1>1, <1>n, <2>3, <2>6 DEF CountRequest, Admit, Answer, TypeOK
      <3>2. /\ passed'[window] = passed[window] + 1
            /\ \A w \in Windows : w # window => passed'[w] = passed[w]
        BY <1>n, <3>1 DEF TypeOK
      <3>3. call'[c].step # "rate_expire"
        BY <3>1 DEF AtRest, Owing
      <3>4. \A w \in Windows : RateDue(w)' => RateDue(w)
        BY <2>2, <3>3 DEF RateDue
      <3>5. \A b, d \in Calls :
               /\ call'[b].step = "rate_expire" /\ call'[d].step = "rate_expire"
               /\ call'[b].key = call'[d].key
               => b = d
        BY <2>2, <3>3 DEF RateHolds
      <3>6. ASSUME NEW w \in Windows
            PROVE  /\ passed'[w] <= RateLimit
                   /\ RateDue(w)' /\ RateLimit > 0 => passed'[w] < RateLimit
                   /\ w = window => /\ passed'[w] <= count'[<<"rate", w>>]
                                    /\ RateDue(w)' => passed'[w] < count'[<<"rate", w>>]
                   /\ w > window => passed'[w] = 0
        <4>1. CASE w = window
          <5>1. /\ passed[w] <= count[k]
                /\ RateDue(w) => passed[w] < count[k]
            BY <4>1 DEF RateHolds
          <5> HIDE DEF k
          <5>2. passed[w] \in Nat /\ count[k] \in Nat /\ n = count[k] + 1
            BY <1>n, <4>1 DEF k
          <5>3. count'[<<"rate", w>>] = count[k] + 1
            BY <2>1, <4>1 DEF k
          <5> QED
            BY <1>n, <2>6, <3>2, <3>4, <4>1, <5>1, <5>2, <5>3
        <4>2. CASE w # window
          BY <3>2, <3>4, <4>2 DEF RateHolds
        <4> QED
          BY <4>1, <4>2
      <3> QED
        BY <2>1, <3>5, <3>6 DEF RateHolds
    <2> QED
      BY <1>n, <2>3, <2>4, <2>5, <2>6
  <1>2. ASSUME NEW c \in Calls, ExpireRequests(c) PROVE RateHolds'
    <2>1. PICK v \in Windows : v <= window /\ call[c].key = <<"rate", v>>
      BY <1>2 DEF ExpireRequests, Places
    <2>2. /\ UNCHANGED <<window, count>>
          /\ call'[c].step \in {"429", "daily_incr"}
          /\ \A o \in Calls \ {c} : call'[o] = call[o]
          /\ RateLimit = 0 => passed' = passed
          /\ passed' \in {passed, [passed EXCEPT ![v] = passed[v] + 1]}
      BY <1>2, <1>n, <2>1 DEF ExpireRequests, SetExpiry, Admit, Answer, AtRest, Owing,
         TypeOK, clock
    <2>3. RateDue(v)
      BY <1>2, <2>1 DEF ExpireRequests, RateDue
    <2>4. ~RateDue(v)'
      <3>1. \A o \in Calls \ {c} : ~(call[o].step = "rate_expire" /\ call[o].key = <<"rate", v>>)
        BY <1>2, <2>1 DEF ExpireRequests, RateHolds
      <3> QED
        BY <2>2, <3>1 DEF RateDue
    <2>5. \A w \in Windows : RateDue(w)' => RateDue(w)
      BY <2>2 DEF RateDue
    <2>6. \A b, d \in Calls :
             /\ call'[b].step = "rate_expire" /\ call'[d].step = "rate_expire"
             /\ call'[b].key = call'[d].key
             => b = d
      BY <2>2 DEF RateHolds
    <2>7. ASSUME NEW w \in Windows
          PROVE  /\ passed'[w] <= RateLimit
                 /\ RateDue(w)' /\ RateLimit > 0 => passed'[w] < RateLimit
                 /\ w = window => /\ passed'[w] <= count[<<"rate", w>>]
                                  /\ RateDue(w)' => passed'[w] < count[<<"rate", w>>]
                 /\ w > window => passed'[w] = 0
      <3>1. CASE w # v \/ passed' = passed
        <4>1. passed'[w] = passed[w]
          BY <2>2, <3>1 DEF TypeOK
        <4> QED
          BY <2>5, <4>1 DEF RateHolds
      <3>2. CASE w = v /\ passed' # passed
        <4>1. passed'[w] = passed[w] + 1 /\ RateLimit > 0
          BY <1>n, <2>2, <3>2 DEF TypeOK
        <4>2. /\ passed[w] < RateLimit
              /\ w = window => passed[w] < count[<<"rate", w>>]
          BY <2>3, <3>2, <4>1 DEF RateHolds
        <4> QED
          BY <1>n, <2>1, <2>4, <3>2, <4>1, <4>2
      <3> QED
        BY <3>1, <3>2
    <2> QED
      BY <2>2, <2>6, <2>7 DEF RateHolds
  <1>3. ASSUME NEW c \in Calls, PassUncounted(c) PROVE RateHolds'
    <2>1. /\ UNCHANGED <<window, passed>> /\ call'[c] = AtRest("daily_incr")
          /\ \A o \in Calls \ {c} : call'[o] = call[o]
      BY <1>3 DEF PassUncounted, Answer, TypeOK, clock
    <2>2. count'[<<"rate", window>>] >= count[<<"rate", window>>]
      BY <1>3, <1>k, <1>n DEF PassUncounted, Lose, Tear, keys, TypeOK
    <2>3. call'[c].step # "rate_expire"
      BY <2>1 DEF AtRest, Owing
    <2> QED
      BY <1>t, <2>1, <2>2, <2>3, RateQuiet
  <1>4. ASSUME NEW c \in Calls,
               \/ CountLookup(c) \/ ExpireLookups(c) \/ RefuseUncounted(c)
               \/ ReadSession(c) \/ Lookup(c) \/ Request(c) \/ Crash(c)
               \/ FindAlternatives(c)
        PROVE  RateHolds'
    <2>1. UNCHANGED <<window, passed>>
      BY <1>4 DEF CountLookup, ExpireLookups, RefuseUncounted, ReadSession, Lookup,
         Request, Crash, FindAlternatives, ReadAlternatives, Ask, Search,
         ForgetFailures, ForgetOpen, Store, CountFailure, ExpireFailures, Trip,
         FailUncounted, FallBack, clock
    <2>2. \A o \in Calls \ {c} : call'[o] = call[o]
      BY <1>4 DEF TypeOK, FindAlternatives, Request, CountLookup, Allow,
         ExpireLookups, RefuseUncounted, ReadSession, Lookup, ReadAlternatives,
         Ask, Search, ForgetFailures, ForgetOpen, Store, CountFailure,
         ExpireFailures, Trip, FailUncounted, FallBack, Crash, Goto, Answer
    <2>3. call'[c].step # "rate_expire"
      <3>1. CASE \E a : a # "rate_expire" /\ (Answer(c, a) \/ Goto(c, a))
        BY <3>1 DEF Answer, Goto, AtRest, Owing, TypeOK
      <3>2. CASE \/ Request(c) \/ RefuseUncounted(c) \/ ReadSession(c) \/ Lookup(c)
                 \/ Crash(c)
        BY <3>1, <3>2 DEF Request, RefuseUncounted, ReadSession, Lookup, Crash, Answer
      <3>3. CASE CountLookup(c) \/ ExpireLookups(c)
        BY <3>3 DEF CountLookup, ExpireLookups, Allow, Answer, AtRest, Owing, TypeOK
      <3>4. CASE ReadAlternatives(c) \/ CountFailure(c) \/ Trip(c)
        BY <3>4 DEF ReadAlternatives, CountFailure, Trip, Answer, AtRest, Owing, TypeOK
      <3>5. CASE \/ Ask(c) \/ Search(c) \/ ForgetFailures(c) \/ ForgetOpen(c)
                 \/ Store(c) \/ ExpireFailures(c) \/ FailUncounted(c) \/ FallBack(c)
        BY <3>1, <3>5 DEF Ask, Search, ForgetFailures, ForgetOpen, Store,
           ExpireFailures, FailUncounted, FallBack
      <3> QED
        BY <1>4, <3>2, <3>3, <3>4, <3>5 DEF FindAlternatives
    <2>4. ASSUME NEW q \in Keys, q # <<"rate", window>>,
                 Incr(q) \/ Lose(q) \/ Drop(q)
          PROVE  count'[<<"rate", window>>] = count[<<"rate", window>>]
      BY <1>k, <2>4 DEF Incr, Lose, Drop, keys, TypeOK
    <2>5. <<"daily", day>> \in Keys /\ <<"daily", day>> # <<"rate", window>>
      BY <1>n, Numbers, KeysDiffer
    <2>6. Failures \in Keys /\ Failures # <<"rate", window>>
      BY <1>n, KeysDiffer
    <2>7. count'[<<"rate", window>>] = count[<<"rate", window>>]
      <3>1. \/ UNCHANGED count
            \/ Incr(<<"daily", day>>) \/ Lose(<<"daily", day>>)
            \/ Incr(Failures) \/ Lose(Failures) \/ Drop(Failures)
        BY <1>4 DEF CountLookup, ExpireLookups, RefuseUncounted, ReadSession, Lookup,
           Request, Crash, FindAlternatives, ReadAlternatives, Ask, Search,
           ForgetFailures, ForgetOpen, Store, CountFailure, ExpireFailures, Trip,
           FailUncounted, FallBack, keys, SetExpiry, Tear
      <3> QED
        BY <2>4, <2>5, <2>6, <3>1
    <2>8. count'[<<"rate", window>>] >= count[<<"rate", window>>]
      BY <1>n, <2>7
    <2> QED
      BY <1>t, <2>1, <2>2, <2>3, <2>8, RateQuiet
  <1>5. ASSUME NEW q \in Keys, Expire(q) PROVE RateHolds'
    <2>1. q # <<"rate", window>>
      BY <1>5, <1>n DEF Expire
    <2>2. count'[<<"rate", window>>] = count[<<"rate", window>>]
      BY <1>5, <1>k, <2>1 DEF Expire, Drop, TypeOK
    <2>3. UNCHANGED <<window, passed, call>>
      BY <1>5 DEF Expire, clock
    <2> QED
      BY <2>2, <2>3 DEF RateHolds, RateDue
  <1>6. CASE NextWindow
    <2>1. window' = window + 1 /\ UNCHANGED <<passed, call, count>>
      BY <1>6 DEF NextWindow, keys
    <2>2. \A w \in Windows : w > window => ~RateDue(w)
      BY <1>n DEF RateDue, Places
    <2>3. ASSUME NEW w \in Windows, w = window'
          PROVE  passed[w] <= count[<<"rate", w>>] /\ ~RateDue(w)
      BY <1>n, <2>1, <2>2, <2>3 DEF RateHolds
    <2>4. \A w \in Windows : w > window' => passed[w] = 0
      BY TimeGrows DEF RateHolds
    <2> QED
      BY <2>1, <2>3, <2>4 DEF RateHolds, RateDue
  <1>7. CASE UNCHANGED <<window, passed, call, count>>
    BY <1>7 DEF RateHolds, RateDue
  <1> QED
    BY <1>1, <1>2, <1>3, <1>4, <1>5, <1>6, <1>7 DEF Next, Resolve, ExpireCaches,
       clock, keys, vars

-----------------------------------------------------------------------------

DailyDue(d) ==
    \E c \in Calls : call[c].step = "daily_expire" /\ call[c].key = <<"daily", d>>

(* the calls that were allowed a look-up and have not made it *)
Allowed(d) ==
    {c \in Calls : call[c].step \in {"session", "lookup"} /\ call[c].key = <<"daily", d>>}

Used(d) == lookups[d] + Cardinality(Allowed(d))

(* a counter that has an expiry has counted, and nobody owes it one *)
ExpiringCount == \A k \in expiring : count[k] > 0

DailyHolds ==
    /\ \A d \in Days :
          /\ Used(d) <= Before(d) + DailyLimit
          /\ DailyDue(d) /\ DailyLimit > 0 => Used(d) < Before(d) + DailyLimit
          /\ d = day => /\ Used(d) <= Before(d) + count[<<"daily", d>>]
                        /\ DailyDue(d) => Used(d) < Before(d) + count[<<"daily", d>>]
                        /\ DailyDue(d) => count[<<"daily", d>>] > 0
          /\ d > day => lookups[d] = 0
          /\ DailyDue(d) => <<"daily", d>> \notin expiring
    /\ \A b, c \in Calls :
          /\ call[b].step = "daily_expire" /\ call[c].step = "daily_expire"
          /\ call[b].key = call[c].key
          => b = c

LEMMA UsedIsNat ==
  ASSUME TypeOK, NEW d \in Days
  PROVE  /\ IsFiniteSet(Allowed(d)) /\ Cardinality(Allowed(d)) \in Nat
         /\ Used(d) \in Nat
  <1>1. Allowed(d) \subseteq Calls
    BY DEF Allowed
  <1>2. IsFiniteSet(Allowed(d)) /\ Cardinality(Allowed(d)) \in Nat
    BY <1>1, ThrottlesAssumption, FS_Subset, FS_CardinalityType
  <1>3. lookups[d] \in Nat
    BY Numbers
  <1>4. Used(d) \in Nat
    BY <1>2, <1>3 DEF Used
  <1> QED
    BY <1>2, <1>4

(* the look-ups of a day that has not come: none *)
LEMMA NoneAhead ==
  ASSUME TypeOK, Places, DailyHolds, NEW d \in Days, d > day
  PROVE  Used(d) = 0 /\ ~DailyDue(d)
  <1>1. day \in Nat /\ d \in Nat
    BY Numbers
  <1>2. Allowed(d) = {} /\ ~DailyDue(d)
    BY <1>1 DEF Allowed, DailyDue, Places
  <1>3. lookups[d] = 0
    BY DEF DailyHolds
  <1> QED
    BY <1>2, <1>3, FS_EmptySet DEF Used

(* how one call changes the allowed ones *)
LEMMA AllowedMoves ==
  ASSUME TypeOK, NEW c \in Calls, NEW d \in Days,
         \A o \in Calls \ {c} : call'[o] = call[o]
  PROVE  /\ c \in Allowed(d)' /\ c \notin Allowed(d) =>
               Cardinality(Allowed(d)') = Cardinality(Allowed(d)) + 1
         /\ c \notin Allowed(d)' /\ c \in Allowed(d) =>
               Cardinality(Allowed(d)') = Cardinality(Allowed(d)) - 1
         /\ (c \in Allowed(d)' <=> c \in Allowed(d)) =>
               Cardinality(Allowed(d)') = Cardinality(Allowed(d))
  <1>1. \A o \in Calls \ {c} : o \in Allowed(d)' <=> o \in Allowed(d)
    BY DEF Allowed
  <1>2. Allowed(d) \subseteq Calls /\ Allowed(d)' \subseteq Calls
    BY DEF Allowed
  <1>3. IsFiniteSet(Allowed(d))
    BY UsedIsNat
  <1>4. CASE c \in Allowed(d)' /\ c \notin Allowed(d)
    <2>1. Allowed(d)' = Allowed(d) \cup {c}
      BY <1>1, <1>2, <1>4
    <2> QED
      BY <1>3, <1>4, <2>1, FS_AddElement
  <1>5. CASE c \notin Allowed(d)' /\ c \in Allowed(d)
    <2>1. Allowed(d)' = Allowed(d) \ {c}
      BY <1>1, <1>2, <1>5
    <2> QED
      BY <1>3, <1>5, <2>1, FS_RemoveElement
  <1>6. CASE c \in Allowed(d)' <=> c \in Allowed(d)
    <2>1. Allowed(d)' = Allowed(d)
      BY <1>1, <1>2, <1>6
    <2> QED
      BY <2>1, <1>4, <1>5
  <1> QED
    BY <1>4, <1>5, <1>6

(* a step that uses nothing up and makes nothing due *)
LEMMA DailyQuiet ==
  ASSUME TypeOK, TypeOK', DailyHolds, NEW c \in Calls,
         UNCHANGED <<window, renewed>>,
         \A d \in Days : DailyDue(d)' => <<"daily", d>> \notin expiring',
         \A o \in Calls \ {c} : call'[o] = call[o],
         call'[c].step # "daily_expire",
         count'[<<"daily", day>>] >= count[<<"daily", day>>],
         \A d \in Days : Used(d)' <= Used(d),
         \A d \in Days : d > day => lookups'[d] = lookups[d]
  PROVE  DailyHolds'
  <1>0. day' = day
    BY DEF day
  <1>1. \A d \in Days : DailyDue(d)' => DailyDue(d)
    BY DEF DailyDue
  <1>2. /\ day \in Days /\ DailyLimit \in Nat
        /\ \A d \in Days : /\ count[<<"daily", d>>] \in Nat
                           /\ count'[<<"daily", d>>] \in Nat
    BY Numbers, KeysDiffer, ThrottlesAssumption DEF TypeOK
  <1>3. \A d \in Days : Used(d) \in Nat /\ Used(d)' \in Nat
    <2>1. ASSUME NEW d \in Days PROVE Used(d)' \in Nat
      <3>1. Allowed(d)' \subseteq Calls
        BY DEF Allowed
      <3>2. Cardinality(Allowed(d)') \in Nat
        BY <3>1, ThrottlesAssumption, FS_Subset, FS_CardinalityType
      <3>3. lookups'[d] \in Nat
        BY DEF TypeOK
      <3> QED
        BY <3>2, <3>3 DEF Used
    <2> QED
      BY <2>1, UsedIsNat
  <1>4. \A b, e \in Calls :
           /\ call'[b].step = "daily_expire" /\ call'[e].step = "daily_expire"
           /\ call'[b].key = call'[e].key
           => b = e
    BY DEF DailyHolds
  <1>5. ASSUME NEW d \in Days
        PROVE  /\ Used(d)' <= Before(d)' + DailyLimit
               /\ DailyDue(d)' /\ DailyLimit > 0 => Used(d)' < Before(d)' + DailyLimit
               /\ d = day =>
                     /\ Used(d)' <= Before(d)' + count'[<<"daily", d>>]
                     /\ DailyDue(d)' => Used(d)' < Before(d)' + count'[<<"daily", d>>]
                     /\ DailyDue(d)' => count'[<<"daily", d>>] > 0
               /\ d > day => lookups'[d] = 0
    <2>1. Used(d) \in Nat /\ Used(d)' \in Nat /\ Used(d)' <= Used(d)
          /\ count[<<"daily", d>>] \in Nat /\ count'[<<"daily", d>>] \in Nat
      BY <1>2, <1>3
    <2>2. Before(d) \in Nat /\ Before(d)' = Before(d)
      BY <1>2 DEF Before
    <2> HIDE DEF Before
    <2>3. /\ Used(d) <= Before(d) + DailyLimit
          /\ DailyDue(d) /\ DailyLimit > 0 => Used(d) < Before(d) + DailyLimit
          /\ d = day =>
                /\ Used(d) <= Before(d) + count[<<"daily", d>>]
                /\ DailyDue(d) => Used(d) < Before(d) + count[<<"daily", d>>]
                /\ DailyDue(d) => count[<<"daily", d>>] > 0
          /\ d > day => lookups[d] = 0
      BY DEF DailyHolds
    <2> QED
      BY <1>1, <1>2, <2>1, <2>2, <2>3
  <1> QED
    BY <1>0, <1>4, <1>5 DEF DailyHolds

(* a step that allows one call a look-up on the day t *)
LEMMA DailyGain ==
  ASSUME TypeOK, TypeOK', DailyHolds, NEW c \in Calls, NEW t \in Days,
         UNCHANGED <<window, renewed, lookups>>,
         \A d \in Days : DailyDue(d)' => <<"daily", d>> \notin expiring',
         \A o \in Calls \ {c} : call'[o] = call[o],
         call[c].step \notin {"session", "lookup"},
         call'[c].step = "session", call'[c].key = <<"daily", t>>,
         count'[<<"daily", day>>] >= count[<<"daily", day>>],
         Used(t) + 1 <= Before(t) + DailyLimit,
         DailyDue(t)' => Used(t) + 1 < Before(t) + DailyLimit,
         t = day => /\ Used(t) + 1 <= Before(t) + count'[<<"daily", t>>]
                    /\ DailyDue(t)' => Used(t) + 1 < Before(t) + count'[<<"daily", t>>]
  PROVE  DailyHolds'
  <1>0. day' = day
    BY DEF day
  <1>1. \A d \in Days : DailyDue(d)' => DailyDue(d)
    BY DEF DailyDue
  <1>2. /\ day \in Days /\ DailyLimit \in Nat
        /\ \A d \in Days : /\ count[<<"daily", d>>] \in Nat
                           /\ count'[<<"daily", d>>] \in Nat
    BY Numbers, KeysDiffer, ThrottlesAssumption DEF TypeOK
  <1>3. \A b, e \in Calls :
           /\ call'[b].step = "daily_expire" /\ call'[e].step = "daily_expire"
           /\ call'[b].key = call'[e].key
           => b = e
    BY DEF DailyHolds
  <1>4. ASSUME NEW d \in Days
        PROVE  /\ d = t => Used(d)' = Used(d) + 1
               /\ d # t => Used(d)' = Used(d)
    <2>1. c \notin Allowed(d) /\ (c \in Allowed(d)' <=> d = t)
      BY DEF Allowed
    <2>2. lookups[d] \in Nat /\ lookups'[d] = lookups[d] /\ Cardinality(Allowed(d)) \in Nat
      BY UsedIsNat, Numbers
    <2>3. /\ d = t => Cardinality(Allowed(d)') = Cardinality(Allowed(d)) + 1
          /\ d # t => Cardinality(Allowed(d)') = Cardinality(Allowed(d))
      BY <2>1, AllowedMoves
    <2>4. Used(d) = lookups[d] + Cardinality(Allowed(d))
      BY DEF Used
    <2>5. Used(d)' = lookups'[d] + Cardinality(Allowed(d)')
      BY DEF Used
    <2> QED
      BY <2>2, <2>3, <2>4, <2>5
  <1>5. ASSUME NEW d \in Days
        PROVE  /\ Used(d)' <= Before(d)' + DailyLimit
               /\ DailyDue(d)' /\ DailyLimit > 0 => Used(d)' < Before(d)' + DailyLimit
               /\ d = day =>
                     /\ Used(d)' <= Before(d)' + count'[<<"daily", d>>]
                     /\ DailyDue(d)' => Used(d)' < Before(d)' + count'[<<"daily", d>>]
                     /\ DailyDue(d)' => count'[<<"daily", d>>] > 0
               /\ d > day => lookups'[d] = 0
    <2>1. Used(d) \in Nat /\ count[<<"daily", d>>] \in Nat /\ count'[<<"daily", d>>] \in Nat
      BY <1>2, UsedIsNat
    <2>2. d > day => lookups'[d] = 0
      BY DEF DailyHolds
    <2>5. Before(d) \in Nat /\ Before(d)' = Before(d)
      BY <1>2 DEF Before
    <2>6. d = day => (DailyDue(d)' => count'[<<"daily", d>>] > 0)
      BY <1>1, <1>2, <2>1 DEF DailyHolds
    <2> HIDE DEF Before
    <2>3. CASE d = t
      BY <1>4, <2>2, <2>3, <2>5, <2>6
    <2>4. CASE d # t
      <3>1. /\ Used(d) <= Before(d) + DailyLimit
            /\ DailyDue(d) /\ DailyLimit > 0 => Used(d) < Before(d) + DailyLimit
            /\ d = day =>
                  /\ Used(d) <= Before(d) + count[<<"daily", d>>]
                  /\ DailyDue(d) => Used(d) < Before(d) + count[<<"daily", d>>]
        BY DEF DailyHolds
      <3> QED
        BY <1>1, <1>2, <1>4, <2>1, <2>2, <2>4, <2>5, <2>6, <3>1
    <2> QED
      BY <2>3, <2>4
  <1> QED
    BY <1>0, <1>3, <1>5 DEF DailyHolds

(* a step after which the call is not allowed a look-up *)
LEMMA NotMore ==
  ASSUME TypeOK, NEW c \in Calls, NEW d \in Days,
         \A o \in Calls \ {c} : call'[o] = call[o],
         call'[c].step \notin {"session", "lookup"},
         lookups' = lookups
  PROVE  Used(d)' <= Used(d)
  <1>1. c \notin Allowed(d)'
    BY DEF Allowed
  <1>2. lookups[d] \in Nat /\ lookups'[d] = lookups[d] /\ Cardinality(Allowed(d)) \in Nat
    BY UsedIsNat, Numbers
  <1>3. \/ Cardinality(Allowed(d)') = Cardinality(Allowed(d))
        \/ Cardinality(Allowed(d)') = Cardinality(Allowed(d)) - 1
    BY <1>1, AllowedMoves
  <1>4. Used(d) = lookups[d] + Cardinality(Allowed(d))
    BY DEF Used
  <1>5. Used(d)' = lookups'[d] + Cardinality(Allowed(d)')
    BY DEF Used
  <1> QED
    BY <1>2, <1>3, <1>4, <1>5

LEMMA ExpiringStep ==
  TypeOK /\ Places /\ ExpiringCount /\ [Next]_vars => ExpiringCount'
  <1> SUFFICES ASSUME TypeOK, Places, ExpiringCount, [Next]_vars PROVE ExpiringCount'
    OBVIOUS
  <1>n. \A k \in Keys : count[k] \in Nat
    BY Numbers
  <1>w. <<"rate", window>> \in Keys /\ <<"daily", day>> \in Keys /\ Failures \in Keys
    BY Numbers, KeysDiffer
  <1>1. ASSUME NEW q \in Keys, Incr(q) \/ Lose(q) \/ SetExpiry(q) \/ Drop(q)
        PROVE  ExpiringCount'
    <2>1. CASE Incr(q) \/ Lose(q)
      BY <1>n, <2>1 DEF Incr, Lose, keys, ExpiringCount, TypeOK
    <2>2. CASE SetExpiry(q)
      BY <1>n, <2>2 DEF SetExpiry, ExpiringCount, TypeOK
    <2>3. CASE Drop(q)
      BY <1>n, <2>3 DEF Drop, ExpiringCount, TypeOK
    <2> QED
      BY <1>1, <2>1, <2>2, <2>3
  <1>2. CASE UNCHANGED <<count, expiring>>
    BY <1>2 DEF ExpiringCount
  <1>3. ASSUME NEW c \in Calls, Resolve(c) \/ FindAlternatives(c) \/ Crash(c)
        PROVE  ExpiringCount'
    <2>1. call[c].key \in Keys
      BY DEF TypeOK
    <2>2. \/ \E q \in Keys : Incr(q) \/ Lose(q) \/ SetExpiry(q) \/ Drop(q)
          \/ UNCHANGED <<count, expiring>>
      BY <1>3, <1>w, <2>1 DEF Resolve, FindAlternatives, Request, CountRequest,
         ExpireRequests, PassUncounted, CountLookup, ExpireLookups,
         RefuseUncounted, ReadSession, Lookup, ReadAlternatives, Ask, Search,
         ForgetFailures, ForgetOpen, Store, CountFailure, ExpireFailures, Trip,
         FailUncounted, FallBack, Crash, Tear, keys
    <2> QED
      BY <1>1, <1>2, <2>2
  <1>4. ASSUME NEW q \in Keys, Expire(q) PROVE ExpiringCount'
    BY <1>1, <1>4 DEF Expire
  <1> QED
    BY <1>2, <1>3, <1>4 DEF Next, NextWindow, ExpireCaches, keys, vars

(* whoever owes the counter of a day an expiry finds it without one *)
LEMMA DueUnset ==
  ASSUME TypeOK, Places, ExpiringCount, DailyHolds, NEW c \in Calls,
         Resolve(c) \/ FindAlternatives(c) \/ Crash(c),
         \A o \in Calls \ {c} : call'[o] = call[o],
         NEW d \in Days, DailyDue(d)'
  PROVE  <<"daily", d>> \notin expiring'
  <1>n. <<"daily", d>> \in Keys /\ <<"daily", day>> \in Keys
    BY Numbers, KeysDiffer
  <1>1. PICK o \in Calls : call'[o].step = "daily_expire" /\ call'[o].key = <<"daily", d>>
    BY DEF DailyDue
  <1>2. CASE ExpireLookups(c)
    <2>1. call'[c].step # "daily_expire"
      BY <1>2 DEF ExpireLookups, Allow, Answer, AtRest, Owing, TypeOK
    <2>2. o # c /\ call'[o] = call[o]
      BY <1>1, <2>1
    <2>3. call[c].key # <<"daily", d>>
      BY <1>1, <1>2, <2>2 DEF ExpireLookups, DailyHolds
    <2>4. <<"daily", d>> \notin expiring
      BY <1>1, <2>2 DEF DailyHolds, DailyDue
    <2> QED
      BY <1>2, <2>3, <2>4 DEF ExpireLookups, SetExpiry
  <1>3. CASE ~ExpireLookups(c)
    <2>1. <<"daily", d>> \in expiring' => <<"daily", d>> \in expiring
      <3>1. CASE ExpireRequests(c) \/ ExpireFailures(c)
        <4>1. SetExpiry(call[c].key) /\ call[c].key # <<"daily", d>>
          BY <3>1, KeysDiffer DEF ExpireRequests, ExpireFailures, Places
        <4> QED
          BY <4>1 DEF SetExpiry
      <3>2. CASE ~(ExpireRequests(c) \/ ExpireFailures(c))
        BY <1>3, <3>2 DEF Resolve, FindAlternatives, Request, CountRequest,
           PassUncounted, CountLookup, RefuseUncounted, ReadSession, Lookup,
           ReadAlternatives, Ask, Search, ForgetFailures, ForgetOpen, Store,
           CountFailure, Trip, FailUncounted, FallBack, Crash, Tear, Incr, Lose,
           Drop, keys
      <3> QED
        BY <3>1, <3>2
    <2>2. CASE o # c
      BY <1>1, <2>1, <2>2 DEF DailyHolds, DailyDue
    <2>3. CASE o = c
      <3> DEFINE k == <<"daily", day>>
      <3>1. CASE CountLookup(c)
        <4>1. CASE count[k] + 1 = 1
          <5>1. call'[c] = Owing("daily_expire", k)
            BY <3>1, <4>1 DEF CountLookup, TypeOK
          <5>2. k = <<"daily", d>>
            BY <1>1, <2>3, <5>1 DEF Owing
          <5>3. ~(count[k] > 0)
            BY <1>n, <4>1, Numbers
          <5> QED
            BY <2>1, <5>2, <5>3 DEF ExpiringCount
        <4>2. CASE count[k] + 1 # 1
          <5>1. call'[c].step # "daily_expire"
            BY <3>1, <4>2 DEF CountLookup, Allow, Answer, AtRest, Owing, TypeOK
          <5> QED
            BY <1>1, <2>3, <5>1
        <4> QED
          BY <4>1, <4>2
      <3>2. CASE ~CountLookup(c)
        <4>1. CASE \E a : a # "daily_expire" /\ (Answer(c, a) \/ Goto(c, a))
          BY <1>1, <2>3, <4>1 DEF Answer, Goto, AtRest, Owing, TypeOK
        <4>2. CASE \/ Request(c) \/ ExpireRequests(c) \/ PassUncounted(c)
                   \/ RefuseUncounted(c) \/ Crash(c) \/ ReadSession(c) \/ Lookup(c)
          BY <1>1, <2>3, <4>1, <4>2 DEF Request, ExpireRequests, Admit,
             PassUncounted, RefuseUncounted, Crash, ReadSession, Lookup, Answer
        <4>3. CASE CountRequest(c)
          BY <1>1, <2>3, <4>3 DEF CountRequest, Admit, Answer, AtRest, Owing, TypeOK
        <4>4. CASE ReadAlternatives(c) \/ CountFailure(c) \/ Trip(c)
          BY <1>1, <2>3, <4>4 DEF ReadAlternatives, CountFailure, Trip, Answer,
             AtRest, Owing, TypeOK
        <4>5. CASE \/ Ask(c) \/ Search(c) \/ ForgetFailures(c) \/ ForgetOpen(c)
                   \/ Store(c) \/ ExpireFailures(c) \/ FailUncounted(c) \/ FallBack(c)
          BY <4>1, <4>5 DEF Ask, Search, ForgetFailures, ForgetOpen, Store,
             ExpireFailures, FailUncounted, FallBack
        <4> QED
          BY <1>3, <3>2, <4>2, <4>3, <4>4, <4>5 DEF Resolve, FindAlternatives
      <3> QED
        BY <3>1, <3>2
    <2> QED
      BY <2>2, <2>3
  <1> QED
    BY <1>2, <1>3

LEMMA DailyStep ==
  TypeOK /\ Places /\ ExpiringCount /\ DailyHolds /\ [Next]_vars => DailyHolds'
  <1> SUFFICES ASSUME TypeOK, Places, ExpiringCount, DailyHolds, [Next]_vars
               PROVE  DailyHolds'
    OBVIOUS
  <1>t. TypeOK'
    BY TypeStep
  <1>n. /\ day \in Days /\ Days \subseteq Nat /\ DailyLimit \in Nat
        /\ \A d \in Days : lookups[d] \in Nat /\ count[<<"daily", d>>] \in Nat
        /\ \A d \in Days : Used(d) \in Nat /\ Cardinality(Allowed(d)) \in Nat
    BY Numbers, UsedIsNat
  <1>k. <<"daily", day>> \in Keys
    BY <1>n, KeysDiffer
  <1>b. \A d \in Days : Before(d) \in Nat
    BY <1>n DEF Before
  <1>u. ASSUME NEW c \in Calls, Resolve(c) \/ FindAlternatives(c) \/ Crash(c),
               \A o \in Calls \ {c} : call'[o] = call[o]
        PROVE  \A d \in Days : DailyDue(d)' => <<"daily", d>> \notin expiring'
    BY <1>u, DueUnset
  <1>1. ASSUME NEW c \in Calls, CountLookup(c) PROVE DailyHolds'
    <2> DEFINE k == <<"daily", day>>
               n == count[k] + 1
    <2>1. /\ count'[k] = n /\ UNCHANGED <<window, renewed, lookups>>
          /\ \A d \in Days : d # day => count'[<<"daily", d>>] = count[<<"daily", d>>]
      BY <1>1, <1>k, KeysDiffer DEF CountLookup, Incr, TypeOK, clock, owner
    <2>2. \A o \in Calls \ {c} : call'[o] = call[o]
      BY <1>1 DEF CountLookup, Allow, Answer, TypeOK
    <2>3. n \in Nat /\ n >= 1
      BY <1>n
    <2>4. \A d \in Days : c \notin Allowed(d)
      BY <1>1 DEF CountLookup, Allowed
    <2>8. \A d \in Days : DailyDue(d)' => <<"daily", d>> \notin expiring'
      BY <1>1, <1>u, <2>2 DEF Resolve
    <2>5. CASE n = 1
      <3>1. call'[c] = Owing("daily_expire", k)
        BY <1>1, <2>5 DEF CountLookup, TypeOK
      <3>2. ~DailyDue(day) /\ Used(day) <= Before(day)
        <4>1. count[k] = 0 /\ ~(count[k] > 0)
          BY <1>n, <2>5
        <4>2. Used(day) <= Before(day) + count[k] /\ (DailyDue(day) => count[k] > 0)
          BY <1>n DEF DailyHolds
        <4> QED
          BY <1>b, <1>n, <4>1, <4>2
      <3>3. \A d \in Days : d # day => (DailyDue(d)' => DailyDue(d))
        <4>1. call'[c].key = k
          BY <3>1 DEF Owing
        <4> QED
          BY <2>2, <4>1 DEF DailyDue
      <3>4. \A o \in Calls \ {c} : ~(call[o].step = "daily_expire" /\ call[o].key = k)
        BY <3>2 DEF DailyDue
      <3>5. \A b, e \in Calls :
               /\ call'[b].step = "daily_expire" /\ call'[e].step = "daily_expire"
               /\ call'[b].key = call'[e].key
               => b = e
        BY <2>2, <3>1, <3>4 DEF DailyHolds, Owing
      <3>6. \A d \in Days : c \notin Allowed(d)'
        BY <3>1 DEF Allowed, Owing
      <3>7. \A d \in Days : Used(d)' = Used(d)
        BY <2>1, <2>2, <2>4, <3>6, AllowedMoves DEF Used
      <3>8. ASSUME NEW d \in Days
            PROVE  /\ Used(d) <= Before(d) + DailyLimit
                   /\ DailyDue(d)' /\ DailyLimit > 0 => Used(d) < Before(d) + DailyLimit
                   /\ d = day =>
                         /\ Used(d) <= Before(d) + count'[<<"daily", d>>]
                         /\ DailyDue(d)' => Used(d) < Before(d) + count'[<<"daily", d>>]
                         /\ DailyDue(d)' => count'[<<"daily", d>>] > 0
                   /\ d > day => lookups[d] = 0
        <4>1. CASE d = day
          <5>1. Used(d) \in Nat /\ Before(d) \in Nat /\ count'[<<"daily", d>>] = 1
            BY <1>b, <1>n, <2>1, <2>5, <4>1
          <5>2. Used(d) <= Before(d) /\ ~(d > day)
            BY <1>n, <3>2, <4>1
          <5> QED
            BY <1>n, <5>1, <5>2
        <4>2. CASE d # day
          BY <3>3, <4>2 DEF DailyHolds
        <4> QED
          BY <4>1, <4>2
      <3> QED
        <4>1. day' = day
          BY <2>1 DEF day
        <4>2. \A d \in Days :
                 /\ Used(d)' <= Before(d)' + DailyLimit
                 /\ DailyDue(d)' /\ DailyLimit > 0 =>
                       Used(d)' < Before(d)' + DailyLimit
                 /\ d = day =>
                       /\ Used(d)' <= Before(d)' + count'[<<"daily", d>>]
                       /\ DailyDue(d)' => Used(d)' < Before(d)' + count'[<<"daily", d>>]
                       /\ DailyDue(d)' => count'[<<"daily", d>>] > 0
                 /\ d > day => lookups'[d] = 0
          <5>1. \A d \in Days : Before(d)' = Before(d)
            BY <2>1 DEF Before
          <5> QED
            BY <2>1, <3>7, <3>8, <5>1
        <4> QED
          BY <2>8, <3>5, <4>1, <4>2 DEF DailyHolds
    <2>6. CASE n > 1 /\ n > DailyLimit
      <3>1. call'[c] = AtRest("429")
        BY <1>1, <2>3, <2>6 DEF CountLookup, Allow, Answer, TypeOK
      <3>2. call'[c].step = "429"
        BY <3>1 DEF AtRest, Owing
      <3>3. \A d \in Days : c \notin Allowed(d)'
        BY <3>2 DEF Allowed
      <3>4. \A d \in Days : Used(d)' = Used(d)
        BY <2>1, <2>2, <2>4, <3>3, AllowedMoves DEF Used
      <3>5. \A d \in Days : Used(d)' <= Used(d)
        BY <1>n, <3>4
      <3>6. count'[<<"daily", day>>] >= count[<<"daily", day>>]
        BY <1>n, <2>1
      <3> QED
        BY <1>t, <2>1, <2>2, <2>8, <3>2, <3>5, <3>6, DailyQuiet
    <2>7. CASE n > 1 /\ n <= DailyLimit
      <3>0. ~(n = 1) /\ ~(n > DailyLimit)
        BY <1>n, <2>3, <2>7
      <3>1. call'[c] = Owing("session", k)
        BY <1>1, <3>0 DEF CountLookup, Allow, TypeOK
      <3>2. call'[c].step = "session" /\ call'[c].key = <<"daily", day>>
        BY <3>1 DEF Owing
      <3>3. PICK t \in Days : t = day
        BY <1>n
      <3>4. DailyDue(t)' => DailyDue(t)
        BY <2>2, <3>2 DEF DailyDue
      <3>5. /\ Used(t) <= Before(t) + count[<<"daily", t>>]
            /\ DailyDue(t) => Used(t) < Before(t) + count[<<"daily", t>>]
        BY <3>3 DEF DailyHolds
      <3>6. Used(t) \in Nat /\ count[<<"daily", t>>] \in Nat /\ Before(t) \in Nat
        BY <1>b, <1>n
      <3>7. count'[<<"daily", t>>] = count[<<"daily", t>>] + 1
            /\ count[<<"daily", t>>] + 1 <= DailyLimit
        BY <2>1, <2>7, <3>3
      <3>8. /\ Used(t) + 1 <= Before(t) + DailyLimit
            /\ DailyDue(t)' => Used(t) + 1 < Before(t) + DailyLimit
            /\ Used(t) + 1 <= Before(t) + count'[<<"daily", t>>]
            /\ DailyDue(t)' => Used(t) + 1 < Before(t) + count'[<<"daily", t>>]
        BY <1>n, <3>4, <3>5, <3>6, <3>7
      <3>9. count'[<<"daily", day>>] >= count[<<"daily", day>>]
        BY <3>3, <3>6, <3>7
      <3>10. call[c].step \notin {"session", "lookup"}
        BY <1>1 DEF CountLookup
      <3>11. call'[c].key = <<"daily", t>>
        BY <3>2, <3>3
      <3> QED
        BY <1>t, <2>1, <2>2, <2>8, <3>2, <3>8, <3>9, <3>10, <3>11, DailyGain
    <2> QED
      BY <1>n, <2>3, <2>5, <2>6, <2>7
  <1>2. ASSUME NEW c \in Calls, ExpireLookups(c) PROVE DailyHolds'
    <2>1. PICK t \in Days : t <= day /\ call[c].key = <<"daily", t>>
      BY <1>2 DEF ExpireLookups, Places
    <2>2. /\ UNCHANGED <<window, renewed, lookups, count>>
          /\ call[c].step = "daily_expire"
      BY <1>2 DEF ExpireLookups, SetExpiry, clock, owner
    <2>3. \A o \in Calls \ {c} : call'[o] = call[o]
      BY <1>2 DEF ExpireLookups, Allow, Answer, TypeOK
    <2>8. count[<<"daily", day>>] \in Nat
      BY <1>b, <1>n
    <2>9. count'[<<"daily", day>>] = count[<<"daily", day>>]
      BY <2>2
    <2>4. count'[<<"daily", day>>] >= count[<<"daily", day>>]
      BY <2>8, <2>9
    <2>7. \A d \in Days : DailyDue(d)' => <<"daily", d>> \notin expiring'
      BY <1>2, <1>u, <2>3 DEF Resolve
    <2>5. CASE DailyLimit = 0
      <3>1. call'[c] = AtRest("429")
        BY <1>2, <2>5 DEF ExpireLookups, Allow, Answer, TypeOK
      <3>2. call'[c].step = "429"
        BY <3>1 DEF AtRest, Owing
      <3>3. \A d \in Days : Used(d)' <= Used(d)
        BY <2>2, <2>3, <3>2, NotMore
      <3> QED
        BY <1>t, <2>2, <2>3, <2>4, <2>7, <3>2, <3>3, DailyQuiet
    <2>6. CASE DailyLimit > 0
      <3>1. ~(1 > DailyLimit)
        BY <1>n, <2>6
      <3>2. call'[c] = Owing("session", call[c].key)
        BY <1>2, <3>1 DEF ExpireLookups, Allow, TypeOK
      <3>3. call'[c].step = "session" /\ call'[c].key = <<"daily", t>>
        BY <2>1, <3>2 DEF Owing
      <3>4. DailyDue(t)
        BY <2>1, <2>2 DEF DailyDue
      <3>5. ~DailyDue(t)'
        <4>1. \A o \in Calls \ {c} :
                 ~(call[o].step = "daily_expire" /\ call[o].key = <<"daily", t>>)
          BY <2>1, <2>2 DEF DailyHolds
        <4> QED
          BY <2>3, <3>3, <4>1 DEF DailyDue
      <3>6. Used(t) \in Nat /\ count[<<"daily", t>>] \in Nat /\ Before(t) \in Nat
        BY <1>b, <1>n
      <3>7. /\ Used(t) < Before(t) + DailyLimit
            /\ t = day => Used(t) < Before(t) + count[<<"daily", t>>]
        BY <2>6, <3>4 DEF DailyHolds
      <3>8. /\ Used(t) + 1 <= Before(t) + DailyLimit
            /\ t = day => Used(t) + 1 <= Before(t) + count'[<<"daily", t>>]
        BY <1>n, <2>2, <3>6, <3>7
      <3> QED
        BY <1>t, <2>2, <2>3, <2>4, <2>7, <3>3, <3>5, <3>8, DailyGain
    <2> QED
      BY <1>n, <2>5, <2>6
  <1>3. ASSUME NEW c \in Calls, ReadSession(c) \/ Lookup(c) PROVE DailyHolds'
    <2>1. PICK t \in Days : t <= day /\ call[c].key = <<"daily", t>>
      BY <1>3 DEF ReadSession, Lookup, Places
    <2>2. UNCHANGED <<window, renewed, count>> /\ call[c].step \in {"session", "lookup"}
      BY <1>3 DEF ReadSession, Lookup, clock, keys
    <2>3. \A o \in Calls \ {c} : call'[o] = call[o]
      BY <1>3 DEF ReadSession, Lookup, Goto, Answer, TypeOK
    <2>4. count'[<<"daily", day>>] >= count[<<"daily", day>>]
      BY <1>n, <2>2
    <2>u. \A d \in Days : DailyDue(d)' => <<"daily", d>> \notin expiring'
      BY <1>3, <1>u, <2>3 DEF Resolve
    <2>5. CASE lookups' = lookups /\ call'[c].step \notin {"session", "lookup", "daily_expire"}
      <3>1. \A d \in Days : Used(d)' <= Used(d)
        BY <2>3, <2>5, NotMore
      <3> QED
        BY <1>t, <2>2, <2>3, <2>4, <2>5, <2>u, <3>1, DailyQuiet
    <2>6. CASE lookups' = lookups /\ call'[c].step = "lookup" /\ call'[c].key = call[c].key
      <3>1. \A d \in Days : c \in Allowed(d)' <=> c \in Allowed(d)
        BY <2>2, <2>6 DEF Allowed
      <3>2. \A d \in Days : Cardinality(Allowed(d)') = Cardinality(Allowed(d))
        BY <2>3, <3>1, AllowedMoves
      <3>3. \A d \in Days : Used(d)' = Used(d)
        BY <2>6, <3>2 DEF Used
      <3>4. \A d \in Days : Used(d)' <= Used(d)
        BY <1>n, <3>3
      <3> QED
        BY <1>t, <2>2, <2>3, <2>4, <2>6, <2>u, <3>4, DailyQuiet
    <2>7. CASE /\ lookups' = [lookups EXCEPT ![t] = @ + 1]
               /\ call'[c].step \in {"resolved", "500"}
      <3>1. ASSUME NEW d \in Days
            PROVE  /\ Used(d)' <= Used(d)
                   /\ d > day => lookups'[d] = lookups[d]
        <4>1. c \notin Allowed(d)' /\ (c \in Allowed(d) <=> d = t)
          BY <2>1, <2>2, <2>7 DEF Allowed
        <4>2. /\ d = t => lookups'[d] = lookups[d] + 1
              /\ d # t => lookups'[d] = lookups[d]
          BY <2>7 DEF TypeOK
        <4>3. /\ d = t => Cardinality(Allowed(d)') = Cardinality(Allowed(d)) - 1
              /\ d # t => Cardinality(Allowed(d)') = Cardinality(Allowed(d))
          BY <2>3, <4>1, AllowedMoves
        <4>4. Used(d) = lookups[d] + Cardinality(Allowed(d))
          BY DEF Used
        <4>5. Used(d)' = lookups'[d] + Cardinality(Allowed(d)')
          BY DEF Used
        <4>6. lookups[d] \in Nat /\ Cardinality(Allowed(d)) \in Nat /\ day \in Nat /\ t \in Nat
          BY <1>n
        <4> QED
          BY <2>1, <4>2, <4>3, <4>4, <4>5, <4>6
      <3> QED
        BY <1>t, <2>2, <2>3, <2>4, <2>7, <2>u, <3>1, DailyQuiet
    <2>8. CASE ReadSession(c)
      <3>1. lookups' = lookups
        BY <2>8 DEF ReadSession, owner
      <3>2. CASE Answer(c, "resolved")
        BY <2>5, <3>1, <3>2 DEF Answer, AtRest, Owing, TypeOK
      <3>3. CASE Goto(c, "lookup")
        BY <2>6, <3>1, <3>3 DEF Goto, TypeOK
      <3> QED
        BY <2>8, <3>2, <3>3 DEF ReadSession
    <2>9. CASE Lookup(c)
      <3>1. call[c].key[2] = t
        BY <2>1
      <3>2. lookups' = [lookups EXCEPT ![t] = @ + 1]
        BY <2>9, <3>1 DEF Lookup
      <3>3. PICK a \in {"resolved", "500"} : Answer(c, a)
        BY <2>9 DEF Lookup
      <3>4. call'[c] = AtRest(a)
        BY <3>3 DEF Answer, TypeOK
      <3>5. call'[c].step = a
        BY <3>4 DEF AtRest, Owing
      <3> QED
        BY <2>7, <3>2, <3>5
    <2> QED
      BY <1>3, <2>8, <2>9
  <1>4. ASSUME NEW c \in Calls,
               \/ Request(c) \/ CountRequest(c) \/ ExpireRequests(c) \/ PassUncounted(c)
               \/ RefuseUncounted(c) \/ Crash(c) \/ FindAlternatives(c)
        PROVE  DailyHolds'
    <2>1. UNCHANGED <<window, renewed, lookups>>
      BY <1>4 DEF Request, CountRequest, ExpireRequests, PassUncounted,
         RefuseUncounted, Crash, FindAlternatives, ReadAlternatives, Ask, Search,
         ForgetFailures, ForgetOpen, Store, CountFailure, ExpireFailures, Trip,
         FailUncounted, FallBack, clock, owner
    <2>2. \A o \in Calls \ {c} : call'[o] = call[o]
      BY <1>4 DEF TypeOK, FindAlternatives, Request, CountRequest, ExpireRequests,
         Admit, PassUncounted, RefuseUncounted, ReadAlternatives,
         Ask, Search, ForgetFailures, ForgetOpen, Store, CountFailure,
         ExpireFailures, Trip, FailUncounted, FallBack, Crash, Goto, Answer
    <2> DEFINE Elsewhere == {"session", "lookup", "daily_expire"}
    <2>3. call'[c].step \notin Elsewhere
      <3>1. CASE \E a : a \notin Elsewhere /\ (Answer(c, a) \/ Goto(c, a))
        BY <3>1 DEF Answer, Goto, AtRest, Owing, TypeOK
      <3>2. CASE \/ Request(c) \/ ExpireRequests(c) \/ PassUncounted(c)
                 \/ RefuseUncounted(c) \/ Crash(c)
        BY <3>1, <3>2 DEF Request, ExpireRequests, Admit, PassUncounted,
           RefuseUncounted, Crash, Answer
      <3>3. CASE CountRequest(c)
        BY <3>3 DEF CountRequest, Admit, Answer, AtRest, Owing, TypeOK
      <3>4. CASE ReadAlternatives(c) \/ CountFailure(c) \/ Trip(c)
        BY <3>4 DEF ReadAlternatives, CountFailure, Trip, Answer, AtRest, Owing, TypeOK
      <3>5. CASE \/ Ask(c) \/ Search(c) \/ ForgetFailures(c) \/ ForgetOpen(c)
                 \/ Store(c) \/ ExpireFailures(c) \/ FailUncounted(c) \/ FallBack(c)
        BY <3>1, <3>5 DEF Ask, Search, ForgetFailures, ForgetOpen, Store,
           ExpireFailures, FailUncounted, FallBack
      <3> QED
        BY <1>4, <3>2, <3>3, <3>4, <3>5 DEF FindAlternatives
    <2>4. count'[<<"daily", day>>] >= count[<<"daily", day>>]
      <3>1. ASSUME NEW q \in Keys, q # <<"daily", day>>,
                   Incr(q) \/ Lose(q) \/ Drop(q)
            PROVE  count'[<<"daily", day>>] = count[<<"daily", day>>]
        BY <1>k, <3>1 DEF Incr, Lose, Drop, keys, TypeOK
      <3>2. <<"rate", window>> \in Keys /\ <<"rate", window>> # <<"daily", day>>
        BY <1>n, Numbers, KeysDiffer
      <3>3. Failures \in Keys /\ Failures # <<"daily", day>>
        BY <1>n, KeysDiffer
      <3>4. \/ UNCHANGED count
            \/ Incr(<<"rate", window>>) \/ Lose(<<"rate", window>>)
            \/ Lose(<<"daily", day>>)
            \/ Incr(Failures) \/ Lose(Failures) \/ Drop(Failures)
        BY <1>4 DEF Request, CountRequest, ExpireRequests, PassUncounted,
           RefuseUncounted, Crash, FindAlternatives, ReadAlternatives, Ask, Search,
           ForgetFailures, ForgetOpen, Store, CountFailure, ExpireFailures, Trip,
           FailUncounted, FallBack, keys, SetExpiry, Tear
      <3>5. CASE Lose(<<"daily", day>>)
        BY <1>k, <1>n, <3>5 DEF Lose, keys, TypeOK
      <3> QED
        BY <1>n, <3>1, <3>2, <3>3, <3>4, <3>5
    <2>5. \A d \in Days : Used(d)' <= Used(d)
      BY <2>1, <2>2, <2>3, NotMore
    <2>u. \A d \in Days : DailyDue(d)' => <<"daily", d>> \notin expiring'
      BY <1>4, <1>u, <2>2 DEF Resolve
    <2> QED
      BY <1>t, <2>1, <2>2, <2>3, <2>4, <2>5, <2>u, DailyQuiet
  <1>s. ASSUME UNCHANGED <<lookups, call>>
        PROVE  \A d \in Days : /\ lookups'[d] = lookups[d]
                               /\ Used(d)' = Used(d)
                               /\ DailyDue(d)' <=> DailyDue(d)
    BY <1>s DEF Used, Allowed, DailyDue
  <1>5. ASSUME NEW q \in Keys, Expire(q) PROVE DailyHolds'
    <2>3. UNCHANGED <<window, lookups, call>>
      BY <1>5 DEF Expire, owner
    <2>4. day' = day
      BY <2>3 DEF day
    <2>5. expiring' \subseteq expiring
      BY <1>5 DEF Expire, Drop
    <2>6. CASE q # <<"daily", day>>
      <3>1. count'[<<"daily", day>>] = count[<<"daily", day>>]
        BY <1>5, <1>k, <2>6 DEF Expire, Drop, TypeOK
      <3>2. renewed' = renewed
        BY <1>5, <2>6 DEF Expire
      <3>3. \A d \in Days : Before(d)' = Before(d)
        BY <3>2 DEF Before
      <3> QED
        BY <1>s, <2>3, <2>4, <2>5, <3>1, <3>3 DEF DailyHolds
    <2>7. CASE q = <<"daily", day>>
      <3>1. /\ count'[<<"daily", day>>] = 0
            /\ day \notin renewed /\ renewed' = renewed \cup {day}
            /\ <<"daily", day>> \in expiring
        BY <1>5, <1>k, <1>n, <2>7 DEF Expire, Drop, EndsEarly, TypeOK
      <3>2. /\ Before(day) = 0 /\ Before(day)' = DailyLimit
            /\ \A d \in Days : d # day => Before(d)' = Before(d)
        BY <2>4, <3>1 DEF Before
      <3>3. ~DailyDue(day) /\ Used(day) <= Before(day) + DailyLimit
        BY <1>n, <3>1 DEF DailyHolds
      <3>4. Used(day) <= DailyLimit
        BY <1>n, <3>2, <3>3
      <3>5. ASSUME NEW d \in Days
            PROVE  /\ Used(d) <= Before(d)' + DailyLimit
                   /\ DailyDue(d) /\ DailyLimit > 0 => Used(d) < Before(d)' + DailyLimit
                   /\ d = day =>
                         /\ Used(d) <= Before(d)' + count'[<<"daily", d>>]
                         /\ ~DailyDue(d)
        <4>1. CASE d = day
          <5>1. Before(d)' = DailyLimit /\ count'[<<"daily", d>>] = 0
            BY <2>4, <3>1, <4>1 DEF Before
          <5>2. Used(d) <= DailyLimit /\ ~DailyDue(d) /\ Used(d) \in Nat
            BY <1>n, <3>3, <3>4, <4>1
          <5> QED
            BY <1>n, <5>1, <5>2
        <4>2. CASE d # day
          BY <3>2, <4>2 DEF DailyHolds
        <4> QED
          BY <4>1, <4>2
      <3> QED
        BY <1>s, <2>3, <2>4, <2>5, <3>5 DEF DailyHolds
    <2> QED
      BY <2>6, <2>7
  <1>6. CASE NextWindow
    <2>1. UNCHANGED <<renewed, lookups, call, count, expiring>>
      BY <1>6 DEF NextWindow, keys, owner
    <2>2. day' \in Days /\ day <= day'
      BY <1>6, <1>t, TimeGrows, Numbers, DayIsDay DEF TypeOK, day
    <2>3. ASSUME NEW d \in Days, d = day'
          PROVE  /\ Used(d) <= Before(d) + count[<<"daily", d>>]
                 /\ DailyDue(d) => Used(d) < Before(d) + count[<<"daily", d>>]
                 /\ DailyDue(d) => count[<<"daily", d>>] > 0
      <3>1. CASE d = day
        BY <3>1 DEF DailyHolds
      <3>2. CASE d > day
        BY <1>b, <1>n, <3>2, NoneAhead
      <3> QED
        BY <1>n, <2>2, <2>3, <3>1, <3>2
    <2>4. ASSUME NEW d \in Days, d > day' PROVE lookups[d] = 0
      <3>1. day \in Nat /\ day' \in Nat /\ d \in Nat
        BY <1>n, <2>2
      <3>2. d > day
        BY <2>2, <2>4, <3>1
      <3> QED
        BY <3>2 DEF DailyHolds
    <2>5. \A d \in Days : Before(d)' = Before(d)
      BY <2>1 DEF Before
    <2> QED
      BY <1>s, <2>1, <2>3, <2>4, <2>5 DEF DailyHolds
  <1>7. CASE UNCHANGED <<window, renewed, lookups, call, count, expiring>>
    <2>1. day' = day /\ \A d \in Days : Before(d)' = Before(d)
      BY <1>7 DEF day, Before
    <2> QED
      BY <1>7, <1>s, <2>1 DEF DailyHolds
  <1> QED
    BY <1>1, <1>2, <1>3, <1>4, <1>5, <1>6, <1>7 DEF Next, Resolve, ExpireCaches,
       clock, keys, vars

-----------------------------------------------------------------------------

IInv ==
    /\ TypeOK /\ Places /\ CountersAgeOut
    /\ RateHolds /\ ExpiringCount /\ DailyHolds

LEMMA InvInit == Init => IInv
  <1> SUFFICES ASSUME Init PROVE IInv
    OBVIOUS
  <1>1. TypeOK
    BY TypeInit
  <1>2. \A c \in Calls : call[c].step = "idle"
    BY DEF Init, AtRest, Owing
  <1>3. Places
    BY <1>2 DEF Places
  <1>4. CountersAgeOut
    BY DEF Init, CountersAgeOut
  <1>5. /\ \A k \in Keys : count[k] = 0
        /\ \A w \in Windows : passed[w] = 0
        /\ \A d \in Days : lookups[d] = 0
    BY DEF Init
  <1>6. RateHolds
    <2>1. \A w \in Windows : ~RateDue(w) /\ <<"rate", w>> \in Keys
      BY <1>2, KeysDiffer DEF RateDue
    <2> QED
      BY <1>2, <1>5, <2>1, ThrottlesAssumption DEF RateHolds
  <1>7. DailyHolds
    <2>1. \A d \in Days : ~DailyDue(d) /\ <<"daily", d>> \in Keys /\ Allowed(d) = {}
      BY <1>2, KeysDiffer DEF DailyDue, Allowed
    <2>3. \A d \in Days : Before(d) = 0
      BY DEF Init, Before
    <2>2. \A d \in Days : Used(d) = 0
      <3>1. Cardinality({}) = 0
        BY FS_EmptySet
      <3>2. \A d \in Days : Used(d) = lookups[d] + Cardinality({})
        BY <2>1 DEF Used
      <3> QED
        BY <1>5, <3>1, <3>2
    <2> QED
      BY <1>2, <1>5, <2>1, <2>2, <2>3, ThrottlesAssumption DEF DailyHolds
  <1>8. ExpiringCount
    BY DEF Init, ExpiringCount
  <1> QED
    BY <1>1, <1>3, <1>4, <1>6, <1>7, <1>8 DEF IInv

LEMMA InvStep == IInv /\ [Next]_vars => IInv'
  BY TypeStep, PlacesStep, AgesStep, RateStep, ExpiringStep, DailyStep DEF IInv

LEMMA InvLimits == IInv => LimitsKept
  <1> SUFFICES ASSUME IInv PROVE LimitsKept
    OBVIOUS
  <1>1. ASSUME NEW d \in Days PROVE lookups[d] <= Before(d) + DailyLimit
    <2>1. /\ lookups[d] \in Nat /\ Cardinality(Allowed(d)) \in Nat /\ DailyLimit \in Nat
          /\ Before(d) \in Nat
      BY UsedIsNat, Numbers DEF IInv, Before
    <2>2. lookups[d] + Cardinality(Allowed(d)) <= Before(d) + DailyLimit
      BY DEF IInv, DailyHolds, Used
    <2> QED
      BY <2>1, <2>2
  <1> QED
    BY <1>1 DEF IInv, RateHolds, LimitsKept

LEMMA Invariance == Spec => []IInv
  BY InvInit, InvStep, PTL DEF Spec

(* Every variable keeps its type, for any number of calls and any limits.   *)
THEOREM TypeCorrect == Spec => []TypeOK
  BY Invariance, PTL DEF IInv

(* For any limits and any number of calls that race, die or lose Redis, a   *)
(* window never lets more counted requests pass than RateLimit, and a day   *)
(* never sees more BatchData look-ups than owner_resolution_daily_limit, or *)
(* twice as many if its counter expired in its last second.                 *)
THEOREM LimitsAreKept == Spec => []LimitsKept
  BY Invariance, InvLimits, PTL

(* A Redis counter never stays without expiry unless a call failed between  *)
(* its increment and its expiry, whatever is deleted or expires meanwhile.  *)
THEOREM CountersExpire == Spec => []CountersAgeOut
  BY Invariance, PTL DEF IInv

=============================================================================
