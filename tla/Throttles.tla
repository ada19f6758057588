------------------------------ MODULE Throttles ------------------------------
(***************************************************************************)
(* Three protections that count in Redis: the rate limit of the middleware *)
(* (BackupRateLimitMiddleware), the daily limit of owner look-ups          *)
(* (resolve_owner_for_user) and the circuit breaker around Duffel          *)
(* (find_and_cache_alternatives).  Each one increments a key and, when it  *)
(* made the key, sets its expiry in a second call; each treats a failing   *)
(* Redis in its own way: the middleware lets the request pass, the daily   *)
(* limit refuses it, the breaker behaves as closed.  The keys of the two   *)
(* limits name their window or day, the breaker's key is always the same.  *)
(* Requests and tasks share no key, so a behaviour has calls of one kind.  *)
(***************************************************************************)
EXTENDS Naturals, FiniteSets

CONSTANTS
    Calls,         \* requests or tasks, each runs any number of operations
    RateLimit,     \* requests in a window
    DailyLimit,    \* owner_resolution_daily_limit
    FailureLimit,  \* failure_limit of the breaker
    WindowsPerDay, \* windows of the rate limit in a day
    MaxWindow,     \* bound: windows
    MaxCount       \* bound: value of a counter

ASSUME ThrottlesAssumption ==
    /\ IsFiniteSet(Calls)
    /\ {RateLimit, DailyLimit, MaxCount} \subseteq Nat
    /\ {FailureLimit, WindowsPerDay, MaxWindow} \subseteq Nat \ {0}

VARIABLES
    kind,          \* of the calls: "request" or "task"
    window,        \* the current window of the rate limit
    renewed,       \* history: days whose counter expired before they ended
    count,         \* the counters
    expiring,      \* the counters that have an expiry
    torn,          \* history: counters whose expiry was not set after the increment
    open,          \* circuit:duffel:open
    alternatives,  \* duffel:alternatives:{flight} is cached
    session,       \* the owner resolution session is cached
    passed,        \* requests that the middleware let pass, per window
    lookups,       \* calls of BatchData, per day
    call           \* the calls

vars == <<kind, window, renewed, count, expiring, torn, open, alternatives, session,
          passed, lookups, call>>

Windows == 1..MaxWindow

DayOf(w) == (w - 1) \div WindowsPerDay + 1

Days == {DayOf(w) : w \in Windows}

day == DayOf(window)

Failures == <<"failures", 0>>

Keys == {Failures} \cup ({"rate"} \X Windows) \cup ({"daily"} \X Days)

Answers == {"idle", "429", "503", "500", "resolved", "found", "cached", "empty",
            "raised"}

Steps == {"rate_incr", "rate_expire", "daily_incr", "daily_expire", "session",
          "lookup", "ask", "search", "forget_failures", "forget_open", "store",
          "failures_incr", "failures_expire", "trip", "fall_back"}

TypeOK ==
    /\ kind \in {"request", "task"}
    /\ window \in Windows
    /\ renewed \in SUBSET Days
    /\ count \in [Keys -> 0..MaxCount]
    /\ expiring \in SUBSET Keys
    /\ torn \in SUBSET Keys
    /\ open \in BOOLEAN
    /\ alternatives \in BOOLEAN
    /\ session \in BOOLEAN
    /\ passed \in [Windows -> Nat]
    /\ lookups \in [Days -> Nat]
    /\ call \in [Calls -> [step : Answers \cup Steps, key : Keys,
                           n : 0..MaxCount, stale : BOOLEAN, opened : BOOLEAN]]

(* at a step, with the key that it is about *)
Owing(step, k) ==
    [step |-> step, key |-> k, n |-> 0, stale |-> FALSE, opened |-> FALSE]

AtRest(answer) == Owing(answer, Failures)

Init ==
    /\ kind \in {"request", "task"}
    /\ window = 1
    /\ renewed = {}
    /\ count = [k \in Keys |-> 0]
    /\ expiring = {}
    /\ torn = {}
    /\ open = FALSE
    /\ alternatives \in BOOLEAN
    /\ session = FALSE
    /\ passed = [w \in Windows |-> 0]
    /\ lookups = [d \in Days |-> 0]
    /\ call = [c \in Calls |-> AtRest("idle")]

keys == <<count, expiring, torn>>
breaker == <<open, alternatives>>
owner == <<session, lookups>>
clock == <<kind, window, renewed>>

Goto(c, step) == call' = [call EXCEPT ![c].step = step]

Answer(c, answer) == call' = [call EXCEPT ![c] = AtRest(answer)]

-----------------------------------------------------------------------------
(* one counter *)

(* redis incr *)
Incr(k) ==
    /\ count[k] < MaxCount
    /\ count' = [count EXCEPT ![k] = @ + 1]
    /\ UNCHANGED <<expiring, torn>>

(* redis expire: nothing happens to a key that is gone meanwhile *)
SetExpiry(k) ==
    /\ expiring' = IF count[k] > 0 THEN expiring \cup {k} ELSE expiring
    /\ torn' = torn \ {k}
    /\ UNCHANGED count

(* the process ends, or Redis fails, where the expiry was due *)
Tear(c) ==
    /\ torn' = IF call[c].step \in {"rate_expire", "daily_expire", "failures_expire"}
               THEN torn \cup {call[c].key} ELSE torn
    /\ UNCHANGED <<count, expiring>>

(* Redis fails the increment; it may have been executed *)
Lose(k) ==
    \/ UNCHANGED keys
    \/ /\ count[k] < MaxCount
       /\ count' = [count EXCEPT ![k] = @ + 1]
       /\ torn' = IF count[k] = 0 THEN torn \cup {k} ELSE torn
       /\ UNCHANGED expiring

(* variant: a success takes one failure off the counter *)
DropOne(k) ==
    /\ count' = [count EXCEPT ![k] = @ - 1]
    /\ UNCHANGED <<expiring, torn>>

(* the key is deleted or expires *)
Drop(k) ==
    /\ count' = [count EXCEPT ![k] = 0]
    /\ expiring' = expiring \ {k}
    /\ torn' = torn \ {k}

-----------------------------------------------------------------------------
(* BackupRateLimitMiddleware, in front of POST /signals/resolve-owner *)

Request(c) ==
    /\ kind = "request"
    /\ call[c].step \in Answers
    /\ call' = [call EXCEPT ![c] = AtRest("rate_incr")]
    /\ UNCHANGED <<clock, keys, breaker, owner, passed>>

(* n is the value of the counter k that this request made *)
Admit(c, k, n) ==
    IF n > RateLimit
    THEN Answer(c, "429") /\ UNCHANGED passed
    ELSE Answer(c, "daily_incr") /\ passed' = [passed EXCEPT ![k[2]] = @ + 1]

(* variant: the counter is read, and written back with one added *)
CountRequestInTwo(c) ==
    LET k == <<"rate", window>>
    IN /\ call[c].step = "rate_incr"
       /\ \/ /\ call[c].n = 0
             /\ call' = [call EXCEPT ![c].n = count[k] + 1]
             /\ UNCHANGED <<keys, passed>>
          \/ /\ call[c].n > 0
             /\ count' = [count EXCEPT ![k] = call[c].n]
             /\ expiring' = expiring \cup {k}
             /\ Admit(c, k, call[c].n)
             /\ UNCHANGED torn
       /\ UNCHANGED <<clock, breaker, owner>>

(* the window is computed, and its key incremented, without an await *)
CountRequest(c) ==
    LET k == <<"rate", window>>
        n == count[k] + 1
    IN /\ call[c].step = "rate_incr"
       /\ Incr(k)
       /\ IF n = 1
          THEN call' = [call EXCEPT ![c] = Owing("rate_expire", k)] /\ UNCHANGED passed
          ELSE Admit(c, k, n)
       /\ UNCHANGED <<clock, breaker, owner>>

ExpireRequests(c) ==
    /\ call[c].step = "rate_expire"
    /\ SetExpiry(call[c].key)
    /\ Admit(c, call[c].key, 1)
    /\ UNCHANGED <<clock, breaker, owner>>

(* a RedisError lets the request pass; it may have been counted *)
PassUncounted(c) ==
    /\ \/ /\ call[c].step = "rate_incr"
          /\ Lose(<<"rate", window>>)
       \/ /\ call[c].step = "rate_expire"
          /\ Tear(c)
    /\ Answer(c, "daily_incr")
    /\ UNCHANGED <<clock, breaker, owner, passed>>

-----------------------------------------------------------------------------
(* resolve_owner_for_user *)

Allow(c, k, n) ==
    IF n > DailyLimit THEN Answer(c, "429")
                      ELSE call' = [call EXCEPT ![c] = Owing("session", k)]

(* increment_daily_counter *)
CountLookup(c) ==
    LET k == <<"daily", day>>
        n == count[k] + 1
    IN /\ call[c].step = "daily_incr"
       /\ Incr(k)
       /\ IF n = 1 THEN call' = [call EXCEPT ![c] = Owing("daily_expire", k)]
                   ELSE Allow(c, k, n)
       /\ UNCHANGED <<clock, breaker, owner, passed>>

ExpireLookups(c) ==
    /\ call[c].step = "daily_expire"
    /\ SetExpiry(call[c].key)
    /\ Allow(c, call[c].key, 1)
    /\ UNCHANGED <<clock, breaker, owner, passed>>

(* a RedisError is a 503 *)
RefuseUncounted(c) ==
    /\ \/ call[c].step = "daily_incr" /\ Lose(<<"daily", day>>)
       \/ call[c].step = "daily_expire" /\ Tear(c)
    /\ Answer(c, "503")
    /\ UNCHANGED <<clock, breaker, owner, passed>>

(* get_json answers nothing when Redis fails *)
ReadSession(c) ==
    /\ call[c].step = "session"
    /\ \/ session /\ Answer(c, "resolved")
       \/ Goto(c, "lookup")
    /\ UNCHANGED <<clock, keys, breaker, owner, passed>>

(* _resolve_with_batchdata_or_mock, then set_json, which swallows errors *)
Lookup(c) ==
    /\ call[c].step = "lookup"
    /\ lookups' = [lookups EXCEPT ![call[c].key[2]] = @ + 1]
    /\ \/ /\ session' \in {TRUE, session}
          /\ Answer(c, "resolved")
       \/ /\ Answer(c, "500")
          /\ UNCHANGED session
    /\ UNCHANGED <<clock, keys, breaker, passed>>

-----------------------------------------------------------------------------
(* find_and_cache_alternatives, in a task of the pipeline *)

(* the cache is read first; here a RedisError is not caught *)
ReadAlternatives(c) ==
    /\ kind = "task"
    /\ call[c].step \in Answers
    /\ \/ call' = [call EXCEPT ![c] = [AtRest("ask") EXCEPT !.stale = alternatives]]
       \/ Answer(c, "raised")
    /\ UNCHANGED <<clock, keys, breaker, owner, passed>>

(* breaker.is_open *)
Ask(c) ==
    /\ call[c].step = "ask"
    /\ \/ open /\ call[c].stale /\ Answer(c, "cached")
       \/ Goto(c, "search")     \* closed, nothing cached, or Redis fails
    /\ UNCHANGED <<clock, keys, breaker, owner, passed>>

(* search_alternatives *)
Search(c) ==
    /\ call[c].step = "search"
    /\ \E step \in {"forget_failures", "failures_incr"} : Goto(c, step)
    /\ UNCHANGED <<clock, keys, breaker, owner, passed>>

(* record_success: two deletes, the first RedisError ends it *)
ForgetFailures(c) ==
    /\ call[c].step = "forget_failures"
    /\ \/ Drop(Failures) /\ Goto(c, "forget_open")
       \/ UNCHANGED keys /\ Goto(c, "store")
    /\ UNCHANGED <<clock, breaker, owner, passed>>

ForgetOpen(c) ==
    /\ call[c].step = "forget_open"
    /\ Goto(c, "store")
    /\ open' \in {FALSE, open}
    /\ UNCHANGED <<clock, keys, alternatives, owner, passed>>

Store(c) ==
    /\ call[c].step = "store"
    /\ Answer(c, "found")
    /\ alternatives' \in {TRUE, alternatives}
    /\ UNCHANGED <<clock, keys, open, owner, passed>>

(* variant: the expiry is set by the failure that reaches the limit *)
CountFailureLate(c) ==
    LET n == count[Failures] + 1
    IN /\ call[c].step = "failures_incr"
       /\ Incr(Failures)
       /\ call' = [call EXCEPT ![c].n = n,
                               ![c].step = IF n = FailureLimit THEN "failures_expire"
                                                               ELSE "trip"]
       /\ UNCHANGED <<clock, breaker, owner, passed>>

(* record_failure *)
CountFailure(c) ==
    LET n == count[Failures] + 1
    IN /\ call[c].step = "failures_incr"
       /\ Incr(Failures)
       /\ call' = [call EXCEPT ![c].n = n,
                               ![c].step = IF n = 1 THEN "failures_expire" ELSE "trip"]
       /\ UNCHANGED <<clock, breaker, owner, passed>>

ExpireFailures(c) ==
    /\ call[c].step = "failures_expire"
    /\ SetExpiry(Failures)
    /\ Goto(c, "trip")
    /\ UNCHANGED <<clock, breaker, owner, passed>>

Trip(c) ==
    /\ call[c].step = "trip"
    /\ call' = [call EXCEPT ![c].step = "fall_back", ![c].opened = call[c].n >= FailureLimit]
    /\ open' = (open \/ call[c].n >= FailureLimit)
    /\ UNCHANGED <<clock, keys, alternatives, owner, passed>>

(* a RedisError of record_failure is swallowed: not opened *)
FailUncounted(c) ==
    /\ \/ call[c].step = "failures_incr" /\ Lose(Failures)
       \/ call[c].step \in {"failures_expire", "trip"} /\ Tear(c)
    /\ Goto(c, "fall_back")
    /\ UNCHANGED <<clock, breaker, owner, passed>>

(* the cached offers, or none if the breaker opened, or the exception *)
FallBack(c) ==
    /\ call[c].step = "fall_back"
    /\ Answer(c, IF call[c].stale THEN "cached"
                 ELSE IF call[c].opened THEN "empty" ELSE "raised")
    /\ UNCHANGED <<clock, keys, breaker, owner, passed>>

-----------------------------------------------------------------------------

(* the process of a call dies *)
Crash(c) ==
    /\ call[c].step \in Steps
    /\ Answer(c, "idle")
    /\ Tear(c)
    /\ UNCHANGED <<clock, breaker, owner, passed>>

NextWindow ==
    /\ kind = "request"
    /\ window < MaxWindow
    /\ window' = window + 1
    /\ UNCHANGED <<kind, renewed, keys, breaker, owner, passed, call>>

(* The counter of a day is set to live max(int(seconds left), 60) seconds:  *)
(* the fraction that int() cuts off is missing at the end of the day.  The  *)
(* counter that a call of that last second starts lives for 60 seconds, so  *)
(* that this happens once a day.                                            *)
EndsEarly(k) ==
    /\ k = <<"daily", day>>
    /\ day \notin renewed
    /\ window % WindowsPerDay = 0

(* An expiry comes; the counter of a window lives as long as the window. *)
Expire(k) ==
    /\ k \in expiring
    /\ k[1] = "rate" => k[2] < window
    /\ k[1] = "daily" => k[2] < day \/ EndsEarly(k)
    /\ Drop(k)
    /\ renewed' = IF k = <<"daily", day>> THEN renewed \cup {day} ELSE renewed
    /\ UNCHANGED <<kind, window, breaker, owner, passed, call>>

ExpireCaches ==
    /\ \/ open /\ open' = FALSE /\ UNCHANGED <<alternatives, session>>
       \/ alternatives /\ alternatives' = FALSE /\ UNCHANGED <<open, session>>
       \/ session /\ session' = FALSE /\ UNCHANGED <<open, alternatives>>
    /\ UNCHANGED <<clock, keys, lookups, passed, call>>

Resolve(c) ==
    \/ Request(c) \/ CountRequest(c) \/ ExpireRequests(c) \/ PassUncounted(c)
    \/ CountLookup(c) \/ ExpireLookups(c) \/ RefuseUncounted(c)
    \/ ReadSession(c) \/ Lookup(c)

FindAlternatives(c) ==
    \/ ReadAlternatives(c) \/ Ask(c) \/ Search(c) \/ ForgetFailures(c)
    \/ ForgetOpen(c) \/ Store(c) \/ CountFailure(c) \/ ExpireFailures(c)
    \/ Trip(c) \/ FailUncounted(c) \/ FallBack(c)

Next ==
    \/ NextWindow \/ ExpireCaches
    \/ \E k \in Keys : Expire(k)
    \/ \E c \in Calls : Resolve(c) \/ FindAlternatives(c) \/ Crash(c)

Spec == Init /\ [][Next]_vars

-----------------------------------------------------------------------------
(***************************************************************************)
(* Properties.                                                             *)
(***************************************************************************)

(* what the first counter of a day may have let through when there are two *)
Before(d) == IF d \in renewed THEN DailyLimit ELSE 0

(* Whatever calls race, die and lose Redis, a window never admits more      *)
(* counted requests than its limit, and a day never sees more paid owner    *)
(* look-ups than its limit, or than twice that when its counter expired in  *)
(* the last second of the day and was started again.                        *)
LimitsKept ==
    /\ \A w \in Windows : passed[w] <= RateLimit
    /\ \A d \in Days : lookups[d] <= Before(d) + DailyLimit

DueFor(k) ==
    \E c \in Calls : /\ call[c].key = k
                     /\ call[c].step \in {"rate_expire", "daily_expire",
                                          "failures_expire"}

(* A counter without expiry is one whose expiry is about to be set, or one  *)
(* left by a call that Redis or the process failed between the two steps:   *)
(* deletions, expiries and other calls in between never leave one.          *)
CountersAgeOut ==
    \A k \in Keys : count[k] > 0 => k \in expiring \/ DueFor(k) \/ k \in torn

=============================================================================
