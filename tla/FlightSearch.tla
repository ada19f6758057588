----------------------------- MODULE FlightSearch -----------------------------
(***************************************************************************)
(* POST /flights/search (search_booking_engine): the envelope of a search  *)
(* is kept for 30 seconds as the fresh one and for 600 as the stale one,   *)
(* which answers when the provider takes longer than 0.45 seconds or fails. *)
(* One route, searched by several requests, in several processes.  An      *)
(* envelope is known by the time its offers are of and by where they are   *)
(* from: the provider, or nowhere, the empty list of a search that timed   *)
(* out.  What is in it is OptionRanking; one ranking is made apart.        *)
(***************************************************************************)
EXTENDS OptionRanking

CONSTANTS
    Searches,      \* requests, each of which may search again and again
    FreshTtl,      \* FRESH_CACHE_SECONDS, in ticks
    StaleTtl,      \* STALE_CACHE_SECONDS, in ticks
    MaxTime,       \* bound: ticks
    Offerings,     \* offers a provider may list, in its order
    Wishes         \* what a search may ask for

ASSUME FlightSearchAssumption ==
    /\ {FreshTtl, StaleTtl, MaxTime} \subseteq Nat \ {0}
    /\ Offerings \subseteq Lists \ {<<>>}
    /\ Wishes \subseteq Wished

VARIABLES
    now,
    fresh,         \* flight_search:fresh:{key}: the envelope, its expiry
    stale,         \* flight_search:stale:{key}: the same
    search,        \* of each request: its step, the envelope it has built
    answered,      \* of each request: its last answer
    heard,         \* history: when offers of the provider were last kept
    lost,          \* history: Redis has failed a call or dropped a key
    ranking        \* a ranking and what came of it

searchVars == <<now, fresh, stale, search, answered, heard, lost, ranking>>

Nowhere == [at |-> 0, from |-> "none"]

Absent == [envelope |-> Nowhere, until |-> 0]

Idle == [step |-> "idle", envelope |-> Nowhere]

NoAnswer == [status |-> "none", envelope |-> Nowhere, at |-> 0]

NoRanking == [offers |-> <<>>]

SearchInit ==
    /\ now = 1
    /\ fresh = Absent
    /\ stale = Absent
    /\ search = [s \in Searches |-> Idle]
    /\ answered = [s \in Searches |-> NoAnswer]
    /\ heard = 0
    /\ lost = FALSE
    /\ ranking = NoRanking

Kept(entry) == now < entry.until

(* get_json: None when Redis fails; then lost is TRUE from now on *)
Reads(entry, found) ==
    \/ found = Kept(entry) /\ UNCHANGED lost
    \/ ~found /\ lost' = TRUE

Answer(s, status, envelope) ==
    /\ search' = [search EXCEPT ![s] = Idle]
    /\ answered' = [answered EXCEPT ![s] =
                      [status |-> status, envelope |-> envelope, at |-> now]]

-----------------------------------------------------------------------------
(* search_booking_engine *)

BeginSearch(s) ==
    /\ search[s] = Idle
    /\ ranking = NoRanking
    /\ \/ Reads(fresh, TRUE) /\ Answer(s, "fresh", fresh.envelope)
       \/ /\ Reads(fresh, FALSE)
          /\ search' = [search EXCEPT ![s].step = "asking"]
          /\ UNCHANGED answered
    /\ UNCHANGED <<now, fresh, stale, heard, ranking>>

Build(s, from) ==
    search' = [search EXCEPT ![s] =
                  [step |-> "built", envelope |-> [at |-> now, from |-> from]]]

ProviderAnswers(s) ==
    /\ search[s].step = "asking"
    /\ Build(s, "provider")
    /\ UNCHANGED <<now, fresh, stale, answered, heard, lost, ranking>>

(* variant: the empty list at once *)
TimesOutEmpty(s) ==
    /\ search[s].step = "asking"
    /\ Build(s, "timeout")
    /\ UNCHANGED <<now, fresh, stale, answered, heard, lost, ranking>>

(* The stale envelope, else an empty one, which is kept as any other.       *)
TimesOut(s) ==
    /\ search[s].step = "asking"
    /\ \/ Reads(stale, TRUE) /\ Answer(s, "stale_fallback", stale.envelope)
       \/ Reads(stale, FALSE) /\ Build(s, "timeout") /\ UNCHANGED answered
    /\ UNCHANGED <<now, fresh, stale, heard, ranking>>

Fails(s) ==
    /\ search[s].step = "asking"
    /\ \/ Reads(stale, TRUE) /\ Answer(s, "stale_fallback", stale.envelope)
       \/ Reads(stale, FALSE) /\ Answer(s, "503", Nowhere)
    /\ UNCHANGED <<now, fresh, stale, heard, ranking>>

Entry(s, ttl) == [envelope |-> search[s].envelope, until |-> now + ttl]

SaveFresh(s) ==
    /\ search[s].step = "built"
    /\ \/ fresh' = Entry(s, FreshTtl) /\ UNCHANGED lost
       \/ lost' = TRUE /\ UNCHANGED fresh
    /\ search' = [search EXCEPT ![s].step = "saved"]
    /\ UNCHANGED <<now, stale, answered, heard, ranking>>

(* and the analytics row, whose failure is swallowed *)
SaveStale(s) ==
    /\ search[s].step = "saved"
    /\ \/ /\ stale' = Entry(s, StaleTtl)
          /\ heard' = IF search[s].envelope.from = "provider" THEN now ELSE heard
          /\ UNCHANGED lost
       \/ lost' = TRUE /\ UNCHANGED <<stale, heard>>
    /\ Answer(s, "fresh", search[s].envelope)
    /\ UNCHANGED <<now, fresh, ranking>>

(* the request is gone *)
Abandon(s) ==
    /\ search[s] # Idle
    /\ search' = [search EXCEPT ![s] = Idle]
    /\ UNCHANGED <<now, fresh, stale, answered, heard, lost, ranking>>

(* Between the answer and the last set_json nothing is awaited: a tick, of  *)
(* many seconds, does not pass there.                                       *)
Tick ==
    /\ now < MaxTime
    /\ \A s \in Searches : search[s].step \notin {"built", "saved"}
    /\ now' = now + 1
    /\ UNCHANGED <<fresh, stale, search, answered, heard, lost, ranking>>

Evict ==
    /\ \/ fresh' = Absent /\ UNCHANGED stale
       \/ stale' = Absent /\ UNCHANGED fresh
    /\ lost' = TRUE
    /\ UNCHANGED <<now, search, answered, heard, ranking>>

-----------------------------------------------------------------------------
(* A ranking takes its offers from a provider and shares nothing with the   *)
(* searches above: it is made before any of them.                           *)
MakeRanking ==
    /\ <<now, fresh, stale, lost>> = <<1, Absent, Absent, FALSE>>
    /\ \A s \in Searches : search[s] = Idle /\ answered[s] = NoAnswer
    /\ ranking = NoRanking
    /\ \E offers \in Offerings, wish \in Wishes :
        LET ranked == Ranked(offers, wish) IN
        ranking' = [offers |-> offers, wish |-> wish, ranked |-> ranked,
                    envelope |-> Envelope(ranked),
                    options |-> Options(offers, wish.original)]
    /\ UNCHANGED <<now, fresh, stale, search, answered, heard, lost>>

SearchNext ==
    \/ \E s \in Searches :
        \/ BeginSearch(s) \/ ProviderAnswers(s) \/ TimesOut(s) \/ Fails(s)
        \/ SaveFresh(s) \/ SaveStale(s) \/ Abandon(s)
    \/ Tick \/ Evict \/ MakeRanking

SearchSpec == SearchInit /\ [][SearchNext]_searchVars

-----------------------------------------------------------------------------
(***************************************************************************)
(* Properties.                                                             *)
(***************************************************************************)

(* What a request was answered was true less than 30 seconds before, or     *)
(* less than 600 if it says stale_fallback.  An envelope that is empty      *)
(* because the provider was slow was made only when no offers of the        *)
(* provider had been kept for 600 seconds, or Redis has failed: races of    *)
(* searches and of expiry do not drop what is known.                        *)
AnswersAreRecent ==
    \A s \in Searches : LET a == answered[s] IN
        /\ a.status = "fresh" => a.at - a.envelope.at < FreshTtl
        /\ a.status = "stale_fallback" => a.at - a.envelope.at < StaleTtl
        /\ a.envelope.from = "timeout" /\ ~lost /\ heard # 0 =>
            \/ heard + StaleTtl <= a.envelope.at
            \/ heard >= a.envelope.at

(* p is as good as o in all of fields and better in one *)
Dominates(p, o, fields) ==
    /\ \A f \in fields : p[f] <= o[f]
    /\ \E f \in fields : p[f] < o[f]

Ids(offers) == {offers[i].id : i \in DOMAIN offers}

(* What came of a ranking: nothing better is hidden behind a pick.  It      *)
(* shows each viable offer once, or all when none is, and none behind one   *)
(* that it beats in risk, price, duration, deadline and stops.              *)
RankedWell(offers, wish, ranked) ==
    /\ \A i, j \in DOMAIN ranked : ranked[i].id = ranked[j].id => i = j
    /\ Ids(ranked) = {offers[i].id : i \in Shown(offers, wish)}
    /\ \A i, j \in DOMAIN ranked : i < j =>
        ~Dominates(Traits(ranked[j], wish), Traits(ranked[i], wish), Factors)

(* Three cards of an envelope differ if there are three; no card beats the  *)
(* best value among the flights of its length, and only a card already      *)
(* picked beats the fastest or the cheapest.                                *)
PickedWell(cards, env) ==
    /\ Cardinality({env.best.id, env.fastest.id, env.cheapest.id})
        = Min({Len(cards), 3})
    /\ \A c \in Range(cards) :
        /\ (c.duration <= Hours(8) \/ env.best.duration > Hours(8)) =>
            ~Dominates(c, env.best, {"price", "duration"})
        /\ c.duration < env.fastest.duration => c = env.best
        /\ c.price < env.cheapest.price => c \in {env.best, env.fastest}

(* Of the rebooking options, which differ and can be taken, one arrives     *)
(* first, one costs least, and no viable offer both arrives before the      *)
(* default and costs less.                                                  *)
RebookedWell(offers, original, options) ==
    LET bookable == {offers[i] : i \in Rebookable(offers, original)}
    IN  /\ \A i, j \in DOMAIN options : options[i].id = options[j].id => i = j
        /\ Range(options) \subseteq bookable
        /\ \A o \in bookable :
            /\ \E p \in Range(options) : p.arrives <= o.arrives
            /\ \E p \in Range(options) : p.price <= o.price
            /\ ~Dominates(o, DefaultOption(options), {"arrives", "price"})

(* Every ranking shows and picks what it should.                            *)
PicksUndominated ==
    ranking # NoRanking =>
        /\ RankedWell(ranking.offers, ranking.wish, ranking.ranked)
        /\ PickedWell(ranking.ranked, ranking.envelope)
        /\ RebookedWell(ranking.offers, ranking.wish.original, ranking.options)

=============================================================================
