---------------------------- MODULE OffersProofs ----------------------------
(*************************************************************************)
(* Proofs about Offers, for any clients and prices, then about           *)
(* FlightSearch and, for any list of offers, about the picks of          *)
(* OptionRanking.  Both properties of Offers speak of one client; what   *)
(* makes them hard is the search entry, which every client's search may  *)
(* overwrite.  PriceKept says that an entry that is not forgotten still  *)
(* is what the client saw, and that the copy which its request read      *)
(* before the await is the same.                                         *)
(*************************************************************************)
EXTENDS Offers, FlightSearch, FiniteSetTheorems, WellFoundedInduction, TLAPS

AnyPrice == Prices \cup {NoPrice}

TypeOK ==
    /\ price \in Prices
    /\ searched \in AnyPrice
    /\ pc \in [Clients -> Answers \cup Steps]
    /\ seen \in [Clients -> AnyPrice]
    /\ quote \in [Clients -> AnyPrice]
    /\ shown \in [Clients -> AnyPrice]
    /\ forgotten \in [Clients -> BOOLEAN]
    /\ hooked \in [Clients -> BOOLEAN]
    /\ row \in [Clients -> [fare : AnyPrice, warned : BOOLEAN]]
    /\ told \in [Clients -> SUBSET {"push", "mail"}]

(* steps of a request before its commit, and those at which it has a quote *)
Refreshing == {"refresh_get", "refresh_cache", "book_get", "book_cache",
               "book_register", "book_commit"}
Quoted == {"cache_search", "refresh_cache", "book_cache", "book_register",
           "book_commit"}

(* what each step of a request relies on *)
Milestones ==
    \A c \in Clients :
        /\ pc[c] \in Quoted => quote[c] \in Prices
        /\ pc[c] \in Refreshing \cup {"add_register", "add_commit", "added",
              "idle", "cache_search", "searched", "refreshed", "conflict",
              "unauthorized"} => row[c] = NoRow /\ told[c] = {}
        /\ pc[c] \in {"book_get", "book_cache", "book_register", "conflict",
              "unauthorized"} => ~hooked[c]
        /\ pc[c] \in {"book_commit", "add_commit", "added", "push", "mail",
              "booked"} => hooked[c]
        /\ pc[c] \in {"push", "mail", "booked"} => row[c] # NoRow
        /\ pc[c] = "push" => told[c] = {}
        /\ pc[c] = "mail" => told[c] = {"push"}
        /\ pc[c] = "booked" => told[c] = {"push", "mail"}
        /\ row[c] # NoRow => hooked[c]
        /\ told[c] # {} => row[c] # NoRow

(* a search entry that is still the client's own, and the copy of it *)
PriceKept ==
    \A c \in Clients : ~forgotten[c] =>
        /\ shown[c] \in Prices
        /\ searched = shown[c]
        /\ pc[c] \in Refreshing => seen[c] = shown[c]

IInv ==
    /\ TypeOK
    /\ Milestones
    /\ PriceKept
    /\ FareShownOrWarned

-----------------------------------------------------------------------------

(* at the start everything has its type *)
LEMMA TypeInit == Init => TypeOK
  BY DEF Init, TypeOK, AnyPrice, Answers, NoRow

(* every step keeps the types *)
LEMMA TypeStep == TypeOK /\ [Next]_vars => TypeOK'
  <1> SUFFICES ASSUME TypeOK, [Next]_vars PROVE TypeOK'
    OBVIOUS
  <1> USE DEF TypeOK, AnyPrice, Goto, Begin, Answers, Steps, NoRow
  <1>1. CASE Reprice
    BY <1>1 DEF Reprice
  <1>2. CASE Expire
    BY <1>2 DEF Expire
  <1>3. ASSUME NEW c \in Clients, Search(c) PROVE TypeOK'
    BY <1>3 DEF Search
  <1>4. ASSUME NEW c \in Clients, CacheSearch(c) PROVE TypeOK'
    BY <1>4 DEF CacheSearch
  <1>5. ASSUME NEW c \in Clients, Refresh(c) PROVE TypeOK'
    BY <1>5 DEF Refresh, ReadSearched
  <1>6. ASSUME NEW c \in Clients, Book(c) PROVE TypeOK'
    BY <1>6 DEF Book, ReadSearched
  <1>7. ASSUME NEW c \in Clients, AddFlight(c) PROVE TypeOK'
    BY <1>7 DEF AddFlight
  <1>8. ASSUME NEW c \in Clients, \/ GetOffer(c, "refresh_get", "refresh_cache")
                                  \/ GetOffer(c, "book_get", "book_cache")
        PROVE  TypeOK'
    BY <1>8 DEF GetOffer
  <1>9. ASSUME NEW c \in Clients, CacheOffer(c) PROVE TypeOK'
    BY <1>9 DEF CacheOffer
  <1>10. ASSUME NEW c \in Clients, Register(c) PROVE TypeOK'
    BY <1>10 DEF Register
  <1>11. ASSUME NEW c \in Clients, Commit(c) PROVE TypeOK'
    <2>1. Warned(c) \in BOOLEAN
      BY DEF Warned
    <2> QED
      BY <1>11, <2>1 DEF Commit
  <1>12. ASSUME NEW c \in Clients, \/ Brief(c, "push", "mail")
                                   \/ Brief(c, "mail", "booked")
         PROVE  TypeOK'
    BY <1>12 DEF Brief
  <1>13. ASSUME NEW c \in Clients, Fail(c) PROVE TypeOK'
    <2>1. hooked' \in [Clients -> BOOLEAN]
      BY <1>13 DEF Fail
    <2>2. told' \in [Clients -> SUBSET {"push", "mail"}]
      BY <1>13 DEF Fail
    <2> QED
      BY <1>13, <2>1, <2>2 DEF Fail
  <1>14. CASE UNCHANGED vars
    BY <1>14 DEF vars
  <1> QED
    BY <1>1, <1>2, <1>3, <1>4, <1>5, <1>6, <1>7, <1>8, <1>9, <1>10, <1>11,
       <1>12, <1>13, <1>14 DEF Next, Handle

(* The service state of the offer and of each request keeps its type.       *)
THEOREM TypeCorrect == Spec => []TypeOK
  BY TypeInit, TypeStep, PTL DEF Spec

-----------------------------------------------------------------------------

(* the invariant holds at the start *)
LEMMA InvInit == Init => IInv
  BY TypeInit DEF Init, IInv, Milestones, PriceKept, FareShownOrWarned,
     Refreshing, Quoted, NoRow

(* no step undoes what a request has passed *)
LEMMA MilestonesStep == IInv /\ [Next]_vars => Milestones'
  <1> SUFFICES ASSUME IInv, [Next]_vars PROVE Milestones'
    OBVIOUS
  <1>0. TypeOK /\ TypeOK' /\ Milestones
    BY TypeStep DEF IInv
  <1> USE <1>0, OffersAssumption
      DEF Milestones, TypeOK, Goto, Begin, Refreshing, Quoted
  <1>1. CASE Reprice \/ Expire
    BY <1>1 DEF Reprice, Expire
  <1>2. ASSUME NEW c \in Clients, Search(c) \/ AddFlight(c) PROVE Milestones'
    BY <1>2 DEF Search, AddFlight, Answers
  <1>3. ASSUME NEW c \in Clients, Refresh(c) \/ Book(c) PROVE Milestones'
    BY <1>3 DEF Refresh, Book, ReadSearched, Answers
  <1>4. ASSUME NEW c \in Clients, CacheSearch(c) PROVE Milestones'
    BY <1>4 DEF CacheSearch
  <1>5. ASSUME NEW c \in Clients, \/ GetOffer(c, "refresh_get", "refresh_cache")
                                  \/ GetOffer(c, "book_get", "book_cache")
        PROVE  Milestones'
    BY <1>5 DEF GetOffer
  <1>6. ASSUME NEW c \in Clients, CacheOffer(c) PROVE Milestones'
    BY <1>6 DEF CacheOffer
  <1>7. ASSUME NEW c \in Clients, Register(c) PROVE Milestones'
    BY <1>7 DEF Register
  <1>8. ASSUME NEW c \in Clients, Commit(c) PROVE Milestones'
    <2>1. CASE pc[c] = "book_commit"
      <3>1. quote[c] # NoPrice
        BY <2>1
      <3>2. row'[c] # NoRow
        BY <1>8, <2>1, <3>1 DEF Commit, NoRow
      <3> QED
        BY <1>8, <2>1, <3>2 DEF Commit
    <2>2. CASE pc[c] = "add_commit"
      BY <1>8, <2>2 DEF Commit
    <2> QED
      BY <1>8, <2>1, <2>2 DEF Commit
  <1>9. ASSUME NEW c \in Clients, \/ Brief(c, "push", "mail")
                                  \/ Brief(c, "mail", "booked")
        PROVE  Milestones'
    BY <1>9 DEF Brief
  <1>10. ASSUME NEW c \in Clients, Fail(c) PROVE Milestones'
    <2>1. /\ pc' = [pc EXCEPT ![c] = "failed"]
          /\ UNCHANGED <<quote, row>>
          /\ hooked[c] => hooked'[c]
          /\ told'[c] # {} => told[c] # {} \/ pc[c] \in {"push", "mail"}
          /\ \A d \in Clients \ {c} : hooked'[d] = hooked[d] /\ told'[d] = told[d]
      BY <1>10 DEF Fail
    <2> QED
      BY <2>1
  <1>11. CASE UNCHANGED vars
    BY <1>11 DEF vars
  <1> QED
    BY <1>1, <1>2, <1>3, <1>4, <1>5, <1>6, <1>7, <1>8, <1>9, <1>10, <1>11
    DEF Next, Handle

(* what a client saw and what it was quoted stay what the entries say *)
LEMMA PriceStep == IInv /\ [Next]_vars => PriceKept'
  <1> SUFFICES ASSUME IInv, [Next]_vars PROVE PriceKept'
    OBVIOUS
  <1>0. TypeOK /\ Milestones /\ PriceKept
    BY DEF IInv
  <1> USE <1>0 DEF PriceKept, TypeOK, Goto, Begin, Refreshing
  <1>1. CASE Reprice \/ Expire
    BY <1>1 DEF Reprice, Expire
  <1>2. ASSUME NEW c \in Clients, Search(c) \/ AddFlight(c) PROVE PriceKept'
    BY <1>2 DEF Search, AddFlight
  <1>3. ASSUME NEW c \in Clients, Refresh(c) \/ Book(c) PROVE PriceKept'
    BY <1>3 DEF Refresh, Book, ReadSearched
  <1>4. ASSUME NEW c \in Clients, CacheSearch(c) PROVE PriceKept'
    <2>1. quote[c] \in Prices
      BY <1>4 DEF CacheSearch, Milestones, Quoted
    <2> QED
      BY <1>4, <2>1 DEF CacheSearch
  <1>5. ASSUME NEW c \in Clients,
               \/ GetOffer(c, "refresh_get", "refresh_cache")
               \/ GetOffer(c, "book_get", "book_cache")
               \/ CacheOffer(c)
               \/ Register(c)
               \/ Commit(c)
        PROVE  PriceKept'
    BY <1>5 DEF GetOffer, CacheOffer, Register, Commit
  <1>6. ASSUME NEW c \in Clients, \/ Brief(c, "push", "mail")
                                  \/ Brief(c, "mail", "booked")
                                  \/ Fail(c)
        PROVE  PriceKept'
    BY <1>6 DEF Brief, Fail
  <1>7. CASE UNCHANGED vars
    BY <1>7 DEF vars
  <1> QED
    BY <1>1, <1>2, <1>3, <1>4, <1>5, <1>6, <1>7 DEF Next, Handle

(* a booking is made at the fare shown, or with the warning *)
LEMMA FareStep == IInv /\ [Next]_vars => FareShownOrWarned'
  <1> SUFFICES ASSUME IInv, [Next]_vars PROVE FareShownOrWarned'
    OBVIOUS
  <1>0. TypeOK /\ Milestones /\ PriceKept /\ FareShownOrWarned
    BY DEF IInv
  <1> USE <1>0, OffersAssumption DEF FareShownOrWarned, TypeOK, Goto, Begin
  <1>1. CASE Reprice \/ Expire
    BY <1>1 DEF Reprice, Expire
  <1>2. ASSUME NEW c \in Clients,
               Search(c) \/ AddFlight(c) \/ Refresh(c) \/ Book(c)
        PROVE  FareShownOrWarned'
    BY <1>2 DEF Search, AddFlight, Refresh, Book, ReadSearched
  <1>3. ASSUME NEW c \in Clients, CacheSearch(c) PROVE FareShownOrWarned'
    <2>1. row[c] = NoRow
      BY <1>3 DEF CacheSearch, Milestones
    <2>2. \A d \in Clients : d # c => shown'[d] = shown[d] /\ row'[d] = row[d]
      BY <1>3 DEF CacheSearch
    <2>3. \A d \in Clients : d # c /\ forgotten[d] => forgotten'[d]
      BY <1>3 DEF CacheSearch
    <2>4. row'[c] = NoRow
      BY <1>3, <2>1 DEF CacheSearch
    <2> QED
      BY <2>2, <2>3, <2>4
  <1>4. ASSUME NEW c \in Clients,
               \/ GetOffer(c, "refresh_get", "refresh_cache")
               \/ GetOffer(c, "book_get", "book_cache")
               \/ CacheOffer(c)
               \/ Register(c)
        PROVE  FareShownOrWarned'
    BY <1>4 DEF GetOffer, CacheOffer, Register
  <1>5. ASSUME NEW c \in Clients, Commit(c) PROVE FareShownOrWarned'
    <2>1. pc[c] = "book_commit" /\ ~forgotten[c] =>
             quote[c] = shown[c] \/ Warned(c)
      BY DEF PriceKept, Refreshing, Warned
    <2>2. CASE pc[c] = "book_commit"
      <3>1. row'[c] = [fare |-> quote[c], warned |-> Warned(c)]
        BY <1>5, <2>2 DEF Commit
      <3>2. row'[c].fare = quote[c] /\ row'[c].warned = Warned(c)
        BY <3>1
      <3>3. \A d \in Clients : d # c => row'[d] = row[d]
        BY <1>5 DEF Commit
      <3>4. shown' = shown /\ forgotten' = forgotten
        BY <1>5 DEF Commit
      <3> QED
        BY <2>1, <2>2, <3>2, <3>3, <3>4
    <2>3. CASE pc[c] = "add_commit"
      BY <1>5, <2>3 DEF Commit
    <2> QED
      BY <1>5, <2>2, <2>3 DEF Commit
  <1>6. ASSUME NEW c \in Clients, \/ Brief(c, "push", "mail")
                                  \/ Brief(c, "mail", "booked")
                                  \/ Fail(c)
        PROVE  FareShownOrWarned'
    BY <1>6 DEF Brief, Fail
  <1>7. CASE UNCHANGED vars
    BY <1>7 DEF vars
  <1> QED
    BY <1>1, <1>2, <1>3, <1>4, <1>5, <1>6, <1>7 DEF Next, Handle

(* every step keeps the invariant *)
LEMMA InvStep == IInv /\ [Next]_vars => IInv'
  BY TypeStep, MilestonesStep, PriceStep, FareStep DEF IInv

(* the invariant always holds *)
LEMMA InvAlways == Spec => []IInv
  BY InvInit, InvStep, PTL DEF Spec

(* However many clients search, refresh and book the offer, a handoff is at *)
(* the fare that its client was shown or carries the price warning, unless  *)
(* the search entry was overwritten or lost.                                *)
THEOREM NoSilentFare == Spec => []FareShownOrWarned
  <1>1. IInv => FareShownOrWarned
    BY DEF IInv
  <1> QED
    BY <1>1, InvAlways, PTL

(* Whatever fails, a committed handoff or flight is registered for its      *)
(* disruptions, and nobody is briefed about a handoff that is not there.    *)
THEOREM CommittedIsMonitored == Spec => []HandoffMonitored
  <1>1. IInv => HandoffMonitored
    BY DEF IInv, Milestones, HandoffMonitored
  <1> QED
    BY <1>1, InvAlways, PTL

-----------------------------------------------------------------------------
(***************************************************************************)
(* FlightSearch, for any number of requests and any expiries.  A search    *)
(* that times out and finds no stale entry must know why: HeardKept says   *)
(* that what the provider said last outlives StaleTtl unless Redis lost    *)
(* something, so a missing entry is an old one; Accounts carries that      *)
(* reason along wherever the empty envelope goes.                          *)
(***************************************************************************)

Envelopes == [at : Nat, from : {"none", "provider", "timeout"}]

Statuses == {"none", "fresh", "stale_fallback", "503"}

SearchTypes ==
    /\ now \in Nat
    /\ heard \in Nat
    /\ lost \in BOOLEAN
    /\ fresh \in [envelope : Envelopes, until : Nat]
    /\ stale \in [envelope : Envelopes, until : Nat]
    /\ search \in [Searches -> [step : {"idle", "asking", "built", "saved"},
                                envelope : Envelopes]]
    /\ answered \in [Searches -> [status : Statuses, envelope : Envelopes,
                                  at : Nat]]

(* an entry lives no longer than its envelope allows; what is built is new *)
EntriesExpire ==
    /\ fresh.until <= fresh.envelope.at + FreshTtl
    /\ stale.until <= stale.envelope.at + StaleTtl
    /\ heard <= now
    /\ \A s \in Searches :
        search[s].step \in {"built", "saved"} => search[s].envelope.at = now

(* without a loss, what the provider said last outlives StaleTtl *)
HeardKept == ~lost /\ heard # 0 => heard + StaleTtl <= stale.until

(* an envelope of the past whose emptiness has a reason *)
Accounted(e) ==
    /\ e.at <= now
    /\ e.from = "timeout" /\ ~lost /\ heard # 0 =>
        heard + StaleTtl <= e.at \/ heard >= e.at

Accounts ==
    /\ Accounted(fresh.envelope)
    /\ Accounted(stale.envelope)
    /\ \A s \in Searches :
        /\ Accounted(search[s].envelope)
        /\ Accounted(answered[s].envelope)

SearchInv ==
    /\ SearchTypes
    /\ EntriesExpire
    /\ HeardKept
    /\ Accounts
    /\ AnswersAreRecent

-----------------------------------------------------------------------------

(* the lifetimes are positive *)
LEMMA TtlsAreNat == FreshTtl \in Nat /\ StaleTtl \in Nat /\ FreshTtl > 0 /\ StaleTtl > 0
  <1>1. {FreshTtl, StaleTtl, MaxTime} \subseteq Nat \ {0}
    BY FlightSearchAssumption
  <1> QED
    BY <1>1

(* the invariant of the searches holds at the start *)
LEMMA SearchInvInit == SearchInit => SearchInv
  <1> SUFFICES ASSUME SearchInit PROVE SearchInv
    OBVIOUS
  <1> USE TtlsAreNat DEF SearchInit, Absent, Nowhere, Idle, NoAnswer
  <1>1. SearchTypes
    BY DEF SearchTypes, Envelopes, Statuses
  <1>2. EntriesExpire /\ HeardKept
    BY DEF EntriesExpire, HeardKept
  <1>3. Accounts /\ AnswersAreRecent
    BY DEF Accounts, Accounted, AnswersAreRecent
  <1> QED
    BY <1>1, <1>2, <1>3 DEF SearchInv

(* every step of a search keeps the types *)
LEMMA SearchTypesStep == SearchTypes /\ [SearchNext]_searchVars => SearchTypes'
  <1> SUFFICES ASSUME SearchTypes, [SearchNext]_searchVars PROVE SearchTypes'
    OBVIOUS
  <1> DEFINE Rows == [step : {"idle", "asking", "built", "saved"},
                      envelope : Envelopes]
             Said == [status : Statuses, envelope : Envelopes, at : Nat]
             Stored == [envelope : Envelopes, until : Nat]
  <1>a. Nowhere \in Envelopes
    BY DEF Nowhere, Envelopes
  <1>b. Idle \in Rows /\ Absent \in Stored
    BY <1>a DEF Idle, Absent
  <1>c. ASSUME NEW from \in {"provider", "timeout"}
        PROVE  [at |-> now, from |-> from] \in Envelopes
    BY DEF SearchTypes, Envelopes
  <1>d. ASSUME NEW s \in Searches, NEW status \in Statuses,
               NEW e \in Envelopes, Answer(s, status, e)
        PROVE  search' \in [Searches -> Rows] /\ answered' \in [Searches -> Said]
    <2>1. [status |-> status, envelope |-> e, at |-> now] \in Said
      BY DEF SearchTypes
    <2> QED
      BY <1>b, <1>d, <2>1 DEF Answer, SearchTypes
  <1>e. ASSUME NEW s \in Searches, NEW ttl \in {FreshTtl, StaleTtl}
        PROVE  Entry(s, ttl) \in Stored
    BY TtlsAreNat DEF Entry, SearchTypes
  <1>f. ASSUME NEW s \in Searches, NEW from \in {"provider", "timeout"},
               Build(s, from)
        PROVE  search' \in [Searches -> Rows]
    <2>1. [step |-> "built", envelope |-> [at |-> now, from |-> from]] \in Rows
      BY <1>c
    <2> QED
      BY <1>f, <2>1 DEF Build, SearchTypes
  <1>g. ASSUME NEW s \in Searches, NEW to \in {"asking", "saved"}
        PROVE  [search EXCEPT ![s].step = to] \in [Searches -> Rows]
    BY DEF SearchTypes
  <1>h. \A entry, found : Reads(entry, found) => lost' \in BOOLEAN
    BY DEF Reads, SearchTypes
  <1>i. fresh.envelope \in Envelopes /\ stale.envelope \in Envelopes
    BY DEF SearchTypes
  <1> USE DEF SearchTypes
  <1>1. ASSUME NEW s \in Searches, BeginSearch(s) PROVE SearchTypes'
    BY <1>1, <1>d, <1>g, <1>h, <1>i DEF BeginSearch, Statuses
  <1>2. ASSUME NEW s \in Searches, ProviderAnswers(s) PROVE SearchTypes'
    BY <1>2, <1>f DEF ProviderAnswers
  <1>3. ASSUME NEW s \in Searches, TimesOut(s) PROVE SearchTypes'
    BY <1>3, <1>d, <1>f, <1>h, <1>i DEF TimesOut, Statuses
  <1>4. ASSUME NEW s \in Searches, Fails(s) PROVE SearchTypes'
    BY <1>4, <1>a, <1>d, <1>h, <1>i DEF Fails, Statuses
  <1>5. ASSUME NEW s \in Searches, SaveFresh(s) PROVE SearchTypes'
    BY <1>5, <1>e, <1>g DEF SaveFresh
  <1>6. ASSUME NEW s \in Searches, SaveStale(s) PROVE SearchTypes'
    <2>1. search[s].envelope \in Envelopes
      OBVIOUS
    <2> QED
      BY <1>6, <2>1, <1>d, <1>e DEF SaveStale, Statuses
  <1>7. ASSUME NEW s \in Searches, Abandon(s) PROVE SearchTypes'
    BY <1>7, <1>b DEF Abandon
  <1>8. CASE Tick
    BY <1>8 DEF Tick
  <1>9. CASE Evict
    BY <1>9, <1>b DEF Evict
  <1>10. CASE MakeRanking
    BY <1>10 DEF MakeRanking
  <1>11. CASE UNCHANGED searchVars
    BY <1>11 DEF searchVars
  <1> QED
    BY <1>1, <1>2, <1>3, <1>4, <1>5, <1>6, <1>7, <1>8, <1>9, <1>10, <1>11
    DEF SearchNext

(* every step of a search keeps its invariant *)
LEMMA SearchInvStep == SearchInv /\ [SearchNext]_searchVars => SearchInv'
  <1> SUFFICES ASSUME SearchInv, [SearchNext]_searchVars PROVE SearchInv'
    OBVIOUS
  <1> DEFINE Claims == EntriesExpire /\ HeardKept /\ Accounts /\ AnswersAreRecent
  <1>0. SearchTypes /\ SearchTypes' /\ Claims
    BY SearchTypesStep DEF SearchInv
  <1> SUFFICES Claims'
    BY <1>0 DEF SearchInv
  <1> USE <1>0, TtlsAreNat DEF SearchTypes, Envelopes, EntriesExpire, HeardKept,
          Accounts, Accounted, AnswersAreRecent, Nowhere, Idle, Reads, Kept,
          Answer, Build, Entry, Absent
  <1>1. ASSUME NEW s \in Searches, BeginSearch(s) PROVE Claims'
    <2>1. CASE Reads(fresh, TRUE) /\ Answer(s, "fresh", fresh.envelope)
      BY <1>1, <2>1 DEF BeginSearch
    <2>2. CASE /\ Reads(fresh, FALSE)
               /\ search' = [search EXCEPT ![s].step = "asking"]
               /\ UNCHANGED answered
      BY <1>1, <2>2 DEF BeginSearch
    <2> QED
      BY <1>1, <2>1, <2>2 DEF BeginSearch
  <1>2. ASSUME NEW s \in Searches, ProviderAnswers(s) PROVE Claims'
    BY <1>2 DEF ProviderAnswers
  <1>3. ASSUME NEW s \in Searches, TimesOut(s) PROVE Claims'
    <2>1. CASE Reads(stale, TRUE) /\ Answer(s, "stale_fallback", stale.envelope)
      BY <1>3, <2>1 DEF TimesOut
    <2>2. CASE /\ Reads(stale, FALSE)
               /\ Build(s, "timeout")
               /\ UNCHANGED answered
      BY <1>3, <2>2 DEF TimesOut
    <2> QED
      BY <1>3, <2>1, <2>2 DEF TimesOut
  <1>4. ASSUME NEW s \in Searches, Fails(s) PROVE Claims'
    <2>1. CASE Reads(stale, TRUE) /\ Answer(s, "stale_fallback", stale.envelope)
      BY <1>4, <2>1 DEF Fails
    <2>2. CASE Reads(stale, FALSE) /\ Answer(s, "503", Nowhere)
      BY <1>4, <2>2 DEF Fails
    <2> QED
      BY <1>4, <2>1, <2>2 DEF Fails
  <1>5. ASSUME NEW s \in Searches, SaveFresh(s) PROVE Claims'
    BY <1>5 DEF SaveFresh
  <1>6. ASSUME NEW s \in Searches, SaveStale(s) PROVE Claims'
    BY <1>6 DEF SaveStale
  <1>7. ASSUME NEW s \in Searches, Abandon(s) PROVE Claims'
    BY <1>7 DEF Abandon
  <1>8. CASE Tick
    BY <1>8 DEF Tick
  <1>9. CASE Evict
    BY <1>9 DEF Evict
  <1>10. CASE MakeRanking
    BY <1>10 DEF MakeRanking
  <1>11. CASE UNCHANGED searchVars
    BY <1>11 DEF searchVars
  <1> QED
    BY <1>1, <1>2, <1>3, <1>4, <1>5, <1>6, <1>7, <1>8, <1>9, <1>10, <1>11
    DEF SearchNext

(* However many requests search and whatever Redis drops, an answer is no    *)
(* older than its status allows, and none is empty while offers of the       *)
(* provider that were kept within StaleTtl are still known.                  *)
THEOREM AnswersStayRecent == SearchSpec => []AnswersAreRecent
  <1>1. SearchInv => AnswersAreRecent
    BY DEF SearchInv
  <1> QED
    BY SearchInvInit, SearchInvStep, <1>1, PTL DEF SearchSpec

-----------------------------------------------------------------------------
(* a set of numbers has a least *)
LEMMA LeastNumber ==
  ASSUME NEW T, T # {}, T \subseteq Nat
  PROVE  \E n \in T : \A k \in T : n <= k
  <1>1. IsWellFoundedOn({ss \in Nat \X Nat : ss[1] < ss[2]}, Nat)
    BY NatLessThanWellFounded DEF OpToRel
  <1>2. PICK n \in T : \A k \in T : <<k, n>> \notin {ss \in Nat \X Nat : ss[1] < ss[2]}
    BY <1>1, WFMin
  <1>3. n \in Nat /\ \A k \in T : k \in Nat /\ ~(k < n)
    BY <1>2
  <1>4. \A k \in T : n <= k
    BY <1>3
  <1> QED
    BY <1>4

(* the pairs of a strict order on S *)
Ordering(S, R) ==
    /\ \A i \in S : <<i, i>> \notin R
    /\ \A i, j, k \in S : <<i, j>> \in R /\ <<j, k>> \in R => <<i, k>> \in R

(* how many of S come before each: more for what comes later *)
LEMMA Counted ==
  ASSUME NEW S, IsFiniteSet(S), NEW R, Ordering(S, R),
         NEW c, c = [i \in S |-> Cardinality({j \in S : <<j, i>> \in R})]
  PROVE  /\ Cardinality(S) \in Nat
         /\ \A i \in S : c[i] \in 0..(Cardinality(S) - 1)
         /\ \A i, j \in S : <<i, j>> \in R => c[i] < c[j]
  <1> DEFINE Pre(i) == {j \in S : <<j, i>> \in R}
  <1>1. Cardinality(S) \in Nat
    BY FS_CardinalityType
  <1>2. ASSUME NEW i \in S, NEW T \in SUBSET (S \ {i}), NEW U \in SUBSET S,
               T \cup {i} \subseteq U
        PROVE  /\ Cardinality(T) \in Nat /\ Cardinality(U) \in Nat
               /\ Cardinality(T) < Cardinality(U)
    <2>1. IsFiniteSet(T) /\ IsFiniteSet(U) /\ T \cup {i} \in SUBSET U
      BY <1>2, FS_Subset
    <2>2. Cardinality(T \cup {i}) = Cardinality(T) + 1
      BY <2>1, FS_AddElement
    <2>3. Cardinality(T \cup {i}) <= Cardinality(U)
      BY <2>1, FS_Subset
    <2>4. Cardinality(T) \in Nat /\ Cardinality(U) \in Nat
      BY <2>1, FS_CardinalityType
    <2> QED
      BY <2>2, <2>3, <2>4
  <1>3. ASSUME NEW i \in S
        PROVE  c[i] = Cardinality(Pre(i)) /\ c[i] \in 0..(Cardinality(S) - 1)
    <2>1. Pre(i) \in SUBSET (S \ {i}) /\ Pre(i) \cup {i} \subseteq S
      BY DEF Ordering
    <2>2. Cardinality(Pre(i)) \in Nat /\ Cardinality(Pre(i)) < Cardinality(S)
      <3> HIDE DEF Pre
      <3> QED
        BY <1>2, <2>1
    <2> QED
      BY <1>1, <2>2
  <1>4. ASSUME NEW i \in S, NEW j \in S, <<i, j>> \in R PROVE c[i] < c[j]
    <2>1. Pre(i) \in SUBSET (S \ {i}) /\ Pre(j) \in SUBSET S
      BY DEF Ordering
    <2>2. Pre(i) \cup {i} \subseteq Pre(j)
      BY <1>4 DEF Ordering
    <2>3. Cardinality(Pre(i)) < Cardinality(Pre(j))
      <3> HIDE DEF Pre
      <3> QED
        BY <1>2, <2>1, <2>2
    <2> QED
      BY <1>3, <2>3
  <1> QED
    <2> HIDE DEF Pre
    <2> QED
      BY <1>1, <1>3, <1>4

(* a strict order on a finite set has a first *)
LEMMA FirstOfOrder ==
  ASSUME NEW S, IsFiniteSet(S), S # {}, NEW R, Ordering(S, R)
  PROVE  \E i \in S : \A j \in S : <<j, i>> \notin R
  <1>1. PICK c : c = [i \in S |-> Cardinality({j \in S : <<j, i>> \in R})]
    OBVIOUS
  <1>2. /\ Cardinality(S) \in Nat
        /\ \A i \in S : c[i] \in 0..(Cardinality(S) - 1)
        /\ \A i, j \in S : <<i, j>> \in R => c[i] < c[j]
    BY <1>1, Counted
  <1>3. /\ \A i \in S : c[i] \in Nat
        /\ \A i, j \in S : <<i, j>> \in R => c[i] < c[j]
    BY <1>2
  <1>4. PICK n \in {c[i] : i \in S} : \A k \in {c[i] : i \in S} : n <= k
    BY <1>3, LeastNumber
  <1>5. PICK i \in S : n = c[i]
    BY <1>4
  <1>6. \A j \in S : c[i] <= c[j]
    BY <1>4, <1>5
  <1> QED
    BY <1>3, <1>6

(* the least and the greatest of finitely many integers *)
LEMMA LeastInteger ==
  ASSUME NEW S \in SUBSET Int, IsFiniteSet(S), S # {}
  PROVE  Min(S) \in S /\ \A n \in S : Min(S) <= n
  <1>1. PICK R : R = {p \in S \X S : p[1] < p[2]}
    OBVIOUS
  <1>2. \A i, j \in S : <<i, j>> \in R <=> i < j
    BY <1>1
  <1>3. Ordering(S, R)
    BY <1>2 DEF Ordering
  <1>4. PICK i \in S : \A j \in S : <<j, i>> \notin R
    BY <1>3, FirstOfOrder
  <1>5. \A j \in S : i <= j
    <2>1. \A j \in S : j \in Int /\ ~(j < i)
      BY <1>2, <1>4
    <2> QED
      BY <2>1
  <1>6. PICK m : m = Min(S)
    OBVIOUS
  <1>7. m \in S /\ \A j \in S : m <= j
    BY <1>5, <1>6 DEF Min
  <1> QED
    BY <1>6, <1>7

(* Max of a finite set of integers is its greatest element *)
LEMMA GreatestInteger ==
  ASSUME NEW S \in SUBSET Int, IsFiniteSet(S), S # {}
  PROVE  Max(S) \in S /\ \A n \in S : n <= Max(S)
  <1>1. PICK R : R = {p \in S \X S : p[1] > p[2]}
    OBVIOUS
  <1>2. \A i, j \in S : <<i, j>> \in R <=> i > j
    BY <1>1
  <1>3. Ordering(S, R)
    BY <1>2 DEF Ordering
  <1>4. PICK i \in S : \A j \in S : <<j, i>> \notin R
    BY <1>3, FirstOfOrder
  <1>5. \A j \in S : i >= j
    <2>1. \A j \in S : j \in Int /\ ~(j > i)
      BY <1>2, <1>4
    <2> QED
      BY <2>1
  <1>6. PICK m : m = Max(S)
    OBVIOUS
  <1>7. m \in S /\ \A j \in S : m >= j
    BY <1>5, <1>6 DEF Max
  <1>8. \A j \in S : j \in Int
    OBVIOUS
  <1> QED
    BY <1>6, <1>7, <1>8

-----------------------------------------------------------------------------
(* Keys are tuples of integers of one length, compared place by place.       *)
Keys(k) == [1..k -> Int]

(* Before is a strict order, and of two keys one is before the other *)
LEMMA BeforeIsAnOrder ==
  ASSUME NEW k \in Nat, NEW a \in Keys(k), NEW b \in Keys(k), NEW c \in Keys(k)
  PROVE  /\ ~Before(a, a)
         /\ Before(a, b) /\ Before(b, c) => Before(a, c)
         /\ a = b \/ Before(a, b) \/ Before(b, a)
  <1>1. ~Before(a, a)
    BY DEF Before, Keys
  <1>2. ASSUME Before(a, b), Before(b, c) PROVE Before(a, c)
    <2>1. PICK m \in 1..k : a[m] < b[m] /\ \A h \in 1..(m - 1) : a[h] = b[h]
      BY <1>2 DEF Before, Keys
    <2>2. PICK n \in 1..k : b[n] < c[n] /\ \A h \in 1..(n - 1) : b[h] = c[h]
      BY <1>2 DEF Before, Keys
    <2>3. \A h \in 1..k : a[h] \in Int /\ b[h] \in Int /\ c[h] \in Int
      BY DEF Keys
    <2>4. CASE m <= n
      <3>1. a[m] < c[m]
        BY <2>1, <2>2, <2>3, <2>4
      <3>2. \A h \in 1..(m - 1) : a[h] = c[h]
        BY <2>1, <2>2, <2>4
      <3> QED
        BY <3>1, <3>2 DEF Before, Keys
    <2>5. CASE n < m
      <3>1. a[n] < c[n]
        BY <2>1, <2>2, <2>3, <2>5
      <3>2. \A h \in 1..(n - 1) : a[h] = c[h]
        BY <2>1, <2>2, <2>5
      <3> QED
        BY <3>1, <3>2 DEF Before, Keys
    <2> QED
      BY <2>4, <2>5
  <1>3. ASSUME a # b PROVE Before(a, b) \/ Before(b, a)
    <2>1. PICK D : D = {n \in 1..k : a[n] # b[n]}
      OBVIOUS
    <2>2. D # {} /\ D \subseteq Nat
      <3>1. a = [n \in 1..k |-> a[n]] /\ b = [n \in 1..k |-> b[n]]
        BY DEF Keys
      <3>2. \E n \in 1..k : a[n] # b[n]
        BY <1>3, <3>1
      <3> QED
        BY <2>1, <3>2
    <2>3. PICK n \in D : \A m \in D : n <= m
      BY <2>2, LeastNumber
    <2>4. n \in 1..k /\ a[n] # b[n] /\ \A m \in 1..(n - 1) : a[m] = b[m]
      BY <2>1, <2>3
    <2>5. a[n] < b[n] \/ b[n] < a[n]
      BY <2>4 DEF Keys
    <2> QED
      BY <2>4, <2>5 DEF Before, Keys
  <1> QED
    BY <1>1, <1>2, <1>3

(* positions by their keys are in a strict order, and it is total *)
LEMMA PrecedesIsAnOrder ==
  ASSUME NEW k \in Nat, NEW at \in SUBSET Int, NEW key \in [at -> Keys(k)]
  PROVE  /\ \A i \in at : ~Precedes(key, i, i)
         /\ \A i, j, h \in at : Precedes(key, i, j) /\ Precedes(key, j, h)
                                   => Precedes(key, i, h)
         /\ \A i, j \in at : i = j \/ Precedes(key, i, j) \/ Precedes(key, j, i)
  <1>1. \A i \in at : i \in Int /\ key[i] \in Keys(k)
    OBVIOUS
  <1>2. ASSUME NEW i \in at PROVE ~Precedes(key, i, i)
    BY <1>1, BeforeIsAnOrder DEF Precedes
  <1>3. ASSUME NEW i \in at, NEW j \in at, NEW h \in at,
               Precedes(key, i, j), Precedes(key, j, h)
        PROVE  Precedes(key, i, h)
    <2>1. Before(key[i], key[j]) /\ Before(key[j], key[h])
             => Before(key[i], key[h])
      BY <1>1, BeforeIsAnOrder
    <2> QED
      BY <1>1, <1>3, <2>1 DEF Precedes
  <1>4. ASSUME NEW i \in at, NEW j \in at
        PROVE  i = j \/ Precedes(key, i, j) \/ Precedes(key, j, i)
    <2>1. key[i] = key[j] \/ Before(key[i], key[j]) \/ Before(key[j], key[i])
      BY <1>1, BeforeIsAnOrder
    <2> QED
      BY <1>1, <2>1 DEF Precedes
  <1> QED
    BY <1>2, <1>3, <1>4

(* min() finds a position that precedes all others *)
LEMMA LeastPrecedes ==
  ASSUME NEW k \in Nat, NEW at \in SUBSET Int, IsFiniteSet(at), at # {},
         NEW key \in [at -> Keys(k)]
  PROVE  /\ Least(at, key) \in at
         /\ \A j \in at : ~Before(key[j], key[Least(at, key)])
  <1>1. PICK R : R = {p \in at \X at : Precedes(key, p[1], p[2])}
    OBVIOUS
  <1>2. \A i, j \in at : <<i, j>> \in R <=> Precedes(key, i, j)
    BY <1>1
  <1>3. Ordering(at, R)
    BY <1>2, PrecedesIsAnOrder DEF Ordering
  <1>4. PICK i \in at : \A j \in at : <<j, i>> \notin R
    BY <1>3, FirstOfOrder
  <1>5. \A j \in at : i = j \/ Precedes(key, i, j)
    BY <1>2, <1>4, PrecedesIsAnOrder
  <1>6. PICK l : l = Least(at, key)
    OBVIOUS
  <1>7. l \in at /\ \A j \in at : l = j \/ Precedes(key, l, j)
    BY <1>5, <1>6 DEF Least
  <1>8. ASSUME NEW j \in at, Before(key[j], key[l]) PROVE FALSE
    BY <1>7, <1>8, PrecedesIsAnOrder DEF Precedes
  <1> QED
    BY <1>6, <1>7, <1>8

(* sorted() lists each position once, and none after one that it precedes *)
LEMMA SortedIsOrdered ==
  ASSUME NEW k \in Nat, NEW at \in SUBSET Int, IsFiniteSet(at),
         NEW key \in [at -> Keys(k)],
         NEW order, order = Sorted(at, key), NEW n, n = Cardinality(at)
  PROVE  /\ n \in Nat
         /\ order \in [1..n -> at]
         /\ \A i \in at : \E p \in 1..n : order[p] = i
         /\ \A p, q \in 1..n : /\ order[p] = order[q] => p = q
                               /\ p < q => ~Before(key[order[q]], key[order[p]])
  <1>1. PICK R : R = {p \in at \X at : Precedes(key, p[1], p[2])}
    OBVIOUS
  <1>2. \A i, j \in at : <<i, j>> \in R <=> Precedes(key, i, j)
    BY <1>1
  <1>3. Ordering(at, R)
    BY <1>2, PrecedesIsAnOrder DEF Ordering
  <1>4. PICK c : c = [i \in at |-> Cardinality({j \in at : <<j, i>> \in R})]
    OBVIOUS
  <1>5. /\ \A i \in at : c[i] \in 0..(n - 1)
        /\ \A i, j \in at : <<i, j>> \in R => c[i] < c[j]
    BY <1>3, <1>4, Counted
  <1>6. PICK place : place = [i \in at |-> c[i] + 1]
    OBVIOUS
  <1>7. n \in Nat
    BY FS_CardinalityType
  <1>8. /\ place \in [at -> 1..n]
        /\ \A i, j \in at : Precedes(key, i, j) => place[i] < place[j]
    <2>1. \A i \in at : c[i] \in 0..(n - 1) /\ place[i] = c[i] + 1
      BY <1>5, <1>6
    <2>2. \A i \in at : place[i] \in 1..n
      BY <1>7, <2>1
    <2>3. \A i, j \in at : Precedes(key, i, j) => c[i] < c[j]
      BY <1>2, <1>5
    <2>4. \A i, j \in at : Precedes(key, i, j) => place[i] < place[j]
      BY <1>7, <2>1, <2>3
    <2> QED
      BY <1>6, <2>2, <2>4
  <1>9. \A i, j \in at : place[i] = place[j] => i = j
    BY <1>8, <1>7, PrecedesIsAnOrder
  <1>10. \A p \in 1..n : \E i \in at : place[i] = p
    <2>1. IsFiniteSet(1..n) /\ Cardinality(1..n) = n
      BY <1>7, FS_Interval
    <2>2. place \in Injection(at, 1..n)
      BY <1>8, <1>9 DEF Injection, IsInjective
    <2>3. place \in Surjection(at, 1..n)
      BY <2>1, <2>2, FS_Injection
    <2> QED
      BY <2>3 DEF Surjection
  <1>11. order = [p \in 1..n |-> CHOOSE i \in at : place[i] = p]
    <2>1. place = [i \in at |-> Cardinality({j \in at : Precedes(key, j, i)}) + 1]
      <3>1. \A i \in at : {j \in at : <<j, i>> \in R} = {j \in at : Precedes(key, j, i)}
        BY <1>2
      <3>2. \A i \in at : c[i] = Cardinality({j \in at : Precedes(key, j, i)})
        BY <1>4, <3>1
      <3> QED
        BY <1>6, <3>2
    <2> QED
      BY <2>1 DEF Sorted
  <1>12. \A p \in 1..n : order[p] \in at /\ place[order[p]] = p
    BY <1>10, <1>11
  <1>13. order \in [1..n -> at]
    BY <1>11, <1>12
  <1>14. ASSUME NEW i \in at PROVE \E p \in 1..n : order[p] = i
    BY <1>8, <1>9, <1>12
  <1>15. ASSUME NEW p \in 1..n, NEW q \in 1..n, p < q,
                Before(key[order[q]], key[order[p]])
         PROVE  FALSE
    <2>1. place[order[q]] < place[order[p]]
      BY <1>8, <1>12, <1>15 DEF Precedes
    <2> QED
      BY <1>7, <1>12, <1>15, <2>1
  <1> QED
    BY <1>7, <1>12, <1>13, <1>14, <1>15

-----------------------------------------------------------------------------
(* shares of a range *)

(* the greater of two integers *)
LEMMA GreaterOfTwo ==
  ASSUME NEW a \in Int, NEW b \in Int
  PROVE  Max({a, b}) \in Int /\ Max({a, b}) = IF a >= b THEN a ELSE b
  <1>1. \E x \in {a, b} : \A y \in {a, b} : x >= y
    BY a >= b \/ b >= a
  <1>2. PICK m : m = Max({a, b})
    OBVIOUS
  <1>3. m \in {a, b} /\ \A y \in {a, b} : m >= y
    BY <1>1, <1>2 DEF Max
  <1> QED
    BY <1>2, <1>3

(* the values of one field, of finitely many offers *)
LEMMA ValuesBetween ==
  ASSUME NEW S, IsFiniteSet(S), S # {}, NEW f, \A o \in S : o[f] \in Int
  PROVE  /\ Min(Values(S, f)) \in Int /\ Max(Values(S, f)) \in Int
         /\ \A o \in S : Min(Values(S, f)) <= o[f] /\ o[f] <= Max(Values(S, f))
  <1>1. PICK V : V = Values(S, f)
    OBVIOUS
  <1>2. V = {o[f] : o \in S}
    BY <1>1 DEF Values
  <1>3. PICK g : g = [o \in S |-> o[f]]
    OBVIOUS
  <1>4. g \in Surjection(S, V)
    <2>1. g \in [S -> V]
      BY <1>2, <1>3
    <2>2. \A v \in V : \E o \in S : g[o] = v
      BY <1>2, <1>3
    <2> QED
      BY <2>1, <2>2 DEF Surjection
  <1>5. IsFiniteSet(V)
    BY <1>4, FS_Surjection
  <1>6. V \in SUBSET Int /\ V # {}
    BY <1>2
  <1>7. /\ Min(V) \in V /\ \A n \in V : Min(V) <= n
        /\ Max(V) \in V /\ \A n \in V : n <= Max(V)
    BY <1>5, <1>6, LeastInteger, GreatestInteger
  <1> QED
    BY <1>1, <1>2, <1>6, <1>7

(* a span is positive, and shares rise with the field *)
LEMMA SharesOfRange ==
  ASSUME NEW S, IsFiniteSet(S), S # {}, NEW f, \A o \in S : o[f] \in Int
  PROVE  /\ Span(S, f) \in Nat \ {0}
         /\ \A o \in S : /\ Above(S, o, f) \in Int /\ Below(S, o, f) \in Int
                         /\ Above(S, o, f) >= 0 /\ Below(S, o, f) >= 0
         /\ \A o, p \in S : /\ Above(S, p, f) - Above(S, o, f) = p[f] - o[f]
                            /\ Below(S, o, f) - Below(S, p, f) = p[f] - o[f]
  <1>1. PICK lo \in Int, hi \in Int : lo = Min(Values(S, f)) /\ hi = Max(Values(S, f))
    BY ValuesBetween
  <1>2. \A o \in S : o[f] \in Int /\ lo <= o[f] /\ o[f] <= hi
    BY <1>1, ValuesBetween
  <1>3. Span(S, f) = Max({hi - lo, 1})
    BY <1>1 DEF Span
  <1>4. Span(S, f) \in Nat \ {0}
    BY <1>3, GreaterOfTwo
  <1>5. \A o \in S : Above(S, o, f) = o[f] - lo /\ Below(S, o, f) = hi - o[f]
    BY <1>1 DEF Above, Below
  <1> QED
    BY <1>2, <1>4, <1>5

(* products of positive numbers, and the quotient of one by its factor *)
LEMMA ProductsGrow ==
  ASSUME NEW a \in Nat \ {0}, NEW b \in Nat \ {0}
  PROVE  a * b \in Nat \ {0} /\ a * b >= a /\ a * b >= b
  OBVIOUS

(* a number contains its factor at least once *)
LEMMA QuotientIsPositive ==
  ASSUME NEW a \in Nat \ {0}, NEW b \in Nat \ {0}, a >= b
  PROVE  a \div b \in Nat \ {0}
  OBVIOUS

(* a weighted share rises with the share *)
LEMMA WeighedRises ==
  ASSUME NEW w \in Nat \ {0}, NEW q \in Nat \ {0}, NEW a \in Int, NEW b \in Int
  PROVE  /\ w * a * q \in Int
         /\ a <= b => w * a * q <= w * b * q
         /\ a < b => w * a * q < w * b * q
  <1>1. w * q \in Nat \ {0}
    BY ProductsGrow
  <1>2. PICK c \in Nat \ {0} : c = w * q
    BY <1>1
  <1>3. w * a * q = c * a /\ w * b * q = c * b
    BY <1>2
  <1>4. /\ c * a \in Int
        /\ a <= b => c * a <= c * b
        /\ a < b => c * a < c * b
    OBVIOUS
  <1> QED
    BY <1>3, <1>4

-----------------------------------------------------------------------------
(* rankings *)

(* what is beaten in every factor has the greater penalty *)
LEMMA PenaltyRises ==
  ASSUME NEW S, IsFiniteSet(S), \A s \in S : \A f \in Factors : s[f] \in Int,
         NEW t \in S, NEW u \in S, NEW wish \in Wished
  PROVE  /\ Penalty(S, t, wish) \in Int
         /\ Dominates(t, u, Factors) => Penalty(S, t, wish) < Penalty(S, u, wish)
  <1> DEFINE spans == Span(S, "risk") * Span(S, "price") * Span(S, "duration")
                          * Span(S, "miss") * Span(S, "stops")
             Share(s, f) == Weight(f, wish) * Above(S, s, f) * (spans \div Span(S, f))
  <1>1. \A f \in Factors :
            /\ Span(S, f) \in Nat \ {0}
            /\ Above(S, t, f) \in Int /\ Above(S, u, f) \in Int
            /\ t[f] \in Int /\ u[f] \in Int
            /\ Above(S, u, f) - Above(S, t, f) = u[f] - t[f]
    BY SharesOfRange
  <1>2. spans \in Nat \ {0} /\ \A f \in Factors : spans >= Span(S, f)
    <2>1. PICK a \in Nat \ {0}, b \in Nat \ {0}, c \in Nat \ {0},
               d \in Nat \ {0}, e \in Nat \ {0} :
             /\ a = Span(S, "risk") /\ b = Span(S, "price") /\ c = Span(S, "duration")
             /\ d = Span(S, "miss") /\ e = Span(S, "stops")
      BY <1>1 DEF Factors
    <2>2. PICK ab \in Nat \ {0} : ab = a * b /\ ab >= a /\ ab >= b
      BY ProductsGrow
    <2>3. PICK abc \in Nat \ {0} : abc = ab * c /\ abc >= ab /\ abc >= c
      BY ProductsGrow
    <2>4. PICK abcd \in Nat \ {0} : abcd = abc * d /\ abcd >= abc /\ abcd >= d
      BY ProductsGrow
    <2>5. PICK all \in Nat \ {0} : all = abcd * e /\ all >= abcd /\ all >= e
      BY ProductsGrow
    <2>6. spans = all
      BY <2>1, <2>2, <2>3, <2>4, <2>5
    <2>7. all >= a /\ all >= b /\ all >= c /\ all >= d /\ all >= e
      BY <2>2, <2>3, <2>4, <2>5
    <2> QED
      BY <2>1, <2>6, <2>7 DEF Factors
  <1> HIDE DEF spans
  <1>3. \A f \in Factors : /\ Weight(f, wish) \in Nat \ {0}
                           /\ spans \div Span(S, f) \in Nat \ {0}
    <2>1. \A f \in Factors : Weight(f, wish) \in Nat \ {0}
      BY DEF Weight, Factors, Wished
    <2> QED
      BY <1>1, <1>2, <2>1, QuotientIsPositive
  <1>4. ASSUME NEW f \in Factors
        PROVE  /\ Share(t, f) \in Int /\ Share(u, f) \in Int
               /\ t[f] <= u[f] => Share(t, f) <= Share(u, f)
               /\ t[f] < u[f] => Share(t, f) < Share(u, f)
    <2>1. PICK w \in Nat \ {0}, q \in Nat \ {0}, a \in Int, b \in Int :
             /\ w = Weight(f, wish) /\ q = spans \div Span(S, f)
             /\ a = Above(S, t, f) /\ b = Above(S, u, f)
      BY <1>1, <1>3
    <2>2. Share(t, f) = w * a * q /\ Share(u, f) = w * b * q
      BY <2>1
    <2>3. /\ t[f] <= u[f] => a <= b
          /\ t[f] < u[f] => a < b
      BY <1>1, <2>1
    <2>4. /\ w * a * q \in Int /\ w * b * q \in Int
          /\ a <= b => w * a * q <= w * b * q
          /\ a < b => w * a * q < w * b * q
      BY WeighedRises
    <2> QED
      BY <2>2, <2>3, <2>4
  <1>5. /\ Penalty(S, t, wish) = Share(t, "risk") + Share(t, "price")
               + Share(t, "duration") + Share(t, "miss") + Share(t, "stops")
        /\ Penalty(S, u, wish) = Share(u, "risk") + Share(u, "price")
               + Share(u, "duration") + Share(u, "miss") + Share(u, "stops")
    BY DEF Penalty, spans
  <1> HIDE DEF Share
  <1>6. Penalty(S, t, wish) \in Int
    BY <1>4, <1>5 DEF Factors
  <1>7. ASSUME Dominates(t, u, Factors)
        PROVE  Penalty(S, t, wish) < Penalty(S, u, wish)
    <2>1. \A f \in Factors : Share(t, f) \in Int /\ Share(u, f) \in Int
                             /\ Share(t, f) <= Share(u, f)
      BY <1>4, <1>7 DEF Dominates
    <2>2. \E f \in Factors : Share(t, f) < Share(u, f)
      BY <1>4, <1>7 DEF Dominates
    <2> QED
      BY <1>5, <2>1, <2>2 DEF Factors
  <1> QED
    BY <1>6, <1>7

(* positions of a list are finitely many *)
LEMMA ListIs ==
  ASSUME NEW offers \in Lists
  PROVE  /\ Len(offers) \in Nat
         /\ DOMAIN offers = 1..Len(offers)
         /\ \A i \in DOMAIN offers : offers[i] \in Offered
         /\ \A i, j \in DOMAIN offers : offers[i].id = offers[j].id => i = j
         /\ \A at \in SUBSET (DOMAIN offers) :
                /\ IsFiniteSet(at) /\ at \in SUBSET Int
                /\ Cardinality(at) \in Nat /\ Cardinality(at) <= Len(offers)
  <1>1. offers \in Seq(Offered)
    BY DEF Lists
  <1>2. Len(offers) \in Nat /\ DOMAIN offers = 1..Len(offers)
    BY <1>1
  <1>3. \A i \in DOMAIN offers : offers[i] \in Offered
    BY <1>1
  <1>4. \A i, j \in DOMAIN offers : offers[i].id = offers[j].id => i = j
    BY DEF Lists
  <1>5. ASSUME NEW at \in SUBSET (DOMAIN offers)
        PROVE  /\ IsFiniteSet(at) /\ at \in SUBSET Int
               /\ Cardinality(at) \in Nat /\ Cardinality(at) <= Len(offers)
    <2>1. PICK n \in Nat : n = Len(offers)
      BY <1>2
    <2>2. IsFiniteSet(1..n) /\ Cardinality(1..n) = n
      BY FS_Interval
    <2>3. at \in SUBSET (1..n)
      BY <1>2, <2>1
    <2>4. at \in SUBSET Int
      BY <2>3
    <2>5. IsFiniteSet(at) /\ Cardinality(at) <= n
      BY <2>2, <2>3, FS_Subset
    <2>6. Cardinality(at) \in Nat
      BY <2>5, FS_CardinalityType
    <2> QED
      BY <2>1, <2>4, <2>5, <2>6
  <1> QED
    BY <1>2, <1>3, <1>4, <1>5

(* what is picked of a finite list of things is finite *)
LEMMA ThingsAreFinite ==
  ASSUME NEW at, IsFiniteSet(at), NEW g, NEW S, S = {g[i] : i \in at}
  PROVE  IsFiniteSet(S)
  <1>1. PICK h : h = [i \in at |-> g[i]]
    OBVIOUS
  <1>2. h \in Surjection(at, S)
    <2>1. h \in [at -> S]
      BY <1>1
    <2>2. \A s \in S : \E i \in at : h[i] = s
      BY <1>1
    <2> QED
      BY <2>1, <2>2 DEF Surjection
  <1> QED
    BY <1>2, FS_Surjection

(* the traits of an offer are integers *)
LEMMA TraitsAreIntegers ==
  ASSUME NEW o \in Offered, NEW wish \in Wished
  PROVE  \A f \in Factors : Traits(o, wish)[f] \in Int
  <1>1. PICK m \in Int : m = Max({0, o.arrives - wish.latest})
    <2>1. o.arrives - wish.latest \in Int
      BY DEF Offered, Wished
    <2> QED
      BY <2>1, GreaterOfTwo
  <1>2. Traits(o, wish) = [risk |-> o.risk, price |-> o.price, duration |-> o.duration,
                           miss |-> m, stops |-> o.stops]
    BY <1>1 DEF Traits
  <1> QED
    BY <1>2 DEF Factors, Offered

(* a ranking shows the offers at their positions, each once, and none       *)
(* behind another that it beats                                             *)
LEMMA RankingIsGood ==
  ASSUME NEW offers \in Lists, NEW wish \in Wished,
         NEW ranked, ranked = Ranked(offers, wish)
  PROVE  /\ ranked \in Lists
         /\ offers # <<>> => ranked # <<>>
         /\ RankedWell(offers, wish, ranked)
  <1>1. PICK at : at = Shown(offers, wish)
    OBVIOUS
  <1>2. at \in SUBSET (DOMAIN offers) /\ (DOMAIN offers # {} => at # {})
    BY <1>1 DEF Shown, Viable
  <1>3. PICK n \in Nat : n = Cardinality(at)
    BY <1>2, ListIs
  <1>4. at \in SUBSET Int /\ IsFiniteSet(at)
    BY <1>2, ListIs
  <1>5. PICK g : g = [i \in at |-> Traits(offers[i], wish)]
    OBVIOUS
  <1>6. PICK S : S = {Traits(offers[i], wish) : i \in at}
    OBVIOUS
  <1>7. \A i \in at : offers[i] \in Offered /\ g[i] = Traits(offers[i], wish) /\ g[i] \in S
    BY <1>2, <1>5, <1>6, ListIs
  <1>8. IsFiniteSet(S) /\ \A s \in S : \A f \in Factors : s[f] \in Int
    <2>1. S = {g[i] : i \in at}
      BY <1>5, <1>6
    <2>2. IsFiniteSet(S)
      BY <1>4, <2>1, ThingsAreFinite
    <2>3. \A i \in at : \A f \in Factors : g[i][f] \in Int
      BY <1>7, TraitsAreIntegers
    <2> QED
      BY <2>1, <2>2, <2>3
  <1>9. PICK key : key = [i \in at |-> <<Penalty(S, Traits(offers[i], wish), wish),
                                         offers[i].price, offers[i].arrives>>]
    OBVIOUS
  <1>10. \A i \in at : Penalty(S, g[i], wish) \in Int
    BY <1>7, <1>8, PenaltyRises
  <1>11. key \in [at -> Keys(3)]
    <2>1. ASSUME NEW i \in at PROVE key[i] \in Keys(3)
      <3>1. PICK a \in Int, b \in Int, c \in Int :
               a = Penalty(S, g[i], wish) /\ b = offers[i].price /\ c = offers[i].arrives
        BY <1>7, <1>10 DEF Offered
      <3>2. key[i] = <<a, b, c>>
        BY <1>7, <1>9, <3>1
      <3> QED
        BY <3>2 DEF Keys
    <2> QED
      BY <1>9, <2>1
  <1>12. PICK order : order = Sorted(at, key)
    OBVIOUS
  <1>13. /\ order \in [1..n -> at]
         /\ \A i \in at : \E p \in 1..n : order[p] = i
         /\ \A p, q \in 1..n : /\ order[p] = order[q] => p = q
                               /\ p < q => ~Before(key[order[q]], key[order[p]])
    BY <1>3, <1>4, <1>11, <1>12, SortedIsOrdered
  <1>14. ranked = [p \in 1..n |-> offers[order[p]]]
    BY <1>1, <1>3, <1>6, <1>9, <1>12 DEF Ranked
  <1>15. \A p \in 1..n : order[p] \in at /\ ranked[p] = offers[order[p]]
    BY <1>13, <1>14
  <1>16. ranked \in Seq(Offered) /\ Len(ranked) = n /\ DOMAIN ranked = 1..n
    <2>1. ranked \in [1..n -> Offered]
      BY <1>7, <1>14, <1>15
    <2> QED
      BY <2>1
  <1>17. \A p, q \in DOMAIN ranked : ranked[p].id = ranked[q].id => p = q
    BY <1>2, <1>13, <1>15, <1>16, ListIs
  <1>18. ranked \in Lists
    BY <1>16, <1>17 DEF Lists
  <1>19. offers # <<>> => ranked # <<>>
    <2>1. ASSUME offers # <<>> PROVE ranked # <<>>
      <3>1. DOMAIN offers # {}
        BY <2>1 DEF Lists
      <3>2. PICK i : i \in at
        BY <1>2, <3>1
      <3>3. \E p \in 1..n : order[p] = i
        BY <1>13, <3>2
      <3> QED
        BY <1>16, <3>3
    <2> QED
      BY <2>1
  <1>20. Ids(ranked) = {offers[i].id : i \in at}
    <2>1. \A p \in 1..n : ranked[p].id = offers[order[p]].id
      BY <1>15
    <2> QED
      BY <1>13, <1>15, <1>16, <2>1 DEF Ids
  <1>21. ASSUME NEW p \in 1..n, NEW q \in 1..n, p < q,
                Dominates(Traits(ranked[q], wish), Traits(ranked[p], wish), Factors)
         PROVE  FALSE
    <2>1. PICK i \in at, j \in at : i = order[p] /\ j = order[q]
      BY <1>13
    <2>2. Dominates(g[j], g[i], Factors)
      BY <1>7, <1>15, <1>21, <2>1
    <2>3. Penalty(S, g[j], wish) < Penalty(S, g[i], wish)
      BY <1>7, <1>8, <2>2, PenaltyRises
    <2>4. key[j][1] < key[i][1] /\ DOMAIN key[j] = 1..3
      BY <1>7, <1>9, <2>3
    <2>5. Before(key[j], key[i])
      BY <2>4 DEF Before
    <2> QED
      BY <1>13, <1>21, <2>1, <2>5
  <1> QED
    BY <1>1, <1>16, <1>17, <1>18, <1>19, <1>20, <1>21 DEF RankedWell

-----------------------------------------------------------------------------
(* envelopes *)

(* the best value is of the short cards, and none of them beats it *)
LEMMA BestValueIsGood ==
  ASSUME NEW cards \in Lists, cards # <<>>, NEW b, b = BestValue(cards)
  PROVE  /\ b \in Short(cards) /\ b \in DOMAIN cards
         /\ \A i \in Short(cards) :
                ~Dominates(cards[i], cards[b], {"price", "duration"})
  <1>1. PICK at : at = Short(cards)
    OBVIOUS
  <1>2. at \in SUBSET (DOMAIN cards) /\ at # {}
    <2>1. DOMAIN cards # {}
      BY DEF Lists
    <2> QED
      BY <1>1, <2>1 DEF Short
  <1>3. IsFiniteSet(at) /\ at \in SUBSET Int
    BY <1>2, ListIs
  <1>4. PICK S : S = {cards[i] : i \in at}
    OBVIOUS
  <1>5. IsFiniteSet(S) /\ S # {}
    BY <1>2, <1>3, <1>4, ThingsAreFinite
  <1>6. /\ \A i \in at : cards[i] \in S /\ cards[i] \in Offered
        /\ \A s \in S : s["price"] \in Int /\ s["duration"] \in Int
    <2>1. \A i \in at : cards[i] \in Offered
      BY <1>2, ListIs
    <2> QED
      BY <1>4, <2>1 DEF Offered
  <1>7. PICK p \in Nat \ {0}, d \in Nat \ {0} :
           /\ p = Max({Min(Values(S, "price")), 1})
           /\ d = Max({Min(Values(S, "duration")), 1})
    <2>1. Min(Values(S, "price")) \in Int /\ Min(Values(S, "duration")) \in Int
      BY <1>5, <1>6, ValuesBetween
    <2>2. \A n \in Int : Max({n, 1}) \in Nat \ {0}
      BY GreaterOfTwo
    <2> QED
      BY <2>1, <2>2
  <1>8. PICK key : key = [i \in at |->
            <<65 * Above(S, cards[i], "price") * d
                + 35 * Above(S, cards[i], "duration") * p, cards[i].stops>>]
    OBVIOUS
  <1>9. \A i, j \in at :
           /\ Above(S, cards[i], "price") \in Int /\ Above(S, cards[i], "duration") \in Int
           /\ Above(S, cards[j], "price") - Above(S, cards[i], "price")
                = cards[j].price - cards[i].price
           /\ Above(S, cards[j], "duration") - Above(S, cards[i], "duration")
                = cards[j].duration - cards[i].duration
    BY <1>5, <1>6, SharesOfRange
  <1>10. key \in [at -> Keys(2)]
    <2>1. ASSUME NEW i \in at PROVE key[i] \in Keys(2)
      <3>1. PICK x \in Int, y \in Int : /\ x = Above(S, cards[i], "price")
                                        /\ y = Above(S, cards[i], "duration")
        BY <1>9
      <3>2. 65 * x * d \in Int /\ 35 * y * p \in Int
        BY WeighedRises
      <3>3. PICK s \in Int, t \in Int : s = 65 * x * d + 35 * y * p /\ t = cards[i].stops
        BY <1>6, <3>2 DEF Offered
      <3>4. key[i] = <<s, t>>
        BY <1>8, <3>1, <3>3
      <3> QED
        BY <3>4 DEF Keys
    <2> QED
      BY <1>8, <2>1
  <1>11. b = Least(at, key)
    BY <1>1, <1>4, <1>7, <1>8 DEF BestValue
  <1>12. b \in at /\ \A i \in at : ~Before(key[i], key[b])
    BY <1>2, <1>3, <1>10, <1>11, LeastPrecedes
  <1>13. ASSUME NEW i \in at, Dominates(cards[i], cards[b], {"price", "duration"})
         PROVE  FALSE
    <2>1. PICK x \in Int, y \in Int, v \in Int, w \in Int :
             /\ x = Above(S, cards[i], "price") /\ y = Above(S, cards[i], "duration")
             /\ v = Above(S, cards[b], "price") /\ w = Above(S, cards[b], "duration")
      BY <1>9, <1>12
    <2>2. /\ cards[i].price \in Int /\ cards[i].duration \in Int
          /\ cards[b].price \in Int /\ cards[b].duration \in Int
      BY <1>6, <1>12 DEF Offered
    <2>3. /\ cards[i].price <= cards[b].price /\ cards[i].duration <= cards[b].duration
          /\ cards[i].price < cards[b].price \/ cards[i].duration < cards[b].duration
      BY <1>13 DEF Dominates
    <2>4. x <= v /\ y <= w /\ (x < v \/ y < w)
      <3>1. /\ v - x = cards[b].price - cards[i].price
            /\ w - y = cards[b].duration - cards[i].duration
        BY <1>9, <1>12, <2>1
      <3>2. PICK k \in Int, l \in Int, m \in Int, n \in Int :
               /\ k = cards[i].price /\ l = cards[b].price
               /\ m = cards[i].duration /\ n = cards[b].duration
        BY <2>2
      <3> QED
        BY <2>3, <3>1, <3>2
    <2>5. /\ 65 * x * d \in Int /\ 35 * y * p \in Int
          /\ 65 * v * d \in Int /\ 35 * w * p \in Int
          /\ 65 * x * d <= 65 * v * d /\ 35 * y * p <= 35 * w * p
          /\ 65 * x * d < 65 * v * d \/ 35 * y * p < 35 * w * p
      BY <2>4, WeighedRises
    <2>6. 65 * x * d + 35 * y * p < 65 * v * d + 35 * w * p
      BY <2>5
    <2>7. key[i][1] < key[b][1] /\ DOMAIN key[i] = 1..2
      BY <1>8, <1>12, <2>1, <2>6
    <2> QED
      BY <1>12, <2>7 DEF Before
  <1> QED
    BY <1>1, <1>2, <1>12, <1>13

(* the fastest and the cheapest of any positions *)
LEMMA QuickestIsGood ==
  ASSUME NEW cards \in Lists, NEW at \in SUBSET (DOMAIN cards), at # {}
  PROVE  /\ Fastest(cards, at) \in at
         /\ \A i \in at : cards[Fastest(cards, at)].duration <= cards[i].duration
  <1>1. PICK key : key = [i \in at |-> <<cards[i].duration, cards[i].stops>>]
    OBVIOUS
  <1>2. \A i \in at : cards[i].duration \in Int /\ cards[i].stops \in Int
    BY ListIs DEF Offered
  <1>3. key \in [at -> Keys(2)]
    BY <1>1, <1>2 DEF Keys
  <1>4. PICK l : l = Fastest(cards, at)
    OBVIOUS
  <1>5. l = Least(at, key)
    BY <1>1, <1>4 DEF Fastest
  <1>6. l \in at /\ \A i \in at : ~Before(key[i], key[l])
    BY <1>3, <1>5, ListIs, LeastPrecedes
  <1>7. ASSUME NEW i \in at, cards[i].duration < cards[l].duration PROVE FALSE
    <2>1. key[i][1] < key[l][1] /\ DOMAIN key[i] = 1..2
      BY <1>1, <1>6, <1>7
    <2> QED
      BY <1>6, <2>1 DEF Before
  <1> QED
    BY <1>2, <1>4, <1>6, <1>7

(* as QuickestIsGood, for the price *)
LEMMA CheapestIsGood ==
  ASSUME NEW cards \in Lists, NEW at \in SUBSET (DOMAIN cards), at # {}
  PROVE  /\ Cheapest(cards, at) \in at
         /\ \A i \in at : cards[Cheapest(cards, at)].price <= cards[i].price
  <1>1. PICK key : key = [i \in at |-> <<cards[i].price>>]
    OBVIOUS
  <1>2. \A i \in at : cards[i].price \in Int
    BY ListIs DEF Offered
  <1>3. key \in [at -> Keys(1)]
    BY <1>1, <1>2 DEF Keys
  <1>4. PICK l : l = Cheapest(cards, at)
    OBVIOUS
  <1>5. l = Least(at, key)
    BY <1>1, <1>4 DEF Cheapest
  <1>6. l \in at /\ \A i \in at : ~Before(key[i], key[l])
    BY <1>3, <1>5, ListIs, LeastPrecedes
  <1>7. ASSUME NEW i \in at, cards[i].price < cards[l].price PROVE FALSE
    <2>1. key[i][1] < key[l][1] /\ DOMAIN key[i] = 1..1
      BY <1>1, <1>6, <1>7
    <2> QED
      BY <1>6, <2>1 DEF Before
  <1> QED
    BY <1>2, <1>4, <1>6, <1>7

(* how many of three things there are *)
LEMMA CountOfThree ==
  ASSUME NEW x, NEW y, NEW z
  PROVE  /\ Cardinality({x}) = 1
         /\ x # y => Cardinality({x, y}) = 2
         /\ x # y /\ x # z /\ y # z => Cardinality({x, y, z}) = 3
  <1>1. IsFiniteSet({x}) /\ Cardinality({x}) = 1
    BY FS_Singleton
  <1>2. /\ IsFiniteSet({x} \cup {y})
        /\ x # y => Cardinality({x} \cup {y}) = 2
    <2>1. Cardinality({x} \cup {y}) = IF y \in {x} THEN Cardinality({x})
                                                  ELSE Cardinality({x}) + 1
      BY <1>1, FS_AddElement
    <2>2. IsFiniteSet({x} \cup {y})
      BY <1>1, FS_AddElement
    <2> QED
      BY <1>1, <2>1, <2>2
  <1>3. ({x} \cup {y}) = {x, y} /\ ({x, y} \cup {z}) = {x, y, z}
    OBVIOUS
  <1>4. x # y /\ x # z /\ y # z => Cardinality({x, y, z}) = 3
    <2>1. Cardinality({x, y} \cup {z}) = IF z \in {x, y} THEN Cardinality({x, y})
                                                      ELSE Cardinality({x, y}) + 1
      BY <1>2, <1>3, FS_AddElement
    <2> QED
      BY <1>2, <1>3, <2>1
  <1> QED
    BY <1>1, <1>2, <1>3, <1>4

(* of one or more cards, all but those that were used, if there are any     *)
LEMMA UnusedIs ==
  ASSUME NEW cards \in Lists, cards # <<>>, NEW used,
         NEW U, U = Unused(cards, used)
  PROVE  /\ U \in SUBSET (DOMAIN cards) /\ U # {}
         /\ \A i \in DOMAIN cards : i \notin U => cards[i].id \in used
         /\ (\E i \in DOMAIN cards : cards[i].id \notin used)
               => \A i \in U : cards[i].id \notin used
  <1>1. DOMAIN cards # {}
    BY DEF Lists
  <1> QED
    BY <1>1 DEF Unused

(* the lesser of a length and three *)
LEMMA LesserOfThree ==
  ASSUME NEW n \in Nat
  PROVE  Min({n, 3}) = IF n <= 3 THEN n ELSE 3
  <1>1. \E x \in {n, 3} : \A y \in {n, 3} : x <= y
    BY n <= 3 \/ 3 <= n
  <1>2. PICK m : m = Min({n, 3})
    OBVIOUS
  <1>3. m \in {n, 3} /\ \A y \in {n, 3} : m <= y
    BY <1>1, <1>2 DEF Min
  <1> QED
    BY <1>2, <1>3

(* the cards of an envelope: as many as there can be, and none is beaten    *)
LEMMA EnvelopeIsGood ==
  ASSUME NEW cards \in Lists, cards # <<>>
  PROVE  PickedWell(cards, Envelope(cards))
  <1>1. PICK b : b = BestValue(cards)
    OBVIOUS
  <1>2. PICK U : U = Unused(cards, {cards[b].id})
    OBVIOUS
  <1>3. PICK f : f = Fastest(cards, U)
    OBVIOUS
  <1>4. PICK V : V = Unused(cards, {cards[b].id, cards[f].id})
    OBVIOUS
  <1>5. PICK c : c = Cheapest(cards, V)
    OBVIOUS
  <1>6. PICK env : env = Envelope(cards)
    OBVIOUS
  <1>7. env.best = cards[b] /\ env.fastest = cards[f] /\ env.cheapest = cards[c]
    BY <1>1, <1>2, <1>3, <1>4, <1>5, <1>6 DEF Envelope
  <1>8. /\ b \in DOMAIN cards /\ b \in Short(cards)
        /\ \A i \in Short(cards) :
               ~Dominates(cards[i], cards[b], {"price", "duration"})
    BY <1>1, BestValueIsGood
  <1>9. /\ U \in SUBSET (DOMAIN cards) /\ U # {}
        /\ \A i \in DOMAIN cards : i \notin U => cards[i].id \in {cards[b].id}
        /\ (\E i \in DOMAIN cards : cards[i].id \notin {cards[b].id})
              => \A i \in U : cards[i].id \notin {cards[b].id}
    BY <1>2, UnusedIs
  <1>10. /\ f \in U /\ f \in DOMAIN cards
         /\ \A i \in U : cards[f].duration <= cards[i].duration
    BY <1>3, <1>9, QuickestIsGood
  <1>11. /\ V \in SUBSET (DOMAIN cards) /\ V # {}
         /\ \A i \in DOMAIN cards : i \notin V
               => cards[i].id \in {cards[b].id, cards[f].id}
         /\ (\E i \in DOMAIN cards : cards[i].id \notin {cards[b].id, cards[f].id})
               => \A i \in V : cards[i].id \notin {cards[b].id, cards[f].id}
    BY <1>4, UnusedIs
  <1>12. /\ c \in V /\ c \in DOMAIN cards
         /\ \A i \in V : cards[c].price <= cards[i].price
    BY <1>5, <1>11, CheapestIsGood
  <1>13. PICK n \in Nat : n = Len(cards) /\ DOMAIN cards = 1..n
    BY ListIs
  <1>14. \A i, j \in 1..n : cards[i].id = cards[j].id => i = j
    BY <1>13, ListIs
  <1>15. \A i \in 1..n : cards[i].price \in Int /\ cards[i].duration \in Int
    BY <1>13, ListIs DEF Offered
  <1>16. Cardinality({env.best.id, env.fastest.id, env.cheapest.id}) = Min({Len(cards), 3})
    <2>1. PICK x, y, z : x = cards[b].id /\ y = cards[f].id /\ z = cards[c].id
      OBVIOUS
    <2>2. n >= 1
      BY <1>8, <1>13
    <2>3. n >= 2 => x # y
      <3>1. n >= 2 => 1 \in 1..n /\ 2 \in 1..n
        OBVIOUS
      <3>2. n >= 2 => \E i \in 1..n : i # b
        BY <3>1
      <3> QED
        BY <1>8, <1>9, <1>10, <1>13, <1>14, <2>1, <3>2
    <2>4. n >= 3 => x # z /\ y # z
      <3>1. n >= 3 => 1 \in 1..n /\ 2 \in 1..n /\ 3 \in 1..n
        OBVIOUS
      <3>2. n >= 3 => \E i \in 1..n : i # b /\ i # f
        <4>1. (1 # b /\ 1 # f) \/ (2 # b /\ 2 # f) \/ (3 # b /\ 3 # f)
          OBVIOUS
        <4> QED
          BY <3>1, <4>1
      <3> QED
        BY <1>8, <1>10, <1>11, <1>12, <1>13, <1>14, <2>1, <3>2
    <2>5. Cardinality({x, y, z}) = IF n <= 3 THEN n ELSE 3
      <3>1. CASE n = 1
        <4>1. b = 1 /\ f = 1 /\ c = 1
          BY <1>8, <1>10, <1>12, <1>13, <3>1
        <4>2. {x, y, z} = {x}
          BY <2>1, <4>1
        <4>3. Cardinality({x}) = 1
          BY CountOfThree
        <4>4. Cardinality({x, y, z}) = 1
          BY <4>2, <4>3
        <4> QED
          BY <3>1, <4>4
      <3>2. CASE n = 2
        <4>1. b # f /\ {b, f, c} \subseteq {1, 2}
          BY <1>8, <1>10, <1>12, <1>13, <2>1, <2>3, <3>2
        <4>2. c = b \/ c = f
          BY <4>1
        <4>3. {x, y, z} = {x, y}
          BY <2>1, <4>2
        <4>4. x # y
          BY <2>3, <3>2
        <4>5. Cardinality({x, y}) = 2
          BY <4>4, CountOfThree
        <4>6. Cardinality({x, y, z}) = 2
          BY <4>3, <4>5
        <4> QED
          BY <3>2, <4>6
      <3>3. CASE n >= 3
        <4>1. x # y /\ x # z /\ y # z
          BY <2>3, <2>4, <3>3
        <4>2. Cardinality({x, y, z}) = 3
          BY <4>1, CountOfThree
        <4> QED
          BY <3>3, <4>2
      <3> QED
        BY <2>2, <3>1, <3>2, <3>3
    <2> QED
      BY <1>7, <1>13, <2>1, <2>5, LesserOfThree
  <1>17. ASSUME NEW o \in Range(cards)
         PROVE  /\ (o.duration <= Hours(8) \/ env.best.duration > Hours(8)) =>
                      ~Dominates(o, env.best, {"price", "duration"})
                /\ o.duration < env.fastest.duration => o = env.best
                /\ o.price < env.cheapest.price => o \in {env.best, env.fastest}
    <2>1. PICK i \in 1..n : o = cards[i]
      BY <1>13 DEF Range
    <2>2. (o.duration <= Hours(8) \/ env.best.duration > Hours(8)) => i \in Short(cards)
      <3>1. \A d \in Int : ~(d <= Hours(8) /\ d > Hours(8))
        BY DEF Hours
      <3> QED
        BY <1>7, <1>8, <1>13, <1>15, <2>1, <3>1 DEF Short
    <2>3. o.duration < env.fastest.duration => i = b
      <3>1. i \in U => ~(cards[i].duration < cards[f].duration)
        BY <1>10, <1>13, <1>15
      <3> QED
        BY <1>7, <1>8, <1>9, <1>13, <1>14, <2>1, <3>1
    <2>4. o.price < env.cheapest.price => i \in {b, f}
      <3>1. i \in V => ~(cards[i].price < cards[c].price)
        BY <1>12, <1>13, <1>15
      <3> QED
        BY <1>7, <1>8, <1>10, <1>11, <1>13, <1>14, <2>1, <3>1
    <2> QED
      BY <1>7, <1>8, <2>1, <2>2, <2>3, <2>4
  <1> QED
    BY <1>6, <1>16, <1>17 DEF PickedWell

-----------------------------------------------------------------------------
(* rebooking options *)

Bettered(offers, i, j) == Dominates(offers[i], offers[j], {"arrives", "price"})

(* a lesser first place, or the same and a lesser second one *)
LEMMA PairsBefore ==
  ASSUME NEW a \in Int, NEW b \in Int, NEW c \in Int, NEW d \in Int,
         a < c \/ (a = c /\ b < d)
  PROVE  Before(<<a, b>>, <<c, d>>)
  <1>1. DOMAIN <<a, b>> = 1..2
    OBVIOUS
  <1>2. CASE a < c
    <2>1. 1 \in DOMAIN <<a, b>> /\ <<a, b>>[1] < <<c, d>>[1]
      BY <1>2
    <2>2. \A m \in 1..(1 - 1) : <<a, b>>[m] = <<c, d>>[m]
      OBVIOUS
    <2> QED
      BY <2>1, <2>2 DEF Before
  <1>3. CASE a = c /\ b < d
    <2>1. 2 \in DOMAIN <<a, b>> /\ <<a, b>>[2] < <<c, d>>[2]
      BY <1>3
    <2>2. \A m \in 1..(2 - 1) : <<a, b>>[m] = <<c, d>>[m]
      BY <1>3
    <2> QED
      BY <2>1, <2>2 DEF Before
  <1> QED
    BY <1>2, <1>3

(* the least by two fields, one after the other *)
LEMMA LeastOfPairs ==
  ASSUME NEW offers \in Lists, NEW at \in SUBSET (DOMAIN offers), at # {},
         NEW x \in [at -> Int], NEW y \in [at -> Int],
         NEW l, l = Least(at, [i \in at |-> <<x[i], y[i]>>])
  PROVE  /\ l \in at
         /\ \A i \in at : x[l] <= x[i] /\ (x[l] = x[i] => y[l] <= y[i])
  <1>1. PICK key : key = [i \in at |-> <<x[i], y[i]>>]
    OBVIOUS
  <1>2. key \in [at -> Keys(2)]
    <2>1. ASSUME NEW i \in at PROVE key[i] \in Keys(2)
      <3>1. key[i] = <<x[i], y[i]>> /\ x[i] \in Int /\ y[i] \in Int
        BY <1>1
      <3> QED
        BY <3>1 DEF Keys
    <2> QED
      BY <1>1, <2>1
  <1>3. l = Least(at, key)
    BY <1>1
  <1>4. l \in at /\ \A i \in at : ~Before(key[i], key[l])
    <2>1. IsFiniteSet(at) /\ at \in SUBSET Int
      BY ListIs
    <2> QED
      BY <1>2, <1>3, <2>1, LeastPrecedes
  <1>5. ASSUME NEW i \in at PROVE x[l] <= x[i] /\ (x[l] = x[i] => y[l] <= y[i])
    <2>1. x[l] \in Int /\ x[i] \in Int /\ y[l] \in Int /\ y[i] \in Int
      BY <1>4
    <2>2. /\ key[i] = <<x[i], y[i]>> /\ key[l] = <<x[l], y[l]>>
      BY <1>1, <1>4
    <2>3. ~Before(<<x[i], y[i]>>, <<x[l], y[l]>>)
      BY <1>4, <2>2
    <2>4. ~(x[i] < x[l])
      BY <2>1, <2>3, PairsBefore
    <2>5. ~(x[i] = x[l] /\ y[i] < y[l])
      BY <2>1, <2>3, PairsBefore
    <2> QED
      BY <2>1, <2>4, <2>5
  <1> QED
    BY <1>4, <1>5

(* the recommended offer is not beaten in arrival and price *)
LEMMA RecommendedIsGood ==
  ASSUME NEW offers \in Lists, NEW at \in SUBSET (DOMAIN offers), at # {},
         NEW r, r = Recommended(offers, at)
  PROVE  r \in at /\ \A i \in at : ~Bettered(offers, i, r)
  <1>1. PICK S : S = {offers[i] : i \in at}
    OBVIOUS
  <1>2. \A i \in at : offers[i] \in Offered /\ offers[i] \in S
    BY <1>1, ListIs
  <1>3. IsFiniteSet(S) /\ S # {}
    <2>1. IsFiniteSet(at)
      BY ListIs
    <2> QED
      BY <1>1, <2>1, ThingsAreFinite
  <1>4. \A s \in S : s["arrives"] \in Int /\ s["price"] \in Int
    BY <1>1, <1>2 DEF Offered
  <1>5. PICK p \in Nat \ {0}, a \in Nat \ {0} :
           p = Span(S, "price") /\ a = Span(S, "arrives")
    BY <1>3, <1>4, SharesOfRange
  <1>6. \A i, j \in at :
           /\ Below(S, offers[i], "price") \in Int /\ Below(S, offers[i], "arrives") \in Int
           /\ Below(S, offers[i], "price") - Below(S, offers[j], "price")
                = offers[j].price - offers[i].price
           /\ Below(S, offers[i], "arrives") - Below(S, offers[j], "arrives")
                = offers[j].arrives - offers[i].arrives
    BY <1>2, <1>3, <1>4, SharesOfRange
  <1>7. PICK x : x = [i \in at |-> -BalancedScore(S, offers[i])]
    OBVIOUS
  <1>8. PICK y : y = [i \in at |-> offers[i].price]
    OBVIOUS
  <1>9. ASSUME NEW i \in at
        PROVE  /\ x[i] = -(6 * Below(S, offers[i], "arrives") * p
                            + 4 * Below(S, offers[i], "price") * a)
               /\ x[i] \in Int
    <2>1. PICK b \in Int, c \in Int : /\ b = Below(S, offers[i], "arrives")
                                      /\ c = Below(S, offers[i], "price")
      BY <1>6
    <2>2. 6 * b * p \in Int /\ 4 * c * a \in Int
      BY WeighedRises
    <2>3. x[i] = -(6 * b * p + 4 * c * a)
      BY <1>5, <1>7, <2>1 DEF BalancedScore
    <2> QED
      BY <2>1, <2>2, <2>3
  <1>10. x \in [at -> Int] /\ y \in [at -> Int]
    BY <1>2, <1>7, <1>8, <1>9 DEF Offered
  <1>11. r = Least(at, [i \in at |-> <<x[i], y[i]>>])
    <2>1. [i \in at |-> <<x[i], y[i]>>]
            = [i \in at |-> <<-BalancedScore(S, offers[i]), offers[i].price>>]
      BY <1>7, <1>8
    <2> QED
      BY <1>1, <2>1 DEF Recommended
  <1>12. r \in at /\ \A i \in at : x[r] <= x[i]
    BY <1>10, <1>11, LeastOfPairs
  <1>13. ASSUME NEW i \in at, Bettered(offers, i, r) PROVE FALSE
    <2>1. PICK b \in Int, c \in Int, d \in Int, e \in Int :
             /\ b = Below(S, offers[i], "arrives") /\ c = Below(S, offers[i], "price")
             /\ d = Below(S, offers[r], "arrives") /\ e = Below(S, offers[r], "price")
      BY <1>6, <1>12
    <2>2. PICK k \in Int, l \in Int, m \in Int, n \in Int :
             /\ k = offers[i].arrives /\ l = offers[r].arrives
             /\ m = offers[i].price /\ n = offers[r].price
      BY <1>2, <1>12 DEF Offered
    <2>3. b - d = l - k /\ c - e = n - m
      BY <1>6, <1>12, <2>1, <2>2
    <2>4. k <= l /\ m <= n /\ (k < l \/ m < n)
      BY <1>13, <2>2 DEF Bettered, Dominates
    <2>5. d <= b /\ e <= c /\ (d < b \/ e < c)
      BY <2>3, <2>4
    <2>6. /\ 6 * b * p \in Int /\ 4 * c * a \in Int
          /\ 6 * d * p \in Int /\ 4 * e * a \in Int
          /\ 6 * d * p <= 6 * b * p /\ 4 * e * a <= 4 * c * a
          /\ 6 * d * p < 6 * b * p \/ 4 * e * a < 4 * c * a
      BY <2>5, WeighedRises
    <2>7. /\ x[i] = -(6 * b * p + 4 * c * a)
          /\ x[r] = -(6 * d * p + 4 * e * a)
      BY <1>9, <1>12, <2>1
    <2>8. x[i] < x[r]
      BY <2>6, <2>7
    <2> QED
      BY <1>9, <1>12, <2>8
  <1> QED
    BY <1>12, <1>13

(* two sequences in a row, and when two are the same *)
LEMMA Concatenated ==
  ASSUME NEW S, NEW p \in Seq(S), NEW q \in Seq(S)
  PROVE  /\ p \o q \in Seq(S) /\ Len(p \o q) = Len(p) + Len(q)
         /\ \A i \in 1..Len(p) : (p \o q)[i] = p[i]
         /\ \A i \in 1..Len(q) : (p \o q)[Len(p) + i] = q[i]
  OBVIOUS

(* sequences of one length and one content are equal *)
LEMMA SameSequence ==
  ASSUME NEW S, NEW s \in Seq(S), NEW t \in Seq(S), Len(s) = Len(t),
         \A i \in 1..Len(s) : s[i] = t[i]
  PROVE  s = t
  OBVIOUS

(* short sequences put together *)
LEMMA Joined ==
  ASSUME NEW f, NEW c, NEW r
  PROVE  /\ <<f>> \o <<>> = <<f>> /\ <<f>> \o <<c>> = <<f, c>>
         /\ <<f, c>> \o <<>> = <<f, c>> /\ <<f, c>> \o <<r>> = <<f, c, r>>
  <1>1. PICK S : S = {f, c, r}
    OBVIOUS
  <1>2. /\ <<>> \in Seq(S) /\ <<f>> \in Seq(S) /\ <<c>> \in Seq(S) /\ <<r>> \in Seq(S)
        /\ <<f, c>> \in Seq(S) /\ <<f, c, r>> \in Seq(S)
    BY <1>1
  <1>3. /\ Len(<<>>) = 0 /\ Len(<<f>>) = 1 /\ Len(<<c>>) = 1 /\ Len(<<r>>) = 1
        /\ Len(<<f, c>>) = 2 /\ Len(<<f, c, r>>) = 3
    OBVIOUS
  <1>4. <<f>> \o <<>> = <<f>>
    OBVIOUS
  <1>5. <<f>> \o <<c>> = <<f, c>>
    <2>1. PICK s \in Seq(S) : s = <<f>> \o <<c>>
      BY <1>2, Concatenated
    <2>2. Len(s) = 2 /\ s[1] = f /\ s[2] = c
      BY <1>2, <1>3, <2>1, Concatenated
    <2>3. \A i \in 1..Len(s) : s[i] = <<f, c>>[i]
      BY <2>2
    <2>4. s = <<f, c>>
      BY <1>2, <1>3, <2>2, <2>3, SameSequence
    <2> QED
      BY <2>1, <2>4
  <1>6. <<f, c>> \o <<>> = <<f, c>>
    <2>1. PICK s \in Seq(S) : s = <<f, c>> \o <<>>
      BY <1>2, Concatenated
    <2>2. Len(s) = 2 /\ s[1] = f /\ s[2] = c
      BY <1>2, <1>3, <2>1, Concatenated
    <2>3. \A i \in 1..Len(s) : s[i] = <<f, c>>[i]
      BY <2>2
    <2>4. s = <<f, c>>
      BY <1>2, <1>3, <2>2, <2>3, SameSequence
    <2> QED
      BY <2>1, <2>4
  <1>7. <<f, c>> \o <<r>> = <<f, c, r>>
    <2>1. PICK s \in Seq(S) : s = <<f, c>> \o <<r>>
      BY <1>2, Concatenated
    <2>2. Len(s) = 3 /\ s[1] = f /\ s[2] = c /\ s[3] = r
      BY <1>2, <1>3, <2>1, Concatenated
    <2>3. \A i \in 1..Len(s) : s[i] = <<f, c, r>>[i]
      BY <2>2
    <2>4. s = <<f, c, r>>
      BY <1>2, <1>3, <2>2, <2>3, SameSequence
    <2> QED
      BY <2>1, <2>4
  <1> QED
    BY <1>4, <1>5, <1>6, <1>7

(* the options shown differ, one arrives first, one costs least, and the    *)
(* last, the default, is not beaten in both                                 *)
LEMMA OptionsAreGood ==
  ASSUME NEW offers \in Lists, NEW original
  PROVE  RebookedWell(offers, original, Options(offers, original))
  <1>1. PICK at : at = Rebookable(offers, original)
    OBVIOUS
  <1>2. at \in SUBSET (DOMAIN offers)
    BY <1>1 DEF Rebookable
  <1>3. PICK options : options = Options(offers, original)
    OBVIOUS
  <1>4. PICK B : B = {offers[i] : i \in at}
    OBVIOUS
  <1>5. CASE at = {}
    <2>1. options = <<>> /\ B = {}
      BY <1>1, <1>3, <1>4, <1>5 DEF Options
    <2> QED
      BY <1>1, <1>3, <1>4, <2>1 DEF RebookedWell, Range
  <1>6. CASE at # {}
    <2>1. \A i \in at : offers[i].arrives \in Int /\ offers[i].price \in Int
      BY <1>2, ListIs DEF Offered
    <2>2. PICK x \in [at -> Int], y \in [at -> Int] :
             /\ x = [i \in at |-> offers[i].arrives]
             /\ y = [i \in at |-> offers[i].price]
      BY <2>1
    <2>3. PICK f : f = Least(at, [i \in at |-> <<offers[i].arrives, offers[i].price>>])
      OBVIOUS
    <2>4. PICK c : c = Least(at, [i \in at |-> <<offers[i].price, offers[i].arrives>>])
      OBVIOUS
    <2>5. PICK r : r = Recommended(offers, at)
      OBVIOUS
    <2>6. f \in at /\ \A i \in at : x[f] <= x[i] /\ (x[f] = x[i] => y[f] <= y[i])
      <3>1. [i \in at |-> <<offers[i].arrives, offers[i].price>>]
              = [i \in at |-> <<x[i], y[i]>>]
        BY <2>2
      <3>2. f = Least(at, [i \in at |-> <<x[i], y[i]>>])
        BY <2>3, <3>1
      <3> QED
        BY <1>2, <1>6, <3>2, LeastOfPairs
    <2>7. c \in at /\ \A i \in at : y[c] <= y[i] /\ (y[c] = y[i] => x[c] <= x[i])
      <3>1. [i \in at |-> <<offers[i].price, offers[i].arrives>>]
              = [i \in at |-> <<y[i], x[i]>>]
        BY <2>2
      <3>2. c = Least(at, [i \in at |-> <<y[i], x[i]>>])
        BY <2>4, <3>1
      <3> QED
        BY <1>2, <1>6, <3>2, LeastOfPairs
    <2>8. r \in at /\ \A i \in at : ~Bettered(offers, i, r)
      BY <1>2, <1>6, <2>5, RecommendedIsGood
    <2>9. \A i, j \in at : Bettered(offers, i, j)
             => x[i] <= x[j] /\ y[i] <= y[j] /\ (x[i] < x[j] \/ y[i] < y[j])
      BY <2>2 DEF Bettered, Dominates
    <2>10. \A i \in at : ~Bettered(offers, i, f) /\ ~Bettered(offers, i, c)
      <3>1. \A i \in at : x[i] \in Int /\ y[i] \in Int
        BY <2>2
      <3> QED
        BY <2>6, <2>7, <2>9, <3>1
    <2>11. PICK picks : picks = <<f>> \o (IF c = f THEN <<>> ELSE <<c>>)
                                      \o (IF r \in {f, c} THEN <<>> ELSE <<r>>)
      OBVIOUS
    <2>12. options = [n \in DOMAIN picks |-> offers[picks[n]]]
      BY <1>1, <1>3, <1>6, <2>3, <2>4, <2>5, <2>11 DEF Options
    <2>13. \E k \in 1..3 :
              /\ picks \in [1..k -> {f, c, r}]
              /\ \A m, n \in 1..k : picks[m] = picks[n] => m = n
              /\ \E m, n \in 1..k : picks[m] = f /\ picks[n] = c
      <3>1. CASE c = f /\ r \in {f, c}
        <4>1. picks = <<f>>
          BY <2>11, <3>1, Joined
        <4> QED
          BY <3>1, <4>1
      <3>2. CASE c = f /\ r \notin {f, c}
        <4>1. picks = <<f, r>>
          BY <2>11, <3>2, Joined
        <4> QED
          BY <3>2, <4>1
      <3>3. CASE c # f /\ r \in {f, c}
        <4>1. picks = <<f, c>>
          BY <2>11, <3>3, Joined
        <4> QED
          BY <3>3, <4>1
      <3>4. CASE c # f /\ r \notin {f, c}
        <4>1. picks = <<f, c, r>>
          BY <2>11, <3>4, Joined
        <4> QED
          BY <3>4, <4>1
      <3> QED
        BY <3>1, <3>2, <3>3, <3>4
    <2>14. PICK k \in 1..3 :
              /\ picks \in [1..k -> {f, c, r}]
              /\ \A m, n \in 1..k : picks[m] = picks[n] => m = n
              /\ \E m, n \in 1..k : picks[m] = f /\ picks[n] = c
      BY <2>13
    <2>15. /\ \A n \in 1..k : options[n] = offers[picks[n]] /\ picks[n] \in at
           /\ DOMAIN options = 1..k
      BY <2>6, <2>7, <2>8, <2>12, <2>14
    <2>16. Len(options) = k
      BY <2>12, <2>14
    <2>17. \A m, n \in 1..k : options[m].id = options[n].id => m = n
      <3>1. \A m \in 1..k : picks[m] \in DOMAIN offers
        BY <1>2, <2>15
      <3>2. \A i, j \in DOMAIN offers : offers[i].id = offers[j].id => i = j
        BY ListIs
      <3>3. \A m, n \in 1..k : options[m].id = options[n].id => picks[m] = picks[n]
        BY <2>15, <3>1, <3>2
      <3> QED
        BY <2>14, <3>3
    <2>18. Range(options) \subseteq B
      BY <1>4, <2>15 DEF Range
    <2>19. offers[f] \in Range(options) /\ offers[c] \in Range(options)
      <3>1. PICK m \in 1..k, n \in 1..k : picks[m] = f /\ picks[n] = c
        BY <2>14
      <3>2. options[m] = offers[f] /\ options[n] = offers[c]
        BY <2>15, <3>1
      <3> QED
        BY <2>15, <3>2 DEF Range
    <2>20. PICK d \in at : /\ DefaultOption(options) = offers[d]
                           /\ \A i \in at : ~Bettered(offers, i, d)
      <3>1. k \in 1..k
        BY <2>14
      <3>2. DefaultOption(options) = offers[picks[k]] /\ picks[k] \in {f, c, r}
        BY <2>14, <2>15, <2>16, <3>1 DEF DefaultOption
      <3> QED
        BY <2>6, <2>7, <2>8, <2>10, <3>2
    <2>21. ASSUME NEW o \in B
           PROVE  /\ \E p \in Range(options) : p.arrives <= o.arrives
                  /\ \E p \in Range(options) : p.price <= o.price
                  /\ ~Dominates(o, DefaultOption(options), {"arrives", "price"})
      <3>1. PICK i \in at : o = offers[i]
        BY <1>4
      <3>2. offers[f].arrives <= o.arrives /\ offers[c].price <= o.price
        BY <2>2, <2>6, <2>7, <3>1
      <3> QED
        BY <2>19, <2>20, <3>1, <3>2 DEF Bettered
    <2> QED
      BY <1>1, <1>3, <1>4, <2>15, <2>17, <2>18, <2>21 DEF RebookedWell
  <1> QED
    BY <1>5, <1>6

-----------------------------------------------------------------------------
(* a ranking is what the functions make of some offers and some wish        *)
Made(offers, wish) ==
    [offers |-> offers, wish |-> wish, ranked |-> Ranked(offers, wish),
     envelope |-> Envelope(Ranked(offers, wish)),
     options |-> Options(offers, wish.original)]

RankingInv ==
    ranking = NoRanking
        \/ \E offers \in Offerings, wish \in Wishes : ranking = Made(offers, wish)

(* only MakeRanking changes the ranking, to what the functions make *)
LEMMA RankingStep == RankingInv /\ [SearchNext]_searchVars => RankingInv'
  <1> SUFFICES ASSUME RankingInv, [SearchNext]_searchVars PROVE RankingInv'
    OBVIOUS
  <1>1. CASE MakeRanking
    <2>1. \E offers \in Offerings, wish \in Wishes : ranking' = Made(offers, wish)
      BY <1>1 DEF MakeRanking, Made
    <2> QED
      BY <2>1 DEF RankingInv
  <1>2. CASE UNCHANGED ranking
    BY <1>2 DEF RankingInv
  <1>3. MakeRanking \/ UNCHANGED ranking
    BY DEF SearchNext, searchVars, BeginSearch, ProviderAnswers, TimesOut, Fails,
       SaveFresh, SaveStale, Abandon, Tick, Evict
  <1> QED
    BY <1>1, <1>2, <1>3

(* Whatever offers a provider lists, and whatever is wished, what is shown   *)
(* and picked is not beaten by what was hidden behind it: of the ranking of  *)
(* a search, the cards of its envelope and the rebooking options.            *)
THEOREM PicksAreUndominated == SearchSpec => []PicksUndominated
  <1>1. SearchInit => RankingInv
    BY DEF SearchInit, RankingInv
  <1>2. RankingInv => PicksUndominated
    <2> SUFFICES ASSUME NEW offers \in Offerings, NEW wish \in Wishes,
                        ranking = Made(offers, wish)
                 PROVE  PicksUndominated
      BY DEF RankingInv, PicksUndominated
    <2>1. offers \in Lists /\ offers # <<>> /\ wish \in Wished
      BY FlightSearchAssumption
    <2>2. PICK ranked : ranked = Ranked(offers, wish)
      OBVIOUS
    <2>3. ranked \in Lists /\ ranked # <<>> /\ RankedWell(offers, wish, ranked)
      BY <2>1, <2>2, RankingIsGood
    <2>4. PickedWell(ranked, Envelope(ranked))
      BY <2>3, EnvelopeIsGood
    <2>5. RebookedWell(offers, wish.original, Options(offers, wish.original))
      BY <2>1, OptionsAreGood
    <2> QED
      BY <2>2, <2>3, <2>4, <2>5 DEF PicksUndominated, Made
  <1> QED
    BY <1>1, <1>2, RankingStep, PTL DEF SearchSpec

=============================================================================
