-------------------------- MODULE PortfolioTotals --------------------------
(***************************************************************************)
(* The portfolio totals that Home Assistant polls                          *)
(* (portfolio_metrics_engine.py).  One answer is kept in memory under the  *)
(* key it was computed for: the revision of the ledger, and a fingerprint  *)
(* of prices, FX rates and snapshots.  After a ledger write a request      *)
(* computes the totals itself; after a price change it serves the kept     *)
(* answer and asks the coordinator of CacheRefresh for a new one, as long  *)
(* as the kept one is not too old.                                         *)
(*                                                                         *)
(* Abstraction: ledger and prices are version numbers; the totals are the  *)
(* versions they were computed from; the UTC date, the other part of the   *)
(* key's first half, changes as the ledger does.  There is a Trading       *)
(* account, and every price write changes the fingerprint, which has a     *)
(* resolution of one second.                                               *)
(***************************************************************************)
EXTENDS Naturals, FiniteSets

CONSTANTS
  Threads,    \* requests of the totals
  Refresher,  \* the worker that runs the background refresh
  Fresh,      \* PORTFOLIO_TOTALS_CACHE_MAX_AGE_SECONDS, in ticks
  Stale,      \* PORTFOLIO_TOTALS_STALE_MAX_AGE_SECONDS, in ticks
  MaxLedger,  \* bound: ledger writes
  MaxPrices,  \* bound: price writes
  MaxFails    \* bound: fingerprints that cannot be read

Bounds == {Stale, MaxPrices} \subseteq Nat
Actors == Threads \cup {Refresher}
Ages == 0..Stale   \* Stale stands for anything older

VARIABLES
  ledger,    \* ledger writes committed
  revision,  \* _ledger_revision
  unbumped,  \* the writes that are committed and have not raised the revision
  returned,  \* the last ledger write whose caller knows of it
  prices,    \* price writes; the fingerprint
  replaced,  \* replaced[v]: ticks since price version v was replaced
  cache,     \* _totals_cache: its key, its age, and the versions it was computed from
  actor,     \* actor[a]: where a request or the refresher is, and what it has read
  asked,     \* a background refresh is queued
  backoff,   \* the last one failed, its time to retry has not come
  refresh,   \* refresh-now: "idle" or "fetched"
  promised,  \* the price version that refresh-now has returned with
  fails

totalsVars == <<ledger, revision, unbumped, returned, prices, replaced, cache, actor, asked, backoff,
                refresh, promised, fails>>

NoCache == [set |-> FALSE, revision |-> 0, print |-> 0, age |-> 0, ledger |-> 0, prices |-> 0]
Idle == [at |-> "idle", revision |-> 0, print |-> 0, age |-> 0, ledger |-> 0, prices |-> 0,
         keep |-> TRUE, needs |-> 0, wants |-> 0]

Init ==
  /\ ledger = 0 /\ revision = 0 /\ unbumped = {} /\ returned = 0
  /\ prices = 0 /\ replaced = [v \in 0..MaxPrices |-> 0]
  /\ cache = NoCache
  /\ actor = [a \in Actors |-> Idle]
  /\ asked = FALSE /\ backoff = FALSE
  /\ refresh = "idle" /\ promised = 0
  /\ fails = 0

writes == <<ledger, revision, unbumped, returned, prices, replaced, refresh, promised>>

-----------------------------------------------------------------------------
(* The writers *)

(* db_accounts.py: commit, then _bump_ledger_revision, then return. *)
Commit ==
  /\ ledger < MaxLedger
  /\ ledger' = ledger + 1
  /\ unbumped' = unbumped \cup {ledger'}
  /\ UNCHANGED <<revision, returned, prices, replaced, cache, actor, asked, backoff, refresh, promised, fails>>

Bump ==
  /\ \E w \in unbumped : /\ unbumped' = unbumped \ {w}
                         /\ returned' = IF w > returned THEN w ELSE returned
  /\ revision' = revision + 1
  /\ UNCHANGED <<ledger, prices, replaced, cache, actor, asked, backoff, refresh, promised, fails>>

WritePrices == prices < MaxPrices /\ prices' = prices + 1

Price ==
  /\ WritePrices
  /\ UNCHANGED <<ledger, revision, unbumped, returned, replaced, cache, actor, asked, backoff, refresh,
                 promised, fails>>

(* api_refresh_now: fetch, then drop the kept answer, then return. *)
RefreshNow ==
  /\ refresh = "idle"
  /\ WritePrices
  /\ refresh' = "fetched"
  /\ UNCHANGED <<ledger, revision, unbumped, returned, replaced, cache, actor, asked, backoff, promised, fails>>

Invalidate ==
  /\ refresh = "fetched"
  /\ cache' = NoCache
  /\ refresh' = "idle"
  /\ promised' = prices
  /\ UNCHANGED <<ledger, revision, unbumped, returned, prices, replaced, actor, asked, backoff, fails>>

-----------------------------------------------------------------------------
(* cached_portfolio_totals and refresh_portfolio_totals *)

Goes(a, next) == actor' = [actor EXCEPT ![a].at = next]

(* A request, or the worker that takes the queued refresh, reads the       *)
(* revision of the ledger.                                                 *)
ReadRevision(a) ==
  /\ actor[a].at = "idle"
  /\ a = Refresher => asked
  /\ actor' = [actor EXCEPT ![a] = [Idle EXCEPT !.at = "key", !.revision = revision,
                                !.needs = IF a = Refresher THEN 0 ELSE returned,
                                !.wants = IF a = Refresher THEN 0 ELSE promised]]
  /\ asked' = (asked /\ a # Refresher)
  /\ UNCHANGED <<writes, cache, backoff, fails>>

ReadPrint(a) ==
  /\ actor[a].at = "key"
  /\ actor' = [actor EXCEPT ![a].at = "look", ![a].print = prices]
  /\ UNCHANGED <<writes, cache, asked, backoff, fails>>

(* The fingerprint cannot be read: a request computes what it does not     *)
(* keep, the refresh fails.                                                *)
PrintFails(a) ==
  /\ actor[a].at = "key" /\ fails < MaxFails
  /\ fails' = fails + 1
  /\ IF a = Refresher
     THEN actor' = [actor EXCEPT ![a] = Idle] /\ backoff' = TRUE
     ELSE actor' = [actor EXCEPT ![a].at = "ledger", ![a].keep = FALSE] /\ UNCHANGED backoff
  /\ UNCHANGED <<writes, cache, asked>>

SameLedger(a) == cache.set /\ cache.revision = actor[a].revision
(* Variant: a price change does not make the answer old for the refresher. *)
CurrentLedger(a) == SameLedger(a) /\ cache.age < Fresh
Current(a) == SameLedger(a) /\ cache.print = actor[a].print /\ cache.age < Fresh

(* What a request answers; the rest of what it has read is forgotten. *)
Answer(a, l, p) == [Idle EXCEPT !.at = "answered", !.ledger = l, !.prices = p,
                                !.needs = actor[a].needs, !.wants = actor[a].wants]
Answers(a) == [actor EXCEPT ![a] = Answer(a, cache.ledger, cache.prices)]

Hit(a) ==
  /\ actor[a].at = "look" /\ a # Refresher
  /\ SameLedger(a) /\ cache.print = actor[a].print /\ cache.age < Fresh
  /\ actor' = Answers(a)
  /\ UNCHANGED <<writes, cache, asked, backoff, fails>>

Usable(a) == SameLedger(a) /\ cache.age < Stale

(* Served while a refresh is asked for: one that is running is taken for   *)
(* it, one that failed is not repeated yet.                                *)
ServeStale(a) ==
  /\ actor[a].at = "look" /\ a # Refresher
  /\ Usable(a)
  /\ ~(cache.print = actor[a].print /\ cache.age < Fresh)
  /\ actor' = Answers(a)
  /\ asked' = (asked \/ (actor[Refresher].at = "idle" /\ ~backoff))
  /\ UNCHANGED <<writes, cache, backoff, fails>>

(* started = time.monotonic(): the age of an answer counts from here. *)
Miss(a) ==
  /\ actor[a].at = "look"
  /\ IF a = Refresher THEN ~Current(a) ELSE ~Usable(a)
  /\ actor' = [actor EXCEPT ![a].at = "ledger", ![a].age = 0]
  /\ UNCHANGED <<writes, cache, asked, backoff, fails>>

AlreadyCurrent ==
  /\ actor[Refresher].at = "look"
  /\ Current(Refresher)
  /\ actor' = [actor EXCEPT ![Refresher] = Idle]
  /\ backoff' = FALSE
  /\ UNCHANGED <<writes, cache, asked, fails>>

ReadLedger(a) ==
  /\ actor[a].at = "ledger"
  /\ actor' = [actor EXCEPT ![a].at = "prices", ![a].ledger = ledger]
  /\ UNCHANGED <<writes, cache, asked, backoff, fails>>

ReadPrices(a) ==
  /\ actor[a].at = "prices"
  /\ actor' = [actor EXCEPT ![a] = IF actor[a].keep THEN [@ EXCEPT !.at = "store", !.prices = prices]
                                   ELSE Answer(a, actor[a].ledger, prices)]
  /\ UNCHANGED <<writes, cache, asked, backoff, fails>>

(* Variant: the answer is kept under the key of the time it is stored. *)
KeyNow(a) == [revision |-> revision, print |-> prices]
KeyOf(a) == [revision |-> actor[a].revision, print |-> actor[a].print]

AgeOf(a) == actor[a].age

Store(a) ==
  /\ actor[a].at = "store"
  /\ cache' = [set |-> TRUE, revision |-> KeyOf(a).revision, print |-> KeyOf(a).print, age |-> AgeOf(a),
               ledger |-> actor[a].ledger, prices |-> actor[a].prices]
  /\ actor' = [actor EXCEPT ![a] = IF a = Refresher THEN Idle ELSE Answer(a, actor[a].ledger, actor[a].prices)]
  /\ backoff' = (backoff /\ a # Refresher)
  /\ UNCHANGED <<writes, asked, fails>>

Answered(a) ==
  /\ actor[a].at = "answered"
  /\ actor' = [actor EXCEPT ![a] = Idle]
  /\ UNCHANGED <<writes, cache, asked, backoff, fails>>

(* queue_portfolio_totals_refresh: after a price fetch a request triggered *)
(* and after the nightly snapshots.                                        *)
Queue ==
  /\ ~asked /\ actor[Refresher].at = "idle" /\ ~backoff
  /\ asked' = TRUE
  /\ UNCHANGED <<writes, cache, actor, backoff, fails>>

-----------------------------------------------------------------------------
Older(n) == IF n < Stale THEN n + 1 ELSE n

Tick ==
  /\ cache' = [cache EXCEPT !.age = IF cache.set THEN Older(@) ELSE @]
  /\ actor' = [a \in Actors |-> IF actor[a].at \in {"ledger", "prices", "store"}
                                THEN [actor[a] EXCEPT !.age = Older(@)] ELSE actor[a]]
  /\ replaced' = [v \in 0..MaxPrices |-> IF v < prices THEN Older(replaced[v]) ELSE 0]
  /\ UNCHANGED <<ledger, revision, unbumped, returned, prices, asked, backoff, refresh, promised, fails>>

MayRetry ==
  /\ backoff
  /\ backoff' = FALSE
  /\ UNCHANGED <<writes, cache, actor, asked, fails>>

Step(a) == \/ ReadRevision(a) \/ ReadPrint(a) \/ Hit(a) \/ ServeStale(a) \/ Miss(a)
           \/ ReadLedger(a) \/ ReadPrices(a) \/ Store(a) \/ Answered(a)

Next ==
  \/ Commit \/ Bump \/ Price \/ RefreshNow \/ Invalidate
  \/ AlreadyCurrent \/ Queue \/ Tick \/ MayRetry
  \/ \E a \in Actors : Step(a) \/ PrintFails(a)

Spec == Init /\ [][Next]_totalsVars

(* Home Assistant polls, the worker works, and the retry time comes.       *)
(* Nothing is assumed of the clock.                                        *)
Polling ==
  /\ \A a \in Actors : WF_totalsVars(Step(a))
  /\ WF_totalsVars(AlreadyCurrent) /\ WF_totalsVars(MayRetry)

FairSpec == Spec /\ Polling

-----------------------------------------------------------------------------
(* Properties *)

Steps == {"idle", "key", "look", "ledger", "prices", "store", "answered"}

TypeOK ==
  /\ revision + Cardinality(unbumped) = ledger
  /\ cache.age \in Ages /\ replaced \in [0..MaxPrices -> Ages]
  /\ \A a \in Actors : /\ actor[a].at \in Steps /\ actor[a].age \in Ages
                       /\ actor[a].ledger \in 0..ledger /\ actor[a].prices \in 0..prices
  /\ actor[Refresher].at # "answered"

(* A change of the ledger shows at once: whoever asks after a write has    *)
(* returned gets totals that include it, whichever computations were under *)
(* way and in whichever order they are kept.                               *)
LedgerShownAtOnce ==
  \A a \in Threads : actor[a].at = "answered" => actor[a].ledger >= actor[a].needs

(* The age of the kept answer is never less than that of its prices: what  *)
(* it leaves out has changed no longer ago than its age says.  So an       *)
(* answer that is served has no prices that were replaced Stale ticks ago. *)
AgeIsHonest == cache.set => replaced[cache.prices] <= cache.age

(* What a request is answered is as new as the key under which it was kept *)
(* says, for the ledger and for the prices.                                *)
TotalsAreHonest == LedgerShownAtOnce /\ AgeIsHonest

(* A price change shows in the end, without the answer having to expire.   *)
PricesShow ==
  \A a \in Threads :
    (prices = MaxPrices) ~> (actor[a].at = "answered" /\ actor[a].prices = MaxPrices)

(* What the comment in api_refresh_now says: the poll that follows it sees *)
(* the prices that were fetched.                                           *)
RefreshNowShows ==
  \A a \in Threads : actor[a].at = "answered" => actor[a].prices >= actor[a].wants
=============================================================================
