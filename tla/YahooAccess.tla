---------------------------- MODULE YahooAccess ----------------------------
(* How the program talks to Yahoo: yahoo_engine.py's cached getters, the   *)
(* lock around yfinance's process-wide session, and network_engine.py's    *)
(* pause after HTTP 429, retries, interface choice and IPv6 latch.         *)
(* A call is one getter's work for some tickers.  Its requests are made by *)
(* the caller's own thread or, in a bulk download, by one worker thread    *)
(* per ticker, which do not see the caller's retry context.                *)
(* An answer of a request: "data", "empty" (Yahoo says there is nothing),  *)
(* or "none" (nothing came, or the request failed).                        *)
EXTENDS Naturals, FiniteSets

CONSTANTS Callers, Tickers, MaxCalls, MaxTries, MaxTrips

VARIABLES
  mode,    \* settings: "ipv6" when only IPv6 is to be used, else "plain"
  locked,  \* _yf_singleton_lock._lock: held by somebody (a Lock has no owner)
  ready,   \* _RATE_LIMIT_READY
  latch,   \* GLOBAL_IPV6_STATUS["is_failing"]
  cache,   \* _cache: the keys, family and ticker, with a live entry that is not None
  call,    \* the call of each caller
  req,     \* its requests: where each is and how often it was sent
  late,    \* history: the requests already past the wait for `ready` when it was cleared
  faults,  \* history: network fault alerts
  calls, trips  \* calls begun and pauses so far, for the bounds

vars == <<mode, locked, ready, latch, cache, call, req, late, faults, calls, trips>>

Families == {"intraday", "history", "single"}

-----------------------------------------------------------------------------
(* The getters: what each keeps of an answer, when, and under which lock.  *)

Single(keeps) == [family |-> "single", bulk |-> FALSE, lock |-> TRUE, keeps |-> keeps, forced |-> FALSE]
IfAny == Single({"data"})
Anyway == Single({"data", "empty"})

Intraday == [family |-> "intraday", bulk |-> TRUE, lock |-> TRUE, keeps |-> {"data", "empty", "none"}, forced |-> FALSE]
History == [Intraday EXCEPT !.family = "history"]
ForcedHistory == [History EXCEPT !.forced = TRUE, !.keeps = {}]
TickerInfo == IfAny
QuoteSnapshot == IfAny
SessionShape == IfAny
OptionsExpirations == IfAny
OptionsChain == Anyway
\* An empty search answer after a failed feed counts as a failure, not as "no headlines".
News == Anyway
InsiderTransactions == IfAny
EarningsDates == IfAny
FundHoldings == IfAny
SectorWeightings == IfAny
TickerActions == Anyway
AnnualFinancials == Anyway
FxRate == IfAny
SingleHistory == IfAny
IsinSearch == [IfAny EXCEPT !.lock = FALSE]
TickerSearch == Anyway

Getters == {Intraday, History, ForcedHistory, TickerInfo, QuoteSnapshot, SessionShape, OptionsExpirations,
            OptionsChain, News, InsiderTransactions, EarningsDates, FundHoldings, SectorWeightings,
            TickerActions, AnnualFinancials, FxRate, SingleHistory, IsinSearch, TickerSearch}

NoCall == [at |-> "idle", get |-> TickerInfo, want |-> {}, path |-> "plain", fell |-> FALSE]
NoRequests == [t \in Tickers |-> [at |-> "no", tries |-> 0]]

\* _maybe_restore_latch: a recent fault flag sets the latch before the first call reads it.
Init ==
  /\ mode \in {"plain", "ipv6"} /\ latch \in BOOLEAN
  /\ locked = FALSE /\ ready = TRUE /\ cache = {}
  /\ call = [c \in Callers |-> NoCall] /\ req = [c \in Callers |-> NoRequests]
  /\ late = {} /\ faults = 0 /\ calls = 0 /\ trips = 0

At(c, p) == call[c].at = p
Key(g, t) == <<g.family, t>>
\* _get.
Hit(g, t) == Key(g, t) \in cache
Missing(g, T) == IF g.forced THEN T ELSE {t \in T : ~Hit(g, t)}
counts == <<calls, trips>>

-----------------------------------------------------------------------------
(* A call up to its requests.                                              *)

\* The cache is asked first; a forced fetch evicts instead.
Begin(c, g, T) ==
  /\ At(c, "idle") /\ calls < MaxCalls /\ (g.bulk \/ Cardinality(T) = 1) /\ Missing(g, T) # {}
  /\ call' = [call EXCEPT ![c] = [NoCall EXCEPT !.get = g, !.want = Missing(g, T),
                                                !.at = IF g.lock THEN "wait" ELSE "open"]]
  /\ cache' = IF g.forced THEN cache \ {Key(g, t) : t \in T} ELSE cache
  /\ calls' = calls + 1
  /\ UNCHANGED <<mode, locked, ready, latch, req, late, faults, trips>>

\* _RateLimitAwareLock.__enter__: first the pause ...
PassBreaker(c) ==
  /\ At(c, "wait") /\ ready /\ call' = [call EXCEPT ![c].at = "acquire"]
  /\ UNCHANGED <<mode, locked, ready, latch, cache, req, late, faults, counts>>

\* ... then the lock itself.  Under it the intraday getter looks into the cache again:
\* another caller may just have asked.
LooksAgain(c) == call[c].get = Intraday
Wanted(c) == IF LooksAgain(c) THEN Missing(Intraday, call[c].want) ELSE call[c].want
Acquire(c) ==
  /\ At(c, "acquire") /\ ~locked
  /\ locked' = (Wanted(c) # {})
  /\ call' = [call EXCEPT ![c] = IF Wanted(c) = {} THEN NoCall ELSE [@ EXCEPT !.at = "open", !.want = Wanted(c)]]
  /\ UNCHANGED <<mode, ready, latch, cache, req, late, faults, counts>>

\* yahoo_connection_boundary: the latch rules IPv6 out.  With both interfaces they take
\* turns; either is a plain session, with retries and without a fallback.
(* Variant: the latch is not asked. *)
InterfaceAnyway == IF mode = "ipv6" THEN "failover" ELSE "plain"
Interface == IF mode = "ipv6" /\ ~latch THEN "failover" ELSE "plain"
Open(c) ==
  /\ At(c, "open")
  /\ call' = [call EXCEPT ![c].at = "ask", ![c].path = Interface]
  /\ req' = [req EXCEPT ![c] = [t \in Tickers |-> [at |-> IF t \in call[c].want THEN "ask" ELSE "no", tries |-> 0]]]
  /\ UNCHANGED <<mode, locked, ready, latch, cache, late, faults, counts>>

-----------------------------------------------------------------------------
(* Requests.                                                               *)

Asks(c, t) == req[c][t].at = "ask"
Put(c, t, p) == req' = [req EXCEPT ![c][t].at = p]
Answers(c) == IF call[c].get.bulk THEN {"data", "none"} ELSE {"data", "empty", "none"}

\* A success on the failover session clears the latch, unless that session has fallen back.
Answer(c, t) ==
  /\ Asks(c, t) /\ \E a \in Answers(c) : Put(c, t, a)
  /\ latch' = (latch /\ ~(call[c].path = "failover" /\ ~call[c].fell))
  /\ UNCHANGED <<mode, locked, ready, cache, call, late, faults, counts>>

\* A retry's pause gives the lock back where the request's thread knows the lock: in the
\* caller's own thread, and in the failover session, which was made with it.
KnowsLock(c) == call[c].get.lock /\ (~call[c].get.bulk \/ call[c].path = "failover")

\* _enter_yahoo_rate_limit: the first one starts the pause and its timer.
PastWait(c, t) ==
  \/ call[c].at \in {"acquire", "open"}
  \/ At(c, "ask") /\ (req[c][t].at \in {"ask", "acquire"} \/ (req[c][t].at = "sleep" /\ ~KnowsLock(c)))
RateLimited(c, t) ==
  /\ Asks(c, t) /\ Put(c, t, "none")
  /\ IF ready THEN /\ trips < MaxTrips /\ trips' = trips + 1 /\ ready' = FALSE
                   /\ late' = {k \in Callers \X Tickers : PastWait(k[1], k[2])}
              ELSE UNCHANGED <<ready, late, trips>>
  /\ UNCHANGED <<mode, locked, latch, cache, call, faults, calls>>

\* _sleep_outside_lock; to release a lock that is not held raises.
Releases(c) == KnowsLock(c)
Transient(c, t) ==
  /\ Asks(c, t) /\ req[c][t].tries < MaxTries
  /\ Put(c, t, IF Releases(c) /\ ~locked THEN "none" ELSE "sleep")
  /\ locked' = (locked /\ ~Releases(c))
  /\ UNCHANGED <<mode, ready, latch, cache, call, late, faults, counts>>

\* The failover session, when closed under it, is rebuilt for the next attempt.
Rebuild(c, t) ==
  /\ Asks(c, t) /\ req[c][t].tries < MaxTries /\ call[c].path = "failover"
  /\ req' = [req EXCEPT ![c][t].tries = @ + 1]
  /\ UNCHANGED <<mode, locked, ready, latch, cache, call, late, faults, counts>>

\* The way back is again past the pause, then to the lock.
Again(c, t) == req' = [req EXCEPT ![c][t] = [at |-> "ask", tries |-> @.tries + 1]]
Wake(c, t) ==
  /\ req[c][t].at = "sleep"
  /\ IF KnowsLock(c) THEN Put(c, t, "wait") ELSE Again(c, t)
  /\ UNCHANGED <<mode, locked, ready, latch, cache, call, late, faults, counts>>
Repass(c, t) ==
  /\ req[c][t].at = "wait" /\ ready /\ Put(c, t, "acquire")
  /\ UNCHANGED <<mode, locked, ready, latch, cache, call, late, faults, counts>>
Reacquire(c, t) ==
  /\ req[c][t].at = "acquire" /\ ~locked /\ locked' = TRUE /\ Again(c, t)
  /\ UNCHANGED <<mode, ready, latch, cache, call, late, faults, counts>>

\* An error that is not retried any more.
GiveUp(c, t) ==
  /\ Asks(c, t) /\ (call[c].path # "failover" \/ call[c].fell \/ req[c][t].tries = MaxTries)
  /\ Put(c, t, "none")
  /\ UNCHANGED <<mode, locked, ready, latch, cache, call, late, faults, counts>>

\* A hard fault of the failover session: the first to set the latch alerts, and the
\* request is made once more without IPv6.
HardFault(c, t) ==
  /\ Asks(c, t) /\ call[c].path = "failover" /\ ~call[c].fell
  /\ latch' = TRUE /\ faults' = IF latch THEN faults ELSE faults + 1
  /\ call' = [call EXCEPT ![c].fell = TRUE]
  /\ Put(c, t, "fallback")
  /\ UNCHANGED <<mode, locked, ready, cache, late, counts>>
Fallback(c, t) ==
  /\ req[c][t].at = "fallback" /\ \E a \in Answers(c) : Put(c, t, a)
  /\ UNCHANGED <<mode, locked, ready, latch, cache, call, late, faults, counts>>

\* The timer of the pause; everybody who waits is let through, whatever comes next.
Reset ==
  /\ ~ready /\ ready' = TRUE /\ late' = {}
  /\ call' = [c \in Callers |-> IF At(c, "wait") THEN [call[c] EXCEPT !.at = "acquire"] ELSE call[c]]
  /\ req' = [c \in Callers |-> [t \in Tickers |->
               IF req[c][t].at = "wait" THEN [req[c][t] EXCEPT !.at = "acquire"] ELSE req[c][t]]]
  /\ UNCHANGED <<mode, locked, latch, cache, faults, counts>>

-----------------------------------------------------------------------------
(* The end of a call.                                                      *)

Got(c, t) == req[c][t].at
Answered(c) == \A t \in call[c].want : Got(c, t) \in {"data", "empty", "none"}
\* A bulk frame without any rows is not looked at; of any other every ticker is kept.
Kept(c) == IF call[c].get.bulk /\ \A t \in call[c].want : Got(c, t) = "none" THEN {}
           ELSE {t \in call[c].want : Got(c, t) \in call[c].get.keeps}
\* A None that is kept takes the place of whatever was there.
Stored(c) ==
  {k \in cache : k[1] # call[c].get.family \/ k[2] \notin Kept(c)}
    \cup {Key(call[c].get, t) : t \in {u \in Kept(c) : Got(c, u) # "none"}}
Over(c) == call' = [call EXCEPT ![c] = NoCall] /\ req' = [req EXCEPT ![c] = NoRequests]

\* Leaving the lock; the intraday getter stores before it does.
Leave(c) ==
  /\ At(c, "ask") /\ Answered(c)
  /\ locked' = (locked /\ ~call[c].get.lock)
  /\ IF LooksAgain(c)
     THEN cache' = Stored(c) /\ Over(c)
     ELSE call' = [call EXCEPT ![c].at = "store"] /\ UNCHANGED <<cache, req>>
  /\ UNCHANGED <<mode, ready, latch, late, faults, counts>>

\* The others store when they have left the lock.
Store(c) ==
  /\ At(c, "store") /\ cache' = Stored(c) /\ Over(c)
  /\ UNCHANGED <<mode, locked, ready, latch, late, faults, counts>>

\* An entry expires; a user or a job invalidates a ticker's entries.
Expire(k) ==
  /\ cache' = cache \ {k}
  /\ UNCHANGED <<mode, locked, ready, latch, call, req, late, faults, counts>>
Invalidate(t) ==
  /\ cache' = {k \in cache : k[2] # t}
  /\ UNCHANGED <<mode, locked, ready, latch, call, req, late, faults, counts>>

-----------------------------------------------------------------------------
Steps(c) == PassBreaker(c) \/ Acquire(c) \/ Open(c) \/ Leave(c) \/ Store(c)
RequestSteps(c, t) ==
  \/ Answer(c, t) \/ RateLimited(c, t) \/ Transient(c, t) \/ Rebuild(c, t) \/ GiveUp(c, t) \/ HardFault(c, t)
  \/ Fallback(c, t) \/ Wake(c, t) \/ Repass(c, t) \/ Reacquire(c, t)

Next ==
  \/ \E c \in Callers, g \in Getters, T \in SUBSET Tickers : Begin(c, g, T)
  \/ \E c \in Callers : Steps(c)
  \/ \E c \in Callers, t \in Tickers : RequestSteps(c, t)
  \/ Reset
  \/ \E k \in cache : Expire(k)
  \/ \E t \in Tickers : Invalidate(t)

Spec == Init /\ [][Next]_vars

-----------------------------------------------------------------------------
(* Properties.                                                             *)

TypeOK ==
  /\ {locked, ready, latch} \subseteq BOOLEAN /\ cache \subseteq Families \X Tickers
  /\ \A c \in Callers : /\ call[c].at \in {"idle", "wait", "acquire", "open", "ask", "store"}
                         /\ call[c].want \subseteq Tickers /\ call[c].get \in Getters

\* A caller is on yfinance's session from taking the lock to leaving it, less the
\* pauses of its retries.
Pausing(c) == \E t \in Tickers : req[c][t].at \in {"sleep", "wait", "acquire"}
OnSession(c) == call[c].get.lock /\ (At(c, "open") \/ (At(c, "ask") /\ ~(KnowsLock(c) /\ Pausing(c))))
\* Only one caller at a time is on the process-wide session, and the lock is taken
\* exactly then (_yf_singleton_lock).  In IPv6-only mode it is not so: the workers of one
\* download give the lock back one by one.
OneAtTheSession ==
  mode # "ipv6" => /\ \A c, d \in Callers : OnSession(c) /\ OnSession(d) => c = d
                   /\ locked <=> \E c \in Callers : OnSession(c)

\* While Yahoo has asked for a pause, a caller under the lock sends something only if
\* that request was already past its wait when the pause began: nobody comes in, and
\* nobody comes back from a retry (_RateLimitAwareLock, _sleep_outside_lock).
PauseIsKept ==
  ~ready => \A c \in Callers, t \in Tickers : call[c].get.lock /\ Asks(c, t) => <<c, t>> \in late

\* Nobody downloads intraday bars that another caller has just stored (get_intraday
\* looks again under the lock).
NobodyAsksTwice ==
  mode # "ipv6" =>
    \A c \in Callers, t \in Tickers : LooksAgain(c) /\ Asks(c, t) => ~Hit(Intraday, t)

\* Once the latch is set and no IPv6-only call from before is under way, it stays, and
\* IPv6 is not tried again and no further alert is sent ("one-time latch").
FailoverUnderWay == \E c \in Callers : call[c].path = "failover"
LatchStays == latch /\ ~FailoverUnderWay => latch' /\ ~FailoverUnderWay' /\ faults' = faults
LatchIsFinal == [][LatchStays]_vars
=============================================================================
