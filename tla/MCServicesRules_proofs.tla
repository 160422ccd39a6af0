---------------------- MODULE MCServicesRules_proofs ----------------------
(* Proofs about the six services of MCServicesRules: CacheRefresh, for any *)
(* callers, keys, pools and limit, AccountPostings, for any operators,     *)
(* occurrences, transfers and bounds, TreasuryBills, for any bills, sweeps *)
(* and failures, PriceRepair, for any requests, dates and failures,        *)
(* AccountLedger, for any list of transactions, and StableShortlist, for   *)
(* any tickers, sectors, rankings and settings.                            *)
(*                                                                         *)
(* What holds the coordinator together is that _pending always names the   *)
(* one future of a key that is still to come: whatever is queued or runs   *)
(* is the pending future of its key, a key counts as awaited exactly while *)
(* that future is in the pool of the callers that wait, and a key that     *)
(* backs off has no background refresh in the queue.  The operators that   *)
(* _submit applies to _pending and _awaited_keys keep this one by one, so  *)
(* it is stated of any three values of jobs, _pending and _awaited_keys.   *)
EXTENDS MCServicesRules, FiniteSetTheorems, SequenceTheorems, TLAPS

Phases == {"unmade", "queued", "running", "ended", "done", "cancelled"}
Flying == {"queued", "running", "ended"}
JobState == [key : Keys \cup {Unmade.key}, pool : {"background", "awaited"}, phase : Phases,
             callback : {"unset", "set", "ran"}]
CallerState == [at : {"idle", "register", "wait"}, job : 0..made, waits : BOOLEAN]

\* The jobs b, the pending futures p and the awaited keys a agree; m futures were made.
Typed(m, b, p, a) ==
  /\ m \in 0..MaxJobs /\ b \in [Jobs -> JobState]
  /\ p \in [Keys -> 0..m] /\ a \subseteq Keys
  /\ \A j \in Jobs : IF j > m THEN b[j].phase = "unmade" ELSE b[j].phase # "unmade" /\ b[j].key \in Keys
NamesItsKey(b, p) == \A k \in Keys : p[k] # NoJob => b[p[k]].key = k
FlyingIsPending(b, p) == \A j \in Jobs : b[j].phase \in Flying => p[b[j].key] = j
AwaitedIsPool(b, p, a) ==
  /\ \A k \in a : p[k] # NoJob /\ b[p[k]].pool = "awaited"
  /\ \A j \in Jobs : b[j].phase \in Flying /\ b[j].pool = "awaited" => b[j].key \in a
NoneBacksOff(b) == \A j \in Jobs : b[j].phase = "queued" /\ b[j].pool = "background" => b[j].key \notin backoff
Sound(m, b, p, a) ==
  Typed(m, b, p, a) /\ NamesItsKey(b, p) /\ FlyingIsPending(b, p) /\ AwaitedIsPool(b, p, a) /\ NoneBacksOff(b)

\* Whoever waits, or will once its callback is added, waits for a future that was not
\* cancelled and is not in the queue of the background.
Served(b) ==
  \A t \in Threads : caller[t].at # "idle" /\ caller[t].waits =>
    /\ b[caller[t].job].phase # "cancelled"
    /\ b[caller[t].job].phase = "queued" => b[caller[t].job].pool = "awaited"
Callers ==
  /\ caller \in [Threads -> CallerState]
  /\ \A t \in Threads : /\ caller[t].at # "idle" => caller[t].job # NoJob
                        /\ caller[t].at = "wait" => caller[t].waits

InBackground(b) == {j \in Jobs : b[j].pool = "background" /\ b[j].phase \in Flying}

Inv ==
  /\ Sound(made, job, pending, awaited) /\ backoff \subseteq Keys
  /\ Callers /\ Served(job)
  /\ Cardinality(InBackground(job)) <= Limit

-----------------------------------------------------------------------------
(* What _submit makes of _pending and _awaited_keys *)

LEMMA FiniteJobs == IsFiniteSet(Jobs)
  BY BoundAssumption, FS_Interval DEF Jobs

LEMMA MadeAreJobs ==
  ASSUME NEW m \in 0..MaxJobs
  PROVE  /\ m \in Nat /\ 1..m \subseteq Jobs /\ NoJob \notin Jobs
         /\ \A n \in 0..m : n # NoJob => n \in 1..m /\ n \in Jobs
  BY BoundAssumption DEF Jobs, NoJob

LEMMA CallersJobs ==
  ASSUME Inv
  PROVE  /\ \A t \in Threads : caller[t].job \in 0..made
         /\ \A t \in Threads : caller[t].at # "idle" => caller[t].job \in Jobs
<1>1. made \in 0..MaxJobs /\ \A t \in Threads : caller[t] \in CallerState
  BY DEF Inv, Sound, Typed, Callers
<1>2. \A t \in Threads : caller[t].job \in 0..made /\ (caller[t].at # "idle" => caller[t].job # NoJob)
  BY <1>1 DEF Inv, Callers, CallerState
<1> QED
  BY <1>1, <1>2, MadeAreJobs

\* Forgetting the futures that are done loses none that is still to come.
LEMMA LiveSound ==
  ASSUME Inv
  PROVE  /\ Sound(made, job, Live, LiveAwaited)
         /\ \A k \in Keys : Live[k] # NoJob => Live[k] \in 1..made /\ job[Live[k]].phase \in Flying
         /\ \A k \in Keys : k \in LiveAwaited => Live[k] # NoJob
<1> USE DEF Inv, Sound
<1>1. \A k \in Keys : pending[k] \in 0..made /\ (pending[k] # NoJob => pending[k] \in Jobs /\ pending[k] \in 1..made)
  BY MadeAreJobs DEF Typed
<1>2. \A k \in Keys : /\ Live[k] = NoJob \/ Live[k] = pending[k]
                      /\ Live[k] # NoJob => ~Over(pending[k])
                      /\ pending[k] # NoJob /\ ~Over(pending[k]) => Live[k] = pending[k]
  BY DEF Live
<1>3. \A k \in Keys : Live[k] # NoJob => Live[k] \in 1..made /\ job[Live[k]].phase \in Flying
  BY <1>1, <1>2 DEF Typed, JobState, Phases, Flying, Over, NoJob
<1>4. Live \in [Keys -> 0..made]
  BY <1>1 DEF Live, Typed, NoJob
<1>5. \A k \in Keys : k \in LiveAwaited <=> k \in awaited /\ Live[k] # NoJob
  BY <1>2 DEF LiveAwaited, AwaitedIsPool
<1>6. LiveAwaited \subseteq awaited
  BY DEF LiveAwaited
<1>7. \A j \in Jobs : job[j].phase \in Flying => job[j].key \in Keys /\ Live[job[j].key] = j /\ j # NoJob
  BY <1>2 DEF FlyingIsPending, Typed, Over, Flying, Jobs, NoJob
<1>8. Typed(made, job, Live, LiveAwaited)
  BY <1>4, <1>6 DEF Typed
<1>9. NamesItsKey(job, Live)
  BY <1>2 DEF NamesItsKey
<1>10. FlyingIsPending(job, Live)
  BY <1>7 DEF FlyingIsPending
<1>11. AwaitedIsPool(job, Live, LiveAwaited)
  <2>1. \A k \in LiveAwaited : Live[k] # NoJob /\ job[Live[k]].pool = "awaited"
    BY <1>2, <1>5, <1>6 DEF AwaitedIsPool, Typed
  <2>2. \A j \in Jobs : job[j].phase \in Flying /\ job[j].pool = "awaited" => job[j].key \in LiveAwaited
    BY <1>5, <1>7 DEF AwaitedIsPool
  <2> QED
    BY <2>1, <2>2 DEF AwaitedIsPool
<1> QED
  BY <1>3, <1>5, <1>8, <1>9, <1>10, <1>11

\* What a waiting caller may take is a background refresh of its key, which then is
\* neither in the queue nor pending, if its callback was there.
LEMMA TakenSound ==
  ASSUME Inv, NEW k \in Keys, NEW waits \in BOOLEAN
  PROVE  /\ Sound(made, JobsThen(k, waits), PendingThen(k, waits), AwaitedThen(k, waits))
         /\ Takes(k, waits) => /\ Live[k] \in 1..made /\ job[Live[k]].key = k
                               /\ job[Live[k]].pool = "background" /\ job[Live[k]].phase = "queued"
         /\ \A j \in Jobs : /\ JobsThen(k, waits)[j].key = job[j].key /\ JobsThen(k, waits)[j].pool = job[j].pool
                            /\ JobsThen(k, waits)[j].phase =
                                 IF Takes(k, waits) /\ j = Live[k] THEN "cancelled" ELSE job[j].phase
         /\ ~Joins(k, waits) => \A j \in Jobs : JobsThen(k, waits)[j].phase \in Flying => job[j].key # k
<1>1. CASE ~Takes(k, waits)
  <2>1. /\ JobsThen(k, waits) = job /\ PendingThen(k, waits) = Live /\ AwaitedThen(k, waits) = LiveAwaited
    BY <1>1 DEF JobsThen, PendingThen, AwaitedThen, CallsBack
  <2>2. ~Joins(k, waits) => \A j \in Jobs : job[j].phase \in Flying => job[j].key # k
    BY <1>1, LiveSound DEF Joins, Sound, FlyingIsPending, Jobs, NoJob
  <2> QED
    BY <1>1, <2>1, <2>2, LiveSound
<1>2. CASE Takes(k, waits)
  <2> DEFINE l == Live[k]
             b == JobsThen(k, waits)
             p == PendingThen(k, waits)
             a == AwaitedThen(k, waits)
  <2>1. l # NoJob /\ l \in 1..made /\ job[l].phase = "queued" /\ k \notin LiveAwaited
    BY <1>2, LiveSound DEF Takes
  <2>2. l \in Jobs /\ job[l].key = k
    BY <2>1, LiveSound, MadeAreJobs DEF Sound, NamesItsKey, Typed
  <2>3. job[l].pool = "background"
    BY <2>1, <2>2, LiveSound DEF Sound, AwaitedIsPool, Typed, JobState, Flying
  <2>4. /\ b \in [Jobs -> JobState]
        /\ \A j \in Jobs : /\ b[j].key = job[j].key /\ b[j].pool = job[j].pool
                           /\ b[j].phase = IF j = l THEN "cancelled" ELSE job[j].phase
    <3> DEFINE cb == IF CallsBack(k, waits) THEN "ran" ELSE job[l].callback
    <3>1. b = [job EXCEPT ![l] = [@ EXCEPT !.phase = "cancelled", !.callback = cb]]
      BY <1>2, <2>2, LiveSound DEF JobsThen, Sound, Typed, JobState
    <3>2. job \in [Jobs -> JobState] /\ job[l] \in JobState /\ cb \in {"unset", "set", "ran"}
      BY <2>2, LiveSound DEF Sound, Typed, JobState
    <3> HIDE DEF b, cb, l
    <3>3. [job[l] EXCEPT !.phase = "cancelled", !.callback = cb] \in JobState
      BY <3>2 DEF JobState, Phases
    <3> QED
      BY <2>2, <3>1, <3>2, <3>3 DEF JobState
  <2>5. /\ p \in [Keys -> 0..made] /\ \A q \in Keys \ {k} : p[q] = Live[q]
        /\ p[k] = NoJob \/ p[k] = Live[k]
    BY LiveSound DEF PendingThen, Sound, Typed, NoJob
  <2>6. a = LiveAwaited
    BY <2>1 DEF AwaitedThen
  <2> HIDE DEF l, b, p, a
  <2>7. Typed(made, b, p, a)
    BY <2>1, <2>4, <2>5, <2>6, LiveSound DEF Sound, Typed
  <2>8. NamesItsKey(b, p)
    <3>1. \A q \in Keys : p[q] # NoJob => p[q] = Live[q] /\ Live[q] \in Jobs
      BY <2>5, LiveSound, MadeAreJobs DEF Sound, Typed
    <3> QED
      BY <2>4, <3>1, LiveSound DEF Sound, NamesItsKey
  <2>9. \A j \in Jobs : b[j].phase \in Flying => j # l /\ job[j].phase \in Flying /\ b[j].key # k
    BY <2>1, <2>2, <2>4, LiveSound DEF Sound, FlyingIsPending, Flying, l
  <2>10. FlyingIsPending(b, p)
    BY <2>4, <2>5, <2>9, LiveSound DEF Sound, FlyingIsPending, Typed, Jobs, Flying
  <2>11. AwaitedIsPool(b, p, a)
    <3>1. \A q \in LiveAwaited : q \in Keys /\ q # k /\ Live[q] \in Jobs
      BY <2>1, LiveSound, MadeAreJobs DEF Sound, Typed
    <3>2. \A q \in a : p[q] # NoJob /\ b[p[q]].pool = "awaited"
      BY <2>4, <2>5, <2>6, <3>1, LiveSound DEF Sound, AwaitedIsPool
    <3>3. \A j \in Jobs : b[j].phase \in Flying /\ b[j].pool = "awaited" => b[j].key \in a
      BY <2>4, <2>6, <2>9, LiveSound DEF Sound, AwaitedIsPool
    <3> QED
      BY <3>2, <3>3 DEF AwaitedIsPool
  <2>12. NoneBacksOff(b)
    BY <2>4, LiveSound DEF Sound, NoneBacksOff
  <2> QED
    BY <1>2, <2>1, <2>2, <2>3, <2>4, <2>7, <2>8, <2>9, <2>10, <2>11, <2>12 DEF Sound, l, b, p, a
<1> QED
  BY <1>1, <1>2

\* Nobody who waits loses what is taken, and the background gains nothing by it.
LEMMA TakenServed ==
  ASSUME Inv, NEW k \in Keys, NEW waits \in BOOLEAN
  PROVE  /\ Served(JobsThen(k, waits))
         /\ InBackground(JobsThen(k, waits)) \subseteq InBackground(job)
<1>1. \A t \in Threads : caller[t].at # "idle" => caller[t].job \in Jobs
  BY CallersJobs
<1>2. Served(JobsThen(k, waits))
  BY <1>1, TakenSound DEF Inv, Served
<1>3. InBackground(JobsThen(k, waits)) \subseteq InBackground(job)
  BY TakenSound DEF InBackground, Flying
<1> QED
  BY <1>2, <1>3

LEMMA BackgroundFinite == ASSUME NEW b PROVE IsFiniteSet(InBackground(b))
  BY FiniteJobs, FS_Subset DEF InBackground

\* A set of background refreshes that only shrinks stays within the limit.
LEMMA StaysBounded ==
  ASSUME NEW b, NEW c, InBackground(c) \subseteq InBackground(b), Cardinality(InBackground(b)) <= Limit
  PROVE  Cardinality(InBackground(c)) <= Limit
<1>1. Cardinality(InBackground(c)) <= Cardinality(InBackground(b))
  BY BackgroundFinite, FS_Subset
<1>2. Cardinality(InBackground(c)) \in Nat /\ Cardinality(InBackground(b)) \in Nat
  BY BackgroundFinite, FS_CardinalityType
<1> QED
  BY <1>1, <1>2, BoundAssumption

-----------------------------------------------------------------------------
(* The steps *)

LEMMA InitInv == Init => Inv
<1> SUFFICES ASSUME Init PROVE Inv
  OBVIOUS
<1>1. Unmade \in JobState
  BY DEF Unmade, JobState, Phases
<1>2. job \in [Jobs -> JobState] /\ \A j \in Jobs : job[j].phase = "unmade"
  BY <1>1 DEF Init, Unmade
<1>3. Sound(made, job, pending, awaited)
  BY <1>2, BoundAssumption DEF Init, Sound, Typed, NamesItsKey, FlyingIsPending, AwaitedIsPool, NoneBacksOff, Flying, NoJob, Jobs
<1>4. Callers /\ Served(job)
  BY DEF Init, Callers, Served, CallerState, Away, NoJob
<1>5. InBackground(job) = {}
  BY <1>2 DEF InBackground, Flying
<1>6. Cardinality(InBackground(job)) <= Limit
  BY <1>5, FS_EmptySet, BoundAssumption
<1> QED
  BY <1>3, <1>4, <1>6 DEF Inv, Init

LEMMA JoinInv ==
  ASSUME Inv, NEW t \in Threads, NEW k \in Keys, NEW waits \in BOOLEAN, Join(t, k, waits)
  PROVE  Inv'
<1>1. Sound(made, job, pending, awaited)' /\ backoff' \subseteq Keys
  BY LiveSound DEF Join, Inv, Sound, Typed, NamesItsKey, FlyingIsPending, AwaitedIsPool, NoneBacksOff
<1>2. Live[k] \in 1..made /\ job[Live[k]].phase \in Flying /\ Live[k] # NoJob
  BY LiveSound DEF Join, Joins
<1>3. waits /\ job[Live[k]].phase = "queued" => job[Live[k]].pool = "awaited"
  BY <1>2, LiveSound DEF Join, Joins, Takes, Sound, AwaitedIsPool
<1>4. Callers'
  BY <1>2 DEF Join, Inv, Callers, CallerState
<1>5. Served(job)'
  BY <1>2, <1>3 DEF Join, Inv, Served, Callers, Flying
<1>6. (Cardinality(InBackground(job)) <= Limit)'
  BY DEF Join, Inv, InBackground
<1> QED
  BY <1>1, <1>4, <1>5, <1>6 DEF Inv

LEMMA RefuseInv ==
  ASSUME Inv, NEW t \in Threads, NEW k \in Keys, NEW waits \in BOOLEAN, NEW force \in BOOLEAN,
         Refuse(t, k, waits, force)
  PROVE  Inv'
<1>1. Sound(made, job, pending, awaited)'
  BY TakenSound DEF Refuse, Sound, Typed, NamesItsKey, FlyingIsPending, AwaitedIsPool, NoneBacksOff
<1>2. Callers' /\ backoff' \subseteq Keys
  BY DEF Refuse, Inv, Callers, CallerState
<1>3. Served(job)'
  BY TakenServed DEF Refuse, Served
<1>4. (Cardinality(InBackground(job)) <= Limit)'
  BY TakenServed, StaysBounded DEF Refuse, Inv, InBackground
<1> QED
  BY <1>1, <1>2, <1>3, <1>4 DEF Inv

\* A background refresh is queued only below the limit: those in progress are the
\* pending futures of as many keys that nobody waits for.
LEMMA RoomForOne ==
  ASSUME Inv, NEW k \in Keys, NEW waits \in BOOLEAN, ~waits, Background(k, waits) < Limit
  PROVE  Cardinality(InBackground(job)) < Limit
<1> DEFINE ahead == {q \in Keys : Live[q] # NoJob}
           quiet == ahead \ LiveAwaited
           jobs == InBackground(job)
<1>1. PendingThen(k, waits) = Live /\ AwaitedThen(k, waits) = LiveAwaited
  BY DEF PendingThen, AwaitedThen, CallsBack, Takes
<1>2. Cardinality(ahead) - Cardinality(LiveAwaited) < Limit
  BY <1>1 DEF Background, Entries
<1>3. LiveAwaited \subseteq ahead /\ IsFiniteSet(ahead)
  BY LiveSound, KeysAssumption, FS_Subset DEF Sound, Typed
<1>4. Cardinality(quiet) = Cardinality(ahead) - Cardinality(LiveAwaited) /\ IsFiniteSet(quiet)
  <2>1. ahead \cap LiveAwaited = LiveAwaited
    BY <1>3
  <2> HIDE DEF ahead
  <2> QED
    BY <1>3, <2>1, FS_Difference
<1>5. \A j \in jobs : job[j].key \in quiet /\ Live[job[j].key] = j
  <2> SUFFICES ASSUME NEW j \in jobs PROVE job[j].key \in quiet /\ Live[job[j].key] = j
    OBVIOUS
  <2>1. j \in Jobs /\ job[j].phase \in Flying /\ job[j].pool = "background" /\ j # NoJob
    BY MadeAreJobs DEF InBackground, Inv, Sound, Typed
  <2>2. job[j].key \in Keys /\ Live[job[j].key] = j
    BY <2>1, LiveSound DEF Sound, Typed, FlyingIsPending, Flying
  <2>3. job[j].key \notin LiveAwaited
    BY <2>1, <2>2, LiveSound DEF Sound, AwaitedIsPool
  <2> QED
    BY <2>1, <2>2, <2>3
<1>6. Cardinality(jobs) <= Cardinality(quiet)
  <2> DEFINE f == [j \in jobs |-> job[j].key]
  <2>1. f \in Injection(jobs, quiet)
    BY <1>5 DEF Injection, IsInjective
  <2> QED
    BY <2>1, <1>4, FS_Injection
<1>7. Cardinality(jobs) \in Nat /\ Cardinality(ahead) \in Nat /\ Cardinality(LiveAwaited) \in Nat
  BY <1>3, BackgroundFinite, FS_Subset, FS_CardinalityType
<1> HIDE DEF ahead, quiet, jobs
<1>8. Cardinality(jobs) < Limit
  BY <1>2, <1>4, <1>6, <1>7, BoundAssumption
<1> QED
  BY <1>8 DEF jobs

LEMMA SubmitInv ==
  ASSUME Inv, NEW t \in Threads, NEW k \in Keys, NEW waits \in BOOLEAN, NEW force \in BOOLEAN,
         force => waits, caller[t].at = "idle", Submit(t, k, waits, force)
  PROVE  Inv'
<1> DEFINE n == made + 1
           b == JobsThen(k, waits)
           p == PendingThen(k, waits)
           a == AwaitedThen(k, waits)
           new == [key |-> k, pool |-> IF waits THEN "awaited" ELSE "background",
                   phase |-> "queued", callback |-> "unset"]
<1>1. /\ made' = n /\ job' = [b EXCEPT ![n] = new] /\ pending' = [p EXCEPT ![k] = n]
      /\ awaited' = IF waits THEN a \cup {k} ELSE a
      /\ caller' = [caller EXCEPT ![t] = [at |-> "register", job |-> n, waits |-> waits]] /\ backoff' = backoff
  BY DEF Submit
<1>2. /\ Sound(made, b, p, a)
      /\ \A j \in Jobs : b[j].phase \in Flying => b[j].key # k
  BY TakenSound DEF Submit
<1>3. waits \/ k \notin a
  <2> SUFFICES ASSUME ~waits PROVE k \notin a
    OBVIOUS
  <2>1. Live[k] = NoJob
    BY DEF Submit, Joins, Takes
  <2> QED
    BY <2>1, LiveSound DEF AwaitedThen, CallsBack, Takes
<1>4. waits \/ k \notin backoff
  BY DEF Submit, Refuses
<1>5. n \in Jobs /\ n \in Nat /\ n # NoJob /\ n \notin 0..made /\ made \in Nat /\ n \in 0..MaxJobs
  BY BoundAssumption DEF Submit, Inv, Sound, Typed, Jobs, NoJob
<1>6. Served(b) /\ InBackground(b) \subseteq InBackground(job)
  BY TakenServed
<1>7. (~waits) => Cardinality(InBackground(job)) < Limit
  <2> SUFFICES ASSUME ~waits PROVE Cardinality(InBackground(job)) < Limit
    OBVIOUS
  <2>1. ~(Background(k, waits) >= Limit)
    BY DEF Submit, Refuses
  <2>2. Entries(k, waits) \in Nat /\ Cardinality(AwaitedThen(k, waits)) \in Nat
    <3>1. AwaitedThen(k, waits) \subseteq Keys
      BY TakenSound DEF Sound, Typed
    <3>2. Cardinality(AwaitedThen(k, waits)) \in Nat
      BY <3>1, KeysAssumption, FS_Subset, FS_CardinalityType
    <3>3. Entries(k, waits) \in Nat
      BY KeysAssumption, FS_Subset, FS_CardinalityType DEF Entries
    <3> QED
      BY <3>2, <3>3
  <2>3. Background(k, waits) < Limit
    BY <2>1, <2>2, BoundAssumption DEF Background
  <2> QED
    BY <2>3, RoomForOne
<1> HIDE DEF n, b, p, a
<1>8. /\ new.key = k /\ new.phase = "queued" /\ new.callback = "unset" /\ new \in JobState
      /\ new.pool = IF waits THEN "awaited" ELSE "background"
  BY DEF JobState, Phases
<1> HIDE DEF new
<1>9. /\ job'[n] = new /\ \A j \in Jobs \ {n} : job'[j] = b[j]
      /\ job' \in [Jobs -> JobState]
  BY <1>1, <1>2, <1>5, <1>8 DEF Sound, Typed
<1>10. /\ pending'[k] = n /\ \A q \in Keys \ {k} : pending'[q] = p[q] /\ p[q] # n
       /\ pending' \in [Keys -> 0..n] /\ \A q \in Keys \ {k} : p[q] # NoJob => p[q] \in Jobs \ {n}
  <2>1. p \in [Keys -> 0..made] /\ 0..made \subseteq 0..n /\ n \in 0..n
    BY <1>2, <1>5 DEF Sound, Typed
  <2>2. \A q \in Keys : p[q] # NoJob => p[q] \in Jobs
    BY <1>2, MadeAreJobs DEF Sound, Typed
  <2> QED
    BY <1>1, <1>5, <2>1, <2>2
<1>11. Typed(made, job, pending, awaited)'
  <2>1. \A j \in Jobs : IF j > n THEN job'[j].phase = "unmade" ELSE job'[j].phase # "unmade" /\ job'[j].key \in Keys
    <3>1. \A j \in Jobs \ {n} : j \in Nat /\ (j > n => j > made) /\ (~(j > n) => ~(j > made))
      BY <1>5 DEF n, Jobs
    <3>2. \A j \in Jobs \ {n} : IF j > made THEN b[j].phase = "unmade" ELSE b[j].phase # "unmade" /\ b[j].key \in Keys
      BY <1>2 DEF Sound, Typed
    <3>3. ~(n > n) /\ job'[n].phase # "unmade" /\ job'[n].key \in Keys
      BY <1>5, <1>8, <1>9
    <3> QED
      BY <1>9, <3>1, <3>2, <3>3
  <2>2. awaited' \subseteq Keys
    BY <1>1, <1>2 DEF Sound, Typed
  <2> QED
    BY <1>1, <1>5, <1>9, <1>10, <2>1, <2>2 DEF Typed
<1>12. NamesItsKey(job, pending)'
  BY <1>2, <1>8, <1>9, <1>10 DEF Sound, NamesItsKey
<1>13. FlyingIsPending(job, pending)'
  <2>1. \A j \in Jobs \ {n} : b[j].phase \in Flying => b[j].key \in Keys \ {k} /\ p[b[j].key] = j
    BY <1>2 DEF Sound, Typed, FlyingIsPending, Flying
  <2> QED
    BY <1>8, <1>9, <1>10, <2>1 DEF FlyingIsPending
<1>14. AwaitedIsPool(job, pending, awaited)'
  <2>1. \A q \in awaited' : pending'[q] # NoJob /\ job'[pending'[q]].pool = "awaited"
    <3> SUFFICES ASSUME NEW q \in awaited' PROVE pending'[q] # NoJob /\ job'[pending'[q]].pool = "awaited"
      OBVIOUS
    <3>1. CASE q = k
      BY <1>1, <1>3, <1>5, <1>8, <1>9, <1>10, <3>1
    <3>2. CASE q # k
      <4>1. q \in a /\ q \in Keys \ {k}
        BY <1>1, <1>2, <3>2 DEF Sound, Typed
      <4> QED
        BY <1>2, <1>9, <1>10, <4>1 DEF Sound, AwaitedIsPool
    <3> QED
      BY <3>1, <3>2
  <2>2. \A j \in Jobs : job'[j].phase \in Flying /\ job'[j].pool = "awaited" => job'[j].key \in awaited'
    BY <1>1, <1>2, <1>8, <1>9 DEF Sound, AwaitedIsPool
  <2> QED
    BY <2>1, <2>2 DEF AwaitedIsPool
<1>15. NoneBacksOff(job)'
  BY <1>1, <1>2, <1>4, <1>8, <1>9 DEF Sound, NoneBacksOff
<1>16. Callers'
  <2>1. \A u \in Threads : caller[u] \in [at : {"idle", "register", "wait"}, job : 0..n, waits : BOOLEAN]
    BY <1>5 DEF Inv, Callers, CallerState
  <2>2. [at |-> "register", job |-> n, waits |-> waits] \in [at : {"idle", "register", "wait"}, job : 0..n, waits : BOOLEAN]
    BY <1>5
  <2>3. caller' \in [Threads -> CallerState']
    BY <1>1, <2>1, <2>2 DEF Inv, Callers, CallerState
  <2> QED
    BY <1>1, <1>5, <2>3 DEF Inv, Callers
<1>17. Served(job)'
  <2> SUFFICES ASSUME NEW u \in Threads, caller'[u].at # "idle", caller'[u].waits
               PROVE  /\ job'[caller'[u].job].phase # "cancelled"
                      /\ job'[caller'[u].job].phase = "queued" => job'[caller'[u].job].pool = "awaited"
    BY DEF Served
  <2>1. CASE u = t
    BY <1>1, <1>8, <1>9, <2>1 DEF Inv, Callers
  <2>2. CASE u # t
    <3>1. caller'[u] = caller[u] /\ caller[u].job \in Jobs \ {n}
      BY <1>1, <1>5, <2>2, CallersJobs DEF Inv, Callers
    <3> QED
      BY <1>6, <1>9, <3>1 DEF Served
  <2> QED
    BY <2>1, <2>2
<1>18. (Cardinality(InBackground(job)) <= Limit)'
  <2>1. CASE waits
    <3>1. InBackground(job') \subseteq InBackground(job)
      BY <1>6, <1>8, <1>9, <2>1 DEF InBackground
    <3> QED
      BY <3>1, StaysBounded DEF Inv, InBackground
  <2>2. CASE ~waits
    <3>1. InBackground(job') \subseteq InBackground(job) \cup {n}
      BY <1>6, <1>9 DEF InBackground
    <3>2. Cardinality(InBackground(job) \cup {n}) <= Cardinality(InBackground(job)) + 1
      <4>1. IsFiniteSet(InBackground(job)) /\ Cardinality(InBackground(job)) \in Nat
        BY BackgroundFinite, FS_CardinalityType
      <4>2. Cardinality(InBackground(job) \cup {n}) =
              IF n \in InBackground(job) THEN Cardinality(InBackground(job)) ELSE Cardinality(InBackground(job)) + 1
        BY <4>1, FS_AddElement
      <4> QED
        BY <4>1, <4>2
    <3>3. IsFiniteSet(InBackground(job) \cup {n})
      BY BackgroundFinite, FS_AddElement
    <3>4. Cardinality(InBackground(job')) <= Cardinality(InBackground(job) \cup {n})
      BY <3>1, <3>3, FS_Subset
    <3>5. /\ Cardinality(InBackground(job)) \in Nat /\ Cardinality(InBackground(job')) \in Nat
          /\ Cardinality(InBackground(job) \cup {n}) \in Nat
      BY <3>3, BackgroundFinite, FS_CardinalityType
    <3>6. Cardinality(InBackground(job')) <= Limit
      BY <1>7, <2>2, <3>2, <3>4, <3>5, BoundAssumption
    <3> QED
      BY <3>6 DEF InBackground
  <2> QED
    BY <2>1, <2>2
<1> QED
  BY <1>1, <1>11, <1>12, <1>13, <1>14, <1>15, <1>16, <1>17, <1>18 DEF Inv, Sound

\* A step that lets jobs go on, and none back into the queue or into the air, keeps the
\* invariant, if no background refresh still in the queue is made to back off.
LEMMA JobsGoOn ==
  ASSUME Inv, UNCHANGED <<made, pending, awaited>>, backoff' \subseteq Keys,
         job' \in [Jobs -> JobState],
         \A j \in Jobs : /\ job'[j].key = job[j].key /\ job'[j].pool = job[j].pool
                         /\ job'[j].phase = "unmade" <=> job[j].phase = "unmade"
                         /\ job'[j].phase \in Flying => job[j].phase \in Flying
                         /\ job'[j].phase = "queued" => job[j].phase = "queued"
                         /\ job'[j].phase = "cancelled" => job[j].phase = "cancelled",
         \A j \in Jobs : job'[j].phase = "queued" /\ job[j].key \in backoff' => job[j].key \in backoff,
         caller' \in [Threads -> CallerState],
         \A t \in Threads : caller'[t].at # "idle" =>
            /\ caller[t].at # "idle" /\ caller'[t].job = caller[t].job /\ caller'[t].waits = caller[t].waits
            /\ caller'[t].at = "wait" => caller[t].waits
  PROVE  Inv'
<1>1. Sound(made, job, pending, awaited)'
  <2>1. \A k \in Keys : pending[k] # NoJob => pending[k] \in Jobs
    BY MadeAreJobs DEF Inv, Sound, Typed
  <2>2. Typed(made, job, pending, awaited)'
    BY DEF Inv, Sound, Typed
  <2>3. NamesItsKey(job, pending)'
    BY <2>1 DEF Inv, Sound, NamesItsKey
  <2>4. FlyingIsPending(job, pending)'
    BY DEF Inv, Sound, FlyingIsPending
  <2>5. AwaitedIsPool(job, pending, awaited)'
    BY <2>1 DEF Inv, Sound, Typed, AwaitedIsPool
  <2>6. NoneBacksOff(job)'
    BY DEF Inv, Sound, NoneBacksOff
  <2> QED
    BY <2>2, <2>3, <2>4, <2>5, <2>6 DEF Sound
<1>2. \A t \in Threads : caller[t].at # "idle" => caller[t].job \in Jobs
  BY CallersJobs
<1>3. Callers'
  BY DEF Inv, Callers, CallerState
<1>4. Served(job)'
  BY <1>2 DEF Inv, Served
<1>5. InBackground(job') \subseteq InBackground(job)
  BY DEF InBackground
<1>6. (Cardinality(InBackground(job)) <= Limit)'
  BY <1>5, StaysBounded DEF Inv, InBackground
<1> QED
  BY <1>1, <1>3, <1>4, <1>6 DEF Inv

\* Only a running refresh makes its key back off, and no other of its key is queued.
LEMMA WorkInv ==
  ASSUME Inv, NEW j \in Jobs, Start(j) \/ End(j) \/ SetResult(j)
  PROVE  Inv'
<1>1. /\ job[j].phase \in Flying /\ job[j] \in JobState /\ job \in [Jobs -> JobState]
      /\ UNCHANGED <<made, pending, awaited, caller>>
  BY DEF Inv, Sound, Typed, Start, End, SetResult, Flying
<1>2. PICK ph \in {"running", "ended", "done"} : job' = [job EXCEPT ![j].phase = ph]
  BY DEF Start, End, SetResult
<1>3. /\ job' \in [Jobs -> JobState] /\ job'[j].phase = ph /\ job'[j].key = job[j].key /\ job'[j].pool = job[j].pool
      /\ \A i \in Jobs \ {j} : job'[i] = job[i]
  BY <1>1, <1>2 DEF JobState, Phases
<1>4. backoff' \subseteq Keys /\ \A k \in Keys : k \in backoff' => k \in backoff \/ k = job[j].key
  BY <1>1 DEF Inv, Sound, Typed, Start, End, SetResult, Flying
<1>5. \A i \in Jobs \ {j} : job[i].phase = "queued" => job[i].key # job[j].key
  BY <1>1 DEF Inv, Sound, FlyingIsPending, Flying
<1>6. \A i \in Jobs : job'[i].phase = "queued" /\ job[i].key \in backoff' => job[i].key \in backoff
  BY <1>3, <1>4, <1>5 DEF Inv, Sound, Typed
<1>7. caller' \in [Threads -> CallerState] /\ caller' = caller
  BY <1>1 DEF Inv, Callers
<1> QED
  BY <1>1, <1>3, <1>4, <1>6, <1>7, JobsGoOn DEF Flying, Inv, Callers

LEMMA RegisterInv == ASSUME Inv, NEW t \in Threads, Register(t) PROVE Inv'
<1>1. caller[t].job \in Jobs
  BY CallersJobs DEF Register
<1>2. /\ job' \in [Jobs -> JobState]
      /\ \A j \in Jobs : job'[j].key = job[j].key /\ job'[j].pool = job[j].pool /\ job'[j].phase = job[j].phase
  BY <1>1 DEF Register, Inv, Sound, Typed, JobState
<1>3. caller' \in [Threads -> CallerState]
  <2>1. /\ caller[t] \in CallerState /\ Away \in CallerState /\ caller \in [Threads -> CallerState]
        /\ [caller[t] EXCEPT !.at = "wait"] \in CallerState
    BY DEF Inv, Sound, Typed, Callers, CallerState, Away, NoJob
  <2> QED
    BY <2>1 DEF Register
<1>4. \A u \in Threads : caller'[u].at # "idle" =>
        /\ caller[u].at # "idle" /\ caller'[u].job = caller[u].job /\ caller'[u].waits = caller[u].waits
        /\ caller'[u].at = "wait" => caller[u].waits
  <2>1. caller \in [Threads -> CallerState] /\ \A u \in Threads : caller[u].at = "wait" => caller[u].waits
    BY DEF Inv, Callers
  <2> QED
    BY <2>1 DEF Register, CallerState, Away
<1> QED
  BY <1>2, <1>3, <1>4, JobsGoOn DEF Register, Inv

LEMMA AnswerInv == ASSUME Inv, NEW t \in Threads, Answer(t) PROVE Inv'
<1>1. caller' \in [Threads -> CallerState]
  BY DEF Answer, Inv, Sound, Typed, Callers, CallerState, Away, NoJob
<1>2. \A u \in Threads : caller'[u].at # "idle" => caller'[u] = caller[u]
  BY DEF Answer, Inv, Callers, Away
<1> QED
  BY <1>1, <1>2, JobsGoOn DEF Answer, Inv, Sound, Typed, Callers

LEMMA RetryInv == ASSUME Inv, MayRetry PROVE Inv'
<1>1. backoff' \subseteq backoff /\ UNCHANGED <<made, job, pending, awaited, caller>>
  BY DEF MayRetry
<1> QED
  BY <1>1, JobsGoOn DEF Inv, Sound, Typed, Callers

\* A future that is over is nobody's pending refresh, so forgetting it loses nothing.
LEMMA ForgetInv == ASSUME Inv, NEW j \in Jobs, Forget(j) PROVE Inv'
<1> DEFINE k == job[j].key
<1>1. job[j].phase \notin Flying /\ UNCHANGED <<made, backoff, caller>>
  BY DEF Forget, Over, Flying
<1>2. /\ job' \in [Jobs -> JobState]
      /\ \A i \in Jobs : job'[i].key = job[i].key /\ job'[i].pool = job[i].pool /\ job'[i].phase = job[i].phase
  BY DEF Forget, Inv, Sound, Typed, JobState
<1>3. pending \in [Keys -> 0..made] /\ NoJob \in 0..made /\ \A q \in Keys : pending[q] # NoJob => pending[q] \in Jobs
  BY MadeAreJobs DEF Inv, Sound, Typed, NoJob
<1>4. /\ pending' \in [Keys -> 0..made] /\ awaited' \subseteq awaited
      /\ \A q \in Keys : pending'[q] = pending[q] \/ (pending[q] = j /\ pending'[q] = NoJob /\ q \notin awaited')
      /\ \A q \in awaited : q \in awaited' \/ pending[q] = j
  <2>1. CASE IsPending(j)
    BY <1>3, <2>1 DEF Forget, IsPending
  <2>2. CASE ~IsPending(j)
    BY <1>3, <2>2 DEF Forget
  <2> QED
    BY <2>1, <2>2
<1>5. \A i \in Jobs : job[i].phase \in Flying =>
        job[i].key \in Keys /\ pending[job[i].key] = i /\ pending'[job[i].key] = i
  BY <1>1, <1>4 DEF Inv, Sound, Typed, FlyingIsPending, Flying
<1>6. Typed(made, job, pending, awaited)'
  BY <1>1, <1>2, <1>4 DEF Inv, Sound, Typed
<1>7. NamesItsKey(job, pending)'
  BY <1>2, <1>3, <1>4 DEF Inv, Sound, NamesItsKey
<1>8. FlyingIsPending(job, pending)'
  BY <1>2, <1>5 DEF FlyingIsPending
<1>9. AwaitedIsPool(job, pending, awaited)'
  <2>1. \A q \in awaited' : pending'[q] # NoJob /\ job'[pending'[q]].pool = "awaited"
    BY <1>2, <1>3, <1>4 DEF Inv, Sound, Typed, AwaitedIsPool
  <2>2. \A i \in Jobs : job'[i].phase \in Flying /\ job'[i].pool = "awaited" => job'[i].key \in awaited'
    BY <1>1, <1>2, <1>4, <1>5 DEF Inv, Sound, AwaitedIsPool
  <2> QED
    BY <2>1, <2>2 DEF AwaitedIsPool
<1>10. NoneBacksOff(job)'
  BY <1>1, <1>2 DEF Inv, Sound, NoneBacksOff
<1>11. Callers' /\ Served(job)'
  <2>1. \A t \in Threads : caller[t].at # "idle" => caller[t].job \in Jobs
    BY CallersJobs
  <2> QED
    BY <1>1, <1>2, <2>1 DEF Inv, Callers, CallerState, Served
<1>12. (Cardinality(InBackground(job)) <= Limit)'
  <2>1. InBackground(job') \subseteq InBackground(job)
    BY <1>2 DEF InBackground
  <2> QED
    BY <2>1, StaysBounded DEF Inv, InBackground
<1> QED
  BY <1>1, <1>6, <1>7, <1>8, <1>9, <1>10, <1>11, <1>12 DEF Inv, Sound

LEMMA NextInv == Inv /\ [Next]_refreshVars => Inv'
<1> SUFFICES ASSUME Inv, [Next]_refreshVars PROVE Inv'
  OBVIOUS
<1>1. ASSUME NEW t \in Threads, Ask(t) PROVE Inv'
  <2>1. PICK k \in Keys, waits \in BOOLEAN, force \in BOOLEAN :
          /\ force => waits
          /\ Join(t, k, waits) \/ Refuse(t, k, waits, force) \/ Submit(t, k, waits, force)
    BY <1>1 DEF Ask
  <2> QED
    BY <1>1, <2>1, JoinInv, RefuseInv, SubmitInv DEF Ask
<1>2. ASSUME NEW t \in Threads, Register(t) \/ Answer(t) PROVE Inv'
  BY <1>2, RegisterInv, AnswerInv
<1>3. ASSUME NEW j \in Jobs, Work(j) PROVE Inv'
  BY <1>3, WorkInv, ForgetInv DEF Work
<1>4. CASE MayRetry
  BY <1>4, RetryInv
<1>5. CASE UNCHANGED refreshVars
  BY <1>5, JobsGoOn DEF refreshVars, Inv, Sound, Typed, Callers
<1> QED
  BY <1>1, <1>2, <1>3, <1>4, <1>5 DEF Next

LEMMA SpecInv == Spec => []Inv
  BY InitInv, NextInv, PTL DEF Spec

-----------------------------------------------------------------------------
(* What every state has *)

LEMMA OneInTheAir == ASSUME Inv, NEW k \in Keys PROVE Active(k) \subseteq {pending[k]}
  BY DEF Inv, Sound, FlyingIsPending, Active, Flying

LEMMA InvServes == Inv => FlightsServed
<1> SUFFICES ASSUME Inv PROVE FlightsServed
  OBVIOUS
<1>1. TypeOK
  <2>1. \A j \in Jobs : job[j] \in JobState
    BY DEF Inv, Sound, Typed
  <2>2. \A k \in Keys : pending[k] \in 0..made /\ (pending[k] # NoJob => job[pending[k]].key = k)
    BY DEF Inv, Sound, Typed, NamesItsKey
  <2>3. made \in Nat /\ \A k \in Keys : pending[k] <= made
    BY <2>2, BoundAssumption DEF Inv, Sound, Typed
  <2> QED
    BY <2>1, <2>2, <2>3 DEF TypeOK, Inv, Sound, Typed, AwaitedIsPool, JobState, Phases
<1>2. OneAtATime
  <2> SUFFICES ASSUME NEW k \in Keys PROVE Cardinality(Active(k)) <= 1
    BY DEF OneAtATime
  <2>1. IsFiniteSet({pending[k]}) /\ Cardinality({pending[k]}) = 1
    BY FS_Singleton
  <2> QED
    BY <2>1, OneInTheAir, FS_Subset
<1>3. WaitersAreServed
  BY DEF WaitersAreServed, Inv, Callers, Served
<1>4. BacklogBounded
  BY DEF BacklogBounded, Inv, InBackground, Flying
<1> QED
  BY <1>1, <1>2, <1>3, <1>4 DEF FlightsServed

(* Every key has one refresh at a time, every waiting caller a refresh     *)
(* that nobody takes away, and the background its limit                    *)
(* (cache_refresh_helpers.py, _submit).                                    *)
THEOREM FlightsServedAlways == Spec => []FlightsServed
  BY SpecInv, InvServes, PTL

-----------------------------------------------------------------------------
(* The coordinator implements SingleFlight *)

\* What is seen of a key is the phase of its one refresh.
Seen ==
  \A k \in Keys :
    /\ \A j \in Jobs : job[j].key = k /\ job[j].phase \in Flying =>
          Flight[k] = IF job[j].phase = "queued" THEN "queued" ELSE "running"
    /\ (\A j \in Jobs : job[j].phase \in Flying => job[j].key # k) => Flight[k] = "idle"

LEMMA FlightSeen == Inv => Seen
<1> SUFFICES ASSUME Inv, NEW k \in Keys
             PROVE  /\ \A j \in Jobs : job[j].key = k /\ job[j].phase \in Flying =>
                         Flight[k] = IF job[j].phase = "queued" THEN "queued" ELSE "running"
                    /\ (\A j \in Jobs : job[j].phase \in Flying => job[j].key # k) => Flight[k] = "idle"
  BY DEF Seen
<1>1. ASSUME NEW j \in Jobs, job[j].key = k, job[j].phase \in Flying
      PROVE  Flight[k] = IF job[j].phase = "queued" THEN "queued" ELSE "running"
  <2>1. Active(k) = {j}
    BY <1>1, OneInTheAir DEF Active, Flying
  <2> QED
    BY <1>1, <2>1 DEF Flight, Flying
<1>2. ASSUME \A j \in Jobs : job[j].phase \in Flying => job[j].key # k PROVE Flight[k] = "idle"
  <2>1. Active(k) = {}
    BY <1>2 DEF Active, Flying
  <2> QED
    BY <2>1 DEF Flight
<1> QED
  BY <1>1, <1>2

LEMMA FlightSeenNext == Inv' => Seen'
  BY FlightSeen, PTL

\* A key none of whose refreshes comes, goes or moves is seen as before.
LEMMA SeenAsBefore ==
  ASSUME Inv, Inv', NEW k \in Keys,
         \A j \in Jobs :
           /\ (job[j].key = k /\ job[j].phase \in Flying) <=> (job'[j].key = k /\ job'[j].phase \in Flying)
           /\ job[j].key = k /\ job[j].phase \in Flying => (job[j].phase = "queued" <=> job'[j].phase = "queued")
  PROVE  Flight'[k] = Flight[k]
<1>1. Seen /\ Seen'
  BY FlightSeen, FlightSeenNext
<1>2. CASE \E j \in Jobs : job[j].key = k /\ job[j].phase \in Flying
  BY <1>1, <1>2 DEF Seen
<1>3. CASE ~\E j \in Jobs : job[j].key = k /\ job[j].phase \in Flying
  BY <1>1, <1>3 DEF Seen
<1> QED
  BY <1>2, <1>3

LEMMA FlightOfKeys == /\ Flight = [k \in Keys |-> Flight[k]]
                      /\ Flight' = [k \in Keys |-> Flight'[k]]
  BY DEF Flight

\* One key that moves while the others are seen as before makes the step of SingleFlight.
LEMMA OneMoves ==
  ASSUME NEW k \in Keys, NEW from, NEW to, Flight[k] = from, Flight'[k] = to,
         \A q \in Keys \ {k} : Flight'[q] = Flight[q]
  PROVE  Promise!Moves(k, from, to)
<1>1. Flight' = [Flight EXCEPT ![k] = to]
  BY FlightOfKeys
<1> QED
  BY <1>1 DEF Promise!Moves

LEMMA SeenUnchanged ==
  ASSUME \A k \in Keys : Flight'[k] = Flight[k]
  PROVE  UNCHANGED Flight
  BY FlightOfKeys

\* When a waiting caller takes a refresh off its queue the key stays queued: the new
\* one takes its place.
LEMMA SubmitAccepts ==
  ASSUME Inv, Inv', NEW t \in Threads, NEW k \in Keys, NEW waits \in BOOLEAN, NEW force \in BOOLEAN,
         Submit(t, k, waits, force)
  PROVE  Promise!Next \/ UNCHANGED Flight
<1> DEFINE n == made + 1
           b == JobsThen(k, waits)
<1>1. n \in Jobs /\ job[n].phase = "unmade" /\ n \notin 1..made
  BY BoundAssumption DEF Submit, Inv, Sound, Typed, Jobs
<1>2. /\ \A j \in Jobs : b[j].key = job[j].key
      /\ \A j \in Jobs : b[j].phase = IF Takes(k, waits) /\ j = Live[k] THEN "cancelled" ELSE job[j].phase
      /\ Takes(k, waits) => Live[k] \in 1..made /\ job[Live[k]].key = k /\ job[Live[k]].phase = "queued"
      /\ \A j \in Jobs : b[j].phase \in Flying => job[j].key # k
      /\ b \in [Jobs -> JobState]
  BY TakenSound DEF Submit, Sound, Typed
<1>3. /\ \A j \in Jobs \ {n} : job'[j] = b[j]
      /\ job'[n].key = k /\ job'[n].phase = "queued"
  <2> HIDE DEF b
  <2>1. job' = [b EXCEPT ![n] = [key |-> k, pool |-> IF waits THEN "awaited" ELSE "background",
                                 phase |-> "queued", callback |-> "unset"]]
    BY DEF Submit, b
  <2> QED
    BY <1>1, <1>2, <2>1
<1> HIDE DEF n, b
<1>4. Flight'[k] = "queued"
  BY <1>1, <1>3, FlightSeenNext DEF Seen, Flying
<1>5. \A q \in Keys \ {k} : Flight'[q] = Flight[q]
  <2> SUFFICES ASSUME NEW q \in Keys \ {k} PROVE Flight'[q] = Flight[q]
    OBVIOUS
  <2>1. ASSUME NEW j \in Jobs \ {n}, job[j].key = q
        PROVE  job'[j].key = q /\ job'[j].phase = job[j].phase
    BY <1>2, <1>3, <2>1
  <2> QED
    <3>1. \A j \in Jobs \ {n} :
            job'[j].key = job[j].key /\ (job[j].key = q => job'[j].phase = job[j].phase)
      BY <1>2, <1>3, <2>1
    <3>2. job[n].phase \notin Flying /\ job'[n].key # q
      BY <1>1, <1>3 DEF Flying
    <3>3. ASSUME NEW j \in Jobs
          PROVE  /\ (job[j].key = q /\ job[j].phase \in Flying) <=> (job'[j].key = q /\ job'[j].phase \in Flying)
                 /\ job[j].key = q /\ job[j].phase \in Flying => (job[j].phase = "queued" <=> job'[j].phase = "queued")
      BY <3>1, <3>2
    <3> QED
      BY <3>3, SeenAsBefore
<1>6. CASE Takes(k, waits)
  <2>1. Live[k] \in Jobs
    BY <1>2, <1>6, MadeAreJobs DEF Inv, Sound, Typed
  <2>2. Flight[k] = "queued"
    BY <1>2, <1>6, <2>1, FlightSeen DEF Seen, Flying
  <2> QED
    BY <1>4, <1>5, <2>2, SeenUnchanged
<1>7. CASE ~Takes(k, waits)
  <2>1. \A j \in Jobs : job[j].phase \in Flying => job[j].key # k
    BY <1>2, <1>7
  <2>2. Flight[k] = "idle"
    BY <2>1, FlightSeen DEF Seen
  <2> QED
    BY <1>4, <1>5, <2>2, OneMoves DEF Promise!Next, Promise!Accept
<1> QED
  BY <1>6, <1>7

\* A background refresh that backs off is not in the queue, so a caller that is refused
\* took none.
LEMMA RefuseTakesNone ==
  ASSUME Inv, NEW t \in Threads, NEW k \in Keys, NEW waits \in BOOLEAN, NEW force \in BOOLEAN,
         Refuse(t, k, waits, force)
  PROVE  UNCHANGED job
<1>1. ~Takes(k, waits)
  <2> SUFFICES ASSUME Takes(k, waits) PROVE FALSE
    OBVIOUS
  <2>1. k \in backoff
    BY DEF Refuse, Refuses, Takes
  <2>2. Live[k] \in Jobs
    <3>1. made \in 0..MaxJobs
      BY DEF Inv, Sound, Typed
    <3>2. Live[k] \in 1..made
      BY TakenSound
    <3> QED
      BY <3>1, <3>2, MadeAreJobs
  <2> QED
    BY <2>1, <2>2, TakenSound DEF Inv, Sound, NoneBacksOff
<1> QED
  BY <1>1 DEF Refuse, JobsThen

LEMMA WorkMoves ==
  ASSUME Inv, Inv', NEW j \in Jobs, Start(j) \/ End(j) \/ SetResult(j)
  PROVE  Promise!Next \/ UNCHANGED Flight
<1> DEFINE k == job[j].key
<1>1. /\ job[j].phase \in Flying /\ k \in Keys /\ job \in [Jobs -> JobState]
  BY DEF Inv, Sound, Typed, Start, End, SetResult, Flying
<1>2. /\ \/ job[j].phase = "queued" /\ job'[j].phase = "running"
         \/ job[j].phase = "running" /\ job'[j].phase = "ended"
         \/ job[j].phase = "ended" /\ job'[j].phase = "done"
      /\ job'[j].key = k /\ \A i \in Jobs \ {j} : job'[i] = job[i]
  BY <1>1 DEF Start, End, SetResult, JobState
<1>3. \A i \in Jobs \ {j} : job[i].phase \in Flying => job[i].key # k
  BY <1>1 DEF Inv, Sound, FlyingIsPending
<1>4. \A q \in Keys \ {k} : Flight'[q] = Flight[q]
  BY <1>2, SeenAsBefore
<1>5. Flight[k] = IF job[j].phase = "queued" THEN "queued" ELSE "running"
  BY <1>1, FlightSeen DEF Seen
<1>6. job'[j].phase \in Flying => Flight'[k] = IF job'[j].phase = "queued" THEN "queued" ELSE "running"
  BY <1>1, <1>2, FlightSeenNext DEF Seen
<1>7. job'[j].phase \notin Flying => Flight'[k] = "idle"
  <2> SUFFICES ASSUME job'[j].phase \notin Flying PROVE Flight'[k] = "idle"
    OBVIOUS
  <2>1. \A i \in Jobs : job'[i].phase \in Flying => job'[i].key # k
    BY <1>2, <1>3
  <2> QED
    BY <1>1, <2>1, FlightSeenNext DEF Seen
<1> HIDE DEF k
<1>8. CASE job[j].phase = "queued" /\ job'[j].phase = "running"
  <2>1. Flight[k] = "queued" /\ Flight'[k] = "running"
    BY <1>5, <1>6, <1>8 DEF Flying
  <2> QED
    BY <1>1, <1>4, <2>1, OneMoves DEF Promise!Next, Promise!Begin
<1>9. CASE job[j].phase = "running" /\ job'[j].phase = "ended"
  <2>1. Flight[k] = "running" /\ Flight'[k] = "running"
    BY <1>5, <1>6, <1>9 DEF Flying
  <2> QED
    BY <1>4, <2>1, SeenUnchanged
<1>10. CASE job[j].phase = "ended" /\ job'[j].phase = "done"
  <2>1. Flight[k] = "running" /\ Flight'[k] = "idle"
    BY <1>5, <1>7, <1>10 DEF Flying
  <2> QED
    BY <1>1, <1>4, <2>1, OneMoves DEF Promise!Next, Promise!Finish
<1> QED
  BY <1>2, <1>8, <1>9, <1>10

\* What only touches callbacks, callers or _retry_after is not seen.
LEMMA NotSeen ==
  ASSUME Inv, Inv',
         \A j \in Jobs : job'[j].key = job[j].key /\ job'[j].phase = job[j].phase
  PROVE  UNCHANGED Flight
<1>1. \A k \in Keys : Flight'[k] = Flight[k]
  BY SeenAsBefore
<1> QED
  BY <1>1, SeenUnchanged

LEMMA PromiseInit == Init => Promise!Init
<1> SUFFICES ASSUME Init PROVE Promise!Init
  OBVIOUS
<1>1. \A k \in Keys : Active(k) = {}
  BY DEF Init, Active, Unmade
<1> QED
  BY <1>1 DEF Promise!Init, Flight

LEMMA PromiseNext == Inv /\ Inv' /\ [Next]_refreshVars => [Promise!Next]_Flight
<1> SUFFICES ASSUME Inv, Inv', [Next]_refreshVars PROVE Promise!Next \/ UNCHANGED Flight
  OBVIOUS
<1>1. ASSUME NEW t \in Threads, Ask(t) PROVE Promise!Next \/ UNCHANGED Flight
  <2>1. PICK k \in Keys, waits \in BOOLEAN, force \in BOOLEAN :
          Join(t, k, waits) \/ Refuse(t, k, waits, force) \/ Submit(t, k, waits, force)
    BY <1>1 DEF Ask
  <2>2. CASE Join(t, k, waits)
    BY <2>2, NotSeen DEF Join
  <2>3. CASE Refuse(t, k, waits, force)
    BY <2>3, RefuseTakesNone, NotSeen
  <2>4. CASE Submit(t, k, waits, force)
    BY <2>4, SubmitAccepts
  <2> QED
    BY <2>1, <2>2, <2>3, <2>4
<1>2. ASSUME NEW t \in Threads, Register(t) PROVE UNCHANGED Flight
  <2>1. \A j \in Jobs : job'[j].key = job[j].key /\ job'[j].phase = job[j].phase
    BY <1>2 DEF Register, Inv, Sound, Typed, JobState
  <2> QED
    BY <2>1, NotSeen
<1>3. ASSUME NEW t \in Threads, Answer(t) PROVE UNCHANGED Flight
  BY <1>3, NotSeen DEF Answer
<1>4. ASSUME NEW j \in Jobs, Start(j) \/ End(j) \/ SetResult(j) PROVE Promise!Next \/ UNCHANGED Flight
  BY <1>4, WorkMoves
<1>5. ASSUME NEW j \in Jobs, Forget(j) PROVE UNCHANGED Flight
  <2>1. \A i \in Jobs : job'[i].key = job[i].key /\ job'[i].phase = job[i].phase
    BY <1>5 DEF Forget, Inv, Sound, Typed, JobState
  <2> QED
    BY <2>1, NotSeen
<1>6. CASE MayRetry \/ UNCHANGED refreshVars
  BY <1>6, NotSeen DEF MayRetry, refreshVars
<1> QED
  BY <1>1, <1>2, <1>3, <1>4, <1>5, <1>6 DEF Next, Work

(* A refresh that was accepted is carried out once, also when a waiting    *)
(* caller takes it off its queue: the coordinator implements SingleFlight. *)
THEOREM AcceptedIsCarriedOutAlways == Spec => AcceptedIsCarriedOut
<1>1. Init => Promise!Init
  BY PromiseInit
<1>2. Inv /\ Inv' /\ [Next]_refreshVars => [Promise!Next]_Flight
  BY PromiseNext
<1> QED
  BY <1>1, <1>2, SpecInv, PTL DEF Spec, AcceptedIsCarriedOut, Promise!Spec

-----------------------------------------------------------------------------
(* AccountPostings.  The ledger, what every thread holds and the rows of   *)
(* a subject are spoken of as any values of the three, so that a step can  *)
(* be argued about once for the subject it is about and once for all the   *)
(* others.                                                                 *)

RowsOf(l, s) == {i \in DOMAIN l : l[i].of = s}
BusyWith(th, s) == {t \in Operators : th[t].pc # "idle" /\ th[t].of = s}
Deleting == {"delete", "sibling"}
Making == {"in", "undo", "link"}
Deciding == {"post", "resolve", "dismiss"}

\* What a row links to, and the rows a thread holds, are rows of the same subject.
LinksWithin(l) ==
  \A i \in DOMAIN l : l[i].link \in 0 .. Len(l) \ {i} /\ (l[i].link # 0 => l[i].link \in RowsOf(l, l[i].of))
Placed(h, l) ==
  /\ h.txn \in 0 .. Len(l) /\ h.other \in 0 .. Len(l)
  /\ h.pc \in Deciding => h.of \in Occurrences
  /\ h.pc \in Making => h.of \in TransfersMade
  /\ h.pc \in Making \cup Deleting => h.txn \in RowsOf(l, h.of)
  /\ h.pc = "link" => h.other # h.txn
  /\ h.pc \in {"link", "sibling"} => h.other # 0
  /\ h.pc \in {"link", "delete", "sibling"} /\ h.other # 0 => h.other \in RowsOf(l, h.of)

PostTyped ==
  /\ entries \in Seq(Postings!Transaction) /\ LinksWithin(entries)
  /\ due \in [Occurrences -> Postings!Pending]
  /\ thread \in [Operators -> Postings!Local]
  /\ \A t \in Operators : Placed(thread[t], entries)
  /\ failed \subseteq Fallible /\ crashes \in 0 .. MaxCrashes
  /\ overlapped \in BOOLEAN /\ early \in BOOLEAN

\* The five states of a transfer while nothing has broken off.
NotMade(l, th, x) == RowsOf(l, x) = {} /\ BusyWith(th, x) = {}
HalfMade(l, th, x) == \E out \in DOMAIN l : \E t \in Operators :
  /\ RowsOf(l, x) = {out} /\ BusyWith(th, x) = {t}
  /\ l[out].leg = "out" /\ l[out].live
  /\ th[t].pc \in {"in", "undo"} /\ th[t].txn = out
Undone(l, th, x) == \E out \in DOMAIN l :
  RowsOf(l, x) = {out} /\ BusyWith(th, x) = {} /\ ~l[out].live
Legs(l, x, out, in) ==
  /\ RowsOf(l, x) = {out, in} /\ out # in
  /\ l[out].leg = "out" /\ l[in].leg = "in" /\ l[in].link = out
Unlinked(l, th, x) == \E out, in \in DOMAIN l : \E t \in Operators :
  /\ Legs(l, x, out, in) /\ l[out].live /\ l[in].live
  /\ BusyWith(th, x) = {t}
  /\ th[t].pc = "link" /\ th[t].txn = out /\ th[t].other = in
Deletes(h, i, j) == h.pc \in Deleting /\ h.txn = i /\ h.other = j
Follows(l, th, x, i, j) ==
  l[i].live /\ ~l[j].live => \E t \in BusyWith(th, x) : th[t].pc = "sibling" /\ th[t].other = i
Paired(l, th, x) == \E out, in \in DOMAIN l :
  /\ Legs(l, x, out, in) /\ l[out].link = in
  /\ \A t \in BusyWith(th, x) :
       /\ Deletes(th[t], out, in) \/ Deletes(th[t], in, out)
       /\ th[t].pc = "sibling" => ~l[th[t].txn].live
  /\ Follows(l, th, x, out, in) /\ Follows(l, th, x, in, out)
Unbroken(l, th, x) ==
  NotMade(l, th, x) \/ HalfMade(l, th, x) \/ Undone(l, th, x) \/ Unlinked(l, th, x) \/ Paired(l, th, x)

\* What is posted for an occurrence as long as the operations took turns; p is its pending row.
TakeTurns(th) == \A t, u \in Operators : th[t].pc # "idle" /\ th[u].pc # "idle" => t = u
Settled(l, th, d, p) ==
  /\ \A t \in BusyWith(th, d) : th[t].pc \in Deciding => p.status = "pending"
  /\ \A t \in BusyWith(th, d) : th[t].pc = "resolve" => RowsOf(l, d) = {th[t].txn}
  /\ (\A t \in BusyWith(th, d) : th[t].pc # "resolve") =>
       RowsOf(l, d) = IF p.status = "confirmed" THEN {p.txn} ELSE {}

TransfersUnbroken == Postings!NoneBroken => \A x \in TransfersMade : Unbroken(entries, thread, x)
OccurrencesSettled ==
  Postings!InTurn => TakeTurns(thread) /\ \A d \in Occurrences : Settled(entries, thread, d, due[d])
PostInv == PostTyped /\ TransfersUnbroken /\ OccurrencesSettled

-----------------------------------------------------------------------------
\* A step from the ledger l to m, and from the threads th to v, is about subject s: it adds
\* and changes rows of s only, and only thread t moves, which is at s or idle.
WritesFor(l, m, s) ==
  /\ DOMAIN l \subseteq DOMAIN m
  /\ \A i \in DOMAIN l : m[i].of = l[i].of /\ (l[i].of # s => m[i] = l[i])
  /\ \A i \in DOMAIN m \ DOMAIN l : m[i].of = s
MovesOnly(th, v, t, s) ==
  /\ \A u \in Operators \ {t} : v[u] = th[u]
  /\ th[t].pc # "idle" => th[t].of = s
  /\ v[t].pc # "idle" => v[t].of = s

\* Subject x is not touched.
Untouched(l, m, th, v, x) ==
  /\ RowsOf(m, x) = RowsOf(l, x) /\ BusyWith(v, x) = BusyWith(th, x)
  /\ \A i \in RowsOf(l, x) : m[i] = l[i] /\ i \in DOMAIN m
  /\ \A u \in BusyWith(th, x) : v[u] = th[u]

LEMMA OthersStay ==
  ASSUME NEW l, NEW m, NEW th, NEW v, NEW t \in Operators, NEW s, NEW x, x # s,
         WritesFor(l, m, s), MovesOnly(th, v, t, s)
  PROVE  Untouched(l, m, th, v, x)
<1>1. RowsOf(m, x) = RowsOf(l, x)
  BY DEF RowsOf, WritesFor
<1>2. t \notin BusyWith(th, x) /\ t \notin BusyWith(v, x)
  BY DEF MovesOnly, BusyWith
<1>3. \A u \in Operators \ {t} : v[u] = th[u]
  BY DEF MovesOnly
<1>4. BusyWith(v, x) = BusyWith(th, x)
  BY <1>2, <1>3 DEF BusyWith
<1>5. \A i \in RowsOf(l, x) : m[i] = l[i] /\ i \in DOMAIN m
  BY DEF RowsOf, WritesFor
<1> QED
  BY <1>1, <1>2, <1>3, <1>4, <1>5 DEF BusyWith, Untouched

LEMMA OthersUnbroken ==
  ASSUME NEW l, NEW m, NEW th, NEW v, NEW t \in Operators, NEW s, NEW x, x # s,
         WritesFor(l, m, s), MovesOnly(th, v, t, s), Unbroken(l, th, x)
  PROVE  Unbroken(m, v, x)
<1>1. /\ RowsOf(m, x) = RowsOf(l, x) /\ BusyWith(v, x) = BusyWith(th, x)
      /\ \A i \in RowsOf(l, x) : m[i] = l[i] /\ i \in DOMAIN m
      /\ \A u \in BusyWith(th, x) : v[u] = th[u]
  BY OthersStay DEF Untouched
<1>2. CASE NotMade(l, th, x)
  BY <1>1, <1>2 DEF NotMade, Unbroken
<1>3. CASE HalfMade(l, th, x)
  <2>1. HalfMade(m, v, x)
    BY <1>1, <1>3 DEF HalfMade
  <2> QED
    BY <2>1 DEF Unbroken
<1>4. CASE Undone(l, th, x)
  <2>1. Undone(m, v, x)
    BY <1>1, <1>4 DEF Undone
  <2> QED
    BY <2>1 DEF Unbroken
<1>5. CASE Unlinked(l, th, x)
  <2>1. Unlinked(m, v, x)
    BY <1>1, <1>5 DEF Unlinked, Legs
  <2> QED
    BY <2>1 DEF Unbroken
<1>6. CASE Paired(l, th, x)
  <2>1. PICK out, in \in DOMAIN l :
          /\ Legs(l, x, out, in) /\ l[out].link = in
          /\ \A u \in BusyWith(th, x) :
               /\ Deletes(th[u], out, in) \/ Deletes(th[u], in, out)
               /\ th[u].pc = "sibling" => ~l[th[u].txn].live
          /\ Follows(l, th, x, out, in) /\ Follows(l, th, x, in, out)
    BY <1>6 DEF Paired
  <2>2. m[out] = l[out] /\ m[in] = l[in] /\ {out, in} \subseteq DOMAIN m
    BY <1>1, <2>1 DEF Legs
  <2>3. Legs(m, x, out, in) /\ m[out].link = in
    BY <1>1, <2>1, <2>2 DEF Legs
  <2>4. \A u \in BusyWith(v, x) : Deletes(v[u], out, in) \/ Deletes(v[u], in, out)
    BY <1>1, <2>1
  <2>5. \A u \in BusyWith(v, x) : v[u].txn \in {out, in}
    BY <2>4 DEF Deletes
  <2>6. \A u \in BusyWith(v, x) : v[u].pc = "sibling" => ~m[v[u].txn].live
    BY <1>1, <2>1, <2>2, <2>5
  <2>7. Follows(m, v, x, out, in) /\ Follows(m, v, x, in, out)
    BY <1>1, <2>1, <2>2 DEF Follows
  <2>8. Paired(m, v, x)
    BY <2>2, <2>3, <2>4, <2>6, <2>7 DEF Paired
  <2> QED
    BY <2>8 DEF Unbroken
<1> QED
  BY <1>2, <1>3, <1>4, <1>5, <1>6 DEF Unbroken

LEMMA OthersSettled ==
  ASSUME NEW l, NEW m, NEW th, NEW v, NEW t \in Operators, NEW s, NEW x, x # s, NEW p,
         WritesFor(l, m, s), MovesOnly(th, v, t, s), Settled(l, th, x, p)
  PROVE  Settled(m, v, x, p)
<1>1. Untouched(l, m, th, v, x)
  BY OthersStay
<1> QED
  BY <1>1 DEF Settled, Untouched

\* What a thread holds stays held while rows are added and changed.
LEMMA PlacedStays ==
  ASSUME NEW l \in Seq(Postings!Transaction), NEW m \in Seq(Postings!Transaction), NEW s, NEW h,
         WritesFor(l, m, s), Placed(h, l)
  PROVE  Placed(h, m)
<1>1. Len(l) <= Len(m)
  BY DEF WritesFor
<1>2. \A q : RowsOf(l, q) \subseteq RowsOf(m, q)
  BY DEF WritesFor, RowsOf
<1> QED
  BY <1>1, <1>2 DEF Placed

LEMMA TypedStep ==
  ASSUME PostTyped, NEW t \in Operators, NEW s, WritesFor(entries, entries', s),
         thread' \in [Operators -> Postings!Local], MovesOnly(thread, thread', t, s),
         entries' \in Seq(Postings!Transaction), LinksWithin(entries)', Placed(thread[t], entries)',
         due' \in [Occurrences -> Postings!Pending],
         failed' \subseteq Fallible, crashes' = crashes, overlapped' \in BOOLEAN, early' \in BOOLEAN
  PROVE  PostTyped'
<1>1. \A u \in Operators : Placed(thread[u], entries)'
  <2> SUFFICES ASSUME NEW u \in Operators, u # t PROVE Placed(thread[u], entries)'
    OBVIOUS
  <2>1. Placed(thread[u], entries) /\ entries \in Seq(Postings!Transaction)
    BY DEF PostTyped
  <2>2. thread'[u] = thread[u]
    BY DEF MovesOnly
  <2> QED
    BY <2>1, <2>2, PlacedStays
<1> QED
  BY <1>1 DEF PostTyped

\* A step that keeps its own subject in order keeps them all.
LEMMA SubjectsStep ==
  ASSUME PostInv, PostTyped', NEW t \in Operators, NEW s, WritesFor(entries, entries', s), MovesOnly(thread, thread', t, s),
         \A d \in Occurrences \ {s} : due'[d] = due[d],
         failed \subseteq failed', crashes' = crashes, overlapped => overlapped', early => early',
         Postings!NoneBroken' /\ s \in TransfersMade => Unbroken(entries, thread, s)',
         Postings!InTurn' /\ s \in Occurrences => Settled(entries, thread, s, due[s])',
         Postings!InTurn' /\ thread[t].pc = "idle" => \A u \in Operators : thread[u].pc = "idle"
  PROVE  PostInv'
<1>1. Postings!NoneBroken' => Postings!NoneBroken
  BY DEF Postings!NoneBroken
<1>2. Postings!InTurn' => Postings!InTurn
  BY DEF Postings!InTurn
<1>3. TransfersUnbroken'
  BY <1>1, OthersUnbroken DEF TransfersUnbroken, PostInv
<1>4. ASSUME Postings!InTurn' PROVE TakeTurns(thread')
  <2>1. TakeTurns(thread) /\ \A u \in Operators \ {t} : thread'[u] = thread[u]
    BY <1>2, <1>4 DEF PostInv, OccurrencesSettled, MovesOnly
  <2>2. CASE thread[t].pc = "idle"
    BY <1>4, <2>1, <2>2 DEF TakeTurns
  <2>3. CASE thread[t].pc # "idle"
    BY <2>1, <2>3 DEF TakeTurns
  <2> QED
    BY <2>2, <2>3
<1>5. ASSUME Postings!InTurn', NEW d \in Occurrences PROVE Settled(entries', thread', d, due'[d])
  <2>1. CASE d = s
    BY <1>5, <2>1
  <2>2. CASE d # s
    BY <1>2, <1>5, <2>2, OthersSettled DEF PostInv, OccurrencesSettled
  <2> QED
    BY <2>1, <2>2
<1> QED
  BY <1>3, <1>4, <1>5 DEF PostInv, OccurrencesSettled

-----------------------------------------------------------------------------
(* The changes of the ledger *)

\* m is l with the row r at its end.
Extends(l, r, m) ==
  /\ m \in Seq(Postings!Transaction) /\ LinksWithin(m)
  /\ WritesFor(l, m, r.of)
  /\ Len(l) + 1 \notin DOMAIN l /\ DOMAIN m = DOMAIN l \cup {Len(l) + 1} /\ Len(m) = Len(l) + 1
  /\ \A i \in DOMAIN l : m[i] = l[i]
  /\ m[Len(l) + 1] = r
  /\ RowsOf(m, r.of) = RowsOf(l, r.of) \cup {Len(l) + 1}

LEMMA Rowed ==
  ASSUME NEW l \in Seq(Postings!Transaction), NEW r \in Postings!Transaction,
         LinksWithin(l), r.link = 0 \/ r.link \in RowsOf(l, r.of)
  PROVE  Extends(l, r, Append(l, r))
<1> DEFINE m == Append(l, r)
<1>1. /\ m \in Seq(Postings!Transaction) /\ Len(m) = Len(l) + 1 /\ m[Len(l) + 1] = r
      /\ \A i \in 1..Len(l) : m[i] = l[i]
  BY AppendProperties
<1>2. DOMAIN l = 1..Len(l) /\ DOMAIN m = 1..Len(m) /\ Len(l) \in Nat
  BY <1>1
<1> HIDE DEF m
<1>3. Len(l) + 1 \notin DOMAIN l /\ DOMAIN m = DOMAIN l \cup {Len(l) + 1}
  BY <1>1, <1>2
<1>4. \A i \in DOMAIN l : m[i] = l[i]
  BY <1>1, <1>2
<1>5. WritesFor(l, m, r.of) /\ RowsOf(m, r.of) = RowsOf(l, r.of) \cup {Len(l) + 1}
  BY <1>1, <1>3, <1>4 DEF WritesFor, RowsOf
<1>6. \A s : RowsOf(l, s) \subseteq RowsOf(m, s) /\ RowsOf(l, s) \subseteq 1..Len(l)
  BY <1>2, <1>3, <1>4 DEF RowsOf
<1>7. LinksWithin(m)
  <2> SUFFICES ASSUME NEW i \in DOMAIN m
               PROVE  m[i].link \in 0 .. Len(m) \ {i} /\ (m[i].link # 0 => m[i].link \in RowsOf(m, m[i].of))
    BY DEF LinksWithin
  <2>1. CASE i \in DOMAIN l
    <3>1. l[i].link \in 0 .. Len(l) \ {i} /\ (l[i].link # 0 => l[i].link \in RowsOf(l, l[i].of)) /\ m[i] = l[i]
      BY <1>4, <2>1 DEF LinksWithin
    <3>2. l[i].link \in 0 .. Len(m) \ {i}
      BY <1>1, <1>2, <3>1
    <3> QED
      BY <1>6, <3>1, <3>2
  <2>2. CASE i = Len(l) + 1
    <3>1. m[i] = r
      BY <1>1, <2>2
    <3>2. r.link = 0 \/ r.link \in 1..Len(l)
      BY <1>6
    <3>3. r.link \in 0 .. Len(m) \ {i}
      BY <1>1, <1>2, <2>2, <3>2
    <3> QED
      BY <1>6, <3>1, <3>3
  <2> QED
    BY <1>3, <2>1, <2>2
<1> QED
  BY <1>1, <1>3, <1>4, <1>5, <1>7 DEF Extends, m

\* m is l with r for its row i, of the same subject.
Replaces(l, i, r, m) ==
  /\ m \in Seq(Postings!Transaction) /\ LinksWithin(m)
  /\ WritesFor(l, m, r.of) /\ DOMAIN m = DOMAIN l
  /\ \A s : RowsOf(m, s) = RowsOf(l, s)
  /\ m[i] = r /\ \A j \in DOMAIN l \ {i} : m[j] = l[j]

LEMMA Altered ==
  ASSUME NEW l \in Seq(Postings!Transaction), NEW i \in DOMAIN l, NEW r \in Postings!Transaction,
         LinksWithin(l), r.of = l[i].of, r.link = l[i].link \/ r.link \in RowsOf(l, r.of) \ {i},
         NEW m, m = [l EXCEPT ![i] = r]
  PROVE  Replaces(l, i, r, m)
<1>1. i \in 1..Len(l) /\ DOMAIN l = 1..Len(l)
  OBVIOUS
<1>2. /\ m \in Seq(Postings!Transaction) /\ Len(m) = Len(l)
      /\ \A j \in 1..Len(l) : m[j] = IF j = i THEN r ELSE l[j]
  BY <1>1, ExceptSeq
<1>3. DOMAIN m = DOMAIN l /\ m[i] = r /\ \A j \in DOMAIN l \ {i} : m[j] = l[j]
  BY <1>1, <1>2
<1>4. WritesFor(l, m, r.of) /\ \A s : RowsOf(m, s) = RowsOf(l, s)
  BY <1>3 DEF WritesFor, RowsOf
<1>5. LinksWithin(m)
  <2> SUFFICES ASSUME NEW j \in DOMAIN l
               PROVE  m[j].link \in 0 .. Len(l) \ {j} /\ (m[j].link # 0 => m[j].link \in RowsOf(l, m[j].of))
    BY <1>2, <1>3, <1>4 DEF LinksWithin
  <2>1. l[j].link \in 0 .. Len(l) \ {j} /\ (l[j].link # 0 => l[j].link \in RowsOf(l, l[j].of))
    BY DEF LinksWithin
  <2>2. CASE j # i
    BY <1>3, <2>1, <2>2
  <2>3. CASE j = i /\ r.link = l[i].link
    BY <1>3, <2>1, <2>3
  <2>4. CASE j = i /\ r.link \in RowsOf(l, r.of) \ {i}
    <3>1. r.link \in 0 .. Len(l) \ {j}
      BY <1>1, <2>4 DEF RowsOf
    <3> QED
      BY <1>3, <2>4, <3>1
  <2> QED
    BY <2>2, <2>3, <2>4
<1> QED
  BY <1>2, <1>3, <1>4, <1>5 DEF Replaces

\* m is l with row i deleted.
Strikes(l, i, m) ==
  /\ m \in Seq(Postings!Transaction) /\ LinksWithin(m)
  /\ WritesFor(l, m, l[i].of) /\ DOMAIN m = DOMAIN l
  /\ \A s : RowsOf(m, s) = RowsOf(l, s)
  /\ \A j \in DOMAIN l : m[j].leg = l[j].leg /\ m[j].link = l[j].link
  /\ ~m[i].live /\ \A j \in DOMAIN l \ {i} : m[j].live = l[j].live

LEMMA Struck ==
  ASSUME NEW l \in Seq(Postings!Transaction), NEW i \in DOMAIN l, LinksWithin(l)
  PROVE  Strikes(l, i, [l EXCEPT ![i].live = FALSE])
<1> DEFINE m == [l EXCEPT ![i].live = FALSE]
<1> DEFINE r == [l[i] EXCEPT !.live = FALSE]
<1>1. l[i] \in Postings!Transaction
  OBVIOUS
<1>2. /\ r \in Postings!Transaction /\ r.of = l[i].of /\ r.leg = l[i].leg /\ r.link = l[i].link
      /\ ~r.live /\ m = [l EXCEPT ![i] = r]
  BY <1>1 DEF Postings!Transaction
<1> HIDE DEF r, m
<1>3. Replaces(l, i, r, m)
  BY <1>2, Altered
<1>4. Strikes(l, i, m)
  BY <1>2, <1>3 DEF Replaces, Strikes
<1> QED
  BY <1>4 DEF m

-----------------------------------------------------------------------------
(* The moves of a thread *)

LEMMA ThreadMoves ==
  ASSUME thread \in [Operators -> Postings!Local], NEW t \in Operators, NEW h \in Postings!Local, NEW s,
         thread' = [thread EXCEPT ![t] = h],
         thread[t].pc # "idle" => thread[t].of = s, h.pc # "idle" => h.of = s
  PROVE  /\ thread' \in [Operators -> Postings!Local] /\ thread'[t] = h
         /\ MovesOnly(thread, thread', t, s)
         /\ h.pc = "idle" => BusyWith(thread', s) = BusyWith(thread, s) \ {t}
         /\ h.pc # "idle" => BusyWith(thread', s) = BusyWith(thread, s) \cup {t}
<1>1. thread' \in [Operators -> Postings!Local] /\ thread'[t] = h
  OBVIOUS
<1>2. \A u \in Operators \ {t} : thread'[u] = thread[u]
  OBVIOUS
<1>3. h.pc = "idle" => BusyWith(thread', s) = BusyWith(thread, s) \ {t}
  BY <1>1, <1>2 DEF BusyWith
<1>4. h.pc # "idle" => BusyWith(thread', s) = BusyWith(thread, s) \cup {t}
  BY <1>1, <1>2 DEF BusyWith
<1> QED
  BY <1>1, <1>2, <1>3, <1>4 DEF MovesOnly

LEMMA IdleIsLocal ==
  /\ Postings!Idle \in Postings!Local /\ Postings!Idle.pc = "idle"
  /\ \A l \in Seq(Postings!Transaction) : Placed(Postings!Idle, l)
  BY DEF Postings!Idle, Postings!Local, Placed, Deciding, Making, Deleting

\* Whoever is busy while the operations take turns is alone.
LEMMA AloneAtWork ==
  ASSUME PostInv, Postings!InTurn, NEW t \in Operators, thread[t].pc # "idle", thread[t].of \in Occurrences
  PROVE  BusyWith(thread, thread[t].of) = {t}
  BY DEF PostInv, OccurrencesSettled, TakeTurns, BusyWith

\* What has happened once has happened.
LEMMA InTurnBefore ==
  ASSUME Postings!InTurn', failed \subseteq failed', crashes' = crashes, overlapped => overlapped'
  PROVE  Postings!InTurn
  BY DEF Postings!InTurn

LEMMA UnbrokenBefore ==
  ASSUME Postings!NoneBroken', failed \subseteq failed', crashes' = crashes, early => early'
  PROVE  Postings!NoneBroken
  BY DEF Postings!NoneBroken

\* What has failed only grows.
LEMMA FailedGrows ==
  /\ Postings!Works => failed' = failed
  /\ \A step : Postings!Fails(step) =>
       failed \subseteq failed' /\ step \in failed' /\ (failed \subseteq Fallible => failed' \subseteq Fallible)
  BY DEF Postings!Works, Postings!Fails

-----------------------------------------------------------------------------
(* Top-ups and reminders *)

LEMMA FallStep == ASSUME PostInv, NEW d \in Occurrences, Postings!Fall(d) PROVE PostInv'
<1>1. /\ UNCHANGED <<entries, thread, failed, crashes, overlapped, early>> /\ due[d].status = "none"
      /\ due' = [due EXCEPT ![d].status = "pending"] /\ due \in [Occurrences -> Postings!Pending]
  BY DEF Postings!Fall, PostInv, PostTyped
<1>2. /\ due' \in [Occurrences -> Postings!Pending] /\ due'[d].status = "pending"
      /\ \A e \in Occurrences \ {d} : due'[e] = due[e]
  BY <1>1 DEF Postings!Pending
<1>3. PostTyped'
  BY <1>1, <1>2 DEF PostInv, PostTyped
<1>4. TransfersUnbroken'
  BY <1>1 DEF PostInv, TransfersUnbroken, Postings!NoneBroken
<1>5. OccurrencesSettled'
  <2> SUFFICES ASSUME Postings!InTurn' PROVE TakeTurns(thread) /\ \A e \in Occurrences : Settled(entries, thread, e, due'[e])
    BY <1>1 DEF OccurrencesSettled
  <2>1. Postings!InTurn
    BY <1>1 DEF Postings!InTurn
  <2>2. TakeTurns(thread) /\ \A e \in Occurrences : Settled(entries, thread, e, due[e])
    BY <2>1 DEF PostInv, OccurrencesSettled
  <2>3. Settled(entries, thread, d, due[d])
    BY <2>2
  <2>4. \A u \in BusyWith(thread, d) : thread[u].pc \notin Deciding
    BY <1>1, <2>3 DEF Settled
  <2>5. RowsOf(entries, d) = {}
    BY <1>1, <2>3, <2>4 DEF Settled, Deciding
  <2>6. Settled(entries, thread, d, due'[d])
    BY <1>2, <2>4, <2>5 DEF Settled, Deciding
  <2> QED
    BY <1>2, <2>2, <2>6
<1> QED
  BY <1>3, <1>4, <1>5 DEF PostInv

LEMMA StartDecision ==
  ASSUME PostInv, NEW t \in Operators, NEW d \in Occurrences, NEW pc \in {"post", "dismiss"},
         Postings!Unresolved(d), Postings!Start(t, pc, d, 0, 0), UNCHANGED <<entries, due, failed, crashes, early>>
  PROVE  PostInv'
<1> DEFINE h == [pc |-> pc, of |-> d, txn |-> 0, other |-> 0]
<1>1. /\ thread[t].pc = "idle" /\ thread' = [thread EXCEPT ![t] = h] /\ due[d].status = "pending"
      /\ overlapped' = (overlapped \/ \E u \in Operators : thread[u].pc # "idle")
  BY DEF Postings!Start, Postings!At, Postings!Unresolved
<1>2. h \in Postings!Local /\ h.of = d /\ h.pc \in {"post", "dismiss"} /\ Placed(h, entries)
  BY DEF Postings!Local, Postings!Subjects, Placed, Deciding, Making, Deleting, PostInv, PostTyped
<1> HIDE DEF h
<1>3. /\ thread' \in [Operators -> Postings!Local] /\ thread'[t] = h
      /\ MovesOnly(thread, thread', t, d) /\ BusyWith(thread', d) = BusyWith(thread, d) \cup {t}
  BY <1>1, <1>2, ThreadMoves DEF PostInv, PostTyped
<1>4. WritesFor(entries, entries', d)
  BY DEF WritesFor
<1>5. overlapped' \in BOOLEAN
  BY <1>1 DEF PostInv, PostTyped
<1>6. PostTyped'
  BY <1>2, <1>3, <1>4, <1>5, TypedStep DEF PostInv, PostTyped
<1>7. ASSUME Postings!InTurn' PROVE Settled(entries, thread, d, due[d])' /\ \A u \in Operators : thread[u].pc = "idle"
  <2>1. Postings!InTurn /\ \A u \in Operators : thread[u].pc = "idle"
    BY <1>1, <1>7 DEF Postings!InTurn
  <2>2. Settled(entries, thread, d, due[d]) /\ BusyWith(thread, d) = {}
    BY <2>1 DEF PostInv, OccurrencesSettled, BusyWith
  <2>3. RowsOf(entries, d) = {}
    BY <1>1, <2>2 DEF Settled
  <2>4. Settled(entries, thread', d, due[d])
    BY <1>1, <1>2, <1>3, <2>2, <2>3 DEF Settled
  <2> QED
    BY <2>1, <2>4
<1>8. d \notin TransfersMade
  BY PostingsAssumption
<1> QED
  BY <1>1, <1>3, <1>4, <1>6, <1>7, <1>8, SubjectsStep

LEMMA PostCashStep == ASSUME PostInv, NEW t \in Operators, Postings!PostCash(t) PROVE PostInv'
<1> PICK d : d = thread[t].of
  OBVIOUS
<1>1. /\ thread[t].pc = "post" /\ UNCHANGED <<due, crashes, overlapped, early>>
      /\ thread[t] \in Postings!Local /\ thread \in [Operators -> Postings!Local]
      /\ entries \in Seq(Postings!Transaction) /\ LinksWithin(entries) /\ Len(entries) \in Nat
      /\ failed \subseteq Fallible /\ Placed(thread[t], entries)
  BY DEF Postings!PostCash, Postings!At, PostInv, PostTyped
<1>2. d \in Occurrences /\ d \notin TransfersMade
  BY <1>1, PostingsAssumption DEF Placed, Deciding
<1>3. ASSUME Postings!InTurn PROVE due[d].status = "pending" /\ RowsOf(entries, d) = {} /\ BusyWith(thread, d) = {t}
  <2>1. Settled(entries, thread, d, due[d])
    BY <1>2, <1>3 DEF PostInv, OccurrencesSettled
  <2>2. BusyWith(thread, d) = {t}
    BY <1>1, <1>2, <1>3, AloneAtWork
  <2> QED
    BY <1>1, <2>1, <2>2 DEF Settled, Deciding
<1>4. CASE /\ Postings!Works /\ Postings!Post(thread[t].of, "cash", 0)
           /\ thread' = [thread EXCEPT ![t].pc = "resolve", ![t].txn = Len(entries) + 1]
  <2> DEFINE h == [thread[t] EXCEPT !.pc = "resolve", !.txn = Len(entries) + 1]
             r == [of |-> d, leg |-> "cash", link |-> 0, live |-> TRUE]
  <2>10. Len(entries) + 1 \in Nat
    BY <1>1
  <2>1. /\ h \in Postings!Local /\ h.pc = "resolve" /\ h.of = d /\ h.txn = Len(entries) + 1
        /\ h.other = thread[t].other
    BY <1>1, <2>10 DEF Postings!Local
  <2>2. r \in Postings!Transaction /\ r.of = d /\ r.link = 0 /\ entries' = Append(entries, r) /\ failed' = failed
    BY <1>2, <1>4 DEF Postings!Transaction, Postings!Subjects, Postings!Post, Postings!Works
  <2>11. thread' = [thread EXCEPT ![t] = h]
    BY <1>1, <1>4 DEF Postings!Local
  <2> HIDE DEF h, r
  <2>3. /\ thread' \in [Operators -> Postings!Local] /\ thread'[t] = h
        /\ MovesOnly(thread, thread', t, d) /\ BusyWith(thread', d) = BusyWith(thread, d) \cup {t}
    BY <1>1, <2>1, <2>11, ThreadMoves
  <2>9. Extends(entries, r, entries')
    BY <1>1, <2>2, Rowed
  <2>4. /\ entries' \in Seq(Postings!Transaction) /\ LinksWithin(entries') /\ WritesFor(entries, entries', d)
        /\ RowsOf(entries', d) = RowsOf(entries, d) \cup {Len(entries) + 1} /\ Len(entries') = Len(entries) + 1
    BY <2>2, <2>9 DEF Extends
  <2>5. Placed(h, entries')
    BY <1>1, <1>2, <2>1, <2>4 DEF Placed, Deciding, Making, Deleting
  <2>7. PostTyped'
    BY <1>1, <2>2, <2>3, <2>4, <2>5, TypedStep DEF PostInv, PostTyped
  <2>8. ASSUME Postings!InTurn' PROVE Settled(entries, thread, d, due[d])'
    <3>1. Postings!InTurn
      BY <1>1, <2>2, <2>8, InTurnBefore
    <3> QED
      BY <1>1, <1>3, <2>1, <2>3, <2>4, <3>1 DEF Settled
  <2> QED
    BY <1>1, <1>2, <2>2, <2>3, <2>4, <2>7, <2>8, SubjectsStep
<1>5. CASE Postings!Fails("post") /\ UNCHANGED entries /\ Postings!Finish(t)
  <2>1. thread' = [thread EXCEPT ![t] = Postings!Idle] /\ failed \subseteq failed' /\ failed' \subseteq Fallible
    BY <1>1, <1>5, FailedGrows DEF Postings!Finish
  <2>2. /\ thread' \in [Operators -> Postings!Local] /\ thread'[t] = Postings!Idle
        /\ MovesOnly(thread, thread', t, d) /\ BusyWith(thread', d) = BusyWith(thread, d) \ {t}
    BY <1>1, <2>1, IdleIsLocal, ThreadMoves
  <2>3. WritesFor(entries, entries', d)
    BY <1>5 DEF WritesFor
  <2>4. PostTyped'
    BY <1>1, <1>5, <2>1, <2>2, <2>3, IdleIsLocal, TypedStep DEF PostInv, PostTyped
  <2>5. ASSUME Postings!InTurn' PROVE Settled(entries, thread, d, due[d])'
    <3>1. Postings!InTurn
      BY <1>1, <2>1, <2>5, InTurnBefore
    <3> QED
      BY <1>1, <1>3, <1>5, <2>2, <3>1 DEF Settled
  <2> QED
    BY <1>1, <1>2, <2>1, <2>2, <2>3, <2>4, <2>5, SubjectsStep
<1> QED
  BY <1>4, <1>5 DEF Postings!PostCash

\* The row that a confirmation names is the one it posted.
LEMMA SettleStep ==
  ASSUME PostInv, NEW t \in Operators, NEW status \in {"confirmed", "dismissed"}, Postings!Settle(t, status),
         thread[t].pc = IF status = "confirmed" THEN "resolve" ELSE "dismiss"
  PROVE  PostInv'
<1> PICK d : d = thread[t].of
  OBVIOUS
<1> DEFINE p == [status |-> status, txn |-> thread[t].txn]
<1>1. /\ UNCHANGED <<entries, crashes, overlapped, early>> /\ thread' = [thread EXCEPT ![t] = Postings!Idle]
      /\ thread[t] \in Postings!Local /\ thread \in [Operators -> Postings!Local]
      /\ due \in [Occurrences -> Postings!Pending]
      /\ failed \subseteq Fallible /\ Placed(thread[t], entries)
  BY DEF Postings!Settle, Postings!Finish, PostInv, PostTyped
<1>2. d \in Occurrences /\ d \notin TransfersMade
  BY <1>1, PostingsAssumption DEF Placed, Deciding
<1>3. failed \subseteq failed' /\ failed' \subseteq Fallible
  BY <1>1, FailedGrows DEF Postings!Settle
<1>4. /\ thread' \in [Operators -> Postings!Local] /\ thread'[t] = Postings!Idle /\ Postings!Idle.pc = "idle"
      /\ MovesOnly(thread, thread', t, d) /\ BusyWith(thread', d) = BusyWith(thread, d) \ {t}
  BY <1>1, IdleIsLocal, ThreadMoves
<1>5. /\ due' \in [Occurrences -> Postings!Pending] /\ \A e \in Occurrences \ {d} : due'[e] = due[e]
      /\ due' = due \/ due'[d] = p
  <2>1. p \in Postings!Pending
    BY <1>1 DEF Postings!Pending, Postings!Local
  <2>2. due' = due \/ due' = [due EXCEPT ![d] = p]
    BY DEF Postings!Settle
  <2> HIDE DEF p
  <2> QED
    BY <1>1, <1>2, <2>1, <2>2
<1>6. WritesFor(entries, entries', d)
  BY <1>1 DEF WritesFor
<1>7. Placed(thread'[t], entries')
  BY <1>1, <1>4, IdleIsLocal DEF PostInv, PostTyped
<1>8. PostTyped'
  BY <1>1, <1>3, <1>4, <1>5, <1>6, <1>7, TypedStep DEF PostInv, PostTyped
<1>9. ASSUME Postings!InTurn' PROVE Settled(entries, thread, d, due[d])'
  <2>1. Postings!InTurn
    BY <1>1, <1>3, <1>9, InTurnBefore
  <2>2. BusyWith(thread, d) = {t} /\ Settled(entries, thread, d, due[d])
    BY <1>1, <1>2, <2>1, AloneAtWork DEF PostInv, OccurrencesSettled
  <2>3. due[d].status = "pending"
    BY <2>2 DEF Settled, Deciding
  <2>4. ~Postings!Fails("resolve")
    BY <1>9 DEF Postings!InTurn, Postings!Fails
  <2>5. due' = [due EXCEPT ![d] = p]
    BY <2>3, <2>4 DEF Postings!Settle, Postings!Resolvable, Postings!Unresolved
  <2>6. due'[d] = p /\ p.status = status /\ p.txn = thread[t].txn
    BY <1>1, <1>2, <2>5
  <2>7. RowsOf(entries, d) = IF status = "confirmed" THEN {thread[t].txn} ELSE {}
    BY <2>2, <2>3 DEF Settled
  <2> QED
    BY <1>1, <1>4, <2>2, <2>6, <2>7 DEF Settled
<1> QED
  BY <1>1, <1>2, <1>3, <1>4, <1>5, <1>6, <1>8, <1>9, SubjectsStep

-----------------------------------------------------------------------------
(* create_transfer *)

\* The state of an unbroken transfer that a thread is making.
LEMMA InTheMaking ==
  ASSUME PostInv, Postings!NoneBroken, NEW t \in Operators, thread[t].pc \in Making,
         NEW x \in TransfersMade, thread[t].of = x
  PROVE  /\ BusyWith(thread, x) = {t} /\ entries[thread[t].txn].live /\ entries[thread[t].txn].leg = "out"
         /\ thread[t].pc \in {"in", "undo"} => RowsOf(entries, x) = {thread[t].txn}
         /\ thread[t].pc = "link" => Legs(entries, x, thread[t].txn, thread[t].other) /\ entries[thread[t].other].live
<1>1. Unbroken(entries, thread, x) /\ t \in BusyWith(thread, x)
  BY DEF PostInv, TransfersUnbroken, BusyWith, Making
<1>2. CASE HalfMade(entries, thread, x)
  BY <1>1, <1>2 DEF HalfMade
<1>3. CASE Unlinked(entries, thread, x)
  BY <1>1, <1>3 DEF Unlinked, Legs
<1>4. ~NotMade(entries, thread, x) /\ ~Undone(entries, thread, x)
  BY <1>1 DEF NotMade, Undone
<1>5. ~Paired(entries, thread, x)
  BY <1>1 DEF Paired, Deletes, Making, Deleting
<1> QED
  BY <1>1, <1>2, <1>3, <1>4, <1>5 DEF Unbroken

LEMMA AddOutStep == ASSUME PostInv, NEW t \in Operators, NEW x \in TransfersMade, Postings!AddOut(t, x) PROVE PostInv'
<1> DEFINE h == [pc |-> "in", of |-> x, txn |-> Len(entries) + 1, other |-> 0]
           r == [of |-> x, leg |-> "out", link |-> 0, live |-> TRUE]
<1>1. /\ thread[t].pc = "idle" /\ UNCHANGED <<due, failed, crashes, early>>
      /\ thread' = [thread EXCEPT ![t] = h] /\ entries' = Append(entries, r)
      /\ overlapped' = (overlapped \/ \E u \in Operators : thread[u].pc # "idle")
      /\ \A i \in DOMAIN entries : entries[i].of # x
  BY DEF Postings!AddOut, Postings!Start, Postings!At, Postings!Post
<1>2. /\ thread \in [Operators -> Postings!Local] /\ entries \in Seq(Postings!Transaction)
      /\ LinksWithin(entries) /\ Len(entries) + 1 \in Nat /\ x \notin Occurrences
  BY PostingsAssumption DEF PostInv, PostTyped
<1>3. /\ h \in Postings!Local /\ h.pc = "in" /\ h.of = x /\ h.txn = Len(entries) + 1 /\ h.other = 0
      /\ r \in Postings!Transaction /\ r.of = x /\ r.link = 0 /\ r.leg = "out" /\ r.live
  BY <1>2 DEF Postings!Local, Postings!Subjects, Postings!Transaction
<1> HIDE DEF h, r
<1>4. /\ thread' \in [Operators -> Postings!Local] /\ thread'[t] = h
      /\ MovesOnly(thread, thread', t, x) /\ BusyWith(thread', x) = BusyWith(thread, x) \cup {t}
  <2>1. thread[t].pc = "idle" /\ thread' = [thread EXCEPT ![t] = h]
    BY <1>1
  <2>2. thread \in [Operators -> Postings!Local]
    BY <1>2
  <2>3. h \in Postings!Local /\ h.pc # "idle" /\ h.of = x
    BY <1>3
  <2> QED
    BY <2>1, <2>2, <2>3, <1>3, ThreadMoves, ZenonT(60)
<1>5. Extends(entries, r, entries')
  BY <1>1, <1>2, <1>3, Rowed
<1>6. RowsOf(entries, x) = {} /\ RowsOf(entries', x) = {Len(entries) + 1}
  BY <1>1, <1>3, <1>5 DEF RowsOf, Extends
<1>7. Placed(thread'[t], entries')
  BY <1>2, <1>3, <1>4, <1>5, <1>6 DEF Placed, Extends, Deciding, Making, Deleting
<1>8. overlapped' \in BOOLEAN
  BY <1>1 DEF PostInv, PostTyped
<1>9. WritesFor(entries, entries', x) /\ entries' \in Seq(Postings!Transaction) /\ LinksWithin(entries')
  BY <1>3, <1>5 DEF Extends
<1>10. PostTyped'
  BY <1>1, <1>2, <1>4, <1>7, <1>8, <1>9, TypedStep DEF PostInv, PostTyped
<1>11. ASSUME Postings!NoneBroken' PROVE Unbroken(entries', thread', x)
  <2>1. Unbroken(entries, thread, x)
    BY <1>1, <1>11, UnbrokenBefore DEF PostInv, TransfersUnbroken
  <2>2. NotMade(entries, thread, x)
    BY <1>6, <2>1 DEF Unbroken, HalfMade, Undone, Unlinked, Paired, Legs
  <2>3. BusyWith(thread', x) = {t}
    BY <1>4, <2>2 DEF NotMade
  <2>4. HalfMade(entries', thread', x)
    BY <1>3, <1>4, <1>5, <1>6, <2>3 DEF HalfMade, Extends
  <2> QED
    BY <2>4 DEF Unbroken
<1>12. Postings!InTurn' => \A u \in Operators : thread[u].pc = "idle"
  BY <1>1 DEF Postings!InTurn
<1> QED
  BY <1>1, <1>2, <1>4, <1>9, <1>10, <1>11, <1>12, SubjectsStep

LEMMA AddInStep == ASSUME PostInv, NEW t \in Operators, Postings!AddIn(t) PROVE PostInv'
<1> PICK x : x = thread[t].of
  OBVIOUS
<1>1. /\ thread[t].pc = "in" /\ UNCHANGED <<due, crashes, overlapped, early>>
      /\ thread[t] \in Postings!Local /\ thread \in [Operators -> Postings!Local]
      /\ entries \in Seq(Postings!Transaction) /\ LinksWithin(entries) /\ Len(entries) + 1 \in Nat
      /\ failed \subseteq Fallible /\ Placed(thread[t], entries)
  BY DEF Postings!AddIn, Postings!At, PostInv, PostTyped
<1>2. /\ x \in TransfersMade /\ x \notin Occurrences
      /\ thread[t].txn \in RowsOf(entries, x) /\ thread[t].txn \in DOMAIN entries /\ thread[t].txn \in Nat
  BY <1>1, PostingsAssumption DEF Placed, Making, RowsOf, Postings!Local
<1>3. ASSUME Postings!NoneBroken
      PROVE  /\ BusyWith(thread, x) = {t} /\ RowsOf(entries, x) = {thread[t].txn}
             /\ entries[thread[t].txn].live /\ entries[thread[t].txn].leg = "out"
  BY <1>1, <1>2, <1>3, InTheMaking DEF Making
<1>4. CASE /\ Postings!Works /\ Postings!Post(thread[t].of, "in", thread[t].txn)
           /\ thread' = [thread EXCEPT ![t].pc = "link", ![t].other = Len(entries) + 1]
  <2> DEFINE h == [thread[t] EXCEPT !.pc = "link", !.other = Len(entries) + 1]
             r == [of |-> x, leg |-> "in", link |-> thread[t].txn, live |-> TRUE]
  <2>1. /\ h \in Postings!Local /\ h.pc = "link" /\ h.of = x /\ h.txn = thread[t].txn
        /\ h.other = Len(entries) + 1
    BY <1>1 DEF Postings!Local
  <2>2. thread' = [thread EXCEPT ![t] = h]
    BY <1>1, <1>4 DEF Postings!Local
  <2>3. /\ r \in Postings!Transaction /\ r.of = x /\ r.link = thread[t].txn /\ r.leg = "in" /\ r.live
        /\ entries' = Append(entries, r) /\ failed' = failed
    BY <1>2, <1>4 DEF Postings!Transaction, Postings!Subjects, Postings!Post, Postings!Works
  <2> HIDE DEF h, r
  <2>4. /\ thread' \in [Operators -> Postings!Local] /\ thread'[t] = h
        /\ MovesOnly(thread, thread', t, x) /\ BusyWith(thread', x) = BusyWith(thread, x) \cup {t}
    BY <1>1, <2>1, <2>2, ThreadMoves
  <2>5. Extends(entries, r, entries')
    BY <1>1, <1>2, <2>3, Rowed
  <2>6. /\ entries' \in Seq(Postings!Transaction) /\ LinksWithin(entries') /\ WritesFor(entries, entries', x)
        /\ RowsOf(entries', x) = RowsOf(entries, x) \cup {Len(entries) + 1} /\ Len(entries') = Len(entries) + 1
        /\ entries'[Len(entries) + 1] = r /\ entries'[thread[t].txn] = entries[thread[t].txn]
        /\ Len(entries) + 1 # thread[t].txn /\ {Len(entries) + 1, thread[t].txn} \subseteq DOMAIN entries'
    BY <1>2, <2>3, <2>5 DEF Extends
  <2>7. Placed(thread'[t], entries')
    <3>1. Len(entries) + 1 \in 0..Len(entries') /\ Len(entries) + 1 # 0 /\ thread[t].txn \in 0..Len(entries')
      BY <1>1, <2>6 DEF Placed
    <3> QED
      BY <1>2, <2>1, <2>4, <2>6, <3>1 DEF Placed, Deciding, Making, Deleting
  <2>8. PostTyped'
    BY <1>1, <2>3, <2>4, <2>6, <2>7, TypedStep DEF PostInv, PostTyped
  <2>9. ASSUME Postings!NoneBroken' PROVE Unbroken(entries', thread', x)
    <3>1. Postings!NoneBroken
      BY <1>1, <2>3, <2>9, UnbrokenBefore
    <3>2. Legs(entries', x, thread[t].txn, Len(entries) + 1)
      BY <1>3, <2>3, <2>6, <3>1 DEF Legs
    <3>3. Unlinked(entries', thread', x)
      BY <1>3, <2>1, <2>3, <2>4, <2>6, <3>1, <3>2 DEF Unlinked
    <3> QED
      BY <3>3 DEF Unbroken
  <2> QED
    BY <1>1, <1>2, <2>3, <2>4, <2>6, <2>8, <2>9, SubjectsStep
<1>5. CASE Postings!Fails("in") /\ UNCHANGED entries /\ Postings!Goto(t, "undo")
  <2> DEFINE h == [thread[t] EXCEPT !.pc = "undo"]
  <2>1. h \in Postings!Local /\ h.pc = "undo" /\ h.of = x /\ h.txn = thread[t].txn /\ h.other = thread[t].other
    BY <1>1 DEF Postings!Local
  <2>2. thread' = [thread EXCEPT ![t] = h] /\ failed \subseteq failed' /\ failed' \subseteq Fallible
    BY <1>1, <1>5, FailedGrows DEF Postings!Goto
  <2> HIDE DEF h
  <2>3. /\ thread' \in [Operators -> Postings!Local] /\ thread'[t] = h
        /\ MovesOnly(thread, thread', t, x) /\ BusyWith(thread', x) = BusyWith(thread, x) \cup {t}
    BY <1>1, <2>1, <2>2, ThreadMoves
  <2>4. WritesFor(entries, entries', x)
    BY <1>5 DEF WritesFor
  <2>5. Placed(thread'[t], entries')
    BY <1>1, <1>2, <1>5, <2>1, <2>3 DEF Placed, Deciding, Making, Deleting
  <2>6. PostTyped'
    BY <1>1, <1>5, <2>2, <2>3, <2>4, <2>5, TypedStep DEF PostInv, PostTyped
  <2>7. ASSUME Postings!NoneBroken' PROVE Unbroken(entries', thread', x)
    <3>1. Postings!NoneBroken
      BY <1>1, <2>2, <2>7, UnbrokenBefore
    <3>2. HalfMade(entries', thread', x)
      BY <1>2, <1>3, <1>5, <2>1, <2>3, <3>1 DEF HalfMade
    <3> QED
      BY <3>2 DEF Unbroken
  <2> QED
    BY <1>1, <1>2, <2>2, <2>3, <2>4, <2>6, <2>7, SubjectsStep
<1> QED
  BY <1>4, <1>5 DEF Postings!AddIn

LEMMA UndoOutStep == ASSUME PostInv, NEW t \in Operators, Postings!UndoOut(t) PROVE PostInv'
<1> PICK x : x = thread[t].of
  OBVIOUS
<1> PICK i : i = thread[t].txn
  OBVIOUS
<1>1. /\ thread[t].pc = "undo" /\ UNCHANGED <<due, crashes, overlapped, early>>
      /\ thread[t] \in Postings!Local /\ thread \in [Operators -> Postings!Local]
      /\ entries \in Seq(Postings!Transaction) /\ LinksWithin(entries)
      /\ failed \subseteq Fallible /\ Placed(thread[t], entries)
      /\ thread' = [thread EXCEPT ![t] = Postings!Idle]
  BY DEF Postings!UndoOut, Postings!At, Postings!Finish, PostInv, PostTyped
<1>2. x \in TransfersMade /\ x \notin Occurrences /\ i \in RowsOf(entries, x) /\ i \in DOMAIN entries /\ entries[i].of = x
  BY <1>1, PostingsAssumption DEF Placed, Making, RowsOf
<1>3. /\ thread' \in [Operators -> Postings!Local] /\ thread'[t] = Postings!Idle
      /\ MovesOnly(thread, thread', t, x) /\ BusyWith(thread', x) = BusyWith(thread, x) \ {t}
  BY <1>1, IdleIsLocal, ThreadMoves
<1>4. failed \subseteq failed' /\ failed' \subseteq Fallible
  BY <1>1, FailedGrows DEF Postings!UndoOut
<1>5. entries' = entries \/ entries' = [entries EXCEPT ![i].live = FALSE]
  BY DEF Postings!UndoOut, Postings!Delete
<1>6. /\ entries' \in Seq(Postings!Transaction) /\ LinksWithin(entries') /\ WritesFor(entries, entries', x)
      /\ RowsOf(entries', x) = RowsOf(entries, x) /\ DOMAIN entries' = DOMAIN entries
  <2>1. CASE entries' = entries
    BY <1>1, <1>2, <2>1 DEF WritesFor
  <2>2. CASE entries' = [entries EXCEPT ![i].live = FALSE]
    <3>1. Strikes(entries, i, entries')
      BY <1>1, <1>2, <2>2, Struck
    <3> QED
      BY <1>2, <3>1 DEF Strikes
  <2> QED
    BY <1>5, <2>1, <2>2
<1>7. Placed(thread'[t], entries')
  BY <1>3, <1>6, IdleIsLocal
<1>8. PostTyped'
  BY <1>1, <1>3, <1>4, <1>6, <1>7, TypedStep DEF PostInv, PostTyped
<1>9. ASSUME Postings!NoneBroken' PROVE Unbroken(entries', thread', x)
  <2>1. Postings!NoneBroken
    BY <1>1, <1>4, <1>9, UnbrokenBefore
  <2>2. BusyWith(thread, x) = {t} /\ RowsOf(entries, x) = {i}
    BY <1>1, <1>2, <2>1, InTheMaking DEF Making
  <2>3. ~Postings!Fails("undo")
    BY <1>9 DEF Postings!NoneBroken, Postings!Fails
  <2>4. entries' = [entries EXCEPT ![i].live = FALSE]
    BY <2>3 DEF Postings!UndoOut, Postings!Delete
  <2>5. Strikes(entries, i, entries')
    BY <1>1, <1>2, <2>4, Struck
  <2>6. Undone(entries', thread', x)
    BY <1>2, <1>3, <1>6, <2>2, <2>5 DEF Undone, Strikes
  <2> QED
    BY <2>6 DEF Unbroken
<1> QED
  BY <1>1, <1>2, <1>3, <1>4, <1>6, <1>8, <1>9, SubjectsStep

LEMMA LinkOutStep == ASSUME PostInv, NEW t \in Operators, Postings!LinkOut(t) PROVE PostInv'
<1> PICK x : x = thread[t].of
  OBVIOUS
<1> PICK i, j : i = thread[t].txn /\ j = thread[t].other
  OBVIOUS
<1>1. /\ thread[t].pc = "link" /\ UNCHANGED <<due, crashes, overlapped, early>>
      /\ thread[t] \in Postings!Local /\ thread \in [Operators -> Postings!Local]
      /\ entries \in Seq(Postings!Transaction) /\ LinksWithin(entries)
      /\ failed \subseteq Fallible /\ Placed(thread[t], entries)
      /\ thread' = [thread EXCEPT ![t] = Postings!Idle]
  BY DEF Postings!LinkOut, Postings!At, Postings!Finish, PostInv, PostTyped
<1>2. /\ x \in TransfersMade /\ x \notin Occurrences
      /\ {i, j} \subseteq RowsOf(entries, x) /\ {i, j} \subseteq DOMAIN entries /\ entries[i].of = x /\ i # j /\ j \in Nat
  BY <1>1, PostingsAssumption DEF Placed, Making, RowsOf, Postings!Local
<1>3. /\ thread' \in [Operators -> Postings!Local] /\ thread'[t] = Postings!Idle
      /\ MovesOnly(thread, thread', t, x) /\ BusyWith(thread', x) = BusyWith(thread, x) \ {t}
  BY <1>1, IdleIsLocal, ThreadMoves
<1>4. failed \subseteq failed' /\ failed' \subseteq Fallible
  BY <1>1, FailedGrows DEF Postings!LinkOut
<1> DEFINE r == [entries[i] EXCEPT !.link = j]
<1>11. entries[i] \in Postings!Transaction
  BY <1>1, <1>2
<1>12. r \in Postings!Transaction /\ r.of = x /\ r.link = j /\ r.leg = entries[i].leg /\ r.live = entries[i].live
  BY <1>2, <1>11 DEF Postings!Transaction
<1>13. entries' = entries \/ entries' = [entries EXCEPT ![i].link = j]
  BY DEF Postings!LinkOut
<1>5. entries' = entries \/ entries' = [entries EXCEPT ![i] = r]
  BY <1>1, <1>2, <1>13
<1> HIDE DEF r
<1>6. entries' = entries \/ Replaces(entries, i, r, entries')
  BY <1>1, <1>2, <1>12, <1>5, Altered
<1>7. /\ entries' \in Seq(Postings!Transaction) /\ LinksWithin(entries') /\ WritesFor(entries, entries', x)
      /\ RowsOf(entries', x) = RowsOf(entries, x) /\ DOMAIN entries' = DOMAIN entries
  BY <1>1, <1>12, <1>5, <1>6 DEF Replaces, WritesFor
<1>8. Placed(thread'[t], entries')
  BY <1>3, <1>7, IdleIsLocal
<1>9. PostTyped'
  BY <1>1, <1>3, <1>4, <1>7, <1>8, TypedStep DEF PostInv, PostTyped
<1>10. ASSUME Postings!NoneBroken' PROVE Unbroken(entries', thread', x)
  <2>1. Postings!NoneBroken
    BY <1>1, <1>4, <1>10, UnbrokenBefore
  <2>2. /\ BusyWith(thread, x) = {t} /\ Legs(entries, x, i, j)
        /\ entries[i].live /\ entries[j].live
    BY <1>1, <1>2, <2>1, InTheMaking DEF Making
  <2>3. ~Postings!Fails("link")
    BY <1>10 DEF Postings!NoneBroken, Postings!Fails
  <2>4. entries' = [entries EXCEPT ![i].link = j]
    BY <2>3 DEF Postings!LinkOut
  <2>5. entries' = [entries EXCEPT ![i] = r]
    BY <2>4 DEF r
  <2>6. Replaces(entries, i, r, entries')
    BY <1>1, <1>2, <1>12, <2>5, Altered
  <2>7. entries'[i] = r /\ entries'[j] = entries[j]
    BY <1>2, <2>6 DEF Replaces
  <2>8. Legs(entries', x, i, j) /\ entries'[i].link = j /\ entries'[i].live /\ entries'[j].live
    BY <1>12, <1>7, <2>2, <2>7 DEF Legs
  <2>9. Paired(entries', thread', x)
    BY <1>2, <1>3, <1>7, <2>2, <2>8 DEF Paired, Follows
  <2> QED
    BY <2>9 DEF Unbroken
<1> QED
  BY <1>1, <1>2, <1>3, <1>4, <1>7, <1>9, <1>10, SubjectsStep

-----------------------------------------------------------------------------
(* delete_transaction_with_pair *)

\* Deletions leave what is posted for an occurrence as it is.
LEMMA DeletersSettle ==
  ASSUME NEW l, NEW m, NEW th, NEW v, NEW t \in Operators, NEW s, NEW p, Settled(l, th, s, p),
         RowsOf(m, s) = RowsOf(l, s), MovesOnly(th, v, t, s), th[t].pc \notin Deciding, v[t].pc \notin Deciding
  PROVE  Settled(m, v, s, p)
<1>1. \A u \in Operators \ {t} : v[u] = th[u]
  BY DEF MovesOnly
<1>2. \A u \in BusyWith(v, s) : v[u].pc \in Deciding => u \in BusyWith(th, s) /\ v[u] = th[u]
  BY <1>1 DEF BusyWith
<1>3. \A u \in BusyWith(th, s) : th[u].pc \in Deciding => u \in BusyWith(v, s) /\ v[u] = th[u]
  BY <1>1 DEF BusyWith
<1> QED
  BY <1>2, <1>3 DEF Settled, Deciding

\* Of a whole transfer either row may be called the first.
PairOf(l, th, x, i, j) ==
  /\ RowsOf(l, x) = {i, j} /\ i # j /\ l[i].link = j /\ l[j].link = i /\ {l[i].leg, l[j].leg} = {"out", "in"}
  /\ \A t \in BusyWith(th, x) :
       /\ Deletes(th[t], i, j) \/ Deletes(th[t], j, i)
       /\ th[t].pc = "sibling" => ~l[th[t].txn].live
  /\ Follows(l, th, x, i, j) /\ Follows(l, th, x, j, i)

LEMMA EitherFirst ==
  ASSUME NEW l, NEW th, NEW x
  PROVE  /\ Paired(l, th, x) => \A i \in RowsOf(l, x) : PairOf(l, th, x, i, l[i].link)
         /\ \A i, j : PairOf(l, th, x, i, j) => Paired(l, th, x)
<1>1. \A i, j : PairOf(l, th, x, i, j) => PairOf(l, th, x, j, i)
  BY DEF PairOf
<1>2. ASSUME NEW out \in DOMAIN l, NEW in \in DOMAIN l,
             Legs(l, x, out, in), l[out].link = in,
             \A t \in BusyWith(th, x) :
               /\ Deletes(th[t], out, in) \/ Deletes(th[t], in, out)
               /\ th[t].pc = "sibling" => ~l[th[t].txn].live,
             Follows(l, th, x, out, in), Follows(l, th, x, in, out), NEW i \in RowsOf(l, x)
      PROVE  PairOf(l, th, x, i, l[i].link)
  <2>1. PairOf(l, th, x, out, in) /\ i \in {out, in} /\ l[in].link = out
    BY <1>2 DEF PairOf, Legs
  <2> QED
    BY <1>1, <1>2, <2>1
<1>3. ASSUME NEW i, NEW j, PairOf(l, th, x, i, j) PROVE Paired(l, th, x)
  <2>1. PairOf(l, th, x, j, i) /\ {i, j} \subseteq DOMAIN l
    BY <1>1, <1>3 DEF PairOf, RowsOf
  <2>2. CASE l[i].leg = "out" /\ l[j].leg = "in"
    BY <1>3, <2>1, <2>2 DEF PairOf, Paired, Legs
  <2>3. CASE l[j].leg = "out" /\ l[i].leg = "in"
    BY <1>3, <2>1, <2>3 DEF PairOf, Paired, Legs
  <2> QED
    BY <1>3, <2>2, <2>3 DEF PairOf
<1>4. Paired(l, th, x) => \A i \in RowsOf(l, x) : PairOf(l, th, x, i, l[i].link)
  BY <1>2 DEF Paired
<1> QED
  BY <1>3, <1>4

\* An unbroken transfer that a thread deletes is a pair.
LEMMA PairOfDeleter ==
  ASSUME NEW l, NEW th, NEW x, Unbroken(l, th, x), NEW t \in BusyWith(th, x), th[t].pc \in Deleting
  PROVE  PairOf(l, th, x, th[t].txn, th[t].other)
<1>1. Paired(l, th, x)
  BY DEF Unbroken, NotMade, HalfMade, Undone, Unlinked, Deleting
<1>2. PICK out, in \in DOMAIN l :
        /\ Legs(l, x, out, in) /\ l[out].link = in
        /\ \A u \in BusyWith(th, x) : Deletes(th[u], out, in) \/ Deletes(th[u], in, out)
  BY <1>1 DEF Paired
<1>3. th[t].txn \in RowsOf(l, x) /\ l[th[t].txn].link = th[t].other
  BY <1>2 DEF Legs, Deletes
<1> QED
  BY <1>1, <1>3, EitherFirst

LEMMA StartDeleteStep ==
  ASSUME PostInv, NEW t \in Operators, NEW i \in DOMAIN entries, Postings!StartDelete(t, i)
  PROVE  PostInv'
<1> PICK x : x = entries[i].of
  OBVIOUS
<1> DEFINE h == [pc |-> "delete", of |-> x, txn |-> i, other |-> entries[i].link]
<1>1. /\ thread[t].pc = "idle" /\ UNCHANGED <<entries, due, failed, crashes>> /\ entries[i].live
      /\ early' = (early \/ ~Postings!Returned(i))
      /\ thread' = [thread EXCEPT ![t] = h]
      /\ overlapped' = (overlapped \/ \E u \in Operators : thread[u].pc # "idle")
  BY DEF Postings!StartDelete, Postings!Start, Postings!At
<1>2. /\ thread \in [Operators -> Postings!Local] /\ entries \in Seq(Postings!Transaction)
      /\ LinksWithin(entries) /\ entries[i] \in Postings!Transaction /\ i \in 1..Len(entries)
  BY DEF PostInv, PostTyped
<1>3. h \in Postings!Local /\ h.pc = "delete" /\ h.of = x /\ h.txn = i /\ h.other = entries[i].link
  BY <1>2 DEF Postings!Local, Postings!Transaction
<1> HIDE DEF h
<1>4. /\ thread' \in [Operators -> Postings!Local] /\ thread'[t] = h
      /\ MovesOnly(thread, thread', t, x) /\ BusyWith(thread', x) = BusyWith(thread, x) \cup {t}
  BY <1>1, <1>2, <1>3, ThreadMoves
<1>5. i \in RowsOf(entries, x) /\ t \notin BusyWith(thread, x)
  BY <1>1 DEF RowsOf, BusyWith
<1>6. Placed(thread'[t], entries')
  <2>1. entries[i].link \in 0..Len(entries) /\ (entries[i].link # 0 => entries[i].link \in RowsOf(entries, x))
    BY <1>2 DEF LinksWithin
  <2> QED
    BY <1>1, <1>2, <1>3, <1>4, <1>5, <2>1 DEF Placed, Deciding, Making, Deleting
<1>7. overlapped' \in BOOLEAN /\ early' \in BOOLEAN
  BY <1>1 DEF PostInv, PostTyped
<1>8. WritesFor(entries, entries', x)
  BY <1>1 DEF WritesFor
<1>9. PostTyped'
  BY <1>1, <1>2, <1>4, <1>6, <1>7, <1>8, TypedStep DEF PostInv, PostTyped
<1>10. Postings!InTurn' => \A u \in Operators : thread[u].pc = "idle"
  BY <1>1 DEF Postings!InTurn
<1>11. ASSUME Postings!InTurn', x \in Occurrences PROVE Settled(entries', thread', x, due'[x])
  <2>1. Settled(entries, thread, x, due[x])
    BY <1>1, <1>11, InTurnBefore DEF PostInv, OccurrencesSettled
  <2> QED
    BY <1>1, <1>3, <1>4, <2>1, DeletersSettle DEF Deciding
<1>12. ASSUME Postings!NoneBroken', x \in TransfersMade PROVE Unbroken(entries', thread', x)
  <2>1. Unbroken(entries, thread, x)
    BY <1>1, <1>12, UnbrokenBefore DEF PostInv, TransfersUnbroken
  <2>2. \A u \in Operators : i \in {thread[u].txn, thread[u].other} => thread[u].pc \in Deleting
    BY <1>1, <1>12 DEF Postings!NoneBroken, Postings!Returned, Deleting
  <2>3. ~HalfMade(entries, thread, x) /\ ~Unlinked(entries, thread, x)
    BY <1>5, <2>2 DEF HalfMade, Unlinked, Legs, Deleting
  <2>4. ~NotMade(entries, thread, x) /\ ~Undone(entries, thread, x)
    BY <1>1, <1>5 DEF NotMade, Undone
  <2> PICK j : j = entries[i].link
    OBVIOUS
  <2>5. PairOf(entries, thread, x, i, j)
    BY <1>5, <2>1, <2>3, <2>4, EitherFirst DEF Unbroken
  <2>6. \A u \in BusyWith(thread, x) : u # t /\ thread'[u] = thread[u]
    BY <1>4, <1>5 DEF MovesOnly, BusyWith
  <2>7. Deletes(thread'[t], i, j) /\ thread'[t].pc # "sibling"
    BY <1>3, <1>4 DEF Deletes, Deleting
  <2>8. Follows(entries, thread', x, i, j) /\ Follows(entries, thread', x, j, i)
    BY <1>4, <2>5, <2>6 DEF PairOf, Follows
  <2>9. \A u \in BusyWith(thread', x) :
          /\ Deletes(thread'[u], i, j) \/ Deletes(thread'[u], j, i)
          /\ thread'[u].pc = "sibling" => ~entries[thread'[u].txn].live
    BY <1>4, <2>5, <2>6, <2>7 DEF PairOf
  <2>10. PairOf(entries, thread', x, i, j)
    BY <2>5, <2>8, <2>9 DEF PairOf
  <2> QED
    BY <1>1, <2>10, EitherFirst DEF Unbroken
<1> QED
  BY <1>1, <1>4, <1>8, <1>9, <1>10, <1>11, <1>12, SubjectsStep

\* A step of a deletion after its start: it deletes a row or does not, and goes on or ends.
LEMMA DeletionStep ==
  ASSUME PostInv, NEW t \in Operators, thread[t].pc \in Deleting, NEW x, x = thread[t].of,
         UNCHANGED <<due, crashes, overlapped, early>>,
         failed \subseteq failed', failed' \subseteq Fallible,
         NEW i \in RowsOf(entries, x), entries' = entries \/ entries' = [entries EXCEPT ![i].live = FALSE],
         NEW h \in Postings!Local, thread' = [thread EXCEPT ![t] = h],
         h = Postings!Idle \/ (h.pc = "sibling" /\ h.of = x /\ Placed(h, entries)),
         Postings!NoneBroken' /\ x \in TransfersMade => Unbroken(entries, thread, x)'
  PROVE  PostInv'
<1>1. /\ thread \in [Operators -> Postings!Local] /\ entries \in Seq(Postings!Transaction)
      /\ LinksWithin(entries) /\ i \in DOMAIN entries /\ entries[i].of = x
  BY DEF PostInv, PostTyped, RowsOf
<1>2. h.pc # "idle" => h.of = x
  BY IdleIsLocal
<1>3. thread' \in [Operators -> Postings!Local] /\ thread'[t] = h /\ MovesOnly(thread, thread', t, x)
  BY <1>1, <1>2, ThreadMoves
<1>4. /\ entries' \in Seq(Postings!Transaction) /\ LinksWithin(entries') /\ WritesFor(entries, entries', x)
      /\ RowsOf(entries', x) = RowsOf(entries, x)
  <2>1. CASE entries' = entries
    BY <1>1, <2>1 DEF WritesFor
  <2>2. CASE entries' = [entries EXCEPT ![i].live = FALSE]
    <3>1. Strikes(entries, i, entries')
      BY <1>1, <2>2, Struck
    <3> QED
      BY <1>1, <3>1 DEF Strikes
  <2> QED
    BY <2>1, <2>2
<1>5. Placed(thread'[t], entries')
  BY <1>1, <1>3, <1>4, IdleIsLocal, PlacedStays
<1>6. PostTyped'
  BY <1>1, <1>3, <1>4, <1>5, TypedStep DEF PostInv, PostTyped
<1>7. ASSUME Postings!InTurn', x \in Occurrences PROVE Settled(entries', thread', x, due'[x])
  <2>1. Settled(entries, thread, x, due[x])
    BY <1>7, InTurnBefore DEF PostInv, OccurrencesSettled
  <2>2. thread[t].pc \notin Deciding /\ thread'[t].pc \notin Deciding
    BY <1>3, IdleIsLocal DEF Deciding, Deleting
  <2> QED
    BY <1>3, <1>4, <2>1, <2>2, DeletersSettle
<1>8. thread[t].pc # "idle"
  BY DEF Deleting
<1> QED
  BY <1>3, <1>4, <1>6, <1>7, <1>8, SubjectsStep

\* Row i of m is that of l, or the same row deleted.
SameOrStruck(l, m, i) ==
  m[i].leg = l[i].leg /\ m[i].link = l[i].link /\ (~l[i].live => ~m[i].live)

\* What is left of a pair when its thread t has deleted row k of it, or found it deleted.
LEMMA PairStays ==
  ASSUME NEW l, NEW m, NEW x, NEW i, NEW j, NEW t \in Operators, NEW h \in Postings!Local,
         thread \in [Operators -> Postings!Local], thread[t].pc # "idle", thread[t].of = x,
         PairOf(l, thread, x, i, j), thread' = [thread EXCEPT ![t] = h],
         h.pc = "idle" \/ (h.pc = "sibling" /\ h.of = x /\ h.txn = i /\ h.other = j /\ ~m[i].live),
         RowsOf(m, x) = RowsOf(l, x), SameOrStruck(l, m, i), SameOrStruck(l, m, j),
         Follows(m, thread', x, i, j), Follows(m, thread', x, j, i)
  PROVE  Unbroken(m, thread', x)
<1>1. thread'[t] = h /\ \A u \in Operators \ {t} : thread'[u] = thread[u]
  OBVIOUS
<1>2. ASSUME NEW u \in BusyWith(thread', x)
      PROVE  /\ Deletes(thread'[u], i, j) \/ Deletes(thread'[u], j, i)
             /\ thread'[u].pc = "sibling" => ~m[thread'[u].txn].live
  <2>1. CASE u = t
    BY <1>1, <2>1 DEF BusyWith, Deletes, Deleting
  <2>2. CASE u # t
    <3>1. thread'[u] = thread[u] /\ u \in BusyWith(thread, x)
      BY <1>1, <2>2 DEF BusyWith
    <3>2. /\ Deletes(thread[u], i, j) \/ Deletes(thread[u], j, i)
          /\ thread[u].pc = "sibling" => ~l[thread[u].txn].live
      BY <3>1 DEF PairOf
    <3>3. thread[u].txn \in {i, j}
      BY <3>2 DEF Deletes
    <3> QED
      BY <3>1, <3>2, <3>3 DEF SameOrStruck
  <2> QED
    BY <2>1, <2>2
<1>3. PairOf(m, thread', x, i, j)
  BY <1>2 DEF PairOf, SameOrStruck
<1> QED
  BY <1>3, EitherFirst DEF Unbroken

LEMMA DeleteFirstStep == ASSUME PostInv, NEW t \in Operators, Postings!DeleteFirst(t) PROVE PostInv'
<1> PICK x : x = thread[t].of
  OBVIOUS
<1> PICK i, j : i = thread[t].txn /\ j = thread[t].other
  OBVIOUS
<1>1. /\ thread[t].pc = "delete" /\ UNCHANGED <<due, crashes, overlapped, early>>
      /\ thread[t] \in Postings!Local /\ thread \in [Operators -> Postings!Local]
      /\ entries \in Seq(Postings!Transaction) /\ LinksWithin(entries)
      /\ failed \subseteq Fallible /\ Placed(thread[t], entries)
  BY DEF Postings!DeleteFirst, Postings!At, PostInv, PostTyped
<1>2. /\ i \in RowsOf(entries, x) /\ i \in DOMAIN entries /\ thread[t].pc \in Deleting
      /\ t \in BusyWith(thread, x) /\ thread[t].pc # "idle"
  BY <1>1 DEF Placed, Making, Deleting, RowsOf, BusyWith
<1>3. failed \subseteq failed' /\ failed' \subseteq Fallible
  BY <1>1, FailedGrows DEF Postings!DeleteFirst
<1>4. ASSUME Postings!NoneBroken', x \in TransfersMade PROVE PairOf(entries, thread, x, i, j) /\ ~Postings!Fails("delete")
  <2>1. Unbroken(entries, thread, x)
    BY <1>1, <1>3, <1>4, UnbrokenBefore DEF PostInv, TransfersUnbroken
  <2>2. ~Postings!Fails("delete")
    BY <1>4 DEF Postings!NoneBroken, Postings!Fails
  <2> QED
    BY <1>2, <2>1, <2>2, PairOfDeleter
<1> DEFINE s == [thread[t] EXCEPT !.pc = "sibling"]
<1>5. /\ s \in Postings!Local /\ s.pc = "sibling" /\ s.of = x /\ s.txn = i /\ s.other = j
      /\ j # 0 => Placed(s, entries)
  BY <1>1 DEF Postings!Local, Placed, Deciding, Making, Deleting
<1>6. CASE /\ Postings!Works /\ entries[i].live /\ Postings!Delete(i)
           /\ IF j # 0 THEN Postings!Goto(t, "sibling") ELSE Postings!Finish(t)
  <2>1. entries' = [entries EXCEPT ![i].live = FALSE]
    BY <1>6 DEF Postings!Delete
  <2>2. Strikes(entries, i, entries')
    BY <1>1, <1>2, <2>1, Struck
  <2> DEFINE h == IF j # 0 THEN s ELSE Postings!Idle
  <2>3. thread' = [thread EXCEPT ![t] = h]
    BY <1>1, <1>6 DEF Postings!Goto, Postings!Finish
  <2>4. h \in Postings!Local
    BY <1>5, IdleIsLocal
  <2>8. h = Postings!Idle \/ (h.pc = "sibling" /\ h.of = x /\ Placed(h, entries))
    BY <1>5, IdleIsLocal
  <2>5. ASSUME Postings!NoneBroken', x \in TransfersMade PROVE Unbroken(entries', thread', x)
    <3>1. PairOf(entries, thread, x, i, j)
      BY <1>4, <2>5
    <3>2. j \in DOMAIN entries /\ j # 0 /\ i # j
      BY <1>1, <3>1 DEF PairOf, RowsOf
    <3>3. h = s /\ ~entries'[i].live /\ entries'[j].live = entries[j].live
      BY <3>2, <2>2 DEF Strikes
    <3> HIDE DEF s, h
    <3>4. thread'[t] = s /\ t \in BusyWith(thread', x)
      BY <1>1, <1>5, <2>3, <3>3 DEF BusyWith
    <3>5. Follows(entries', thread', x, i, j) /\ Follows(entries', thread', x, j, i)
      BY <1>5, <3>3, <3>4 DEF Follows
    <3>6. /\ RowsOf(entries', x) = RowsOf(entries, x)
          /\ SameOrStruck(entries, entries', i) /\ SameOrStruck(entries, entries', j)
      BY <1>2, <2>2, <3>2, <3>3 DEF Strikes, SameOrStruck
    <3>7. thread' = [thread EXCEPT ![t] = s]
      BY <2>3, <3>3
    <3> QED
      BY <1>1, <1>2, <1>5, <3>1, <3>3, <3>5, <3>6, <3>7, PairStays
  <2> HIDE DEF h
  <2> QED
    BY <1>1, <1>2, <1>3, <2>1, <2>3, <2>4, <2>8, <2>5, DeletionStep
<1>7. CASE /\ Postings!Fails("delete") \/ (Postings!Works /\ ~entries[i].live)
           /\ UNCHANGED entries /\ Postings!Finish(t)
  <2>1. thread' = [thread EXCEPT ![t] = Postings!Idle] /\ entries' = entries
    BY <1>7 DEF Postings!Finish
  <2>2. ASSUME Postings!NoneBroken', x \in TransfersMade PROVE Unbroken(entries', thread', x)
    <3>1. PairOf(entries, thread, x, i, j) /\ ~entries[i].live
      BY <1>4, <1>7, <2>2
    <3>2. \A u \in BusyWith(thread, x) : thread[u].pc = "sibling" => u \in BusyWith(thread', x) /\ thread'[u] = thread[u]
      BY <1>1, <2>1 DEF BusyWith
    <3>3. Follows(entries, thread', x, i, j) /\ Follows(entries, thread', x, j, i)
      BY <3>1, <3>2 DEF PairOf, Follows
    <3> QED
      BY <1>1, <1>2, <2>1, <3>1, <3>3, IdleIsLocal, PairStays DEF SameOrStruck
  <2> QED
    BY <1>1, <1>2, <1>3, <2>1, <2>2, IdleIsLocal, DeletionStep
<1> QED
  BY <1>6, <1>7 DEF Postings!DeleteFirst, Postings!HasSibling

LEMMA DeleteSiblingStep == ASSUME PostInv, NEW t \in Operators, Postings!DeleteSibling(t) PROVE PostInv'
<1> PICK x : x = thread[t].of
  OBVIOUS
<1> PICK i, j : i = thread[t].txn /\ j = thread[t].other
  OBVIOUS
<1>1. /\ thread[t].pc = "sibling" /\ UNCHANGED <<due, crashes, overlapped, early>>
      /\ thread[t] \in Postings!Local /\ thread \in [Operators -> Postings!Local]
      /\ entries \in Seq(Postings!Transaction) /\ LinksWithin(entries)
      /\ failed \subseteq Fallible /\ Placed(thread[t], entries)
      /\ thread' = [thread EXCEPT ![t] = Postings!Idle]
  BY DEF Postings!DeleteSibling, Postings!At, Postings!Finish, PostInv, PostTyped
<1>2. /\ {i, j} \subseteq RowsOf(entries, x) /\ {i, j} \subseteq DOMAIN entries /\ thread[t].pc \in Deleting
      /\ t \in BusyWith(thread, x) /\ thread[t].pc # "idle"
  BY <1>1 DEF Placed, Making, Deleting, RowsOf, BusyWith
<1>3. failed \subseteq failed' /\ failed' \subseteq Fallible
  BY <1>1, FailedGrows DEF Postings!DeleteSibling
<1>4. entries' = entries \/ entries' = [entries EXCEPT ![j].live = FALSE]
  BY DEF Postings!DeleteSibling, Postings!Delete
<1>5. ASSUME Postings!NoneBroken', x \in TransfersMade PROVE Unbroken(entries', thread', x)
  <2>1. Unbroken(entries, thread, x)
    BY <1>1, <1>3, <1>5, UnbrokenBefore DEF PostInv, TransfersUnbroken
  <2>2. PairOf(entries, thread, x, i, j)
    BY <1>2, <2>1, PairOfDeleter
  <2>3. ~Postings!Fails("sibling")
    BY <1>5 DEF Postings!NoneBroken, Postings!Fails
  <2>4. entries' = [entries EXCEPT ![j].live = FALSE]
    BY <2>3 DEF Postings!DeleteSibling, Postings!Delete
  <2>5. Strikes(entries, j, entries')
    BY <1>1, <1>2, <2>4, Struck
  <2>6. i # j /\ ~entries[i].live
    BY <1>1, <1>2, <2>2 DEF PairOf
  <2>7. ~entries'[i].live /\ ~entries'[j].live
    BY <1>2, <2>5, <2>6 DEF Strikes
  <2>8. Follows(entries', thread', x, i, j) /\ Follows(entries', thread', x, j, i)
    BY <2>7 DEF Follows
  <2>9. /\ RowsOf(entries', x) = RowsOf(entries, x)
        /\ SameOrStruck(entries, entries', i) /\ SameOrStruck(entries, entries', j)
    BY <1>2, <2>5, <2>7 DEF Strikes, SameOrStruck
  <2> QED
    BY <1>1, <1>2, <2>2, <2>7, <2>8, <2>9, IdleIsLocal, PairStays
<1> QED
  BY <1>1, <1>2, <1>3, <1>4, <1>5, IdleIsLocal, DeletionStep

-----------------------------------------------------------------------------
LEMMA CrashStep == ASSUME PostInv, Postings!Crash PROVE PostInv'
<1>1. /\ UNCHANGED <<entries, due, failed, overlapped, early>> /\ crashes < MaxCrashes /\ crashes' = crashes + 1
      /\ thread' = [t \in Operators |-> Postings!Idle]
  BY DEF Postings!Crash
<1>2. crashes \in 0..MaxCrashes
  BY DEF PostInv, PostTyped
<1>3. crashes' \in 0..MaxCrashes /\ crashes' # 0
  BY <1>1, <1>2, PostingsAssumption
<1>4. PostTyped'
  BY <1>1, <1>3, IdleIsLocal DEF PostInv, PostTyped
<1> QED
  BY <1>3, <1>4 DEF PostInv, TransfersUnbroken, OccurrencesSettled, Postings!NoneBroken, Postings!InTurn

LEMMA PostStart == Postings!Init => PostInv
<1> SUFFICES ASSUME Postings!Init PROVE PostInv
  OBVIOUS
<1>1. /\ entries = <<>> /\ due = [d \in Occurrences |-> [status |-> "none", txn |-> 0]]
      /\ thread = [t \in Operators |-> Postings!Idle]
      /\ failed = {} /\ crashes = 0 /\ overlapped = FALSE /\ early = FALSE
  BY DEF Postings!Init
<1>2. entries \in Seq(Postings!Transaction) /\ DOMAIN entries = {} /\ Len(entries) = 0
  BY <1>1
<1>3. LinksWithin(entries) /\ \A s : RowsOf(entries, s) = {}
  BY <1>2 DEF LinksWithin, RowsOf
<1>4. \A t \in Operators : thread[t] = Postings!Idle
  BY <1>1
<1>5. PostTyped
  <2>1. due \in [Occurrences -> Postings!Pending] /\ thread \in [Operators -> Postings!Local]
    BY <1>1, IdleIsLocal DEF Postings!Pending
  <2>2. crashes \in 0..MaxCrashes
    BY <1>1, PostingsAssumption
  <2> QED
    BY <1>1, <1>2, <1>3, <1>4, <2>1, <2>2, IdleIsLocal DEF PostTyped
<1>6. \A s : BusyWith(thread, s) = {}
  BY <1>4, IdleIsLocal DEF BusyWith
<1>7. TransfersUnbroken
  BY <1>3, <1>6 DEF TransfersUnbroken, Unbroken, NotMade
<1>8. OccurrencesSettled
  BY <1>1, <1>3, <1>4, <1>6, IdleIsLocal DEF OccurrencesSettled, Settled, TakeTurns
<1> QED
  BY <1>5, <1>7, <1>8 DEF PostInv

LEMMA PostStep == PostInv /\ [Postings!Next]_postingVars => PostInv'
<1> SUFFICES ASSUME PostInv, [Postings!Next]_postingVars PROVE PostInv'
  OBVIOUS
<1>1. CASE UNCHANGED postingVars
  BY <1>1 DEF postingVars, PostInv, PostTyped, TransfersUnbroken, OccurrencesSettled, Postings!NoneBroken, Postings!InTurn
<1>2. ASSUME NEW d \in Occurrences, Postings!Fall(d) PROVE PostInv'
  BY <1>2, FallStep
<1>3. ASSUME NEW t \in Operators, NEW d \in Occurrences, Postings!StartConfirm(t, d) PROVE PostInv'
  BY <1>3, StartDecision DEF Postings!StartConfirm
<1>4. ASSUME NEW t \in Operators, NEW d \in Occurrences, Postings!StartDismiss(t, d) PROVE PostInv'
  BY <1>4, StartDecision DEF Postings!StartDismiss
<1>5. ASSUME NEW t \in Operators, NEW x \in TransfersMade, Postings!AddOut(t, x) PROVE PostInv'
  BY <1>5, AddOutStep
<1>6. ASSUME NEW t \in Operators, NEW i \in DOMAIN entries, Postings!StartDelete(t, i) PROVE PostInv'
  BY <1>6, StartDeleteStep
<1>7. ASSUME NEW t \in Operators, Postings!PostCash(t) PROVE PostInv'
  BY <1>7, PostCashStep
<1>8. ASSUME NEW t \in Operators, Postings!Confirm(t) PROVE PostInv'
  BY <1>8, SettleStep DEF Postings!Confirm, Postings!At
<1>9. ASSUME NEW t \in Operators, Postings!Dismiss(t) PROVE PostInv'
  BY <1>9, SettleStep DEF Postings!Dismiss, Postings!At
<1>10. ASSUME NEW t \in Operators, Postings!AddIn(t) \/ Postings!UndoOut(t) \/ Postings!LinkOut(t) PROVE PostInv'
  BY <1>10, AddInStep, UndoOutStep, LinkOutStep
<1>11. ASSUME NEW t \in Operators, Postings!DeleteFirst(t) \/ Postings!DeleteSibling(t) PROVE PostInv'
  BY <1>11, DeleteFirstStep, DeleteSiblingStep
<1>12. CASE Postings!Crash
  BY <1>12, CrashStep
<1> QED
  BY <1>1, <1>2, <1>3, <1>4, <1>5, <1>6, <1>7, <1>8, <1>9, <1>10, <1>11, <1>12 DEF Postings!Next

\* What the invariant says once nobody is at a subject.
LEMMA PostedThen == PostInv => Postings!TypeOK /\ Postings!TransfersWhole /\ Postings!PostedAsResolved
<1> SUFFICES ASSUME PostInv PROVE Postings!TypeOK /\ Postings!TransfersWhole /\ Postings!PostedAsResolved
  OBVIOUS
<1>1. Postings!TypeOK
  BY DEF PostInv, PostTyped, Postings!TypeOK, LinksWithin, Placed
<1>2. ASSUME NEW x \in TransfersMade, Postings!NoneBroken, ~Postings!InHand(x) PROVE Postings!Whole(x)
  <2>1. Unbroken(entries, thread, x) /\ BusyWith(thread, x) = {}
    BY <1>2 DEF PostInv, TransfersUnbroken, BusyWith, Postings!InHand
  <2>2. Postings!Live(x) = {k \in RowsOf(entries, x) : entries[k].live}
    BY DEF Postings!Live, RowsOf
  <2>3. ~HalfMade(entries, thread, x) /\ ~Unlinked(entries, thread, x)
    BY <2>1 DEF HalfMade, Unlinked
  <2>4. CASE NotMade(entries, thread, x)
    BY <2>2, <2>4 DEF NotMade, Postings!Whole
  <2>5. CASE Undone(entries, thread, x)
    BY <2>2, <2>5 DEF Undone, Postings!Whole
  <2>6. CASE Paired(entries, thread, x)
    <3>1. PICK out, in \in DOMAIN entries :
            /\ Legs(entries, x, out, in) /\ entries[out].link = in
            /\ Follows(entries, thread, x, out, in) /\ Follows(entries, thread, x, in, out)
      BY <2>6 DEF Paired
    <3>2. (entries[out].live /\ entries[in].live) \/ (~entries[out].live /\ ~entries[in].live)
      BY <2>1, <3>1 DEF Follows
    <3>3. CASE entries[out].live /\ entries[in].live
      <4>1. Postings!Live(x) = {out, in}
        BY <2>2, <3>1, <3>3 DEF Legs
      <4> QED
        BY <3>1, <4>1 DEF Legs, Postings!Whole
    <3>4. CASE ~entries[out].live /\ ~entries[in].live
      <4>1. Postings!Live(x) = {}
        BY <2>2, <3>1, <3>4 DEF Legs
      <4> QED
        BY <4>1 DEF Postings!Whole
    <3> QED
      BY <3>2, <3>3, <3>4
  <2> QED
    BY <2>1, <2>3, <2>4, <2>5, <2>6 DEF Unbroken
<1>3. ASSUME NEW d \in Occurrences, Postings!InTurn, ~Postings!InHand(d)
      PROVE  {i \in DOMAIN entries : entries[i].of = d} = IF due[d].status = "confirmed" THEN {due[d].txn} ELSE {}
  <2>1. Settled(entries, thread, d, due[d]) /\ BusyWith(thread, d) = {}
    BY <1>3 DEF PostInv, OccurrencesSettled, BusyWith, Postings!InHand
  <2> QED
    BY <2>1 DEF Settled, RowsOf
<1> QED
  BY <1>1, <1>2, <1>3 DEF Postings!TransfersWhole, Postings!PostedAsResolved

\* A decision is changed by nobody: the UPDATE of a pending row asks for one that is pending.
LEMMA DecidedOnce ==
  ASSUME PostInv, [Postings!Next]_postingVars, NEW d \in Occurrences, due[d].status \in {"confirmed", "dismissed"}
  PROVE  due'[d] = due[d]
<1>1. due \in [Occurrences -> Postings!Pending]
  BY DEF PostInv, PostTyped
<1>2. ASSUME NEW e \in Occurrences, Postings!Fall(e) PROVE due'[d] = due[d]
  BY <1>1, <1>2 DEF Postings!Fall
<1>3. ASSUME NEW t \in Operators, NEW status, Postings!Settle(t, status) PROVE due'[d] = due[d]
  BY <1>1, <1>3 DEF Postings!Settle, Postings!Resolvable, Postings!Unresolved
<1>4. CASE UNCHANGED due
  BY <1>4
<1> QED
  BY <1>2, <1>3, <1>4 DEF Postings!Next, postingVars, Postings!Confirm, Postings!Dismiss, Postings!StartConfirm,
     Postings!StartDismiss, Postings!AddOut, Postings!StartDelete, Postings!PostCash, Postings!AddIn, Postings!UndoOut,
     Postings!LinkOut, Postings!DeleteFirst, Postings!DeleteSibling, Postings!Crash

\* As long as nothing breaks off, a transfer nobody is at has both of its rows or none; as
\* long as operations take turns, an occurrence has the row its confirmation names or none;
\* and what became of an occurrence is never decided again.
THEOREM PostedWholeHolds == SpecOne => PostedWhole
<1> DEFINE IInv == focus = "postings" => PostInv
<1>1. StartOne => IInv
  BY PostStart DEF StartOne
<1>2. IInv /\ [StepOne]_ruleVars => IInv'
  <2> SUFFICES ASSUME IInv, [StepOne]_ruleVars, focus' = "postings" PROVE PostInv'
    OBVIOUS
  <2>1. focus = "postings" /\ [Postings!Next]_postingVars
    BY DEF StepOne, ruleVars, postingVars
  <2> QED
    BY <2>1, PostStep
<1>3. IInv => Posted
  BY PostedThen DEF Posted
<1>4. IInv /\ [StepOne]_ruleVars =>
        [\A d \in Occurrences : due[d].status \in {"confirmed", "dismissed"} => due'[d] = due[d]]_postingVars
  <2> SUFFICES ASSUME IInv, [StepOne]_ruleVars, NEW d \in Occurrences, due[d].status \in {"confirmed", "dismissed"}
               PROVE  due'[d] = due[d]
    OBVIOUS
  <2>1. CASE focus = "postings"
    <3>1. [Postings!Next]_postingVars
      BY <2>1 DEF StepOne, ruleVars, postingVars
    <3> QED
      BY <2>1, <3>1, DecidedOnce
  <2>2. CASE focus # "postings"
    BY <2>2 DEF StepOne, ruleVars, postingVars
  <2> QED
    BY <2>1, <2>2
<1> QED
  BY <1>1, <1>2, <1>3, <1>4, PTL DEF SpecOne, PostedWhole, Postings!ResolvedOnce, Postings!vars, postingVars

-----------------------------------------------------------------------------
(* TreasuryBills.  Rows of the ledger keep their bill and their side, so a *)
(* row of treasury_bills, and what a thread has read of it, goes on naming *)
(* a Buy and a Sell of its bill.  The payout that a sweep has posted and   *)
(* not marked yet is named by nobody else; whoever deletes a payout is     *)
(* about to delete its bill.  While operations take turns, the stage of    *)
(* the one at work tells which rows of its bill are live.                  *)

Dealers == Operators \cup Sweeps
Side(l, b, leg) == {i \in DOMAIN l : l[i].bill = b /\ l[i].leg = leg}
LiveOf(l, b) == {i \in DOMAIN l : l[i].live /\ l[i].bill = b}

Buying == {"ticker", "create", "undo"}
Removing == {"buy", "sell", "row"}
OfOneBill == Buying \cup Removing \cup {"edit", "correct"}

\* The row w of bill b names rows of that bill in the ledger l.
RowFits(l, b, w) ==
  /\ w.status \in {"none", "deleted"} => w.buy = 0 /\ w.sell = 0
  /\ w.status \in {"Open", "Matured"} => w.buy \in Side(l, b, "Buy")
  /\ w.status = "Open" => w.sell = 0
  /\ w.status = "Matured" => w.sell \in Side(l, b, "Sell")

\* So do the locals o of a thread.
LocalFits(l, o) ==
  /\ \A b \in Bills : RowFits(l, b, o.seen[b])
  /\ o.pc = "idle" => o.todo = {}
  /\ o.pc \in OfOneBill => \E b \in Bills : o.todo = {b}
  /\ o.pc \in Buying => \A b \in o.todo : o.txn \in Side(l, b, "Buy")
  /\ o.pc \in {"ticker", "create", "edit", "correct"} => o.face \in Faces /\ o.face > Price
  /\ o.pc \in {"post", "mark"} => \A b \in o.todo : o.seen[b].status = "Open"
  /\ o.pc = "mark" => o.txn \in DOMAIN l /\ l[o.txn].bill \in o.todo /\ l[o.txn].leg = "Sell" /\ l[o.txn].live
  /\ o.pc \in {"edit", "buy", "row"} => \A b \in o.todo : o.seen[b].status \in {"Open", "Matured"}
  /\ o.pc \in {"correct", "sell"} => \A b \in o.todo : o.seen[b].status = "Matured"

DealTyped ==
  /\ deals \in Seq(Dealing!Transaction)
  /\ row \in [Bills -> Dealing!Row] /\ age \in [Bills -> 0 .. 2]
  /\ dealer \in [Dealers -> Dealing!Local]
  /\ \A b \in Bills : RowFits(deals, b, row[b])
  /\ \A t \in Dealers : LocalFits(deals, dealer[t])
  /\ missed \subseteq FailingDeals /\ met \in BOOLEAN

\* A payout that is not marked yet is named by nobody but the sweep that posted it.
Claimed(r, th) ==
  \A t \in Dealers : th[t].pc = "mark" =>
    /\ \A b \in Bills : r[b].sell # th[t].txn
    /\ \A u \in Dealers : \A b \in Bills : th[u].seen[b].sell # th[t].txn
    /\ \A u \in Dealers \ {t} : th[u].pc = "mark" => th[u].txn # th[t].txn
\* A bill in the making is in one hand.
InOneHand(r, th) ==
  \A t \in Dealers : th[t].pc \in Buying => \A b \in th[t].todo :
    r[b].status = "none" /\ \A u \in Dealers \ {t} : b \notin th[u].todo
PaidOrRemoved(l, r, th, f) == "row" \notin f =>
  \A b \in Bills : r[b].status = "Matured" =>
    l[r[b].sell].live \/ \E t \in Dealers : b \in th[t].todo /\ th[t].pc \in Removing

\* The live rows of bill b are those that its row w names.
Booked(l, w, b) ==
  /\ w.status \notin {"Open", "Matured"} => LiveOf(l, b) = {}
  /\ w.status = "Open" => LiveOf(l, b) = {w.buy}
  /\ w.status = "Matured" => LiveOf(l, b) = {w.buy, w.sell} /\ l[w.sell].leg = "Sell" /\ l[w.sell].amount = w.face
  /\ \A i \in LiveOf(l, b) : l[i].ticker
\* What is live of the bill b that a thread with the locals o is at.
AtStage(l, w, o, b) ==
  /\ o.pc \in Buying => w.status = "none" /\ LiveOf(l, b) = {o.txn}
  /\ o.pc = "create" => l[o.txn].ticker
  /\ o.pc \in {"post", "mark", "edit", "buy", "sell"} => w = o.seen[b]
  /\ o.pc \in {"post", "edit", "buy"} => Booked(l, w, b)
  /\ o.pc = "mark" =>
       IF l[o.txn].bill # b THEN Booked(l, w, b)
       ELSE LiveOf(l, b) = {w.buy, o.txn} /\ l[o.txn].amount = w.face /\ \A i \in LiveOf(l, b) : l[i].ticker
  /\ o.pc = "correct" => /\ w = [o.seen[b] EXCEPT !.face = o.face]
                         /\ LiveOf(l, b) = {w.buy, w.sell} /\ \A i \in LiveOf(l, b) : l[i].ticker
  /\ o.pc = "sell" => LiveOf(l, b) = {w.sell}
  /\ o.pc = "row" => LiveOf(l, b) = {}
BillAt(l, w, o, b) == IF b \in o.todo THEN AtStage(l, w, o, b) ELSE Booked(l, w, b)

InOrder(l, r, th) ==
  /\ \A t, u \in Dealers : th[t].pc # "idle" /\ th[u].pc # "idle" => t = u
  /\ (\A t \in Dealers : th[t].pc = "idle") => \A b \in Bills : Booked(l, r[b], b)
  /\ \A t \in Dealers : th[t].pc # "idle" => \A b \in Bills : BillAt(l, r[b], th[t], b)

DealInv ==
  /\ DealTyped
  /\ Claimed(row, dealer) /\ InOneHand(row, dealer) /\ PaidOrRemoved(deals, row, dealer, missed)
  /\ Dealing!InTurn => InOrder(deals, row, dealer)

-----------------------------------------------------------------------------
(* The changes of the ledger *)

\* From l to m, only rows of bill s are added or changed, and none changes its side.
Keeps(l, m, s) ==
  /\ DOMAIN l \subseteq DOMAIN m
  /\ \A i \in DOMAIN l : m[i].bill = l[i].bill /\ m[i].leg = l[i].leg /\ (l[i].bill # s => m[i] = l[i])
  /\ \A i \in DOMAIN m \ DOMAIN l : m[i].bill = s

LEMMA FitsOn ==
  ASSUME NEW l, NEW m, NEW s, Keeps(l, m, s)
  PROVE  /\ \A b, leg : Side(l, b, leg) \subseteq Side(m, b, leg)
         /\ \A b, w : RowFits(l, b, w) => RowFits(m, b, w)
         /\ \A o : LocalFits(l, o) /\ (o.pc = "mark" => m[o.txn].live) => LocalFits(m, o)
<1>1. \A b, leg : Side(l, b, leg) \subseteq Side(m, b, leg)
  BY DEF Keeps, Side
<1>2. \A b, w : RowFits(l, b, w) => RowFits(m, b, w)
  BY <1>1 DEF RowFits
<1>3. ASSUME NEW o, LocalFits(l, o), o.pc = "mark" => m[o.txn].live PROVE LocalFits(m, o)
  <2>1. o.pc = "mark" => o.txn \in DOMAIN m /\ m[o.txn].bill \in o.todo /\ m[o.txn].leg = "Sell" /\ m[o.txn].live
    BY <1>3 DEF LocalFits, Keeps
  <2> QED
    BY <1>1, <1>2, <1>3, <2>1 DEF LocalFits
<1> QED
  BY <1>1, <1>2, <1>3

LEMMA OtherBills ==
  ASSUME NEW l, NEW m, NEW s, Keeps(l, m, s), NEW b, b # s
  PROVE  /\ LiveOf(m, b) = LiveOf(l, b) /\ \A i \in LiveOf(l, b) : m[i] = l[i]
         /\ \A w : RowFits(l, b, w) /\ Booked(l, w, b) => Booked(m, w, b)
<1>1. LiveOf(m, b) = LiveOf(l, b) /\ \A i \in LiveOf(l, b) : m[i] = l[i]
  BY DEF Keeps, LiveOf
<1>2. ASSUME NEW w, RowFits(l, b, w), Booked(l, w, b) PROVE Booked(m, w, b)
  <2>1. w.status = "Matured" => m[w.sell] = l[w.sell]
    BY <1>2 DEF RowFits, Side, Keeps
  <2> QED
    BY <1>1, <1>2, <2>1 DEF Booked
<1> QED
  BY <1>1, <1>2

\* m is l with the row x at its end.
Appends(l, x, m) ==
  /\ m \in Seq(Dealing!Transaction) /\ Keeps(l, m, x.bill)
  /\ Len(l) + 1 \in DOMAIN m \ DOMAIN l /\ m[Len(l) + 1] = x
  /\ \A i \in DOMAIN l : m[i] = l[i]
  /\ x.live => LiveOf(m, x.bill) = LiveOf(l, x.bill) \cup {Len(l) + 1}

LEMMA Appended ==
  ASSUME NEW l \in Seq(Dealing!Transaction), NEW x \in Dealing!Transaction
  PROVE  Appends(l, x, Append(l, x))
<1> DEFINE m == Append(l, x)
<1>1. /\ m \in Seq(Dealing!Transaction) /\ Len(m) = Len(l) + 1 /\ m[Len(l) + 1] = x
      /\ \A i \in 1..Len(l) : m[i] = l[i]
  BY AppendProperties
<1>2. DOMAIN l = 1..Len(l) /\ DOMAIN m = 1..Len(m) /\ Len(l) \in Nat
  BY <1>1
<1> HIDE DEF m
<1>3. Len(l) + 1 \notin DOMAIN l /\ DOMAIN m = DOMAIN l \cup {Len(l) + 1}
  BY <1>1, <1>2
<1>4. \A i \in DOMAIN l : m[i] = l[i]
  BY <1>1, <1>2
<1>5. Keeps(l, m, x.bill) /\ (x.live => LiveOf(m, x.bill) = LiveOf(l, x.bill) \cup {Len(l) + 1})
  BY <1>1, <1>3, <1>4 DEF Keeps, LiveOf
<1> QED
  BY <1>1, <1>3, <1>4, <1>5 DEF Appends, m

\* m is l with x for its row i.
Changes(l, i, x, m) ==
  /\ m \in Seq(Dealing!Transaction) /\ Keeps(l, m, x.bill) /\ DOMAIN m = DOMAIN l
  /\ m[i] = x /\ \A j \in DOMAIN l \ {i} : m[j] = l[j]
  /\ LiveOf(m, x.bill) = IF x.live = l[i].live THEN LiveOf(l, x.bill)
                         ELSE IF x.live THEN LiveOf(l, x.bill) \cup {i} ELSE LiveOf(l, x.bill) \ {i}

LEMMA Changed ==
  ASSUME NEW l \in Seq(Dealing!Transaction), NEW i \in DOMAIN l, NEW x \in Dealing!Transaction,
         x.bill = l[i].bill, x.leg = l[i].leg, NEW m, m = [l EXCEPT ![i] = x]
  PROVE  Changes(l, i, x, m)
<1>1. i \in 1..Len(l) /\ DOMAIN l = 1..Len(l)
  OBVIOUS
<1>2. /\ m \in Seq(Dealing!Transaction) /\ Len(m) = Len(l)
      /\ \A j \in 1..Len(l) : m[j] = IF j = i THEN x ELSE l[j]
  BY <1>1, ExceptSeq
<1>3. DOMAIN m = DOMAIN l /\ m[i] = x /\ \A j \in DOMAIN l \ {i} : m[j] = l[j]
  BY <1>1, <1>2
<1>4. Keeps(l, m, x.bill)
  BY <1>3 DEF Keeps
<1>5. l[i] \in Dealing!Transaction
  OBVIOUS
<1>6. x.live \in BOOLEAN /\ l[i].live \in BOOLEAN
  BY <1>5 DEF Dealing!Transaction
<1>7. LiveOf(m, x.bill) = IF x.live = l[i].live THEN LiveOf(l, x.bill)
                          ELSE IF x.live THEN LiveOf(l, x.bill) \cup {i} ELSE LiveOf(l, x.bill) \ {i}
  BY <1>3, <1>6 DEF LiveOf
<1> QED
  BY <1>2, <1>3, <1>4, <1>7 DEF Changes

\* The two changes of a field that the code makes, besides the amount.
LEMMA Deleted ==
  ASSUME NEW l \in Seq(Dealing!Transaction), NEW i \in DOMAIN l
  PROVE  \E x \in Dealing!Transaction : /\ Changes(l, i, x, [l EXCEPT ![i].live = FALSE])
                                        /\ x = [l[i] EXCEPT !.live = FALSE]
<1> DEFINE x == [l[i] EXCEPT !.live = FALSE]
<1>1. l[i] \in Dealing!Transaction
  OBVIOUS
<1>2. x \in Dealing!Transaction /\ x.bill = l[i].bill /\ x.leg = l[i].leg /\ [l EXCEPT ![i].live = FALSE] = [l EXCEPT ![i] = x]
  BY <1>1 DEF Dealing!Transaction
<1> QED
  BY <1>2, Changed
LEMMA Tickered ==
  ASSUME NEW l \in Seq(Dealing!Transaction), NEW i \in DOMAIN l
  PROVE  \E x \in Dealing!Transaction : /\ Changes(l, i, x, [l EXCEPT ![i].ticker = TRUE])
                                        /\ x = [l[i] EXCEPT !.ticker = TRUE]
<1> DEFINE x == [l[i] EXCEPT !.ticker = TRUE]
<1>1. l[i] \in Dealing!Transaction
  OBVIOUS
<1>2. x \in Dealing!Transaction /\ x.bill = l[i].bill /\ x.leg = l[i].leg /\ [l EXCEPT ![i].ticker = TRUE] = [l EXCEPT ![i] = x]
  BY <1>1 DEF Dealing!Transaction
<1> QED
  BY <1>2, Changed
WithAmount(l, i, f) == [l EXCEPT ![i].amount = f]
LEMMA Corrected ==
  ASSUME NEW l \in Seq(Dealing!Transaction), NEW i \in DOMAIN l, NEW f \in Nat
  PROVE  \E x \in Dealing!Transaction :
           /\ Changes(l, i, x, WithAmount(l, i, f))
           /\ x.live = l[i].live /\ x.ticker = l[i].ticker /\ x.leg = l[i].leg /\ x.bill = l[i].bill /\ x.amount = f
<1> DEFINE x == [l[i] EXCEPT !.amount = f]
<1>1. l[i] \in Dealing!Transaction
  OBVIOUS
<1>2. /\ x \in Dealing!Transaction /\ WithAmount(l, i, f) = [l EXCEPT ![i] = x]
      /\ x.live = l[i].live /\ x.ticker = l[i].ticker /\ x.leg = l[i].leg /\ x.bill = l[i].bill /\ x.amount = f
  BY <1>1 DEF Dealing!Transaction, WithAmount
<1> QED
  BY <1>2, Changed

-----------------------------------------------------------------------------
(* A step of the thread t, whose locals become o *)

Moves(t, o) == o \in Dealing!Local /\ dealer' = [dealer EXCEPT ![t] = o]
KeepsClaims(t, o) ==
  /\ \A b \in Bills : \/ row'[b].sell \in {row[b].sell, 0}
                      \/ dealer[t].pc = "mark" /\ o.pc # "mark" /\ row'[b].sell = dealer[t].txn
  /\ \A b \in Bills : o.seen[b].sell \in {dealer[t].seen[b].sell, row[b].sell, 0}
  /\ o.pc = "mark" => o.txn \notin DOMAIN deals /\ o.txn # 0
KeepsMaking(t, o) ==
  /\ \A b \in Bills : row[b].status = "none" /\ row'[b].status # "none" => b \in dealer[t].todo
  /\ \A b \in o.todo : \/ b \in dealer[t].todo \/ row[b].status # "none"
                       \/ \A u \in Dealers : b \notin dealer[u].todo
  /\ o.pc \in Buying => \A b \in o.todo : row'[b].status = "none" /\ \A u \in Dealers \ {t} : b \notin dealer[u].todo
KeepsPaid(t, o) ==
  /\ \A b \in Bills : row'[b].status = "Matured" =>
       \/ row[b].status = "Matured" /\ row'[b].sell = row[b].sell
       \/ deals'[row'[b].sell].live
  /\ dealer[t].pc \in Removing =>
       \/ "row" \in missed'
       \/ o.pc \in Removing /\ o.todo = dealer[t].todo
       \/ \A b \in dealer[t].todo : row'[b].status # "Matured"
  /\ \A i \in DOMAIN deals : deals[i].live /\ ~deals'[i].live =>
       \/ deals[i].leg = "Buy"
       \/ o.pc = "row" /\ deals[i].bill \in o.todo /\ \E b \in Bills : i = dealer[t].seen[b].sell

LEMMA SellNames ==
  ASSUME NEW l \in Seq(Dealing!Transaction), NEW b, NEW w \in Dealing!Row, RowFits(l, b, w)
  PROVE  (w.sell = 0 \/ w.sell \in DOMAIN l) /\ (w.buy = 0 \/ w.buy \in DOMAIN l) /\ 0 \notin DOMAIN l
BY DEF RowFits, Side, Dealing!Row

LEMMA ClaimsStay ==
  ASSUME DealInv, NEW t \in Dealers, NEW o, Moves(t, o), KeepsClaims(t, o)
  PROVE  Claimed(row', dealer')
<1>1. dealer'[t] = o /\ \A u \in Dealers \ {t} : dealer'[u] = dealer[u]
  BY DEF Moves, DealInv, DealTyped
<1>2. \A b \in Bills : (row[b].sell = 0 \/ row[b].sell \in DOMAIN deals) /\ 0 \notin DOMAIN deals
  BY SellNames DEF DealInv, DealTyped
<1>3. \A u \in Dealers, b \in Bills : dealer[u].seen[b].sell = 0 \/ dealer[u].seen[b].sell \in DOMAIN deals
  BY SellNames DEF DealInv, DealTyped, LocalFits, Dealing!Local
<1>4. \A u \in Dealers : dealer[u].pc = "mark" => dealer[u].txn \in DOMAIN deals /\ dealer[u].txn # 0
  BY <1>2 DEF DealInv, DealTyped, LocalFits, Dealing!Local
<1> SUFFICES ASSUME NEW u \in Dealers, dealer'[u].pc = "mark"
             PROVE  /\ \A b \in Bills : row'[b].sell # dealer'[u].txn
                    /\ \A v \in Dealers : \A b \in Bills : dealer'[v].seen[b].sell # dealer'[u].txn
                    /\ \A v \in Dealers \ {u} : dealer'[v].pc = "mark" => dealer'[v].txn # dealer'[u].txn
  BY DEF Claimed
<1>5. CASE u = t
  <2>1. dealer'[u] = o /\ o.txn \notin DOMAIN deals /\ o.txn # 0
    BY <1>1, <1>5 DEF KeepsClaims
  <2>2. \A b \in Bills : row'[b].sell # o.txn
    BY <1>1, <1>2, <1>5, <2>1 DEF KeepsClaims
  <2>3. ASSUME NEW v \in Dealers, NEW b \in Bills PROVE dealer'[v].seen[b].sell # o.txn
    BY <1>1, <1>2, <1>3, <2>1 DEF KeepsClaims
  <2>4. ASSUME NEW v \in Dealers \ {u}, dealer'[v].pc = "mark" PROVE dealer'[v].txn # o.txn
    BY <1>1, <1>4, <1>5, <2>1, <2>4
  <2> QED
    BY <2>1, <2>2, <2>3, <2>4
<1>6. CASE u # t
  <2>1. dealer'[u] = dealer[u] /\ dealer[u].pc = "mark" /\ dealer[u].txn \in DOMAIN deals /\ dealer[u].txn # 0
    BY <1>1, <1>4, <1>6
  <2>2. /\ \A b \in Bills : row[b].sell # dealer[u].txn
        /\ \A v \in Dealers : \A b \in Bills : dealer[v].seen[b].sell # dealer[u].txn
        /\ \A v \in Dealers \ {u} : dealer[v].pc = "mark" => dealer[v].txn # dealer[u].txn
    BY <2>1 DEF DealInv, Claimed
  <2>3. \A b \in Bills : row'[b].sell # dealer[u].txn
    BY <1>6, <2>1, <2>2 DEF KeepsClaims
  <2>4. ASSUME NEW v \in Dealers, NEW b \in Bills PROVE dealer'[v].seen[b].sell # dealer[u].txn
    BY <1>1, <2>1, <2>2 DEF KeepsClaims
  <2>5. ASSUME NEW v \in Dealers \ {u}, dealer'[v].pc = "mark" PROVE dealer'[v].txn # dealer[u].txn
    BY <1>1, <2>1, <2>2, <2>5 DEF KeepsClaims
  <2> QED
    BY <2>1, <2>3, <2>4, <2>5
<1> QED
  BY <1>5, <1>6

LEMMA MakingStays ==
  ASSUME DealInv, NEW t \in Dealers, NEW o, Moves(t, o), KeepsMaking(t, o)
  PROVE  InOneHand(row', dealer')
<1>1. dealer'[t] = o /\ \A u \in Dealers \ {t} : dealer'[u] = dealer[u]
  BY DEF Moves, DealInv, DealTyped
<1> SUFFICES ASSUME NEW u \in Dealers, dealer'[u].pc \in Buying, NEW b \in dealer'[u].todo
             PROVE  row'[b].status = "none" /\ \A v \in Dealers \ {u} : b \notin dealer'[v].todo
  BY DEF InOneHand
<1>2. CASE u = t
  BY <1>1, <1>2 DEF KeepsMaking
<1>3. CASE u # t
  <2>1. dealer'[u] = dealer[u] /\ row[b].status = "none" /\ \A v \in Dealers \ {u} : b \notin dealer[v].todo
    BY <1>1, <1>3 DEF DealInv, InOneHand
  <2>2. b \in Bills
    BY <2>1 DEF DealInv, DealTyped, Dealing!Local
  <2>3. row'[b].status = "none"
    BY <1>3, <2>1, <2>2 DEF KeepsMaking
  <2>4. b \notin o.todo
    BY <1>3, <2>1 DEF KeepsMaking
  <2> QED
    BY <1>1, <2>1, <2>3, <2>4
<1> QED
  BY <1>2, <1>3

LEMMA PaidStays ==
  ASSUME DealInv, NEW t \in Dealers, NEW o, Moves(t, o), KeepsPaid(t, o), missed \subseteq missed'
  PROVE  PaidOrRemoved(deals', row', dealer', missed')
<1>1. dealer'[t] = o /\ \A u \in Dealers \ {t} : dealer'[u] = dealer[u]
  BY DEF Moves, DealInv, DealTyped
<1> SUFFICES ASSUME "row" \notin missed', NEW b \in Bills, row'[b].status = "Matured", ~deals'[row'[b].sell].live
             PROVE  \E u \in Dealers : b \in dealer'[u].todo /\ dealer'[u].pc \in Removing
  BY DEF PaidOrRemoved
<1>2. row[b].status = "Matured" /\ row'[b].sell = row[b].sell
  BY DEF KeepsPaid
<1>3. row[b].sell \in DOMAIN deals /\ deals[row[b].sell].bill = b /\ deals[row[b].sell].leg = "Sell"
  BY <1>2 DEF DealInv, DealTyped, RowFits, Side
<1>4. CASE deals[row[b].sell].live
  <2>1. o.pc = "row" /\ b \in o.todo
    BY <1>2, <1>3, <1>4 DEF KeepsPaid
  <2> QED
    BY <1>1, <2>1 DEF Removing
<1>5. CASE ~deals[row[b].sell].live
  <2>1. PICK u \in Dealers : b \in dealer[u].todo /\ dealer[u].pc \in Removing
    BY <1>2, <1>5 DEF DealInv, PaidOrRemoved
  <2>2. CASE u = t
    BY <1>1, <2>1, <2>2 DEF KeepsPaid
  <2>3. CASE u # t
    BY <1>1, <2>1, <2>3
  <2> QED
    BY <2>2, <2>3
<1> QED
  BY <1>4, <1>5

\* While operations take turns, the step is of the only thread at work.
LEMMA OrderStays ==
  ASSUME DealInv, NEW t \in Dealers, NEW o, Moves(t, o), LocalFits(deals', o),
         \A u \in Dealers \ {t} : dealer[u].pc = "idle",
         \A b \in Bills : BillAt(deals', row'[b], o, b)
  PROVE  InOrder(deals', row', dealer')
<1>1. dealer'[t] = o /\ \A u \in Dealers \ {t} : dealer'[u] = dealer[u]
  BY DEF Moves, DealInv, DealTyped
<1>2. o.pc = "idle" => o.todo = {}
  BY DEF LocalFits
<1>3. o.pc = "idle" => \A b \in Bills : Booked(deals', row'[b], b)
  BY <1>2 DEF BillAt
<1> QED
  BY <1>1, <1>3 DEF InOrder

LEMMA InTurnSince ==
  ASSUME Dealing!InTurn', missed \subseteq missed', met => met'
  PROVE  Dealing!InTurn
BY DEF Dealing!InTurn

LEMMA DealStep ==
  ASSUME DealInv, NEW t \in Dealers, NEW o, Moves(t, o), NEW s, Keeps(deals, deals', s),
         deals' \in Seq(Dealing!Transaction), row' \in [Bills -> Dealing!Row], age' = age,
         missed \subseteq missed', missed' \subseteq FailingDeals, met' \in BOOLEAN,
         LocalFits(deals', o), \A b \in Bills : RowFits(deals', b, row'[b]),
         KeepsClaims(t, o), KeepsMaking(t, o), KeepsPaid(t, o),
         Dealing!InTurn' => /\ \A u \in Dealers \ {t} : dealer[u].pc = "idle"
                            /\ \A b \in Bills : BillAt(deals', row'[b], o, b)
  PROVE  DealInv'
<1>1. dealer'[t] = o /\ (\A u \in Dealers \ {t} : dealer'[u] = dealer[u]) /\ dealer' \in [Dealers -> Dealing!Local]
  BY DEF Moves, DealInv, DealTyped
<1>2. ASSUME NEW u \in Dealers \ {t} PROVE LocalFits(deals', dealer[u])
  <2>1. LocalFits(deals, dealer[u])
    BY DEF DealInv, DealTyped
  <2>2. ASSUME dealer[u].pc = "mark" PROVE deals'[dealer[u].txn].live
    <3>1. dealer[u].txn \in DOMAIN deals /\ deals[dealer[u].txn].live /\ deals[dealer[u].txn].leg = "Sell"
      BY <2>1, <2>2 DEF LocalFits
    <3>2. \A b \in Bills : dealer[u].txn # dealer[t].seen[b].sell
      BY <2>2 DEF DealInv, Claimed
    <3> QED
      BY <3>1, <3>2 DEF KeepsPaid
  <2> QED
    BY <2>1, <2>2, FitsOn
<1>3. DealTyped'
  BY <1>1, <1>2 DEF DealInv, DealTyped
<1> QED
  BY <1>3, ClaimsStay, MakingStays, PaidStays, OrderStays DEF DealInv

LEMMA AtWork ==
  ASSUME DealInv, Dealing!InTurn, NEW t \in Dealers, dealer[t].pc # "idle"
  PROVE  /\ \A u \in Dealers \ {t} : dealer[u].pc = "idle"
         /\ \A b \in Bills : BillAt(deals, row[b], dealer[t], b)
BY DEF DealInv, InOrder

LEMMA BeginsAlone ==
  ASSUME DealInv, NEW t \in Dealers, Dealing!Begins(t), Dealing!InTurn', UNCHANGED missed
  PROVE  /\ \A u \in Dealers : dealer[u].pc = "idle"
         /\ \A b \in Bills : Booked(deals, row[b], b)
<1>1. ~met /\ Dealing!InTurn /\ \A u \in Dealers : dealer[u].pc = "idle"
  BY DEF Dealing!InTurn, Dealing!Begins, Dealing!At, Dealing!Tasks, Dealers
<1> QED
  BY <1>1 DEF DealInv, InOrder

LEMMA BookedElsewhere ==
  ASSUME DealInv, NEW s, Keeps(deals, deals', s), NEW b \in Bills \ {s}, Booked(deals, row[b], b)
  PROVE  Booked(deals', row[b], b)
BY OtherBills DEF DealInv, DealTyped

LEMMA TheBill ==
  ASSUME DealInv, NEW t \in Dealers, dealer[t].pc \in OfOneBill
  PROVE  /\ Dealing!BillOf(t) \in Bills /\ dealer[t].todo = {Dealing!BillOf(t)}
         /\ LocalFits(deals, dealer[t]) /\ dealer[t] \in Dealing!Local
<1>1. LocalFits(deals, dealer[t]) /\ dealer[t] \in Dealing!Local
  BY DEF DealInv, DealTyped
<1>2. PICK b \in Bills : dealer[t].todo = {b}
  BY <1>1 DEF LocalFits
<1>3. Dealing!BillOf(t) = b
  BY <1>2 DEF Dealing!BillOf
<1> QED
  BY <1>1, <1>2, <1>3

LEMMA BlankFits ==
  /\ Dealing!Blank \in Dealing!Row /\ Dealing!Blank.sell = 0 /\ Dealing!Blank.status = "none"
  /\ \A l, b : RowFits(l, b, Dealing!Blank)
BY BillsAssumption DEF Dealing!Blank, Dealing!Row, RowFits

LEMMA IdleFits ==
  /\ Dealing!Idle \in Dealing!Local /\ Dealing!Idle.pc = "idle" /\ Dealing!Idle.todo = {}
  /\ \A b \in Bills : Dealing!Idle.seen[b].sell = 0
  /\ \A l : LocalFits(l, Dealing!Idle)
<1>1. Dealing!Idle \in Dealing!Local /\ Dealing!Idle.pc = "idle" /\ Dealing!Idle.todo = {}
  BY BlankFits DEF Dealing!Idle, Dealing!Local
<1>2. \A b \in Bills : Dealing!Idle.seen[b] = Dealing!Blank
  BY DEF Dealing!Idle
<1> QED
  BY <1>1, <1>2, BlankFits DEF LocalFits, OfOneBill, Buying, Removing

\* What a thread holds when it has read the bills bs.
LEMMA HavingRead ==
  ASSUME DealInv, NEW t \in Dealers, NEW pc, pc \in {"post", "edit", "buy"}, NEW bs \in SUBSET Bills,
         NEW face \in Nat, Dealing!Reading(t, pc, bs, face)
  PROVE  \E o : /\ Moves(t, o) /\ o.pc = pc /\ o.todo = bs /\ o.face = face
                /\ \A b \in Bills : o.seen[b] = IF b \in bs THEN row[b] ELSE Dealing!Blank
<1> DEFINE seen == [b \in Bills |-> IF b \in bs THEN row[b] ELSE Dealing!Blank]
           o == [Dealing!Idle EXCEPT !.pc = pc, !.todo = bs, !.face = face, !.seen = seen]
<1>1. seen \in [Bills -> Dealing!Row]
  BY BlankFits DEF DealInv, DealTyped
<1>2. o \in Dealing!Local /\ o.pc = pc /\ o.todo = bs /\ o.face = face /\ o.seen = seen
  BY <1>1 DEF Dealing!Idle, Dealing!Local
<1>3. dealer' = [dealer EXCEPT ![t] = o]
  BY DEF Dealing!Reading
<1> HIDE DEF o
<1> QED
  BY <1>2, <1>3 DEF Moves

LEMMA NothingWritten ==
  ASSUME DealInv, deals' = deals, row' = row
  PROVE  /\ \A s : Keeps(deals, deals', s)
         /\ deals' \in Seq(Dealing!Transaction) /\ row' \in [Bills -> Dealing!Row]
         /\ \A b \in Bills : RowFits(deals', b, row'[b])
BY DEF DealInv, DealTyped, Keeps

-----------------------------------------------------------------------------
(* The operations begin *)

LEMMA AddBuyStep ==
  ASSUME DealInv, NEW t \in Operators, NEW b \in Bills, NEW face \in Faces, Dealing!AddBuy(t, b, face) PROVE DealInv'
<1> DEFINE n == Len(deals) + 1
           x == [bill |-> b, leg |-> "Buy", ticker |-> FALSE, amount |-> Price, live |-> TRUE]
           o == [Dealing!Idle EXCEPT !.pc = "ticker", !.todo = {b}, !.face = face, !.txn = n]
<1>1. /\ deals \in Seq(Dealing!Transaction) /\ t \in Dealers /\ x \in Dealing!Transaction /\ x.bill = b
      /\ face \in Nat /\ face > Price /\ n \in Nat
  BY BillsAssumption DEF DealInv, DealTyped, Dealing!Transaction, Dealing!AddBuy, Dealing!Acceptable, Dealers
<1>2. /\ o \in Dealing!Local /\ o.pc = "ticker" /\ o.todo = {b} /\ o.face = face /\ o.txn = n
      /\ o.seen = Dealing!Idle.seen
  BY <1>1, IdleFits DEF Dealing!Local, Dealing!Idle
<1>3. /\ deals' = Append(deals, x) /\ dealer' = [dealer EXCEPT ![t] = o] /\ row[b].status = "none"
      /\ \A u \in Dealers : b \notin dealer[u].todo
      /\ Dealing!Begins(t) /\ UNCHANGED <<row, age, missed>>
  BY DEF Dealing!AddBuy, Dealing!Post, Dealing!Tasks, Dealers
<1>4. Appends(deals, x, deals')
  BY <1>1, <1>3, Appended
<1> HIDE DEF x, o
<1>5. Keeps(deals, deals', b) /\ deals' \in Seq(Dealing!Transaction) /\ n \in Side(deals', b, "Buy")
  BY <1>1, <1>4 DEF Appends, Side, x
<1>6. \A c \in Bills : o.seen[c].sell = 0 /\ RowFits(deals', c, o.seen[c])
  BY <1>2, IdleFits, BlankFits DEF Dealing!Idle
<1>7. LocalFits(deals', o)
  BY <1>1, <1>2, <1>5, <1>6 DEF LocalFits, Buying, OfOneBill
<1>8. \A c \in Bills : RowFits(deals', c, row'[c])
  BY <1>3, <1>5, FitsOn DEF DealInv, DealTyped
<1>9. KeepsClaims(t, o) /\ KeepsMaking(t, o)
  BY <1>2, <1>3, <1>6 DEF KeepsClaims, KeepsMaking
<1>10. KeepsPaid(t, o)
  BY <1>2, <1>3, <1>4, IdleFits DEF KeepsPaid, Appends, Dealing!Begins, Dealing!At, Removing
<1>11. ASSUME Dealing!InTurn' PROVE /\ \A u \in Dealers \ {t} : dealer[u].pc = "idle"
                                    /\ \A c \in Bills : BillAt(deals', row'[c], o, c)
  <2>1. /\ \A u \in Dealers : dealer[u].pc = "idle"
        /\ \A c \in Bills : Booked(deals, row[c], c)
    BY <1>1, <1>3, <1>11, BeginsAlone
  <2>2. LiveOf(deals', b) = {n}
    BY <1>1, <1>3, <1>4, <2>1 DEF Appends, Booked, x
  <2>3. \A c \in Bills \ {b} : Booked(deals', row[c], c)
    BY <1>5, <2>1, BookedElsewhere
  <2> QED
    BY <1>2, <1>3, <2>1, <2>2, <2>3 DEF BillAt, AtStage, Buying
<1>12. Moves(t, o)
  BY <1>2, <1>3 DEF Moves
<1>13. UNCHANGED missed /\ missed' \subseteq FailingDeals /\ met' \in BOOLEAN /\ age' = age /\ row' \in [Bills -> Dealing!Row]
  BY <1>3 DEF DealInv, DealTyped, Dealing!Begins
<1> QED
  BY <1>1, <1>5, <1>7, <1>8, <1>9, <1>10, <1>11, <1>12, <1>13, DealStep

\* A sweep, an edit or a deletion reads what it is about.
LEMMA BeginStep ==
  ASSUME DealInv, NEW t \in Dealers, Dealing!Begins(t), UNCHANGED <<deals, row, age, missed>>,
         NEW o, Moves(t, o), o.pc \in {"post", "edit", "buy"}, o.todo \subseteq Bills,
         \A b \in Bills : o.seen[b] = IF b \in o.todo THEN row[b] ELSE Dealing!Blank,
         \A b \in o.todo : row[b].status \in {"Open", "Matured"},
         o.pc = "post" => \A b \in o.todo : row[b].status = "Open",
         o.pc # "post" => \E b \in Bills : o.todo = {b},
         o.pc = "edit" => o.face \in Faces /\ o.face > Price
  PROVE  DealInv'
<1>1. LocalFits(deals', o)
  BY BlankFits DEF LocalFits, DealInv, DealTyped, OfOneBill, Buying, Removing
<1>2. KeepsClaims(t, o) /\ KeepsMaking(t, o)
  BY BlankFits DEF KeepsClaims, KeepsMaking, Buying
<1>3. KeepsPaid(t, o)
  BY DEF KeepsPaid, Dealing!Begins, Dealing!At, Removing
<1>4. ASSUME Dealing!InTurn' PROVE /\ \A u \in Dealers \ {t} : dealer[u].pc = "idle"
                                   /\ \A c \in Bills : BillAt(deals', row'[c], o, c)
  <2>1. /\ \A u \in Dealers : dealer[u].pc = "idle"
        /\ \A c \in Bills : Booked(deals, row[c], c)
    BY <1>4, BeginsAlone
  <2> QED
    BY <2>1 DEF BillAt, AtStage, Buying
<1>5. missed' \subseteq FailingDeals /\ met' \in BOOLEAN
  BY DEF DealInv, DealTyped, Dealing!Begins
<1> QED
  BY <1>1, <1>2, <1>3, <1>4, <1>5, NothingWritten, DealStep

LEMMA ReadDueStep == ASSUME DealInv, NEW t \in Sweeps, Dealing!ReadDue(t) PROVE DealInv'
<1>1. Dealing!Due \subseteq Bills /\ \A b \in Dealing!Due : row[b].status = "Open"
  BY DEF Dealing!Due
<1>2. t \in Dealers /\ 0 \in Nat
  BY DEF Dealers
<1>3. Dealing!Reading(t, "post", Dealing!Due, 0) /\ Dealing!Begins(t) /\ UNCHANGED <<deals, row, age, missed>>
  BY DEF Dealing!ReadDue
<1>4. PICK o : /\ Moves(t, o) /\ o.pc = "post" /\ o.todo = Dealing!Due /\ o.face = 0
               /\ \A b \in Bills : o.seen[b] = IF b \in Dealing!Due THEN row[b] ELSE Dealing!Blank
  BY <1>1, <1>2, <1>3, HavingRead
<1> QED
  BY <1>1, <1>2, <1>3, <1>4, BeginStep

LEMMA StartEditStep ==
  ASSUME DealInv, NEW t \in Operators, NEW b \in Bills, NEW face \in Faces, Dealing!StartEdit(t, b, face) PROVE DealInv'
<1>1. t \in Dealers /\ face \in Nat /\ {b} \in SUBSET Bills /\ face > Price /\ row[b].status \in {"Open", "Matured"}
  BY BillsAssumption DEF Dealers, Dealing!StartEdit, Dealing!Exists, Dealing!Acceptable
<1>2. Dealing!Reading(t, "edit", {b}, face) /\ Dealing!Begins(t) /\ UNCHANGED <<deals, row, age, missed>>
  BY DEF Dealing!StartEdit
<1>3. PICK o : /\ Moves(t, o) /\ o.pc = "edit" /\ o.todo = {b} /\ o.face = face
               /\ \A c \in Bills : o.seen[c] = IF c \in {b} THEN row[c] ELSE Dealing!Blank
  <2>1. PICK pc, bs : pc = "edit" /\ bs = {b}
    OBVIOUS
  <2>2. pc \in {"post", "edit", "buy"} /\ bs \in SUBSET Bills /\ Dealing!Reading(t, pc, bs, face)
    BY <1>1, <1>2, <2>1
  <2>3. \E o : /\ Moves(t, o) /\ o.pc = pc /\ o.todo = bs /\ o.face = face
               /\ \A c \in Bills : o.seen[c] = IF c \in bs THEN row[c] ELSE Dealing!Blank
    BY ONLY <1>1, <2>2, HavingRead, DealInv
  <2> QED
    BY <2>1, <2>3
<1> QED
  BY <1>1, <1>2, <1>3, BeginStep

LEMMA StartDeletionStep ==
  ASSUME DealInv, NEW t \in Operators, NEW b \in Bills, Dealing!StartDelete(t, b) PROVE DealInv'
<1>1. t \in Dealers /\ 0 \in Nat /\ {b} \in SUBSET Bills /\ row[b].status \in {"Open", "Matured"}
  BY DEF Dealers, Dealing!StartDelete, Dealing!Exists
<1>2. Dealing!Reading(t, "buy", {b}, 0) /\ Dealing!Begins(t) /\ UNCHANGED <<deals, row, age, missed>>
  BY DEF Dealing!StartDelete
<1>3. PICK o : /\ Moves(t, o) /\ o.pc = "buy" /\ o.todo = {b} /\ o.face = 0
               /\ \A c \in Bills : o.seen[c] = IF c \in {b} THEN row[c] ELSE Dealing!Blank
  <2> DEFINE bs == {b}
  <2>1. bs \in SUBSET Bills /\ Dealing!Reading(t, "buy", bs, 0)
    BY <1>1, <1>2
  <2> HIDE DEF bs
  <2>2. \E o : /\ Moves(t, o) /\ o.pc = "buy" /\ o.todo = bs /\ o.face = 0
               /\ \A c \in Bills : o.seen[c] = IF c \in bs THEN row[c] ELSE Dealing!Blank
    BY <1>1, <2>1, HavingRead
  <2> QED
    BY <2>2 DEF bs
<1> QED
  BY <1>1, <1>2, <1>3, BeginStep

-----------------------------------------------------------------------------
(* An operation on one bill goes on *)

LEMMA MissedGrows ==
  ASSUME DealInv
  PROVE  /\ Dealing!Works => missed' = missed
         /\ \A step : Dealing!Fails(step) => missed \subseteq missed' /\ step \in missed' /\ missed' \subseteq FailingDeals
                                            /\ step \in FailingDeals
BY DEF Dealing!Works, Dealing!Fails, DealInv, DealTyped

LEMMA GoesTo ==
  ASSUME DealInv, NEW t \in Dealers,
         NEW pc \in {"ticker", "create", "undo", "correct", "sell", "row"}, Dealing!Goto(t, pc)
  PROVE  \E o : /\ Moves(t, o) /\ o.pc = pc /\ o.todo = dealer[t].todo /\ o.seen = dealer[t].seen
                /\ o.face = dealer[t].face /\ o.txn = dealer[t].txn
<1> DEFINE o == [dealer[t] EXCEPT !.pc = pc]
<1>1. dealer[t] \in Dealing!Local
  BY DEF DealInv, DealTyped
<1>2. /\ o \in Dealing!Local /\ o.pc = pc /\ o.todo = dealer[t].todo /\ o.seen = dealer[t].seen
      /\ o.face = dealer[t].face /\ o.txn = dealer[t].txn
  BY <1>1 DEF Dealing!Local
<1>3. dealer' = [dealer EXCEPT ![t] = o]
  BY DEF Dealing!Goto
<1> HIDE DEF o
<1> QED
  BY <1>2, <1>3 DEF Moves

LEMMA Finishes == ASSUME NEW t \in Dealers, Dealing!Finish(t) PROVE Moves(t, Dealing!Idle)
BY IdleFits DEF Dealing!Finish, Moves

LEMMA OneBillStep ==
  ASSUME DealInv, NEW t \in Dealers, dealer[t].pc \in OfOneBill, NEW b, b = Dealing!BillOf(t),
         NEW o, Moves(t, o), o.todo = {b} \/ o.todo = {},
         Keeps(deals, deals', b), deals' \in Seq(Dealing!Transaction),
         row' \in [Bills -> Dealing!Row], \A c \in Bills \ {b} : row'[c] = row[c],
         age' = age, missed \subseteq missed', missed' \subseteq FailingDeals, met' = met,
         LocalFits(deals', o), RowFits(deals', b, row'[b]),
         KeepsClaims(t, o), KeepsPaid(t, o),
         row[b].status = "none" /\ row'[b].status # "none" => o.todo = {},
         o.pc \in Buying => dealer[t].pc \in Buying /\ row'[b] = row[b],
         Dealing!InTurn' /\ AtStage(deals, row[b], dealer[t], b) =>
           IF o.todo = {} THEN Booked(deals', row'[b], b) ELSE AtStage(deals', row'[b], o, b)
  PROVE  DealInv'
<1>1. b \in Bills /\ dealer[t].todo = {b} /\ dealer[t].pc # "idle"
  BY TheBill DEF OfOneBill, Buying, Removing
<1>2. \A c \in Bills : RowFits(deals', c, row'[c])
  <2>1. \A c \in Bills : RowFits(deals, c, row[c])
    BY DEF DealInv, DealTyped
  <2> QED
    BY <2>1, FitsOn
<1>3. KeepsMaking(t, o)
  <2>1. o.pc \in Buying => row[b].status = "none" /\ \A u \in Dealers \ {t} : b \notin dealer[u].todo
    BY <1>1 DEF DealInv, InOneHand
  <2> QED
    BY <1>1, <2>1 DEF KeepsMaking
<1>4. ASSUME Dealing!InTurn' PROVE /\ \A u \in Dealers \ {t} : dealer[u].pc = "idle"
                                   /\ \A c \in Bills : BillAt(deals', row'[c], o, c)
  <2>1. Dealing!InTurn
    BY <1>4, InTurnSince
  <2>2. /\ \A u \in Dealers \ {t} : dealer[u].pc = "idle"
        /\ \A c \in Bills : BillAt(deals, row[c], dealer[t], c)
    BY <1>1, <2>1, AtWork
  <2>3. AtStage(deals, row[b], dealer[t], b)
    BY <1>1, <2>2 DEF BillAt
  <2>4. ASSUME NEW c \in Bills \ {b} PROVE BillAt(deals', row'[c], o, c)
    <3>1. Booked(deals, row[c], c)
      BY <1>1, <2>2 DEF BillAt
    <3>2. Booked(deals', row[c], c)
      BY <3>1, BookedElsewhere
    <3> QED
      BY <3>2 DEF BillAt
  <2>5. BillAt(deals', row'[b], o, b)
    BY <1>4, <2>3 DEF BillAt
  <2> QED
    BY <2>2, <2>4, <2>5
<1>5. met' \in BOOLEAN
  BY DEF DealInv, DealTyped
<1> QED
  BY <1>2, <1>3, <1>4, <1>5, DealStep

LEMMA SetTickerStep == ASSUME DealInv, NEW t \in Dealers, Dealing!SetTicker(t) PROVE DealInv'
<1> DEFINE b == Dealing!BillOf(t)
           i == dealer[t].txn
<1>1. dealer[t].pc = "ticker" /\ dealer[t].pc \in OfOneBill /\ dealer[t].pc \in Buying /\ UNCHANGED <<row, age, met>>
  BY DEF Dealing!SetTicker, Dealing!At, OfOneBill, Buying
<1>2. /\ b \in Bills /\ dealer[t].todo = {b} /\ LocalFits(deals, dealer[t]) /\ dealer[t] \in Dealing!Local
      /\ deals \in Seq(Dealing!Transaction)
  BY <1>1, TheBill DEF DealInv, DealTyped
<1>3. i \in Side(deals, b, "Buy") /\ dealer[t].face \in Faces /\ dealer[t].face > Price
  BY <1>1, <1>2 DEF LocalFits
<1> HIDE DEF b, i
<1>4. CASE Dealing!Works /\ deals' = [deals EXCEPT ![dealer[t].txn].ticker = TRUE] /\ Dealing!Goto(t, "create")
  <2>1. PICK o : /\ Moves(t, o) /\ o.pc = "create" /\ o.todo = dealer[t].todo /\ o.seen = dealer[t].seen
                 /\ o.face = dealer[t].face /\ o.txn = dealer[t].txn
    BY <1>4, GoesTo
  <2>2. PICK x \in Dealing!Transaction : Changes(deals, i, x, deals') /\ x = [deals[i] EXCEPT !.ticker = TRUE]
    BY <1>2, <1>3, <1>4, Tickered DEF Side, i
  <2>3. deals[i] \in Dealing!Transaction /\ deals[i].bill = b /\ deals[i].leg = "Buy" /\ i \in DOMAIN deals
    BY <1>2, <1>3 DEF Side
  <2>4. x.bill = b /\ x.leg = "Buy" /\ x.ticker /\ x.live = deals[i].live
    BY <2>2, <2>3 DEF Dealing!Transaction
  <2>5. /\ Keeps(deals, deals', b) /\ deals' \in Seq(Dealing!Transaction) /\ LiveOf(deals', b) = LiveOf(deals, b)
        /\ deals'[i] = x /\ \A j \in DOMAIN deals : deals'[j].live = deals[j].live
    BY <2>2, <2>4 DEF Changes
  <2>6. RowFits(deals', b, row'[b]) /\ \A c \in Bills : RowFits(deals', c, o.seen[c])
    BY <1>1, <1>2, <2>1, <2>5, FitsOn DEF DealInv, DealTyped, LocalFits
  <2>7. i \in Side(deals', b, "Buy")
    BY <1>3, <2>5, FitsOn
  <2>8. LocalFits(deals', o)
    BY <1>2, <1>3, <2>1, <2>6, <2>7 DEF LocalFits, OfOneBill, Buying, i
  <2>9. KeepsClaims(t, o) /\ KeepsPaid(t, o)
    BY <1>1, <2>1, <2>5 DEF KeepsClaims, KeepsPaid, Removing
  <2>10. AtStage(deals, row[b], dealer[t], b) => AtStage(deals', row'[b], o, b)
    BY <1>1, <2>1, <2>4, <2>5 DEF AtStage, Buying, i
  <2>11. missed \subseteq missed' /\ missed' \subseteq FailingDeals /\ row' \in [Bills -> Dealing!Row]
    BY <1>1, <1>4, MissedGrows DEF DealInv, DealTyped
  <2> QED
    BY <1>1, <1>2, <2>1, <2>5, <2>6, <2>8, <2>9, <2>10, <2>11, OneBillStep DEF b
<1>5. CASE Dealing!Fails("ticker") /\ UNCHANGED deals /\ Dealing!Goto(t, "undo")
  <2>1. PICK o : /\ Moves(t, o) /\ o.pc = "undo" /\ o.todo = dealer[t].todo /\ o.seen = dealer[t].seen
                 /\ o.face = dealer[t].face /\ o.txn = dealer[t].txn
    BY <1>5, GoesTo
  <2>2. LocalFits(deals', o)
    BY <1>1, <1>2, <1>3, <1>5, <2>1 DEF LocalFits, OfOneBill, Buying, i
  <2>3. KeepsClaims(t, o) /\ KeepsPaid(t, o)
    BY <1>1, <1>5, <2>1 DEF KeepsClaims, KeepsPaid, Removing
  <2>4. AtStage(deals, row[b], dealer[t], b) => AtStage(deals', row'[b], o, b)
    BY <1>1, <1>5, <2>1 DEF AtStage, Buying
  <2>5. missed \subseteq missed' /\ missed' \subseteq FailingDeals
    BY <1>5, MissedGrows
  <2> QED
    BY <1>1, <1>2, <1>5, <2>1, <2>2, <2>3, <2>4, <2>5, NothingWritten, OneBillStep DEF b, Buying
<1> QED
  BY <1>4, <1>5 DEF Dealing!SetTicker

LEMMA CreateBillStep == ASSUME DealInv, NEW t \in Dealers, Dealing!CreateBill(t) PROVE DealInv'
<1> DEFINE b == Dealing!BillOf(t)
           i == dealer[t].txn
<1>1. dealer[t].pc = "create" /\ dealer[t].pc \in OfOneBill /\ dealer[t].pc \in Buying /\ UNCHANGED <<deals, age, met>>
  BY DEF Dealing!CreateBill, Dealing!At, OfOneBill, Buying
<1>2. /\ b \in Bills /\ dealer[t].todo = {b} /\ LocalFits(deals, dealer[t]) /\ dealer[t] \in Dealing!Local
      /\ deals \in Seq(Dealing!Transaction) /\ row \in [Bills -> Dealing!Row]
  BY <1>1, TheBill DEF DealInv, DealTyped
<1>3. i \in Side(deals, b, "Buy") /\ dealer[t].face \in Faces /\ dealer[t].face > Price /\ i \in Nat
  BY <1>1, <1>2 DEF LocalFits, Dealing!Local
<1>4. row[b].status = "none"
  BY <1>1, <1>2 DEF DealInv, InOneHand
<1> HIDE DEF b, i
<1>5. CASE Dealing!Works /\ Dealing!Finish(t)
           /\ row' = [row EXCEPT ![Dealing!BillOf(t)] = [Dealing!Blank EXCEPT !.status = "Open", !.face = dealer[t].face, !.buy = dealer[t].txn]]
  <2> DEFINE w == [Dealing!Blank EXCEPT !.status = "Open", !.face = dealer[t].face, !.buy = i]
  <2>1. w \in Dealing!Row /\ w.status = "Open" /\ w.buy = i /\ w.sell = 0
    BY <1>3 DEF Dealing!Blank, Dealing!Row
  <2>2. row' = [row EXCEPT ![b] = w]
    BY <1>5 DEF b, i
  <2> HIDE DEF w
  <2>3. row' \in [Bills -> Dealing!Row] /\ row'[b] = w /\ \A c \in Bills \ {b} : row'[c] = row[c]
    BY <1>2, <2>1, <2>2
  <2>4. RowFits(deals', b, row'[b])
    BY <1>1, <1>3, <2>1, <2>3 DEF RowFits
  <2>5. KeepsClaims(t, Dealing!Idle) /\ KeepsPaid(t, Dealing!Idle)
    BY <1>1, <2>1, <2>3, IdleFits DEF KeepsClaims, KeepsPaid, Removing
  <2>6. AtStage(deals, row[b], dealer[t], b) => Booked(deals', row'[b], b)
    BY <1>1, <2>1, <2>3 DEF AtStage, Booked, Buying, i
  <2>7. missed \subseteq missed' /\ missed' \subseteq FailingDeals
    BY <1>5, MissedGrows DEF DealInv, DealTyped
  <2>8. Keeps(deals, deals', b) /\ deals' \in Seq(Dealing!Transaction) /\ Moves(t, Dealing!Idle)
    BY <1>1, <1>2, <1>5, Finishes DEF Keeps
  <2>9. Dealing!Idle.pc \notin Buying
    BY IdleFits DEF Buying
  <2> QED
    BY <1>1, <1>2, <2>3, <2>4, <2>5, <2>6, <2>7, <2>8, <2>9, IdleFits, OneBillStep DEF b
<1>6. CASE Dealing!Fails("create") /\ UNCHANGED row /\ Dealing!Goto(t, "undo")
  <2>1. PICK o : /\ Moves(t, o) /\ o.pc = "undo" /\ o.todo = dealer[t].todo /\ o.seen = dealer[t].seen
                 /\ o.face = dealer[t].face /\ o.txn = dealer[t].txn
    BY <1>6, GoesTo
  <2>2. LocalFits(deals', o)
    BY <1>1, <1>2, <1>3, <2>1 DEF LocalFits, OfOneBill, Buying, i
  <2>3. KeepsClaims(t, o) /\ KeepsPaid(t, o)
    BY <1>1, <1>6, <2>1 DEF KeepsClaims, KeepsPaid, Removing
  <2>4. AtStage(deals, row[b], dealer[t], b) => AtStage(deals', row'[b], o, b)
    BY <1>1, <1>6, <2>1 DEF AtStage, Buying
  <2>5. missed \subseteq missed' /\ missed' \subseteq FailingDeals
    BY <1>6, MissedGrows
  <2> QED
    BY <1>1, <1>2, <1>6, <2>1, <2>2, <2>3, <2>4, <2>5, NothingWritten, OneBillStep DEF b, Buying
<1> QED
  BY <1>5, <1>6 DEF Dealing!CreateBill

LEMMA UndoBuyStep == ASSUME DealInv, NEW t \in Dealers, Dealing!UndoBuy(t) PROVE DealInv'
<1> DEFINE b == Dealing!BillOf(t)
           i == dealer[t].txn
<1>1. /\ dealer[t].pc = "undo" /\ dealer[t].pc \in OfOneBill /\ dealer[t].pc \in Buying
      /\ UNCHANGED <<row, age, met>> /\ Moves(t, Dealing!Idle)
  BY Finishes DEF Dealing!UndoBuy, Dealing!At, OfOneBill, Buying
<1>2. /\ b \in Bills /\ dealer[t].todo = {b} /\ LocalFits(deals, dealer[t]) /\ dealer[t] \in Dealing!Local
      /\ deals \in Seq(Dealing!Transaction) /\ row' \in [Bills -> Dealing!Row]
  BY <1>1, TheBill DEF DealInv, DealTyped
<1>3. i \in Side(deals, b, "Buy")
  BY <1>1, <1>2 DEF LocalFits
<1>4. Dealing!Idle.pc \notin Buying
  BY IdleFits DEF Buying
<1> HIDE DEF b, i
<1>5. CASE Dealing!Works /\ Dealing!DeleteTransaction(dealer[t].txn)
  <2>1. PICK x \in Dealing!Transaction : Changes(deals, i, x, deals') /\ x = [deals[i] EXCEPT !.live = FALSE]
    BY <1>2, <1>3, <1>5, Deleted DEF Side, i, Dealing!DeleteTransaction
  <2>2. deals[i] \in Dealing!Transaction /\ deals[i].bill = b /\ deals[i].leg = "Buy" /\ i \in DOMAIN deals
    BY <1>2, <1>3 DEF Side
  <2>3. x.bill = b /\ ~x.live /\ deals[i].live \in BOOLEAN
    BY <2>1, <2>2 DEF Dealing!Transaction
  <2>4. /\ Keeps(deals, deals', b) /\ deals' \in Seq(Dealing!Transaction)
        /\ LiveOf(deals', b) \subseteq LiveOf(deals, b) \ {i}
        /\ \A j \in DOMAIN deals \ {i} : deals'[j].live = deals[j].live
    BY <2>1, <2>2, <2>3 DEF Changes, LiveOf
  <2>5. RowFits(deals', b, row'[b])
    BY <1>1, <1>2, <2>4, FitsOn DEF DealInv, DealTyped
  <2>6. KeepsClaims(t, Dealing!Idle) /\ KeepsPaid(t, Dealing!Idle)
    BY <1>1, <2>2, <2>4, IdleFits DEF KeepsClaims, KeepsPaid, Removing
  <2>7. AtStage(deals, row[b], dealer[t], b) => Booked(deals', row'[b], b)
    <3> SUFFICES ASSUME AtStage(deals, row[b], dealer[t], b) PROVE Booked(deals', row'[b], b)
      OBVIOUS
    <3>1. row[b].status = "none" /\ LiveOf(deals, b) = {i}
      BY <1>1 DEF AtStage, i
    <3>2. LiveOf(deals', b) = {}
      BY <2>4, <3>1
    <3> QED
      BY <1>1, <3>1, <3>2 DEF Booked
  <2>8. missed \subseteq missed' /\ missed' \subseteq FailingDeals
    BY <1>5, MissedGrows DEF DealInv, DealTyped
  <2> QED
    BY <1>1, <1>2, <1>4, <2>4, <2>5, <2>6, <2>7, <2>8, IdleFits, OneBillStep DEF b
<1>6. CASE Dealing!Fails("undo") /\ UNCHANGED deals
  <2>1. KeepsClaims(t, Dealing!Idle) /\ KeepsPaid(t, Dealing!Idle)
    BY <1>1, <1>6, IdleFits DEF KeepsClaims, KeepsPaid, Removing
  <2>2. missed \subseteq missed' /\ missed' \subseteq FailingDeals /\ ~Dealing!InTurn'
    BY <1>6, MissedGrows DEF Dealing!InTurn
  <2> QED
    BY <1>1, <1>2, <1>4, <1>6, <2>1, <2>2, NothingWritten, IdleFits, OneBillStep DEF b
<1> QED
  BY <1>5, <1>6 DEF Dealing!UndoBuy

LEMMA EditStep == ASSUME DealInv, NEW t \in Dealers, Dealing!Edit(t) PROVE DealInv'
<1> DEFINE b == Dealing!BillOf(t)
<1>1. dealer[t].pc = "edit" /\ dealer[t].pc \in OfOneBill /\ UNCHANGED <<deals, age, met>>
  BY DEF Dealing!Edit, Dealing!At, OfOneBill
<1>2. /\ b \in Bills /\ dealer[t].todo = {b} /\ LocalFits(deals, dealer[t]) /\ dealer[t] \in Dealing!Local
      /\ deals \in Seq(Dealing!Transaction) /\ row \in [Bills -> Dealing!Row]
  BY <1>1, TheBill DEF DealInv, DealTyped
<1>3. dealer[t].face \in Faces /\ dealer[t].face > Price /\ dealer[t].seen[b].status \in {"Open", "Matured"}
  BY <1>1, <1>2 DEF LocalFits
<1>4. Dealing!Idle.pc \notin Buying
  BY IdleFits DEF Buying
<1> HIDE DEF b
<1>5. CASE /\ Dealing!Works /\ Dealing!Exists(b) /\ row' = [row EXCEPT ![b].face = dealer[t].face]
           /\ IF dealer[t].seen[b].status = "Matured" THEN Dealing!Goto(t, "correct") ELSE Dealing!Finish(t)
  <2> DEFINE w == [row[b] EXCEPT !.face = dealer[t].face]
  <2>1. row[b] \in Dealing!Row /\ row[b].status \in {"Open", "Matured"}
    BY <1>2, <1>5 DEF Dealing!Exists
  <2>2. w \in Dealing!Row /\ w.status = row[b].status /\ w.buy = row[b].buy /\ w.sell = row[b].sell
    BY <1>3, <2>1 DEF Dealing!Row
  <2>3. row' = [row EXCEPT ![b] = w]
    BY <1>5
  <2>4. w = [row[b] EXCEPT !.face = dealer[t].face]
    OBVIOUS
  <2> HIDE DEF w
  <2>5. row' \in [Bills -> Dealing!Row] /\ row'[b] = w /\ \A c \in Bills \ {b} : row'[c] = row[c]
    BY <1>2, <2>2, <2>3
  <2>6. RowFits(deals', b, row'[b])
    BY <1>1, <1>2, <2>2, <2>5 DEF DealInv, DealTyped, RowFits
  <2>7. missed \subseteq missed' /\ missed' \subseteq FailingDeals
    BY <1>5, MissedGrows DEF DealInv, DealTyped
  <2>8. Keeps(deals, deals', b) /\ deals' \in Seq(Dealing!Transaction)
    BY <1>1, <1>2 DEF Keeps
  <2>9. CASE dealer[t].seen[b].status = "Matured"
    <3>1. PICK o : /\ Moves(t, o) /\ o.pc = "correct" /\ o.todo = dealer[t].todo /\ o.seen = dealer[t].seen
                   /\ o.face = dealer[t].face /\ o.txn = dealer[t].txn
      BY <1>5, <2>9, GoesTo
    <3>2. LocalFits(deals', o)
      BY <1>1, <1>2, <1>3, <2>9, <3>1 DEF LocalFits, OfOneBill, Buying
    <3>3. KeepsClaims(t, o) /\ KeepsPaid(t, o)
      BY <1>1, <2>2, <2>5, <3>1 DEF KeepsClaims, KeepsPaid, Removing
    <3>4. AtStage(deals, row[b], dealer[t], b) => AtStage(deals', row'[b], o, b)
      <4> SUFFICES ASSUME AtStage(deals, row[b], dealer[t], b) PROVE AtStage(deals', row'[b], o, b)
        OBVIOUS
      <4>1. row[b] = dealer[t].seen[b] /\ Booked(deals, row[b], b)
        BY <1>1 DEF AtStage
      <4>2. row'[b] = [o.seen[b] EXCEPT !.face = o.face]
        BY <2>4, <2>5, <3>1, <4>1
      <4>3. LiveOf(deals, b) = {row'[b].buy, row'[b].sell} /\ \A i \in LiveOf(deals, b) : deals[i].ticker
        BY <2>2, <2>5, <2>9, <4>1 DEF Booked
      <4> QED
        BY <1>1, <3>1, <4>2, <4>3 DEF AtStage, Buying
    <3> QED
      BY <1>1, <1>2, <2>1, <2>5, <2>6, <2>7, <2>8, <3>1, <3>2, <3>3, <3>4, OneBillStep DEF b, Buying
  <2>10. CASE dealer[t].seen[b].status # "Matured"
    <3>1. Moves(t, Dealing!Idle)
      BY <1>5, <2>10, Finishes
    <3>2. KeepsClaims(t, Dealing!Idle) /\ KeepsPaid(t, Dealing!Idle)
      BY <1>1, <2>2, <2>5, IdleFits DEF KeepsClaims, KeepsPaid, Removing
    <3>3. AtStage(deals, row[b], dealer[t], b) => Booked(deals', row'[b], b)
      BY <1>1, <1>3, <2>2, <2>5, <2>10 DEF AtStage, Booked
    <3> QED
      BY <1>1, <1>2, <1>4, <2>1, <2>5, <2>6, <2>7, <2>8, <3>1, <3>2, <3>3, IdleFits, OneBillStep DEF b
  <2> QED
    BY <2>9, <2>10
<1>6. CASE (Dealing!Fails("edit") \/ Dealing!Works) /\ UNCHANGED row /\ Dealing!Finish(t)
  <2>1. Moves(t, Dealing!Idle)
    BY <1>6, Finishes
  <2>2. KeepsClaims(t, Dealing!Idle) /\ KeepsPaid(t, Dealing!Idle)
    BY <1>1, <1>6, IdleFits DEF KeepsClaims, KeepsPaid, Removing
  <2>3. AtStage(deals, row[b], dealer[t], b) => Booked(deals', row'[b], b)
    BY <1>1, <1>6 DEF AtStage
  <2>4. missed \subseteq missed' /\ missed' \subseteq FailingDeals
    BY <1>6, MissedGrows DEF DealInv, DealTyped
  <2> QED
    BY <1>1, <1>2, <1>4, <1>6, <2>1, <2>2, <2>3, <2>4, NothingWritten, IdleFits, OneBillStep DEF b
<1> QED
  BY <1>5, <1>6 DEF Dealing!Edit, b

LEMMA CorrectSellStep == ASSUME DealInv, NEW t \in Dealers, Dealing!CorrectSell(t) PROVE DealInv'
<1> DEFINE b == Dealing!BillOf(t)
           i == dealer[t].seen[Dealing!BillOf(t)].sell
<1>1. /\ dealer[t].pc = "correct" /\ dealer[t].pc \in OfOneBill
      /\ UNCHANGED <<row, age, met>> /\ Moves(t, Dealing!Idle)
  BY Finishes DEF Dealing!CorrectSell, Dealing!At, OfOneBill
<1>2. /\ b \in Bills /\ dealer[t].todo = {b} /\ LocalFits(deals, dealer[t]) /\ dealer[t] \in Dealing!Local
      /\ deals \in Seq(Dealing!Transaction) /\ row' \in [Bills -> Dealing!Row]
  BY <1>1, TheBill DEF DealInv, DealTyped
<1>3. i \in Side(deals, b, "Sell") /\ dealer[t].face \in Nat /\ i = dealer[t].seen[b].sell /\ dealer[t].seen[b].status = "Matured"
  BY <1>1, <1>2 DEF LocalFits, RowFits, Dealing!Local
<1>4. Dealing!Idle.pc \notin Buying
  BY IdleFits DEF Buying
<1>5. dealer[t].seen[b] \in Dealing!Row
  BY <1>2 DEF Dealing!Local
<1>6. CASE Dealing!Works /\ deals' = [deals EXCEPT ![i].amount = dealer[t].face]
  <2>1. PICK x \in Dealing!Transaction :
               /\ Changes(deals, i, x, deals') /\ x.live = deals[i].live /\ x.ticker = deals[i].ticker
               /\ x.leg = deals[i].leg /\ x.bill = deals[i].bill /\ x.amount = dealer[t].face
    <3>1. PICK j, f : j = i /\ f = dealer[t].face
      OBVIOUS
    <3>2. j \in DOMAIN deals /\ f \in Nat /\ deals' = WithAmount(deals, j, f)
      BY <1>3, <1>6, <3>1 DEF Side, WithAmount
    <3>3. \E x \in Dealing!Transaction :
            /\ Changes(deals, j, x, deals') /\ x.live = deals[j].live /\ x.ticker = deals[j].ticker
            /\ x.leg = deals[j].leg /\ x.bill = deals[j].bill /\ x.amount = f
      BY <1>2, <3>2, Corrected
    <3> QED
      BY <3>1, <3>3
  <2> HIDE DEF b, i
  <2>2. deals[i] \in Dealing!Transaction /\ deals[i].bill = b /\ deals[i].leg = "Sell" /\ i \in DOMAIN deals
    BY <1>2, <1>3 DEF Side
  <2>3. x.bill = b /\ x.live = deals[i].live /\ x.leg = "Sell" /\ x.ticker = deals[i].ticker /\ x.amount = dealer[t].face
    BY <2>1, <2>2 DEF Dealing!Transaction
  <2>4. /\ Keeps(deals, deals', b) /\ deals' \in Seq(Dealing!Transaction) /\ LiveOf(deals', b) = LiveOf(deals, b)
        /\ \A j \in DOMAIN deals : deals'[j].live = deals[j].live /\ deals'[j].ticker = deals[j].ticker
        /\ deals'[i].amount = dealer[t].face /\ deals'[i].leg = "Sell"
    BY <2>1, <2>2, <2>3 DEF Changes
  <2>5. RowFits(deals', b, row'[b])
    BY <1>1, <1>2, <2>4, FitsOn DEF DealInv, DealTyped
  <2>6. KeepsClaims(t, Dealing!Idle) /\ KeepsPaid(t, Dealing!Idle)
    BY <1>1, <2>2, <2>4, IdleFits DEF KeepsClaims, KeepsPaid, Removing
  <2>7. AtStage(deals, row[b], dealer[t], b) => Booked(deals', row'[b], b)
    <3> SUFFICES ASSUME AtStage(deals, row[b], dealer[t], b) PROVE Booked(deals', row'[b], b)
      OBVIOUS
    <3>1. /\ row[b] = [dealer[t].seen[b] EXCEPT !.face = dealer[t].face]
          /\ LiveOf(deals, b) = {row[b].buy, row[b].sell} /\ \A j \in LiveOf(deals, b) : deals[j].ticker
      BY <1>1 DEF AtStage
    <3>2. row[b].status = "Matured" /\ row[b].sell = i /\ row[b].face = dealer[t].face
      BY <1>3, <1>5, <3>1 DEF Dealing!Row
    <3>3. \A j \in LiveOf(deals', b) : deals'[j].ticker
      BY <2>4, <3>1 DEF LiveOf
    <3> QED
      BY <1>1, <2>4, <3>1, <3>2, <3>3 DEF Booked
  <2>8. missed \subseteq missed' /\ missed' \subseteq FailingDeals
    BY <1>6, MissedGrows DEF DealInv, DealTyped
  <2> QED
    BY <1>1, <1>2, <1>4, <2>4, <2>5, <2>6, <2>7, <2>8, IdleFits, OneBillStep DEF b
<1>7. CASE Dealing!Fails("correct") /\ UNCHANGED deals
  <2>1. KeepsClaims(t, Dealing!Idle) /\ KeepsPaid(t, Dealing!Idle)
    BY <1>1, <1>7, IdleFits DEF KeepsClaims, KeepsPaid, Removing
  <2>2. missed \subseteq missed' /\ missed' \subseteq FailingDeals /\ ~Dealing!InTurn'
    BY <1>7, MissedGrows DEF Dealing!InTurn
  <2> QED
    BY <1>1, <1>2, <1>4, <1>7, <2>1, <2>2, NothingWritten, IdleFits, OneBillStep
<1> QED
  BY <1>6, <1>7 DEF Dealing!CorrectSell

\* The row i of the bill b is struck out.
StrikesOut(l, i) == [l EXCEPT ![i].live = FALSE]
LEMMA DealStruck ==
  ASSUME NEW l \in Seq(Dealing!Transaction), NEW b, NEW leg, NEW i \in Side(l, b, leg),
         NEW m, m = StrikesOut(l, i)
  PROVE  /\ Keeps(l, m, b) /\ m \in Seq(Dealing!Transaction) /\ LiveOf(m, b) = LiveOf(l, b) \ {i}
         /\ \A j \in DOMAIN l \ {i} : m[j].live = l[j].live
         /\ l[i].bill = b /\ l[i].leg = leg
<1>1. i \in DOMAIN l /\ l[i].bill = b /\ l[i].leg = leg
  BY DEF Side
<1>2. PICK x \in Dealing!Transaction : Changes(l, i, x, m) /\ x = [l[i] EXCEPT !.live = FALSE]
  BY <1>1, Deleted DEF StrikesOut
<1>3. l[i] \in Dealing!Transaction
  BY <1>1
<1>4. x.bill = b /\ x.live = FALSE /\ l[i].live \in BOOLEAN
  BY <1>1, <1>2, <1>3 DEF Dealing!Transaction
<1> QED
  BY <1>1, <1>2, <1>4 DEF Changes, LiveOf

LEMMA DeleteBuyStep == ASSUME DealInv, NEW t \in Dealers, Dealing!DeleteBuy(t) PROVE DealInv'
<1> DEFINE b == Dealing!BillOf(t)
           seen == dealer[t].seen[b]
           pc == IF seen.sell # 0 THEN "sell" ELSE "row"
<1>1. dealer[t].pc = "buy" /\ dealer[t].pc \in OfOneBill /\ UNCHANGED <<row, age, met>> /\ Dealing!Goto(t, pc)
  BY DEF Dealing!DeleteBuy, Dealing!At, OfOneBill, Removing
<1>2. /\ b \in Bills /\ dealer[t].todo = {b} /\ LocalFits(deals, dealer[t]) /\ dealer[t] \in Dealing!Local
      /\ deals \in Seq(Dealing!Transaction) /\ row' \in [Bills -> Dealing!Row]
  BY <1>1, TheBill DEF DealInv, DealTyped
<1>3. /\ seen \in Dealing!Row /\ seen.status \in {"Open", "Matured"} /\ RowFits(deals, b, seen)
  BY <1>1, <1>2 DEF LocalFits, Dealing!Local
<1>4. /\ seen.buy \in Side(deals, b, "Buy")
      /\ seen.status = "Matured" => pc = "sell" /\ seen.sell \in Side(deals, b, "Sell")
      /\ seen.status = "Open" => pc = "row"
  <2>1. PICK w : w = seen
    OBVIOUS
  <2>2. (w.sell = 0 \/ w.sell \in DOMAIN deals) /\ 0 \notin DOMAIN deals
    BY <1>2, <1>3, <2>1, SellNames
  <2>3. w.status = "Matured" => w.sell \in Side(deals, b, "Sell") /\ w.sell # 0
    BY <1>3, <2>1, <2>2 DEF RowFits, Side
  <2> QED
    BY <1>3, <2>1, <2>3 DEF RowFits
<1> HIDE DEF b
<1>5. PICK o : /\ Moves(t, o) /\ o.pc = pc /\ o.todo = dealer[t].todo /\ o.seen = dealer[t].seen
               /\ o.face = dealer[t].face /\ o.txn = dealer[t].txn
  <2>1. pc \in {"ticker", "create", "undo", "correct", "sell", "row"}
    OBVIOUS
  <2> HIDE DEF pc
  <2> QED
    BY <1>1, <2>1, GoesTo
<1>6. o.seen[b] = seen
  BY <1>5
<1> HIDE DEF seen, pc
<1>7. o.pc \in {"sell", "row"}
  BY <1>5 DEF pc
<1>8. LocalFits(deals, o)
  BY <1>2, <1>3, <1>4, <1>5, <1>6, <1>7 DEF LocalFits, OfOneBill, Buying, Removing
<1>9. CASE Dealing!Works /\ Dealing!DeleteTransaction(seen.buy)
  <2>0. PICK i : i = seen.buy
    OBVIOUS
  <2>1. deals' = StrikesOut(deals, i) /\ i \in Side(deals, b, "Buy")
    BY <1>4, <1>9, <2>0 DEF Dealing!DeleteTransaction, StrikesOut
  <2>2. /\ Keeps(deals, deals', b) /\ deals' \in Seq(Dealing!Transaction) /\ LiveOf(deals', b) = LiveOf(deals, b) \ {i}
        /\ \A j \in DOMAIN deals \ {i} : deals'[j].live = deals[j].live
        /\ deals[i].bill = b /\ deals[i].leg = "Buy"
    BY <1>2, <2>1, DealStruck
  <2>3. RowFits(deals', b, row'[b]) /\ LocalFits(deals', o)
    BY <1>1, <1>2, <1>7, <1>8, <2>2, FitsOn DEF DealInv, DealTyped
  <2>4. KeepsClaims(t, o) /\ KeepsPaid(t, o)
    BY <1>1, <1>5, <1>7, <2>2 DEF KeepsClaims, KeepsPaid, Removing
  <2>5. AtStage(deals, row[b], dealer[t], b) => AtStage(deals', row'[b], o, b)
    <3> SUFFICES ASSUME AtStage(deals, row[b], dealer[t], b) PROVE AtStage(deals', row'[b], o, b)
      OBVIOUS
    <3>1. row[b] = seen /\ Booked(deals, row[b], b)
      BY <1>1 DEF AtStage, seen
    <3>2. CASE seen.status = "Matured"
      <4>1. i # seen.sell
        BY <1>4, <2>1, <3>2 DEF Side
      <4>2. LiveOf(deals', b) = {row[b].sell}
        BY <2>0, <2>2, <3>1, <3>2, <4>1 DEF Booked
      <4> QED
        BY <1>1, <1>4, <1>5, <1>6, <3>1, <3>2, <4>2 DEF AtStage, Buying
    <3>3. CASE seen.status = "Open"
      <4>1. LiveOf(deals', b) = {}
        BY <2>0, <2>2, <3>1, <3>3 DEF Booked
      <4> QED
        BY <1>1, <1>4, <1>5, <3>3, <4>1 DEF AtStage, Buying
    <3> QED
      BY <1>3, <3>2, <3>3
  <2>6. missed \subseteq missed' /\ missed' \subseteq FailingDeals
    BY <1>9, MissedGrows DEF DealInv, DealTyped
  <2> QED
    BY <1>1, <1>2, <1>5, <1>7, <2>2, <2>3, <2>4, <2>5, <2>6, OneBillStep DEF b, Buying
<1>10. CASE Dealing!Fails("buy") /\ UNCHANGED deals
  <2>1. KeepsClaims(t, o) /\ KeepsPaid(t, o)
    BY <1>1, <1>5, <1>7, <1>10 DEF KeepsClaims, KeepsPaid, Removing
  <2>2. missed \subseteq missed' /\ missed' \subseteq FailingDeals /\ ~Dealing!InTurn'
    BY <1>10, MissedGrows DEF Dealing!InTurn
  <2> QED
    BY <1>1, <1>2, <1>5, <1>7, <1>8, <1>10, <2>1, <2>2, NothingWritten, OneBillStep DEF b, Buying
<1> QED
  BY <1>9, <1>10 DEF Dealing!DeleteBuy, b, seen

LEMMA DeleteSellStep == ASSUME DealInv, NEW t \in Dealers, Dealing!DeleteSell(t) PROVE DealInv'
<1> DEFINE b == Dealing!BillOf(t)
           i == dealer[t].seen[b].sell
<1>1. dealer[t].pc = "sell" /\ dealer[t].pc \in OfOneBill /\ UNCHANGED <<row, age, met>> /\ Dealing!Goto(t, "row")
  BY DEF Dealing!DeleteSell, Dealing!At, OfOneBill, Removing
<1>2. /\ b \in Bills /\ dealer[t].todo = {b} /\ LocalFits(deals, dealer[t]) /\ dealer[t] \in Dealing!Local
      /\ deals \in Seq(Dealing!Transaction) /\ row' \in [Bills -> Dealing!Row]
  BY <1>1, TheBill DEF DealInv, DealTyped
<1>3. i \in Side(deals, b, "Sell") /\ dealer[t].seen[b].status = "Matured"
  BY <1>1, <1>2 DEF LocalFits, RowFits
<1>4. PICK o : /\ Moves(t, o) /\ o.pc = "row" /\ o.todo = dealer[t].todo /\ o.seen = dealer[t].seen
               /\ o.face = dealer[t].face /\ o.txn = dealer[t].txn
  BY <1>1, GoesTo
<1> HIDE DEF b
<1>5. LocalFits(deals, o)
  BY <1>2, <1>3, <1>4 DEF LocalFits, OfOneBill, Buying, Removing
<1>6. CASE Dealing!Works /\ Dealing!DeleteTransaction(i)
  <2>1. PICK j : j = dealer[t].seen[b].sell
    OBVIOUS
  <2>2. deals' = StrikesOut(deals, j) /\ j \in Side(deals, b, "Sell")
    BY <1>3, <1>6, <2>1 DEF Dealing!DeleteTransaction, StrikesOut
  <2>3. /\ Keeps(deals, deals', b) /\ deals' \in Seq(Dealing!Transaction) /\ LiveOf(deals', b) = LiveOf(deals, b) \ {j}
        /\ \A k \in DOMAIN deals \ {j} : deals'[k].live = deals[k].live
        /\ deals[j].bill = b /\ deals[j].leg = "Sell"
    BY <1>2, <2>2, DealStruck
  <2>4. RowFits(deals', b, row'[b]) /\ LocalFits(deals', o)
    BY <1>1, <1>2, <1>4, <1>5, <2>3, FitsOn DEF DealInv, DealTyped
  <2>5. KeepsClaims(t, o) /\ KeepsPaid(t, o)
    BY <1>1, <1>2, <1>4, <2>1, <2>3 DEF KeepsClaims, KeepsPaid, Removing
  <2>6. AtStage(deals, row[b], dealer[t], b) => AtStage(deals', row'[b], o, b)
    <3> SUFFICES ASSUME AtStage(deals, row[b], dealer[t], b) PROVE AtStage(deals', row'[b], o, b)
      OBVIOUS
    <3>1. LiveOf(deals, b) = {j}
      BY <1>1, <2>1 DEF AtStage
    <3> QED
      BY <1>4, <2>3, <3>1 DEF AtStage, Buying
  <2>7. missed \subseteq missed' /\ missed' \subseteq FailingDeals
    BY <1>6, MissedGrows DEF DealInv, DealTyped
  <2> QED
    BY <1>1, <1>2, <1>4, <2>3, <2>4, <2>5, <2>6, <2>7, OneBillStep DEF b, Buying
<1>7. CASE Dealing!Fails("sell") /\ UNCHANGED deals
  <2>1. KeepsClaims(t, o) /\ KeepsPaid(t, o)
    BY <1>1, <1>4, <1>7 DEF KeepsClaims, KeepsPaid, Removing
  <2>2. missed \subseteq missed' /\ missed' \subseteq FailingDeals /\ ~Dealing!InTurn'
    BY <1>7, MissedGrows DEF Dealing!InTurn
  <2> QED
    BY <1>1, <1>2, <1>4, <1>5, <1>7, <2>1, <2>2, NothingWritten, OneBillStep DEF b, Buying
<1> QED
  BY <1>6, <1>7 DEF Dealing!DeleteSell, b

LEMMA DeleteRowStep == ASSUME DealInv, NEW t \in Dealers, Dealing!DeleteRow(t) PROVE DealInv'
<1> DEFINE b == Dealing!BillOf(t)
           w == [Dealing!Blank EXCEPT !.status = "deleted"]
<1>1. /\ dealer[t].pc = "row" /\ dealer[t].pc \in OfOneBill
      /\ UNCHANGED <<deals, age, met>> /\ Moves(t, Dealing!Idle)
  BY Finishes DEF Dealing!DeleteRow, Dealing!At, OfOneBill, Removing
<1>2. /\ b \in Bills /\ dealer[t].todo = {b} /\ LocalFits(deals, dealer[t]) /\ dealer[t] \in Dealing!Local
      /\ deals \in Seq(Dealing!Transaction) /\ row \in [Bills -> Dealing!Row]
  BY <1>1, TheBill DEF DealInv, DealTyped
<1>3. \/ Dealing!Works /\ row' = [row EXCEPT ![b] = w]
      \/ Dealing!Fails("row") /\ row' = row
  BY DEF Dealing!DeleteRow
<1>4. w \in Dealing!Row /\ w.status = "deleted" /\ w.buy = 0 /\ w.sell = 0
  BY BillsAssumption DEF Dealing!Blank, Dealing!Row
<1> HIDE DEF b, w
<1>5. /\ row' \in [Bills -> Dealing!Row] /\ \A c \in Bills \ {b} : row'[c] = row[c]
      /\ row'[b] = w \/ (row'[b] = row[b] /\ "row" \in missed')
  <2>1. CASE Dealing!Works /\ row' = [row EXCEPT ![b] = w]
    BY <1>2, <1>4, <2>1
  <2>2. CASE Dealing!Fails("row") /\ row' = row
    <3>1. "row" \in missed'
      BY <2>2, MissedGrows
    <3> QED
      BY <1>2, <2>2, <3>1
  <2> QED
    BY <1>3, <2>1, <2>2
<1>6. RowFits(deals', b, row'[b]) /\ Keeps(deals, deals', b)
  BY <1>1, <1>2, <1>4, <1>5 DEF RowFits, Keeps, DealInv, DealTyped
<1>7. KeepsClaims(t, Dealing!Idle)
  BY <1>1, <1>4, <1>5, IdleFits DEF KeepsClaims
<1>8. KeepsPaid(t, Dealing!Idle)
  BY <1>1, <1>2, <1>4, <1>5 DEF KeepsPaid
<1>9. Dealing!InTurn' /\ AtStage(deals, row[b], dealer[t], b) => Booked(deals', row'[b], b)
  BY <1>1, <1>4, <1>5 DEF AtStage, Booked, Dealing!InTurn
<1>10. missed \subseteq missed' /\ missed' \subseteq FailingDeals /\ Dealing!Idle.pc \notin Buying
  BY <1>3, MissedGrows, IdleFits DEF DealInv, DealTyped, Buying
<1> QED
  BY <1>1, <1>2, <1>5, <1>6, <1>7, <1>8, <1>9, <1>10, IdleFits, OneBillStep DEF b

-----------------------------------------------------------------------------
(* The sweep goes on *)

LEMMA FaceIsNat == ASSUME NEW w \in Dealing!Row PROVE w.face \in Nat
<1>1. PICK f : f = w.face
  OBVIOUS
<1>2. f \in Faces \/ f = 0
  BY <1>1 DEF Dealing!Row
<1>3. Faces \subseteq Nat
  BY BillsAssumption
<1>4. f \in Nat
  <2>1. ASSUME f \in Faces PROVE f \in Nat
    BY <1>3, <2>1
  <2>2. ASSUME f = 0 PROVE f \in Nat
    BY <2>2
  <2> QED
    BY <1>2, <2>1, <2>2
<1> QED
  BY <1>1, <1>4

LEMMA PostSellStep ==
  ASSUME DealInv, NEW t \in Dealers, NEW b \in Bills, Dealing!PostSell(t, b) PROVE DealInv'
<1> DEFINE n == Len(deals) + 1
           face == dealer[t].seen[b].face
           x == [bill |-> b, leg |-> "Sell", ticker |-> TRUE, amount |-> face, live |-> TRUE]
           o == [dealer[t] EXCEPT !.pc = "mark", !.face = face, !.txn = n]
<1>1. /\ dealer[t].pc = "post" /\ b \in dealer[t].todo /\ UNCHANGED <<row, age, missed, met>>
      /\ deals' = Append(deals, x) /\ dealer' = [dealer EXCEPT ![t] = o]
  BY DEF Dealing!PostSell, Dealing!At, Dealing!Works, Dealing!Post
<1>2. /\ deals \in Seq(Dealing!Transaction) /\ row \in [Bills -> Dealing!Row] /\ n \in Nat /\ n # 0
      /\ dealer[t] \in Dealing!Local /\ LocalFits(deals, dealer[t])
  BY DEF DealInv, DealTyped
<1>3. dealer[t].seen[b] \in Dealing!Row
  BY <1>2 DEF Dealing!Local
<1>4. face \in Nat
  BY <1>3, FaceIsNat
<1>5. x \in Dealing!Transaction /\ x.bill = b
  BY <1>4 DEF Dealing!Transaction
<1>6. /\ o \in Dealing!Local /\ o.pc = "mark" /\ o.todo = dealer[t].todo /\ o.seen = dealer[t].seen /\ o.txn = n
  BY <1>2, <1>4 DEF Dealing!Local
<1>7. Appends(deals, x, deals')
  BY <1>1, <1>2, <1>5, Appended
<1>8. Moves(t, o)
  BY <1>1, <1>6 DEF Moves
<1>9. x.leg = "Sell" /\ x.live /\ x.ticker /\ x.amount = dealer[t].seen[b].face
  OBVIOUS
<1> HIDE DEF x, o, face
<1>10. /\ Keeps(deals, deals', b) /\ deals' \in Seq(Dealing!Transaction) /\ deals'[n] = x
       /\ n \in DOMAIN deals' /\ n \notin DOMAIN deals /\ LiveOf(deals', b) = LiveOf(deals, b) \cup {n}
       /\ \A i \in DOMAIN deals : deals'[i] = deals[i]
  BY <1>5, <1>7, <1>9 DEF Appends
<1>11. \A c \in Bills : RowFits(deals', c, row'[c]) /\ RowFits(deals', c, o.seen[c])
  BY <1>1, <1>2, <1>6, <1>10, FitsOn DEF DealInv, DealTyped, LocalFits
<1>12. LocalFits(deals', o)
  BY <1>1, <1>2, <1>5, <1>6, <1>9, <1>10, <1>11 DEF LocalFits, OfOneBill, Buying, Removing
<1>13. KeepsClaims(t, o) /\ KeepsMaking(t, o) /\ KeepsPaid(t, o)
  BY <1>1, <1>2, <1>6, <1>10 DEF KeepsClaims, KeepsMaking, KeepsPaid, Buying, Removing
<1>14. ASSUME Dealing!InTurn' PROVE /\ \A u \in Dealers \ {t} : dealer[u].pc = "idle"
                                    /\ \A c \in Bills : BillAt(deals', row'[c], o, c)
  <2>1. Dealing!InTurn
    BY <1>1, <1>14, InTurnSince
  <2>2. /\ \A u \in Dealers \ {t} : dealer[u].pc = "idle"
        /\ \A c \in Bills : BillAt(deals, row[c], dealer[t], c)
    BY <1>1, <2>1, AtWork
  <2>3. \A c \in Bills : Booked(deals, row[c], c) /\ (c \in dealer[t].todo => row[c] = dealer[t].seen[c])
    BY <1>1, <2>2 DEF BillAt, AtStage
  <2>4. \A c \in Bills \ {b} : Booked(deals', row[c], c)
    BY <1>10, <2>3, BookedElsewhere
  <2>5. row[b].status = "Open" /\ row[b] = o.seen[b] /\ row[b].face = x.amount
    BY <1>1, <1>2, <1>6, <1>9, <2>3 DEF LocalFits
  <2>6. LiveOf(deals', b) = {row[b].buy, n} /\ \A i \in LiveOf(deals', b) : deals'[i].ticker
    <3>1. LiveOf(deals, b) = {row[b].buy} /\ \A i \in LiveOf(deals, b) : deals[i].ticker
      BY <2>3, <2>5 DEF Booked
    <3>2. \A i \in LiveOf(deals, b) : i \in DOMAIN deals
      BY DEF LiveOf
    <3> QED
      BY <1>9, <1>10, <3>1, <3>2
  <2>7. BillAt(deals', row'[b], o, b)
    BY <1>1, <1>5, <1>6, <1>10, <2>5, <2>6, ZenonT(60) DEF BillAt, AtStage, Buying
  <2>8. ASSUME NEW c \in Bills \ {b} PROVE BillAt(deals', row'[c], o, c)
    BY <1>1, <1>5, <1>6, <1>10, <2>3, <2>4 DEF BillAt, AtStage, Buying
  <2> QED
    BY <2>2, <2>7, <2>8
<1>15. UNCHANGED missed /\ missed' \subseteq FailingDeals /\ met' \in BOOLEAN /\ row' \in [Bills -> Dealing!Row]
  BY <1>1 DEF DealInv, DealTyped
<1> QED
  BY <1>1, <1>8, <1>10, <1>11, <1>12, <1>13, <1>14, <1>15, DealStep

\* What the thread t holds once it has done with the bill b, or has given up all it had to do.
LeavesBill(t, b, o) ==
  /\ Moves(t, o) /\ o.pc \in {"idle", "post"} /\ o.todo \subseteq dealer[t].todo \ {b}
  /\ \A c \in Bills : o.seen[c] = dealer[t].seen[c] \/ o.seen[c] = Dealing!Blank
  /\ o.pc = "idle" => o.todo = {}
  /\ o.pc = "post" => o.seen = dealer[t].seen

LEMMA Continues ==
  ASSUME DealInv, NEW t \in Dealers, NEW b, Dealing!Continue(t, b)
  PROVE  \E o : LeavesBill(t, b, o)
<1>1. CASE dealer[t].todo = {b}
  <2>1. Moves(t, Dealing!Idle)
    BY <1>1, Finishes DEF Dealing!Continue
  <2> QED
    BY <2>1, IdleFits DEF LeavesBill, Dealing!Idle
<1>2. CASE dealer[t].todo # {b}
  <2> DEFINE o == [dealer[t] EXCEPT !.pc = "post", !.todo = dealer[t].todo \ {b}, !.face = 0, !.txn = 0]
  <2>1. dealer[t] \in Dealing!Local /\ dealer' = [dealer EXCEPT ![t] = o]
    BY <1>2 DEF DealInv, DealTyped, Dealing!Continue
  <2>2. o \in Dealing!Local /\ o.pc = "post" /\ o.todo = dealer[t].todo \ {b} /\ o.seen = dealer[t].seen
    BY <2>1 DEF Dealing!Local
  <2> HIDE DEF o
  <2> QED
    BY <2>1, <2>2 DEF LeavesBill, Moves
<1> QED
  BY <1>1, <1>2

LEMMA Abandons ==
  ASSUME NEW t \in Dealers, NEW b, Dealing!Finish(t)
  PROVE  LeavesBill(t, b, Dealing!Idle)
BY Finishes, IdleFits DEF LeavesBill, Dealing!Idle

\* The row of b when its payout i is marked.
Marks(b, i) ==
  row' = [row EXCEPT ![b].status = "Matured", ![b].sell = i]

LEMMA SweepStep ==
  ASSUME DealInv, NEW t \in Dealers, dealer[t].pc \in {"post", "mark"}, NEW b \in dealer[t].todo,
         NEW o, LeavesBill(t, b, o), UNCHANGED <<deals, age, met>>,
         missed \subseteq missed', missed' \subseteq FailingDeals,
         dealer[t].pc = "mark" => b = deals[dealer[t].txn].bill,
         \/ row' = row /\ (dealer[t].pc = "post" \/ row[b].status # "Open" \/ ~Dealing!InTurn')
         \/ dealer[t].pc = "mark" /\ row[b].status = "Open" /\ Marks(b, dealer[t].txn)
  PROVE  DealInv'
<1>1. /\ deals \in Seq(Dealing!Transaction) /\ row \in [Bills -> Dealing!Row]
      /\ dealer[t] \in Dealing!Local /\ LocalFits(deals, dealer[t])
  BY DEF DealInv, DealTyped
<1>2. b \in Bills /\ dealer[t].todo \subseteq Bills /\ row[b] \in Dealing!Row
  BY <1>1 DEF Dealing!Local
<1>3. PICK i : i = dealer[t].txn
  OBVIOUS
<1>4. /\ i \in Nat
      /\ dealer[t].pc = "mark" => i \in Side(deals, b, "Sell") /\ deals[i].live
  BY <1>1, <1>3 DEF LocalFits, Side, Dealing!Local
<1>5. \/ row' = row /\ (dealer[t].pc = "post" \/ row[b].status # "Open" \/ ~Dealing!InTurn')
      \/ /\ dealer[t].pc = "mark" /\ row[b].status = "Open"
         /\ row'[b].status = "Matured" /\ row'[b].sell = i /\ row'[b].buy = row[b].buy /\ row'[b].face = row[b].face
         /\ row' \in [Bills -> Dealing!Row] /\ \A c \in Bills \ {b} : row'[c] = row[c]
  <2> SUFFICES ASSUME dealer[t].pc = "mark", row[b].status = "Open", Marks(b, i)
               PROVE  /\ row'[b].status = "Matured" /\ row'[b].sell = i /\ row'[b].buy = row[b].buy /\ row'[b].face = row[b].face
                      /\ row' \in [Bills -> Dealing!Row] /\ \A c \in Bills \ {b} : row'[c] = row[c]
    BY <1>3
  <2> DEFINE w == [row[b] EXCEPT !.status = "Matured", !.sell = i]
  <2>1. /\ w \in Dealing!Row /\ w.status = "Matured" /\ w.sell = i /\ w.buy = row[b].buy /\ w.face = row[b].face
    BY <1>2, <1>4 DEF Dealing!Row
  <2>2. row' = [row EXCEPT ![b] = w]
    BY <1>1, <1>2 DEF Marks
  <2> HIDE DEF w
  <2> QED
    BY <1>1, <1>2, <2>1, <2>2
<1>6. row' \in [Bills -> Dealing!Row] /\ \A c \in Bills \ {b} : row'[c] = row[c]
  BY <1>1, <1>5
<1>7. \A c \in Bills : RowFits(deals', c, row'[c])
  <2>1. \A c \in Bills : RowFits(deals, c, row[c])
    BY DEF DealInv, DealTyped
  <2>2. RowFits(deals, b, row'[b])
    BY <1>2, <1>4, <1>5, <2>1 DEF RowFits
  <2> QED
    BY <1>6, <2>1, <2>2
<1>8. LocalFits(deals', o)
  BY <1>1, BlankFits DEF LeavesBill, LocalFits, OfOneBill, Buying, Removing
<1>9. KeepsClaims(t, o) /\ KeepsMaking(t, o)
  <2>1. KeepsClaims(t, o)
    BY <1>3, <1>5, <1>6, BlankFits DEF KeepsClaims, LeavesBill
  <2>2. KeepsMaking(t, o)
    BY <1>2, <1>5, <1>6 DEF KeepsMaking, LeavesBill, Buying
  <2> QED
    BY <2>1, <2>2
<1>10. KeepsPaid(t, o)
  BY <1>3, <1>4, <1>5, <1>6 DEF KeepsPaid, Removing
<1>11. ASSUME Dealing!InTurn' PROVE /\ \A u \in Dealers \ {t} : dealer[u].pc = "idle"
                                    /\ \A c \in Bills : BillAt(deals', row'[c], o, c)
  <2>1. Dealing!InTurn
    BY <1>11, InTurnSince
  <2>2. /\ \A u \in Dealers \ {t} : dealer[u].pc = "idle"
        /\ \A c \in Bills : BillAt(deals, row[c], dealer[t], c)
    BY <2>1, AtWork
  <2>3. ASSUME NEW c \in Bills \ {b} PROVE BillAt(deals', row'[c], o, c)
    <3>1. Booked(deals, row[c], c) /\ (c \in dealer[t].todo => row[c] = dealer[t].seen[c])
      BY <2>2 DEF BillAt, AtStage
    <3> QED
      BY <1>6, <3>1 DEF BillAt, AtStage, LeavesBill, Buying
  <2>4. Booked(deals', row'[b], b)
    <3>1. AtStage(deals, row[b], dealer[t], b)
      BY <1>2, <2>2 DEF BillAt
    <3>2. CASE dealer[t].pc = "post"
      BY <1>5, <3>1, <3>2 DEF AtStage
    <3>3. CASE dealer[t].pc = "mark"
      <4>1. row[b].status = "Open" /\ row[b] = dealer[t].seen[b]
        BY <1>1, <3>1, <3>3 DEF AtStage, LocalFits
      <4>2. /\ LiveOf(deals, b) = {row[b].buy, i} /\ deals[i].amount = row[b].face
            /\ \A j \in LiveOf(deals, b) : deals[j].ticker
        BY <1>3, <3>1, <3>3 DEF AtStage
      <4>3. row'[b].status = "Matured" /\ row'[b].sell = i /\ row'[b].buy = row[b].buy /\ row'[b].face = row[b].face
        BY <1>5, <1>11, <3>3, <4>1
      <4>4. deals[i].leg = "Sell"
        BY <1>4, <3>3 DEF Side
      <4> QED
        BY <4>2, <4>3, <4>4 DEF Booked
    <3> QED
      BY <3>2, <3>3
  <2>5. BillAt(deals', row'[b], o, b)
    BY <2>4 DEF BillAt, LeavesBill
  <2> QED
    BY <2>2, <2>3, <2>5
<1>12. /\ Moves(t, o) /\ Keeps(deals, deals', b) /\ deals' \in Seq(Dealing!Transaction)
       /\ age' = age /\ met' \in BOOLEAN
  BY <1>1 DEF LeavesBill, Keeps, DealInv, DealTyped
<1> QED
  BY <1>6, <1>7, <1>8, <1>9, <1>10, <1>11, <1>12, DealStep

LEMMA SkipUnpostedStep ==
  ASSUME DealInv, NEW t \in Dealers, NEW b \in Bills, Dealing!SkipUnposted(t, b) PROVE DealInv'
<1>1. /\ dealer[t].pc = "post" /\ b \in dealer[t].todo /\ Dealing!Fails("post") /\ Dealing!Continue(t, b)
      /\ UNCHANGED <<deals, row, age, met>>
  BY DEF Dealing!SkipUnposted, Dealing!At
<1>2. PICK o : LeavesBill(t, b, o)
  BY <1>1, Continues
<1>3. missed \subseteq missed' /\ missed' \subseteq FailingDeals
  BY <1>1, MissedGrows
<1> QED
  BY <1>1, <1>2, <1>3, SweepStep

LEMMA MarkMaturedStep ==
  ASSUME DealInv, NEW t \in Dealers, Dealing!MarkMatured(t) PROVE DealInv'
<1>1. PICK b : b = Dealing!Posted(t)
  OBVIOUS
<1>2. dealer[t].pc = "mark" /\ UNCHANGED <<deals, age, met>> /\ b = deals[dealer[t].txn].bill
  BY <1>1 DEF Dealing!MarkMatured, Dealing!At, Dealing!Posted
<1>3. b \in dealer[t].todo
  BY <1>2 DEF DealInv, DealTyped, LocalFits
<1>4. missed \subseteq missed' /\ missed' \subseteq FailingDeals
  BY MissedGrows DEF Dealing!MarkMatured, DealInv, DealTyped
<1>5. CASE Dealing!Works /\ Dealing!StillOpen(b) /\ Marks(b, dealer[t].txn) /\ Dealing!Continue(t, b)
  <2>1. PICK o : LeavesBill(t, b, o)
    BY <1>5, Continues
  <2> QED
    BY <1>2, <1>3, <1>4, <1>5, <2>1, SweepStep DEF Dealing!StillOpen
<1>6. CASE (Dealing!Fails("mark") \/ (Dealing!Works /\ ~Dealing!StillOpen(b))) /\ UNCHANGED row /\ Dealing!Continue(t, b)
  <2>1. PICK o : LeavesBill(t, b, o)
    BY <1>6, Continues
  <2>2. row[b].status # "Open" \/ ~Dealing!InTurn'
    BY <1>6, MissedGrows DEF Dealing!StillOpen, Dealing!InTurn
  <2> QED
    BY <1>2, <1>3, <1>4, <1>6, <2>1, <2>2, SweepStep
<1>7. CASE Dealing!Fails("resnapshot") /\ Dealing!StillOpen(b) /\ Marks(b, dealer[t].txn) /\ Dealing!Finish(t)
  <2>1. LeavesBill(t, b, Dealing!Idle)
    BY <1>7, Abandons
  <2> QED
    BY <1>2, <1>3, <1>4, <1>7, <2>1, SweepStep DEF Dealing!StillOpen
<1> QED
  BY <1>1, <1>5, <1>6, <1>7 DEF Dealing!MarkMatured, Marks

LEMMA NextDayStep == ASSUME DealInv, NEW b \in Bills, Dealing!NextDay(b) PROVE DealInv'
<1>1. UNCHANGED <<deals, row, dealer, missed, met>> /\ age' = [age EXCEPT ![b] = @ + 1] /\ age[b] < 2
  BY DEF Dealing!NextDay
<1>2. age' \in [Bills -> 0 .. 2]
  <2>1. age \in [Bills -> 0 .. 2]
    BY DEF DealInv, DealTyped
  <2>2. age[b] + 1 \in 0 .. 2
    BY <1>1, <2>1
  <2> QED
    BY <1>1, <2>1, <2>2
<1>3. DealTyped'
  BY <1>1, <1>2 DEF DealInv, DealTyped
<1>4. Dealing!InTurn' = Dealing!InTurn
  BY <1>1 DEF Dealing!InTurn
<1> QED
  BY <1>1, <1>3, <1>4 DEF DealInv

-----------------------------------------------------------------------------
LEMMA DealStart == Dealing!Init => DealInv
<1> SUFFICES ASSUME Dealing!Init PROVE DealInv
  OBVIOUS
<1>1. /\ deals = <<>> /\ row = [b \in Bills |-> Dealing!Blank] /\ age = [b \in Bills |-> 0]
      /\ dealer = [t \in Dealers |-> Dealing!Idle] /\ missed = {} /\ met = FALSE
  BY DEF Dealing!Init, Dealing!Tasks, Dealers
<1>2. \A b \in Bills : row[b] = Dealing!Blank
  BY <1>1
<1>3. \A t \in Dealers : dealer[t] = Dealing!Idle
  BY <1>1
<1>4. DealTyped
  <2>1. deals \in Seq(Dealing!Transaction) /\ missed \subseteq FailingDeals /\ met \in BOOLEAN
    <3>1. deals \in Seq(Dealing!Transaction)
      BY <1>1, EmptySeq
    <3>2. missed \subseteq FailingDeals
      BY <1>1
    <3>3. met \in BOOLEAN
      BY <1>1
    <3> QED
      BY <3>1, <3>2, <3>3
  <2>2. row \in [Bills -> Dealing!Row] /\ dealer \in [Dealers -> Dealing!Local]
    BY <1>1, BlankFits, IdleFits
  <2>3. age \in [Bills -> 0 .. 2]
    BY <1>1
  <2> QED
    BY <1>2, <1>3, <2>1, <2>2, <2>3, BlankFits, IdleFits DEF DealTyped
<1>5. Claimed(row, dealer) /\ InOneHand(row, dealer) /\ PaidOrRemoved(deals, row, dealer, missed)
  BY <1>2, <1>3, BlankFits, IdleFits DEF Claimed, InOneHand, PaidOrRemoved, Buying
<1>6. \A b \in Bills : Booked(deals, row[b], b)
  <2>1. \A b : LiveOf(deals, b) = {}
    BY <1>1 DEF LiveOf
  <2> QED
    BY <1>2, <2>1, BlankFits DEF Booked
<1>7. InOrder(deals, row, dealer)
  BY <1>3, <1>6, IdleFits DEF InOrder
<1> QED
  BY <1>4, <1>5, <1>7 DEF DealInv

LEMMA DealNextStep == DealInv /\ [Dealing!Next]_dealVars => DealInv'
<1> SUFFICES ASSUME DealInv, [Dealing!Next]_dealVars PROVE DealInv'
  OBVIOUS
<1>1. CASE UNCHANGED dealVars
  <2>1. UNCHANGED <<deals, row, age, dealer, missed, met>>
    BY <1>1 DEF dealVars
  <2>2. DealTyped' /\ Dealing!InTurn' = Dealing!InTurn
    BY <2>1 DEF DealInv, DealTyped, Dealing!InTurn
  <2> QED
    BY <2>1, <2>2 DEF DealInv
<1>2. ASSUME NEW t \in Dealers, Dealing!Step(t) PROVE DealInv'
  BY <1>2, SetTickerStep, CreateBillStep, UndoBuyStep, PostSellStep, SkipUnpostedStep, MarkMaturedStep, EditStep,
     CorrectSellStep, DeleteBuyStep, DeleteSellStep, DeleteRowStep DEF Dealing!Step
<1>3. ~Dealing!Crash
  BY DEF Dealing!Crash
<1> QED
  BY <1>1, <1>2, <1>3, AddBuyStep, StartEditStep, StartDeletionStep, ReadDueStep, NextDayStep
     DEF Dealing!Next, Dealing!Tasks, Dealers

\* A matured bill that is not deleted keeps its payout in every step.
LEMMA KeepsPayout ==
  ASSUME DealInv, Dealing!Next, NEW b \in Bills, row[b].status = "Matured", row'[b].status # "deleted"
  PROVE  row'[b].status = "Matured" /\ row'[b].sell = row[b].sell
<1>1. row \in [Bills -> Dealing!Row] /\ row[b] \in Dealing!Row
  BY DEF DealInv, DealTyped
<1>2. CASE row' = row
  BY <1>2
<1>3. ASSUME NEW t \in Dealers, Dealing!CreateBill(t) PROVE row'[b] = row[b]
  <2>1. dealer[t].pc = "create"
    BY <1>3 DEF Dealing!CreateBill, Dealing!At
  <2>2. row[Dealing!BillOf(t)].status = "none"
    BY <2>1, TheBill DEF DealInv, InOneHand, Buying, OfOneBill
  <2>3. b # Dealing!BillOf(t)
    BY <2>2
  <2> QED
    BY <1>1, <1>3, <2>3 DEF Dealing!CreateBill
<1>4. ASSUME NEW t \in Dealers, Dealing!MarkMatured(t) PROVE row'[b] = row[b]
  BY <1>1, <1>4 DEF Dealing!MarkMatured, Dealing!StillOpen
<1>5. ASSUME NEW t \in Dealers, Dealing!Edit(t) PROVE row'[b].status = row[b].status /\ row'[b].sell = row[b].sell
  <2>1. PICK c : c = Dealing!BillOf(t)
    OBVIOUS
  <2>2. row' = row \/ row' = [row EXCEPT ![c].face = dealer[t].face]
    BY <1>5, <2>1 DEF Dealing!Edit
  <2> QED
    BY <1>1, <2>2 DEF Dealing!Row
<1>6. ASSUME NEW t \in Dealers, Dealing!DeleteRow(t) PROVE row'[b] = row[b]
  <2>1. PICK c, w : c = Dealing!BillOf(t) /\ w = [Dealing!Blank EXCEPT !.status = "deleted"]
    OBVIOUS
  <2>2. w.status = "deleted"
    BY <2>1 DEF Dealing!Blank
  <2>3. row' = row \/ row' = [row EXCEPT ![c] = w]
    BY <1>6, <2>1 DEF Dealing!DeleteRow
  <2> QED
    BY <1>1, <2>2, <2>3
<1>7. ASSUME NEW t \in Dealers, Dealing!Step(t) PROVE row'[b].status = row[b].status /\ row'[b].sell = row[b].sell
  <2>1. \/ row' = row
        \/ Dealing!CreateBill(t) \/ Dealing!MarkMatured(t) \/ Dealing!Edit(t) \/ Dealing!DeleteRow(t)
    BY <1>7 DEF Dealing!Step, Dealing!SetTicker, Dealing!UndoBuy, Dealing!PostSell, Dealing!SkipUnposted,
       Dealing!CorrectSell, Dealing!DeleteBuy, Dealing!DeleteSell
  <2> QED
    BY <1>3, <1>4, <1>5, <1>6, <2>1
<1>8. row' = row \/ \E t \in Dealers : Dealing!Step(t)
  BY DEF Dealing!Next, Dealing!Tasks, Dealers, Dealing!AddBuy, Dealing!StartEdit, Dealing!StartDelete,
     Dealing!ReadDue, Dealing!NextDay, Dealing!Crash
<1> QED
  BY <1>2, <1>7, <1>8

LEMMA ReconciledThen == DealInv => Dealing!TypeOK /\ Dealing!Reconciled /\ Dealing!MaturedIsPaid
<1> SUFFICES ASSUME DealInv PROVE Dealing!TypeOK /\ Dealing!Reconciled /\ Dealing!MaturedIsPaid
  OBVIOUS
<1>1. \A b : Dealing!Legs(b) = LiveOf(deals, b)
  BY DEF Dealing!Legs, LiveOf
<1>2. Dealing!Tasks = Dealers
  BY DEF Dealing!Tasks, Dealers
<1>3. Dealing!TypeOK
  <2>1. ASSUME NEW b \in Bills PROVE {row[b].buy, row[b].sell} \subseteq 0 .. Len(deals)
    <3>1. PICK w : w = row[b]
      OBVIOUS
    <3>2. w \in Dealing!Row /\ RowFits(deals, b, w) /\ deals \in Seq(Dealing!Transaction)
      BY <3>1 DEF DealInv, DealTyped
    <3>3. (w.sell = 0 \/ w.sell \in DOMAIN deals) /\ (w.buy = 0 \/ w.buy \in DOMAIN deals)
      BY <3>2, SellNames
    <3>4. DOMAIN deals = 1 .. Len(deals) /\ Len(deals) \in Nat
      BY <3>2
    <3>5. w.sell \in 0 .. Len(deals) /\ w.buy \in 0 .. Len(deals)
      BY <3>3, <3>4
    <3> QED
      BY <3>1, <3>5
  <2>2. missed \subseteq FailingDeals /\ met \in BOOLEAN /\ 0 \in 0 .. 0
    BY DEF DealInv, DealTyped
  <2> QED
    BY <1>2, <2>1, <2>2 DEF Dealing!TypeOK, DealInv, DealTyped
<1>4. Dealing!Reconciled
  <2> SUFFICES ASSUME NEW b \in Bills, Dealing!InTurn, ~Dealing!InHand(b)
               PROVE  Booked(deals, row[b], b)
    BY <1>1 DEF Dealing!Reconciled, Booked, Dealing!Exists
  <2>1. \A t \in Dealers : b \notin dealer[t].todo
    BY <1>2 DEF Dealing!InHand
  <2>2. InOrder(deals, row, dealer)
    BY DEF DealInv
  <2> QED
    BY <2>1, <2>2 DEF InOrder, BillAt
<1>5. Dealing!MaturedIsPaid
  <2> SUFFICES ASSUME "row" \notin missed, NEW b \in Bills, row[b].status = "Matured",
                      ~\E t \in Dealers : b \in dealer[t].todo /\ dealer[t].pc \in Removing
               PROVE  row[b].sell \in LiveOf(deals, b) /\ deals[row[b].sell].leg = "Sell"
    BY <1>1, <1>2 DEF Dealing!MaturedIsPaid, Removing
  <2>1. row[b].sell \in Side(deals, b, "Sell")
    BY DEF DealInv, DealTyped, RowFits
  <2>2. deals[row[b].sell].live
    BY DEF DealInv, PaidOrRemoved
  <2> QED
    BY <2>1, <2>2 DEF Side, LiveOf
<1> QED
  BY <1>3, <1>4, <1>5

\* Bills and ledger, without a process end: while operations take turns and nothing fails
\* that the code cannot take back, a bill no operation is at has exactly the live rows its
\* row names; whatever overlaps and fails, what matured was paid out and keeps its payout.
THEOREM BooksAgreeTogetherHolds == SpecOne => BooksAgreeTogether
<1> DEFINE IInv == focus = "deals" => DealInv
           Final == \A b \in Bills : row[b].status = "Matured" /\ row'[b].status # "deleted" =>
                      row'[b].status = "Matured" /\ row'[b].sell = row[b].sell
<1>1. StartOne => IInv
  BY DealStart DEF StartOne
<1>2. IInv /\ [StepOne]_ruleVars => IInv'
  <2> SUFFICES ASSUME IInv, [StepOne]_ruleVars, focus' = "deals" PROVE DealInv'
    OBVIOUS
  <2>1. focus = "deals" /\ [Dealing!Next]_dealVars
    BY DEF StepOne, ruleVars, dealVars
  <2> QED
    BY <2>1, DealNextStep
<1>3. IInv => Reconciled
  BY ReconciledThen DEF Reconciled
<1>4. IInv /\ [StepOne]_ruleVars => [Final]_(Dealing!vars)
  <2> SUFFICES ASSUME IInv, [StepOne]_ruleVars, Dealing!vars' # Dealing!vars PROVE Final
    OBVIOUS
  <2>1. focus = "deals" /\ Dealing!Next
    BY DEF StepOne, ruleVars, dealVars, Dealing!vars
  <2> QED
    BY <2>1, KeepsPayout
<1> QED
  BY <1>1, <1>2, <1>3, <1>4, PTL DEF SpecOne, BooksAgreeTogether, Dealing!MaturityIsFinal

-----------------------------------------------------------------------------
(* PriceRepair.  Only the holder of _repair_lock writes a file, so its     *)
(* locals tell how far apart the files are: the registry has its           *)
(* correction over what was saved before, and the history honours what was *)
(* saved before, until it is replaced.                                     *)

Corrections == [Repairs!Dates -> Fixes \cup {NoRepair}]
AtFile == {"verify", "original", "enter", "rebuild"} \cup Repairs!Locked
RepairLocal ==
  [at : Repairs!Unlocked \cup Repairs!Locked, kind : {"repair"}, date : Repairs!Dates, bar : Fixes \cup {Gone},
   shown : Repairs!Frames, fingerprint : Repairs!Frames, frame : Repairs!Frames, original : Repairs!Frames,
   prior : Corrections, replaced : BOOLEAN]

RepairTyped ==
  /\ file \in Repairs!Frames /\ quant \in Repairs!Frames /\ score \in Repairs!Frames
  /\ saved \in Corrections
  /\ lock \in Ops \cup {None}
  /\ op \in [Ops -> RepairLocal]
  /\ \A p \in Ops : (op[p].at \in Repairs!Locked <=> lock = p) /\ (op[p].at \in AtFile => op[p].bar \in Fixes)
  /\ refresh = Repairs!NoRefresh /\ mixed \in BOOLEAN

\* A history, or the scores, agree with a registry.
Honours(f, s) == \A d \in Repairs!Dates : s[d] # NoRepair => f[d] = s[d]
Scored(r, s) == \A d \in Repairs!Dates : s[d] # NoRepair => r[d] \in {Gone, s[d]}

\* The files f, s and r while the locals of the holder are o; m is mixed.
RegistryHeld(o, s, r) ==
  /\ s = IF o.at = "save" THEN o.prior ELSE [o.prior EXCEPT ![o.date] = o.bar]
  /\ Scored(r, o.prior)
HistoryHeld(o, f, m) ==
  /\ o.at \in {"save", "recheck", "replace"} => ~o.replaced
  /\ o.at = "records" => o.replaced
  /\ o.at = "replace" => f = o.fingerprint
  /\ ~m => IF o.replaced /\ o.at # "restore"
             THEN f = [o.original EXCEPT ![o.date] = o.bar] /\ Honours(o.original, o.prior)
             ELSE Honours(f, o.prior)

RepairInv ==
  /\ RepairTyped
  /\ lock = None => Scored(score, saved) /\ (~mixed => Honours(file, saved))
  /\ lock # None => RegistryHeld(op[lock], saved, score) /\ HistoryHeld(op[lock], file, mixed)

LEMMA FramesPut ==
  ASSUME NEW f \in Repairs!Frames, NEW d \in Repairs!Dates, NEW b \in Fixes \cup {Gone}
  PROVE  [f EXCEPT ![d] = b] \in Repairs!Frames
BY DEF Repairs!Frames, Repairs!Bars

LEMMA NoneIsNoOp == None \notin Ops
BY RepairsAssumption

LEMMA RepairStart == Repairs!Init => RepairInv
<1> SUFFICES ASSUME Repairs!Init PROVE RepairInv
  OBVIOUS
<1>1. Repairs!FirstBars \in Repairs!Frames
  BY RepairsAssumption DEF Repairs!FirstBars, Repairs!Frames, Repairs!Bars
<1>2. Repairs!NoRepairs \in Corrections /\ \A d \in Repairs!Dates : Repairs!NoRepairs[d] = NoRepair
  BY DEF Repairs!NoRepairs, Corrections
<1>3. Repairs!Locals("idle") \in RepairLocal
  BY <1>1, <1>2, RepairsAssumption DEF Repairs!Locals, RepairLocal, Repairs!Unlocked, Repairs!Dates
<1>4. RepairTyped
  BY <1>1, <1>2, <1>3, NoneIsNoOp
     DEF Repairs!Init, RepairTyped, Repairs!Locals, Repairs!Locked, AtFile
<1> QED
  BY <1>2, <1>4 DEF Repairs!Init, RepairInv, Scored, Honours

\* A step of a request outside the lock: it writes its locals and perhaps indicators.
LEMMA Bystander ==
  ASSUME RepairInv, NEW p \in Ops, lock # p, UNCHANGED <<file, saved, score, lock, refresh, mixed>>,
         quant' \in Repairs!Frames, NEW o \in RepairLocal, op' = [op EXCEPT ![p] = o],
         o.at \notin Repairs!Locked, o.at \in AtFile => o.bar \in Fixes
  PROVE  RepairInv'
<1>1. RepairTyped'
  BY DEF RepairInv, RepairTyped
<1>2. lock # None => op'[lock] = op[lock]
  BY DEF RepairInv, RepairTyped
<1> QED
  BY <1>1, <1>2 DEF RepairInv

\* A step of the holder that keeps the lock.
LEMMA HolderGoesOn ==
  ASSUME RepairInv, NEW p \in Ops, lock = p, UNCHANGED <<lock, refresh, quant>>,
         NEW o \in RepairLocal, op' = [op EXCEPT ![p] = o], o.at \in Repairs!Locked, o.bar \in Fixes,
         file' \in Repairs!Frames, saved' \in Corrections, score' \in Repairs!Frames, mixed' \in BOOLEAN,
         RegistryHeld(o, saved', score'), HistoryHeld(o, file', mixed')
  PROVE  RepairInv'
<1>1. RepairTyped'
  BY DEF RepairInv, RepairTyped
<1>2. op'[lock'] = o
  BY DEF RepairInv, RepairTyped
<1> QED
  BY <1>1, <1>2, NoneIsNoOp DEF RepairInv

\* A step of the holder that gives the lock back.
LEMMA HolderLeaves ==
  ASSUME RepairInv, NEW p \in Ops, lock = p, lock' = None, UNCHANGED <<file, refresh, mixed>>,
         NEW o \in RepairLocal, op' = [op EXCEPT ![p] = o], o.at \notin Repairs!Locked, o.at \in AtFile => o.bar \in Fixes,
         quant' \in Repairs!Frames, saved' \in Corrections, score' \in Repairs!Frames,
         Scored(score', saved'), ~mixed => Honours(file, saved')
  PROVE  RepairInv'
<1>1. RepairTyped'
  BY NoneIsNoOp DEF RepairInv, RepairTyped
<1> QED
  BY <1>1 DEF RepairInv

LEMMA EndedIsLocal ==
  \A how \in {"refused", "done", "dead"} : /\ Repairs!Locals(how) \in RepairLocal /\ Repairs!Locals(how).at = how
                                           /\ how \notin Repairs!Locked \cup AtFile
<1>1. Repairs!FirstBars \in Repairs!Frames
  BY RepairsAssumption DEF Repairs!FirstBars, Repairs!Frames, Repairs!Bars
<1>2. Repairs!NoRepairs \in Corrections
  BY DEF Repairs!NoRepairs, Corrections
<1> QED
  BY <1>1, <1>2, RepairsAssumption DEF Repairs!Locals, RepairLocal, Repairs!Unlocked, Repairs!Dates, Repairs!Locked, AtFile

LEMMA OpIsLocal ==
  ASSUME RepairInv, NEW p \in Ops
  PROVE  /\ op[p] \in RepairLocal
         /\ op[p].at \in Repairs!Locked <=> lock = p
         /\ op[p].at \in AtFile => op[p].bar \in Fixes
BY DEF RepairInv, RepairTyped

LEMMA CheckReadStep ==
  ASSUME RepairInv, NEW p \in Ops, NEW d \in Suspect, Repairs!CheckRead(p, d) PROVE RepairInv'
<1> DEFINE o == [op[p] EXCEPT !.at = "shown", !.date = d, !.shown = file]
<1>1. d \in Repairs!Dates /\ file \in Repairs!Frames
  BY RepairsAssumption DEF Repairs!Dates, RepairInv, RepairTyped
<1>2. o \in RepairLocal /\ o.at = "shown"
  BY <1>1, OpIsLocal DEF RepairLocal, Repairs!Unlocked
<1>3. op' = [op EXCEPT ![p] = o]
  BY DEF Repairs!CheckRead
<1>4. lock # p
  BY OpIsLocal DEF Repairs!CheckRead, Repairs!Locked
<1> QED
  BY <1>2, <1>3, <1>4, Bystander DEF Repairs!CheckRead, Repairs!rowVars, Repairs!envVars, RepairInv, RepairTyped,
     Repairs!Locked, AtFile

LEMMA CheckFingerprintStep == ASSUME RepairInv, NEW p \in Ops, Repairs!CheckFingerprint(p) PROVE RepairInv'
<1> DEFINE o == [op[p] EXCEPT !.at = "checked", !.fingerprint = file]
<1>1. file \in Repairs!Frames
  BY DEF RepairInv, RepairTyped
<1>2. o \in RepairLocal /\ o.at = "checked"
  BY <1>1, OpIsLocal DEF RepairLocal, Repairs!Unlocked
<1>3. op' = [op EXCEPT ![p] = o]
  BY DEF Repairs!CheckFingerprint
<1>4. lock # p
  BY OpIsLocal DEF Repairs!CheckFingerprint, Repairs!Locked
<1> QED
  BY <1>2, <1>3, <1>4, Bystander DEF Repairs!CheckFingerprint, Repairs!rowVars, Repairs!envVars, RepairInv, RepairTyped,
     Repairs!Locked, AtFile

LEMMA RequestStep == ASSUME RepairInv, NEW p \in Ops, Repairs!Request(p) PROVE RepairInv'
<1> PICK bar \in Fixes : Repairs!ReadHistory(p, "repair", bar)
  BY DEF Repairs!Request
<1> DEFINE o == [op[p] EXCEPT !.at = "verify", !.kind = "repair", !.bar = bar, !.frame = file]
<1>1. file \in Repairs!Frames
  BY DEF RepairInv, RepairTyped
<1>2. o \in RepairLocal /\ o.at = "verify" /\ o.bar \in Fixes
  BY <1>1, OpIsLocal DEF RepairLocal, Repairs!Unlocked
<1>3. op' = [op EXCEPT ![p] = o]
  BY DEF Repairs!ReadHistory
<1>4. lock # p
  BY OpIsLocal DEF Repairs!ReadHistory, Repairs!Locked
<1> QED
  BY <1>2, <1>3, <1>4, Bystander DEF Repairs!ReadHistory, Repairs!rowVars, Repairs!envVars, RepairInv, RepairTyped,
     Repairs!Locked, AtFile

LEMMA VerifyStep == ASSUME RepairInv, NEW p \in Ops, Repairs!VerifyFingerprint(p) PROVE RepairInv'
<1>1. PICK o \in RepairLocal : /\ op' = [op EXCEPT ![p] = o] /\ o.at \notin Repairs!Locked
                               /\ o.at \in AtFile => o.bar \in Fixes
  <2>1. CASE Repairs!Refusable(p)
    BY <2>1, EndedIsLocal DEF Repairs!VerifyFingerprint, Repairs!End
  <2>2. CASE ~Repairs!Refusable(p)
    <3> DEFINE o == [op[p] EXCEPT !.at = "original"]
    <3>1. o \in RepairLocal /\ o.at = "original" /\ o.bar \in Fixes
      BY OpIsLocal DEF RepairLocal, Repairs!Unlocked, Repairs!VerifyFingerprint, AtFile
    <3>2. op' = [op EXCEPT ![p] = o]
      BY <2>2 DEF Repairs!VerifyFingerprint
    <3> QED
      BY <3>1, <3>2 DEF Repairs!Locked
  <2> QED
    BY <2>1, <2>2
<1>2. lock # p
  BY OpIsLocal DEF Repairs!VerifyFingerprint, Repairs!Locked
<1> QED
  BY <1>1, <1>2, Bystander DEF Repairs!VerifyFingerprint, Repairs!rowVars, Repairs!envVars, RepairInv, RepairTyped

LEMMA ReadOriginalStep == ASSUME RepairInv, NEW p \in Ops, Repairs!ReadOriginal(p) PROVE RepairInv'
<1> DEFINE o == [op[p] EXCEPT !.at = "enter", !.original = file]
<1>1. file \in Repairs!Frames
  BY DEF RepairInv, RepairTyped
<1>2. o \in RepairLocal /\ o.at = "enter" /\ o.bar \in Fixes
  BY <1>1, OpIsLocal DEF RepairLocal, Repairs!Unlocked, Repairs!ReadOriginal, AtFile
<1>3. op' = [op EXCEPT ![p] = o]
  BY DEF Repairs!ReadOriginal
<1>4. lock # p
  BY OpIsLocal DEF Repairs!ReadOriginal, Repairs!Locked
<1> QED
  BY <1>2, <1>3, <1>4, Bystander DEF Repairs!ReadOriginal, Repairs!rowVars, Repairs!envVars, RepairInv, RepairTyped,
     Repairs!Locked, AtFile

LEMMA RebuildStep == ASSUME RepairInv, NEW p \in Ops, Repairs!RebuildQuant(p) PROVE RepairInv'
<1>1. op' = [op EXCEPT ![p] = Repairs!Locals("done")]
  BY DEF Repairs!RebuildQuant, Repairs!End
<1>2. Repairs!Updated(p) \in Repairs!Frames
  BY OpIsLocal, FramesPut DEF Repairs!Updated, RepairLocal
<1>3. quant' \in Repairs!Frames
  BY <1>2 DEF Repairs!RebuildQuant, RepairInv, RepairTyped, Repairs!Frames
<1>4. lock # p
  BY OpIsLocal DEF Repairs!RebuildQuant, Repairs!Locked
<1> QED
  BY <1>1, <1>3, <1>4, EndedIsLocal, Bystander DEF Repairs!RebuildQuant, Repairs!envVars

LEMMA EnterStep == ASSUME RepairInv, NEW p \in Ops, Repairs!Enter(p) PROVE RepairInv'
<1> DEFINE o == [op[p] EXCEPT !.at = "save", !.prior = saved, !.replaced = FALSE]
<1>1. o \in RepairLocal /\ o.at = "save" /\ o.bar \in Fixes /\ o.prior = saved /\ ~o.replaced
  BY OpIsLocal DEF RepairLocal, Repairs!Locked, Repairs!Enter, AtFile, RepairInv, RepairTyped
<1>2. op' = [op EXCEPT ![p] = o]
  BY OpIsLocal DEF Repairs!Enter, RepairLocal
<1> HIDE DEF o
<1>3. op'[p] = o /\ (\A q \in Ops \ {p} : op'[q] = op[q]) /\ op' \in [Ops -> RepairLocal]
  BY <1>1, <1>2 DEF RepairInv, RepairTyped
<1>4. \A q \in Ops : (op'[q].at \in Repairs!Locked <=> lock' = q) /\ (op'[q].at \in AtFile => op'[q].bar \in Fixes)
  BY <1>1, <1>3, OpIsLocal, NoneIsNoOp DEF Repairs!Enter, Repairs!Locked
<1>5. RepairTyped'
  BY <1>3, <1>4 DEF RepairInv, RepairTyped, Repairs!Enter, Repairs!rowVars, Repairs!envVars
<1> QED
  BY <1>1, <1>3, <1>5, NoneIsNoOp DEF RepairInv, Repairs!Enter, Repairs!rowVars, Repairs!envVars, RegistryHeld, HistoryHeld

LEMMA HolderIs ==
  ASSUME RepairInv, NEW p \in Ops, op[p].at \in Repairs!Locked
  PROVE  lock = p /\ RegistryHeld(op[p], saved, score) /\ HistoryHeld(op[p], file, mixed)
BY NoneIsNoOp DEF RepairInv, RepairTyped

LEMMA WriteRepairsStep == ASSUME RepairInv, NEW p \in Ops, Repairs!WriteRepairs(p) PROVE RepairInv'
<1> DEFINE o == [op[p] EXCEPT !.at = "recheck"]
<1>1. op[p].at = "save" /\ lock = p /\ RegistryHeld(op[p], saved, score) /\ HistoryHeld(op[p], file, mixed)
  BY HolderIs DEF Repairs!WriteRepairs, Repairs!Locked
<1>2. op[p] \in RepairLocal /\ op[p].bar \in Fixes
  BY <1>1, OpIsLocal DEF AtFile, Repairs!Locked
<1>3. o \in RepairLocal /\ o.at = "recheck" /\ o.prior = op[p].prior /\ o.date = op[p].date /\ o.bar = op[p].bar
      /\ o.replaced = op[p].replaced /\ o.original = op[p].original
  BY <1>2 DEF RepairLocal, Repairs!Locked
<1>4. op' = [op EXCEPT ![p] = o]
  BY <1>2 DEF Repairs!WriteRepairs, RepairLocal
<1>5. saved' = [op[p].prior EXCEPT ![op[p].date] = op[p].bar] /\ saved' \in Corrections
  BY <1>2 DEF Repairs!WriteRepairs, RepairLocal, Repairs!Correction, Corrections
<1>6. RegistryHeld(o, saved', score') /\ HistoryHeld(o, file', mixed')
  BY <1>1, <1>3, <1>5 DEF Repairs!WriteRepairs, RegistryHeld, HistoryHeld, Repairs!rowVars, Repairs!envVars
<1> QED
  BY <1>1, <1>2, <1>3, <1>4, <1>5, <1>6, HolderGoesOn
     DEF Repairs!WriteRepairs, Repairs!rowVars, Repairs!envVars, RepairInv, RepairTyped, Repairs!Locked

LEMMA RecheckStep == ASSUME RepairInv, NEW p \in Ops, Repairs!RecheckFingerprint(p) PROVE RepairInv'
<1> DEFINE o == [op[p] EXCEPT !.at = IF Repairs!StillSame(p) THEN "replace" ELSE "rollback"]
<1>1. op[p].at = "recheck" /\ lock = p /\ RegistryHeld(op[p], saved, score) /\ HistoryHeld(op[p], file, mixed)
  BY HolderIs DEF Repairs!RecheckFingerprint, Repairs!Locked
<1>2. op[p] \in RepairLocal /\ op[p].bar \in Fixes
  BY <1>1, OpIsLocal DEF AtFile, Repairs!Locked
<1>3. /\ o \in RepairLocal /\ o.at \in {"replace", "rollback"} /\ (o.at = "replace" => file = op[p].fingerprint)
      /\ o.prior = op[p].prior /\ o.date = op[p].date /\ o.bar = op[p].bar /\ o.fingerprint = op[p].fingerprint
      /\ o.replaced = op[p].replaced /\ o.original = op[p].original
  BY <1>2 DEF RepairLocal, Repairs!Locked, Repairs!StillSame
<1>4. op' = [op EXCEPT ![p] = o]
  BY DEF Repairs!RecheckFingerprint
<1> HIDE DEF o
<1>5. UNCHANGED <<file, saved, score, quant, lock, refresh, mixed>>
  BY DEF Repairs!RecheckFingerprint, Repairs!rowVars, Repairs!envVars
<1>6. RegistryHeld(o, saved', score') /\ HistoryHeld(o, file', mixed')
  BY <1>1, <1>3, <1>5 DEF RegistryHeld, HistoryHeld
<1> QED
  BY <1>1, <1>2, <1>3, <1>4, <1>5, <1>6, HolderGoesOn DEF RepairInv, RepairTyped, Repairs!Locked

LEMMA ReplaceStep == ASSUME RepairInv, NEW p \in Ops, Repairs!ReplaceFile(p) PROVE RepairInv'
<1> DEFINE o == [op[p] EXCEPT !.replaced = TRUE, !.at = "records"]
<1>1. op[p].at = "replace" /\ lock = p /\ RegistryHeld(op[p], saved, score) /\ HistoryHeld(op[p], file, mixed)
  BY HolderIs DEF Repairs!ReplaceFile, Repairs!Locked
<1>2. op[p] \in RepairLocal /\ op[p].bar \in Fixes
  BY <1>1, OpIsLocal DEF AtFile, Repairs!Locked
<1>3. /\ o \in RepairLocal /\ o.at = "records" /\ o.replaced
      /\ o.prior = op[p].prior /\ o.date = op[p].date /\ o.bar = op[p].bar /\ o.original = op[p].original
  BY <1>2 DEF RepairLocal, Repairs!Locked
<1>4. op' = [op EXCEPT ![p] = o]
  BY <1>2 DEF Repairs!ReplaceFile, RepairLocal
<1> HIDE DEF o
<1>5. /\ UNCHANGED <<saved, score, quant, lock, refresh>>
      /\ file' = [op[p].frame EXCEPT ![op[p].date] = op[p].bar]
      /\ ~mixed' => ~mixed /\ op[p].frame = file /\ op[p].original = file
  BY <1>2 DEF Repairs!ReplaceFile, Repairs!rowVars, Repairs!Updated, RepairLocal
<1>6. file' \in Repairs!Frames /\ mixed' \in BOOLEAN
  BY <1>2, <1>5, FramesPut DEF RepairLocal, Repairs!ReplaceFile, RepairInv, RepairTyped
<1>7. RegistryHeld(o, saved', score') /\ HistoryHeld(o, file', mixed')
  BY <1>1, <1>3, <1>5 DEF RegistryHeld, HistoryHeld
<1> QED
  BY <1>1, <1>2, <1>3, <1>4, <1>5, <1>6, <1>7, HolderGoesOn DEF RepairInv, RepairTyped, Repairs!Locked

LEMMA UpdateRecordsStep == ASSUME RepairInv, NEW p \in Ops, Repairs!UpdateRecords(p) PROVE RepairInv'
<1> DEFINE o == [op[p] EXCEPT !.at = "rebuild"]
<1>1. op[p].at = "records" /\ lock = p /\ RegistryHeld(op[p], saved, score) /\ HistoryHeld(op[p], file, mixed)
  BY HolderIs DEF Repairs!UpdateRecords, Repairs!Locked
<1>2. op[p] \in RepairLocal /\ op[p].bar \in Fixes /\ op[p].kind = "repair"
  BY <1>1, OpIsLocal DEF AtFile, Repairs!Locked, RepairLocal
<1>3. o \in RepairLocal /\ o.at = "rebuild" /\ o.bar \in Fixes /\ "rebuild" \notin Repairs!Locked
  BY <1>2 DEF RepairLocal, Repairs!Unlocked, Repairs!Locked
<1>4. op' = [op EXCEPT ![p] = o]
  BY DEF Repairs!UpdateRecords
<1> HIDE DEF o
<1>5. /\ UNCHANGED <<file, saved, refresh, mixed>> /\ lock' = None
      /\ quant' = Repairs!Touched(p, quant) /\ score' = Repairs!Touched(p, score)
  BY DEF Repairs!UpdateRecords, Repairs!envVars
<1>6. quant' \in Repairs!Frames /\ score' \in Repairs!Frames
  BY <1>2, <1>5, FramesPut DEF Repairs!Touched, RepairLocal, RepairInv, RepairTyped
<1>7. op[p].date \in Repairs!Dates /\ op[p].prior \in Corrections /\ file \in Repairs!Frames /\ score \in Repairs!Frames
      /\ op[p].original \in Repairs!Frames
  BY <1>2 DEF RepairLocal, RepairInv, RepairTyped
<1>8. saved = [op[p].prior EXCEPT ![op[p].date] = op[p].bar]
  BY <1>1 DEF RegistryHeld
<1>9. Scored(score', saved')
  BY <1>1, <1>2, <1>5, <1>7, <1>8 DEF RegistryHeld, Scored, Repairs!Touched, Corrections, Repairs!Frames
<1>10. ~mixed => Honours(file, saved')
  BY <1>1, <1>5, <1>7, <1>8 DEF HistoryHeld, Honours, Corrections, Repairs!Frames
<1> QED
  BY <1>1, <1>3, <1>4, <1>5, <1>6, <1>9, <1>10, HolderLeaves DEF RepairInv, RepairTyped

LEMMA FailStep == ASSUME RepairInv, NEW p \in Ops, Repairs!Fail(p) PROVE RepairInv'
<1>1. op[p].at \in {"save", "recheck", "replace", "records"} /\ lock = p
      /\ RegistryHeld(op[p], saved, score) /\ HistoryHeld(op[p], file, mixed)
  BY HolderIs DEF Repairs!Fail, Repairs!Locked
<1>2. op[p] \in RepairLocal /\ op[p].bar \in Fixes /\ op[p].kind = "repair"
  BY <1>1, OpIsLocal DEF AtFile, Repairs!Locked, RepairLocal
<1>3. UNCHANGED <<file, saved, score, quant, refresh, mixed>>
  BY DEF Repairs!Fail, Repairs!rowVars
<1>4. CASE op[p].at = "save"
  <2>1. lock' = None /\ op' = [op EXCEPT ![p] = Repairs!Locals("refused")]
    BY <1>2, <1>4 DEF Repairs!Fail, Repairs!End
  <2>2. Scored(score, saved) /\ (~mixed => Honours(file, saved))
    BY <1>1, <1>4 DEF RegistryHeld, HistoryHeld
  <2> QED
    BY <1>1, <1>3, <2>1, <2>2, EndedIsLocal, HolderLeaves DEF RepairInv, RepairTyped
<1>5. CASE op[p].at # "save"
  <2> DEFINE o == [op[p] EXCEPT !.at = "rollback"]
  <2>1. /\ o \in RepairLocal /\ o.at = "rollback"
        /\ o.prior = op[p].prior /\ o.date = op[p].date /\ o.bar = op[p].bar
        /\ o.replaced = op[p].replaced /\ o.original = op[p].original
    BY <1>2 DEF RepairLocal, Repairs!Locked
  <2>2. op' = [op EXCEPT ![p] = o] /\ lock' = lock
    BY <1>5 DEF Repairs!Fail
  <2> HIDE DEF o
  <2>3. RegistryHeld(o, saved', score') /\ HistoryHeld(o, file', mixed')
    BY <1>1, <1>3, <1>5, <2>1 DEF RegistryHeld, HistoryHeld
  <2> QED
    BY <1>1, <1>2, <1>3, <2>1, <2>2, <2>3, HolderGoesOn DEF RepairInv, RepairTyped, Repairs!Locked
<1> QED
  BY <1>4, <1>5

LEMMA RollbackStep == ASSUME RepairInv, NEW p \in Ops, Repairs!RollbackFile(p) PROVE RepairInv'
<1> DEFINE o == [op[p] EXCEPT !.at = "restore"]
<1>1. op[p].at = "rollback" /\ lock = p /\ RegistryHeld(op[p], saved, score) /\ HistoryHeld(op[p], file, mixed)
  BY HolderIs DEF Repairs!RollbackFile, Repairs!Locked
<1>2. op[p] \in RepairLocal /\ op[p].bar \in Fixes /\ op[p].kind = "repair" /\ op[p].original \in Repairs!Frames
  BY <1>1, OpIsLocal DEF AtFile, Repairs!Locked, RepairLocal
<1>3. /\ o \in RepairLocal /\ o.at = "restore"
      /\ o.prior = op[p].prior /\ o.date = op[p].date /\ o.bar = op[p].bar
  BY <1>2 DEF RepairLocal, Repairs!Locked
<1>4. op' = [op EXCEPT ![p] = o]
  BY DEF Repairs!RollbackFile
<1> HIDE DEF o
<1>5. /\ UNCHANGED <<saved, score, quant, lock, refresh, mixed>>
      /\ file' = IF op[p].replaced THEN op[p].original ELSE file
  BY <1>2 DEF Repairs!RollbackFile, Repairs!rowVars, Repairs!envVars, Repairs!PutsFileBack
<1>6. RegistryHeld(o, saved', score') /\ HistoryHeld(o, file', mixed')
  BY <1>1, <1>3, <1>5 DEF RegistryHeld, HistoryHeld
<1> QED
  BY <1>1, <1>2, <1>3, <1>4, <1>5, <1>6, HolderGoesOn DEF RepairInv, RepairTyped, Repairs!Locked

LEMMA RestoreStep == ASSUME RepairInv, NEW p \in Ops, Repairs!RestoreRepairs(p) PROVE RepairInv'
<1>1. op[p].at = "restore" /\ lock = p /\ RegistryHeld(op[p], saved, score) /\ HistoryHeld(op[p], file, mixed)
  BY HolderIs DEF Repairs!RestoreRepairs, Repairs!Locked
<1>2. op[p].prior \in Corrections
  BY OpIsLocal DEF RepairLocal
<1>3. /\ UNCHANGED <<file, score, quant, refresh, mixed>> /\ saved' = op[p].prior /\ lock' = None
      /\ op' = [op EXCEPT ![p] = Repairs!Locals("refused")]
  BY DEF Repairs!RestoreRepairs, Repairs!rowVars, Repairs!envVars, Repairs!End
<1>4. PICK o : o = Repairs!Locals("refused")
  OBVIOUS
<1>5. o \in RepairLocal /\ o.at = "refused"
  BY <1>4, EndedIsLocal
<1>6. o.at \notin Repairs!Locked \cup AtFile
  BY <1>5 DEF Repairs!Locked, AtFile
<1>7. Scored(score', saved') /\ (~mixed => Honours(file, saved'))
  BY <1>1, <1>3 DEF RegistryHeld, HistoryHeld
<1>8. quant' \in Repairs!Frames /\ score' \in Repairs!Frames
  BY <1>3 DEF RepairInv, RepairTyped
<1> QED
  BY <1>1, <1>2, <1>3, <1>4, <1>5, <1>6, <1>7, <1>8, HolderLeaves

LEMMA RepairStep == RepairInv /\ [Repairs!Next]_repairVars => RepairInv'
<1> SUFFICES ASSUME RepairInv, [Repairs!Next]_repairVars PROVE RepairInv'
  OBVIOUS
<1>1. CASE UNCHANGED repairVars
  BY <1>1 DEF repairVars, RepairInv, RepairTyped
<1>2. ~Repairs!Refresh /\ ~Repairs!Crash
  BY DEF Repairs!Refresh, Repairs!Download, Repairs!ApplySavedRepairs, Repairs!MergeStored, Repairs!WriteHistory,
     Repairs!Crash, RepairInv, RepairTyped, Repairs!NoRefresh
<1>3. ASSUME NEW p \in Ops, Repairs!Step(p) PROVE RepairInv'
  BY <1>3, VerifyStep, ReadOriginalStep, EnterStep, WriteRepairsStep, RecheckStep, ReplaceStep, UpdateRecordsStep,
     RollbackStep, RestoreStep, RebuildStep DEF Repairs!Step
<1> QED
  BY <1>1, <1>2, <1>3, CheckReadStep, CheckFingerprintStep, RequestStep, FailStep DEF Repairs!Next

\* Whoever replaces the history finds the one it was given the fingerprint of, and a
\* request that puts its history back restores every other bar.
LEMMA OnlyTheirs ==
  ASSUME RepairInv, NEW p \in Ops
  PROVE  /\ Repairs!ReplaceFile(p) => file = op[p].fingerprint
         /\ Repairs!RollbackFile(p) /\ ~mixed =>
              \A d \in Repairs!Dates \ {op[p].date} : file'[d] = file[d]
<1>1. Repairs!ReplaceFile(p) => file = op[p].fingerprint
  BY HolderIs DEF Repairs!ReplaceFile, HistoryHeld, Repairs!Locked
<1>2. ASSUME Repairs!RollbackFile(p), ~mixed, NEW d \in Repairs!Dates \ {op[p].date} PROVE file'[d] = file[d]
  <2>1. op[p].at = "rollback" /\ HistoryHeld(op[p], file, mixed)
    BY <1>2, HolderIs DEF Repairs!RollbackFile, Repairs!Locked
  <2>2. op[p] \in RepairLocal
    BY OpIsLocal
  <2>3. file' = IF op[p].replaced THEN op[p].original ELSE file
    BY <1>2, <2>2 DEF Repairs!RollbackFile, Repairs!PutsFileBack, RepairLocal
  <2> QED
    BY <1>2, <2>1, <2>2, <2>3 DEF HistoryHeld, RepairLocal, Repairs!Frames
<1> QED
  BY <1>1, <1>2

LEMMA RepairedThen == RepairInv => Repairs!TypeOK /\ Repairs!RepairsApplied /\ Repairs!ScoresFollowRepairs
<1> SUFFICES ASSUME RepairInv PROVE Repairs!TypeOK /\ Repairs!RepairsApplied /\ Repairs!ScoresFollowRepairs
  OBVIOUS
<1>1. saved \in Corrections /\ Corrections \subseteq Repairs!Registry /\ file \in Repairs!Frames
  BY DEF RepairInv, RepairTyped, Corrections, Repairs!Registry
<1>2. Repairs!NoRefresh \in [at : {"idle", "apply", "merge", "write"}, frame : Repairs!Frames]
  BY RepairsAssumption DEF Repairs!NoRefresh, Repairs!FirstBars, Repairs!Frames, Repairs!Bars
<1>3. Repairs!TypeOK
  BY <1>1, <1>2 DEF RepairInv, RepairTyped, RepairLocal, Repairs!TypeOK
<1>4. ASSUME NEW d \in Repairs!Dates, saved[d] # NoRepair PROVE Repairs!Corrected(file, saved)[d] = saved[d]
  BY <1>1, <1>4, RepairsAssumption DEF Repairs!Corrected, Corrections
<1> QED
  BY <1>3, <1>4 DEF RepairInv, Repairs!RepairsApplied, Repairs!FileHonoursRepairs, Repairs!ScoresFollowRepairs,
     Honours, Scored

\* Repairs by themselves, whatever fails in them: registry, history and scores agree while
\* nobody holds the lock (the history as long as each request read the one it replaced), a
\* request replaces exactly the history it verified, and a refused one changes no other bar.
THEOREM RepairsReplaceOnlyTheirsHolds == SpecOne => RepairsReplaceOnlyTheirs
<1> DEFINE IInv == focus = "repairs" => RepairInv
           Mine == \A p \in Ops : Repairs!ReplaceFile(p) => file = op[p].fingerprint
           Back == \A p \in Ops : Repairs!RollbackFile(p) /\ ~mixed =>
                     \A d \in Repairs!Dates \ {op[p].date} : file'[d] = file[d]
<1>1. StartOne => IInv
  BY RepairStart DEF StartOne
<1>2. IInv /\ [StepOne]_ruleVars => IInv'
  <2> SUFFICES ASSUME IInv, [StepOne]_ruleVars, focus' = "repairs" PROVE RepairInv'
    OBVIOUS
  <2>1. focus = "repairs" /\ [Repairs!Next]_repairVars
    BY DEF StepOne, ruleVars, repairVars
  <2> QED
    BY <2>1, RepairStep
<1>3. IInv => Repaired
  BY RepairedThen DEF Repaired
<1>4. IInv /\ [StepOne]_ruleVars => [Mine]_(Repairs!vars) /\ [Back]_(Repairs!vars)
  <2> SUFFICES ASSUME IInv, [StepOne]_ruleVars, Repairs!vars' # Repairs!vars PROVE Mine /\ Back
    OBVIOUS
  <2>1. focus = "repairs"
    BY DEF StepOne, ruleVars, repairVars, Repairs!vars, Repairs!rowVars, Repairs!opVars, Repairs!envVars
  <2> QED
    BY <2>1, OnlyTheirs
<1> QED
  BY <1>1, <1>2, <1>3, <1>4, PTL DEF SpecOne, RepairsReplaceOnlyTheirs, Repairs!ReplacesWhatItVerified, Repairs!RefusalHarmless

-----------------------------------------------------------------------------
(* The books of an account.  That cash and holdings balance is told of the *)
(* sums and of the loop over all transactions; adding one transaction adds *)
(* one amount to each sum and one step to the loop, and what the earlier   *)
(* steps computed stays as it was.                                         *)

\* A nonempty set of numbers has a least one (0..k is smallest for the least k), so that
\* what holds of 0 and is handed on holds of all: induction over data, stated of sets.
LEMMA LeastNumber == ASSUME NEW T, T \subseteq Nat, T # {} PROVE \E n \in T : \A m \in T : n <= m
<1>1. PICK b \in T : TRUE OBVIOUS
<1> DEFINE S == 0..b
           R == StrictSubsetOrdering(S)
           U == {0..k : k \in {j \in T : j <= b}}
<1>2. IsWellFoundedOn(R, SUBSET S)
  <2>1. IsFiniteSet(S) BY <1>1, FS_Interval
  <2> HIDE DEF S
  <2> QED BY <2>1, FS_StrictSubsetOrderingWellFounded, FS_FiniteSubsetsOfFinite
<1>3. U \subseteq SUBSET S /\ U # {}
  BY <1>1
<1>4. PICK x \in U : \A y \in U : <<y, x>> \notin R
  <2> HIDE DEF R, U, S
  <2> QED BY <1>2, <1>3, WFMin
<1>5. PICK n \in T : n <= b /\ x = 0..n
  BY DEF U
<1>6. \A m \in T : m <= b => n <= m
  <2> SUFFICES ASSUME NEW m \in T, m <= b, m < n PROVE FALSE BY <1>5
  <2>1. 0..m \in U OBVIOUS
  <2>2. 0..m \subseteq 0..n /\ n \in 0..n /\ n \notin 0..m BY <1>5
  <2>3. <<0..m, 0..n>> \in R BY <2>2, <1>5, <2>1, <1>3, <1>1 DEF StrictSubsetOrdering
  <2> QED BY <2>1, <2>3, <1>4, <1>5
<1> QED BY <1>5, <1>6, <1>1

LEMMA UpTo ==
  ASSUME NEW m \in Nat, NEW T, 0 \in T, \A n \in 0..(m - 1) : n \in T => n + 1 \in T
  PROVE  \A n \in 0..m : n \in T
<1> SUFFICES ASSUME (0..m) \ T # {} PROVE FALSE
  OBVIOUS
<1>1. PICK n \in (0..m) \ T : \A k \in (0..m) \ T : n <= k
  <2>1. (0..m) \ T \subseteq Nat
    OBVIOUS
  <2> QED
    BY <2>1, LeastNumber
<1>2. n # 0 /\ n - 1 \in 0..(m - 1) /\ (n - 1) + 1 = n
  BY <1>1
<1>3. n - 1 \in T
  BY <1>1, <1>2
<1> QED
  BY <1>1, <1>2, <1>3

\* A loop over n steps has one run, whatever the steps do.
LEMMA Recursion ==
  ASSUME NEW S, NEW b \in S, NEW m \in Nat, NEW g \in [1..m -> [S -> S]]
  PROVE  \E f \in [0..m -> S] : f[0] = b /\ \A n \in 1..m : f[n] = g[n][f[n - 1]]
<1> DEFINE Does(n, f) == f \in [0..n -> S] /\ f[0] = b /\ \A k \in 1..n : f[k] = g[k][f[k - 1]]
           T == {n \in 0..m : \E f : Does(n, f)}
<1>1. 0 \in T
  <2>1. Does(0, [k \in 0..0 |-> b])
    OBVIOUS
  <2> HIDE DEF Does
  <2> QED
    BY <2>1
<1>2. \A n \in 0..(m - 1) : n \in T => n + 1 \in T
  <2> SUFFICES ASSUME NEW n \in 0..(m - 1), NEW f, Does(n, f) PROVE n + 1 \in T
    OBVIOUS
  <2> DEFINE h == [k \in 0..(n + 1) |-> IF k = n + 1 THEN g[n + 1][f[n]] ELSE f[k]]
  <2>1. n + 1 \in 1..m /\ n \in 0..n /\ n + 1 \in 0..m
    OBVIOUS
  <2>2. h \in [0..(n + 1) -> S]
    BY <2>1
  <2>3. \A k \in 1..(n + 1) : h[k] = g[k][h[k - 1]]
    <3> TAKE k \in 1..(n + 1)
    <3>1. CASE k = n + 1
      <4>1. h[k] = g[n + 1][f[n]] /\ k - 1 = n /\ n \in 0..(n + 1) /\ n # n + 1
        BY <3>1
      <4>2. h[n] = f[n]
        BY <4>1
      <4> QED
        BY <4>1, <4>2, <3>1
    <3>2. CASE k # n + 1
      <4>1. k \in 1..n /\ k \in 0..(n + 1) /\ k - 1 \in 0..(n + 1) /\ k - 1 # n + 1
        BY <3>2
      <4>2. h[k] = f[k] /\ h[k - 1] = f[k - 1]
        BY <4>1, <3>2
      <4> QED
        BY <4>1, <4>2
    <3> QED
      BY <3>1, <3>2
  <2>4. h[0] = b
    OBVIOUS
  <2>5. Does(n + 1, h)
    BY <2>2, <2>3, <2>4
  <2> HIDE DEF Does, h
  <2> QED
    BY <2>1, <2>5
<1>3. \A n \in 0..m : n \in T
  <2> HIDE DEF T
  <2> QED
    BY <1>1, <1>2, UpTo
<1>4. m \in T
  BY <1>3
<1> QED
  BY <1>4

\* The functions that AccountLedger defines by recursion are such runs.
LEMMA SumLoop ==
  ASSUME NEW q \in Seq(Int), NEW m \in Nat, m = Len(q)
  PROVE  \E u \in [0..m -> Int] : Books!Sum(q) = u[m] /\ u[0] = 0 /\ \A n \in 1..m : u[n] = u[n - 1] + q[n]
<1> DEFINE g == [n \in 1..m |-> [v \in Int |-> v + q[n]]]
           Upto(f) == [n \in 0..m |-> IF n = 0 THEN 0 ELSE f[n - 1] + q[n]]
           u == CHOOSE f : f = Upto(f)
           T == {n \in 0..m : u[n] \in Int}
<1>1. \A n \in 1..m : q[n] \in Int /\ n - 1 \in 0..m
  OBVIOUS
<1>2. \E f \in [0..m -> Int] : f[0] = 0 /\ \A n \in 1..m : f[n] = g[n][f[n - 1]]
  <2>1. PICK S, z, h : S = Int /\ z = 0 /\ h = g
    OBVIOUS
  <2>2. h \in [1..m -> [S -> S]]
    BY <1>1, <2>1
  <2>3. z \in S
    BY <2>1
  <2> HIDE DEF g
  <2>4. \E f \in [0..m -> S] : f[0] = z /\ \A n \in 1..m : f[n] = h[n][f[n - 1]]
    BY ONLY <2>2, <2>3, Recursion, m \in Nat, SMTT(30)
  <2> QED
    BY <2>1, <2>4
<1>3. PICK f \in [0..m -> Int] : f[0] = 0 /\ \A n \in 1..m : f[n] = f[n - 1] + q[n]
  <2>1. PICK f \in [0..m -> Int] : f[0] = 0 /\ \A n \in 1..m : f[n] = g[n][f[n - 1]]
    BY <1>2
  <2>2. \A n \in 1..m : g[n][f[n - 1]] = f[n - 1] + q[n]
    BY <1>1
  <2> HIDE DEF g
  <2> QED
    BY <2>1, <2>2
<1>4. f = Upto(f)
  BY <1>1, <1>3
<1>5. u = Upto(u)
  <2> HIDE DEF Upto
  <2> QED
    BY <1>4
<1>6. Books!Sum(q) = u[m]
  BY Zenon DEF Books!Sum
<1> HIDE DEF u
<1>7. u[0] = 0 /\ \A n \in 1..m : u[n] = u[n - 1] + q[n]
  <2>1. \A n \in 0..m : u[n] = Upto(u)[n]
    BY <1>5
  <2>2. Upto(u)[0] = 0 /\ \A n \in 1..m : Upto(u)[n] = u[n - 1] + q[n]
    BY <1>1
  <2>3. 0 \in 0..m /\ \A n \in 1..m : n \in 0..m
    OBVIOUS
  <2> HIDE DEF Upto
  <2> QED
    BY <2>1, <2>2, <2>3
<1>8. \A n \in 0..m : n \in T
  <2>1. 0 \in T
    BY <1>7
  <2>2. \A n \in 0..(m - 1) : n \in T => n + 1 \in T
    <3> SUFFICES ASSUME NEW n \in 0..(m - 1), u[n] \in Int PROVE n + 1 \in 0..m /\ u[n + 1] \in Int
      OBVIOUS
    <3>1. n + 1 \in 1..m /\ (n + 1) - 1 = n
      OBVIOUS
    <3> QED
      BY <1>1, <1>7, <3>1
  <2> HIDE DEF T
  <2> QED
    BY <2>1, <2>2, UpTo
<1>9. u \in [0..m -> Int]
  <2>1. \A n \in 0..m : u[n] \in Int
    BY <1>8
  <2> QED
    BY <1>5, <2>1
<1> QED
  BY <1>6, <1>7, <1>9

LEMMA SumAppend ==
  ASSUME NEW q \in Seq(Int), NEW x \in Int
  PROVE  Books!Sum(q) \in Int /\ Books!Sum(Append(q, x)) = Books!Sum(q) + x
<1>1. PICK m \in Nat : m = Len(q)
  OBVIOUS
<1>2. PICK p \in Seq(Int) : p = Append(q, x)
  <2>1. Append(q, x) \in Seq(Int)
    OBVIOUS
  <2> QED
    BY <2>1
<1>3. Len(p) = m + 1 /\ p[m + 1] = x /\ \A n \in 1..m : p[n] = q[n]
  BY <1>1, <1>2
<1>4. PICK u \in [0..m -> Int] : Books!Sum(q) = u[m] /\ u[0] = 0 /\ \A n \in 1..m : u[n] = u[n - 1] + q[n]
  BY <1>1, SumLoop
<1>5. PICK v \in [0..(m + 1) -> Int] :
        Books!Sum(p) = v[m + 1] /\ v[0] = 0 /\ \A n \in 1..(m + 1) : v[n] = v[n - 1] + p[n]
  BY <1>3, SumLoop, m + 1 \in Nat
<1> DEFINE T == {n \in 0..m : v[n] = u[n]}
<1>6. \A n \in 0..(m - 1) : n \in T => n + 1 \in T
  <2> SUFFICES ASSUME NEW n \in 0..(m - 1), v[n] = u[n] PROVE n + 1 \in T
    OBVIOUS
  <2>1. n + 1 \in 1..m /\ n + 1 \in 1..(m + 1) /\ (n + 1) - 1 = n
    OBVIOUS
  <2> QED
    BY <1>3, <1>4, <1>5, <2>1
<1>7. v[m] = u[m]
  <2>1. 0 \in T
    BY <1>4, <1>5
  <2> HIDE DEF T
  <2>2. \A n \in 0..m : n \in T
    BY <1>6, <2>1, UpTo
  <2>3. m \in 0..m
    OBVIOUS
  <2> QED
    BY <2>2, <2>3 DEF T
<1>8. v[m + 1] = v[m] + x
  <2>1. m + 1 \in 1..(m + 1) /\ (m + 1) - 1 = m
    OBVIOUS
  <2> QED
    BY <1>3, <1>5, <2>1
<1> QED
  BY <1>2, <1>4, <1>5, <1>7, <1>8

HoldingSet == [shares : Nat, cost : Int, realized : Int, parts : Nat \ {0}]

LEMMA RowType ==
  ASSUME NEW r \in Books!Transactions
  PROVE  /\ r.qty \in Nat \ {0} /\ r.price \in Int /\ r.fee \in Int /\ Books!Gross(r) \in Int
         /\ r.cash \in BOOLEAN /\ r.type \in Books!TradeTypes \union Books!EarningTypes \union Books!ContributionTypes
         /\ r.type \in Books!TradeTypes => r.price \in Nat
<1>1. \/ r.type \in Books!TradeTypes /\ r.qty \in Quantities /\ r.price \in Prices
      \/ r.type \in Books!EarningTypes /\ r.qty \in {1} /\ r.price \in Earnings
      \/ r.type \in Books!ContributionTypes /\ r.qty \in {1} /\ r.price \in Movements
  BY DEF Books!Transactions, Books!Rows
<1>2. r.fee \in Fees /\ r.cash \in BOOLEAN
  BY DEF Books!Transactions, Books!Rows
<1>3. r.type \in Books!TradeTypes \union Books!EarningTypes \union Books!ContributionTypes
  BY <1>1
<1>4. r.qty \in Nat \ {0} /\ r.price \in Int /\ r.fee \in Int
  <2>1. r.qty \in Quantities \union {1} /\ r.price \in Prices \union Earnings \union Movements
    BY <1>1
  <2>2. r.qty \in Nat \ {0} /\ r.price \in Int
    <3>1. Quantities \union {1} \subseteq Nat \ {0}
      BY LedgerAssumption
    <3>2. Prices \union Earnings \union Movements \subseteq Int
      BY LedgerAssumption
    <3> QED
      BY <2>1, <3>1, <3>2
  <2> QED
    BY <1>2, <2>2, LedgerAssumption
<1>5. r.type \in Books!TradeTypes => r.price \in Nat
  BY <1>1, LedgerAssumption DEF Books!TradeTypes, Books!EarningTypes, Books!ContributionTypes
<1>6. Books!Gross(r) \in Int
  BY <1>4 DEF Books!Gross
<1> QED
  BY <1>2, <1>3, <1>4, <1>5, <1>6

LEMMA TradeIs ==
  ASSUME NEW h \in HoldingSet, NEW r \in Books!Transactions
  PROVE  /\ Books!Sold(h, r) \in Nat /\ Books!Sold(h, r) <= h.shares /\ Books!Sold(h, r) <= r.qty
         /\ Books!Trade(h, r) \in HoldingSet
<1>1. h.shares \in Nat /\ h.cost \in Int /\ h.realized \in Int /\ h.parts \in Nat \ {0}
  BY DEF HoldingSet
<1>2. r.qty \in Nat \ {0} /\ r.price \in Int /\ Books!Gross(r) \in Int
  BY RowType
<1>3. Books!Sold(h, r) \in Nat /\ Books!Sold(h, r) <= h.shares /\ Books!Sold(h, r) <= r.qty
  BY <1>1, <1>2 DEF Books!Sold
<1>4. Books!Buy(h, r) \in HoldingSet
  <2>1. h.shares + r.qty \in Nat
    BY <1>1, <1>2
  <2>2. h.cost + Books!Gross(r) * h.parts \in Int
    BY <1>1, <1>2
  <2> QED
    BY <1>1, <2>1, <2>2 DEF Books!Buy, HoldingSet
<1>5. h.shares # 0 => Books!Sell(h, r) \in HoldingSet
  <2> SUFFICES ASSUME h.shares # 0 PROVE Books!Sell(h, r) \in HoldingSet
    OBVIOUS
  <2> PICK n \in Nat : n = Books!Sold(h, r) /\ n <= h.shares
    BY <1>3
  <2>1. h.shares - n \in Nat
    BY <1>1
  <2>2. h.cost * h.shares - n * h.cost \in Int /\ h.parts * h.shares \in Nat \ {0}
    BY <1>1
  <2>3. h.realized * h.shares + n * (r.price * h.parts * h.shares - h.cost) \in Int
    BY <1>1, <1>2
  <2> QED
    BY <2>1, <2>2, <2>3 DEF Books!Sell, Books!AtCost, HoldingSet
<1>6. h.shares = 0 => Books!Sell(h, r) = h
  BY DEF Books!Sell
<1> QED
  BY <1>3, <1>4, <1>5, <1>6 DEF Books!Trade

LEMMA HoldingsLoop ==
  ASSUME NEW s \in Seq(Books!Transactions), NEW m \in Nat, m = Len(s)
  PROVE  /\ Books!Holdings(s) \in [0..m -> HoldingSet] /\ Books!Holdings(s)[0] = Books!Nothing
         /\ \A n \in 1..m : Books!Holdings(s)[n] = Books!Trade(Books!Holdings(s)[n - 1], s[n])
<1> DEFINE g == [n \in 1..m |-> [h \in HoldingSet |-> Books!Trade(h, s[n])]]
           After(f) == [n \in 0..m |-> IF n = 0 THEN Books!Nothing ELSE Books!Trade(f[n - 1], s[n])]
           u == Books!Holdings(s)
           T == {n \in 0..m : u[n] \in HoldingSet}
<1>1. \A n \in 1..m : s[n] \in Books!Transactions /\ n - 1 \in 0..m
  OBVIOUS
<1>2. Books!Nothing \in HoldingSet
  BY DEF Books!Nothing, HoldingSet
<1>3. PICK f \in [0..m -> HoldingSet] : f[0] = Books!Nothing /\ \A n \in 1..m : f[n] = Books!Trade(f[n - 1], s[n])
  <2>1. PICK S, z, h : S = HoldingSet /\ z = Books!Nothing /\ h = g
    OBVIOUS
  <2>2. h \in [1..m -> [S -> S]]
    BY <1>1, <2>1, TradeIs
  <2>3. z \in S
    BY <1>2, <2>1
  <2>4. \A n \in 1..m, v \in S : h[n][v] = Books!Trade(v, s[n])
    BY <2>1
  <2> HIDE DEF g
  <2>5. PICK f \in [0..m -> S] : f[0] = z /\ \A n \in 1..m : f[n] = h[n][f[n - 1]]
    BY ONLY <2>2, <2>3, Recursion, m \in Nat
  <2>6. \A n \in 1..m : f[n - 1] \in S
    BY <1>1, <2>5
  <2> QED
    BY <2>1, <2>4, <2>5, <2>6
<1>4. f = After(f)
  BY <1>1, <1>3
<1>5. u = After(u)
  <2>1. u = CHOOSE f2 : f2 = After(f2)
    BY Zenon DEF Books!Holdings
  <2> HIDE DEF After, u
  <2> QED
    BY <1>4, <2>1
<1> HIDE DEF u
<1>6. u[0] = Books!Nothing /\ \A n \in 1..m : u[n] = Books!Trade(u[n - 1], s[n])
  <2>1. \A n \in 0..m : u[n] = After(u)[n]
    BY <1>5
  <2>2. After(u)[0] = Books!Nothing /\ \A n \in 1..m : After(u)[n] = Books!Trade(u[n - 1], s[n])
    BY <1>1
  <2>3. 0 \in 0..m /\ \A n \in 1..m : n \in 0..m
    OBVIOUS
  <2> HIDE DEF After
  <2> QED
    BY <2>1, <2>2, <2>3
<1>7. \A n \in 0..m : n \in T
  <2>1. 0 \in T
    BY <1>2, <1>6
  <2>2. \A n \in 0..(m - 1) : n \in T => n + 1 \in T
    <3> SUFFICES ASSUME NEW n \in 0..(m - 1), u[n] \in HoldingSet PROVE n + 1 \in 0..m /\ u[n + 1] \in HoldingSet
      OBVIOUS
    <3>1. n + 1 \in 1..m /\ (n + 1) - 1 = n
      OBVIOUS
    <3>2. PICK h \in HoldingSet, r \in Books!Transactions : h = u[n] /\ r = s[n + 1]
      BY <1>1, <3>1
    <3>3. u[n + 1] = Books!Trade(h, r)
      BY <1>6, <3>1, <3>2
    <3>4. Books!Trade(h, r) \in HoldingSet
      BY TradeIs
    <3> QED
      BY <3>1, <3>3, <3>4
  <2> HIDE DEF T
  <2> QED
    BY <2>1, <2>2, UpTo
<1>8. u \in [0..m -> HoldingSet]
  <2>1. \A n \in 0..m : u[n] \in HoldingSet
    BY <1>7
  <2> QED
    BY <1>5, <2>1
<1> QED
  BY <1>6, <1>8 DEF u

\* What is computed after the first rows does not depend on those that follow.
LEMMA HoldingsAppend ==
  ASSUME NEW s \in Seq(Books!Transactions), NEW r \in Books!Transactions, NEW m \in Nat, m = Len(s)
  PROVE  /\ \A n \in 0..m : Books!Holdings(Append(s, r))[n] = Books!Holdings(s)[n]
         /\ Books!Holding(s) \in HoldingSet /\ Books!Holding(Append(s, r)) = Books!Trade(Books!Holding(s), r)
<1>1. PICK p \in Seq(Books!Transactions) : p = Append(s, r)
  <2>1. Append(s, r) \in Seq(Books!Transactions)
    OBVIOUS
  <2> QED
    BY <2>1
<1>2. Len(p) = m + 1 /\ p[m + 1] = r /\ \A n \in 1..m : p[n] = s[n]
  BY <1>1
<1>3. PICK u \in [0..m -> HoldingSet] : u = Books!Holdings(s) /\ u[0] = Books!Nothing /\ \A n \in 1..m : u[n]
        = Books!Trade(u[n - 1], s[n])
  BY HoldingsLoop
<1>4. PICK v \in [0..(m + 1) -> HoldingSet] :
        v = Books!Holdings(p) /\ v[0] = Books!Nothing /\ \A n \in 1..(m + 1) : v[n] = Books!Trade(v[n - 1], p[n])
  BY <1>2, HoldingsLoop, m + 1 \in Nat
<1> DEFINE T == {n \in 0..m : v[n] = u[n]}
<1>5. \A n \in 0..m : n \in T
  <2>1. 0 \in T
    BY <1>3, <1>4
  <2>2. \A n \in 0..(m - 1) : n \in T => n + 1 \in T
    <3> SUFFICES ASSUME NEW n \in 0..(m - 1), v[n] = u[n] PROVE n + 1 \in T
      OBVIOUS
    <3>1. n + 1 \in 1..m /\ n + 1 \in 1..(m + 1) /\ (n + 1) - 1 = n
      OBVIOUS
    <3> QED
      BY <1>2, <1>3, <1>4, <3>1
  <2> HIDE DEF T
  <2> QED
    BY <2>1, <2>2, UpTo
<1>6. v[m] = u[m] /\ u[m] \in HoldingSet
  BY <1>3, <1>5
<1>7. v[m + 1] = Books!Trade(v[m], r)
  <2>1. m + 1 \in 1..(m + 1) /\ (m + 1) - 1 = m
    OBVIOUS
  <2> QED
    BY <1>2, <1>4, <2>1
<1>8. Books!Holding(s) = u[m] /\ Books!Holding(p) = v[m + 1]
  BY <1>2, <1>3, <1>4 DEF Books!Holding
<1> QED
  BY <1>1, <1>3, <1>4, <1>5, <1>6, <1>7, <1>8

-----------------------------------------------------------------------------
\* One more transaction adds its amount to a sum over all.
LEMMA SumStep ==
  ASSUME NEW m \in Nat, NEW q \in [1..m -> Int], NEW k \in [1..(m + 1) -> Int], \A i \in 1..m : k[i] = q[i]
  PROVE  Books!Sum(q) \in Int /\ Books!Sum(k) = Books!Sum(q) + k[m + 1]
<1>1. q \in Seq(Int) /\ Len(q) = m
  BY IsASeq
<1>2. PICK x \in Int : x = k[m + 1]
  OBVIOUS
<1>3. k = Append(q, x)
  <2>1. Append(q, x) \in Seq(Int) /\ Len(Append(q, x)) = m + 1
    BY <1>1, AppendProperties
  <2>0. Append(q, x) \in [1..(m + 1) -> Int]
    BY <2>1, LenProperties
  <2>2. \A i \in 1..(m + 1) : k[i] = Append(q, x)[i]
    BY <1>1, <1>2
  <2> QED
    BY <2>0, <2>2
<1> QED
  BY <1>1, <1>2, <1>3, SumAppend

LEMMA Cases ==
  ASSUME NEW r \in Books!Transactions
  PROVE  /\ Books!Cash(r) \in Int /\ Books!Contribution(r) \in Int /\ Books!Earned(r) \in Int
              /\ Books!FeePaid(r) \in Int /\ Books!NotInCash(r) \in Int
         /\ r.type = "Buy" => Books!Contribution(r) + Books!Earned(r) - Books!FeePaid(r) + Books!NotInCash(r)
              - Books!Cash(r) = Books!Gross(r)
         /\ r.type = "Sell" => Books!Contribution(r) + Books!Earned(r) - Books!FeePaid(r) + Books!NotInCash(r)
              - Books!Cash(r) = -Books!Gross(r)
         /\ r.type \notin Books!TradeTypes => Books!Contribution(r) + Books!Earned(r) - Books!FeePaid(r)
              + Books!NotInCash(r) - Books!Cash(r) = 0
<1>1. PICK g \in Int, f \in Int : g = Books!Gross(r) /\ f = r.fee /\ r.cash \in BOOLEAN
        /\ r.type \in Books!TradeTypes \union Books!EarningTypes \union Books!ContributionTypes
  BY RowType
<1>2. Books!CashDelta(r) = IF r.type \in {"Buy", "Fee"} THEN -(g + f) ELSE g - f
  BY <1>1 DEF Books!CashDelta
<1> USE DEF Books!Cash, Books!Contribution, Books!Earned, Books!FeePaid, Books!NotInCash, Books!TradeTypes,
      Books!EarningTypes, Books!ContributionTypes
<1>3. CASE r.cash
  <2>1. Books!Cash(r) = Books!CashDelta(r) /\ Books!NotInCash(r) = 0
    BY <1>3
  <2>2. CASE r.type \in {"Buy", "Sell"}
    <3>1. Books!Contribution(r) = 0 /\ Books!Earned(r) = 0 /\ Books!FeePaid(r) = f
      BY <1>1, <1>3, <2>2
    <3> HIDE DEF Books!Cash, Books!Contribution, Books!Earned, Books!FeePaid, Books!NotInCash
    <3>2. Books!CashDelta(r) = IF r.type = "Buy" THEN -(g + f) ELSE g - f
      BY <1>2, <2>2
    <3> QED
      BY <1>1, <2>1, <2>2, <3>1, <3>2
  <2>3. CASE r.type \in Books!EarningTypes
    <3>1. Books!Contribution(r) = 0 /\ Books!Earned(r) = (IF r.type = "Fee" THEN -g ELSE g) /\ Books!FeePaid(r) = f
      BY <1>1, <1>3, <2>3
    <3> HIDE DEF Books!Cash, Books!Contribution, Books!Earned, Books!FeePaid, Books!NotInCash
    <3>2. Books!CashDelta(r) = IF r.type = "Fee" THEN -(g + f) ELSE g - f
      BY <1>2, <2>3
    <3>3. r.type \notin {"Buy", "Sell"}
      BY <2>3
    <3> PICK c, e : c = Books!Cash(r) /\ e = Books!Earned(r) /\ c \in Int /\ e \in Int /\ e - f - c = 0
      BY <1>1, <2>1, <3>1, <3>2
    <3>4. Books!Contribution(r) + Books!Earned(r) - Books!FeePaid(r) + Books!NotInCash(r) - Books!Cash(r) = 0
      BY <2>1, <3>1, f \in Int
    <3>5. Books!Contribution(r) \in Int /\ Books!FeePaid(r) \in Int /\ Books!NotInCash(r) \in Int
      BY <2>1, <3>1, f \in Int
    <3> QED
      BY <3>3, <3>4, <3>5
  <2>4. CASE r.type \in Books!ContributionTypes
    <3>1. Books!Contribution(r) = Books!CashDelta(r) /\ Books!Earned(r) = 0 /\ Books!FeePaid(r) = 0
      BY <1>1, <1>3, <2>4
    <3> QED
      BY <1>1, <1>2, <2>1, <2>4, <3>1
  <2> QED
    BY <1>1, <2>2, <2>3, <2>4
<1>4. CASE ~r.cash
  <2>1. Books!Cash(r) = 0 /\ Books!Contribution(r) = 0 /\ Books!Earned(r) = 0 /\ Books!FeePaid(r) = 0
    BY <1>4
  <2>2. Books!NotInCash(r) = IF r.type \notin {"Buy", "Sell"} THEN 0 ELSE IF r.type = "Buy" THEN g ELSE -g
    BY <1>1, <1>4
  <2> QED
    BY <1>1, <2>1, <2>2
<1> QED
  BY <1>3, <1>4

\* What the money put in and earned leaves unexplained is what the holding cost and realized.
Gap(s) == Books!Explained(s) - Books!CashBalance(s)

LEMMA GapAppend ==
  ASSUME NEW s \in Seq(Books!Transactions), NEW r \in Books!Transactions
  PROVE  /\ Books!CashBalance(s) \in Int /\ Books!Explained(s) \in Int
         /\ Books!CashBalance(Append(s, r)) \in Int /\ Books!Explained(Append(s, r)) \in Int
         /\ Gap(Append(s, r)) = Gap(s) + (Books!Contribution(r) + Books!Earned(r) - Books!FeePaid(r)
              + Books!NotInCash(r) - Books!Cash(r))
                                      + Books!Excess(Books!Holding(s), r)
<1>1. PICK m \in Nat : m = Len(s)
  OBVIOUS
<1>2. PICK p \in Seq(Books!Transactions) : p = Append(s, r)
  <2>1. Append(s, r) \in Seq(Books!Transactions)
    OBVIOUS
  <2> QED
    BY <2>1
<1>3. DOMAIN s = 1..m /\ DOMAIN p = 1..(m + 1) /\ p[m + 1] = r /\ \A n \in 1..m : p[n] = s[n]
  BY <1>1, <1>2
<1>4. (\A i \in 1..m : s[i] \in Books!Transactions) /\ (\A i \in 1..(m + 1) : p[i] \in Books!Transactions)
  BY <1>1, <1>2, <1>3
<1>5. Books!CashBalance(s) \in Int /\ Books!CashBalance(p) = Books!CashBalance(s) + Books!Cash(r)
  <2> DEFINE q == [i \in 1..m |-> Books!Cash(s[i])]
             k == [i \in 1..(m + 1) |-> Books!Cash(p[i])]
  <2>1. k[m + 1] = Books!Cash(r) /\ \A i \in 1..m : k[i] = q[i]
    BY <1>3
  <2>3. (\A i \in 1..m : Books!Cash(s[i]) \in Int) /\ \A i \in 1..(m + 1) : Books!Cash(p[i]) \in Int
    BY <1>4, Cases
  <2>4. q \in [1..m -> Int] /\ k \in [1..(m + 1) -> Int]
    BY <2>3
  <2>2. Books!CashBalance(s) = Books!Sum(q) /\ Books!CashBalance(p) = Books!Sum(k)
    BY <1>3 DEF Books!CashBalance
  <2> HIDE DEF q, k
  <2> QED
    BY <2>1, <2>2, <2>4, SumStep
<1>6. Books!NetContributions(s) \in Int /\ Books!NetContributions(p) = Books!NetContributions(s) + Books!Contribution(r)
  <2> DEFINE q == [i \in 1..m |-> Books!Contribution(s[i])]
             k == [i \in 1..(m + 1) |-> Books!Contribution(p[i])]
  <2>1. k[m + 1] = Books!Contribution(r) /\ \A i \in 1..m : k[i] = q[i]
    BY <1>3
  <2>3. (\A i \in 1..m : Books!Contribution(s[i]) \in Int) /\ \A i \in 1..(m + 1) : Books!Contribution(p[i]) \in Int
    BY <1>4, Cases
  <2>4. q \in [1..m -> Int] /\ k \in [1..(m + 1) -> Int]
    BY <2>3
  <2>2. Books!NetContributions(s) = Books!Sum(q) /\ Books!NetContributions(p) = Books!Sum(k)
    BY <1>3 DEF Books!NetContributions
  <2> HIDE DEF q, k
  <2> QED
    BY <2>1, <2>2, <2>4, SumStep
<1>7. /\ \A n \in 0..m : Books!Holdings(p)[n] = Books!Holdings(s)[n]
      /\ \A n \in 0..m : Books!Holdings(s)[n] \in HoldingSet
      /\ Books!Holding(s) = Books!Holdings(s)[m]
  <2>1. \A n \in 0..m : Books!Holdings(p)[n] = Books!Holdings(s)[n]
    BY <1>1, <1>2, HoldingsAppend
  <2>2. \A n \in 0..m : Books!Holdings(s)[n] \in HoldingSet
    BY <1>1, HoldingsLoop
  <2> QED
    BY <1>1, <2>1, <2>2 DEF Books!Holding
<1> DEFINE Extra(h, t) == Books!Earned(t) - Books!FeePaid(t) + Books!NotInCash(t) + Books!Excess(h, t)
<1>8. \A h \in HoldingSet, t \in Books!Transactions : Extra(h, t) \in Int /\ Books!Excess(h, t) \in Int
  <2> TAKE h \in HoldingSet, t \in Books!Transactions
  <2>1. Books!Excess(h, t) \in Int
    <3>1. Books!Sold(h, t) \in Nat /\ t.qty \in Int /\ t.price \in Int
      BY RowType, TradeIs, SMTT(30)
    <3> QED
      BY <3>1 DEF Books!Excess
  <2> QED
    BY <2>1, Cases
<1>9. Books!Explained(s) \in Int /\ Books!Explained(p) = Books!Explained(s) + Books!Contribution(r)
        + Extra(Books!Holding(s), r)
  <2> DEFINE q == [i \in 1..m |-> Extra(Books!Holdings(s)[i - 1], s[i])]
             k == [i \in 1..(m + 1) |-> Extra(Books!Holdings(p)[i - 1], p[i])]
  <2>1. (\A i \in 1..(m + 1) : i - 1 \in 0..m) /\ (\A i \in 1..m : i - 1 \in 0..m /\ i \in 1..(m + 1)) /\ (m + 1) - 1
          = m
    OBVIOUS
  <2> HIDE DEF Extra
  <2>2. q \in [1..m -> Int]
    BY <1>4, <1>7, <1>8, <2>1
  <2>3. k \in [1..(m + 1) -> Int]
    BY <1>4, <1>7, <1>8, <2>1
  <2>4. k[m + 1] = Extra(Books!Holding(s), r) /\ \A i \in 1..m : k[i] = q[i]
    BY <1>3, <1>7, <2>1
  <2>5. Books!Explained(s) = Books!NetContributions(s) + Books!Sum(q) /\ Books!Explained(p) = Books!NetContributions(p)
          + Books!Sum(k)
    BY <1>3 DEF Books!Explained, Extra
  <2>6. Books!Contribution(r) \in Int /\ Extra(Books!Holding(s), r) \in Int
    <3>1. Books!Holding(s) \in HoldingSet
      BY <1>1, HoldingsAppend
    <3> QED
      BY <1>8, <3>1, Cases
  <2>7. Books!Sum(q) \in Int /\ Books!Sum(k) = Books!Sum(q) + k[m + 1]
    <3> HIDE DEF q, k
    <3> QED
      BY <2>2, <2>3, <2>4, SumStep
  <2> HIDE DEF q, k
  <2> QED
    BY <1>6, <2>4, <2>5, <2>6, <2>7
<1>10. Books!Holding(s) \in HoldingSet
  BY <1>1, HoldingsAppend
<1>11. Books!Excess(Books!Holding(s), r) \in Int /\ Books!Cash(r) \in Int /\ Books!Contribution(r) \in Int
         /\ Books!Earned(r) \in Int /\ Books!FeePaid(r) \in Int /\ Books!NotInCash(r) \in Int
  BY <1>8, <1>10, Cases
<1> QED
  BY <1>2, <1>5, <1>9, <1>11, SMTT(30) DEF Gap

-----------------------------------------------------------------------------
\* Books!BooksBalance of any transactions.
Balanced(s) ==
  /\ Books!CashBalance(s) \in Int /\ Books!Explained(s) \in Int
  /\ LET h == Books!Holding(s) IN h.cost - h.realized = Gap(s) * h.parts
Priced(s) ==
  LET h == Books!Holding(s)
  IN IF h.shares = 0 THEN h.cost = 0
     ELSE /\ \E p \in Books!Paid(s) : p * h.shares * h.parts <= h.cost
          /\ \E p \in Books!Paid(s) : h.cost <= p * h.shares * h.parts

\* What one purchase and one sale at average cost do to the books, and to the average.
LEMMA Scaled ==
  ASSUME NEW x \in Int, NEW y \in Int, NEW n \in Nat, x <= y
  PROVE  x * n <= y * n
<1>1. (y - x) * n >= 0
  OBVIOUS
<1>2. (y - x) * n = y * n - x * n
  OBVIOUS
<1>3. x * n \in Int /\ y * n \in Int
  OBVIOUS
<1> QED
  BY <1>1, <1>2, <1>3

LEMMA BoughtAt ==
  ASSUME NEW p \in Int, NEW g \in Int, NEW c \in Int, NEW a \in Nat, NEW q \in Nat, NEW k \in Nat
  PROVE  /\ p * a * k <= c /\ p <= g => p * (a + q) * k <= c + (q * g) * k
         /\ c <= p * a * k /\ g <= p => c + (q * g) * k <= p * (a + q) * k
<1>1. PICK u \in Int, v \in Int, w \in Int : u = p * a * k /\ v = p * (q * k) /\ w = g * (q * k)
  OBVIOUS
<1>2. p * (a + q) * k = p * a * k + p * (q * k)
  OBVIOUS
<1>3. (q * g) * k = g * (q * k) /\ q * k \in Nat
  OBVIOUS
<1>4. (p <= g => v <= w) /\ (g <= p => w <= v)
  BY <1>1, <1>3, Scaled
<1> QED
  BY <1>1, <1>2, <1>3, <1>4

LEMMA SoldAt ==
  ASSUME NEW p \in Int, NEW c \in Int, NEW a \in Nat, NEW k \in Nat, NEW n \in Nat, n <= a
  PROVE  /\ p * a * k <= c => p * (a - n) * (k * a) <= c * a - n * c
         /\ c <= p * a * k => c * a - n * c <= p * (a - n) * (k * a)
<1>1. PICK u \in Int, m \in Nat : u = p * a * k /\ m = a - n
  OBVIOUS
<1>2. c * a - n * c = c * m
  BY <1>1
<1>3. p * m * (k * a) = (p * a * k) * m
  BY <1>1
<1>4. (u <= c => u * m <= c * m) /\ (c <= u => c * m <= u * m)
  BY <1>1, Scaled
<1> QED
  BY <1>1, <1>2, <1>3, <1>4
LEMMA BuyBalances ==
  ASSUME NEW c \in Int, NEW z \in Int, NEW w \in Int, NEW k \in Int, NEW g \in Int, c - z = w * k
  PROVE  (c + g * k) - z = (w + g) * k
<1>1. (w + g) * k = w * k + g * k
  OBVIOUS
<1> QED
  BY <1>1

LEMMA SaleBalances ==
  ASSUME NEW c \in Int, NEW z \in Int, NEW w \in Int, NEW k \in Int, NEW n \in Int, NEW p \in Int, NEW sh \in Int,
         c - z = w * k
  PROVE  (c * sh - n * c) - (z * sh + n * (p * k * sh - c)) = (w - n * p) * (k * sh)
<1>1. (c * sh - n * c) - (z * sh + n * (p * k * sh - c)) = (c - z) * sh - n * (p * k * sh)
  OBVIOUS
<1>2. (c - z) * sh = (w * k) * sh
  OBVIOUS
<1>3. (w * k) * sh - n * (p * k * sh) = (w - n * p) * (k * sh)
  OBVIOUS
<1> QED
  BY <1>1, <1>2, <1>3

LEMMA BalanceStep ==
  ASSUME NEW s \in Seq(Books!Transactions), NEW r \in Books!Transactions, Balanced(s)
  PROVE  Balanced(Append(s, r))
<1>1. PICK h \in HoldingSet : h = Books!Holding(s)
  <2>1. Len(s) \in Nat
    OBVIOUS
  <2> QED
    BY <2>1, HoldingsAppend
<1>2. PICK t \in Seq(Books!Transactions) : t = Append(s, r)
  <2>1. Append(s, r) \in Seq(Books!Transactions)
    OBVIOUS
  <2> QED
    BY <2>1
<1>3. Books!Holding(t) = Books!Trade(h, r) /\ Books!Trade(h, r) \in HoldingSet
  <2>1. Len(s) \in Nat
    OBVIOUS
  <2> QED
    BY <1>1, <1>2, <2>1, HoldingsAppend, TradeIs
<1>4. PICK w \in Int : w = Gap(s)
  <2>1. Books!CashBalance(s) \in Int /\ Books!Explained(s) \in Int
    BY GapAppend
  <2> QED
    BY <2>1 DEF Gap
<1>5. PICK e \in Int : e = Books!Contribution(r) + Books!Earned(r) - Books!FeePaid(r) + Books!NotInCash(r)
        - Books!Cash(r)
  BY Cases
<1>6. PICK x \in Int, n \in Nat : x = Books!Excess(h, r) /\ n = Books!Sold(h, r) /\ n <= h.shares /\ n <= r.qty
  <2>1. Books!Sold(h, r) \in Nat /\ Books!Sold(h, r) <= h.shares /\ Books!Sold(h, r) <= r.qty
    BY TradeIs
  <2>2. Books!Excess(h, r) \in Int
    <3>1. r.qty \in Int /\ r.price \in Int
      BY RowType
    <3> QED
      BY <2>1, <3>1 DEF Books!Excess
  <2> QED
    BY <2>1, <2>2
<1>7. Gap(t) = w + e + x
  BY <1>1, <1>2, <1>4, <1>5, <1>6, GapAppend
<1>8. /\ h.shares \in Nat /\ h.cost \in Int /\ h.realized \in Int /\ h.parts \in Nat \ {0}
      /\ h.cost - h.realized = w * h.parts
  BY <1>1, <1>4 DEF Balanced, HoldingSet
<1>9. Books!Gross(r) \in Int /\ r.qty \in Nat \ {0} /\ r.price \in Int
  BY RowType
<1>10. CASE r.type = "Buy"
  <2>1. e = Books!Gross(r) /\ x = 0
    BY <1>5, <1>6, <1>10, Cases DEF Books!Excess
  <2>2. Books!Trade(h, r) = Books!Buy(h, r)
    BY <1>10 DEF Books!Trade
  <2>3. Books!Buy(h, r).cost = h.cost + Books!Gross(r) * h.parts /\ Books!Buy(h, r).realized = h.realized
          /\ Books!Buy(h, r).parts = h.parts
    BY <1>1 DEF Books!Buy, HoldingSet
  <2>4. (h.cost + Books!Gross(r) * h.parts) - h.realized = (w + Books!Gross(r)) * h.parts
    <3> PICK c \in Int : c = h.cost
      BY <1>8
    <3> PICK z \in Int : z = h.realized
      BY <1>8
    <3> PICK k \in Int : k = h.parts
      BY <1>8
    <3> PICK g \in Int : g = Books!Gross(r)
      BY <1>9
    <3>1. c - z = w * k
      BY <1>8
    <3>2. (c + g * k) - z = (w + g) * k
      BY ONLY <3>1, BuyBalances, c \in Int, z \in Int, w \in Int, k \in Int, g \in Int
    <3> QED
      BY <3>2
  <2> QED
    BY <1>2, <1>3, <1>7, <2>1, <2>2, <2>3, <2>4, GapAppend DEF Balanced
<1>11. CASE r.type = "Sell"
  <2>1. e = -Books!Gross(r) /\ x = (r.qty - n) * r.price
    BY <1>5, <1>6, <1>11, Cases DEF Books!Excess
  <2>2. w + e + x = w - n * r.price
    <3>1. (r.qty - n) * r.price = Books!Gross(r) - n * r.price
      BY <1>9 DEF Books!Gross
    <3> QED
      BY <1>9, <2>1, <3>1
  <2>3. Books!Trade(h, r) = Books!Sell(h, r)
    BY <1>11 DEF Books!Trade
  <2>4. CASE h.shares = 0
    <3>1. Books!Sell(h, r) = h
      BY <2>4 DEF Books!Sell
    <3>2. n = 0
      BY <1>6, <2>4
    <3>3. w - n * r.price = w
      BY <1>9, <3>2
    <3> QED
      BY <1>2, <1>3, <1>7, <1>8, <2>2, <2>3, <3>1, <3>3, GapAppend DEF Balanced
  <2>5. CASE h.shares # 0
    <3>1. /\ Books!Sell(h, r).cost = h.cost * h.shares - n * h.cost /\ Books!Sell(h, r).parts = h.parts * h.shares
          /\ Books!Sell(h, r).realized = h.realized * h.shares + n * (r.price * h.parts * h.shares - h.cost)
      BY <1>6, <2>5 DEF Books!Sell, Books!AtCost
    <3>2. (h.cost * h.shares - n * h.cost) - (h.realized * h.shares + n * (r.price * h.parts * h.shares - h.cost))
            = (w - n * r.price) * (h.parts * h.shares)
      <4> PICK c \in Int : c = h.cost
        BY <1>8
      <4> PICK z \in Int : z = h.realized
        BY <1>8
      <4> PICK k \in Int : k = h.parts
        BY <1>8
      <4> PICK a \in Int : a = h.shares
        BY <1>8
      <4> PICK p \in Int : p = r.price
        BY <1>9
      <4>1. c - z = w * k
        BY <1>8
      <4>2. (c * a - n * c) - (z * a + n * (p * k * a - c)) = (w - n * p) * (k * a)
        BY ONLY <4>1, SaleBalances, c \in Int, z \in Int, w \in Int, k \in Int, n \in Int, p \in Int, a \in Int
      <4> QED
        BY <4>2
    <3> QED
      BY <1>2, <1>3, <1>7, <2>2, <2>3, <3>1, <3>2, GapAppend DEF Balanced
  <2> QED
    BY <2>4, <2>5
<1>12. CASE r.type \notin Books!TradeTypes
  <2>1. e = 0 /\ x = 0
    BY <1>5, <1>6, <1>12, Cases DEF Books!Excess, Books!TradeTypes
  <2>2. Books!Trade(h, r) = h
    BY <1>12 DEF Books!Trade, Books!TradeTypes
  <2> QED
    BY <1>2, <1>3, <1>7, <1>8, <2>1, <2>2, GapAppend DEF Balanced
<1> QED
  BY <1>2, <1>10, <1>11, <1>12 DEF Books!TradeTypes

LEMMA PricedStep ==
  ASSUME NEW s \in Seq(Books!Transactions), NEW r \in Books!Transactions, Priced(s)
  PROVE  Priced(Append(s, r))
<1>1. PICK h \in HoldingSet : h = Books!Holding(s)
  <2>1. Len(s) \in Nat
    OBVIOUS
  <2> QED
    BY <2>1, HoldingsAppend
<1>2. PICK t \in Seq(Books!Transactions) : t = Append(s, r)
  <2>1. Append(s, r) \in Seq(Books!Transactions)
    OBVIOUS
  <2> QED
    BY <2>1
<1>3. Books!Holding(t) = Books!Trade(h, r)
  <2>1. Len(s) \in Nat
    OBVIOUS
  <2> QED
    BY <1>1, <1>2, <2>1, HoldingsAppend
<1>4. h.shares \in Nat /\ h.cost \in Int /\ h.parts \in Nat \ {0}
  BY DEF HoldingSet
<1>5. r.qty \in Nat \ {0} /\ r.price \in Int /\ (r.type \in Books!TradeTypes => r.price \in Nat)
  BY RowType
<1>6. /\ \A p \in Books!Paid(s) : p \in Int /\ p \in Books!Paid(t)
      /\ r.type = "Buy" => r.price \in Books!Paid(t)
  <2>1. PICK m \in Nat : m = Len(s)
    OBVIOUS
  <2>2. /\ DOMAIN s = 1..m /\ DOMAIN t = 1..(m + 1) /\ t[m + 1] = r
        /\ \A i \in 1..m : t[i] = s[i] /\ s[i] \in Books!Transactions /\ i \in 1..(m + 1)
    BY <1>2, <2>1
  <2>3. \A i \in 1..m : s[i].price \in Int
    BY <2>2, RowType
  <2>4. m + 1 \in 1..(m + 1)
    OBVIOUS
  <2>5. \A p \in Books!Paid(s) : p \in Int /\ p \in Books!Paid(t)
    <3> SUFFICES ASSUME NEW i \in 1..m, s[i].type = "Buy" PROVE s[i].price \in Int /\ s[i].price \in Books!Paid(t)
      BY <2>2 DEF Books!Paid
    <3> QED
      BY <2>2, <2>3 DEF Books!Paid
  <2> QED
    BY <2>2, <2>4, <2>5 DEF Books!Paid
<1>7. CASE r.type = "Buy"
  <2> PICK q \in Nat, a \in Nat, k \in Nat \ {0}, c \in Int, g \in Nat :
        q = r.qty /\ a = h.shares /\ k = h.parts /\ c = h.cost /\ g = r.price /\ q # 0
    BY <1>4, <1>5, <1>7 DEF Books!TradeTypes
  <2>1. /\ Books!Trade(h, r).shares = a + q /\ Books!Trade(h, r).cost = c + (q * g) * k /\ Books!Trade(h, r).parts = k
    BY <1>1, <1>7 DEF Books!Trade, Books!Buy, HoldingSet, Books!Gross
  <2>2. a + q # 0 /\ g \in Books!Paid(t)
    BY <1>6, <1>7
  <2>5. /\ \A p \in Int : \/ p <= g /\ (p * a * k <= c => p * (a + q) * k <= c + (q * g) * k)
                          \/ g <= p /\ (p * a * k <= c => g * (a + q) * k <= c + (q * g) * k)
        /\ \A p \in Int : \/ g <= p /\ (c <= p * a * k => c + (q * g) * k <= p * (a + q) * k)
                          \/ p <= g /\ (c <= p * a * k => c + (q * g) * k <= g * (a + q) * k)
    <3> SUFFICES ASSUME NEW p \in Int
                 PROVE  /\ p <= g => (p * a * k <= c => p * (a + q) * k <= c + (q * g) * k)
                        /\ g <= p => (p * a * k <= c => g * (a + q) * k <= c + (q * g) * k)
                        /\ g <= p => (c <= p * a * k => c + (q * g) * k <= p * (a + q) * k)
                        /\ p <= g => (c <= p * a * k => c + (q * g) * k <= g * (a + q) * k)
      BY SMTT(30)
    <3>1. a * k \in Nat /\ p * a * k = p * (a * k) /\ g * a * k = g * (a * k)
      OBVIOUS
    <3>2. (p <= g => p * a * k <= g * a * k) /\ (g <= p => g * a * k <= p * a * k)
      BY <3>1, Scaled, g \in Int
    <3>3. /\ g * a * k <= c => g * (a + q) * k <= c + (q * g) * k
          /\ c <= g * a * k => c + (q * g) * k <= g * (a + q) * k
      <4> PICK p2 \in Int : p2 = g /\ p2 <= g /\ g <= p2
        OBVIOUS
      <4>1. /\ p2 * a * k <= c /\ p2 <= g => p2 * (a + q) * k <= c + (q * g) * k
            /\ c <= p2 * a * k /\ g <= p2 => c + (q * g) * k <= p2 * (a + q) * k
        BY BoughtAt, g \in Int
      <4> QED
        BY <4>1
    <3>4. /\ p * a * k <= c /\ p <= g => p * (a + q) * k <= c + (q * g) * k
          /\ c <= p * a * k /\ g <= p => c + (q * g) * k <= p * (a + q) * k
      BY BoughtAt, g \in Int
    <3>5. p * a * k \in Int /\ g * a * k \in Int
      OBVIOUS
    <3> QED
      BY <3>2, <3>3, <3>4, <3>5, SMTT(30)
  <2>3. CASE a = 0
    <3>1. c = 0
      BY <1>1, <2>3 DEF Priced
    <3>2. g * (a + q) * k <= c + (q * g) * k /\ c + (q * g) * k <= g * (a + q) * k
      BY <2>3, <3>1, BoughtAt, 0 \in Int, 0 \in Nat, g * 0 * k = 0
    <3> QED
      BY <1>2, <1>3, <2>1, <2>2, <3>2 DEF Priced
  <2>4. CASE a # 0
    <3>1. PICK lo \in Books!Paid(s), hi \in Books!Paid(s) : lo * a * k <= c /\ c <= hi * a * k
      BY <1>1, <2>4 DEF Priced
    <3>2. lo \in Int /\ hi \in Int /\ lo \in Books!Paid(t) /\ hi \in Books!Paid(t)
      BY <1>6
    <3>3. \E p \in Books!Paid(t) : p * (a + q) * k <= c + (q * g) * k
      BY <2>2, <2>5, <3>1, <3>2, BoughtAt
    <3>4. \E p \in Books!Paid(t) : c + (q * g) * k <= p * (a + q) * k
      BY <2>2, <2>5, <3>1, <3>2, BoughtAt
    <3> QED
      BY <1>2, <1>3, <2>1, <2>2, <3>3, <3>4 DEF Priced
  <2> QED
    BY <2>3, <2>4
<1>8. CASE r.type = "Sell" /\ h.shares # 0
  <2> PICK n \in Nat, a \in Nat \ {0}, k \in Nat \ {0}, c \in Int :
        n = Books!Sold(h, r) /\ n <= a /\ a = h.shares /\ k = h.parts /\ c = h.cost
    BY <1>4, <1>8, TradeIs
  <2>1. Books!Trade(h, r).shares = a - n /\ Books!Trade(h, r).cost = c * a - n * c /\ Books!Trade(h, r).parts = k * a
    BY <1>8 DEF Books!Trade, Books!Sell, Books!AtCost
  <2>2. c * a - n * c = c * (a - n) /\ a - n \in Nat
    OBVIOUS
  <2>3. PICK lo \in Books!Paid(s), hi \in Books!Paid(s) : lo * a * k <= c /\ c <= hi * a * k
    BY <1>1, <1>8 DEF Priced
  <2>4. lo \in Int /\ hi \in Int /\ lo \in Books!Paid(t) /\ hi \in Books!Paid(t)
    BY <1>6
  <2>5. lo * (a - n) * (k * a) <= c * a - n * c /\ c * a - n * c <= hi * (a - n) * (k * a)
    BY <2>3, <2>4, SoldAt
  <2>6. a - n = 0 => c * a - n * c = 0
    OBVIOUS
  <2> QED
    BY <1>2, <1>3, <2>1, <2>2, <2>4, <2>5, <2>6 DEF Priced
<1>9. CASE r.type \notin Books!TradeTypes \/ (r.type = "Sell" /\ h.shares = 0)
  <2>1. Books!Trade(h, r) = h
    BY <1>9 DEF Books!Trade, Books!Sell, Books!TradeTypes
  <2> QED
    BY <1>1, <1>2, <1>3, <1>6, <2>1 DEF Priced
<1> QED
  <2>1. r.type = "Buy" \/ r.type = "Sell" \/ r.type \notin Books!TradeTypes
    BY DEF Books!TradeTypes
  <2> QED
    <3>1. CASE r.type = "Buy"
      BY <3>1, <1>7
    <3>2. CASE r.type = "Sell" /\ h.shares # 0
      BY <3>2, <1>8
    <3>3. CASE r.type = "Sell" /\ h.shares = 0
      BY <3>3, <1>9
    <3>4. CASE r.type \notin Books!TradeTypes
      BY <3>4, <1>9
    <3> QED
      BY <2>1, <3>1, <3>2, <3>3, <3>4

LEMMA NoRowsBalance == Balanced(<<>>) /\ Priced(<<>>)
<1>1. PICK e \in Seq(Books!Transactions) : e = <<>> /\ Len(e) = 0
  BY EmptySeq
<1>2. Books!Holding(<<>>) = Books!Nothing
  <2>1. Books!Holdings(e)[0] = Books!Nothing
    BY <1>1, HoldingsLoop
  <2> QED
    BY <1>1, <2>1 DEF Books!Holding
<1>3. ASSUME NEW q, q \in [{} -> Int] PROVE Books!Sum(q) = 0
  <2>1. q \in Seq(Int) /\ Len(q) = 0
    BY <1>3, IsASeq, 1..0 = {}
  <2> QED
    BY <2>1, SumLoop, 0 \in Nat, ZenonT(60)
<1>5. DOMAIN <<>> = {}
  OBVIOUS
<1>4. Books!CashBalance(<<>>) = 0
  BY <1>3, <1>5 DEF Books!CashBalance
<1>6. Books!NetContributions(<<>>) = 0
  BY <1>3, <1>5 DEF Books!NetContributions
<1>7. Books!Explained(<<>>) = 0
  <2> DEFINE q == [i \in DOMAIN <<>> |-> Books!Earned(<<>>[i]) - Books!FeePaid(<<>>[i]) + Books!NotInCash(<<>>[i])
        + Books!Excess(Books!Holdings(<<>>)[i - 1], <<>>[i])]
  <2>1. q \in [{} -> Int]
    BY <1>5
  <2>2. Books!Explained(<<>>) = Books!NetContributions(<<>>) + Books!Sum(q)
    BY DEF Books!Explained
  <2> HIDE DEF q
  <2>3. Books!Sum(q) = 0
    BY <1>3, <2>1
  <2> QED
    BY <1>6, <2>2, <2>3
<1> QED
  BY <1>2, <1>4, <1>7 DEF Balanced, Priced, Books!Nothing, Gap

LedgerInv == rows \in Seq(Books!Transactions) /\ Balanced(rows) /\ Priced(rows)

LEMMA LedgerStart == Books!Init => LedgerInv
  BY NoRowsBalance, EmptySeq DEF Books!Init, LedgerInv

LEMMA LedgerNext == LedgerInv /\ [Books!Next]_rows => LedgerInv'
<1> SUFFICES ASSUME LedgerInv, NEW r \in Books!Transactions, rows' = Append(rows, r) PROVE LedgerInv'
  BY DEF LedgerInv, Books!Next, Books!Add
<1>1. rows' \in Seq(Books!Transactions)
  BY DEF LedgerInv
<1>2. PICK s \in Seq(Books!Transactions) : s = rows
  BY DEF LedgerInv
<1>3. Balanced(Append(s, r)) /\ Priced(Append(s, r))
  BY <1>2, BalanceStep, PricedStep DEF LedgerInv
<1> QED
  BY <1>1, <1>2, <1>3 DEF LedgerInv

LEMMA LedgerHolds == ASSUME LedgerInv PROVE Books!BooksBalance /\ Books!AverageIsAPrice
<1>1. PICK s \in Seq(Books!Transactions) : s = rows
  BY DEF LedgerInv
<1>2. PICK h \in HoldingSet : h = Books!Holding(rows)
  <2>1. Len(s) \in Nat
    OBVIOUS
  <2> QED
    BY <1>1, <2>1, HoldingsLoop DEF Books!Holding
<1>3. PICK c, x \in Int : c = Books!CashBalance(rows) /\ x = Books!Explained(rows)
  BY DEF LedgerInv, Balanced
<1>4. h.shares \in Nat /\ h.cost \in Int /\ h.realized \in Int /\ h.parts \in Int
  BY DEF HoldingSet
<1>5. h.cost - h.realized = (x - c) * h.parts
  BY <1>2, <1>3 DEF LedgerInv, Balanced, Gap
<1>6. c * h.parts + h.cost - h.realized = x * h.parts
  BY <1>3, <1>4, <1>5
<1> QED
  BY <1>2, <1>3, <1>4, <1>6 DEF Books!BooksBalance, Books!AverageIsAPrice, LedgerInv, Priced

\* The books of any list of transactions, with any quantities and prices: cash, with what the
\* holding cost and without what its sales realized, is explained by the money put in, earned
\* and paid, to the last part of a unit; and the average cost lies between two prices paid.
THEOREM BooksBalanceAlways == SpecOne => []BooksBalance
<1> DEFINE IInv == focus = "books" => LedgerInv
<1>1. StartOne => IInv
  BY LedgerStart DEF StartOne
<1>2. IInv /\ [StepOne]_ruleVars => IInv'
  <2> SUFFICES ASSUME IInv, [StepOne]_ruleVars, focus' = "books" PROVE LedgerInv'
    OBVIOUS
  <2>1. focus = "books" /\ [Books!Next]_rows
    BY DEF StepOne, ruleVars
  <2> QED
    BY <2>1, LedgerNext
<1>3. IInv => BooksBalance
  BY LedgerHolds DEF BooksBalance
<1> QED
  BY <1>1, <1>2, <1>3, PTL DEF SpecOne

-----------------------------------------------------------------------------
(* The weekly shortlist.  Each of the three loops of select_members has an *)
(* invariant of its own: what is carried is what need not go, what is      *)
(* filled leaves a place free only where a sector is full, and the swaps   *)
(* leave behind them no candidate for whom a member could still go; what a *)
(* snapshot promises follows from the three together.                      *)

\* What a snapshot is made from; its best n names; the sectors that are full.
Inputs == [ranking : Shortlist!Rankings, sector : Shortlist!SectorMaps, params : Params,
    prior : [Tickers -> 0..MaxHeld]]
Best(in, n) == {in.ranking[i] : i \in 1..n}
Full(in, K, s) == Shortlist!InSector(K, in.sector, s) >= in.params.sector_cap

LEMMA SameCount == \A S : Shortlist!Cardinality(S) = Cardinality(S)
  BY DEF Shortlist!Cardinality, Cardinality

LEMMA TickersAreFinite ==
  ASSUME NEW K, K \subseteq Tickers
  PROVE  IsFiniteSet(K) /\ Cardinality(K) \in Nat
  BY ShortlistAssumption, FS_Subset, FS_CardinalityType

LEMMA InputIs ==
  ASSUME NEW in \in Inputs
  PROVE  /\ Len(in.ranking) \in Nat /\ in.ranking \in [1..Len(in.ranking) -> Tickers]
         /\ \A i, j \in 1..Len(in.ranking) : in.ranking[i] = in.ranking[j] => i = j
         /\ Shortlist!Eligible(in.ranking) = Best(in, Len(in.ranking))
         /\ \A i \in 1..Len(in.ranking) : Shortlist!Rank(in.ranking, in.ranking[i]) = i
         /\ Shortlist!Members(in.prior) \subseteq Tickers
         /\ in.sector \in [Tickers -> Sectors] /\ in.prior \in [Tickers -> 0..MaxHeld]
         /\ in.params.topk \in Nat /\ in.params.n_drop \in Nat /\ in.params.hold_thresh \in Nat
         /\ in.params.sector_cap \in Nat
<1>1. PICK r \in Shortlist!Rankings : r = in.ranking
  BY DEF Inputs
<1>2. PICK m \in Nat : r \in [1..m -> Tickers]
  BY TickersAreFinite DEF Shortlist!Rankings
<1>3. Len(r) = m /\ DOMAIN r = 1..m
  <2>1. r \in Seq(Tickers)
    BY <1>2
  <2> QED
    BY <1>2, <2>1
<1>4. \A i, j \in 1..m : r[i] = r[j] => i = j
  BY <1>3 DEF Shortlist!Rankings, Shortlist!IsInjective
<1>5. \A i \in 1..m : Shortlist!Rank(r, r[i]) = i
  BY <1>3, <1>4 DEF Shortlist!Rank
<1>6. Shortlist!Eligible(r) = {r[i] : i \in 1..m}
  BY <1>3 DEF Shortlist!Eligible
<1>7. in.sector \in Shortlist!SectorMaps /\ in.params \in Params /\ in.prior \in [Tickers -> 0..MaxHeld]
  BY DEF Inputs
<1>8. in.params \in [topk : Nat, n_drop : Nat, hold_thresh : Nat, sector_cap : Nat]
  BY <1>7, ShortlistAssumption
<1> QED
  BY <1>1, <1>2, <1>3, <1>4, <1>5, <1>6, <1>7, <1>8, SMTT(30) DEF Best, Shortlist!Members, Shortlist!SectorMaps

LEMMA SectorCount ==
  ASSUME NEW K, K \subseteq Tickers, NEW sector, NEW s
  PROVE  /\ Shortlist!InSector(K, sector, s) \in Nat /\ Shortlist!InSector(K, sector, s) <= Cardinality(K)
<1> DEFINE In == {x \in K : sector[x] = s}
<1>1. In \subseteq Tickers /\ In \subseteq K
  OBVIOUS
<1> HIDE DEF In
<1>2. IsFiniteSet(K) /\ IsFiniteSet(In) /\ Cardinality(In) \in Nat
  BY <1>1, TickersAreFinite
<1>3. Cardinality(In) <= Cardinality(K)
  BY <1>1, <1>2, FS_Subset
<1>4. Shortlist!InSector(K, sector, s) = Cardinality(In)
  BY SameCount DEF Shortlist!InSector, In
<1> QED
  BY <1>2, <1>3, <1>4 DEF In

LEMMA SectorIn ==
  ASSUME NEW K, K \subseteq Tickers, NEW M, M \subseteq K, NEW sector, NEW s
  PROVE  Shortlist!InSector(M, sector, s) <= Shortlist!InSector(K, sector, s)
<1> DEFINE In == {x \in K : sector[x] = s}  Some == {x \in M : sector[x] = s}
<1>1. Some \subseteq In
  OBVIOUS
<1>2. IsFiniteSet(In)
  <2>1. In \subseteq Tickers
    OBVIOUS
  <2> HIDE DEF In
  <2> QED
    BY <2>1, TickersAreFinite
<1>3. Shortlist!InSector(K, sector, s) = Cardinality(In) /\ Shortlist!InSector(M, sector, s) = Cardinality(Some)
  BY SameCount DEF Shortlist!InSector
<1> HIDE DEF In, Some
<1>4. Cardinality(Some) <= Cardinality(In)
  BY <1>1, <1>2, FS_Subset
<1> QED
  BY <1>3, <1>4

\* What one ticker more, or one less, does to the number of those of a sector.
LEMMA SectorMore ==
  ASSUME NEW K, K \subseteq Tickers, NEW t \in Tickers \ K, NEW sector, NEW s
  PROVE  /\ Shortlist!InSector(K, sector, s) \in Nat
         /\ Shortlist!InSector(K \cup {t}, sector, s) = Shortlist!InSector(K, sector, s) + (IF sector[t]
              = s THEN 1 ELSE 0)
<1> DEFINE In == {x \in K : sector[x] = s}  Then == {x \in K \cup {t} : sector[x] = s}
<1>1. IsFiniteSet(In) /\ Shortlist!InSector(K, sector, s) \in Nat
  <2>1. IsFiniteSet(In)
    <3>1. In \subseteq Tickers
      OBVIOUS
    <3> HIDE DEF In
    <3> QED
      BY <3>1, TickersAreFinite
  <2>2. Shortlist!InSector(K, sector, s) \in Nat
    BY SectorCount
  <2> QED
    BY <2>1, <2>2
<1>2. Shortlist!InSector(K, sector, s) = Cardinality(In) /\ Shortlist!InSector(K \cup {t}, sector, s)
        = Cardinality(Then)
  BY SameCount DEF Shortlist!InSector
<1>3. CASE sector[t] = s
  <2>1. Then = In \cup {t} /\ t \notin In
    BY <1>3
  <2> HIDE DEF In, Then
  <2>2. Cardinality(Then) = Cardinality(In) + 1
    BY <1>1, <2>1, FS_AddElement
  <2> QED
    BY <1>1, <1>2, <1>3, <2>2
<1>4. CASE sector[t] # s
  <2>1. Then = In
    BY <1>4
  <2> HIDE DEF In, Then
  <2> QED
    BY <1>1, <1>2, <1>4, <2>1
<1> QED
  BY <1>3, <1>4

LEMMA SectorLess ==
  ASSUME NEW K, K \subseteq Tickers, NEW t \in K, NEW sector, NEW s
  PROVE  /\ Shortlist!InSector(K, sector, s) \in Nat
         /\ Shortlist!InSector(K \ {t}, sector, s) = Shortlist!InSector(K, sector, s) - (IF sector[t] = s THEN 1 ELSE 0)
<1> DEFINE In == {x \in K : sector[x] = s}  Then == {x \in K \ {t} : sector[x] = s}
<1>1. IsFiniteSet(In) /\ Shortlist!InSector(K, sector, s) \in Nat
  <2>1. IsFiniteSet(In)
    <3>1. In \subseteq Tickers
      OBVIOUS
    <3> HIDE DEF In
    <3> QED
      BY <3>1, TickersAreFinite
  <2>2. Shortlist!InSector(K, sector, s) \in Nat
    BY SectorCount
  <2> QED
    BY <2>1, <2>2
<1>2. Shortlist!InSector(K, sector, s) = Cardinality(In) /\ Shortlist!InSector(K \ {t}, sector, s) = Cardinality(Then)
  BY SameCount DEF Shortlist!InSector
<1>3. CASE sector[t] = s
  <2>1. Then = In \ {t} /\ t \in In
    BY <1>3
  <2> HIDE DEF In, Then
  <2>2. Cardinality(Then) = Cardinality(In) - 1
    BY <1>1, <2>1, FS_RemoveElement
  <2> QED
    BY <1>1, <1>2, <1>3, <2>2
<1>4. CASE sector[t] # s
  <2>1. Then = In
    BY <1>4
  <2> HIDE DEF In, Then
  <2> QED
    BY <1>1, <1>2, <1>4, <2>1
<1> QED
  BY <1>3, <1>4

LEMMA OneMore ==
  ASSUME NEW K, K \subseteq Tickers, NEW t \in Tickers
  PROVE  Cardinality(K \cup {t}) = IF t \in K THEN Cardinality(K) ELSE Cardinality(K) + 1
  BY TickersAreFinite, FS_AddElement

-----------------------------------------------------------------------------
\* The three loops have runs.
LEMMA CarryLoop ==
  ASSUME NEW in \in Inputs, NEW m \in Nat, m = Len(in.ranking)
  PROVE  /\ Shortlist!Carrying(in) \in [0..m -> SUBSET Tickers] /\ Shortlist!Carrying(in)[0] = {}
         /\ \A n \in 1..m : Shortlist!Carrying(in)[n] = Shortlist!Carry(in, Shortlist!Carrying(in)[n - 1],
              in.ranking[n])
         /\ Shortlist!Carried(in) = Shortlist!Carrying(in)[m]
<1> DEFINE g == [n \in 1..m |-> [K \in SUBSET Tickers |-> Shortlist!Carry(in, K, in.ranking[n])]]
           After(f) == [n \in 0..m |-> IF n = 0 THEN {} ELSE Shortlist!Carry(in, f[n - 1], in.ranking[n])]
           u == Shortlist!Carrying(in)
<1>1. \A n \in 1..m : in.ranking[n] \in Tickers /\ n - 1 \in 0..m /\ n \in 0..m /\ n # 0
  BY InputIs
<1>2. \A K \in SUBSET Tickers, n \in 1..m : Shortlist!Carry(in, K, in.ranking[n]) \in SUBSET Tickers
  BY <1>1 DEF Shortlist!Carry
<1>3. PICK f \in [0..m -> SUBSET Tickers] : f[0] = {} /\ \A n \in 1..m : f[n] = Shortlist!Carry(in, f[n - 1],
        in.ranking[n])
  <2>1. PICK S, z, h : S = SUBSET Tickers /\ z = {} /\ h = g
    OBVIOUS
  <2>2. h \in [1..m -> [S -> S]]
    BY <1>2, <2>1
  <2>3. z \in S
    BY <2>1
  <2>4. \A n \in 1..m, v \in S : h[n][v] = Shortlist!Carry(in, v, in.ranking[n])
    BY <2>1
  <2> HIDE DEF g
  <2>5. PICK f \in [0..m -> S] : f[0] = z /\ \A n \in 1..m : f[n] = h[n][f[n - 1]]
    BY ONLY <2>2, <2>3, Recursion, m \in Nat
  <2>6. \A n \in 1..m : f[n - 1] \in S
    BY <1>1, <2>5
  <2>7. \A n \in 1..m : f[n] = Shortlist!Carry(in, f[n - 1], in.ranking[n])
    BY ONLY <2>4, <2>5, <2>6
  <2> QED
    BY <2>1, <2>5, <2>7
<1>4. f = After(f)
  BY <1>1, <1>3
<1>5. u = After(u)
  <2>1. u = CHOOSE f2 : f2 = After(f2)
    BY Zenon DEF Shortlist!Carrying
  <2> HIDE DEF After, u
  <2> QED
    BY <1>4, <2>1
<1> HIDE DEF u
<1>6. u[0] = {} /\ \A n \in 1..m : u[n] = Shortlist!Carry(in, u[n - 1], in.ranking[n])
  <2>1. \A n \in 0..m : u[n] = After(u)[n]
    BY <1>5
  <2>2. After(u)[0] = {} /\ \A n \in 1..m : After(u)[n] = Shortlist!Carry(in, u[n - 1], in.ranking[n])
    BY <1>1
  <2>3. 0 \in 0..m
    OBVIOUS
  <2> HIDE DEF After
  <2> QED
    BY <1>1, <2>1, <2>2, <2>3
<1>7. \A n \in 0..m : u[n] \in SUBSET Tickers
  <2> DEFINE T == {n \in 0..m : u[n] \in SUBSET Tickers}
  <2>1. 0 \in T
    BY <1>6
  <2>2. \A n \in 0..(m - 1) : n \in T => n + 1 \in T
    <3> SUFFICES ASSUME NEW n \in 0..(m - 1), u[n] \in SUBSET Tickers PROVE n + 1 \in 0..m /\ u[n
          + 1] \in SUBSET Tickers
      OBVIOUS
    <3>1. n + 1 \in 1..m /\ (n + 1) - 1 = n
      OBVIOUS
    <3>2. Shortlist!Carry(in, u[n], in.ranking[n + 1]) \in SUBSET Tickers
      BY ONLY <1>2, <3>1, u[n] \in SUBSET Tickers
    <3>3. u[n + 1] = Shortlist!Carry(in, u[n], in.ranking[n + 1])
      BY ONLY <1>6, <3>1
    <3> QED
      BY <3>1, <3>2, <3>3
  <2>3. \A n \in 0..m : n \in T
    <3> HIDE DEF T
    <3> QED
      BY <2>1, <2>2, UpTo
  <2> QED
    BY <2>3
<1>8. u \in [0..m -> SUBSET Tickers]
  BY <1>5, <1>7
<1> QED
  BY <1>6, <1>8 DEF u, Shortlist!Carried
-----------------------------------------------------------------------------
\* Carrying the members over.
AheadIn(in, t) ==
  {u \in Shortlist!Members(in.prior) \cap Shortlist!Eligible(in.ranking) : Shortlist!Rank(in.ranking,
      u) < Shortlist!Rank(in.ranking, t)}
CrowdedIn(in, t) == Full(in, AheadIn(in, t), in.sector[t])
ForcedIn(in) ==
  {t \in Shortlist!Members(in.prior) \cap Shortlist!Eligible(in.ranking) :
     CrowdedIn(in, t) \/ Cardinality({u \in AheadIn(in, t) : ~CrowdedIn(in, u)}) >= in.params.topk}
BestMembers(in, n) == Shortlist!Members(in.prior) \cap Best(in, n)
Easy(in, n) == {u \in BestMembers(in, n) : ~CrowdedIn(in, u)}

LEMMA BestNext ==
  ASSUME NEW in \in Inputs, NEW m \in Nat, m = Len(in.ranking)
  PROVE  /\ Best(in, 0) = {} /\ Best(in, m) = Shortlist!Eligible(in.ranking)
         /\ \A n \in 0..m : Best(in, n) \subseteq Tickers /\ Best(in, n) \subseteq Best(in, m)
         /\ \A n \in 0..(m - 1) :
              /\ in.ranking[n + 1] \in Tickers \ Best(in, n)
              /\ Best(in, n + 1) = Best(in, n) \cup {in.ranking[n + 1]}
<1> DEFINE r == in.ranking
<1>1. r \in [1..m -> Tickers] /\ \A i, j \in 1..m : r[i] = r[j] => i = j
  BY InputIs
<1>2. Best(in, m) = Shortlist!Eligible(in.ranking)
  BY InputIs
<1>3. \A n : Best(in, n) = {r[i] : i \in 1..n}
  BY DEF Best
<1> HIDE DEF r
<1>4. Best(in, 0) = {}
  BY <1>3, 1..0 = {}
<1>5. \A n \in 0..m : Best(in, n) \subseteq Tickers /\ Best(in, n) \subseteq Best(in, m)
  BY <1>1, <1>3
<1>6. ASSUME NEW n \in 0..(m - 1)
      PROVE  r[n + 1] \in Tickers \ Best(in, n) /\ Best(in, n + 1) = Best(in, n) \cup {r[n + 1]}
  <2>1. n + 1 \in 1..m /\ 1..(n + 1) = 1..n \cup {n + 1} /\ n + 1 \notin 1..n /\ 1..n \subseteq 1..m
    OBVIOUS
  <2>2. r[n + 1] \notin {r[i] : i \in 1..n}
    BY <1>1, <2>1
  <2>3. {r[i] : i \in 1..(n + 1)} = {r[i] : i \in 1..n} \cup {r[n + 1]}
    BY <2>1
  <2> QED
    BY <1>1, <1>3, <2>1, <2>2, <2>3
<1> QED
  BY <1>2, <1>4, <1>5, <1>6 DEF r

LEMMA AheadIs ==
  ASSUME NEW in \in Inputs, NEW n \in 0..(Len(in.ranking) - 1)
  PROVE  /\ AheadIn(in, in.ranking[n + 1]) = BestMembers(in, n)
         /\ CrowdedIn(in, in.ranking[n + 1]) <=> Full(in, BestMembers(in, n), in.sector[in.ranking[n + 1]])
         /\ {u \in AheadIn(in, in.ranking[n + 1]) : ~CrowdedIn(in, u)} = Easy(in, n)
<1> DEFINE r == in.ranking  m == Len(in.ranking)  P == Shortlist!Members(in.prior)
<1>1. /\ m \in Nat /\ r \in [1..m -> Tickers]
      /\ \A i, j \in 1..m : r[i] = r[j] => i = j
      /\ Shortlist!Eligible(r) = {r[i] : i \in 1..m}
      /\ \A i \in 1..m : Shortlist!Rank(r, r[i]) = i
  BY InputIs DEF Best
<1>2. BestMembers(in, n) = P \cap {r[i] : i \in 1..n}
  BY DEF BestMembers, Best
<1>3. AheadIn(in, r[n + 1]) = {u \in P \cap Shortlist!Eligible(r) : Shortlist!Rank(r, u) < Shortlist!Rank(r, r[n + 1])}
  BY DEF AheadIn
<1> HIDE DEF r, m, P
<1>4. n \in 0..(m - 1)
  BY DEF m
<1>5. Shortlist!Rank(r, r[n + 1]) = n + 1
  BY <1>1, <1>4
<1>6. \A u : u \in AheadIn(in, r[n + 1]) => u \in BestMembers(in, n)
  <2> SUFFICES ASSUME NEW u \in P \cap Shortlist!Eligible(r), Shortlist!Rank(r, u) < n + 1 PROVE u \in BestMembers(in,
        n)
    BY <1>3, <1>5
  <2>1. PICK i \in 1..m : u = r[i]
    BY <1>1
  <2>2. i \in 1..n
    BY <1>1, <1>4, <2>1
  <2> QED
    BY <1>2, <2>1, <2>2
<1>7. \A u : u \in BestMembers(in, n) => u \in AheadIn(in, r[n + 1])
  <2> SUFFICES ASSUME NEW i \in 1..n, r[i] \in P PROVE r[i] \in AheadIn(in, r[n + 1])
    BY <1>2
  <2>1. i \in 1..m /\ i < n + 1
    BY <1>1, <1>4
  <2>2. r[i] \in Shortlist!Eligible(r) /\ Shortlist!Rank(r, r[i]) = i
    BY <1>1, <2>1
  <2> QED
    BY <1>3, <1>5, <2>1, <2>2
<1>8. AheadIn(in, r[n + 1]) = BestMembers(in, n)
  BY <1>6, <1>7
<1> QED
  BY <1>8 DEF CrowdedIn, Easy, r

CarryInv(in, n, K) ==
  /\ K \subseteq BestMembers(in, n)
  /\ \/ K = Easy(in, n) /\ Cardinality(K) <= in.params.topk
     \/ Cardinality(K) = in.params.topk /\ Cardinality(Easy(in, n)) >= in.params.topk
  /\ \A s \in Sectors :
       /\ Shortlist!InSector(K, in.sector, s) <= in.params.sector_cap
       /\ Shortlist!InSector(Easy(in, n), in.sector, s) =
            IF Shortlist!InSector(BestMembers(in, n), in.sector, s) <= in.params.sector_cap
            THEN Shortlist!InSector(BestMembers(in, n), in.sector, s) ELSE in.params.sector_cap
  /\ BestMembers(in, n) \ K = BestMembers(in, n) \cap ForcedIn(in)

LEMMA CarryStep ==
  ASSUME NEW in \in Inputs, NEW m \in Nat, m = Len(in.ranking), NEW n \in 0..(m - 1), NEW K, CarryInv(in, n, K)
  PROVE  CarryInv(in, n + 1, Shortlist!Carry(in, K, in.ranking[n + 1]))
<1> DEFINE t == in.ranking[n + 1]  P == Shortlist!Members(in.prior)  topk == in.params.topk  cap == in.params.sector_cap
           A == BestMembers(in, n)  A2 == BestMembers(in, n + 1)  U == Easy(in, n)  U2 == Easy(in, n + 1)
           K2 == Shortlist!Carry(in, K, t)  crowded == CrowdedIn(in, t)
           Num(M, s) == Shortlist!InSector(M, in.sector, s)
           c == in.sector[t]
<1>1. /\ t \in Tickers \ Best(in, n) /\ Best(in, n + 1) = Best(in, n) \cup {t}
      /\ Best(in, n) \subseteq Tickers /\ Best(in, n + 1) \subseteq Shortlist!Eligible(in.ranking)
  BY BestNext, n + 1 \in 0..m, n \in 0..m
<1>2. topk \in Nat /\ cap \in Nat /\ P \subseteq Tickers /\ c \in Sectors
  BY <1>1, InputIs
<1>3. CASE t \notin P
  <2>1. A2 = A
    BY <1>1, <1>3 DEF BestMembers
  <2>2. U2 = U
    BY <2>1 DEF Easy
  <2>3. K2 = K
    BY <1>3 DEF Shortlist!Carry
  <2> QED
    BY <2>1, <2>2, <2>3 DEF CarryInv
<1>4. CASE t \in P
  <2>1. A2 = A \cup {t} /\ t \notin A /\ A \subseteq Tickers
    BY <1>1, <1>2, <1>4 DEF BestMembers
  <2>2. U2 = (IF crowded THEN U ELSE U \cup {t}) /\ t \notin U /\ U \subseteq A
    BY <2>1 DEF Easy
  <2>3. crowded <=> Num(A, c) >= cap
    BY AheadIs DEF Full
  <2>4. t \in ForcedIn(in) <=> crowded \/ Cardinality(U) >= topk
    <3>1. t \in P \cap Shortlist!Eligible(in.ranking)
      BY <1>1, <1>4
    <3>2. t \in ForcedIn(in) <=> CrowdedIn(in, t) \/ Cardinality({u \in AheadIn(in, t) : ~CrowdedIn(in, u)}) >= topk
      BY <3>1 DEF ForcedIn
    <3> QED
      BY <3>2, AheadIs
  <2>5. K2 = IF Num(K, c) < cap /\ Cardinality(K) < topk THEN K \cup {t} ELSE K
    BY <1>4, SameCount DEF Shortlist!Carry, Shortlist!HasRoom
  <2>6. /\ K \subseteq A /\ (\/ K = U /\ Cardinality(K) <= topk
                             \/ Cardinality(K) = topk /\ Cardinality(U) >= topk)
        /\ A \ K = A \cap ForcedIn(in)
    BY DEF CarryInv
  <2>7. \A s \in Sectors : Num(K, s) <= cap /\ Num(U, s) = IF Num(A, s) <= cap THEN Num(A, s) ELSE cap
    BY DEF CarryInv
  <2>8. /\ Cardinality(K) \in Nat /\ Cardinality(U) \in Nat /\ t \notin K
        /\ Cardinality(K \cup {t}) = Cardinality(K) + 1 /\ Cardinality(U \cup {t}) = Cardinality(U) + 1
    BY <1>1, <2>1, <2>2, <2>6, TickersAreFinite, OneMore
  <2>9. \A s : /\ Num(K, s) \in Nat /\ Num(A, s) \in Nat /\ Num(U, s) \in Nat
               /\ Num(K \cup {t}, s) = Num(K, s) + (IF c = s THEN 1 ELSE 0)
               /\ Num(A \cup {t}, s) = Num(A, s) + (IF c = s THEN 1 ELSE 0)
               /\ Num(U \cup {t}, s) = Num(U, s) + (IF c = s THEN 1 ELSE 0)
    <3> TAKE s
    <3>1. t \in Tickers \ K /\ t \in Tickers \ A /\ t \in Tickers \ U
      BY <1>1, <2>1, <2>2, <2>8
    <3>5. U \subseteq Tickers /\ A \subseteq Tickers /\ K \subseteq Tickers
      BY <2>1, <2>2, <2>6
    <3> HIDE DEF t, A, U
    <3>2. Num(K, s) \in Nat /\ Num(K \cup {t}, s) = Num(K, s) + (IF c = s THEN 1 ELSE 0)
      BY ONLY <3>1, <3>5, SectorMore
    <3>3. Num(A, s) \in Nat /\ Num(A \cup {t}, s) = Num(A, s) + (IF c = s THEN 1 ELSE 0)
      BY ONLY <3>1, <3>5, SectorMore
    <3>4. Num(U, s) \in Nat /\ Num(U \cup {t}, s) = Num(U, s) + (IF c = s THEN 1 ELSE 0)
      BY ONLY <3>1, <3>5, SectorMore
    <3> QED
      BY <3>2, <3>3, <3>4
  <2> SUFFICES /\ K2 \subseteq A2
               /\ (K2 = U2 /\ Cardinality(K2) <= topk) \/ (Cardinality(K2) = topk /\ Cardinality(U2) >= topk)
               /\ \A s \in Sectors : Num(K2, s) <= cap
               /\ \A s \in Sectors : Num(U2, s) = IF Num(A2, s) <= cap THEN Num(A2, s) ELSE cap
               /\ A2 \ K2 = A2 \cap ForcedIn(in)
    BY DEF CarryInv
  <2> HIDE DEF t, P, topk, cap, A, A2, U, U2, K2, crowded, Num, c
  <2>10. \A s \in Sectors : Num(U2, s) = IF Num(A2, s) <= cap THEN Num(A2, s) ELSE cap
    <3> TAKE s \in Sectors
    <3>1. /\ Num(A, s) \in Nat /\ Num(U, s) \in Nat
          /\ Num(A2, s) = Num(A, s) + (IF c = s THEN 1 ELSE 0)
          /\ Num(U \cup {t}, s) = Num(U, s) + (IF c = s THEN 1 ELSE 0)
          /\ Num(U, s) = IF Num(A, s) <= cap THEN Num(A, s) ELSE cap
      BY <2>1, <2>7, <2>9
    <3>2. CASE crowded
      <4>1. U2 = U
        BY <2>2, <3>2
      <4>2. c = s => Num(A, s) >= cap
        BY <2>3, <3>2
      <4> QED
        BY <1>2, <3>1, <4>1, <4>2
    <3>3. CASE ~crowded
      <4>1. U2 = U \cup {t}
        BY <2>2, <3>3
      <4>2. c = s => ~(Num(A, s) >= cap)
        BY <2>3, <3>3
      <4> QED
        BY <1>2, <3>1, <4>1, <4>2
    <3> QED
      BY <3>2, <3>3
  <2>11. CASE K = U /\ Cardinality(K) <= topk
    <3>1. Num(K, c) < cap <=> ~crowded
      BY <1>2, <2>3, <2>7, <2>9, <2>11
    <3>2. t \in ForcedIn(in) <=> K2 = K
      BY <1>2, <2>4, <2>5, <2>8, <2>11, <3>1
    <3>3. (K2 = U2 /\ Cardinality(K2) <= topk) \/ (Cardinality(K2) = topk /\ Cardinality(U2) >= topk)
      BY <1>2, <2>2, <2>5, <2>8, <2>11, <3>1
    <3>4. \A s \in Sectors : Num(K2, s) <= cap
      <4> TAKE s \in Sectors
      <4>1. Num(K, s) \in Nat /\ Num(K, s) <= cap /\ Num(K \cup {t}, s) = Num(K, s) + (IF c = s THEN 1 ELSE 0)
        BY <2>7, <2>9
      <4>2. K2 # K => K2 = K \cup {t} /\ Num(K, c) < cap
        BY <2>5
      <4>3. CASE K2 = K
        BY <4>1, <4>3
      <4>4. CASE K2 # K /\ c = s
        <5>1. Num(K2, s) = Num(K, s) + 1 /\ Num(K, s) < cap
          BY <4>1, <4>2, <4>4
        <5> QED
          BY <1>2, <4>1, <5>1
      <4>5. CASE K2 # K /\ c # s
        <5>1. Num(K2, s) = Num(K, s) + 0
          BY <4>1, <4>2, <4>5
        <5> QED
          BY <4>1, <5>1
      <4> QED
        BY <4>3, <4>4, <4>5
    <3>5. K2 \subseteq A2
      BY <2>1, <2>5, <2>6
    <3>6. A2 \ K2 = A2 \cap ForcedIn(in)
      BY <2>1, <2>5, <2>6, <2>8, <3>2
    <3> QED
      BY <2>10, <3>3, <3>4, <3>5, <3>6
  <2>12. CASE Cardinality(K) = topk /\ Cardinality(U) >= topk
    <3>1. K2 = K /\ t \in ForcedIn(in)
      BY <1>2, <2>4, <2>5, <2>12
    <3>2. Cardinality(U2) >= topk
      BY <1>2, <2>2, <2>8, <2>12
    <3> QED
      BY <2>1, <2>6, <2>7, <2>8, <2>10, <2>12, <3>1, <3>2
  <2> QED
    BY <2>6, <2>11, <2>12
<1> QED
  BY <1>3, <1>4

\* Of the eligible members exactly those are carried that need not go.
LEMMA CarriedIs ==
  ASSUME NEW in \in Inputs
  PROVE  /\ Shortlist!Carried(in) \subseteq Shortlist!Members(in.prior) \cap Shortlist!Eligible(in.ranking)
         /\ (Shortlist!Members(in.prior) \cap Shortlist!Eligible(in.ranking)) \ Shortlist!Carried(in) = ForcedIn(in)
         /\ Cardinality(Shortlist!Carried(in)) <= in.params.topk
         /\ \A s \in Sectors : Shortlist!InSector(Shortlist!Carried(in), in.sector, s) <= in.params.sector_cap
<1>1. PICK m \in Nat : m = Len(in.ranking)
  BY InputIs
<1>2. PICK u \in [0..m -> SUBSET Tickers] :
        u[0] = {} /\ (\A n \in 1..m : u[n] = Shortlist!Carry(in, u[n - 1], in.ranking[n])) /\ Shortlist!Carried(in)
            = u[m]
  BY <1>1, CarryLoop
<1> DEFINE T == {n \in 0..m : CarryInv(in, n, u[n])}
<1>3. 0 \in T
  <2>1. BestMembers(in, 0) = {} /\ Easy(in, 0) = {}
    BY <1>1, BestNext DEF BestMembers, Easy
  <2>2. Cardinality({}) = 0
    BY FS_EmptySet
  <2>3. \A s : Shortlist!InSector({}, in.sector, s) = 0
    <3> TAKE s
    <3>1. {x \in {} : in.sector[x] = s} = {}
      OBVIOUS
    <3> QED
      BY <2>2, <3>1, SameCount DEF Shortlist!InSector
  <2>4. in.params.topk \in Nat /\ in.params.sector_cap \in Nat
    BY InputIs
  <2>5. CarryInv(in, 0, {})
    <3>1. {} = Easy(in, 0) /\ Cardinality({}) <= in.params.topk
      BY <2>1, <2>2, <2>4
    <3>2. \A s \in Sectors :
            /\ Shortlist!InSector({}, in.sector, s) <= in.params.sector_cap
            /\ Shortlist!InSector(Easy(in, 0), in.sector, s) =
                 IF Shortlist!InSector(BestMembers(in, 0), in.sector, s) <= in.params.sector_cap
                 THEN Shortlist!InSector(BestMembers(in, 0), in.sector, s) ELSE in.params.sector_cap
      <4> TAKE s \in Sectors
      <4>1. Shortlist!InSector({}, in.sector, s) = 0 /\ 0 <= in.params.sector_cap
        BY <2>3, <2>4
      <4> QED
        BY <2>1, <4>1
    <3>3. {} \subseteq BestMembers(in, 0) /\ BestMembers(in, 0) \ {} = BestMembers(in, 0) \cap ForcedIn(in)
      BY <2>1
    <3> QED
      BY <3>1, <3>2, <3>3 DEF CarryInv
  <2>6. u[0] = {} /\ 0 \in 0..m
    BY <1>2
  <2>7. CarryInv(in, 0, u[0])
    BY <2>5, <2>6
  <2> QED
    BY <2>6, <2>7
<1>4. \A n \in 0..(m - 1) : n \in T => n + 1 \in T
  <2> SUFFICES ASSUME NEW n \in 0..(m - 1), CarryInv(in, n, u[n]) PROVE n + 1 \in 0..m /\ CarryInv(in, n + 1, u[n + 1])
    OBVIOUS
  <2>1. n + 1 \in 1..m /\ (n + 1) - 1 = n
    OBVIOUS
  <2>2. u[n + 1] = Shortlist!Carry(in, u[n], in.ranking[n + 1])
    BY ONLY <1>2, <2>1
  <2>3. CarryInv(in, n + 1, Shortlist!Carry(in, u[n], in.ranking[n + 1]))
    BY <1>1, CarryStep
  <2> QED
    BY <2>1, <2>2, <2>3
<1>5. m \in T
  <2> HIDE DEF T
  <2> QED
    BY <1>3, <1>4, UpTo
<1>6. CarryInv(in, m, Shortlist!Carried(in)) /\ BestMembers(in, m)
        = Shortlist!Members(in.prior) \cap Shortlist!Eligible(in.ranking)
  BY <1>1, <1>2, <1>5, BestNext DEF BestMembers
<1>7. ForcedIn(in) \subseteq BestMembers(in, m)
  BY <1>6 DEF ForcedIn
<1>8. Cardinality(Shortlist!Carried(in)) <= in.params.topk
  BY <1>6, InputIs DEF CarryInv
<1> QED
  BY <1>6, <1>7, <1>8 DEF CarryInv
-----------------------------------------------------------------------------
\* Filling the free places.
LEMMA FillLoop ==
  ASSUME NEW in \in Inputs, NEW m \in Nat, m = Len(in.ranking)
  PROVE  /\ Shortlist!Filling(in) \in [0..m -> SUBSET Tickers] /\ Shortlist!Filling(in)[0] = Shortlist!Carried(in)
         /\ \A n \in 1..m : Shortlist!Filling(in)[n] = Shortlist!Fill(in, Shortlist!Dropped(in),
              Shortlist!Filling(in)[n - 1], in.ranking[n])
         /\ Shortlist!Filled(in) = Shortlist!Filling(in)[m]
<1> DEFINE out == Shortlist!Dropped(in)  start == Shortlist!Carried(in)
           g == [n \in 1..m |-> [K \in SUBSET Tickers |-> Shortlist!Fill(in, out, K, in.ranking[n])]]
           After(f) == [n \in 0..m |-> IF n = 0 THEN start ELSE Shortlist!Fill(in, out, f[n - 1], in.ranking[n])]
           u == Shortlist!Filling(in)
<1>1. \A n \in 1..m : in.ranking[n] \in Tickers /\ n - 1 \in 0..m /\ n \in 0..m /\ n # 0
  BY InputIs
<1>2. \A K \in SUBSET Tickers, n \in 1..m : Shortlist!Fill(in, out, K, in.ranking[n]) \in SUBSET Tickers
  BY <1>1 DEF Shortlist!Fill
<1>9. start \in SUBSET Tickers
  <2>1. Shortlist!Carried(in) \subseteq Shortlist!Members(in.prior) /\ Shortlist!Members(in.prior) \subseteq Tickers
    BY CarriedIs, InputIs
  <2> QED
    BY <2>1
<1> HIDE DEF out, start
<1>3. PICK f \in [0..m -> SUBSET Tickers] : f[0] = start /\ \A n \in 1..m : f[n] = Shortlist!Fill(in, out, f[n - 1],
        in.ranking[n])
  <2>1. PICK S, z, h : S = SUBSET Tickers /\ z = start /\ h = g
    OBVIOUS
  <2>2. h \in [1..m -> [S -> S]]
    BY <1>2, <2>1
  <2>3. z \in S
    BY <1>9, <2>1
  <2>4. \A n \in 1..m, v \in S : h[n][v] = Shortlist!Fill(in, out, v, in.ranking[n])
    BY <2>1
  <2> HIDE DEF g
  <2>5. PICK f \in [0..m -> S] : f[0] = z /\ \A n \in 1..m : f[n] = h[n][f[n - 1]]
    BY ONLY <2>2, <2>3, Recursion, m \in Nat
  <2>6. \A n \in 1..m : f[n - 1] \in S
    BY <1>1, <2>5
  <2>7. \A n \in 1..m : f[n] = Shortlist!Fill(in, out, f[n - 1], in.ranking[n])
    BY ONLY <2>4, <2>5, <2>6
  <2> QED
    BY <2>1, <2>5, <2>7
<1>4. f = After(f)
  BY <1>1, <1>3
<1>5. u = After(u)
  <2>1. u = CHOOSE f2 : f2 = After(f2)
    BY Zenon DEF Shortlist!Filling, out, start
  <2> HIDE DEF After, u
  <2> QED
    BY <1>4, <2>1
<1> HIDE DEF u
<1>6. u[0] = start /\ \A n \in 1..m : u[n] = Shortlist!Fill(in, out, u[n - 1], in.ranking[n])
  <2>1. \A n \in 0..m : u[n] = After(u)[n]
    BY <1>5
  <2>2. After(u)[0] = start /\ \A n \in 1..m : After(u)[n] = Shortlist!Fill(in, out, u[n - 1], in.ranking[n])
    BY <1>1
  <2>3. 0 \in 0..m
    OBVIOUS
  <2> HIDE DEF After
  <2> QED
    BY <1>1, <2>1, <2>2, <2>3
<1>7. \A n \in 0..m : u[n] \in SUBSET Tickers
  <2> DEFINE T == {n \in 0..m : u[n] \in SUBSET Tickers}
  <2>1. 0 \in T
    BY <1>6, <1>9
  <2>2. \A n \in 0..(m - 1) : n \in T => n + 1 \in T
    <3> SUFFICES ASSUME NEW n \in 0..(m - 1), u[n] \in SUBSET Tickers PROVE n + 1 \in 0..m /\ u[n
          + 1] \in SUBSET Tickers
      OBVIOUS
    <3>1. n + 1 \in 1..m /\ (n + 1) - 1 = n
      OBVIOUS
    <3>2. Shortlist!Fill(in, out, u[n], in.ranking[n + 1]) \in SUBSET Tickers
      BY ONLY <1>2, <3>1, u[n] \in SUBSET Tickers
    <3>3. u[n + 1] = Shortlist!Fill(in, out, u[n], in.ranking[n + 1])
      BY ONLY <1>6, <3>1
    <3> QED
      BY <3>1, <3>2, <3>3
  <2>3. \A n \in 0..m : n \in T
    <3> HIDE DEF T
    <3> QED
      BY <2>1, <2>2, UpTo
  <2> QED
    BY <2>3
<1>8. u \in [0..m -> SUBSET Tickers]
  BY <1>5, <1>7
<1> QED
  BY <1>6, <1>8 DEF u, Shortlist!Filled, out, start

FillInv(in, n, F) ==
  /\ Shortlist!Carried(in) \subseteq F /\ F \subseteq Shortlist!Carried(in) \cup (Best(in,
       n) \ Shortlist!Members(in.prior))
  /\ Cardinality(F) <= in.params.topk
  /\ \A s \in Sectors : Shortlist!InSector(F, in.sector, s) <= in.params.sector_cap
  /\ \A t \in Best(in, n) \ (Shortlist!Members(in.prior) \cup F) :
       Cardinality(F) >= in.params.topk \/ Full(in, F, in.sector[t])

LEMMA FillStep ==
  ASSUME NEW in \in Inputs, NEW m \in Nat, m = Len(in.ranking), NEW n \in 0..(m - 1), NEW F, FillInv(in, n, F)
  PROVE  FillInv(in, n + 1, Shortlist!Fill(in, Shortlist!Dropped(in), F, in.ranking[n + 1]))
<1> DEFINE t == in.ranking[n + 1]  P == Shortlist!Members(in.prior)  topk == in.params.topk  cap == in.params.sector_cap
           F2 == Shortlist!Fill(in, Shortlist!Dropped(in), F, t)  B == Best(in, n)  C == Shortlist!Carried(in)
           Num(M, s) == Shortlist!InSector(M, in.sector, s)
           Sec(x) == in.sector[x]
<1>1. t \in Tickers \ B /\ Best(in, n + 1) = B \cup {t} /\ B \subseteq Tickers
  BY BestNext, n \in 0..m
<1>2. topk \in Nat /\ cap \in Nat /\ P \subseteq Tickers /\ C \subseteq P /\ Sec(t) \in Sectors
  BY <1>1, InputIs, CarriedIs
<1>3. /\ C \subseteq F /\ F \subseteq C \cup (B \ P) /\ Cardinality(F) <= topk
      /\ \A s \in Sectors : Num(F, s) <= cap
      /\ \A x \in B \ (P \cup F) : Cardinality(F) >= topk \/ Num(F, Sec(x)) >= cap
  BY DEF FillInv, Full
<1>4. Shortlist!Dropped(in) = P \ C
  BY DEF Shortlist!Dropped
<1>5. F2 = IF Cardinality(F) < topk /\ t \notin F \cup (P \ C) /\ Num(F, Sec(t)) < cap THEN F \cup {t} ELSE F
  BY <1>4, SameCount DEF Shortlist!Fill, Shortlist!HasRoom
<1>6. F \subseteq Tickers /\ Cardinality(F) \in Nat /\ \A s : Num(F, s) \in Nat
  <2>1. F \subseteq Tickers
    BY <1>1, <1>2, <1>3
  <2> QED
    BY <2>1, TickersAreFinite, SectorCount
<1>7. ASSUME t \notin F
      PROVE  /\ Cardinality(F \cup {t}) = Cardinality(F) + 1
             /\ \A s : Num(F \cup {t}, s) = Num(F, s) + (IF Sec(t) = s THEN 1 ELSE 0)
  <2>1. t \in Tickers \ F
    BY <1>1, <1>7
  <2>2. Cardinality(F \cup {t}) = Cardinality(F) + 1
    BY <1>6, <2>1, OneMore
  <2>3. ASSUME NEW s PROVE Num(F \cup {t}, s) = Num(F, s) + (IF Sec(t) = s THEN 1 ELSE 0)
    BY ONLY <1>6, <2>1, SectorMore
  <2> QED
    BY <2>2, <2>3
<1> SUFFICES /\ C \subseteq F2 /\ F2 \subseteq C \cup ((B \cup {t}) \ P) /\ Cardinality(F2) <= topk
             /\ \A s \in Sectors : Num(F2, s) <= cap
             /\ \A x \in (B \cup {t}) \ (P \cup F2) : Cardinality(F2) >= topk \/ Num(F2, Sec(x)) >= cap
  BY <1>1 DEF FillInv, Full
<1> HIDE DEF t, P, topk, cap, F2, B, C, Num, Sec
<1>8. CASE Cardinality(F) < topk /\ t \notin F \cup (P \ C) /\ Num(F, Sec(t)) < cap
  <2>1. F2 = F \cup {t} /\ t \notin F
    BY <1>5, <1>8
  <2>2. t \notin P
    BY <1>3, <1>8
  <2>3. C \subseteq F2 /\ F2 \subseteq C \cup ((B \cup {t}) \ P)
    BY <1>3, <2>1, <2>2
  <2>4. Cardinality(F2) = Cardinality(F) + 1 /\ \A s : Num(F2, s) = Num(F, s) + (IF Sec(t) = s THEN 1 ELSE 0)
    BY <1>7, <2>1
  <2>5. \A s \in Sectors : Num(F2, s) <= cap
    <3> TAKE s \in Sectors
    <3>1. Num(F, s) \in Nat /\ Num(F, s) <= cap /\ Num(F2, s) = Num(F, s) + (IF Sec(t) = s THEN 1 ELSE 0)
      BY <1>3, <1>6, <2>4
    <3>2. CASE Sec(t) = s
      <4>1. Num(F, s) < cap
        BY <1>8, <3>2
      <4> QED
        BY <1>2, <3>1, <4>1
    <3>3. CASE Sec(t) # s
      BY <3>1, <3>3
    <3> QED
      BY <3>2, <3>3
  <2>6. ASSUME NEW x \in (B \cup {t}) \ (P \cup F2) PROVE Cardinality(F2) >= topk \/ Num(F2, Sec(x)) >= cap
    <3>1. x \in B \ (P \cup F)
      BY <2>1
    <3>2. Cardinality(F) >= topk \/ Num(F, Sec(x)) >= cap
      BY <1>3, <3>1
    <3>3. Num(F2, Sec(x)) >= Num(F, Sec(x)) /\ Num(F, Sec(x)) \in Nat /\ Num(F2, Sec(x)) \in Nat
      BY <1>6, <2>4
    <3> QED
      BY <1>2, <1>6, <2>4, <3>2, <3>3
  <2>7. Cardinality(F2) <= topk
    BY <1>2, <1>6, <1>8, <2>4
  <2> QED
    BY <2>3, <2>5, <2>6, <2>7
<1>9. CASE ~(Cardinality(F) < topk /\ t \notin F \cup (P \ C) /\ Num(F, Sec(t)) < cap)
  <2>1. F2 = F
    BY <1>5, <1>9
  <2>2. t \notin P \cup F => Cardinality(F) >= topk \/ Num(F, Sec(t)) >= cap
    <3>1. Num(F, Sec(t)) \in Nat
      BY <1>6
    <3> QED
      BY <1>2, <1>6, <1>9, <3>1
  <2> QED
    BY <1>3, <2>1, <2>2
<1> QED
  BY <1>8, <1>9

LEMMA FilledIs ==
  ASSUME NEW in \in Inputs
  PROVE  FillInv(in, Len(in.ranking), Shortlist!Filled(in))
<1>1. PICK m \in Nat : m = Len(in.ranking)
  BY InputIs
<1>2. PICK u \in [0..m -> SUBSET Tickers] :
        /\ u[0] = Shortlist!Carried(in) /\ (\A n \in 1..m : u[n] = Shortlist!Fill(in, Shortlist!Dropped(in), u[n - 1],
             in.ranking[n]))
        /\ Shortlist!Filled(in) = u[m]
  BY <1>1, FillLoop
<1> DEFINE T == {n \in 0..m : FillInv(in, n, u[n])}
<1>3. 0 \in T
  <2>1. Best(in, 0) = {}
    BY <1>1, BestNext
  <2>2. FillInv(in, 0, Shortlist!Carried(in))
    BY <2>1, CarriedIs DEF FillInv
  <2> QED
    BY <1>2, <2>2
<1>4. \A n \in 0..(m - 1) : n \in T => n + 1 \in T
  <2> SUFFICES ASSUME NEW n \in 0..(m - 1), FillInv(in, n, u[n]) PROVE n + 1 \in 0..m /\ FillInv(in, n + 1, u[n + 1])
    OBVIOUS
  <2>1. n + 1 \in 1..m /\ (n + 1) - 1 = n
    OBVIOUS
  <2>2. u[n + 1] = Shortlist!Fill(in, Shortlist!Dropped(in), u[n], in.ranking[n + 1])
    BY ONLY <1>2, <2>1
  <2>3. FillInv(in, n + 1, Shortlist!Fill(in, Shortlist!Dropped(in), u[n], in.ranking[n + 1]))
    BY <1>1, FillStep
  <2> QED
    BY <2>1, <2>2, <2>3
<1>5. m \in T
  <2> HIDE DEF T
  <2> QED
    BY <1>3, <1>4, UpTo
<1> QED
  BY <1>1, <1>2, <1>5
-----------------------------------------------------------------------------
\* Swapping members for better names.
SwapStates(in) ==
  [kept : SUBSET Shortlist!Eligible(in.ranking), out : SUBSET Tickers, swaps : Nat, stop : BOOLEAN]

LEMMA WorstIs ==
  ASSUME NEW in \in Inputs, NEW ms, ms \subseteq Shortlist!Eligible(in.ranking), ms # {}
  PROVE  Shortlist!Worst(in, ms) \in ms
<1>1. PICK m \in Nat : m = Len(in.ranking)
  BY InputIs
<1>2. \A o \in ms : Shortlist!Rank(in.ranking, o) \in 1..m
  <2> TAKE o \in ms
  <2>1. PICK i \in 1..m : o = in.ranking[i]
    BY <1>1, InputIs DEF Best
  <2> QED
    BY <1>1, <2>1, InputIs
<1> DEFINE T == {m - Shortlist!Rank(in.ranking, o) : o \in ms}
<1>3. PICK n \in T : \A k \in T : n <= k
  <2>1. T \subseteq Nat /\ T # {}
    BY <1>2
  <2> HIDE DEF T
  <2> QED
    BY <2>1, LeastNumber
<1>4. PICK w \in ms : n = m - Shortlist!Rank(in.ranking, w)
  BY <1>3
<1>5. \A o \in ms : Shortlist!Rank(in.ranking, o) <= Shortlist!Rank(in.ranking, w)
  <2> TAKE o \in ms
  <2>1. m - Shortlist!Rank(in.ranking, o) \in T
    OBVIOUS
  <2>2. n <= m - Shortlist!Rank(in.ranking, o)
    BY <1>3, <2>1
  <2> QED
    BY <1>2, <1>4, <2>2
<1> QED
  BY <1>5 DEF Shortlist!Worst

LEMMA PartnersAre ==
  ASSUME NEW in, NEW now, NEW t
  PROVE  Shortlist!Partners(in, now, t) \subseteq Shortlist!Removable(in, now, t) /\ Shortlist!Removable(in, now,
           t) \subseteq now.kept
  BY DEF Shortlist!Partners, Shortlist!Removable

LEMMA SwapType ==
  ASSUME NEW in \in Inputs, NEW now \in SwapStates(in), NEW n \in 1..Len(in.ranking)
  PROVE  Shortlist!Swap(in, now, in.ranking[n]) \in SwapStates(in)
<1> DEFINE t == in.ranking[n]  ps == Shortlist!Partners(in, now, t)
<1>1. t \in Shortlist!Eligible(in.ranking) /\ Shortlist!Eligible(in.ranking) \subseteq Tickers
  <2>1. Shortlist!Eligible(in.ranking) = Best(in, Len(in.ranking)) /\ in.ranking \in [1..Len(in.ranking) -> Tickers]
    BY InputIs
  <2> QED
    BY <2>1 DEF Best
<1>2. ps \subseteq now.kept /\ now.kept \subseteq Shortlist!Eligible(in.ranking)
  BY PartnersAre DEF SwapStates
<1> HIDE DEF t, ps
<1>3. ps # {} => Shortlist!Worst(in, ps) \in ps
  BY <1>2, WorstIs
<1>4. [now EXCEPT !.stop = TRUE] \in SwapStates(in)
  BY DEF SwapStates
<1>5. ASSUME NEW o \in ps
      PROVE  [now EXCEPT !.kept = (@ \ {o}) \cup {t}, !.out = @ \cup {o}, !.swaps = @ + 1] \in SwapStates(in)
  <2>1. (now.kept \ {o}) \cup {t} \in SUBSET Shortlist!Eligible(in.ranking)
    BY <1>1, <1>2
  <2>2. now.out \cup {o} \in SUBSET Tickers /\ now.swaps + 1 \in Nat
    BY <1>1, <1>2 DEF SwapStates
  <2> QED
    BY <2>1, <2>2 DEF SwapStates
<1>6. \/ Shortlist!Swap(in, now, t) = now \/ Shortlist!Swap(in, now, t) = [now EXCEPT !.stop = TRUE]
      \/ ps # {} /\ Shortlist!Swap(in, now, t) = [now EXCEPT !.kept = (@ \ {Shortlist!Worst(in, ps)}) \cup {t},
                                                  !.out = @ \cup {Shortlist!Worst(in, ps)}, !.swaps = @ + 1]
  BY Zenon DEF Shortlist!Swap, ps
<1> QED
  BY <1>3, <1>4, <1>5, <1>6 DEF t

LEMMA SwapLoop ==
  ASSUME NEW in \in Inputs, NEW m \in Nat, m = Len(in.ranking)
  PROVE  /\ Shortlist!Swapping(in) \in [0..m -> SwapStates(in)]
         /\ Shortlist!Swapping(in)[0] = [kept |-> Shortlist!Filled(in), out |-> Shortlist!Dropped(in), swaps |-> 0,
              stop |-> FALSE]
         /\ \A n \in 1..m : Shortlist!Swapping(in)[n] = Shortlist!Swap(in, Shortlist!Swapping(in)[n - 1], in.ranking[n])
         /\ Shortlist!Swapped(in) = Shortlist!Swapping(in)[m]
<1> DEFINE start == [kept |-> Shortlist!Filled(in), out |-> Shortlist!Dropped(in), swaps |-> 0, stop |-> FALSE]
           W == SwapStates(in)
           g == [n \in 1..m |-> [w \in W |-> Shortlist!Swap(in, w, in.ranking[n])]]
           After(f) == [n \in 0..m |-> IF n = 0 THEN start ELSE Shortlist!Swap(in, f[n - 1], in.ranking[n])]
           u == Shortlist!Swapping(in)
<1>1. \A n \in 1..m : in.ranking[n] \in Tickers /\ n - 1 \in 0..m /\ n \in 0..m /\ n # 0
  BY InputIs
<1>2. \A w \in W, n \in 1..m : Shortlist!Swap(in, w, in.ranking[n]) \in W
  BY SwapType
<1>9. start \in W
  <2>1. Shortlist!Filled(in) \subseteq Shortlist!Eligible(in.ranking) /\ Shortlist!Dropped(in) \subseteq Tickers
    BY FilledIs, CarriedIs, InputIs DEF FillInv, Shortlist!Dropped
  <2> QED
    BY <2>1 DEF SwapStates
<1> HIDE DEF start, W
<1>3. PICK f \in [0..m -> W] : f[0] = start /\ \A n \in 1..m : f[n] = Shortlist!Swap(in, f[n - 1], in.ranking[n])
  <2>1. PICK S, z, h : S = W /\ z = start /\ h = g
    OBVIOUS
  <2>2. h \in [1..m -> [S -> S]]
    BY <1>2, <2>1
  <2>3. z \in S
    BY <1>9, <2>1
  <2>4. \A n \in 1..m, v \in S : h[n][v] = Shortlist!Swap(in, v, in.ranking[n])
    BY <2>1
  <2> HIDE DEF g
  <2>5. PICK f \in [0..m -> S] : f[0] = z /\ \A n \in 1..m : f[n] = h[n][f[n - 1]]
    BY ONLY <2>2, <2>3, Recursion, m \in Nat
  <2>6. \A n \in 1..m : f[n - 1] \in S
    BY <1>1, <2>5
  <2>7. \A n \in 1..m : f[n] = Shortlist!Swap(in, f[n - 1], in.ranking[n])
    BY ONLY <2>4, <2>5, <2>6
  <2> QED
    BY <2>1, <2>5, <2>7
<1>4. f = After(f)
  BY <1>1, <1>3
<1>5. u = After(u)
  <2>1. u = CHOOSE f2 : f2 = After(f2)
    BY Zenon DEF Shortlist!Swapping, start
  <2> HIDE DEF After, u
  <2> QED
    BY <1>4, <2>1
<1> HIDE DEF u
<1>6. u[0] = start /\ \A n \in 1..m : u[n] = Shortlist!Swap(in, u[n - 1], in.ranking[n])
  <2>1. \A n \in 0..m : u[n] = After(u)[n]
    BY <1>5
  <2>2. After(u)[0] = start /\ \A n \in 1..m : After(u)[n] = Shortlist!Swap(in, u[n - 1], in.ranking[n])
    BY <1>1
  <2>3. 0 \in 0..m
    OBVIOUS
  <2> HIDE DEF After
  <2> QED
    BY <1>1, <2>1, <2>2, <2>3
<1>7. \A n \in 0..m : u[n] \in W
  <2> DEFINE T == {n \in 0..m : u[n] \in W}
  <2>1. 0 \in T
    BY <1>6, <1>9
  <2>2. \A n \in 0..(m - 1) : n \in T => n + 1 \in T
    <3> SUFFICES ASSUME NEW n \in 0..(m - 1), u[n] \in W PROVE n + 1 \in 0..m /\ u[n + 1] \in W
      OBVIOUS
    <3>1. n + 1 \in 1..m /\ (n + 1) - 1 = n
      OBVIOUS
    <3>2. Shortlist!Swap(in, u[n], in.ranking[n + 1]) \in W
      BY ONLY <1>2, <3>1, u[n] \in W
    <3>3. u[n + 1] = Shortlist!Swap(in, u[n], in.ranking[n + 1])
      BY ONLY <1>6, <3>1
    <3> QED
      BY <3>1, <3>2, <3>3
  <2>3. \A n \in 0..m : n \in T
    <3> HIDE DEF T
    <3> QED
      BY <2>1, <2>2, UpTo
  <2> QED
    BY <2>3
<1>8. u \in [0..m -> W]
  BY <1>5, <1>7
<1> QED
  BY <1>6, <1>8 DEF u, Shortlist!Swapped, start, W
\* No member that may go can make room for t.
Blocked(in, now, t) ==
  \A o \in Shortlist!Removable(in, now, t) : in.sector[o] # in.sector[t] /\ Full(in, now.kept, in.sector[t])

SwapInv(in, n, now) ==
  /\ now \in SwapStates(in)
  /\ now.out = Shortlist!Members(in.prior) \ now.kept
  /\ Shortlist!Filled(in) \ Shortlist!Members(in.prior) \subseteq now.kept
  /\ now.kept \cap Shortlist!Members(in.prior) \subseteq Shortlist!Carried(in)
  /\ Cardinality(now.kept) = Cardinality(Shortlist!Filled(in))
  /\ \A s \in Sectors : Shortlist!InSector(now.kept, in.sector, s) <= in.params.sector_cap
  /\ Cardinality(Shortlist!Carried(in) \ now.kept) = now.swaps /\ now.swaps <= in.params.n_drop
  /\ \A t \in Shortlist!Carried(in) \ now.kept : in.prior[t] >= in.params.hold_thresh
  /\ Cardinality(Shortlist!Filled(in)) < in.params.topk =>
       \A s \in Sectors : Full(in, Shortlist!Filled(in), s) => Full(in, now.kept, s)
  /\ now.swaps < in.params.n_drop =>
       \A t \in (IF now.stop THEN Shortlist!Eligible(in.ranking) ELSE Best(in,
           n)) \ (Shortlist!Members(in.prior) \cup now.kept) :
         Blocked(in, now, t)

LEMMA RankType ==
  ASSUME NEW in \in Inputs, NEW t \in Shortlist!Eligible(in.ranking)
  PROVE  Shortlist!Rank(in.ranking, t) \in 1..Len(in.ranking) /\ in.ranking[Shortlist!Rank(in.ranking, t)] = t
<1>1. PICK m \in Nat : m = Len(in.ranking)
  BY InputIs
<1>2. PICK i \in 1..m : t = in.ranking[i]
  <2>1. Shortlist!Eligible(in.ranking) = Best(in, m)
    BY <1>1, InputIs
  <2> QED
    BY <2>1 DEF Best
<1>3. \A k \in 1..m : Shortlist!Rank(in.ranking, in.ranking[k]) = k
  BY <1>1, InputIs
<1> QED
  BY <1>1, <1>2, <1>3

\* Who may go for a better name may go for one that is better still.
LEMMA RemovableFor ==
  ASSUME NEW in \in Inputs, NEW now \in SwapStates(in), NEW i \in 1..Len(in.ranking), NEW j \in i..Len(in.ranking)
  PROVE  Shortlist!Removable(in, now, in.ranking[j]) \subseteq Shortlist!Removable(in, now, in.ranking[i])
<1>1. Len(in.ranking) \in Nat /\ \A k \in 1..Len(in.ranking) : Shortlist!Rank(in.ranking, in.ranking[k]) = k
  BY InputIs
<1>2. j \in 1..Len(in.ranking) /\ i <= j
  BY <1>1
<1> SUFFICES ASSUME NEW o \in Shortlist!Removable(in, now, in.ranking[j]) PROVE o \in Shortlist!Removable(in, now,
      in.ranking[i])
  OBVIOUS
<1>3. o \in now.kept /\ o \in Shortlist!Members(in.prior) /\ in.prior[o] >= in.params.hold_thresh
      /\ Shortlist!Rank(in.ranking, o) > j
  BY <1>1, <1>2 DEF Shortlist!Removable
<1>4. o \in Shortlist!Eligible(in.ranking)
  BY <1>3 DEF SwapStates
<1>5. Shortlist!Rank(in.ranking, o) > i
  BY <1>1, <1>2, <1>3, <1>4, RankType
<1> QED
  BY <1>1, <1>3, <1>5 DEF Shortlist!Removable

LEMMA Exchange ==
  ASSUME NEW X, X \subseteq Tickers, NEW o \in X, NEW t \in Tickers \ X
  PROVE  Cardinality((X \ {o}) \cup {t}) = Cardinality(X)
<1> DEFINE Y == X \ {o}
<1>1. Y \subseteq Tickers /\ t \in Tickers \ Y /\ IsFiniteSet(X) /\ Cardinality(X) \in Nat
  BY TickersAreFinite
<1>2. Cardinality(Y) = Cardinality(X) - 1
  BY <1>1, FS_RemoveElement
<1>3. Cardinality(Y \cup {t}) = Cardinality(Y) + 1
  <2> HIDE DEF Y
  <2> QED
    BY <1>1, OneMore
<1> QED
  BY <1>1, <1>2, <1>3

LEMMA ExchangeInSector ==
  ASSUME NEW X, X \subseteq Tickers, NEW o \in X, NEW t \in Tickers \ X, NEW sector, NEW s
  PROVE  Shortlist!InSector((X \ {o}) \cup {t}, sector, s) =
           Shortlist!InSector(X, sector, s) - (IF sector[o] = s THEN 1 ELSE 0) + (IF sector[t] = s THEN 1 ELSE 0)
<1> DEFINE Y == X \ {o}
<1>1. Y \subseteq Tickers /\ t \in Tickers \ Y
  OBVIOUS
<1>2. Shortlist!InSector(X, sector, s) \in Nat /\ Shortlist!InSector(Y, sector, s) = Shortlist!InSector(X, sector, s)
        - (IF sector[o] = s THEN 1 ELSE 0)
  BY SectorLess
<1>3. /\ Shortlist!InSector(Y, sector, s) \in Nat
      /\ Shortlist!InSector(Y \cup {t}, sector, s) = Shortlist!InSector(Y, sector, s) + (IF sector[t] = s THEN 1 ELSE 0)
  <2> HIDE DEF Y
  <2> QED
    BY ONLY <1>1, SectorMore
<1> HIDE DEF Y
<1>4. Shortlist!InSector(Y \cup {t}, sector, s) =
        Shortlist!InSector(X, sector, s) - (IF sector[o] = s THEN 1 ELSE 0) + (IF sector[t] = s THEN 1 ELSE 0)
  BY <1>2, <1>3
<1> QED
  BY <1>4 DEF Y

LEMMA SwapStep ==
  ASSUME NEW in \in Inputs, NEW m \in Nat, m = Len(in.ranking), NEW n \in 0..(m - 1), NEW now, SwapInv(in, n, now)
  PROVE  SwapInv(in, n + 1, Shortlist!Swap(in, now, in.ranking[n + 1]))
<1> DEFINE t == in.ranking[n + 1]  P == Shortlist!Members(in.prior)  cap == in.params.sector_cap
           E == Shortlist!Eligible(in.ranking)  B == Best(in,
               n)  C == Shortlist!Carried(in)  F == Shortlist!Filled(in)  X == now.kept
           Num(M, s) == Shortlist!InSector(M, in.sector, s)
           Sec(x) == in.sector[x]
           drop == in.params.n_drop  hold == in.params.hold_thresh  topk == in.params.topk
           now2 == Shortlist!Swap(in, now, t)  ps == Shortlist!Partners(in, now, t)
<1>1. t \in Tickers \ B /\ t \in E /\ Best(in, n + 1) = B \cup {t} /\ B \subseteq E /\ E \subseteq Tickers
  <2>1. n \in 0..m /\ m \in 0..m /\ n + 1 \in 0..m
    OBVIOUS
  <2>2. Best(in, m) = E /\ Best(in, n) \subseteq Best(in, m) /\ Best(in, n + 1) \subseteq Best(in, m)
    BY <2>1, BestNext
  <2>3. Best(in, n + 1) = B \cup {t} /\ t \in Tickers \ B /\ Best(in, m) \subseteq Tickers
    BY <2>1, BestNext
  <2> QED
    BY <2>2, <2>3
<1>2. now \in SwapStates(in) /\ X \subseteq E /\ now.stop \in BOOLEAN /\ now.swaps \in Nat
  BY DEF SwapInv, SwapStates
<1>3. drop \in Nat /\ hold \in Nat /\ topk \in Nat /\ cap \in Nat /\ P \subseteq Tickers
        /\ in.sector \in [Tickers -> Sectors]
  BY InputIs
<1>4. now2 \in SwapStates(in)
  BY <1>2, SwapType, n + 1 \in 1..Len(in.ranking)
<1>5. CASE now.stop \/ Shortlist!NoMoreSwaps(in, now) \/ t \in now.kept \cup now.out
  <2>1. now2 = now
    BY <1>5 DEF Shortlist!Swap
  <2>2. ASSUME now.swaps < drop, NEW x \in (IF now.stop THEN E ELSE Best(in, n + 1)) \ (P \cup X)
        PROVE  Blocked(in, now, x)
    <3>1. now.stop \/ t \in P \cup X
      BY <1>2, <1>3, <1>5, <2>2 DEF SwapInv, Shortlist!NoMoreSwaps
    <3>2. x \in (IF now.stop THEN E ELSE B) \ (P \cup X)
      BY <1>1, <2>2, <3>1
    <3> QED
      BY <2>2, <3>2 DEF SwapInv
  <2> QED
    BY <2>1, <2>2 DEF SwapInv
<1>6. ASSUME ~now.stop, ~Shortlist!NoMoreSwaps(in, now), t \notin now.kept \cup now.out
      PROVE  /\ t \notin P \cup X \cup F /\ now.swaps < drop
             /\ \A x \in B \ (P \cup X) : Blocked(in, now, x)
  <2>1. now.swaps < drop
    BY <1>2, <1>3, <1>6 DEF Shortlist!NoMoreSwaps
  <2>2. t \notin P \cup X
    BY <1>6 DEF SwapInv
  <2>3. t \notin F
    BY <2>2 DEF SwapInv
  <2> QED
    BY <1>6, <2>1, <2>2, <2>3 DEF SwapInv
<1>7. CASE ~now.stop /\ ~Shortlist!NoMoreSwaps(in, now) /\ t \notin now.kept \cup now.out
        /\ Shortlist!NoneRemovable(in, now, t)
  <2>1. now2 = [now EXCEPT !.stop = TRUE]
    BY <1>7 DEF Shortlist!Swap
  <2>2. now2.kept = X /\ now2.out = now.out /\ now2.swaps = now.swaps /\ now2.stop
    BY <2>1, <1>2 DEF SwapStates
  <2>3. \A x \in E \ (P \cup X) : Blocked(in, now, x)
    <3> TAKE x \in E \ (P \cup X)
    <3>1. CASE x \in B
      BY <1>6, <1>7, <3>1
    <3>2. CASE x \notin B
      <4>1. PICK i \in 1..m : x = in.ranking[i]
        BY RankType
      <4>2. i \notin 1..n
        BY <3>2, <4>1 DEF Best
      <4>3. n + 1 \in 1..Len(in.ranking) /\ i \in (n + 1)..Len(in.ranking)
        BY <4>1, <4>2
      <4>4. Shortlist!Removable(in, now, x) \subseteq Shortlist!Removable(in, now, t)
        BY <1>2, <4>1, <4>3, RemovableFor
      <4>5. Shortlist!Removable(in, now, t) = {}
        BY <1>7 DEF Shortlist!NoneRemovable
      <4> QED
        BY <4>4, <4>5 DEF Blocked
    <3> QED
      BY <3>1, <3>2
  <2>4. \A x : Blocked(in, now2, x) <=> Blocked(in, now, x)
    BY <2>2 DEF Blocked, Shortlist!Removable
  <2> QED
    BY <1>4, <2>2, <2>3, <2>4 DEF SwapInv
<1>8. CASE ~now.stop /\ ~Shortlist!NoMoreSwaps(in, now) /\ t \notin now.kept \cup now.out
        /\ ~Shortlist!NoneRemovable(in, now, t) /\ ps = {}
  <2>1. now2 = now
    BY <1>8 DEF Shortlist!Swap
  <2>2. Blocked(in, now, t)
    <3> SUFFICES ASSUME NEW o \in Shortlist!Removable(in, now, t) PROVE Sec(o) # Sec(t) /\ Num(X, Sec(t)) >= cap
      BY DEF Blocked, Full
    <3>1. Sec(o) # Sec(t) /\ ~(Num(X, Sec(t)) < cap)
      BY <1>8 DEF Shortlist!Partners, Shortlist!HasRoom
    <3>2. Num(X, Sec(t)) \in Nat
      BY <1>1, <1>2, SectorCount
    <3> QED
      BY <1>3, <3>1, <3>2
  <2>3. \A x \in (B \cup {t}) \ (P \cup X) : Blocked(in, now, x)
    BY <1>6, <1>8, <2>2
  <2> QED
    BY <1>1, <1>8, <2>1, <2>3 DEF SwapInv
<1>9. CASE ~now.stop /\ ~Shortlist!NoMoreSwaps(in, now) /\ t \notin now.kept \cup now.out
        /\ ~Shortlist!NoneRemovable(in, now, t) /\ ps # {}
  <2>1. PICK o \in ps : now2 = [now EXCEPT !.kept = (@ \ {o}) \cup {t}, !.out = @ \cup {o}, !.swaps = @ + 1]
    <3>1. Shortlist!Worst(in, ps) \in ps
      BY <1>2, <1>9, PartnersAre, WorstIs
    <3> QED
      BY <1>9, <3>1 DEF Shortlist!Swap
  <2> DEFINE Y == (X \ {o}) \cup {t}
  <2>2. now2.kept = Y /\ now2.out = now.out \cup {o} /\ now2.swaps = now.swaps + 1 /\ ~now2.stop
    BY <1>2, <1>9, <2>1 DEF SwapStates
  <2>3. /\ o \in X \cap P /\ in.prior[o] >= hold /\ Shortlist!Rank(in.ranking, o) > Shortlist!Rank(in.ranking, t)
        /\ Sec(o) = Sec(t) \/ Num(X, Sec(t)) < cap
    BY DEF Shortlist!Partners, Shortlist!Removable, Shortlist!HasRoom
  <2>4. /\ now.out = P \ X /\ F \ P \subseteq X /\ X \cap P \subseteq C
        /\ Cardinality(X) = Cardinality(F) /\ (\A s \in Sectors : Num(X, s) <= cap)
        /\ Cardinality(C \ X) = now.swaps /\ now.swaps <= drop /\ (\A x \in C \ X : in.prior[x] >= hold)
        /\ (Cardinality(F) < topk => \A s \in Sectors : Full(in, F, s) => Full(in, X, s))
    BY DEF SwapInv
  <2>5. t \notin P \cup X \cup F /\ now.swaps < drop
    BY <1>6, <1>9
  <2>6. C \subseteq P /\ C \subseteq Tickers
    BY <1>3, CarriedIs
  <2>7. Cardinality(Y) = Cardinality(X) /\ \A s : /\ Num(X, s) \in Nat
          /\ Num(Y, s) = Num(X, s) - (IF Sec(o) = s THEN 1 ELSE 0) + (IF Sec(t) = s THEN 1 ELSE 0)
    <3>1. X \subseteq Tickers /\ o \in X /\ t \in Tickers \ X
      BY <1>1, <1>2, <2>3, <2>5
    <3>2. \A s : Num(X, s) \in Nat
      BY <3>1, SectorCount
    <3> HIDE DEF X, t
    <3>3. Cardinality(Y) = Cardinality(X)
      BY ONLY <3>1, Exchange
    <3>4. ASSUME NEW s
          PROVE  Num(Y, s) = Num(X, s) - (IF Sec(o) = s THEN 1 ELSE 0) + (IF Sec(t) = s THEN 1 ELSE 0)
      BY ONLY <3>1, ExchangeInSector
    <3> QED
      BY <3>2, <3>3, <3>4
  <2>8. Cardinality(C \ Y) = now.swaps + 1 /\ C \ Y = (C \ X) \cup {o}
    <3>1. C \ Y = (C \ X) \cup {o} /\ o \notin C \ X /\ o \in Tickers /\ C \ X \subseteq Tickers
      BY <1>3, <2>3, <2>4, <2>5, <2>6
    <3>2. Cardinality((C \ X) \cup {o}) = Cardinality(C \ X) + 1
      BY <3>1, OneMore
    <3> QED
      BY <2>4, <3>1, <3>2
  <2>9. \A s \in Sectors : Num(Y, s) <= cap
    <3> TAKE s \in Sectors
    <3>1. /\ Num(X, s) \in Nat /\ Num(X, s) <= cap
          /\ Num(Y, s) = Num(X, s) - (IF Sec(o) = s THEN 1 ELSE 0) + (IF Sec(t) = s THEN 1 ELSE 0)
      BY <2>4, <2>7
    <3>2. Sec(t) = s => Sec(o) = s \/ Num(X, s) < cap
      BY <2>3
    <3> HIDE DEF t, X, Y, cap, Num, Sec
    <3> QED
      BY <1>3, <3>1, <3>2
  <2>10. ASSUME Cardinality(F) < topk, NEW s \in Sectors, Full(in, F, s) PROVE Full(in, Y, s)
    <3>1. Num(X, s) >= cap /\ Num(X, Sec(t)) >= cap
      <4>1. t \in Shortlist!Eligible(in.ranking) \ (P \cup F)
        BY <1>1, <2>5
      <4>2. Full(in, F, Sec(t))
        <5>1. t \in Best(in, Len(in.ranking)) \ (P \cup F)
          BY <4>1, InputIs
        <5>2. Cardinality(F) >= topk \/ Full(in, F, Sec(t))
          BY <5>1, FilledIs DEF FillInv
        <5>3. Cardinality(F) \in Nat
          <6>1. F \subseteq Tickers
            <7>1. F \subseteq C \cup Best(in, Len(in.ranking)) /\ Best(in, Len(in.ranking)) = E
              BY FilledIs, InputIs DEF FillInv
            <7> QED
              BY <1>1, <2>6, <7>1
          <6> QED
            BY <6>1, TickersAreFinite
        <5> QED
          BY <1>3, <2>10, <5>2, <5>3
      <4>3. Sec(t) \in Sectors
        BY <1>1, <1>3
      <4> QED
        BY <2>4, <2>10, <4>2, <4>3 DEF Full
    <3>2. Num(X, Sec(t)) \in Nat
      BY <2>7
    <3>3. Sec(o) = Sec(t)
      BY <1>3, <2>3, <3>1, <3>2
    <3>4. Num(Y, s) = Num(X, s)
      <4>1. Num(X, s) \in Nat /\ Num(Y, s) = Num(X, s) - (IF Sec(o) = s THEN 1 ELSE 0) + (IF Sec(t) = s THEN 1 ELSE 0)
        BY <2>7
      <4> HIDE DEF t, X, Y, Num, Sec
      <4> QED
        BY <3>3, <4>1
    <3> QED
      BY <3>1, <3>4 DEF Full
  <2>11. ASSUME NEW x \in (B \cup {t}) \ (P \cup Y) PROVE Blocked(in, now2, x)
    <3>1. x \in B \ (P \cup X)
      BY <2>3, <2>11
    <3>2. Blocked(in, now, x)
      BY <1>6, <1>9, <3>1
    <3>3. PICK i \in 1..n : x = in.ranking[i]
      BY <3>1 DEF Best
    <3>4. Shortlist!Removable(in, now, t) \subseteq Shortlist!Removable(in, now, x)
      BY <1>2, <3>3, RemovableFor, i \in 1..Len(in.ranking), n + 1 \in i..Len(in.ranking)
    <3>5. o \in Shortlist!Removable(in, now, x)
      BY <3>4, PartnersAre
    <3>6. Sec(o) # Sec(x) /\ Num(X, Sec(x)) >= cap
      BY <3>2, <3>5 DEF Blocked, Full
    <3>7. Num(Y, Sec(x)) >= cap
      <4>1. /\ Num(X, Sec(x)) \in Nat
            /\ Num(Y, Sec(x)) = Num(X, Sec(x)) - (IF Sec(o) = Sec(x) THEN 1 ELSE 0)
                                               + (IF Sec(t) = Sec(x) THEN 1 ELSE 0)
        BY <2>7
      <4> HIDE DEF t, X, Y, cap, Num, Sec
      <4> QED
        BY <1>3, <3>6, <4>1
    <3>8. Shortlist!Removable(in, now2, x) \subseteq Shortlist!Removable(in, now, x)
      BY <2>2, <2>5 DEF Shortlist!Removable
    <3> QED
      BY <2>2, <3>2, <3>7, <3>8 DEF Blocked, Full
  <2>12. /\ now2.out = P \ Y /\ F \ P \subseteq Y /\ Y \cap P \subseteq C
         /\ Cardinality(Y) = Cardinality(F) /\ now2.swaps <= drop
         /\ \A x \in C \ Y : in.prior[x] >= hold
    <3>1. now2.out = P \ Y /\ F \ P \subseteq Y /\ Y \cap P \subseteq C
      BY <2>2, <2>3, <2>4, <2>5
    <3>2. now2.swaps <= drop
      BY <1>2, <1>3, <2>2, <2>5
    <3> QED
      BY <2>3, <2>4, <2>7, <2>8, <3>1, <3>2
  <2>13. \A x \in (IF now2.stop THEN E ELSE Best(in, n + 1)) \ (P \cup now2.kept) : Blocked(in, now2, x)
    BY <1>1, <2>2, <2>11
  <2>14. Cardinality(F) < topk => \A s \in Sectors : Full(in, F, s) => Full(in, Y, s)
    BY <2>10
  <2>15. Cardinality(C \ now2.kept) = now2.swaps
    BY <2>2, <2>8
  <2> HIDE DEF Y, now2, ps, t, Sec
  <2>16. /\ now2.out = P \ now2.kept /\ F \ P \subseteq now2.kept /\ now2.kept \cap P \subseteq C
         /\ Cardinality(now2.kept) = Cardinality(F) /\ now2.swaps <= drop
         /\ \A x \in C \ now2.kept : in.prior[x] >= hold
    BY <2>2, <2>12
  <2>17. \A s \in Sectors : Shortlist!InSector(now2.kept, in.sector, s) <= cap
    BY <2>2, <2>9
  <2>18. Cardinality(F) < topk => \A s \in Sectors : Full(in, F, s) => Full(in, now2.kept, s)
    BY <2>2, <2>14
  <2>19. SwapInv(in, n + 1, now2)
    BY <1>4, <2>13, <2>15, <2>16, <2>17, <2>18 DEF SwapInv
  <2> QED
    BY <2>19 DEF now2, t
<1> QED
  BY <1>5, <1>7, <1>8, <1>9

LEMMA SwappedIs ==
  ASSUME NEW in \in Inputs
  PROVE  SwapInv(in, Len(in.ranking), Shortlist!Swapped(in))
<1>1. PICK m \in Nat : m = Len(in.ranking)
  BY InputIs
<1>2. PICK u \in [0..m -> SwapStates(in)] :
        /\ u[0] = [kept |-> Shortlist!Filled(in), out |-> Shortlist!Dropped(in), swaps |-> 0, stop |-> FALSE]
        /\ \A n \in 1..m : u[n] = Shortlist!Swap(in, u[n - 1], in.ranking[n])
        /\ Shortlist!Swapped(in) = u[m]
  BY <1>1, SwapLoop
<1> DEFINE T == {n \in 0..m : SwapInv(in, n,
      u[n])}  F == Shortlist!Filled(in)  C == Shortlist!Carried(in)  P == Shortlist!Members(in.prior)
<1>3. 0 \in T
  <2>1. PICK w \in SwapStates(in) : w = u[0]
    BY <1>2
  <2>2. w.kept = F /\ w.out = Shortlist!Dropped(in) /\ w.swaps = 0 /\ ~w.stop
    BY <1>2, <2>1
  <2>3. FillInv(in, m, F) /\ C \subseteq P
    BY <1>1, FilledIs, CarriedIs
  <2>4. w.out = P \ w.kept /\ F \ P \subseteq w.kept /\ w.kept \cap P \subseteq C /\ C \ w.kept = {}
    BY <2>2, <2>3 DEF FillInv, Shortlist!Dropped
  <2>5. Cardinality(C \ w.kept) = w.swaps /\ w.swaps <= in.params.n_drop
    <3>1. in.params.n_drop \in Nat
      BY InputIs
    <3>2. Cardinality(C \ w.kept) = 0
      <4>1. Cardinality({}) = 0
        BY FS_EmptySet
      <4> QED
        BY <2>4, <4>1
    <3> QED
      BY <2>2, <3>1, <3>2
  <2>6. Best(in, 0) = {}
    BY <1>1, BestNext
  <2>7. \A s \in Sectors : Shortlist!InSector(w.kept, in.sector, s) <= in.params.sector_cap
    BY <2>2, <2>3 DEF FillInv
  <2>8. SwapInv(in, 0, w)
    BY <2>2, <2>4, <2>5, <2>6, <2>7 DEF SwapInv
  <2> QED
    BY <2>1, <2>8
<1>4. \A n \in 0..(m - 1) : n \in T => n + 1 \in T
  <2> SUFFICES ASSUME NEW n \in 0..(m - 1), SwapInv(in, n, u[n]) PROVE n + 1 \in 0..m /\ SwapInv(in, n + 1, u[n + 1])
    OBVIOUS
  <2>1. n + 1 \in 1..m /\ (n + 1) - 1 = n
    OBVIOUS
  <2>2. u[n + 1] = Shortlist!Swap(in, u[n], in.ranking[n + 1])
    BY ONLY <1>2, <2>1
  <2>3. SwapInv(in, n + 1, Shortlist!Swap(in, u[n], in.ranking[n + 1]))
    BY <1>1, SwapStep
  <2> QED
    BY <2>1, <2>2, <2>3
<1>5. m \in T
  <2> HIDE DEF T
  <2>1. \A n \in 0..m : n \in T
    BY ONLY <1>3, <1>4, UpTo, m \in Nat
  <2> QED
    BY <2>1
<1> QED
  BY <1>1, <1>2, <1>5

-----------------------------------------------------------------------------
ListInv ==
  /\ held \in [Tickers -> 0..MaxHeld] /\ taken \in BOOLEAN
  /\ taken => given \in Inputs /\ held = Shortlist!Selected(given)

LEMMA SelectedType ==
  ASSUME NEW in \in Inputs
  PROVE  Shortlist!Selected(in) \in [Tickers -> 0..MaxHeld] /\ Shortlist!Members(Shortlist!Selected(in))
           = Shortlist!Swapped(in).kept
<1>1. \A n \in Nat : Shortlist!Capped(n + 1) \in 1..MaxHeld
  BY ShortlistAssumption DEF Shortlist!Capped
<1>2. \A t \in Tickers : in.prior[t] \in Nat
  BY ShortlistAssumption, InputIs
<1>3. \A t \in Tickers : Shortlist!Capped(in.prior[t] + 1) \in 1..MaxHeld
  BY <1>1, <1>2
<1>4. Shortlist!Swapped(in).kept \subseteq Tickers
  <2>1. Shortlist!Swapped(in).kept \subseteq Shortlist!Eligible(in.ranking)
          /\ Shortlist!Eligible(in.ranking) \subseteq Tickers
    <3>1. Shortlist!Swapped(in) \in SwapStates(in)
      BY SwappedIs DEF SwapInv
    <3>2. PICK m \in Nat : m = Len(in.ranking)
      BY InputIs
    <3>3. Best(in, m) = Shortlist!Eligible(in.ranking) /\ Best(in, m) \subseteq Tickers
      BY <3>2, BestNext
    <3> QED
      BY <3>1, <3>3 DEF SwapStates
  <2> QED
    BY <2>1
<1> DEFINE K == Shortlist!Swapped(in).kept  N(t) == Shortlist!Capped(in.prior[t] + 1)
<1>5. Shortlist!Selected(in) = [t \in Tickers |-> IF t \in K THEN N(t) ELSE 0]
  BY DEF Shortlist!Selected
<1>6. \A t \in Tickers : N(t) \in 1..MaxHeld
  BY <1>3
<1>7. K \subseteq Tickers
  BY <1>4
<1> HIDE DEF K, N
<1>8. Shortlist!Selected(in) \in [Tickers -> 0..MaxHeld]
  BY <1>5, <1>6, ShortlistAssumption
<1>9. Shortlist!Members(Shortlist!Selected(in)) = K
  BY <1>5, <1>6, <1>7 DEF Shortlist!Members
<1> QED
  BY <1>8, <1>9 DEF K

LEMMA ListStart == Shortlist!Init => ListInv
<1>1. 0 \in 0..MaxHeld
  BY ShortlistAssumption
<1>2. [t \in Tickers |-> 0] \in [Tickers -> 0..MaxHeld]
  BY <1>1
<1> QED
  BY <1>2 DEF Shortlist!Init, ListInv

LEMMA ListNext == ListInv /\ [Shortlist!Next]_shortlistVars => ListInv'
<1> SUFFICES ASSUME ListInv, [Shortlist!Next]_shortlistVars PROVE ListInv'
  OBVIOUS
<1>1. CASE Shortlist!TakeSnapshot
  <2>1. PICK ranking \in Shortlist!Rankings, sector \in Shortlist!SectorMaps, params \in Params :
          given' = [ranking |-> ranking, sector |-> sector, params |-> params, prior |-> held]
    BY <1>1 DEF Shortlist!TakeSnapshot
  <2>2. given' \in Inputs
    BY <2>1 DEF Inputs, ListInv
  <2>3. PICK in \in Inputs : in = given'
    BY <2>2
  <2>4. held' = Shortlist!Selected(in) /\ taken'
    BY <1>1, <2>3 DEF Shortlist!TakeSnapshot
  <2> QED
    BY <2>3, <2>4, SelectedType DEF ListInv
<1>2. CASE Shortlist!NewWeek
  BY <1>2 DEF Shortlist!NewWeek, ListInv
<1>3. CASE UNCHANGED shortlistVars
  BY <1>3 DEF shortlistVars, ListInv
<1> QED
  BY <1>1, <1>2, <1>3 DEF Shortlist!Next

LEMMA ListHolds == ASSUME ListInv PROVE Shortlist!TypeOK /\ Shortlist!ListIsSound /\ Shortlist!ChangesAreSmall
    /\ Shortlist!FreePlacesFilled /\ Shortlist!NoSwapMissed
<1>1. CASE ~taken
  BY <1>1 DEF ListInv, Shortlist!TypeOK, Shortlist!ListIsSound, Shortlist!ChangesAreSmall, Shortlist!FreePlacesFilled,
       Shortlist!NoSwapMissed
<1>2. CASE taken
  <2>1. PICK in \in Inputs : in = given
    BY <1>2 DEF ListInv
  <2> DEFINE E == Shortlist!Eligible(in.ranking)  P == Shortlist!Members(in.prior)  C == Shortlist!Carried(in)  F == Shortlist!Filled(in)
             X == Shortlist!Swapped(in).kept  w == Shortlist!Swapped(in)
             topk == in.params.topk  cap == in.params.sector_cap  drop == in.params.n_drop
  <2>2. Shortlist!Now = X /\ Shortlist!Prior = P
    BY <1>2, <2>1, SelectedType DEF ListInv, Shortlist!Now, Shortlist!Prior
  <2>3. E \subseteq Tickers /\ E = Best(in, Len(in.ranking))
    BY BestNext, InputIs
  <2>4. topk \in Nat /\ cap \in Nat /\ drop \in Nat /\ P \subseteq Tickers
        /\ in.sector \in [Tickers -> Sectors] /\ in.prior \in [Tickers -> 0..MaxHeld]
    BY InputIs
  <2>5. C \subseteq P \cap E /\ (P \cap E) \ C = ForcedIn(in)
    BY CarriedIs
  <2>6. /\ C \subseteq F /\ F \subseteq C \cup (E \ P) /\ Cardinality(F) <= topk
        /\ \A t \in E \ (P \cup F) : Cardinality(F) >= topk \/ Full(in, F, in.sector[t])
    BY <2>3, FilledIs DEF FillInv
  <2>7. SwapInv(in, Len(in.ranking), w)
    BY SwappedIs
  <2>8. X \subseteq E /\ w.swaps \in Nat
    BY <2>7 DEF SwapInv, SwapStates
  <2>9. Shortlist!Forced = ForcedIn(in)
    BY <2>1, <2>2, SameCount DEF Shortlist!Forced, ForcedIn, Shortlist!Ahead, AheadIn, Shortlist!Crowded, CrowdedIn,
         Shortlist!Better, Full, Shortlist!Prior
  <2>10. Shortlist!Voluntary = C \ X
    BY <2>1, <2>2, <2>5, <2>9 DEF Shortlist!Voluntary
  <2>11. Cardinality(X) = Cardinality(F) /\ Cardinality(F) \in Nat
    <3>1. F \subseteq Tickers
      BY <2>3, <2>5, <2>6
    <3>2. Cardinality(F) \in Nat
      BY <3>1, TickersAreFinite
    <3> QED
      BY <2>7, <3>2 DEF SwapInv
  <2>12. \A s \in Sectors : Shortlist!InSector(X, in.sector, s) <= cap
    BY <2>7 DEF SwapInv
  <2>13. Shortlist!ListIsSound
    BY <2>1, <2>2, <2>4, <2>6, <2>8, <2>11, <2>12, SameCount DEF Shortlist!ListIsSound
  <2>14. Shortlist!ChangesAreSmall
    BY <2>1, <2>7, <2>10, SameCount DEF Shortlist!ChangesAreSmall, SwapInv
  <2>15. Shortlist!FreePlacesFilled
    <3> SUFFICES ASSUME Cardinality(X) < topk, NEW t \in E \ (P \cup X)
                 PROVE  ~(Shortlist!InSector(X, in.sector, in.sector[t]) < cap)
      BY <2>1, <2>2, SameCount DEF Shortlist!FreePlacesFilled, Shortlist!RoomFor
    <3>1. t \notin F
      BY <2>7 DEF SwapInv
    <3>2. Full(in, F, in.sector[t])
      BY <2>4, <2>6, <2>11, <3>1
    <3>3. Full(in, X, in.sector[t])
      <4>1. in.sector[t] \in Sectors
        BY <2>3, <2>4
      <4> QED
        BY <2>7, <2>11, <3>2, <4>1 DEF SwapInv
    <3>4. Shortlist!InSector(X, in.sector, in.sector[t]) \in Nat
      BY <2>3, <2>8, SectorCount
    <3> QED
      BY <2>4, <3>3, <3>4 DEF Full
  <2>16. Shortlist!NoSwapMissed
    <3> SUFFICES ASSUME Cardinality(C \ X) < drop, NEW t \in E \ (P \cup X), NEW o \in X \cap P,
                        Shortlist!Rank(in.ranking, t) < Shortlist!Rank(in.ranking, o),
                            in.prior[o] >= in.params.hold_thresh
                 PROVE  in.sector[t] # in.sector[o] /\ ~(Shortlist!InSector(X, in.sector, in.sector[t]) < cap)
      BY <2>1, <2>2, <2>10, SameCount DEF Shortlist!NoSwapMissed, Shortlist!RoomFor, Shortlist!Better
    <3>1. Blocked(in, w, t)
      BY <2>3, <2>7 DEF SwapInv
    <3>2. o \in Shortlist!Removable(in, w, t)
      <4>1. Shortlist!Rank(in.ranking, t) \in Int /\ Shortlist!Rank(in.ranking, o) \in Int
        BY <2>8, RankType
      <4> QED
        BY <4>1 DEF Shortlist!Removable
    <3>3. Shortlist!InSector(X, in.sector, in.sector[t]) \in Nat
      BY <2>3, <2>8, SectorCount
    <3> QED
      BY <2>4, <3>1, <3>2, <3>3 DEF Blocked, Full
  <2>17. Shortlist!TypeOK
    BY <1>2, <2>1, <2>4 DEF Shortlist!TypeOK, ListInv
  <2> QED
    BY <2>13, <2>14, <2>15, <2>16, <2>17
<1> QED
  BY <1>1, <1>2 DEF ListInv

\* The weekly list, of any length and over any weeks, rankings, sectors and settings: it keeps
\* to its size and to the sector cap, holds only eligible names, changes by few of them and
\* not before their time, and leaves no place free and no swap out that was allowed.
THEOREM ShortlistIsBestAlways == SpecOne => []ShortlistIsBest
<1> DEFINE IInv == focus = "shortlist" => ListInv
<1>1. StartOne => IInv
  BY ListStart DEF StartOne
<1>2. IInv /\ [StepOne]_ruleVars => IInv'
  <2> SUFFICES ASSUME IInv, [StepOne]_ruleVars, focus' = "shortlist" PROVE ListInv'
    OBVIOUS
  <2>1. focus = "shortlist" /\ [Shortlist!Next]_shortlistVars
    BY DEF StepOne, ruleVars, shortlistVars
  <2> QED
    BY <2>1, ListNext
<1>3. IInv => ShortlistIsBest
  BY ListHolds DEF ShortlistIsBest
<1> QED
  BY <1>1, <1>2, <1>3, PTL DEF SpecOne
=============================================================================
