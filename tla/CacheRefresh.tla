--------------------------- MODULE CacheRefresh ---------------------------
(***************************************************************************)
(* The coordinator of background refreshes (cache_refresh_helpers.py).     *)
(* Every cache asks it for a refresh under a key: a page asks in the       *)
(* background and goes on, an engine submits and waits for the result.     *)
(* Both kinds have worker threads of their own.  A caller that waits takes *)
(* a background refresh that is still queued off its queue and submits it  *)
(* anew.  A refresh that failed is not repeated for a while.               *)
(*                                                                         *)
(* Abstraction: a refresh is a job of a key that succeeds or fails as it   *)
(* likes; _retry_after holds the keys whose time has not come.             *)
(***************************************************************************)
EXTENDS Naturals, FiniteSets

CONSTANTS
  Keys,
  Threads,      \* callers
  Workers,      \* Workers[p]: max_workers of the pool
  Limit,        \* background refreshes pending at most (64)
  MaxJobs       \* bound: futures made

ASSUME KeysAssumption == IsFiniteSet(Keys)
ASSUME BoundAssumption == Limit \in Nat /\ MaxJobs \in Nat

Jobs == 1..MaxJobs
NoJob == 0

VARIABLES
  made,     \* the last future made
  job,      \* job[j]: its key, its pool, its phase and its done callback
  pending,  \* _pending: the future of each key, NoJob without one
  awaited,  \* _awaited_keys
  backoff,  \* the keys of _retry_after
  caller    \* caller[t]: where thread t is, and with which future

refreshVars == <<made, job, pending, awaited, backoff, caller>>

Unmade == [key |-> CHOOSE k \in Keys : TRUE, pool |-> "background", phase |-> "unmade", callback |-> "unset"]
Away == [at |-> "idle", job |-> NoJob, waits |-> FALSE]

Init ==
  /\ made = 0
  /\ job = [j \in Jobs |-> Unmade]
  /\ pending = [k \in Keys |-> NoJob]
  /\ awaited = {} /\ backoff = {}
  /\ caller = [t \in Threads |-> Away]

Over(j) == job[j].phase \in {"done", "cancelled"}
Busy(p) == {j \in Jobs : job[j].pool = p /\ job[j].phase \in {"running", "ended"}}

-----------------------------------------------------------------------------
(* _submit *)

(* The futures that are done are forgotten first. *)
Live == [k \in Keys |-> IF pending[k] # NoJob /\ Over(pending[k]) THEN NoJob ELSE pending[k]]
LiveAwaited == {k \in awaited : pending[k] = NoJob \/ Live[k] # NoJob}

(* Variant: whoever waits may take any queued future off its queue. *)
TakesAny(k, waits) == waits /\ Live[k] # NoJob /\ job[Live[k]].phase = "queued"
(* existing.cancel() succeeds: it is still queued. *)
Takes(k, waits) == k \notin LiveAwaited /\ waits /\ Live[k] # NoJob /\ job[Live[k]].phase = "queued"

Joins(k, waits) == Live[k] # NoJob /\ ~Takes(k, waits)

(* cancel() runs the callback at once, under the same lock, if it has been *)
(* added: the future is forgotten.                                         *)
CallsBack(k, waits) == Takes(k, waits) /\ job[Live[k]].callback = "set"
PendingThen(k, waits) == IF CallsBack(k, waits) THEN [Live EXCEPT ![k] = NoJob] ELSE Live
AwaitedThen(k, waits) == IF CallsBack(k, waits) THEN LiveAwaited \ {k} ELSE LiveAwaited
JobsThen(k, waits) ==
  IF ~Takes(k, waits) THEN job
  ELSE [job EXCEPT ![Live[k]].phase = "cancelled",
                   ![Live[k]].callback = IF CallsBack(k, waits) THEN "ran" ELSE @]

Entries(k, waits) == Cardinality({q \in Keys : PendingThen(k, waits)[q] # NoJob})
Background(k, waits) == Entries(k, waits) - Cardinality(AwaitedThen(k, waits))

(* Variant: a background refresh is queued also while its key backs off. *)
RefusesWaiting(k, waits, force) ==
  \/ waits /\ ~force /\ k \in backoff
  \/ ~waits /\ Background(k, waits) >= Limit
Refuses(k, waits, force) ==
  \/ ~force /\ k \in backoff
  \/ ~waits /\ Background(k, waits) >= Limit

(* An existing future is handed out. *)
Join(t, k, waits) ==
  /\ Joins(k, waits)
  /\ pending' = Live /\ awaited' = LiveAwaited
  /\ caller' = IF waits THEN [caller EXCEPT ![t] = [at |-> "wait", job |-> Live[k], waits |-> TRUE]]
               ELSE caller
  /\ UNCHANGED <<made, job, backoff>>

Refuse(t, k, waits, force) ==
  /\ ~Joins(k, waits)
  /\ Refuses(k, waits, force)
  /\ pending' = PendingThen(k, waits) /\ awaited' = AwaitedThen(k, waits)
  /\ job' = JobsThen(k, waits)
  /\ UNCHANGED <<made, backoff, caller>>

Submit(t, k, waits, force) ==
  /\ ~Joins(k, waits)
  /\ ~Refuses(k, waits, force)
  /\ made < MaxJobs
  /\ made' = made + 1
  /\ job' = [JobsThen(k, waits) EXCEPT ![made'] =
               [key |-> k, pool |-> IF waits THEN "awaited" ELSE "background",
                phase |-> "queued", callback |-> "unset"]]
  /\ pending' = [PendingThen(k, waits) EXCEPT ![k] = made']
  /\ awaited' = IF waits THEN AwaitedThen(k, waits) \cup {k} ELSE AwaitedThen(k, waits)
  /\ caller' = [caller EXCEPT ![t] = [at |-> "register", job |-> made', waits |-> waits]]
  /\ UNCHANGED backoff

(* submit_cache_refresh waits and may force, request_cache_refresh does neither. *)
Ask(t) ==
  /\ caller[t].at = "idle"
  /\ \E k \in Keys, waits, force \in BOOLEAN :
       /\ force => waits
       /\ Join(t, k, waits) \/ Refuse(t, k, waits, force) \/ Submit(t, k, waits, force)

(* add_done_callback, after the lock was given back. *)
Register(t) ==
  /\ caller[t].at = "register"
  /\ job' = [job EXCEPT ![caller[t].job].callback = "set"]
  /\ caller' = [caller EXCEPT ![t] = IF caller[t].waits THEN [@ EXCEPT !.at = "wait"] ELSE Away]
  /\ UNCHANGED <<made, pending, awaited, backoff>>

(* future.result() *)
Answer(t) ==
  /\ caller[t].at = "wait" /\ Over(caller[t].job)
  /\ caller' = [caller EXCEPT ![t] = Away]
  /\ UNCHANGED <<made, job, pending, awaited, backoff>>

-----------------------------------------------------------------------------
(* The workers, _refresh and _forget_completed *)

Start(j) ==
  /\ job[j].phase = "queued"
  /\ Cardinality(Busy(job[j].pool)) < Workers[job[j].pool]
  /\ \A i \in 1..(j - 1) : job[i].phase = "queued" => job[i].pool # job[j].pool
  /\ job' = [job EXCEPT ![j].phase = "running"]
  /\ UNCHANGED <<made, pending, awaited, backoff, caller>>

End(j) ==
  /\ job[j].phase = "running"
  /\ job' = [job EXCEPT ![j].phase = "ended"]
  /\ \E failed \in BOOLEAN :
       backoff' = IF failed THEN backoff \cup {job[j].key} ELSE backoff \ {job[j].key}
  /\ UNCHANGED <<made, pending, awaited, caller>>

(* The future gets its result; its callbacks are called after that. *)
SetResult(j) ==
  /\ job[j].phase = "ended"
  /\ job' = [job EXCEPT ![j].phase = "done"]
  /\ UNCHANGED <<made, pending, awaited, backoff, caller>>

IsPending(j) == pending[job[j].key] = j

Forget(j) ==
  /\ Over(j) /\ job[j].callback = "set"
  /\ job' = [job EXCEPT ![j].callback = "ran"]
  /\ IF IsPending(j)
     THEN pending' = [pending EXCEPT ![job[j].key] = NoJob] /\ awaited' = awaited \ {job[j].key}
     ELSE UNCHANGED <<pending, awaited>>
  /\ UNCHANGED <<made, backoff, caller>>

(* The time in _retry_after is over. *)
MayRetry ==
  /\ backoff # {}
  /\ \E k \in backoff : backoff' = backoff \ {k}
  /\ UNCHANGED <<made, job, pending, awaited, caller>>

Work(j) == Start(j) \/ End(j) \/ SetResult(j) \/ Forget(j)

Next ==
  \/ \E t \in Threads : Ask(t) \/ Register(t) \/ Answer(t)
  \/ \E j \in Jobs : Work(j)
  \/ MayRetry

Spec == Init /\ [][Next]_refreshVars

-----------------------------------------------------------------------------
(* Properties *)

TypeOK ==
  /\ made \in 0..MaxJobs
  /\ \A j \in Jobs : /\ job[j].phase \in {"unmade", "queued", "running", "ended", "done", "cancelled"}
                     /\ job[j].callback \in {"unset", "set", "ran"}
  /\ \A k \in Keys : pending[k] # NoJob => pending[k] <= made /\ job[pending[k]].key = k
  /\ awaited \subseteq {k \in Keys : pending[k] # NoJob}
  /\ backoff \subseteq Keys

Active(k) == {j \in Jobs : job[j].key = k /\ job[j].phase \in {"queued", "running", "ended"}}
Flight ==
  [k \in Keys |-> IF \E j \in Active(k) : job[j].phase # "queued" THEN "running"
                  ELSE IF Active(k) # {} THEN "queued" ELSE "idle"]

Promise == INSTANCE SingleFlight WITH flight <- Flight

(* A refresh that was accepted is carried out, once, also when a waiting   *)
(* caller takes it off its queue: the coordinator implements SingleFlight. *)
AcceptedIsCarriedOut == Promise!Spec

(* One refresh of a key at a time, also while the callback of an earlier   *)
(* one is still to come.                                                   *)
OneAtATime == \A k \in Keys : Cardinality(Active(k)) <= 1

(* A caller that waits never waits behind background refreshes, and the    *)
(* refresh it waits for is never taken away by another caller.             *)
WaitersAreServed ==
  \A t \in Threads : caller[t].at = "wait" =>
    LET j == job[caller[t].job]
    IN /\ j.phase # "cancelled"
       /\ j.phase = "queued" => j.pool = "awaited"

(* The background refreshes in progress stay within the limit, whatever    *)
(* was taken over by waiting callers.                                      *)
BacklogBounded ==
  Cardinality({j \in Jobs : job[j].pool = "background" /\ job[j].phase \in {"queued", "running", "ended"}})
    <= Limit

(* One refresh per key, a bounded backlog, and nobody waits for nothing.   *)
FlightsServed == TypeOK /\ OneAtATime /\ WaitersAreServed /\ BacklogBounded
=============================================================================
