--------------------------- MODULE BacktestRuns ---------------------------
(***************************************************************************)
(* The life of a strategy backtest (strategy_backtest_runs.py).  A request *)
(* saves a queued row; a background task takes it, computes, writes the    *)
(* series into a folder, and completes the row; then old runs are pruned,  *)
(* rows first, folders after.  Nothing restarts a task that a restart of   *)
(* the server has lost: whoever looks at the runs declares those failed    *)
(* that have been going for too long, by their age alone.  The user may    *)
(* delete a run at any time.                                               *)
(*                                                                         *)
(* Abstraction: runs are numbered in the order they are created; a run     *)
(* succeeds or fails as it likes.                                          *)
(***************************************************************************)
EXTENDS Naturals, FiniteSets

CONSTANTS
  MaxRuns,    \* bound: runs created
  MaxSaved,   \* MAX_SAVED_RUNS
  Overdue,    \* INTERRUPTED_AFTER, in ticks
  MaxCrashes  \* bound: restarts of the server

Runs == 1..MaxRuns

VARIABLES
  state,    \* state[r]: the row's, "none" before it is created, "gone" after it is deleted
  age,      \* age[r]: ticks since created_at, up to Overdue
  folder,   \* folder[r]: the series on disk, "none", "partial" or "whole"
  at,       \* at[r]: where execute_run of r is
  stale,    \* stale[r]: the runs whose rows its prune_runs has deleted, folders not yet
  deleting, \* the run delete_run is at work on, and what is next
  late,     \* the runs that were declared interrupted while their task was alive
  crashes

runVars == <<state, age, folder, at, stale, deleting, late, crashes>>

Nobody == [run |-> 0, step |-> "idle"]

Init ==
  /\ state = [r \in Runs |-> "none"]
  /\ age = [r \in Runs |-> 0]
  /\ folder = [r \in Runs |-> "none"]
  /\ at = [r \in Runs |-> "idle"]
  /\ stale = [r \in Runs |-> {}]
  /\ deleting = Nobody
  /\ late = {}
  /\ crashes = 0

(* _update: a row that is not there is not written. *)
Updated(r, s) == state' = IF state[r] = "gone" THEN state ELSE [state EXCEPT ![r] = s]
Goes(r, next) == at' = [at EXCEPT ![r] = next]

-----------------------------------------------------------------------------
(* create_run, execute_run *)

Create(r) ==
  /\ state[r] = "none" /\ \A q \in 1..(r - 1) : state[q] # "none"
  /\ state' = [state EXCEPT ![r] = "queued"]
  /\ Goes(r, "waiting")
  /\ UNCHANGED <<age, folder, stale, deleting, late, crashes>>

Look(r) ==
  /\ at[r] = "waiting"
  /\ Goes(r, IF state[r] = "queued" THEN "claim" ELSE "idle")
  /\ UNCHANGED <<state, age, folder, stale, deleting, late, crashes>>

Claim(r) ==
  /\ at[r] = "claim"
  /\ Updated(r, "running")
  /\ Goes(r, "compute")
  /\ UNCHANGED <<age, folder, stale, deleting, late, crashes>>

(* _store: a folder, then three files. *)
MakeFolder(r) ==
  /\ at[r] = "compute"
  /\ folder' = [folder EXCEPT ![r] = "partial"]
  /\ Goes(r, "write")
  /\ UNCHANGED <<state, age, stale, deleting, late, crashes>>

Write(r) ==
  /\ at[r] = "write" /\ folder[r] # "none"
  /\ folder' = [folder EXCEPT ![r] = "whole"]
  /\ Goes(r, "complete")
  /\ UNCHANGED <<state, age, stale, deleting, late, crashes>>

Complete(r) ==
  /\ at[r] = "complete"
  /\ Updated(r, "completed")
  /\ Goes(r, "prune")
  /\ UNCHANGED <<age, folder, stale, deleting, late, crashes>>

AfterFailure == "clean"

(* The computation, a write or the last update fails; the folder may have  *)
(* been removed under it.                                                  *)
Fail(r) ==
  /\ at[r] \in {"compute", "write", "complete"}
  /\ Goes(r, AfterFailure)
  /\ UNCHANGED <<state, age, folder, stale, deleting, late, crashes>>

Clean(r) ==
  /\ at[r] = "clean"
  /\ folder' = [folder EXCEPT ![r] = "none"]
  /\ Goes(r, "failed")
  /\ UNCHANGED <<state, age, stale, deleting, late, crashes>>

RecordFailure(r) ==
  /\ at[r] = "failed"
  /\ Updated(r, "failed")
  /\ Goes(r, "prune")
  /\ UNCHANGED <<age, folder, stale, deleting, late, crashes>>

Finished == {r \in Runs : state[r] \in {"completed", "failed"}}

(* prune_runs: the newest MaxSaved of the finished runs stay. *)
Beyond == {r \in Finished : Cardinality({q \in Finished : q > r}) >= MaxSaved}

Prune(r) ==
  /\ at[r] = "prune"
  /\ stale' = [stale EXCEPT ![r] = Beyond]
  /\ state' = [q \in Runs |-> IF q \in Beyond THEN "gone" ELSE state[q]]
  /\ Goes(r, "sweep")
  /\ UNCHANGED <<age, folder, deleting, late, crashes>>

Sweep(r) ==
  /\ at[r] = "sweep"
  /\ folder' = [q \in Runs |-> IF q \in stale[r] THEN "none" ELSE folder[q]]
  /\ stale' = [stale EXCEPT ![r] = {}]
  /\ Goes(r, "idle")
  /\ UNCHANGED <<state, age, deleting, late, crashes>>

-----------------------------------------------------------------------------
(* expire_interrupted_runs, delete_run *)

(* Variant: a run that was never taken is left queued. *)
OnlyRunning(r) == state[r] = "running" /\ age[r] = Overdue
Interrupted(r) == state[r] \in {"queued", "running"} /\ age[r] = Overdue

Expire ==
  LET expired == {r \in Runs : Interrupted(r)}
  IN /\ expired # {}
     /\ state' = [r \in Runs |-> IF r \in expired THEN "failed" ELSE state[r]]
     /\ late' = late \cup {r \in expired : at[r] # "idle"}
     /\ UNCHANGED <<age, folder, at, stale, deleting, crashes>>

Deletable(r) == state[r] \in {"completed", "failed"}

DeleteAsk(r) ==
  /\ deleting = Nobody
  /\ Deletable(r)
  /\ deleting' = [run |-> r, step |-> "row"]
  /\ UNCHANGED <<state, age, folder, at, stale, late, crashes>>

DeleteRow ==
  /\ deleting.step = "row"
  /\ state' = [state EXCEPT ![deleting.run] = "gone"]
  /\ deleting' = [deleting EXCEPT !.step = "folder"]
  /\ UNCHANGED <<age, folder, at, stale, late, crashes>>

DeleteFolder ==
  /\ deleting.step = "folder"
  /\ folder' = [folder EXCEPT ![deleting.run] = "none"]
  /\ deleting' = Nobody
  /\ UNCHANGED <<state, age, at, stale, late, crashes>>

-----------------------------------------------------------------------------
Older(r) == IF state[r] \notin {"none", "gone"} /\ age[r] < Overdue THEN age[r] + 1 ELSE age[r]

Tick ==
  /\ \E r \in Runs : Older(r) # age[r]
  /\ age' = [r \in Runs |-> Older(r)]
  /\ UNCHANGED <<state, folder, at, stale, deleting, late, crashes>>

(* The server restarts: the tasks are gone. *)
Crash ==
  /\ crashes < MaxCrashes
  /\ \E r \in Runs : at[r] # "idle" \/ deleting # Nobody
  /\ crashes' = crashes + 1
  /\ at' = [r \in Runs |-> "idle"]
  /\ stale' = [r \in Runs |-> {}]
  /\ deleting' = Nobody
  /\ UNCHANGED <<state, age, folder, late>>

Execute(r) == \/ Look(r) \/ Claim(r) \/ MakeFolder(r) \/ Write(r) \/ Complete(r) \/ Fail(r)
              \/ Clean(r) \/ RecordFailure(r) \/ Prune(r) \/ Sweep(r)

Next == \/ Expire \/ DeleteRow \/ DeleteFolder \/ Tick \/ Crash
        \/ \E r \in Runs : Create(r) \/ Execute(r) \/ DeleteAsk(r)

Spec == Init /\ [][Next]_runVars

(* Time passes, and the page asks for the runs again and again. *)
Polling == WF_runVars(Tick) /\ WF_runVars(Expire)

FairSpec == Spec /\ Polling

-----------------------------------------------------------------------------
(* Properties *)

States == {"none", "queued", "running", "completed", "failed", "gone"}

TypeOK ==
  /\ state \in [Runs -> States] /\ age \in [Runs -> 0..Overdue]
  /\ folder \in [Runs -> {"none", "partial", "whole"}]
  /\ at \in [Runs -> {"idle", "waiting", "claim", "compute", "write", "complete", "clean", "failed",
                      "prune", "sweep"}]
  /\ stale \in [Runs -> SUBSET Runs] /\ late \subseteq Runs

(* A run that is shown as completed has all its series, whatever else was  *)
(* pruned, deleted, expired or lost meanwhile.                             *)
CompletedIsWhole == \A r \in Runs : state[r] = "completed" => folder[r] = "whole"

(* No folder outlives its row: once a row is gone, its folder goes too,    *)
(* except after a restart in between, or for a run that was declared       *)
(* interrupted while it was still computing.                               *)
FolderHasRow ==
  \A r \in Runs : state[r] = "gone" /\ folder[r] # "none" =>
    \/ r \in late \/ crashes > 0
    \/ deleting.run = r \/ \E q \in Runs : r \in stale[q]

(* A run in progress is never removed, whatever its age. *)
InProgressIsKept ==
  [][\A r \in Runs : state[r] \in {"queued", "running"} /\ r \notin late => state'[r] # "gone"]_runVars

(* Every run comes to an end that the user sees, also when a restart has   *)
(* lost its task.                                                          *)
RunsSettle == \A r \in Runs : state[r] \in {"queued", "running"} ~> state[r] \notin {"queued", "running"}

(* What the documentation says: an interrupted run is marked failed.  The  *)
(* mark is final.                                                          *)
InterruptedIsFinal ==
  [][\A r \in Runs : state[r] = "failed" => state'[r] \in {"failed", "gone"}]_runVars
=============================================================================
