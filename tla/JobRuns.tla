------------------------------ MODULE JobRuns ------------------------------
(***************************************************************************)
(* One job of JobTable in one life of the process: its scheduled, manual   *)
(* and resumed runs, each in a thread of its own, against the restores     *)
(* that want the database to themselves (scheduler_engine.py, the restore  *)
(* route of api_routes_triggers.py).                                       *)
(*                                                                         *)
(* Two tables track runs.  _running_job_runs counts the tracked ones by    *)
(* job id and refuses manual runs; _active_jobs holds the label a body     *)
(* marks, and is what a restore looks at.  Both are read and written under *)
(* _active_jobs_lock, the scheduler's state under no lock of this code.    *)
(***************************************************************************)
EXTENDS Naturals, FiniteSets, JobTable

CONSTANTS
  ScheduledRuns, ManualRuns, ResumedRuns,  \* the runs of each kind
  Restorers,                               \* the requests that restore a backup
  Contended                                \* bound: the jobs under which restores may overlap

Runs == ScheduledRuns \union ManualRuns \union ResumedRuns
Tracked == ScheduledRuns \union ManualRuns

ASSUME RunsAssumption ==
  /\ IsFiniteSet(Runs)
  /\ ScheduledRuns \intersect ManualRuns = {} /\ Tracked \intersect ResumedRuns = {}

VARIABLES
  job,         \* the job under study
  run,         \* the locals of each run
  count,       \* _running_job_runs[job_id]
  active,      \* whether the job's label is in _active_jobs
  scheduler,   \* "running" or "paused"
  due,         \* the scheduler thread is past its state check, with the job due
  restorer,    \* the locals of each restore
  overlapped,  \* history: a run marked the label while another had it marked
  cleared,     \* history: the operator emptied _active_jobs
  crowded      \* history: a restore began while another was under way

history == <<overlapped, cleared, crowded>>
vars == <<job, run, count, active, scheduler, due, restorer, history>>

-----------------------------------------------------------------------------
Bodies == UNION {j.scheduled \union j.manual \union j.resumed : j \in Jobs}
RunStates == {"idle", "queued", "mark", "work", "unmark", "record", "uncount"}
Statuses == {"none", "success", "error"}
\* history: how the body ended.
Endings == {"well", "raises", "reports", "hides", "blank", "exits"}
Run == [pc : RunStates, body : Bodies, how : Endings, error_detail : BOOLEAN, status : Statuses]
Restorer == [pc : {"idle", "pause", "ask", "swap", "leave"}, paused : BOOLEAN, saw : SUBSET Runs]

TypeOK ==
  /\ job \in Jobs
  /\ run \in [Runs -> Run]
  /\ count \in Nat
  /\ active \in BOOLEAN
  /\ scheduler \in {"running", "paused"}
  /\ due \in BOOLEAN
  /\ restorer \in [Restorers -> Restorer]
  /\ {overlapped, cleared, crowded} \subseteq BOOLEAN

At(r, pc) == run[r].pc = pc
InProgress(r) == r \in Tracked /\ run[r].pc \in {"mark", "work", "unmark", "record", "uncount"}
Marked(r) == run[r].body.shown /\ run[r].pc \in {"work", "unmark"}

New(pc, body) == [pc |-> pc, body |-> body, how |-> "well", error_detail |-> FALSE, status |-> "none"]
AnyBody == CHOOSE b \in Bodies : TRUE
Idle == New("idle", AnyBody)
IdleRestorer == [pc |-> "idle", paused |-> FALSE, saw |-> {}]

\* resume_interrupted_scans has found the job's scan interrupted, or not.
Init ==
  /\ job \in Jobs
  /\ run \in [Runs -> {Idle} \union {New("mark", b) : b \in job.resumed}]
  /\ \A r \in Tracked : At(r, "idle")
  /\ count = 0 /\ active = FALSE
  /\ scheduler = "running" /\ due = FALSE
  /\ restorer = [x \in Restorers |-> IdleRestorer]
  /\ overlapped = FALSE /\ cleared = FALSE /\ crowded = FALSE

-----------------------------------------------------------------------------
(* Starting a run *)

\* The scheduler thread wakes up, sees that it is not paused and finds the job due.
Wake ==
  /\ scheduler = "running" /\ ~due /\ job.scheduled # {}
  /\ due' = TRUE
  /\ UNCHANGED <<job, run, count, active, scheduler, restorer, history>>

\* max_instances = 1: a run of the job that the scheduler itself started and
\* that has not ended makes it skip this one.
Instances == {r \in ScheduledRuns : ~At(r, "idle")}
Submit(r) ==
  /\ r \in ScheduledRuns /\ due /\ Instances = {}
  /\ \E b \in job.scheduled : run' = [run EXCEPT ![r] = New("queued", b)]
  /\ due' = FALSE
  /\ UNCHANGED <<job, count, active, scheduler, restorer, history>>

SkipInstance ==
  /\ due /\ Instances # {}
  /\ due' = FALSE
  /\ UNCHANGED <<job, run, count, active, scheduler, restorer, history>>

\* job_busy_response passes; the run is queued as a background task.
Trigger(r) ==
  /\ r \in ManualRuns /\ At(r, "idle") /\ count = 0
  /\ \E b \in job.manual : run' = [run EXCEPT ![r] = New("queued", b)]
  /\ UNCHANGED <<job, count, active, scheduler, due, restorer, history>>

\* _run_tracked_job, up to the call of the body.
Refused(r) == r \in ManualRuns /\ count > 0
Counted == count + 1

Count(r) ==
  /\ At(r, "queued") /\ ~Refused(r)
  /\ count' = Counted
  /\ run' = [run EXCEPT ![r].pc = IF run[r].body.shown THEN "mark" ELSE "work"]
  /\ UNCHANGED <<job, active, scheduler, due, restorer, history>>

SkipRun(r) ==
  /\ At(r, "queued") /\ Refused(r)
  /\ run' = [run EXCEPT ![r] = Idle]
  /\ UNCHANGED <<job, count, active, scheduler, due, restorer, history>>

-----------------------------------------------------------------------------
(* The body *)

\* _mark_job_started
Mark(r) ==
  /\ At(r, "mark")
  /\ active' = TRUE
  /\ overlapped' = (overlapped \/ \E s \in Runs : Marked(s))
  /\ run' = [run EXCEPT ![r].pc = "work"]
  /\ UNCHANGED <<job, count, scheduler, due, restorer, cleared, crowded>>

After(r) == IF run[r].body.shown THEN "unmark" ELSE "record"
Finish(r) ==
  /\ At(r, "work")
  /\ run' = [run EXCEPT ![r].pc = After(r)]
  /\ UNCHANGED <<job, count, active, scheduler, due, restorer, history>>

\* log_sched_notification of an Error in a body that goes on: it sets the error_detail
\* of the thread's context; a resumed run has none.
Alarm(r) ==
  /\ At(r, "work") /\ run[r].body.alarms
  /\ run' = [run EXCEPT ![r].error_detail = r \in Tracked]
  /\ UNCHANGED <<job, count, active, scheduler, due, restorer, history>>

\* The ways a body may fail: those of the table; where exceptions leave it, one without
\* a text ("blank": TimeoutError(), MemoryError()); in every body, what is not an
\* Exception ("exits": SystemExit).
Ways(body) ==
  body.fails \union {"exits"} \union (IF "raises" \in body.fails THEN {"blank"} ELSE {})

AfterFailure(r) == After(r)
\* The error goes into error_detail: the message by log_sched_notification, str(e) by
\* the except clause of _run_tracked_job.  Variant: only exceptions count.
OnlyRaises(way) == way = "raises"
SetsErrorDetail(way) == way \in {"reports", "raises"}
\* An empty str(e) replaces what was there; the except clause sees Exceptions alone.
DetailAfter(r, way) == r \in Tracked /\ way # "blank" /\ (SetsErrorDetail(way) \/ run[r].error_detail)

Fail(r, way) ==
  /\ At(r, "work") /\ way \in Ways(run[r].body)
  /\ run' = [run EXCEPT ![r].pc = AfterFailure(r), ![r].how = way, ![r].error_detail = DetailAfter(r, way)]
  /\ UNCHANGED <<job, count, active, scheduler, due, restorer, history>>

\* _mark_job_done; the label is one, whoever marked it.
Unmark(r) ==
  /\ At(r, "unmark")
  /\ active' = FALSE
  /\ run' = [run EXCEPT ![r] = IF r \in Tracked THEN [@ EXCEPT !.pc = "record"] ELSE Idle]
  /\ UNCHANGED <<job, count, scheduler, due, restorer, history>>

-----------------------------------------------------------------------------
(* The end of _run_tracked_job *)

\* An empty error_detail counts as none.
StatusOf(r) == IF run[r].error_detail THEN "error" ELSE "success"
\* _record_job_duration logs its own failure and goes on.
Record(r) ==
  /\ At(r, "record")
  /\ \E status \in {StatusOf(r), "none"} : run' = [run EXCEPT ![r].pc = "uncount", ![r].status = status]
  /\ UNCHANGED <<job, count, active, scheduler, due, restorer, history>>

\* Variant: the entry is removed even if another run is left.
Popped == 0
Decremented == count - 1
Uncount(r) ==
  /\ At(r, "uncount")
  /\ count' = Decremented
  /\ run' = [run EXCEPT ![r] = Idle]
  /\ UNCHANGED <<job, active, scheduler, due, restorer, history>>

-----------------------------------------------------------------------------
(* terminate_active_jobs: empties the table of labels, ends no run *)

ForceClear ==
  /\ active
  /\ active' = FALSE /\ cleared' = TRUE
  /\ UNCHANGED <<job, run, count, scheduler, due, restorer, overlapped, crowded>>

-----------------------------------------------------------------------------
(* scheduler_quiesced around restore_backup *)

Pauses == scheduler = "running"
Enter(x) ==
  /\ restorer[x].pc = "idle"
  /\ job \in Contended \/ \A y \in Restorers : restorer[y].pc = "idle"
  /\ restorer' = [restorer EXCEPT ![x] = [pc |-> IF Pauses THEN "pause" ELSE "ask",
                                          paused |-> Pauses, saw |-> {}]]
  /\ crowded' = (crowded \/ \E y \in Restorers : restorer[y].pc # "idle")
  /\ UNCHANGED <<job, run, count, active, scheduler, due, overlapped, cleared>>

Pause(x) ==
  /\ restorer[x].pc = "pause"
  /\ scheduler' = "paused"
  /\ restorer' = [restorer EXCEPT ![x].pc = "ask"]
  /\ UNCHANGED <<job, run, count, active, due, history>>

\* get_active_jobs, and the 409 of the route.
MayRestore == ~active
Ask(x) ==
  /\ restorer[x].pc = "ask"
  /\ restorer' = [restorer EXCEPT ![x].pc = IF MayRestore THEN "swap" ELSE "leave",
                                  ![x].saw = {r \in Runs : Marked(r)}]
  /\ UNCHANGED <<job, run, count, active, scheduler, due, history>>

\* restore_backup returns or raises.
Swapped(x) ==
  /\ restorer[x].pc = "swap"
  /\ restorer' = [restorer EXCEPT ![x].pc = "leave"]
  /\ UNCHANGED <<job, run, count, active, scheduler, due, history>>

\* Variant: a restore leaves the scheduler paused for the others.
ResumesAlone(x) ==
  restorer[x].paused /\ scheduler = "paused" /\ \A y \in Restorers \ {x} : restorer[y].pc = "idle"
Resumes(x) == restorer[x].paused /\ scheduler = "paused"
Leave(x) ==
  /\ restorer[x].pc = "leave"
  /\ scheduler' = IF Resumes(x) THEN "running" ELSE scheduler
  /\ restorer' = [restorer EXCEPT ![x] = IdleRestorer]
  /\ UNCHANGED <<job, run, count, active, due, history>>

-----------------------------------------------------------------------------
Step(r) ==
  \/ Submit(r) \/ Trigger(r) \/ Count(r) \/ SkipRun(r)
  \/ Mark(r) \/ Finish(r) \/ Unmark(r) \/ Record(r) \/ Uncount(r)
  \/ Alarm(r) \/ \E way \in Endings : Fail(r, way)

Restore(x) == Enter(x) \/ Pause(x) \/ Ask(x) \/ Swapped(x) \/ Leave(x)

Next ==
  \/ Wake \/ SkipInstance \/ ForceClear
  \/ \E r \in Runs : Step(r)
  \/ \E x \in Restorers : Restore(x)

Spec == Init /\ [][Next]_vars

-----------------------------------------------------------------------------
(* Properties *)

\* The counter is the number of tracked runs in progress, however they start, are
\* skipped, fail and end (_run_tracked_job): one left behind would refuse the job's
\* manual runs for the rest of the process's life.
CountsRuns == count = Cardinality({r \in Tracked : InProgress(r)})

\* Of the runs started by hand at most one is in progress, however many requests
\* pass job_busy_response before the first of them is counted.
OneByHand == \A r, s \in ManualRuns : InProgress(r) /\ InProgress(s) => r = s

\* No label is left behind: while it is there a body is at work, so a restore or a
\* restart is refused only for as long as one is (_mark_job_done, force_clear_active_jobs).
NoStaleLabel == active => \E r \in Runs : Marked(r)

\* Runs and bodies at work are what counter and label say they are.
RunsAreTracked == CountsRuns /\ OneByHand /\ NoStaleLabel

\* A restore never swaps the database under a body that had marked its label before
\* the restore looked, unless two bodies had marked the same label (a scheduled run
\* beside a manual or a resumed one) or the operator had cleared the table.
RestoreSeesLabels == \A x \in Restorers :
  restorer[x].pc = "swap" /\ ~overlapped /\ ~cleared => restorer[x].saw = {}

\* The scheduler is paused only while a restore that will resume it is under way,
\* however restores overlap (scheduler_quiesced).
SchedulerComesBack ==
  scheduler = "paused" => \E x \in Restorers : restorer[x].paused /\ restorer[x].pc \in {"ask", "swap", "leave"}

\* As long as restores come one at a time, the scheduler stays paused from before the
\* labels are read until the restore is over.
PausedWhileRestoring == \A x \in Restorers :
  restorer[x].pc \in {"ask", "swap", "leave"} /\ ~crowded => scheduler = "paused"

\* Restores look before they swap, and keep the scheduler paused for as long as they
\* last and no longer.
RestoresAreSafe == RestoreSeesLabels /\ SchedulerComesBack /\ PausedWhileRestoring

\* The history says error of every recorded run whose failure was reported or left the
\* body as an exception with a text, and of no other, save a system check that found an
\* issue: what a body hides, an exception without a text and an exit are successes
\* (log_sched_notification, _run_tracked_job).
Told(how) == how \in {"raises", "reports"}
FailuresRecorded == \A r \in Tracked : At(r, "uncount") /\ run[r].status # "none" =>
  /\ Told(run[r].how) => run[r].status = "error"
  /\ run[r].status = "error" => Told(run[r].how) \/ run[r].body.alarms

\* "Pauses job firing and yields the jobs already running" (scheduler_quiesced): what
\* it yields is every run of the job, so a restore has the database to itself.
RestoreIsAlone == \A x \in Restorers : restorer[x].pc = "swap" => \A r \in Runs : At(r, "idle")

\* "Scheduled job firing is paused for the whole restore" (assets/api_reference.md).
FiringPaused == \A x \in Restorers : restorer[x].pc = "swap" => scheduler = "paused"

\* A manual trigger "refuses with 409 while that job id is already running"
\* (assets/api_reference.md): no run by hand works next to another body of the job
\* that was there before.
TriggersRefused == \A r \in ManualRuns, s \in ResumedRuns : ~(Marked(r) /\ Marked(s))

\* Runs that failed are recorded as failed, whatever their body.
AllFailuresRecorded == \A r \in Tracked :
  At(r, "uncount") /\ run[r].status # "none" => (run[r].status = "error") = (run[r].how # "well")
=============================================================================
