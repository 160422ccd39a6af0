-------------------------- MODULE ModelRetraining --------------------------
(***************************************************************************)
(* The automatic retraining of persisted models whose library version no   *)
(* longer matches: model_compatibility_engine.py reports each affected     *)
(* training job once, scheduler_engine.py queues the job and hands one job *)
(* at a time to APScheduler, whose completion events move the queue on.    *)
(*                                                                         *)
(* A Thread is any thread that runs this code: the startup scan, a loader  *)
(* in a request or a scheduled job, or the executor thread that delivers a *)
(* completion event.  Code under _model_retraining_lock is one action;     *)
(* every APScheduler call outside it is a step of its own.                 *)
(***************************************************************************)
EXTENDS Naturals, Sequences, FiniteSets

CONSTANTS
  Families,         \* ids of the training jobs ("ml_training_job", ...)
  Runners,          \* the keys of _MODEL_RETRAIN_RUNNERS
  Recurring,        \* the families reload_scheduler gives a recurring job
  Threads,
  None,
  MaxReloads,       \* bound: saves of the settings during the retraining
  MaxRegularFires,  \* bound: firings of a recurring job on its own schedule
  MaxMisfires       \* bound: due times missed by more than misfire_grace_time

ASSUME FamilyAssumption ==
  /\ Runners \subseteq Families
  /\ Recurring \subseteq Families
  /\ None \notin Families

ASSUME BoundAssumption ==
  /\ MaxReloads \in Nat
  /\ MaxRegularFires \in Nat
  /\ MaxMisfires \in Nat

VARIABLES
  reported,        \* _reported_jobs
  pendingReports,  \* _pending_reports, kept until the callback is installed
  callback,        \* whether set_retraining_callback has run
  queue,           \* _model_retraining_queue
  queued,          \* _model_retraining_queued
  current,         \* _model_retraining_current
  jobs,            \* APScheduler's job store: kind and next run time per family
  running,         \* families with a run in the executor (max_instances = 1)
  events,          \* completion events not yet handed to _on_job_event
  pc, inHand,      \* where each thread is, and the family it handles there
  todo,            \* the reports each thread still has to queue
  reloading,       \* recurring jobs a running reload_scheduler has yet to add
  reloads, regularFires, misfires,
  served,          \* history: the families popped from the queue, in order
  robbed,          \* history: families whose turn lost its run
  dropped          \* history: reports lost with a thread that raised

compatVars == <<reported, pendingReports, callback>>
queueVars  == <<queue, queued, current, served>>
threadVars == <<pc, inHand, todo>>
envVars    == <<reloading, reloads, regularFires, misfires>>
histVars   == <<robbed, dropped>>
vars == <<compatVars, queueVars, jobs, running, events, threadVars, envVars, histVars>>

-----------------------------------------------------------------------------
Absent       == [kind |-> "none", next |-> "never"]
OnSchedule   == [kind |-> "cron", next |-> "sched"]
OneShot      == [kind |-> "date", next |-> "soon"]
Jobs         == {Absent} \union [kind : {"cron"}, next : {"paused", "sched", "soon"}]
                         \union [kind : {"date"}, next : {"paused", "soon"}]
Places       == {"idle", "queue", "hold", "pause", "pick", "look", "modify", "add"}

Exists(f)       == jobs[f].kind # "none"
Elements(s)     == {s[i] : i \in DOMAIN s}

\* A family is reported once per process.  Variant: no _reported_jobs test.
EveryReport(f)    == f \in Families
NotYetReported(f) == f \notin reported

\* The early return of the dispatcher.  Variant: it forgets the family in turn.
QueueIsEmpty      == queue = <<>>
NothingToDispatch == current # None \/ queue = <<>>

\* What the pop leaves in the set.
Unqueue(f)    == queued \ {f}

\* Where a thread goes when it has finished with one family.
Resume(t) == IF todo[t] = {} THEN "idle" ELSE "queue"

\* The job record after its due time: a recurring job returns to its own
\* schedule, a one-shot job leaves the store.
AfterDue(f) == IF jobs[f].kind = "date" THEN Absent ELSE OnSchedule

\* get_job decides how the family is started.
DispatchStep(t) == IF Exists(inHand[t]) THEN "modify" ELSE "add"

Init ==
  /\ reported = {} /\ pendingReports = {} /\ callback = FALSE
  /\ queue = <<>> /\ queued = {} /\ current = None /\ served = <<>>
  /\ jobs = [f \in Families |-> IF f \in Recurring THEN OnSchedule ELSE Absent]
  /\ running = {}
  /\ events = [f \in Families |-> 0]
  /\ pc = [t \in Threads |-> "idle"]
  /\ inHand = [t \in Threads |-> None]
  /\ todo = [t \in Threads |-> {}]
  /\ reloading = {} /\ reloads = 0 /\ regularFires = 0 /\ misfires = 0
  /\ robbed = {} /\ dropped = {}

-----------------------------------------------------------------------------
(* model_compatibility_engine *)

\* _report_mismatch: a family is reported once per process; before the
\* scheduler installs its callback the report is kept.
Report(t, f) ==
  /\ pc[t] = "idle"
  /\ NotYetReported(f)
  /\ reported' = reported \union {f}
  /\ IF callback
       THEN /\ todo' = [todo EXCEPT ![t] = {f}]
            /\ pc' = [pc EXCEPT ![t] = "queue"]
            /\ UNCHANGED pendingReports
       ELSE /\ pendingReports' = pendingReports \union {f}
            /\ UNCHANGED <<todo, pc>>
  /\ UNCHANGED <<callback, queueVars, jobs, running, events, inHand, envVars, histVars>>

\* set_retraining_callback: installs the callback and queues what was kept.
SetRetrainingCallback(t) ==
  /\ pc[t] = "idle"
  /\ ~callback
  /\ callback' = TRUE
  /\ pendingReports' = {}
  /\ todo' = [todo EXCEPT ![t] = pendingReports]
  /\ pc' = [pc EXCEPT ![t] = IF pendingReports = {} THEN "idle" ELSE "queue"]
  /\ UNCHANGED <<reported, queueVars, jobs, running, events, inHand, envVars, histVars>>

-----------------------------------------------------------------------------
(* queue_model_retraining *)

\* The section under the lock; should_dispatch decides the thread's next call.
Enqueue(t, f) ==
  /\ pc[t] = "queue"
  /\ f \in todo[t]
  /\ todo' = [todo EXCEPT ![t] = @ \ {f}]
  /\ IF f = current \/ f \in queued
       THEN /\ pc' = [pc EXCEPT ![t] = IF todo[t] = {f} THEN "idle" ELSE "queue"]
            /\ UNCHANGED <<queue, queued, inHand>>
       ELSE /\ queue' = Append(queue, f)
            /\ queued' = queued \union {f}
            /\ inHand' = [inHand EXCEPT ![t] = f]
            /\ pc' = [pc EXCEPT ![t] = IF current = None THEN "pick" ELSE "hold"]
  /\ UNCHANGED <<compatVars, current, served, jobs, running, events, envVars, histVars>>

\* After the notification: does the waiting family have a job to pause?
HoldWaiting(t) ==
  /\ pc[t] = "hold"
  /\ pc' = [pc EXCEPT ![t] = IF Exists(inHand[t]) THEN "pause" ELSE Resume(t)]
  /\ UNCHANGED <<compatVars, queueVars, jobs, running, events, inHand, todo, envVars, histVars>>

PauseWaiting(t) ==
  /\ pc[t] = "pause"
  /\ Exists(inHand[t])
  /\ jobs' = [jobs EXCEPT ![inHand[t]].next = "paused"]
  /\ robbed' = robbed \union
       (IF jobs[inHand[t]].next = "soon" THEN {inHand[t]} \intersect {current} ELSE {})
  /\ pc' = [pc EXCEPT ![t] = Resume(t)]
  /\ UNCHANGED <<compatVars, queueVars, running, events, inHand, todo, envVars, dropped>>

\* pause_job or modify_job on a job that is gone, add_job on one that came
\* back: the exception leaves the thread, and with it the reports it carried.
SchedulerRaises(t) ==
  /\ \/ pc[t] \in {"pause", "modify"} /\ ~Exists(inHand[t])
     \/ pc[t] = "add" /\ Exists(inHand[t])
  /\ robbed' = robbed \union
       (IF pc[t] # "pause" THEN {inHand[t]} \intersect {current} ELSE {})
  /\ dropped' = dropped \union todo[t]
  /\ todo' = [todo EXCEPT ![t] = {}]
  /\ pc' = [pc EXCEPT ![t] = "idle"]
  /\ UNCHANGED <<compatVars, queueVars, jobs, running, events, inHand, envVars>>

-----------------------------------------------------------------------------
(* _dispatch_next_model_retraining *)

\* The section under the lock: pop the oldest waiting family, or return.
Pick(t) ==
  /\ pc[t] = "pick"
  /\ IF NothingToDispatch
       THEN /\ pc' = [pc EXCEPT ![t] = Resume(t)]
            /\ UNCHANGED <<queueVars, inHand>>
       ELSE /\ current' = Head(queue)
            /\ queued' = Unqueue(Head(queue))
            /\ served' = Append(served, Head(queue))
            /\ inHand' = [inHand EXCEPT ![t] = Head(queue)]
            /\ queue' = Tail(queue)
            /\ pc' = [pc EXCEPT ![t] = "look"]
  /\ UNCHANGED <<compatVars, jobs, running, events, todo, envVars, histVars>>

\* Variant: the unregistered family is dropped and the thread returns.
SkipAndReturn(t) ==
  /\ pc[t] = "look"
  /\ inHand[t] \notin Runners
  /\ current' = None
  /\ pc' = [pc EXCEPT ![t] = Resume(t)]
  /\ UNCHANGED <<compatVars, queue, queued, served, jobs, running, events, inHand, todo, envVars, histVars>>

\* No runner is registered for the family: drop it and try the next one.
SkipUnregistered(t) ==
  /\ pc[t] = "look"
  /\ inHand[t] \notin Runners
  /\ current' = None
  /\ pc' = [pc EXCEPT ![t] = "pick"]
  /\ UNCHANGED <<compatVars, queue, queued, served, jobs, running, events, inHand, todo, envVars, histVars>>

LookUpJob(t) ==
  /\ pc[t] = "look"
  /\ inHand[t] \in Runners
  /\ pc' = [pc EXCEPT ![t] = DispatchStep(t)]
  /\ UNCHANGED <<compatVars, queueVars, jobs, running, events, inHand, todo, envVars, histVars>>

\* modify_job(next_run_time = now + 2 s), which also lifts a pause.
ModifyJob(t) ==
  /\ pc[t] = "modify"
  /\ Exists(inHand[t])
  /\ jobs' = [jobs EXCEPT ![inHand[t]].next = "soon"]
  /\ pc' = [pc EXCEPT ![t] = Resume(t)]
  /\ UNCHANGED <<compatVars, queueVars, running, events, inHand, todo, envVars, histVars>>

AddJob(t) ==
  /\ pc[t] = "add"
  /\ ~Exists(inHand[t])
  /\ jobs' = [jobs EXCEPT ![inHand[t]] = OneShot]
  /\ pc' = [pc EXCEPT ![t] = Resume(t)]
  /\ UNCHANGED <<compatVars, queueVars, running, events, inHand, todo, envVars, histVars>>

\* _on_job_event and _finish_model_retraining: the completion of the current
\* family frees the turn, any other completion is ignored.
FinishModelRetraining(t, f) ==
  /\ pc[t] = "idle"
  /\ events[f] > 0
  /\ events' = [events EXCEPT ![f] = @ - 1]
  /\ IF f = current
       THEN current' = None /\ pc' = [pc EXCEPT ![t] = "pick"]
       ELSE UNCHANGED <<current, pc>>
  /\ UNCHANGED <<compatVars, queue, queued, served, jobs, running, inHand, todo, envVars, histVars>>

-----------------------------------------------------------------------------
(* APScheduler: due jobs, misfires, completions; settings saves *)

\* A due job is submitted unless a run of it is still in the executor, in
\* which case APScheduler skips it (EVENT_JOB_MAX_INSTANCES has no listener).
Fire(f) ==
  /\ Exists(f)
  /\ \/ jobs[f].next = "soon" /\ UNCHANGED regularFires
     \/ /\ jobs[f].next = "sched"
        /\ regularFires < MaxRegularFires
        /\ regularFires' = regularFires + 1
  /\ running' = running \union {f}
  /\ jobs' = [jobs EXCEPT ![f] = AfterDue(f)]
  /\ UNCHANGED <<compatVars, queueVars, events, threadVars, reloading, reloads, misfires, histVars>>

\* The due time passed more than misfire_grace_time ago (the scheduler was
\* paused for a restore, or had no free worker): EVENT_JOB_MISSED, no listener.
Misfire(f) ==
  /\ Exists(f)
  /\ jobs[f].next = "soon"
  /\ misfires < MaxMisfires
  /\ misfires' = misfires + 1
  /\ jobs' = [jobs EXCEPT ![f] = AfterDue(f)]
  /\ robbed' = robbed \union ({f} \intersect {current})
  /\ UNCHANGED <<compatVars, queueVars, running, events, threadVars, reloading, reloads, regularFires, dropped>>

\* Variant: the listener is not registered for EVENT_JOB_ERROR.
CompleteUnheard(f) ==
  /\ f \in running
  /\ running' = running \ {f}
  /\ \/ events' = [events EXCEPT ![f] = @ + 1]
     \/ UNCHANGED events
  /\ UNCHANGED <<compatVars, queueVars, jobs, threadVars, envVars, histVars>>

\* A run ends, with or without an exception: both events have the listener.
Complete(f) ==
  /\ f \in running
  /\ running' = running \ {f}
  /\ events' = [events EXCEPT ![f] = @ + 1]
  /\ UNCHANGED <<compatVars, queueVars, jobs, threadVars, envVars, histVars>>

\* reload_scheduler: remove_all_jobs, then one add_job per recurring job.
ReloadScheduler ==
  /\ reloading = {}
  /\ reloads < MaxReloads
  /\ reloads' = reloads + 1
  /\ jobs' = [f \in Families |-> Absent]
  /\ reloading' = Recurring
  /\ robbed' = robbed \union {f \in Families : f = current /\ jobs[f].next = "soon"}
  /\ UNCHANGED <<compatVars, queueVars, running, events, threadVars, regularFires, misfires, dropped>>

\* add_job of one recurring family; a job the queue added meanwhile makes it
\* fail, which reload_scheduler logs: the recurring schedule is not restored.
ReloadAdd(f) ==
  /\ f \in reloading
  /\ reloading' = reloading \ {f}
  /\ jobs' = IF Exists(f) THEN jobs ELSE [jobs EXCEPT ![f] = OnSchedule]
  /\ UNCHANGED <<compatVars, queueVars, running, events, threadVars, reloads, regularFires, misfires, histVars>>

-----------------------------------------------------------------------------
ThreadStep(t) ==
  \/ \E f \in Families : Enqueue(t, f)
  \/ HoldWaiting(t) \/ PauseWaiting(t) \/ SchedulerRaises(t)
  \/ Pick(t) \/ SkipUnregistered(t) \/ LookUpJob(t) \/ ModifyJob(t) \/ AddJob(t)

Deliver == \E t \in Threads, f \in Families : FinishModelRetraining(t, f)

Next ==
  \/ \E t \in Threads, f \in Families : Report(t, f)
  \/ \E t \in Threads : SetRetrainingCallback(t)
  \/ \E t \in Threads : ThreadStep(t)
  \/ Deliver
  \/ \E f \in Families : Fire(f) \/ Misfire(f) \/ Complete(f)
  \/ ReloadScheduler
  \/ \E f \in Families : ReloadAdd(f)

\* Threads run, due jobs fire, runs end and events are delivered; nobody has
\* to report a model, save the settings or reach a regular schedule.
Fairness ==
  /\ \A t \in Threads : WF_vars(ThreadStep(t))
  /\ WF_vars(Deliver)
  /\ \A f \in Families : WF_vars(jobs[f].next = "soon" /\ Fire(f))
  /\ \A f \in Families : WF_vars(Complete(f))
  /\ \A f \in Families : WF_vars(ReloadAdd(f))

Spec == Init /\ [][Next]_vars
FairSpec == Spec /\ Fairness

-----------------------------------------------------------------------------
(* Properties *)

\* Every variable has its type, and the two histories are histories.
TypeOK ==
  /\ reported \subseteq Families
  /\ pendingReports \subseteq Families
  /\ callback \in BOOLEAN
  /\ queue \in Seq(Families)
  /\ queued \subseteq Families
  /\ current \in Families \union {None}
  /\ jobs \in [Families -> Jobs]
  /\ running \subseteq Families
  /\ events \in [Families -> Nat]
  /\ pc \in [Threads -> Places]
  /\ inHand \in [Threads -> Families \union {None}]
  /\ todo \in [Threads -> SUBSET Families]
  /\ reloading \subseteq Recurring
  /\ reloads \in Nat /\ regularFires \in Nat /\ misfires \in Nat
  /\ served \in Seq(Families)
  /\ robbed \subseteq Families /\ dropped \subseteq Families

\* _model_retraining_queued is exactly the content of the queue, and the
\* family whose turn it is does not wait as well: the membership test that
\* keeps queue_model_retraining from queueing a family twice stays exact.
QueuedIsQueue ==
  /\ queued = Elements(queue)
  /\ current \notin queued

\* Every reported family is in exactly one place: kept for the callback,
\* carried by one thread, waiting, served, or lost with a thread that raised.
ReportsAccounted ==
  /\ reported = pendingReports \union (UNION {todo[t] : t \in Threads})
                  \union queued \union Elements(served) \union dropped
  /\ \A t \in Threads :
       /\ todo[t] \intersect (pendingReports \union queued \union Elements(served) \union dropped) = {}
       /\ \A u \in Threads \ {t} : todo[t] \intersect todo[u] = {}
  /\ pendingReports \intersect (queued \union Elements(served) \union dropped) = {}
  /\ queued \intersect (Elements(served) \union dropped) = {}
  /\ Elements(served) \intersect dropped = {}

\* No lost wake-up: whenever a family waits and nobody has the turn, some
\* thread is on its way into the dispatcher.  should_dispatch is computed
\* under the lock and used after it, so this is not a local fact.
NoLostWakeup ==
  queue # <<>> /\ current = None => \E t \in Threads : pc[t] = "pick"

\* The family that has the turn is being dispatched, is about to run, runs,
\* or has a completion event under way - unless its own run was taken away by
\* a late pause, a reload, a misfire or a raising scheduler call.  Nothing
\* else can leave the queue stuck.
CurrentIsDriven ==
  current # None =>
    \/ current \in robbed
    \/ \E t \in Threads : pc[t] \in {"look", "modify", "add"} /\ inHand[t] = current
    \/ jobs[current].next = "soon"
    \/ current \in running
    \/ events[current] > 0

\* system_architecture.md: "pauses later affected jobs [...] so only one model
\* family retrains at a time": no two affected families are in training.
OneFamilyAtATime == Cardinality(running \intersect reported) <= 1

\* As long as no settings save and no regular firing came in between, that is so.
OneFamilyUndisturbed == reloads = 0 /\ regularFires = 0 => OneFamilyAtATime

\* Every waiting family gets its turn and gives it back, unless some family's
\* run was taken away.
TurnsComeAndGo ==
  \A f \in Families :
    (f \in queued) ~> ((f \notin queued /\ current # f) \/ robbed # {})

\* The same without the escape: what "Retraining is queued to begin
\* immediately after startup" says to the reader of the notification.
EveryFamilyRetrains ==
  \A f \in Families : (f \in queued) ~> (f \notin queued /\ current # f)

\* "Existing recurring jobs retain their normal schedules": once the queue is
\* empty and every thread is done, no recurring job is left paused.
RecurringSchedulesKept ==
  (queue = <<>> /\ current = None /\ \A t \in Threads : pc[t] = "idle")
    => \A f \in Recurring : jobs[f].next # "paused"

\* The dispatcher is a serial queue: arrival order, each family once, one
\* turn at a time, whatever the threads, the events and the reloads do.
Serial == INSTANCE SerialQueue WITH waiting <- queue, turn <- current, past <- served
SerialSpec == Serial!Spec
=============================================================================
