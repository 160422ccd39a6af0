--------------------------- MODULE ResumableScans ---------------------------
(***************************************************************************)
(* The jobs that work through a list of tickers and can be interrupted:    *)
(* the technicals scan (quant_engine.py), the tail risks (risk_engine.py), *)
(* the feature backfill (ml_backfill_engine.py) and the five-stage deep    *)
(* sync (universe_deep_sync_engine.py).  They keep their place in the      *)
(* table quant_scan_states, one row per day and type; after a restart      *)
(* resume_interrupted_scans (scheduler_jobs.py) starts again what the      *)
(* table shows unfinished.                                                 *)
(*                                                                         *)
(* A job is the sequence of calls it makes; every thread is at one call.   *)
(* Of a ticker the model keeps that it was worked on, not the figures.     *)
(***************************************************************************)
EXTENDS Naturals, Sequences

CONSTANTS
  Tickers,
  Portfolios, Universes, Targets,  \* the lists that a run may collect from holdings and watchlist,
                                   \* from the universe, for the deep sync
  Samples,                         \* the lists that a backfill of its own may draw
  Imports,                         \* the lists that an imported file may hold
  Starters,                        \* threads of scheduled and manual runs
  MaxDay,                          \* bound: days
  Scopes                           \* bounds: which jobs are started in one behaviour, how
                                   \* often, and how many days, crashes and failures there are

NoTicker == "no ticker"
Days == 1..MaxDay
Lists == Portfolios \union Universes \union Targets \union Samples \union Imports

\* The jobs that the schedule and the routes start, and those that
\* resume_interrupted_scans starts, each in a thread named for its job.
Startable == {"run_overnight_quant_scan", "run_weekend_universe_routine", "bg_execute_quant_scan",
              "bg_execute_universe_quant_scan", "run_ml_backfill", "run_universe_csv_import_scan",
              "run_universe_deep_sync"}
Resumable == {"run_universe_deep_sync", "run_overnight_quant_scan", "run_weekend_universe_routine",
              "run_ml_backfill", "_run_daily_tr", "_run_universe_tr"}
Threads == Starters \union Resumable

ASSUME ScansAssumption ==
  /\ Starters \intersect Resumable = {}
  /\ NoTicker \notin Tickers
  /\ \A list \in Lists : list \in Seq(Tickers) /\ list # <<>>
  /\ \A list \in Lists : \A i, j \in DOMAIN list : list[i] = list[j] => i = j
  /\ {} \notin {Portfolios, Universes, Targets, Samples, Imports}
  /\ MaxDay \in Nat
  /\ \A s \in Scopes : /\ s.jobs \subseteq Startable /\ s.days \in Days
                       /\ {s.starts, s.crashes, s.failures} \subseteq Nat

-----------------------------------------------------------------------------
(* The jobs *)

ScanTypes == {"daily", "universe", "sideload", "universe_deep_sync",
              "tail_risk_daily", "tail_risk_universe", "ml_backfill"}
DeepSyncKeys == {"deep_sync_s1", "deep_sync_s2", "deep_sync_s4", "deep_sync_s5", "universe_deep_sync"}
Types == ScanTypes \union DeepSyncKeys

Call(fn, type, list) == [fn |-> fn, type |-> type, list |-> list, stage |-> ""]
Scan(type, list) == Call("run_daily_quant_scan", type, list)
TailRisks(type, list) == Call("update_all_tail_risks", type, list)
Backfill(list) == Call("run_historical_backfill", "ml_backfill", list)
Other == Call("other", "", <<>>)
Stage(key, call) == [call EXCEPT !.stage = key]

\* The list of a run, which every run collects for itself, a resumed one too: the
\* backfill of its own draws 500 tickers of the universe at random.
Collects(job) ==
  CASE job \in {"run_overnight_quant_scan", "bg_execute_quant_scan", "_run_daily_tr"} -> Portfolios
    [] job \in {"run_weekend_universe_routine", "bg_execute_universe_quant_scan", "_run_universe_tr"} -> Universes
    [] job = "run_universe_deep_sync" -> Targets
    [] job = "run_ml_backfill" -> Samples
    [] job = "run_universe_csv_import_scan" -> Imports

Program(job, list) ==
  CASE job = "run_overnight_quant_scan" -> <<Scan("daily", list), TailRisks("tail_risk_daily", list)>>
    [] job = "run_weekend_universe_routine" ->
         <<Scan("universe", list), TailRisks("tail_risk_universe", list), Other, Backfill(list)>>
    [] job = "bg_execute_quant_scan" -> <<Scan("daily", list), Other>>
    [] job = "bg_execute_universe_quant_scan" -> <<Scan("universe", list)>>
    [] job = "run_ml_backfill" -> <<Backfill(list)>>
    [] job = "run_universe_csv_import_scan" -> <<Scan("sideload", list)>>
    [] job = "run_universe_deep_sync" ->
         <<Stage("deep_sync_s1", Other), Stage("deep_sync_s2", Other),
           Stage("universe_deep_sync", Scan("universe_deep_sync", list)),
           Stage("deep_sync_s4", Backfill(list)), Stage("deep_sync_s5", Other)>>
    [] job = "_run_daily_tr" -> <<TailRisks("tail_risk_daily", list)>>
    [] job = "_run_universe_tr" -> <<TailRisks("tail_risk_universe", list)>>
    [] job = "none" -> <<>>

VARIABLES
  scope,    \* the member of Scopes of this behaviour
  day,      \* the date
  states,   \* quant_scan_states
  up,       \* "down", "starting" (resume_interrupted_scans has not read the table), "up"
  thread,   \* the locals of each thread
  spent,    \* starts, crashes and failures so far
  worked    \* history of each row: the lists of the runs that had a hand in it, what was
            \* worked on since it was inserted

vars == <<scope, day, states, up, thread, spent, worked>>

-----------------------------------------------------------------------------
None == [status |-> "none", last |-> NoTicker]
Fresh == [status |-> "IN_PROGRESS", last |-> NoTicker]
Rows == {None} \union [status : {"IN_PROGRESS", "COMPLETED"}, last : Tickers \union {NoTicker}]
Idle == [job |-> "none", list |-> <<>>, at |-> 0, pc |-> "idle", started |-> 1, today |-> 1, next |-> 1]
Unworked == [lists |-> {}, tickers |-> {}, shared |-> FALSE]

Jobs == (UNION {s.jobs : s \in Scopes}) \union Resumable \union {"none"}
PCs == {"idle", "gate", "look", "insert", "reset", "work", "complete", "mark"}

TypeOK ==
  /\ scope \in Scopes
  /\ day \in Days
  /\ states \in [Types -> [Days -> Rows]]
  /\ up \in {"down", "starting", "up"}
  /\ thread \in [Threads -> [job : Jobs, list : Lists \union {<<>>}, at : 0..5, pc : PCs, started : Days,
                             today : Days, next : Nat \ {0}]]
  /\ spent \in [starts : 0..scope.starts, crashes : 0..scope.crashes, failures : 0..scope.failures]
  /\ worked \in [ScanTypes -> [Days -> [lists : SUBSET Lists, tickers : SUBSET Tickers, shared : BOOLEAN]]]

Init ==
  /\ scope \in Scopes
  /\ day = 1 /\ up = "up"
  /\ states = [t \in Types |-> [d \in Days |-> None]]
  /\ thread = [th \in Threads |-> Idle]
  /\ spent = [starts |-> 0, crashes |-> 0, failures |-> 0]
  /\ worked = [t \in ScanTypes |-> [d \in Days |-> Unworked]]

InProgress(type, d) == states[type][d].status = "IN_PROGRESS"
Completed(type, d) == states[type][d].status = "COMPLETED"

At(th) == Program(thread[th].job, thread[th].list)[thread[th].at]
Is(th, pc) == up # "down" /\ thread[th].pc = pc

-----------------------------------------------------------------------------
(* Moving a thread through its calls *)

\* The thread is about to make call n of its program, or has made them all.
EnterCall(t, n) ==
  LET calls == Program(t.job, t.list)
  IN  IF n > Len(calls) THEN Idle
      ELSE [t EXCEPT !.at = n, !.next = 1, !.today = t.started,
                     !.pc = IF calls[n].stage # "" THEN "gate"
                            ELSE IF calls[n].fn = "other" THEN "work" ELSE "look"]

Goes(th, t) == thread' = [thread EXCEPT ![th] = t]
To(th, pc) == [thread[th] EXCEPT !.pc = pc]
NextCall(th) == EnterCall(thread[th], thread[th].at + 1)

\* The call returns: a stage of the deep sync other than the third is then marked.
Marks(th) == At(th).stage \notin {"", "universe_deep_sync"}
Returns(th) == IF Marks(th) THEN To(th, "mark") ELSE NextCall(th)
\* An exception ends the job, except that the deep sync goes on with its next stage.
Raises(th) == IF At(th).stage # "" THEN NextCall(th) ELSE Idle
\* The scan and the backfill log what goes wrong with them and return.
Swallows(th) == At(th).fn \in {"run_daily_quant_scan", "run_historical_backfill"}
Breaks(th) == IF Swallows(th) THEN Returns(th) ELSE Raises(th)

\* run_manual_job refuses a run next to another of its job id, the schedule one next
\* to its own (max_instances).  The deep sync and the backfill have the same body
\* for both, so two of them may run.
JobId(job) ==
  CASE job = "bg_execute_universe_quant_scan" -> "run_weekend_universe_routine"
    [] job = "bg_execute_quant_scan" -> "run_overnight_quant_scan"
    [] OTHER -> job
ByHand == {"bg_execute_universe_quant_scan", "bg_execute_quant_scan", "run_universe_csv_import_scan"}
Refused(job) == \E s \in Starters :
  \/ job \in ByHand /\ JobId(thread[s].job) = JobId(job)
  \/ job \in {"run_overnight_quant_scan", "run_weekend_universe_routine"} /\ thread[s].job = job

Run(job, list) == EnterCall([Idle EXCEPT !.job = job, !.list = list, !.started = day], 1)

Start(th, job) ==
  /\ th \in Starters /\ job \in scope.jobs /\ ~Refused(job)
  /\ up # "down" /\ thread[th].pc = "idle" /\ spent.starts < scope.starts
  /\ \E list \in Collects(job) : Goes(th, Run(job, list))
  /\ spent' = [spent EXCEPT !.starts = @ + 1]
  /\ UNCHANGED <<scope, day, states, up, worked>>

\* _stage_done, for the day on which the deep sync began.
\* Variant: for the present day.
ThisDay(th) == day
StageDay(th) == thread[th].started
Gate(th) ==
  /\ Is(th, "gate")
  /\ Goes(th, IF Completed(At(th).stage, StageDay(th)) THEN NextCall(th)
              ELSE To(th, IF At(th).fn = "other" THEN "work" ELSE "look"))
  /\ UNCHANGED <<scope, day, states, up, spent, worked>>

\* _mark_stage_done
Mark(th) ==
  /\ Is(th, "mark")
  /\ states' = [states EXCEPT ![At(th).stage][StageDay(th)] =
                  [status |-> "COMPLETED", last |-> @.last]]
  /\ Goes(th, NextCall(th))
  /\ UNCHANGED <<scope, day, up, spent, worked>>

\* A stage or a part of a job that keeps no place in the table.
DoOther(th) ==
  /\ Is(th, "work") /\ At(th).fn = "other"
  /\ Goes(th, Returns(th))
  /\ UNCHANGED <<scope, day, states, up, spent, worked>>

-----------------------------------------------------------------------------
(* Where a call begins in its list *)

IndexOf(list, ticker) == CHOOSE i \in DOMAIN list : list[i] = ticker
Has(list, ticker) == \E i \in DOMAIN list : list[i] = ticker
OneFurther(list, last) == IF Has(list, last) THEN IndexOf(list, last) + 2 ELSE 1
ResumeAt(list, last) == IF Has(list, last) THEN IndexOf(list, last) + 1 ELSE 1

\* The row a call finds: that of its type and day; the backfill takes the latest
\* unfinished one of any day.
Unfinished == {d \in Days : InProgress("ml_backfill", d)}
FoundDay(th) ==
  IF At(th).fn # "run_historical_backfill" THEN day
  ELSE IF Unfinished = {} THEN 0 ELSE CHOOSE d \in Unfinished : \A e \in Unfinished : e <= d
Found(th) == IF FoundDay(th) = 0 THEN None ELSE states[At(th).type][FoundDay(th)]

\* The lists have what they share in the same order.
Agree(l, m) == \A i, j \in DOMAIN l, p, q \in DOMAIN m : l[i] = m[p] /\ l[j] = m[q] => (i <= j <=> p <= q)

\* History: runs whose lists do not agree have had a hand in the row; for the backfill
\* also another run at the same time, which then has a hand in all its rows.
Others(th) == \E s \in Threads \ {th} :
  thread[s].pc \in {"insert", "reset", "work", "complete"} /\ At(s).fn = "run_historical_backfill"
Overlaps(th) == At(th).fn = "run_historical_backfill" /\ Others(th)
WorkedBy(th, day0, row) ==
  LET Old(d) == IF d = day0 THEN row ELSE worked[At(th).type][d]
  IN  worked' = [worked EXCEPT ![At(th).type] =
                   [d \in Days |-> [Old(d) EXCEPT !.shared = @ \/ Overlaps(th)]]]
Joins(th, d) ==
  LET row == worked[At(th).type][d]
  IN  WorkedBy(th, d, [row EXCEPT !.lists = @ \union {At(th).list},
                                  !.shared = @ \/ \E list \in row.lists : ~Agree(list, At(th).list)])

\* The scan and the tail risks of a day that are done are not repeated.
LookDone(th) ==
  /\ Is(th, "look") /\ At(th).fn # "run_historical_backfill" /\ Found(th).status = "COMPLETED"
  /\ Goes(th, Returns(th))
  /\ UNCHANGED <<scope, day, states, up, spent, worked>>

LookUnfinished(th) ==
  /\ Is(th, "look") /\ Found(th).status = "IN_PROGRESS"
  /\ Goes(th, [thread[th] EXCEPT
        !.pc = IF At(th).fn = "update_all_tail_risks" /\ ~Has(At(th).list, Found(th).last)
               THEN "reset" ELSE "work",
        !.today = day, !.next = ResumeAt(At(th).list, Found(th).last)])
  /\ Joins(th, FoundDay(th))
  /\ UNCHANGED <<scope, day, states, up, spent>>

LookNew(th) ==
  /\ Is(th, "look") /\ Found(th).status = "none"
  /\ Goes(th, [thread[th] EXCEPT !.pc = "insert", !.today = day])
  /\ WorkedBy(th, 0, Unworked)
  /\ UNCHANGED <<scope, day, states, up, spent>>

\* A plain INSERT; the date and the type are the table's primary key.
InsertRow(th) ==
  LET call == At(th) today == thread[th].today
  IN  /\ Is(th, "insert") /\ states[call.type][today].status = "none"
      /\ states' = [states EXCEPT ![call.type][today] = Fresh]
      /\ WorkedBy(th, today, [worked[call.type][today] EXCEPT !.lists = {call.list}, !.tickers = {}])
      /\ Goes(th, To(th, "work"))
      /\ UNCHANGED <<scope, day, up, spent>>

InsertFails(th) ==
  /\ Is(th, "insert") /\ states[At(th).type][thread[th].today].status # "none"
  /\ Goes(th, Breaks(th))
  /\ UNCHANGED <<scope, day, states, up, spent, worked>>

\* The tail risks write a row whose last ticker is not in the list back to its beginning.
ResetRow(th) ==
  /\ Is(th, "reset")
  /\ states' = [states EXCEPT ![At(th).type][thread[th].today] = Fresh]
  /\ Goes(th, To(th, "work"))
  /\ UNCHANGED <<scope, day, up, spent, worked>>

-----------------------------------------------------------------------------
(* Working through the list *)

\* The rows a call writes to: its own, or every unfinished one of the backfill.
Written(th) == IF At(th).fn = "run_historical_backfill" THEN Unfinished ELSE {thread[th].today}

\* The ticker's figures are stored and the row's last ticker with them; without
\* usable bars, or when something goes wrong with it, the ticker is passed over
\* and the row left as it is (the tail risks write the row all the same).
Process(th, stored) ==
  LET call == At(th)
      ticker == call.list[thread[th].next]
      Stored(d, row) == IF stored /\ d \in Written(th) THEN [row EXCEPT !.last = ticker] ELSE row
      Noted(d, work) == IF d \in Written(th) \union {thread[th].today}
                        THEN [work EXCEPT !.tickers = @ \union {ticker}] ELSE work
  IN  /\ Is(th, "work") /\ call.fn # "other" /\ thread[th].next \in DOMAIN call.list
      /\ stored \/ call.fn # "update_all_tail_risks"
      /\ states' = [states EXCEPT ![call.type] = [d \in Days |-> Stored(d, states[call.type][d])]]
      /\ worked' = [worked EXCEPT ![call.type] = [d \in Days |-> Noted(d, worked[call.type][d])]]
      /\ Goes(th, [thread[th] EXCEPT !.next = @ + 1])
      /\ UNCHANGED <<scope, day, up, spent>>

AtEnd(th) == thread[th].next > Len(At(th).list)
Complete(th) ==
  LET call == At(th)
      Done(d, row) == IF d \in Written(th) THEN [row EXCEPT !.status = "COMPLETED"] ELSE row
  IN  /\ Is(th, "work") /\ call.fn # "other" /\ AtEnd(th)
      /\ states' = [states EXCEPT ![call.type] = [d \in Days |-> Done(d, states[call.type][d])]]
      /\ Goes(th, Returns(th))
      /\ UNCHANGED <<scope, day, up, spent, worked>>

\* A statement raises: the database is locked, a download fails.  What a scan or a
\* backfill does for one ticker is caught (Process); _stage_done is called outside
\* the stages' try, sync_ticker_metadata outside that of the backfill.
MayRaise(th) ==
  \/ Is(th, "gate") \/ Is(th, "look") \/ Is(th, "insert") \/ Is(th, "reset") \/ Is(th, "mark")
  \/ Is(th, "work") /\ (Swallows(th) => AtEnd(th))
Raised(th) ==
  IF Is(th, "gate") THEN {Idle}
  ELSE IF Is(th, "mark") THEN {Raises(th)}
  ELSE IF Is(th, "look") /\ At(th).fn = "run_historical_backfill" THEN {Breaks(th), Raises(th)}
  ELSE {Breaks(th)}
Fail(th) ==
  /\ MayRaise(th) /\ spent.failures < scope.failures
  /\ spent' = [spent EXCEPT !.failures = @ + 1]
  /\ \E t \in Raised(th) : Goes(th, t)
  /\ UNCHANGED <<scope, day, states, up, worked>>

-----------------------------------------------------------------------------
(* Midnight, crash, restart *)

Midnight ==
  /\ day < scope.days /\ day' = day + 1
  /\ UNCHANGED <<scope, states, up, thread, spent, worked>>

Crash ==
  /\ up # "down" /\ spent.crashes < scope.crashes
  /\ up' = "down" /\ thread' = [th \in Threads |-> Idle]
  /\ spent' = [spent EXCEPT !.crashes = @ + 1]
  /\ UNCHANGED <<scope, day, states, worked>>

Restart ==
  /\ up = "down" /\ up' = "starting"
  /\ UNCHANGED <<scope, day, states, thread, spent, worked>>

TailsAlone == ~InProgress("daily", day) /\ InProgress("tail_risk_daily", day)
\* Variant: the scan is left to the next evening.
NotResumed == FALSE
DailyInterrupted == InProgress("daily", day)

DeepSyncActive == \E key \in DeepSyncKeys : states[key][day].status # "none"
Interrupted(job) ==
  CASE job = "run_universe_deep_sync" -> DeepSyncActive /\ ~Completed("deep_sync_s5", day)
    [] job = "run_overnight_quant_scan" -> DailyInterrupted
    [] job = "run_weekend_universe_routine" -> InProgress("universe", day)
    [] job = "run_ml_backfill" -> Unfinished # {} /\ ~DeepSyncActive
    [] job = "_run_daily_tr" -> TailsAlone
    [] job = "_run_universe_tr" -> ~InProgress("universe", day) /\ InProgress("tail_risk_universe", day)

Collections == {lists \in [Resumable -> Lists] : \A job \in Resumable : lists[job] \in Collects(job)}
Resume ==
  /\ up = "starting" /\ up' = "up"
  /\ \E lists \in Collections :
       thread' = [th \in Threads |-> IF th \in Resumable /\ Interrupted(th) THEN Run(th, lists[th]) ELSE thread[th]]
  /\ UNCHANGED <<scope, day, states, spent, worked>>

-----------------------------------------------------------------------------
Step(th) ==
  \/ Gate(th) \/ Mark(th) \/ DoOther(th)
  \/ LookDone(th) \/ LookUnfinished(th) \/ LookNew(th)
  \/ InsertRow(th) \/ InsertFails(th) \/ ResetRow(th)
  \/ Process(th, TRUE) \/ Process(th, FALSE) \/ Complete(th)

Next ==
  \/ \E th \in Threads : Step(th) \/ Fail(th) \/ \E job \in scope.jobs : Start(th, job)
  \/ Midnight \/ Crash \/ Restart \/ Resume

\* Some thread goes on as long as the process lives; the service manager restarts it.
Fairness ==
  /\ WF_vars(\E th \in Threads : Step(th))
  /\ WF_vars(Restart \/ Resume)

Spec == Init /\ [][Next]_vars /\ Fairness

-----------------------------------------------------------------------------
(* Properties *)

TickersOf(list) == {list[i] : i \in DOMAIN list}
Failed == spent.failures > 0

\* The tickers that every one of the lists holds.
InAll(lists) == {ticker \in Tickers : \A list \in lists : Has(list, ticker)}

\* A row says COMPLETED only when every ticker was worked on, since the row was inserted,
\* that is in the lists of all the runs that had a hand in it, whatever runs began, were
\* interrupted, resumed or overlapped on it, each with a list of its own ("to prevent data
\* gaps upon unexpected interruptions", assets/db_schema_and_architecture.md).  Left out:
\* rows whose runs had lists in different orders, and those of two backfills at once.
CompleteMeansAll == \A type \in ScanTypes, d \in Days :
  Completed(type, d) /\ ~worked[type][d].shared => InAll(worked[type][d].lists) \subseteq worked[type][d].tickers

\* What a run marks COMPLETED it has worked through ("to prevent data gaps upon unexpected
\* interruptions").  It does not hold: a backfill that is resumed draws another list and
\* begins it after the saved ticker.
WholeListWorked ==
  [][\A th \in Threads, d \in Days :
       Complete(th) /\ d \in Written(th) /\ ~worked[At(th).type][d].shared =>
         TickersOf(At(th).list) \subseteq worked[At(th).type][d].tickers]_vars

\* The stages marked done on a day are marked in order, across restarts, overlapping
\* deep syncs and midnight, as long as no stage fails (run_universe_deep_sync).
StagesInOrder == \A d \in Days : ~Failed =>
  /\ Completed("deep_sync_s5", d) => Completed("deep_sync_s4", d)
  /\ Completed("deep_sync_s4", d) => Completed("deep_sync_s2", d)
  /\ Completed("deep_sync_s2", d) => Completed("deep_sync_s1", d)

\* Two threads that resume_interrupted_scans started never work on the same row
\* (the backfill's apart, which two resumed jobs may contain).
ResumedApart == \A s, t \in Resumable :
  s # t /\ thread[s].pc # "idle" /\ thread[t].pc # "idle" /\ At(s).type = At(t).type =>
    At(s).type \in {"", "ml_backfill"}

\* Stages are marked in order, and no row has two resumed threads.
StagesOrderedApart == TypeOK /\ StagesInOrder /\ ResumedApart

\* What the table shows unfinished is finished while the day lasts, whatever crashes,
\* unless something else fails (resume_interrupted_scans).
UnfinishedToday == \E type \in ScanTypes \ {"ml_backfill", "sideload"} : InProgress(type, day)
InterruptedIsFinished == UnfinishedToday ~> ~UnfinishedToday \/ Failed

\* A deep sync that has finished a stage goes through all of them on that day.
DeepSyncHalfway == Completed("deep_sync_s1", day) /\ ~Completed("deep_sync_s5", day)
DeepSyncFinishes == DeepSyncHalfway ~> ~DeepSyncHalfway \/ Failed

\* "ML inference (Stage 5) requires fundamentals (Stage 1) + momentum backfill (Stage 4) ..
\* order is mandatory" (universe_deep_sync_engine.py): where nothing failed, the
\* targets were backfilled before the inference.
BackfillBeforeInference == \A th \in Threads :
  ~Failed /\ thread[th].job = "run_universe_deep_sync" /\ thread[th].at = 5 =>
    TickersOf(thread[th].list) \subseteq UNION {worked["ml_backfill"][d].tickers : d \in Days}

\* "On startup, resume_interrupted_scans() queries this table and re-fires any
\* IN_PROGRESS scan automatically" (assets/db_schema_and_architecture.md).
EveryScanResumed ==
  [][Resume => \A type \in ScanTypes : InProgress(type, day) =>
       \E th \in Threads : thread'[th].pc # "idle" /\
         LET calls == Program(thread'[th].job, thread'[th].list)
         IN  \E i \in DOMAIN calls : calls[i].type = type]_vars

\* The import "Triggers a quant scan for the imported tickers in the background"
\* (assets/api_reference.md).
ImportIsScanned ==
  [][\A th \in Starters :
       thread[th].job = "run_universe_csv_import_scan" /\ thread'[th].pc = "idle" /\ up' = up /\ spent' = spent =>
         TickersOf(thread[th].list) \subseteq UNION {worked["sideload"][d].tickers : d \in Days}]_vars
=============================================================================
