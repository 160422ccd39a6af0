--------------------------- MODULE JobRuns_proofs ---------------------------
(***************************************************************************)
(* Proofs about JobRuns, for any number of runs of each kind and any       *)
(* number of restores, under every job of the table.                       *)
(*                                                                         *)
(* Inv is the inductive invariant.  The counter needs the set it counts to *)
(* be finite and every run to enter and leave it once; the labels need     *)
(* what ~overlapped buys, one marked body at a time (LabelShows); the      *)
(* scheduler needs every restore at "pause" to remember that it has to     *)
(* resume (PausersResume); the history needs the error context to follow   *)
(* the failure from the body to its record (DetailFollows).                *)
(***************************************************************************)
EXTENDS JobRuns, FiniteSetTheorems, TLAPS

Busy == {r \in Tracked : InProgress(r)}

\* Only bodies that mark a label are about to mark or unmark it, and a resumed
\* run, which is not tracked, has no other.
MarkersShow ==
  /\ \A r \in Runs : run[r].pc \in {"mark", "unmark"} => run[r].body.shown
  /\ \A r \in ResumedRuns : /\ run[r].pc \in {"idle", "mark", "work", "unmark"}
                            /\ run[r].pc # "idle" => run[r].body.shown

\* While no two bodies overlapped and the operator cleared nothing, a marked
\* body is the only one and its label is in the table.
LabelShows ==
  ~overlapped /\ ~cleared =>
    \A r \in Runs : Marked(r) => active /\ \A s \in Runs : Marked(s) => s = r

\* A restore that is about to pause the scheduler will resume it.
PausersResume == \A x \in Restorers : restorer[x].pc = "pause" => restorer[x].paused

\* Restores that never met: at most one is under way.
OneRestore ==
  ~crowded => \A x, y \in Restorers : restorer[x].pc # "idle" /\ restorer[y].pc # "idle" => x = y

\* The error context of a tracked run says what its body has told of its end so far.
Accounts(x) == /\ Told(x.how) => x.error_detail
               /\ x.error_detail => Told(x.how) \/ x.body.alarms
DetailFollows == \A r \in Tracked :
  /\ run[r].pc \in {"queued", "mark", "work"} => run[r].how = "well"
  /\ run[r].pc \in {"queued", "mark", "work", "unmark", "record"} => Accounts(run[r])

RunInv == CountsRuns /\ OneByHand /\ MarkersShow /\ LabelShows /\ NoStaleLabel /\ DetailFollows /\ FailuresRecorded
RestoreInv == PausersResume /\ OneRestore /\ SchedulerComesBack /\ PausedWhileRestoring /\ RestoreSeesLabels
Inv == TypeOK /\ RunInv /\ RestoreInv

-----------------------------------------------------------------------------
(* Types *)

LEMMA BodyType == AnyBody \in Bodies
<1>1. market_sentiment_job \in Jobs
  BY DEF Jobs
<1>2. trigger_sentiment_report \in market_sentiment_job.scheduled
  BY DEF market_sentiment_job, Job
<1>3. trigger_sentiment_report \in Bodies
  BY <1>1, <1>2 DEF Bodies
<1> QED
  BY <1>3 DEF AnyBody

LEMMA JobBodies ==
  ASSUME NEW j \in Jobs
  PROVE  j.scheduled \subseteq Bodies /\ j.manual \subseteq Bodies /\ j.resumed \subseteq Bodies
BY DEF Bodies

\* A new run has the type of a run.
LEMMA NewType ==
  ASSUME NEW b \in Bodies, NEW pc \in RunStates
  PROVE  New(pc, b) \in Run
BY DEF New, Run, Statuses, Endings

LEMMA IdleType == Idle \in Run
BY BodyType, NewType DEF Idle, RunStates

\* Every body that resume_interrupted_scans may start marks a label.
LEMMA ResumedShown == \A j \in Jobs : \A b \in j.resumed : b.shown
<1> DEFINE resumed == {overnight_quant_scan_job, universe_routine_job, ml_backfill_job, universe_deep_sync_job}
           others == {market_sentiment_job, earnings_alert_job, insider_alert_job,
                     ghostfolio_sync_job, quant_analysis_job, sentiment_scan_job,
                     intraday_orchestrator_job, maintenance_job,
                     account_value_snapshot_job, weekend_earnings_vol_scan_job,
                     ml_training_job, ml_inference_job, freetrade_sync_job,
                     macro_calendar_job, macro_data_job, cb_nlp_alert_job,
                     index_scraper_job, fundamentals_profiler_job, anomaly_training_job,
                     ai_contagion_job, trap_monitor_job, trap_accuracy_fill_job,
                     alert_referee_training_job, confluence_referee_training_job,
                     news_feed_job, bubble_radar_job, risk_orchestrator_job,
                     risk_orchestrator_digest_job, pairs_spread_monitor_job,
                     sector_relative_momentum_job, stable_shortlist_job,
                     pattern_detection_job, pattern_detection_accuracy_fill_job,
                     forensic_quarterly_fetch_job, forensic_scores_job,
                     intraday_dip_scan_job, account_performance_refresh_job,
                     memory_telemetry_job, intraday_dip_reset_N_job, xray_risk_cache_job,
                     treasury_bill_maturity_sweep_job, etf_predictor_actual_fill_job,
                     macro_auction_job_am, macro_auction_job_pm, backup_job,
                     system_check_job, mcp_pairing_window_check_job,
                     earnings_vol_retry_job, etf_predictor_N_pre_job,
                     etf_predictor_N_post_job, account_scraper_N_job,
                     account_autotopup_N_job, account_reminder_N_job,
                     macro_model_training_job, universe_csv_import_source,
                     pairs_spread_universe_source, pattern_detection_backfill_source,
                     market_regime_hmm_source}
<1>1. Jobs \subseteq resumed \union others
  BY DEF Jobs
<1>2. \A s, m : Job(s, m).resumed = {}
  BY DEF Job
<1>3. ASSUME NEW j \in resumed, NEW b \in j.resumed PROVE b.shown
  BY <1>3 DEF overnight_quant_scan_job, universe_routine_job, ml_backfill_job, universe_deep_sync_job, Resumed, Job,
     Shown, run_overnight_quant_scan, run_weekend_universe_routine, run_ml_backfill, run_universe_deep_sync_job
<1>4. ASSUME NEW j \in others PROVE j.resumed = {}
  BY <1>2, <1>4 DEF market_sentiment_job, earnings_alert_job, insider_alert_job, ghostfolio_sync_job,
     quant_analysis_job, sentiment_scan_job, intraday_orchestrator_job, maintenance_job,
     account_value_snapshot_job, weekend_earnings_vol_scan_job, ml_training_job,
     ml_inference_job, freetrade_sync_job, macro_calendar_job, macro_data_job,
     cb_nlp_alert_job, index_scraper_job, fundamentals_profiler_job, anomaly_training_job,
     ai_contagion_job, trap_monitor_job, trap_accuracy_fill_job,
     alert_referee_training_job, confluence_referee_training_job, news_feed_job,
     bubble_radar_job, risk_orchestrator_job, risk_orchestrator_digest_job,
     pairs_spread_monitor_job, sector_relative_momentum_job, stable_shortlist_job,
     pattern_detection_job, pattern_detection_accuracy_fill_job,
     forensic_quarterly_fetch_job, forensic_scores_job, intraday_dip_scan_job,
     account_performance_refresh_job, memory_telemetry_job, intraday_dip_reset_N_job,
     xray_risk_cache_job, treasury_bill_maturity_sweep_job, etf_predictor_actual_fill_job,
     macro_auction_job_am, macro_auction_job_pm, backup_job, system_check_job,
     mcp_pairing_window_check_job, earnings_vol_retry_job, etf_predictor_N_pre_job,
     etf_predictor_N_post_job, account_scraper_N_job, account_autotopup_N_job,
     account_reminder_N_job, macro_model_training_job, universe_csv_import_source,
     pairs_spread_universe_source, pattern_detection_backfill_source,
     market_regime_hmm_source
<1> QED
  BY <1>1, <1>3, <1>4

LEMMA TypeInit == Init => TypeOK
<1> SUFFICES ASSUME Init PROVE TypeOK
  OBVIOUS
<1>1. \A b \in job.resumed : New("mark", b) \in Run
  BY JobBodies, NewType DEF Init, RunStates
<1>2. run \in [Runs -> Run]
  BY <1>1, IdleType DEF Init
<1>3. restorer \in [Restorers -> Restorer]
  BY DEF Init, IdleRestorer, Restorer
<1> QED
  BY <1>2, <1>3 DEF Init, TypeOK

\* A step of a run changes that run, which keeps its type.
LEMMA TypeOfStep ==
  ASSUME TypeOK, NEW r \in Runs, Step(r), At(r, "uncount") => count > 0
  PROVE  TypeOK'
<1> USE DEF TypeOK
<1>1. CASE Submit(r)
  <2>1. PICK b \in job.scheduled : run' = [run EXCEPT ![r] = New("queued", b)]
    BY <1>1 DEF Submit
  <2>2. New("queued", b) \in Run
    BY JobBodies, NewType DEF RunStates
  <2> QED
    BY <1>1, <2>1, <2>2 DEF Submit, history
<1>2. CASE Trigger(r)
  <2>1. PICK b \in job.manual : run' = [run EXCEPT ![r] = New("queued", b)]
    BY <1>2 DEF Trigger
  <2>2. New("queued", b) \in Run
    BY JobBodies, NewType DEF RunStates
  <2> QED
    BY <1>2, <2>1, <2>2 DEF Trigger, history
<1>3. CASE Count(r)
  <2>1. run' \in [Runs -> Run]
    BY <1>3 DEF Count, Run, RunStates
  <2> QED
    BY <1>3, <2>1 DEF Count, Counted, history
<1>4. CASE SkipRun(r)
  BY <1>4, IdleType DEF SkipRun, history
<1>5. CASE Mark(r)
  <2>1. run' \in [Runs -> Run]
    BY <1>5 DEF Mark, Run, RunStates
  <2>2. overlapped' \in BOOLEAN
    BY <1>5 DEF Mark
  <2> QED
    BY <1>5, <2>1, <2>2 DEF Mark
<1>6. CASE Finish(r)
  <2>1. run' \in [Runs -> Run]
    BY <1>6 DEF Finish, After, Run, RunStates
  <2> QED
    BY <1>6, <2>1 DEF Finish, history
<1>7. CASE Unmark(r)
  <2>1. run' \in [Runs -> Run]
    BY <1>7, IdleType DEF Unmark, Run, RunStates
  <2> QED
    BY <1>7, <2>1 DEF Unmark, history
<1>8. CASE Record(r)
  <2>1. PICK status \in {StatusOf(r), "none"} : run' = [run EXCEPT ![r].pc = "uncount", ![r].status = status]
    BY <1>8 DEF Record
  <2>2. status \in Statuses
    BY DEF StatusOf, Statuses
  <2>3. run' \in [Runs -> Run]
    BY <2>1, <2>2 DEF Run, RunStates
  <2> QED
    BY <1>8, <2>3 DEF Record, history
<1>9. CASE Uncount(r)
  <2>1. run' \in [Runs -> Run]
    BY <1>9, IdleType DEF Uncount
  <2>2. count' \in Nat
    BY <1>9 DEF Uncount, Decremented
  <2> QED
    BY <1>9, <2>1, <2>2 DEF Uncount, history
<1>10. CASE \E way \in Endings : Fail(r, way)
  <2>1. PICK way \in Endings : Fail(r, way)
    BY <1>10
  <2> DEFINE detail == DetailAfter(r, way)
  <2>2. detail \in BOOLEAN
    BY DEF DetailAfter
  <2>3. run' = [run EXCEPT ![r].pc = AfterFailure(r), ![r].how = way, ![r].error_detail = detail]
    BY <2>1 DEF Fail
  <2>4. AfterFailure(r) \in RunStates /\ way \in Endings
    BY DEF AfterFailure, After, RunStates
  <2> HIDE DEF detail
  <2>5. run' \in [Runs -> Run]
    BY <2>2, <2>3, <2>4 DEF Run
  <2> QED
    BY <2>1, <2>5 DEF Fail, history
<1>11. CASE Alarm(r)
  <2> DEFINE detail == (r \in Tracked)
  <2>1. detail \in BOOLEAN /\ run' = [run EXCEPT ![r].error_detail = detail]
    BY <1>11 DEF Alarm
  <2> HIDE DEF detail
  <2>2. run' \in [Runs -> Run]
    BY <2>1 DEF Run
  <2> QED
    BY <1>11, <2>2 DEF Alarm, history
<1> QED
  BY <1>1, <1>2, <1>3, <1>4, <1>5, <1>6, <1>7, <1>8, <1>9, <1>10, <1>11 DEF Step

-----------------------------------------------------------------------------
(* What a step of a run does, action by action *)

Others(r) == /\ \A s \in Runs \ {r} : run'[s] = run[s]
             /\ UNCHANGED <<job, scheduler, restorer, cleared, crowded>>
Keeps(r) == run'[r].body = run[r].body /\ run'[r].how = run[r].how
            /\ run'[r].error_detail = run[r].error_detail

Started(r) == /\ r \in Tracked /\ At(r, "idle") /\ run'[r].pc = "queued"
              /\ run'[r].how = "well" /\ ~run'[r].error_detail
              /\ UNCHANGED <<count, active, overlapped>>
Counts(r) == /\ At(r, "queued") /\ ~Refused(r) /\ count' = count + 1
             /\ Keeps(r) /\ UNCHANGED <<active, overlapped>>
             /\ \/ run'[r].pc = "mark" /\ run[r].body.shown
                \/ run'[r].pc = "work" /\ ~run[r].body.shown
Skipped(r) == At(r, "queued") /\ run'[r].pc = "idle" /\ UNCHANGED <<count, active, overlapped>>
Marks(r) == /\ At(r, "mark") /\ run'[r].pc = "work" /\ Keeps(r)
            /\ active' = TRUE /\ (overlapped' <=> overlapped \/ \E s \in Runs : Marked(s))
            /\ UNCHANGED count
Works(r) == /\ At(r, "work") /\ UNCHANGED <<count, active, overlapped>>
            /\ run'[r].body = run[r].body
            /\ \/ run'[r].pc = "unmark" /\ run[r].body.shown
               \/ run'[r].pc = "record" /\ ~run[r].body.shown
            /\ \/ run'[r].how = run[r].how /\ run'[r].error_detail = run[r].error_detail
               \/ Told(run'[r].how) /\ (r \in Tracked => run'[r].error_detail)
               \/ ~Told(run'[r].how) /\ (run'[r].error_detail => run[r].error_detail)
Alarms(r) == /\ At(r, "work") /\ run'[r].pc = "work" /\ UNCHANGED <<count, active, overlapped>>
             /\ run'[r].body = run[r].body /\ run'[r].how = run[r].how /\ run[r].body.alarms
Unmarks(r) == /\ At(r, "unmark") /\ active' = FALSE /\ UNCHANGED <<count, overlapped>>
              /\ \/ r \in Tracked /\ run'[r].pc = "record" /\ Keeps(r)
                 \/ r \notin Tracked /\ run'[r].pc = "idle"
Records(r) == /\ At(r, "record") /\ run'[r].pc = "uncount" /\ Keeps(r)
              /\ run'[r].status \in {StatusOf(r), "none"} /\ UNCHANGED <<count, active, overlapped>>
Uncounts(r) == At(r, "uncount") /\ run'[r].pc = "idle" /\ count' = count - 1 /\ UNCHANGED <<active, overlapped>>

Moves(r) == \/ Started(r) \/ Counts(r) \/ Skipped(r) \/ Marks(r)
            \/ Works(r) \/ Alarms(r) \/ Unmarks(r) \/ Records(r) \/ Uncounts(r)

LEMMA StepMoves ==
  ASSUME TypeOK, NEW r \in Runs, Step(r)
  PROVE  Others(r) /\ Moves(r)
<1> USE DEF TypeOK, Run, At, Others, Keeps, history
<1>1. CASE Submit(r)
  <2>1. PICK b \in job.scheduled : run' = [run EXCEPT ![r] = New("queued", b)]
    BY <1>1 DEF Submit
  <2>2. Started(r)
    BY <1>1, <2>1 DEF Submit, Instances, Started, New, Tracked
  <2> QED
    BY <1>1, <2>1, <2>2 DEF Submit, Moves
<1>2. CASE Trigger(r)
  <2>1. PICK b \in job.manual : run' = [run EXCEPT ![r] = New("queued", b)]
    BY <1>2 DEF Trigger
  <2>2. Started(r)
    BY <1>2, <2>1 DEF Trigger, Started, New, Tracked
  <2> QED
    BY <1>2, <2>1, <2>2 DEF Trigger, Moves
<1>3. CASE Count(r)
  <2>1. Counts(r)
    BY <1>3 DEF Count, Counted, Counts
  <2> QED
    BY <1>3, <2>1 DEF Count, Moves
<1>4. CASE SkipRun(r)
  <2>1. Skipped(r)
    BY <1>4 DEF SkipRun, Skipped, Idle, New
  <2> QED
    BY <1>4, <2>1 DEF SkipRun, Moves
<1>5. CASE Mark(r)
  <2>1. Marks(r)
    BY <1>5 DEF Mark, Marks
  <2> QED
    BY <1>5, <2>1 DEF Mark, Moves
<1>6. CASE Finish(r)
  <2>1. Works(r)
    BY <1>6 DEF Finish, After, Works
  <2> QED
    BY <1>6, <2>1 DEF Finish, Moves
<1>7. CASE Unmark(r)
  <2>1. Unmarks(r)
    BY <1>7 DEF Unmark, Unmarks, Idle, New
  <2> QED
    BY <1>7, <2>1 DEF Unmark, Moves
<1>8. CASE Record(r)
  <2>1. PICK status \in {StatusOf(r), "none"} : run' = [run EXCEPT ![r].pc = "uncount", ![r].status = status]
    BY <1>8 DEF Record
  <2>2. Records(r)
    BY <1>8, <2>1 DEF Record, Records
  <2> QED
    BY <1>8, <2>1, <2>2 DEF Record, Moves
<1>9. CASE Uncount(r)
  <2>1. Uncounts(r)
    BY <1>9 DEF Uncount, Decremented, Uncounts, Idle, New
  <2> QED
    BY <1>9, <2>1 DEF Uncount, Moves
<1>10. CASE \E way \in Endings : Fail(r, way)
  <2>1. PICK way \in Endings : Fail(r, way)
    BY <1>10
  <2> DEFINE detail == DetailAfter(r, way)
  <2>2. run' = [run EXCEPT ![r].pc = AfterFailure(r), ![r].how = way, ![r].error_detail = detail]
    BY <2>1 DEF Fail
  <2>3. /\ Told(way) /\ r \in Tracked => detail
        /\ ~Told(way) /\ detail => run[r].error_detail
    BY DEF DetailAfter, SetsErrorDetail, Told
  <2> HIDE DEF detail
  <2>4. /\ run'[r].how = way /\ run'[r].error_detail = detail /\ run'[r].body = run[r].body
        /\ run'[r].pc = IF run[r].body.shown THEN "unmark" ELSE "record"
    BY <2>2 DEF AfterFailure, After
  <2>5. Works(r)
    BY <2>1, <2>3, <2>4 DEF Fail, Works
  <2> QED
    BY <2>1, <2>2, <2>5 DEF Fail, Moves
<1>11. CASE Alarm(r)
  <2> DEFINE detail == (r \in Tracked)
  <2>1. run' = [run EXCEPT ![r].error_detail = detail]
    BY <1>11 DEF Alarm
  <2> HIDE DEF detail
  <2>2. Alarms(r)
    BY <1>11, <2>1 DEF Alarm, Alarms
  <2> QED
    BY <1>11, <2>1, <2>2 DEF Alarm, Moves
<1> QED
  BY <1>1, <1>2, <1>3, <1>4, <1>5, <1>6, <1>7, <1>8, <1>9, <1>10, <1>11 DEF Step

-----------------------------------------------------------------------------
(* The counter *)

LEMMA BusyFinite ==
  /\ IsFiniteSet(Busy) /\ Cardinality(Busy) \in Nat
  /\ CountsRuns <=> count = Cardinality(Busy)
<1>1. Tracked \subseteq Runs /\ Busy \in SUBSET Tracked
  BY DEF Tracked, Runs, Busy
<1>2. IsFiniteSet(Tracked)
  BY <1>1, FS_Subset, RunsAssumption
<1> QED
  BY <1>1, <1>2, FS_Subset, FS_CardinalityType DEF CountsRuns, Busy

LEMMA CountStep ==
  ASSUME TypeOK, CountsRuns, MarkersShow, NEW r \in Runs, Others(r), Moves(r)
  PROVE  CountsRuns'
<1>1. /\ \A s \in Runs \ {r} : s \in Busy <=> s \in Busy'
      /\ Busy \subseteq Runs /\ Busy' \subseteq Runs
  BY DEF Others, Busy, InProgress, Tracked, Runs
<1>2. r \in ResumedRuns => r \notin Tracked
  BY RunsAssumption DEF Tracked
<1>3. CASE Counts(r)
  <2>1. r \in Tracked
    BY <1>3 DEF Counts, At, MarkersShow, Tracked, Runs
  <2>2. r \notin Busy /\ r \in Busy'
    BY <1>3, <2>1 DEF Counts, At, Busy, InProgress
  <2>3. Busy' = Busy \union {r}
    BY <1>1, <2>2
  <2> QED
    BY <1>3, <2>2, <2>3, BusyFinite, FS_AddElement DEF Counts, CountsRuns, Busy
<1>4. CASE Uncounts(r)
  <2>1. r \in Tracked
    BY <1>4 DEF Uncounts, At, MarkersShow, Tracked, Runs
  <2>2. r \in Busy /\ r \notin Busy'
    BY <1>4, <2>1 DEF Uncounts, At, Busy, InProgress
  <2>3. Busy' = Busy \ {r}
    BY <1>1, <2>2
  <2> QED
    BY <1>4, <2>2, <2>3, BusyFinite, FS_RemoveElement DEF Uncounts, CountsRuns, Busy
<1>5. CASE Started(r) \/ Skipped(r) \/ Marks(r) \/ Works(r) \/ Alarms(r) \/ Unmarks(r) \/ Records(r)
  <2>1. r \in Busy <=> r \in Busy'
    BY <1>2, <1>5 DEF Started, Skipped, Marks, Works, Alarms, Unmarks, Records, At, Busy, InProgress, MarkersShow
  <2>2. Busy' = Busy
    BY <1>1, <2>1
  <2>3. count' = count
    BY <1>5 DEF Started, Skipped, Marks, Works, Alarms, Unmarks, Records
  <2> QED
    BY <2>2, <2>3 DEF CountsRuns, Busy
<1> QED
  BY <1>3, <1>4, <1>5 DEF Moves

\* A run in progress keeps the counter above zero.
LEMMA BusyCounted ==
  ASSUME CountsRuns, NEW r \in Tracked, InProgress(r)
  PROVE  count > 0
<1>1. Busy # {}
  BY DEF Busy
<1> QED
  BY <1>1, BusyFinite, FS_EmptySet

-----------------------------------------------------------------------------
(* The labels and the history *)

LEMMA MarkersStep ==
  ASSUME TypeOK, MarkersShow, NEW r \in Runs, Others(r), Moves(r)
  PROVE  MarkersShow'
<1>1. ResumedRuns \subseteq Runs /\ ResumedRuns \intersect Tracked = {}
  BY RunsAssumption DEF Runs
<1> QED
  BY <1>1 DEF MarkersShow, Others, Moves, Started, Counts, Skipped, Marks, Works, Alarms, Unmarks, Records, Uncounts, Keeps, At

LEMMA ByHandStep ==
  ASSUME TypeOK, CountsRuns, OneByHand, MarkersShow, NEW r \in Runs, Others(r), Moves(r)
  PROVE  OneByHand'
<1>1. ManualRuns \subseteq Tracked /\ Tracked \subseteq Runs
  BY DEF Tracked, Runs
<1>2. CASE Counts(r)
  <2>1. CASE r \in ManualRuns
    <3>1. count = 0
      BY <1>2, <2>1 DEF Counts, Refused, TypeOK
    <3>2. \A s \in ManualRuns : ~InProgress(s)
      BY <1>1, <3>1, BusyCounted
    <3> QED
      BY <1>1, <3>2 DEF Others, OneByHand, InProgress
  <2>2. CASE r \notin ManualRuns
    BY <1>1, <2>2 DEF Others, OneByHand, InProgress
  <2> QED
    BY <2>1, <2>2
<1>3. CASE ~Counts(r)
  <2>1. InProgress(r)' => InProgress(r)
    BY <1>3 DEF Moves, Started, Skipped, Marks, Works, Alarms, Unmarks, Records, Uncounts, At, InProgress, MarkersShow, Runs
  <2> QED
    BY <1>1, <2>1 DEF Others, OneByHand, InProgress
<1> QED
  BY <1>2, <1>3

LEMMA LabelStep ==
  ASSUME TypeOK, MarkersShow, LabelShows, NoStaleLabel, NEW r \in Runs, Others(r), Moves(r)
  PROVE  LabelShows' /\ NoStaleLabel'
<1>1. CASE Marks(r)
  <2>1. Marked(r)' /\ active'
    BY <1>1 DEF Marks, Marked, At, Keeps, MarkersShow
  <2>2. ~overlapped' => \A s \in Runs \ {r} : ~Marked(s)'
    BY <1>1 DEF Marks, Marked, Others
  <2> QED
    BY <2>1, <2>2 DEF LabelShows, NoStaleLabel
<1>2. CASE Unmarks(r)
  <2>1. Marked(r) /\ ~active' /\ ~Marked(r)'
    BY <1>2 DEF Unmarks, Marked, At, MarkersShow
  <2>2. ~overlapped' /\ ~cleared' => \A s \in Runs : ~Marked(s)'
    BY <1>2, <2>1 DEF Unmarks, Marked, Others, LabelShows
  <2> QED
    BY <2>1, <2>2 DEF LabelShows, NoStaleLabel
<1>3. CASE ~Marks(r) /\ ~Unmarks(r)
  <2>1. Marked(r)' <=> Marked(r)
    BY <1>3 DEF Moves, Started, Counts, Skipped, Works, Alarms, Records, Uncounts, Keeps, Marked, At
  <2>2. UNCHANGED <<active, overlapped>>
    BY <1>3 DEF Moves, Started, Counts, Skipped, Works, Alarms, Records, Uncounts
  <2> QED
    BY <2>1, <2>2 DEF LabelShows, NoStaleLabel, Others, Marked
<1> QED
  BY <1>1, <1>2, <1>3

LEMMA HistoryStep ==
  ASSUME TypeOK, MarkersShow, DetailFollows, FailuresRecorded, NEW r \in Runs, Others(r), Moves(r)
  PROVE  DetailFollows' /\ FailuresRecorded'
<1>1. Tracked \subseteq Runs
  BY DEF Tracked, Runs
<1>2. CASE Records(r)
  <2>1. r \in Tracked => Accounts(run[r])
    BY <1>2 DEF Records, At, DetailFollows
  <2>2. run'[r].status # "none" => run'[r].status = IF run[r].error_detail THEN "error" ELSE "success"
    BY <1>2 DEF Records, StatusOf
  <2>3. r \in Tracked /\ run'[r].status # "none" =>
          /\ Told(run'[r].how) => run'[r].status = "error"
          /\ run'[r].status = "error" => Told(run'[r].how) \/ run'[r].body.alarms
    BY <1>2, <2>1, <2>2 DEF Records, Keeps, Accounts
  <2> QED
    BY <1>1, <1>2, <2>3 DEF Others, DetailFollows, FailuresRecorded, Records, At
<1>3. CASE ~Records(r)
  <2>1. FailuresRecorded'
    BY <1>1, <1>3 DEF Moves, Started, Counts, Skipped, Marks, Works, Alarms, Unmarks, Uncounts, At, FailuresRecorded, Others
  <2>2. DetailFollows'
    BY <1>1, <1>3 DEF Moves, Started, Counts, Skipped, Marks, Works, Alarms, Unmarks, Uncounts, Keeps, At, DetailFollows, Accounts, Told, Others
  <2> QED
    BY <2>1, <2>2
<1> QED
  BY <1>2, <1>3

-----------------------------------------------------------------------------
(* The inductive invariant *)

LEMMA RunStep ==
  ASSUME Inv, NEW r \in Runs, Step(r)
  PROVE  Inv'
<1> USE DEF Inv, RunInv, RestoreInv
<1>1. Others(r) /\ Moves(r)
  BY StepMoves
<1>2. At(r, "uncount") => count > 0
  <2>1. At(r, "uncount") => r \in Tracked
    BY DEF At, MarkersShow, Tracked, Runs
  <2> QED
    BY <2>1, BusyCounted DEF At, InProgress
<1>3. TypeOK'
  BY <1>2, TypeOfStep
<1>4. RunInv'
  BY <1>1, CountStep, ByHandStep, MarkersStep, LabelStep, HistoryStep
<1>5. /\ PausersResume' /\ OneRestore' /\ SchedulerComesBack' /\ PausedWhileRestoring'
  BY <1>1 DEF Others, PausersResume, OneRestore, SchedulerComesBack, PausedWhileRestoring
<1>6. RestoreSeesLabels'
  <2>1. overlapped => overlapped'
    BY <1>1 DEF Moves, Started, Counts, Skipped, Marks, Works, Alarms, Unmarks, Records, Uncounts, TypeOK
  <2> QED
    BY <1>1, <2>1 DEF Others, RestoreSeesLabels
<1> QED
  BY <1>3, <1>4, <1>5, <1>6

\* What restores, the scheduler thread and the operator do leaves the runs alone.
LEMMA RunsUntouched ==
  ASSUME RunInv, UNCHANGED <<run, count, overlapped>>, active' = active \/ (~active' /\ cleared'),
         cleared => cleared'
  PROVE  RunInv'
<1>1. \A r \in Runs : Marked(r)' <=> Marked(r)
  BY DEF Marked
<1>2. LabelShows' /\ NoStaleLabel'
  BY <1>1 DEF RunInv, LabelShows, NoStaleLabel
<1>3. CountsRuns' /\ OneByHand' /\ MarkersShow'
  BY DEF RunInv, CountsRuns, OneByHand, MarkersShow, InProgress
<1>4. DetailFollows' /\ FailuresRecorded'
  BY DEF RunInv, DetailFollows, FailuresRecorded, At
<1> QED
  BY <1>2, <1>3, <1>4 DEF RunInv

LEMMA AskType ==
  ASSUME restorer \in [Restorers -> Restorer], NEW x \in Restorers, Ask(x)
  PROVE  restorer' \in [Restorers -> Restorer]
<1> DEFINE marked == {r \in Runs : Marked(r)}
           next == IF MayRestore THEN "swap" ELSE "leave"
<1>1. marked \in SUBSET Runs /\ next \in {"swap", "leave"}
  OBVIOUS
<1>2. restorer' = [restorer EXCEPT ![x].pc = next, ![x].saw = marked]
  BY DEF Ask
<1> HIDE DEF marked, next
<1> QED
  BY <1>1, <1>2 DEF Restorer

LEMMA RestoreStep ==
  ASSUME Inv, NEW x \in Restorers, Restore(x)
  PROVE  Inv'
<1> USE DEF TypeOK, Restorer, history
<1> TypeOK /\ RestoreInv
  BY DEF Inv
<1>0. RunInv'
  <2>1. UNCHANGED <<run, count, active, overlapped, cleared>>
    BY DEF Restore, Enter, Pause, Ask, Swapped, Leave
  <2> QED
    BY <2>1, RunsUntouched DEF Inv
<1> USE DEF RestoreInv, PausersResume, OneRestore, SchedulerComesBack, PausedWhileRestoring, RestoreSeesLabels
<1>1. CASE Enter(x)
  <2>1. CASE scheduler = "running"
    <3>1. restorer' = [restorer EXCEPT ![x] = [pc |-> "pause", paused |-> TRUE, saw |-> {}]]
      BY <1>1, <2>1 DEF Enter, Pauses
    <3>2. crowded' \in BOOLEAN /\ (crowded' <=> crowded \/ \E y \in Restorers : restorer[y].pc # "idle")
      BY <1>1 DEF Enter
    <3>3. restorer' \in [Restorers -> Restorer]
      BY <3>1
    <3>4. TypeOK'
      BY <1>1, <3>2, <3>3 DEF Enter, Inv
    <3>5. RestoreInv'
      BY <1>1, <2>1, <3>1, <3>2 DEF Enter
    <3> QED
      BY <1>0, <3>4, <3>5 DEF Inv
  <2>2. CASE scheduler # "running"
    <3>1. restorer' = [restorer EXCEPT ![x] = [pc |-> "ask", paused |-> FALSE, saw |-> {}]]
      BY <1>1, <2>2 DEF Enter, Pauses
    <3>2. crowded' \in BOOLEAN /\ (crowded' <=> crowded \/ \E y \in Restorers : restorer[y].pc # "idle")
      BY <1>1 DEF Enter
    <3>3. restorer' \in [Restorers -> Restorer]
      BY <3>1
    <3>4. TypeOK'
      BY <1>1, <3>2, <3>3 DEF Enter, Inv
    <3>5. RestoreInv'
      BY <1>1, <2>2, <3>1, <3>2 DEF Enter
    <3> QED
      BY <1>0, <3>4, <3>5 DEF Inv
  <2> QED
    BY <2>1, <2>2
<1>2. CASE Pause(x)
  <2>1. TypeOK' /\ RestoreInv'
    BY <1>2 DEF Pause
  <2> QED
    BY <1>0, <2>1 DEF Inv
<1>3. CASE Ask(x)
  <2>1. {r \in Runs : Marked(r)} \subseteq Runs
    OBVIOUS
  <2>2. restorer' \in [Restorers -> Restorer]
    BY <1>3, AskType
  <2>6. TypeOK'
    BY <1>3, <2>2 DEF Ask
  <2>3. ~overlapped /\ ~cleared /\ ~active => {r \in Runs : Marked(r)} = {}
    BY DEF Inv, RunInv, LabelShows
  <2>4. RestoreSeesLabels'
    BY <1>3, <2>3 DEF Ask, MayRestore
  <2>5. PausersResume' /\ OneRestore' /\ SchedulerComesBack' /\ PausedWhileRestoring'
    BY <1>3 DEF Ask
  <2> QED
    BY <1>0, <2>4, <2>5, <2>6 DEF Inv
<1>4. CASE Swapped(x)
  <2>1. TypeOK' /\ RestoreInv'
    BY <1>4 DEF Swapped
  <2> QED
    BY <1>0, <2>1 DEF Inv
<1>5. CASE Leave(x)
  <2>1. TypeOK'
    BY <1>5 DEF Leave, IdleRestorer
  <2>2. RestoreInv'
    BY <1>5 DEF Leave, Resumes, IdleRestorer
  <2> QED
    BY <1>0, <2>1, <2>2 DEF Inv
<1> QED
  BY <1>1, <1>2, <1>3, <1>4, <1>5 DEF Restore

LEMMA InitInv == Init => Inv
<1> SUFFICES ASSUME Init PROVE Inv
  OBVIOUS
<1>1. TypeOK
  BY TypeInit
<1>2. \A r \in Runs : run[r].pc = "idle" \/ (r \in ResumedRuns /\ run[r].pc = "mark" /\ run[r].body.shown)
  <2>1. \A b \in job.resumed : New("mark", b).pc = "mark" /\ New("mark", b).body.shown
    BY ResumedShown DEF Init, New
  <2>2. ASSUME NEW r \in Runs
        PROVE  run[r] = Idle \/ \E b \in job.resumed : run[r] = New("mark", b)
    BY DEF Init
  <2>3. Idle.pc = "idle"
    BY DEF Idle, New
  <2> QED
    BY <2>1, <2>2, <2>3 DEF Init, At, Runs, Tracked
<1>3. Busy = {}
  BY DEF Init, Busy, InProgress, At
<1>4. CountsRuns /\ OneByHand
  BY <1>3, FS_EmptySet DEF Init, CountsRuns, Busy, OneByHand, Tracked
<1>5. MarkersShow /\ LabelShows /\ NoStaleLabel
  BY <1>2 DEF Init, MarkersShow, LabelShows, NoStaleLabel, Marked, Runs
<1>6. DetailFollows /\ FailuresRecorded
  <2>1. \A r \in Tracked : run[r].pc = "idle"
    BY DEF Init, At
  <2> QED
    BY <2>1 DEF DetailFollows, FailuresRecorded, At
<1>7. RestoreInv
  BY DEF Init, IdleRestorer, RestoreInv, PausersResume, OneRestore, SchedulerComesBack, PausedWhileRestoring,
     RestoreSeesLabels
<1> QED
  BY <1>1, <1>4, <1>5, <1>6, <1>7 DEF Inv, RunInv

LEMMA NextInv == Inv /\ [Next]_vars => Inv'
<1> SUFFICES ASSUME Inv, [Next]_vars PROVE Inv'
  OBVIOUS
<1>1. ASSUME UNCHANGED <<job, run, count, scheduler, restorer, overlapped, crowded>>,
             active' = active \/ (~active' /\ cleared'), cleared => cleared',
             {active', due', cleared'} \subseteq BOOLEAN
      PROVE  Inv'
  <2>1. RunInv'
    BY <1>1, RunsUntouched DEF Inv
  <2>2. TypeOK'
    BY <1>1 DEF Inv, TypeOK
  <2>3. RestoreInv'
    BY <1>1 DEF Inv, RestoreInv, PausersResume, OneRestore, SchedulerComesBack, PausedWhileRestoring, RestoreSeesLabels
  <2> QED
    BY <2>1, <2>2, <2>3 DEF Inv
<1>2. CASE Wake
  BY <1>1, <1>2 DEF Wake, history, Inv, TypeOK
<1>3. CASE SkipInstance
  BY <1>1, <1>3 DEF SkipInstance, history, Inv, TypeOK
<1>4. CASE ForceClear
  BY <1>1, <1>4 DEF ForceClear, Inv, TypeOK
<1>5. CASE UNCHANGED vars
  BY <1>1, <1>5 DEF vars, history, Inv, TypeOK
<1> QED
  BY <1>2, <1>3, <1>4, <1>5, RunStep, RestoreStep DEF Next

LEMMA InvHolds == Spec => []Inv
<1>1. Init => Inv
  BY InitInv
<1>2. Inv /\ [Next]_vars => Inv'
  BY NextInv
<1> QED
  BY <1>1, <1>2, PTL DEF Spec

-----------------------------------------------------------------------------
\* Every variable of JobRuns keeps its type.
THEOREM TypeCorrect == Spec => []TypeOK
<1>1. Inv => TypeOK
  BY DEF Inv
<1> QED
  BY <1>1, InvHolds, PTL

\* _running_job_runs counts the tracked runs of a job that are in progress, however
\* many start, are skipped, fail and end in whatever order; of the manual triggers that
\* pass job_busy_response together one works; and a label in _active_jobs is the label
\* of a body at work.
THEOREM RunsAreTrackedHolds == Spec => []RunsAreTracked
<1>1. Inv => RunsAreTracked
  BY DEF Inv, RunInv, RunsAreTracked
<1> QED
  BY <1>1, InvHolds, PTL

\* A restore that goes on has seen no marked body, as long as labels were marked by
\* one body at a time and never cleared by hand; scheduler_quiesced never leaves the
\* scheduler paused without somebody to resume it, and restores that come one at a
\* time keep it paused to their end.
THEOREM RestoresAreSafeHolds == Spec => []RestoresAreSafe
<1>1. Inv => RestoresAreSafe
  BY DEF Inv, RestoreInv, RestoresAreSafe
<1> QED
  BY <1>1, InvHolds, PTL

\* The run history says error of every run whose failure was reported or raised with a
\* text, and of no other but a system check that found an issue.
THEOREM FailuresRecordedHolds == Spec => []FailuresRecorded
<1>1. Inv => FailuresRecorded
  BY DEF Inv, RunInv
<1> QED
  BY <1>1, InvHolds, PTL
=============================================================================
