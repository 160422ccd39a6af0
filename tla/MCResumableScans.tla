-------------------------- MODULE MCResumableScans --------------------------
(* Small instances of ResumableScans: lists of two tickers, two started threads. *)
EXTENDS ResumableScans

List == <<"A", "B">>
Shifted == <<"B", "C">>
Long == <<"A", "B", "C">>
OneList == {List}
TwoLists == {Long, Shifted}

\* The jobs that share rows: a started one with what can go wrong and the threads
\* that resume it, or two started ones.
Scope(jobs, starts, days, crashes, failures) ==
  [jobs |-> jobs, starts |-> starts, days |-> days, crashes |-> crashes, failures |-> failures]
JobSets ==
  {Scope({"run_overnight_quant_scan", "bg_execute_quant_scan"}, 2, 1, 1, 0),
   Scope({"run_overnight_quant_scan"}, 1, 2, 1, 1),
   Scope({"run_weekend_universe_routine"}, 1, 2, 1, 0),
   Scope({"run_weekend_universe_routine"}, 1, 1, 1, 1),
   Scope({"run_weekend_universe_routine", "bg_execute_universe_quant_scan"}, 2, 1, 0, 0),
   Scope({"run_universe_deep_sync"}, 1, 2, 1, 0),
   Scope({"run_universe_deep_sync"}, 1, 1, 1, 1),
   Scope({"run_universe_deep_sync"}, 2, 1, 0, 0),
   Scope({"run_ml_backfill"}, 2, 2, 1, 0),
   Scope({"run_universe_csv_import_scan"}, 2, 1, 1, 0)}
\* What was begun is finished while its day lasts.
BegunIsFinished == InterruptedIsFinished /\ DeepSyncFinishes
=============================================================================
