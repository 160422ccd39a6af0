------------------------------ MODULE JobTable ------------------------------
(***************************************************************************)
(* What runs under each job id: the bodies of scheduler_jobs.py and of the *)
(* routes' background tasks, reduced to what the tracking of runs sees of  *)
(* them, and which of them the schedule, the routes and the startup start. *)
(*                                                                         *)
(* shown:  the body marks a label in _active_jobs for as long as it works. *)
(* fails:  what it may do when its work raises:                            *)
(*   "raises"   the exception leaves the body;                             *)
(*   "reports"  log_sched_notification("Error", ..) of the running job;    *)
(*   "hides"    anything else: a notify, a row in the feed, a log line.    *)
(* alarms: it may log such an Error about what it found, its work done.    *)
(***************************************************************************)

Shown(fails) == [shown |-> TRUE, fails |-> fails, alarms |-> FALSE]
Unshown(fails) == [shown |-> FALSE, fails |-> fails, alarms |-> FALSE]

\* A job: the bodies its schedule may start (and the retraining queue), those
\* its routes may start, those resume_interrupted_scans may start.
Job(scheduled, manual) == [scheduled |-> scheduled, manual |-> manual, resumed |-> {}]
Resumed(job) == [job EXCEPT !.resumed = job.scheduled]

-----------------------------------------------------------------------------
(* The bodies *)

\* The body marks its label, reports its failure and unmarks in the end.
run_account_scraper_job == Shown({"reports"})
run_earnings_vol_retry_job == Shown({"reports"})
run_alert_referee_training_job == Shown({"reports"})
run_anomaly_training_job == Shown({"reports"})
run_bubble_radar_job == Shown({"reports"})
run_confluence_referee_training_job == Shown({"reports"})
run_etf_predictor_fill_actuals_job == Shown({"reports"})
run_etf_predictor_job == Shown({"reports"})
run_forensic_quarterly_fetch_job == Shown({"reports"})
run_forensic_scores_job == Shown({"reports"})
run_freetrade_sync == Shown({"reports"})
run_fundamentals_profiler == Shown({"reports"})
run_ghostfolio_sync == Shown({"reports"})
run_index_scraper == Shown({"reports"})
run_macro_calendar_update == Shown({"reports"})
run_macro_data_update == Shown({"reports"})
run_macro_model_training_job == Shown({"reports"})
run_market_regime_hmm_job == Shown({"reports"})
run_ml_backfill == Shown({"reports"})
run_ml_inference == Shown({"reports"})
run_ml_training == Shown({"reports"})
run_overnight_quant_scan == Shown({"reports"})
run_pairs_spread_monitor_job == Shown({"reports"})
run_pairs_spread_universe_scan == Shown({"reports"})
run_pattern_detection_accuracy_fill_job == Shown({"reports"})
run_pattern_detection_backfill_job == Shown({"reports"})
run_risk_orchestrator_digest_job == Shown({"reports"})
run_risk_orchestrator_job == Shown({"reports"})
run_sector_relative_momentum_job == Shown({"reports"})
run_sentiment_scan == Shown({"reports"})
run_stable_shortlist_job == Shown({"reports"})
run_trap_accuracy_fill_job == Shown({"reports"})
run_treasury_auction_check == Shown({"reports"})
run_universe_csv_import_scan == Shown({"reports"})
run_universe_deep_sync_job == Shown({"reports"})
run_update_pipeline == Shown({"reports"})
run_weekend_earnings_scan == Shown({"reports"})
run_weekend_universe_routine == Shown({"reports"})
run_xray_risk_cache_job == Shown({"reports"})

\* As above, but a failure is sent by a plain notify, which the run history does not see.
run_account_reminder_job == Shown({"hides"})
run_account_topup_job == Shown({"hides"})
run_pattern_detection_job == Shown({"hides"})

\* No label; the failure leaves the body.
bg_execute_backup_run == Unshown({"raises"})
bg_execute_earnings_scan == Unshown({"raises"})
bg_execute_ml_inference == Unshown({"raises"})
bg_execute_quant_scan == Unshown({"raises"})
bg_execute_universe_quant_scan == Unshown({"raises"})
run_account_value_snapshot == Unshown({"raises"})
run_backup_job == Unshown({"raises"})
run_earnings_alert_job == Unshown({"raises"})
run_insider_alert_job == Unshown({"raises"})
run_intraday_orchestrator == Unshown({"raises"})
run_maintenance_engine == Unshown({"raises"})
run_treasury_bill_maturity_sweep == Unshown({"raises"})
trigger_sentiment_report == Unshown({"raises"})

\* No label; the failure is reported.
run_account_performance_refresh_job == Unshown({"reports"})
run_ai_contagion_job == Unshown({"reports"})
run_etf_actual_fill_job == Unshown({"reports"})
run_intraday_dip_reset == Unshown({"reports"})
run_mcp_pairing_window_check == Unshown({"reports"})
run_memory_telemetry_job == Unshown({"reports"})
run_trap_monitor_job == Unshown({"reports"})

\* As above; the issues it finds are logged as Errors.
run_system_check_job == [Unshown({"reports"}) EXCEPT !.alarms = TRUE]

\* No label; what precedes the try, or is not the expected error, leaves the body.
bg_execute_ml_training == Unshown({"reports", "raises"})
run_intraday_dip_scan == Unshown({"reports", "raises"})

\* No label; the failure is only logged or written to the feed.
bg_init_macro_pipeline == Unshown({"hides"})
bg_run_macro_pipeline == Unshown({"hides"})
run_central_bank_nlp_check == Unshown({"hides"})

\* No label; what precedes the try leaves the body.
run_historical_backfill == Unshown({"hides", "raises"})
run_news_feed_job == Unshown({"hides", "raises"})
update_market_universe == Unshown({"hides", "raises"})

-----------------------------------------------------------------------------
(* The routes that start a run by hand, with the body they start *)

api_trigger_account_value_snapshot == run_account_value_snapshot
api_trigger_treasury_bill_maturity_sweep == run_treasury_bill_maturity_sweep
fill_etf_predictor_actuals == run_etf_predictor_fill_actuals_job
import_server_csv == run_universe_csv_import_scan
run_bubble_radar == run_bubble_radar_job
run_etf_predictor == run_etf_predictor_job
run_market_regime_now == run_market_regime_hmm_job
run_news_feed_now == run_news_feed_job
run_pairs_spread_scan == run_pairs_spread_monitor_job
run_pairs_spread_universe == run_pairs_spread_universe_scan
run_pattern_detection_backfill == run_pattern_detection_backfill_job
run_pattern_detection_scan == run_pattern_detection_job
run_risk_orchestrator == run_risk_orchestrator_job
run_sector_relative_momentum_scan == run_sector_relative_momentum_job
run_stable_shortlist_scan == run_stable_shortlist_job
run_trap_monitor == run_trap_monitor_job
train_alert_referee ==
  [alert |-> run_alert_referee_training_job, confluence |-> run_confluence_referee_training_job]
trigger_ai_contagion == run_ai_contagion_job
trigger_anomaly_training_endpoint == run_anomaly_training_job
trigger_backup_run == bg_execute_backup_run
trigger_earnings_scan_endpoint == bg_execute_earnings_scan
trigger_forensic_fetch == run_forensic_quarterly_fetch_job
trigger_forensic_scores == run_forensic_scores_job
trigger_freetrade_sync_endpoint == run_freetrade_sync
trigger_ghostfolio_sync == run_ghostfolio_sync
trigger_macro_init_endpoint == bg_init_macro_pipeline
trigger_macro_run_endpoint == bg_run_macro_pipeline
trigger_maintenance_run == run_maintenance_engine
trigger_ml_backfill_endpoint == run_historical_backfill
trigger_ml_inference_endpoint == bg_execute_ml_inference
trigger_ml_training_endpoint == bg_execute_ml_training
trigger_quant_scan_endpoint == bg_execute_quant_scan
trigger_sentiment_scan_endpoint == run_sentiment_scan
trigger_sync_indices_endpoint == run_index_scraper
trigger_sync_profiler_endpoint == run_fundamentals_profiler
trigger_treasury_auction_check_endpoint == run_treasury_auction_check
trigger_universe_deep_sync_endpoint == run_universe_deep_sync_job
trigger_universe_quant_scan_endpoint == bg_execute_universe_quant_scan
trigger_universe_update_endpoint == update_market_universe
trigger_update == run_update_pipeline
trigger_xray_risk_cache == run_xray_risk_cache_job

-----------------------------------------------------------------------------
(* The jobs: what their schedule runs, what their routes run *)

market_sentiment_job == Job({trigger_sentiment_report}, {})
earnings_alert_job == Job({run_earnings_alert_job}, {})
insider_alert_job == Job({run_insider_alert_job}, {})
ghostfolio_sync_job == Job({run_ghostfolio_sync}, {trigger_ghostfolio_sync})
quant_analysis_job == Job({run_update_pipeline}, {trigger_update})
sentiment_scan_job == Job({run_sentiment_scan}, {trigger_sentiment_scan_endpoint})
intraday_orchestrator_job == Job({run_intraday_orchestrator}, {})
maintenance_job == Job({run_maintenance_engine}, {trigger_maintenance_run})
account_value_snapshot_job == Job({run_account_value_snapshot}, {api_trigger_account_value_snapshot})
overnight_quant_scan_job == Resumed(Job({run_overnight_quant_scan}, {trigger_quant_scan_endpoint}))
weekend_earnings_vol_scan_job == Job({run_weekend_earnings_scan}, {trigger_earnings_scan_endpoint})
universe_routine_job == Resumed(
  Job({run_weekend_universe_routine}, {trigger_universe_update_endpoint, trigger_universe_quant_scan_endpoint}))
ml_backfill_job == Resumed(Job({run_ml_backfill}, {trigger_ml_backfill_endpoint}))
ml_training_job == Job({run_ml_training}, {trigger_ml_training_endpoint})
ml_inference_job == Job({run_ml_inference}, {trigger_ml_inference_endpoint})
freetrade_sync_job == Job({run_freetrade_sync}, {trigger_freetrade_sync_endpoint})
macro_calendar_job == Job({run_macro_calendar_update}, {trigger_macro_init_endpoint, trigger_macro_run_endpoint})
macro_data_job == Job({run_macro_data_update}, {})
cb_nlp_alert_job == Job({run_central_bank_nlp_check}, {})
index_scraper_job == Job({run_index_scraper}, {trigger_sync_indices_endpoint})
fundamentals_profiler_job == Job({run_fundamentals_profiler}, {trigger_sync_profiler_endpoint})
universe_deep_sync_job == Resumed(Job({run_universe_deep_sync_job}, {trigger_universe_deep_sync_endpoint}))
anomaly_training_job == Job({run_anomaly_training_job}, {trigger_anomaly_training_endpoint})
ai_contagion_job == Job({run_ai_contagion_job}, {trigger_ai_contagion})
trap_monitor_job == Job({run_trap_monitor_job}, {run_trap_monitor})
trap_accuracy_fill_job == Job({run_trap_accuracy_fill_job}, {})
alert_referee_training_job == Job({run_alert_referee_training_job}, {train_alert_referee.alert})
confluence_referee_training_job == Job({run_confluence_referee_training_job}, {train_alert_referee.confluence})
news_feed_job == Job({run_news_feed_job}, {run_news_feed_now})
bubble_radar_job == Job({run_bubble_radar_job}, {run_bubble_radar})
risk_orchestrator_job == Job({run_risk_orchestrator_job}, {run_risk_orchestrator})
risk_orchestrator_digest_job == Job({run_risk_orchestrator_digest_job}, {})
pairs_spread_monitor_job == Job({run_pairs_spread_monitor_job}, {run_pairs_spread_scan})
sector_relative_momentum_job == Job({run_sector_relative_momentum_job}, {run_sector_relative_momentum_scan})
stable_shortlist_job == Job({run_stable_shortlist_job}, {run_stable_shortlist_scan})
pattern_detection_job == Job({run_pattern_detection_job}, {run_pattern_detection_scan})
pattern_detection_accuracy_fill_job == Job({run_pattern_detection_accuracy_fill_job}, {})
forensic_quarterly_fetch_job == Job({run_forensic_quarterly_fetch_job}, {trigger_forensic_fetch})
forensic_scores_job == Job({run_forensic_scores_job}, {trigger_forensic_scores})
intraday_dip_scan_job == Job({run_intraday_dip_scan}, {})
account_performance_refresh_job == Job({run_account_performance_refresh_job}, {})
memory_telemetry_job == Job({run_memory_telemetry_job}, {})
intraday_dip_reset_N_job == Job({run_intraday_dip_reset}, {})
xray_risk_cache_job == Job({run_xray_risk_cache_job}, {trigger_xray_risk_cache})
treasury_bill_maturity_sweep_job == Job({run_treasury_bill_maturity_sweep}, {api_trigger_treasury_bill_maturity_sweep})
etf_predictor_actual_fill_job == Job({run_etf_actual_fill_job}, {})
macro_auction_job_am == Job({run_treasury_auction_check}, {trigger_treasury_auction_check_endpoint})
macro_auction_job_pm == Job({run_treasury_auction_check}, {})
backup_job == Job({run_backup_job}, {trigger_backup_run})
system_check_job == Job({run_system_check_job}, {})
mcp_pairing_window_check_job == Job({run_mcp_pairing_window_check}, {})
earnings_vol_retry_job == Job({run_earnings_vol_retry_job}, {})
etf_predictor_N_pre_job == Job({run_etf_predictor_job}, {run_etf_predictor})
etf_predictor_N_post_job == Job({run_etf_predictor_job}, {fill_etf_predictor_actuals})
account_scraper_N_job == Job({run_account_scraper_job}, {})
account_autotopup_N_job == Job({run_account_topup_job}, {})
account_reminder_N_job == Job({run_account_reminder_job}, {})
macro_model_training_job == Job({run_macro_model_training_job}, {})
universe_csv_import_source == Job({}, {import_server_csv})
pairs_spread_universe_source == Job({}, {run_pairs_spread_universe})
pattern_detection_backfill_source == Job({}, {run_pattern_detection_backfill})
market_regime_hmm_source == Job({}, {run_market_regime_now})

Jobs ==
  {market_sentiment_job, earnings_alert_job, insider_alert_job, ghostfolio_sync_job,
   quant_analysis_job, sentiment_scan_job, intraday_orchestrator_job, maintenance_job,
   account_value_snapshot_job, overnight_quant_scan_job, weekend_earnings_vol_scan_job,
   universe_routine_job, ml_backfill_job, ml_training_job, ml_inference_job, freetrade_sync_job,
   macro_calendar_job, macro_data_job, cb_nlp_alert_job, index_scraper_job,
   fundamentals_profiler_job, universe_deep_sync_job, anomaly_training_job, ai_contagion_job,
   trap_monitor_job, trap_accuracy_fill_job, alert_referee_training_job,
   confluence_referee_training_job, news_feed_job, bubble_radar_job, risk_orchestrator_job,
   risk_orchestrator_digest_job, pairs_spread_monitor_job, sector_relative_momentum_job,
   stable_shortlist_job, pattern_detection_job, pattern_detection_accuracy_fill_job,
   forensic_quarterly_fetch_job, forensic_scores_job, intraday_dip_scan_job,
   account_performance_refresh_job, memory_telemetry_job, intraday_dip_reset_N_job,
   xray_risk_cache_job, treasury_bill_maturity_sweep_job, etf_predictor_actual_fill_job,
   macro_auction_job_am, macro_auction_job_pm, backup_job, system_check_job,
   mcp_pairing_window_check_job, earnings_vol_retry_job, etf_predictor_N_pre_job,
   etf_predictor_N_post_job, account_scraper_N_job, account_autotopup_N_job, account_reminder_N_job,
   macro_model_training_job, universe_csv_import_source, pairs_spread_universe_source,
   pattern_detection_backfill_source, market_regime_hmm_source}
=============================================================================
