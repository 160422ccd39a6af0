------------------------- MODULE MCServicesSettle -------------------------
(* Instances of services for TLC, one at a time, for what they bring       *)
(* about: the retry queue of Talk messages, the start with its migrations, *)
(* the runs of a backtest and the portfolio totals.  A behaviour follows   *)
(* the service `focus`; the variables of the others stay as they start.    *)
EXTENDS Naturals, FiniteSets, Sequences

VARIABLES
  focus,
  pending, retries, msgAge, idle, sinceWarn, talkAt, hand, open, attempts, failures, talkCrashes,
  disk, work, inTx, bootAt, todo, gone, clean, bootCrashes, bootFails, uses,
  state, runAge, folder, runAt, stale, deleting, late, runCrashes,
  ledger, revision, unbumped, returned, prices, replaced, cache, actor, asked, backoff, refresh,
  promised, readFails

CONSTANTS Callers, Messages, Columns, Requests, Refresher

Talk == INSTANCE TalkRetry
  WITH Threads <- Callers, MaxRetries <- 1, MinInterval <- 1, MaxAge <- 2, WarnCooldown <- 2, MaxCrashes <- 0,
       age <- msgAge, at <- talkAt, crashes <- talkCrashes
Boot == INSTANCE SchemaBoot
  WITH MaxCrashes <- 2, MaxFails <- 1, MaxUses <- 1, at <- bootAt, crashes <- bootCrashes, fails <- bootFails
Backtest == INSTANCE BacktestRuns
  WITH MaxRuns <- 2, MaxSaved <- 1, Overdue <- 1, MaxCrashes <- 1, age <- runAge, at <- runAt,
       crashes <- runCrashes
Totals == INSTANCE PortfolioTotals
  WITH Threads <- Requests, Fresh <- 1, Stale <- 2, MaxLedger <- 0, MaxPrices <- 1, MaxFails <- 1,
       fails <- readFails

talkVars == <<pending, retries, msgAge, idle, sinceWarn, talkAt, hand, open, attempts, failures, talkCrashes>>
bootVars == <<disk, work, inTx, bootAt, todo, gone, clean, bootCrashes, bootFails, uses>>
backtestVars == <<state, runAge, folder, runAt, stale, deleting, late, runCrashes>>
totalsVars == <<ledger, revision, unbumped, returned, prices, replaced, cache, actor, asked, backoff, refresh,
                promised, readFails>>
settleVars == <<focus, talkVars, bootVars, backtestVars, totalsVars>>

Current == CHOOSE d \in Boot!Older : Boot!Current(d)

Init ==
  /\ focus \in {"talk", "boot", "backtest", "totals"}
  /\ Talk!Init /\ Backtest!Init /\ Totals!Init
  /\ IF focus = "boot" THEN Boot!Init
     ELSE /\ disk = Current /\ work = Current /\ inTx = FALSE /\ bootAt = "up" /\ todo = {}
          /\ gone = {} /\ clean = TRUE /\ bootCrashes = 0 /\ bootFails = 0 /\ uses = 0

Next ==
  /\ UNCHANGED focus
  /\ \/ focus = "talk" /\ Talk!Next /\ UNCHANGED <<bootVars, backtestVars, totalsVars>>
     \/ focus = "boot" /\ Boot!Next /\ UNCHANGED <<talkVars, backtestVars, totalsVars>>
     \/ focus = "backtest" /\ Backtest!Next /\ UNCHANGED <<talkVars, bootVars, totalsVars>>
     \/ focus = "totals" /\ Totals!Next /\ UNCHANGED <<talkVars, bootVars, backtestVars>>

Spec == Init /\ [][Next]_settleVars

(* What each module assumes of its service, while that is followed.        *)
Fairness ==
  /\ \A t \in Callers : WF_talkVars(focus = "talk" /\ Talk!Work(t))
  /\ WF_talkVars(focus = "talk" /\ Talk!Tick)
  /\ SF_talkVars(focus = "talk" /\ \E t \in Callers : Talk!NotifyQuietly(t))
  /\ WF_bootVars(focus = "boot" /\ Boot!Boot)
  /\ WF_backtestVars(focus = "backtest" /\ Backtest!Tick) /\ WF_backtestVars(focus = "backtest" /\ Backtest!Expire)
  /\ \A a \in Requests \cup {Refresher} : WF_totalsVars(focus = "totals" /\ Totals!Step(a))
  /\ WF_totalsVars(focus = "totals" /\ Totals!AlreadyCurrent)
  /\ WF_totalsVars(focus = "totals" /\ Totals!MayRetry)

FairSpec == Spec /\ Fairness

-----------------------------------------------------------------------------
(* The properties of the modules, each stated and explained there.         *)

\* TalkRetry: every message is delivered or given up.
MessagesSettle == Talk!MessagesSettle

SchemaKept == Boot!TypeOK /\ Boot!CleanStartIsCurrent /\ Boot!RowsKept
\* SchemaBoot: a clean start leaves the current schema, no rows are lost on the way, and
\* the committed schema only grows, until it is current.
MigrationFinishes == []SchemaKept /\ Boot!SchemaOnlyGrows /\ Boot!MigrationFinishes

RowsHaveFolders == Backtest!TypeOK /\ Backtest!CompletedIsWhole /\ Backtest!FolderHasRow
\* BacktestRuns: rows and folders belong together; a run is kept while it is in progress,
\* and comes to an end.
RunsSettle == []RowsHaveFolders /\ Backtest!InProgressIsKept /\ Backtest!RunsSettle

\* PortfolioTotals: a price change shows in the end.
PricesShow == Totals!PricesShow
=============================================================================
