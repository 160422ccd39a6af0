---------------------------- MODULE PriceRepair ----------------------------
(***************************************************************************)
(* Manual repair and removal of one stored daily bar                       *)
(* (price_repair_engine.py), against the refresh that rewrites the same    *)
(* file (daily_history_writer.py).  One ticker: its Parquet file, its      *)
(* entry in price_repairs.json, its rows in quant_signals and              *)
(* score_history.  The file's fingerprint is its content.                  *)
(*                                                                         *)
(* An operation is one Check in the browser followed by one Repair or      *)
(* Remove request; requests run in threads and only the section under      *)
(* _repair_lock excludes others.  A refresh takes no lock.                 *)
(***************************************************************************)
EXTENDS Naturals, FiniteSets

CONSTANTS
  Ops,           \* operations
  Kinds,         \* the requests made: a subset of {"repair", "remove"}
  LastDate,      \* the stored dates are 1 .. LastDate
  Suspect,       \* the dates whose bar a user questions
  Quotes,        \* bars Yahoo may report
  Fixes,         \* verified bars a user may enter
  Gone,          \* no bar, or no row, for the date
  Nothing,       \* no saved correction for the date
  Removed,       \* the date is in _removed_dates
  None,
  Refreshing,    \* whether refreshes run
  MaxFailures,   \* bound: raising file or database calls
  MaxCrashes     \* bound: process crashes

ASSUME KindAssumption == Kinds \subseteq {"repair", "remove"}
ASSUME DateAssumption == LastDate \in Nat \ {0, 1} /\ Suspect \subseteq 1 .. LastDate
ASSUME MarkAssumption ==
  /\ Gone \notin Quotes \union Fixes
  /\ {Nothing, Removed} \intersect Fixes = {} /\ Nothing # Removed
  /\ None \notin Ops
ASSUME BoundAssumption == Refreshing \in BOOLEAN /\ MaxFailures \in Nat /\ MaxCrashes \in Nat

VARIABLES
  file,        \* the Parquet file: a bar per date
  saved,       \* price_repairs.json for the ticker
  quant,       \* close_price in quant_signals
  score,       \* close_price in score_history
  lock,        \* the operation that holds _repair_lock
  op,          \* the locals of each operation
  refresh,     \* the locals of the refresh that is under way
  failures, crashes,
  mixed        \* history: a request has replaced another history than the one it had read

opVars   == <<lock, op>>
rowVars  == <<quant, score>>
envVars  == <<failures, crashes, mixed>>
vars == <<file, saved, rowVars, opVars, refresh, envVars>>

-----------------------------------------------------------------------------
Dates    == 1 .. LastDate
Bars     == Quotes \union Fixes
Frames   == [Dates -> Bars \union {Gone}]
Registry == [Dates -> Fixes \union {Nothing, Removed}]
Stored(frame) == {d \in Dates : frame[d] # Gone}

Unlocked == {"idle", "shown", "checked", "read", "verify", "original", "enter", "rebuild", "done", "refused", "dead"}
Locked   == {"save", "recheck", "replace", "records", "rollback", "restore"}
InFlight == (Unlocked \ {"idle", "shown", "checked", "done", "refused", "dead"}) \union Locked

\* apply_saved_repairs
Corrected(frame, repairs) ==
  [d \in Dates |-> CASE repairs[d] = Removed -> Gone
                     [] repairs[d] = Nothing -> frame[d]
                     [] OTHER                -> repairs[d]]

\* write_daily_history: the stored bars older than the answer are kept when
\* they are at least as many as the bars of the answer.
Uncovered(stored, answer) ==
  {d \in Stored(stored) : \A e \in Stored(answer) : d < e}
MergeNeeded(stored, answer) ==
  Cardinality(Uncovered(stored, answer)) >= Cardinality(Stored(answer))
Merged(stored, answer) ==
  IF MergeNeeded(stored, answer)
    THEN [d \in Dates |-> IF answer[d] # Gone THEN answer[d] ELSE stored[d]]
    ELSE answer

\* What a refresh may download: the whole window, or its newest bar alone.
WholeAnswers  == {[d \in Dates |-> q] : q \in Quotes}
NewestAnswers == {[d \in Dates |-> IF d = LastDate THEN q ELSE Gone] : q \in Quotes}

\* The frame an operation writes, and the correction it saves.
Updated(p) ==
  [op[p].frame EXCEPT ![op[p].date] = IF op[p].kind = "repair" THEN op[p].bar ELSE Gone]
Correction(p) == IF op[p].kind = "repair" THEN op[p].bar ELSE Removed

FirstBars == [d \in Dates |-> CHOOSE q \in Quotes : TRUE]
NoRepairs == [d \in Dates |-> Nothing]
NoRefresh == [at |-> "idle", frame |-> FirstBars]

\* The locals of an operation that has not read anything, or has ended.
Locals(place) ==
  [at |-> place, kind |-> "repair", date |-> 1, bar |-> Gone, shown |-> FirstBars,
   fingerprint |-> FirstBars, frame |-> FirstBars, original |-> FirstBars,
   prior |-> NoRepairs, replaced |-> FALSE]
End(p, how) == op' = [op EXCEPT ![p] = Locals(how)]

Init ==
  /\ file = FirstBars /\ quant = FirstBars /\ score = FirstBars
  /\ saved = NoRepairs
  /\ lock = None
  /\ op = [p \in Ops |-> Locals("idle")]
  /\ refresh = NoRefresh
  /\ failures = 0 /\ crashes = 0 /\ mixed = FALSE

-----------------------------------------------------------------------------
(* check_daily_bar: the bars are read before the Yahoo fetch, the fingerprint after it *)

CheckRead(p, d) ==
  /\ op[p].at = "idle"
  /\ file[d] # Gone
  /\ op' = [op EXCEPT ![p].at = "shown", ![p].date = d, ![p].shown = file]
  /\ UNCHANGED <<file, saved, rowVars, lock, refresh, envVars>>

CheckFingerprint(p) ==
  /\ op[p].at = "shown"
  /\ op' = [op EXCEPT ![p].at = "checked", ![p].fingerprint = file]
  /\ UNCHANGED <<file, saved, rowVars, lock, refresh, envVars>>

-----------------------------------------------------------------------------
(* remove_daily_bar, repair_daily_bar *)

\* The request arrives and the history is read.
ReadHistory(p, kind, bar) ==
  /\ op[p].at = "checked"
  /\ op' = [op EXCEPT ![p].at = "verify", ![p].kind = kind, ![p].bar = bar, ![p].frame = file]
  /\ UNCHANGED <<file, saved, rowVars, lock, refresh, envVars>>

\* "Stored history changed since Check", the date is gone, or it is the last bar.
Refusable(p) ==
  \/ file # op[p].fingerprint
  \/ op[p].frame[op[p].date] = Gone
  \/ op[p].kind = "remove" /\ Cardinality(Stored(op[p].frame)) < 2

VerifyFingerprint(p) ==
  /\ op[p].at = "verify"
  /\ IF Refusable(p) THEN End(p, "refused") ELSE op' = [op EXCEPT ![p].at = "original"]
  /\ UNCHANGED <<file, saved, rowVars, lock, refresh, envVars>>

\* original_bytes, read before the lock is taken.
ReadOriginal(p) ==
  /\ op[p].at = "original"
  /\ op' = [op EXCEPT ![p].at = "enter", ![p].original = file]
  /\ UNCHANGED <<file, saved, rowVars, lock, refresh, envVars>>

\* A repair saves its correction before it touches the file, a removal after.
Enter(p) ==
  /\ op[p].at = "enter"
  /\ lock = None
  /\ lock' = p
  /\ op' = [op EXCEPT ![p].at = IF op[p].kind = "repair" THEN "save" ELSE "recheck",
                      ![p].prior = saved, ![p].replaced = FALSE]
  /\ UNCHANGED <<file, saved, rowVars, refresh, envVars>>

WriteRepairs(p) ==
  /\ op[p].at = "save"
  /\ saved' = [op[p].prior EXCEPT ![op[p].date] = Correction(p)]
  /\ op' = [op EXCEPT ![p].at = IF op[p].kind = "repair" THEN "recheck" ELSE "records"]
  /\ UNCHANGED <<file, rowVars, lock, refresh, envVars>>

\* Variant: the fingerprint is not compared again under the lock.
NeverChanged(p) == TRUE
StillSame(p)    == file = op[p].fingerprint

\* The second comparison, after the new file was written to a temporary.
RecheckFingerprint(p) ==
  /\ op[p].at = "recheck"
  /\ op' = [op EXCEPT ![p].at = IF StillSame(p) THEN "replace" ELSE "rollback"]
  /\ UNCHANGED <<file, saved, rowVars, lock, refresh, envVars>>

\* The frame and the original bytes were read at other moments than the fingerprint: the
\* file may have been replaced and put back in between.
ReplaceFile(p) ==
  /\ op[p].at = "replace"
  /\ file' = Updated(p)
  /\ mixed' = (mixed \/ op[p].frame # file \/ op[p].original # file)
  /\ op' = [op EXCEPT ![p].replaced = TRUE,
                      ![p].at = IF op[p].kind = "repair" THEN "records" ELSE "save"]
  /\ UNCHANGED <<saved, rowVars, lock, refresh, failures, crashes>>

\* The rows of the date, when they exist, are updated or deleted in one
\* transaction; the lock is released.
Touched(p, rows) ==
  IF rows[op[p].date] = Gone THEN rows
  ELSE [rows EXCEPT ![op[p].date] = IF op[p].kind = "repair" THEN op[p].bar ELSE Gone]

UpdateRecords(p) ==
  /\ op[p].at = "records"
  /\ quant' = Touched(p, quant)
  /\ score' = Touched(p, score)
  /\ lock' = None
  /\ op' = [op EXCEPT ![p].at = "rebuild"]
  /\ UNCHANGED <<file, saved, refresh, envVars>>

\* A file or database call raises.  A repair saves its correction before the
\* try block, so a failure there only releases the lock.
Fail(p) ==
  /\ op[p].at \in {"save", "recheck", "replace", "records"}
  /\ failures < MaxFailures
  /\ failures' = failures + 1
  /\ IF op[p].at = "save" /\ op[p].kind = "repair"
       THEN lock' = None /\ End(p, "refused")
       ELSE lock' = lock /\ op' = [op EXCEPT ![p].at = "rollback"]
  /\ UNCHANGED <<file, saved, rowVars, refresh, crashes, mixed>>

\* repair_daily_bar puts the file back only if it had replaced it;
\* remove_daily_bar always does.
PutsFileBack(p) == op[p].kind = "remove" \/ op[p].replaced

RollbackFile(p) ==
  /\ op[p].at = "rollback"
  /\ file' = IF PutsFileBack(p) THEN op[p].original ELSE file
  /\ op' = [op EXCEPT ![p].at = "restore"]
  /\ UNCHANGED <<saved, rowVars, lock, refresh, envVars>>

\*
RestoreRepairs(p) ==
  /\ op[p].at = "restore"
  /\ saved' = op[p].prior
  /\ lock' = None
  /\ End(p, "refused")
  /\ UNCHANGED <<file, rowVars, refresh, envVars>>

\* refresh_downstream, outside the lock: the quant_signals rows from the date
\* on are upserted from the frame this request holds; a failure, or a history
\* too short for the indicators, rebuilds none.
RebuildQuant(p) ==
  /\ op[p].at = "rebuild"
  /\ \/ quant' = [d \in Dates |-> IF d >= op[p].date /\ Updated(p)[d] # Gone
                                    THEN Updated(p)[d] ELSE quant[d]]
     \/ quant' = quant
  /\ End(p, "done")
  /\ UNCHANGED <<file, saved, score, lock, refresh, envVars>>

-----------------------------------------------------------------------------
(* A refresh: prepare_daily_history, write_daily_history *)

Download(answer) ==
  /\ Refreshing
  /\ refresh.at = "idle"
  /\ refresh' = [at |-> "apply", frame |-> answer]
  /\ UNCHANGED <<file, saved, rowVars, opVars, envVars>>

\* Variant: the writer does not apply the saved repairs.
ApplyNothing ==
  /\ refresh.at = "apply"
  /\ refresh' = [refresh EXCEPT !.at = "merge"]
  /\ UNCHANGED <<file, saved, rowVars, opVars, envVars>>

ApplySavedRepairs ==
  /\ refresh.at = "apply"
  /\ refresh' = IF Stored(Corrected(refresh.frame, saved)) = {} THEN NoRefresh
                 ELSE [at |-> "merge", frame |-> Corrected(refresh.frame, saved)]
  /\ UNCHANGED <<file, saved, rowVars, opVars, envVars>>

MergeStored ==
  /\ refresh.at = "merge"
  /\ refresh' = [at |-> "write", frame |-> Merged(file, refresh.frame)]
  /\ UNCHANGED <<file, saved, rowVars, opVars, envVars>>

WriteHistory ==
  /\ refresh.at = "write"
  /\ file' = refresh.frame
  /\ refresh' = NoRefresh
  /\ UNCHANGED <<saved, rowVars, opVars, envVars>>

-----------------------------------------------------------------------------
\* The process dies: requests and refresh are lost, the lock with them; every
\* file replacement is atomic.
Crash ==
  /\ crashes < MaxCrashes
  /\ crashes' = crashes + 1
  /\ lock' = None
  /\ op' = [p \in Ops |-> IF op[p].at \in InFlight \union {"shown"} THEN Locals("dead") ELSE op[p]]
  /\ refresh' = NoRefresh
  /\ UNCHANGED <<file, saved, rowVars, failures, mixed>>

Request(p) ==
  \E kind \in Kinds, bar \in Fixes : ReadHistory(p, kind, bar)

\* The steps of a request that arrived.
Step(p) ==
  \/ VerifyFingerprint(p) \/ ReadOriginal(p) \/ Enter(p) \/ WriteRepairs(p)
  \/ RecheckFingerprint(p) \/ ReplaceFile(p) \/ UpdateRecords(p) \/ RollbackFile(p)
  \/ RestoreRepairs(p) \/ RebuildQuant(p)

Refresh ==
  \/ \E answer \in WholeAnswers \union NewestAnswers : Download(answer)
  \/ ApplySavedRepairs \/ MergeStored \/ WriteHistory

Next ==
  \/ \E p \in Ops, d \in Suspect : CheckRead(p, d)
  \/ \E p \in Ops : CheckFingerprint(p) \/ Request(p) \/ Step(p) \/ Fail(p)
  \/ Refresh
  \/ Crash

\* Requests are served, the nightly job keeps refreshing, and Yahoo keeps
\* answering with the whole window now and then; users need not act.
Fairness ==
  /\ \A p \in Ops : SF_vars(Step(p))
  /\ WF_vars(Refresh)
  /\ SF_vars(\E answer \in WholeAnswers : Download(answer))

Spec == Init /\ [][Next]_vars
FairSpec == Spec /\ Fairness

-----------------------------------------------------------------------------
(* Properties *)

\* Every variable has its type.
TypeOK ==
  /\ file \in Frames /\ quant \in Frames /\ score \in Frames
  /\ saved \in Registry
  /\ lock \in Ops \union {None}
  /\ \A p \in Ops :
       /\ op[p].at \in Unlocked \union Locked
       /\ op[p].at \in Locked <=> lock = p
       /\ op[p].fingerprint \in Frames /\ op[p].frame \in Frames /\ op[p].original \in Frames
       /\ op[p].prior \in Registry
  /\ refresh \in [at : {"idle", "apply", "merge", "write"}, frame : Frames]

\* The file shows the saved correction of every date.
FileHonoursRepairs ==
  \A d \in Dates : saved[d] # Nothing => file[d] = Corrected(file, saved)[d]

\* With the lock free, a date's correction is in the file as well: the two
\* files agree whatever requests interleave, fail and roll back, as long as
\* each read the history that it replaced (repair_daily_bar).
RepairsApplied == lock = None /\ ~mixed => FileHonoursRepairs

\* With the lock free, score_history holds no price that a correction replaced.
ScoresFollowRepairs ==
  lock = None => \A d \in Dates : saved[d] # Nothing => score[d] \in {Gone, Corrected(file, saved)[d]}

\* Once every request has ended, quant_signals holds no price that a correction
\* replaced ("It updates the daily Parquet bar and the matching quant_signals
\* [...] fields", "It removes the date from daily Parquet, quant_signals, ...").
QuantFollowsRepairs ==
  (lock = None /\ \A p \in Ops : op[p].at \notin InFlight) =>
    \A d \in Dates : saved[d] # Nothing => quant[d] \in {Gone, Corrected(file, saved)[d]}

\* A request replaces exactly the history whose fingerprint it was given.
ReplacesWhatItVerified ==
  [][\A p \in Ops : ReplaceFile(p) => file = op[p].fingerprint]_vars

\* "The file fingerprint prevents applying a stale Check after another data
\* refresh": a request replaces exactly the history its Check showed.
ReplacesWhatWasShown ==
  [][\A p \in Ops : ReplaceFile(p) => file = op[p].shown]_vars

\* A refused request leaves the bars of all other dates as they were.
RefusalHarmless ==
  [][\A p \in Ops : RollbackFile(p) /\ ~mixed =>
       \A d \in Dates \ {op[p].date} : file'[d] = file[d]]_vars

\* "atomic replace, never shrinking a stored history": a refresh drops no bar
\* except one a correction removes.
RefreshKeepsBars ==
  [][WriteHistory => \A d \in Stored(file) : file'[d] = Gone => saved[d] = Removed]_vars

\* Refreshes heal every disagreement: from some point on the file shows all
\* corrections, whatever requests, refreshes, failures and crashes did before.
RepairsPrevail == <>[]FileHonoursRepairs
=============================================================================
