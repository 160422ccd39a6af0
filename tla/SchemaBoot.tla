--------------------------- MODULE SchemaBoot ----------------------------
(***************************************************************************)
(* Bringing an older database up to date (db_schema.py).  Every start of   *)
(* the program runs init_db: it creates what is missing, then migrate_db   *)
(* walks through its blocks, each looking at the schema and changing it    *)
(* statement by statement, then come the seeds and the legacy watchlist.   *)
(*                                                                         *)
(* SQLite through Python: INSERT, UPDATE and DELETE open a transaction if  *)
(* none is open, DDL does not; DDL outside a transaction is on disk at     *)
(* once, inside one it waits for the commit.  A crash rolls back to the    *)
(* disk; a failed statement is caught by its block, and what the block did *)
(* before stays in the transaction.                                        *)
(*                                                                         *)
(* Abstraction: one table for each way the code changes a table (rename    *)
(* and copy, copy and rename, create if missing, add a column, add a       *)
(* column and fill it), its rows as present or not.                        *)
(***************************************************************************)
EXTENDS Naturals, FiniteSets

CONSTANTS
  Columns,     \* columns that ALTER TABLE adds
  MaxCrashes,  \* bound: crashes during a start
  MaxFails,    \* bound: statements that fail
  MaxUses      \* bound: changes made by the running program

VARIABLES
  disk,   \* the committed database
  work,   \* the database as the connection sees it
  inTx,   \* a transaction is open
  at,     \* the next statement, "down" or "up"
  todo,   \* the columns the loop has not looked at
  gone,   \* what the running program has removed
  clean,  \* no statement of this start failed
  crashes, fails, uses

dbVars == <<disk, work, inTx, at, todo, gone, clean, crashes, fails, uses>>
counts == <<crashes, fails, uses>>

(* The databases an older release leaves behind, or a current one.         *)
(* pulse, smgb and heat hold rows; a table is "old" or "new" in form.      *)
Older ==
  [pulse: {"old", "new"}, pulseRows: {TRUE}, legacy: {FALSE},
   columns: SUBSET Columns,
   expire: {"absent", "filled"},
   smgb: {"old", "new"}, smgbRows: {TRUE}, smgbNew: {"none"},
   scope: {"absent", "tagged"},
   results: BOOLEAN,
   registry: {"null", "LSE"},
   heat: {"old", "new"}, heatRows: {TRUE}, heatNew: {"none"},
   watch: BOOLEAN]

Init ==
  /\ disk \in Older
  /\ work = disk /\ inTx = FALSE /\ at = "down" /\ todo = {}
  /\ gone = {} /\ clean = TRUE
  /\ crashes = 0 /\ fails = 0 /\ uses = 0

-----------------------------------------------------------------------------
(* Statements *)

Keep == UNCHANGED <<todo, gone, clean, counts>>

Ddl(d, next) == /\ work' = d
                /\ disk' = IF inTx THEN disk ELSE d
                /\ at' = next
                /\ UNCHANGED inTx
                /\ Keep

Dml(d, next) == /\ work' = d
                /\ inTx' = TRUE
                /\ at' = next
                /\ UNCHANGED disk
                /\ Keep

Commit(next) == /\ disk' = work
                /\ inTx' = FALSE
                /\ at' = next
                /\ UNCHANGED work
                /\ Keep

Goto(next) == at' = next /\ UNCHANGED <<disk, work, inTx>> /\ Keep

-----------------------------------------------------------------------------
Start ==
  /\ at = "down"
  /\ clean' = TRUE /\ todo' = Columns
  /\ at' = "create"
  /\ UNCHANGED <<disk, work, inTx, gone, counts>>

(* Variant: the pulse cache is dropped and created afresh. *)
PulseAfresh(d) == [d EXCEPT !.pulse = "new", !.pulseRows = FALSE, !.smgb = IF @ = "none" THEN "new" ELSE @,
                            !.heat = IF @ = "none" THEN "new" ELSE @]

(* init_db creates every table that does not exist, empty and in its       *)
(* present form.                                                           *)
Created(d) ==
  [d EXCEPT !.pulse = IF @ = "none" THEN "new" ELSE @,
            !.smgb = IF @ = "none" THEN "new" ELSE @,
            !.heat = IF @ = "none" THEN "new" ELSE @]

Create == at = "create" /\ Ddl(Created(work), "pulse rename")

(* market_pulse_cache: rename, create, copy, drop, commit. *)
PulseRename ==
  /\ at = "pulse rename"
  /\ IF work.pulse = "old"
     THEN Ddl([work EXCEPT !.pulse = "none", !.pulseRows = FALSE, !.legacy = TRUE], "pulse create")
     ELSE Goto("columns")
PulseCreate == at = "pulse create" /\ Ddl([work EXCEPT !.pulse = "new"], "pulse copy")
PulseCopy == at = "pulse copy" /\ Dml([work EXCEPT !.pulseRows = TRUE], "pulse drop")
PulseDrop == at = "pulse drop" /\ Ddl([work EXCEPT !.legacy = FALSE], "pulse commit")
PulseCommit == at = "pulse commit" /\ Commit("columns")

(* The ALTER TABLE loops: each column that table_info does not list. *)
AllLooked == todo = {}

AddColumn ==
  /\ at = "columns" /\ ~AllLooked
  /\ \E c \in todo :
       /\ todo' = todo \ {c}
       /\ work' = [work EXCEPT !.columns = @ \cup {c}]
       /\ disk' = IF inTx THEN disk ELSE work'
  /\ UNCHANGED <<inTx, at, gone, clean, counts>>
ColumnsDone == at = "columns" /\ AllLooked /\ Goto("outage")

(* The scores of the outage are cleared: the first statement that opens a  *)
(* transaction; it ends with the commit after the news columns.            *)
ClearOutage == at = "outage" /\ Dml(work, "news commit")
NewsCommit == at = "news commit" /\ Commit("expire add")

(* intraday_monitors: add expire_date, then fill it. *)
ExpireAdd ==
  /\ at = "expire add"
  /\ IF work.expire = "absent"
     THEN Ddl([work EXCEPT !.expire = "null"], "expire fill")
     ELSE Goto("dates")
ExpireFill == at = "expire fill" /\ Dml([work EXCEPT !.expire = "filled"], "dates")

(* stock_signals.ex_dividend_date is normalised: this UPDATE opens the     *)
(* transaction the next rebuild runs in.                                   *)
DatesWrite == Dml(work, "smgb create")
Dates == at = "dates" /\ DatesWrite

(* smgb_predictions: create a new table, copy, drop the old one, rename;   *)
(* the commit comes with the next block.  CREATE TABLE fails when the new  *)
(* table is still there.                                                   *)
SmgbCreate ==
  /\ at = "smgb create"
  /\ IF work.smgb = "old" /\ work.smgbNew = "none"
     THEN Ddl([work EXCEPT !.smgbNew = "empty"], "smgb copy")
     ELSE Goto("yahoo commit")
CopyAll == Dml([work EXCEPT !.smgbNew = "full"], "smgb drop")
SmgbCopy == at = "smgb copy" /\ CopyAll
SmgbDrop == at = "smgb drop" /\ Ddl([work EXCEPT !.smgb = "none", !.smgbRows = FALSE], "smgb rename")
SmgbRename ==
  /\ at = "smgb rename"
  /\ Ddl([work EXCEPT !.smgb = "new", !.smgbRows = (work.smgbNew = "full"), !.smgbNew = "none"],
         "yahoo commit")
YahooCommit == at = "yahoo commit" /\ Commit("scope add")

(* predicted_movers_history: add scope, commit, and tag the rows there are *)
(* through a connection of its own.                                        *)
ScopeAdd ==
  /\ at = "scope add"
  /\ IF work.scope = "absent"
     THEN Ddl([work EXCEPT !.scope = "untagged"], "scope commit")
     ELSE Goto("patterns")
ScopeCommit == at = "scope commit" /\ Commit("scope tag")
ScopeTag ==
  /\ at = "scope tag"
  /\ disk' = [disk EXCEPT !.scope = "tagged"]
  /\ work' = [work EXCEPT !.scope = "tagged"]
  /\ at' = "patterns"
  /\ UNCHANGED inTx /\ Keep

(* The rows of head_shoulders_results, which stay where they are, are      *)
(* copied unless the ticker has a row of that family already.              *)
Patterns == at = "patterns" /\ Dml([work EXCEPT !.results = TRUE], "patterns commit")
PatternsCommit == at = "patterns commit" /\ Commit("registry")

(* The UPDATE opens a transaction, committed only if it changed a row.     *)
Registry ==
  /\ at = "registry"
  /\ Dml([work EXCEPT !.registry = "LSE"],
         IF work.registry = "null" THEN "registry commit" ELSE "heat create")
RegistryCommit == at = "registry commit" /\ Commit("heat create")

(* portfolio_heat_index and ticker_risk_contribution: create the new table *)
(* if it is not there, copy, drop, rename, clear, commit.                  *)
HeatCreate ==
  /\ at = "heat create"
  /\ IF work.heat = "old"
     THEN Ddl([work EXCEPT !.heatNew = IF @ = "none" THEN "empty" ELSE @], "heat copy")
     ELSE Goto("heat clear")
HeatCopy ==
  /\ at = "heat copy"
  /\ IF work.heatNew = "full" THEN Goto("final commit")
     ELSE Dml([work EXCEPT !.heatNew = "full"], "heat drop")
HeatDrop == at = "heat drop" /\ Ddl([work EXCEPT !.heat = "none", !.heatRows = FALSE], "heat rename")
HeatRename ==
  /\ at = "heat rename"
  /\ Ddl([work EXCEPT !.heat = "new", !.heatRows = (work.heatNew = "full"), !.heatNew = "none"],
         "heat clear")
HeatClear == at = "heat clear" /\ Dml(work, "heat commit")
HeatCommit == at = "heat commit" /\ Commit("final commit")
FinalCommit == at = "final commit" /\ Commit("seeds")

Seeds == at = "seeds" /\ Dml(work, "seeds commit")
SeedsCommit == at = "seeds commit" /\ Commit("watchlist")

(* _import_legacy_watchlist_json: an empty table is filled from the file,  *)
(* which stays where it is.                                                *)
Watchlist ==
  /\ at = "watchlist"
  /\ disk' = [disk EXCEPT !.watch = TRUE]
  /\ work' = disk'
  /\ at' = "up"
  /\ UNCHANGED inTx /\ Keep

-----------------------------------------------------------------------------
(* Failures *)

(* Where a block goes on after one of its statements failed. *)
AfterBlock ==
  CASE at \in {"pulse rename", "pulse create", "pulse copy", "pulse drop", "pulse commit"} -> "columns"
    [] at = "outage" -> "news commit"
    [] at = "news commit" -> "expire add"
    [] at \in {"expire add", "expire fill"} -> "dates"
    [] at = "dates" -> "smgb create"
    [] at \in {"smgb create", "smgb copy", "smgb drop", "smgb rename"} -> "yahoo commit"
    [] at = "yahoo commit" -> "scope add"
    [] at \in {"scope add", "scope commit", "scope tag"} -> "patterns"
    [] at \in {"patterns", "patterns commit"} -> "registry"
    [] at \in {"registry", "registry commit"} -> "heat create"
    [] at \in {"heat create", "heat copy", "heat drop", "heat rename", "heat clear", "heat commit"}
         -> "final commit"
    [] OTHER -> "none"

StatementFails ==
  /\ fails < MaxFails
  /\ AfterBlock # "none"
  /\ at' = AfterBlock
  /\ fails' = fails + 1 /\ clean' = FALSE
  /\ UNCHANGED <<disk, work, inTx, todo, gone, crashes, uses>>

Crash ==
  /\ crashes < MaxCrashes
  /\ at \notin {"down", "up"}
  /\ work' = disk /\ inTx' = FALSE /\ at' = "down"
  /\ crashes' = crashes + 1
  /\ UNCHANGED <<disk, todo, gone, clean, fails, uses>>

(* The program at work: a scan drops a pattern that is gone, the user      *)
(* empties the watchlist; then it is stopped.                              *)
Use ==
  /\ at = "up" /\ uses < MaxUses
  /\ \/ work.results /\ work' = [work EXCEPT !.results = FALSE] /\ gone' = gone \cup {"pattern"}
     \/ work.watch /\ work' = [work EXCEPT !.watch = FALSE] /\ gone' = gone \cup {"watched"}
  /\ disk' = work' /\ uses' = uses + 1
  /\ UNCHANGED <<inTx, at, todo, clean, crashes, fails>>

Stop == /\ at = "up" /\ at' = "down"
        /\ UNCHANGED <<disk, work, inTx, todo, gone, clean, counts>>

Boot == \/ Start \/ Create
        \/ PulseRename \/ PulseCreate \/ PulseCopy \/ PulseDrop \/ PulseCommit
        \/ AddColumn \/ ColumnsDone \/ ClearOutage \/ NewsCommit
        \/ ExpireAdd \/ ExpireFill \/ Dates
        \/ SmgbCreate \/ SmgbCopy \/ SmgbDrop \/ SmgbRename \/ YahooCommit
        \/ ScopeAdd \/ ScopeCommit \/ ScopeTag \/ Patterns \/ PatternsCommit
        \/ Registry \/ RegistryCommit
        \/ HeatCreate \/ HeatCopy \/ HeatDrop \/ HeatRename \/ HeatClear \/ HeatCommit
        \/ FinalCommit \/ Seeds \/ SeedsCommit \/ Watchlist

Next == Boot \/ StatementFails \/ Crash \/ Use \/ Stop

Spec == Init /\ [][Next]_dbVars

(* A start that has begun goes on, and a program that is down is started.  *)
FairSpec == Spec /\ WF_dbVars(Boot)

-----------------------------------------------------------------------------
(* Properties *)

Forms == {"old", "new", "none"}
Databases ==
  [pulse: Forms, pulseRows: BOOLEAN, legacy: BOOLEAN, columns: SUBSET Columns,
   expire: {"absent", "null", "filled"},
   smgb: Forms, smgbRows: BOOLEAN, smgbNew: {"none", "empty", "full"},
   scope: {"absent", "untagged", "tagged"}, results: BOOLEAN, registry: {"null", "LSE"},
   heat: Forms, heatRows: BOOLEAN, heatNew: {"none", "empty", "full"}, watch: BOOLEAN]

TypeOK == /\ disk \in Databases /\ work \in Databases /\ inTx \in BOOLEAN
          /\ todo \subseteq Columns /\ clean \in BOOLEAN
          /\ ~inTx => disk = work

(* The schema the code works with. *)
Current(d) == /\ d.pulse = "new" /\ d.smgb = "new" /\ d.heat = "new"
              /\ d.columns = Columns /\ d.expire # "absent" /\ d.scope # "absent"

(* However often it was interrupted before, a start that comes up leaves   *)
(* the current schema committed, as long as no statement has failed.       *)
CleanStartIsCurrent == at = "up" /\ fails = 0 => Current(disk) /\ disk = work

(* What the code's retry on every start amounts to: a start in which no    *)
(* statement fails repairs what an earlier failure left half done.         *)
FailureIsRepaired == at = "up" /\ clean => Current(disk)

(* What is on disk always holds the predictions and the heat index, in the *)
(* table or in the copy that is about to replace it.                       *)
RowsKept == /\ disk.smgbRows \/ disk.smgbNew = "full"
            /\ disk.heatRows \/ disk.heatNew = "full"

(* The committed schema never goes back: a table that has its present form *)
(* keeps it and its rows, a column stays.                                  *)
SchemaOnlyGrows ==
  [][/\ disk.columns \subseteq disk'.columns
     /\ disk.pulse = "new" => disk'.pulse = "new" /\ (disk.pulseRows => disk'.pulseRows)
     /\ disk.smgb = "new" => disk'.smgb = "new" /\ (disk.smgbRows => disk'.smgbRows)
     /\ disk.heat = "new" => disk'.heat = "new" /\ (disk.heatRows => disk'.heatRows)]_dbVars

(* However often it is interrupted, the migration is finished in the end.  *)
MigrationFinishes == <>(Current(disk) \/ fails > 0)

(* What the documentation says of the copied patterns and of the legacy    *)
(* watchlist: taken over once, the first time.  What the program has       *)
(* removed since stays removed.                                            *)
PatternsCopiedOnce == "pattern" \in gone /\ at = "up" => ~disk.results
WatchlistImportedOnce == "watched" \in gone /\ at = "up" => ~disk.watch

(* The one-time fillings are not lost with a crash. *)
FilledWhenAdded == at = "up" /\ clean => disk.expire = "filled" /\ disk.scope = "tagged"
(* The rows of the pulse cache survive its rebuild. *)
PulseKept == disk.pulseRows \/ (disk.legacy /\ disk.pulse # "new")
=============================================================================
