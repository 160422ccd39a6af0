-------------------------- MODULE BackupRestore --------------------------
(***************************************************************************)
(* Backups and restores (backup_engine.py).  A backup writes its archive   *)
(* in place under a name made of the time, hashes it, drops the archives   *)
(* beyond the retention and then records the hash in backup_history, which *)
(* is a table of the database that the archive holds a copy of.  A restore *)
(* verifies the archive against the history, extracts it, replaces the     *)
(* database, history included, and merges the rows that the replaced       *)
(* history had and the restored one lacks.                                 *)
(*                                                                         *)
(* Abstraction: names are numbers in the order of their times, no two      *)
(* backups start within a second; an archive is being written, as its      *)
(* backup made it, or damaged after it was hashed; a history is the digest *)
(* it holds for each name.                                                 *)
(***************************************************************************)
EXTENDS Naturals, FiniteSets

CONSTANTS
  Runs,         \* the scheduled and the manual backup
  Retention,    \* RETENTION_COUNT
  Together,     \* backups and restores may overlap: the backup marks no label
  MaxBackups,   \* bound: backups made
  MaxRestores,  \* bound: restores asked for
  MaxDamage,    \* bound: archives damaged on the disk
  MaxFaults     \* bound: crashes and failures

Names == 1..MaxBackups
NoRow == "none"

VARIABLES
  made,     \* the last name given
  dir,      \* dir[n]: the archive n, "none", "partial", "whole" or "damaged"
  inside,   \* inside[n]: the history within the archive's database, or NoDatabase
  history,  \* history[n]: the digest recorded for archive n, NoRow without one
  at,       \* at[r]: where backup r is
  mine,     \* mine[r]: the name of its archive
  digest,   \* digest[r]: what it hashed
  step,     \* where the restore is
  chosen,   \* its archive, the operator's trust, its copy, and the row it adopts
  carried,  \* the history it read before the swap
  files,    \* the data and models on disk: "own", "whole", "damaged" or "mixed"
  database, \* the live database: "own", "whole" or "damaged"
  before,   \* files and database when the restore was asked for
  recorded, \* names a row was ever written for
  torn,     \* a restore ended between its swap and its merge
  overridden, \* the operator has trusted an archive without a hash
  restores, damage, faults

backupVars == <<made, dir, inside, history, at, mine, digest, step, chosen, carried, files,
                database, before, recorded, torn, overridden, restores, damage, faults>>
ofBackup == <<made, dir, inside, at, mine, digest>>
ofRestore == <<step, chosen, carried, files, database, before, torn, overridden, restores>>

NoRows == [n \in Names |-> NoRow]
NoDatabase == [n \in Names |-> "no database"]
NoChoice == [name |-> 1, trust |-> FALSE, copy |-> "none", adopts |-> FALSE]

Init ==
  /\ made = 0
  /\ dir = [n \in Names |-> "none"] /\ inside = [n \in Names |-> NoDatabase] /\ history = NoRows
  /\ at = [r \in Runs |-> "idle"] /\ mine = [r \in Runs |-> 1] /\ digest = [r \in Runs |-> "none"]
  /\ step = "idle" /\ chosen = NoChoice /\ carried = NoRows
  /\ files = "own" /\ database = "own" /\ before = <<"own", "own">>
  /\ recorded = {} /\ torn = FALSE /\ overridden = FALSE
  /\ restores = 0 /\ damage = 0 /\ faults = 0

Archives == {n \in Names : dir[n] # "none"}

-----------------------------------------------------------------------------
(* run_backup *)

Done(r) == /\ at' = [at EXCEPT ![r] = "idle"]
           /\ mine' = [mine EXCEPT ![r] = 1]
           /\ digest' = [digest EXCEPT ![r] = "none"]

(* tarfile.open(archive_path, "w:gz"): the archive is listed from now on. *)
Begin(r) ==
  /\ at[r] = "idle" /\ made < MaxBackups
  /\ Together \/ step = "idle"
  /\ made' = made + 1
  /\ mine' = [mine EXCEPT ![r] = made']
  /\ dir' = [dir EXCEPT ![made'] = "partial"]
  /\ at' = [at EXCEPT ![r] = "write"]
  /\ UNCHANGED <<inside, history, digest, recorded, damage, faults, ofRestore>>

ThenClosed == "close"

(* The database is copied as it is now, if it is to be included. *)
Snapshot(r) ==
  /\ at[r] = "write"
  /\ \E copy \in {history, NoDatabase} : inside' = [inside EXCEPT ![mine[r]] = copy]
  /\ at' = [at EXCEPT ![r] = ThenClosed]
  /\ UNCHANGED <<made, dir, history, mine, digest, recorded, damage, faults, ofRestore>>

(* A file that retention has unlinked is written to its end all the same. *)
Close(r) ==
  /\ at[r] = "close"
  /\ dir' = IF dir[mine[r]] = "none" THEN dir ELSE [dir EXCEPT ![mine[r]] = "whole"]
  /\ at' = [at EXCEPT ![r] = "hash"]
  /\ UNCHANGED <<made, inside, history, mine, digest, recorded, damage, faults, ofRestore>>

Hash(r) ==
  /\ at[r] = "hash" /\ dir[mine[r]] # "none"
  /\ digest' = [digest EXCEPT ![r] = dir[mine[r]]]
  /\ at' = [at EXCEPT ![r] = "prune"]
  /\ UNCHANGED <<made, dir, inside, history, mine, recorded, damage, faults, ofRestore>>

(* _list_archives sorts by name, the newest first; what others are still   *)
(* writing counts.                                                         *)
Beyond(n) == Cardinality({m \in Archives : m > n}) >= Retention

Prune(r) ==
  /\ at[r] = "prune"
  /\ dir' = [n \in Names |-> IF Beyond(n) THEN "none" ELSE dir[n]]
  /\ at' = [at EXCEPT ![r] = "record"]
  /\ UNCHANGED <<made, inside, history, mine, digest, recorded, damage, faults, ofRestore>>

Record(r) ==
  /\ at[r] = "record"
  /\ history' = [history EXCEPT ![mine[r]] = digest[r]]
  /\ recorded' = recorded \cup {mine[r]}
  /\ Done(r)
  /\ UNCHANGED <<made, dir, inside, damage, faults, ofRestore>>

(* _record_backup_history only logs its failure. *)
RecordFails(r) ==
  /\ at[r] = "record" /\ faults < MaxFaults
  /\ faults' = faults + 1
  /\ Done(r)
  /\ UNCHANGED <<made, dir, inside, history, recorded, damage, ofRestore>>

(* Any other failure, of which a vanished archive is one: what was written *)
(* is unlinked.  The row of a failure names no archive.                    *)
BackupFails(r) ==
  /\ \/ at[r] \in {"write", "close", "hash"} /\ faults < MaxFaults /\ faults' = faults + 1
     \/ at[r] = "hash" /\ dir[mine[r]] = "none" /\ UNCHANGED faults
  /\ dir' = [dir EXCEPT ![mine[r]] = "none"]
  /\ Done(r)
  /\ UNCHANGED <<made, inside, history, recorded, damage, ofRestore>>

-----------------------------------------------------------------------------
(* restore_backup *)

(* The archive is copied and hashed in one pass over it. *)
Ask ==
  /\ step = "idle" /\ restores < MaxRestores
  /\ Together \/ \A r \in Runs : at[r] = "idle"
  /\ \E n \in Archives, trust \in BOOLEAN :
       chosen' = [name |-> n, trust |-> trust, copy |-> dir[n], adopts |-> FALSE]
  /\ before' = <<files, database>>
  /\ restores' = restores + 1
  /\ step' = "verify"
  /\ UNCHANGED <<history, carried, files, database, recorded, torn, overridden, damage, faults, ofBackup>>

(* The restore is over: nothing of its own is left. *)
Over == step' = "idle" /\ chosen' = NoChoice /\ carried' = NoRows
Ends == Over /\ UNCHANGED <<files, database, before, torn, restores>>

Matches == history[chosen.name] = chosen.copy

Verify ==
  /\ step = "verify"
  /\ \/ Matches /\ step' = "open" /\ UNCHANGED <<chosen, overridden>>
     \/ history[chosen.name] = NoRow /\ chosen.trust
        /\ chosen' = [chosen EXCEPT !.adopts = TRUE] /\ overridden' = TRUE /\ step' = "open"
  /\ UNCHANGED <<history, carried, files, database, before, recorded, torn, restores, damage, faults, ofBackup>>

Refuse ==
  /\ step = "verify"
  /\ ~Matches
  /\ ~(history[chosen.name] = NoRow /\ chosen.trust)
  /\ Ends
  /\ UNCHANGED <<history, recorded, overridden, damage, faults, ofBackup>>

HasDatabase == inside[chosen.name] # NoDatabase

OpenFiles == files

(* Members are vetted, the database is staged, checked and its remote      *)
(* access revoked.  An archive still being written cannot be read to its   *)
(* end; a damaged one may fail here.                                       *)
Open ==
  /\ step = "open" /\ chosen.copy # "partial"
  /\ step' = IF HasDatabase THEN "read" ELSE "extract"
  /\ files' = OpenFiles
  /\ UNCHANGED <<history, chosen, carried, database, before, recorded, torn, overridden, restores,
                 damage, faults, ofBackup>>

OpenFails ==
  /\ step = "open" /\ chosen.copy # "whole"
  /\ Over
  /\ files' = OpenFiles
  /\ UNCHANGED <<history, database, before, recorded, torn, overridden, restores,
                 damage, faults, ofBackup>>

HistoryRead == history

ReadHistory ==
  /\ step = "read"
  /\ carried' = HistoryRead
  /\ step' = "extract"
  /\ UNCHANGED <<history, chosen, files, database, before, recorded, torn, overridden, restores,
                 damage, faults, ofBackup>>

(* Variant: the archive is extracted where it lies. *)
FromTheArchive == IF dir[chosen.name] = "none" THEN chosen.copy ELSE dir[chosen.name]
Source == chosen.copy

Extract ==
  /\ step = "extract"
  /\ files' = Source
  /\ IF HasDatabase THEN step' = "swap" ELSE step' = "adopt"
  /\ UNCHANGED <<history, chosen, carried, database, before, recorded, torn, overridden, restores,
                 damage, faults, ofBackup>>

ExtractFails ==
  /\ step = "extract" /\ faults < MaxFaults
  /\ files' = "mixed"
  /\ Over /\ faults' = faults + 1
  /\ UNCHANGED <<history, database, before, recorded, torn, overridden, restores,
                 damage, ofBackup>>

(* An archive without the database: the row goes into the history there is. *)
AdoptedInto(h) == IF chosen.adopts THEN [h EXCEPT ![chosen.name] = chosen.copy] ELSE h

Adopt ==
  /\ step = "adopt"
  /\ history' = AdoptedInto(history)
  /\ recorded' = IF chosen.adopts THEN recorded \cup {chosen.name} ELSE recorded
  /\ Ends
  /\ UNCHANGED <<overridden, damage, faults, ofBackup>>

(* _swap_database: the history is now the one in the archive. *)
Swap ==
  /\ step = "swap"
  /\ database' = Source
  /\ history' = inside[chosen.name]
  /\ step' = "merge"
  /\ UNCHANGED <<chosen, carried, files, before, recorded, torn, overridden, restores, damage, faults, ofBackup>>

(* _merge_backup_history: the rows read before, and the adopted one, are   *)
(* added behind those of the restored history that they are not among; the *)
(* last row of a name counts.                                              *)
Merged(restored, rows) == [n \in Names |-> IF rows[n] = NoRow THEN restored[n] ELSE rows[n]]

Merge ==
  /\ step = "merge"
  /\ history' = AdoptedInto(Merged(history, carried))
  /\ recorded' = IF chosen.adopts THEN recorded \cup {chosen.name} ELSE recorded
  /\ Ends
  /\ UNCHANGED <<overridden, damage, faults, ofBackup>>

MergeFails ==
  /\ step = "merge" /\ faults < MaxFaults
  /\ Over /\ faults' = faults + 1 /\ torn' = TRUE
  /\ UNCHANGED <<history, files, database, before, recorded, overridden, restores,
                 damage, ofBackup>>

-----------------------------------------------------------------------------
(* A finished archive is damaged on the disk or the share. *)
Damage ==
  /\ damage < MaxDamage
  /\ \E n \in Names :
       /\ dir[n] = "whole"
       /\ \A r \in Runs : mine[r] = n => at[r] # "hash"
       /\ dir' = [dir EXCEPT ![n] = "damaged"]
  /\ damage' = damage + 1
  /\ UNCHANGED <<made, inside, history, at, mine, digest, recorded, faults, ofRestore>>

(* The process dies: what was being written stays as it is. *)
Crash ==
  /\ faults < MaxFaults
  /\ step # "idle" \/ \E r \in Runs : at[r] # "idle"
  /\ at' = [r \in Runs |-> "idle"] /\ mine' = [r \in Runs |-> 1] /\ digest' = [r \in Runs |-> "none"]
  /\ Over
  /\ torn' = (torn \/ step = "merge")
  /\ faults' = faults + Cardinality({r \in Runs : at[r] # "idle"}) + (IF step = "idle" THEN 0 ELSE 1)
  /\ UNCHANGED <<made, dir, inside, history, files, database, before, recorded, overridden, restores,
                 damage>>

Backup(r) == \/ Begin(r) \/ Snapshot(r) \/ Close(r) \/ Hash(r) \/ Prune(r) \/ Record(r)
             \/ RecordFails(r) \/ BackupFails(r)

Restore == \/ Ask \/ Verify \/ Refuse \/ Open \/ OpenFails \/ ReadHistory \/ Extract \/ ExtractFails
           \/ Adopt \/ Swap \/ Merge \/ MergeFails

Next == Restore \/ Damage \/ Crash \/ \E r \in Runs : Backup(r)

Spec == Init /\ [][Next]_backupVars

-----------------------------------------------------------------------------
(* Properties *)

Contents == {"whole", "damaged"}

TypeOK ==
  /\ made \in 0..MaxBackups
  /\ dir \in [Names -> {"none", "partial"} \cup Contents]
  /\ history \in [Names -> {NoRow} \cup Contents]
  /\ at \in [Runs -> {"idle", "write", "close", "hash", "prune", "record"}]
  /\ step \in {"idle", "verify", "open", "read", "extract", "adopt", "swap", "merge"}
  /\ files \in {"own", "mixed"} \cup Contents /\ database \in {"own"} \cup Contents
  /\ recorded \subseteq 1..made

(* What is restored is what its backup wrote: damage to an archive at any  *)
(* moment, also after it was verified, reaches the live files and the live *)
(* database only if the operator trusted an archive without a hash.        *)
VerifiedIsApplied == "damaged" \in {files, database} => overridden

(* A restore that is refused, or stops before it extracts, has changed     *)
(* neither the files nor the database.                                     *)
NothingChanged ==
  step' = "idle" /\ step \in {"verify", "open", "read"} => files' = before[1] /\ database' = before[2]
RefusedChangesNothing == [][NothingChanged]_backupVars

(* The rows of newer archives are carried forward: whatever is restored,   *)
(* an archive that was recorded keeps its hash, unless the restore broke   *)
(* off between swap and merge.                                             *)
HashesCarriedForward ==
  step = "idle" /\ ~torn => \A n \in recorded : history[n] # NoRow

(* There is always an archive that can be verified, once there was one, as *)
(* long as more are kept than there are backups at work and backups that   *)
(* failed: retention counts what others are writing and what a crash left, *)
(* and it runs before the new archive is recorded.                         *)
SomethingVerifies ==
  recorded # {} /\ step = "idle" /\ ~torn /\ faults + Cardinality(Runs) < Retention
    => \E n \in Archives : dir[n] \in Contents /\ history[n] # NoRow
=============================================================================
