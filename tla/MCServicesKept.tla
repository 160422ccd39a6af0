-------------------------- MODULE MCServicesKept --------------------------
(* Instances of four services for TLC, one at a time, for what they keep:  *)
(* the gate of the intraday alerts, backups and restores, the retry queue  *)
(* of Talk messages, the portfolio totals, the settings file and the value *)
(* history of an account.  A behaviour follows the service `focus`; the    *)
(* variables of the others stay as they start.                             *)
EXTENDS PortfolioTotals, Integers, Sequences, TLC

CONSTANTS Conditions, Kinds, BackupRuns, Callers, Messages, Settings, Entries,
          Inodes, MaxSaves, LastDay, MaxEdits, MaxSnapshots, MaxCrashes,
          Retention, MaxBackups, MaxRestores, MaxDamage, MaxFaults,
          Prices, Stop, Rearm, Retrigger, Cooldown, PerDay, TicksPerDay, KeepDays, MaxTime, MaxLost,
          MaxRetries, MinInterval, MaxAge, WarnCooldown

\* Files have numbers other than that of no file, and so have days.
ASSUME FilesAssumption == Inodes # {} /\ 0 \notin Inodes /\ MaxSaves \in Nat
ASSUME DaysAssumption == LastDay \in Nat \ {0}
ASSUME BackupsAssumption ==
  BackupRuns # {} /\ IsFiniteSet(BackupRuns) /\ Retention \in Nat /\ MaxBackups \in Nat \ {0}
\* Prices and percentages are positive, and no fingerprint is that of no condition.
ASSUME AlertsAssumption ==
  /\ Prices \cup {Rearm, Retrigger, PerDay, TicksPerDay} \subseteq Nat \ {0}
  /\ {Cooldown, KeepDays, MaxTime, MaxLost} \subseteq Nat
  /\ "quiet" \notin Conditions

\* A message that failed is tried again at least once.
ASSUME TalkAssumption == MaxRetries \in Nat \ {0} /\ {MinInterval, MaxAge, WarnCooldown} \subseteq Nat

VARIABLES
  focus,
  kind, now, row, scan, told, repeats, sentOn, gateFaults, consulted, rose,
  made, dir, inside, hashes, backupAt, mine, digest, step, chosen, carried, files, database, before,
  recorded, torn, overridden, restores, damage, faults,
  pending, retries, age, idle, sinceWarn, talkAt, hand, open, attempts, failures, crashes,
  content, stamp, main, tmp, spoilt, settingsCache, settingsAt, saves, saveFails, settingsCrashes, saved, overlapped,
  booked, today, valued, breakdown, historyAt, edits, snapshots, restarts, good, live

Gate == INSTANCE AlertGate
  WITH Scans <- {"scan"}, MaxFaults <- MaxLost, faults <- gateFaults
Backup == INSTANCE BackupRestore
  WITH Runs <- BackupRuns, Together <- FALSE, history <- hashes, at <- backupAt
Talk == INSTANCE TalkRetry
  WITH Threads <- Callers, at <- talkAt
Config == INSTANCE SettingsFile
  WITH Threads <- Callers,
       cache <- settingsCache, at <- settingsAt, fails <- saveFails, crashes <- settingsCrashes, promised <- saved
History == INSTANCE ValueHistory
  WITH Threads <- Callers, Txns <- Entries,
       ledger <- booked, row <- valued, at <- historyAt, crashes <- restarts

gateVars == <<kind, now, row, scan, told, repeats, sentOn, gateFaults, consulted, rose>>
backupVars == <<made, dir, inside, hashes, backupAt, mine, digest, step, chosen, carried, files, database, before,
                recorded, torn, overridden, restores, damage, faults>>
talkVars == <<pending, retries, age, idle, sinceWarn, talkAt, hand, open, attempts, failures, crashes>>
configVars == <<content, stamp, main, tmp, spoilt, settingsCache, settingsAt, saves, saveFails, settingsCrashes,
                saved, overlapped>>
historyVars == <<booked, today, valued, breakdown, historyAt, edits, snapshots, restarts, good, live>>
keptVars == <<focus, gateVars, backupVars, talkVars, totalsVars, configVars, historyVars>>

RunSymmetry == Permutations(BackupRuns)

KeptInit ==
  /\ focus \in {"gate", "backup", "talk", "totals", "config", "history"}
  /\ Gate!Init /\ (focus # "gate" => kind = "falling")
  /\ Backup!Init /\ Talk!Init /\ Init
  /\ Config!Init /\ History!Init

KeptNext ==
  /\ UNCHANGED focus
  /\ \/ focus = "gate" /\ Gate!Next /\ UNCHANGED <<backupVars, talkVars, totalsVars, configVars, historyVars>>
     \/ focus = "backup" /\ Backup!Next /\ UNCHANGED <<gateVars, talkVars, totalsVars, configVars, historyVars>>
     \/ focus = "talk" /\ Talk!Next /\ UNCHANGED <<gateVars, backupVars, totalsVars, configVars, historyVars>>
     \/ focus = "totals" /\ Next /\ UNCHANGED <<gateVars, backupVars, talkVars, configVars, historyVars>>
     \/ focus = "config" /\ Config!Next /\ UNCHANGED <<gateVars, backupVars, talkVars, totalsVars, historyVars>>
     \/ focus = "history" /\ History!Next /\ UNCHANGED <<gateVars, backupVars, talkVars, totalsVars, configVars>>

KeptSpec == KeptInit /\ [][KeptNext]_keptVars

-----------------------------------------------------------------------------
(* The properties of the modules, each stated and explained there.         *)
(* TotalsAreHonest is that of PortfolioTotals itself.                      *)

GateHolds ==
  focus = "gate" => Gate!TypeOK /\ Gate!AlertsAreNews /\ Gate!DailyLimit /\ Gate!SilenceIsOldNews
                    /\ Gate!RecoveryRearms
\* AlertGate: an alert that is sent tells something new, one that is held back tells
\* nothing new, a recovery makes the condition news again, and a row is pruned only when
\* its condition was abandoned.
AlertsAreNews == []GateHolds /\ [][focus = "gate" => Gate!PrunedRightly]_gateVars

\* BackupRestore: only what a backup wrote is restored; recorded archives keep their
\* hash, and one of them is there.
ArchivesVerify ==
  focus = "backup" => Backup!TypeOK /\ Backup!VerifiedIsApplied /\ Backup!HashesCarriedForward
                      /\ Backup!SomethingVerifies

Held ==
  focus = "talk" => Talk!TypeOK /\ Talk!NothingLost /\ Talk!RetriesBounded /\ Talk!OneBlockingCall
\* TalkRetry: each open message is held exactly once, with bounded calls; retries and
\* warnings keep their distance.
MessagesHeld == []Held /\ [][focus = "talk" => Talk!Spaced /\ Talk!WarnedApart]_talkVars

\* SettingsFile: saves apart from each other lose nothing, and the cache tells what is
\* in the file.
SettingsKept == focus = "config" => Config!TypeOK /\ Config!SettingsKept /\ Config!CacheIsHonest

\* ValueHistory: after an edit the history agrees with the ledger, day by day.
HistoryAgrees == focus = "history" => History!TypeOK /\ History!HistoryAgrees
=============================================================================
