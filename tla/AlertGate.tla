---------------------------- MODULE AlertGate ----------------------------
(***************************************************************************)
(* The gate in front of every alert (intraday_orchestrator.py): one row of *)
(* alert_state for an engine and a ticker decides whether a condition that *)
(* a scan reports is told again.  A scan reads the market, asks the gate   *)
(* only when its engine reports a condition, notifies, and only then       *)
(* stamps the row; a row nobody touched for KeepDays days is deleted at    *)
(* the start of the next scan.                                             *)
(*                                                                         *)
(* Abstraction: one engine and one ticker, the kind of engine is chosen at *)
(* the start; a reason is its fingerprint; time runs in ticks; prices are  *)
(* whole numbers and percentages are compared without dividing.            *)
(***************************************************************************)
EXTENDS Integers, FiniteSets

CONSTANTS
  Scans,        \* the runs of the scan that may overlap
  Conditions,   \* the fingerprints its engine can report
  Kinds,        \* which of "falling", "stop", "rising", "points", "unpriced", "daily" are tried
  Prices,       \* the prices the market goes through
  Stop,         \* the ATR stop of the ticker, for kind "stop"
  Rearm, Retrigger,  \* REARM_PERCENT, RETRIGGER_PERCENT
  Cooldown,     \* COOLDOWN_MINUTES, in ticks
  PerDay,       \* MAX_ALERTS_PER_DAY, for kind "daily"
  TicksPerDay, KeepDays,
  MaxTime,      \* bound: the clock stops here
  MaxFaults     \* bound: crashes and failed database calls

VARIABLES
  kind,     \* the kind of engine of this behaviour
  now,      \* the clock, in ticks
  row,      \* alert_state, NoRow when there is none
  scan,     \* scan[s]: where the scan is, and the price and condition it read
  told,     \* the last alert sent, NoAlert before the first
  repeats,  \* alerts sent again with nothing new to tell
  sentOn,   \* alerts sent today, and the day
  faults,   \* crashes and failed stamps that left a sent alert without a stamp
  consulted,\* the tick of the last scan that asked the gate and got an answer
  rose      \* since the last alert was sent: "no" recovery, one that only a scan saw, or one the gate "answered"

gateVars == <<kind, now, row, scan, told, repeats, sentOn, faults, consulted, rose>>

Quiet == "quiet"
NoRow == [condition |-> Quiet, price |-> 0, fired |-> 0, armed |-> FALSE, day |-> 0, count |-> 0]
NoAlert == [condition |-> Quiet, price |-> 0, at |-> 0]
Day(t) == t \div TicksPerDay
Today == Day(now)

Idle == [at |-> "idle", price |-> 0, condition |-> Quiet, asked |-> 0]

-----------------------------------------------------------------------------
(* How far p is better or worse than last, times the base it is compared   *)
(* with: a percentage for prices, points for the trap monitor.             *)

Base(from) == IF kind = "points" THEN 1 ELSE from
Scale == IF kind = "points" THEN 1 ELSE 100
Worse(from, p) == IF kind = "rising" THEN Scale * (p - from) ELSE Scale * (from - p)
Better(from, p) == -Worse(from, p)
Worsened(from, p) == Worse(from, p) >= Retrigger * Base(from)
Recovered(from, p) == Better(from, p) >= Rearm * Base(from)

(* What the market can look like: a stop is breached exactly at or below   *)
(* the stop, the other engines report for reasons of their own.            *)
Markets == {m \in [price: Prices, condition: Conditions \cup {Quiet}] :
              kind = "stop" => (m.condition # Quiet <=> m.price <= Stop)}

Init ==
  /\ kind \in Kinds
  /\ now = 0
  /\ row = NoRow
  /\ scan = [s \in Scans |-> Idle]
  /\ told = NoAlert
  /\ repeats = 0 /\ faults = 0 /\ consulted = 0
  /\ sentOn = [day |-> 0, count |-> 0]
  /\ rose = "no"

-----------------------------------------------------------------------------
(* The gate itself. *)

(* _evaluate_daily_alert_gate: the count of the row counts for its day only. *)
DailyFires == \/ row = NoRow
              \/ row.day # Today
              \/ row.count < PerDay

(* The stored price cannot be compared. *)
NoComparison(p) == kind = "unpriced" \/ row.price = 0

(* Cases 1 to 3: nothing was told, something else was told, or the row is armed. *)
FiresAnyway(c) == row = NoRow \/ row.condition # c \/ row.armed

Rearms(p) == ~NoComparison(p) /\ Recovered(row.price, p)

(* Case 4b: after the cooldown, a material deterioration. *)
Retriggers(p) == /\ ~NoComparison(p)
                 /\ ~Recovered(row.price, p)
                 /\ now - row.fired >= Cooldown
                 /\ Worsened(row.price, p)

Fires(c, p) == IF kind = "daily" THEN DailyFires ELSE FiresAnyway(c) \/ Retriggers(p)

(* Variant: the suppressed row keeps its old date. *)
Untouched(r, c, p) == IF kind # "daily" /\ Rearms(p) THEN [r EXCEPT !.armed = TRUE, !.day = Today] ELSE r

(* The row a suppressing answer leaves: armed after a recovery, and in any *)
(* case dated today, so that a condition that lasts is not pruned; the     *)
(* daily gate leaves it alone.                                             *)
Kept(r, c, p) ==
  IF kind = "daily" THEN r
  ELSE [r EXCEPT !.armed = Rearms(p), !.day = Today]

(* fire_count starts over with the day; only the daily gate reads it, as   *)
(* far as PerDay.                                                          *)
NextCount == IF row.day = Today /\ row # NoRow
             THEN IF row.count > PerDay THEN row.count ELSE row.count + 1
             ELSE 1

(* The row record_alert_fired writes. *)
Stamped(c, p) ==
  [condition |-> c, price |-> IF kind = "unpriced" THEN 0 ELSE p, fired |-> now, armed |-> FALSE,
   day |-> Today, count |-> NextCount]

-----------------------------------------------------------------------------
(* The scan. *)

(* _prune_alert_state: the row of a condition no scan has touched for more *)
(* than KeepDays days.                                                     *)
Outdated == row # NoRow /\ row.day < Today - KeepDays

Prune(s) ==
  /\ scan[s].at = "idle"
  /\ row' = IF Outdated THEN NoRow ELSE row
  /\ scan' = [scan EXCEPT ![s].at = "read"]
  /\ UNCHANGED <<kind, now, told, repeats, sentOn, faults, consulted, rose>>

(* The prices are downloaded once for the whole scan, and anything may     *)
(* have happened to them since the last one; an engine that reports        *)
(* nothing never gets to the gate.                                         *)
Read(s) ==
  \E market \in Markets :
  /\ scan[s].at = "read"
  /\ scan' = [scan EXCEPT ![s] = IF market.condition = Quiet THEN Idle
                                 ELSE [at |-> "ask", price |-> market.price,
                                       condition |-> market.condition, asked |-> 0]]
  /\ rose' = IF rose = "no" /\ told # NoAlert /\ Recovered(told.price, market.price) THEN "seen" ELSE rose
  /\ UNCHANGED <<kind, now, row, told, repeats, sentOn, faults, consulted>>

(* The gate lets the alert through; the row is not touched yet. *)
Fire(s) ==
  /\ scan[s].at = "ask"
  /\ Fires(scan[s].condition, scan[s].price)
  /\ scan' = [scan EXCEPT ![s].at = "send", ![s].asked = now]
  /\ UNCHANGED <<kind, now, row, told, repeats, sentOn, faults, consulted, rose>>

Suppress(s) ==
  /\ scan[s].at = "ask"
  /\ ~Fires(scan[s].condition, scan[s].price)
  /\ row' = Kept(row, scan[s].condition, scan[s].price)
  /\ scan' = [scan EXCEPT ![s] = Idle]
  /\ consulted' = now
  /\ rose' = IF Recovered(told.price, scan[s].price) THEN "answered" ELSE rose
  /\ UNCHANGED <<kind, now, told, repeats, sentOn, faults>>

(* The gate fails and suppresses to be safe. *)
AskFails(s) ==
  /\ scan[s].at = "ask" /\ faults < MaxFaults
  /\ scan' = [scan EXCEPT ![s] = Idle]
  /\ faults' = faults + 1
  /\ UNCHANGED <<kind, now, row, told, repeats, sentOn, consulted, rose>>

(* Is there anything to tell that the last alert did not tell?  Another    *)
(* condition, a recovery in between, a deterioration after the cooldown,   *)
(* a condition out of sight for longer than rows are kept, or for the      *)
(* daily gate a new day.                                                   *)
News(s) ==
  LET c == scan[s].condition
      p == scan[s].price
  IN \/ told.condition # c
     \/ kind = "daily" /\ (sentOn.day # Today \/ sentOn.count < PerDay)
     \/ rose # "no" /\ kind # "unpriced"
     \/ Today - Day(consulted) > KeepDays
     \/ kind # "unpriced" /\ scan[s].asked - told.at >= Cooldown /\ Worsened(told.price, p)

Send(s) ==
  /\ scan[s].at = "send"
  /\ repeats' = IF News(s) THEN repeats ELSE repeats + 1
  /\ told' = [condition |-> scan[s].condition, price |-> scan[s].price, at |-> now]
  /\ rose' = "no"
  /\ sentOn' = IF kind # "daily" THEN sentOn
               ELSE IF sentOn.day = Today THEN [sentOn EXCEPT !.count = @ + 1] ELSE [day |-> Today, count |-> 1]
  /\ scan' = [scan EXCEPT ![s].at = "stamp"]
  /\ UNCHANGED <<kind, now, row, faults, consulted>>

Stamp(s) ==
  /\ scan[s].at = "stamp"
  /\ row' = Stamped(scan[s].condition, scan[s].price)
  /\ scan' = [scan EXCEPT ![s] = Idle]
  /\ consulted' = now
  /\ UNCHANGED <<kind, now, told, repeats, sentOn, faults, rose>>

(* record_alert_fired only logs a failure. *)
StampFails(s) ==
  /\ scan[s].at = "stamp" /\ faults < MaxFaults
  /\ scan' = [scan EXCEPT ![s] = Idle]
  /\ faults' = faults + 1
  /\ UNCHANGED <<kind, now, row, told, repeats, sentOn, consulted, rose>>

(* The process dies: the scans are gone, the row stays. *)
Crash ==
  /\ faults < MaxFaults
  /\ \E s \in Scans : scan[s].at # "idle"
  /\ scan' = [s \in Scans |-> Idle]
  /\ faults' = faults + 1
  /\ UNCHANGED <<kind, now, row, told, repeats, sentOn, consulted, rose>>

Tick ==
  /\ now < MaxTime
  /\ now' = now + 1
  /\ UNCHANGED <<kind, row, scan, told, repeats, sentOn, faults, consulted, rose>>

ScanStep(s) == \/ Prune(s) \/ Read(s) \/ Fire(s) \/ Suppress(s) \/ AskFails(s)
               \/ Send(s) \/ Stamp(s) \/ StampFails(s)

Next == Crash \/ Tick \/ \E s \in Scans : ScanStep(s)

Spec == Init /\ [][Next]_gateVars

-----------------------------------------------------------------------------
(* Properties *)

Rows == {NoRow} \cup [condition: Conditions, price: Prices \cup {0}, fired: 0..MaxTime, armed: BOOLEAN,
                      day: 0..Day(MaxTime), count: 1..(PerDay + 1)]

(* The variables hold what the code can hold. *)
TypeOK ==
  /\ kind \in Kinds /\ now \in 0..MaxTime
  /\ row \in Rows
  /\ \A s \in Scans : scan[s].at \in {"idle", "read", "ask", "send", "stamp"}
  /\ told.condition \in Conditions \cup {Quiet}
  /\ repeats \in Nat /\ faults \in 0..MaxFaults /\ rose \in {"no", "seen", "answered"}

(* A reader is told something new each time: an alert repeats an earlier   *)
(* one without news only as often as a crash or a failed write came        *)
(* between sending and stamping, however long the condition lasts and      *)
(* however prices, days and prunings fall in between.                      *)
AlertsAreNews == repeats <= faults

(* A static threshold or a contagion tells at most PerDay alerts on one    *)
(* calendar day, and one more for each lost stamp.                         *)
DailyLimit == kind = "daily" => sentOn.count <= PerDay + faults

Silenced(s) == scan[s].at = "ask" /\ ~Fires(scan[s].condition, scan[s].price)

(* Silence hides nothing: as long as no stamp is lost, a condition the     *)
(* gate suppresses is the one told last, and since that was stamped it has *)
(* not both cooled down and worsened by the retrigger percentage.          *)
SilenceIsOldNews ==
  \A s \in Scans : Silenced(s) /\ kind \notin {"daily", "unpriced"} /\ faults = 0 =>
    /\ told.condition = scan[s].condition
    /\ ~(now - row.fired >= Cooldown /\ Worsened(told.price, scan[s].price))

(* A condition that lasts and is looked at is never pruned: a row goes     *)
(* only when no scan got an answer about it for more than KeepDays days.   *)
PrunedRightly == row # NoRow /\ row' = NoRow => Today - Day(consulted) > KeepDays \/ kind = "daily"
PrunedWhenAbandoned == [][PrunedRightly]_gateVars

(* A recovery the gate was asked about is remembered: the next time the    *)
(* condition is reported without it, the alert goes out.                   *)
RecoveryRearms ==
  \A s \in Scans : ~(Silenced(s) /\ rose = "answered" /\ ~Recovered(row.price, scan[s].price)
                     /\ faults = 0 /\ kind \notin {"daily", "unpriced"})

(* What the documentation says of a stop: rising back above it is          *)
(* recovery.  A recovery that any scan saw arms the row again, so the next *)
(* breach is told.                                                         *)
RisingBackRearms ==
  \A s \in Scans : ~(Silenced(s) /\ rose # "no" /\ ~Recovered(row.price, scan[s].price))
=============================================================================
