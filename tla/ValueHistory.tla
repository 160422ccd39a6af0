---------------------------- MODULE ValueHistory ---------------------------
(* The value history of one account (accounts_engine.py): what its         *)
(* transactions come to, day by day.  Every edit of the ledger is followed *)
(* by a background task that fills in all days up to yesterday from one    *)
(* reading of the ledger and then writes today's row live; a nightly job   *)
(* writes yesterday's row live.  A row is represented by the transactions  *)
(* its equity and its cash count, a currency by the one transaction in it. *)
EXTENDS Naturals, FiniteSets

CONSTANTS Threads, Txns, LastDay, MaxEdits, MaxSnapshots, MaxCrashes

VARIABLES
  ledger,     \* account_transactions: the day of each transaction, NoDay if there is none
  today,      \* the date
  row,        \* account_value_history
  breakdown,  \* account_value_history_currency: the currencies with a row
  at,         \* where each thread is
  edits, snapshots, crashes,  \* so far, for the bounds
  good,       \* history: the days written, since the last edit, by tasks alone at the history
              \* and not ended half-way
  live        \* history: the days whose row was last written live

vars == <<ledger, today, row, breakdown, at, edits, snapshots, crashes, good, live>>

NoDay == 0
Days == 1..LastDay
NoRow == [written |-> FALSE, equity |-> {}, cash |-> {}]
Idle == [do |-> "idle", day |-> NoDay, end |-> NoDay, read |-> [t \in Txns |-> NoDay], equity |-> {}, alone |-> FALSE]

Booked(l) == {t \in Txns : l[t] # NoDay}
(* Variant: the date is not looked at. *)
AsOfEver(l, d) == Booked(l)
\* _ledger_for_account, _cash_balance_as_of and _net_contributions_as_of with a date.
AsOf(l, d) == {t \in Booked(l) : l[t] <= d}
\* The first transaction's day: they are read in order of their dates.
Start(l) == CHOOSE d \in {l[t] : t \in Booked(l)} : \A t \in Booked(l) : d <= l[t]

Init ==
  /\ ledger = [t \in Txns |-> NoDay] /\ today = 1
  /\ row = [d \in Days |-> NoRow] /\ breakdown = [d \in Days |-> {}]
  /\ at = [t \in Threads |-> Idle]
  /\ edits = 0 /\ snapshots = 0 /\ crashes = 0 /\ good = {} /\ live = {}

Does(t, p) == at[t].do = p
tables == <<row, breakdown>>
history == <<good, live>>

-----------------------------------------------------------------------------
(* Edits: add_transaction, update_transaction, delete_transaction; then    *)
(* resnapshot_account by a background task.                                *)

\* Whoever begins has the history to itself only if nobody else is at it.
Others(t) == {u \in Threads \ {t} : ~Does(u, "idle")}
Begin(t, task) == at' = [u \in Threads |-> IF u = t THEN [task EXCEPT !.alone = (Others(t) = {})]
                                                ELSE [at[u] EXCEPT !.alone = FALSE]]
Edit(t, x, d) ==
  /\ Does(t, "idle") /\ edits < MaxEdits /\ edits' = edits + 1
  /\ ledger[x] # d /\ ledger' = [ledger EXCEPT ![x] = d]
  /\ Begin(t, [Idle EXCEPT !.do = "read"]) /\ good' = {}
  /\ UNCHANGED <<today, tables, snapshots, crashes, live>>

\* backfill_value_history reads the ledger once.
End == today - 1
ReadLedger(t) ==
  /\ Does(t, "read")
  /\ at' = [at EXCEPT ![t] =
       IF Booked(ledger) = {} \/ Start(ledger) > End THEN [@ EXCEPT !.do = "date"]
       ELSE [@ EXCEPT !.do = "row", !.read = ledger, !.day = Start(ledger), !.end = End]]
  /\ UNCHANGED <<ledger, today, tables, edits, snapshots, crashes, history>>

FillRow(t) ==
  LET now == AsOf(at[t].read, at[t].day)
  IN /\ Does(t, "row")
     /\ row' = [row EXCEPT ![at[t].day] = [written |-> TRUE, equity |-> now, cash |-> now]]
     /\ live' = live \ {at[t].day} /\ at' = [at EXCEPT ![t].do = "currencies"]
     /\ UNCHANGED <<ledger, today, breakdown, edits, snapshots, crashes, good>>

\* _write_currency_breakdown: of the currencies held, each its own row.
Currencies(d, held) == breakdown' = [breakdown EXCEPT ![d] = @ \cup held]
FillCurrencies(t) ==
  /\ Does(t, "currencies") /\ Currencies(at[t].day, AsOf(at[t].read, at[t].day))
  /\ at' = [at EXCEPT ![t] = IF at[t].day = at[t].end THEN [@ EXCEPT !.do = "date"]
                             ELSE [@ EXCEPT !.do = "row", !.day = at[t].day + 1]]
  /\ UNCHANGED <<ledger, today, row, edits, snapshots, crashes, history>>

-----------------------------------------------------------------------------
(* A live row: today's, or a nightly job's of yesterday.  It counts all of *)
(* the ledger, which is read for the equity and again for the cash.        *)

DateToday(t) ==
  /\ Does(t, "date") /\ at' = [at EXCEPT ![t].do = "equity", ![t].day = today]
  /\ UNCHANGED <<ledger, today, tables, edits, snapshots, crashes, history>>

\* snapshot_all_accounts: a scheduled one dates its row yesterday.
SnapshotAccount(t, scheduled) ==
  /\ Does(t, "idle") /\ snapshots < MaxSnapshots /\ snapshots' = snapshots + 1
  /\ scheduled => today > 1
  /\ Begin(t, [Idle EXCEPT !.do = "equity", !.day = IF scheduled THEN today - 1 ELSE today])
  /\ UNCHANGED <<ledger, today, tables, edits, crashes, history>>

ReadEquity(t) ==
  /\ Does(t, "equity") /\ at' = [at EXCEPT ![t].do = "cash", ![t].equity = Booked(ledger)]
  /\ UNCHANGED <<ledger, today, tables, edits, snapshots, crashes, history>>
WriteLive(t) ==
  /\ Does(t, "cash")
  /\ row' = [row EXCEPT ![at[t].day] = [written |-> TRUE, equity |-> at[t].equity, cash |-> Booked(ledger)]]
  /\ live' = live \cup {at[t].day} /\ at' = [at EXCEPT ![t].do = "live currencies"]
  /\ UNCHANGED <<ledger, today, breakdown, edits, snapshots, crashes, good>>
WrittenBy(t) ==
  {at[t].day} \cup (IF Booked(at[t].read) = {} THEN {} ELSE Start(at[t].read)..at[t].end)
LiveCurrencies(t) ==
  /\ Does(t, "live currencies") /\ Currencies(at[t].day, at[t].equity)
  /\ at' = [at EXCEPT ![t] = Idle]
  /\ good' = IF at[t].alone THEN good \cup WrittenBy(t) ELSE good
  /\ UNCHANGED <<ledger, today, row, edits, snapshots, crashes, live>>

-----------------------------------------------------------------------------
NextDay ==
  /\ today < LastDay /\ today' = today + 1
  /\ UNCHANGED <<ledger, tables, at, edits, snapshots, crashes, history>>
\* Tasks do not survive a restart.
Restart ==
  /\ crashes < MaxCrashes /\ crashes' = crashes + 1 /\ at' = [t \in Threads |-> Idle]
  /\ good' = IF \A t \in Threads : Does(t, "idle") THEN good ELSE {}
  /\ UNCHANGED <<ledger, today, tables, edits, snapshots, live>>

Next ==
  \/ \E t \in Threads : \/ \E x \in Txns, d \in Days \cup {NoDay} : Edit(t, x, d)
                        \/ ReadLedger(t) \/ FillRow(t) \/ FillCurrencies(t) \/ DateToday(t)
                        \/ \E s \in BOOLEAN : SnapshotAccount(t, s)
                        \/ ReadEquity(t) \/ WriteLive(t) \/ LiveCurrencies(t)
  \/ NextDay \/ Restart

Spec == Init /\ [][Next]_vars

-----------------------------------------------------------------------------
(* Properties.                                                             *)

TypeOK ==
  /\ ledger \in [Txns -> Days \cup {NoDay}] /\ today \in Days
  /\ \A d \in Days : row[d].equity \cup row[d].cash \cup breakdown[d] \subseteq Txns
  /\ live \subseteq {d \in Days : row[d].written}

AtRest == \A t \in Threads : Does(t, "idle")

\* When a task had the history to itself, the days it went through have their rows, and
\* these agree with the ledger as of the day; a row that was written live may count later
\* transactions too.  No currency that is held is missing from the breakdown.
\* (resnapshot_account: "recomputes an account's entire value history".)
Due(d) == {t \in Txns : ledger[t] \in 1..d}
Agrees(d) ==
  \/ row[d].equity = Due(d) /\ row[d].cash = Due(d)
  \/ d \in live /\ row[d].equity = Booked(ledger) /\ row[d].cash = Booked(ledger)
HistoryAgrees ==
  AtRest => \A d \in good : row[d].written /\ Agrees(d) /\ row[d].equity \subseteq breakdown[d]

\* The same as documented: "so the chart and Net Contributions line reflect a
\* transaction change immediately", and summing a day's currency rows "reproduces that
\* date's" equity.
ChartFollowsLedger == AtRest /\ crashes = 0 => \A d \in 1..(today - 1) : row[d].written => row[d].cash = Due(d)
BreakdownMatches == AtRest => \A d \in Days : row[d].written => breakdown[d] = row[d].equity
=============================================================================
