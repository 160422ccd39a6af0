------------------------------ MODULE McpAudit -----------------------------
(* The audit log of the MCP server: mcp_server/audit.py and its table      *)
(* (db_mcp_audit.py).  A request records one row; rows without a           *)
(* credential are capped per minute, the rest counted into one summary     *)
(* row; rows wait in a bounded queue for the one writer thread.  A row is  *)
(* represented by how many recorded rows it stands for.                    *)
EXTENDS Naturals, Sequences, FiniteSets

CONSTANTS Threads, Cap, QueueMax, MaxRecords

VARIABLES
  pending,     \* _pending
  window,      \* _window_started: "none", "open", or "over" when its minute has passed
  rows,        \* _window_rows
  suppressed,  \* _suppressed
  hand,        \* what each thread still has to submit, the summary first
  entering,    \* the row of each thread that is counted in _pending and not yet in the queue
  queue,       \* rows in the executor's queue
  writing,     \* the writer's row, <<>> when it has none
  kept,        \* history: recorded rows that mcp_audit_log stands for
  missed,      \* history: those dropped at the full queue or lost by a failed write
  recorded     \* history: rows recorded

vars == <<pending, window, rows, suppressed, hand, entering, queue, writing, kept, missed, recorded>>

\* The recorded rows that the rows of a sequence stand for.
Total(s) ==
  LET first[n \in 0..Len(s)] == IF n = 0 THEN 0 ELSE first[n - 1] + s[n]
  IN first[Len(s)]

Init ==
  /\ pending = 0 /\ window = "none" /\ rows = 0 /\ suppressed = 0
  /\ hand = [t \in Threads |-> <<>>] /\ entering = [t \in Threads |-> <<>>]
  /\ queue = <<>> /\ writing = <<>> /\ kept = 0 /\ missed = 0 /\ recorded = 0

\* _roll_window_locked, then _admit_locked, in one locked step.
Rolls == window # "open"
(* Variant: the closed window's count is cleared before it is read. *)
Cleared == <<>>
Summary == IF Rolls /\ suppressed > 0 THEN <<suppressed>> ELSE <<>>
RowsThen == IF Rolls THEN 0 ELSE rows
SuppressedThen == IF Rolls THEN 0 ELSE suppressed
Record(t, unauthenticated) ==
  /\ hand[t] = <<>> /\ entering[t] = <<>> /\ recorded < MaxRecords
  /\ recorded' = recorded + 1 /\ window' = "open"
  /\ LET admitted == ~unauthenticated \/ RowsThen < Cap
     IN /\ rows' = IF unauthenticated /\ admitted THEN RowsThen + 1 ELSE RowsThen
        /\ suppressed' = IF admitted THEN SuppressedThen ELSE SuppressedThen + 1
        /\ hand' = [hand EXCEPT ![t] = Summary \o (IF admitted THEN <<1>> ELSE <<>>)]
  /\ UNCHANGED <<pending, entering, queue, writing, kept, missed>>

\* _submit: counted under the lock ...
Full == pending >= QueueMax
Submit(t) ==
  /\ hand[t] # <<>> /\ entering[t] = <<>>
  /\ hand' = [hand EXCEPT ![t] = Tail(@)]
  /\ IF Full
     THEN missed' = missed + Head(hand[t]) /\ UNCHANGED <<pending, entering>>
     ELSE /\ pending' = pending + 1 /\ entering' = [entering EXCEPT ![t] = <<Head(hand[t])>>]
          /\ UNCHANGED missed
  /\ UNCHANGED <<window, rows, suppressed, queue, writing, kept, recorded>>
\* ... and given to the executor outside it.
Enqueue(t) ==
  /\ entering[t] # <<>> /\ queue' = Append(queue, Head(entering[t])) /\ entering' = [entering EXCEPT ![t] = <<>>]
  /\ UNCHANGED <<pending, window, rows, suppressed, hand, writing, kept, missed, recorded>>

\* _write.
Take ==
  /\ writing = <<>> /\ queue # <<>> /\ writing' = <<Head(queue)>> /\ queue' = Tail(queue)
  /\ UNCHANGED <<pending, window, rows, suppressed, hand, entering, kept, missed, recorded>>
Written(ok) ==
  /\ writing # <<>> /\ writing' = <<>> /\ pending' = pending - 1
  /\ IF ok THEN kept' = kept + Head(writing) /\ UNCHANGED missed
           ELSE missed' = missed + Head(writing) /\ UNCHANGED kept
  /\ UNCHANGED <<window, rows, suppressed, hand, entering, queue, recorded>>

MinuteEnds ==
  /\ window = "open" /\ window' = "over"
  /\ UNCHANGED <<pending, rows, suppressed, hand, entering, queue, writing, kept, missed, recorded>>

Next ==
  \/ \E t \in Threads : (\E u \in BOOLEAN : Record(t, u)) \/ Submit(t) \/ Enqueue(t)
  \/ Take \/ (\E ok \in BOOLEAN : Written(ok)) \/ MinuteEnds

Spec == Init /\ [][Next]_vars

-----------------------------------------------------------------------------
(* Properties.                                                             *)

Held(f) == {t \in Threads : f[t] # <<>>}
\* The recorded rows the threads carry, each numbered by its thread.
Carries(t) == Total(hand[t]) + Total(entering[t])
Carried == UNION {{t} \X (1..Carries(t)) : t \in Threads}

\* Every row that was recorded is in the log, on its way there, counted towards a summary,
\* or was missed at the full queue or by a failed write: none is counted twice, and the
\* summary of a closed window goes to exactly one thread (_roll_window_locked, _submit).
EveryRowCounted ==
  recorded = kept + missed + suppressed + Cardinality(Carried) + Total(queue) + Total(writing)

\* The writer never has more than the queue's limit before it, and the count of them is
\* that of the rows there (_submit, _write); rows are suppressed only above the cap.
QueueBounded ==
  /\ pending <= QueueMax /\ pending = Len(queue) + Len(writing) + Cardinality(Held(entering))
  /\ rows <= Cap /\ (suppressed > 0 => rows = Cap)
=============================================================================
