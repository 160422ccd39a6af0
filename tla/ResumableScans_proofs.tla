------------------------ MODULE ResumableScans_proofs ------------------------
(***************************************************************************)
(* Proofs about ResumableScans, for any tickers, lists, threads, days and  *)
(* bounds.                                                                 *)
(*                                                                         *)
(* CompleteMeansAll: a row is honest about the tickers up to its last one, *)
(* a thread that works on a row stands no further than that row's work     *)
(* allows, and a backfill whose row is not shared is the only one at work. *)
(* StagesOrderedApart: a deep sync at a stage has the marks of those       *)
(* before it, and which threads are resumed excludes one another.          *)
(***************************************************************************)
EXTENDS ResumableScans, TLAPS

-----------------------------------------------------------------------------
(* The calls of the jobs *)

JobNames == Startable \union Resumable

Calls == [fn : {"run_daily_quant_scan", "update_all_tail_risks", "run_historical_backfill", "other"},
          type : ScanTypes \union {""}, list : Lists \union {<<>>}, stage : DeepSyncKeys \union {""}]

\* What every call of every job is: a part that keeps no place in the table, or
\* work on a list under a scan type, the type of the backfill being its own.
Proper(call) ==
  /\ call \in Calls
  /\ call.fn # "other" => call.type \in ScanTypes /\ call.list \in Lists
  /\ call.fn = "other" => call.type = ""
  /\ call.fn = "run_historical_backfill" <=> call.type = "ml_backfill"
  /\ call.stage = "universe_deep_sync" => call.fn # "other"
  /\ call.stage # "" => call.fn # "update_all_tail_risks"

LEMMA CallsAreProper ==
  /\ Proper(Other)
  /\ \A list \in Lists, type \in ScanTypes \ {"ml_backfill"} :
       Proper(Scan(type, list)) /\ Proper(TailRisks(type, list))
  /\ \A list \in Lists : Proper(Backfill(list))
<1>1. Proper(Other)
  BY DEF Proper, Other, Call, Calls, ScanTypes, DeepSyncKeys
<1>2. ASSUME NEW list \in Lists, NEW type \in ScanTypes \ {"ml_backfill"}
      PROVE  Proper(Scan(type, list)) /\ Proper(TailRisks(type, list))
  BY DEF Proper, Scan, TailRisks, Call, Calls, ScanTypes
<1>3. ASSUME NEW list \in Lists PROVE Proper(Backfill(list))
  BY DEF Proper, Backfill, Call, Calls, ScanTypes
<1> QED BY <1>1, <1>2, <1>3

LEMMA StageIsProper ==
  ASSUME NEW call, Proper(call), NEW key \in DeepSyncKeys,
         key = "universe_deep_sync" => call.fn # "other", call.fn # "update_all_tail_risks"
  PROVE  Proper(Stage(key, call))
BY DEF Proper, Stage, Calls

\* Every call of every job is proper, and no job makes more than five.
LEMMA ProgramIsProper ==
  ASSUME NEW job \in JobNames, NEW list \in Lists
  PROVE  /\ Len(Program(job, list)) \in 1..5
         /\ \A n \in 1..Len(Program(job, list)) : Proper(Program(job, list)[n])
<1> DEFINE P == Program(job, list)
<1>t. /\ {"daily", "universe", "sideload", "universe_deep_sync", "tail_risk_daily", "tail_risk_universe"}
           \subseteq ScanTypes \ {"ml_backfill"}
  BY DEF ScanTypes
<1>1. CASE job = "run_overnight_quant_scan"
  <2>1. P = <<Scan("daily", list), TailRisks("tail_risk_daily", list)>>
    BY <1>1 DEF Program
  <2> QED BY <2>1, <1>t, CallsAreProper
<1>2. CASE job = "run_weekend_universe_routine"
  <2>1. P = <<Scan("universe", list), TailRisks("tail_risk_universe", list), Other, Backfill(list)>>
    BY <1>2 DEF Program
  <2> QED BY <2>1, <1>t, CallsAreProper
<1>3. CASE job = "bg_execute_quant_scan"
  <2>1. P = <<Scan("daily", list), Other>>
    BY <1>3 DEF Program
  <2> QED BY <2>1, <1>t, CallsAreProper
<1>4. CASE job = "bg_execute_universe_quant_scan"
  <2>1. P = <<Scan("universe", list)>>
    BY <1>4 DEF Program
  <2> QED BY <2>1, <1>t, CallsAreProper
<1>5. CASE job = "run_ml_backfill"
  <2>1. P = <<Backfill(list)>>
    BY <1>5 DEF Program
  <2> QED BY <2>1, CallsAreProper
<1>6. CASE job = "run_universe_csv_import_scan"
  <2>1. P = <<Scan("sideload", list)>>
    BY <1>6 DEF Program
  <2> QED BY <2>1, <1>t, CallsAreProper
<1>7. CASE job = "run_universe_deep_sync"
  <2> DEFINE c1 == Stage("deep_sync_s1", Other)
             c2 == Stage("deep_sync_s2", Other)
             c3 == Stage("universe_deep_sync", Scan("universe_deep_sync", list))
             c4 == Stage("deep_sync_s4", Backfill(list))
             c5 == Stage("deep_sync_s5", Other)
  <2>1. P = <<c1, c2, c3, c4, c5>>
    BY <1>7 DEF Program
  <2>2. Proper(c1) /\ Proper(c2) /\ Proper(c4) /\ Proper(c5)
    <3>1. Other.fn = "other" /\ Backfill(list).fn = "run_historical_backfill"
      BY DEF Other, Backfill, Call
    <3> QED BY <3>1, CallsAreProper, StageIsProper DEF DeepSyncKeys
  <2>3. Proper(c3)
    <3>1. /\ Proper(Scan("universe_deep_sync", list))
          /\ Scan("universe_deep_sync", list).fn = "run_daily_quant_scan"
      BY <1>t, CallsAreProper DEF Scan, Call
    <3> QED BY <3>1, StageIsProper DEF DeepSyncKeys
  <2> HIDE DEF c1, c2, c3, c4, c5
  <2> QED BY <2>1, <2>2, <2>3
<1>8. CASE job = "_run_daily_tr"
  <2>1. P = <<TailRisks("tail_risk_daily", list)>>
    BY <1>8 DEF Program
  <2> QED BY <2>1, <1>t, CallsAreProper
<1>9. CASE job = "_run_universe_tr"
  <2>1. P = <<TailRisks("tail_risk_universe", list)>>
    BY <1>9 DEF Program
  <2> QED BY <2>1, <1>t, CallsAreProper
<1> QED BY <1>1, <1>2, <1>3, <1>4, <1>5, <1>6, <1>7, <1>8, <1>9 DEF JobNames, Startable, Resumable

\* What a job collects is one of the lists.
LEMMA CollectsLists == \A job \in JobNames : Collects(job) \subseteq Lists
<1> SUFFICES ASSUME NEW job \in JobNames PROVE Collects(job) \subseteq Lists
  OBVIOUS
<1>1. \/ job \in {"run_overnight_quant_scan", "bg_execute_quant_scan", "_run_daily_tr"}
      \/ job \in {"run_weekend_universe_routine", "bg_execute_universe_quant_scan", "_run_universe_tr"}
      \/ job \in {"run_universe_deep_sync", "run_ml_backfill", "run_universe_csv_import_scan"}
  BY DEF JobNames, Startable, Resumable
<1> QED BY <1>1 DEF Collects, Lists

-----------------------------------------------------------------------------
(* Threads *)

ThreadRecords == [job : Jobs, list : Lists \union {<<>>}, at : 0..5, pc : PCs, started : Days,
                  today : Days, next : Nat \ {0}]

CallOf(t) == Program(t.job, t.list)[t.at]

\* What holds of a thread, besides its type: it is at a call of its job, and its
\* place is one that the call has.
Placed(t) ==
  /\ t \in ThreadRecords
  /\ t.pc # "complete"
  /\ t.pc # "idle" => /\ t.job \in JobNames /\ t.list \in Lists
                      /\ t.at \in 1..Len(Program(t.job, t.list))
  /\ t.pc = "gate" => CallOf(t).stage # "" /\ t.next = 1
  /\ t.pc = "mark" => CallOf(t).stage \notin {"", "universe_deep_sync"}
  /\ t.pc \in {"look", "insert", "reset"} => CallOf(t).fn # "other" /\ t.next = 1
  /\ t.pc = "reset" => CallOf(t).fn = "update_all_tail_risks"

\* The thread has a hand in a row, or is about to insert one.
Busy(t) == t.pc \in {"insert", "reset", "work"} /\ CallOf(t).fn # "other"

Resting(t) == Placed(t) /\ ~Busy(t)

\* A thread is at a proper call.
LEMMA AtCall ==
  ASSUME NEW th \in Threads, NEW t, Placed(t), t.pc # "idle"
  PROVE  /\ Proper(CallOf(t))
         /\ Len(Program(t.job, t.list)) \in 1..5
         /\ t.at + 1 \in Nat \ {0}
<1>1. /\ t.job \in JobNames /\ t.list \in Lists
      /\ t.at \in 1..Len(Program(t.job, t.list)) /\ t.at \in 0..5
  BY DEF Placed, ThreadRecords
<1>2. t.at + 1 \in Nat \ {0}
  BY <1>1
<1> QED BY <1>1, <1>2, ProgramIsProper DEF CallOf

LEMMA JobsKnown ==
  /\ "none" \in Jobs
  /\ Resumable \subseteq Jobs
  /\ \A s \in Scopes : s.jobs \subseteq Jobs
  /\ Jobs \subseteq JobNames \union {"none"}
<1> DEFINE A == UNION {s.jobs : s \in Scopes}
<1>1. Jobs = A \union Resumable \union {"none"}
  BY DEF Jobs
<1>2. \A s \in Scopes : s.jobs \subseteq A
  OBVIOUS
<1>3. A \subseteq Startable
  BY ScansAssumption
<1> HIDE DEF A
<1> QED BY <1>1, <1>2, <1>3 DEF JobNames

LEMMA IdleRests ==
  ASSUME NEW th \in Threads, 1 \in Days
  PROVE  Resting(Idle)
<1>0. 0 \in 0..5 /\ 1 \in Nat \ {0}
  OBVIOUS
<1>1. "idle" \in PCs
  BY DEF PCs
<1>2. "none" \in Jobs
  BY JobsKnown
<1>3. Idle \in ThreadRecords /\ Idle.pc = "idle"
  BY <1>0, <1>1, <1>2 DEF Idle, ThreadRecords
<1> QED BY <1>3 DEF Resting, Placed, Busy

\* Entering a call leaves a thread idle or before its work on a row.
LEMMA Entered ==
  ASSUME NEW th \in Threads, NEW t \in ThreadRecords, NEW n \in Nat \ {0},
         t.job \in JobNames, t.list \in Lists, 1 \in Days
  PROVE  /\ Resting(EnterCall(t, n))
         /\ \/ EnterCall(t, n) = Idle /\ n > Len(Program(t.job, t.list))
            \/ /\ EnterCall(t, n).job = t.job
               /\ EnterCall(t, n).started = t.started
               /\ EnterCall(t, n).at = n
               /\ n \in 1..Len(Program(t.job, t.list))
<1> DEFINE calls == Program(t.job, t.list)
           place == IF calls[n].stage # "" THEN "gate"
                    ELSE IF calls[n].fn = "other" THEN "work" ELSE "look"
           e == [t EXCEPT !.at = n, !.next = 1, !.today = t.started, !.pc = place]
<1>1. Len(calls) \in 1..5
  BY ProgramIsProper
<1>2. CASE n > Len(calls)
  <2>1. EnterCall(t, n) = Idle
    BY <1>2 DEF EnterCall
  <2> QED BY <1>2, <2>1, IdleRests
<1>3. CASE ~(n > Len(calls))
  <2>1. EnterCall(t, n) = e
    BY <1>3 DEF EnterCall
  <2>2. n \in 1..Len(calls) /\ n \in 0..5
    <3>1. ASSUME NEW k \in 1..5, ~(n > k) PROVE n \in 1..k /\ n \in 0..5
      BY <3>1
    <3> HIDE DEF calls
    <3> QED BY <1>1, <1>3, <3>1
  <2>3. place \in {"gate", "work", "look"}
    OBVIOUS
  <2>4. /\ e.job = t.job /\ e.list = t.list /\ e.at = n /\ e.next = 1 /\ e.pc = place /\ e.started = t.started
        /\ e \in ThreadRecords
    <3>1. place \in PCs /\ 1 \in Nat \ {0}
      BY <2>3 DEF PCs
    <3> HIDE DEF calls, place
    <3> QED BY <2>2, <3>1 DEF ThreadRecords
  <2>5. CallOf(e) = calls[n]
    BY <2>4 DEF CallOf
  <2>6. /\ place = "gate" => calls[n].stage # ""
        /\ place = "look" => calls[n].fn # "other"
        /\ place = "work" => calls[n].fn = "other"
    OBVIOUS
  <2> HIDE DEF calls, place, e
  <2>7. Resting(e)
    <3>1. e.list \in Lists /\ e.job \in JobNames /\ e.at \in 1..Len(Program(e.job, e.list))
      BY <2>2, <2>4 DEF calls
    <3> QED BY <2>3, <2>4, <2>5, <2>6, <3>1 DEF Resting, Placed, Busy
  <2> QED BY <2>1, <2>2, <2>4, <2>7 DEF calls
<1> QED BY <1>2, <1>3, <1>1

\* Where a call ends, whether it returns or raises, the thread rests.
Ends(th, t) ==
  \/ t \in {Idle, NextCall(th)}
  \/ t = To(th, "mark") /\ Marks(th)

LEMMA EndsRest ==
  ASSUME NEW th \in Threads, Placed(thread[th]), thread[th].pc # "idle", 1 \in Days,
         NEW t, Ends(th, t)
  PROVE  Resting(t)
<1>1. CASE t = Idle
  BY <1>1, IdleRests
<1>2. CASE t = NextCall(th)
  BY <1>2, AtCall, Entered DEF NextCall, Placed
<1>3. CASE t = To(th, "mark") /\ Marks(th)
  <2>1. thread[th] \in ThreadRecords
    BY DEF Placed
  <2>2. /\ t \in ThreadRecords /\ t.pc = "mark" /\ t.job = thread[th].job /\ t.list = thread[th].list /\ t.at = thread[th].at
    BY <1>3, <2>1 DEF To, ThreadRecords, PCs
  <2>3. CallOf(t) = At(th) /\ CallOf(thread[th]) = At(th)
    BY <2>2 DEF CallOf, At
  <2> QED BY <1>3, <2>2, <2>3 DEF Resting, Placed, Busy, Marks
<1> QED BY <1>1, <1>2, <1>3 DEF Ends

LEMMA CallsEnd ==
  ASSUME NEW th
  PROVE  /\ Ends(th, Idle) /\ Ends(th, NextCall(th))
         /\ Ends(th, Returns(th)) /\ Ends(th, Raises(th)) /\ Ends(th, Breaks(th))
         /\ \A t \in Raised(th) : Ends(th, t)
<1>1. Ends(th, Idle) /\ Ends(th, NextCall(th))
  BY DEF Ends
<1>2. Ends(th, Returns(th))
  BY DEF Ends, Returns
<1>3. Ends(th, Raises(th))
  BY <1>1 DEF Raises
<1>4. Ends(th, Breaks(th))
  BY <1>2, <1>3 DEF Breaks
<1> QED BY <1>1, <1>2, <1>3, <1>4 DEF Raised

-----------------------------------------------------------------------------
(* Rows *)

WorkRecords == [lists : SUBSET Lists, tickers : SUBSET Tickers, shared : BOOLEAN]

\* The first k tickers of the list were worked on, as far as they are in all lists.
Upto(list, k, work) == \A j \in 1..k : list[j] \in InAll(work.lists) => list[j] \in work.tickers

\* The lists of the runs that had a hand in the row have one order.
Agreeing(work) == work.lists \subseteq Lists /\ \A l, m \in work.lists : Agree(l, m)

\* What a row says was done was done: everything when it is completed, everything
\* up to its last ticker while it is in progress.
Honest(row, work) ==
  row.status # "none" /\ ~work.shared =>
    /\ Agreeing(work)
    /\ row.status = "COMPLETED" => InAll(work.lists) \subseteq work.tickers
    /\ row.status = "IN_PROGRESS" =>
         \/ row.last = NoTicker
         \/ \E list \in work.lists : \E i \in DOMAIN list : list[i] = row.last /\ Upto(list, i, work)

\* A run of the call may go on with the row at the ticker with this number.
Joined(row, work, call, next) ==
  /\ row.status # "none"
  /\ ~work.shared => call.list \in work.lists /\ Upto(call.list, next - 1, work)

\* A run with the list has a hand in the row.
JoinedBy(list, work, work2) ==
  /\ work2.lists = work.lists \union {list} /\ work2.tickers = work.tickers
  /\ work.shared \/ (\E l \in work.lists : ~Agree(l, list)) => work2.shared

LEMMA ListFacts ==
  ASSUME NEW list \in Lists
  PROVE  /\ list \in Seq(Tickers) /\ Len(list) \in Nat /\ DOMAIN list = 1..Len(list)
         /\ \A i \in DOMAIN list : list[i] \in Tickers /\ list[i] # NoTicker
         /\ \A i, j \in DOMAIN list : list[i] = list[j] => i = j
<1>1. list \in Seq(Tickers)
  BY ScansAssumption
<1> QED BY <1>1, ScansAssumption

\* A ticker of the list is found at its place, and a run resumes after it.
LEMMA ResumesAfter ==
  ASSUME NEW list \in Lists, NEW i \in DOMAIN list
  PROVE  Has(list, list[i]) /\ ResumeAt(list, list[i]) = i + 1
<1>1. Has(list, list[i])
  BY DEF Has
<1>2. IndexOf(list, list[i]) = i
  BY ListFacts DEF IndexOf
<1> QED BY <1>1, <1>2 DEF ResumeAt

LEMMA ResumesSomewhere ==
  ASSUME NEW list \in Lists, NEW last
  PROVE  ResumeAt(list, last) \in Nat \ {0}
<1>1. CASE Has(list, last)
  <2>1. IndexOf(list, last) \in DOMAIN list
    BY <1>1 DEF IndexOf, Has
  <2> QED BY <1>1, <2>1, ListFacts DEF ResumeAt
<1>2. CASE ~Has(list, last)
  BY <1>2 DEF ResumeAt
<1> QED BY <1>1, <1>2

\* A list agrees with itself, and two lists with each other.
LEMMA AgreeFacts ==
  ASSUME NEW l \in Lists, NEW m \in Lists
  PROVE  Agree(l, l) /\ (Agree(l, m) => Agree(m, l))
<1>1. Agree(l, l)
  BY ListFacts DEF Agree
<1> QED BY <1>1 DEF Agree

\* The lists still agree when a run has joined and the row is not shared.
LEMMA JoinedAgree ==
  ASSUME NEW work, NEW work2, NEW list \in Lists, JoinedBy(list, work, work2),
         ~work2.shared, Agreeing(work)
  PROVE  Agreeing(work2)
<1>1. \A l \in work.lists : Agree(l, list) /\ Agree(list, l)
  BY AgreeFacts DEF JoinedBy, Agreeing
<1>2. Agree(list, list)
  BY AgreeFacts
<1> QED BY <1>1, <1>2 DEF JoinedBy, Agreeing

\* With more lists fewer tickers are in all of them.
LEMMA FewerInAll ==
  ASSUME NEW lists, NEW lists2, lists \subseteq lists2
  PROVE  InAll(lists2) \subseteq InAll(lists)
BY DEF InAll

LEMMA UptoGrows ==
  ASSUME NEW list, NEW k, NEW work, NEW work2, Upto(list, k, work),
         work.lists \subseteq work2.lists, work.tickers \subseteq work2.tickers
  PROVE  Upto(list, k, work2)
BY FewerInAll DEF Upto

\* Other runs' work on a row, and sharing it, takes nothing away.
LEMMA HonestGrows ==
  ASSUME NEW row, NEW work, NEW work2, Honest(row, work),
         work.lists \subseteq work2.lists, work.tickers \subseteq work2.tickers,
         work.shared => work2.shared, ~work2.shared /\ Agreeing(work) => Agreeing(work2)
  PROVE  Honest(row, work2)
<1> SUFFICES ASSUME row.status # "none", ~work2.shared PROVE Honest(row, work2)
  BY DEF Honest
<1>1. Agreeing(work) /\ Agreeing(work2)
  BY DEF Honest
<1>2. row.status = "COMPLETED" => InAll(work2.lists) \subseteq work2.tickers
  BY FewerInAll DEF Honest
<1>3. ASSUME row.status = "IN_PROGRESS", row.last # NoTicker
      PROVE  \E list \in work2.lists : \E i \in DOMAIN list : list[i] = row.last /\ Upto(list, i, work2)
  <2>1. PICK list \in work.lists : \E i \in DOMAIN list : list[i] = row.last /\ Upto(list, i, work)
    BY <1>3 DEF Honest
  <2>2. PICK i \in DOMAIN list : list[i] = row.last /\ Upto(list, i, work)
    BY <2>1
  <2>3. Upto(list, i, work2)
    BY <2>2, UptoGrows
  <2> QED BY <2>1, <2>2, <2>3
<1> QED BY <1>1, <1>2, <1>3 DEF Honest

LEMMA HonestStays ==
  ASSUME NEW row, NEW work, NEW work2, Honest(row, work),
         work2.lists = work.lists, work.tickers \subseteq work2.tickers, work.shared => work2.shared
  PROVE  Honest(row, work2)
BY HonestGrows DEF Agreeing

LEMMA JoinedHonestly ==
  ASSUME NEW row, NEW work, NEW work2, NEW list \in Lists, Honest(row, work), JoinedBy(list, work, work2)
  PROVE  Honest(row, work2)
<1>1. ~work2.shared /\ Agreeing(work) => Agreeing(work2)
  BY JoinedAgree
<1>2. /\ work.lists \subseteq work2.lists /\ work.tickers \subseteq work2.tickers
      /\ work.shared => work2.shared
  BY DEF JoinedBy
<1> QED BY <1>1, <1>2, HonestGrows

\* A run that has just inserted its row.
LEMMA InsertedHonestly ==
  ASSUME NEW work, NEW list \in Lists, work.lists = {list}
  PROVE  Honest(Fresh, work)
<1>1. Agree(list, list)
  BY AgreeFacts
<1> QED BY <1>1 DEF Honest, Fresh, Agreeing

LEMMA JoinedGrows ==
  ASSUME NEW row, NEW row2, NEW work, NEW work2, NEW call, NEW next, Joined(row, work, call, next),
         row2.status # "none", work.lists \subseteq work2.lists,
         work.tickers \subseteq work2.tickers, work.shared => work2.shared
  PROVE  Joined(row2, work2, call, next)
BY UptoGrows DEF Joined

\* The next ticker is worked on, and perhaps stored as the row's last one.
LEMMA WorkedOn ==
  ASSUME NEW row \in Rows, NEW work, NEW work2, NEW call, call.list \in Lists,
         NEW next \in DOMAIN call.list,
         Honest(row, work), Joined(row, work, call, next),
         work2.lists = work.lists, work2.tickers = work.tickers \union {call.list[next]},
         work2.shared = work.shared
  PROVE  /\ Honest(row, work2)
         /\ Honest([row EXCEPT !.last = call.list[next]], work2)
         /\ Joined(row, work2, call, next + 1)
         /\ Joined([row EXCEPT !.last = call.list[next]], work2, call, next + 1)
<1> DEFINE row2 == [row EXCEPT !.last = call.list[next]]
<1>1. next \in Nat /\ next + 1 - 1 = next /\ next \in 1..Len(call.list)
  BY ListFacts
<1>2. Honest(row, work2)
  BY HonestStays
<1>3. row2.status = row.status
  BY DEF Rows, None
<1>4. row2.last = call.list[next] \/ row.status = "none"
  BY DEF Rows, None
<1>5. ~work2.shared => call.list \in work2.lists /\ Upto(call.list, next, work2)
  <2> SUFFICES ASSUME ~work2.shared, NEW j \in 1..next, call.list[j] \in InAll(work2.lists)
               PROVE  call.list \in work2.lists /\ call.list[j] \in work2.tickers
    BY DEF Upto, Joined
  <2>1. call.list \in work.lists /\ Upto(call.list, next - 1, work)
    BY DEF Joined
  <2>2. j = next \/ j \in 1..next - 1
    BY <1>1
  <2> QED BY <2>1, <2>2 DEF Upto
<1> HIDE DEF row2
<1>6. Joined(row, work2, call, next + 1) /\ Joined(row2, work2, call, next + 1)
  BY <1>1, <1>3, <1>5 DEF Joined
<1>7. Honest(row2, work2)
  BY <1>2, <1>3, <1>4, <1>5 DEF Honest, Joined
<1> QED BY <1>2, <1>6, <1>7 DEF row2

\* At the end of its list the run completes the row.
LEMMA CompletedHonestly ==
  ASSUME NEW row \in Rows, NEW work \in WorkRecords, NEW call, call.list \in Lists, NEW next \in Nat \ {0},
         next > Len(call.list), Honest(row, work), Joined(row, work, call, next)
  PROVE  Honest([row EXCEPT !.status = "COMPLETED"], work)
<1> DEFINE row2 == [row EXCEPT !.status = "COMPLETED"]
<1>1. row2.status = "COMPLETED"
  BY DEF Rows, None
<1>2. ASSUME ~work.shared, NEW ticker \in InAll(work.lists) PROVE ticker \in work.tickers
  <2>1. call.list \in work.lists /\ Upto(call.list, next - 1, work)
    BY <1>2 DEF Joined
  <2>2. Has(call.list, ticker)
    BY <1>2, <2>1 DEF InAll
  <2>3. PICK i \in DOMAIN call.list : call.list[i] = ticker
    BY <2>2 DEF Has
  <2>4. i \in 1..next - 1
    BY ListFacts
  <2> QED BY <1>2, <2>1, <2>3, <2>4 DEF Upto
<1>3. ~work.shared => Agreeing(work)
  BY DEF Honest, Joined
<1> HIDE DEF row2
<1>4. Honest(row2, work)
  BY <1>1, <1>2, <1>3 DEF Honest
<1> QED BY <1>4 DEF row2

\* A run that finds the row unfinished may go on after its last ticker: what comes
\* before it in this run's list came before it in the list of the run that stored it.
LEMMA JoinsAfterLast ==
  ASSUME NEW row, NEW work, NEW work2, NEW call, call.list \in Lists,
         row.status = "IN_PROGRESS", Honest(row, work), JoinedBy(call.list, work, work2)
  PROVE  Joined(row, work2, call, ResumeAt(call.list, row.last))
<1> SUFFICES ASSUME ~work2.shared
             PROVE  Upto(call.list, ResumeAt(call.list, row.last) - 1, work2)
  BY DEF Joined, JoinedBy
<1>1. CASE ~Has(call.list, row.last)
  BY <1>1 DEF ResumeAt, Upto
<1>2. CASE Has(call.list, row.last)
  <2>1. PICK k \in DOMAIN call.list : call.list[k] = row.last
    BY <1>2 DEF Has
  <2>2. ResumeAt(call.list, row.last) = k + 1 /\ k \in Nat /\ k + 1 - 1 = k /\ row.last # NoTicker
    BY <2>1, ResumesAfter, ListFacts
  <2>3. PICK l \in work.lists : \E i \in DOMAIN l : l[i] = row.last /\ Upto(l, i, work)
    BY <2>2 DEF Honest, JoinedBy
  <2>4. PICK i \in DOMAIN l : l[i] = row.last /\ Upto(l, i, work)
    BY <2>3
  <2>5. Agree(l, call.list) /\ l \in Lists /\ l \in work2.lists
    BY <2>3 DEF Honest, JoinedBy, Agreeing
  <2>6. ASSUME NEW j \in 1..k, call.list[j] \in InAll(work2.lists) PROVE call.list[j] \in work2.tickers
    <3>1. j \in DOMAIN call.list
      BY ListFacts
    <3>2. Has(l, call.list[j])
      BY <2>5, <2>6 DEF InAll
    <3>3. PICK p \in DOMAIN l : l[p] = call.list[j]
      BY <3>2 DEF Has
    <3>4. p <= i <=> j <= k
      BY <2>1, <2>4, <2>5, <3>1, <3>3 DEF Agree
    <3>5. p \in 1..i
      BY <2>4, <2>5, <2>6, <3>3, <3>4, ListFacts
    <3>6. l[p] \in InAll(work.lists)
      BY <2>6, <3>3, FewerInAll DEF JoinedBy
    <3>7. l[p] \in work.tickers
      BY <2>4, <3>5, <3>6 DEF Upto
    <3> QED BY <3>3, <3>7 DEF JoinedBy
  <2> QED BY <2>2, <2>6 DEF Upto
<1> QED BY <1>1, <1>2

-----------------------------------------------------------------------------
(* The steps *)

AllPlaced == thread \in [Threads -> ThreadRecords] /\ \A th \in Threads : Placed(thread[th])

Basic == TypeOK /\ AllPlaced

\* What does not change but by Start, Fail, Midnight, Crash, Restart and Resume.
World == <<scope, day, up, spent>>

\* The thread goes on to rest.
GoesToRest(th) == \E t : Resting(t) /\ Goes(th, t)

\* Nothing happens to the rows of the scans, and threads that move are at rest.
Quiet ==
  /\ worked' = worked /\ states' \in [Types -> [Days -> Rows]]
  /\ \A type \in ScanTypes : states'[type] = states[type]
  /\ thread' \in [Threads -> ThreadRecords]
  /\ \A th \in Threads : thread'[th] = thread[th] \/ Resting(thread'[th])

LEMMA Goes1 ==
  ASSUME AllPlaced, NEW th \in Threads, NEW t, Placed(t), Goes(th, t)
  PROVE  /\ AllPlaced'
         /\ thread'[th] = t
         /\ \A u \in Threads \ {th} : thread'[u] = thread[u]
<1>1. t \in ThreadRecords
  BY DEF Placed
<1>2. /\ thread' \in [Threads -> ThreadRecords] /\ thread'[th] = t
      /\ \A u \in Threads \ {th} : thread'[u] = thread[u]
  BY <1>1 DEF Goes, AllPlaced
<1>3. \A u \in Threads : Placed(thread'[u])
  BY <1>2 DEF AllPlaced
<1>4. AllPlaced'
  BY <1>2, <1>3 DEF AllPlaced, ThreadRecords, Placed, CallOf
<1> QED BY <1>2, <1>4

\* The calls of a step's thread.
LEMMA Active ==
  ASSUME AllPlaced, NEW th \in Threads, thread[th].pc # "idle"
  PROVE  /\ At(th) = CallOf(thread[th])
         /\ Proper(At(th))
         /\ Placed(thread[th])
BY AtCall DEF AllPlaced, At, CallOf

\* A thread of the deep sync marks its stages only, which are not scan types.
LEMMA Marked ==
  ASSUME Basic, NEW th \in Threads, Mark(th)
  PROVE  /\ states' \in [Types -> [Days -> Rows]]
         /\ At(th).stage \in DeepSyncKeys \ {"universe_deep_sync"}
         /\ \A type \in Types \ {At(th).stage} : states'[type] = states[type]
         /\ \A d \in Days \ {thread[th].started} : states'[At(th).stage][d] = states[At(th).stage][d]
         /\ states'[At(th).stage][thread[th].started].status = "COMPLETED"
<1> DEFINE key == At(th).stage
           d0 == thread[th].started
           row == [status |-> "COMPLETED", last |-> states[key][d0].last]
<1>1. /\ key \in DeepSyncKeys \ {"universe_deep_sync"} /\ key \in Types /\ d0 \in Days
  <2>1. Placed(thread[th]) /\ thread[th].pc = "mark" /\ Proper(At(th)) /\ At(th) = CallOf(thread[th])
    BY Active DEF Mark, Is, Basic
  <2>2. key \notin {"", "universe_deep_sync"}
    BY <2>1 DEF Placed
  <2>3. key \in DeepSyncKeys \union {""}
    BY <2>1 DEF Proper, Calls
  <2>4. d0 \in Days
    BY <2>1 DEF Placed, ThreadRecords
  <2> QED BY <2>2, <2>3, <2>4 DEF Types
<1>2. states \in [Types -> [Days -> Rows]]
  BY DEF Basic, TypeOK
<1>3. row \in Rows
  <2>1. states[key][d0] \in Rows
    BY <1>1, <1>2
  <2>2. states[key][d0].last \in Tickers \union {NoTicker}
    BY <2>1 DEF Rows, None
  <2> QED BY <2>2 DEF Rows
<1>4. states' = [states EXCEPT ![key][d0] = row]
  BY DEF Mark, StageDay
<1>5. row.status = "COMPLETED"
  OBVIOUS
<1> HIDE DEF key, d0, row
<1>6. /\ states' \in [Types -> [Days -> Rows]]
      /\ \A type \in Types \ {key} : states'[type] = states[type]
      /\ \A d \in Days \ {d0} : states'[key][d] = states[key][d]
      /\ states'[key][d0] = row
  BY <1>1, <1>2, <1>3, <1>4
<1> QED BY <1>1, <1>5, <1>6 DEF key, d0

LEMMA DayOne == ASSUME TypeOK PROVE 1 \in Days /\ day \in Days
<1>1. day \in 1..MaxDay /\ MaxDay \in Nat
  BY ScansAssumption DEF TypeOK, Days
<1> QED BY <1>1 DEF Days

\* The steps of one thread that leave all rows alone.
LEMMA RestSteps ==
  ASSUME Basic, NEW th \in Threads,
         \/ Gate(th) \/ Mark(th) \/ DoOther(th) \/ LookDone(th) \/ InsertFails(th) \/ Fail(th)
         \/ \E job \in scope.jobs : Start(th, job)
  PROVE  /\ GoesToRest(th) /\ worked' = worked /\ states' \in [Types -> [Days -> Rows]]
         /\ \A type \in ScanTypes : states'[type] = states[type]
<1> USE DayOne
<1>0. AllPlaced /\ TypeOK
  BY DEF Basic
<1>s. states \in [Types -> [Days -> Rows]]
  BY DEF Basic, TypeOK
<1>e. ASSUME thread[th].pc # "idle", NEW t, Ends(th, t), Goes(th, t)
      PROVE  GoesToRest(th)
  BY <1>0, <1>e, EndsRest DEF GoesToRest, AllPlaced
<1>1. CASE Gate(th)
  <2>1. thread[th].pc = "gate" /\ UNCHANGED <<states, worked>>
    BY <1>1 DEF Gate, Is
  <2>2. ASSUME Goes(th, NextCall(th)) PROVE GoesToRest(th)
    BY <1>e, <2>1, <2>2, CallsEnd
  <2>3. ASSUME At(th).fn = "other", Goes(th, To(th, "work")) PROVE GoesToRest(th)
    <3>1. Resting(To(th, "work"))
      <4>1. /\ To(th, "work") \in ThreadRecords /\ To(th, "work").pc = "work"
            /\ To(th, "work").job = thread[th].job /\ To(th, "work").list = thread[th].list /\ To(th, "work").at = thread[th].at
        BY <1>0 DEF AllPlaced, To, ThreadRecords, PCs
      <4>2. CallOf(To(th, "work")) = At(th)
        BY <4>1 DEF CallOf, At
      <4>3. Placed(thread[th])
        BY <1>0 DEF AllPlaced
      <4> QED BY <2>1, <2>3, <4>1, <4>2, <4>3 DEF Resting, Placed, Busy
    <3> QED BY <2>1, <2>3, <3>1 DEF GoesToRest
  <2>4. ASSUME At(th).fn # "other", Goes(th, To(th, "look")) PROVE GoesToRest(th)
    <3>1. Resting(To(th, "look"))
      <4>1. /\ To(th, "look") \in ThreadRecords /\ To(th, "look").pc = "look"
            /\ To(th, "look").job = thread[th].job /\ To(th, "look").list = thread[th].list /\ To(th, "look").at = thread[th].at
            /\ To(th, "look").next = thread[th].next
        BY <1>0 DEF AllPlaced, To, ThreadRecords, PCs
      <4>2. CallOf(To(th, "look")) = At(th)
        BY <4>1 DEF CallOf, At
      <4>3. Placed(thread[th])
        BY <1>0 DEF AllPlaced
      <4> QED BY <2>1, <2>4, <4>1, <4>2, <4>3 DEF Resting, Placed, Busy
    <3> QED BY <2>1, <2>4, <3>1 DEF GoesToRest
  <2>5. \/ Goes(th, NextCall(th))
        \/ At(th).fn = "other" /\ Goes(th, To(th, "work"))
        \/ At(th).fn # "other" /\ Goes(th, To(th, "look"))
    BY <1>1 DEF Gate
  <2>6. GoesToRest(th)
    BY <2>2, <2>3, <2>4, <2>5
  <2> QED BY <2>1, <2>6, <1>s
<1>2. CASE Mark(th)
  <2>1. thread[th].pc = "mark" /\ worked' = worked /\ Goes(th, NextCall(th))
    BY <1>2 DEF Mark, Is
  <2>2. \A type \in ScanTypes : states'[type] = states[type]
    <3>1. (DeepSyncKeys \ {"universe_deep_sync"}) \intersect ScanTypes = {}
      BY DEF DeepSyncKeys, ScanTypes
    <3> QED BY <1>2, <3>1, Marked DEF Types
  <2> QED BY <1>2, <2>1, <2>2, <1>e, CallsEnd, Marked
<1>3. CASE DoOther(th) \/ LookDone(th) \/ InsertFails(th)
  <2>1. thread[th].pc # "idle" /\ UNCHANGED <<states, worked>>
    BY <1>3 DEF DoOther, LookDone, InsertFails, Is
  <2>2. Goes(th, Returns(th)) \/ Goes(th, Breaks(th))
    BY <1>3 DEF DoOther, LookDone, InsertFails
  <2> QED BY <1>e, <1>s, <2>1, <2>2, CallsEnd
<1>4. CASE Fail(th)
  <2>1. thread[th].pc # "idle" /\ UNCHANGED <<states, worked>>
    BY <1>4 DEF Fail, MayRaise, Is
  <2>2. PICK t \in Raised(th) : Goes(th, t)
    BY <1>4 DEF Fail
  <2> QED BY <1>e, <1>s, <2>1, <2>2, CallsEnd
<1>5. ASSUME NEW job \in scope.jobs, Start(th, job) PROVE GoesToRest(th) /\ UNCHANGED <<states, worked>>
  <2>1. PICK list \in Collects(job) : Goes(th, Run(job, list)) /\ UNCHANGED <<states, worked>>
    BY <1>5 DEF Start
  <2> DEFINE t == [Idle EXCEPT !.job = job, !.list = list, !.started = day]
  <2>2. job \in Jobs /\ job \in JobNames
    BY <1>0, JobsKnown, ScansAssumption DEF TypeOK, JobNames
  <2>3. Idle \in ThreadRecords
    BY <1>0, IdleRests DEF Resting, Placed
  <2>4. list \in Lists
    BY <2>2, CollectsLists
  <2>5. /\ t \in ThreadRecords /\ t.list \in Lists /\ t.job \in JobNames /\ 1 \in Days
        /\ Goes(th, EnterCall(t, 1))
    BY <1>0, <2>1, <2>2, <2>3, <2>4 DEF ThreadRecords, Run
  <2> HIDE DEF t
  <2>6. Resting(EnterCall(t, 1))
    BY <2>5, Entered
  <2> QED BY <2>1, <2>5, <2>6 DEF GoesToRest
<1> QED BY <1>1, <1>2, <1>3, <1>4, <1>5, <1>s

\* A step of a thread on the rows of its call's type.
Touches(th) ==
  /\ At(th).fn # "other" /\ At(th).type \in ScanTypes /\ At(th).list \in Lists
  /\ states' \in [Types -> [Days -> Rows]]
  /\ worked' \in [ScanTypes -> [Days -> WorkRecords]]
  /\ \A type \in Types \ {At(th).type} : states'[type] = states[type]
  /\ \A type \in ScanTypes \ {At(th).type} : worked'[type] = worked[type]
  /\ AllPlaced'
  /\ \A u \in Threads \ {th} : thread'[u] = thread[u]

\* The thread stays at its call.
Stays(th, pc) ==
  /\ thread'[th].pc = pc
  /\ CallOf(thread'[th]) = At(th)

Same(th, d) ==
  /\ worked'[At(th).type][d].lists = worked[At(th).type][d].lists
  /\ worked'[At(th).type][d].tickers = worked[At(th).type][d].tickers
  /\ worked[At(th).type][d].shared => worked'[At(th).type][d].shared

LEMMA Types1 ==
  ASSUME Basic
  PROVE  /\ states \in [Types -> [Days -> Rows]]
         /\ worked \in [ScanTypes -> [Days -> WorkRecords]]
         /\ thread \in [Threads -> ThreadRecords]
         /\ day \in Days
         /\ ScanTypes \subseteq Types
BY DayOne DEF Basic, TypeOK, AllPlaced, WorkRecords, Types

LEMMA OnCall ==
  ASSUME Basic, NEW th \in Threads, thread[th].pc # "idle",
         \/ thread[th].pc \in {"look", "insert", "reset"}
         \/ At(th).fn # "other"
  PROVE  /\ At(th) = CallOf(thread[th])
         /\ At(th).fn # "other" /\ At(th).type \in ScanTypes /\ At(th).list \in Lists
         /\ At(th).fn = "run_historical_backfill" <=> At(th).type = "ml_backfill"
         /\ Placed(thread[th])
BY Active DEF Basic, Placed, Proper

LEMMA WorkedByEffect ==
  ASSUME Basic, NEW th, At(th).type \in ScanTypes,
         NEW d0, NEW row, d0 \in Days => row \in WorkRecords, WorkedBy(th, d0, row)
  PROVE  /\ worked' \in [ScanTypes -> [Days -> WorkRecords]]
         /\ \A type \in ScanTypes \ {At(th).type} : worked'[type] = worked[type]
         /\ \A d \in Days \ {d0} :
              /\ Same(th, d)
              /\ Overlaps(th) => worked'[At(th).type][d].shared
         /\ d0 \in Days =>
              /\ worked'[At(th).type][d0].lists = row.lists
              /\ worked'[At(th).type][d0].tickers = row.tickers
              /\ row.shared \/ Overlaps(th) => worked'[At(th).type][d0].shared
<1> DEFINE T == At(th).type
           o == Overlaps(th)
           Base(d) == IF d = d0 THEN row ELSE worked[T][d]
           rows == [d \in Days |-> [Base(d) EXCEPT !.shared = @ \/ o]]
<1>1. worked \in [ScanTypes -> [Days -> WorkRecords]]
  BY Types1
<1>2. worked' = [worked EXCEPT ![T] = rows]
  BY DEF WorkedBy
<1>3. \A d \in Days : Base(d) \in WorkRecords
  BY <1>1
<1>4. ASSUME NEW d \in Days
      PROVE  /\ rows[d] \in WorkRecords
             /\ rows[d].lists = Base(d).lists /\ rows[d].tickers = Base(d).tickers
             /\ rows[d].shared <=> (Base(d).shared \/ o)
  <2>1. Base(d) \in WorkRecords
    BY <1>3
  <2>2. rows[d] = [Base(d) EXCEPT !.shared = Base(d).shared \/ o]
    OBVIOUS
  <2> HIDE DEF Base, rows, o
  <2>3. (Base(d).shared \/ o) \in BOOLEAN
    OBVIOUS
  <2>4. ASSUME NEW b \in BOOLEAN, rows[d] = [Base(d) EXCEPT !.shared = b]
        PROVE  /\ rows[d] \in WorkRecords
               /\ rows[d].lists = Base(d).lists /\ rows[d].tickers = Base(d).tickers
               /\ rows[d].shared = b
    BY <2>1, <2>4 DEF WorkRecords
  <2> QED BY <2>2, <2>3, <2>4
<1>5. rows \in [Days -> WorkRecords]
  BY <1>4
<1>6. Base(d0) = row /\ \A d \in Days \ {d0} : Base(d) = worked[T][d]
  OBVIOUS
<1> HIDE DEF Base, rows, o
<1>7. /\ worked' \in [ScanTypes -> [Days -> WorkRecords]]
      /\ \A type \in ScanTypes \ {T} : worked'[type] = worked[type]
      /\ worked'[T] = rows
  BY <1>1, <1>2, <1>5
<1> QED BY <1>4, <1>6, <1>7 DEF Same, o

LEMMA LookUnfinishedEffect ==
  ASSUME Basic, NEW th \in Threads, LookUnfinished(th)
  PROVE  /\ Touches(th) /\ states' = states
         /\ Found(th).status = "IN_PROGRESS"
         /\ \/ Stays(th, "work")
            \/ At(th).fn = "update_all_tail_risks" /\ Stays(th, "reset")
         /\ thread'[th].today = day
         /\ thread'[th].next = ResumeAt(At(th).list, Found(th).last)
         /\ \A d \in Days \ {FoundDay(th)} : Same(th, d)
         /\ \A d \in Days : Overlaps(th) => worked'[At(th).type][d].shared
         /\ FoundDay(th) \in Days =>
              JoinedBy(At(th).list, worked[At(th).type][FoundDay(th)], worked'[At(th).type][FoundDay(th)])
<1> DEFINE T == At(th).type
           d0 == FoundDay(th)
           pc1 == IF At(th).fn = "update_all_tail_risks" /\ ~Has(At(th).list, Found(th).last)
                  THEN "reset" ELSE "work"
           n1 == ResumeAt(At(th).list, Found(th).last)
           t == [thread[th] EXCEPT !.pc = pc1, !.today = day, !.next = n1]
           others == \E list \in worked[T][d0].lists : ~Agree(list, At(th).list)
           row == [worked[T][d0] EXCEPT !.lists = @ \union {At(th).list}, !.shared = @ \/ others]
<1>1. /\ Found(th).status = "IN_PROGRESS" /\ Goes(th, t) /\ states' = states
      /\ WorkedBy(th, d0, row) /\ thread[th].pc = "look"
  BY DEF LookUnfinished, Is, Joins
<1>2. /\ At(th).fn # "other" /\ T \in ScanTypes /\ At(th).list \in Lists
      /\ At(th) = CallOf(thread[th]) /\ Placed(thread[th])
  BY <1>1, OnCall
<1>3. /\ states \in [Types -> [Days -> Rows]] /\ worked \in [ScanTypes -> [Days -> WorkRecords]]
      /\ thread \in [Threads -> ThreadRecords] /\ day \in Days
  BY Types1
<1>4. d0 \in Days => /\ row \in WorkRecords /\ row.lists = worked[T][d0].lists \union {At(th).list}
                      /\ row.tickers = worked[T][d0].tickers
                      /\ (row.shared <=> (worked[T][d0].shared \/ others))
  <2> SUFFICES ASSUME d0 \in Days
               PROVE  /\ row \in WorkRecords /\ row.lists = worked[T][d0].lists \union {At(th).list}
                      /\ row.tickers = worked[T][d0].tickers
                      /\ (row.shared <=> (worked[T][d0].shared \/ others))
    OBVIOUS
  <2>1. worked[T][d0] \in WorkRecords
    BY <1>2, <1>3
  <2> DEFINE w == worked[T][d0]
             ls == w.lists \union {At(th).list}
             b == w.shared \/ others
  <2>2. row = [w EXCEPT !.lists = ls, !.shared = b]
    OBVIOUS
  <2>3. b \in BOOLEAN
    OBVIOUS
  <2>4. ls \in SUBSET Lists
    BY <1>2, <2>1 DEF WorkRecords
  <2> HIDE DEF w, b, ls, row
  <2>5. w \in WorkRecords
    BY <2>1 DEF w
  <2>6. row \in WorkRecords /\ row.lists = ls /\ row.tickers = w.tickers /\ row.shared = b
    BY <2>2, <2>3, <2>4, <2>5 DEF WorkRecords
  <2> QED BY <2>6 DEF w, b, ls
<1>5. n1 \in Nat \ {0} /\ pc1 \in {"reset", "work"}
  BY <1>2, ResumesSomewhere
<1>6. /\ t \in ThreadRecords /\ t.pc = pc1 /\ t.today = day /\ t.next = n1
      /\ t.job = thread[th].job /\ t.list = thread[th].list /\ t.at = thread[th].at
  <2>1. thread[th] \in ThreadRecords /\ pc1 \in PCs
    BY <1>3, <1>5 DEF PCs
  <2> HIDE DEF pc1, n1
  <2> QED BY <1>3, <1>5, <2>1 DEF ThreadRecords
<1>7. pc1 = "reset" => At(th).fn = "update_all_tail_risks" /\ n1 = 1
  BY DEF ResumeAt
<1> HIDE DEF row, t, pc1, n1, d0, others
<1>8. CallOf(t) = At(th)
  BY <1>2, <1>6 DEF CallOf
<1>9. Placed(t)
  <2>1. t.job \in JobNames /\ t.list \in Lists /\ t.at \in 1..Len(Program(t.job, t.list))
    BY <1>1, <1>2, <1>6 DEF Placed
  <2>2. t.pc \in {"reset", "work"} /\ (t.pc = "reset" => CallOf(t).fn = "update_all_tail_risks" /\ t.next = 1)
    BY <1>5, <1>6, <1>7, <1>8
  <2> QED BY <1>6, <2>1, <2>2 DEF Placed
<1>10. AllPlaced' /\ thread'[th] = t /\ \A u \in Threads \ {th} : thread'[u] = thread[u]
  BY <1>1, <1>9, Goes1 DEF Basic
<1> HIDE DEF T
<1>w. /\ worked' \in [ScanTypes -> [Days -> WorkRecords]]
      /\ \A type \in ScanTypes \ {T} : worked'[type] = worked[type]
      /\ \A d \in Days \ {d0} : Same(th, d) /\ (Overlaps(th) => worked'[T][d].shared)
      /\ d0 \in Days => /\ worked'[T][d0].lists = row.lists /\ worked'[T][d0].tickers = row.tickers
                        /\ row.shared \/ Overlaps(th) => worked'[T][d0].shared
  <2>1. d0 \in Days => row \in WorkRecords
    BY <1>4
  <2> QED BY <1>1, <1>2, <2>1, WorkedByEffect DEF T
<1>11. Touches(th)
  BY <1>1, <1>2, <1>3, <1>10, <1>w DEF Touches, T
<1>12. /\ \A d \in Days \ {d0} : Same(th, d)
       /\ \A d \in Days : Overlaps(th) => worked'[T][d].shared
  BY <1>w
<1>13. d0 \in Days => JoinedBy(At(th).list, worked[T][d0], worked'[T][d0])
  BY <1>4, <1>w DEF JoinedBy, others
<1>14. Stays(th, "work") \/ (At(th).fn = "update_all_tail_risks" /\ Stays(th, "reset"))
  BY <1>5, <1>6, <1>7, <1>8, <1>10 DEF Stays
<1> QED BY <1>1, <1>6, <1>10, <1>11, <1>12, <1>13, <1>14 DEF d0, n1, T

\* A thread that goes to another place at its call.
LEMMA ToEffect ==
  ASSUME Basic, NEW th \in Threads, thread[th].pc # "idle",
         NEW pc1 \in {"insert", "work"}, At(th).fn # "other",
         NEW t, t \in ThreadRecords, t.pc = pc1, t.job = thread[th].job,
         t.list = thread[th].list, t.at = thread[th].at,
         pc1 = "insert" => t.next = 1, Goes(th, t)
  PROVE  /\ AllPlaced' /\ Stays(th, pc1) /\ thread'[th] = t
         /\ \A u \in Threads \ {th} : thread'[u] = thread[u]
<1>1. At(th) = CallOf(thread[th]) /\ Placed(thread[th])
  BY OnCall
<1>2. CallOf(t) = At(th)
  BY <1>1 DEF CallOf
<1>3. t.job \in JobNames /\ t.list \in Lists /\ t.at \in 1..Len(Program(t.job, t.list))
  BY <1>1 DEF Placed
<1>4. Placed(t)
  BY <1>2, <1>3 DEF Placed
<1> QED BY <1>2, <1>4, Goes1 DEF Basic, Stays

LEMMA LookNewEffect ==
  ASSUME Basic, NEW th \in Threads, LookNew(th)
  PROVE  /\ Touches(th) /\ states' = states
         /\ Found(th).status = "none" /\ thread[th].pc = "look"
         /\ Stays(th, "insert")
         /\ \A d \in Days :
              /\ Same(th, d)
              /\ Overlaps(th) => worked'[At(th).type][d].shared
<1> DEFINE t == [thread[th] EXCEPT !.pc = "insert", !.today = day]
<1>1. /\ Found(th).status = "none" /\ Goes(th, t) /\ states' = states
      /\ WorkedBy(th, 0, Unworked) /\ thread[th].pc = "look"
  BY DEF LookNew, Is
<1>2. /\ At(th).fn # "other" /\ At(th).type \in ScanTypes /\ At(th).list \in Lists
      /\ At(th) = CallOf(thread[th]) /\ Placed(thread[th])
  BY <1>1, OnCall
<1>3. /\ t \in ThreadRecords /\ t.pc = "insert" /\ t.next = 1
      /\ t.job = thread[th].job /\ t.list = thread[th].list /\ t.at = thread[th].at
  BY <1>1, <1>2, Types1 DEF ThreadRecords, PCs, Placed
<1> HIDE DEF t
<1>4. /\ AllPlaced' /\ Stays(th, "insert")
      /\ \A u \in Threads \ {th} : thread'[u] = thread[u]
  BY <1>1, <1>2, <1>3, ToEffect
<1>5. 0 \notin Days
  BY ScansAssumption DEF Days
<1>6. /\ worked' \in [ScanTypes -> [Days -> WorkRecords]]
      /\ \A type \in ScanTypes \ {At(th).type} : worked'[type] = worked[type]
      /\ \A d \in Days : Same(th, d) /\ (Overlaps(th) => worked'[At(th).type][d].shared)
  BY <1>1, <1>2, <1>5, WorkedByEffect
<1>7. Touches(th)
  BY <1>1, <1>2, <1>4, <1>6, Types1 DEF Touches
<1> QED BY <1>1, <1>4, <1>6, <1>7

LEMMA InsertRowEffect ==
  ASSUME Basic, NEW th \in Threads, InsertRow(th)
  PROVE  LET T == At(th).type today == thread[th].today
         IN  /\ Touches(th) /\ Stays(th, "work")
             /\ thread[th].pc = "insert" /\ today \in Days /\ states[T][today].status = "none"
             /\ thread'[th].today = today /\ thread'[th].next = 1
             /\ states'[T][today] = Fresh
             /\ worked'[T][today].lists = {At(th).list}
             /\ worked[T][today].shared => worked'[T][today].shared
             /\ \A d \in Days \ {today} : states'[T][d] = states[T][d] /\ Same(th, d)
             /\ \A d \in Days : Overlaps(th) => worked'[T][d].shared
<1> DEFINE T == At(th).type
           today == thread[th].today
           row == [worked[T][today] EXCEPT !.lists = {At(th).list}, !.tickers = {}]
           t == To(th, "work")
<1>1. /\ thread[th].pc = "insert" /\ states[T][today].status = "none"
      /\ states' = [states EXCEPT ![T][today] = Fresh]
      /\ WorkedBy(th, today, row) /\ Goes(th, t)
  BY DEF InsertRow, Is
<1>2. /\ At(th).fn # "other" /\ T \in ScanTypes /\ At(th).list \in Lists
      /\ At(th) = CallOf(thread[th]) /\ Placed(thread[th])
  BY <1>1, OnCall
<1>3. /\ t \in ThreadRecords /\ t.pc = "work" /\ t.next = 1 /\ t.today = today
      /\ t.job = thread[th].job /\ t.list = thread[th].list /\ t.at = thread[th].at
      /\ today \in Days
  BY <1>1, <1>2, Types1 DEF ThreadRecords, PCs, Placed, To
<1>4. worked[T][today] \in WorkRecords
  BY <1>2, <1>3, Types1
<1>5. row \in WorkRecords /\ row.lists = {At(th).list} /\ row.shared = worked[T][today].shared
  BY <1>2, <1>4 DEF WorkRecords
<1> HIDE DEF row, t
<1>6. /\ AllPlaced' /\ Stays(th, "work") /\ thread'[th] = t
      /\ \A u \in Threads \ {th} : thread'[u] = thread[u]
  BY <1>1, <1>2, <1>3, ToEffect
<1>7. /\ worked' \in [ScanTypes -> [Days -> WorkRecords]]
      /\ \A type \in ScanTypes \ {T} : worked'[type] = worked[type]
      /\ \A d \in Days \ {today} : Same(th, d) /\ (Overlaps(th) => worked'[T][d].shared)
      /\ worked'[T][today].lists = row.lists
      /\ row.shared \/ Overlaps(th) => worked'[T][today].shared
  BY <1>1, <1>2, <1>3, <1>5, WorkedByEffect
<1>8. /\ states' \in [Types -> [Days -> Rows]] /\ states'[T][today] = Fresh
      /\ \A type \in Types \ {T} : states'[type] = states[type]
      /\ \A d \in Days \ {today} : states'[T][d] = states[T][d]
  <2>1. Fresh \in Rows /\ T \in Types
    BY <1>2, Types1 DEF Fresh, Rows
  <2> HIDE DEF T, today
  <2> QED BY <1>1, <1>3, <2>1, Types1
<1>9. Touches(th)
  BY <1>2, <1>6, <1>7, <1>8 DEF Touches
<1>10. \A d \in Days : Overlaps(th) => worked'[T][d].shared
  BY <1>7
<1> HIDE DEF T, today
<1> QED BY <1>1, <1>3, <1>5, <1>6, <1>7, <1>8, <1>9, <1>10 DEF T, today

LEMMA ResetRowEffect ==
  ASSUME Basic, NEW th \in Threads, ResetRow(th)
  PROVE  LET T == At(th).type today == thread[th].today
         IN  /\ Touches(th) /\ Stays(th, "work") /\ worked' = worked
             /\ thread[th].pc = "reset" /\ At(th).fn = "update_all_tail_risks" /\ today \in Days
             /\ thread'[th].today = today /\ thread'[th].next = 1
             /\ states'[T][today] = Fresh
             /\ \A d \in Days \ {today} : states'[T][d] = states[T][d]
<1> DEFINE T == At(th).type
           today == thread[th].today
           t == To(th, "work")
<1>1. /\ thread[th].pc = "reset" /\ worked' = worked
      /\ states' = [states EXCEPT ![T][today] = Fresh] /\ Goes(th, t)
  BY DEF ResetRow, Is
<1>2. /\ At(th).fn # "other" /\ T \in ScanTypes /\ At(th).list \in Lists
      /\ At(th) = CallOf(thread[th]) /\ Placed(thread[th])
  BY <1>1, OnCall
<1>3. /\ t \in ThreadRecords /\ t.pc = "work" /\ t.next = 1 /\ t.today = today
      /\ t.job = thread[th].job /\ t.list = thread[th].list /\ t.at = thread[th].at
      /\ today \in Days /\ At(th).fn = "update_all_tail_risks"
  BY <1>1, <1>2, Types1 DEF ThreadRecords, PCs, Placed, To
<1> HIDE DEF t
<1>4. /\ AllPlaced' /\ Stays(th, "work") /\ thread'[th] = t
      /\ \A u \in Threads \ {th} : thread'[u] = thread[u]
  BY <1>1, <1>2, <1>3, ToEffect
<1>5. /\ states' \in [Types -> [Days -> Rows]] /\ states'[T][today] = Fresh
      /\ \A type \in Types \ {T} : states'[type] = states[type]
      /\ \A d \in Days \ {today} : states'[T][d] = states[T][d]
  <2>1. Fresh \in Rows /\ T \in Types
    BY <1>2, Types1 DEF Fresh, Rows
  <2> HIDE DEF T, today
  <2> QED BY <1>1, <1>3, <2>1, Types1
<1>6. Touches(th)
  BY <1>1, <1>2, <1>4, <1>5, Types1 DEF Touches
<1> HIDE DEF T, today
<1> QED BY <1>1, <1>3, <1>4, <1>5, <1>6 DEF T, today

LEMMA ProcessEffect ==
  ASSUME Basic, NEW th \in Threads, NEW stored \in BOOLEAN, Process(th, stored),
         \A d \in Days : d \in Written(th) => states[At(th).type][d].status # "none"
  PROVE  LET T == At(th).type
             next == thread[th].next
             ticker == At(th).list[next]
         IN  /\ Touches(th) /\ Stays(th, "work") /\ thread[th].pc = "work"
             /\ next \in DOMAIN At(th).list
             /\ thread'[th].today = thread[th].today /\ thread'[th].next = next + 1
             /\ \A d \in Days :
                  /\ \/ states'[T][d] = states[T][d]
                     \/ d \in Written(th) /\ states'[T][d] = [states[T][d] EXCEPT !.last = ticker]
                  /\ worked'[T][d].lists = worked[T][d].lists
                  /\ worked'[T][d].shared = worked[T][d].shared
                  /\ worked[T][d].tickers \subseteq worked'[T][d].tickers
                  /\ d \in Written(th) => worked'[T][d].tickers = worked[T][d].tickers \union {ticker}
<1> DEFINE T == At(th).type
           next == thread[th].next
           ticker == At(th).list[next]
           t == [thread[th] EXCEPT !.next = @ + 1]
           W == Written(th)
           rows == [d \in Days |-> IF stored /\ d \in W THEN [states[T][d] EXCEPT !.last = ticker] ELSE states[T][d]]
           works == [d \in Days |-> IF d \in W \union {thread[th].today}
                                    THEN [worked[T][d] EXCEPT !.tickers = @ \union {ticker}] ELSE worked[T][d]]
<1>1. /\ thread[th].pc = "work" /\ At(th).fn # "other" /\ next \in DOMAIN At(th).list
      /\ states' = [states EXCEPT ![T] = rows] /\ worked' = [worked EXCEPT ![T] = works]
      /\ Goes(th, t)
  BY DEF Process, Is
<1>2. /\ T \in ScanTypes /\ At(th).list \in Lists
      /\ At(th) = CallOf(thread[th]) /\ Placed(thread[th])
  BY <1>1, OnCall
<1>3. /\ t \in ThreadRecords /\ t.pc = "work" /\ t.next = next + 1 /\ t.today = thread[th].today
      /\ t.job = thread[th].job /\ t.list = thread[th].list /\ t.at = thread[th].at
  <2>1. thread[th] \in ThreadRecords /\ next \in Nat \ {0}
    BY <1>2 DEF Placed, ThreadRecords
  <2>2. next + 1 \in Nat \ {0}
    BY <2>1
  <2> QED BY <1>1, <2>1, <2>2 DEF ThreadRecords
<1>4. ticker \in Tickers
  BY <1>1, <1>2, ListFacts
<1>5. /\ states[T] \in [Days -> Rows] /\ worked[T] \in [Days -> WorkRecords] /\ T \in Types
  BY <1>2, Types1
<1> HIDE DEF t, T, ticker, W
<1>6. /\ AllPlaced' /\ Stays(th, "work") /\ thread'[th] = t
      /\ \A u \in Threads \ {th} : thread'[u] = thread[u]
  BY <1>1, <1>2, <1>3, ToEffect
<1>7. ASSUME NEW d \in Days
      PROVE  /\ rows[d] \in Rows
             /\ \/ rows[d] = states[T][d]
                \/ d \in W /\ rows[d] = [states[T][d] EXCEPT !.last = ticker]
  <2>1. states[T][d] \in Rows
    BY <1>5
  <2>2. d \in W => states[T][d].status # "none"
    BY DEF W, T
  <2>3. d \in W => [states[T][d] EXCEPT !.last = ticker] \in Rows
    BY <1>4, <2>1, <2>2 DEF Rows, None
  <2> QED BY <2>1, <2>3
<1>8. ASSUME NEW d \in Days
      PROVE  /\ works[d] \in WorkRecords
             /\ works[d].lists = worked[T][d].lists /\ works[d].shared = worked[T][d].shared
             /\ worked[T][d].tickers \subseteq works[d].tickers
             /\ d \in W => works[d].tickers = worked[T][d].tickers \union {ticker}
  <2>1. worked[T][d] \in WorkRecords
    BY <1>5
  <2> QED BY <1>4, <2>1 DEF WorkRecords
<1>9. rows \in [Days -> Rows] /\ works \in [Days -> WorkRecords]
  BY <1>7, <1>8
<1> HIDE DEF rows, works
<1>10. /\ states' \in [Types -> [Days -> Rows]] /\ worked' \in [ScanTypes -> [Days -> WorkRecords]]
       /\ states'[T] = rows /\ worked'[T] = works
       /\ \A type \in Types \ {T} : states'[type] = states[type]
       /\ \A type \in ScanTypes \ {T} : worked'[type] = worked[type]
  BY <1>1, <1>2, <1>5, <1>9, Types1 DEF T
<1>11. Touches(th)
  BY <1>1, <1>2, <1>6, <1>10 DEF Touches, T
<1> HIDE DEF next
<1> QED BY <1>1, <1>3, <1>6, <1>7, <1>8, <1>10, <1>11 DEF T, next, ticker, W

LEMMA CompleteEffect ==
  ASSUME Basic, NEW th \in Threads, Complete(th)
  PROVE  LET T == At(th).type
         IN  /\ Touches(th) /\ Resting(thread'[th])
             /\ thread[th].pc = "work" /\ thread[th].next > Len(At(th).list)
             /\ worked' = worked
             /\ \A d \in Days : states'[T][d] = IF d \in Written(th) THEN [states[T][d] EXCEPT !.status = "COMPLETED"]
                                                ELSE states[T][d]
<1> DEFINE T == At(th).type
           W == Written(th)
           rows == [d \in Days |-> IF d \in W THEN [states[T][d] EXCEPT !.status = "COMPLETED"] ELSE states[T][d]]
<1>1. /\ thread[th].pc = "work" /\ At(th).fn # "other" /\ thread[th].next > Len(At(th).list)
      /\ states' = [states EXCEPT ![T] = rows] /\ worked' = worked
      /\ Goes(th, Returns(th))
  BY DEF Complete, Is, AtEnd
<1>2. /\ T \in ScanTypes /\ At(th).list \in Lists
      /\ At(th) = CallOf(thread[th]) /\ Placed(thread[th])
  BY <1>1, OnCall
<1>3. Resting(Returns(th))
  BY <1>1, <1>2, CallsEnd, EndsRest, DayOne DEF Basic
<1>4. /\ AllPlaced' /\ Resting(thread'[th])
      /\ \A u \in Threads \ {th} : thread'[u] = thread[u]
  BY <1>1, <1>3, Goes1 DEF Basic, Resting
<1>5. /\ states[T] \in [Days -> Rows] /\ worked \in [ScanTypes -> [Days -> WorkRecords]] /\ T \in Types
  BY <1>2, Types1
<1> HIDE DEF T, W
<1>6. ASSUME NEW d \in Days PROVE rows[d] \in Rows
  <2>1. states[T][d] \in Rows
    BY <1>5
  <2>2. [states[T][d] EXCEPT !.status = "COMPLETED"] \in Rows
    BY <2>1 DEF Rows, None
  <2> QED BY <2>1, <2>2
<1>7. rows \in [Days -> Rows]
  BY <1>6
<1>8. \A d \in Days : rows[d] = IF d \in W THEN [states[T][d] EXCEPT !.status = "COMPLETED"] ELSE states[T][d]
  OBVIOUS
<1> HIDE DEF rows
<1>9. /\ states' \in [Types -> [Days -> Rows]] /\ states'[T] = rows
      /\ \A type \in Types \ {T} : states'[type] = states[type]
  BY <1>1, <1>2, <1>5, <1>7, Types1 DEF T
<1>10. Touches(th)
  BY <1>1, <1>2, <1>4, <1>5, <1>9 DEF Touches, T
<1> QED BY <1>1, <1>4, <1>8, <1>9, <1>10 DEF T, W

-----------------------------------------------------------------------------
(* Restarts, days, and what else is quiet *)

LEMMA ResumeIsQuiet ==
  ASSUME Basic, Resume
  PROVE  /\ UNCHANGED <<states, worked>> /\ AllPlaced'
         /\ \A th \in Threads : \/ thread'[th] = thread[th]
                                \/ Resting(thread'[th])
<1>0. 1 \in Days /\ day \in Days /\ AllPlaced
  BY DayOne DEF Basic
<1>1. PICK lists \in Collections :
        thread' = [th \in Threads |-> IF th \in Resumable /\ Interrupted(th) THEN Run(th, lists[th]) ELSE thread[th]]
  BY DEF Resume
<1> DEFINE t(th) == [Idle EXCEPT !.job = th, !.list = lists[th], !.started = day]
<1>2. ASSUME NEW th \in Resumable
      PROVE  Resting(Run(th, lists[th]))
  <2>1. th \in Threads /\ th \in JobNames /\ th \in Jobs /\ lists[th] \in Lists
    BY JobsKnown DEF Threads, JobNames, Collections
  <2>2. Idle \in ThreadRecords
    BY <1>0, <2>1, IdleRests DEF Resting, Placed
  <2>3. /\ t(th) \in ThreadRecords /\ t(th).job = th /\ t(th).list = lists[th]
        /\ Run(th, lists[th]) = EnterCall(t(th), 1)
    BY <1>0, <2>1, <2>2 DEF ThreadRecords, Run
  <2>4. 1 \in Nat \ {0}
    OBVIOUS
  <2> HIDE DEF t
  <2> QED BY <1>0, <2>1, <2>3, <2>4, Entered
<1>3. \A th \in Threads : \/ thread'[th] = thread[th]
                          \/ Resting(thread'[th])
  BY <1>1, <1>2
<1>4. \A th \in Threads : Placed(thread'[th])
  BY <1>0, <1>3 DEF Resting, AllPlaced
<1>5. thread' \in [Threads -> ThreadRecords]
  <2>1. \A th \in Threads : thread'[th] \in ThreadRecords
    BY <1>4 DEF Placed
  <2> QED BY <1>1, <2>1
<1> QED BY <1>3, <1>4, <1>5 DEF AllPlaced, Resume

\* A step works on a row, or is quiet.
RowStep(th) ==
  \/ LookUnfinished(th) \/ LookNew(th) \/ InsertRow(th) \/ ResetRow(th)
  \/ \E stored \in BOOLEAN : Process(th, stored)
  \/ Complete(th)

LEMMA StepKinds ==
  ASSUME Basic, [Next]_vars
  PROVE  Quiet \/ \E th \in Threads : RowStep(th)
<1>0. AllPlaced /\ TypeOK /\ thread \in [Threads -> ThreadRecords] /\ states \in [Types -> [Days -> Rows]]
  BY DEF Basic, AllPlaced, TypeOK
<1>1. ASSUME NEW th \in Threads,
             \/ Gate(th) \/ Mark(th) \/ DoOther(th) \/ LookDone(th) \/ InsertFails(th) \/ Fail(th)
             \/ \E job \in scope.jobs : Start(th, job)
      PROVE  Quiet
  <2>1. /\ GoesToRest(th) /\ worked' = worked /\ states' \in [Types -> [Days -> Rows]]
        /\ \A type \in ScanTypes : states'[type] = states[type]
    BY <1>1, RestSteps
  <2>2. PICK t : Resting(t) /\ Goes(th, t)
    BY <2>1 DEF GoesToRest
  <2>3. AllPlaced' /\ thread'[th] = t /\ \A u \in Threads \ {th} : thread'[u] = thread[u]
    BY <1>0, <2>2, Goes1 DEF Resting
  <2> QED BY <2>1, <2>2, <2>3 DEF Quiet, AllPlaced
<1>2. ASSUME Midnight \/ Restart \/ UNCHANGED vars PROVE Quiet
  BY <1>0, <1>2 DEF Midnight, Restart, vars, Quiet
<1>3. ASSUME Crash PROVE Quiet
  <2>1. /\ UNCHANGED <<states, worked>> /\ thread' = [th \in Threads |-> Idle]
    BY <1>3 DEF Crash
  <2>2. \A th \in Threads : Resting(Idle)
    BY <1>0, IdleRests, DayOne
  <2>3. \A th \in Threads : Idle \in ThreadRecords
    BY <2>2 DEF Resting, Placed
  <2> QED BY <1>0, <2>1, <2>2, <2>3 DEF Quiet
<1>4. ASSUME Resume PROVE Quiet
  BY <1>0, <1>4, ResumeIsQuiet DEF Quiet, AllPlaced
<1>5. ASSUME NEW th \in Threads, Step(th) PROVE Quiet \/ RowStep(th)
  BY <1>1, <1>5 DEF Step, RowStep
<1> QED BY <1>1, <1>2, <1>3, <1>4, <1>5 DEF Next

LEMMA QuietPlaced ==
  ASSUME Basic, Quiet
  PROVE  AllPlaced'
<1>1. ASSUME NEW th \in Threads PROVE Placed(thread'[th])
  BY DEF Basic, Quiet, AllPlaced, Resting
<1>2. thread' \in [Threads -> ThreadRecords]
  BY DEF Quiet
<1> QED BY <1>1, <1>2 DEF AllPlaced, ThreadRecords, Placed, CallOf

\* The bounds keep, whatever the step.
LEMMA WorldTyped ==
  ASSUME TypeOK, [Next]_vars
  PROVE  /\ scope' \in Scopes /\ day' \in Days /\ up' \in {"down", "starting", "up"}
         /\ spent' \in [starts : 0..scope'.starts, crashes : 0..scope'.crashes, failures : 0..scope'.failures]
<1>0. /\ scope \in Scopes /\ day \in Days /\ up \in {"down", "starting", "up"}
      /\ spent \in [starts : 0..scope.starts, crashes : 0..scope.crashes, failures : 0..scope.failures]
      /\ scope.starts \in Nat /\ scope.crashes \in Nat /\ scope.failures \in Nat /\ scope.days \in Days
  BY ScansAssumption DEF TypeOK
<1>i. \A m, n \in Nat : m < n => m + 1 \in 0..n
  OBVIOUS
<1>1. ASSUME NEW th \in Threads, Step(th) PROVE UNCHANGED World
  BY <1>1 DEF World, Step, Gate, Mark, DoOther, LookDone, LookUnfinished, LookNew, InsertRow,
              InsertFails, ResetRow, Process, Complete
<1>2. ASSUME NEW th \in Threads, Fail(th)
      PROVE  /\ UNCHANGED <<scope, day, up>>
             /\ spent' \in [starts : 0..scope.starts, crashes : 0..scope.crashes, failures : 0..scope.failures]
  <2>1. /\ UNCHANGED <<scope, day, up>> /\ spent.failures < scope.failures
        /\ spent' = [spent EXCEPT !.failures = spent.failures + 1]
    BY <1>2 DEF Fail
  <2>2. spent.failures + 1 \in 0..scope.failures
    BY <1>0, <1>i, <2>1
  <2> QED BY <1>0, <2>1, <2>2
<1>3. ASSUME NEW th \in Threads, NEW job \in scope.jobs, Start(th, job)
      PROVE  /\ UNCHANGED <<scope, day, up>>
             /\ spent' \in [starts : 0..scope.starts, crashes : 0..scope.crashes, failures : 0..scope.failures]
  <2>1. /\ UNCHANGED <<scope, day, up>> /\ spent.starts < scope.starts
        /\ spent' = [spent EXCEPT !.starts = spent.starts + 1]
    BY <1>3 DEF Start
  <2>2. spent.starts + 1 \in 0..scope.starts
    BY <1>0, <1>i, <2>1
  <2> QED BY <1>0, <2>1, <2>2
<1>4. ASSUME Crash
      PROVE  /\ UNCHANGED <<scope, day>> /\ up' = "down"
             /\ spent' \in [starts : 0..scope.starts, crashes : 0..scope.crashes, failures : 0..scope.failures]
  <2>1. /\ UNCHANGED <<scope, day>> /\ up' = "down" /\ spent.crashes < scope.crashes
        /\ spent' = [spent EXCEPT !.crashes = spent.crashes + 1]
    BY <1>4 DEF Crash
  <2>2. spent.crashes + 1 \in 0..scope.crashes
    BY <1>0, <1>i, <2>1
  <2> QED BY <1>0, <2>1, <2>2
<1>5. ASSUME Midnight PROVE UNCHANGED <<scope, up, spent>> /\ day' \in Days
  <2>1. UNCHANGED <<scope, up, spent>> /\ day < scope.days /\ day' = day + 1
    BY <1>5 DEF Midnight
  <2>2. day + 1 \in 1..MaxDay
    BY <1>0, <2>1, ScansAssumption DEF Days
  <2> QED BY <2>1, <2>2 DEF Days
<1>6. ASSUME Restart \/ Resume PROVE UNCHANGED <<scope, day, spent>> /\ up' \in {"starting", "up"}
  BY <1>6 DEF Restart, Resume
<1>7. ASSUME UNCHANGED vars PROVE UNCHANGED World
  BY <1>7 DEF vars, World
<1> QED BY <1>0, <1>1, <1>2, <1>3, <1>4, <1>5, <1>6, <1>7 DEF Next, World

-----------------------------------------------------------------------------
(* The inductive invariant *)

RowsHonest == \A type \in ScanTypes, d \in Days : Honest(states[type][d], worked[type][d])

\* A scan or tail risks at work on the row of its day.
Scans(t) ==
  t.pc \in {"reset", "work"} /\ CallOf(t).fn \notin {"other", "run_historical_backfill"}

JoinedAt(t, table, work) ==
  Joined(table[CallOf(t).type][t.today], work[CallOf(t).type][t.today], CallOf(t), t.next)

ScansJoined == \A th \in Threads : Scans(thread[th]) => JoinedAt(thread[th], states, worked)

\* A backfill that is about to insert its row, or works on all unfinished ones.
Fills(t) == t.pc \in {"insert", "work"} /\ CallOf(t).fn = "run_historical_backfill"

\* Where two backfills never met there is one at a time, and one unfinished row.
FillsAlone(d) ==
  ~worked["ml_backfill"][d].shared =>
    /\ \A s, t \in Threads : Fills(thread[s]) /\ Fills(thread[t]) => s = t
    /\ \A e, f \in Unfinished : e = f
    /\ \A th \in Threads : Fills(thread[th]) /\ thread[th].pc = "insert" => Unfinished = {}
    /\ \A th \in Threads : Fills(thread[th]) /\ thread[th].pc = "work" /\ d \in Unfinished =>
         Joined(states["ml_backfill"][d], worked["ml_backfill"][d], CallOf(thread[th]), thread[th].next)

Backfills == \A d \in Days : FillsAlone(d)

Inv == Basic /\ RowsHonest /\ ScansJoined /\ Backfills

\* A row may only gain from the step.
Gains(type, d) ==
  states[type][d].status # "none" =>
    /\ states'[type][d].status # "none"
    /\ worked[type][d].tickers \subseteq worked'[type][d].tickers
    /\ worked[type][d].shared => worked'[type][d].shared
    /\ worked[type][d].lists \subseteq worked'[type][d].lists

LEMMA ScanRow ==
  ASSUME Basic, NEW th \in Threads, Scans(thread[th])
  PROVE  /\ CallOf(thread[th]).type \in ScanTypes \ {"ml_backfill"}
         /\ CallOf(thread[th]).list \in Lists
         /\ thread[th].today \in Days /\ thread[th].next \in Nat \ {0}
         /\ At(th) = CallOf(thread[th])
<1>1. thread[th].pc # "idle" /\ AllPlaced
  BY DEF Scans, Basic
<1>2. Proper(CallOf(thread[th])) /\ At(th) = CallOf(thread[th])
  BY <1>1, Active
<1>3. thread[th] \in ThreadRecords
  BY <1>1 DEF AllPlaced
<1> QED BY <1>2, <1>3 DEF Scans, Proper, ThreadRecords

\* A scan that stands by while rows only gain keeps its row.
LEMMA StandsBy ==
  ASSUME Basic, ScansJoined, NEW th \in Threads, Scans(thread[th]), thread'[th] = thread[th],
         \A type \in ScanTypes \ {"ml_backfill"}, d \in Days : Gains(type, d)
  PROVE  JoinedAt(thread'[th], states', worked')
<1> DEFINE c == CallOf(thread[th])
           d == thread[th].today
<1>1. c.type \in ScanTypes \ {"ml_backfill"} /\ d \in Days
  BY ScanRow
<1>2. Joined(states[c.type][d], worked[c.type][d], c, thread[th].next)
  BY DEF ScansJoined, JoinedAt
<1>3. Gains(c.type, d)
  BY <1>1
<1> HIDE DEF c, d
<1>4. Joined(states'[c.type][d], worked'[c.type][d], c, thread[th].next)
  <2>1. /\ states'[c.type][d].status # "none"
        /\ worked[c.type][d].tickers \subseteq worked'[c.type][d].tickers
        /\ worked[c.type][d].shared => worked'[c.type][d].shared
        /\ worked[c.type][d].lists \subseteq worked'[c.type][d].lists
    BY <1>2, <1>3 DEF Gains, Joined
  <2> QED BY <1>2, <2>1, JoinedGrows
<1> QED BY <1>4 DEF JoinedAt, c, d

\* Nothing changes for the backfills in a step that has nothing to do with them.
LEMMA FillsStandBy ==
  ASSUME Backfills,
         states'["ml_backfill"] = states["ml_backfill"], worked'["ml_backfill"] = worked["ml_backfill"],
         \A th \in Threads : Fills(thread'[th]) => thread'[th] = thread[th]
  PROVE  Backfills'
<1>1. Unfinished' = Unfinished
  BY DEF Unfinished, InProgress
<1>2. ASSUME NEW d \in Days PROVE FillsAlone(d)'
  BY <1>1 DEF Backfills, FillsAlone
<1> QED BY <1>2 DEF Backfills

LEMMA QuietKeeps ==
  ASSUME Inv, Quiet
  PROVE  RowsHonest' /\ ScansJoined' /\ Backfills'
<1>1. /\ \A type \in ScanTypes : states'[type] = states[type] /\ worked'[type] = worked[type]
      /\ \A th \in Threads : thread'[th] = thread[th] \/ Resting(thread'[th])
  BY DEF Quiet
<1>2. RowsHonest'
  BY <1>1 DEF RowsHonest, Inv
<1>3. \A th \in Threads : Scans(thread'[th]) \/ Fills(thread'[th]) => thread'[th] = thread[th]
  BY <1>1 DEF Scans, Fills, Resting, Busy
<1>4. ScansJoined'
  <2>1. \A type \in ScanTypes \ {"ml_backfill"}, d \in Days : Gains(type, d)
    BY <1>1 DEF Gains
  <2> QED BY <1>3, <2>1, StandsBy DEF ScansJoined, Inv
<1>5. Backfills'
  BY <1>1, <1>3, FillsStandBy DEF Inv, ScanTypes
<1> QED BY <1>2, <1>4, <1>5

-----------------------------------------------------------------------------
(* The row steps of the scans and the tail risks *)

\* What a step of a scan has to show: its own rows, and its own place.
LEMMA ScanSteps ==
  ASSUME Inv, NEW th \in Threads, Touches(th), At(th).type # "ml_backfill",
         At(th).fn # "run_historical_backfill",
         \A d \in Days : Honest(states'[At(th).type][d], worked'[At(th).type][d]),
         \A d \in Days : Gains(At(th).type, d),
         \/ CallOf(thread'[th]) = At(th)
         \/ Resting(thread'[th]),
         Scans(thread'[th]) => JoinedAt(thread'[th], states', worked')
  PROVE  RowsHonest' /\ ScansJoined' /\ Backfills'
<1> DEFINE T == At(th).type
<1>1. /\ T \in ScanTypes /\ Basic
      /\ \A type \in ScanTypes \ {T} : states'[type] = states[type] /\ worked'[type] = worked[type]
      /\ \A u \in Threads \ {th} : thread'[u] = thread[u]
  BY Types1 DEF Touches, Inv
<1>2. RowsHonest'
  BY <1>1 DEF RowsHonest, Inv
<1>3. \A type \in ScanTypes \ {"ml_backfill"}, d \in Days : Gains(type, d)
  BY <1>1 DEF Gains
<1>4. ScansJoined'
  <2>1. ASSUME NEW u \in Threads \ {th}, Scans(thread'[u])
        PROVE  JoinedAt(thread'[u], states', worked')
    BY <1>1, <1>3, <2>1, StandsBy DEF Inv
  <2> QED BY <2>1 DEF ScansJoined
<1>5. ~Fills(thread'[th])
  BY DEF Fills, Resting, Busy
<1>6. Backfills'
  BY <1>1, <1>5, FillsStandBy DEF Inv, ScanTypes
<1> QED BY <1>2, <1>4, <1>6

\* The call of a scan: its type is not that of the backfill, and it works on the
\* row of one day.
LEMMA ScanCall ==
  ASSUME Basic, NEW th \in Threads, At(th).fn # "run_historical_backfill", At(th).fn # "other",
         thread[th].pc # "idle"
  PROVE  /\ At(th).type \in ScanTypes \ {"ml_backfill"}
         /\ FoundDay(th) = day /\ Found(th) = states[At(th).type][day]
         /\ ~Overlaps(th)
         /\ Written(th) = {thread[th].today}
<1>1. At(th).type \in ScanTypes \ {"ml_backfill"}
  BY OnCall
<1>2. FoundDay(th) = day
  BY DEF FoundDay
<1>3. day # 0
  BY DayOne, ScansAssumption DEF Basic, Days
<1> QED BY <1>1, <1>2, <1>3 DEF Found, Overlaps, Written

LEMMA ScanLooks ==
  ASSUME Inv, NEW th \in Threads, LookUnfinished(th), At(th).fn # "run_historical_backfill"
  PROVE  RowsHonest' /\ ScansJoined' /\ Backfills'
<1> DEFINE T == At(th).type
<1>0. Basic /\ RowsHonest
  BY DEF Inv
<1>1. thread[th].pc = "look"
  BY DEF LookUnfinished, Is
<1>2. At(th).fn # "other" /\ At(th).list \in Lists
  BY <1>0, <1>1, OnCall
<1>3. /\ T \in ScanTypes \ {"ml_backfill"} /\ FoundDay(th) = day
      /\ Found(th) = states[T][day] /\ day \in Days
  BY <1>0, <1>1, <1>2, ScanCall, Types1
<1>4. /\ Touches(th) /\ states' = states
      /\ Found(th).status = "IN_PROGRESS"
      /\ CallOf(thread'[th]) = At(th)
      /\ thread'[th].today = day
      /\ thread'[th].next = ResumeAt(At(th).list, Found(th).last)
      /\ \A d \in Days \ {day} : Same(th, d)
      /\ JoinedBy(At(th).list, worked[T][day], worked'[T][day])
  BY <1>0, <1>3, LookUnfinishedEffect DEF Stays
<1>5. \A d \in Days : Honest(states[T][d], worked[T][d])
  BY <1>0, <1>3 DEF RowsHonest
<1>6. \A d \in Days : Gains(T, d)
  BY <1>4 DEF Gains, Same, JoinedBy
<1> HIDE DEF T
<1>7. /\ \A d \in Days : Honest(states'[T][d], worked'[T][d])
      /\ Joined(states[T][day], worked'[T][day], At(th), ResumeAt(At(th).list, states[T][day].last))
  <2>1. Honest(states[T][day], worked'[T][day])
    BY <1>2, <1>3, <1>4, <1>5, JoinedHonestly
  <2>2. ASSUME NEW d \in Days \ {day} PROVE Honest(states[T][d], worked'[T][d])
    BY <1>4, <1>5, HonestStays DEF Same, T
  <2>3. Joined(states[T][day], worked'[T][day], At(th), ResumeAt(At(th).list, states[T][day].last))
    BY <1>2, <1>3, <1>4, <1>5, JoinsAfterLast
  <2> QED BY <1>4, <2>1, <2>2, <2>3
<1>8. JoinedAt(thread'[th], states', worked')
  BY <1>3, <1>4, <1>7 DEF JoinedAt, T
<1> QED BY <1>3, <1>4, <1>6, <1>7, <1>8, ScanSteps DEF T

LEMMA ScanLooksNew ==
  ASSUME Inv, NEW th \in Threads, LookNew(th), At(th).fn # "run_historical_backfill"
  PROVE  RowsHonest' /\ ScansJoined' /\ Backfills'
<1> DEFINE T == At(th).type
<1>0. Basic /\ RowsHonest
  BY DEF Inv
<1>1. /\ Touches(th) /\ states' = states /\ thread[th].pc = "look"
      /\ CallOf(thread'[th]) = At(th) /\ thread'[th].pc = "insert"
      /\ \A d \in Days : Same(th, d)
  BY <1>0, LookNewEffect DEF Stays
<1>2. T \in ScanTypes \ {"ml_backfill"}
  BY <1>0, <1>1, OnCall
<1>3. \A d \in Days : Honest(states'[T][d], worked'[T][d])
  BY <1>0, <1>1, <1>2, HonestStays DEF RowsHonest, Same
<1>4. \A d \in Days : Gains(T, d)
  BY <1>1 DEF Gains, Same
<1> QED BY <1>1, <1>2, <1>3, <1>4, ScanSteps DEF Scans

LEMMA ScanInserts ==
  ASSUME Inv, NEW th \in Threads, InsertRow(th), At(th).fn # "run_historical_backfill"
  PROVE  RowsHonest' /\ ScansJoined' /\ Backfills'
<1> DEFINE T == At(th).type
           today == thread[th].today
<1>0. Basic /\ RowsHonest
  BY DEF Inv
<1>1. /\ Touches(th) /\ CallOf(thread'[th]) = At(th)
      /\ thread[th].pc = "insert" /\ today \in Days /\ states[T][today].status = "none"
      /\ thread'[th].today = today /\ thread'[th].next = 1
      /\ states'[T][today] = Fresh
      /\ worked'[T][today].lists = {At(th).list}
      /\ \A d \in Days \ {today} : states'[T][d] = states[T][d] /\ Same(th, d)
  BY <1>0, InsertRowEffect DEF Stays
<1>2. T \in ScanTypes \ {"ml_backfill"} /\ At(th).list \in Lists
  BY <1>0, <1>1, OnCall
<1>3. \A d \in Days : Honest(states'[T][d], worked'[T][d])
  <2>1. Honest(states'[T][today], worked'[T][today])
    BY <1>1, <1>2, InsertedHonestly
  <2>2. ASSUME NEW d \in Days \ {today} PROVE Honest(states'[T][d], worked'[T][d])
    BY <1>0, <1>1, <1>2, <2>2, HonestStays DEF RowsHonest, Same
  <2> QED BY <2>1, <2>2
<1>4. \A d \in Days : Gains(T, d)
  BY <1>1 DEF Gains, Same
<1>5. JoinedAt(thread'[th], states', worked')
  BY <1>1 DEF JoinedAt, Joined, Fresh, Upto
<1> QED BY <1>1, <1>2, <1>3, <1>4, <1>5, ScanSteps

LEMMA ScanResets ==
  ASSUME Inv, NEW th \in Threads, ResetRow(th)
  PROVE  RowsHonest' /\ ScansJoined' /\ Backfills'
<1> DEFINE T == At(th).type
           today == thread[th].today
<1>0. Basic /\ RowsHonest /\ ScansJoined
  BY DEF Inv
<1>1. /\ Touches(th) /\ CallOf(thread'[th]) = At(th) /\ worked' = worked
      /\ thread[th].pc = "reset" /\ At(th).fn = "update_all_tail_risks" /\ today \in Days
      /\ thread'[th].today = today /\ thread'[th].next = 1
      /\ states'[T][today] = Fresh
      /\ \A d \in Days \ {today} : states'[T][d] = states[T][d]
  BY <1>0, ResetRowEffect DEF Stays
<1>2. T \in ScanTypes \ {"ml_backfill"} /\ At(th) = CallOf(thread[th])
  BY <1>0, <1>1, OnCall
<1>3. Joined(states[T][today], worked[T][today], At(th), thread[th].next)
  BY <1>0, <1>1, <1>2 DEF ScansJoined, JoinedAt, Scans
<1>4. \A d \in Days : Honest(states'[T][d], worked'[T][d])
  <2>1. Honest(states'[T][today], worked'[T][today])
    BY <1>0, <1>1, <1>2, <1>3 DEF Honest, Fresh, Joined, RowsHonest
  <2>2. ASSUME NEW d \in Days \ {today} PROVE Honest(states'[T][d], worked'[T][d])
    BY <1>0, <1>1, <1>2 DEF RowsHonest
  <2> QED BY <2>1, <2>2
<1>5. \A d \in Days : Gains(T, d)
  BY <1>1 DEF Gains, Fresh
<1>6. JoinedAt(thread'[th], states', worked')
  BY <1>1, <1>3 DEF JoinedAt, Joined, Fresh, Upto
<1> QED BY <1>1, <1>2, <1>4, <1>5, <1>6, ScanSteps

LEMMA ScanProcesses ==
  ASSUME Inv, NEW th \in Threads, NEW stored \in BOOLEAN, Process(th, stored),
         At(th).fn # "run_historical_backfill"
  PROVE  RowsHonest' /\ ScansJoined' /\ Backfills'
<1> DEFINE T == At(th).type
           today == thread[th].today
           next == thread[th].next
           ticker == At(th).list[next]
<1>0. Basic /\ RowsHonest /\ ScansJoined
  BY DEF Inv
<1>1. thread[th].pc = "work" /\ At(th).fn # "other"
  BY DEF Process, Is
<1>2. /\ T \in ScanTypes \ {"ml_backfill"} /\ At(th) = CallOf(thread[th]) /\ At(th).list \in Lists
      /\ Written(th) = {today} /\ today \in Days
  BY <1>0, <1>1, OnCall, ScanCall, Types1 DEF ThreadRecords
<1>3. Joined(states[T][today], worked[T][today], At(th), next)
  BY <1>0, <1>1, <1>2 DEF ScansJoined, JoinedAt, Scans
<1>4. \A d \in Days : d \in Written(th) => states[T][d].status # "none"
  BY <1>2, <1>3 DEF Joined
<1>5. /\ Touches(th) /\ CallOf(thread'[th]) = At(th)
      /\ next \in DOMAIN At(th).list
      /\ thread'[th].today = today /\ thread'[th].next = next + 1
      /\ \A d \in Days :
           /\ \/ states'[T][d] = states[T][d]
              \/ d = today /\ states'[T][d] = [states[T][d] EXCEPT !.last = ticker]
           /\ worked'[T][d].lists = worked[T][d].lists
           /\ worked'[T][d].shared = worked[T][d].shared
           /\ worked[T][d].tickers \subseteq worked'[T][d].tickers
           /\ d = today => worked'[T][d].tickers = worked[T][d].tickers \union {ticker}
  BY <1>0, <1>2, <1>4, ProcessEffect DEF Stays
<1>6. states[T][today] \in Rows /\ Honest(states[T][today], worked[T][today])
  BY <1>0, <1>2, Types1 DEF RowsHonest
<1>7. /\ Honest(states'[T][today], worked'[T][today])
      /\ Joined(states'[T][today], worked'[T][today], At(th), next + 1)
  <2>1. /\ Honest(states[T][today], worked'[T][today])
        /\ Honest([states[T][today] EXCEPT !.last = ticker], worked'[T][today])
        /\ Joined(states[T][today], worked'[T][today], At(th), next + 1)
        /\ Joined([states[T][today] EXCEPT !.last = ticker], worked'[T][today], At(th), next + 1)
    <3>1. /\ worked'[T][today].lists = worked[T][today].lists
          /\ worked'[T][today].shared = worked[T][today].shared
          /\ worked'[T][today].tickers = worked[T][today].tickers \union {ticker}
      BY <1>2, <1>5
    <3> HIDE DEF T, today, next
    <3> QED BY <1>2, <1>3, <1>5, <1>6, <3>1, WorkedOn
  <2>2. \/ states'[T][today] = states[T][today]
        \/ states'[T][today] = [states[T][today] EXCEPT !.last = ticker]
    BY <1>2, <1>5
  <2> HIDE DEF T, today, next, ticker
  <2> QED BY <2>1, <2>2
<1>8. ASSUME NEW d \in Days \ {today}
      PROVE  Honest(states'[T][d], worked'[T][d]) /\ states'[T][d] = states[T][d]
  <2>1. states'[T][d] = states[T][d]
    BY <1>5, <1>8
  <2>2. Honest(states[T][d], worked[T][d])
    BY <1>0, <1>2 DEF RowsHonest
  <2> HIDE DEF T, today
  <2> QED BY <1>5, <2>1, <2>2, HonestStays
<1>9. \A d \in Days : Gains(T, d)
  <2>1. states'[T][today].status # "none"
    BY <1>7 DEF Joined
  <2> HIDE DEF T, today
  <2> QED BY <1>5, <1>8, <2>1 DEF Gains
<1>10. JoinedAt(thread'[th], states', worked')
  BY <1>5, <1>7 DEF JoinedAt
<1>11. \A d \in Days : Honest(states'[T][d], worked'[T][d])
  BY <1>7, <1>8
<1> QED BY <1>2, <1>5, <1>9, <1>10, <1>11, ScanSteps

LEMMA ScanCompletes ==
  ASSUME Inv, NEW th \in Threads, Complete(th), At(th).fn # "run_historical_backfill"
  PROVE  RowsHonest' /\ ScansJoined' /\ Backfills'
<1> DEFINE T == At(th).type
           today == thread[th].today
<1>0. Basic /\ RowsHonest /\ ScansJoined
  BY DEF Inv
<1>1. thread[th].pc = "work" /\ At(th).fn # "other"
  BY DEF Complete, Is
<1>2. /\ T \in ScanTypes \ {"ml_backfill"} /\ At(th) = CallOf(thread[th]) /\ At(th).list \in Lists
      /\ Written(th) = {today} /\ today \in Days /\ thread[th].next \in Nat \ {0}
  BY <1>0, <1>1, OnCall, ScanCall, Types1 DEF ThreadRecords
<1>3. Joined(states[T][today], worked[T][today], At(th), thread[th].next)
  BY <1>0, <1>1, <1>2 DEF ScansJoined, JoinedAt, Scans
<1>4. /\ Touches(th) /\ Resting(thread'[th])
      /\ thread[th].next > Len(At(th).list)
      /\ states'[T][today] = [states[T][today] EXCEPT !.status = "COMPLETED"]
      /\ worked' = worked
      /\ \A d \in Days \ {today} : states'[T][d] = states[T][d]
  BY <1>0, <1>2, CompleteEffect
<1>5. states[T][today] \in Rows /\ worked[T][today] \in WorkRecords /\ Honest(states[T][today], worked[T][today])
  BY <1>0, <1>2, Types1 DEF RowsHonest
<1> HIDE DEF T, today
<1>6. Honest(states'[T][today], worked'[T][today])
  BY <1>2, <1>3, <1>4, <1>5, CompletedHonestly
<1>7. \A d \in Days : Honest(states'[T][d], worked'[T][d])
  BY <1>0, <1>2, <1>4, <1>6 DEF RowsHonest
<1>8. Gains(T, today)
  <2>1. states'[T][today].status = "COMPLETED"
    BY <1>4, <1>5 DEF Rows, None
  <2> QED BY <1>4, <2>1 DEF Gains
<1>9. \A d \in Days : Gains(T, d)
  BY <1>4, <1>8 DEF Gains
<1>10. ~Scans(thread'[th])
  BY <1>4 DEF Scans, Resting, Busy
<1> QED BY <1>2, <1>4, <1>7, <1>9, <1>10, ScanSteps DEF T

-----------------------------------------------------------------------------
(* The row steps of the backfill *)

\* The rows of the backfill, and what the model remembers of the work on them.
Filled == states["ml_backfill"]
FilledWork == worked["ml_backfill"]

LEMMA FillSteps ==
  ASSUME Inv, NEW th \in Threads, Touches(th), At(th).type = "ml_backfill",
         \A d \in Days : Honest(Filled'[d], FilledWork'[d]),
         \/ At(th).fn = "run_historical_backfill" /\ CallOf(thread'[th]) = At(th)
         \/ Resting(thread'[th])
  PROVE  RowsHonest' /\ ScansJoined'
<1>1. /\ Basic
      /\ \A type \in ScanTypes \ {"ml_backfill"} : states'[type] = states[type] /\ worked'[type] = worked[type]
      /\ \A u \in Threads \ {th} : thread'[u] = thread[u]
  BY Types1 DEF Touches, Inv
<1>2. RowsHonest'
  BY <1>1 DEF RowsHonest, Inv, Filled, FilledWork
<1>3. \A type \in ScanTypes \ {"ml_backfill"}, d \in Days : Gains(type, d)
  BY <1>1 DEF Gains
<1>4. ~Scans(thread'[th])
  BY DEF Scans, Resting, Busy
<1>5. ScansJoined'
  <2>1. ASSUME NEW u \in Threads \ {th}, Scans(thread'[u])
        PROVE  JoinedAt(thread'[u], states', worked')
    BY <1>1, <1>3, <2>1, StandsBy DEF Inv
  <2> QED BY <1>4, <2>1 DEF ScansJoined
<1> QED BY <1>2, <1>5

LEMMA FillTypes ==
  ASSUME Basic
  PROVE  Filled \in [Days -> Rows] /\ FilledWork \in [Days -> WorkRecords]
BY Types1 DEF Filled, FilledWork, ScanTypes

\* While some day is not shared, no other backfill is about when one begins.
LEMMA FillsApart ==
  ASSUME Basic, NEW th \in Threads, At(th).fn = "run_historical_backfill", ~Overlaps(th)
  PROVE  \A u \in Threads \ {th} : ~Fills(thread[u])
<1>1. \A u \in Threads \ {th} : thread[u].pc \in {"insert", "work"} => At(u).fn # "run_historical_backfill"
  BY DEF Overlaps, Others
<1> QED BY <1>1 DEF Fills, CallOf, At

LEMMA FillLooks ==
  ASSUME Inv, NEW th \in Threads, LookUnfinished(th), At(th).fn = "run_historical_backfill"
  PROVE  RowsHonest' /\ ScansJoined' /\ Backfills'
<1> DEFINE call == At(th)
<1>0. Basic /\ RowsHonest /\ Backfills
  BY DEF Inv
<1>1. thread[th].pc = "look"
  BY DEF LookUnfinished, Is
<1>2. call.type = "ml_backfill" /\ call.list \in Lists
  BY <1>0, <1>1, OnCall
<1>3. /\ Touches(th) /\ states' = states
      /\ Found(th).status = "IN_PROGRESS"
      /\ CallOf(thread'[th]) = call /\ thread'[th].pc = "work"
      /\ thread'[th].next = ResumeAt(call.list, Found(th).last)
      /\ \A d \in Days : Overlaps(th) => FilledWork'[d].shared
      /\ \A d \in Days \ {FoundDay(th)} : Same(th, d)
      /\ FoundDay(th) \in Days => JoinedBy(call.list, FilledWork[FoundDay(th)], FilledWork'[FoundDay(th)])
  BY <1>0, <1>2, LookUnfinishedEffect DEF Stays, FilledWork
<1>4. /\ \A d \in Days : FilledWork[d].shared => FilledWork'[d].shared
      /\ \A d \in Days \ {FoundDay(th)} : /\ FilledWork'[d].lists = FilledWork[d].lists
                                         /\ FilledWork'[d].tickers = FilledWork[d].tickers
  BY <1>2, <1>3 DEF Same, FilledWork, JoinedBy
<1>5. Filled' = Filled /\ Unfinished' = Unfinished
  BY <1>3 DEF Filled, Unfinished, InProgress
<1>6. \A d \in Days : Honest(Filled[d], FilledWork[d])
  BY <1>0 DEF RowsHonest, Filled, FilledWork, ScanTypes
<1>7. ASSUME NEW d \in Days PROVE Honest(Filled'[d], FilledWork'[d])
  <2>1. CASE d = FoundDay(th)
    BY <1>2, <1>3, <1>5, <1>6, <2>1, JoinedHonestly
  <2>2. CASE d # FoundDay(th)
    BY <1>4, <1>5, <1>6, <2>2, HonestStays
  <2> QED BY <2>1, <2>2
<1>8. RowsHonest' /\ ScansJoined'
  BY <1>2, <1>3, <1>7, FillSteps
<1>9. ASSUME NEW d \in Days PROVE FillsAlone(d)'
  <2> SUFFICES ASSUME ~FilledWork'[d].shared PROVE FillsAlone(d)'
    BY DEF FillsAlone, FilledWork
  <2>1. ~Overlaps(th) /\ ~FilledWork[d].shared
    BY <1>3, <1>4
  <2>2. \A u \in Threads \ {th} : ~Fills(thread'[u])
    BY <1>0, <1>3, <2>1, FillsApart DEF Touches
  <2>3. \A e, f \in Unfinished : e = f
    BY <1>0, <2>1 DEF Backfills, FillsAlone, FilledWork
  <2>4. ASSUME d \in Unfinished
        PROVE  Joined(Filled[d], FilledWork'[d], call, ResumeAt(call.list, Found(th).last))
    <3>1. Unfinished # {} /\ \A e \in Unfinished : e = d
      BY <2>3, <2>4
    <3>2. FoundDay(th) = d
      <4>1. FoundDay(th) = CHOOSE e \in Unfinished : \A f \in Unfinished : f <= e
        BY <3>1 DEF FoundDay
      <4>2. d \in Unfinished /\ \A f \in Unfinished : f <= d
        BY <2>4, <3>1 DEF Days
      <4>3. FoundDay(th) \in Unfinished
        BY <4>1, <4>2
      <4> QED BY <3>1, <4>3
    <3>3. Found(th) = Filled[d]
      <4>1. d # 0
        BY ScansAssumption DEF Days
      <4> QED BY <1>2, <3>2, <4>1 DEF Found, Filled
    <3>4. JoinedBy(call.list, FilledWork[d], FilledWork'[d])
      BY <1>3, <3>2
    <3> QED BY <1>2, <1>3, <1>6, <3>3, <3>4, JoinsAfterLast
  <2>5. \A u \in Threads : Fills(thread'[u]) => u = th
    BY <2>2
  <2>6. thread'[th].pc # "insert"
    BY <1>3
  <2> QED BY <1>3, <1>5, <2>3, <2>4, <2>5, <2>6 DEF FillsAlone, Filled, FilledWork
<1> QED BY <1>8, <1>9 DEF Backfills

LEMMA FillLooksNew ==
  ASSUME Inv, NEW th \in Threads, LookNew(th), At(th).fn = "run_historical_backfill"
  PROVE  RowsHonest' /\ ScansJoined' /\ Backfills'
<1> DEFINE call == At(th)
<1>0. Basic /\ RowsHonest /\ Backfills
  BY DEF Inv
<1>1. /\ Touches(th) /\ states' = states
      /\ Found(th).status = "none" /\ thread[th].pc = "look"
      /\ CallOf(thread'[th]) = call /\ thread'[th].pc = "insert"
      /\ \A d \in Days : Same(th, d) /\ (Overlaps(th) => worked'[call.type][d].shared)
  BY <1>0, LookNewEffect DEF Stays
<1>2. call.type = "ml_backfill" /\ call.list \in Lists
  BY <1>0, <1>1, OnCall
<1>4. \A d \in Days : /\ FilledWork'[d].lists = FilledWork[d].lists
                      /\ FilledWork'[d].tickers = FilledWork[d].tickers
                      /\ FilledWork[d].shared => FilledWork'[d].shared
                      /\ Overlaps(th) => FilledWork'[d].shared
  BY <1>1, <1>2 DEF Same, FilledWork
<1>5. Filled' = Filled /\ Unfinished' = Unfinished
  BY <1>1 DEF Filled, Unfinished, InProgress
<1>6. \A d \in Days : Honest(Filled[d], FilledWork[d])
  BY <1>0 DEF RowsHonest, Filled, FilledWork, ScanTypes
<1>7. \A d \in Days : Honest(Filled'[d], FilledWork'[d])
  BY <1>4, <1>5, <1>6, HonestStays
<1>8. RowsHonest' /\ ScansJoined'
  BY <1>1, <1>2, <1>7, FillSteps
<1>9. ASSUME NEW d \in Days PROVE FillsAlone(d)'
  <2> SUFFICES ASSUME ~FilledWork'[d].shared PROVE FillsAlone(d)'
    BY DEF FillsAlone, FilledWork
  <2>1. ~Overlaps(th) /\ ~FilledWork[d].shared
    BY <1>4
  <2>2. \A u \in Threads \ {th} : ~Fills(thread'[u])
    BY <1>0, <1>1, <2>1, FillsApart DEF Touches
  <2>3. \A e, f \in Unfinished : e = f
    BY <1>0, <2>1 DEF Backfills, FillsAlone, FilledWork
  <2>4. Unfinished = {}
    <3> SUFFICES ASSUME NEW e \in Unfinished PROVE FALSE
      OBVIOUS
    <3>1. FoundDay(th) = CHOOSE f \in Unfinished : \A g \in Unfinished : g <= f
      BY DEF FoundDay
    <3>2. e \in Unfinished /\ \A g \in Unfinished : g <= e
      BY <2>3 DEF Unfinished, Days
    <3>3. FoundDay(th) \in Unfinished
      BY <3>1, <3>2
    <3>4. FoundDay(th) \in Days /\ states["ml_backfill"][FoundDay(th)].status = "IN_PROGRESS"
      BY <3>3 DEF Unfinished, InProgress
    <3>5. FoundDay(th) # 0
      BY <3>4, ScansAssumption DEF Days
    <3> QED BY <1>1, <1>2, <3>4, <3>5 DEF Found
  <2>5. \A u \in Threads : Fills(thread'[u]) => u = th
    BY <2>2
  <2>6. thread'[th].pc # "work"
    BY <1>1
  <2> QED BY <1>1, <1>5, <2>3, <2>4, <2>5, <2>6 DEF FillsAlone
<1> QED BY <1>8, <1>9 DEF Backfills

LEMMA FillInserts ==
  ASSUME Inv, NEW th \in Threads, InsertRow(th), At(th).fn = "run_historical_backfill"
  PROVE  RowsHonest' /\ ScansJoined' /\ Backfills'
<1> DEFINE call == At(th)
           today == thread[th].today
<1>0. Basic /\ RowsHonest /\ Backfills
  BY DEF Inv
<1>1. /\ Touches(th) /\ CallOf(thread'[th]) = call /\ thread'[th].pc = "work"
      /\ thread[th].pc = "insert" /\ today \in Days
      /\ thread'[th].next = 1
      /\ states'[call.type][today] = Fresh
      /\ worked'[call.type][today].lists = {call.list}
      /\ worked[call.type][today].shared => worked'[call.type][today].shared
      /\ \A d \in Days \ {today} : states'[call.type][d] = states[call.type][d] /\ Same(th, d)
      /\ \A d \in Days : Overlaps(th) => worked'[call.type][d].shared
  BY <1>0, InsertRowEffect DEF Stays
<1>2. call.type = "ml_backfill" /\ call.list \in Lists /\ call = CallOf(thread[th])
  BY <1>0, <1>1, OnCall
<1>3. /\ Filled'[today] = Fresh /\ FilledWork'[today].lists = {call.list}
      /\ \A d \in Days : /\ FilledWork[d].shared => FilledWork'[d].shared
                         /\ Overlaps(th) => FilledWork'[d].shared
      /\ \A d \in Days \ {today} : /\ Filled'[d] = Filled[d]
                                   /\ FilledWork'[d].lists = FilledWork[d].lists
                                   /\ FilledWork'[d].tickers = FilledWork[d].tickers
  BY <1>1, <1>2 DEF Same, Filled, FilledWork
<1>4. \A d \in Days : Honest(Filled[d], FilledWork[d])
  BY <1>0 DEF RowsHonest, Filled, FilledWork, ScanTypes
<1>5. \A d \in Days : Honest(Filled'[d], FilledWork'[d])
  <2>1. Honest(Filled'[today], FilledWork'[today])
    BY <1>2, <1>3, InsertedHonestly
  <2>2. ASSUME NEW d \in Days \ {today} PROVE Honest(Filled'[d], FilledWork'[d])
    BY <1>3, <1>4, <2>2, HonestStays
  <2> QED BY <2>1, <2>2
<1>6. RowsHonest' /\ ScansJoined'
  BY <1>1, <1>2, <1>5, FillSteps
<1>7. ASSUME NEW d \in Days PROVE FillsAlone(d)'
  <2> SUFFICES ASSUME ~FilledWork'[d].shared PROVE FillsAlone(d)'
    BY DEF FillsAlone, FilledWork
  <2>1. ~Overlaps(th) /\ ~FilledWork[d].shared
    BY <1>3
  <2>2. \A u \in Threads \ {th} : ~Fills(thread'[u])
    BY <1>0, <1>1, <2>1, FillsApart DEF Touches
  <2>3. Unfinished = {}
    <3>1. Fills(thread[th])
      BY <1>1, <1>2 DEF Fills
    <3> QED BY <1>0, <1>1, <2>1, <3>1 DEF Backfills, FillsAlone, FilledWork
  <2>4. Unfinished' = {today}
    <3>1. \A e \in Days : e \in Unfinished' <=> Filled'[e].status = "IN_PROGRESS"
      BY DEF Unfinished, InProgress, Filled
    <3>2. \A e \in Days : Filled[e].status # "IN_PROGRESS"
      BY <2>3 DEF Unfinished, InProgress, Filled
    <3>3. Unfinished' \subseteq Days
      BY DEF Unfinished
    <3> QED BY <1>1, <1>3, <3>1, <3>2, <3>3 DEF Fresh
  <2>5. Joined(Filled'[today], FilledWork'[today], call, 1)
    BY <1>3 DEF Joined, Fresh, Upto
  <2>6. \A u \in Threads : Fills(thread'[u]) => u = th
    BY <2>2
  <2> QED BY <1>1, <2>4, <2>5, <2>6 DEF FillsAlone, Filled, FilledWork
<1> QED BY <1>6, <1>7 DEF Backfills

LEMMA FillProcesses ==
  ASSUME Inv, NEW th \in Threads, NEW stored \in BOOLEAN, Process(th, stored),
         At(th).fn = "run_historical_backfill"
  PROVE  RowsHonest' /\ ScansJoined' /\ Backfills'
<1> DEFINE call == At(th)
           next == thread[th].next
           ticker == call.list[next]
<1>0. Basic /\ RowsHonest /\ Backfills
  BY DEF Inv
<1>1. thread[th].pc = "work"
  BY DEF Process, Is
<1>2. call.type = "ml_backfill" /\ call.list \in Lists /\ call = CallOf(thread[th])
  BY <1>0, <1>1, OnCall
<1>3. Written(th) = Unfinished
  BY DEF Written
<1>4. \A d \in Days : d \in Written(th) => states[call.type][d].status # "none"
  BY <1>2, <1>3 DEF Unfinished, InProgress
<1>5. /\ Touches(th) /\ CallOf(thread'[th]) = call /\ thread'[th].pc = "work"
      /\ next \in DOMAIN call.list /\ thread'[th].next = next + 1
  BY <1>0, <1>4, ProcessEffect DEF Stays
<1>6. \A d \in Days :
        /\ \/ Filled'[d] = Filled[d]
           \/ d \in Unfinished /\ Filled'[d] = [Filled[d] EXCEPT !.last = ticker]
        /\ FilledWork'[d].lists = FilledWork[d].lists
        /\ FilledWork'[d].shared = FilledWork[d].shared
        /\ FilledWork[d].tickers \subseteq FilledWork'[d].tickers
        /\ d \in Unfinished => FilledWork'[d].tickers = FilledWork[d].tickers \union {ticker}
  BY <1>0, <1>2, <1>3, <1>4, ProcessEffect DEF Filled, FilledWork
<1>7. \A d \in Days : Honest(Filled[d], FilledWork[d]) /\ Filled[d] \in Rows
  BY <1>0, FillTypes DEF RowsHonest, Filled, FilledWork, ScanTypes
<1>8. Fills(thread[th])
  BY <1>1, <1>2 DEF Fills
<1>9. ASSUME NEW d \in Unfinished, ~FilledWork[d].shared
      PROVE  /\ Honest(Filled'[d], FilledWork'[d])
             /\ Joined(Filled'[d], FilledWork'[d], call, next + 1)
  <2>0. d \in Days
    BY DEF Unfinished
  <2>1. Joined(Filled[d], FilledWork[d], call, next)
    BY <1>0, <1>1, <1>2, <1>8, <1>9, <2>0 DEF Backfills, FillsAlone, Filled, FilledWork
  <2> HIDE DEF call, next
  <2>2. /\ Honest(Filled[d], FilledWork'[d]) /\ Honest([Filled[d] EXCEPT !.last = ticker], FilledWork'[d])
        /\ Joined(Filled[d], FilledWork'[d], call, next + 1)
        /\ Joined([Filled[d] EXCEPT !.last = ticker], FilledWork'[d], call, next + 1)
    BY <1>2, <1>5, <1>6, <1>7, <2>0, <2>1, WorkedOn
  <2>3. Filled'[d] = Filled[d] \/ Filled'[d] = [Filled[d] EXCEPT !.last = ticker]
    BY <1>6, <2>0
  <2> HIDE DEF ticker
  <2> QED BY <2>2, <2>3
<1>10. ASSUME NEW d \in Days PROVE Honest(Filled'[d], FilledWork'[d])
  <2>1. CASE d \in Unfinished /\ ~FilledWork[d].shared
    BY <1>9, <2>1
  <2>2. CASE d \notin Unfinished
    BY <1>6, <1>7, <2>2, HonestStays
  <2>3. CASE FilledWork[d].shared
    BY <1>6, <2>3 DEF Honest
  <2> QED BY <2>1, <2>2, <2>3
<1>11. RowsHonest' /\ ScansJoined'
  BY <1>2, <1>5, <1>10, FillSteps
<1>12. Unfinished' = Unfinished
  <2>1. \A e \in Days : Filled'[e].status = Filled[e].status
    <3> SUFFICES ASSUME NEW e \in Days PROVE Filled'[e].status = Filled[e].status
      OBVIOUS
    <3>1. Filled[e] \in Rows
      BY <1>7
    <3>2. [Filled[e] EXCEPT !.last = ticker].status = Filled[e].status
      BY <3>1 DEF Rows, None
    <3> QED BY <1>6, <3>2
  <2> QED BY <2>1 DEF Unfinished, InProgress, Filled
<1>13. ASSUME NEW d \in Days PROVE FillsAlone(d)'
  <2> SUFFICES ASSUME ~FilledWork'[d].shared PROVE FillsAlone(d)'
    BY DEF FillsAlone, FilledWork
  <2>1. ~FilledWork[d].shared
    BY <1>6
  <2>2. /\ \A u \in Threads : Fills(thread[u]) => u = th
        /\ \A e, f \in Unfinished : e = f
    BY <1>0, <1>8, <2>1 DEF Backfills, FillsAlone, FilledWork
  <2>3. \A u \in Threads : Fills(thread'[u]) => u = th
    BY <1>5, <2>2 DEF Touches
  <2>4. d \in Unfinished => Joined(Filled'[d], FilledWork'[d], call, next + 1)
    BY <1>9, <2>1
  <2>5. thread'[th].pc # "insert"
    BY <1>5
  <2> QED BY <1>5, <1>12, <2>2, <2>3, <2>4, <2>5 DEF FillsAlone, Filled, FilledWork
<1> QED BY <1>11, <1>13 DEF Backfills

LEMMA FillCompletes ==
  ASSUME Inv, NEW th \in Threads, Complete(th), At(th).fn = "run_historical_backfill"
  PROVE  RowsHonest' /\ ScansJoined' /\ Backfills'
<1> DEFINE call == At(th)
           next == thread[th].next
<1>0. Basic /\ RowsHonest /\ Backfills
  BY DEF Inv
<1>1. thread[th].pc = "work"
  BY DEF Complete, Is
<1>2. /\ call.type = "ml_backfill" /\ call.list \in Lists /\ call = CallOf(thread[th])
      /\ next \in Nat \ {0}
  BY <1>0, <1>1, OnCall, Types1 DEF ThreadRecords
<1>3. Written(th) = Unfinished
  BY DEF Written
<1>4. /\ Touches(th) /\ Resting(thread'[th]) /\ next > Len(call.list)
  BY <1>0, CompleteEffect
<1>5. \A d \in Days :
        /\ Filled'[d] = IF d \in Unfinished THEN [Filled[d] EXCEPT !.status = "COMPLETED"] ELSE Filled[d]
        /\ FilledWork'[d] = FilledWork[d]
  BY <1>0, <1>2, <1>3, CompleteEffect DEF Filled, FilledWork
<1>6. \A d \in Days : Honest(Filled[d], FilledWork[d]) /\ Filled[d] \in Rows /\ FilledWork[d] \in WorkRecords
  BY <1>0, FillTypes DEF RowsHonest, Filled, FilledWork, ScanTypes
<1>7. Fills(thread[th])
  BY <1>1, <1>2 DEF Fills
<1>8. ASSUME NEW d \in Days PROVE Honest(Filled'[d], FilledWork'[d])
  <2>1. CASE d \notin Unfinished
    BY <1>5, <1>6, <2>1
  <2>2. CASE d \in Unfinished /\ FilledWork[d].shared
    <3>1. FilledWork'[d].shared
      BY <1>5, <2>2
    <3> QED BY <3>1 DEF Honest
  <2>3. CASE d \in Unfinished /\ ~FilledWork[d].shared
    <3>1. Joined(Filled[d], FilledWork[d], call, next)
      BY <1>0, <1>1, <1>2, <1>7, <2>3 DEF Backfills, FillsAlone, Filled, FilledWork
    <3>2. Filled'[d] = [Filled[d] EXCEPT !.status = "COMPLETED"] /\ FilledWork'[d] = FilledWork[d]
      BY <1>5, <2>3
    <3>3. /\ Filled[d] \in Rows /\ FilledWork[d] \in WorkRecords /\ Honest(Filled[d], FilledWork[d])
          /\ call.list \in Lists /\ next \in Nat \ {0} /\ next > Len(call.list)
      BY <1>2, <1>4, <1>6
    <3> HIDE DEF call, next
    <3> QED BY <3>1, <3>2, <3>3, CompletedHonestly
  <2> QED BY <2>1, <2>2, <2>3
<1>9. RowsHonest' /\ ScansJoined'
  BY <1>2, <1>4, <1>8, FillSteps
<1>10. Unfinished' = {}
  <2>1. \A e \in Days : Filled'[e].status # "IN_PROGRESS"
    <3> SUFFICES ASSUME NEW e \in Days PROVE Filled'[e].status # "IN_PROGRESS"
      OBVIOUS
    <3>1. CASE e \in Unfinished
      BY <1>5, <1>6, <3>1 DEF Rows, None
    <3>2. CASE e \notin Unfinished
      BY <1>5, <3>2 DEF Unfinished, InProgress, Filled
    <3> QED BY <3>1, <3>2
  <2> QED BY <2>1 DEF Unfinished, InProgress, Filled
<1>11. ASSUME NEW d \in Days PROVE FillsAlone(d)'
  <2> SUFFICES ASSUME ~FilledWork'[d].shared PROVE FillsAlone(d)'
    BY DEF FillsAlone, FilledWork
  <2>1. ~FilledWork[d].shared
    BY <1>5
  <2>2. \A u \in Threads : Fills(thread[u]) => u = th
    BY <1>0, <1>7, <2>1 DEF Backfills, FillsAlone, FilledWork
  <2>3. \A u \in Threads : ~Fills(thread'[u])
    BY <1>4, <2>2 DEF Touches, Resting, Busy, Fills
  <2> QED BY <1>10, <2>3 DEF FillsAlone
<1> QED BY <1>9, <1>11 DEF Backfills

-----------------------------------------------------------------------------
(* Invariance *)

LEMMA InvInit == Init => Inv
<1> SUFFICES ASSUME Init PROVE Inv
  OBVIOUS
<1>1. 1 \in Days
  <2>1. scope.days \in 1..MaxDay /\ MaxDay \in Nat
    BY ScansAssumption DEF Init, Days
  <2> QED BY <2>1 DEF Days
<1>2. \A th \in Threads : Resting(Idle)
  BY <1>1, IdleRests
<1>3. thread = [th \in Threads |-> Idle]
  BY DEF Init
<1>4. AllPlaced
  BY <1>2, <1>3 DEF AllPlaced, Resting, Placed
<1>5. TypeOK
  <2>1. states \in [Types -> [Days -> Rows]]
    BY DEF Init, Rows
  <2>2. worked \in [ScanTypes -> [Days -> WorkRecords]]
    BY DEF Init, WorkRecords, Unworked
  <2>3. spent \in [starts : 0..scope.starts, crashes : 0..scope.crashes, failures : 0..scope.failures]
    <3>1. scope.starts \in Nat /\ scope.crashes \in Nat /\ scope.failures \in Nat
      BY ScansAssumption DEF Init
    <3> QED BY <3>1 DEF Init
  <2> QED BY <1>1, <1>4, <2>1, <2>2, <2>3 DEF Init, TypeOK, WorkRecords, ThreadRecords, AllPlaced
<1>6. RowsHonest
  BY DEF Init, RowsHonest, Honest, None, Types, Days
<1>7. \A th \in Threads : ~Scans(thread[th]) /\ ~Fills(thread[th])
  BY <1>3 DEF Scans, Fills, Idle
<1>8. Unfinished = {}
  BY DEF Init, Unfinished, InProgress, None, Types, ScanTypes
<1>9. ScansJoined /\ Backfills
  BY <1>7, <1>8 DEF ScansJoined, Backfills, FillsAlone
<1> QED BY <1>4, <1>5, <1>6, <1>9 DEF Inv, Basic

LEMMA RowStepKeeps ==
  ASSUME Inv, NEW th \in Threads, RowStep(th)
  PROVE  /\ RowsHonest' /\ ScansJoined' /\ Backfills'
         /\ Touches(th)
<1>0. Basic
  BY DEF Inv
<1>1. CASE LookUnfinished(th)
  BY <1>0, <1>1, ScanLooks, FillLooks, LookUnfinishedEffect
<1>2. CASE LookNew(th)
  BY <1>0, <1>2, ScanLooksNew, FillLooksNew, LookNewEffect
<1>3. CASE InsertRow(th)
  BY <1>0, <1>3, ScanInserts, FillInserts, InsertRowEffect
<1>4. CASE ResetRow(th)
  BY <1>0, <1>4, ScanResets, ResetRowEffect
<1>5. ASSUME NEW stored \in BOOLEAN, Process(th, stored)
      PROVE  RowsHonest' /\ ScansJoined' /\ Backfills' /\ Touches(th)
  <2>1. RowsHonest' /\ ScansJoined' /\ Backfills'
    BY <1>5, ScanProcesses, FillProcesses
  <2>2. \A d \in Days : d \in Written(th) => states[At(th).type][d].status # "none"
    <3>1. thread[th].pc = "work" /\ At(th).fn # "other"
      BY <1>5 DEF Process, Is
    <3>2. CASE At(th).fn = "run_historical_backfill"
      <4>1. At(th).type = "ml_backfill"
        BY <1>0, <3>1, <3>2, OnCall
      <4> QED BY <3>2, <4>1 DEF Written, Unfinished, InProgress
    <3>3. CASE At(th).fn # "run_historical_backfill"
      <4>1. Written(th) = {thread[th].today} /\ At(th) = CallOf(thread[th])
        BY <1>0, <3>1, <3>3, ScanCall, OnCall
      <4>2. JoinedAt(thread[th], states, worked)
        BY <3>1, <3>3, <4>1 DEF Inv, ScansJoined, Scans
      <4> QED BY <4>1, <4>2 DEF JoinedAt, Joined
    <3> QED BY <3>2, <3>3
  <2>3. Touches(th)
    BY <1>0, <1>5, <2>2, ProcessEffect
  <2> QED BY <2>1, <2>3
<1>6. CASE Complete(th)
  BY <1>0, <1>6, ScanCompletes, FillCompletes, CompleteEffect
<1> QED BY <1>1, <1>2, <1>3, <1>4, <1>5, <1>6 DEF RowStep

LEMMA InvStep == Inv /\ [Next]_vars => Inv'
<1> SUFFICES ASSUME Inv, [Next]_vars PROVE Inv'
  OBVIOUS
<1>0. Basic /\ TypeOK
  BY DEF Inv, Basic
<1>1. /\ scope' \in Scopes /\ day' \in Days /\ up' \in {"down", "starting", "up"}
      /\ spent' \in [starts : 0..scope'.starts, crashes : 0..scope'.crashes, failures : 0..scope'.failures]
  BY <1>0, WorldTyped
<1>2. CASE Quiet
  <2>1. RowsHonest' /\ ScansJoined' /\ Backfills'
    BY <1>2, QuietKeeps
  <2>2. AllPlaced'
    BY <1>0, <1>2, QuietPlaced
  <2>3. TypeOK'
    BY <1>0, <1>1, <1>2, <2>2 DEF TypeOK, Quiet, AllPlaced, ThreadRecords
  <2> QED BY <2>1, <2>2, <2>3 DEF Inv, Basic
<1>3. ASSUME NEW th \in Threads, RowStep(th) PROVE Inv'
  <2>1. RowsHonest' /\ ScansJoined' /\ Backfills' /\ Touches(th)
    BY <1>3, RowStepKeeps
  <2>2. TypeOK' /\ AllPlaced'
    BY <1>1, <2>1 DEF TypeOK, Touches, AllPlaced, ThreadRecords, WorkRecords
  <2> QED BY <2>1, <2>2 DEF Inv, Basic
<1> QED BY <1>0, <1>2, <1>3, StepKinds

LEMMA Invariance == Spec => []Inv
BY InvInit, InvStep, PTL DEF Spec

\* A row says COMPLETED only when every ticker that is in the lists of all the runs that had
\* a hand in it was worked on since it was inserted, whatever runs began, were interrupted,
\* resumed or overlapped on it, each with a list of its own.
THEOREM CompleteMeansAllHolds == Spec => []CompleteMeansAll
<1>1. Inv => CompleteMeansAll
  <2> SUFFICES ASSUME Inv, NEW type \in ScanTypes, NEW d \in Days,
                      Completed(type, d), ~worked[type][d].shared
               PROVE  InAll(worked[type][d].lists) \subseteq worked[type][d].tickers
    BY DEF CompleteMeansAll
  <2>1. Honest(states[type][d], worked[type][d])
    BY DEF Inv, RowsHonest
  <2> QED BY <2>1 DEF Honest, Completed
<1> QED BY <1>1, Invariance, PTL

-----------------------------------------------------------------------------
(* The stages of the deep sync, and the resumed threads *)

StageKeys == <<"deep_sync_s1", "deep_sync_s2", "universe_deep_sync", "deep_sync_s4", "deep_sync_s5">>

\* While nothing has failed, a deep sync that is at a stage finds the marks of the
\* stages before it on the day it began (the third one has no mark but its row).
Syncs(t) == t.pc # "idle" /\ t.job = "run_universe_deep_sync"
Behind(t) == \A k \in {1, 2, 4} : k < t.at => Completed(StageKeys[k], t.started)
SyncsInOrder == ~Failed => \A th \in Threads : Syncs(thread[th]) => Behind(thread[th])

\* Resumed threads run the job they are named for, once the process is up, and a
\* scan is not resumed next to its tail risks alone.
Resumed ==
  /\ \A th \in Resumable : thread[th].pc # "idle" => up = "up" /\ thread[th].job = th
  /\ thread["run_overnight_quant_scan"].pc = "idle" \/ thread["_run_daily_tr"].pc = "idle"
  /\ thread["run_weekend_universe_routine"].pc = "idle" \/ thread["_run_universe_tr"].pc = "idle"

OrderInv == StagesInOrder /\ SyncsInOrder /\ Resumed

Stageless(call) == call.stage = ""

\* Only the deep sync has stages.
LEMMA StagesOf ==
  ASSUME NEW job \in JobNames, NEW list, NEW n \in 1..Len(Program(job, list))
  PROVE  Program(job, list)[n].stage = IF job = "run_universe_deep_sync" THEN StageKeys[n] ELSE ""
<1>1. CASE job = "run_universe_deep_sync"
  <2> DEFINE c1 == Stage("deep_sync_s1", Other)
             c2 == Stage("deep_sync_s2", Other)
             c3 == Stage("universe_deep_sync", Scan("universe_deep_sync", list))
             c4 == Stage("deep_sync_s4", Backfill(list))
             c5 == Stage("deep_sync_s5", Other)
  <2>1. Program(job, list) = <<c1, c2, c3, c4, c5>>
    BY <1>1 DEF Program
  <2>2. /\ c1.stage = "deep_sync_s1" /\ c2.stage = "deep_sync_s2" /\ c3.stage = "universe_deep_sync"
        /\ c4.stage = "deep_sync_s4" /\ c5.stage = "deep_sync_s5"
    BY DEF Stage, Scan, Backfill, Other, Call
  <2> HIDE DEF c1, c2, c3, c4, c5
  <2>3. n \in 1..5
    BY <2>1
  <2> QED BY <1>1, <2>1, <2>2, <2>3 DEF StageKeys
<1>2. CASE job # "run_universe_deep_sync"
  <2>1. /\ \A type, l : Stageless(Scan(type, l)) /\ Stageless(TailRisks(type, l))
        /\ \A l : Stageless(Backfill(l))
        /\ Stageless(Other)
    BY DEF Stageless, Scan, TailRisks, Backfill, Other, Call
  <2>2. \/ \E a : Program(job, list) = <<a>> /\ Stageless(a)
        \/ \E a, b : Program(job, list) = <<a, b>> /\ Stageless(a) /\ Stageless(b)
        \/ \E a, b, c, d : /\ Program(job, list) = <<a, b, c, d>>
                           /\ Stageless(a) /\ Stageless(b) /\ Stageless(c) /\ Stageless(d)
    <3>1. CASE job \in {"run_overnight_quant_scan", "bg_execute_quant_scan"}
      BY <2>1, <3>1 DEF Program
    <3>2. CASE job \in {"bg_execute_universe_quant_scan", "run_ml_backfill", "run_universe_csv_import_scan",
                        "_run_daily_tr", "_run_universe_tr"}
      BY <2>1, <3>2 DEF Program
    <3>3. CASE job = "run_weekend_universe_routine"
      BY <2>1, <3>3 DEF Program
    <3> QED BY <1>2, <3>1, <3>2, <3>3 DEF JobNames, Startable, Resumable
  <2>3. Stageless(Program(job, list)[n])
    BY <2>2
  <2> QED BY <1>2, <2>3 DEF Stageless
<1> QED BY <1>1, <1>2

\* What a step can do to a thread: nothing, end it, start it, resume it, or move
\* it within its call or to the next one; a stage that is left is marked, unless
\* something has failed or it is the third.
Kept(th) == thread'[th].job = thread[th].job /\ thread'[th].started = thread[th].started
Left(th) ==
  \/ spent'.failures > 0
  \/ At(th).stage \in {"", "universe_deep_sync"}
  \/ states'[At(th).stage][thread[th].started].status = "COMPLETED"
Started(th) ==
  /\ thread'[th].at = 1
  /\ \/ th \in Starters
     \/ up = "starting" /\ up' = "up" /\ th \in Resumable /\ Interrupted(th) /\ thread'[th].job = th
Moved(th) ==
  \/ thread'[th] = thread[th]
  \/ thread'[th].pc = "idle"
  \/ Started(th)
  \/ thread[th].pc # "idle" /\ Kept(th) /\ thread'[th].at = thread[th].at
  \/ thread[th].pc # "idle" /\ Kept(th) /\ thread'[th].at = thread[th].at + 1 /\ Left(th)

LEMMA EndMoves ==
  ASSUME Basic, NEW th \in Threads, thread[th].pc # "idle", NEW t, Goes(th, t),
         \/ t = Idle
         \/ t = NextCall(th) /\ Left(th)
         \/ t = To(th, "mark")
  PROVE  Moved(th)
<1>1. /\ thread'[th] = t /\ Placed(thread[th])
      /\ thread[th] \in ThreadRecords
  BY DEF Goes, Basic, AllPlaced
<1>2. CASE t = Idle
  BY <1>1, <1>2 DEF Moved, Idle
<1>3. CASE t = NextCall(th) /\ Left(th)
  <2>1. /\ thread[th].job \in JobNames /\ thread[th].list \in Lists
        /\ thread[th].at + 1 \in Nat \ {0} /\ 1 \in Days
    BY <1>1, AtCall, DayOne DEF Placed, Basic
  <2>2. \/ t = Idle
        \/ t.job = thread[th].job /\ t.started = thread[th].started /\ t.at = thread[th].at + 1
    BY <1>1, <1>3, <2>1, Entered DEF NextCall
  <2> QED BY <1>1, <1>2, <1>3, <2>2 DEF Moved, Kept
<1>4. CASE t = To(th, "mark")
  <2>1. t.job = thread[th].job /\ t.started = thread[th].started /\ t.at = thread[th].at
    BY <1>1, <1>4 DEF To, ThreadRecords
  <2> QED BY <1>1, <2>1 DEF Moved, Kept
<1> QED BY <1>2, <1>3, <1>4

LEMMA StepMoves ==
  ASSUME Basic, NEW th \in Threads, Step(th) \/ Fail(th)
  PROVE  Moved(th) /\ \A u \in Threads \ {th} : thread'[u] = thread[u]
<1>0. /\ thread \in [Threads -> ThreadRecords] /\ Placed(thread[th]) /\ thread[th] \in ThreadRecords
  BY DEF Basic, AllPlaced
<1>o. \A u \in Threads \ {th} : thread'[u] = thread[u]
  BY <1>0 DEF Step, Fail, Gate, Mark, DoOther, LookDone, LookUnfinished, LookNew, InsertRow, InsertFails,
              ResetRow, Process, Complete, Goes
<1>r. ASSUME thread[th].pc # "idle", Goes(th, Returns(th)) PROVE Moved(th)
  <2>1. CASE Marks(th)
    BY <1>r, <2>1, EndMoves DEF Returns
  <2>2. CASE ~Marks(th)
    BY <1>r, <2>2, EndMoves DEF Returns, Left, Marks
  <2> QED BY <2>1, <2>2
<1>w. ASSUME thread[th].pc # "idle", NEW t, Goes(th, t),
             t.job = thread[th].job, t.started = thread[th].started, t.at = thread[th].at
      PROVE  Moved(th)
  BY <1>0, <1>w DEF Goes, Moved, Kept
<1>t. ASSUME NEW pc PROVE /\ To(th, pc).job = thread[th].job /\ To(th, pc).started = thread[th].started
                          /\ To(th, pc).at = thread[th].at
  BY <1>0 DEF To, ThreadRecords
<1>1. ASSUME Gate(th) PROVE Moved(th)
  <2>1. thread[th].pc # "idle" /\ states' = states
    BY <1>1 DEF Gate, Is
  <2>2. CASE Completed(At(th).stage, StageDay(th))
    <3>1. Left(th) /\ Goes(th, NextCall(th))
      BY <1>1, <2>1, <2>2 DEF Gate, Left, Completed, StageDay
    <3> QED BY <2>1, <3>1, EndMoves
  <2>3. CASE ~Completed(At(th).stage, StageDay(th))
    <3>1. Goes(th, To(th, "work")) \/ Goes(th, To(th, "look"))
      BY <1>1, <2>3 DEF Gate
    <3> QED BY <2>1, <3>1, <1>w, <1>t
  <2> QED BY <2>2, <2>3
<1>2. ASSUME Mark(th) PROVE Moved(th)
  <2>1. thread[th].pc # "idle" /\ Goes(th, NextCall(th))
    BY <1>2 DEF Mark, Is
  <2>2. Left(th)
    BY <1>2, Marked DEF Left
  <2> QED BY <2>1, <2>2, EndMoves
<1>3. ASSUME DoOther(th) \/ LookDone(th) \/ Complete(th) PROVE Moved(th)
  <2>1. thread[th].pc # "idle" /\ Goes(th, Returns(th))
    BY <1>3 DEF DoOther, LookDone, Complete, Is
  <2> QED BY <2>1, <1>r
<1>4. ASSUME LookUnfinished(th) PROVE Moved(th)
  <2> DEFINE pc == IF At(th).fn = "update_all_tail_risks" /\ ~Has(At(th).list, Found(th).last)
                   THEN "reset" ELSE "work"
             t == [thread[th] EXCEPT !.pc = pc, !.today = day, !.next = ResumeAt(At(th).list, Found(th).last)]
  <2>1. thread[th].pc # "idle" /\ Goes(th, t)
    BY <1>4 DEF LookUnfinished, Is
  <2> HIDE DEF pc
  <2>2. t.job = thread[th].job /\ t.started = thread[th].started /\ t.at = thread[th].at
    BY <1>0 DEF ThreadRecords
  <2> HIDE DEF t
  <2> QED BY <2>1, <2>2, <1>w
<1>5. ASSUME LookNew(th) PROVE Moved(th)
  <2> DEFINE t == [thread[th] EXCEPT !.pc = "insert", !.today = day]
  <2>1. thread[th].pc # "idle" /\ Goes(th, t)
    BY <1>5 DEF LookNew, Is
  <2>2. t.job = thread[th].job /\ t.started = thread[th].started /\ t.at = thread[th].at
    BY <1>0 DEF ThreadRecords
  <2> HIDE DEF t
  <2> QED BY <2>1, <2>2, <1>w
<1>6. ASSUME InsertRow(th) \/ ResetRow(th) PROVE Moved(th)
  <2>1. thread[th].pc # "idle" /\ Goes(th, To(th, "work"))
    BY <1>6 DEF InsertRow, ResetRow, Is
  <2> QED BY <2>1, <1>w, <1>t
<1>7. ASSUME InsertFails(th) PROVE Moved(th)
  <2>1. thread[th].pc = "insert" /\ Goes(th, Breaks(th))
    BY <1>7 DEF InsertFails, Is
  <2>2. Proper(At(th)) /\ At(th).fn # "other"
    BY <2>1, Active, OnCall DEF Basic
  <2>3. CASE Swallows(th)
    BY <2>1, <2>3, <1>r DEF Breaks
  <2>4. CASE ~Swallows(th)
    <3>1. At(th).stage = ""
      BY <2>2, <2>4 DEF Proper, Calls, Swallows
    <3> QED BY <2>1, <2>4, <3>1, EndMoves DEF Breaks, Raises
  <2> QED BY <2>3, <2>4
<1>8. ASSUME NEW stored \in BOOLEAN, Process(th, stored) PROVE Moved(th)
  <2> DEFINE t == [thread[th] EXCEPT !.next = @ + 1]
  <2>1. thread[th].pc # "idle" /\ Goes(th, t)
    BY <1>8 DEF Process, Is
  <2>2. t.job = thread[th].job /\ t.started = thread[th].started /\ t.at = thread[th].at
    BY <1>0 DEF ThreadRecords
  <2> HIDE DEF t
  <2> QED BY <2>1, <2>2, <1>w
<1>9. ASSUME Fail(th) PROVE Moved(th)
  <2>1. thread[th].pc # "idle"
    BY <1>9 DEF Fail, MayRaise, Is
  <2>2. PICK t \in Raised(th) : Goes(th, t)
    BY <1>9 DEF Fail
  <2>3. spent'.failures > 0
    <3>1. spent.failures \in Nat
      <4>1. spent.failures \in 0..scope.failures
        BY DEF Basic, TypeOK
      <4> QED BY <4>1
    <3>2. spent'.failures = spent.failures + 1
      BY <1>9 DEF Fail, Basic, TypeOK
    <3> QED BY <3>1, <3>2
  <2>4. Ends(th, t) /\ Left(th)
    BY <2>2, <2>3, CallsEnd DEF Left
  <2> QED BY <2>1, <2>2, <2>4, EndMoves DEF Ends
<1>10. Moved(th)
  BY <1>1, <1>2, <1>3, <1>4, <1>5, <1>6, <1>7, <1>8, <1>9 DEF Step
<1> QED BY <1>o, <1>10
\* Moved, for any thread and any step.
LEMMA EveryStepMoves ==
  ASSUME Basic, [Next]_vars, NEW th \in Threads
  PROVE  Moved(th)
<1>0. /\ thread \in [Threads -> ThreadRecords] /\ day \in Days /\ 1 \in Days
  BY DayOne DEF Basic, AllPlaced
<1>s. ASSUME NEW t \in ThreadRecords, t.job \in JobNames, t.list \in Lists
      PROVE  \/ EnterCall(t, 1).pc = "idle"
             \/ EnterCall(t, 1).at = 1 /\ EnterCall(t, 1).job = t.job
  BY <1>0, <1>s, Entered DEF Idle
<1>i. /\ Idle \in ThreadRecords
      /\ \A job \in Jobs, list \in Lists :
           LET t == [Idle EXCEPT !.job = job, !.list = list, !.started = day]
           IN  t \in ThreadRecords /\ t.job = job /\ t.list = list
  <2>1. Idle \in ThreadRecords
    BY <1>0, IdleRests DEF Resting, Placed
  <2> QED BY <1>0, <2>1 DEF ThreadRecords
<1>1. ASSUME NEW u \in Threads, Step(u) \/ Fail(u) PROVE Moved(th)
  BY <1>1, StepMoves DEF Moved
<1>2. ASSUME NEW u \in Threads, NEW job \in scope.jobs, Start(u, job) PROVE Moved(th)
  <2>0. PICK list \in Collects(job) : Goes(u, Run(job, list)) /\ u \in Starters
    BY <1>2 DEF Start
  <2> DEFINE t == [Idle EXCEPT !.job = job, !.list = list, !.started = day]
  <2>1. Goes(u, EnterCall(t, 1)) /\ u \in Starters
    BY <2>0 DEF Run
  <2>2. job \in Jobs /\ job \in JobNames /\ list \in Lists
    BY JobsKnown, CollectsLists, ScansAssumption DEF Basic, TypeOK, JobNames
  <2>3. t \in ThreadRecords /\ t.job = job /\ t.list \in Lists
    BY <1>i, <2>2
  <2> HIDE DEF t
  <2>4. CASE th = u
    <3>1. thread'[th] = EnterCall(t, 1)
      BY <1>0, <2>1, <2>4 DEF Goes
    <3> QED BY <1>s, <2>1, <2>2, <2>3, <2>4, <3>1 DEF Moved, Started
  <2>5. CASE th # u
    <3>1. thread'[th] = thread[th]
      BY <1>0, <2>1, <2>5 DEF Goes
    <3> QED BY <3>1 DEF Moved
  <2> QED BY <2>4, <2>5
<1>3. ASSUME Midnight \/ Restart \/ UNCHANGED vars PROVE Moved(th)
  BY <1>3 DEF Midnight, Restart, vars, Moved
<1>4. ASSUME Crash PROVE Moved(th)
  BY <1>4 DEF Crash, Moved, Idle
<1>5. ASSUME Resume PROVE Moved(th)
  <2>1. CASE th \in Resumable /\ Interrupted(th)
    <3>0. PICK lists \in Collections : thread'[th] = Run(th, lists[th])
      BY <1>5, <2>1 DEF Resume
    <3> DEFINE t == [Idle EXCEPT !.job = th, !.list = lists[th], !.started = day]
    <3>1. thread'[th] = EnterCall(t, 1) /\ up = "starting" /\ up' = "up"
      BY <1>5, <3>0 DEF Resume, Run
    <3>2. lists[th] \in Lists /\ th \in Jobs /\ th \in JobNames
      BY <2>1, <3>0, JobsKnown DEF Collections, JobNames
    <3>3. t \in ThreadRecords /\ t.job = th /\ t.list \in Lists
      BY <1>i, <3>2
    <3> HIDE DEF t
    <3> QED BY <1>s, <2>1, <3>1, <3>2, <3>3 DEF Moved, Started
  <2>2. CASE ~(th \in Resumable /\ Interrupted(th))
    <3>1. thread'[th] = thread[th]
      BY <1>5, <2>2 DEF Resume
    <3> QED BY <3>1 DEF Moved
  <2> QED BY <2>1, <2>2
<1> QED BY <1>1, <1>2, <1>3, <1>4, <1>5 DEF Next

\* What has been marked stays so, and only a deep sync at that stage marks it.
StageRows == DeepSyncKeys \ {"universe_deep_sync"}
MarkedBy(th, key, d) ==
  Syncs(thread[th]) /\ At(th).stage = key /\ thread[th].started = d /\ thread[th].at \in 1..5 /\ key = StageKeys[thread[th].at]

LEMMA StageMarks ==
  ASSUME Inv, [Next]_vars, NEW key \in StageRows, NEW d \in Days
  PROVE  /\ Completed(key, d) => Completed(key, d)'
         /\ Completed(key, d)' => Completed(key, d) \/ \E th \in Threads : MarkedBy(th, key, d)
<1>0. key \in Types /\ key \notin ScanTypes /\ Basic
  BY DEF StageRows, Types, DeepSyncKeys, ScanTypes, Inv
<1>1. ASSUME NEW th \in Threads, Mark(th)
      PROVE  /\ Completed(key, d) => Completed(key, d)'
             /\ Completed(key, d)' => Completed(key, d) \/ MarkedBy(th, key, d)
  <2>1. CASE At(th).stage = key /\ thread[th].started = d
    <3>1. thread[th].pc = "mark" /\ Placed(thread[th]) /\ Len(Program(thread[th].job, thread[th].list)) \in 1..5
      BY <1>0, <1>1, AtCall DEF Mark, Is, Basic, AllPlaced
    <3>2. thread[th].at \in 1..Len(Program(thread[th].job, thread[th].list)) /\ thread[th].job \in JobNames
      BY <3>1 DEF Placed
    <3>3. thread[th].at \in 1..5
      <4>1. ASSUME NEW k \in 1..5, NEW n \in 1..k PROVE n \in 1..5
        OBVIOUS
      <4> QED BY <3>1, <3>2, <4>1
    <3>4. At(th).stage # ""
      BY <2>1 DEF StageRows, DeepSyncKeys
    <3>5. thread[th].job = "run_universe_deep_sync" /\ At(th).stage = StageKeys[thread[th].at]
      <4>1. Program(thread[th].job, thread[th].list)[thread[th].at].stage =
              IF thread[th].job = "run_universe_deep_sync" THEN StageKeys[thread[th].at] ELSE ""
        BY <3>2, StagesOf
      <4> QED BY <3>4, <4>1 DEF At
    <3>6. MarkedBy(th, key, d)
      BY <2>1, <3>1, <3>3, <3>5 DEF MarkedBy, Syncs
    <3>7. Completed(key, d)'
      BY <1>0, <1>1, <2>1, Marked DEF Completed
    <3> QED BY <3>6, <3>7
  <2>2. CASE ~(At(th).stage = key /\ thread[th].started = d)
    BY <1>0, <1>1, <2>2, Marked DEF Completed
  <2> QED BY <2>1, <2>2
<1>2. ASSUME NEW th \in Threads, RowStep(th) PROVE states'[key] = states[key]
  <2>1. Touches(th)
    BY <1>2, RowStepKeeps
  <2> QED BY <1>0, <2>1 DEF Touches
<1>3. ASSUME NEW th \in Threads, Gate(th) \/ DoOther(th) \/ LookDone(th) \/ InsertFails(th) \/ Fail(th)
      PROVE  states' = states
  BY <1>3 DEF Gate, DoOther, LookDone, InsertFails, Fail
<1>4. ASSUME NEW th \in Threads, NEW job \in scope.jobs, Start(th, job) PROVE states' = states
  BY <1>4 DEF Start
<1>5. ASSUME Midnight \/ Crash \/ Restart \/ Resume \/ UNCHANGED vars PROVE states' = states
  BY <1>5 DEF Midnight, Crash, Restart, Resume, vars
<1>6. \/ \E th \in Threads : Mark(th)
      \/ states'[key] = states[key]
  BY <1>2, <1>3, <1>4, <1>5 DEF Next, Step, RowStep
<1> QED BY <1>1, <1>6 DEF Completed

\* A failure is not forgotten.
LEMMA FailuresCount ==
  ASSUME TypeOK, [Next]_vars
  PROVE  Failed => Failed'
<1>0. spent.failures \in Nat
  <2>1. spent.failures \in 0..scope.failures
    BY DEF TypeOK
  <2> QED BY <2>1
<1>1. ASSUME NEW th \in Threads, Step(th) PROVE spent' = spent
  BY <1>1 DEF Step, Gate, Mark, DoOther, LookDone, LookUnfinished, LookNew, InsertRow, InsertFails,
              ResetRow, Process, Complete
<1>2. ASSUME NEW th \in Threads, Fail(th) PROVE spent'.failures = spent.failures + 1
  BY <1>2 DEF Fail, TypeOK
<1>3. ASSUME NEW th \in Threads, NEW job \in scope.jobs, Start(th, job) PROVE spent'.failures = spent.failures
  BY <1>3 DEF Start, TypeOK
<1>4. ASSUME Crash PROVE spent'.failures = spent.failures
  BY <1>4 DEF Crash, TypeOK
<1>5. ASSUME Midnight \/ Restart \/ Resume \/ UNCHANGED vars PROVE spent' = spent
  BY <1>5 DEF Midnight, Restart, Resume, vars
<1>6. spent'.failures = spent.failures \/ spent'.failures = spent.failures + 1
  BY <1>1, <1>2, <1>3, <1>4, <1>5 DEF Next
<1> QED BY <1>0, <1>6 DEF Failed

LEMMA SyncsKeepOrder ==
  ASSUME Inv, SyncsInOrder, [Next]_vars
  PROVE  SyncsInOrder'
<1>0. Basic /\ TypeOK
  BY DEF Inv, Basic
<1> SUFFICES ASSUME ~Failed', NEW th \in Threads, Syncs(thread'[th]), NEW k \in {1, 2, 4}, k < thread'[th].at
             PROVE  states'[StageKeys[k]][thread'[th].started].status = "COMPLETED"
  BY DEF SyncsInOrder, Behind, Completed, Syncs
<1>1. ~Failed /\ (Syncs(thread[th]) => Behind(thread[th]))
  BY <1>0, FailuresCount DEF SyncsInOrder
<1>2. /\ StageKeys[k] \in StageRows
      /\ thread[th] \in ThreadRecords /\ thread'[th] \in ThreadRecords
  <2>1. AllPlaced /\ AllPlaced'
    BY <1>0, InvStep DEF Inv, Basic
  <2>2. StageKeys[k] \in StageRows
    BY DEF StageKeys, StageRows, DeepSyncKeys
  <2>3. thread[th] \in ThreadRecords
    BY <2>1 DEF AllPlaced
  <2>4. Placed(thread'[th])
    BY <2>1 DEF AllPlaced, Placed, ThreadRecords, CallOf
  <2> QED BY <2>2, <2>3, <2>4 DEF Placed
<1>3. thread[th].at \in 0..5 /\ thread'[th].at \in 0..5 /\ thread[th].started \in Days
  BY <1>2 DEF ThreadRecords
<1>4. Moved(th)
  BY <1>0, EveryStepMoves
<1>5. ASSUME thread[th].pc # "idle", Kept(th), k < thread[th].at
      PROVE  states'[StageKeys[k]][thread'[th].started].status = "COMPLETED"
  <2>1. Completed(StageKeys[k], thread[th].started)
    BY <1>1, <1>5 DEF Syncs, Behind, Kept
  <2> DEFINE key == StageKeys[k]
  <2>2. \A d \in Days : Completed(key, d) => states'[key][d].status = "COMPLETED"
    <3> HIDE DEF key
    <3>1. \A d \in Days : Completed(key, d) => Completed(key, d)'
      BY <1>2, StageMarks DEF key
    <3> QED BY <3>1 DEF Completed
  <2>3. states'[key][thread[th].started].status = "COMPLETED"
    BY <1>3, <2>1, <2>2
  <2> QED BY <1>5, <2>3 DEF Kept
<1>6. ASSUME thread'[th] = thread[th] PROVE states'[StageKeys[k]][thread'[th].started].status = "COMPLETED"
  BY <1>5, <1>6 DEF Syncs, Kept
<1>7. ~Started(th)
  <2>1. k \in Nat /\ k >= 1
    OBVIOUS
  <2> QED BY <2>1 DEF Started
<1>8. ASSUME thread[th].pc # "idle", Kept(th), thread'[th].at = thread[th].at + 1, Left(th)
      PROVE  states'[StageKeys[k]][thread'[th].started].status = "COMPLETED"
  <2>1. CASE k < thread[th].at
    BY <1>5, <1>8, <2>1
  <2>2. CASE ~(k < thread[th].at)
    <3>1. k = thread[th].at
      BY <1>3, <1>8, <2>2
    <3>2. At(th).stage = StageKeys[k]
      <4>1. thread[th].job = "run_universe_deep_sync" /\ Placed(thread[th])
        BY <1>0, <1>8 DEF Syncs, Kept, Basic, AllPlaced
      <4> QED BY <1>8, <3>1, <4>1, StagesOf DEF At, Placed
    <3>3. states'[StageKeys[k]][thread[th].started].status = "COMPLETED"
      BY <1>2, <1>8, <3>2 DEF Left, StageRows, DeepSyncKeys, Failed
    <3> QED BY <1>8, <3>3 DEF Kept
  <2> QED BY <2>1, <2>2
<1> QED BY <1>4, <1>5, <1>6, <1>7, <1>8 DEF Moved, Syncs

LEMMA StagesKeepOrder ==
  ASSUME Inv, StagesInOrder, SyncsInOrder, [Next]_vars
  PROVE  StagesInOrder'
<1>0. TypeOK
  BY DEF Inv, Basic
<1> SUFFICES ASSUME ~Failed', NEW d \in Days
             PROVE  /\ Completed("deep_sync_s5", d)' => Completed("deep_sync_s4", d)'
                    /\ Completed("deep_sync_s4", d)' => Completed("deep_sync_s2", d)'
                    /\ Completed("deep_sync_s2", d)' => Completed("deep_sync_s1", d)'
  BY DEF StagesInOrder, Completed
<1>1. ~Failed
  BY <1>0, FailuresCount
<1>2. ASSUME NEW m \in {2, 4, 5}, NEW k \in {1, 2, 4}, k < m, Completed(StageKeys[m], d)',
             Completed(StageKeys[m], d) => Completed(StageKeys[k], d)
      PROVE  Completed(StageKeys[k], d)'
  <2>1. StageKeys[m] \in StageRows /\ StageKeys[k] \in StageRows
    BY DEF StageKeys, StageRows, DeepSyncKeys
  <2>2. CASE Completed(StageKeys[m], d)
    BY <1>2, <2>1, <2>2, StageMarks
  <2>3. ASSUME NEW th \in Threads, MarkedBy(th, StageKeys[m], d) PROVE Completed(StageKeys[k], d)'
    <3>1. thread[th].at = m
      BY <2>3 DEF MarkedBy, StageKeys
    <3>2. Completed(StageKeys[k], d)
      BY <1>1, <1>2, <2>3, <3>1 DEF MarkedBy, SyncsInOrder, Behind
    <3> QED BY <2>1, <3>2, StageMarks
  <2> QED BY <1>2, <2>1, <2>2, <2>3, StageMarks
<1>3. /\ Completed("deep_sync_s5", d) => Completed("deep_sync_s4", d)
      /\ Completed("deep_sync_s4", d) => Completed("deep_sync_s2", d)
      /\ Completed("deep_sync_s2", d) => Completed("deep_sync_s1", d)
  BY <1>1 DEF StagesInOrder
<1>4. /\ StageKeys[1] = "deep_sync_s1" /\ StageKeys[2] = "deep_sync_s2"
      /\ StageKeys[4] = "deep_sync_s4" /\ StageKeys[5] = "deep_sync_s5"
  BY DEF StageKeys
<1>5. Completed("deep_sync_s5", d)' => Completed("deep_sync_s4", d)'
  BY <1>2, <1>3, <1>4
<1>6. Completed("deep_sync_s4", d)' => Completed("deep_sync_s2", d)'
  BY <1>2, <1>3, <1>4
<1>7. Completed("deep_sync_s2", d)' => Completed("deep_sync_s1", d)'
  BY <1>2, <1>3, <1>4
<1> QED BY <1>5, <1>6, <1>7

\* The process leaves "up" only by a crash, which ends every thread.
LEMMA UpKeeps ==
  ASSUME [Next]_vars
  PROVE  \/ up' = up
         \/ up' = "up"
         \/ up = "down"
         \/ \A th \in Threads : thread'[th].pc = "idle"
<1>1. ASSUME NEW th \in Threads, Step(th) \/ Fail(th) PROVE up' = up
  BY <1>1 DEF Step, Fail, Gate, Mark, DoOther, LookDone, LookUnfinished, LookNew, InsertRow, InsertFails,
              ResetRow, Process, Complete
<1>2. ASSUME NEW th \in Threads, NEW job \in scope.jobs, Start(th, job) PROVE up' = up
  BY <1>2 DEF Start
<1>3. ASSUME Crash PROVE \A th \in Threads : thread'[th].pc = "idle"
  BY <1>3 DEF Crash, Idle
<1>4. ASSUME Midnight \/ Restart \/ Resume \/ UNCHANGED vars PROVE up' = up \/ up' = "up" \/ up = "down"
  BY <1>4 DEF Midnight, Restart, Resume, vars
<1> QED BY <1>1, <1>2, <1>3, <1>4 DEF Next

LEMMA ResumedKeeps ==
  ASSUME Basic, Resumed, [Next]_vars
  PROVE  Resumed'
<1> DEFINE Begun(th) == up = "starting" /\ up' = "up" /\ Interrupted(th)
<1>1. ASSUME NEW th \in Resumable, thread'[th].pc # "idle"
      PROVE  /\ up' = "up" /\ thread'[th].job = th
             /\ Begun(th) \/ (thread[th].pc # "idle" /\ up = "up")
  <2>1. th \in Threads /\ th \notin Starters
    BY ScansAssumption DEF Threads
  <2>2. Moved(th)
    BY <2>1, EveryStepMoves
  <2>3. ASSUME thread[th].pc # "idle", thread'[th].job = thread[th].job
        PROVE  up = "up" /\ up' = "up" /\ thread'[th].job = th
    <3>1. up = "up" /\ thread[th].job = th
      BY <2>3 DEF Resumed
    <3> QED BY <1>1, <2>1, <2>3, <3>1, UpKeeps
  <2>4. CASE Started(th)
    <3>1. up = "starting" /\ up' = "up" /\ Interrupted(th) /\ thread'[th].job = th
      BY <2>1, <2>4 DEF Started
    <3> QED BY <3>1
  <2>5. CASE ~Started(th)
    <3>1. thread[th].pc # "idle" /\ thread'[th].job = thread[th].job
      <4>1. CASE thread'[th] = thread[th]
        BY <1>1, <4>1
      <4>2. CASE thread[th].pc # "idle" /\ Kept(th)
        BY <4>2 DEF Kept
      <4> QED BY <1>1, <2>2, <2>5, <4>1, <4>2 DEF Moved
    <3> QED BY <2>3, <3>1
  <2> QED BY <2>4, <2>5
<1>2. ASSUME NEW s \in Resumable, NEW t \in Resumable,
             thread[s].pc = "idle" \/ thread[t].pc = "idle", ~(Interrupted(s) /\ Interrupted(t))
      PROVE  thread'[s].pc = "idle" \/ thread'[t].pc = "idle"
  BY <1>1, <1>2
<1>3. /\ ~(Interrupted("run_overnight_quant_scan") /\ Interrupted("_run_daily_tr"))
      /\ ~(Interrupted("run_weekend_universe_routine") /\ Interrupted("_run_universe_tr"))
  BY DEF Interrupted, DailyInterrupted, TailsAlone
<1>4. {"run_overnight_quant_scan", "_run_daily_tr", "run_weekend_universe_routine", "_run_universe_tr"}
        \subseteq Resumable
  BY DEF Resumable
<1> HIDE DEF Begun
<1> QED BY <1>1, <1>2, <1>3, <1>4 DEF Resumed

\* The types of the rows that a resumed job works on.
RowTypes(job) ==
  CASE job = "run_overnight_quant_scan" -> {"daily", "tail_risk_daily"}
    [] job = "run_weekend_universe_routine" -> {"universe", "tail_risk_universe"}
    [] job = "run_universe_deep_sync" -> {"universe_deep_sync"}
    [] job = "run_ml_backfill" -> {}
    [] job = "_run_daily_tr" -> {"tail_risk_daily"}
    [] job = "_run_universe_tr" -> {"tail_risk_universe"}

LEMMA TypesOf ==
  ASSUME NEW job \in Resumable, NEW list, NEW n \in 1..Len(Program(job, list))
  PROVE  Program(job, list)[n].type \in RowTypes(job) \union {"", "ml_backfill"}
<1> DEFINE R == RowTypes(job) \union {"", "ml_backfill"}
           Good(call) == call.type \in R
<1>1. /\ \A type \in R : \A l : Good(Scan(type, l)) /\ Good(TailRisks(type, l))
      /\ \A l : Good(Backfill(l))
      /\ Good(Other)
      /\ \A type \in R : \A l, key : /\ Good(Stage(key, Scan(type, l)))
                                     /\ Good(Stage(key, Backfill(l)))
                                     /\ Good(Stage(key, Other))
  BY DEF Scan, TailRisks, Backfill, Other, Stage, Call
<1>2. /\ job = "run_overnight_quant_scan" => {"daily", "tail_risk_daily"} \subseteq R
      /\ job = "run_weekend_universe_routine" => {"universe", "tail_risk_universe"} \subseteq R
      /\ job = "run_universe_deep_sync" => {"universe_deep_sync"} \subseteq R
      /\ job = "_run_daily_tr" => {"tail_risk_daily"} \subseteq R
      /\ job = "_run_universe_tr" => {"tail_risk_universe"} \subseteq R
  BY DEF RowTypes
<1> HIDE DEF Good, R
<1>3. \/ \E a : Program(job, list) = <<a>> /\ Good(a)
      \/ \E a, b : Program(job, list) = <<a, b>> /\ Good(a) /\ Good(b)
      \/ \E a, b, c, d : Program(job, list) = <<a, b, c, d>> /\ Good(a) /\ Good(b) /\ Good(c) /\ Good(d)
      \/ \E a, b, c, d, e : /\ Program(job, list) = <<a, b, c, d, e>>
                            /\ Good(a) /\ Good(b) /\ Good(c) /\ Good(d) /\ Good(e)
  <2>1. CASE job = "run_overnight_quant_scan"
    BY <1>1, <1>2, <2>1 DEF Program
  <2>2. CASE job \in {"run_ml_backfill", "_run_daily_tr", "_run_universe_tr"}
    BY <1>1, <1>2, <2>2 DEF Program
  <2>3. CASE job = "run_weekend_universe_routine"
    BY <1>1, <1>2, <2>3 DEF Program
  <2>4. CASE job = "run_universe_deep_sync"
    <3>1. "universe_deep_sync" \in R
      BY <1>2, <2>4
    <3> QED BY <1>1, <2>4, <3>1 DEF Program
  <2> QED BY <2>1, <2>2, <2>3, <2>4 DEF Resumable
<1>4. Good(Program(job, list)[n])
  BY <1>3
<1> QED BY <1>4 DEF Good, R

LEMMA ResumedAreApart ==
  ASSUME Basic, Resumed
  PROVE  ResumedApart
<1> SUFFICES ASSUME NEW s \in Resumable, NEW t \in Resumable, s # t,
                    thread[s].pc # "idle", thread[t].pc # "idle", At(s).type = At(t).type
             PROVE  At(s).type \in {"", "ml_backfill"}
  BY DEF ResumedApart
<1>1. ASSUME NEW th \in Resumable, thread[th].pc # "idle"
      PROVE  At(th).type \in RowTypes(th) \union {"", "ml_backfill"}
  <2>1. thread[th].job = th /\ thread[th].at \in 1..Len(Program(th, thread[th].list))
    BY <1>1 DEF Resumed, Basic, AllPlaced, Placed, Threads
  <2> QED BY <2>1, TypesOf DEF At
<1>2. RowTypes(s) \intersect RowTypes(t) = {}
  <2>1. \/ s = "run_ml_backfill" \/ t = "run_ml_backfill"
        \/ {s, t} # {"run_overnight_quant_scan", "_run_daily_tr"}
           /\ {s, t} # {"run_weekend_universe_routine", "_run_universe_tr"}
    BY DEF Resumed
  <2> QED BY <2>1 DEF RowTypes, Resumable, Resumed
<1> QED BY <1>1, <1>2

\* The deep sync's stages are marked in order on each day as long as nothing fails,
\* across restarts, overlapping deep syncs and midnight; and two threads that were
\* resumed after a restart never work on the same row (the backfill's apart).
THEOREM StagesOrderedApartHolds == Spec => []StagesOrderedApart
<1>1. Init => OrderInv
  <2> SUFFICES ASSUME Init PROVE OrderInv
    OBVIOUS
  <2>1. \A th \in Threads : thread[th].pc = "idle"
    BY DEF Init, Idle
  <2>2. Resumable \subseteq Threads
    BY DEF Threads
  <2>3. StagesInOrder
    BY DEF Init, StagesInOrder, Completed, None, Types, DeepSyncKeys
  <2> QED BY <2>1, <2>2, <2>3 DEF OrderInv, SyncsInOrder, Syncs, Resumed, Resumable
<1>2. Inv /\ OrderInv /\ [Next]_vars => OrderInv'
  BY SyncsKeepOrder, StagesKeepOrder, ResumedKeeps DEF OrderInv, Inv
<1>3. Inv /\ OrderInv => StagesOrderedApart
  BY ResumedAreApart DEF Inv, OrderInv, StagesOrderedApart, Basic
<1> QED BY <1>1, <1>2, <1>3, Invariance, PTL DEF Spec

=============================================================================
