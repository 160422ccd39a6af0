---------------------- MODULE MCServicesKept_proofs -----------------------
(***************************************************************************)
(* Proofs about services that keep something, for any number of callers,   *)
(* writes, edits, days and restarts.                                       *)
(*                                                                         *)
(* PortfolioTotals: that a ledger write shows at once rests on the order   *)
(* of the two reads, the revision first, the ledger after it.  Whoever     *)
(* holds totals under a revision has read the ledger no earlier than       *)
(* anyone who read the same revision learned of a write, because the       *)
(* revision changes with every write that returns (Covers).  That ages are *)
(* honest rests on the clock being started before the prices are read.     *)
(*                                                                         *)
(* SettingsFile: what is remembered under a signature is the file's as     *)
(* long as the signature fits, because a file that fits was not touched    *)
(* since and is not config.tmp (SignHolds, SignTells); and a save that     *)
(* meets no other writes what was saved before, changed in its setting.    *)
(*                                                                         *)
(* ValueHistory: a day that is good stays good because a task that rewrites*)
(* it has read the ledger as it is since the last edit (TasksFresh), and   *)
(* the days that a task alone has passed are good (PastIsGood).            *)
(*                                                                         *)
(* BackupRestore: an archive that verifies stays because those without a   *)
(* row are no more than the failures that left them (OneIsKept): whoever   *)
(* prunes counts at most these and the archives of the backups at work     *)
(* ahead of the newest that verifies (NewestStays).  A recorded row stays  *)
(* because a restore carries it past the swap (RowsStay), and damage stays *)
(* out because a copy is hashed once, before anything of it is used.       *)
(*                                                                         *)
(* AlertGate: with one scan at a time a row tells what was told last       *)
(* whenever nobody is between sending and stamping (RowTells), unless a    *)
(* stamp was lost that no repeated alert has paid for yet.  The daily gate *)
(* counts instead: today's alerts without a stamp are lost stamps, those   *)
(* beyond the limit are repeats (DayCounts).                               *)
(*                                                                         *)
(* TalkRetry: an entry is moved between the queue and one thread's hand,   *)
(* never copied (Moved), because both are split in one pass under the      *)
(* lock.  What a thread holds was tried once more than it was queued again *)
(* (Fit), so the count that the entry carries bounds the calls.            *)
(***************************************************************************)
EXTENDS MCServicesKept, FiniteSetTheorems, SequenceTheorems, WellFoundedInduction, TLAPS

ActorState == [at : Steps, revision : Nat, print : Nat, age : Ages, ledger : Nat, prices : Nat,
               keep : BOOLEAN, needs : Nat, wants : Nat]
CacheState == [set : BOOLEAN, revision : Nat, print : Nat, age : Ages, ledger : Nat, prices : Nat]

Typed ==
  /\ {ledger, revision, returned, prices, promised} \subseteq Nat
  /\ unbumped \subseteq 1..ledger
  /\ returned <= ledger /\ prices <= MaxPrices
  /\ actor \in [Actors -> ActorState]
  /\ cache \in CacheState
  /\ replaced \in [0..MaxPrices -> Ages]

\* Who has read a revision and still goes by it, and who holds totals under one.
Counting(a) == actor[a].at \in {"key", "look", "ledger", "prices", "store"}
Holds(a) == actor[a].at \in {"prices", "store"}

\* Nobody has read a revision, or knows of a write, that is still to come.
InThePast ==
  /\ cache.set => cache.revision <= revision
  /\ \A a \in Actors : Counting(a) => actor[a].revision <= revision /\ actor[a].needs <= returned

\* Totals of ledger version l serve everybody who has read revision rev.
Covers(rev, l) ==
  /\ rev = revision => returned <= l
  /\ \A a \in Actors : Counting(a) /\ actor[a].revision = rev => actor[a].needs <= l

HeldCovers ==
  /\ cache.set => Covers(cache.revision, cache.ledger)
  /\ \A a \in Actors : Holds(a) => Covers(actor[a].revision, actor[a].ledger)

LedgerInv == InThePast /\ HeldCovers /\ LedgerShownAtOnce

\* The prices of the totals to be kept are no older than their clock says, and
\* prices that were not replaced have no age.
AgeInv ==
  /\ AgeIsHonest
  /\ \A a \in Actors : actor[a].at = "store" => replaced[actor[a].prices] <= actor[a].age
  /\ \A v \in 0..MaxPrices : v >= prices => replaced[v] = 0
  /\ cache.prices <= prices /\ \A a \in Actors : actor[a].prices <= prices

Inv == Typed /\ LedgerInv /\ AgeInv

-----------------------------------------------------------------------------
LEMMA IdleTyped == ASSUME Bounds PROVE Idle \in ActorState /\ NoCache \in CacheState /\ 0 \in Ages
BY DEF Bounds, Idle, NoCache, ActorState, CacheState, Steps, Ages

LEMMA OlderTyped ==
  ASSUME Bounds, NEW n \in Ages
  PROVE  Older(n) \in Ages /\ n <= Older(n) /\ \A m \in Ages : m <= n => Older(m) <= Older(n)
BY DEF Bounds, Older, Ages

LEMMA InitInv == ASSUME Bounds, Init PROVE Inv
<1>1. Typed
  BY IdleTyped DEF Init, Typed, Bounds
<1>2. LedgerInv
  BY DEF Init, LedgerInv, InThePast, HeldCovers, LedgerShownAtOnce, NoCache, Idle, Counting, Holds, Actors
<1>3. AgeInv
  BY DEF Init, AgeInv, AgeIsHonest, NoCache, Idle
<1> QED
  BY <1>1, <1>2, <1>3 DEF Inv

-----------------------------------------------------------------------------
(* The writers and the clock *)

LEMMA CommitStep == ASSUME Bounds, Inv, Commit PROVE Inv'
<1>0. ledger \in Nat /\ ledger' = ledger + 1 /\ unbumped' = unbumped \cup {ledger + 1}
  BY DEF Inv, Typed, Commit
<1>1. Typed'
  <2>1. unbumped' \subseteq 1..ledger'
    BY <1>0 DEF Inv, Typed
  <2>2. {ledger, revision, returned, prices, promised}' \subseteq Nat /\ returned' <= ledger'
    BY <1>0 DEF Inv, Typed, Commit
  <2> QED
    BY <2>1, <2>2 DEF Inv, Typed, Commit
<1>2. LedgerInv'
  BY DEF Inv, Typed, LedgerInv, InThePast, HeldCovers, Covers, LedgerShownAtOnce, Counting, Holds, Commit
<1>3. AgeInv'
  BY DEF Inv, AgeInv, AgeIsHonest, Commit
<1> QED
  BY <1>1, <1>2, <1>3 DEF Inv

LEMMA BumpStep == ASSUME Bounds, Inv, Bump PROVE Inv'
<1>1. PICK w \in unbumped : unbumped' = unbumped \ {w} /\ returned' = IF w > returned THEN w ELSE returned
  BY DEF Bump
<1>2. w \in Nat /\ w <= ledger /\ returned <= returned' /\ returned' <= ledger
  BY <1>1 DEF Inv, Typed
<1>3. Typed'
  BY <1>1, <1>2 DEF Inv, Typed, Bump
<1>4. InThePast' /\ LedgerShownAtOnce'
  BY <1>2, SMTT(30) DEF Inv, Typed, ActorState, CacheState, LedgerInv, InThePast, LedgerShownAtOnce, Counting, Bump
<1>5. HeldCovers'
  <2>1. cache.set => cache.revision < revision'
    BY DEF Inv, Typed, CacheState, LedgerInv, InThePast, Bump
  <2>2. \A a \in Actors : Holds(a) => actor[a].revision < revision'
    BY DEF Inv, Typed, ActorState, LedgerInv, InThePast, Bump, Counting, Holds
  <2> QED
    BY <2>1, <2>2, SMTT(30) DEF Inv, Typed, ActorState, CacheState, LedgerInv, HeldCovers, Covers, Counting, Holds, Bump
<1>6. AgeInv'
  BY DEF Inv, AgeInv, AgeIsHonest, Bump
<1> QED
  BY <1>3, <1>4, <1>5, <1>6 DEF Inv, LedgerInv

\* Prices are written, by the scheduler or by refresh-now.
LEMMA PricesStep == ASSUME Bounds, Inv, Price \/ RefreshNow PROVE Inv'
<1>1. /\ prices < MaxPrices /\ prices' = prices + 1
      /\ UNCHANGED <<ledger, revision, unbumped, returned, replaced, cache, actor, promised>>
  BY DEF Price, RefreshNow, WritePrices
<1>2. Typed'
  BY <1>1 DEF Inv, Typed, Bounds
<1>3. LedgerInv'
  BY <1>1 DEF Inv, LedgerInv, InThePast, HeldCovers, Covers, LedgerShownAtOnce, Counting, Holds
<1>4. AgeInv'
  BY <1>1, SMTT(30) DEF Inv, Typed, ActorState, CacheState, Bounds, AgeInv, AgeIsHonest
<1> QED
  BY <1>2, <1>3, <1>4 DEF Inv

LEMMA InvalidateStep == ASSUME Bounds, Inv, Invalidate PROVE Inv'
<1>1. Typed'
  BY IdleTyped DEF Inv, Typed, Invalidate
<1>2. LedgerInv'
  BY DEF Inv, LedgerInv, InThePast, HeldCovers, Covers, LedgerShownAtOnce, Counting, Holds, Invalidate, NoCache
<1>3. AgeInv'
  BY DEF Inv, Typed, AgeInv, AgeIsHonest, Invalidate, NoCache
<1> QED
  BY <1>1, <1>2, <1>3 DEF Inv

LEMMA TickStep == ASSUME Bounds, Inv, Tick PROVE Inv'
<1>1. cache' \in CacheState /\ replaced' \in [0..MaxPrices -> Ages]
  BY OlderTyped, IdleTyped DEF Inv, Typed, Tick, CacheState
<1>2. \A a \in Actors : [actor[a] EXCEPT !.age = Older(@)] \in ActorState
  BY OlderTyped DEF Inv, Typed, ActorState
<1>3. Typed'
  BY <1>1, <1>2 DEF Inv, Typed, Tick
<1>4. /\ \A a \in Actors : /\ actor'[a].at = actor[a].at /\ actor'[a].revision = actor[a].revision
                           /\ actor'[a].needs = actor[a].needs /\ actor'[a].ledger = actor[a].ledger
                           /\ actor'[a].prices = actor[a].prices
                           /\ actor[a].at = "store" => actor'[a].age = Older(actor[a].age)
      /\ cache'.set = cache.set /\ cache'.revision = cache.revision /\ cache'.ledger = cache.ledger
      /\ cache'.prices = cache.prices /\ (cache.set => cache'.age = Older(cache.age))
  BY DEF Inv, Typed, ActorState, CacheState, Tick
<1>5. UNCHANGED <<ledger, revision, returned, prices>> /\ Threads \subseteq Actors
  BY DEF Tick, Actors
<1>6. LedgerInv'
  BY <1>4, <1>5 DEF Inv, LedgerInv, InThePast, HeldCovers, Covers, LedgerShownAtOnce, Counting, Holds
<1>7. \A v \in 0..MaxPrices : replaced'[v] <= Older(replaced[v]) /\ (v >= prices => replaced'[v] = 0)
  BY OlderTyped DEF Inv, Typed, Tick, Ages, Bounds
<1>8. ASSUME NEW v \in 0..MaxPrices, NEW n \in Ages, replaced[v] <= n
      PROVE  replaced'[v] <= Older(n)
  <2>1. Older(replaced[v]) <= Older(n) /\ Older(replaced[v]) \in Ages /\ Older(n) \in Ages
    BY <1>8, OlderTyped DEF Inv, Typed
  <2>2. replaced'[v] \in Ages /\ replaced'[v] <= Older(replaced[v])
    BY <1>1, <1>7
  <2> QED
    BY <2>1, <2>2 DEF Ages
<1>9. AgeInv'
  <2>1. AgeIsHonest'
    BY <1>4, <1>8 DEF Inv, Typed, CacheState, AgeInv, AgeIsHonest, Bounds
  <2>2. (\A a \in Actors : actor[a].at = "store" => replaced[actor[a].prices] <= actor[a].age)'
    BY <1>4, <1>8 DEF Inv, Typed, ActorState, AgeInv, Bounds
  <2> QED
    BY <1>4, <1>5, <1>7, <2>1, <2>2 DEF Inv, AgeInv
<1> QED
  BY <1>3, <1>6, <1>9 DEF Inv

-----------------------------------------------------------------------------
(* Requests and the refresher *)

\* A step of one actor that leaves the writes and the kept answer alone.
Alone(a, new) == actor' = [actor EXCEPT ![a] = new] /\ UNCHANGED <<writes, cache>>

LEMMA AloneStep ==
  ASSUME Bounds, Inv, NEW a \in Actors, NEW new \in ActorState, Alone(a, new),
         new.at \in {"key", "look", "ledger", "prices", "store"} =>
           /\ new.revision <= revision /\ new.needs <= returned
           /\ \/ Counting(a) /\ new.revision = actor[a].revision /\ new.needs = actor[a].needs
              \/ new.revision = revision,
         new.at \in {"prices", "store"} => Covers(new.revision, new.ledger) /\ new.needs <= new.ledger,
         new.at = "answered" => new.needs <= new.ledger,
         new.prices <= prices,
         new.at = "store" => replaced[new.prices] <= new.age
  PROVE  Inv'
<1> USE DEF Inv, Alone, writes
<1>1. Typed'
  BY DEF Typed
<1>2. /\ actor'[a] = new /\ \A b \in Actors \ {a} : actor'[b] = actor[b]
      /\ Threads \subseteq Actors /\ Actors' = Actors
  BY DEF Typed, Actors
<1>3. InThePast' /\ LedgerShownAtOnce'
  BY <1>2 DEF Typed, ActorState, LedgerInv, InThePast, LedgerShownAtOnce, Counting
<1>4. ASSUME NEW rev \in Nat, NEW l \in Nat, Covers(rev, l)
      PROVE  Covers(rev, l)'
  <2>1. UNCHANGED <<revision, returned>>
    OBVIOUS
  <2>2. ASSUME NEW b \in Actors, Counting(b)', actor'[b].revision = rev
        PROVE  actor'[b].needs <= l
    <3>1. CASE b # a
      BY <1>2, <1>4, <2>2, <3>1 DEF Covers, Counting
    <3>2. CASE b = a
      <4>1. new.at \in {"key", "look", "ledger", "prices", "store"} /\ new.revision = rev
        BY <1>2, <2>2, <3>2 DEF Counting
      <4>2. CASE Counting(a) /\ new.revision = actor[a].revision /\ new.needs = actor[a].needs
        BY <1>2, <1>4, <3>2, <4>1, <4>2 DEF Covers
      <4>3. CASE new.revision = revision
        <5>1. new.needs <= returned /\ returned <= l /\ new.needs \in Nat /\ returned \in Nat
          BY <1>4, <4>1, <4>3 DEF Covers, Typed, ActorState
        <5> QED
          BY <1>2, <3>2, <5>1
      <4> QED
        BY <4>1, <4>2, <4>3
    <3> QED
      BY <3>1, <3>2
  <2> QED
    BY <1>2, <1>4, <2>1, <2>2 DEF Covers, Counting
<1>5. HeldCovers'
  <2>1. (cache.set => Covers(cache.revision, cache.ledger))'
    <3>1. cache.set => Covers(cache.revision, cache.ledger)'
      BY <1>4 DEF Typed, CacheState, LedgerInv, HeldCovers
    <3> QED
      BY <3>1 DEF Covers, Counting
  <2>2. ASSUME NEW b \in Actors, Holds(b)'
        PROVE  Covers(actor[b].revision, actor[b].ledger)'
    <3>1. CASE b = a
      <4>1. Covers(new.revision, new.ledger)
        BY <1>2, <2>2, <3>1 DEF Holds
      <4>2. Covers(new.revision, new.ledger)'
        BY <1>4, <4>1 DEF ActorState
      <4> QED
        BY <1>2, <3>1, <4>2 DEF Covers, Counting
    <3>2. CASE b # a
      <4>1. Covers(actor[b].revision, actor[b].ledger)
        BY <1>2, <2>2, <3>2 DEF Holds, LedgerInv, HeldCovers
      <4>2. actor[b].revision \in Nat /\ actor[b].ledger \in Nat
        BY DEF Typed, ActorState
      <4>3. \A rev, l \in Nat : Covers(rev, l) => Covers(rev, l)'
        BY <1>4
      <4>4. actor'[b] = actor[b]
        BY <1>2, <3>2
      <4> QED
        BY <4>1, <4>2, <4>3, <4>4 DEF Covers, Counting
    <3> QED
      BY <3>1, <3>2
  <2> QED
    BY <2>1, <2>2 DEF HeldCovers
<1>6. AgeInv'
  BY <1>2 DEF Typed, ActorState, CacheState, AgeInv, AgeIsHonest
<1> QED
  BY <1>1, <1>3, <1>5, <1>6 DEF LedgerInv

\* What a request is answered, if its totals include what it needs.
LEMMA AnswerStep ==
  ASSUME Bounds, Inv, NEW a \in Actors, NEW l \in Nat, NEW p \in Nat, Alone(a, Answer(a, l, p)),
         actor[a].needs <= l, p <= prices
  PROVE  Inv'
<1>1. Answer(a, l, p) \in ActorState
  BY IdleTyped DEF Inv, Typed, Answer, ActorState, Steps
<1>2. /\ Answer(a, l, p).at = "answered" /\ Answer(a, l, p).needs = actor[a].needs
      /\ Answer(a, l, p).ledger = l /\ Answer(a, l, p).prices = p
  BY DEF Answer, Idle
<1> QED
  BY <1>1, <1>2, AloneStep

\* Back to where it started, or not asked at all.
LEMMA IdleStep ==
  ASSUME Bounds, Inv, NEW a \in Actors, Alone(a, Idle)
  PROVE  Inv'
<1>1. Idle \in ActorState /\ Idle.at = "idle" /\ Idle.prices = 0 /\ 0 <= prices
  BY IdleTyped DEF Idle, Inv, Typed
<1> QED
  BY <1>1, AloneStep

LEMMA ReadRevisionStep == ASSUME Bounds, Inv, NEW a \in Actors, ReadRevision(a) PROVE Inv'
<1> DEFINE new == [Idle EXCEPT !.at = "key", !.revision = revision,
                               !.needs = IF a = Refresher THEN 0 ELSE returned,
                               !.wants = IF a = Refresher THEN 0 ELSE promised]
<1>1. Alone(a, new)
  BY DEF ReadRevision, Alone
<1>2. /\ {revision, returned, promised} \subseteq Nat
      /\ (IF a = Refresher THEN 0 ELSE returned) \in Nat /\ (IF a = Refresher THEN 0 ELSE returned) <= returned
      /\ (IF a = Refresher THEN 0 ELSE promised) \in Nat
  BY DEF Inv, Typed
<1>4. new \in ActorState /\ new.at = "key" /\ new.revision = revision /\ new.needs <= returned /\ new.prices = 0
  BY <1>2, IdleTyped DEF ActorState, Steps, Idle
<1> HIDE DEF new
<1>3. 0 <= prices /\ revision <= revision
  BY DEF Inv, Typed
<1> QED
  BY <1>1, <1>3, <1>4, AloneStep

\* A step within a computation: the revision that was read and what is needed stay.
LEMMA WithinStep ==
  ASSUME Bounds, Inv, NEW a \in Actors, NEW new \in ActorState, Alone(a, new), Counting(a),
         new.revision = actor[a].revision, new.needs = actor[a].needs, new.prices <= prices,
         new.at \in {"look", "ledger", "prices", "store"},
         new.at \in {"prices", "store"} => Covers(new.revision, new.ledger),
         new.at = "store" => replaced[new.prices] <= new.age
  PROVE  Inv'
<1>1. new.revision <= revision /\ new.needs <= returned
  BY DEF Inv, LedgerInv, InThePast
<1>2. new.at \in {"prices", "store"} => new.needs <= new.ledger
  BY DEF Covers, Inv
<1> QED
  BY <1>1, <1>2, AloneStep

LEMMA ReadPrintStep == ASSUME Bounds, Inv, NEW a \in Actors, ReadPrint(a) PROVE Inv'
<1> DEFINE new == [actor[a] EXCEPT !.at = "look", !.print = prices]
<1>1. Alone(a, new) /\ Counting(a)
  BY DEF ReadPrint, Alone, Counting
<1>2. /\ new \in ActorState /\ new.at = "look" /\ new.revision = actor[a].revision
      /\ new.needs = actor[a].needs /\ new.prices <= prices
  BY DEF Inv, Typed, ActorState, Steps, AgeInv
<1> HIDE DEF new
<1> QED
  BY <1>1, <1>2, WithinStep

LEMMA PrintFailsStep == ASSUME Bounds, Inv, NEW a \in Actors, PrintFails(a) PROVE Inv'
<1>1. CASE a = Refresher
  <2>1. Alone(a, Idle)
    BY <1>1 DEF PrintFails, Alone
  <2> QED
    BY <2>1, IdleStep
<1>2. CASE a # Refresher
  <2> DEFINE new == [actor[a] EXCEPT !.at = "ledger", !.keep = FALSE]
  <2>1. Alone(a, new) /\ Counting(a)
    BY <1>2 DEF PrintFails, Alone, Counting
  <2>2. /\ new \in ActorState /\ new.at = "ledger" /\ new.revision = actor[a].revision
        /\ new.needs = actor[a].needs /\ new.prices <= prices
    BY DEF Inv, Typed, ActorState, Steps, AgeInv
  <2> HIDE DEF new
  <2> QED
    BY <2>1, <2>2, WithinStep
<1> QED
  BY <1>1, <1>2

LEMMA ServedStep == ASSUME Bounds, Inv, NEW a \in Actors, Hit(a) \/ ServeStale(a) PROVE Inv'
<1>1. Alone(a, Answer(a, cache.ledger, cache.prices)) /\ Counting(a) /\ SameLedger(a)
  BY DEF Hit, ServeStale, Usable, Answers, Alone, Counting
<1>2. actor[a].needs <= cache.ledger
  BY <1>1 DEF SameLedger, Inv, LedgerInv, HeldCovers, Covers
<1>3. cache.ledger \in Nat /\ cache.prices \in Nat /\ cache.prices <= prices
  BY DEF Inv, Typed, CacheState, AgeInv
<1> QED
  BY <1>1, <1>2, <1>3, AnswerStep

LEMMA MissStep == ASSUME Bounds, Inv, NEW a \in Actors, Miss(a) PROVE Inv'
<1> DEFINE new == [actor[a] EXCEPT !.at = "ledger", !.age = 0]
<1>1. Alone(a, new) /\ Counting(a)
  BY DEF Miss, Alone, Counting
<1>2. /\ new \in ActorState /\ new.at = "ledger" /\ new.revision = actor[a].revision
      /\ new.needs = actor[a].needs /\ new.prices <= prices
  BY IdleTyped DEF Inv, Typed, ActorState, Steps, AgeInv
<1> HIDE DEF new
<1> QED
  BY <1>1, <1>2, WithinStep

LEMMA ReadLedgerStep == ASSUME Bounds, Inv, NEW a \in Actors, ReadLedger(a) PROVE Inv'
<1> DEFINE new == [actor[a] EXCEPT !.at = "prices", !.ledger = ledger]
<1>1. Alone(a, new) /\ Counting(a)
  BY DEF ReadLedger, Alone, Counting
<1>2. /\ new \in ActorState /\ new.at = "prices" /\ new.revision = actor[a].revision
      /\ new.needs = actor[a].needs /\ new.prices <= prices /\ new.ledger = ledger
  BY DEF Inv, Typed, ActorState, Steps, AgeInv
<1>3. Covers(new.revision, ledger)
  BY DEF Inv, Typed, ActorState, LedgerInv, InThePast, Covers
<1> HIDE DEF new
<1> QED
  BY <1>1, <1>2, <1>3, WithinStep

LEMMA ReadPricesStep == ASSUME Bounds, Inv, NEW a \in Actors, ReadPrices(a) PROVE Inv'
<1>1. /\ actor[a].at = "prices" /\ Counting(a) /\ Covers(actor[a].revision, actor[a].ledger)
      /\ prices \in Nat /\ prices <= prices
  BY DEF ReadPrices, Counting, Holds, Inv, Typed, LedgerInv, HeldCovers
<1>2. CASE actor[a].keep
  <2> DEFINE new == [actor[a] EXCEPT !.at = "store", !.prices = prices]
  <2>1. Alone(a, new)
    BY <1>2 DEF ReadPrices, Alone
  <2>2. /\ new \in ActorState /\ new.at = "store" /\ new.revision = actor[a].revision
        /\ new.needs = actor[a].needs /\ new.prices = prices /\ new.ledger = actor[a].ledger
        /\ new.age \in Ages
    BY DEF Inv, Typed, ActorState, Steps
  <2>3. replaced[prices] <= new.age
    BY <2>2 DEF Inv, Typed, AgeInv, Ages, Bounds
  <2> HIDE DEF new
  <2> QED
    BY <1>1, <2>1, <2>2, <2>3, WithinStep
<1>3. CASE ~actor[a].keep
  <2>1. Alone(a, Answer(a, actor[a].ledger, prices))
    BY <1>3 DEF ReadPrices, Alone
  <2>2. actor[a].needs <= actor[a].ledger /\ actor[a].ledger \in Nat
    BY <1>1 DEF Covers, Inv, Typed, ActorState
  <2> QED
    BY <1>1, <2>1, <2>2, AnswerStep
<1> QED
  BY <1>2, <1>3

LEMMA StoreStep == ASSUME Bounds, Inv, NEW a \in Actors, Store(a) PROVE Inv'
<1> DEFINE kept == [set |-> TRUE, revision |-> actor[a].revision, print |-> actor[a].print, age |-> actor[a].age,
                    ledger |-> actor[a].ledger, prices |-> actor[a].prices]
           new == IF a = Refresher THEN Idle ELSE Answer(a, actor[a].ledger, actor[a].prices)
<1>1. /\ cache' = kept /\ actor' = [actor EXCEPT ![a] = new] /\ UNCHANGED writes
      /\ actor[a].at = "store"
  BY DEF Store, KeyOf, AgeOf
<1>2. /\ Covers(actor[a].revision, actor[a].ledger) /\ actor[a].needs <= actor[a].ledger
      /\ actor[a].revision <= revision /\ actor[a].prices <= prices
      /\ replaced[actor[a].prices] <= actor[a].age
  BY <1>1 DEF Inv, LedgerInv, HeldCovers, Holds, Covers, Counting, InThePast, AgeInv
<1>3. /\ new \in ActorState /\ new.at \in {"idle", "answered"}
      /\ new.at = "answered" => new.needs <= new.ledger
      /\ new.prices <= prices
  <2>1. Idle \in ActorState /\ Idle.at = "idle" /\ Idle.prices <= prices
    BY IdleTyped DEF Idle, Inv, Typed
  <2>2. /\ Answer(a, actor[a].ledger, actor[a].prices) \in ActorState
        /\ Answer(a, actor[a].ledger, actor[a].prices).at = "answered"
        /\ Answer(a, actor[a].ledger, actor[a].prices).needs = actor[a].needs
        /\ Answer(a, actor[a].ledger, actor[a].prices).ledger = actor[a].ledger
        /\ Answer(a, actor[a].ledger, actor[a].prices).prices = actor[a].prices
    BY IdleTyped DEF Answer, Inv, Typed, ActorState, Steps, Idle
  <2> QED
    BY <1>2, <2>1, <2>2
<1>4. kept \in CacheState
  BY DEF Inv, Typed, ActorState, CacheState
<1>5. /\ kept.set /\ kept.revision = actor[a].revision /\ kept.ledger = actor[a].ledger
      /\ kept.prices = actor[a].prices /\ kept.age = actor[a].age
  OBVIOUS
<1> HIDE DEF kept, new
<1>6. /\ actor'[a] = new /\ \A b \in Actors \ {a} : actor'[b] = actor[b]
      /\ Threads \subseteq Actors
  BY <1>1 DEF Inv, Typed, Actors
<1>7. Typed'
  BY <1>1, <1>3, <1>4 DEF Inv, Typed, writes
<1>8. InThePast' /\ LedgerShownAtOnce'
  BY <1>1, <1>2, <1>3, <1>5, <1>6 DEF Inv, LedgerInv, InThePast, LedgerShownAtOnce, Counting, writes
<1>9. \A rev, l : Covers(rev, l) =>
        /\ rev = revision' => returned' <= l
        /\ \A b \in Actors : Counting(b)' /\ actor'[b].revision = rev => actor'[b].needs <= l
  BY <1>1, <1>3, <1>6 DEF Covers, Counting, writes
<1>10. HeldCovers'
  <2>1. \A b \in Actors : Holds(b)' => actor'[b] = actor[b] /\ Holds(b)
    BY <1>3, <1>6 DEF Holds
  <2>2. \A b \in Actors : Holds(b)' => Covers(actor'[b].revision, actor'[b].ledger)
    BY <2>1 DEF Inv, LedgerInv, HeldCovers
  <2>3. Covers(cache'.revision, cache'.ledger)
    BY <1>1, <1>2, <1>5
  <2> QED
    BY <1>9, <2>2, <2>3 DEF HeldCovers, Covers
<1>11. AgeInv'
  BY <1>1, <1>2, <1>3, <1>5, <1>6 DEF Inv, AgeInv, AgeIsHonest, writes
<1> QED
  BY <1>7, <1>8, <1>10, <1>11 DEF Inv, LedgerInv

LEMMA NextInv == ASSUME Bounds, Inv, [Next]_totalsVars PROVE Inv'
<1>1. CASE Commit \/ Bump \/ Price \/ RefreshNow \/ Invalidate \/ Tick
  BY <1>1, CommitStep, BumpStep, PricesStep, InvalidateStep, TickStep
<1>2. CASE AlreadyCurrent
  <2>1. Alone(Refresher, Idle) /\ Refresher \in Actors
    BY <1>2 DEF AlreadyCurrent, Alone, Actors
  <2> QED
    BY <2>1, IdleStep
<1>3. CASE UNCHANGED <<writes, cache, actor>>
  <2>1. Typed'
    BY <1>3 DEF Inv, Typed, writes
  <2>2. LedgerInv'
    BY <1>3 DEF Inv, LedgerInv, InThePast, HeldCovers, Covers, LedgerShownAtOnce, Counting, Holds, writes
  <2>3. AgeInv'
    BY <1>3 DEF Inv, AgeInv, AgeIsHonest, writes
  <2> QED
    BY <2>1, <2>2, <2>3 DEF Inv
<1>4. Queue \/ MayRetry \/ UNCHANGED totalsVars => UNCHANGED <<writes, cache, actor>>
  BY DEF Queue, MayRetry, totalsVars, writes
<1>5. ASSUME NEW a \in Actors, Step(a) \/ PrintFails(a)
      PROVE  Inv'
  <2>1. CASE Answered(a)
    <3>1. Alone(a, Idle)
      BY <2>1 DEF Answered, Alone
    <3> QED
      BY <3>1, IdleStep
  <2> QED
    BY <1>5, <2>1, ReadRevisionStep, ReadPrintStep, PrintFailsStep, ServedStep, MissStep, ReadLedgerStep,
       ReadPricesStep, StoreStep DEF Step
<1> QED
  BY <1>1, <1>2, <1>3, <1>4, <1>5 DEF Next

-----------------------------------------------------------------------------
\* Whoever asks after a ledger write has returned gets totals that include it, and
\* the kept answer is never older than its age says, for any number of requests.
THEOREM TotalsAreHonestHolds == ASSUME Bounds PROVE Spec => []TotalsAreHonest
<1>1. Init => Inv
  BY InitInv
<1>2. Inv /\ [Next]_totalsVars => Inv'
  BY NextInv
<1>3. Inv => TotalsAreHonest
  BY DEF Inv, LedgerInv, AgeInv, TotalsAreHonest
<1> QED
  BY <1>1, <1>2, <1>3, PTL DEF Spec

-----------------------------------------------------------------------------
(* SettingsFile *)

Values == [Settings -> Nat]
Signature == [file : Inodes \cup {0}, stamp : Nat, data : Values]
SaveSteps == {"open", "write", "replace", "clear"}
CallerState ==
  [do : {"idle", "look", "read", "keep"} \cup SaveSteps, save : Nat,
   setting : Settings \cup {CHOOSE s \in Settings : TRUE}, sign : Signature, data : Values, fd : Inodes \cup {0}]

FilesTyped ==
  /\ content \in [Inodes -> Values] /\ stamp \in [Inodes -> Nat]
  /\ main \in Inodes /\ tmp \in Inodes \cup {0} /\ tmp # main
  /\ settingsCache \in Signature
  /\ settingsAt \in [Callers -> CallerState]
  /\ saved \in Values /\ saves \in Nat /\ saves <= MaxSaves

\* Of a file that was not written to since it was signed: it is not config.tmp, so it
\* is config.json still or never again, and what was read from it is in it.
Unchanged(s) == s.file # 0 /\ s.stamp = stamp[s.file]
SignHolds(s) == s.file # 0 => s.stamp <= stamp[s.file] /\ (Unchanged(s) => s.file # tmp)
SignTells(s, data) == s.file = main /\ Unchanged(s) => data = content[main]
SignsHold ==
  /\ SignHolds(settingsCache) /\ SignTells(settingsCache, settingsCache.data)
  /\ \A t \in Callers : settingsAt[t].do \in {"read", "keep"} => SignHolds(settingsAt[t].sign)
  /\ \A t \in Callers : settingsAt[t].do = "keep" => SignTells(settingsAt[t].sign, settingsAt[t].data)

\* Only a save goes on after it has loaded the settings; its number has been given out.
SavesNumbered ==
  /\ \A t \in Callers : /\ settingsAt[t].save <= saves
                        /\ settingsAt[t].do \in SaveSteps => settingsAt[t].save > 0
                        /\ settingsAt[t].save > 0 => settingsAt[t].setting \in Settings
                        /\ settingsAt[t].do = "idle" => settingsAt[t] = Config!Idle
                        /\ settingsAt[t].do = "write" <=> settingsAt[t].fd # 0
  /\ \A s \in Settings : saved[s] <= saves

\* As long as saves did not overlap, whoever saves is the only one who does, and each
\* of its steps finds what the one before it left.
Merged(t) == settingsAt[t].data = [saved EXCEPT ![settingsAt[t].setting] = settingsAt[t].save]
AtSave(t) ==
  /\ settingsAt[t].do = "keep" => settingsAt[t].data = saved
  /\ settingsAt[t].do \in {"open", "write", "replace"} => Merged(t)
  /\ settingsAt[t].do = "write" => settingsAt[t].fd = tmp /\ tmp # 0 /\ tmp \notin spoilt
  /\ settingsAt[t].do = "replace" => tmp # 0 /\ content[tmp] = settingsAt[t].data
OneSave ==
  ~overlapped => /\ content[main] = saved
                 /\ \A t, u \in Callers : Config!Saving(t) /\ Config!Saving(u) => t = u
                 /\ \A t \in Callers : Config!Saving(t) => AtSave(t)

ConfigInv == FilesTyped /\ SignsHold /\ SavesNumbered /\ OneSave

LEMMA SettingsTyped ==
  /\ Config!Default \in Values /\ Config!Half \in Values /\ Config!NoCache \in Signature
  /\ Config!Idle \in CallerState
  /\ Config!NoCache.file = 0 /\ Config!Idle.fd = 0 /\ Config!Idle.save = 0 /\ Config!Idle.do = "idle"
<1>1. Config!Default \in Values /\ Config!Half \in Values
  BY FilesAssumption DEF Config!Default, Config!Half, Values
<1>2. Config!NoCache \in Signature /\ Config!NoCache.file = 0
  BY <1>1 DEF Config!NoCache, Config!Nothing, Signature
<1> QED
  BY <1>1, <1>2 DEF Config!Idle, Config!Nothing, CallerState, SaveSteps

\* What the other callers see of one that goes on.
OthersStay(t) == \A u \in Callers \ {t} : settingsAt'[u] = settingsAt[u]

LEMMA CallerMoves ==
  ASSUME FilesTyped, NEW t \in Callers, NEW s \in CallerState, settingsAt' = [settingsAt EXCEPT ![t] = s]
  PROVE  settingsAt' \in [Callers -> CallerState] /\ settingsAt'[t] = s /\ OthersStay(t)
BY DEF FilesTyped, OthersStay

\* Steps that move one caller and leave the files and the saves alone: it ends ...
LEMMA CallerIdles ==
  ASSUME ConfigInv, NEW t \in Callers, settingsAt' = [settingsAt EXCEPT ![t] = Config!Idle],
         UNCHANGED <<content, stamp, main, spoilt, saves, saved, overlapped>>,
         tmp' = tmp \/ (tmp' = 0 /\ Config!Saving(t)),
         settingsCache' \in Signature, SignHolds(settingsCache'), SignTells(settingsCache', settingsCache'.data)
  PROVE  ConfigInv'
<1>1. settingsAt' \in [Callers -> CallerState] /\ settingsAt'[t] = Config!Idle /\ OthersStay(t)
  BY CallerMoves, SettingsTyped DEF ConfigInv
<1>2. FilesTyped'
  BY <1>1, FilesAssumption DEF ConfigInv, FilesTyped
<1>3. SignsHold'
  BY <1>1, SettingsTyped DEF ConfigInv, SignsHold, SignHolds, SignTells, Unchanged, OthersStay
<1>4. SavesNumbered'
  BY <1>1, SettingsTyped DEF ConfigInv, FilesTyped, SavesNumbered, OthersStay, SaveSteps
<1>5. OneSave'
  BY <1>1, SettingsTyped DEF ConfigInv, OneSave, AtSave, Merged, Config!Saving, OthersStay
<1> QED
  BY <1>2, <1>3, <1>4, <1>5 DEF ConfigInv

LEMMA ConfigInit == ASSUME Config!Init PROVE ConfigInv
<1>1. main \in Inodes /\ tmp = 0 /\ tmp # main
  BY FilesAssumption DEF Config!Init, Config!Nothing
<1>2. /\ content = [i \in Inodes |-> Config!Default] /\ stamp = [i \in Inodes |-> 0]
      /\ settingsCache = Config!NoCache /\ settingsAt = [t \in Callers |-> Config!Idle]
      /\ saves = 0 /\ saved = Config!Default
  BY DEF Config!Init
<1>3. FilesTyped
  BY <1>1, <1>2, SettingsTyped, FilesAssumption DEF FilesTyped
<1>4. SignsHold
  BY <1>2, SettingsTyped, FilesAssumption, <1>1 DEF SignsHold, SignHolds, SignTells, Unchanged
<1>5. SavesNumbered
  BY <1>2, SettingsTyped DEF SavesNumbered, SaveSteps, Config!Default
<1>6. OneSave
  BY <1>1, <1>2, SettingsTyped DEF OneSave, AtSave, Config!Saving
<1> QED
  BY <1>3, <1>4, <1>5, <1>6 DEF ConfigInv

\* ... or goes on.
LEMMA CallerGoesOn ==
  ASSUME ConfigInv, NEW t \in Callers, NEW s \in CallerState, settingsAt' = [settingsAt EXCEPT ![t] = s],
         UNCHANGED <<content, stamp, main, tmp, spoilt, saves, saved, overlapped>>,
         settingsCache' \in Signature, SignHolds(settingsCache'), SignTells(settingsCache', settingsCache'.data),
         s.do \in {"look", "read", "keep", "open"}, s.fd = 0, s.save = settingsAt[t].save,
         s.setting = settingsAt[t].setting,
         s.do \in {"read", "keep"} => SignHolds(s.sign),
         s.do = "keep" => SignTells(s.sign, s.data),
         s.do = "keep" /\ s.save > 0 /\ ~overlapped => s.data = saved,
         s.do = "open" => s.save > 0 /\ (~overlapped => s.data = [saved EXCEPT ![s.setting] = s.save])
  PROVE  ConfigInv'
<1>1. settingsAt' \in [Callers -> CallerState] /\ settingsAt'[t] = s /\ OthersStay(t)
  BY CallerMoves DEF ConfigInv
<1>2. FilesTyped'
  BY <1>1 DEF ConfigInv, FilesTyped
<1>3. SignsHold'
  BY <1>1 DEF ConfigInv, SignsHold, SignHolds, SignTells, Unchanged, OthersStay
<1>4. SavesNumbered'
  BY <1>1 DEF ConfigInv, FilesTyped, SavesNumbered, OthersStay, SaveSteps
<1>5. OneSave'
  BY <1>1 DEF ConfigInv, OneSave, AtSave, Merged, Config!Saving, OthersStay
<1> QED
  BY <1>2, <1>3, <1>4, <1>5 DEF ConfigInv

LEMMA BeginStep == ASSUME ConfigInv, NEW t \in Callers, NEW s \in Settings, Config!Begin(t, s) PROVE ConfigInv'
<1> DEFINE new == [Config!Idle EXCEPT !.do = "look", !.save = saves + 1, !.setting = s]
<1>1. settingsAt' = [settingsAt EXCEPT ![t] = new] /\ settingsAt[t] = Config!Idle /\ saves < MaxSaves /\ saves' = saves + 1
  BY DEF Config!Begin, Config!Does, ConfigInv, SavesNumbered
<1>2. /\ new \in CallerState /\ new.do = "look" /\ new.save = saves + 1 /\ new.setting = s /\ new.fd = 0
      /\ saves \in Nat
  <2>1. Config!Idle \in CallerState /\ Config!Idle.fd = 0 /\ saves \in Nat
    BY SettingsTyped DEF ConfigInv, FilesTyped
  <2>2. saves + 1 \in Nat /\ s \in Settings \cup {CHOOSE x \in Settings : TRUE}
    BY <2>1
  <2> QED
    BY <2>1, <2>2 DEF CallerState
<1> HIDE DEF new
<1>3. settingsAt' \in [Callers -> CallerState] /\ settingsAt'[t] = new /\ OthersStay(t)
  BY <1>1, <1>2, CallerMoves DEF ConfigInv
<1>4. /\ UNCHANGED <<content, stamp, main, tmp, spoilt, settingsCache, saved>>
      /\ overlapped' = (overlapped \/ \E u \in Callers : Config!Saving(u))
  BY DEF Config!Begin, Config!disk
<1>5. FilesTyped'
  BY <1>1, <1>2, <1>3, <1>4, FilesAssumption DEF ConfigInv, FilesTyped
<1>6. SignsHold'
  BY <1>2, <1>3, <1>4 DEF ConfigInv, SignsHold, SignHolds, SignTells, Unchanged, OthersStay
<1>7. SavesNumbered'
  <2>1. \A u \in Callers : settingsAt[u].save \in Nat /\ settingsAt[u].save <= saves
    BY DEF ConfigInv, FilesTyped, CallerState, SavesNumbered
  <2>2. \A x \in Settings : saved[x] \in Nat /\ saved[x] <= saves
    BY DEF ConfigInv, FilesTyped, Values, SavesNumbered
  <2> QED
    BY <1>1, <1>2, <1>3, <1>4, <2>1, <2>2 DEF ConfigInv, SavesNumbered, OthersStay, SaveSteps
<1>8. OneSave'
  <2> SUFFICES ASSUME ~overlapped' PROVE OneSave'
    BY DEF OneSave
  <2>1. ~overlapped /\ \A u \in Callers : ~Config!Saving(u) /\ settingsAt[u].fd = 0
    BY <1>4 DEF ConfigInv, SavesNumbered, Config!Saving, SaveSteps
  <2>2. \A u \in Callers : settingsAt'[u].fd = 0 /\ (Config!Saving(u)' => u = t)
    BY <1>2, <1>3, <2>1 DEF OthersStay, Config!Saving
  <2>3. AtSave(t)'
    BY <1>2, <1>3 DEF AtSave
  <2> QED
    BY <1>4, <2>1, <2>2, <2>3 DEF ConfigInv, OneSave
<1> QED
  BY <1>5, <1>6, <1>7, <1>8 DEF ConfigInv

LEMMA BeginReadStep == ASSUME ConfigInv, NEW t \in Callers, Config!BeginRead(t) PROVE ConfigInv'
<1> DEFINE new == [settingsAt[t] EXCEPT !.do = "look"]
<1>1. settingsAt' = [settingsAt EXCEPT ![t] = new] /\ settingsAt[t] = Config!Idle
  BY DEF Config!BeginRead, Config!Does, ConfigInv, SavesNumbered
<1>2. /\ new \in CallerState /\ new.do = "look" /\ new.fd = 0 /\ new.save = settingsAt[t].save
      /\ new.setting = settingsAt[t].setting
  BY <1>1, SettingsTyped DEF CallerState, Config!Idle
<1>3. /\ UNCHANGED <<content, stamp, main, tmp, spoilt, saves, saved, overlapped>>
      /\ settingsCache' = settingsCache
  BY DEF Config!BeginRead, Config!disk, Config!bounds, Config!history
<1> HIDE DEF new
<1>4. settingsCache' \in Signature /\ SignHolds(settingsCache') /\ SignTells(settingsCache', settingsCache'.data)
  BY <1>3 DEF ConfigInv, FilesTyped, SignsHold
<1> QED
  BY <1>1, <1>2, <1>3, <1>4, CallerGoesOn

\* What a load takes the settings for: a save merges its own in and goes on.
LEMMA LoadedStep ==
  ASSUME ConfigInv, NEW t \in Callers, NEW data \in Values, Config!Loaded(t, data),
         settingsAt[t].do # "write",
         UNCHANGED <<content, stamp, main, tmp, spoilt, saves, saved, overlapped>>,
         settingsCache' \in Signature, SignHolds(settingsCache'), SignTells(settingsCache', settingsCache'.data),
         Config!Saving(t) /\ ~overlapped => data = saved
  PROVE  ConfigInv'
<1> DEFINE merged == [data EXCEPT ![settingsAt[t].setting] = settingsAt[t].save]
           new == [settingsAt[t] EXCEPT !.do = "open", !.data = merged]
<1>1. CASE Config!Saving(t)
  <2>1. settingsAt' = [settingsAt EXCEPT ![t] = new]
    BY <1>1 DEF Config!Loaded
  <2>2. settingsAt[t] \in CallerState /\ settingsAt[t].save \in Nat /\ settingsAt[t].fd = 0
    BY DEF ConfigInv, FilesTyped, CallerState, SavesNumbered
  <2>3. merged \in Values
    BY <2>2 DEF Values
  <2> HIDE DEF merged
  <2>4. /\ new \in CallerState /\ new.do = "open" /\ new.save = settingsAt[t].save
        /\ new.setting = settingsAt[t].setting /\ new.fd = settingsAt[t].fd /\ new.data = merged
    BY <2>2, <2>3 DEF CallerState, SaveSteps
  <2>5. new.save > 0
    BY <1>1, <2>4 DEF Config!Saving
  <2>6. ~overlapped => merged = [saved EXCEPT ![settingsAt[t].setting] = settingsAt[t].save]
    BY <1>1 DEF merged
  <2> HIDE DEF new
  <2> QED
    BY <2>1, <2>2, <2>4, <2>5, <2>6, CallerGoesOn
<1>2. CASE ~Config!Saving(t)
  <2>1. settingsAt' = [settingsAt EXCEPT ![t] = Config!Idle]
    BY <1>2 DEF Config!Loaded
  <2>2. UNCHANGED <<content, stamp, main, spoilt, saves, saved, overlapped>> /\ tmp' = tmp
    OBVIOUS
  <2> HIDE DEF merged, new
  <2> QED
    BY <2>1, <2>2, CallerIdles
<1> QED
  BY <1>1, <1>2

LEMMA HitTells == ASSUME ConfigInv, Config!Hit PROVE settingsCache.data = content[main]
BY FilesAssumption DEF Config!Hit, Config!Known, ConfigInv, FilesTyped, SignsHold, SignTells, Unchanged

LEMMA LookStep == ASSUME ConfigInv, NEW t \in Callers, Config!Look(t) PROVE ConfigInv'
<1> DEFINE signature == [Config!NoCache EXCEPT !.file = main, !.stamp = stamp[main]]
           new == [settingsAt[t] EXCEPT !.do = "read", !.sign = signature]
<1>1. /\ UNCHANGED <<content, stamp, main, tmp, spoilt, saves, saved, overlapped>>
      /\ settingsCache' = settingsCache /\ settingsAt[t].do = "look"
  BY DEF Config!Look, Config!disk, Config!bounds, Config!history, Config!Does
<1>2. settingsCache' \in Signature /\ SignHolds(settingsCache') /\ SignTells(settingsCache', settingsCache'.data)
  BY <1>1 DEF ConfigInv, FilesTyped, SignsHold
<1>3. CASE Config!Hit
  <2>1. Config!Loaded(t, settingsCache.data) /\ settingsCache.data \in Values
    BY <1>3 DEF Config!Look, ConfigInv, FilesTyped, Signature
  <2>2. ~overlapped => settingsCache.data = saved
    BY <1>3, HitTells DEF ConfigInv, OneSave
  <2> QED
    BY <1>1, <1>2, <2>1, <2>2, LoadedStep
<1>4. CASE ~Config!Hit
  <2>1. settingsAt' = [settingsAt EXCEPT ![t] = new]
    BY <1>4 DEF Config!Look
  <2>2. /\ signature \in Signature /\ signature.file = main /\ signature.stamp = stamp[main]
    BY SettingsTyped DEF ConfigInv, FilesTyped, Signature
  <2>5. SignHolds(signature)
    BY <2>2 DEF ConfigInv, FilesTyped, SignHolds
  <2>3. settingsAt[t] \in CallerState /\ settingsAt[t].fd = 0
    BY <1>1 DEF ConfigInv, FilesTyped, SavesNumbered
  <2> HIDE DEF signature
  <2>4. /\ new \in CallerState /\ new.do = "read" /\ new.sign = signature /\ new.save = settingsAt[t].save
        /\ new.setting = settingsAt[t].setting /\ new.fd = 0
    BY <2>2, <2>3 DEF CallerState
  <2> HIDE DEF new
  <2> QED
    BY <1>1, <1>2, <2>1, <2>4, <2>5, CallerGoesOn
<1> QED
  BY <1>3, <1>4

\* Settings that were saved are not half a file.
LEMMA SavedIsWhole == ASSUME ConfigInv, NEW t \in Callers, Config!Saving(t) PROVE saved # Config!Half
<1>1. settingsAt[t].setting \in Settings
  BY DEF ConfigInv, SavesNumbered, Config!Saving
<1>2. saved[settingsAt[t].setting] \in Nat /\ saved[settingsAt[t].setting] <= MaxSaves
  BY <1>1, FilesAssumption DEF ConfigInv, FilesTyped, SavesNumbered, Values
<1>3. Config!Half[settingsAt[t].setting] = MaxSaves + 1
  BY <1>1 DEF Config!Half
<1> QED
  BY <1>2, <1>3, FilesAssumption

LEMMA ReadFileStep == ASSUME ConfigInv, NEW t \in Callers, Config!ReadFile(t) PROVE ConfigInv'
<1> DEFINE new == [settingsAt[t] EXCEPT !.do = "keep", !.data = content[main]]
<1>1. /\ UNCHANGED <<content, stamp, main, tmp, spoilt, saves, saved, overlapped>>
      /\ settingsCache' = settingsCache /\ settingsAt[t].do = "read"
  BY DEF Config!ReadFile, Config!disk, Config!bounds, Config!history, Config!Does
<1>2. settingsCache' \in Signature /\ SignHolds(settingsCache') /\ SignTells(settingsCache', settingsCache'.data)
  BY <1>1 DEF ConfigInv, FilesTyped, SignsHold
<1>3. CASE content[main] = Config!Half
  <2>1. Config!Loaded(t, Config!Default) /\ Config!Default \in Values
    BY <1>3, SettingsTyped DEF Config!ReadFile
  <2>2. ~(Config!Saving(t) /\ ~overlapped)
    BY <1>3, SavedIsWhole DEF ConfigInv, OneSave
  <2> QED
    BY <1>1, <1>2, <2>1, <2>2, LoadedStep
<1>4. CASE content[main] # Config!Half
  <2>1. settingsAt' = [settingsAt EXCEPT ![t] = new]
    BY <1>4 DEF Config!ReadFile
  <2>2. settingsAt[t] \in CallerState /\ settingsAt[t].fd = 0 /\ content[main] \in Values /\ SignHolds(settingsAt[t].sign)
    BY <1>1 DEF ConfigInv, FilesTyped, SavesNumbered, SignsHold
  <2>3. /\ new \in CallerState /\ new.do = "keep" /\ new.sign = settingsAt[t].sign /\ new.save = settingsAt[t].save
        /\ new.setting = settingsAt[t].setting /\ new.fd = 0 /\ new.data = content[main]
    BY <2>2 DEF CallerState
  <2> HIDE DEF new
  <2>4. SignTells(new.sign, new.data)
    BY <2>3 DEF SignTells
  <2>5. ~overlapped => new.data = saved
    BY <2>3 DEF ConfigInv, OneSave
  <2> QED
    BY <1>1, <1>2, <2>1, <2>2, <2>3, <2>4, <2>5, CallerGoesOn
<1> QED
  BY <1>3, <1>4

LEMMA KeepStep == ASSUME ConfigInv, NEW t \in Callers, Config!Keep(t) PROVE ConfigInv'
<1>1. /\ UNCHANGED <<content, stamp, main, tmp, spoilt, saves, saved, overlapped>>
      /\ settingsAt[t].do = "keep" /\ Config!Loaded(t, settingsAt[t].data)
      /\ settingsCache' = [settingsAt[t].sign EXCEPT !.data = settingsAt[t].data]
  BY DEF Config!Keep, Config!disk, Config!bounds, Config!history, Config!Does, Config!Entry
<1>2. settingsAt[t].sign \in Signature /\ settingsAt[t].data \in Values
  BY DEF ConfigInv, FilesTyped, CallerState
<1>3. /\ settingsCache' \in Signature /\ settingsCache'.file = settingsAt[t].sign.file
      /\ settingsCache'.stamp = settingsAt[t].sign.stamp /\ settingsCache'.data = settingsAt[t].data
  BY <1>1, <1>2 DEF Signature
<1>4. SignHolds(settingsCache') /\ SignTells(settingsCache', settingsCache'.data)
  BY <1>1, <1>3 DEF ConfigInv, SignsHold, SignHolds, SignTells, Unchanged
<1>5. Config!Saving(t) /\ ~overlapped => settingsAt[t].data = saved
  BY <1>1 DEF ConfigInv, OneSave, AtSave
<1> QED
  BY <1>1, <1>2, <1>3, <1>4, <1>5, LoadedStep

\* What was signed stays told of by its signature when another file than config.json is
\* written to: that file, if it was signed, is not unchanged any more.
LEMMA TouchKeepsSigns ==
  ASSUME FilesTyped, NEW i \in Inodes, NEW c, Config!Touch(i, c), main' = main, tmp' \in {tmp, i},
         NEW s \in Signature, SignHolds(s)
  PROVE  /\ s.file # 0 => s.stamp <= stamp'[s.file]
         /\ s.file # 0 /\ s.stamp = stamp'[s.file] => s.file # i /\ s.file # tmp'
         /\ \A d : SignTells(s, d) => (s.file = main' /\ s.file # 0 /\ s.stamp = stamp'[s.file] => d = content'[main'])
<1>1. /\ content' = [content EXCEPT ![i] = c] /\ stamp' = [stamp EXCEPT ![i] = stamp[i] + 1]
  BY DEF Config!Touch
<1>2. s.file # 0 => s.file \in Inodes /\ stamp[s.file] \in Nat /\ s.stamp \in Nat /\ s.stamp <= stamp[s.file]
  BY DEF FilesTyped, Signature, SignHolds
<1>3. s.file # 0 => s.stamp <= stamp'[s.file] /\ (s.stamp = stamp'[s.file] => s.file # i /\ s.stamp = stamp[s.file])
  BY <1>1, <1>2 DEF FilesTyped
<1>4. s.file # 0 /\ s.stamp = stamp'[s.file] => s.file # i /\ s.file # tmp'
  BY <1>3 DEF SignHolds, Unchanged
<1>5. ASSUME NEW d, SignTells(s, d), s.file = main', s.file # 0, s.stamp = stamp'[s.file]
      PROVE  d = content'[main']
  BY <1>1, <1>3, <1>5 DEF SignTells, Unchanged, FilesTyped
<1> QED
  BY <1>3, <1>4, <1>5

\* A step that writes to a file other than config.json and moves one caller that saves.
LEMMA TouchStep ==
  ASSUME ConfigInv, NEW i \in Inodes, NEW c \in Values, Config!Touch(i, c), tmp' \in {tmp, i},
         NEW t \in Callers, NEW s \in CallerState, settingsAt' = [settingsAt EXCEPT ![t] = s],
         UNCHANGED <<main, settingsCache, saves, saved, overlapped>>,
         settingsAt[t].do \in SaveSteps, s.do \in {"write", "replace"},
         s.do = "write" <=> s.fd # 0, s.save = settingsAt[t].save, s.setting = settingsAt[t].setting,
         tmp' # main, ~overlapped => AtSave(t)' /\ i # main
  PROVE  ConfigInv'
<1>1. settingsAt' \in [Callers -> CallerState] /\ settingsAt'[t] = s /\ OthersStay(t)
  BY CallerMoves DEF ConfigInv
<1>2. /\ content' = [content EXCEPT ![i] = c] /\ stamp' = [stamp EXCEPT ![i] = stamp[i] + 1]
  BY DEF Config!Touch
<1>3. FilesTyped'
  <2>1. content' \in [Inodes -> Values] /\ stamp' \in [Inodes -> Nat]
    BY <1>2 DEF ConfigInv, FilesTyped
  <2> QED
    BY <1>1, <2>1 DEF ConfigInv, FilesTyped
<1>4. SignsHold'
  <2>1. SignHolds(settingsCache)' /\ SignTells(settingsCache, settingsCache.data)'
    BY TouchKeepsSigns DEF ConfigInv, FilesTyped, SignsHold, SignHolds, SignTells, Unchanged
  <2>2. ASSUME NEW u \in Callers, settingsAt'[u].do \in {"read", "keep"}
        PROVE  /\ SignHolds(settingsAt[u].sign)'
               /\ settingsAt'[u].do = "keep" => SignTells(settingsAt[u].sign, settingsAt[u].data)'
    <3>1. settingsAt'[u] = settingsAt[u] /\ settingsAt[u].sign \in Signature
      BY <1>1, <2>2 DEF OthersStay, ConfigInv, FilesTyped, CallerState
    <3>2. SignHolds(settingsAt[u].sign) /\ (settingsAt[u].do = "keep" => SignTells(settingsAt[u].sign, settingsAt[u].data))
      BY <2>2, <3>1 DEF ConfigInv, SignsHold
    <3> DEFINE sign == settingsAt[u].sign
    <3>3. /\ sign.file # 0 => sign.stamp <= stamp'[sign.file]
          /\ sign.file # 0 /\ sign.stamp = stamp'[sign.file] => sign.file # i /\ sign.file # tmp'
          /\ \A d : SignTells(sign, d) =>
                (sign.file = main' /\ sign.file # 0 /\ sign.stamp = stamp'[sign.file] => d = content'[main'])
      BY <3>1, <3>2, TouchKeepsSigns DEF ConfigInv
    <3>4. SignHolds(settingsAt[u].sign)'
      BY <3>1, <3>3 DEF SignHolds, Unchanged
    <3>5. settingsAt'[u].do = "keep" => SignTells(settingsAt[u].sign, settingsAt[u].data)'
      BY <3>1, <3>2, <3>3 DEF SignTells, Unchanged
    <3> QED
      BY <3>4, <3>5
  <2> QED
    BY <2>1, <2>2 DEF SignsHold
<1>5. SavesNumbered'
  BY <1>1 DEF ConfigInv, FilesTyped, SavesNumbered, OthersStay, SaveSteps
<1>6. OneSave'
  <2> SUFFICES ASSUME ~overlapped PROVE OneSave'
    BY DEF OneSave
  <2>1. Config!Saving(t)
    BY DEF ConfigInv, SavesNumbered, Config!Saving
  <2>2. \A u \in Callers : Config!Saving(u)' => u = t
    BY <1>1, <2>1 DEF ConfigInv, OneSave, OthersStay, Config!Saving
  <2>3. content'[main'] = saved'
    BY <1>2 DEF ConfigInv, FilesTyped, OneSave
  <2> QED
    BY <2>2, <2>3 DEF OneSave
<1> QED
  BY <1>3, <1>4, <1>5, <1>6 DEF ConfigInv

LEMMA OpenTmpStep == ASSUME ConfigInv, NEW t \in Callers, Config!OpenTmp(t) PROVE ConfigInv'
<1> DEFINE i == Config!Target
           new == [settingsAt[t] EXCEPT !.do = "write", !.fd = i]
<1>1. /\ settingsAt[t].do = "open" /\ (tmp # 0 \/ Config!Free # {}) /\ Config!Touch(i, Config!Half) /\ tmp' = i
      /\ spoilt' = IF \E u \in Callers : settingsAt[u].fd = i THEN spoilt \cup {i} ELSE spoilt \ {i}
      /\ settingsAt' = [settingsAt EXCEPT ![t] = new]
      /\ UNCHANGED <<main, settingsCache, saves, saved, overlapped>>
  BY DEF Config!OpenTmp, Config!Does, Config!Nothing, Config!bounds, Config!history
<1>2. i \in Inodes /\ i # main
  <2>1. CASE tmp # 0
    BY <2>1 DEF Config!Target, Config!Nothing, ConfigInv, FilesTyped
  <2>2. CASE tmp = 0
    <3>1. i \in Config!Free
      BY <1>1, <2>2 DEF Config!Target, Config!Nothing
    <3> QED
      BY <3>1 DEF Config!Free
  <2> QED
    BY <2>1, <2>2
<1> HIDE DEF i
<1>3. settingsAt[t] \in CallerState /\ settingsAt[t].save > 0
  BY <1>1 DEF ConfigInv, FilesTyped, SavesNumbered, SaveSteps
<1>4. /\ new \in CallerState /\ new.do = "write" /\ new.save = settingsAt[t].save
      /\ new.setting = settingsAt[t].setting /\ new.fd = i /\ new.data = settingsAt[t].data
  BY <1>2, <1>3 DEF CallerState, SaveSteps
<1> HIDE DEF new
<1>5. settingsAt'[t] = new
  BY <1>1, <1>4, CallerMoves DEF ConfigInv
<1>6. ~overlapped => AtSave(t)'
  <2> SUFFICES ASSUME ~overlapped PROVE AtSave(t)'
    OBVIOUS
  <2>1. Config!Saving(t)
    BY <1>3 DEF Config!Saving
  <2>2. \A u \in Callers : settingsAt[u].fd = 0
    BY <1>1, <2>1 DEF ConfigInv, OneSave, SavesNumbered, Config!Saving, SaveSteps
  <2>3. i \notin spoilt' /\ i # 0
    BY <1>1, <1>2, <2>2, FilesAssumption
  <2>4. Merged(t)
    BY <1>1, <2>1 DEF ConfigInv, OneSave, AtSave
  <2>5. Merged(t)'
    BY <1>1, <1>4, <1>5, <2>4 DEF Merged
  <2> QED
    BY <1>1, <1>4, <1>5, <2>3, <2>5 DEF AtSave
<1>7. settingsAt[t].do \in SaveSteps /\ new.do \in {"write", "replace"} /\ tmp' \in {tmp, i} /\ tmp' # main
  BY <1>1, <1>2, <1>4 DEF SaveSteps
<1>8. new.do = "write" /\ new.fd # 0
  BY <1>2, <1>4, FilesAssumption
<1> QED
  BY <1>1, <1>2, <1>3, <1>4, <1>6, <1>7, <1>8, SettingsTyped, TouchStep

LEMMA WriteStep == ASSUME ConfigInv, NEW t \in Callers, Config!Write(t) PROVE ConfigInv'
<1> DEFINE new == [settingsAt[t] EXCEPT !.do = "replace", !.fd = 0]
<1>1. PICK c \in Config!Outcomes(t) : Config!Touch(settingsAt[t].fd, c)
  BY DEF Config!Write
<1>2. /\ settingsAt[t].do = "write" /\ settingsAt' = [settingsAt EXCEPT ![t] = new]
      /\ UNCHANGED <<main, tmp, spoilt, settingsCache, saves, saved, overlapped>>
  BY DEF Config!Write, Config!Does, Config!Nothing, Config!bounds, Config!history
<1>3. settingsAt[t] \in CallerState /\ settingsAt[t].save > 0
  BY <1>2 DEF ConfigInv, FilesTyped, SavesNumbered, SaveSteps
<1>4. /\ new \in CallerState /\ new.do = "replace" /\ new.save = settingsAt[t].save /\ new.fd = 0
      /\ new.setting = settingsAt[t].setting /\ new.data = settingsAt[t].data
  BY <1>2, <1>3 DEF CallerState, SaveSteps
<1> HIDE DEF new
<1>5. c \in Values
  <2>1. \A u \in Callers : settingsAt[u].data \in Values
    BY DEF ConfigInv, FilesTyped, CallerState
  <2>2. CASE settingsAt[t].fd \in spoilt
    BY <1>1, <2>1, <2>2, SettingsTyped DEF Config!Outcomes, Values
  <2>3. CASE settingsAt[t].fd \notin spoilt
    BY <1>1, <2>1, <2>3 DEF Config!Outcomes
  <2> QED
    BY <2>2, <2>3
<1>6. settingsAt'[t] = new
  BY <1>2, <1>4, CallerMoves DEF ConfigInv
<1>7. settingsAt[t].fd # 0
  BY <1>2 DEF ConfigInv, SavesNumbered
<1>8. settingsAt[t].fd \in Inodes
  BY <1>3, <1>7 DEF CallerState
<1>9. ~overlapped => AtSave(t)' /\ settingsAt[t].fd # main
  <2> SUFFICES ASSUME ~overlapped PROVE AtSave(t)' /\ settingsAt[t].fd # main
    OBVIOUS
  <2>1. AtSave(t)
    BY <1>3 DEF ConfigInv, OneSave, Config!Saving
  <2>2. /\ settingsAt[t].fd = tmp /\ tmp # 0 /\ tmp \notin spoilt /\ tmp # main /\ tmp \in Inodes
        /\ Merged(t)
    BY <1>2, <1>7, <2>1, <1>8 DEF AtSave, ConfigInv, FilesTyped
  <2>3. c = settingsAt[t].data
    BY <1>1, <2>2 DEF Config!Outcomes
  <2>4. content'[tmp] = settingsAt[t].data
    BY <1>1, <2>2, <2>3 DEF Config!Touch, ConfigInv, FilesTyped
  <2>5. Merged(t)'
    BY <1>2, <1>4, <1>6, <2>2 DEF Merged
  <2> QED
    BY <1>2, <1>4, <1>6, <2>2, <2>4, <2>5 DEF AtSave
<1>10. /\ settingsAt[t].do \in SaveSteps /\ new.do \in {"write", "replace"}
      /\ tmp' \in {tmp, settingsAt[t].fd} /\ tmp' # main
  BY <1>2, <1>4 DEF SaveSteps, ConfigInv, FilesTyped
<1> QED
  BY <1>1, <1>2, <1>4, <1>5, <1>8, <1>9, <1>10, TouchStep

LEMMA ReplaceStep == ASSUME ConfigInv, NEW t \in Callers, Config!Replace(t) PROVE ConfigInv'
<1>1. /\ settingsAt[t].do = "replace"
      /\ UNCHANGED <<content, stamp, spoilt, settingsCache, saves, overlapped>>
  BY DEF Config!Replace, Config!Does, Config!bounds
<1>2. settingsAt[t] \in CallerState /\ settingsAt[t].save > 0 /\ settingsAt[t].setting \in Settings /\ settingsAt[t].fd = 0
  BY <1>1 DEF ConfigInv, FilesTyped, SavesNumbered, SaveSteps
<1>3. Config!Saving(t)
  BY <1>2 DEF Config!Saving
<1>4. CASE tmp = 0
  <2>1. settingsAt' = [settingsAt EXCEPT ![t] = Config!Idle] /\ UNCHANGED <<main, tmp, saved>>
    BY <1>4 DEF Config!Replace, Config!End, Config!Nothing
  <2>2. settingsCache' \in Signature /\ SignHolds(settingsCache') /\ SignTells(settingsCache', settingsCache'.data)
    BY <1>1 DEF ConfigInv, FilesTyped, SignsHold
  <2> QED
    BY <1>1, <2>1, <2>2, CallerIdles
<1>5. CASE tmp # 0
  <2> DEFINE new == [settingsAt[t] EXCEPT !.do = "clear"]
  <2>1. /\ main' = tmp /\ tmp' = 0 /\ settingsAt' = [settingsAt EXCEPT ![t] = new]
        /\ saved' = [saved EXCEPT ![settingsAt[t].setting] = settingsAt[t].save]
    BY <1>5 DEF Config!Replace, Config!Nothing
  <2>2. /\ new \in CallerState /\ new.do = "clear" /\ new.save = settingsAt[t].save /\ new.fd = 0
        /\ new.setting = settingsAt[t].setting
    BY <1>2 DEF CallerState, SaveSteps
  <2> HIDE DEF new
  <2>3. settingsAt' \in [Callers -> CallerState] /\ settingsAt'[t] = new /\ OthersStay(t)
    BY <2>1, <2>2, CallerMoves DEF ConfigInv
  <2>4. FilesTyped'
    <3>1. saved' \in Values
      BY <1>2, <2>1 DEF ConfigInv, FilesTyped, Values, CallerState
    <3> QED
      BY <1>1, <1>5, <2>1, <2>3, <3>1, FilesAssumption DEF ConfigInv, FilesTyped
  <2>5. SignsHold'
    BY <1>1, <1>5, <2>1, <2>2, <2>3, FilesAssumption
       DEF ConfigInv, FilesTyped, SignsHold, SignHolds, SignTells, Unchanged, OthersStay
  <2>6. SavesNumbered'
    <3>1. \A s \in Settings : saved'[s] <= saves
      BY <1>2, <2>1 DEF ConfigInv, FilesTyped, SavesNumbered, Values
    <3> QED
      BY <1>1, <1>2, <2>2, <2>3, <3>1 DEF ConfigInv, SavesNumbered, OthersStay, SaveSteps
  <2>7. OneSave'
    <3> SUFFICES ASSUME ~overlapped PROVE OneSave'
      BY <1>1 DEF OneSave
    <3>1. content[tmp] = saved'
      BY <1>1, <1>3, <2>1 DEF ConfigInv, OneSave, AtSave, Merged
    <3>2. \A u \in Callers : Config!Saving(u)' => u = t
      BY <1>3, <2>3 DEF ConfigInv, OneSave, OthersStay, Config!Saving
    <3>3. AtSave(t)'
      BY <2>2, <2>3 DEF AtSave
    <3> QED
      BY <1>1, <2>1, <3>1, <3>2, <3>3 DEF OneSave
  <2> QED
    BY <2>4, <2>5, <2>6, <2>7 DEF ConfigInv
<1> QED
  BY <1>4, <1>5

LEMMA ClearStep == ASSUME ConfigInv, NEW t \in Callers, Config!Clear(t) PROVE ConfigInv'
<1>1. /\ settingsAt' = [settingsAt EXCEPT ![t] = Config!Idle] /\ settingsCache' = Config!NoCache
      /\ UNCHANGED <<content, stamp, main, tmp, spoilt, saves, saved, overlapped>>
  BY DEF Config!Clear, Config!End, Config!disk, Config!bounds, Config!history
<1>2. settingsCache' \in Signature /\ SignHolds(settingsCache') /\ SignTells(settingsCache', settingsCache'.data)
  BY <1>1, SettingsTyped DEF SignHolds, SignTells, Unchanged
<1> QED
  BY <1>1, <1>2, CallerIdles

LEMMA FailStep == ASSUME ConfigInv, NEW t \in Callers, Config!Fail(t) PROVE ConfigInv'
<1>1. /\ settingsAt' = [settingsAt EXCEPT ![t] = Config!Idle] /\ tmp' = 0
      /\ UNCHANGED <<content, stamp, main, spoilt, settingsCache, saves, saved, overlapped>>
      /\ settingsAt[t].do \in {"write", "replace"}
  BY DEF Config!Fail, Config!End, Config!Nothing, Config!history
<1>2. Config!Saving(t)
  BY <1>1 DEF ConfigInv, SavesNumbered, SaveSteps, Config!Saving
<1>3. settingsCache' \in Signature /\ SignHolds(settingsCache') /\ SignTells(settingsCache', settingsCache'.data)
  BY <1>1 DEF ConfigInv, FilesTyped, SignsHold
<1> QED
  BY <1>1, <1>2, <1>3, CallerIdles

LEMMA ConfigRestartStep == ASSUME ConfigInv, Config!Restart PROVE ConfigInv'
<1>1. /\ settingsCache' = Config!NoCache /\ settingsAt' = [t \in Callers |-> Config!Idle]
      /\ UNCHANGED <<content, stamp, main, tmp, spoilt, saves, saved, overlapped>>
  BY DEF Config!Restart, Config!disk, Config!history
<1>2. FilesTyped'
  BY <1>1, SettingsTyped DEF ConfigInv, FilesTyped
<1>3. SignsHold'
  BY <1>1, SettingsTyped DEF SignsHold, SignHolds, SignTells, Unchanged
<1>4. SavesNumbered'
  BY <1>1, SettingsTyped DEF ConfigInv, FilesTyped, SavesNumbered, SaveSteps
<1>5. OneSave'
  BY <1>1, SettingsTyped DEF ConfigInv, OneSave, AtSave, Config!Saving
<1> QED
  BY <1>2, <1>3, <1>4, <1>5 DEF ConfigInv

LEMMA ConfigNext == ASSUME ConfigInv, Config!Next PROVE ConfigInv'
BY BeginStep, BeginReadStep, LookStep, ReadFileStep, KeepStep, OpenTmpStep, WriteStep, ReplaceStep, ClearStep,
   FailStep, ConfigRestartStep DEF Config!Next

LEMMA ConfigStutters == ASSUME ConfigInv, UNCHANGED configVars PROVE ConfigInv'
<1>1. UNCHANGED <<content, stamp, main, tmp, spoilt, settingsCache, settingsAt, saves, saved, overlapped>>
  BY DEF configVars
<1> QED
  BY <1>1 DEF ConfigInv, FilesTyped, SignsHold, SignHolds, SignTells, Unchanged, SavesNumbered, OneSave, AtSave,
              Merged, Config!Saving

-----------------------------------------------------------------------------
\* As long as saves do not overlap config.json holds exactly what was saved, whatever
\* fails or ends on the way, and what the cache tells is always in the file.
THEOREM SettingsKeptHolds == KeptSpec => []SettingsKept
<1> DEFINE Inv0 == focus = "config" => ConfigInv
<1>1. KeptInit => Inv0
  BY ConfigInit DEF KeptInit
<1>2. Inv0 /\ [KeptNext]_keptVars => Inv0'
  <2> SUFFICES ASSUME Inv0, [KeptNext]_keptVars, focus' = "config" PROVE ConfigInv'
    OBVIOUS
  <2>1. focus = "config" /\ ConfigInv
    BY DEF KeptNext, keptVars
  <2>2. Config!Next \/ UNCHANGED configVars
    BY <2>1 DEF KeptNext, keptVars
  <2> QED
    BY <2>1, <2>2, ConfigNext, ConfigStutters
<1>3. Inv0 => SettingsKept
  <2> SUFFICES ASSUME ConfigInv PROVE Config!TypeOK /\ Config!SettingsKept /\ Config!CacheIsHonest
    BY DEF SettingsKept
  <2>1. Config!TypeOK
    BY DEF ConfigInv, FilesTyped, CallerState, Config!TypeOK, Config!Nothing
  <2>2. Config!SettingsKept
    BY DEF ConfigInv, OneSave, Config!SettingsKept
  <2>3. Config!CacheIsHonest
    BY HitTells DEF Config!CacheIsHonest
  <2> QED
    BY <2>1, <2>2, <2>3
<1> HIDE DEF Inv0
<1> QED
  BY <1>1, <1>2, <1>3, PTL DEF KeptSpec

-----------------------------------------------------------------------------
(* ValueHistory *)

Dates == 1..LastDay
AnyDay == Dates \cup {0}
ValueRow == [written : BOOLEAN, equity : SUBSET Entries, cash : SUBSET Entries]
Filling == {"row", "currencies"}
Living == {"equity", "cash", "live currencies"}
TaskState == [do : {"idle", "read", "date"} \cup Filling \cup Living, day : AnyDay, end : AnyDay,
              read : [Entries -> AnyDay], equity : SUBSET Entries, alone : BOOLEAN]

HasRead(t) == History!Booked(historyAt[t].read) # {}
First(t) == History!Start(historyAt[t].read)
HistoryTyped ==
  /\ booked \in [Entries -> AnyDay] /\ today \in Dates
  /\ valued \in [Dates -> ValueRow] /\ breakdown \in [Dates -> SUBSET Entries]
  /\ historyAt \in [Callers -> TaskState]
  /\ good \subseteq Dates /\ live \subseteq {d \in Dates : valued[d].written}

\* Where a task is, and that a task alone really is.
TasksHold ==
  \A t \in Callers :
    /\ historyAt[t].do = "idle" => historyAt[t] = History!Idle
    /\ historyAt[t].do = "read" => ~HasRead(t)
    /\ historyAt[t].do \in Filling => HasRead(t) /\ historyAt[t].day \in First(t)..historyAt[t].end
    /\ historyAt[t].do \in Living => historyAt[t].day # 0
    /\ historyAt[t].alone => \A u \in Callers \ {t} : historyAt[u].do = "idle"

\* After an edit no day is good, and no task alone, before a task has read the ledger as it is.
TasksFresh ==
  \A t \in Callers :
    /\ good # {} \/ historyAt[t].alone =>
         /\ historyAt[t].do \in Filling => historyAt[t].read = booked
         /\ historyAt[t].do \in {"cash", "live currencies"} => historyAt[t].equity = History!Booked(booked)
    /\ historyAt[t].alone /\ HasRead(t) => historyAt[t].read = booked

Fine(d) == valued[d].written /\ History!Agrees(d)
Known(d) == valued[d].equity \subseteq breakdown[d]
Adds(t, d) == historyAt[t].do = "live currencies" /\ historyAt[t].day = d

\* A good day stays so while tasks go over it again.
GoodStays == \A d \in good : Fine(d) /\ (Known(d) \/ \E t \in Callers : Adds(t, d))

\* The days that a task alone has filled in so far.
Past(t) ==
  {d \in Dates : /\ HasRead(t) /\ First(t) <= d /\ d <= historyAt[t].end
                 /\ historyAt[t].do = "row" => d < historyAt[t].day
                 /\ historyAt[t].do = "currencies" => d <= historyAt[t].day}
PastIsGood ==
  \A t \in Callers : historyAt[t].alone =>
    /\ \A d \in Past(t) : Fine(d) /\ (Known(d) \/ (historyAt[t].do \in {"currencies", "live currencies"} /\ historyAt[t].day = d))
    /\ historyAt[t].do = "currencies" => valued[historyAt[t].day].equity = History!Due(historyAt[t].day)
    /\ historyAt[t].do = "live currencies" => Fine(historyAt[t].day)

HistoryInv == HistoryTyped /\ TasksHold /\ TasksFresh /\ GoodStays /\ PastIsGood

LEMMA LeastNumber == ASSUME NEW T \in SUBSET Nat, T # {} PROVE \E x \in T : \A y \in T : x <= y
<1> DEFINE R == {ss \in Nat \X Nat : ss[1] < ss[2]}
<1>1. OpToRel(<, Nat) = R
  BY Zenon DEF OpToRel
<1>2. IsWellFoundedOn(R, Nat)
  BY <1>1, NatLessThanWellFounded, Zenon
<1>3. \A x, y \in Nat : <<y, x>> \in R <=> y < x
  OBVIOUS
<1> HIDE DEF R
<1>4. \E x \in T : \A y \in T : <<y, x>> \notin R
  BY <1>2, WFMin, Zenon
<1>5. PICK x \in T : \A y \in T : <<y, x>> \notin R
  BY <1>4
<1>6. ASSUME NEW y \in T PROVE x <= y
  <2>1. x \in Nat /\ y \in Nat
    OBVIOUS
  <2>2. ~ (y < x)
    BY <1>3, <1>5, <2>1
  <2> QED
    BY <2>1, <2>2
<1> QED
  BY <1>6

\* The first transaction of a ledger that has any.
LEMMA StartIsFirst ==
  ASSUME NEW l \in [Entries -> AnyDay], History!Booked(l) # {}
  PROVE  /\ History!Start(l) \in Dates
         /\ \A x \in History!Booked(l) : History!Start(l) <= l[x]
<1> DEFINE T == {l[x] : x \in History!Booked(l)}
<1>1. T \subseteq Dates /\ T # {} /\ T \subseteq Nat
  BY DaysAssumption DEF History!Booked, History!NoDay, AnyDay, Dates
<1>2. \E d \in T : \A e \in T : d <= e
  BY <1>1, LeastNumber
<1>3. \E d \in T : \A x \in History!Booked(l) : d <= l[x]
  BY <1>2
<1>4. History!Start(l) \in T /\ \A x \in History!Booked(l) : History!Start(l) <= l[x]
  BY <1>3 DEF History!Start
<1> QED
  BY <1>1, <1>4

LEMMA BookedEntries ==
  ASSUME NEW l \in [Entries -> AnyDay]
  PROVE  /\ History!Booked(l) \subseteq Entries
         /\ \A d \in Dates : History!AsOf(l, d) = {x \in Entries : l[x] \in 1..d} /\ History!AsOf(l, d) \subseteq History!Booked(l)
BY DaysAssumption DEF History!Booked, History!AsOf, History!NoDay, AnyDay, Dates

LEMMA DueIsAsOf ==
  ASSUME HistoryTyped, NEW d \in Dates
  PROVE  History!Due(d) = History!AsOf(booked, d) /\ History!Due(d) \subseteq History!Booked(booked)
BY BookedEntries DEF HistoryTyped, History!Due

LEMMA FineIsBooked ==
  ASSUME HistoryTyped, NEW d \in Dates, Fine(d)
  PROVE  valued[d].equity \subseteq History!Booked(booked)
BY DueIsAsOf DEF Fine, History!Agrees

LEMMA TaskIdle ==
  /\ History!Idle \in TaskState /\ History!Idle.do = "idle" /\ ~History!Idle.alone
  /\ History!Booked(History!Idle.read) = {}
BY DEF History!Idle, TaskState, History!NoDay, AnyDay, History!Booked

TasksStay(t) == \A u \in Callers \ {t} : historyAt'[u] = historyAt[u]
LEMMA TaskMoves ==
  ASSUME HistoryTyped, NEW t \in Callers, NEW s \in TaskState, historyAt' = [historyAt EXCEPT ![t] = s]
  PROVE  historyAt' \in [Callers -> TaskState] /\ historyAt'[t] = s /\ TasksStay(t)
BY DEF HistoryTyped, TasksStay

\* A task that begins leaves no other alone.
LEMMA BeginTask ==
  ASSUME HistoryTyped, NEW t \in Callers, NEW s \in TaskState, History!Begin(t, s)
  PROVE  /\ historyAt' \in [Callers -> TaskState]
         /\ historyAt'[t] = [s EXCEPT !.alone = (History!Others(t) = {})]
         /\ \A u \in Callers \ {t} : historyAt'[u] = [historyAt[u] EXCEPT !.alone = FALSE]
<1>1. (History!Others(t) = {}) \in BOOLEAN
  OBVIOUS
<1>2. /\ historyAt'[t] = [s EXCEPT !.alone = (History!Others(t) = {})]
      /\ \A u \in Callers \ {t} : historyAt'[u] = [historyAt[u] EXCEPT !.alone = FALSE]
      /\ DOMAIN historyAt' = Callers
      /\ historyAt' = [u \in Callers |-> historyAt'[u]]
  BY DEF History!Begin
<1>3. historyAt'[t] \in TaskState
  BY <1>1, <1>2 DEF TaskState
<1>4. ASSUME NEW u \in Callers \ {t} PROVE historyAt'[u] \in TaskState
  <2>1. historyAt[u] \in TaskState /\ historyAt'[u] = [historyAt[u] EXCEPT !.alone = FALSE]
    BY <1>2 DEF HistoryTyped
  <2> QED
    BY <2>1 DEF TaskState
<1> QED
  BY <1>2, <1>3, <1>4

LEMMA HistoryInit == ASSUME History!Init PROVE HistoryInv
<1>1. /\ booked = [x \in Entries |-> 0] /\ today = 1 /\ valued = [d \in Dates |-> History!NoRow]
      /\ breakdown = [d \in Dates |-> {}] /\ historyAt = [t \in Callers |-> History!Idle]
      /\ good = {} /\ live = {}
  BY DEF History!Init, History!NoDay, History!Days, Dates
<1>2. HistoryTyped
  BY <1>1, TaskIdle, DaysAssumption DEF HistoryTyped, AnyDay, Dates, ValueRow, History!NoRow
<1> QED
  BY <1>1, <1>2, TaskIdle DEF HistoryInv, TasksHold, TasksFresh, GoodStays, PastIsGood, HasRead, Filling, Living

-----------------------------------------------------------------------------
\* Steps that begin a task: an edit, or a snapshot.
LEMMA BegunStep ==
  ASSUME HistoryInv, NEW t \in Callers, historyAt[t].do = "idle", NEW s \in TaskState, History!Begin(t, s),
         s.do \in {"read", "equity"}, s.do = "equity" => s.day # 0, History!Booked(s.read) = {},
         booked' \in [Entries -> AnyDay], booked' = booked \/ good' = {}, good' \in {good, {}},
         UNCHANGED <<today, valued, breakdown, live>>
  PROVE  HistoryInv'
<1> DEFINE new == [s EXCEPT !.alone = (History!Others(t) = {})]
<1>1. /\ historyAt' \in [Callers -> TaskState] /\ historyAt'[t] = new
      /\ \A u \in Callers \ {t} : historyAt'[u] = [historyAt[u] EXCEPT !.alone = FALSE]
  BY BeginTask DEF HistoryInv
<1>2. /\ new.do = s.do /\ new.day = s.day /\ new.read = s.read /\ new.alone = (History!Others(t) = {})
      /\ new.equity = s.equity
  BY DEF TaskState
<1>3. \A u \in Callers \ {t} :
        /\ historyAt'[u].do = historyAt[u].do /\ historyAt'[u].day = historyAt[u].day
        /\ historyAt'[u].end = historyAt[u].end /\ historyAt'[u].read = historyAt[u].read
        /\ historyAt'[u].equity = historyAt[u].equity /\ ~historyAt'[u].alone
  BY <1>1 DEF HistoryInv, HistoryTyped, TaskState
<1> HIDE DEF new
<1>4. HistoryTyped'
  BY <1>1 DEF HistoryInv, HistoryTyped
<1>5. TasksHold'
  <2>1. ASSUME NEW u \in Callers, u # t, historyAt[u].do = "idle" PROVE historyAt'[u] = History!Idle
    <3>1. historyAt[u] = History!Idle
      BY <2>1 DEF HistoryInv, TasksHold
    <3> QED
      BY <1>1, <2>1, <3>1, TaskIdle DEF TaskState
  <2>2. historyAt'[t].alone => \A u \in Callers \ {t} : historyAt'[u].do = "idle"
    BY <1>1, <1>2, <1>3 DEF History!Others, History!Does
  <2>3. \A u \in Callers \ {t} : HasRead(u)' = HasRead(u) /\ First(u)' = First(u)
    BY <1>3 DEF HasRead, First
  <2>4. ~HasRead(t)' /\ historyAt'[t].do \notin Filling /\ historyAt'[t].do # "idle"
        /\ (historyAt'[t].do \in Living => historyAt'[t].day # 0)
    BY <1>1, <1>2 DEF HasRead, Filling, Living
  <2> QED
    BY <1>1, <1>2, <1>3, <2>1, <2>2, <2>3, <2>4 DEF HistoryInv, TasksHold
<1>6. TasksFresh'
  BY <1>1, <1>2, <1>3 DEF HistoryInv, TasksFresh, HasRead, Filling
<1>7. GoodStays'
  <2> SUFFICES ASSUME NEW d \in good, good' = good, booked' = booked
               PROVE  Fine(d)' /\ (Known(d)' \/ \E u \in Callers : Adds(u, d)')
    BY DEF GoodStays
  <2>1. Fine(d) /\ (Known(d) \/ \E u \in Callers : Adds(u, d))
    BY DEF HistoryInv, GoodStays
  <2>2. Fine(d)' /\ Known(d)' = Known(d)
    BY <2>1 DEF Fine, Known, History!Agrees, History!Due
  <2>3. \A u \in Callers : Adds(u, d) => Adds(u, d)'
    BY <1>3 DEF Adds
  <2> QED
    BY <2>1, <2>2, <2>3
<1>8. PastIsGood'
  BY <1>1, <1>2, <1>3 DEF PastIsGood, Past, HasRead
<1> QED
  BY <1>4, <1>5, <1>6, <1>7, <1>8 DEF HistoryInv

LEMMA EditStep ==
  ASSUME HistoryInv, NEW t \in Callers, NEW x \in Entries, NEW d \in AnyDay, History!Edit(t, x, d)
  PROVE  HistoryInv'
<1> DEFINE s == [History!Idle EXCEPT !.do = "read"]
<1>1. s \in TaskState /\ s.do = "read" /\ History!Booked(s.read) = {}
  BY TaskIdle DEF TaskState
<1>2. /\ historyAt[t].do = "idle" /\ History!Begin(t, s) /\ good' = {} /\ booked' = [booked EXCEPT ![x] = d]
      /\ UNCHANGED <<today, valued, breakdown, live>>
  BY DEF History!Edit, History!Does, History!tables
<1>3. booked' \in [Entries -> AnyDay]
  BY <1>2 DEF HistoryInv, HistoryTyped
<1> HIDE DEF s
<1> QED
  BY <1>1, <1>2, <1>3, BegunStep

LEMMA SnapshotStep ==
  ASSUME HistoryInv, NEW t \in Callers, NEW b \in BOOLEAN, History!SnapshotAccount(t, b)
  PROVE  HistoryInv'
<1> DEFINE d == IF b THEN today - 1 ELSE today
           s == [History!Idle EXCEPT !.do = "equity", !.day = d]
<1>1. /\ historyAt[t].do = "idle" /\ History!Begin(t, s) /\ good' = good /\ booked' = booked
      /\ UNCHANGED <<today, valued, breakdown, live>> /\ (b => today > 1)
  BY DEF History!SnapshotAccount, History!Does, History!tables, History!history
<1>2. d \in Dates /\ d # 0 /\ booked' \in [Entries -> AnyDay]
  BY <1>1, DaysAssumption DEF HistoryInv, HistoryTyped, Dates
<1> HIDE DEF d
<1>3. s \in TaskState /\ s.do = "equity" /\ s.day = d /\ History!Booked(s.read) = {}
  BY <1>2, TaskIdle DEF TaskState, AnyDay, Living
<1> HIDE DEF s
<1> QED
  BY <1>1, <1>2, <1>3, BegunStep

-----------------------------------------------------------------------------
\* The steps of a task that is under way.  They keep what is good when they keep it fine and
\* what is known known, and only a task alone has more to answer for.
LEMMA UnderWay ==
  ASSUME HistoryInv, NEW t \in Callers, historyAt[t].do # "idle", NEW s \in TaskState,
         historyAt' = [historyAt EXCEPT ![t] = s],
         UNCHANGED <<booked, today>>, HistoryTyped', s.alone => historyAt[t].alone
  PROVE  /\ historyAt'[t] = s /\ TasksStay(t)
         /\ \A u \in Callers \ {t} : historyAt[u].alone = FALSE /\ historyAt'[u] = historyAt[u]
         /\ \A u \in Callers \ {t} : HasRead(u)' = HasRead(u) /\ First(u)' = First(u)
         /\ TasksHold' <=>
              /\ s.do = "idle" => s = History!Idle
              /\ s.do = "read" => ~HasRead(t)'
              /\ s.do \in Filling => HasRead(t)' /\ s.day \in First(t)'..s.end
              /\ s.do \in Living => s.day # 0
<1>1. historyAt'[t] = s /\ TasksStay(t)
  BY TaskMoves DEF HistoryInv
<1>2. \A u \in Callers \ {t} : historyAt[u].alone = FALSE
  BY DEF HistoryInv, HistoryTyped, TaskState, TasksHold
<1>3. \A u \in Callers \ {t} : HasRead(u)' = HasRead(u) /\ First(u)' = First(u)
  BY <1>1 DEF TasksStay, HasRead, First
<1>4. s.alone => \A u \in Callers \ {t} : historyAt'[u].do = "idle"
  BY <1>1 DEF TasksStay, HistoryInv, TasksHold
<1> QED
  BY <1>1, <1>2, <1>3, <1>4 DEF HistoryInv, TasksHold, TasksStay

\* One that only the task takes part in: the tables stay.
LEMMA TablesStay ==
  ASSUME HistoryInv, NEW t \in Callers, historyAt[t].do \in {"read", "date", "equity"}, NEW s \in TaskState,
         historyAt' = [historyAt EXCEPT ![t] = s],
         UNCHANGED <<booked, today, valued, breakdown, good, live>>, s.alone = historyAt[t].alone,
         s.do \in {"date", "row", "equity", "cash"},
         s.do = "row" => HasRead(t)' /\ s.read = booked /\ s.day = First(t)' /\ s.day <= s.end,
         s.do # "row" => s.read = historyAt[t].read /\ s.end = historyAt[t].end,
         s.do = "cash" => s.equity = History!Booked(booked),
         s.do \in Living => s.day # 0
  PROVE  HistoryInv'
<1>1. historyAt' \in [Callers -> TaskState] /\ historyAt'[t] = s /\ TasksStay(t)
  BY TaskMoves DEF HistoryInv
<1>2. HistoryTyped'
  BY <1>1 DEF HistoryInv, HistoryTyped
<1>3. TasksHold'
  <2>1. s.do = "row" => s.day \in First(t)'..s.end
    <3>1. s.day \in Int /\ s.end \in Int
      BY DaysAssumption DEF TaskState, AnyDay, Dates
    <3> QED
      BY <3>1
  <2> QED
    BY <1>2, <2>1, UnderWay DEF Filling
<1>4. TasksFresh'
  BY <1>1 DEF HistoryInv, TasksFresh, TasksStay, HasRead, Filling
<1>5. GoodStays'
  <2> SUFFICES ASSUME NEW d \in good
               PROVE  Fine(d)' /\ (Known(d)' \/ \E u \in Callers : Adds(u, d)')
    BY DEF GoodStays
  <2>1. Fine(d) /\ (Known(d) \/ \E u \in Callers : Adds(u, d))
    BY DEF HistoryInv, GoodStays
  <2>2. Fine(d)' = Fine(d) /\ Known(d)' = Known(d)
    BY DEF Fine, Known, History!Agrees, History!Due
  <2>3. \A u \in Callers : Adds(u, d) => Adds(u, d)'
    BY <1>1 DEF Adds, TasksStay
  <2> QED
    BY <2>1, <2>2, <2>3
<1>6. PastIsGood'
  <2> SUFFICES ASSUME s.alone
               PROVE  \A d \in Past(t)' : Fine(d)' /\ Known(d)'
    BY <1>1, <1>2, UnderWay DEF PastIsGood
  <2> SUFFICES ASSUME NEW d \in Past(t)' PROVE Fine(d)' /\ Known(d)'
    OBVIOUS
  <2>1. CASE s.do = "row"
    <3>1. d \in Dates /\ First(t)' <= d /\ d < s.day
      BY <1>1, <2>1 DEF Past
    <3> QED
      BY <2>1, <3>1, DaysAssumption DEF Dates, TaskState, AnyDay
  <2>2. CASE s.do # "row"
    <3>1. d \in Past(t)
      BY <1>1, <2>2 DEF Past, HasRead, First
    <3>2. Fine(d) /\ Known(d)
      BY <3>1 DEF HistoryInv, PastIsGood
    <3> QED
      BY <3>2 DEF Fine, Known, History!Agrees, History!Due
  <2> QED
    BY <2>1, <2>2
<1> QED
  BY <1>2, <1>3, <1>4, <1>5, <1>6 DEF HistoryInv

LEMMA ReadLedgerOnce == ASSUME HistoryInv, NEW t \in Callers, History!ReadLedger(t) PROVE HistoryInv'
<1>1. /\ historyAt[t].do = "read" /\ historyAt[t] \in TaskState
      /\ UNCHANGED <<booked, today, valued, breakdown, good, live>>
  BY DEF History!ReadLedger, History!Does, History!tables, History!history, HistoryInv, HistoryTyped
<1>2. CASE History!Booked(booked) = {} \/ History!Start(booked) > History!End
  <2> DEFINE s == [historyAt[t] EXCEPT !.do = "date"]
  <2>1. historyAt' = [historyAt EXCEPT ![t] = s]
    BY <1>2 DEF History!ReadLedger
  <2>2. s \in TaskState /\ s.do = "date" /\ s.alone = historyAt[t].alone /\ s.read = historyAt[t].read /\ s.end = historyAt[t].end
    BY <1>1 DEF TaskState
  <2> HIDE DEF s
  <2> QED
    BY <1>1, <2>1, <2>2, TablesStay DEF Living
<1>3. CASE ~(History!Booked(booked) = {} \/ History!Start(booked) > History!End)
  <2> DEFINE s == [historyAt[t] EXCEPT !.do = "row", !.read = booked, !.day = History!Start(booked), !.end = today - 1]
  <2>1. historyAt' = [historyAt EXCEPT ![t] = s]
    BY <1>3 DEF History!ReadLedger, History!End
  <2>2. booked \in [Entries -> AnyDay] /\ History!Start(booked) \in Dates /\ today \in Dates
    BY <1>3, StartIsFirst DEF HistoryInv, HistoryTyped
  <2>3. today - 1 \in AnyDay /\ History!Start(booked) <= today - 1
    BY <1>3, <2>2, DaysAssumption DEF History!End, AnyDay, Dates
  <2>4. /\ s \in TaskState /\ s.do = "row" /\ s.alone = historyAt[t].alone /\ s.read = booked
        /\ s.day = History!Start(booked) /\ s.end = today - 1
    BY <1>1, <2>2, <2>3 DEF TaskState, AnyDay, Filling
  <2> HIDE DEF s
  <2>5. historyAt'[t] = s
    BY <2>1, <2>4, TaskMoves DEF HistoryInv
  <2>6. HasRead(t)' /\ First(t)' = s.day
    BY <1>3, <2>4, <2>5 DEF HasRead, First
  <2> QED
    BY <1>1, <2>1, <2>3, <2>4, <2>6, TablesStay DEF Living
<1> QED
  BY <1>2, <1>3

LEMMA DateTodayStep == ASSUME HistoryInv, NEW t \in Callers, History!DateToday(t) PROVE HistoryInv'
<1> DEFINE s == [historyAt[t] EXCEPT !.do = "equity", !.day = today]
<1>1. /\ historyAt[t].do = "date" /\ historyAt[t] \in TaskState /\ historyAt' = [historyAt EXCEPT ![t] = s]
      /\ UNCHANGED <<booked, today, valued, breakdown, good, live>> /\ today \in Dates
  BY DEF History!DateToday, History!Does, History!tables, History!history, HistoryInv, HistoryTyped
<1>2. /\ s \in TaskState /\ s.do = "equity" /\ s.alone = historyAt[t].alone /\ s.read = historyAt[t].read
      /\ s.end = historyAt[t].end /\ s.day = today
  BY <1>1 DEF TaskState, AnyDay, Living
<1>3. today # 0
  BY <1>1, DaysAssumption DEF Dates
<1> HIDE DEF s
<1> QED
  BY <1>1, <1>2, <1>3, TablesStay

LEMMA ReadEquityStep == ASSUME HistoryInv, NEW t \in Callers, History!ReadEquity(t) PROVE HistoryInv'
<1> DEFINE s == [historyAt[t] EXCEPT !.do = "cash", !.equity = History!Booked(booked)]
<1>1. /\ historyAt[t].do = "equity" /\ historyAt[t] \in TaskState /\ historyAt' = [historyAt EXCEPT ![t] = s]
      /\ UNCHANGED <<booked, today, valued, breakdown, good, live>> /\ booked \in [Entries -> AnyDay]
  BY DEF History!ReadEquity, History!Does, History!tables, History!history, HistoryInv, HistoryTyped
<1>2. History!Booked(booked) \in SUBSET Entries
  BY DEF History!Booked
<1>3. /\ s \in TaskState /\ s.do = "cash" /\ s.alone = historyAt[t].alone /\ s.read = historyAt[t].read
      /\ s.end = historyAt[t].end /\ s.day = historyAt[t].day /\ s.equity = History!Booked(booked)
  BY <1>1, <1>2 DEF TaskState, Living
<1>4. historyAt[t].day # 0
  BY <1>1 DEF HistoryInv, TasksHold, Living
<1> HIDE DEF s
<1> QED
  BY <1>1, <1>3, <1>4, TablesStay

\* A task alone in the middle of a day: which day it is, and what it is written from.
LEMMA FillingState ==
  ASSUME HistoryInv, NEW t \in Callers, historyAt[t].do \in Filling
  PROVE  /\ historyAt[t] \in TaskState /\ historyAt[t].day \in Dates /\ historyAt[t].end \in AnyDay
         /\ First(t) <= historyAt[t].day /\ historyAt[t].day <= historyAt[t].end /\ HasRead(t) /\ First(t) \in Dates
         /\ History!AsOf(historyAt[t].read, historyAt[t].day) \in SUBSET Entries
         /\ good # {} \/ historyAt[t].alone =>
              History!AsOf(historyAt[t].read, historyAt[t].day) = History!Due(historyAt[t].day)
<1>1. historyAt[t] \in TaskState /\ historyAt[t].read \in [Entries -> AnyDay]
  BY DEF HistoryInv, HistoryTyped, TaskState
<1>2. HasRead(t) /\ historyAt[t].day \in First(t)..historyAt[t].end
  BY DEF HistoryInv, TasksHold
<1>3. First(t) \in Dates
  BY <1>1, <1>2, StartIsFirst DEF HasRead, First
<1>4. /\ historyAt[t].day \in Dates /\ historyAt[t].end \in AnyDay
      /\ First(t) <= historyAt[t].day /\ historyAt[t].day <= historyAt[t].end
  BY <1>1, <1>2, <1>3, DaysAssumption DEF TaskState, AnyDay, Dates
<1>5. History!AsOf(historyAt[t].read, historyAt[t].day) \in SUBSET Entries
  BY <1>1, <1>4, BookedEntries
<1>6. ASSUME good # {} \/ historyAt[t].alone
      PROVE  History!AsOf(historyAt[t].read, historyAt[t].day) = History!Due(historyAt[t].day)
  <2>1. historyAt[t].read = booked
    BY <1>6 DEF HistoryInv, TasksFresh
  <2> QED
    BY <1>4, <2>1, DueIsAsOf DEF HistoryInv
<1> QED
  BY <1>1, <1>2, <1>3, <1>4, <1>5, <1>6

LEMMA FillRowStep == ASSUME HistoryInv, NEW t \in Callers, History!FillRow(t) PROVE HistoryInv'
<1>0. PICK day \in Dates : day = historyAt[t].day
  BY FillingState DEF History!FillRow, History!Does, Filling
<1> DEFINE added == History!AsOf(historyAt[t].read, day)
           s == [historyAt[t] EXCEPT !.do = "currencies"]
<1>1. /\ historyAt[t].do = "row" /\ valued' = [valued EXCEPT ![day] = [written |-> TRUE, equity |-> added, cash |-> added]]
      /\ live' = live \ {day} /\ historyAt' = [historyAt EXCEPT ![t] = s]
      /\ UNCHANGED <<booked, today, breakdown, good>>
  BY <1>0 DEF History!FillRow, History!Does
<1>2. /\ day \in Dates /\ added \in SUBSET Entries /\ historyAt[t] \in TaskState /\ HasRead(t)
      /\ good # {} \/ historyAt[t].alone => added = History!Due(day)
  BY <1>0, <1>1, FillingState DEF Filling
<1> HIDE DEF added
<1>3. /\ s \in TaskState /\ s.do = "currencies" /\ s.alone = historyAt[t].alone /\ s.read = historyAt[t].read
      /\ s.end = historyAt[t].end /\ s.day = day
  BY <1>0, <1>2 DEF TaskState, Filling
<1> HIDE DEF s
<1>4. historyAt' \in [Callers -> TaskState] /\ historyAt'[t] = s /\ TasksStay(t)
  BY <1>1, <1>3, TaskMoves DEF HistoryInv
<1>5. /\ valued'[day].written /\ valued'[day].equity = added /\ valued'[day].cash = added
      /\ \A d \in Dates \ {day} : valued'[d] = valued[d]
  BY <1>1, <1>2 DEF HistoryInv, HistoryTyped
<1>6. HistoryTyped'
  <2>1. valued' \in [Dates -> ValueRow]
    BY <1>1, <1>2 DEF HistoryInv, HistoryTyped, ValueRow
  <2>2. live' \subseteq {d \in Dates : valued'[d].written}
    BY <1>1, <1>5 DEF HistoryInv, HistoryTyped
  <2> QED
    BY <1>1, <1>4, <2>1, <2>2 DEF HistoryInv, HistoryTyped
<1>7. HasRead(t)' /\ First(t)' = First(t)
  BY <1>2, <1>3, <1>4 DEF HasRead, First
<1>8. TasksHold'
  <2>1. s.day \in First(t)'..s.end
    BY <1>0, <1>1, <1>3, <1>7 DEF HistoryInv, TasksHold, Filling
  <2> QED
    BY <1>1, <1>3, <1>6, <1>7, <2>1, UnderWay DEF Filling, Living
<1>9. TasksFresh'
  BY <1>1, <1>3, <1>4 DEF HistoryInv, TasksFresh, TasksStay, HasRead, Filling
<1>10. \A d \in Dates \ {day} : Fine(d)' = Fine(d) /\ Known(d)' = Known(d)
  BY <1>1, <1>5 DEF Fine, Known, History!Agrees, History!Due
<1>11. good # {} \/ historyAt[t].alone => Fine(day)' /\ valued'[day].equity = History!Due(day)'
  BY <1>1, <1>2, <1>5 DEF Fine, History!Agrees, History!Due
<1>12. good # {} \/ historyAt[t].alone => (Fine(day) /\ Known(day) => Known(day)')
  <2>1. Fine(day) => History!Due(day) \subseteq valued[day].equity
    BY <1>2, DueIsAsOf DEF HistoryInv, Fine, History!Agrees
  <2> QED
    BY <1>1, <1>2, <1>5, <2>1 DEF Known
<1>13. GoodStays'
  <2> SUFFICES ASSUME NEW d \in good
               PROVE  Fine(d)' /\ (Known(d)' \/ \E u \in Callers : Adds(u, d)')
    BY <1>1 DEF GoodStays
  <2>1. Fine(d) /\ (Known(d) \/ \E u \in Callers : Adds(u, d)) /\ d \in Dates
    BY DEF HistoryInv, HistoryTyped, GoodStays
  <2>2. \A u \in Callers : Adds(u, d) => Adds(u, d)'
    BY <1>1, <1>4 DEF Adds, TasksStay
  <2> QED
    BY <1>10, <1>11, <1>12, <2>1, <2>2
<1>14. PastIsGood'
  <2> SUFFICES ASSUME s.alone
               PROVE  /\ \A d \in Past(t)' : Fine(d)' /\ (Known(d)' \/ day = d)
                      /\ valued'[day].equity = History!Due(day)'
    BY <1>1, <1>3, <1>4, <1>6, UnderWay DEF PastIsGood
  <2>1. ASSUME NEW d \in Past(t)', d # day PROVE Fine(d)' /\ Known(d)'
    <3>1. d \in Past(t)
      BY <1>0, <1>1, <1>2, <1>3, <1>4, <1>7, <2>1, DaysAssumption DEF Past, Dates
    <3>2. Fine(d) /\ Known(d) /\ d \in Dates
      BY <1>1, <1>3, <3>1, <1>0, <2>1 DEF HistoryInv, PastIsGood, Past
    <3> QED
      BY <1>10, <2>1, <3>2
  <2> QED
    BY <1>3, <1>11, <2>1
<1> QED
  BY <1>6, <1>8, <1>9, <1>13, <1>14 DEF HistoryInv

LEMMA FillCurrenciesStep == ASSUME HistoryInv, NEW t \in Callers, History!FillCurrencies(t) PROVE HistoryInv'
<1>0. PICK day \in Dates : day = historyAt[t].day
  BY FillingState DEF History!FillCurrencies, History!Does, Filling
<1> DEFINE added == History!AsOf(historyAt[t].read, day)
           s == IF day = historyAt[t].end THEN [historyAt[t] EXCEPT !.do = "date"]
                ELSE [historyAt[t] EXCEPT !.do = "row", !.day = day + 1]
<1>1. /\ historyAt[t].do = "currencies" /\ breakdown' = [breakdown EXCEPT ![day] = breakdown[day] \cup added]
      /\ historyAt' = [historyAt EXCEPT ![t] = s]
      /\ UNCHANGED <<booked, today, valued, good, live>>
  BY <1>0 DEF History!FillCurrencies, History!Does, History!Currencies, History!history
<1>2. /\ day \in Dates /\ added \in SUBSET Entries /\ historyAt[t] \in TaskState /\ HasRead(t)
      /\ First(t) <= day /\ day <= historyAt[t].end /\ historyAt[t].end \in AnyDay /\ First(t) \in Dates
      /\ good # {} \/ historyAt[t].alone => added = History!Due(day)
  BY <1>0, <1>1, FillingState DEF Filling
<1> HIDE DEF added
<1>3. /\ s \in TaskState /\ s.do \in {"date", "row"} /\ s.alone = historyAt[t].alone /\ s.read = historyAt[t].read
      /\ s.end = historyAt[t].end
      /\ s.do = "row" => s.day = day + 1 /\ day + 1 <= s.end
      /\ s.do = "date" => day = s.end
  <2>1. CASE day = historyAt[t].end
    BY <1>0, <1>2, <2>1 DEF TaskState
  <2>2. CASE day # historyAt[t].end
    <3>1. day + 1 \in AnyDay /\ day + 1 <= historyAt[t].end
      BY <1>0, <1>2, <2>2, DaysAssumption DEF AnyDay, Dates
    <3> QED
      BY <1>0, <1>2, <2>2, <3>1 DEF TaskState, Filling
  <2> QED
    BY <2>1, <2>2
<1> HIDE DEF s
<1>4. historyAt' \in [Callers -> TaskState] /\ historyAt'[t] = s /\ TasksStay(t)
  BY <1>1, <1>3, TaskMoves DEF HistoryInv
<1>5. breakdown'[day] = breakdown[day] \cup added /\ \A d \in Dates : breakdown[d] \subseteq breakdown'[d]
  BY <1>1, <1>2 DEF HistoryInv, HistoryTyped
<1>6. HistoryTyped'
  BY <1>1, <1>2, <1>4 DEF HistoryInv, HistoryTyped
<1>7. HasRead(t)' /\ First(t)' = First(t)
  BY <1>2, <1>3, <1>4 DEF HasRead, First
<1>8. TasksHold'
  <2>1. s.do = "row" => s.day \in First(t)'..s.end
    BY <1>2, <1>3, <1>7, DaysAssumption DEF Dates, AnyDay
  <2>2. historyAt[t].do # "idle" /\ s.do \notin {"idle", "read"} \cup Living
    BY <1>1, <1>3 DEF Living
  <2>3. s.do \in Filling => HasRead(t)' /\ s.day \in First(t)'..s.end
    BY <1>3, <1>7, <2>1 DEF Filling
  <2> QED
    BY <1>1, <1>3, <1>6, <2>2, <2>3, UnderWay
<1>9. TasksFresh'
  BY <1>1, <1>3, <1>4 DEF HistoryInv, TasksFresh, TasksStay, HasRead, Filling
<1>10. \A d \in Dates : Fine(d)' = Fine(d) /\ (Known(d) => Known(d)')
  BY <1>1, <1>5 DEF Fine, Known, History!Agrees, History!Due
<1>11. GoodStays'
  <2> SUFFICES ASSUME NEW d \in good
               PROVE  Fine(d)' /\ (Known(d)' \/ \E u \in Callers : Adds(u, d)')
    BY <1>1 DEF GoodStays
  <2>1. Fine(d) /\ (Known(d) \/ \E u \in Callers : Adds(u, d)) /\ d \in Dates
    BY DEF HistoryInv, HistoryTyped, GoodStays
  <2>2. \A u \in Callers : Adds(u, d) => Adds(u, d)'
    BY <1>1, <1>4 DEF Adds, TasksStay
  <2> QED
    BY <1>10, <2>1, <2>2
<1>12. PastIsGood'
  <2> SUFFICES ASSUME s.alone
               PROVE  \A d \in Past(t)' : Fine(d)' /\ Known(d)'
    BY <1>1, <1>3, <1>4, <1>6, UnderWay DEF PastIsGood
  <2> SUFFICES ASSUME NEW d \in Past(t)' PROVE Fine(d)' /\ Known(d)'
    OBVIOUS
  <2>1. d \in Past(t)
    <3>1. d \in Dates /\ First(t) <= d /\ d <= historyAt[t].end /\ (s.do = "row" => d < s.day)
      BY <1>3, <1>4, <1>7 DEF Past
    <3>2. d <= day
      BY <1>2, <1>3, <3>1, DaysAssumption DEF Dates
    <3> QED
      BY <1>0, <1>1, <1>2, <3>1, <3>2 DEF Past
  <2>2. /\ Fine(d) /\ d \in Dates /\ (d # day => Known(d))
        /\ valued[day].equity = History!Due(day)
    BY <1>0, <1>1, <1>3, <2>1 DEF HistoryInv, PastIsGood, Past
  <2>3. Known(day)'
    BY <1>1, <1>2, <1>3, <1>5, <2>2 DEF Known
  <2> QED
    BY <1>10, <2>2, <2>3
<1> QED
  BY <1>6, <1>8, <1>9, <1>11, <1>12 DEF HistoryInv

LEMMA WriteLiveStep == ASSUME HistoryInv, NEW t \in Callers, History!WriteLive(t) PROVE HistoryInv'
<1>0. PICK day \in Dates : day = historyAt[t].day
  BY DEF History!WriteLive, History!Does, Living, HistoryInv, HistoryTyped, TasksHold, TaskState, AnyDay
<1> DEFINE s == [historyAt[t] EXCEPT !.do = "live currencies"]
<1>1. /\ historyAt[t].do = "cash" /\ historyAt' = [historyAt EXCEPT ![t] = s] /\ live' = live \cup {day}
      /\ valued' = [valued EXCEPT ![day] = [written |-> TRUE, equity |-> historyAt[t].equity, cash |-> History!Booked(booked)]]
      /\ UNCHANGED <<booked, today, breakdown, good>>
  BY <1>0 DEF History!WriteLive, History!Does
<1>2. /\ historyAt[t] \in TaskState /\ historyAt[t].equity \in SUBSET Entries
      /\ History!Booked(booked) \in SUBSET Entries
      /\ good # {} \/ historyAt[t].alone => historyAt[t].equity = History!Booked(booked)
  BY <1>1 DEF HistoryInv, HistoryTyped, TaskState, TasksFresh, History!Booked
<1>3. /\ s \in TaskState /\ s.do = "live currencies" /\ s.alone = historyAt[t].alone /\ s.read = historyAt[t].read
      /\ s.end = historyAt[t].end /\ s.day = day /\ s.equity = historyAt[t].equity
  BY <1>0, <1>2 DEF TaskState, Living
<1> HIDE DEF s
<1>4. historyAt' \in [Callers -> TaskState] /\ historyAt'[t] = s /\ TasksStay(t)
  BY <1>1, <1>3, TaskMoves DEF HistoryInv
<1>5. /\ valued'[day].written /\ valued'[day].equity = historyAt[t].equity /\ valued'[day].cash = History!Booked(booked)
      /\ \A d \in Dates \ {day} : valued'[d] = valued[d]
  BY <1>1, <1>2 DEF HistoryInv, HistoryTyped
<1>6. HistoryTyped'
  <2>1. valued' \in [Dates -> ValueRow]
    BY <1>1, <1>2 DEF HistoryInv, HistoryTyped, ValueRow
  <2>2. live' \subseteq {d \in Dates : valued'[d].written}
    BY <1>1, <1>5 DEF HistoryInv, HistoryTyped
  <2> QED
    BY <1>1, <1>4, <2>1, <2>2 DEF HistoryInv, HistoryTyped
<1>7. HasRead(t)' = HasRead(t) /\ First(t)' = First(t)
  BY <1>3, <1>4 DEF HasRead, First
<1>8. TasksHold'
  <2>1. day # 0
    BY DaysAssumption DEF Dates
  <2> QED
    BY <1>1, <1>3, <1>6, <2>1, UnderWay DEF Filling, Living
<1>9. TasksFresh'
  BY <1>1, <1>2, <1>3, <1>4 DEF HistoryInv, TasksFresh, TasksStay, HasRead, Filling
<1>10. \A d \in Dates \ {day} : Fine(d)' = Fine(d) /\ Known(d)' = Known(d)
  BY <1>1, <1>5 DEF Fine, Known, History!Agrees, History!Due
<1>11. good # {} \/ historyAt[t].alone => Fine(day)'
  BY <1>1, <1>2, <1>5 DEF Fine, History!Agrees
<1>12. Adds(t, day)'
  BY <1>3, <1>4 DEF Adds
<1>13. GoodStays'
  <2> SUFFICES ASSUME NEW d \in good
               PROVE  Fine(d)' /\ (Known(d)' \/ \E u \in Callers : Adds(u, d)')
    BY <1>1 DEF GoodStays
  <2>1. Fine(d) /\ (Known(d) \/ \E u \in Callers : Adds(u, d)) /\ d \in Dates
    BY DEF HistoryInv, HistoryTyped, GoodStays
  <2>2. \A u \in Callers : Adds(u, d) => Adds(u, d)'
    BY <1>1, <1>4 DEF Adds, TasksStay
  <2> QED
    BY <1>10, <1>11, <1>12, <2>1, <2>2
<1>14. PastIsGood'
  <2> SUFFICES ASSUME s.alone
               PROVE  \A d \in Past(t)' : Fine(d)' /\ (Known(d)' \/ day = d)
    BY <1>1, <1>3, <1>4, <1>6, <1>11, UnderWay DEF PastIsGood
  <2>1. ASSUME NEW d \in Past(t)', d # day PROVE Fine(d)' /\ Known(d)'
    <3>1. d \in Past(t)
      BY <1>1, <1>3, <1>4, <1>7 DEF Past
    <3>2. Fine(d) /\ Known(d) /\ d \in Dates
      BY <1>1, <1>3, <3>1 DEF HistoryInv, PastIsGood, Past
    <3> QED
      BY <1>10, <2>1, <3>2
  <2> QED
    BY <1>3, <1>11, <2>1
<1> QED
  BY <1>6, <1>8, <1>9, <1>13, <1>14 DEF HistoryInv

LEMMA LiveCurrenciesStep == ASSUME HistoryInv, NEW t \in Callers, History!LiveCurrencies(t) PROVE HistoryInv'
<1>0. PICK day \in Dates : day = historyAt[t].day
  BY DEF History!LiveCurrencies, History!Does, Living, HistoryInv, HistoryTyped, TasksHold, TaskState, AnyDay
<1>1. /\ historyAt[t].do = "live currencies" /\ historyAt' = [historyAt EXCEPT ![t] = History!Idle]
      /\ breakdown' = [breakdown EXCEPT ![day] = breakdown[day] \cup historyAt[t].equity]
      /\ good' = IF historyAt[t].alone THEN good \cup History!WrittenBy(t) ELSE good
      /\ UNCHANGED <<booked, today, valued, live>>
  BY <1>0 DEF History!LiveCurrencies, History!Does, History!Currencies
<1>2. /\ historyAt[t] \in TaskState /\ historyAt[t].equity \in SUBSET Entries
      /\ historyAt[t].end \in AnyDay /\ historyAt[t].read \in [Entries -> AnyDay]
      /\ good # {} \/ historyAt[t].alone => historyAt[t].equity = History!Booked(booked)
  BY <1>1 DEF HistoryInv, HistoryTyped, TaskState, TasksFresh
<1>3. historyAt' \in [Callers -> TaskState] /\ historyAt'[t] = History!Idle /\ TasksStay(t)
  BY <1>1, TaskIdle, TaskMoves DEF HistoryInv
<1>4. breakdown'[day] = breakdown[day] \cup historyAt[t].equity /\ \A d \in Dates : breakdown[d] \subseteq breakdown'[d]
  BY <1>1, <1>2 DEF HistoryInv, HistoryTyped
<1>5. historyAt[t].alone => \A d \in History!WrittenBy(t) : d = day \/ d \in Past(t)
  <2>1. HasRead(t) => First(t) \in Dates
    BY <1>2, StartIsFirst DEF HasRead, First
  <2>2. ASSUME HasRead(t), NEW d \in First(t)..historyAt[t].end PROVE d \in Past(t)
    <3>1. d \in Dates /\ First(t) <= d /\ d <= historyAt[t].end
      BY <1>2, <2>1, <2>2, DaysAssumption DEF AnyDay, Dates
    <3> QED
      BY <1>1, <2>2, <3>1 DEF Past
  <2> QED
    BY <1>0, <2>2 DEF History!WrittenBy, HasRead, First
<1>6. good' \subseteq Dates
  BY <1>1, <1>5 DEF HistoryInv, HistoryTyped, Past
<1>7. HistoryTyped'
  BY <1>1, <1>2, <1>3, <1>6 DEF HistoryInv, HistoryTyped
<1>8. TasksHold'
  BY <1>1, <1>7, TaskIdle, UnderWay DEF Filling, Living
<1>9. TasksFresh'
  <2>1. ASSUME NEW u \in Callers \ {t}, historyAt[t].alone
        PROVE  historyAt[u].do = "idle"
    BY <2>1 DEF HistoryInv, TasksHold
  <2> QED
    BY <1>1, <1>3, <2>1, TaskIdle DEF HistoryInv, TasksFresh, TasksStay, HasRead, Filling
<1>10. \A d \in Dates : Fine(d)' = Fine(d) /\ (Known(d) => Known(d)')
  BY <1>1, <1>4 DEF Fine, Known, History!Agrees, History!Due
<1>11. ASSUME good # {} \/ historyAt[t].alone, Fine(day) PROVE Known(day)'
  <2>1. valued[day].equity \subseteq History!Booked(booked)
    BY <1>11, FineIsBooked DEF HistoryInv
  <2> QED
    BY <1>1, <1>2, <1>4, <1>11, <2>1 DEF Known
<1>12. GoodStays'
  <2> SUFFICES ASSUME NEW d \in good'
               PROVE  Fine(d)' /\ (Known(d)' \/ \E u \in Callers : Adds(u, d)')
    BY DEF GoodStays
  <2>0. d \in Dates
    BY <1>6
  <2>1. CASE d \in good
    <3>1. Fine(d) /\ (Known(d) \/ \E u \in Callers : Adds(u, d))
      BY <2>1 DEF HistoryInv, GoodStays
    <3>2. \A u \in Callers \ {t} : Adds(u, d) => Adds(u, d)'
      BY <1>3 DEF Adds, TasksStay
    <3>3. Adds(t, d) => d = day
      BY <1>0 DEF Adds
    <3> QED
      BY <1>10, <1>11, <2>0, <2>1, <3>1, <3>2, <3>3
  <2>2. CASE d \notin good
    <3>1. historyAt[t].alone /\ (d = day \/ d \in Past(t))
      BY <1>1, <1>5, <2>2
    <3>2. Fine(day) /\ (d \in Past(t) /\ d # day => Fine(d) /\ Known(d))
      BY <1>0, <1>1, <3>1 DEF HistoryInv, PastIsGood
    <3> QED
      BY <1>10, <1>11, <2>0, <3>1, <3>2
  <2> QED
    BY <2>1, <2>2
<1>13. PastIsGood'
  BY <1>1, <1>3, <1>7, TaskIdle, UnderWay DEF PastIsGood
<1> QED
  BY <1>7, <1>8, <1>9, <1>12, <1>13 DEF HistoryInv

\* What the invariant says does not depend on the date.
LEMMA HistoryFrame ==
  ASSUME HistoryInv, UNCHANGED <<booked, valued, breakdown, historyAt, good, live>>, today' \in Dates
  PROVE  HistoryInv'
<1>1. UNCHANGED <<booked, valued, breakdown, historyAt, good, live>>
  OBVIOUS
<1>2. \A d \in Dates : Fine(d)' = Fine(d) /\ Known(d)' = Known(d)
  BY <1>1 DEF Fine, Known, History!Agrees, History!Due
<1>3. \A t \in Callers : /\ HasRead(t)' = HasRead(t) /\ First(t)' = First(t) /\ Past(t)' = Past(t)
                         /\ \A d \in Dates : Adds(t, d)' = Adds(t, d)
  BY <1>1 DEF HasRead, First, Past, Adds
<1>4. HistoryTyped' /\ TasksHold' /\ TasksFresh'
  BY <1>1, <1>3 DEF HistoryInv, HistoryTyped, TasksHold, TasksFresh
<1>5. GoodStays'
  BY <1>1, <1>2, <1>3 DEF HistoryInv, HistoryTyped, GoodStays
<1>6. PastIsGood'
  <2> SUFFICES ASSUME NEW t \in Callers, historyAt[t].alone
               PROVE  /\ \A d \in Past(t) : Fine(d)' /\ (Known(d)' \/ (historyAt[t].do \in {"currencies", "live currencies"} /\ historyAt[t].day = d))
                      /\ historyAt[t].do = "currencies" => valued[historyAt[t].day].equity = History!Due(historyAt[t].day)'
                      /\ historyAt[t].do = "live currencies" => Fine(historyAt[t].day)'
    BY <1>1, <1>3 DEF PastIsGood
  <2>1. /\ \A d \in Past(t) : Fine(d) /\ (Known(d) \/ (historyAt[t].do \in {"currencies", "live currencies"} /\ historyAt[t].day = d))
        /\ historyAt[t].do = "currencies" => valued[historyAt[t].day].equity = History!Due(historyAt[t].day)
        /\ historyAt[t].do = "live currencies" => Fine(historyAt[t].day)
    BY DEF HistoryInv, PastIsGood
  <2>2. Past(t) \subseteq Dates
    BY DEF Past
  <2>3. History!Due(historyAt[t].day)' = History!Due(historyAt[t].day) /\ Fine(historyAt[t].day)' = Fine(historyAt[t].day)
    BY <1>1 DEF History!Due, Fine, History!Agrees
  <2> QED
    BY <1>2, <2>1, <2>2, <2>3
<1> QED
  BY <1>4, <1>5, <1>6 DEF HistoryInv

LEMMA NextDayStep == ASSUME HistoryInv, History!NextDay PROVE HistoryInv'
<1>1. UNCHANGED <<booked, valued, breakdown, historyAt, good, live>> /\ today' \in Dates
  BY DaysAssumption DEF History!NextDay, History!tables, History!history, HistoryInv, HistoryTyped, Dates
<1> QED
  BY <1>1, HistoryFrame

LEMMA HistoryRestartStep == ASSUME HistoryInv, History!Restart PROVE HistoryInv'
<1>1. /\ historyAt' = [t \in Callers |-> History!Idle] /\ UNCHANGED <<booked, today, valued, breakdown, live>>
      /\ good' = IF \A t \in Callers : historyAt[t].do = "idle" THEN good ELSE {}
  BY DEF History!Restart, History!Does, History!tables
<1>2. HistoryTyped'
  BY <1>1, TaskIdle DEF HistoryInv, HistoryTyped
<1>3. TasksHold' /\ TasksFresh' /\ PastIsGood'
  BY <1>1, TaskIdle DEF TasksHold, TasksFresh, PastIsGood, HasRead, Filling, Living
<1>4. GoodStays'
  BY <1>1 DEF HistoryInv, GoodStays, Fine, Known, Adds, History!Agrees, History!Due
<1> QED
  BY <1>2, <1>3, <1>4 DEF HistoryInv

LEMMA HistoryNext == ASSUME HistoryInv, History!Next PROVE HistoryInv'
<1>1. History!Days = Dates /\ History!NoDay = 0
  BY DEF History!Days, History!NoDay, Dates
<1> QED
  BY <1>1, EditStep, SnapshotStep, ReadLedgerOnce, FillRowStep, FillCurrenciesStep, DateTodayStep, ReadEquityStep, WriteLiveStep,
     LiveCurrenciesStep, NextDayStep, HistoryRestartStep DEF History!Next, AnyDay

LEMMA HistoryStutters == ASSUME HistoryInv, UNCHANGED historyVars PROVE HistoryInv'
<1>1. UNCHANGED <<booked, valued, breakdown, historyAt, good, live>> /\ today' \in Dates
  BY DEF historyVars, HistoryInv, HistoryTyped
<1> QED
  BY <1>1, HistoryFrame

-----------------------------------------------------------------------------
\* While nobody is at an account's history, the days written since the last edit by tasks
\* that had it to themselves agree with the ledger as of the day, however many tasks have
\* gone over them again since.
THEOREM HistoryAgreesHolds == KeptSpec => []HistoryAgrees
<1> DEFINE Inv0 == focus = "history" => HistoryInv
<1>1. KeptInit => Inv0
  BY HistoryInit DEF KeptInit
<1>2. Inv0 /\ [KeptNext]_keptVars => Inv0'
  <2> SUFFICES ASSUME Inv0, [KeptNext]_keptVars, focus' = "history" PROVE HistoryInv'
    OBVIOUS
  <2>1. focus = "history" /\ HistoryInv
    BY DEF KeptNext, keptVars
  <2>2. History!Next \/ UNCHANGED historyVars
    BY <2>1 DEF KeptNext, keptVars
  <2> QED
    BY <2>1, <2>2, HistoryNext, HistoryStutters
<1>3. Inv0 => HistoryAgrees
  <2> SUFFICES ASSUME HistoryInv PROVE History!TypeOK /\ History!HistoryAgrees
    BY DEF HistoryAgrees
  <2>1. History!TypeOK
    BY DEF HistoryInv, HistoryTyped, History!TypeOK, History!Days, History!NoDay, AnyDay, Dates, ValueRow
  <2>2. History!HistoryAgrees
    BY DEF HistoryInv, GoodStays, Fine, Known, Adds, History!HistoryAgrees, History!AtRest, History!Does
  <2> QED
    BY <2>1, <2>2
<1> HIDE DEF Inv0
<1> QED
  BY <1>1, <1>2, <1>3, PTL DEF KeptSpec

-----------------------------------------------------------------------------
HashRows == [Backup!Names -> {"none"} \cup Backup!Contents]
BackupTyped ==
  /\ made \in 0..MaxBackups /\ faults \in Nat
  /\ dir \in [Backup!Names -> {"none", "partial"} \cup Backup!Contents]
  /\ \A n \in Backup!Names : n > made => dir[n] = "none"
  /\ inside \in [Backup!Names -> HashRows \cup {Backup!NoDatabase}]
  /\ hashes \in HashRows /\ carried \in HashRows
  /\ backupAt \in [BackupRuns -> {"idle", "write", "close", "hash", "prune", "record"}]
  /\ mine \in [BackupRuns -> Backup!Names]
  /\ digest \in [BackupRuns -> {"none", "partial"} \cup Backup!Contents]
  /\ step \in {"idle", "verify", "open", "read", "extract", "adopt", "swap", "merge"}
  /\ chosen \in [name : Backup!Names, trust : BOOLEAN, copy : {"none", "partial"} \cup Backup!Contents, adopts : BOOLEAN]
  /\ files \in {"own", "mixed"} \cup Backup!Contents /\ database \in {"own"} \cup Backup!Contents
  /\ recorded \subseteq 1..made /\ torn \in BOOLEAN /\ overridden \in BOOLEAN

\* The backups at work; none is while a restore is.
AtWork == {r \in BackupRuns : backupAt[r] # "idle"}
Finished(r) == backupAt[r] \in {"prune", "record"}
BackupsApart ==
  /\ step # "idle" => AtWork = {}
  /\ \A r \in AtWork :
       /\ mine[r] <= made /\ mine[r] \notin recorded
       /\ \A q \in AtWork : mine[q] = mine[r] => q = r
       /\ backupAt[r] = "hash" => dir[mine[r]] \in {"none", "whole"}
       /\ Finished(r) => digest[r] = "whole" /\ dir[mine[r]] # "partial"

\* What the restore has in hand.
ChosenIsThere ==
  step # "idle" =>
    /\ chosen.name <= made /\ chosen.copy # "none"
    /\ chosen.copy \in Backup!Contents => dir[chosen.name] \in Backup!Contents
    /\ step \notin {"verify", "open"} => chosen.copy \in Backup!Contents
    /\ step \in {"read", "swap", "merge"} => inside[chosen.name] # Backup!NoDatabase
    /\ chosen.adopts => overridden

\* Nowhere is damage taken for what a backup wrote.
Undamaged(h) == \A n \in Backup!Names : h[n] # "damaged"
DamageStaysOut ==
  ~overridden =>
    /\ "damaged" \notin {files, database} /\ Undamaged(hashes) /\ Undamaged(carried)
    /\ \A n \in Backup!Names : Undamaged(inside[n])
    /\ step \notin {"idle", "verify"} => chosen.copy = "whole"

HashedIn(h) == \A n \in recorded : h[n] # "none"
RowsStay ==
  ~torn =>
    /\ step # "merge" => HashedIn(hashes)
    /\ step \in {"extract", "swap", "merge"} /\ inside[chosen.name] # Backup!NoDatabase => HashedIn(carried)

\* Of the archives that are there, those that verify, and those that no backup at work will record.
Verifying == {n \in recorded : dir[n] \in Backup!Contents}
LeftOver == {n \in Backup!Archives \ Verifying : \A r \in AtWork : mine[r] # n}
OneIsKept ==
  /\ Cardinality(LeftOver) <= faults
  /\ faults + Cardinality(BackupRuns) < Retention =>
       /\ recorded # {} => Verifying # {}
       /\ \A r \in AtWork : Finished(r) => dir[mine[r]] \in Backup!Contents \/ Verifying # {}

BackupInv == BackupTyped /\ BackupsApart /\ ChosenIsThere /\ DamageStaysOut /\ RowsStay /\ OneIsKept

-----------------------------------------------------------------------------
LEMMA BackupCounts == \A S : Backup!Cardinality(S) = Cardinality(S)
  BY DEF Backup!Cardinality, Cardinality

LEMMA BackupNames ==
  /\ IsFiniteSet(Backup!Names) /\ 1 \in Backup!Names /\ Backup!Names \subseteq Nat
  /\ \A S \in SUBSET Backup!Names : IsFiniteSet(S) /\ Cardinality(S) \in Nat
<1>1. IsFiniteSet(Backup!Names) /\ 1 \in Backup!Names /\ Backup!Names \subseteq Nat
  BY BackupsAssumption, FS_Interval DEF Backup!Names
<1>2. ASSUME NEW S \in SUBSET Backup!Names PROVE IsFiniteSet(S) /\ Cardinality(S) \in Nat
  BY <1>1, FS_Subset, FS_CardinalityType
<1> QED
  BY <1>1, <1>2

LEMMA RecordedNames == BackupTyped => recorded \subseteq Backup!Names
<1> SUFFICES ASSUME BackupTyped, NEW n \in recorded PROVE n \in Backup!Names
  OBVIOUS
<1>1. n \in 1..made /\ made \in 0..MaxBackups
  BY DEF BackupTyped
<1> QED
  BY <1>1, BackupsAssumption DEF Backup!Names

LEMMA BackupRunsCount == Cardinality(BackupRuns) \in Nat
  BY BackupsAssumption, FS_CardinalityType

\* The names of the backups at work are no more than there are backups.
LEMMA NamesInHand ==
  ASSUME BackupTyped
  PROVE  /\ {mine[r] : r \in AtWork} \subseteq Backup!Names
         /\ Cardinality({mine[r] : r \in AtWork}) <= Cardinality(AtWork)
         /\ Cardinality(AtWork) <= Cardinality(BackupRuns) /\ Cardinality(AtWork) \in Nat
<1> DEFINE f == [r \in AtWork |-> mine[r]]
           T == {mine[r] : r \in AtWork}
<1>1. IsFiniteSet(AtWork) /\ Cardinality(AtWork) <= Cardinality(BackupRuns) /\ Cardinality(AtWork) \in Nat
  BY BackupsAssumption, FS_Subset, FS_CardinalityType DEF AtWork
<1>2. f \in Surjection(AtWork, T)
  BY DEF Surjection
<1>3. Cardinality(T) <= Cardinality(AtWork)
  BY <1>1, <1>2, FS_Surjection
<1>4. T \subseteq Backup!Names
  BY DEF BackupTyped, AtWork
<1> QED
  BY <1>1, <1>3, <1>4

\* As long as there are fewer than Retention archives without a row that verifies, the
\* newest that verifies is not beyond the retention.
LEMMA NewestStays ==
  ASSUME BackupTyped, Cardinality(LeftOver) <= faults, faults + Cardinality(BackupRuns) < Retention
  PROVE  /\ Verifying # {} => \E n \in Verifying : ~Backup!Beyond(n)
         /\ Verifying = {} => \A n \in Backup!Names : ~Backup!Beyond(n)
<1> DEFINE T == {mine[r] : r \in AtWork}
           Newer(n) == {m \in Backup!Archives : m > n}
<1>1. Backup!Archives \subseteq Backup!Names /\ Verifying \subseteq Backup!Names
  <2>1. \A n \in 1..made : n \in 1..MaxBackups
    BY BackupsAssumption DEF BackupTyped
  <2> QED
    BY <2>1 DEF Backup!Archives, Verifying, BackupTyped, Backup!Names
<1>2. LeftOver \subseteq Backup!Names /\ T \subseteq Backup!Names /\ IsFiniteSet(LeftOver) /\ IsFiniteSet(T)
  BY <1>1, BackupNames, NamesInHand DEF LeftOver
<1>3. Cardinality(LeftOver \cup T) <= faults + Cardinality(BackupRuns) /\ IsFiniteSet(LeftOver \cup T)
  <2>1. /\ Cardinality(LeftOver \cup T) = Cardinality(LeftOver) + Cardinality(T) - Cardinality(LeftOver \cap T)
        /\ IsFiniteSet(LeftOver \cup T)
    BY <1>2, FS_Union
  <2>2. Cardinality(LeftOver) \in Nat /\ Cardinality(T) \in Nat /\ Cardinality(LeftOver \cap T) \in Nat
    BY <1>2, BackupNames
  <2>3. Cardinality(T) <= Cardinality(AtWork) /\ Cardinality(AtWork) <= Cardinality(BackupRuns) /\ Cardinality(AtWork) \in Nat
    BY NamesInHand
  <2>4. faults \in Nat /\ Cardinality(BackupRuns) \in Nat
    BY BackupRunsCount DEF BackupTyped
  <2> HIDE DEF T
  <2> QED
    BY <2>1, <2>2, <2>3, <2>4
<1>4. ASSUME NEW n \in Backup!Names, Newer(n) \cap Verifying = {} PROVE ~Backup!Beyond(n)
  <2>1. Newer(n) \subseteq LeftOver \cup T
    BY <1>4 DEF LeftOver
  <2>2. Cardinality(Newer(n)) <= Cardinality(LeftOver \cup T)
    BY <1>3, <2>1, FS_Subset
  <2>3. /\ Cardinality(Newer(n)) \in Nat /\ Cardinality(LeftOver \cup T) \in Nat
        /\ Retention \in Nat /\ Cardinality(BackupRuns) \in Nat /\ faults \in Nat
    BY <1>1, <1>2, BackupNames, BackupRunsCount, BackupsAssumption DEF BackupTyped
  <2>4. Backup!Beyond(n) <=> Cardinality(Newer(n)) >= Retention
    BY BackupCounts DEF Backup!Beyond
  <2> HIDE DEF Newer, T
  <2> QED
    BY <1>3, <2>2, <2>3, <2>4
<1>5. ASSUME Verifying # {} PROVE \E n \in Verifying : ~Backup!Beyond(n)
  <2> DEFINE D == {MaxBackups - n : n \in Verifying}
  <2>1. D \subseteq Nat /\ D # {}
    <3>1. \A n \in Verifying : MaxBackups - n \in Nat
      BY <1>1, BackupsAssumption DEF Backup!Names
    <3> QED
      BY <1>5, <3>1
  <2>2. PICK d \in D : \A e \in D : d <= e
    BY <2>1, LeastNumber
  <2>3. PICK n \in Verifying : d = MaxBackups - n
    BY <2>2
  <2>4. \A m \in Verifying : m <= n
    <3> SUFFICES ASSUME NEW m \in Verifying PROVE m <= n
      OBVIOUS
    <3>1. d <= MaxBackups - m
      BY <2>2
    <3>2. m \in Int /\ n \in Int /\ MaxBackups \in Int
      BY <1>1, <2>3, BackupsAssumption DEF Backup!Names
    <3> QED
      BY <2>3, <3>1, <3>2
  <2>5. Newer(n) \cap Verifying = {}
    <3> SUFFICES ASSUME NEW m \in Verifying, m > n PROVE FALSE
      BY <1>1
    <3>1. m <= n /\ m \in Int /\ n \in Int
      BY <1>1, <2>3, <2>4, BackupsAssumption DEF Backup!Names
    <3> QED
      BY <3>1
  <2> QED
    BY <1>1, <1>4, <2>3, <2>5
<1> QED
  BY <1>4, <1>5

-----------------------------------------------------------------------------
(* OneIsKept from one step to the next *)

LEMMA KeptStays ==
  ASSUME BackupTyped, OneIsKept, BackupTyped', faults <= faults', LeftOver' \subseteq LeftOver,
         Verifying \subseteq Verifying', recorded' # {} => recorded # {} \/ Verifying' # {},
         \A r \in AtWork' : Finished(r)' =>
           dir'[mine'[r]] \in Backup!Contents \/ (r \in AtWork /\ Finished(r) /\ mine'[r] = mine[r] /\ dir'[mine[r]] = dir[mine[r]])
  PROVE  OneIsKept'
<1>1. LeftOver \subseteq Backup!Names /\ LeftOver' \subseteq Backup!Names
  BY DEF LeftOver, Backup!Archives
<1>2. Cardinality(LeftOver') <= Cardinality(LeftOver)
  BY <1>1, BackupNames, FS_Subset
<1>3. /\ Cardinality(LeftOver) \in Nat /\ Cardinality(LeftOver') \in Nat /\ Cardinality(BackupRuns) \in Nat
      /\ faults \in Nat /\ faults' \in Nat /\ Retention \in Nat
  BY <1>1, BackupNames, BackupRunsCount, BackupsAssumption DEF BackupTyped
<1>4. Cardinality(LeftOver') <= faults'
  BY <1>2, <1>3 DEF OneIsKept
<1>5. faults' + Cardinality(BackupRuns) < Retention => faults + Cardinality(BackupRuns) < Retention
  BY <1>3
<1> QED
  BY <1>4, <1>5 DEF OneIsKept

LEMMA RestoreKeeps ==
  ASSUME BackupInv, BackupTyped', AtWork = {},
         UNCHANGED <<made, dir, inside, backupAt, mine, digest>>, faults <= faults',
         recorded' = recorded \/ (recorded' = recorded \cup {chosen.name} /\ dir[chosen.name] \in Backup!Contents)
  PROVE  BackupsApart' /\ OneIsKept'
<1>1. AtWork' = {} /\ BackupTyped
  BY DEF AtWork, BackupInv
<1>2. BackupsApart'
  BY <1>1 DEF BackupsApart
<1>3. Verifying \subseteq Verifying' /\ Backup!Archives' = Backup!Archives
  BY DEF Verifying, Backup!Archives
<1>4. LeftOver' \subseteq LeftOver
  BY <1>1, <1>3 DEF LeftOver
<1>5. recorded' # {} => recorded # {} \/ Verifying' # {}
  BY DEF Verifying
<1> QED
  BY <1>1, <1>2, <1>3, <1>4, <1>5, KeptStays DEF BackupInv

-----------------------------------------------------------------------------
(* The steps of a backup *)

\* A backup is at work only while no restore is.
LEMMA AloneWithBackups ==
  ASSUME BackupInv, NEW r \in AtWork
  PROVE  /\ step = "idle" /\ BackupTyped /\ r \in BackupRuns /\ mine[r] \in Backup!Names
         /\ mine[r] <= made /\ mine[r] \notin recorded /\ made \in Nat
         /\ \A q \in AtWork \ {r} : mine[q] # mine[r]
  BY BackupsAssumption DEF BackupInv, BackupTyped, BackupsApart, AtWork

\* Backup r ends: it is at work no longer.
LEMMA DoneThen ==
  ASSUME BackupTyped, NEW r \in BackupRuns, Backup!Done(r)
  PROVE  /\ backupAt' \in [BackupRuns -> {"idle", "write", "close", "hash", "prune", "record"}]
         /\ mine' \in [BackupRuns -> Backup!Names] /\ digest' \in [BackupRuns -> {"none", "partial"} \cup Backup!Contents]
         /\ AtWork' = AtWork \ {r}
         /\ \A q \in BackupRuns \ {r} : backupAt'[q] = backupAt[q] /\ mine'[q] = mine[q] /\ digest'[q] = digest[q]
<1>1. /\ backupAt' = [backupAt EXCEPT ![r] = "idle"] /\ mine' = [mine EXCEPT ![r] = 1]
      /\ digest' = [digest EXCEPT ![r] = "none"]
  BY DEF Backup!Done
<1>2. 1 \in Backup!Names
  BY BackupNames
<1> QED
  BY <1>1, <1>2 DEF BackupTyped, AtWork

\* What no step of a backup touches.
LEMMA BackupLeaves ==
  ASSUME BackupInv, step = "idle", BackupTyped', BackupsApart', OneIsKept', UNCHANGED Backup!ofRestore,
         recorded' = recorded \/ \E n \in Backup!Names : hashes'[n] = "whole" /\ recorded' = recorded \cup {n},
         \A n \in Backup!Names : hashes'[n] = hashes[n] \/ hashes'[n] = "whole",
         \A n \in Backup!Names : inside'[n] \in {inside[n], hashes, Backup!NoDatabase}
  PROVE  BackupInv'
<1>1. UNCHANGED <<step, chosen, carried, files, database, before, torn, overridden, restores>>
  BY DEF Backup!ofRestore
<1>2. ChosenIsThere'
  BY <1>1 DEF ChosenIsThere
<1>3. RowsStay'
  <2> SUFFICES ASSUME ~torn, NEW n \in recorded' PROVE hashes'[n] # "none"
    BY <1>1 DEF RowsStay, HashedIn
  <2>1. HashedIn(hashes)
    BY DEF BackupInv, RowsStay
  <2>2. recorded \subseteq Backup!Names
    BY RecordedNames DEF BackupInv
  <2>3. CASE n \in recorded
    BY <2>1, <2>2, <2>3 DEF HashedIn
  <2>4. CASE n \notin recorded
    BY <2>4
  <2> QED
    BY <2>3, <2>4
<1>4. Undamaged(Backup!NoDatabase)
  BY DEF Undamaged, Backup!NoDatabase
<1>5. DamageStaysOut'
  BY <1>1, <1>4 DEF BackupInv, DamageStaysOut, Undamaged
<1> QED
  BY <1>2, <1>3, <1>5 DEF BackupInv

LEMMA BackupBegins == ASSUME BackupInv, NEW r \in BackupRuns, Backup!Begin(r) PROVE BackupInv'
<1>1. /\ backupAt[r] = "idle" /\ made < MaxBackups /\ step = "idle" /\ made' = made + 1
      /\ mine' = [mine EXCEPT ![r] = made + 1] /\ dir' = [dir EXCEPT ![made + 1] = "partial"]
      /\ backupAt' = [backupAt EXCEPT ![r] = "write"]
      /\ UNCHANGED <<inside, hashes, digest, recorded, damage, faults>> /\ UNCHANGED Backup!ofRestore
  BY DEF Backup!Begin
<1>2. BackupTyped /\ made \in Nat /\ MaxBackups \in Nat
  BY BackupsAssumption DEF BackupInv, BackupTyped
<1>3. /\ made + 1 \in Backup!Names /\ made + 1 \in 0..MaxBackups /\ made + 1 \notin 1..made
      /\ \A n \in Backup!Names : n > made + 1 => n > made
  BY <1>1, <1>2 DEF Backup!Names
<1>4. /\ mine' \in [BackupRuns -> Backup!Names] /\ mine'[r] = made + 1 /\ \A q \in BackupRuns \ {r} : mine'[q] = mine[q]
      /\ \A q \in BackupRuns \ {r} : backupAt'[q] = backupAt[q]
      /\ backupAt' \in [BackupRuns -> {"idle", "write", "close", "hash", "prune", "record"}] /\ backupAt'[r] = "write"
      /\ dir' \in [Backup!Names -> {"none", "partial"} \cup Backup!Contents]
      /\ dir'[made + 1] = "partial" /\ \A n \in Backup!Names \ {made + 1} : dir'[n] = dir[n]
  BY <1>1, <1>2, <1>3 DEF BackupTyped
<1>5. recorded \subseteq 1..(made + 1) /\ \A n \in Backup!Names : n > made + 1 => dir'[n] = "none"
  <2>1. recorded \subseteq 1..made /\ \A n \in Backup!Names : n > made => dir[n] = "none"
    BY <1>2 DEF BackupTyped
  <2>2. 1..made \subseteq 1..(made + 1)
    BY <1>2
  <2>3. \A n \in Backup!Names : n > made + 1 => n # made + 1 /\ n > made
    BY <1>2 DEF Backup!Names
  <2> QED
    BY <1>4, <2>1, <2>2, <2>3
<1>6. BackupTyped'
  BY <1>1, <1>2, <1>3, <1>4, <1>5 DEF BackupTyped, Backup!ofRestore, HashRows
<1>7. AtWork' = AtWork \cup {r} /\ r \notin AtWork
  BY <1>1, <1>4 DEF AtWork
<1>8. \A q \in AtWork : q # r /\ mine[q] <= made /\ mine[q] # made + 1 /\ mine[q] <= made + 1 /\ mine[q] \in Backup!Names
  <2> SUFFICES ASSUME NEW q \in AtWork PROVE q # r /\ mine[q] <= made /\ mine[q] # made + 1 /\ mine[q] <= made + 1 /\ mine[q] \in Backup!Names
    OBVIOUS
  <2>1. mine[q] <= made /\ mine[q] \in Backup!Names
    BY AloneWithBackups
  <2> QED
    BY <1>2, <1>7, <2>1 DEF Backup!Names
<1>9. made + 1 \notin recorded
  BY <1>2, <1>3 DEF BackupTyped
<1>10. BackupsApart'
  <2>1. step' = "idle"
    BY <1>1 DEF Backup!ofRestore
  <2> SUFFICES ASSUME NEW q \in AtWork'
               PROVE  /\ mine'[q] <= made' /\ mine'[q] \notin recorded'
                      /\ \A u \in AtWork' : mine'[u] = mine'[q] => u = q
                      /\ backupAt'[q] = "hash" => dir'[mine'[q]] \in {"none", "whole"}
                      /\ Finished(q)' => digest'[q] = "whole" /\ dir'[mine'[q]] # "partial"
    BY <2>1 DEF BackupsApart
  <2>2. CASE q = r
    BY <1>1, <1>2, <1>4, <1>7, <1>8, <1>9, <2>2 DEF Finished, AtWork
  <2>3. CASE q # r
    <3>1. q \in AtWork /\ mine'[q] = mine[q] /\ backupAt'[q] = backupAt[q] /\ dir'[mine[q]] = dir[mine[q]]
      BY <1>4, <1>7, <1>8, <2>3 DEF AtWork
    <3>2. /\ mine[q] \notin recorded /\ \A u \in AtWork : mine[u] = mine[q] => u = q
          /\ backupAt[q] = "hash" => dir[mine[q]] \in {"none", "whole"}
          /\ Finished(q) => digest[q] = "whole" /\ dir[mine[q]] # "partial"
      BY <3>1 DEF BackupInv, BackupsApart
    <3>3. \A u \in AtWork' : mine'[u] = mine[q] => u = q
      BY <1>4, <1>7, <1>8, <3>1, <3>2 DEF AtWork
    <3> QED
      BY <1>1, <1>8, <3>1, <3>2, <3>3 DEF Finished
  <2> QED
    BY <2>2, <2>3
<1>11. OneIsKept'
  <2>1. Verifying \subseteq Verifying'
    BY <1>1, <1>2, <1>4, <1>9, BackupsAssumption DEF Verifying, BackupTyped, Backup!Names
  <2>2. LeftOver' \subseteq LeftOver
    BY <1>4, <1>7, <1>8, <2>1 DEF LeftOver, Backup!Archives, AtWork
  <2>3. \A q \in AtWork' : Finished(q)' => q \in AtWork /\ Finished(q) /\ mine'[q] = mine[q] /\ dir'[mine[q]] = dir[mine[q]]
    BY <1>4, <1>7, <1>8 DEF Finished, AtWork
  <2>4. faults <= faults' /\ recorded' = recorded
    BY <1>1, <1>2 DEF BackupTyped
  <2> QED
    BY <1>6, <2>1, <2>2, <2>3, <2>4, KeptStays DEF BackupInv
<1> QED
  BY <1>1, <1>6, <1>10, <1>11, BackupLeaves

\* A backup goes on under its name: it leaves every other archive alone but for what
\* retention removes, and its own archive is there or not as before, or was written.
LEMMA BackupGoesOn ==
  ASSUME BackupInv, NEW r \in AtWork, UNCHANGED <<made, mine, recorded, faults>>, UNCHANGED Backup!ofRestore,
         NEW pc \in {"close", "hash", "prune", "record"}, backupAt' = [backupAt EXCEPT ![r] = pc],
         dir' \in [Backup!Names -> {"none", "partial"} \cup Backup!Contents],
         inside' \in [Backup!Names -> HashRows \cup {Backup!NoDatabase}], hashes' = hashes,
         digest' \in [BackupRuns -> {"none", "partial"} \cup Backup!Contents],
         \A q \in BackupRuns \ {r} : digest'[q] = digest[q],
         \A n \in Backup!Names : n # mine[r] => dir'[n] \in {dir[n], "none"},
         dir[mine[r]] = "none" => dir'[mine[r]] = "none",
         pc = "hash" => dir'[mine[r]] \in {"none", "whole"},
         pc \in {"prune", "record"} => digest'[r] = "whole" /\ dir'[mine[r]] # "partial",
         \A n \in Backup!Names : inside'[n] \in {inside[n], hashes, Backup!NoDatabase},
         faults + Cardinality(BackupRuns) < Retention =>
           /\ Verifying # {} => Verifying' # {}
           /\ Verifying = {} => \A n \in Backup!Names \ {mine[r]} : dir'[n] = dir[n]
           /\ Verifying = {} /\ pc \in {"prune", "record"} => dir'[mine[r]] \in Backup!Contents
  PROVE  BackupInv'
<1>1. /\ step = "idle" /\ BackupTyped /\ r \in BackupRuns /\ mine[r] \in Backup!Names
      /\ mine[r] <= made /\ mine[r] \notin recorded /\ \A q \in AtWork \ {r} : mine[q] # mine[r]
  BY AloneWithBackups
<1>2. /\ backupAt' \in [BackupRuns -> {"idle", "write", "close", "hash", "prune", "record"}] /\ backupAt'[r] = pc
      /\ \A q \in BackupRuns \ {r} : backupAt'[q] = backupAt[q]
  BY <1>1 DEF BackupTyped
<1>3. AtWork' = AtWork
  BY <1>1, <1>2 DEF AtWork
<1>4. \A n \in Backup!Names : n > made => dir'[n] = "none"
  <2> SUFFICES ASSUME NEW n \in Backup!Names, n > made PROVE dir'[n] = "none"
    OBVIOUS
  <2>1. dir[n] = "none"
    BY <1>1 DEF BackupTyped
  <2> QED
    BY <2>1
<1>5. BackupTyped'
  BY <1>1, <1>2, <1>4 DEF BackupTyped, Backup!ofRestore
<1>6. BackupsApart'
  <2>1. step' = "idle"
    BY <1>1 DEF Backup!ofRestore
  <2> SUFFICES ASSUME NEW q \in AtWork'
               PROVE  /\ mine'[q] <= made' /\ mine'[q] \notin recorded'
                      /\ \A u \in AtWork' : mine'[u] = mine'[q] => u = q
                      /\ backupAt'[q] = "hash" => dir'[mine'[q]] \in {"none", "whole"}
                      /\ Finished(q)' => digest'[q] = "whole" /\ dir'[mine'[q]] # "partial"
    BY <2>1 DEF BackupsApart
  <2>2. /\ mine[q] <= made /\ mine[q] \notin recorded /\ \A u \in AtWork : mine[u] = mine[q] => u = q
        /\ backupAt[q] = "hash" => dir[mine[q]] \in {"none", "whole"}
        /\ Finished(q) => digest[q] = "whole" /\ dir[mine[q]] # "partial"
        /\ q \in AtWork
    BY <1>3 DEF BackupInv, BackupsApart
  <2>3. CASE q = r
    BY <1>2, <1>3, <2>2, <2>3 DEF Finished
  <2>4. CASE q # r
    <3>1. mine[q] \in Backup!Names /\ mine[q] # mine[r] /\ backupAt'[q] = backupAt[q] /\ digest'[q] = digest[q]
      BY <1>1, <1>2, <2>2, <2>4 DEF BackupTyped, AtWork
    <3>2. dir'[mine[q]] \in {dir[mine[q]], "none"}
      BY <3>1
    <3> QED
      BY <1>3, <2>2, <3>1, <3>2 DEF Finished
  <2> QED
    BY <2>3, <2>4
<1>7. recorded \subseteq Backup!Names /\ Verifying \subseteq Backup!Names
  BY <1>1, RecordedNames DEF Verifying
<1>8. Cardinality(LeftOver') <= faults'
  <2>1. \A n \in Backup!Names \ {mine[r]} : dir'[n] # "none" => dir'[n] = dir[n]
    OBVIOUS
  <2>2. LeftOver' \subseteq LeftOver
    <3> SUFFICES ASSUME NEW n \in LeftOver' PROVE n \in LeftOver
      OBVIOUS
    <3>1. n \in Backup!Names /\ dir'[n] # "none" /\ n \notin Verifying' /\ \A q \in AtWork : mine[q] # n
      BY <1>3 DEF LeftOver, Backup!Archives
    <3>2. dir'[n] = dir[n]
      BY <2>1, <3>1
    <3> QED
      BY <3>1, <3>2 DEF LeftOver, Backup!Archives, Verifying
  <2>3. LeftOver \subseteq Backup!Names /\ LeftOver' \subseteq Backup!Names
    BY DEF LeftOver, Backup!Archives
  <2>4. Cardinality(LeftOver') <= Cardinality(LeftOver) /\ Cardinality(LeftOver) \in Nat /\ Cardinality(LeftOver') \in Nat
    BY <2>2, <2>3, BackupNames, FS_Subset
  <2>5. Cardinality(LeftOver) <= faults /\ faults \in Nat
    BY <1>1 DEF BackupInv, BackupTyped, OneIsKept
  <2> QED
    BY <2>4, <2>5
<1>9. ASSUME faults + Cardinality(BackupRuns) < Retention
      PROVE  /\ recorded # {} => Verifying' # {}
             /\ \A q \in AtWork : Finished(q)' => dir'[mine[q]] \in Backup!Contents \/ Verifying' # {}
  <2>1. /\ recorded # {} => Verifying # {}
        /\ \A q \in AtWork : Finished(q) => dir[mine[q]] \in Backup!Contents \/ Verifying # {}
    BY <1>9 DEF BackupInv, OneIsKept
  <2>2. ASSUME NEW q \in AtWork, Finished(q)', Verifying = {} PROVE dir'[mine[q]] \in Backup!Contents
    <3>1. CASE q = r
      BY <1>2, <1>9, <2>2, <3>1 DEF Finished
    <3>2. CASE q # r
      <4>1. mine[q] \in Backup!Names /\ mine[q] # mine[r] /\ backupAt'[q] = backupAt[q]
        BY <1>1, <1>2, <3>2 DEF BackupTyped, AtWork
      <4> QED
        BY <1>9, <2>1, <2>2, <4>1 DEF Finished
    <3> QED
      BY <3>1, <3>2
  <2> QED
    BY <1>9, <2>1, <2>2
<1>10. OneIsKept'
  BY <1>3, <1>8, <1>9 DEF OneIsKept
<1> QED
  BY <1>1, <1>5, <1>6, <1>10, BackupLeaves

LEMMA BackupSnapshots == ASSUME BackupInv, NEW r \in BackupRuns, Backup!Snapshot(r) PROVE BackupInv'
<1>1. /\ backupAt[r] = "write" /\ backupAt' = [backupAt EXCEPT ![r] = "close"]
      /\ UNCHANGED <<made, dir, hashes, mine, digest, recorded, faults>> /\ UNCHANGED Backup!ofRestore
  BY DEF Backup!Snapshot, Backup!ThenClosed
<1>2. r \in AtWork /\ BackupTyped
  BY <1>1 DEF AtWork, BackupInv
<1>3. mine[r] \in Backup!Names /\ inside \in [Backup!Names -> HashRows \cup {Backup!NoDatabase}] /\ hashes \in HashRows
  BY <1>2 DEF BackupTyped
<1>4. /\ inside' \in [Backup!Names -> HashRows \cup {Backup!NoDatabase}]
      /\ \A n \in Backup!Names : inside'[n] \in {inside[n], hashes, Backup!NoDatabase}
  BY <1>3 DEF Backup!Snapshot
<1>5. Verifying' = Verifying
  BY <1>1 DEF Verifying
<1> QED
  BY <1>1, <1>2, <1>4, <1>5, BackupGoesOn DEF BackupTyped

LEMMA BackupCloses == ASSUME BackupInv, NEW r \in BackupRuns, Backup!Close(r) PROVE BackupInv'
<1>1. /\ backupAt[r] = "close" /\ backupAt' = [backupAt EXCEPT ![r] = "hash"]
      /\ dir' = IF dir[mine[r]] = "none" THEN dir ELSE [dir EXCEPT ![mine[r]] = "whole"]
      /\ UNCHANGED <<made, inside, hashes, mine, digest, recorded, faults>> /\ UNCHANGED Backup!ofRestore
  BY DEF Backup!Close
<1>2. r \in AtWork /\ BackupTyped
  BY <1>1 DEF AtWork, BackupInv
<1>3. mine[r] \in Backup!Names /\ mine[r] \notin recorded /\ dir \in [Backup!Names -> {"none", "partial"} \cup Backup!Contents]
  BY <1>2, AloneWithBackups DEF BackupTyped
<1>4. /\ dir' \in [Backup!Names -> {"none", "partial"} \cup Backup!Contents]
      /\ \A n \in Backup!Names \ {mine[r]} : dir'[n] = dir[n]
      /\ IF dir[mine[r]] = "none" THEN dir'[mine[r]] = "none" ELSE dir'[mine[r]] = "whole"
  BY <1>1, <1>3 DEF Backup!Contents
<1>5. Verifying' = Verifying
  BY <1>1, <1>2, <1>3, <1>4, RecordedNames DEF Verifying
<1>6. \A n \in Backup!Names : n # mine[r] => dir'[n] \in {dir[n], "none"}
  BY <1>4
<1> QED
  BY <1>1, <1>2, <1>4, <1>5, <1>6, BackupGoesOn DEF BackupTyped

LEMMA BackupHashes == ASSUME BackupInv, NEW r \in BackupRuns, Backup!Hash(r) PROVE BackupInv'
<1>1. /\ backupAt[r] = "hash" /\ backupAt' = [backupAt EXCEPT ![r] = "prune"] /\ dir[mine[r]] # "none"
      /\ digest' = [digest EXCEPT ![r] = dir[mine[r]]]
      /\ UNCHANGED <<made, dir, inside, hashes, mine, recorded, faults>> /\ UNCHANGED Backup!ofRestore
  BY DEF Backup!Hash
<1>2. r \in AtWork /\ BackupTyped
  BY <1>1 DEF AtWork, BackupInv
<1>3. dir[mine[r]] = "whole" /\ "whole" \in Backup!Contents
  BY <1>1, <1>2 DEF BackupInv, BackupsApart, Backup!Contents
<1>4. /\ digest' \in [BackupRuns -> {"none", "partial"} \cup Backup!Contents]
      /\ digest'[r] = "whole" /\ \A q \in BackupRuns \ {r} : digest'[q] = digest[q]
  BY <1>1, <1>2, <1>3 DEF BackupTyped
<1>5. Verifying' = Verifying
  BY <1>1 DEF Verifying
<1>6. \A n \in Backup!Names : dir'[n] \in {dir[n], "none"} /\ inside'[n] = inside[n]
  BY <1>1
<1> QED
  BY <1>1, <1>2, <1>3, <1>4, <1>5, <1>6, BackupGoesOn DEF BackupTyped

LEMMA BackupPrunes == ASSUME BackupInv, NEW r \in BackupRuns, Backup!Prune(r) PROVE BackupInv'
<1>1. /\ backupAt[r] = "prune" /\ backupAt' = [backupAt EXCEPT ![r] = "record"]
      /\ dir' = [n \in Backup!Names |-> IF Backup!Beyond(n) THEN "none" ELSE dir[n]]
      /\ UNCHANGED <<made, inside, hashes, mine, digest, recorded, faults>> /\ UNCHANGED Backup!ofRestore
  BY DEF Backup!Prune
<1>2. r \in AtWork /\ BackupTyped /\ Finished(r)
  BY <1>1 DEF AtWork, BackupInv, Finished
<1>3. digest[r] = "whole" /\ dir[mine[r]] # "partial" /\ mine[r] \in Backup!Names
  BY <1>2 DEF BackupInv, BackupsApart, BackupTyped
<1>4. /\ dir' \in [Backup!Names -> {"none", "partial"} \cup Backup!Contents]
      /\ \A n \in Backup!Names : dir'[n] = IF Backup!Beyond(n) THEN "none" ELSE dir[n]
  BY <1>1, <1>2 DEF BackupTyped
<1>5. ASSUME faults + Cardinality(BackupRuns) < Retention
      PROVE  /\ Verifying # {} => Verifying' # {}
             /\ Verifying = {} => \A n \in Backup!Names : dir'[n] = dir[n]
             /\ Verifying = {} => dir'[mine[r]] \in Backup!Contents
  <2>1. /\ Verifying # {} => \E n \in Verifying : ~Backup!Beyond(n)
        /\ Verifying = {} => \A n \in Backup!Names : ~Backup!Beyond(n)
    BY <1>2, <1>5, NewestStays DEF BackupInv, OneIsKept
  <2>2. Verifying # {} => Verifying' # {}
    BY <1>1, <1>2, <1>4, <2>1, RecordedNames DEF Verifying
  <2>3. Verifying = {} => dir[mine[r]] \in Backup!Contents
    BY <1>2, <1>5 DEF BackupInv, OneIsKept
  <2> QED
    BY <1>3, <1>4, <2>1, <2>2, <2>3
<1>6. \A n \in Backup!Names : dir'[n] \in {dir[n], "none"} /\ inside'[n] = inside[n]
  BY <1>1, <1>4
<1>7. dir[mine[r]] = "none" => dir'[mine[r]] = "none"
  BY <1>3, <1>6
<1>8. dir'[mine[r]] # "partial"
  BY <1>3, <1>6
<1> QED
  BY <1>1, <1>2, <1>3, <1>4, <1>5, <1>6, <1>7, <1>8, BackupGoesOn DEF BackupTyped

\* A backup ends: it has recorded its archive, or left it behind at the cost of a fault,
\* or removed it.
LEMMA BackupEnds ==
  ASSUME BackupInv, NEW r \in AtWork, Backup!Done(r), UNCHANGED <<made, inside>>, UNCHANGED Backup!ofRestore,
         hashes' \in HashRows, dir' \in [Backup!Names -> {"none", "partial"} \cup Backup!Contents],
         \A n \in Backup!Names \ {mine[r]} : dir'[n] = dir[n], dir'[mine[r]] \in {dir[mine[r]], "none"},
         \A n \in Backup!Names : hashes'[n] = hashes[n] \/ hashes'[n] = "whole",
         \/ recorded' = recorded /\ faults' = faults /\ dir'[mine[r]] = "none"
         \/ recorded' = recorded /\ faults' = faults + 1
         \/ recorded' = recorded \cup {mine[r]} /\ faults' = faults /\ Finished(r) /\ hashes'[mine[r]] = "whole"
            /\ dir' = dir
  PROVE  BackupInv'
<1>1. /\ step = "idle" /\ BackupTyped /\ r \in BackupRuns /\ mine[r] \in Backup!Names
      /\ mine[r] <= made /\ mine[r] \notin recorded /\ \A q \in AtWork \ {r} : mine[q] # mine[r]
  BY AloneWithBackups
<1>2. /\ backupAt' \in [BackupRuns -> {"idle", "write", "close", "hash", "prune", "record"}]
      /\ mine' \in [BackupRuns -> Backup!Names] /\ digest' \in [BackupRuns -> {"none", "partial"} \cup Backup!Contents]
      /\ AtWork' = AtWork \ {r}
      /\ \A q \in BackupRuns \ {r} : backupAt'[q] = backupAt[q] /\ mine'[q] = mine[q] /\ digest'[q] = digest[q]
  BY <1>1, DoneThen
<1>3. \A n \in Backup!Names : n > made => dir'[n] = "none"
  <2> SUFFICES ASSUME NEW n \in Backup!Names, n > made PROVE dir'[n] = "none"
    OBVIOUS
  <2>1. dir[n] = "none"
    BY <1>1 DEF BackupTyped
  <2> QED
    BY <2>1
<1>4. recorded' \subseteq 1..made /\ mine[r] \in 1..made /\ faults' \in Nat /\ faults <= faults'
  <2>1. mine[r] \in 1..made
    BY <1>1, BackupsAssumption DEF BackupTyped, Backup!Names
  <2>2. faults \in Nat /\ faults + 1 \in Nat /\ faults <= faults + 1 /\ faults <= faults /\ recorded \subseteq 1..made
    BY <1>1 DEF BackupTyped
  <2> QED
    BY <2>1, <2>2
<1>5. BackupTyped'
  BY <1>1, <1>2, <1>3, <1>4 DEF BackupTyped, Backup!ofRestore
<1>6. \A q \in AtWork' :
        /\ q \in AtWork /\ q # r /\ mine'[q] = mine[q] /\ mine[q] # mine[r] /\ mine[q] \in Backup!Names
        /\ dir'[mine[q]] = dir[mine[q]] /\ backupAt'[q] = backupAt[q] /\ digest'[q] = digest[q]
  BY <1>1, <1>2 DEF AtWork, BackupTyped
<1>7. BackupsApart'
  <2>1. step' = "idle"
    BY <1>1 DEF Backup!ofRestore
  <2> SUFFICES ASSUME NEW q \in AtWork'
               PROVE  /\ mine'[q] <= made' /\ mine'[q] \notin recorded'
                      /\ \A u \in AtWork' : mine'[u] = mine'[q] => u = q
                      /\ backupAt'[q] = "hash" => dir'[mine'[q]] \in {"none", "whole"}
                      /\ Finished(q)' => digest'[q] = "whole" /\ dir'[mine'[q]] # "partial"
    BY <2>1 DEF BackupsApart
  <2>2. /\ mine[q] <= made /\ mine[q] \notin recorded /\ \A u \in AtWork : mine[u] = mine[q] => u = q
        /\ backupAt[q] = "hash" => dir[mine[q]] \in {"none", "whole"}
        /\ Finished(q) => digest[q] = "whole" /\ dir[mine[q]] # "partial"
    BY <1>6 DEF BackupInv, BackupsApart
  <2>3. mine'[q] = mine[q] /\ mine'[q] \notin recorded'
    BY <1>6, <2>2
  <2>4. \A u \in AtWork' : mine'[u] = mine'[q] => u = q
    BY <1>6, <2>2
  <2> QED
    BY <1>6, <2>2, <2>3, <2>4 DEF Finished
<1>8. Verifying \subseteq Verifying' /\ recorded \subseteq Backup!Names
  BY <1>1, RecordedNames DEF Verifying
<1>9. Cardinality(LeftOver') <= faults'
  <2>1. LeftOver \subseteq Backup!Names /\ LeftOver' \subseteq Backup!Names
    BY DEF LeftOver, Backup!Archives
  <2>2. /\ Cardinality(LeftOver) \in Nat /\ Cardinality(LeftOver') \in Nat /\ IsFiniteSet(LeftOver)
        /\ Cardinality(LeftOver) <= faults /\ faults \in Nat
    BY <1>1, <2>1, BackupNames DEF BackupInv, BackupTyped, OneIsKept
  <2>3. \A n \in LeftOver' : n # mine[r] => n \in LeftOver
    <3> SUFFICES ASSUME NEW n \in LeftOver', n # mine[r] PROVE n \in LeftOver
      OBVIOUS
    <3>1. n \in Backup!Names /\ dir'[n] # "none" /\ n \notin Verifying' /\ \A q \in AtWork' : mine'[q] # n
      BY DEF LeftOver, Backup!Archives
    <3>2. dir[n] # "none" /\ n \notin Verifying
      BY <1>8, <3>1
    <3>3. \A q \in AtWork : mine[q] # n
      BY <1>2, <1>6, <3>1
    <3> QED
      BY <3>1, <3>2, <3>3 DEF LeftOver, Backup!Archives
  <2>4. CASE faults' = faults + 1
    <3>1. LeftOver' \subseteq LeftOver \cup {mine[r]}
      BY <2>3
    <3>2. IsFiniteSet(LeftOver \cup {mine[r]}) /\ Cardinality(LeftOver \cup {mine[r]}) <= Cardinality(LeftOver) + 1
      BY <2>2, FS_AddElement
    <3>3. Cardinality(LeftOver') <= Cardinality(LeftOver \cup {mine[r]})
      BY <3>1, <3>2, FS_Subset
    <3>4. Cardinality(LeftOver \cup {mine[r]}) \in Nat
      BY <3>2, FS_CardinalityType
    <3> QED
      BY <2>2, <2>4, <3>2, <3>3, <3>4
  <2>5. CASE faults' = faults /\ mine[r] \notin LeftOver'
    <3>1. LeftOver' \subseteq LeftOver
      BY <2>3, <2>5
    <3>2. Cardinality(LeftOver') <= Cardinality(LeftOver)
      BY <2>2, <3>1, FS_Subset
    <3> QED
      BY <2>2, <2>5, <3>2
  <2>6. dir'[mine[r]] = "none" => mine[r] \notin LeftOver'
    BY DEF LeftOver, Backup!Archives
  <2>7. Finished(r) /\ dir' = dir /\ recorded' = recorded \cup {mine[r]} => mine[r] \notin LeftOver'
    <3> SUFFICES ASSUME Finished(r), dir' = dir, recorded' = recorded \cup {mine[r]}, dir'[mine[r]] # "none"
                 PROVE  mine[r] \in Verifying'
      BY <2>6 DEF LeftOver
    <3>1. dir[mine[r]] # "partial" /\ dir[mine[r]] \in {"none", "partial"} \cup Backup!Contents
      BY <1>1 DEF BackupInv, BackupsApart, BackupTyped
    <3> QED
      BY <3>1 DEF Verifying
  <2> QED
    BY <2>4, <2>5, <2>6, <2>7
<1>10. ASSUME faults' + Cardinality(BackupRuns) < Retention
       PROVE  /\ recorded' # {} => Verifying' # {}
              /\ \A q \in AtWork' : Finished(q)' => dir'[mine'[q]] \in Backup!Contents \/ Verifying' # {}
  <2>1. faults + Cardinality(BackupRuns) < Retention
    <3>1. faults \in Nat /\ faults' \in Nat /\ Cardinality(BackupRuns) \in Nat /\ Retention \in Nat
      BY <1>1, <1>4, BackupRunsCount, BackupsAssumption DEF BackupTyped
    <3> QED
      BY <1>4, <1>10, <3>1
  <2>2. /\ recorded # {} => Verifying # {}
        /\ \A q \in AtWork : Finished(q) => dir[mine[q]] \in Backup!Contents \/ Verifying # {}
    BY <2>1 DEF BackupInv, OneIsKept
  <2>3. recorded' # {} => Verifying' # {}
    <3>1. CASE recorded' = recorded
      BY <1>8, <2>2, <3>1
    <3>2. CASE recorded' = recorded \cup {mine[r]} /\ Finished(r) /\ dir' = dir
      BY <1>8, <2>2, <3>2 DEF Verifying
    <3> QED
      BY <3>1, <3>2
  <2> QED
    BY <1>6, <1>8, <2>2, <2>3 DEF Finished
<1>11. OneIsKept'
  BY <1>9, <1>10 DEF OneIsKept
<1>12. recorded' = recorded \/ \E n \in Backup!Names : hashes'[n] = "whole" /\ recorded' = recorded \cup {n}
  BY <1>1
<1>13. \A n \in Backup!Names : inside'[n] \in {inside[n], hashes, Backup!NoDatabase}
  OBVIOUS
<1> QED
  BY <1>1, <1>5, <1>7, <1>11, <1>12, <1>13, BackupLeaves

LEMMA BackupRecords == ASSUME BackupInv, NEW r \in BackupRuns, Backup!Record(r) PROVE BackupInv'
<1>1. /\ backupAt[r] = "record" /\ Backup!Done(r) /\ UNCHANGED <<made, dir, inside, faults>> /\ UNCHANGED Backup!ofRestore
      /\ hashes' = [hashes EXCEPT ![mine[r]] = digest[r]] /\ recorded' = recorded \cup {mine[r]}
  BY DEF Backup!Record
<1>2. r \in AtWork /\ Finished(r) /\ BackupTyped
  BY <1>1 DEF AtWork, Finished, BackupInv
<1>3. digest[r] = "whole" /\ mine[r] \in Backup!Names /\ hashes \in HashRows
  BY <1>2 DEF BackupInv, BackupsApart, BackupTyped
<1>4. hashes' \in HashRows /\ hashes'[mine[r]] = "whole" /\ \A n \in Backup!Names : hashes'[n] = hashes[n] \/ hashes'[n] = "whole"
  BY <1>1, <1>3 DEF HashRows, Backup!Contents
<1> QED
  BY <1>1, <1>2, <1>4, BackupEnds DEF BackupTyped

LEMMA BackupGivesUp ==
  ASSUME BackupInv, NEW r \in BackupRuns, Backup!RecordFails(r) \/ Backup!BackupFails(r)
  PROVE  BackupInv'
<1>1. r \in AtWork /\ BackupTyped
  BY DEF AtWork, BackupInv, Backup!RecordFails, Backup!BackupFails
<1>2. mine[r] \in Backup!Names /\ dir \in [Backup!Names -> {"none", "partial"} \cup Backup!Contents] /\ hashes \in HashRows
  BY <1>1, AloneWithBackups DEF BackupTyped
<1>3. CASE Backup!RecordFails(r)
  BY <1>1, <1>2, <1>3, BackupEnds DEF Backup!RecordFails
<1>4. CASE Backup!BackupFails(r)
  <2>1. /\ dir' = [dir EXCEPT ![mine[r]] = "none"] /\ Backup!Done(r) /\ faults' \in {faults, faults + 1}
        /\ UNCHANGED <<made, inside, hashes, recorded>> /\ UNCHANGED Backup!ofRestore
    BY <1>4 DEF Backup!BackupFails
  <2>2. /\ dir' \in [Backup!Names -> {"none", "partial"} \cup Backup!Contents] /\ dir'[mine[r]] = "none"
        /\ \A n \in Backup!Names \ {mine[r]} : dir'[n] = dir[n]
    BY <1>2, <2>1
  <2> QED
    BY <1>1, <1>2, <2>1, <2>2, BackupEnds
<1> QED
  BY <1>3, <1>4

-----------------------------------------------------------------------------
(* The steps of a restore, which has no backup beside it *)

RestoreSteps == {"idle", "verify", "open", "read", "extract", "adopt", "swap", "merge"}
Choices == [name : Backup!Names, trust : BOOLEAN, copy : {"none", "partial"} \cup Backup!Contents, adopts : BOOLEAN]

LEMMA RestoreLeaves ==
  ASSUME BackupInv, AtWork = {}, UNCHANGED Backup!ofBackup, faults' \in Nat, faults <= faults',
         hashes' \in HashRows, carried' \in HashRows, step' \in RestoreSteps, chosen' \in Choices,
         files' \in {"own", "mixed"} \cup Backup!Contents, database' \in {"own"} \cup Backup!Contents,
         torn' \in BOOLEAN, overridden' \in BOOLEAN,
         recorded' = recorded \/ (recorded' = recorded \cup {chosen.name} /\ dir[chosen.name] \in Backup!Contents),
         ChosenIsThere', DamageStaysOut', RowsStay'
  PROVE  BackupInv'
<1>1. UNCHANGED <<made, dir, inside, backupAt, mine, digest>> /\ BackupTyped
  BY DEF Backup!ofBackup, BackupInv
<1>2. dir[chosen.name] \in Backup!Contents => chosen.name \in 1..made
  BY <1>1, BackupsAssumption DEF BackupTyped, Backup!Contents, Backup!Names
<1>3. recorded' \subseteq 1..made
  BY <1>1, <1>2 DEF BackupTyped
<1>4. BackupTyped'
  BY <1>1, <1>3 DEF BackupTyped, RestoreSteps, Choices
<1> QED
  BY <1>1, <1>4, RestoreKeeps DEF BackupInv

\* What holds while a restore is.
LEMMA AloneWithRestore ==
  ASSUME BackupInv, step # "idle"
  PROVE  /\ AtWork = {} /\ BackupTyped /\ chosen \in Choices /\ chosen.name \in Backup!Names /\ faults \in Nat
         /\ chosen.copy \in {"partial"} \cup Backup!Contents
         /\ chosen.copy \in Backup!Contents => dir[chosen.name] \in Backup!Contents
         /\ step \notin {"verify", "open"} => chosen.copy \in Backup!Contents
         /\ step \notin {"verify"} /\ ~overridden => chosen.copy = "whole"
         /\ hashes \in HashRows /\ carried \in HashRows
         /\ inside[chosen.name] \in HashRows \cup {Backup!NoDatabase}
         /\ chosen.adopts => overridden
  BY DEF BackupInv, BackupTyped, BackupsApart, ChosenIsThere, DamageStaysOut, Choices

LEMMA OverThen ==
  ASSUME Backup!Over
  PROVE  /\ step' = "idle" /\ step' \in RestoreSteps /\ chosen' \in Choices /\ carried' \in HashRows
         /\ Undamaged(carried)' /\ ChosenIsThere'
<1>1. step' = "idle" /\ chosen' = Backup!NoChoice /\ carried' = Backup!NoRows
  BY DEF Backup!Over
<1>2. Backup!NoChoice \in Choices /\ Backup!NoRows \in HashRows /\ Undamaged(Backup!NoRows)
  BY BackupNames DEF Backup!NoChoice, Backup!NoRows, Backup!NoRow, Choices, HashRows, Undamaged
<1> QED
  BY <1>1, <1>2 DEF ChosenIsThere, RestoreSteps, Undamaged

LEMMA RestoreAsked == ASSUME BackupInv, Backup!Ask PROVE BackupInv'
<1>1. /\ step = "idle" /\ \A r \in BackupRuns : backupAt[r] = "idle"
      /\ step' = "verify" /\ UNCHANGED <<hashes, carried, files, database, recorded, torn, overridden, faults>>
      /\ UNCHANGED Backup!ofBackup
  BY DEF Backup!Ask
<1>2. PICK n \in Backup!Archives, trust \in BOOLEAN : chosen' = [name |-> n, trust |-> trust, copy |-> dir[n], adopts |-> FALSE]
  BY DEF Backup!Ask
<1>3. AtWork = {} /\ BackupTyped
  BY <1>1 DEF AtWork, BackupInv
<1>4. n \in Backup!Names /\ dir[n] \in {"partial"} \cup Backup!Contents /\ n <= made
  <2>1. n \in Backup!Names /\ dir[n] # "none"
    BY DEF Backup!Archives
  <2>2. ~(n > made) /\ dir[n] \in {"none", "partial"} \cup Backup!Contents
    BY <1>3, <2>1 DEF BackupTyped
  <2> QED
    BY <1>3, <2>1, <2>2, BackupsAssumption DEF BackupTyped, Backup!Names
<1>5. chosen' \in Choices /\ chosen'.name = n /\ chosen'.copy = dir[n] /\ ~chosen'.adopts
  BY <1>2, <1>4 DEF Choices
<1>6. UNCHANGED <<made, dir, inside>>
  BY <1>1 DEF Backup!ofBackup
<1>7. ChosenIsThere'
  BY <1>1, <1>4, <1>5, <1>6 DEF ChosenIsThere, Backup!Contents
<1>8. DamageStaysOut' /\ RowsStay'
  BY <1>1, <1>6 DEF BackupInv, DamageStaysOut, Undamaged, RowsStay, HashedIn
<1> QED
  BY <1>1, <1>3, <1>5, <1>7, <1>8, RestoreLeaves DEF BackupTyped, RestoreSteps

LEMMA RestoreVerifies == ASSUME BackupInv, Backup!Verify PROVE BackupInv'
<1>1. /\ step = "verify" /\ step' = "open" /\ UNCHANGED <<hashes, carried, files, database, recorded, torn, faults>>
      /\ UNCHANGED Backup!ofBackup
  BY DEF Backup!Verify
<1>2. /\ AtWork = {} /\ BackupTyped /\ chosen \in Choices /\ chosen.name \in Backup!Names
      /\ chosen.copy \in {"partial"} \cup Backup!Contents /\ hashes \in HashRows
  BY <1>1, AloneWithRestore
<1>3. UNCHANGED <<made, dir, inside>>
  BY <1>1 DEF Backup!ofBackup
<1>4. RowsStay'
  BY <1>1, <1>3 DEF BackupInv, RowsStay, HashedIn
<1>5. CASE hashes[chosen.name] = chosen.copy /\ UNCHANGED <<chosen, overridden>>
  <2>1. chosen.copy \in Backup!Contents
    BY <1>2, <1>5 DEF HashRows, Backup!Contents
  <2>2. ~overridden => chosen.copy = "whole"
    <3>1. ~overridden => hashes[chosen.name] # "damaged"
      BY <1>2 DEF BackupInv, DamageStaysOut, Undamaged
    <3> QED
      BY <1>5, <2>1, <3>1 DEF Backup!Contents
  <2>3. ChosenIsThere' /\ DamageStaysOut'
    BY <1>1, <1>3, <1>5, <2>2 DEF BackupInv, ChosenIsThere, DamageStaysOut, Undamaged
  <2> QED
    BY <1>1, <1>2, <1>4, <1>5, <2>3, RestoreLeaves DEF BackupTyped, RestoreSteps
<1>6. CASE chosen' = [chosen EXCEPT !.adopts = TRUE] /\ overridden' = TRUE
  <2>1. chosen' \in Choices /\ chosen'.name = chosen.name /\ chosen'.copy = chosen.copy
    BY <1>2, <1>6 DEF Choices
  <2>2. ChosenIsThere' /\ DamageStaysOut'
    BY <1>1, <1>3, <1>6, <2>1 DEF BackupInv, ChosenIsThere, DamageStaysOut
  <2> QED
    BY <1>1, <1>2, <1>4, <1>6, <2>1, <2>2, RestoreLeaves DEF BackupTyped, RestoreSteps
<1> QED
  BY <1>5, <1>6 DEF Backup!Verify, Backup!Matches

\* A restore ends without having touched the history.
LEMMA RestoreStops ==
  ASSUME BackupInv, step # "idle", Backup!Over, UNCHANGED Backup!ofBackup, UNCHANGED <<hashes, database, recorded, overridden>>,
         files' \in {files, "mixed"}, faults' \in {faults, faults + 1},
         torn' = (torn \/ step = "merge")
  PROVE  BackupInv'
<1>1. AtWork = {} /\ BackupTyped /\ hashes \in HashRows /\ faults \in Nat
  BY AloneWithRestore
<1>2. UNCHANGED <<made, dir, inside>> /\ faults' \in Nat /\ faults <= faults' /\ torn' \in BOOLEAN
  BY <1>1 DEF Backup!ofBackup, BackupTyped
<1>3. /\ step' = "idle" /\ step' \in RestoreSteps /\ chosen' \in Choices /\ carried' \in HashRows
      /\ Undamaged(carried)' /\ ChosenIsThere'
  BY OverThen
<1>4. DamageStaysOut'
  BY <1>2, <1>3 DEF BackupInv, DamageStaysOut, Undamaged
<1>5. RowsStay'
  BY <1>3 DEF BackupInv, RowsStay, HashedIn
<1>6. files' \in {"own", "mixed"} \cup Backup!Contents
  BY <1>1 DEF BackupTyped
<1> QED
  BY <1>1, <1>2, <1>3, <1>4, <1>5, <1>6, RestoreLeaves DEF BackupTyped

LEMMA RestoreFails ==
  ASSUME BackupInv, Backup!Refuse \/ Backup!OpenFails \/ Backup!ExtractFails \/ Backup!MergeFails
  PROVE  BackupInv'
<1>1. BackupTyped
  BY DEF BackupInv
<1>2. CASE Backup!Refuse
  BY <1>1, <1>2, RestoreStops DEF Backup!Refuse, Backup!Ends, BackupTyped
<1>3. CASE Backup!OpenFails
  BY <1>1, <1>3, RestoreStops DEF Backup!OpenFails, Backup!OpenFiles, BackupTyped
<1>4. CASE Backup!ExtractFails
  BY <1>1, <1>4, RestoreStops DEF Backup!ExtractFails, BackupTyped
<1>5. CASE Backup!MergeFails
  BY <1>1, <1>5, RestoreStops DEF Backup!MergeFails, BackupTyped
<1> QED
  BY <1>2, <1>3, <1>4, <1>5

LEMMA RestoreOpens == ASSUME BackupInv, Backup!Open PROVE BackupInv'
<1>1. /\ step = "open" /\ chosen.copy # "partial"
      /\ step' = IF inside[chosen.name] # Backup!NoDatabase THEN "read" ELSE "extract"
      /\ UNCHANGED <<hashes, chosen, carried, files, database, recorded, torn, overridden, faults>>
      /\ UNCHANGED Backup!ofBackup
  BY DEF Backup!Open, Backup!OpenFiles, Backup!HasDatabase
<1>2. AtWork = {} /\ BackupTyped /\ chosen.copy \in Backup!Contents /\ UNCHANGED <<made, dir, inside>>
  BY <1>1, AloneWithRestore DEF Backup!ofBackup
<1>3. ChosenIsThere' /\ DamageStaysOut' /\ RowsStay'
  BY <1>1, <1>2 DEF BackupInv, ChosenIsThere, DamageStaysOut, Undamaged, RowsStay, HashedIn
<1> QED
  BY <1>1, <1>2, <1>3, RestoreLeaves DEF BackupTyped, RestoreSteps, Choices

LEMMA RestoreReads == ASSUME BackupInv, Backup!ReadHistory PROVE BackupInv'
<1>1. /\ step = "read" /\ step' = "extract" /\ carried' = hashes
      /\ UNCHANGED <<hashes, chosen, files, database, recorded, torn, overridden, faults>>
      /\ UNCHANGED Backup!ofBackup
  BY DEF Backup!ReadHistory, Backup!HistoryRead
<1>2. AtWork = {} /\ BackupTyped /\ chosen.copy \in Backup!Contents /\ UNCHANGED <<made, dir, inside>>
  BY <1>1, AloneWithRestore DEF Backup!ofBackup
<1>3. ChosenIsThere' /\ DamageStaysOut' /\ RowsStay'
  BY <1>1, <1>2 DEF BackupInv, ChosenIsThere, DamageStaysOut, Undamaged, RowsStay, HashedIn
<1> QED
  BY <1>1, <1>2, <1>3, RestoreLeaves DEF BackupTyped, RestoreSteps, Choices

LEMMA RestoreExtracts == ASSUME BackupInv, Backup!Extract PROVE BackupInv'
<1>1. /\ step = "extract" /\ files' = chosen.copy
      /\ step' = IF inside[chosen.name] # Backup!NoDatabase THEN "swap" ELSE "adopt"
      /\ UNCHANGED <<hashes, chosen, carried, database, recorded, torn, overridden, faults>>
      /\ UNCHANGED Backup!ofBackup
  BY DEF Backup!Extract, Backup!Source, Backup!HasDatabase
<1>2. /\ AtWork = {} /\ BackupTyped /\ chosen.copy \in Backup!Contents /\ UNCHANGED <<made, dir, inside>>
      /\ ~overridden => chosen.copy = "whole"
  BY <1>1, AloneWithRestore DEF Backup!ofBackup
<1>3. ChosenIsThere' /\ RowsStay'
  BY <1>1, <1>2 DEF BackupInv, ChosenIsThere, RowsStay, HashedIn
<1>4. DamageStaysOut'
  BY <1>1, <1>2 DEF BackupInv, DamageStaysOut, Undamaged
<1> QED
  BY <1>1, <1>2, <1>3, <1>4, RestoreLeaves DEF BackupTyped, RestoreSteps, Choices

LEMMA RestoreSwaps == ASSUME BackupInv, Backup!Swap PROVE BackupInv'
<1>1. /\ step = "swap" /\ step' = "merge" /\ database' = chosen.copy /\ hashes' = inside[chosen.name]
      /\ UNCHANGED <<chosen, carried, files, recorded, torn, overridden, faults>>
      /\ UNCHANGED Backup!ofBackup
  BY DEF Backup!Swap, Backup!Source
<1>2. /\ AtWork = {} /\ BackupTyped /\ chosen.copy \in Backup!Contents /\ UNCHANGED <<made, dir, inside>>
      /\ ~overridden => chosen.copy = "whole"
      /\ chosen.name \in Backup!Names /\ inside[chosen.name] \in HashRows \cup {Backup!NoDatabase}
  BY <1>1, AloneWithRestore DEF Backup!ofBackup
<1>3. inside[chosen.name] # Backup!NoDatabase
  BY <1>1 DEF BackupInv, ChosenIsThere
<1>4. ChosenIsThere'
  BY <1>1, <1>2, <1>3 DEF BackupInv, ChosenIsThere
<1>5. RowsStay'
  BY <1>1, <1>2, <1>3 DEF BackupInv, RowsStay, HashedIn
<1>6. DamageStaysOut'
  BY <1>1, <1>2 DEF BackupInv, DamageStaysOut, Undamaged
<1> QED
  BY <1>1, <1>2, <1>3, <1>4, <1>5, <1>6, RestoreLeaves DEF BackupTyped, RestoreSteps, Choices

\* A restore writes the history that it leaves: the rows there are, and the adopted one.
LEMMA RestoreWrites ==
  ASSUME BackupInv, step \in {"adopt", "merge"}, Backup!Over, UNCHANGED Backup!ofBackup,
         UNCHANGED <<files, database, torn, overridden, faults>>,
         NEW h \in HashRows, ~overridden => Undamaged(h), ~torn => HashedIn(h),
         hashes' = Backup!AdoptedInto(h),
         recorded' = IF chosen.adopts THEN recorded \cup {chosen.name} ELSE recorded
  PROVE  BackupInv'
<1>1. /\ AtWork = {} /\ BackupTyped /\ chosen.copy \in Backup!Contents /\ UNCHANGED <<made, dir, inside>>
      /\ chosen.name \in Backup!Names /\ faults \in Nat /\ dir[chosen.name] \in Backup!Contents
      /\ chosen.adopts => overridden
  BY AloneWithRestore DEF Backup!ofBackup
<1>2. /\ step' = "idle" /\ step' \in RestoreSteps /\ chosen' \in Choices /\ carried' \in HashRows
      /\ Undamaged(carried)' /\ ChosenIsThere'
  BY OverThen
<1>3. /\ hashes' \in HashRows
      /\ \A n \in Backup!Names : n # chosen.name => hashes'[n] = h[n]
      /\ IF chosen.adopts THEN hashes'[chosen.name] = chosen.copy ELSE hashes' = h
  BY <1>1 DEF Backup!AdoptedInto, HashRows
<1>4. RowsStay'
  <2> SUFFICES ASSUME ~torn, NEW n \in recorded' PROVE hashes'[n] # "none"
    BY <1>2 DEF RowsStay, HashedIn
  <2>1. recorded \subseteq Backup!Names /\ \A m \in recorded : h[m] # "none"
    BY <1>1, RecordedNames DEF HashedIn
  <2>2. CASE chosen.adopts /\ n = chosen.name
    BY <1>1, <1>3, <2>2 DEF Backup!Contents
  <2>3. CASE ~chosen.adopts \/ n # chosen.name
    BY <1>3, <2>1, <2>3
  <2> QED
    BY <2>2, <2>3
<1>5. DamageStaysOut'
  BY <1>1, <1>2, <1>3 DEF BackupInv, DamageStaysOut, Undamaged
<1> QED
  BY <1>1, <1>2, <1>3, <1>4, <1>5, RestoreLeaves DEF BackupTyped

LEMMA RestoreAdopts == ASSUME BackupInv, Backup!Adopt PROVE BackupInv'
<1>1. /\ step = "adopt" /\ Backup!Over /\ hashes' = Backup!AdoptedInto(hashes)
      /\ recorded' = (IF chosen.adopts THEN recorded \cup {chosen.name} ELSE recorded)
      /\ UNCHANGED <<files, database, torn, overridden, faults>> /\ UNCHANGED Backup!ofBackup
  BY DEF Backup!Adopt, Backup!Ends
<1>2. hashes \in HashRows /\ (~overridden => Undamaged(hashes)) /\ (~torn => HashedIn(hashes))
  BY <1>1 DEF BackupInv, BackupTyped, DamageStaysOut, RowsStay
<1> QED
  BY <1>1, <1>2, RestoreWrites

LEMMA RestoreMerges == ASSUME BackupInv, Backup!Merge PROVE BackupInv'
<1> DEFINE h == Backup!Merged(hashes, carried)
<1>1. /\ step = "merge" /\ Backup!Over /\ hashes' = Backup!AdoptedInto(h)
      /\ recorded' = (IF chosen.adopts THEN recorded \cup {chosen.name} ELSE recorded)
      /\ UNCHANGED <<files, database, torn, overridden, faults>> /\ UNCHANGED Backup!ofBackup
  BY DEF Backup!Merge, Backup!Ends
<1>2. hashes \in HashRows /\ carried \in HashRows /\ inside[chosen.name] # Backup!NoDatabase
  BY <1>1 DEF BackupInv, BackupTyped, ChosenIsThere
<1>3. h \in HashRows /\ \A n \in Backup!Names : h[n] = IF carried[n] = "none" THEN hashes[n] ELSE carried[n]
  BY <1>2 DEF Backup!Merged, Backup!NoRow, HashRows
<1>4. ~overridden => Undamaged(h)
  BY <1>3 DEF BackupInv, DamageStaysOut, Undamaged
<1>5. ~torn => HashedIn(h)
  <2> SUFFICES ASSUME ~torn, NEW n \in recorded PROVE h[n] # "none"
    BY DEF HashedIn
  <2>1. n \in Backup!Names /\ carried[n] # "none"
    BY <1>1, <1>2, RecordedNames DEF BackupInv, RowsStay, HashedIn
  <2> QED
    BY <1>3, <2>1
<1> HIDE DEF h
<1> QED
  BY <1>1, <1>3, <1>4, <1>5, RestoreWrites

-----------------------------------------------------------------------------
(* Damage and crashes *)

LEMMA BackupDamaged == ASSUME BackupInv, Backup!Damage PROVE BackupInv'
<1>1. PICK n \in Backup!Names : /\ dir[n] = "whole"
                                /\ \A r \in BackupRuns : mine[r] = n => backupAt[r] # "hash"
                                /\ dir' = [dir EXCEPT ![n] = "damaged"]
  BY DEF Backup!Damage
<1>2. UNCHANGED <<made, inside, hashes, backupAt, mine, digest, recorded, faults>> /\ UNCHANGED Backup!ofRestore
  BY DEF Backup!Damage
<1>3. UNCHANGED <<step, chosen, carried, files, database, torn, overridden>> /\ BackupTyped
  BY <1>2 DEF Backup!ofRestore, BackupInv
<1>4. /\ dir' \in [Backup!Names -> {"none", "partial"} \cup Backup!Contents]
      /\ dir'[n] = "damaged" /\ \A m \in Backup!Names \ {n} : dir'[m] = dir[m]
  BY <1>1, <1>3 DEF BackupTyped, Backup!Contents
<1>5. \A m \in Backup!Names : /\ dir[m] \in Backup!Contents <=> dir'[m] \in Backup!Contents
                              /\ dir[m] = "none" <=> dir'[m] = "none"
                              /\ dir[m] = "partial" <=> dir'[m] = "partial"
  BY <1>1, <1>4 DEF Backup!Contents
<1>6. BackupTyped'
  BY <1>2, <1>3, <1>4, <1>5 DEF BackupTyped
<1>7. AtWork' = AtWork /\ \A r \in AtWork : r \in BackupRuns /\ mine[r] \in Backup!Names
  BY <1>2, <1>3 DEF AtWork, BackupTyped
<1>8. BackupsApart'
  BY <1>1, <1>2, <1>3, <1>4, <1>5, <1>7 DEF BackupInv, BackupsApart, Finished
<1>9. ChosenIsThere'
  BY <1>2, <1>3, <1>5 DEF BackupInv, BackupTyped, ChosenIsThere
<1>10. DamageStaysOut' /\ RowsStay'
  BY <1>2, <1>3 DEF BackupInv, DamageStaysOut, Undamaged, RowsStay, HashedIn
<1>11. OneIsKept'
  <2>1. Verifying' = Verifying
    BY <1>2, <1>3, <1>5, RecordedNames DEF Verifying
  <2>2. LeftOver' \subseteq LeftOver
    BY <1>2, <1>5, <1>7, <2>1 DEF LeftOver, Backup!Archives
  <2>3. \A r \in AtWork : Finished(r)' <=> Finished(r)
    BY <1>2 DEF Finished
  <2>4. LeftOver \subseteq Backup!Names /\ LeftOver' \subseteq Backup!Names
    BY DEF LeftOver, Backup!Archives
  <2>5. Cardinality(LeftOver') <= Cardinality(LeftOver) /\ Cardinality(LeftOver) \in Nat /\ Cardinality(LeftOver') \in Nat
    BY <2>2, <2>4, BackupNames, FS_Subset
  <2>6. Cardinality(LeftOver') <= faults'
    BY <1>2, <1>3, <2>5 DEF BackupInv, BackupTyped, OneIsKept
  <2> QED
    BY <1>2, <1>5, <1>7, <2>1, <2>3, <2>6 DEF BackupInv, OneIsKept
<1> QED
  BY <1>6, <1>8, <1>9, <1>10, <1>11 DEF BackupInv

LEMMA BackupCrashes == ASSUME BackupInv, Backup!Crash PROVE BackupInv'
<1> DEFINE T == {mine[r] : r \in AtWork}
<1>1. /\ backupAt' = [r \in BackupRuns |-> "idle"] /\ mine' = [r \in BackupRuns |-> 1] /\ digest' = [r \in BackupRuns |-> "none"]
      /\ Backup!Over /\ torn' = (torn \/ step = "merge")
      /\ faults' = faults + Cardinality(AtWork) + (IF step = "idle" THEN 0 ELSE 1)
      /\ UNCHANGED <<made, dir, inside, hashes, files, database, recorded, overridden>>
  BY BackupCounts DEF Backup!Crash, AtWork
<1>2. BackupTyped /\ faults \in Nat /\ Cardinality(AtWork) \in Nat
  BY NamesInHand DEF BackupInv, BackupTyped
<1>3. faults' \in Nat /\ faults <= faults' /\ faults + Cardinality(AtWork) <= faults'
  BY <1>1, <1>2
<1>4. /\ step' = "idle" /\ step' \in RestoreSteps /\ chosen' \in Choices /\ carried' \in HashRows
      /\ Undamaged(carried)' /\ ChosenIsThere'
  BY <1>1, OverThen
<1>5. BackupTyped'
  BY <1>1, <1>2, <1>3, <1>4, BackupNames DEF BackupTyped, RestoreSteps, Choices
<1>6. AtWork' = {} /\ BackupsApart'
  BY <1>1, <1>4 DEF AtWork, BackupsApart
<1>7. DamageStaysOut' /\ RowsStay'
  BY <1>1, <1>4 DEF BackupInv, DamageStaysOut, Undamaged, RowsStay, HashedIn
<1>8. Verifying' = Verifying /\ LeftOver' \subseteq LeftOver \cup T
  <2>1. Verifying' = Verifying
    BY <1>1 DEF Verifying
  <2> QED
    BY <1>1, <2>1 DEF LeftOver, Backup!Archives
<1>9. Cardinality(LeftOver') <= faults'
  <2>1. LeftOver \subseteq Backup!Names /\ T \subseteq Backup!Names /\ LeftOver' \subseteq Backup!Names
    BY <1>2, NamesInHand DEF LeftOver, Backup!Archives
  <2>2. /\ Cardinality(LeftOver) \in Nat /\ Cardinality(T) \in Nat /\ Cardinality(LeftOver \cap T) \in Nat
        /\ IsFiniteSet(LeftOver) /\ IsFiniteSet(T) /\ Cardinality(LeftOver \cup T) \in Nat /\ Cardinality(LeftOver') \in Nat
    BY <2>1, BackupNames
  <2>3. /\ Cardinality(LeftOver \cup T) = Cardinality(LeftOver) + Cardinality(T) - Cardinality(LeftOver \cap T)
        /\ IsFiniteSet(LeftOver \cup T)
    BY <2>2, FS_Union
  <2>4. Cardinality(LeftOver') <= Cardinality(LeftOver \cup T)
    BY <1>8, <2>3, FS_Subset
  <2>5. Cardinality(T) <= Cardinality(AtWork) /\ Cardinality(LeftOver) <= faults
    BY <1>2, NamesInHand DEF BackupInv, OneIsKept
  <2> HIDE DEF T
  <2> QED
    BY <1>2, <1>3, <2>2, <2>3, <2>4, <2>5
<1>10. OneIsKept'
  <2>1. faults' + Cardinality(BackupRuns) < Retention => faults + Cardinality(BackupRuns) < Retention
    BY <1>2, <1>3, BackupRunsCount, BackupsAssumption
  <2> QED
    BY <1>1, <1>6, <1>8, <1>9, <2>1 DEF BackupInv, OneIsKept
<1> QED
  BY <1>4, <1>5, <1>6, <1>7, <1>10 DEF BackupInv

-----------------------------------------------------------------------------
LEMMA BackupStart == Backup!Init => BackupInv
<1> SUFFICES ASSUME Backup!Init PROVE BackupInv
  OBVIOUS
<1>1. /\ made = 0 /\ faults = 0 /\ recorded = {} /\ torn = FALSE /\ overridden = FALSE
      /\ dir = [n \in Backup!Names |-> "none"] /\ inside = [n \in Backup!Names |-> Backup!NoDatabase]
      /\ hashes = Backup!NoRows /\ carried = Backup!NoRows /\ chosen = Backup!NoChoice
      /\ backupAt = [r \in BackupRuns |-> "idle"] /\ mine = [r \in BackupRuns |-> 1]
      /\ digest = [r \in BackupRuns |-> "none"] /\ step = "idle" /\ files = "own" /\ database = "own"
  BY DEF Backup!Init
<1>2. Backup!NoChoice \in Choices /\ Backup!NoRows \in HashRows /\ Undamaged(Backup!NoRows) /\ Undamaged(Backup!NoDatabase)
  BY BackupNames DEF Backup!NoChoice, Backup!NoRows, Backup!NoRow, Backup!NoDatabase, Choices, HashRows, Undamaged
<1>3. BackupTyped
  <2>1. 0 \in 0..MaxBackups /\ 0 \in Nat
    BY BackupsAssumption
  <2>2. mine \in [BackupRuns -> Backup!Names]
    BY <1>1, BackupNames
  <2>3. inside \in [Backup!Names -> HashRows \cup {Backup!NoDatabase}]
    BY <1>1
  <2>4. dir \in [Backup!Names -> {"none", "partial"} \cup Backup!Contents] /\ \A n \in Backup!Names : n > made => dir[n] = "none"
    BY <1>1
  <2> QED
    BY <1>1, <1>2, <2>1, <2>2, <2>3, <2>4 DEF BackupTyped, Choices
<1>4. AtWork = {} /\ LeftOver = {}
  BY <1>1 DEF AtWork, LeftOver, Backup!Archives
<1>5. BackupsApart /\ ChosenIsThere /\ DamageStaysOut /\ RowsStay
  BY <1>1, <1>2, <1>4 DEF BackupsApart, ChosenIsThere, DamageStaysOut, Undamaged, RowsStay, HashedIn
<1>6. OneIsKept
  BY <1>1, <1>4, FS_EmptySet DEF OneIsKept
<1> QED
  BY <1>3, <1>5, <1>6 DEF BackupInv

LEMMA BackupSteps == ASSUME BackupInv, Backup!Next PROVE BackupInv'
<1>1. CASE Backup!Restore
  BY <1>1, RestoreAsked, RestoreVerifies, RestoreFails, RestoreOpens, RestoreReads, RestoreExtracts, RestoreSwaps,
     RestoreAdopts, RestoreMerges DEF Backup!Restore
<1>2. CASE \E r \in BackupRuns : Backup!Backup(r)
  BY <1>2, BackupBegins, BackupSnapshots, BackupCloses, BackupHashes, BackupPrunes, BackupRecords, BackupGivesUp
     DEF Backup!Backup
<1> QED
  BY <1>1, <1>2, BackupDamaged, BackupCrashes DEF Backup!Next

LEMMA BackupStutters == ASSUME BackupInv, UNCHANGED backupVars PROVE BackupInv'
  BY DEF backupVars, BackupInv, BackupTyped, BackupsApart, AtWork, Finished, ChosenIsThere, DamageStaysOut, Undamaged,
         RowsStay, HashedIn, OneIsKept, Verifying, LeftOver, Backup!Archives

-----------------------------------------------------------------------------
\* Damage to an archive reaches the live files and the live database only if the operator
\* trusted an archive without a hash; a recorded archive keeps its hash through every
\* restore that reaches its merge; and one that verifies is there as long as more archives
\* are kept than there are backups at work and backups that failed.
THEOREM ArchivesVerifyHolds == KeptSpec => []ArchivesVerify
<1> DEFINE Inv0 == focus = "backup" => BackupInv
<1>1. KeptInit => Inv0
  BY BackupStart DEF KeptInit
<1>2. Inv0 /\ [KeptNext]_keptVars => Inv0'
  <2> SUFFICES ASSUME Inv0, [KeptNext]_keptVars, focus' = "backup" PROVE BackupInv'
    OBVIOUS
  <2>1. focus = "backup" /\ BackupInv
    BY DEF KeptNext, keptVars
  <2>2. Backup!Next \/ UNCHANGED backupVars
    BY <2>1 DEF KeptNext, keptVars
  <2> QED
    BY <2>1, <2>2, BackupSteps, BackupStutters
<1>3. Inv0 => ArchivesVerify
  <2> SUFFICES ASSUME BackupInv
               PROVE  Backup!TypeOK /\ Backup!VerifiedIsApplied /\ Backup!HashesCarriedForward /\ Backup!SomethingVerifies
    BY DEF ArchivesVerify
  <2>1. Backup!TypeOK
    BY DEF BackupInv, BackupTyped, HashRows, Backup!TypeOK, Backup!NoRow
  <2>2. Backup!VerifiedIsApplied
    BY DEF BackupInv, DamageStaysOut, Backup!VerifiedIsApplied
  <2>3. Backup!HashesCarriedForward
    BY DEF BackupInv, RowsStay, HashedIn, Backup!HashesCarriedForward, Backup!NoRow
  <2>4. Backup!SomethingVerifies
    <3> SUFFICES ASSUME recorded # {}, step = "idle", ~torn, faults + Cardinality(BackupRuns) < Retention
                 PROVE  \E n \in Backup!Archives : dir[n] \in Backup!Contents /\ hashes[n] # "none"
      BY BackupCounts DEF Backup!SomethingVerifies, Backup!NoRow
    <3>1. PICK n \in Verifying : TRUE
      BY DEF BackupInv, OneIsKept
    <3>2. n \in Backup!Names /\ dir[n] \in Backup!Contents /\ hashes[n] # "none"
      BY RecordedNames DEF Verifying, BackupInv, RowsStay, HashedIn
    <3> QED
      BY <3>2 DEF Backup!Archives, Backup!Contents
  <2> QED
    BY <2>1, <2>2, <2>3, <2>4
<1> HIDE DEF Inv0
<1> QED
  BY <1>1, <1>2, <1>3, PTL DEF KeptSpec

-----------------------------------------------------------------------------
(* AlertGate *)

TheScan == scan["scan"]
ScanState == [at : {"idle", "read", "ask", "send", "stamp"}, price : Prices \cup {0},
              condition : Conditions \cup {"quiet"}, asked : 0..MaxTime]
ToldState == [condition : Conditions \cup {"quiet"}, price : Prices \cup {0}, at : 0..MaxTime]

GateTyped ==
  /\ kind \in Kinds /\ now \in 0..MaxTime
  /\ row \in Gate!Rows
  /\ scan \in [{"scan"} -> ScanState]
  /\ told \in ToldState
  /\ repeats \in Nat /\ gateFaults \in 0..MaxLost
  /\ sentOn \in [day : Nat, count : Nat]
  /\ consulted \in 0..MaxTime /\ rose \in {"no", "seen", "answered"}

\* Nothing is dated later than today, and who is past its reading has a condition.
Dated ==
  /\ told.at <= now /\ consulted <= now /\ TheScan.asked <= now
  /\ row # Gate!NoRow => row.fired <= now /\ row.day <= Gate!Today
  /\ sentOn.day <= Gate!Today
  /\ told.condition # "quiet" => told.price \in Prices
  /\ TheScan.at \in {"ask", "send", "stamp"} => TheScan.condition \in Conditions /\ TheScan.price \in Prices

\* The day of a row is that of the last answer: pruning goes by it.
DayIsKept == kind # "daily" /\ row # Gate!NoRow => row.day = Gate!Day(consulted)

\* The row tells what was told last, and whether it recovered since.
RowTells ==
  IF row = Gate!NoRow
  THEN told = Gate!NoAlert \/ Gate!Today - Gate!Day(consulted) > KeepDays
  ELSE /\ told.condition = row.condition /\ told.at <= row.fired
       /\ IF kind = "unpriced" THEN ~row.armed
          ELSE row.price = told.price /\ (row.armed => rose # "no") /\ (rose = "answered" => row.armed)

\* It does so between a stamp and the next alert, unless a stamp was lost that was not paid for
\* with a repeated alert.
TellsOrLost ==
  /\ kind # "daily" => TheScan.at = "stamp" \/ RowTells \/ repeats < gateFaults
  /\ TheScan.at = "stamp" => told.condition = TheScan.condition /\ told.price = TheScan.price /\ rose = "no"

\* An alert that was let through has something to tell.
LetThrough ==
  IF kind = "daily" THEN TheScan.at \in {"send", "stamp"} => Gate!DailyFires
  ELSE TheScan.at = "send" => Gate!News("scan") \/ repeats < gateFaults

\* The alerts of today that are stamped, or about to be.
StampedToday ==
  (IF row # Gate!NoRow /\ row.day = Gate!Today THEN row.count ELSE 0) + (IF TheScan.at = "stamp" THEN 1 ELSE 0)
BeyondLimit == IF sentOn.count > PerDay THEN sentOn.count - PerDay ELSE 0

\* Today's alerts without a stamp are lost stamps, and those beyond the limit are repeats.
DayCounts ==
  kind = "daily" =>
    /\ row # Gate!NoRow => row.count <= PerDay
    /\ sentOn.count <= PerDay + gateFaults
    /\ sentOn.day = Gate!Today => /\ sentOn.count - StampedToday <= gateFaults
                                  /\ repeats + sentOn.count - StampedToday <= gateFaults + BeyondLimit

GateInv ==
  /\ GateTyped /\ Dated /\ DayIsKept /\ TellsOrLost /\ LetThrough /\ DayCounts
  /\ repeats <= gateFaults

LEMMA DayFacts ==
  /\ \A t \in Nat : Gate!Day(t) \in Nat
  /\ \A s, t \in Nat : s <= t => Gate!Day(s) <= Gate!Day(t)
  BY AlertsAssumption DEF Gate!Day

LEMMA ScanOne == ASSUME GateTyped PROVE TheScan \in ScanState /\ now \in Nat /\ consulted \in Nat
  BY AlertsAssumption DEF GateTyped, TheScan

LEMMA RowTyped ==
  ASSUME GateTyped, row # Gate!NoRow
  PROVE  /\ row \in [condition : Conditions, price : Prices \cup {0}, fired : 0..MaxTime, armed : BOOLEAN,
                     day : 0..Gate!Day(MaxTime), count : 1..(PerDay + 1)]
         /\ row.condition \in Conditions /\ row.price \in Nat /\ row.fired \in Nat /\ row.armed \in BOOLEAN
         /\ row.day \in Nat /\ row.count \in 1..(PerDay + 1)
  BY AlertsAssumption, DayFacts DEF GateTyped, Gate!Rows

LEMMA NewRow ==
  ASSUME NEW c \in Conditions, NEW p \in Prices \cup {0}, NEW f \in 0..MaxTime, NEW a \in BOOLEAN, NEW d \in 0..Gate!Day(MaxTime),
         NEW n \in 1..(PerDay + 1)
  PROVE  LET r == [condition |-> c, price |-> p, fired |-> f, armed |-> a, day |-> d, count |-> n] IN
           r \in Gate!Rows /\ r # Gate!NoRow
  BY AlertsAssumption DEF Gate!Rows, Gate!NoRow, Gate!Quiet

\* The scan is the only one.
LEMMA ScanSet ==
  ASSUME GateTyped, NEW r \in ScanState, scan' = [scan EXCEPT !["scan"] = r]
  PROVE  scan' \in [{"scan"} -> ScanState] /\ TheScan' = r
  BY DEF GateTyped, TheScan

LEMMA GateStart == Gate!Init /\ kind \in Kinds => GateInv
<1> SUFFICES ASSUME Gate!Init PROVE GateInv
  OBVIOUS
<1>1. TheScan = Gate!Idle /\ Gate!Today = Gate!Day(0) /\ now = 0 /\ row = Gate!NoRow /\ told = Gate!NoAlert
      /\ repeats = 0 /\ gateFaults = 0 /\ consulted = 0 /\ rose = "no" /\ sentOn = [day |-> 0, count |-> 0]
  BY DEF Gate!Init, TheScan, Gate!Today
<1>2. Gate!Idle \in ScanState /\ Gate!Idle.at = "idle" /\ Gate!Idle.asked = 0 /\ Gate!NoAlert \in ToldState /\ Gate!NoAlert.at = 0
      /\ Gate!NoAlert.condition = "quiet"
  BY AlertsAssumption DEF Gate!Idle, ScanState, Gate!NoAlert, ToldState, Gate!Quiet
<1>3. GateTyped
  <2>1. scan \in [{"scan"} -> ScanState]
    BY <1>2 DEF Gate!Init
  <2> QED
    BY <1>1, <1>2, <2>1, AlertsAssumption DEF GateTyped, Gate!Init, Gate!Rows
<1>4. Dated
  BY <1>1, <1>2, DayFacts DEF Dated
<1>5. DayIsKept /\ TellsOrLost /\ LetThrough
  BY <1>1, <1>2 DEF DayIsKept, TellsOrLost, LetThrough, RowTells
<1>6. DayCounts
  BY <1>1, <1>2, AlertsAssumption DEF DayCounts, StampedToday, BeyondLimit
<1> QED
  BY <1>1, <1>3, <1>4, <1>5, <1>6 DEF GateInv

LEMMA IdleFacts == Gate!Idle \in ScanState /\ Gate!Idle.at = "idle" /\ Gate!Idle.asked = 0
  BY AlertsAssumption DEF Gate!Idle, ScanState, Gate!Quiet

\* A scan that ends early leaves the row behind as a lost stamp does.
LEMMA ScanStops ==
  ASSUME GateInv, gateFaults' = gateFaults + 1, gateFaults < MaxLost, scan' = [s \in {"scan"} |-> Gate!Idle],
         UNCHANGED <<kind, now, row, told, repeats, sentOn, consulted, rose>>
  PROVE  GateInv'
<1>1. TheScan' = Gate!Idle /\ TheScan'.at = "idle" /\ TheScan'.asked = 0
  BY IdleFacts DEF TheScan
<1>2. GateTyped /\ gateFaults \in Nat /\ repeats \in Nat /\ repeats <= gateFaults /\ sentOn.count \in Nat
  BY AlertsAssumption DEF GateInv, GateTyped
<1>3. GateTyped'
  BY <1>2, IdleFacts, AlertsAssumption DEF GateTyped
<1>4. Dated' /\ DayIsKept' /\ Gate!Today' = Gate!Today
  BY <1>1, <1>2, AlertsAssumption DEF GateInv, GateTyped, Dated, DayIsKept, Gate!Today, Gate!Day
<1>5. TellsOrLost' /\ LetThrough'
  BY <1>1, <1>2 DEF TellsOrLost, LetThrough
<1>6. DayCounts'
  <2> SUFFICES ASSUME kind = "daily" PROVE DayCounts'
    BY DEF DayCounts
  <2>1. StampedToday \in Nat /\ StampedToday' \in Nat /\ StampedToday <= StampedToday' + 1
    BY <1>1, <1>2, <1>4, RowTyped DEF StampedToday
  <2>2. BeyondLimit \in Nat /\ BeyondLimit' = BeyondLimit /\ PerDay \in Nat
    BY <1>2, AlertsAssumption DEF BeyondLimit
  <2>3. /\ row # Gate!NoRow => row.count <= PerDay
        /\ sentOn.count <= PerDay + gateFaults'
    BY <1>2, <2>2 DEF GateInv, DayCounts
  <2>4. ASSUME sentOn.day = Gate!Today
        PROVE  /\ sentOn.count - StampedToday' <= gateFaults'
               /\ repeats + sentOn.count - StampedToday' <= gateFaults' + BeyondLimit'
    <3>1. /\ sentOn.count - StampedToday <= gateFaults
          /\ repeats + sentOn.count - StampedToday <= gateFaults + BeyondLimit
      BY <2>4 DEF GateInv, DayCounts
    <3>2. \A m, s, u, g, b, i \in Nat : m - s <= g /\ i + m - s <= g + b /\ s <= u + 1 => m - u <= g + 1 /\ i + m - u <= g + 1 + b
      OBVIOUS
    <3> HIDE DEF GateInv
    <3>3. gateFaults' = gateFaults + 1
      OBVIOUS
    <3> QED
      BY ONLY <1>2, <2>1, <2>2, <3>1, <3>2, <3>3
  <2> QED
    BY <1>4, <2>3, <2>4 DEF DayCounts
<1> QED
  BY <1>2, <1>3, <1>4, <1>5, <1>6 DEF GateInv

LEMMA ScanFails == ASSUME GateInv, Gate!AskFails("scan") \/ Gate!StampFails("scan") \/ Gate!Crash PROVE GateInv'
<1>1. scan' = [s \in {"scan"} |-> Gate!Idle]
  BY DEF GateInv, GateTyped, Gate!AskFails, Gate!StampFails, Gate!Crash
<1> QED
  BY <1>1, ScanStops DEF Gate!AskFails, Gate!StampFails, Gate!Crash

LEMMA ReadStep == ASSUME GateInv, Gate!Read("scan") PROVE GateInv'
<1>1. PICK market \in Gate!Markets :
        scan' = [scan EXCEPT !["scan"] = IF market.condition = "quiet" THEN Gate!Idle
                   ELSE [at |-> "ask", price |-> market.price, condition |-> market.condition, asked |-> 0]]
  BY DEF Gate!Read, Gate!Quiet
<1>2. market.condition \in Conditions \cup {"quiet"} /\ market.price \in Prices
  BY <1>1 DEF Gate!Markets, Gate!Quiet
<1>3. /\ TheScan.at = "read" /\ rose' \in {rose, "seen"} /\ (rose' # rose => rose = "no")
      /\ UNCHANGED <<kind, now, row, told, repeats, sentOn, gateFaults, consulted>>
  BY DEF Gate!Read, TheScan
<1>4. GateTyped /\ repeats <= gateFaults /\ now \in Nat
  BY AlertsAssumption DEF GateInv, GateTyped
<1>5. PICK r : r = IF market.condition = "quiet" THEN Gate!Idle
                   ELSE [at |-> "ask", price |-> market.price, condition |-> market.condition, asked |-> 0]
  OBVIOUS
<1>6. /\ r \in ScanState /\ r.at \in {"idle", "ask"} /\ r.asked = 0
      /\ r.at = "ask" => r.condition \in Conditions /\ r.price \in Prices
  BY <1>2, <1>5, IdleFacts, AlertsAssumption DEF ScanState
<1>7. TheScan' = r /\ scan' \in [{"scan"} -> ScanState]
  BY <1>1, <1>4, <1>5, <1>6, ScanSet
<1>8. GateTyped'
  BY <1>3, <1>4, <1>7 DEF GateTyped
<1>9. Dated' /\ DayIsKept' /\ Gate!Today' = Gate!Today
  BY <1>3, <1>4, <1>6, <1>7, AlertsAssumption DEF GateInv, GateTyped, Dated, DayIsKept, Gate!Today, Gate!Day
<1>10. RowTells => RowTells'
  BY <1>3 DEF RowTells, Gate!Today, Gate!Day
<1>11. TellsOrLost' /\ LetThrough'
  BY <1>3, <1>6, <1>7, <1>10 DEF GateInv, TellsOrLost, LetThrough
<1>12. DayCounts'
  BY <1>3, <1>6, <1>7, <1>9 DEF GateInv, DayCounts, StampedToday, BeyondLimit
<1> QED
  BY <1>3, <1>4, <1>8, <1>9, <1>11, <1>12 DEF GateInv

LEMMA PruneStep == ASSUME GateInv, Gate!Prune("scan") PROVE GateInv'
<1>1. /\ TheScan.at = "idle" /\ row' = (IF Gate!Outdated THEN Gate!NoRow ELSE row)
      /\ UNCHANGED <<kind, now, told, repeats, sentOn, gateFaults, consulted, rose>>
  BY DEF Gate!Prune, TheScan
<1>2. GateTyped /\ repeats <= gateFaults /\ now \in Nat /\ consulted \in Nat /\ Gate!Today \in Nat /\ Gate!Day(consulted) \in Nat
      /\ KeepDays \in Nat
  BY ScanOne, DayFacts, AlertsAssumption DEF GateInv, GateTyped, Gate!Today
<1>3. PICK r : r = [TheScan EXCEPT !.at = "read"]
  OBVIOUS
<1>4. r \in ScanState /\ r.at = "read" /\ r.asked = TheScan.asked
  BY <1>2, <1>3, ScanOne DEF ScanState
<1>5. scan' = [scan EXCEPT !["scan"] = r]
  BY <1>3 DEF Gate!Prune, TheScan
<1>6. TheScan' = r /\ scan' \in [{"scan"} -> ScanState]
  BY <1>2, <1>4, <1>5, ScanSet
<1>7. GateTyped'
  BY <1>1, <1>2, <1>6 DEF GateTyped, Gate!Rows
<1>8. Gate!Today' = Gate!Today /\ Gate!Day(consulted)' = Gate!Day(consulted)
  BY <1>1 DEF Gate!Today, Gate!Day
<1>9. row # Gate!NoRow => row.day \in Nat
  BY <1>2, RowTyped
<1>10. row' = Gate!NoRow /\ row # Gate!NoRow => row.day < Gate!Today - KeepDays
  BY <1>1 DEF Gate!Outdated
<1>11. Dated' /\ DayIsKept'
  BY <1>1, <1>4, <1>6, <1>8 DEF GateInv, Dated, DayIsKept
<1>12. kind # "daily" /\ RowTells => RowTells'
  <2> SUFFICES ASSUME kind # "daily", RowTells PROVE RowTells'
    OBVIOUS
  <2>1. CASE row' = row
    BY <1>1, <1>8, <2>1 DEF RowTells
  <2>2. CASE row' # row
    <3>1. row # Gate!NoRow /\ row' = Gate!NoRow /\ row.day = Gate!Day(consulted)
      BY <1>1, <2>2 DEF GateInv, DayIsKept
    <3>2. Gate!Today - Gate!Day(consulted) > KeepDays
      BY <1>2, <1>10, <3>1
    <3> QED
      BY <1>8, <3>1, <3>2 DEF RowTells
  <2> QED
    BY <2>1, <2>2
<1>13. TellsOrLost' /\ LetThrough'
  BY <1>1, <1>4, <1>6, <1>12 DEF GateInv, TellsOrLost, LetThrough
<1>14. DayCounts'
  <2>1. StampedToday' = StampedToday
    BY <1>1, <1>2, <1>4, <1>6, <1>8, <1>9, <1>10 DEF StampedToday
  <2> QED
    BY <1>1, <1>8, <2>1 DEF GateInv, DayCounts, BeyondLimit
<1> QED
  BY <1>1, <1>2, <1>7, <1>11, <1>13, <1>14 DEF GateInv

LEMMA PruneIsRight == ASSUME GateInv, Gate!Prune("scan") PROVE Gate!PrunedRightly
<1> SUFFICES ASSUME row # Gate!NoRow, row' = Gate!NoRow, kind # "daily"
             PROVE  Gate!Today - Gate!Day(consulted) > KeepDays
  BY DEF Gate!PrunedRightly
<1>1. row.day < Gate!Today - KeepDays
  BY DEF Gate!Prune, Gate!Outdated
<1>2. row.day = Gate!Day(consulted)
  BY DEF GateInv, DayIsKept
<1>3. Gate!Today \in Nat /\ row.day \in Nat /\ KeepDays \in Nat
  BY RowTyped, ScanOne, DayFacts, AlertsAssumption DEF GateInv, Gate!Today
<1> QED
  BY <1>1, <1>2, <1>3

LEMMA GateNumbers ==
  ASSUME GateInv
  PROVE  /\ now \in Nat /\ consulted \in Nat /\ repeats \in Nat /\ gateFaults \in Nat /\ sentOn.day \in Nat /\ sentOn.count \in Nat
         /\ told.at \in Nat /\ told.price \in Nat /\ Gate!Today \in Nat /\ Gate!Day(consulted) \in Nat
         /\ PerDay \in Nat \ {0} /\ KeepDays \in Nat /\ Cooldown \in Nat /\ MaxTime \in Nat /\ BeyondLimit \in Nat
         /\ TheScan \in ScanState /\ TheScan.price \in Nat /\ TheScan.asked \in Nat
<1>1. /\ GateTyped /\ Prices \subseteq Nat /\ PerDay # 0
      /\ PerDay \in Nat /\ KeepDays \in Nat /\ Cooldown \in Nat /\ MaxTime \in Nat /\ MaxLost \in Nat
  BY AlertsAssumption DEF GateInv
<1>0. (\A n \in 0..MaxTime : n \in Nat) /\ \A p \in Prices \cup {0} : p \in Nat
  BY <1>1
<1>2. now \in Nat /\ consulted \in Nat /\ repeats \in Nat /\ gateFaults \in Nat /\ sentOn.day \in Nat /\ sentOn.count \in Nat
  BY <1>1 DEF GateTyped
<1>3. told.at \in Nat /\ told.price \in Nat
  <2>1. told.at \in 0..MaxTime /\ told.price \in Prices \cup {0}
    BY <1>1 DEF GateTyped, ToldState
  <2> QED
    BY <1>0, <2>1
<1>4. TheScan \in ScanState /\ TheScan.price \in Nat /\ TheScan.asked \in Nat
  <2>1. TheScan \in ScanState /\ TheScan.asked \in 0..MaxTime /\ TheScan.price \in Prices \cup {0}
    BY <1>1, ScanOne DEF ScanState
  <2> QED
    BY <1>0, <2>1
<1>5. Gate!Today \in Nat /\ Gate!Day(consulted) \in Nat
  BY <1>2, DayFacts DEF Gate!Today
<1> QED
  BY <1>1, <1>2, <1>3, <1>4, <1>5 DEF BeyondLimit

LEMMA ClockStep == ASSUME GateInv, Gate!Tick PROVE GateInv'
<1>1. /\ now < MaxTime /\ now' = now + 1
      /\ UNCHANGED <<kind, row, scan, told, repeats, sentOn, gateFaults, consulted, rose>>
  BY DEF Gate!Tick
<1>2. now \in Nat /\ now' \in Nat /\ now <= now' /\ MaxTime \in Nat
  BY <1>1, GateNumbers
<1>3. Gate!Today' = Gate!Day(now') /\ Gate!Today' \in Nat /\ Gate!Today <= Gate!Today' /\ Gate!Today \in Nat
  BY <1>2, DayFacts DEF Gate!Today, Gate!Day
<1>4. TheScan' = TheScan /\ Gate!Day(consulted)' = Gate!Day(consulted)
  BY <1>1 DEF TheScan, Gate!Day
<1>5. GateTyped'
  BY <1>1, <1>2 DEF GateInv, GateTyped, Gate!Rows
<1>6. row # Gate!NoRow => row.fired \in Nat /\ row.day \in Nat
  BY RowTyped DEF GateInv
<1>7. Dated'
  BY <1>1, <1>2, <1>3, <1>4, <1>6, GateNumbers DEF GateInv, Dated
<1>8. DayIsKept'
  BY <1>1, <1>4 DEF GateInv, DayIsKept
<1>9. RowTells => RowTells'
  BY <1>1, <1>3, <1>4, GateNumbers DEF RowTells
<1>10. TellsOrLost'
  BY <1>1, <1>4, <1>9 DEF GateInv, TellsOrLost
<1>11. LetThrough'
  <2>1. ASSUME Gate!DailyFires PROVE Gate!DailyFires'
    BY <1>1, <1>3, <1>6, <2>1 DEF GateInv, Dated, Gate!DailyFires
  <2>2. ASSUME kind # "daily", Gate!News("scan") PROVE Gate!News("scan")'
    BY <1>1, <1>3, <1>4, <2>2, GateNumbers DEF Gate!News, Gate!Worsened, Gate!Worse, Gate!Scale, Gate!Base
  <2> QED
    BY <1>1, <1>4, <2>1, <2>2 DEF GateInv, LetThrough
<1>12. DayCounts'
  <2>1. BeyondLimit' = BeyondLimit
    BY <1>1 DEF BeyondLimit
  <2>2. Gate!Today' = Gate!Today => StampedToday' = StampedToday
    BY <1>1, <1>4 DEF StampedToday
  <2>3. sentOn.day = Gate!Today' => Gate!Today' = Gate!Today
    BY <1>3, GateNumbers DEF GateInv, Dated
  <2> QED
    BY <1>1, <2>1, <2>2, <2>3 DEF GateInv, DayCounts
<1> QED
  BY <1>1, <1>5, <1>7, <1>8, <1>10, <1>11, <1>12 DEF GateInv

LEMMA FireStep == ASSUME GateInv, Gate!Fire("scan") PROVE GateInv'
<1>1. /\ TheScan.at = "ask" /\ Gate!Fires(TheScan.condition, TheScan.price)
      /\ UNCHANGED <<kind, now, row, told, repeats, sentOn, gateFaults, consulted, rose>>
  BY DEF Gate!Fire, TheScan
<1>2. PICK r : r = [TheScan EXCEPT !.at = "send", !.asked = now]
  OBVIOUS
<1>3. r \in ScanState /\ r.at = "send" /\ r.asked = now /\ r.condition = TheScan.condition /\ r.price = TheScan.price
  BY <1>2, ScanOne, GateNumbers DEF GateInv, GateTyped, ScanState
<1>4. scan' = [scan EXCEPT !["scan"] = r]
  <2>1. scan["scan"] \in ScanState
    BY DEF GateInv, GateTyped
  <2> QED
    BY <1>2, <2>1 DEF Gate!Fire, TheScan, ScanState
<1>5. TheScan' = r /\ scan' \in [{"scan"} -> ScanState] /\ scan'["scan"] = r
  BY <1>3, <1>4, ScanSet DEF GateInv, TheScan
<1>6. GateTyped'
  BY <1>1, <1>5 DEF GateInv, GateTyped, Gate!Rows
<1>7. Gate!Today' = Gate!Today /\ Gate!Day(consulted)' = Gate!Day(consulted)
  BY <1>1 DEF Gate!Today, Gate!Day
<1>8. Dated' /\ DayIsKept'
  BY <1>1, <1>3, <1>5, <1>7, GateNumbers DEF GateInv, Dated, DayIsKept
<1>9. RowTells => RowTells'
  BY <1>1, <1>7 DEF RowTells
<1>10. TellsOrLost'
  BY <1>1, <1>3, <1>5, <1>9 DEF GateInv, TellsOrLost
<1>11. LetThrough'
  <2>1. CASE kind = "daily"
    BY <1>1, <1>7, <2>1 DEF LetThrough, Gate!Fires, Gate!DailyFires
  <2>2. CASE kind # "daily" /\ ~RowTells
    BY <1>1, <2>2 DEF GateInv, TellsOrLost, LetThrough
  <2>3. CASE kind # "daily" /\ RowTells
    <3>1. TheScan.condition \in Conditions /\ TheScan.condition # "quiet"
      BY <1>1, AlertsAssumption DEF GateInv, Dated
    <3>2. CASE told.condition # TheScan.condition
      BY <1>1, <1>3, <1>5, <2>3, <3>2 DEF Gate!News, LetThrough
    <3>3. CASE Gate!Today - Gate!Day(consulted) > KeepDays
      BY <1>1, <1>5, <1>7, <2>3, <3>3 DEF Gate!News, LetThrough
    <3>4. CASE kind # "unpriced" /\ rose # "no"
      BY <1>1, <1>5, <2>3, <3>4 DEF Gate!News, LetThrough
    <3>5. CASE row # Gate!NoRow /\ Gate!Retriggers(TheScan.price)
      <4>1. kind # "unpriced" /\ now - row.fired >= Cooldown /\ Gate!Worsened(row.price, TheScan.price)
        BY <3>5 DEF Gate!Retriggers, Gate!NoComparison
      <4>2. row.price = told.price /\ told.at <= row.fired /\ row.fired \in Nat
        BY <2>3, <3>5, <4>1, RowTyped DEF RowTells, GateInv
      <4>3. r.asked - told.at >= Cooldown /\ Gate!Worsened(told.price, r.price)
        BY <1>3, <4>1, <4>2, GateNumbers
      <4>4. Gate!Worsened(told.price, r.price)' <=> Gate!Worsened(told.price, r.price)
        BY <1>1 DEF Gate!Worsened, Gate!Worse, Gate!Scale, Gate!Base
      <4>5. told' = told /\ kind' = kind
        BY <1>1
      <4> QED
        BY <1>5, <2>3, <4>1, <4>3, <4>5 DEF Gate!News, LetThrough, Gate!Worsened, Gate!Worse, Gate!Scale, Gate!Base
    <3> QED
      BY <1>1, <2>3, <3>1, <3>2, <3>3, <3>4, <3>5
         DEF RowTells, Gate!NoAlert, Gate!Quiet, Gate!Fires, Gate!FiresAnyway
  <2> QED
    BY <2>1, <2>2, <2>3
<1>12. DayCounts'
  BY <1>1, <1>3, <1>5, <1>7 DEF GateInv, DayCounts, StampedToday, BeyondLimit
<1> QED
  BY <1>1, <1>6, <1>8, <1>10, <1>11, <1>12 DEF GateInv

LEMMA SuppressStep == ASSUME GateInv, Gate!Suppress("scan") PROVE GateInv' /\ (row' = Gate!NoRow => row = Gate!NoRow)
<1>1. /\ TheScan.at = "ask" /\ ~Gate!Fires(TheScan.condition, TheScan.price)
      /\ row' = Gate!Kept(row, TheScan.condition, TheScan.price)
      /\ scan' = [scan EXCEPT !["scan"] = Gate!Idle] /\ consulted' = now
      /\ rose' = (IF Gate!Recovered(told.price, TheScan.price) THEN "answered" ELSE rose)
      /\ UNCHANGED <<kind, now, told, repeats, sentOn, gateFaults>>
  BY DEF Gate!Suppress, TheScan
<1>2. TheScan' = Gate!Idle /\ scan' \in [{"scan"} -> ScanState]
  BY <1>1, ScanSet, IdleFacts DEF GateInv
<1>3. Gate!Today' = Gate!Today /\ Gate!Day(consulted)' = Gate!Today
  BY <1>1 DEF Gate!Today, Gate!Day
<1>4. consulted' \in 0..MaxTime /\ rose' \in {"no", "seen", "answered"}
  BY <1>1 DEF GateInv, GateTyped
<1>5. CASE kind = "daily"
  <2>1. row' = row
    BY <1>1, <1>5 DEF Gate!Kept
  <2>2. GateTyped'
    BY <1>1, <1>2, <1>4, <2>1 DEF GateInv, GateTyped, Gate!Rows
  <2>3. Dated' /\ DayIsKept'
    BY <1>1, <1>2, <1>3, <1>5, <2>1, IdleFacts, GateNumbers DEF GateInv, Dated, DayIsKept
  <2>4. TellsOrLost' /\ LetThrough'
    BY <1>1, <1>2, <1>5, IdleFacts DEF TellsOrLost, LetThrough
  <2>5. DayCounts'
    BY <1>1, <1>2, <1>3, <2>1, IdleFacts DEF GateInv, DayCounts, StampedToday, BeyondLimit
  <2> QED
    BY <1>1, <2>1, <2>2, <2>3, <2>4, <2>5 DEF GateInv
<1>6. CASE kind # "daily"
  <2>1. row # Gate!NoRow /\ row.condition = TheScan.condition /\ ~row.armed /\ TheScan.condition # "quiet"
    BY <1>1, <1>6, AlertsAssumption DEF GateInv, Dated, Gate!Fires, Gate!FiresAnyway
  <2>2. PICK a \in BOOLEAN : a = Gate!Rearms(TheScan.price)
    BY DEF Gate!Rearms
  <2>3. row' = [row EXCEPT !.armed = a, !.day = Gate!Today]
    BY <1>1, <1>6, <2>2 DEF Gate!Kept
  <2>4. /\ row \in [condition : Conditions, price : Prices \cup {0}, fired : 0..MaxTime, armed : BOOLEAN,
                    day : 0..Gate!Day(MaxTime), count : 1..(PerDay + 1)]
        /\ row.fired \in Nat /\ row.count \in 1..(PerDay + 1)
    BY <2>1, RowTyped DEF GateInv
  <2>5. row' = [condition |-> row.condition, price |-> row.price, fired |-> row.fired, armed |-> a, day |-> Gate!Today,
                count |-> row.count]
    BY <2>3, <2>4
  <2>6. Gate!Today \in 0..Gate!Day(MaxTime)
    BY DayFacts, AlertsAssumption DEF GateInv, GateTyped, Gate!Today
  <2>7. row' \in Gate!Rows /\ row' # Gate!NoRow
    BY <2>2, <2>4, <2>5, <2>6, NewRow
  <2>8. row'.condition = row.condition /\ row'.price = row.price /\ row'.fired = row.fired /\ row'.armed = a
        /\ row'.day = Gate!Today /\ row'.count = row.count
    BY <2>5
  <2>9. GateTyped'
    BY <1>1, <1>2, <1>4, <2>7 DEF GateInv, GateTyped, Gate!Rows
  <2>10. Dated' /\ DayIsKept'
    BY <1>1, <1>2, <1>3, <2>1, <2>7, <2>8, IdleFacts, GateNumbers DEF GateInv, Dated, DayIsKept
  <2>11. RowTells => RowTells'
    <3> SUFFICES ASSUME RowTells PROVE RowTells'
      OBVIOUS
    <3>1. told.condition = row.condition /\ told.at <= row.fired
      BY <2>1 DEF RowTells
    <3>2. CASE kind = "unpriced"
      BY <1>1, <2>1, <2>2, <2>7, <2>8, <3>1, <3>2 DEF RowTells, Gate!Rearms, Gate!NoComparison
    <3>3. CASE kind # "unpriced"
      <4>1. row.price = told.price /\ (rose = "answered" => row.armed)
        BY <2>1, <3>3 DEF RowTells
      <4>2. row.price # 0
        BY <2>1, <3>1, <4>1, AlertsAssumption DEF GateInv, Dated
      <4>3. a <=> Gate!Recovered(told.price, TheScan.price)
        BY <2>2, <3>3, <4>1, <4>2 DEF Gate!Rearms, Gate!NoComparison
      <4>4. (a => rose' # "no") /\ (rose' = "answered" => a)
        BY <1>1, <2>1, <4>1, <4>3
      <4> QED
        BY <1>1, <2>7, <2>8, <3>1, <3>3, <4>1, <4>4 DEF RowTells
    <3> QED
      BY <3>2, <3>3
  <2>12. TellsOrLost' /\ LetThrough'
    BY <1>1, <1>2, <1>6, <2>11, IdleFacts DEF GateInv, TellsOrLost, LetThrough
  <2> QED
    BY <1>1, <1>6, <2>1, <2>7, <2>9, <2>10, <2>12 DEF GateInv, DayCounts
<1> QED
  BY <1>5, <1>6

LEMMA SendGrows ==
  ASSUME GateInv, Gate!Send("scan")
  PROVE  /\ repeats' \in Nat /\ repeats' <= gateFaults
         /\ repeats' = IF Gate!News("scan") THEN repeats ELSE repeats + 1
<1>1. TheScan.at = "send" /\ repeats' = IF Gate!News("scan") THEN repeats ELSE repeats + 1
  BY DEF Gate!Send, TheScan
<1>2. repeats <= gateFaults
  BY DEF GateInv
<1>3. CASE Gate!News("scan")
  BY <1>1, <1>2, <1>3, GateNumbers
<1>4. CASE kind # "daily" /\ ~Gate!News("scan")
  <2>1. repeats < gateFaults
    BY <1>1, <1>4 DEF GateInv, LetThrough
  <2> QED
    BY <1>1, <1>4, <2>1, GateNumbers
<1>5. CASE kind = "daily" /\ ~Gate!News("scan")
  <2>1. sentOn.day = Gate!Today /\ sentOn.count >= PerDay
    BY <1>5, GateNumbers DEF Gate!News
  <2>2. Gate!DailyFires
    BY <1>1, <1>5 DEF GateInv, LetThrough
  <2>3. StampedToday \in Nat /\ StampedToday < PerDay
    BY <1>1, <2>2, RowTyped, GateNumbers DEF GateInv, StampedToday, Gate!DailyFires
  <2>4. repeats + sentOn.count - StampedToday <= gateFaults + (sentOn.count - PerDay)
    BY <1>5, <2>1, GateNumbers DEF GateInv, DayCounts, BeyondLimit
  <2>5. \A i, m, s, g, d \in Nat : s < d /\ i + m - s <= g + (m - d) => i + 1 <= g
    OBVIOUS
  <2>6. repeats + 1 <= gateFaults
    BY <2>3, <2>4, <2>5, GateNumbers
  <2> QED
    BY <1>1, <1>5, <2>6, GateNumbers
<1> QED
  BY <1>3, <1>4, <1>5

LEMMA SendStep == ASSUME GateInv, Gate!Send("scan") PROVE GateInv'
<1>1. /\ TheScan.at = "send" /\ rose' = "no"
      /\ told' = [condition |-> TheScan.condition, price |-> TheScan.price, at |-> now]
      /\ sentOn' = (IF kind # "daily" THEN sentOn
                    ELSE IF sentOn.day = Gate!Today THEN [sentOn EXCEPT !.count = sentOn.count + 1] ELSE [day |-> Gate!Today, count |-> 1])
      /\ UNCHANGED <<kind, now, row, gateFaults, consulted>>
  BY DEF Gate!Send, TheScan
<1>2. PICK r : r = [TheScan EXCEPT !.at = "stamp"]
  OBVIOUS
<1>3. r \in ScanState /\ r.at = "stamp" /\ r.asked = TheScan.asked /\ r.condition = TheScan.condition /\ r.price = TheScan.price
  BY <1>2, GateNumbers DEF ScanState
<1>4. scan' = [scan EXCEPT !["scan"] = r]
  BY <1>2 DEF Gate!Send, TheScan
<1>5. TheScan' = r /\ scan' \in [{"scan"} -> ScanState]
  BY <1>3, <1>4, ScanSet DEF GateInv
<1>6. repeats' \in Nat /\ repeats' <= gateFaults /\ repeats' = IF Gate!News("scan") THEN repeats ELSE repeats + 1
  BY SendGrows
<1>7. told' \in ToldState /\ told'.condition = TheScan.condition /\ told'.price = TheScan.price /\ told'.at = now
      /\ TheScan.condition \in Conditions /\ TheScan.price \in Prices
  BY <1>1 DEF GateInv, GateTyped, Dated, ToldState
<1>8. /\ sentOn' \in [day : Nat, count : Nat]
      /\ kind # "daily" => sentOn' = sentOn
      /\ kind = "daily" => /\ sentOn'.day = Gate!Today
                           /\ sentOn'.count = IF sentOn.day = Gate!Today THEN sentOn.count + 1 ELSE 1
  <2>1. sentOn \in [day : Nat, count : Nat]
    BY DEF GateInv, GateTyped
  <2> QED
    BY <1>1, <2>1, GateNumbers
<1>9. GateTyped'
  BY <1>1, <1>5, <1>6, <1>7, <1>8 DEF GateInv, GateTyped, Gate!Rows
<1>10. Gate!Today' = Gate!Today /\ Gate!Day(consulted)' = Gate!Day(consulted)
  BY <1>1 DEF Gate!Today, Gate!Day
<1>11. Dated'
  BY <1>1, <1>3, <1>5, <1>7, <1>8, <1>10, GateNumbers DEF GateInv, Dated
<1>12. DayIsKept'
  BY <1>1, <1>10 DEF GateInv, DayIsKept
<1>13. TellsOrLost'
  BY <1>1, <1>3, <1>5, <1>7 DEF TellsOrLost
<1>14. LetThrough'
  BY <1>1, <1>3, <1>5, <1>10 DEF GateInv, LetThrough, Gate!DailyFires
<1>15. DayCounts'
  <2> SUFFICES ASSUME kind = "daily" PROVE DayCounts'
    BY <1>1 DEF DayCounts
  <2>1. Gate!DailyFires
    BY <1>1 DEF GateInv, LetThrough
  <2>2. StampedToday \in Nat /\ StampedToday < PerDay /\ StampedToday' = StampedToday + 1
    BY <1>1, <1>3, <1>5, <1>10, <2>1, RowTyped, GateNumbers DEF GateInv, StampedToday, Gate!DailyFires
  <2>3. sentOn'.count \in Nat /\ repeats <= gateFaults /\ gateFaults' = gateFaults /\ BeyondLimit' \in Nat
    BY <1>1, <1>8, GateNumbers DEF GateInv, BeyondLimit
  <2>4. CASE sentOn.day = Gate!Today
    <3>1. /\ sentOn.count - StampedToday <= gateFaults
          /\ repeats + sentOn.count - StampedToday <= gateFaults + BeyondLimit
      BY <2>4 DEF GateInv, DayCounts
    <3>2. sentOn'.count = sentOn.count + 1
      BY <1>8, <2>4
    <3>3. repeats' - repeats <= BeyondLimit' - BeyondLimit
      <4>1. sentOn.count < PerDay => Gate!News("scan")
        BY DEF Gate!News
      <4>2. BeyondLimit' = IF sentOn.count >= PerDay THEN BeyondLimit + 1 ELSE BeyondLimit
        BY <3>2, GateNumbers DEF BeyondLimit
      <4> QED
        BY <1>6, <4>1, <4>2, GateNumbers
    <3>4. \A i, j, m, s, g, b, c, d \in Nat : s < d /\ m - s <= g /\ i + m - s <= g + b /\ j - i <= c - b =>
            m + 1 <= d + g /\ (m + 1) - (s + 1) <= g /\ j + (m + 1) - (s + 1) <= g + c
      OBVIOUS
    <3>5. /\ sentOn'.count <= PerDay + gateFaults' /\ sentOn'.count - StampedToday' <= gateFaults'
          /\ repeats' + sentOn'.count - StampedToday' <= gateFaults' + BeyondLimit'
      BY <1>6, <2>2, <2>3, <3>1, <3>2, <3>3, <3>4, GateNumbers
    <3> QED
      BY <1>1, <3>5 DEF GateInv, DayCounts
  <2>5. CASE sentOn.day # Gate!Today
    <3>1. sentOn'.count = 1 /\ repeats' = repeats
      BY <1>6, <1>8, <2>5 DEF Gate!News
    <3>2. \A i, s, g, b \in Nat : i <= g => 1 - (s + 1) <= g /\ i + 1 - (s + 1) <= g + b
      OBVIOUS
    <3>3. /\ sentOn'.count <= PerDay + gateFaults' /\ sentOn'.count - StampedToday' <= gateFaults'
          /\ repeats' + sentOn'.count - StampedToday' <= gateFaults' + BeyondLimit'
      BY <2>2, <2>3, <3>1, <3>2, GateNumbers
    <3> QED
      BY <1>1, <3>3 DEF GateInv, DayCounts
  <2> QED
    BY <2>4, <2>5
<1> QED
  BY <1>1, <1>6, <1>9, <1>11, <1>12, <1>13, <1>14, <1>15 DEF GateInv

LEMMA StampStep == ASSUME GateInv, Gate!Stamp("scan") PROVE GateInv' /\ row' # Gate!NoRow
<1>1. /\ TheScan.at = "stamp" /\ row' = Gate!Stamped(TheScan.condition, TheScan.price)
      /\ scan' = [scan EXCEPT !["scan"] = Gate!Idle] /\ consulted' = now
      /\ UNCHANGED <<kind, now, told, repeats, sentOn, gateFaults, rose>>
  BY DEF Gate!Stamp, TheScan
<1>2. TheScan' = Gate!Idle /\ scan' \in [{"scan"} -> ScanState]
  BY <1>1, ScanSet, IdleFacts DEF GateInv
<1>3. Gate!Today' = Gate!Today /\ Gate!Day(consulted)' = Gate!Today
  BY <1>1 DEF Gate!Today, Gate!Day
<1>4. consulted' \in 0..MaxTime
  BY <1>1 DEF GateInv, GateTyped
<1>5. PICK n \in 1..(PerDay + 1) : n = Gate!NextCount
  BY RowTyped, GateNumbers DEF GateInv, Gate!NextCount
<1>6. PICK p \in Prices \cup {0} : p = IF kind = "unpriced" THEN 0 ELSE TheScan.price
  BY <1>1 DEF GateInv, Dated
<1>7. row' = [condition |-> TheScan.condition, price |-> p, fired |-> now, armed |-> FALSE, day |-> Gate!Today, count |-> n]
  BY <1>1, <1>5, <1>6 DEF Gate!Stamped
<1>8. Gate!Today \in 0..Gate!Day(MaxTime) /\ now \in 0..MaxTime /\ TheScan.condition \in Conditions
  BY <1>1, DayFacts, AlertsAssumption DEF GateInv, GateTyped, Gate!Today, Dated
<1>9. row' \in Gate!Rows /\ row' # Gate!NoRow
  BY <1>7, <1>8, NewRow
<1>10. row'.condition = TheScan.condition /\ row'.price = p /\ row'.fired = now /\ row'.armed = FALSE
       /\ row'.day = Gate!Today /\ row'.count = n
  BY <1>7
<1>11. GateTyped'
  BY <1>1, <1>2, <1>4, <1>9 DEF GateInv, GateTyped, Gate!Rows
<1>12. Dated' /\ DayIsKept'
  BY <1>1, <1>2, <1>3, <1>9, <1>10, IdleFacts, GateNumbers DEF GateInv, Dated, DayIsKept
<1>13. RowTells'
  BY <1>1, <1>6, <1>9, <1>10 DEF GateInv, Dated, TellsOrLost, RowTells
<1>14. TellsOrLost' /\ LetThrough'
  BY <1>1, <1>2, <1>13, IdleFacts DEF TellsOrLost, LetThrough
<1>15. DayCounts'
  <2> SUFFICES ASSUME kind = "daily" PROVE DayCounts'
    BY <1>1 DEF DayCounts
  <2>1. Gate!DailyFires /\ (row # Gate!NoRow => row.count <= PerDay)
    BY <1>1 DEF GateInv, LetThrough, DayCounts
  <2>2. n <= PerDay /\ StampedToday' = StampedToday
    BY <1>1, <1>2, <1>3, <1>5, <1>9, <1>10, <2>1, RowTyped, IdleFacts, GateNumbers
       DEF GateInv, Gate!NextCount, Gate!DailyFires, StampedToday
  <2>3. BeyondLimit' = BeyondLimit
    BY <1>1 DEF BeyondLimit
  <2> QED
    BY <1>1, <1>3, <1>10, <2>2, <2>3 DEF GateInv, DayCounts
<1> QED
  BY <1>1, <1>9, <1>11, <1>12, <1>14, <1>15 DEF GateInv

-----------------------------------------------------------------------------
LEMMA GateNext == ASSUME GateInv, Gate!Next PROVE GateInv'
  BY ScanFails, ClockStep, PruneStep, ReadStep, FireStep, SuppressStep, SendStep, StampStep DEF Gate!Next, Gate!ScanStep

LEMMA GateStutters == ASSUME GateInv, UNCHANGED gateVars PROVE GateInv'
  BY DEF gateVars, GateInv, GateTyped, Dated, DayIsKept, TellsOrLost, RowTells, LetThrough, DayCounts, StampedToday, BeyondLimit,
         TheScan, Gate!Rows, Gate!Today, Gate!Day, Gate!News, Gate!DailyFires, Gate!Worsened, Gate!Worse, Gate!Scale, Gate!Base

LEMMA GateIsRight == ASSUME GateInv, Gate!Next PROVE Gate!PrunedRightly
<1>1. CASE Gate!Prune("scan")
  BY <1>1, PruneIsRight
<1>2. CASE Gate!Suppress("scan") \/ Gate!Stamp("scan")
  BY <1>2, SuppressStep, StampStep DEF Gate!PrunedRightly
<1>3. CASE row' = row
  BY <1>3 DEF Gate!PrunedRightly
<1> QED
  BY <1>1, <1>2, <1>3 DEF Gate!Next, Gate!ScanStep, Gate!Crash, Gate!Tick, Gate!Read, Gate!Fire, Gate!AskFails, Gate!Send, Gate!StampFails

\* A price that has worsened has not recovered: both are measured from the same price, the other way round.
LEMMA NotBoth ==
  ASSUME NEW f \in Prices, NEW p \in Prices, Gate!Worsened(f, p) PROVE ~Gate!Recovered(f, p)
<1>1. PICK b \in Nat \ {0} : b = Gate!Base(f)
  BY AlertsAssumption DEF Gate!Base
<1>2. PICK w \in Int : w = Gate!Worse(f, p)
  BY AlertsAssumption DEF Gate!Worse, Gate!Scale
<1>3. w >= Retrigger * b /\ Retrigger \in Nat \ {0} /\ Rearm \in Nat \ {0}
  BY <1>1, <1>2, AlertsAssumption DEF Gate!Worsened
<1>4. \A i, j \in Nat \ {0} : i * j > 0 /\ i * j \in Nat
  OBVIOUS
<1>5. w > 0 /\ Rearm * b > 0 /\ Rearm * b \in Nat
  BY <1>1, <1>2, <1>3, <1>4
<1> QED
  BY <1>1, <1>2, <1>5 DEF Gate!Recovered, Gate!Better

\* Without a lost stamp the row tells what was told last, and who is kept silent asks about that.
LEMMA SilencedKnow ==
  ASSUME GateInv, Gate!Silenced("scan"), kind \notin {"daily", "unpriced"}, gateFaults = 0
  PROVE  /\ RowTells /\ row # Gate!NoRow /\ row.condition = TheScan.condition /\ ~row.armed
         /\ told.condition = row.condition /\ row.price = told.price /\ told.price \in Prices /\ TheScan.price \in Prices
         /\ ~Gate!Retriggers(TheScan.price)
<1>1. TheScan.at = "ask" /\ ~Gate!Fires(TheScan.condition, TheScan.price)
  BY DEF Gate!Silenced, TheScan
<1>2. row # Gate!NoRow /\ row.condition = TheScan.condition /\ ~row.armed /\ ~Gate!Retriggers(TheScan.price)
  BY <1>1 DEF Gate!Fires, Gate!FiresAnyway
<1>3. RowTells
  BY <1>1, GateNumbers DEF GateInv, TellsOrLost
<1>4. TheScan.condition # "quiet" /\ TheScan.price \in Prices
  BY <1>1, AlertsAssumption DEF GateInv, Dated
<1> QED
  BY <1>2, <1>3, <1>4 DEF RowTells, GateInv, Dated

LEMMA GateShows == ASSUME GateInv PROVE Gate!TypeOK /\ Gate!AlertsAreNews /\ Gate!DailyLimit /\ Gate!SilenceIsOldNews
                                        /\ Gate!RecoveryRearms
<1>1. Gate!TypeOK
  BY ScanOne DEF GateInv, GateTyped, Gate!TypeOK, Gate!Quiet, ScanState, ToldState, TheScan
<1>2. Gate!AlertsAreNews /\ Gate!DailyLimit
  BY DEF GateInv, DayCounts, Gate!AlertsAreNews, Gate!DailyLimit
<1>3. Gate!SilenceIsOldNews
  <2> SUFFICES ASSUME Gate!Silenced("scan"), kind \notin {"daily", "unpriced"}, gateFaults = 0
               PROVE  /\ told.condition = TheScan.condition
                      /\ ~(now - row.fired >= Cooldown /\ Gate!Worsened(told.price, TheScan.price))
    BY DEF Gate!SilenceIsOldNews, TheScan
  <2>1. row.price \in Prices /\ row.price # 0 /\ TheScan.price \in Prices /\ ~Gate!Retriggers(TheScan.price)
    BY SilencedKnow, AlertsAssumption
  <2>2. Gate!Worsened(row.price, TheScan.price) => ~Gate!Recovered(row.price, TheScan.price)
    BY <2>1, NotBoth
  <2> QED
    BY <2>1, <2>2, SilencedKnow DEF Gate!Retriggers, Gate!NoComparison
<1>4. Gate!RecoveryRearms
  <2> SUFFICES ASSUME Gate!Silenced("scan"), kind \notin {"daily", "unpriced"}, gateFaults = 0 PROVE rose # "answered"
    BY DEF Gate!RecoveryRearms
  <2> QED
    BY SilencedKnow DEF RowTells
<1> QED
  BY <1>1, <1>2, <1>3, <1>4

\* AlertGate, for any conditions, prices, percentages, limits, days and failures, and one scan
\* at a time: an alert is sent again without news only as often as a stamp was lost, at most
\* PerDay times a day and once more for each lost stamp; as long as none is lost, silence hides
\* neither another condition nor a deterioration after the cooldown, and a recovery the gate saw
\* lets the next alert out; a row is pruned only when nobody asked about it for KeepDays days.
THEOREM AlertsAreNewsHolds == KeptSpec => AlertsAreNews
<1> DEFINE Inv0 == focus = "gate" => GateInv
<1>1. KeptInit => Inv0
  BY GateStart DEF KeptInit, Gate!Init
<1>2. Inv0 /\ [KeptNext]_keptVars => Inv0'
  <2> SUFFICES ASSUME Inv0, [KeptNext]_keptVars, focus' = "gate" PROVE GateInv'
    OBVIOUS
  <2>1. focus = "gate" /\ GateInv
    BY DEF KeptNext, keptVars
  <2>2. Gate!Next \/ UNCHANGED gateVars
    BY <2>1 DEF KeptNext, keptVars
  <2> QED
    BY <2>1, <2>2, GateNext, GateStutters
<1>3. Inv0 => GateHolds
  BY GateShows DEF GateHolds
<1>4. Inv0 /\ [KeptNext]_keptVars => [focus = "gate" => Gate!PrunedRightly]_gateVars
  <2> SUFFICES ASSUME Inv0, [KeptNext]_keptVars, focus = "gate", gateVars' # gateVars PROVE Gate!PrunedRightly
    OBVIOUS
  <2>1. GateInv /\ Gate!Next
    BY DEF KeptNext, keptVars
  <2> QED
    BY <2>1, GateIsRight
<1> HIDE DEF Inv0
<1> QED
  BY <1>1, <1>2, <1>3, <1>4, PTL DEF KeptSpec, AlertsAreNews

-----------------------------------------------------------------------------
\* A property of 0 that goes on from n to n + 1 holds up to m.
LEMMA CountUp ==
  ASSUME NEW m \in Nat, NEW T, 0 \in T, \A n \in 0..(m - 1) : n \in T => n + 1 \in T
  PROVE  \A n \in 0..m : n \in T
<1> SUFFICES ASSUME (0..m) \ T # {} PROVE FALSE
  OBVIOUS
<1>1. PICK n \in (0..m) \ T : \A k \in (0..m) \ T : n <= k
  <2>1. (0..m) \ T \subseteq Nat
    OBVIOUS
  <2> QED
    BY <2>1, LeastNumber
<1>2. n # 0 /\ n - 1 \in 0..(m - 1) /\ (n - 1) + 1 = n
  BY <1>1
<1>3. n - 1 \in T
  BY <1>1, <1>2
<1> QED
  BY <1>1, <1>2, <1>3

\* A loop over n steps has one run, whatever the steps do.
LEMMA Recursion ==
  ASSUME NEW S, NEW b \in S, NEW m \in Nat, NEW g \in [1..m -> [S -> S]]
  PROVE  \E f \in [0..m -> S] : f[0] = b /\ \A n \in 1..m : f[n] = g[n][f[n - 1]]
<1> DEFINE Does(n, f) == f \in [0..n -> S] /\ f[0] = b /\ \A k \in 1..n : f[k] = g[k][f[k - 1]]
           T == {n \in 0..m : \E f : Does(n, f)}
<1>1. 0 \in T
  <2>1. Does(0, [k \in 0..0 |-> b])
    OBVIOUS
  <2> HIDE DEF Does
  <2> QED
    BY <2>1
<1>2. \A n \in 0..(m - 1) : n \in T => n + 1 \in T
  <2> SUFFICES ASSUME NEW n \in 0..(m - 1), NEW f, Does(n, f) PROVE n + 1 \in T
    OBVIOUS
  <2> DEFINE h == [k \in 0..(n + 1) |-> IF k = n + 1 THEN g[n + 1][f[n]] ELSE f[k]]
  <2>1. n + 1 \in 1..m /\ n \in 0..n /\ n + 1 \in 0..m
    OBVIOUS
  <2>2. h \in [0..(n + 1) -> S]
    BY <2>1
  <2>3. \A k \in 1..(n + 1) : h[k] = g[k][h[k - 1]]
    <3> TAKE k \in 1..(n + 1)
    <3>1. CASE k = n + 1
      <4>1. h[k] = g[n + 1][f[n]] /\ k - 1 = n /\ n \in 0..(n + 1) /\ n # n + 1
        BY <3>1
      <4>2. h[n] = f[n]
        BY <4>1
      <4> QED
        BY <4>1, <4>2, <3>1
    <3>2. CASE k # n + 1
      <4>1. k \in 1..n /\ k \in 0..(n + 1) /\ k - 1 \in 0..(n + 1) /\ k - 1 # n + 1
        BY <3>2
      <4>2. h[k] = f[k] /\ h[k - 1] = f[k - 1]
        BY <4>1, <3>2
      <4> QED
        BY <4>1, <4>2
    <3> QED
      BY <3>1, <3>2
  <2>4. h[0] = b
    OBVIOUS
  <2>5. Does(n + 1, h)
    BY <2>2, <2>3, <2>4
  <2> HIDE DEF Does, h
  <2> QED
    BY <2>1, <2>5
<1>3. \A n \in 0..m : n \in T
  <2> HIDE DEF T
  <2> QED
    BY <1>1, <1>2, CountUp
<1>4. m \in T
  BY <1>3
<1> QED
  BY <1>4

-----------------------------------------------------------------------------
\* The function that Those defines by recursion has the values its equations ask for.
OnePass(u, q, S, m) ==
  /\ u \in [0..m -> Seq(Messages)] /\ u[0] = <<>>
  /\ \A n \in 1..m : u[n] = IF q[n] \in S THEN Append(u[n - 1], q[n]) ELSE u[n - 1]
LEMMA ThoseLoop ==
  ASSUME NEW q \in Seq(Messages), NEW S, NEW m \in Nat, m = Len(q)
  PROVE  \E u : OnePass(u, q, S, m) /\ Talk!Those(q, S) = u[m]
<1> DEFINE g == [n \in 1..m |-> [x \in Seq(Messages) |-> IF q[n] \in S THEN Append(x, q[n]) ELSE x]]
           After(f) == [n \in 0..m |-> IF n = 0 THEN <<>> ELSE IF q[n] \in S THEN Append(f[n - 1], q[n]) ELSE f[n - 1]]
           u == CHOOSE f : f = After(f)
<1>1. \A n \in 1..m : q[n] \in Messages /\ n - 1 \in 0..m /\ n \in 0..m /\ n # 0
  OBVIOUS
<1>2. g \in [1..m -> [Seq(Messages) -> Seq(Messages)]]
  <2>1. \A n \in 1..m : \A x \in Seq(Messages) : Append(x, q[n]) \in Seq(Messages)
    BY <1>1, AppendProperties
  <2> QED
    BY <2>1
<1>3. \E f \in [0..m -> Seq(Messages)] : f[0] = <<>> /\ \A n \in 1..m : f[n] = g[n][f[n - 1]]
  <2>1. PICK B, z, h : B = Seq(Messages) /\ z = <<>> /\ h = g
    OBVIOUS
  <2>2. h \in [1..m -> [B -> B]]
    BY <1>2, <2>1
  <2>3. z \in B
    BY <2>1, EmptySeq
  <2> HIDE DEF g
  <2>4. \E f \in [0..m -> B] : f[0] = z /\ \A n \in 1..m : f[n] = h[n][f[n - 1]]
    BY ONLY <2>2, <2>3, Recursion, m \in Nat, SMTT(60)
  <2> QED
    BY <2>1, <2>4
<1>4. PICK f \in [0..m -> Seq(Messages)] :
        f[0] = <<>> /\ \A n \in 1..m : f[n] = IF q[n] \in S THEN Append(f[n - 1], q[n]) ELSE f[n - 1]
  <2>1. PICK f \in [0..m -> Seq(Messages)] : f[0] = <<>> /\ \A n \in 1..m : f[n] = g[n][f[n - 1]]
    BY <1>3
  <2>2. \A n \in 1..m : f[n - 1] \in Seq(Messages)
    BY <1>1
  <2>3. \A n \in 1..m : g[n][f[n - 1]] = IF q[n] \in S THEN Append(f[n - 1], q[n]) ELSE f[n - 1]
    BY <2>2
  <2> HIDE DEF g
  <2> QED
    BY <2>1, <2>3
<1>5. f = After(f)
  <2>1. \A n \in 0..m : f[n] = After(f)[n]
    <3>1. \A n \in 0..m : n = 0 \/ n \in 1..m
      OBVIOUS
    <3> QED
      BY <1>4, <3>1
  <2>2. f = [n \in 0..m |-> f[n]] /\ After(f) = [n \in 0..m |-> After(f)[n]]
    OBVIOUS
  <2> HIDE DEF After
  <2> QED
    BY <2>1, <2>2
<1>6. u = After(u)
  <2> HIDE DEF After
  <2> QED
    BY <1>5
<1>7. Talk!Those(q, S) = u[m]
  BY Zenon DEF Talk!Those
<1> HIDE DEF u
<1>8. u[0] = <<>> /\ \A n \in 1..m : u[n] = IF q[n] \in S THEN Append(u[n - 1], q[n]) ELSE u[n - 1]
  <2>1. \A n \in 0..m : u[n] = After(u)[n]
    BY <1>6
  <2>2. After(u)[0] = <<>>
    OBVIOUS
  <2>3. \A n \in 1..m : After(u)[n] = IF q[n] \in S THEN Append(u[n - 1], q[n]) ELSE u[n - 1]
    BY <1>1
  <2>4. 0 \in 0..m
    OBVIOUS
  <2> HIDE DEF After
  <2> QED
    BY <1>1, <2>1, <2>2, <2>3, <2>4
<1>9. \A n \in 0..m : u[n] \in Seq(Messages)
  <2> DEFINE T == {n \in 0..m : u[n] \in Seq(Messages)}
  <2>1. 0 \in T
    <3>1. <<>> \in Seq(Messages) /\ 0 \in 0..m
      BY EmptySeq
    <3> QED
      BY <1>8, <3>1
  <2>2. \A n \in 0..(m - 1) : n \in T => n + 1 \in T
    <3> SUFFICES ASSUME NEW n \in 0..(m - 1), u[n] \in Seq(Messages) PROVE n + 1 \in 0..m /\ u[n + 1] \in Seq(Messages)
      OBVIOUS
    <3>1. n + 1 \in 1..m /\ (n + 1) - 1 = n
      OBVIOUS
    <3>2. Append(u[n], q[n + 1]) \in Seq(Messages)
      BY <1>1, <3>1, AppendProperties
    <3> QED
      BY <1>1, <1>8, <3>1, <3>2
  <2>3. \A n \in 0..m : n \in T
    <3> HIDE DEF T
    <3> QED
      BY <2>1, <2>2, CountUp
  <2> QED
    BY <2>3
<1>10. u \in [0..m -> Seq(Messages)]
  <2>1. \E k : u = [n \in 0..m |-> k[n]]
    <3>1. u = [n \in 0..m |-> After(u)[n]]
      BY <1>6
    <3> HIDE DEF After
    <3> QED
      BY <3>1
  <2> QED
    BY <1>9, <2>1
<1> QED
  BY <1>7, <1>8, <1>10 DEF OnePass

LEMMA NoneAtFirst == Talk!Members(<<>>) = {} /\ Talk!Once(<<>>) /\ <<>> \in Seq(Messages) /\ Len(<<>>) = 0
BY EmptySeq DEF Talk!Members, Talk!Once

LEMMA OneMore ==
  ASSUME NEW q \in Seq(Messages), NEW m \in Messages
  PROVE  /\ Append(q, m) \in Seq(Messages) /\ Talk!Members(Append(q, m)) = Talk!Members(q) \cup {m}
         /\ Talk!Once(q) /\ m \notin Talk!Members(q) => Talk!Once(Append(q, m))
<1>1. PICK k \in Nat : k = Len(q)
  OBVIOUS
<1>2. PICK p \in Seq(Messages) : p = Append(q, m)
  BY AppendProperties
<1>3. Len(p) = k + 1 /\ p[k + 1] = m /\ \A i \in 1..k : p[i] = q[i]
  BY <1>1, <1>2
<1>4. Talk!Members(p) = Talk!Members(q) \cup {m}
  <2>1. \A x : x \in Talk!Members(p) <=> \E i \in 1..(k + 1) : x = p[i]
    BY <1>3 DEF Talk!Members
  <2>2. \A x : x \in Talk!Members(q) <=> \E i \in 1..k : x = q[i]
    BY <1>1 DEF Talk!Members
  <2>3. \A i : i \in 1..(k + 1) <=> i \in 1..k \/ i = k + 1
    OBVIOUS
  <2> QED
    BY <1>3, <2>1, <2>2, <2>3
<1>5. ASSUME Talk!Once(q), m \notin Talk!Members(q) PROVE Talk!Once(p)
  <2>1. \A i \in 1..k : q[i] # m
    BY <1>1, <1>5 DEF Talk!Members
  <2>2. \A i, j \in 1..k : q[i] = q[j] => i = j
    BY <1>1, <1>5 DEF Talk!Once
  <2> SUFFICES ASSUME NEW i \in 1..(k + 1), NEW j \in 1..(k + 1), p[i] = p[j] PROVE i = j
    BY <1>3 DEF Talk!Once
  <2>3. CASE i \in 1..k /\ j \in 1..k
    BY <1>3, <2>2, <2>3
  <2>4. CASE i \in 1..k /\ j = k + 1
    BY <1>3, <2>1, <2>4
  <2>5. CASE i = k + 1 /\ j \in 1..k
    BY <1>3, <2>1, <2>5
  <2>6. i \in 1..k \/ i = k + 1
    OBVIOUS
  <2>7. j \in 1..k \/ j = k + 1
    OBVIOUS
  <2> QED
    BY <2>3, <2>4, <2>5, <2>6, <2>7
<1> QED
  BY <1>2, <1>4, <1>5

LEMMA ThoseOnly ==
  ASSUME NEW q \in Seq(Messages), NEW S
  PROVE  /\ Talk!Those(q, S) \in Seq(Messages) /\ Talk!Members(Talk!Those(q, S)) = Talk!Members(q) \cap S
         /\ Talk!Once(q) => Talk!Once(Talk!Those(q, S))
<1>1. PICK m \in Nat : m = Len(q)
  OBVIOUS
<1>2. PICK u : OnePass(u, q, S, m) /\ Talk!Those(q, S) = u[m]
  BY <1>1, ThoseLoop
<1> DEFINE Before(n) == {q[i] : i \in 1..n} \cap S
           Good(n) == Talk!Members(u[n]) = Before(n) /\ (Talk!Once(q) => Talk!Once(u[n]))
           T == {n \in 0..m : Good(n)}
<1>3. 0 \in T
  BY <1>2, NoneAtFirst DEF OnePass
<1>4. ASSUME NEW n \in 0..(m - 1), Good(n) PROVE Good(n + 1)
  <2>1. n + 1 \in 1..m /\ (n + 1) - 1 = n /\ n \in 0..m
    OBVIOUS
  <2>2. u[n] \in Seq(Messages) /\ q[n + 1] \in Messages
    BY <1>1, <1>2, <2>1 DEF OnePass
  <2>3. {q[i] : i \in 1..(n + 1)} = {q[i] : i \in 1..n} \cup {q[n + 1]}
    <3>1. \A i : i \in 1..(n + 1) <=> i \in 1..n \/ i = n + 1
      OBVIOUS
    <3> QED
      BY <3>1
  <2>4. CASE q[n + 1] \in S
    <3>1. u[n + 1] = Append(u[n], q[n + 1])
      BY <1>2, <2>1, <2>4 DEF OnePass
    <3>2. Talk!Members(u[n + 1]) = Talk!Members(u[n]) \cup {q[n + 1]}
      BY <2>2, <3>1, OneMore
    <3>3. ASSUME Talk!Once(q) PROVE Talk!Once(u[n + 1])
      <4>1. q[n + 1] \notin {q[i] : i \in 1..n}
        <5>1. \A i \in 1..n : i \in 1..Len(q) /\ n + 1 \in 1..Len(q) /\ i # n + 1
          BY <1>1, <2>1
        <5> QED
          BY <3>3, <5>1 DEF Talk!Once
      <4>2. q[n + 1] \notin Talk!Members(u[n]) /\ Talk!Once(u[n])
        BY <1>4, <3>3, <4>1
      <4> QED
        BY <2>2, <3>1, <4>2, OneMore
    <3> QED
      BY <1>4, <2>3, <2>4, <3>2, <3>3
  <2>5. CASE q[n + 1] \notin S
    <3>1. u[n + 1] = u[n]
      BY <1>2, <2>1, <2>5 DEF OnePass
    <3> QED
      BY <1>4, <2>3, <2>5, <3>1
  <2> QED
    BY <2>4, <2>5
<1>5. \A n \in 0..m : n \in T
  <2>1. \A n \in 0..(m - 1) : n \in T => n + 1 \in T
    <3> HIDE DEF Good
    <3> QED
      BY <1>4
  <2> HIDE DEF T
  <2> QED
    BY <1>3, <2>1, CountUp
<1>6. Good(m)
  <2>1. m \in 0..m
    OBVIOUS
  <2> HIDE DEF Good
  <2>2. m \in {n \in 0..m : Good(n)}
    BY <1>5, <2>1
  <2> QED
    BY <2>2
<1>7. Before(m) = Talk!Members(q) \cap S
  BY <1>1 DEF Talk!Members
<1>8. u[m] \in Seq(Messages)
  BY <1>2, m \in 0..m DEF OnePass
<1> HIDE DEF Before
<1> QED
  BY <1>2, <1>6, <1>7, <1>8

LEMMA FirstAndRest ==
  ASSUME NEW q \in Seq(Messages), q # <<>>
  PROVE  /\ Head(q) \in Messages /\ Head(q) \in Talk!Members(q) /\ Tail(q) \in Seq(Messages)
         /\ Len(Tail(q)) = Len(q) - 1 /\ Len(q) \in Nat \ {0} /\ Talk!Members(q) = Talk!Members(Tail(q)) \cup {Head(q)}
         /\ Talk!Once(q) => Talk!Once(Tail(q)) /\ Head(q) \notin Talk!Members(Tail(q))
         /\ Len(q) = 1 => Tail(q) = <<>>
<1>1. Len(q) \in Nat \ {0}
  BY EmptySeq
<1>2. PICK k \in Nat : Len(q) = k + 1
  BY <1>1, Len(q) - 1 \in Nat
<1>3. PICK p \in Seq(Messages) : p = Tail(q)
  BY HeadTailProperties
<1>4. Len(p) = k /\ (\A i \in 1..k : p[i] = q[i + 1]) /\ Head(q) = q[1]
  BY <1>2, <1>3, HeadTailProperties
<1>5. 1 \in 1..Len(q) /\ \A i \in 1..k : i + 1 \in 1..Len(q)
  BY <1>2
<1>6. q[1] \in Messages
  BY <1>5
<1>7. Talk!Members(q) = Talk!Members(p) \cup {q[1]}
  <2>1. \A i : i \in 1..Len(q) <=> i = 1 \/ \E j \in 1..k : i = j + 1
    <3>1. ASSUME NEW i \in 1..Len(q), i # 1 PROVE \E j \in 1..k : i = j + 1
      <4>1. i - 1 \in 1..k /\ i = (i - 1) + 1
        BY <1>2, <3>1
      <4> QED
        BY <4>1
    <3> QED
      BY <1>5, <3>1
  <2>2. \A x : x \in Talk!Members(q) <=> \E i \in 1..Len(q) : x = q[i]
    BY DEF Talk!Members
  <2>3. \A x : x \in Talk!Members(p) <=> \E j \in 1..k : x = q[j + 1]
    BY <1>4 DEF Talk!Members
  <2>4. ASSUME NEW x \in Talk!Members(q) PROVE x \in Talk!Members(p) \cup {q[1]}
    <3>1. PICK i \in 1..Len(q) : x = q[i]
      BY <2>2
    <3> QED
      BY <2>1, <2>3, <3>1
  <2>5. ASSUME NEW x \in Talk!Members(p) \cup {q[1]} PROVE x \in Talk!Members(q)
    BY <1>5, <2>2, <2>3
  <2> QED
    BY <2>4, <2>5
<1>8. ASSUME Talk!Once(q) PROVE Talk!Once(p) /\ q[1] \notin Talk!Members(p)
  <2>1. ASSUME NEW i \in 1..k, NEW j \in 1..k, p[i] = p[j] PROVE i = j
    <3>1. i + 1 = j + 1
      BY <1>4, <1>5, <1>8, <2>1 DEF Talk!Once
    <3> QED
      BY <3>1
  <2>2. ASSUME NEW i \in 1..k, p[i] = q[1] PROVE FALSE
    <3>1. i + 1 = 1
      BY <1>4, <1>5, <1>8, <2>2 DEF Talk!Once
    <3> QED
      BY <3>1
  <2> QED
    BY <1>4, <2>1, <2>2 DEF Talk!Once, Talk!Members
<1>9. Len(q) = 1 => p = <<>>
  BY <1>2, <1>4, EmptySeq
<1>10. q[1] \in Talk!Members(q)
  BY <1>7
<1> QED
  BY <1>1, <1>2, <1>3, <1>4, <1>6, <1>7, <1>8, <1>9, <1>10

LEMMA Together ==
  ASSUME NEW p \in Seq(Messages), NEW q \in Seq(Messages)
  PROVE  /\ p \o q \in Seq(Messages) /\ Talk!Members(p \o q) = Talk!Members(p) \cup Talk!Members(q)
         /\ Talk!Once(p) /\ Talk!Once(q) /\ Talk!Apart(p, q) => Talk!Once(p \o q)
<1>1. PICK k \in Nat, l \in Nat : k = Len(p) /\ l = Len(q)
  OBVIOUS
<1>2. PICK r \in Seq(Messages) : r = p \o q
  BY ConcatProperties
<1>3. Len(r) = k + l /\ (\A i \in 1..k : r[i] = p[i]) /\ \A j \in 1..l : r[k + j] = q[j]
  <2>1. Len(r) = k + l /\ \A i \in 1..(k + l) : r[i] = IF i <= k THEN p[i] ELSE q[i - k]
    BY <1>1, <1>2, ConcatProperties
  <2>2. \A i \in 1..k : i \in 1..(k + l) /\ i <= k
    OBVIOUS
  <2>3. \A j \in 1..l : k + j \in 1..(k + l) /\ ~(k + j <= k) /\ (k + j) - k = j
    OBVIOUS
  <2> QED
    BY <2>1, <2>2, <2>3
<1>4. \A i : i \in 1..(k + l) <=> i \in 1..k \/ \E j \in 1..l : i = k + j
  <2>1. ASSUME NEW i \in 1..(k + l), i \notin 1..k PROVE \E j \in 1..l : i = k + j
    <3>1. i - k \in 1..l /\ i = k + (i - k)
      BY <2>1
    <3> QED
      BY <3>1
  <2>2. ASSUME NEW i, i \in 1..k \/ \E j \in 1..l : i = k + j PROVE i \in 1..(k + l)
    BY <2>2
  <2> QED
    BY <2>1, <2>2
<1>5. Talk!Members(r) = Talk!Members(p) \cup Talk!Members(q)
  <2>1. \A x : x \in Talk!Members(r) <=> \E i \in 1..(k + l) : x = r[i]
    BY <1>3 DEF Talk!Members
  <2>2. \A x : x \in Talk!Members(p) <=> \E i \in 1..k : x = p[i]
    BY <1>1 DEF Talk!Members
  <2>3. \A x : x \in Talk!Members(q) <=> \E j \in 1..l : x = q[j]
    BY <1>1 DEF Talk!Members
  <2>4. ASSUME NEW x \in Talk!Members(r) PROVE x \in Talk!Members(p) \cup Talk!Members(q)
    <3>1. PICK i \in 1..(k + l) : x = r[i]
      BY <2>1
    <3>2. CASE i \in 1..k
      BY <1>3, <2>2, <3>1, <3>2
    <3>3. ASSUME NEW j \in 1..l, i = k + j PROVE x \in Talk!Members(q)
      BY <1>3, <2>3, <3>1, <3>3
    <3> QED
      BY <1>4, <3>2, <3>3
  <2>5. ASSUME NEW x \in Talk!Members(p) \cup Talk!Members(q) PROVE x \in Talk!Members(r)
    <3>1. ASSUME NEW i \in 1..k, x = p[i] PROVE x \in Talk!Members(r)
      <4>1. i \in 1..(k + l) /\ x = r[i]
        BY <1>3, <1>4, <3>1
      <4> QED
        BY <2>1, <4>1
    <3>2. ASSUME NEW j \in 1..l, x = q[j] PROVE x \in Talk!Members(r)
      <4>1. k + j \in 1..(k + l) /\ x = r[k + j]
        BY <1>3, <1>4, <3>2
      <4> QED
        BY <2>1, <4>1
    <3> QED
      BY <2>2, <2>3, <3>1, <3>2
  <2> QED
    BY <2>4, <2>5
<1>6. ASSUME Talk!Once(p), Talk!Once(q), Talk!Apart(p, q) PROVE Talk!Once(r)
  <2>1. \A i, j \in 1..k : p[i] = p[j] => i = j
    BY <1>1, <1>6 DEF Talk!Once
  <2>2. \A i, j \in 1..l : q[i] = q[j] => i = j
    BY <1>1, <1>6 DEF Talk!Once
  <2>3. \A i \in 1..k : \A j \in 1..l : p[i] # q[j]
    BY <1>1, <1>6 DEF Talk!Apart, Talk!Members
  <2> SUFFICES ASSUME NEW i \in 1..(k + l), NEW j \in 1..(k + l), r[i] = r[j] PROVE i = j
    BY <1>3 DEF Talk!Once
  <2>4. CASE i \in 1..k /\ j \in 1..k
    BY <1>3, <2>1, <2>4
  <2>5. ASSUME i \in 1..k, NEW b \in 1..l, j = k + b PROVE i = j
    BY <1>3, <2>3, <2>5
  <2>6. ASSUME NEW a \in 1..l, i = k + a, j \in 1..k PROVE i = j
    BY <1>3, <2>3, <2>6
  <2>7. ASSUME NEW a \in 1..l, NEW b \in 1..l, i = k + a, j = k + b PROVE i = j
    BY <1>3, <2>2, <2>7
  <2> QED
    BY <1>4, <2>4, <2>5, <2>6, <2>7
<1> QED
  BY <1>2, <1>5, <1>6

-----------------------------------------------------------------------------
Where == {"idle", "send", "warn", "queue", "look", "take", "resend", "rewarn", "requeue"}

TalkTypes ==
  /\ pending \in Seq(Messages) /\ open \subseteq Messages
  /\ retries \in [Messages -> 0..MaxRetries]
  /\ age \in [Messages -> 0..(MaxAge + 1)] /\ idle \in [Messages -> 0..MinInterval]
  /\ sinceWarn \in 0..WarnCooldown /\ crashes \in Nat
  /\ talkAt \in [Callers -> Where] /\ hand \in [Callers -> Seq(Messages)]
  /\ attempts \in [Messages -> Nat] /\ failures \in [Callers -> Nat]

\* What a thread at place a has in hand: h, whose messages were tried A and queued again
\* R times and rest for I, after f failed calls.
Fit(a, h, f, A, R, I) ==
  /\ f <= 2
  /\ a \in {"idle", "look", "take"} => h = <<>>
  /\ a \in {"send", "warn", "queue"} => Len(h) = 1
  /\ a \in {"resend", "rewarn", "requeue"} => h # <<>>
  /\ a = "send" => f = 0 /\ A[Head(h)] = 0
  /\ a \in {"warn", "queue"} => f <= 1 /\ A[Head(h)] = 1
  /\ a \in {"look", "take", "resend"} => f <= 1
  /\ a = "resend" => \A m \in Talk!Members(h) : A[m] = R[m] + 1 /\ I[m] >= MinInterval
  /\ a \in {"rewarn", "requeue"} =>
       A[Head(h)] = R[Head(h)] + 2 /\ \A m \in Talk!Members(Tail(h)) : A[m] = R[m] + 1

Counts ==
  /\ \A m \in Messages : attempts[m] <= MaxRetries + 1
  /\ \A m \in open : retries[m] < MaxRetries
  /\ \A m \in Talk!Members(pending) : attempts[m] = retries[m] + 1

Fits == \A t \in Callers : Fit(talkAt[t], hand[t], failures[t], attempts, retries, idle)

TalkInv == TalkTypes /\ Talk!NothingLost /\ Counts /\ Fits

LEMMA FitKept ==
  ASSUME NEW a, NEW h \in Seq(Messages), NEW f,
         NEW A, NEW R, NEW I \in [Messages -> Nat], NEW B, NEW Q, NEW J \in [Messages -> Nat],
         Fit(a, h, f, A, R, I),
         \A m \in Talk!Members(h) : B[m] = A[m] /\ Q[m] = R[m] /\ J[m] >= I[m]
  PROVE  Fit(a, h, f, B, Q, J)
<1>0. MinInterval \in Nat
  BY TalkAssumption
<1>1. h # <<>> => Head(h) \in Talk!Members(h) /\ Talk!Members(Tail(h)) \subseteq Talk!Members(h)
  BY FirstAndRest
<1>2. Len(h) = 1 => h # <<>>
  <2>1. ASSUME h = <<>> PROVE Len(h) = 0
    BY Zenon, <2>1, NoneAtFirst
  <2> QED
    BY <2>1
<1>3. \A m \in Talk!Members(h) : m \in Messages
  BY DEF Talk!Members
<1>4. \A m \in Talk!Members(h) : I[m] >= MinInterval => J[m] >= MinInterval
  BY <1>0, <1>3
<1> QED
  BY <1>1, <1>2, <1>4 DEF Fit

\* One thread takes from the queue, puts into it or drops what it holds: every open
\* message is still in one place.
LEMMA Moved ==
  ASSUME Talk!NothingLost, TalkTypes, NEW t \in Callers, NEW p \in Seq(Messages), NEW h \in Seq(Messages),
         pending' = p, hand' = [hand EXCEPT ![t] = h],
         Talk!Once(p), Talk!Once(h), Talk!Apart(h, p),
         Talk!Members(p) \cup Talk!Members(h) \subseteq Talk!Members(pending) \cup Talk!Members(hand[t]) \cup (Messages \ open),
         open' = (open \ (Talk!Members(pending) \cup Talk!Members(hand[t]))) \cup Talk!Members(p) \cup Talk!Members(h)
  PROVE  Talk!NothingLost'
<1>1. hand'[t] = h /\ \A u \in Callers : u # t => hand'[u] = hand[u]
  BY DEF TalkTypes
<1>2. \A u \in Callers : Talk!Members(hand[u]) \subseteq open /\ Talk!Members(pending) \subseteq open
  BY DEF Talk!NothingLost
<1>3. ASSUME NEW u \in Callers, u # t
      PROVE  Talk!Apart(hand[u], p) /\ Talk!Apart(hand[u], h) /\ Talk!Apart(h, hand[u]) /\ Talk!Once(hand[u])
             /\ Talk!Members(hand[u]) \cap (Talk!Members(pending) \cup Talk!Members(hand[t])) = {}
  <2>1. Talk!Members(hand[u]) \cap (Talk!Members(pending) \cup Talk!Members(hand[t])) = {}
    BY <1>3 DEF Talk!NothingLost, Talk!Apart
  <2> QED
    BY <1>2, <2>1 DEF Talk!NothingLost, Talk!Apart
<1>4. open' = Talk!Members(pending') \cup UNION {Talk!Members(hand'[u]) : u \in Callers}
  <2>1. ASSUME NEW m \in open', m \notin Talk!Members(p) PROVE \E u \in Callers : m \in Talk!Members(hand'[u])
    <3>1. CASE m \in Talk!Members(h)
      BY <1>1, <3>1
    <3>2. CASE m \notin Talk!Members(h)
      <4>1. m \in open /\ m \notin Talk!Members(pending) /\ m \notin Talk!Members(hand[t])
        BY <2>1, <3>2
      <4>2. PICK u \in Callers : m \in Talk!Members(hand[u])
        BY <4>1 DEF Talk!NothingLost
      <4> QED
        BY <1>1, <4>1, <4>2
    <3> QED
      BY <3>1, <3>2
  <2>2. ASSUME NEW u \in Callers, NEW m \in Talk!Members(hand'[u]) PROVE m \in open'
    <3>1. CASE u = t
      BY <1>1, <2>2, <3>1
    <3>2. CASE u # t
      BY <1>1, <1>2, <1>3, <2>2, <3>2
    <3> QED
      BY <3>1, <3>2
  <2>3. Talk!Members(p) \subseteq open'
    OBVIOUS
  <2> QED
    BY <2>1, <2>2, <2>3
<1>5. \A u \in Callers : Talk!Once(hand'[u]) /\ Talk!Apart(hand'[u], pending')
  <2> TAKE u \in Callers
  <2>1. CASE u = t
    BY <1>1, <2>1
  <2>2. CASE u # t
    BY <1>1, <1>3, <2>2
  <2> QED
    BY <2>1, <2>2
<1>6. \A u, v \in Callers : u # v => Talk!Apart(hand'[u], hand'[v])
  <2> SUFFICES ASSUME NEW u \in Callers, NEW v \in Callers, u # v PROVE Talk!Apart(hand'[u], hand'[v])
    OBVIOUS
  <2>1. CASE u = t
    BY <1>1, <1>3, <2>1
  <2>2. CASE v = t
    BY <1>1, <1>3, <2>2
  <2>3. CASE u # t /\ v # t
    BY <1>1, <2>3 DEF Talk!NothingLost
  <2> QED
    BY <2>1, <2>2, <2>3
<1> QED
  BY <1>4, <1>5, <1>6 DEF Talk!NothingLost

LEMMA EmptyHand ==
  ASSUME NEW a \in {"idle", "look", "take"}, NEW h, h = <<>>, NEW f \in Nat, NEW A, NEW R, NEW I,
         f <= 1 \/ (a = "idle" /\ f <= 2)
  PROVE  Fit(a, h, f, A, R, I)
BY DEF Fit

LEMMA TalkStart == Talk!Init => TalkInv
<1> SUFFICES ASSUME Talk!Init PROVE TalkInv
  OBVIOUS
<1>1. TalkTypes
  BY TalkAssumption, EmptySeq DEF Talk!Init, TalkTypes, Where
<1>2. Talk!NothingLost
  <2>1. \A t \in Callers : hand[t] = <<>>
    BY DEF Talk!Init
  <2>2. pending = <<>> /\ open = {}
    BY DEF Talk!Init
  <2> QED
    BY <2>1, <2>2, NoneAtFirst DEF Talk!NothingLost, Talk!Apart
<1>3. Counts
  BY TalkAssumption, NoneAtFirst DEF Talk!Init, Counts
<1>4. Fits
  <2>1. \A t \in Callers : talkAt[t] = "idle" /\ failures[t] = 0 /\ hand[t] = <<>>
    BY DEF Talk!Init
  <2>2. ASSUME NEW t \in Callers PROVE Fit(talkAt[t], hand[t], failures[t], attempts, retries, idle)
    <3>1. talkAt[t] \in {"idle", "look", "take"} /\ failures[t] \in Nat /\ failures[t] <= 1
      BY <2>1
    <3> QED
      BY Zenon, <2>1, <3>1, EmptyHand
  <2> QED
    BY <2>2 DEF Fits
<1> QED
  BY <1>1, <1>2, <1>3, <1>4 DEF TalkInv

LEMMA TalkGives ==
  ASSUME TalkInv PROVE Talk!TypeOK /\ Talk!NothingLost /\ Talk!RetriesBounded /\ Talk!OneBlockingCall
<1>1. Talk!TypeOK
  BY DEF TalkInv, TalkTypes, Talk!TypeOK
<1>2. Talk!RetriesBounded
  BY DEF TalkInv, Counts, Talk!RetriesBounded
<1>3. Talk!OneBlockingCall
  BY DEF TalkInv, Fits, Fit, Talk!OneBlockingCall
<1> QED
  BY <1>1, <1>2, <1>3 DEF TalkInv

LEMMA OneAlone ==
  ASSUME NEW m \in Messages
  PROVE  <<m>> \in Seq(Messages) /\ Talk!Members(<<m>>) = {m} /\ Talk!Once(<<m>>) /\ Head(<<m>>) = m /\ Len(<<m>>) = 1
<1>1. Len(<<m>>) = 1 /\ <<m>>[1] = m /\ Head(<<m>>) = m /\ <<m>> \in Seq(Messages)
  OBVIOUS
<1>2. \A i : i \in 1..1 <=> i = 1
  OBVIOUS
<1>3. Talk!Members(<<m>>) = {m}
  BY <1>1, <1>2 DEF Talk!Members
<1>4. Talk!Once(<<m>>)
  BY <1>1, <1>2 DEF Talk!Once
<1> QED
  BY <1>1, <1>3, <1>4

\* A step of t changes the counts of messages that it has in hand or has just raised.
LEMMA FitsAfter ==
  ASSUME TalkInv, TalkTypes', NEW t \in Callers, NEW M, M \subseteq Talk!Members(hand[t]) \cup (Messages \ open),
         \A u \in Callers : u # t => talkAt'[u] = talkAt[u] /\ hand'[u] = hand[u] /\ failures'[u] = failures[u],
         \A m \in Messages : m \notin M =>
           attempts'[m] = attempts[m] /\ retries'[m] = retries[m] /\ idle'[m] >= idle[m],
         Fit(talkAt'[t], hand'[t], failures'[t], attempts', retries', idle')
  PROVE  Fits'
<1>1. SUFFICES ASSUME NEW u \in Callers, u # t PROVE Fit(talkAt'[u], hand'[u], failures'[u], attempts', retries', idle')
  BY DEF Fits
<1>2. Fit(talkAt[u], hand[u], failures[u], attempts, retries, idle)
  BY DEF TalkInv, Fits
<1>3. hand[u] \in Seq(Messages) /\ idle \in [Messages -> Nat] /\ idle' \in [Messages -> Nat]
  BY TalkAssumption DEF TalkInv, TalkTypes
<1>4. ASSUME NEW m \in Talk!Members(hand[u])
      PROVE  attempts'[m] = attempts[m] /\ retries'[m] = retries[m] /\ idle'[m] >= idle[m]
  <2>1. m \in open /\ m \notin Talk!Members(hand[t])
    BY <1>1 DEF TalkInv, Talk!NothingLost, Talk!Apart
  <2> QED
    BY <2>1 DEF TalkInv, TalkTypes
<1>5. Fit(talkAt[u], hand[u], failures[u], attempts', retries', idle')
  BY <1>2, <1>3, <1>4, FitKept
<1> QED
  BY <1>1, <1>5

LEMMA NotifyStep == ASSUME TalkInv, NEW t \in Callers, NEW m \in Messages, Talk!Notify(t, m) PROVE TalkInv'
<1> USE DEF Talk!Notify
<1>0. m \notin open
  OBVIOUS
<1>1. TalkTypes'
  <2>1. <<m>> \in Seq(Messages)
    OBVIOUS
  <2>2. hand' \in [Callers -> Seq(Messages)]
    BY <2>1 DEF TalkInv, TalkTypes
  <2>3. talkAt' \in [Callers -> Where] /\ failures' \in [Callers -> Nat]
    BY DEF TalkInv, TalkTypes, Where
  <2>4. /\ retries' \in [Messages -> 0..MaxRetries] /\ attempts' \in [Messages -> Nat]
        /\ age' \in [Messages -> 0..(MaxAge + 1)] /\ idle' \in [Messages -> 0..MinInterval]
    BY TalkAssumption DEF TalkInv, TalkTypes
  <2> QED
    BY <2>2, <2>3, <2>4 DEF TalkInv, TalkTypes
<1>2. hand[t] = <<>>
  BY DEF TalkInv, Fits, Fit
<1>3. PICK h \in Seq(Messages) : h = <<m>> /\ Talk!Members(h) = {m} /\ Talk!Once(h) /\ Head(h) = m /\ Len(h) = 1
  BY OneAlone
<1>4. hand' = [hand EXCEPT ![t] = h] /\ hand'[t] = h /\ attempts'[m] = 0
  BY <1>3 DEF TalkInv, TalkTypes
<1>5. Talk!Members(pending) \subseteq open /\ Talk!Members(hand[t]) = {}
  BY <1>2, NoneAtFirst DEF TalkInv, Talk!NothingLost
<1>6. Talk!NothingLost'
  <2>1. pending \in Seq(Messages) /\ pending' = pending /\ open' = open \cup {m}
    BY DEF TalkInv, TalkTypes
  <2>2. Talk!Once(pending) /\ Talk!Apart(h, pending)
    BY <1>0, <1>3, <1>5 DEF TalkInv, Talk!NothingLost, Talk!Apart
  <2>3. Talk!Members(pending) \cup Talk!Members(h) \subseteq Talk!Members(pending) \cup Talk!Members(hand[t]) \cup (Messages \ open)
    BY <1>0, <1>3
  <2>4. open' = (open \ (Talk!Members(pending) \cup Talk!Members(hand[t]))) \cup Talk!Members(pending) \cup Talk!Members(h)
    BY <1>3, <1>5, <2>1
  <2> QED
    BY <1>3, <1>4, <2>1, <2>2, <2>3, <2>4, Moved DEF TalkInv
<1>7. Counts'
  <2>1. \A x \in Talk!Members(pending) : x # m
    BY <1>0, <1>5
  <2>2. \A x \in Messages : x # m => attempts'[x] = attempts[x] /\ retries'[x] = retries[x]
    BY DEF TalkInv, TalkTypes
  <2>3. retries'[m] = 0 /\ attempts'[m] = 0 /\ pending' = pending /\ open' = open \cup {m}
    BY DEF TalkInv, TalkTypes
  <2>4. MaxRetries \in Nat /\ 0 < MaxRetries
    BY TalkAssumption
  <2>5. \A x \in open : x \in Messages
    BY DEF TalkInv, TalkTypes
  <2>6. \A x \in Talk!Members(pending) : x \in Messages
    BY <1>5, <2>5
  <2>7. \A x \in Messages : attempts'[x] <= MaxRetries + 1
    BY <2>2, <2>3, <2>4 DEF TalkInv, Counts
  <2>8. \A x \in open' : retries'[x] < MaxRetries
    BY <2>2, <2>3, <2>4, <2>5 DEF TalkInv, Counts
  <2>9. \A x \in Talk!Members(pending') : attempts'[x] = retries'[x] + 1
    BY <2>1, <2>2, <2>3, <2>6 DEF TalkInv, Counts
  <2> QED
    BY <2>7, <2>8, <2>9 DEF Counts
<1>8. Fits'
  <2>1. talkAt'[t] = "send" /\ failures'[t] = 0
    BY DEF TalkInv, TalkTypes
  <2>2. h # <<>>
    BY <1>3, NoneAtFirst
  <2>3. Fit(talkAt'[t], h, failures'[t], attempts', retries', idle')
    BY <1>3, <1>4, <2>1, <2>2 DEF Fit
  <2>4. \A u \in Callers : u # t => talkAt'[u] = talkAt[u] /\ hand'[u] = hand[u] /\ failures'[u] = failures[u]
    BY DEF TalkInv, TalkTypes
  <2>5. \A x \in Messages : x \notin {m} => attempts'[x] = attempts[x] /\ retries'[x] = retries[x] /\ idle'[x] >= idle[x]
    BY TalkAssumption DEF TalkInv, TalkTypes
  <2>6. {m} \subseteq Talk!Members(hand[t]) \cup (Messages \ open)
    BY <1>0
  <2>7. PICK M : M = {m}
    OBVIOUS
  <2>8. Fit(talkAt'[t], hand'[t], failures'[t], attempts', retries', idle')
    BY <1>4, <2>3
  <2> QED
    BY <1>1, <2>4, <2>5, <2>6, <2>7, <2>8, FitsAfter
<1> QED
  BY <1>1, <1>6, <1>7, <1>8 DEF TalkInv

\* A message is with one thread, or in the queue.
LEMMA InHand ==
  ASSUME TalkInv, NEW t \in Callers, NEW h, h = hand[t]
  PROVE  /\ h \in Seq(Messages) /\ Talk!Once(h) /\ Talk!Apart(h, pending) /\ Talk!Members(h) \subseteq open /\ open \subseteq Messages
         /\ pending \in Seq(Messages) /\ Talk!Once(pending) /\ Talk!Members(pending) \subseteq open
         /\ Fit(talkAt[t], h, failures[t], attempts, retries, idle)
BY DEF TalkInv, TalkTypes, Talk!NothingLost, Fits

\* The thread that calls Talk holds a message that was not tried as often as it may be.
LEMMA Calls ==
  ASSUME TalkInv, NEW t \in Callers, talkAt[t] \in {"send", "resend"}, NEW h, h = hand[t], NEW m, m = Head(h)
  PROVE  /\ h # <<>> /\ m \in Talk!Members(h) /\ m \in Messages /\ m \in open /\ m \notin Talk!Members(pending)
         /\ attempts[m] <= MaxRetries /\ failures[t] <= 1
         /\ attempts[m] > 0 => idle[m] >= MinInterval
         /\ talkAt[t] = "send" => attempts[m] = 0 /\ failures[t] = 0 /\ Len(h) = 1
         /\ talkAt[t] = "resend" => attempts[m] = retries[m] + 1
<1>1. /\ h \in Seq(Messages) /\ Talk!Apart(h, pending) /\ Talk!Members(h) \subseteq open
      /\ Fit(talkAt[t], h, failures[t], attempts, retries, idle)
  BY InHand
<1>2. h # <<>>
  <2>1. ASSUME Len(h) = 1, h = <<>> PROVE FALSE
    <3>1. Len(h) = 0
      BY Zenon, <2>1, NoneAtFirst
    <3> QED
      BY <2>1, <3>1
  <2> QED
    BY <1>1, <2>1 DEF Fit
<1>3. m \in Talk!Members(h) /\ m \in Messages
  BY <1>1, <1>2, FirstAndRest
<1>4. m \in open /\ m \notin Talk!Members(pending)
  BY <1>1, <1>3 DEF Talk!Apart
<1>5. retries[m] \in Nat /\ attempts[m] \in Nat /\ retries[m] < MaxRetries /\ MaxRetries \in Nat /\ failures[t] \in Nat
  BY <1>3, <1>4, TalkAssumption DEF TalkInv, TalkTypes, Counts
<1>6. CASE talkAt[t] = "send"
  <2>1. attempts[m] = 0 /\ failures[t] = 0 /\ Len(h) = 1
    BY <1>1, <1>6 DEF Fit
  <2> QED
    BY <1>2, <1>3, <1>4, <1>5, <1>6, <2>1
<1>7. CASE talkAt[t] = "resend"
  <2>1. attempts[m] = retries[m] + 1 /\ idle[m] >= MinInterval /\ failures[t] <= 1
    BY <1>1, <1>3, <1>7 DEF Fit
  <2> QED
    BY <1>2, <1>3, <1>4, <1>5, <1>7, <2>1
<1> QED
  BY <1>6, <1>7

\* One more attempt at a message in hand keeps the counts of all others.
LEMMA Tried ==
  ASSUME TalkInv, NEW t \in Callers, talkAt[t] \in {"send", "resend"}, NEW m, m = Head(hand[t]),
         attempts' = [attempts EXCEPT ![m] = @ + 1], retries' = retries, pending' = pending, open' \subseteq open
  PROVE  Counts' /\ attempts' \in [Messages -> Nat] /\ attempts'[m] = attempts[m] + 1
         /\ \A x \in Messages : x # m => attempts'[x] = attempts[x]
<1>1. PICK h : h = hand[t]
  OBVIOUS
<1>2. m \in Messages /\ m \notin Talk!Members(pending) /\ attempts[m] <= MaxRetries
  BY <1>1, Calls
<1>3. attempts'[m] = attempts[m] + 1 /\ \A x \in Messages : x # m => attempts'[x] = attempts[x]
  BY <1>2 DEF TalkInv, TalkTypes
<1>4. attempts' \in [Messages -> Nat]
  BY <1>2 DEF TalkInv, TalkTypes
<1>5. \A x \in Messages : attempts'[x] <= MaxRetries + 1
  <2>1. \A x \in Messages : attempts[x] <= MaxRetries + 1 /\ attempts[x] \in Nat
    BY DEF TalkInv, TalkTypes, Counts
  <2>2. MaxRetries \in Nat
    BY TalkAssumption
  <2>3. attempts'[m] <= MaxRetries + 1
    BY <1>2, <1>3, <2>1, <2>2
  <2> QED
    BY <1>3, <2>1, <2>3
<1>6. \A x \in Talk!Members(pending') : attempts'[x] = retries'[x] + 1
  BY <1>2, <1>3, InHand, <1>1 DEF TalkInv, Counts
<1>7. \A x \in open' : retries'[x] < MaxRetries
  BY DEF TalkInv, Counts
<1> QED
  BY <1>3, <1>4, <1>5, <1>6, <1>7 DEF Counts

LEMMA FailedStep == ASSUME TalkInv, NEW t \in Callers, Talk!Failed(t) PROVE TalkInv'
<1> USE DEF Talk!Failed
<1>1. PICK h, m : h = hand[t] /\ m = Head(h)
  OBVIOUS
<1>2. talkAt[t] \in {"send", "resend"}
  OBVIOUS
<1>3. h \in Seq(Messages) /\ Talk!Once(h) /\ Fit(talkAt[t], h, failures[t], attempts, retries, idle)
  BY <1>1, InHand
<1>4. /\ h # <<>> /\ m \in Talk!Members(h) /\ m \in Messages
      /\ talkAt[t] = "send" => attempts[m] = 0 /\ failures[t] = 0 /\ Len(h) = 1
      /\ talkAt[t] = "resend" => attempts[m] = retries[m] + 1
      /\ failures[t] <= 1
  BY <1>1, <1>2, Calls
<1>5. /\ Counts' /\ attempts' \in [Messages -> Nat] /\ attempts'[m] = attempts[m] + 1
      /\ \A x \in Messages : x # m => attempts'[x] = attempts[x]
  BY <1>1, <1>2, Tried
<1>6. failures' \in [Callers -> Nat] /\ failures'[t] = failures[t] + 1 /\ failures'[t] <= 2
  BY <1>4 DEF TalkInv, TalkTypes
<1>7. talkAt' \in [Callers -> Where] /\ talkAt'[t] = IF talkAt[t] = "send" THEN "warn" ELSE "rewarn"
  BY DEF TalkInv, TalkTypes, Where
<1>8. TalkTypes'
  BY <1>5, <1>6, <1>7 DEF TalkInv, TalkTypes
<1>9. Talk!NothingLost'
  BY DEF TalkInv, Talk!NothingLost
<1>10. Fit(talkAt'[t], h, failures'[t], attempts', retries', idle')
  <2>1. CASE talkAt[t] = "send"
    <3>1. talkAt'[t] = "warn" /\ Len(h) = 1 /\ attempts'[Head(h)] = 1 /\ failures'[t] <= 1
      BY <1>1, <1>4, <1>5, <1>6, <1>7, <2>1
    <3> QED
      BY <1>6, <3>1 DEF Fit
  <2>2. CASE talkAt[t] = "resend"
    <3>1. talkAt'[t] = "rewarn"
      BY <1>7, <2>2
    <3>2. \A x \in Talk!Members(h) : attempts[x] = retries[x] + 1
      BY <1>3, <2>2 DEF Fit
    <3>3. \A x \in Talk!Members(Tail(h)) : x \in Talk!Members(h) /\ x \in Messages /\ x # m
      <4>1. m \notin Talk!Members(Tail(h)) /\ Talk!Members(Tail(h)) \subseteq Talk!Members(h)
        BY <1>1, <1>3, <1>4, FirstAndRest
      <4>2. \A x \in Talk!Members(h) : x \in Messages
        BY <1>3 DEF Talk!Members
      <4> QED
        BY <4>1, <4>2
    <3>4. \A x \in Talk!Members(Tail(h)) : attempts'[x] = retries'[x] + 1
      BY <1>5, <3>2, <3>3
    <3>5. attempts'[Head(h)] = retries'[Head(h)] + 2
      BY <1>1, <1>4, <1>5, <2>2 DEF TalkInv, TalkTypes
    <3> QED
      BY <1>4, <1>6, <3>1, <3>4, <3>5 DEF Fit
  <2> QED
    BY <1>2, <2>1, <2>2
<1>11. Fits'
  <2>1. \A u \in Callers : u # t => talkAt'[u] = talkAt[u] /\ hand'[u] = hand[u] /\ failures'[u] = failures[u]
    BY DEF TalkInv, TalkTypes
  <2>2. PICK M : M = {m}
    OBVIOUS
  <2>3. M \subseteq Talk!Members(hand[t]) \cup (Messages \ open)
    BY <1>1, <1>4, <2>2
  <2>4. \A x \in Messages : x \notin M => attempts'[x] = attempts[x] /\ retries'[x] = retries[x] /\ idle'[x] >= idle[x]
    <3>1. \A x \in Messages : idle'[x] >= idle[x]
      BY TalkAssumption DEF TalkInv, TalkTypes
    <3>2. retries' = retries
      OBVIOUS
    <3> QED
      BY <1>5, <2>2, <3>1, <3>2
  <2>5. Fit(talkAt'[t], hand'[t], failures'[t], attempts', retries', idle')
    BY <1>1, <1>10
  <2> QED
    BY <1>8, <2>1, <2>3, <2>4, <2>5, FitsAfter
<1> QED
  BY <1>5, <1>8, <1>9, <1>11 DEF TalkInv

LEMMA DeliveredStep == ASSUME TalkInv, NEW t \in Callers, Talk!Delivered(t) PROVE TalkInv'
<1> USE DEF Talk!Delivered
<1>1. PICK h, m : h = hand[t] /\ m = Head(h)
  OBVIOUS
<1>2. talkAt[t] \in {"send", "resend"}
  OBVIOUS
<1>3. /\ h \in Seq(Messages) /\ Talk!Once(h) /\ Talk!Apart(h, pending) /\ Fit(talkAt[t], h, failures[t], attempts, retries, idle)
      /\ pending \in Seq(Messages) /\ Talk!Once(pending) /\ Talk!Members(pending) \subseteq open /\ Talk!Members(h) \subseteq open
      /\ open \subseteq Messages
  BY <1>1, InHand
<1>4. /\ h # <<>> /\ m \in Talk!Members(h) /\ m \in Messages /\ m \notin Talk!Members(pending)
      /\ talkAt[t] = "send" => failures[t] = 0 /\ Len(h) = 1
      /\ failures[t] <= 1
  BY <1>1, <1>2, Calls
<1>5. PICK r \in Seq(Messages) : r = Tail(h) /\ Talk!Members(h) = Talk!Members(r) \cup {m} /\ m \notin Talk!Members(r) /\ Talk!Once(r)
                                 /\ Len(r) = Len(h) - 1 /\ Len(h) \in Nat \ {0} /\ (Len(h) = 1 => r = <<>>)
  BY <1>1, <1>3, <1>4, FirstAndRest
<1>6. /\ attempts' = [attempts EXCEPT ![m] = @ + 1] /\ open' = open \ {m} /\ hand' = [hand EXCEPT ![t] = r]
      /\ pending' = pending /\ retries' = retries /\ idle' = idle /\ failures' = failures
  BY <1>1, <1>5
<1>7. Counts' /\ attempts' \in [Messages -> Nat] /\ \A x \in Messages : x # m => attempts'[x] = attempts[x]
  <2>1. open' \subseteq open
    BY <1>6
  <2> QED
    BY <1>1, <1>2, <1>6, <2>1, Tried
<1>8. /\ talkAt' \in [Callers -> Where]
      /\ talkAt'[t] = IF talkAt[t] = "send" THEN "look" ELSE IF Len(h) = 1 THEN "idle" ELSE "resend"
  BY <1>1 DEF TalkInv, TalkTypes, Where
<1>9. TalkTypes'
  <2>1. hand' \in [Callers -> Seq(Messages)]
    BY <1>6 DEF TalkInv, TalkTypes
  <2>2. open' \subseteq Messages
    BY <1>3, <1>6
  <2>3. UNCHANGED <<pending, retries, age, idle, sinceWarn, failures, crashes>>
    OBVIOUS
  <2> QED
    BY <1>7, <1>8, <2>1, <2>2, <2>3 DEF TalkInv, TalkTypes
<1>10. Talk!NothingLost'
  <2>1. Talk!Apart(r, pending)
    BY <1>3, <1>5 DEF Talk!Apart
  <2>2. open' = (open \ (Talk!Members(pending) \cup Talk!Members(hand[t]))) \cup Talk!Members(pending) \cup Talk!Members(r)
    BY <1>1, <1>3, <1>4, <1>5, <1>6
  <2>3. Talk!Members(pending) \cup Talk!Members(r) \subseteq Talk!Members(pending) \cup Talk!Members(hand[t]) \cup (Messages \ open)
    BY <1>1, <1>5
  <2> QED
    BY <1>3, <1>5, <1>6, <2>1, <2>2, <2>3, Moved DEF TalkInv
<1>11. Fit(talkAt'[t], r, failures'[t], attempts', retries', idle')
  <2>0. failures[t] \in Nat
    BY DEF TalkInv, TalkTypes
  <2>1. CASE talkAt[t] = "send" \/ Len(h) = 1
    <3>1. talkAt'[t] \in {"look", "idle"} /\ r = <<>>
      BY <1>4, <1>5, <1>8, <2>1
    <3> QED
      BY <1>4, <1>6, <2>0, <3>1, EmptyHand
  <2>2. CASE talkAt[t] = "resend" /\ Len(h) # 1
    <3>1. talkAt'[t] = "resend"
      BY <1>8, <2>2
    <3>2. r # <<>>
      <4>1. ASSUME r = <<>> PROVE Len(r) = 0
        BY Zenon, <4>1, NoneAtFirst
      <4> QED
        BY <1>5, <2>2, <4>1
    <3>3. \A x \in Talk!Members(r) : x \in Talk!Members(h) /\ x \in Messages /\ x # m
      BY <1>3, <1>5
    <3>4. \A x \in Talk!Members(h) : attempts[x] = retries[x] + 1 /\ idle[x] >= MinInterval
      BY <1>3, <2>2 DEF Fit
    <3>5. \A x \in Talk!Members(r) : attempts'[x] = retries'[x] + 1 /\ idle'[x] >= MinInterval
      BY <1>6, <1>7, <3>3, <3>4
    <3> QED
      BY <1>4, <1>6, <2>0, <3>1, <3>2, <3>5 DEF Fit
  <2> QED
    BY <1>2, <2>1, <2>2
<1>12. Fits'
  <2>1. \A u \in Callers : u # t => talkAt'[u] = talkAt[u] /\ hand'[u] = hand[u] /\ failures'[u] = failures[u]
    BY DEF TalkInv, TalkTypes
  <2>2. PICK M : M = {m}
    OBVIOUS
  <2>3. M \subseteq Talk!Members(hand[t]) \cup (Messages \ open)
    BY <1>1, <1>4, <2>2
  <2>4. \A x \in Messages : x \notin M => attempts'[x] = attempts[x] /\ retries'[x] = retries[x] /\ idle'[x] >= idle[x]
    <3>1. \A x \in Messages : idle'[x] >= idle[x]
      BY TalkAssumption DEF TalkInv, TalkTypes
    <3> QED
      BY <1>6, <1>7, <2>2, <3>1
  <2>5. hand'[t] = r
    BY <1>6 DEF TalkInv, TalkTypes
  <2>6. Fit(talkAt'[t], hand'[t], failures'[t], attempts', retries', idle')
    BY <1>11, <2>5
  <2> QED
    BY <1>9, <2>1, <2>3, <2>4, <2>6, FitsAfter
<1> QED
  BY <1>7, <1>9, <1>10, <1>12 DEF TalkInv

\* A step of t that changes neither the messages nor what was counted.
LEMMA GoesOn ==
  ASSUME TalkInv, NEW t \in Callers, UNCHANGED <<pending, retries, age, idle, hand, open, attempts, crashes>>,
         sinceWarn' \in 0..WarnCooldown, talkAt' \in [Callers -> Where], failures' \in [Callers -> Nat],
         \A u \in Callers : u # t => talkAt'[u] = talkAt[u] /\ failures'[u] = failures[u],
         Fit(talkAt'[t], hand[t], failures'[t], attempts, retries, idle)
  PROVE  TalkInv'
<1>1. TalkTypes'
  BY DEF TalkInv, TalkTypes
<1>2. Talk!NothingLost' /\ Counts'
  BY DEF TalkInv, Talk!NothingLost, Counts
<1>3. ASSUME NEW u \in Callers PROVE Fit(talkAt'[u], hand'[u], failures'[u], attempts', retries', idle')
  <2>1. CASE u = t
    BY <2>1
  <2>2. CASE u # t
    BY <2>2 DEF TalkInv, Fits
  <2> QED
    BY <2>1, <2>2
<1> QED
  BY <1>1, <1>2, <1>3 DEF TalkInv, Fits

LEMMA GoesOnStep ==
  ASSUME TalkInv, NEW t \in Callers, Talk!NotifyQuietly(t) \/ Talk!Warn(t) \/ Talk!NothingPending(t) \/ Talk!SomePending(t)
  PROVE  TalkInv'
<1>1. Fit(talkAt[t], hand[t], failures[t], attempts, retries, idle) /\ failures[t] \in Nat
  BY DEF TalkInv, Fits, TalkTypes
<1>2. CASE Talk!Warn(t)
  <2>1. sinceWarn' \in 0..WarnCooldown
    BY <1>2, TalkAssumption DEF TalkInv, TalkTypes, Talk!Warn
  <2>2. talkAt' \in [Callers -> Where] /\ \A u \in Callers : u # t => talkAt'[u] = talkAt[u]
    BY <1>2 DEF TalkInv, TalkTypes, Where, Talk!Warn
  <2>3. \/ talkAt[t] = "warn" /\ talkAt'[t] = "queue"
        \/ talkAt[t] = "rewarn" /\ talkAt'[t] = "requeue"
    BY <1>2 DEF TalkInv, TalkTypes, Talk!Warn
  <2>4. Fit(talkAt'[t], hand[t], failures[t], attempts, retries, idle)
    BY <1>1, <2>3 DEF Fit
  <2> QED
    BY <1>2, <2>1, <2>2, <2>4, GoesOn DEF Talk!Warn, TalkInv, TalkTypes
<1>3. CASE Talk!NotifyQuietly(t) \/ Talk!NothingPending(t) \/ Talk!SomePending(t)
  <2>1. talkAt[t] \in {"idle", "look"} /\ sinceWarn' \in 0..WarnCooldown
    BY <1>3 DEF Talk!NotifyQuietly, Talk!NothingPending, Talk!SomePending, TalkInv, TalkTypes
  <2>2. talkAt' \in [Callers -> Where] /\ (\A u \in Callers : u # t => talkAt'[u] = talkAt[u]) /\ talkAt'[t] \in {"idle", "look", "take"}
    BY <1>3 DEF TalkInv, TalkTypes, Where, Talk!NotifyQuietly, Talk!NothingPending, Talk!SomePending, Talk!AfterQuiet
  <2>3. failures' \in [Callers -> Nat] /\ (\A u \in Callers : u # t => failures'[u] = failures[u]) /\ failures'[t] <= 1
    <3>1. CASE Talk!NotifyQuietly(t)
      BY <3>1 DEF Talk!NotifyQuietly, TalkInv, TalkTypes
    <3>2. CASE Talk!NothingPending(t) \/ Talk!SomePending(t)
      <4>1. talkAt[t] = "look" /\ failures' = failures
        BY <3>2 DEF Talk!NothingPending, Talk!SomePending
      <4> QED
        BY <1>1, <4>1 DEF TalkInv, TalkTypes, Fit
    <3> QED
      BY <1>3, <3>1, <3>2
  <2>4. hand[t] = <<>>
    BY <1>1, <2>1 DEF Fit
  <2>5. Fit(talkAt'[t], hand[t], failures'[t], attempts, retries, idle)
    <3>1. failures'[t] \in Nat
      BY <2>3
    <3> QED
      BY Zenon, <2>2, <2>3, <2>4, <3>1, EmptyHand
  <2>6. UNCHANGED <<pending, retries, age, idle, hand, open, attempts, crashes>>
    BY <1>3 DEF Talk!NotifyQuietly, Talk!NothingPending, Talk!SomePending
  <2> QED
    BY <2>1, <2>2, <2>3, <2>5, <2>6, GoesOn
<1> QED
  BY <1>2, <1>3

LEMMA QueueStep == ASSUME TalkInv, NEW t \in Callers, Talk!Queue(t) PROVE TalkInv'
<1> USE DEF Talk!Queue
<1>1. PICK h, m : h = hand[t] /\ m = Head(h)
  OBVIOUS
<1>2. /\ h \in Seq(Messages) /\ Talk!Once(h) /\ Talk!Apart(h, pending) /\ Fit(talkAt[t], h, failures[t], attempts, retries, idle)
      /\ pending \in Seq(Messages) /\ Talk!Once(pending) /\ Talk!Members(pending) \subseteq open /\ Talk!Members(h) \subseteq open
      /\ open \subseteq Messages
  BY <1>1, InHand
<1>3. Len(h) = 1 /\ attempts[m] = 1 /\ failures[t] <= 1 /\ failures[t] \in Nat
  BY <1>1, <1>2 DEF Fit, TalkInv, TalkTypes
<1>4. h # <<>>
  <2>1. ASSUME h = <<>> PROVE Len(h) = 0
    BY Zenon, <2>1, NoneAtFirst
  <2> QED
    BY <1>3, <2>1
<1>5. m \in Messages /\ Talk!Members(h) = {m}
  <2>1. Head(h) \in Messages /\ Talk!Members(h) = Talk!Members(Tail(h)) \cup {Head(h)} /\ (Len(h) = 1 => Tail(h) = <<>>)
    BY <1>2, <1>4, FirstAndRest
  <2>2. Tail(h) = <<>>
    BY <1>3, <2>1
  <2>3. Talk!Members(Tail(h)) = {}
    BY Zenon, <2>2, NoneAtFirst
  <2> QED
    BY <1>1, <2>1, <2>3
<1>6. m \notin Talk!Members(pending) /\ m \in open
  BY <1>2, <1>5 DEF Talk!Apart
<1>7. PICK p \in Seq(Messages) : p = Append(pending, m) /\ Talk!Members(p) = Talk!Members(pending) \cup {m} /\ Talk!Once(p)
  BY <1>2, <1>5, <1>6, OneMore
<1>8. /\ pending' = p /\ retries' = [retries EXCEPT ![m] = 0] /\ age' = [age EXCEPT ![m] = 0]
      /\ idle' = [idle EXCEPT ![m] = 0] /\ hand' = [hand EXCEPT ![t] = <<>>]
      /\ open' = open /\ attempts' = attempts /\ failures' = failures
  BY <1>1, <1>7
<1>9. TalkTypes'
  <2>0. 0 \in 0..MaxRetries /\ 0 \in 0..(MaxAge + 1) /\ 0 \in 0..MinInterval
    BY TalkAssumption
  <2>1. retries' \in [Messages -> 0..MaxRetries]
    BY <1>8, <2>0 DEF TalkInv, TalkTypes
  <2>2. age' \in [Messages -> 0..(MaxAge + 1)]
    BY <1>8, <2>0 DEF TalkInv, TalkTypes
  <2>3. idle' \in [Messages -> 0..MinInterval]
    BY <1>8, <2>0 DEF TalkInv, TalkTypes
  <2>4. hand' \in [Callers -> Seq(Messages)]
    BY <1>8, EmptySeq DEF TalkInv, TalkTypes
  <2>5. talkAt' \in [Callers -> Where]
    BY DEF TalkInv, TalkTypes, Where
  <2>6. pending' \in Seq(Messages)
    BY <1>8
  <2> QED
    BY <2>1, <2>2, <2>3, <2>4, <2>5, <2>6 DEF TalkInv, TalkTypes
<1>10. Talk!NothingLost'
  <2>1. PICK e \in Seq(Messages) : e = <<>> /\ Talk!Members(e) = {} /\ Talk!Once(e)
    BY NoneAtFirst
  <2>2. Talk!Apart(e, p)
    BY <2>1 DEF Talk!Apart
  <2>3. hand' = [hand EXCEPT ![t] = e]
    BY <1>8, <2>1
  <2>4. Talk!Members(p) \cup Talk!Members(e) \subseteq Talk!Members(pending) \cup Talk!Members(hand[t]) \cup (Messages \ open)
    BY <1>1, <1>5, <1>7, <2>1
  <2>5. open' = (open \ (Talk!Members(pending) \cup Talk!Members(hand[t]))) \cup Talk!Members(p) \cup Talk!Members(e)
    BY <1>1, <1>2, <1>5, <1>6, <1>7, <1>8, <2>1
  <2> QED
    BY <1>7, <1>8, <2>1, <2>2, <2>3, <2>4, <2>5, Moved DEF TalkInv
<1>11. retries'[m] = 0 /\ \A x \in Messages : x # m => retries'[x] = retries[x] /\ idle'[x] = idle[x]
  BY <1>5, <1>8 DEF TalkInv, TalkTypes
<1>12. Counts'
  <2>1. \A x \in Messages : attempts'[x] <= MaxRetries + 1
    BY <1>8 DEF TalkInv, Counts
  <2>2. \A x \in open' : retries'[x] < MaxRetries
    <3>1. \A x \in open : retries[x] < MaxRetries /\ x \in Messages
      BY <1>2 DEF TalkInv, Counts
    <3>2. 0 < MaxRetries
      BY TalkAssumption
    <3> QED
      BY <1>8, <1>11, <3>1, <3>2
  <2>3. \A x \in Talk!Members(pending') : attempts'[x] = retries'[x] + 1
    <3>1. \A x \in Talk!Members(pending) : attempts[x] = retries[x] + 1 /\ x \in Messages /\ x # m
      BY <1>2, <1>6 DEF TalkInv, Counts
    <3>2. attempts'[m] = retries'[m] + 1
      BY <1>3, <1>8, <1>11
    <3> QED
      BY <1>7, <1>8, <1>11, <3>1, <3>2
  <2> QED
    BY <2>1, <2>2, <2>3 DEF Counts
<1>13. Fits'
  <2>1. \A u \in Callers : u # t => talkAt'[u] = talkAt[u] /\ hand'[u] = hand[u] /\ failures'[u] = failures[u]
    BY DEF TalkInv, TalkTypes
  <2>2. PICK M : M = {m}
    OBVIOUS
  <2>3. M \subseteq Talk!Members(hand[t]) \cup (Messages \ open)
    BY <1>1, <1>5, <2>2
  <2>4. \A x \in Messages : x \notin M => attempts'[x] = attempts[x] /\ retries'[x] = retries[x] /\ idle'[x] >= idle[x]
    <3>1. \A x \in Messages : idle[x] >= idle[x]
      BY TalkAssumption DEF TalkInv, TalkTypes
    <3> QED
      BY <1>8, <1>11, <2>2, <3>1
  <2>5. hand'[t] = <<>> /\ talkAt'[t] = "look"
    BY <1>8 DEF TalkInv, TalkTypes
  <2>6. Fit(talkAt'[t], hand'[t], failures'[t], attempts', retries', idle')
    <3>1. failures'[t] \in Nat /\ failures'[t] <= 1 /\ talkAt'[t] \in {"idle", "look", "take"}
      BY <1>3, <1>8, <2>5
    <3>2. hand'[t] = <<>>
      BY <2>5
    <3> QED
      BY <3>1, <3>2, EmptyHand
  <2> QED
    BY <1>9, <2>1, <2>3, <2>4, <2>6, FitsAfter
<1> QED
  BY <1>9, <1>10, <1>12, <1>13 DEF TalkInv

LEMMA TakeStep == ASSUME TalkInv, NEW t \in Callers, Talk!Take(t) PROVE TalkInv'
<1> USE DEF Talk!Take
<1>1. /\ pending \in Seq(Messages) /\ Talk!Once(pending) /\ Talk!Members(pending) \subseteq open /\ open \subseteq Messages
      /\ Fit(talkAt[t], hand[t], failures[t], attempts, retries, idle)
  BY InHand
<1>2. hand[t] = <<>> /\ failures[t] <= 1 /\ failures[t] \in Nat
  BY <1>1 DEF Fit, TalkInv, TalkTypes
<1>3. Talk!Members(hand[t]) = {}
  BY Zenon, <1>2, NoneAtFirst
<1> DEFINE stays == {m \in Messages : Talk!NotDue(m)}
           goes == {m \in Messages : Talk!Due(m)}
           old == {m \in Talk!Members(pending) : Talk!TooOld(m)}
<1>4. PICK p \in Seq(Messages) : p = Talk!Those(pending, stays) /\ Talk!Members(p) = Talk!Members(pending) \cap stays /\ Talk!Once(p)
  <2> HIDE DEF stays
  <2> QED
    BY <1>1, ThoseOnly
<1>5. PICK h \in Seq(Messages) : h = Talk!Those(pending, goes) /\ Talk!Members(h) = Talk!Members(pending) \cap goes /\ Talk!Once(h)
  <2> HIDE DEF goes
  <2> QED
    BY <1>1, ThoseOnly
<1>6. pending' = p /\ hand' = [hand EXCEPT ![t] = h] /\ open' = open \ old
      /\ UNCHANGED <<retries, age, idle, sinceWarn, attempts, failures, crashes>>
  BY <1>4, <1>5 DEF Talk!Keep
<1>7. hand'[t] = h
  BY <1>6 DEF TalkInv, TalkTypes
<1>8. talkAt' \in [Callers -> Where] /\ talkAt'[t] = (IF h = <<>> THEN "idle" ELSE "resend")
  BY <1>7 DEF TalkInv, TalkTypes, Where
<1>9. TalkTypes'
  <2>1. hand' \in [Callers -> Seq(Messages)]
    BY <1>6 DEF TalkInv, TalkTypes
  <2>2. open' \subseteq Messages /\ pending' \in Seq(Messages)
    BY <1>1, <1>6
  <2> QED
    BY <1>6, <1>8, <2>1, <2>2 DEF TalkInv, TalkTypes
<1>10. \A m \in Messages : (m \in goes => m \notin stays /\ ~Talk!TooOld(m)) /\ (m \in stays => ~Talk!TooOld(m)) /\ (m \in goes \/ m \in stays \/ Talk!TooOld(m))
  BY DEF Talk!NotDue, Talk!Due
<1> HIDE DEF goes, stays
<1>11. Talk!NothingLost'
  <2>1. Talk!Apart(h, p)
    BY <1>1, <1>4, <1>5, <1>10 DEF Talk!Apart
  <2>2. Talk!Members(p) \cup Talk!Members(h) \subseteq Talk!Members(pending) \cup Talk!Members(hand[t]) \cup (Messages \ open)
    BY <1>4, <1>5
  <2>3. open' = (open \ (Talk!Members(pending) \cup Talk!Members(hand[t]))) \cup Talk!Members(p) \cup Talk!Members(h)
    BY <1>1, <1>3, <1>4, <1>5, <1>6, <1>10
  <2> QED
    BY <1>4, <1>5, <1>6, <2>1, <2>2, <2>3, Moved DEF TalkInv
<1>12. Counts'
  BY <1>4, <1>6 DEF TalkInv, Counts
<1>13. Fits'
  <2>1. \A u \in Callers : u # t => talkAt'[u] = talkAt[u] /\ hand'[u] = hand[u] /\ failures'[u] = failures[u]
    BY DEF TalkInv, TalkTypes
  <2>2. \A x \in Messages : x \notin {} => attempts'[x] = attempts[x] /\ retries'[x] = retries[x] /\ idle'[x] >= idle[x]
    <3>1. \A x \in Messages : idle[x] >= idle[x]
      BY TalkAssumption DEF TalkInv, TalkTypes
    <3> QED
      BY <1>6, <3>1
  <2>3. CASE h = <<>>
    <3>1. talkAt'[t] \in {"idle", "look", "take"} /\ failures'[t] \in Nat /\ failures'[t] <= 1
      BY <1>2, <1>6, <1>8, <2>3
    <3>2. hand'[t] = <<>>
      BY <1>7, <2>3
    <3>3. Fit(talkAt'[t], hand'[t], failures'[t], attempts', retries', idle')
      BY <3>1, <3>2, EmptyHand
    <3> QED
      BY Zenon, <3>3, FitsAfter, <1>9, <2>1, <2>2
  <2>4. CASE h # <<>>
    <3>1. talkAt'[t] = "resend"
      BY <1>8, <2>4
    <3>2. \A m \in Talk!Members(h) : attempts'[m] = retries'[m] + 1 /\ idle'[m] >= MinInterval
      <4>1. \A m \in Talk!Members(h) : m \in Talk!Members(pending) /\ m \in goes
        BY <1>5
      <4>2. \A m \in Talk!Members(h) : idle[m] >= MinInterval
        BY <4>1 DEF goes, Talk!Due
      <4> QED
        BY <1>6, <4>1, <4>2 DEF TalkInv, Counts
    <3>3. Fit(talkAt'[t], h, failures'[t], attempts', retries', idle')
      BY <1>2, <1>6, <2>4, <3>1, <3>2 DEF Fit
    <3>4. Fit(talkAt'[t], hand'[t], failures'[t], attempts', retries', idle')
      BY <1>7, <3>3
    <3> QED
      BY Zenon, <3>4, FitsAfter, <1>9, <2>1, <2>2
  <2> QED
    BY <2>3, <2>4
<1> QED
  BY <1>9, <1>11, <1>12, <1>13 DEF TalkInv

LEMMA RequeueStep == ASSUME TalkInv, NEW t \in Callers, Talk!Requeue(t) PROVE TalkInv'
<1> USE DEF Talk!Requeue
<1>1. PICK h, m : h = hand[t] /\ m = Head(h)
  OBVIOUS
<1>2. /\ h \in Seq(Messages) /\ Talk!Once(h) /\ Talk!Apart(h, pending) /\ Fit(talkAt[t], h, failures[t], attempts, retries, idle)
      /\ pending \in Seq(Messages) /\ Talk!Once(pending) /\ Talk!Members(pending) \subseteq open /\ Talk!Members(h) \subseteq open
      /\ open \subseteq Messages
  BY <1>1, InHand
<1>3. /\ h # <<>> /\ attempts[m] = retries[m] + 2 /\ failures[t] <= 2 /\ failures[t] \in Nat
      /\ \A x \in Talk!Members(Tail(h)) : attempts[x] = retries[x] + 1
  BY <1>1, <1>2 DEF Fit, TalkInv, TalkTypes
<1>4. PICK r \in Seq(Messages) : r = Tail(h) /\ Talk!Members(h) = Talk!Members(r) \cup {m} /\ m \notin Talk!Members(r) /\ Talk!Once(r)
                                 /\ m \in Messages /\ m \in Talk!Members(h)
  BY <1>1, <1>2, <1>3, FirstAndRest
<1>5. retries[m] \in Nat /\ retries[m] < MaxRetries /\ MaxRetries \in Nat /\ m \in open /\ m \notin Talk!Members(pending)
  BY <1>2, <1>4, TalkAssumption DEF TalkInv, TalkTypes, Counts, Talk!Apart
<1>6. PICK q \in Seq(Messages) :
        /\ q = Talk!BackToQueue(h, Talk!Exhausted(m)) /\ Talk!Once(q) /\ Talk!Apart(pending, q)
        /\ Talk!Members(q) = IF Talk!Exhausted(m) THEN Talk!Members(r) ELSE Talk!Members(h)
  <2>1. Talk!Apart(pending, h) /\ Talk!Apart(pending, r)
    BY <1>2, <1>4 DEF Talk!Apart
  <2>2. CASE Talk!Exhausted(m)
    <3>1. Talk!BackToQueue(h, Talk!Exhausted(m)) = r
      BY <1>4, <2>2 DEF Talk!BackToQueue
    <3> QED
      BY <1>4, <2>1, <2>2, <3>1
  <2>3. CASE ~Talk!Exhausted(m)
    <3>1. Talk!BackToQueue(h, Talk!Exhausted(m)) = h
      BY <2>3 DEF Talk!BackToQueue
    <3> QED
      BY <1>2, <2>1, <2>3, <3>1
  <2> QED
    BY <2>2, <2>3
<1>7. PICK p \in Seq(Messages) : p = pending \o q /\ Talk!Members(p) = Talk!Members(pending) \cup Talk!Members(q) /\ Talk!Once(p)
  BY <1>2, <1>6, Together
<1>8. /\ pending' = p /\ retries' = [retries EXCEPT ![m] = @ + 1] /\ idle' = [idle EXCEPT ![m] = 0]
      /\ open' = (IF Talk!Exhausted(m) THEN open \ {m} ELSE open) /\ hand' = [hand EXCEPT ![t] = <<>>]
      /\ talkAt' = [talkAt EXCEPT ![t] = "idle"] /\ UNCHANGED <<age, sinceWarn, attempts, failures, crashes>>
  BY <1>1, <1>6, <1>7 DEF Talk!AfterFailure
<1>9. TalkTypes'
  <2>1. retries[m] + 1 \in 0..MaxRetries
    BY <1>5
  <2>2. retries' \in [Messages -> 0..MaxRetries]
    BY <1>8, <2>1 DEF TalkInv, TalkTypes
  <2>3. 0 \in 0..MinInterval
    BY TalkAssumption
  <2>4. idle' \in [Messages -> 0..MinInterval]
    BY <1>8, <2>3 DEF TalkInv, TalkTypes
  <2>5. hand' \in [Callers -> Seq(Messages)]
    BY <1>8, EmptySeq DEF TalkInv, TalkTypes
  <2>6. talkAt' \in [Callers -> Where]
    BY <1>8 DEF TalkInv, TalkTypes, Where
  <2>7. open' \subseteq Messages /\ pending' \in Seq(Messages)
    BY <1>2, <1>8
  <2> QED
    BY <1>8, <2>2, <2>4, <2>5, <2>6, <2>7 DEF TalkInv, TalkTypes
<1>10. Talk!NothingLost'
  <2>1. PICK e \in Seq(Messages) : e = <<>> /\ Talk!Members(e) = {} /\ Talk!Once(e)
    BY NoneAtFirst
  <2>2. Talk!Apart(e, p)
    BY <2>1 DEF Talk!Apart
  <2>3. hand' = [hand EXCEPT ![t] = e]
    BY <1>8, <2>1
  <2>4. Talk!Members(p) \cup Talk!Members(e) \subseteq Talk!Members(pending) \cup Talk!Members(hand[t]) \cup (Messages \ open)
    BY <1>1, <1>4, <1>6, <1>7, <2>1
  <2>5. open' = (open \ (Talk!Members(pending) \cup Talk!Members(hand[t]))) \cup Talk!Members(p) \cup Talk!Members(e)
    <3>1. CASE Talk!Exhausted(m)
      <4>1. open' = open \ {m} /\ Talk!Members(p) = Talk!Members(pending) \cup Talk!Members(r)
        BY <1>6, <1>7, <1>8, <3>1
      <4> QED
        BY <1>1, <1>2, <1>4, <1>5, <2>1, <4>1
    <3>2. CASE ~Talk!Exhausted(m)
      <4>1. open' = open /\ Talk!Members(p) = Talk!Members(pending) \cup Talk!Members(h)
        BY <1>6, <1>7, <1>8, <3>2
      <4> QED
        BY <1>1, <1>2, <2>1, <4>1
    <3> QED
      BY <3>1, <3>2
  <2> QED
    BY <1>7, <1>8, <2>1, <2>2, <2>3, <2>4, <2>5, Moved DEF TalkInv
<1>11. retries'[m] = retries[m] + 1 /\ \A x \in Messages : x # m => retries'[x] = retries[x] /\ idle'[x] = idle[x]
  BY <1>4, <1>8 DEF TalkInv, TalkTypes
<1>12. Counts'
  <2>1. \A x \in Messages : attempts'[x] <= MaxRetries + 1
    BY <1>8 DEF TalkInv, Counts
  <2>2. \A x \in open' : retries'[x] < MaxRetries
    <3>1. \A x \in open : retries[x] < MaxRetries /\ x \in Messages
      BY <1>2 DEF TalkInv, Counts
    <3>2. open' \subseteq open /\ (Talk!Exhausted(m) => m \notin open')
      BY <1>8
    <3>3. ~Talk!Exhausted(m) => retries'[m] < MaxRetries
      BY <1>5, <1>11 DEF Talk!Exhausted
    <3> QED
      BY <1>11, <3>1, <3>2, <3>3
  <2>3. \A x \in Talk!Members(pending') : attempts'[x] = retries'[x] + 1
    <3>1. \A x \in Talk!Members(pending) : attempts[x] = retries[x] + 1 /\ x \in Messages /\ x # m
      BY <1>2, <1>5 DEF TalkInv, Counts
    <3>2. \A x \in Talk!Members(r) : attempts[x] = retries[x] + 1 /\ x \in Messages /\ x # m
      BY <1>2, <1>3, <1>4
    <3>3. attempts'[m] = retries'[m] + 1
      BY <1>3, <1>5, <1>8, <1>11
    <3>4. \A x \in Talk!Members(p) : x \in Talk!Members(pending) \/ x \in Talk!Members(r) \/ x = m
      BY <1>4, <1>6, <1>7
    <3> QED
      BY <1>8, <1>11, <3>1, <3>2, <3>3, <3>4
  <2> QED
    BY <2>1, <2>2, <2>3 DEF Counts
<1>13. Fits'
  <2>1. \A u \in Callers : u # t => talkAt'[u] = talkAt[u] /\ hand'[u] = hand[u] /\ failures'[u] = failures[u]
    BY DEF TalkInv, TalkTypes
  <2>2. PICK M : M = {m}
    OBVIOUS
  <2>3. M \subseteq Talk!Members(hand[t]) \cup (Messages \ open)
    BY <1>1, <1>4, <2>2
  <2>4. \A x \in Messages : x \notin M => attempts'[x] = attempts[x] /\ retries'[x] = retries[x] /\ idle'[x] >= idle[x]
    <3>1. \A x \in Messages : idle[x] >= idle[x]
      BY TalkAssumption DEF TalkInv, TalkTypes
    <3> QED
      BY <1>8, <1>11, <2>2, <3>1
  <2>5. hand'[t] = <<>> /\ talkAt'[t] = "idle"
    BY <1>8 DEF TalkInv, TalkTypes
  <2>6. Fit(talkAt'[t], hand'[t], failures'[t], attempts', retries', idle')
    <3>1. failures'[t] \in Nat /\ failures'[t] <= 2 /\ talkAt'[t] \in {"idle", "look", "take"} /\ talkAt'[t] = "idle"
      BY <1>3, <1>8, <2>5
    <3>2. hand'[t] = <<>>
      BY <2>5
    <3> QED
      BY <3>1, <3>2, EmptyHand
  <2> QED
    BY <1>9, <2>1, <2>3, <2>4, <2>6, FitsAfter
<1> QED
  BY <1>9, <1>10, <1>12, <1>13 DEF TalkInv

LEMMA TalkTicks == ASSUME TalkInv, Talk!Tick PROVE TalkInv'
<1> USE DEF Talk!Tick
<1>0. MaxAge + 1 \in Nat /\ MinInterval \in Nat /\ WarnCooldown \in Nat
  BY TalkAssumption
<1>1. \A k \in Nat : \A n \in 0..k : Talk!UpTo(n, k) \in 0..k /\ Talk!UpTo(n, k) >= n
  BY DEF Talk!UpTo
<1>2. age' \in [Messages -> 0..(MaxAge + 1)]
  BY <1>0, <1>1 DEF TalkInv, TalkTypes
<1>3. idle' \in [Messages -> 0..MinInterval] /\ \A m \in Messages : idle'[m] >= idle[m]
  <2>1. \A m \in Messages : idle[m] \in 0..MinInterval /\ idle[m] >= idle[m]
    BY <1>0 DEF TalkInv, TalkTypes
  <2>2. \A m \in Messages : Talk!UpTo(idle[m], MinInterval) \in 0..MinInterval /\ Talk!UpTo(idle[m], MinInterval) >= idle[m]
    BY <1>0, <1>1, <2>1
  <2> QED
    BY <2>1, <2>2
<1>4. sinceWarn' \in 0..WarnCooldown
  BY <1>0, <1>1 DEF TalkInv, TalkTypes
<1>5. TalkTypes'
  BY <1>2, <1>3, <1>4 DEF TalkInv, TalkTypes
<1>6. Talk!NothingLost' /\ Counts'
  BY DEF TalkInv, Talk!NothingLost, Counts
<1>7. ASSUME NEW u \in Callers PROVE Fit(talkAt'[u], hand'[u], failures'[u], attempts', retries', idle')
  <2>1. Fit(talkAt[u], hand[u], failures[u], attempts, retries, idle) /\ hand[u] \in Seq(Messages)
    BY DEF TalkInv, Fits, TalkTypes
  <2>2. idle \in [Messages -> Nat] /\ idle' \in [Messages -> Nat]
    BY <1>0, <1>3 DEF TalkInv, TalkTypes
  <2>3. \A m \in Talk!Members(hand[u]) : attempts[m] = attempts[m] /\ retries[m] = retries[m] /\ idle'[m] >= idle[m]
    BY <1>3, <2>1 DEF Talk!Members
  <2>4. Fit(talkAt[u], hand[u], failures[u], attempts, retries, idle')
    BY <2>1, <2>2, <2>3, FitKept
  <2> QED
    BY <2>4
<1> QED
  BY <1>5, <1>6, <1>7 DEF TalkInv, Fits

LEMMA CrashStep == ASSUME TalkInv, Talk!Crash PROVE TalkInv'
<1> USE DEF Talk!Crash
<1>1. TalkTypes'
  <2>1. hand' \in [Callers -> Seq(Messages)] /\ pending' \in Seq(Messages)
    BY EmptySeq
  <2>2. talkAt' \in [Callers -> Where] /\ sinceWarn' \in 0..WarnCooldown /\ crashes' \in Nat
    BY TalkAssumption DEF Where, TalkInv, TalkTypes
  <2> QED
    BY <2>1, <2>2 DEF TalkInv, TalkTypes
<1>2. \A t \in Callers : hand'[t] = <<>> /\ talkAt'[t] = "idle"
  OBVIOUS
<1>3. Talk!NothingLost'
  BY <1>2, NoneAtFirst DEF Talk!NothingLost, Talk!Apart
<1>4. Counts'
  BY NoneAtFirst DEF TalkInv, Counts
<1>5. ASSUME NEW t \in Callers PROVE Fit(talkAt'[t], hand'[t], failures'[t], attempts', retries', idle')
  <2>1. failures'[t] \in Nat /\ failures'[t] <= 2 /\ talkAt'[t] \in {"idle", "look", "take"} /\ talkAt'[t] = "idle"
    BY <1>2 DEF TalkInv, TalkTypes, Fits, Fit
  <2>2. hand'[t] = <<>>
    BY <1>2
  <2> QED
    BY <2>1, <2>2, EmptyHand
<1> QED
  BY <1>1, <1>3, <1>4, <1>5 DEF TalkInv, Fits

LEMMA TalkKept == ASSUME TalkInv, [Talk!Next]_talkVars PROVE TalkInv'
<1>1. CASE UNCHANGED talkVars
  BY <1>1 DEF talkVars, TalkInv, TalkTypes, Talk!NothingLost, Counts, Fits
<1>2. ASSUME NEW t \in Callers, Talk!Work(t) PROVE TalkInv'
  BY <1>2, DeliveredStep, FailedStep, GoesOnStep, QueueStep, TakeStep, RequeueStep DEF Talk!Work
<1>3. CASE Talk!Raise
  BY <1>3, GoesOnStep, NotifyStep DEF Talk!Raise
<1> QED
  BY <1>1, <1>2, <1>3, TalkTicks, CrashStep DEF Talk!Next

\* Only a call of Talk counts an attempt.
LEMMA SpacedStep == ASSUME TalkInv, [Talk!Next]_talkVars PROVE Talk!Spaced
<1> SUFFICES ASSUME NEW m \in Messages, attempts'[m] = attempts[m] + 1, attempts[m] > 0 PROVE idle[m] >= MinInterval
  BY DEF Talk!Spaced
<1>1. attempts \in [Messages -> Nat] /\ attempts[m] \in Nat
  BY DEF TalkInv, TalkTypes
<1>2. CASE \E t \in Callers : Talk!Delivered(t) \/ Talk!Failed(t)
  <2>1. PICK t \in Callers : Talk!Delivered(t) \/ Talk!Failed(t)
    BY <1>2
  <2>2. PICK h, n : h = hand[t] /\ n = Head(h)
    OBVIOUS
  <2>3. talkAt[t] \in {"send", "resend"} /\ attempts' = [attempts EXCEPT ![n] = @ + 1]
    BY <2>1, <2>2 DEF Talk!Delivered, Talk!Failed
  <2>4. attempts[n] > 0 => idle[n] >= MinInterval
    BY <2>2, <2>3, Calls
  <2>5. m = n
    BY <1>1, <2>3
  <2> QED
    BY <2>4, <2>5
<1>3. CASE attempts' = attempts
  BY <1>1, <1>3
<1>4. CASE \E t \in Callers : \E n \in Messages : Talk!Notify(t, n)
  <2>1. PICK n \in Messages : attempts' = [attempts EXCEPT ![n] = 0]
    BY <1>4 DEF Talk!Notify
  <2> QED
    BY <1>1, <2>1
<1> QED
  BY <1>2, <1>3, <1>4 DEF Talk!Next, talkVars, Talk!Tick, Talk!Crash, Talk!Raise, Talk!Work, Talk!NotifyQuietly, Talk!Warn, Talk!Queue, Talk!NothingPending,
     Talk!SomePending, Talk!Take, Talk!Requeue

\* Only a warning that is due starts the cooldown again.
LEMMA WarnedStep == ASSUME TalkInv, [Talk!Next]_talkVars PROVE Talk!WarnedApart
<1> SUFFICES ASSUME sinceWarn' = 0, sinceWarn # 0, crashes' = crashes PROVE sinceWarn = WarnCooldown
  BY DEF Talk!WarnedApart
<1>1. sinceWarn \in 0..WarnCooldown /\ WarnCooldown \in Nat /\ crashes \in Nat
  BY TalkAssumption DEF TalkInv, TalkTypes
<1>2. CASE \E t \in Callers : Talk!Warn(t)
  BY <1>1, <1>2 DEF Talk!Warn, Talk!WarnDue
<1>3. CASE sinceWarn' = sinceWarn
  BY <1>3
<1>4. CASE Talk!Tick
  BY <1>1, <1>4 DEF Talk!Tick, Talk!UpTo
<1>5. CASE Talk!Crash
  BY <1>1, <1>5 DEF Talk!Crash
<1> QED
  BY <1>2, <1>3, <1>4, <1>5 DEF Talk!Next, talkVars, Talk!Raise, Talk!Work, Talk!Notify, Talk!NotifyQuietly, Talk!Delivered, Talk!Failed, Talk!Queue, Talk!NothingPending,
     Talk!SomePending, Talk!Take, Talk!Requeue

-----------------------------------------------------------------------------
\* Whatever notifications overlap and wherever the process restarts, a message that is neither
\* delivered nor given up is in the queue or with one thread, exactly once, and is tried at most
\* once more than it may be retried; a server that is down costs a notification two calls at
\* most; and retries of a message, and health warnings, keep their distance.
THEOREM MessagesHeldHolds == KeptSpec => MessagesHeld
<1> DEFINE Inv0 == focus = "talk" => TalkInv
<1>1. KeptInit => Inv0
  BY TalkStart DEF KeptInit
<1>2. Inv0 /\ [KeptNext]_keptVars => Inv0'
  <2> SUFFICES ASSUME Inv0, [KeptNext]_keptVars, focus' = "talk" PROVE TalkInv'
    OBVIOUS
  <2>1. focus = "talk" /\ TalkInv
    BY DEF KeptNext, keptVars
  <2>2. [Talk!Next]_talkVars
    BY <2>1 DEF KeptNext, keptVars
  <2> QED
    BY <2>1, <2>2, TalkKept
<1>3. Inv0 => Held
  BY TalkGives DEF Held
<1>4. Inv0 /\ [KeptNext]_keptVars => [focus = "talk" => Talk!Spaced /\ Talk!WarnedApart]_talkVars
  <2> SUFFICES ASSUME Inv0, [KeptNext]_keptVars, focus = "talk", talkVars' # talkVars
      PROVE  Talk!Spaced /\ Talk!WarnedApart
    OBVIOUS
  <2>1. TalkInv /\ [Talk!Next]_talkVars
    BY DEF KeptNext, keptVars
  <2> QED
    BY <2>1, SpacedStep, WarnedStep
<1> HIDE DEF Inv0
<1> QED
  BY <1>1, <1>2, <1>3, <1>4, PTL DEF KeptSpec, MessagesHeld
=============================================================================
