----------------------- MODULE ModelRetraining_proofs -----------------------
(***************************************************************************)
(* Proofs about ModelRetraining, for any number of families, threads,      *)
(* reloads, regular firings and misfires.                                  *)
(*                                                                         *)
(* Inv is the inductive invariant.  Beyond the properties of the runs it   *)
(* says that the queue holds no family twice (needed for QueuedIsQueue:    *)
(* after a pop the set must lose the family), that the family in turn was  *)
(* served, that an idle thread carries no report, and that a thread in the *)
(* dispatcher handles a family.                                            *)
(***************************************************************************)
EXTENDS ModelRetraining, SequenceTheorems, FiniteSetTheorems, TLAPS

\* The queue holds no family twice.
QueueDistinct == \A i, j \in DOMAIN queue : queue[i] = queue[j] => i = j

\* The family in turn was popped from the queue.
CurrentServed == current # None => current \in Elements(served)

\* A thread outside the module carries no report.
IdleCarriesNothing == \A t \in Threads : pc[t] = "idle" => todo[t] = {}

\* A thread that talks to APScheduler has a family in hand.
InHandIsFamily ==
  \A t \in Threads :
    pc[t] \in {"hold", "pause", "look", "modify", "add"} => inHand[t] \in Families

\* ReportsAccounted, read family by family.
Ledger ==
  \A f :
    /\ f \in reported <=> \/ f \in pendingReports
                          \/ \E t \in Threads : f \in todo[t]
                          \/ f \in queued
                          \/ f \in Elements(served)
                          \/ f \in dropped
    /\ \A t \in Threads : f \in todo[t] =>
         /\ f \notin pendingReports /\ f \notin queued
         /\ f \notin Elements(served) /\ f \notin dropped
         /\ \A u \in Threads : f \in todo[u] => u = t
    /\ f \in pendingReports => f \notin queued /\ f \notin Elements(served) /\ f \notin dropped
    /\ f \in queued => f \notin Elements(served) /\ f \notin dropped
    /\ f \in Elements(served) => f \notin dropped

Inv ==
  /\ TypeOK
  /\ InHandIsFamily
  /\ IdleCarriesNothing
  /\ QueueDistinct
  /\ QueuedIsQueue
  /\ CurrentServed
  /\ Ledger

-----------------------------------------------------------------------------
(* Lemmas about Elements *)

\* Appending a family adds it to the elements.
LEMMA ElementsAppend ==
  ASSUME NEW S, NEW s \in Seq(S), NEW e \in S
  PROVE  Elements(Append(s, e)) = Elements(s) \union {e}
<1>1. /\ Append(s, e) \in Seq(S)
      /\ DOMAIN Append(s, e) = 1 .. Len(s) + 1
      /\ DOMAIN s = 1 .. Len(s)
      /\ Len(s) \in Nat
  OBVIOUS
<1>2. /\ \A i \in 1 .. Len(s) : Append(s, e)[i] = s[i]
      /\ Append(s, e)[Len(s) + 1] = e
  OBVIOUS
<1>3. ASSUME NEW x PROVE x \in Elements(Append(s, e)) <=> x \in Elements(s) \union {e}
  BY <1>1, <1>2 DEF Elements
<1> QED BY <1>3

\* The elements of a non-empty sequence are its head and those of its tail.
LEMMA ElementsHeadTail ==
  ASSUME NEW S, NEW s \in Seq(S), s # <<>>
  PROVE  /\ Head(s) \in S
         /\ Tail(s) \in Seq(S)
         /\ Elements(s) = {Head(s)} \union Elements(Tail(s))
<1>1. /\ Head(s) = s[1] /\ Head(s) \in S
      /\ Tail(s) \in Seq(S)
      /\ Len(s) \in Nat \ {0}
      /\ DOMAIN s = 1 .. Len(s)
      /\ DOMAIN Tail(s) = 1 .. Len(s) - 1
      /\ \A i \in 1 .. Len(s) - 1 : Tail(s)[i] = s[i + 1]
  OBVIOUS
<1>2. ASSUME NEW x PROVE x \in Elements(s) <=> x \in {Head(s)} \union Elements(Tail(s))
  <2>1. ASSUME x \in Elements(s) PROVE x \in {Head(s)} \union Elements(Tail(s))
    <3>1. PICK i \in 1 .. Len(s) : x = s[i]
      BY <1>1, <2>1 DEF Elements
    <3>2. CASE i = 1
      BY <1>1, <3>1, <3>2
    <3>3. CASE i # 1
      <4>1. i - 1 \in 1 .. Len(s) - 1 /\ Tail(s)[i - 1] = s[i]
        BY <1>1, <3>3
      <4> QED BY <1>1, <3>1, <4>1 DEF Elements
    <3> QED BY <3>2, <3>3
  <2>2. ASSUME x \in {Head(s)} \union Elements(Tail(s)) PROVE x \in Elements(s)
    BY <1>1, <2>2 DEF Elements
  <2> QED BY <2>1, <2>2
<1> QED BY <1>1, <1>2

-----------------------------------------------------------------------------
(* The two outcomes of Enqueue *)

EnqueueKnown(t, f) ==
  /\ f = current \/ f \in queued
  /\ \E p \in {"idle", "queue"} : pc' = [pc EXCEPT ![t] = p]
  /\ UNCHANGED <<queue, queued, inHand>>

EnqueueNew(t, f) ==
  /\ f # current /\ f \notin queued
  /\ queue' = Append(queue, f)
  /\ queued' = queued \union {f}
  /\ inHand' = [inHand EXCEPT ![t] = f]
  /\ \/ current = None /\ pc' = [pc EXCEPT ![t] = "pick"]
     \/ current # None /\ pc' = [pc EXCEPT ![t] = "hold"]

\* Enqueue either finds the family known or appends it.
LEMMA EnqueueCases ==
  ASSUME NEW t, NEW f, Enqueue(t, f)
  PROVE  EnqueueKnown(t, f) \/ EnqueueNew(t, f)
<1>1. CASE f = current \/ f \in queued
  BY <1>1 DEF Enqueue, EnqueueKnown
<1>2. CASE ~(f = current \/ f \in queued)
  BY <1>2 DEF Enqueue, EnqueueNew
<1> QED BY <1>1, <1>2

-----------------------------------------------------------------------------
(* Type correctness *)

LEMMA TypeInit == Init => TypeOK
<1> SUFFICES ASSUME Init PROVE TypeOK
  OBVIOUS
<1>1. jobs \in [Families -> Jobs]
  BY DEF Init, Jobs, OnSchedule, Absent
<1>2. queue \in Seq(Families) /\ served \in Seq(Families)
  BY DEF Init
<1> QED BY <1>1, <1>2 DEF Init, TypeOK, Places

\* One step keeps every variable in its type; the family in hand is part of
\* it because pausing or modifying a job needs a family.
LEMMA TypeStep ==
  ASSUME TypeOK, InHandIsFamily, [Next]_vars
  PROVE  TypeOK' /\ InHandIsFamily'
<1> USE DEF TypeOK, InHandIsFamily, Places, Resume
<1>j. /\ Absent \in Jobs /\ OnSchedule \in Jobs /\ OneShot \in Jobs
      /\ \A j \in Jobs : j.kind # "none" =>
           /\ [j EXCEPT !.next = "paused"] \in Jobs
           /\ [j EXCEPT !.next = "soon"] \in Jobs
  BY DEF Jobs, Absent, OnSchedule, OneShot
<1>1. ASSUME NEW t \in Threads, NEW f \in Families, Report(t, f)
      PROVE TypeOK' /\ InHandIsFamily'
  <2>1. /\ pc' \in [Threads -> Places]
        /\ todo' \in [Threads -> SUBSET Families]
        /\ \A u \in Threads : pc'[u] \in {"idle", "queue"} \/ pc'[u] = pc[u]
    <3>1. CASE callback
      <4>1. /\ todo' = [todo EXCEPT ![t] = {f}]
            /\ pc' = [pc EXCEPT ![t] = "queue"]
        BY <1>1, <3>1 DEF Report
      <4> QED BY <4>1
    <3>2. CASE ~callback
      BY <1>1, <3>2 DEF Report
    <3> QED BY <3>1, <3>2
  <2>2. reported' \subseteq Families /\ pendingReports' \subseteq Families
    BY <1>1 DEF Report
  <2> QED BY <1>1, <2>1, <2>2 DEF Report, queueVars, envVars, histVars
<1>2. ASSUME NEW t \in Threads, SetRetrainingCallback(t)
      PROVE TypeOK' /\ InHandIsFamily'
  BY <1>2 DEF SetRetrainingCallback, queueVars, envVars, histVars
<1>3. ASSUME NEW t \in Threads, NEW f \in Families, Enqueue(t, f)
      PROVE TypeOK' /\ InHandIsFamily'
  <2>1. todo' \in [Threads -> SUBSET Families]
    <3>1. todo' = [todo EXCEPT ![t] = todo[t] \ {f}]
      BY <1>3 DEF Enqueue
    <3> QED BY <3>1
  <2>2. CASE EnqueueKnown(t, f)
    BY <1>3, <2>1, <2>2 DEF EnqueueKnown, Enqueue, compatVars, envVars, histVars
  <2>3. CASE EnqueueNew(t, f)
    <3>1. queue' \in Seq(Families) /\ queued' \subseteq Families
      BY <2>3 DEF EnqueueNew
    <3>2. pc' \in [Threads -> Places] /\ inHand' \in [Threads -> Families \union {None}]
      <4>1. PICK p \in {"pick", "hold"} : pc' = [pc EXCEPT ![t] = p]
        BY <2>3 DEF EnqueueNew
      <4>2. inHand' = [inHand EXCEPT ![t] = f]
        BY <2>3 DEF EnqueueNew
      <4> QED BY <4>1, <4>2
    <3>3. \A u \in Threads : inHand'[u] = f \/ (pc'[u] = pc[u] /\ inHand'[u] = inHand[u])
      BY <2>3 DEF EnqueueNew
    <3> QED BY <1>3, <2>1, <3>1, <3>2, <3>3 DEF Enqueue, compatVars, envVars, histVars
  <2> QED BY <1>3, <2>2, <2>3, EnqueueCases
<1>4. ASSUME NEW t \in Threads, HoldWaiting(t)
      PROVE TypeOK' /\ InHandIsFamily'
  BY <1>4 DEF HoldWaiting, compatVars, queueVars, envVars, histVars
<1>5. ASSUME NEW t \in Threads, PauseWaiting(t)
      PROVE TypeOK' /\ InHandIsFamily'
  <2>1. jobs' \in [Families -> Jobs]
    BY <1>5, <1>j DEF PauseWaiting, Exists
  <2>2. pc' \in [Threads -> Places] /\ robbed' \subseteq Families
    BY <1>5 DEF PauseWaiting
  <2> QED BY <1>5, <2>1, <2>2 DEF PauseWaiting, compatVars, queueVars, envVars
<1>6. ASSUME NEW t \in Threads, SchedulerRaises(t)
      PROVE TypeOK' /\ InHandIsFamily'
  BY <1>6 DEF SchedulerRaises, compatVars, queueVars, envVars
<1>7. ASSUME NEW t \in Threads, Pick(t)
      PROVE TypeOK' /\ InHandIsFamily'
  <2>1. CASE NothingToDispatch
    BY <1>7, <2>1 DEF Pick, compatVars, queueVars, envVars, histVars
  <2>2. CASE ~NothingToDispatch
    <3>1. Head(queue) \in Families /\ Tail(queue) \in Seq(Families)
      BY <2>2, ElementsHeadTail DEF NothingToDispatch
    <3>2. /\ pc' \in [Threads -> Places]
          /\ inHand' \in [Threads -> Families \union {None}]
          /\ \A u \in Threads : (inHand'[u] = inHand[u] /\ pc'[u] = pc[u]) \/ inHand'[u] \in Families
      BY <1>7, <2>2, <3>1 DEF Pick
    <3>3. /\ queue' \in Seq(Families) /\ served' \in Seq(Families)
          /\ queued' \subseteq Families /\ current' \in Families
      <4>1. /\ queue' = Tail(queue) /\ served' = Append(served, Head(queue))
            /\ queued' = queued \ {Head(queue)} /\ current' = Head(queue)
        BY <1>7, <2>2 DEF Pick, Unqueue
      <4> QED BY <3>1, <4>1
    <3> QED BY <1>7, <2>2, <3>2, <3>3 DEF Pick, compatVars, envVars, histVars
  <2> QED BY <2>1, <2>2
<1>8. ASSUME NEW t \in Threads, SkipUnregistered(t)
      PROVE TypeOK' /\ InHandIsFamily'
  BY <1>8 DEF SkipUnregistered, compatVars, envVars, histVars
<1>9. ASSUME NEW t \in Threads, LookUpJob(t)
      PROVE TypeOK' /\ InHandIsFamily'
  BY <1>9 DEF LookUpJob, DispatchStep, compatVars, queueVars, envVars, histVars
<1>10. ASSUME NEW t \in Threads, ModifyJob(t)
       PROVE TypeOK' /\ InHandIsFamily'
  <2>1. jobs' \in [Families -> Jobs]
    BY <1>10, <1>j DEF ModifyJob, Exists
  <2> QED BY <1>10, <2>1 DEF ModifyJob, compatVars, queueVars, envVars, histVars
<1>11. ASSUME NEW t \in Threads, AddJob(t)
       PROVE TypeOK' /\ InHandIsFamily'
  BY <1>11, <1>j DEF AddJob, compatVars, queueVars, envVars, histVars
<1>12. ASSUME NEW t \in Threads, NEW f \in Families, FinishModelRetraining(t, f)
       PROVE TypeOK' /\ InHandIsFamily'
  <2>1. events' \in [Families -> Nat]
    BY <1>12 DEF FinishModelRetraining
  <2>2. /\ pc' \in [Threads -> Places]
        /\ current' \in Families \union {None}
        /\ \A u \in Threads : pc'[u] = "pick" \/ pc'[u] = pc[u]
    BY <1>12 DEF FinishModelRetraining
  <2> QED BY <1>12, <2>1, <2>2 DEF FinishModelRetraining, compatVars, envVars, histVars
<1>13. ASSUME NEW f \in Families, Fire(f)
       PROVE TypeOK' /\ InHandIsFamily'
  BY <1>13, <1>j DEF Fire, AfterDue, compatVars, queueVars, threadVars, histVars
<1>14. ASSUME NEW f \in Families, Misfire(f)
       PROVE TypeOK' /\ InHandIsFamily'
  BY <1>14, <1>j DEF Misfire, AfterDue, compatVars, queueVars, threadVars
<1>15. ASSUME NEW f \in Families, Complete(f)
       PROVE TypeOK' /\ InHandIsFamily'
  BY <1>15 DEF Complete, compatVars, queueVars, threadVars, envVars, histVars
<1>16. ASSUME ReloadScheduler
       PROVE TypeOK' /\ InHandIsFamily'
  BY <1>16, <1>j DEF ReloadScheduler, compatVars, queueVars, threadVars
<1>17. ASSUME NEW f \in Families, ReloadAdd(f)
       PROVE TypeOK' /\ InHandIsFamily'
  BY <1>17, <1>j DEF ReloadAdd, compatVars, queueVars, threadVars, histVars
<1>18. CASE UNCHANGED vars
  BY <1>18 DEF vars, compatVars, queueVars, threadVars, envVars, histVars
<1> QED
  BY <1>1, <1>2, <1>3, <1>4, <1>5, <1>6, <1>7, <1>8, <1>9, <1>10, <1>11, <1>12,
     <1>13, <1>14, <1>15, <1>16, <1>17, <1>18 DEF Next, ThreadStep, Deliver

\* Every variable keeps its type; in particular a completion event is consumed
\* only when one was posted, and a job is paused or modified only while the
\* job store holds it.
THEOREM TypeCorrect == Spec => []TypeOK
<1>1. Init => TypeOK /\ InHandIsFamily
  BY TypeInit DEF Init, InHandIsFamily
<1>2. (TypeOK /\ InHandIsFamily) /\ [Next]_vars => (TypeOK /\ InHandIsFamily)'
  BY TypeStep
<1> QED BY <1>1, <1>2, PTL DEF Spec

-----------------------------------------------------------------------------
(* The queue and the ledger of reports *)

\* The dispatcher's pop, with the queue's elements spelled out.
LEMMA PickCases ==
  ASSUME NEW t, TypeOK, QueueDistinct, QueuedIsQueue, Pick(t)
  PROVE  \/ UNCHANGED queueVars
         \/ /\ current = None
            /\ Head(queue) \in queued
            /\ current' = Head(queue)
            /\ queued' = queued \ {Head(queue)}
            /\ Elements(queue') = queued'
            /\ Elements(served') = Elements(served) \union {Head(queue)}
            /\ QueueDistinct'
<1>1. CASE NothingToDispatch
  BY <1>1 DEF Pick
<1>2. CASE ~NothingToDispatch
  <2> DEFINE h == Head(queue)
  <2>1. /\ current = None /\ queue # <<>>
        /\ current' = h
        /\ queued' = queued \ {h}
        /\ served' = Append(served, h)
        /\ queue' = Tail(queue)
    BY <1>2 DEF Pick, NothingToDispatch, Unqueue
  <2>2. queue \in Seq(Families) /\ served \in Seq(Families)
    BY DEF TypeOK
  <2>3. /\ h \in Families
        /\ Elements(queue) = {h} \union Elements(Tail(queue))
    BY <2>1, <2>2, ElementsHeadTail
  <2>4. /\ Len(queue) \in Nat \ {0}
        /\ DOMAIN queue = 1 .. Len(queue)
        /\ DOMAIN Tail(queue) = 1 .. Len(queue) - 1
        /\ h = queue[1]
        /\ \A i \in 1 .. Len(queue) - 1 : Tail(queue)[i] = queue[i + 1]
    BY <2>1, <2>2
  <2>5. h \notin Elements(Tail(queue))
    BY <2>4 DEF Elements, QueueDistinct
  <2>6. \A i, j \in DOMAIN Tail(queue) : Tail(queue)[i] = Tail(queue)[j] => i = j
    <3>1. SUFFICES ASSUME NEW i \in 1 .. Len(queue) - 1, NEW j \in 1 .. Len(queue) - 1,
                          queue[i + 1] = queue[j + 1]
                   PROVE  i = j
      BY <2>4
    <3>2. i + 1 = j + 1
      BY <2>4, <3>1 DEF QueueDistinct
    <3> QED BY <3>2
  <2>7. Elements(served') = Elements(served) \union {h}
    BY <2>1, <2>2, <2>3, ElementsAppend
  <2> QED BY <2>1, <2>3, <2>5, <2>6, <2>7 DEF QueuedIsQueue, QueueDistinct
<1> QED BY <1>1, <1>2

\* Appending a new family keeps the queue without duplicates.
LEMMA AppendCases ==
  ASSUME NEW t, NEW f \in Families, TypeOK, QueueDistinct, QueuedIsQueue, EnqueueNew(t, f)
  PROVE  /\ Elements(queue') = queued'
         /\ QueueDistinct'
<1>1. queue \in Seq(Families)
  BY DEF TypeOK
<1>2. Elements(queue') = Elements(queue) \union {f}
  BY <1>1, ElementsAppend DEF EnqueueNew
<1>3. /\ Len(queue) \in Nat
      /\ DOMAIN queue = 1 .. Len(queue)
      /\ DOMAIN queue' = 1 .. Len(queue) + 1
      /\ \A i \in 1 .. Len(queue) : queue'[i] = queue[i]
      /\ queue'[Len(queue) + 1] = f
  BY <1>1 DEF EnqueueNew
<1>4. \A i \in 1 .. Len(queue) : queue[i] # f
  BY <1>3 DEF QueuedIsQueue, Elements, EnqueueNew
<1>5. QueueDistinct'
  BY <1>3, <1>4 DEF QueueDistinct
<1> QED BY <1>2, <1>5 DEF QueuedIsQueue, EnqueueNew

\* Where the report ledger and the queue can change; every other step leaves
\* them alone and moves at most one thread.
LedgerVars == <<reported, pendingReports, queue, queued, current, served, todo, dropped>>

MovesOn(t) ==
  /\ UNCHANGED LedgerVars
  /\ \A u \in Threads \ {t} : pc'[u] = pc[u]
  /\ pc'[t] = "idle" => todo[t] = {}

LEMMA QuietSteps ==
  ASSUME TypeOK, Next
  PROVE  \/ \E t \in Threads, f \in Families : Report(t, f) \/ Enqueue(t, f)
         \/ \E t \in Threads : SetRetrainingCallback(t) \/ SchedulerRaises(t) \/ Pick(t)
         \/ \E t \in Threads : SkipUnregistered(t)
         \/ \E t \in Threads, f \in Families : FinishModelRetraining(t, f)
         \/ UNCHANGED <<LedgerVars, pc>>
         \/ \E t \in Threads : MovesOn(t)
<1> USE DEF LedgerVars, compatVars, queueVars, envVars, histVars, threadVars
<1>1. ASSUME NEW t \in Threads, HoldWaiting(t) \/ PauseWaiting(t) \/ LookUpJob(t) \/ ModifyJob(t) \/ AddJob(t)
      PROVE  MovesOn(t)
  <2>1. UNCHANGED LedgerVars
    BY <1>1 DEF HoldWaiting, PauseWaiting, LookUpJob, ModifyJob, AddJob
  <2>2. PICK p \in {Resume(t), "pause", "modify", "add"} : pc' = [pc EXCEPT ![t] = p]
    BY <1>1 DEF HoldWaiting, PauseWaiting, LookUpJob, ModifyJob, AddJob, DispatchStep
  <2>3. p = "idle" => todo[t] = {}
    BY <2>2 DEF Resume
  <2> QED BY <2>1, <2>2, <2>3 DEF MovesOn, TypeOK
<1>2. ASSUME NEW f \in Families, Fire(f) \/ Misfire(f) \/ Complete(f) \/ ReloadScheduler \/ ReloadAdd(f)
      PROVE  UNCHANGED <<LedgerVars, pc>>
  BY <1>2 DEF Fire, Misfire, Complete, ReloadScheduler, ReloadAdd
<1>3. ASSUME ReloadScheduler PROVE UNCHANGED <<LedgerVars, pc>>
  BY <1>3 DEF ReloadScheduler
<1> QED BY <1>1, <1>2, <1>3 DEF Next, ThreadStep, Deliver

-----------------------------------------------------------------------------
(* The inductive invariant *)

LEMMA InvInit == Init => Inv
<1> SUFFICES ASSUME Init PROVE Inv
  OBVIOUS
<1>1. queue = <<>> /\ served = <<>> /\ Elements(<<>>) = {}
  BY DEF Init, Elements
<1>2. QueueDistinct /\ QueuedIsQueue /\ CurrentServed
  BY <1>1 DEF Init, QueueDistinct, QueuedIsQueue, CurrentServed
<1>3. InHandIsFamily /\ IdleCarriesNothing
  BY DEF Init, InHandIsFamily, IdleCarriesNothing
<1>4. Ledger
  BY <1>1 DEF Init, Ledger
<1> QED BY TypeInit, <1>2, <1>3, <1>4 DEF Inv

\* Report, SetRetrainingCallback: a report enters the ledger or changes hands.
LEMMA ReportStep ==
  ASSUME Inv, NEW t \in Threads, NEW f \in Families, Report(t, f)
  PROVE  Ledger' /\ IdleCarriesNothing'
<1>1. todo[t] = {} /\ f \notin reported
  BY DEF Report, NotYetReported, Inv, IdleCarriesNothing
<1>2. CASE callback
  <2>1. /\ reported' = reported \union {f}
        /\ todo' = [todo EXCEPT ![t] = {f}]
        /\ pc' = [pc EXCEPT ![t] = "queue"]
        /\ UNCHANGED <<pendingReports, queued, served, dropped>>
    BY <1>2 DEF Report, queueVars, histVars
  <2>2. /\ todo'[t] = {f} /\ pc'[t] = "queue"
        /\ \A u \in Threads \ {t} : todo'[u] = todo[u] /\ pc'[u] = pc[u]
    BY <2>1 DEF Inv, TypeOK
  <2>3. Ledger'
    BY <1>1, <2>1, <2>2 DEF Inv, Ledger
  <2> QED BY <2>2, <2>3 DEF Inv, IdleCarriesNothing
<1>3. CASE ~callback
  <2>1. /\ reported' = reported \union {f}
        /\ pendingReports' = pendingReports \union {f}
        /\ UNCHANGED <<todo, pc, queued, served, dropped>>
    BY <1>3 DEF Report, queueVars, histVars
  <2> QED BY <1>1, <2>1 DEF Inv, Ledger, IdleCarriesNothing
<1> QED BY <1>2, <1>3

LEMMA CallbackStep ==
  ASSUME Inv, NEW t \in Threads, SetRetrainingCallback(t)
  PROVE  Ledger' /\ IdleCarriesNothing'
<1>1. todo[t] = {}
  BY DEF SetRetrainingCallback, Inv, IdleCarriesNothing
<1>2. /\ pendingReports' = {}
      /\ todo' = [todo EXCEPT ![t] = pendingReports]
      /\ pc' = [pc EXCEPT ![t] = IF pendingReports = {} THEN "idle" ELSE "queue"]
      /\ UNCHANGED <<reported, queued, served, dropped>>
  BY DEF SetRetrainingCallback, queueVars, histVars
<1>3. /\ todo'[t] = pendingReports
      /\ pc'[t] = "idle" => pendingReports = {}
      /\ \A u \in Threads \ {t} : todo'[u] = todo[u] /\ pc'[u] = pc[u]
  BY <1>2 DEF Inv, TypeOK
<1>4. Ledger'
  BY <1>1, <1>2, <1>3 DEF Inv, Ledger
<1> QED BY <1>3, <1>4 DEF Inv, IdleCarriesNothing

\* A carried report belongs to a family that neither waits nor has the turn.
LEMMA CarriedIsNew ==
  ASSUME Inv, NEW t \in Threads, NEW f \in todo[t]
  PROVE  f # current /\ f \notin queued
<1>1. f \notin queued /\ f \notin Elements(served)
  BY DEF Inv, Ledger
<1>2. f \in Families
  BY DEF Inv, TypeOK
<1> QED BY <1>1, <1>2, FamilyAssumption DEF Inv, CurrentServed

LEMMA EnqueueStep ==
  ASSUME Inv, NEW t \in Threads, NEW f \in Families, Enqueue(t, f)
  PROVE  Ledger' /\ IdleCarriesNothing' /\ QueueDistinct' /\ QueuedIsQueue' /\ CurrentServed'
<1>1. /\ f \in todo[t]
      /\ todo' = [todo EXCEPT ![t] = todo[t] \ {f}]
      /\ UNCHANGED <<reported, pendingReports, current, served, dropped>>
  BY DEF Enqueue, compatVars, histVars
<1>2. EnqueueNew(t, f)
  BY <1>1, CarriedIsNew, EnqueueCases DEF EnqueueKnown
<1>3. Elements(queue') = queued' /\ QueueDistinct'
  BY <1>2, AppendCases DEF Inv
<1>4. /\ todo'[t] = todo[t] \ {f} /\ pc'[t] # "idle"
      /\ \A u \in Threads \ {t} : todo'[u] = todo[u] /\ pc'[u] = pc[u]
  BY <1>1, <1>2 DEF Inv, TypeOK, EnqueueNew
<1>5. queued' = queued \union {f} /\ f # current
  BY <1>2 DEF EnqueueNew
<1>6. Ledger'
  BY <1>1, <1>4, <1>5 DEF Inv, Ledger
<1>7. IdleCarriesNothing'
  BY <1>4 DEF Inv, IdleCarriesNothing
<1> QED BY <1>1, <1>3, <1>5, <1>6, <1>7 DEF Inv, QueuedIsQueue, CurrentServed

LEMMA PickStep ==
  ASSUME Inv, NEW t \in Threads, Pick(t)
  PROVE  Ledger' /\ IdleCarriesNothing' /\ QueueDistinct' /\ QueuedIsQueue' /\ CurrentServed'
<1>1. UNCHANGED <<reported, pendingReports, todo, dropped>>
  BY DEF Pick, compatVars, histVars
<1>2. IdleCarriesNothing'
  <2>1. PICK p \in {Resume(t), "look"} : pc' = [pc EXCEPT ![t] = p]
    BY DEF Pick
  <2>2. p = "idle" => todo[t] = {}
    BY <2>1 DEF Resume
  <2> QED BY <1>1, <2>1, <2>2 DEF Inv, IdleCarriesNothing, TypeOK
<1>3. CASE UNCHANGED queueVars
  BY <1>1, <1>2, <1>3 DEF queueVars, Inv, Ledger, QueueDistinct, QueuedIsQueue, CurrentServed
<1>4. CASE ~UNCHANGED queueVars
  <2>1. /\ Head(queue) \in queued
        /\ current' = Head(queue)
        /\ queued' = queued \ {Head(queue)}
        /\ Elements(queue') = queued'
        /\ Elements(served') = Elements(served) \union {Head(queue)}
        /\ QueueDistinct'
    BY <1>4, PickCases DEF Inv
  <2>2. Ledger'
    BY <1>1, <2>1 DEF Inv, Ledger
  <2> QED BY <1>2, <2>1, <2>2 DEF QueuedIsQueue, CurrentServed
<1> QED BY <1>3, <1>4

LEMMA InvStep == Inv /\ [Next]_vars => Inv'
<1> SUFFICES ASSUME Inv, [Next]_vars PROVE Inv'
  OBVIOUS
<1> DEFINE Rest == Ledger /\ IdleCarriesNothing /\ QueueDistinct /\ QueuedIsQueue /\ CurrentServed
<1>1. TypeOK' /\ InHandIsFamily'
  BY TypeStep DEF Inv
<1>2. ASSUME NEW t \in Threads, NEW f \in Families, Report(t, f) PROVE Rest'
  <2>1. UNCHANGED <<queue, queued, current, served>>
    BY <1>2 DEF Report, queueVars
  <2> QED BY <1>2, <2>1, ReportStep DEF Inv, QueueDistinct, QueuedIsQueue, CurrentServed
<1>3. ASSUME NEW t \in Threads, SetRetrainingCallback(t) PROVE Rest'
  <2>1. UNCHANGED <<queue, queued, current, served>>
    BY <1>3 DEF SetRetrainingCallback, queueVars
  <2> QED BY <1>3, <2>1, CallbackStep DEF Inv, QueueDistinct, QueuedIsQueue, CurrentServed
<1>4. ASSUME NEW t \in Threads, NEW f \in Families, Enqueue(t, f) PROVE Rest'
  BY <1>4, EnqueueStep
<1>5. ASSUME NEW t \in Threads, SchedulerRaises(t) PROVE Rest'
  <2>1. /\ dropped' = dropped \union todo[t]
        /\ todo' = [todo EXCEPT ![t] = {}]
        /\ pc' = [pc EXCEPT ![t] = "idle"]
        /\ UNCHANGED <<reported, pendingReports, queue, queued, current, served>>
    BY <1>5 DEF SchedulerRaises, compatVars, queueVars
  <2>2. todo'[t] = {} /\ \A u \in Threads \ {t} : todo'[u] = todo[u] /\ pc'[u] = pc[u]
    BY <2>1 DEF Inv, TypeOK
  <2>3. Ledger'
    BY <2>1, <2>2 DEF Inv, Ledger
  <2> QED BY <2>1, <2>2, <2>3 DEF Inv, IdleCarriesNothing, QueueDistinct, QueuedIsQueue, CurrentServed
<1>6. ASSUME NEW t \in Threads, Pick(t) PROVE Rest'
  BY <1>6, PickStep
<1>7. ASSUME NEW t \in Threads, SkipUnregistered(t) PROVE Rest'
  <2>1. /\ current' = None /\ pc' = [pc EXCEPT ![t] = "pick"]
        /\ UNCHANGED <<reported, pendingReports, queue, queued, served, todo, dropped>>
    BY <1>7 DEF SkipUnregistered, compatVars, histVars
  <2>2. Ledger' /\ QueueDistinct'
    BY <2>1 DEF Inv, Ledger, QueueDistinct
  <2>3. IdleCarriesNothing'
    BY <2>1 DEF Inv, TypeOK, IdleCarriesNothing
  <2>4. QueuedIsQueue' /\ CurrentServed'
    BY <2>1, FamilyAssumption DEF Inv, TypeOK, QueuedIsQueue, CurrentServed
  <2> QED BY <2>2, <2>3, <2>4
<1>8. ASSUME NEW t \in Threads, NEW f \in Families, FinishModelRetraining(t, f) PROVE Rest'
  <2>1. /\ UNCHANGED <<reported, pendingReports, queue, queued, served, todo, dropped>>
        /\ \/ UNCHANGED <<current, pc>>
           \/ current' = None /\ pc' = [pc EXCEPT ![t] = "pick"]
    BY <1>8 DEF FinishModelRetraining, compatVars, histVars
  <2>2. Ledger' /\ QueueDistinct'
    BY <2>1 DEF Inv, Ledger, QueueDistinct
  <2>3. IdleCarriesNothing'
    BY <2>1 DEF Inv, TypeOK, IdleCarriesNothing
  <2>4. QueuedIsQueue' /\ CurrentServed'
    BY <2>1, FamilyAssumption DEF Inv, TypeOK, QueuedIsQueue, CurrentServed
  <2> QED BY <2>2, <2>3, <2>4
<1>9. ASSUME UNCHANGED <<LedgerVars, pc>> PROVE Rest'
  BY <1>9 DEF LedgerVars, Inv, Ledger, IdleCarriesNothing, QueueDistinct, QueuedIsQueue, CurrentServed
<1>10. ASSUME NEW t \in Threads, MovesOn(t) PROVE Rest'
  BY <1>10 DEF MovesOn, LedgerVars, Inv, Ledger, IdleCarriesNothing, QueueDistinct, QueuedIsQueue, CurrentServed
<1>11. UNCHANGED vars => UNCHANGED <<LedgerVars, pc>>
  BY DEF vars, LedgerVars, compatVars, queueVars, threadVars, histVars
<1>12. Rest'
  <2>1. CASE UNCHANGED vars
    BY <1>9, <1>11, <2>1
  <2>2. CASE Next
    BY <2>2, QuietSteps, <1>2, <1>3, <1>4, <1>5, <1>6, <1>7, <1>8, <1>9, <1>10 DEF Inv
  <2> QED BY <2>1, <2>2
<1> QED BY <1>1, <1>12 DEF Inv

LEMMA Invariance == Spec => []Inv
  BY InvInit, InvStep, PTL DEF Spec

\* _model_retraining_queued always equals the content of the queue, and the
\* family in turn is in neither.
THEOREM QueuedIsQueueHolds == Spec => []QueuedIsQueue
<1>1. Inv => QueuedIsQueue
  BY DEF Inv
<1> QED BY <1>1, Invariance, PTL

\* Every reported family is in exactly one place.
THEOREM ReportsAccountedHolds == Spec => []ReportsAccounted
<1>1. ASSUME Inv PROVE ReportsAccounted
  <2>1. Ledger
    BY <1>1 DEF Inv
  <2>2. ASSUME NEW x
        PROVE x \in reported <=>
              x \in pendingReports \union (UNION {todo[t] : t \in Threads})
                     \union queued \union Elements(served) \union dropped
    <3>1. x \in UNION {todo[t] : t \in Threads} <=> \E t \in Threads : x \in todo[t]
      OBVIOUS
    <3>2. x \in reported <=>
            \/ x \in pendingReports
            \/ \E t \in Threads : x \in todo[t]
            \/ x \in queued
            \/ x \in Elements(served)
            \/ x \in dropped
      BY <2>1 DEF Ledger
    <3> QED BY <3>1, <3>2
  <2>3. \A t \in Threads :
          /\ todo[t] \intersect (pendingReports \union queued \union Elements(served) \union dropped) = {}
          /\ \A u \in Threads \ {t} : todo[t] \intersect todo[u] = {}
    <3>1. TAKE t \in Threads
    <3>2. \A x \in todo[t] :
            /\ x \notin pendingReports /\ x \notin queued
            /\ x \notin Elements(served) /\ x \notin dropped
            /\ \A u \in Threads : x \in todo[u] => u = t
      BY <2>1 DEF Ledger
    <3> QED BY <3>2
  <2> QED BY <2>1, <2>2, <2>3 DEF Ledger, ReportsAccounted
<1> QED BY <1>1, Invariance, PTL

-----------------------------------------------------------------------------
(* The dispatcher never stalls by itself *)

\* A thread whose place is "pick" moves only by its own Pick.
LEMMA WakeupStep ==
  ASSUME TypeOK, NoLostWakeup, Next
  PROVE  NoLostWakeup'
<1> USE DEF NoLostWakeup
<1>1. ASSUME NEW t \in Threads, NEW f \in Families, Report(t, f) PROVE NoLostWakeup'
  <2>1. pc[t] = "idle" /\ UNCHANGED <<queue, current>> /\ (pc' = pc \/ pc' = [pc EXCEPT ![t] = "queue"])
    BY <1>1 DEF Report, queueVars
  <2> QED BY <2>1 DEF TypeOK
<1>2. ASSUME NEW t \in Threads, SetRetrainingCallback(t) PROVE NoLostWakeup'
  <2>1. pc[t] = "idle" /\ UNCHANGED <<queue, current>> /\ \E p \in Places : pc' = [pc EXCEPT ![t] = p]
    BY <1>2 DEF SetRetrainingCallback, queueVars, Places
  <2> QED BY <2>1 DEF TypeOK
<1>3. ASSUME NEW t \in Threads, NEW f \in Families, Enqueue(t, f) PROVE NoLostWakeup'
  <2>1. pc[t] = "queue" /\ UNCHANGED current
    BY <1>3 DEF Enqueue
  <2>2. CASE EnqueueKnown(t, f)
    BY <2>1, <2>2 DEF EnqueueKnown, TypeOK
  <2>3. CASE EnqueueNew(t, f)
    BY <2>1, <2>3 DEF EnqueueNew, TypeOK
  <2> QED BY <1>3, <2>2, <2>3, EnqueueCases
<1>4. ASSUME NEW t \in Threads,
             HoldWaiting(t) \/ PauseWaiting(t) \/ SchedulerRaises(t) \/ LookUpJob(t) \/ ModifyJob(t) \/ AddJob(t)
      PROVE NoLostWakeup'
  <2>1. /\ pc[t] # "pick" /\ UNCHANGED <<queue, current>>
        /\ \A u \in Threads \ {t} : pc'[u] = pc[u]
    BY <1>4 DEF HoldWaiting, PauseWaiting, SchedulerRaises, LookUpJob, ModifyJob, AddJob, queueVars, TypeOK
  <2> QED BY <2>1
<1>5. ASSUME NEW t \in Threads, Pick(t) PROVE NoLostWakeup'
  <2>1. CASE NothingToDispatch
    BY <1>5, <2>1 DEF Pick, NothingToDispatch, queueVars
  <2>2. CASE ~NothingToDispatch
    <3>1. current' = Head(queue) /\ Head(queue) \in Families
      BY <1>5, <2>2, ElementsHeadTail DEF Pick, NothingToDispatch, TypeOK
    <3> QED BY <3>1, FamilyAssumption
  <2> QED BY <2>1, <2>2
<1>6. ASSUME NEW t \in Threads, SkipUnregistered(t) PROVE NoLostWakeup'
  BY <1>6 DEF SkipUnregistered, TypeOK
<1>7. ASSUME NEW t \in Threads, NEW f \in Families, FinishModelRetraining(t, f) PROVE NoLostWakeup'
  <2>1. UNCHANGED queue
    BY <1>7 DEF FinishModelRetraining
  <2>2. CASE f = current
    BY <1>7, <2>2 DEF FinishModelRetraining, TypeOK
  <2>3. CASE f # current
    BY <1>7, <2>1, <2>3 DEF FinishModelRetraining
  <2> QED BY <2>2, <2>3
<1>8. ASSUME NEW f \in Families, Fire(f) \/ Misfire(f) \/ Complete(f) \/ ReloadAdd(f) PROVE NoLostWakeup'
  BY <1>8 DEF Fire, Misfire, Complete, ReloadAdd, queueVars, threadVars
<1>9. ASSUME ReloadScheduler PROVE NoLostWakeup'
  BY <1>9 DEF ReloadScheduler, queueVars, threadVars
<1> QED BY <1>1, <1>2, <1>3, <1>4, <1>5, <1>6, <1>7, <1>8, <1>9 DEF Next, ThreadStep, Deliver

\* Whenever a family waits and nobody has the turn, a thread is on its way
\* into _dispatch_next_model_retraining.
THEOREM NoLostWakeupHolds == Spec => []NoLostWakeup
<1>1. Init => NoLostWakeup
  BY DEF Init, NoLostWakeup
<1>2. TypeOK /\ NoLostWakeup /\ [Next]_vars => NoLostWakeup'
  BY WakeupStep DEF NoLostWakeup, vars, queueVars, threadVars
<1> QED BY <1>1, <1>2, TypeCorrect, PTL DEF Spec

\* A step that leaves the turn, the runs and the events alone, and takes
\* neither a due time nor a dispatching thread away, keeps the turn driven.
LEMMA DrivenStays ==
  ASSUME CurrentIsDriven,
         UNCHANGED <<current, running, events>>,
         robbed \subseteq robbed',
         \A t \in Threads : pc[t] \in {"look", "modify", "add"} =>
                             pc'[t] \in {"look", "modify", "add"} /\ inHand'[t] = inHand[t],
         current # None /\ jobs[current].next = "soon" =>
           jobs'[current].next = "soon" \/ current \in robbed'
  PROVE  CurrentIsDriven'
  BY DEF CurrentIsDriven

LEMMA DrivenStep ==
  ASSUME TypeOK, InHandIsFamily, CurrentIsDriven, Next
  PROVE  CurrentIsDriven'
<1> USE DEF TypeOK
<1>1. ASSUME NEW t \in Threads, NEW f \in Families, Report(t, f) PROVE CurrentIsDriven'
  <2>1. /\ pc[t] = "idle" /\ \A u \in Threads \ {t} : pc'[u] = pc[u]
        /\ UNCHANGED <<current, running, events, robbed, inHand, jobs>>
    BY <1>1 DEF Report, queueVars, histVars
  <2> QED BY <2>1, DrivenStays
<1>2. ASSUME NEW t \in Threads, SetRetrainingCallback(t) PROVE CurrentIsDriven'
  <2>1. /\ pc[t] = "idle" /\ \A u \in Threads \ {t} : pc'[u] = pc[u]
        /\ UNCHANGED <<current, running, events, robbed, inHand, jobs>>
    BY <1>2 DEF SetRetrainingCallback, queueVars, histVars
  <2> QED BY <2>1, DrivenStays
<1>3. ASSUME NEW t \in Threads, NEW f \in Families, Enqueue(t, f) PROVE CurrentIsDriven'
  <2>1. pc[t] = "queue" /\ UNCHANGED <<current, running, events, robbed, jobs>>
    BY <1>3 DEF Enqueue, histVars
  <2>2. \A u \in Threads \ {t} : pc'[u] = pc[u] /\ inHand'[u] = inHand[u]
    <3>1. CASE EnqueueKnown(t, f)
      BY <3>1 DEF EnqueueKnown
    <3>2. CASE EnqueueNew(t, f)
      BY <3>2 DEF EnqueueNew
    <3> QED BY <1>3, <3>1, <3>2, EnqueueCases
  <2> QED BY <2>1, <2>2, DrivenStays
<1>4. ASSUME NEW t \in Threads, HoldWaiting(t) PROVE CurrentIsDriven'
  <2>1. /\ pc[t] = "hold" /\ \A u \in Threads \ {t} : pc'[u] = pc[u]
        /\ UNCHANGED <<current, running, events, robbed, inHand, jobs>>
    BY <1>4 DEF HoldWaiting, queueVars, histVars
  <2> QED BY <2>1, DrivenStays
<1>5. ASSUME NEW t \in Threads, PauseWaiting(t) PROVE CurrentIsDriven'
  <2> DEFINE f == inHand[t]
  <2>1. /\ pc[t] = "pause" /\ \A u \in Threads \ {t} : pc'[u] = pc[u]
        /\ UNCHANGED <<current, running, events, inHand>>
        /\ robbed' = robbed \union
             (IF jobs[f].next = "soon" THEN {f} \intersect {current} ELSE {})
        /\ \A g \in Families \ {f} : jobs'[g] = jobs[g]
    BY <1>5 DEF PauseWaiting, queueVars
  <2>2. current # None /\ jobs[current].next = "soon" =>
          jobs'[current].next = "soon" \/ current \in robbed'
    <3>1. CASE current = f
      BY <2>1, <3>1
    <3>2. CASE current # f
      BY <2>1, <3>2
    <3> QED BY <3>1, <3>2
  <2> QED BY <2>1, <2>2, DrivenStays
<1>6. ASSUME NEW t \in Threads, SchedulerRaises(t) PROVE CurrentIsDriven'
  <2>1. /\ pc[t] \in {"pause", "modify", "add"}
        /\ \A u \in Threads \ {t} : pc'[u] = pc[u]
        /\ UNCHANGED <<current, running, events, inHand, jobs>>
        /\ robbed' = robbed \union
             (IF pc[t] # "pause" THEN {inHand[t]} \intersect {current} ELSE {})
    BY <1>6 DEF SchedulerRaises, queueVars
  <2>2. CASE pc[t] \in {"modify", "add"} /\ inHand[t] = current
    BY <2>1, <2>2 DEF CurrentIsDriven
  <2>3. CASE ~(pc[t] \in {"modify", "add"} /\ inHand[t] = current)
    BY <2>1, <2>3 DEF CurrentIsDriven
  <2> QED BY <2>2, <2>3
<1>7. ASSUME NEW t \in Threads, Pick(t) PROVE CurrentIsDriven'
  <2>1. CASE NothingToDispatch
    <3>1. /\ pc[t] = "pick" /\ \A u \in Threads \ {t} : pc'[u] = pc[u]
          /\ UNCHANGED <<current, running, events, robbed, inHand, jobs>>
      BY <1>7, <2>1 DEF Pick, queueVars, histVars
    <3> QED BY <3>1, DrivenStays
  <2>2. CASE ~NothingToDispatch
    <3>1. pc'[t] = "look" /\ inHand'[t] = current'
      BY <1>7, <2>2 DEF Pick
    <3> QED BY <3>1 DEF CurrentIsDriven
  <2> QED BY <2>1, <2>2
<1>8. ASSUME NEW t \in Threads, SkipUnregistered(t) PROVE CurrentIsDriven'
  BY <1>8 DEF SkipUnregistered, CurrentIsDriven
<1>9. ASSUME NEW t \in Threads, LookUpJob(t) PROVE CurrentIsDriven'
  <2>1. /\ pc'[t] \in {"modify", "add"} /\ \A u \in Threads \ {t} : pc'[u] = pc[u]
        /\ UNCHANGED <<current, running, events, robbed, inHand, jobs>>
    BY <1>9 DEF LookUpJob, DispatchStep, queueVars, histVars
  <2> QED BY <2>1, DrivenStays
<1>10. ASSUME NEW t \in Threads, ModifyJob(t) \/ AddJob(t) PROVE CurrentIsDriven'
  <2> DEFINE f == inHand[t]
  <2>1. f \in Families
    BY <1>10 DEF ModifyJob, AddJob, InHandIsFamily
  <2>2. /\ \A u \in Threads \ {t} : pc'[u] = pc[u]
        /\ UNCHANGED <<current, running, events, robbed, inHand>>
        /\ \A g \in Families \ {f} : jobs'[g] = jobs[g]
    BY <1>10 DEF ModifyJob, AddJob, queueVars, histVars
  <2>3. jobs'[f].next = "soon"
    <3>1. CASE ModifyJob(t)
      <4>1. jobs' = [jobs EXCEPT ![f] = [jobs[f] EXCEPT !.next = "soon"]]
        BY <3>1 DEF ModifyJob
      <4>2. jobs'[f] = [jobs[f] EXCEPT !.next = "soon"]
        BY <2>1, <4>1
      <4>3. \A j \in Jobs : [j EXCEPT !.next = "soon"].next = "soon"
        BY DEF Jobs, Absent
      <4> QED BY <2>1, <4>2, <4>3
    <3>2. CASE AddJob(t)
      BY <2>1, <3>2 DEF AddJob, OneShot
    <3> QED BY <1>10, <3>1, <3>2
  <2>4. CASE current = f
    BY <2>2, <2>3, <2>4 DEF CurrentIsDriven
  <2>5. CASE current # f
    BY <2>2, <2>5 DEF CurrentIsDriven
  <2> QED BY <2>4, <2>5
<1>11. ASSUME NEW t \in Threads, NEW f \in Families, FinishModelRetraining(t, f) PROVE CurrentIsDriven'
  <2>1. CASE f = current
    BY <1>11, <2>1 DEF FinishModelRetraining, CurrentIsDriven
  <2>2. CASE f # current
    <3>1. /\ UNCHANGED <<current, running, robbed, inHand, jobs, pc>>
          /\ events' = [events EXCEPT ![f] = @ - 1]
      BY <1>11, <2>2 DEF FinishModelRetraining, histVars
    <3>2. current # None => events'[current] = events[current]
      BY <2>2, <3>1
    <3> QED BY <3>1, <3>2 DEF CurrentIsDriven
  <2> QED BY <2>1, <2>2
<1>12. ASSUME NEW f \in Families, Fire(f) PROVE CurrentIsDriven'
  <2>1. /\ UNCHANGED <<current, events, robbed, inHand, pc>>
        /\ running' = running \union {f}
        /\ \A g \in Families \ {f} : jobs'[g] = jobs[g]
    BY <1>12 DEF Fire, queueVars, threadVars, histVars
  <2>2. CASE current = f
    BY <2>1, <2>2 DEF CurrentIsDriven
  <2>3. CASE current # f
    BY <2>1, <2>3 DEF CurrentIsDriven
  <2> QED BY <2>2, <2>3
<1>13. ASSUME NEW f \in Families, Misfire(f) PROVE CurrentIsDriven'
  <2>1. /\ UNCHANGED <<current, events, running, inHand, pc>>
        /\ robbed' = robbed \union ({f} \intersect {current})
        /\ \A g \in Families \ {f} : jobs'[g] = jobs[g]
    BY <1>13 DEF Misfire, queueVars, threadVars
  <2>2. CASE current = f
    BY <2>1, <2>2 DEF CurrentIsDriven
  <2>3. CASE current # f
    BY <2>1, <2>3 DEF CurrentIsDriven
  <2> QED BY <2>2, <2>3
<1>14. ASSUME NEW f \in Families, Complete(f) PROVE CurrentIsDriven'
  <2>1. /\ UNCHANGED <<current, jobs, robbed, inHand, pc>>
        /\ running' = running \ {f}
        /\ events' = [events EXCEPT ![f] = @ + 1]
    BY <1>14 DEF Complete, queueVars, threadVars, histVars
  <2>2. CASE current = f
    <3>1. events'[current] > 0
      BY <2>1, <2>2
    <3> QED BY <2>1, <3>1 DEF CurrentIsDriven
  <2>3. CASE current # f
    <3>1. current # None => events'[current] = events[current]
      BY <2>1, <2>3
    <3> QED BY <2>1, <2>3, <3>1 DEF CurrentIsDriven
  <2> QED BY <2>2, <2>3
<1>15. ASSUME ReloadScheduler PROVE CurrentIsDriven'
  <2>1. /\ UNCHANGED <<current, events, running, inHand, pc>>
        /\ robbed' = robbed \union {f \in Families : f = current /\ jobs[f].next = "soon"}
    BY <1>15 DEF ReloadScheduler, queueVars, threadVars
  <2> QED BY <2>1, DrivenStays
<1>16. ASSUME NEW f \in Families, ReloadAdd(f) PROVE CurrentIsDriven'
  <2>1. /\ UNCHANGED <<current, events, running, robbed, inHand, pc>>
        /\ \A g \in Families \ {f} : jobs'[g] = jobs[g]
        /\ Exists(f) => jobs'[f] = jobs[f]
    BY <1>16 DEF ReloadAdd, queueVars, threadVars, histVars
  <2>2. jobs[f].next = "soon" => Exists(f)
    BY DEF Exists, Jobs, Absent
  <2> QED BY <2>1, <2>2, DrivenStays
<1> QED BY <1>1, <1>2, <1>3, <1>4, <1>5, <1>6, <1>7, <1>8, <1>9, <1>10, <1>11, <1>12,
           <1>13, <1>14, <1>15, <1>16 DEF Next, ThreadStep, Deliver

\* The queue stalls behind the family in turn only if a late pause, a reload,
\* a misfire or a raising scheduler call took that family's run away.
THEOREM CurrentIsDrivenHolds == Spec => []CurrentIsDriven
<1>1. Init => CurrentIsDriven
  BY DEF Init, CurrentIsDriven
<1>2. Inv /\ CurrentIsDriven /\ [Next]_vars => CurrentIsDriven'
  <2>1. CurrentIsDriven /\ UNCHANGED vars => CurrentIsDriven'
    BY DEF CurrentIsDriven, vars, queueVars, threadVars, histVars
  <2> QED BY <2>1, DrivenStep DEF Inv
<1> QED BY <1>1, <1>2, Invariance, PTL DEF Spec

-----------------------------------------------------------------------------
(* Refinement *)

\* A carried report arrives at the abstract queue, a pop takes the turn, and
\* a completion, or an unregistered family, ends it.
LEMMA SerialStep == Inv /\ [Next]_vars => [Serial!Next]_(Serial!vars)
<1> SUFFICES ASSUME Inv, [Next]_vars PROVE Serial!Next \/ UNCHANGED <<queue, current, served>>
  BY DEF Serial!vars
<1>1. ASSUME NEW t \in Threads, NEW f \in Families, Enqueue(t, f)
      PROVE  Serial!Arrive(f)
  <2>1. f \in todo[t] /\ UNCHANGED <<current, served>>
    BY <1>1 DEF Enqueue
  <2>2. queue' = Append(queue, f)
    BY <1>1, <2>1, CarriedIsNew, EnqueueCases DEF EnqueueKnown, EnqueueNew
  <2>3. f \notin Elements(queue) /\ f \notin Elements(served)
    BY <2>1 DEF Inv, Ledger, QueuedIsQueue
  <2> QED BY <2>1, <2>2, <2>3 DEF Serial!Arrive, Serial!Within, Elements
<1>2. ASSUME NEW t \in Threads, Pick(t)
      PROVE  Serial!TakeTurn \/ UNCHANGED <<queue, current, served>>
  BY <1>2 DEF Pick, NothingToDispatch, queueVars, Serial!TakeTurn
<1>3. ASSUME NEW t \in Threads, SkipUnregistered(t)
      PROVE  Serial!EndTurn \/ UNCHANGED <<queue, current, served>>
  BY <1>3 DEF SkipUnregistered, Serial!EndTurn
<1>4. ASSUME NEW t \in Threads, NEW f \in Families, FinishModelRetraining(t, f)
      PROVE  Serial!EndTurn \/ UNCHANGED <<queue, current, served>>
  BY <1>4, FamilyAssumption DEF FinishModelRetraining, Serial!EndTurn
<1>5. ASSUME NEW t \in Threads,
             \/ SetRetrainingCallback(t) \/ HoldWaiting(t) \/ PauseWaiting(t)
             \/ SchedulerRaises(t) \/ LookUpJob(t) \/ ModifyJob(t) \/ AddJob(t)
      PROVE  UNCHANGED <<queue, current, served>>
  BY <1>5 DEF SetRetrainingCallback, HoldWaiting, PauseWaiting, SchedulerRaises,
              LookUpJob, ModifyJob, AddJob, queueVars
<1>6. ASSUME NEW f \in Families,
             \/ Fire(f) \/ Misfire(f) \/ Complete(f) \/ ReloadAdd(f)
             \/ \E t \in Threads : Report(t, f)
      PROVE  UNCHANGED <<queue, current, served>>
  BY <1>6 DEF Fire, Misfire, Complete, ReloadAdd, Report, queueVars
<1>7. ASSUME ReloadScheduler \/ UNCHANGED vars
      PROVE  UNCHANGED <<queue, current, served>>
  BY <1>7 DEF ReloadScheduler, vars, queueVars
<1> QED BY <1>1, <1>2, <1>3, <1>4, <1>5, <1>6, <1>7 DEF Next, ThreadStep, Deliver, Serial!Next

\* The dispatcher implements the serial queue: families get the turn in the
\* order they were queued, each at most once, one at a time.
THEOREM RetrainingIsSerial == Spec => SerialSpec
<1>1. Init => Serial!Init
  BY DEF Init, Serial!Init
<1> QED BY <1>1, SerialStep, Invariance, PTL DEF Spec, SerialSpec, Serial!Spec
-----------------------------------------------------------------------------
(* One family at a time, while nobody interferes *)

\* No save of the settings and no regular firing so far.
Calm == reloads = 0 /\ regularFires = 0

Dispatches(t) == pc[t] \in {"look", "modify", "add"}

Soon(f) == jobs[f].next = "soon"

\* Something will still run, runs, or has just run the family.
Underway(f) == Soon(f) \/ f \in running \/ events[f] > 0

\* The turn of a family is in one hand: one dispatching thread, or one due
\* time, or one run, or one completion event, always of the family in turn.
OneDriver ==
  /\ \A t \in Threads : Dispatches(t) =>
       /\ inHand[t] = current
       /\ \A u \in Threads : Dispatches(u) => u = t
  /\ \A f \in Families : Underway(f) =>
       /\ f = current
       /\ \A t \in Threads : ~Dispatches(t)
  /\ \A f \in Families :
       /\ ~(Soon(f) /\ f \in running)
       /\ events[f] > 0 => events[f] = 1 /\ ~Soon(f) /\ f \notin running

CalmOneDriver == Calm => OneDriver

\* A step that only takes drivers away keeps the turn in one hand.
LEMMA DriverStays ==
  ASSUME OneDriver,
         current' = current,
         \A t \in Threads : Dispatches(t)' => Dispatches(t) /\ inHand'[t] = inHand[t],
         \A f \in Families :
           /\ Soon(f)' => Soon(f)
           /\ f \in running' => f \in running
           /\ events'[f] = events[f]
  PROVE  OneDriver'
BY DEF OneDriver, Underway

LEMMA OneDriverInit == Init => OneDriver
BY DEF Init, OneDriver, Underway, Soon, Dispatches, OnSchedule, Absent

LEMMA OneDriverStep ==
  ASSUME TypeOK, InHandIsFamily, OneDriver, Calm', Next
  PROVE  OneDriver'
<1> USE DEF TypeOK, Dispatches, Soon
<1>1. ASSUME NEW t \in Threads, NEW f \in Families, Report(t, f) PROVE OneDriver'
  <2>1. /\ pc[t] = "idle" /\ \A u \in Threads \ {t} : pc'[u] = pc[u]
        /\ pc'[t] \in {"idle", "queue"}
        /\ UNCHANGED <<current, running, events, inHand, jobs>>
    BY <1>1 DEF Report, queueVars
  <2> QED BY <2>1, DriverStays
<1>2. ASSUME NEW t \in Threads, SetRetrainingCallback(t) PROVE OneDriver'
  <2>1. /\ pc[t] = "idle" /\ \A u \in Threads \ {t} : pc'[u] = pc[u]
        /\ pc'[t] \in {"idle", "queue"}
        /\ UNCHANGED <<current, running, events, inHand, jobs>>
    BY <1>2 DEF SetRetrainingCallback, queueVars
  <2> QED BY <2>1, DriverStays
<1>3. ASSUME NEW t \in Threads, NEW f \in Families, Enqueue(t, f) PROVE OneDriver'
  <2>1. UNCHANGED <<current, running, events, jobs>>
    BY <1>3 DEF Enqueue
  <2>2. \A u \in Threads : Dispatches(u)' => Dispatches(u) /\ inHand'[u] = inHand[u]
    <3>1. CASE EnqueueKnown(t, f)
      BY <3>1 DEF EnqueueKnown
    <3>2. CASE EnqueueNew(t, f)
      BY <3>2 DEF EnqueueNew
    <3> QED BY <1>3, <3>1, <3>2, EnqueueCases
  <2> QED BY <2>1, <2>2, DriverStays
<1>4. ASSUME NEW t \in Threads, HoldWaiting(t) PROVE OneDriver'
  <2>1. /\ UNCHANGED <<current, running, events, inHand, jobs>>
        /\ \A u \in Threads : Dispatches(u)' => Dispatches(u)
    BY <1>4 DEF HoldWaiting, queueVars, Resume
  <2> QED BY <2>1, DriverStays
<1>5. ASSUME NEW t \in Threads, PauseWaiting(t) PROVE OneDriver'
  <2>1. inHand[t] \in Families
    BY <1>5 DEF PauseWaiting, InHandIsFamily
  <2>2. /\ UNCHANGED <<current, running, events, inHand>>
        /\ \A u \in Threads : Dispatches(u)' => Dispatches(u)
    BY <1>5 DEF PauseWaiting, queueVars, Resume
  <2>3. \A f \in Families : Soon(f)' => Soon(f)
    BY <1>5, <2>1 DEF PauseWaiting, Jobs, Absent
  <2> QED BY <2>2, <2>3, DriverStays
<1>6. ASSUME NEW t \in Threads, SchedulerRaises(t) PROVE OneDriver'
  <2>1. /\ UNCHANGED <<current, running, events, inHand, jobs>>
        /\ \A u \in Threads : Dispatches(u)' => Dispatches(u)
    BY <1>6 DEF SchedulerRaises, queueVars
  <2> QED BY <2>1, DriverStays
<1>7. ASSUME NEW t \in Threads, Pick(t) PROVE OneDriver'
  <2>1. CASE NothingToDispatch
    <3>1. /\ UNCHANGED <<current, running, events, inHand, jobs>>
          /\ \A u \in Threads : Dispatches(u)' => Dispatches(u)
      BY <1>7, <2>1 DEF Pick, queueVars, Resume
    <3> QED BY <3>1, DriverStays
  <2>2. CASE ~NothingToDispatch
    <3>1. current = None /\ queue # <<>> /\ UNCHANGED <<running, events, jobs>>
      BY <1>7, <2>2 DEF Pick, NothingToDispatch
    <3>2. current' = Head(queue) /\ current' \in Families
      BY <1>7, <2>2, <3>1, ElementsHeadTail DEF Pick
    <3>3. /\ pc' = [pc EXCEPT ![t] = "look"]
          /\ inHand' = [inHand EXCEPT ![t] = Head(queue)]
      BY <1>7, <2>2 DEF Pick
    <3>4. \A u \in Threads : ~Dispatches(u)
      BY <3>1, FamilyAssumption DEF OneDriver, InHandIsFamily
    <3>5. \A f \in Families : ~Underway(f)
      BY <3>1, FamilyAssumption DEF OneDriver
    <3>6. /\ Dispatches(t)' /\ inHand'[t] = current'
          /\ \A u \in Threads : Dispatches(u)' => u = t
      BY <3>2, <3>3, <3>4
    <3>7. \A f \in Families : ~Soon(f)' /\ f \notin running' /\ ~(events'[f] > 0)
      BY <3>1, <3>5 DEF Underway
    <3> QED BY <3>6, <3>7 DEF OneDriver, Underway
  <2> QED BY <2>1, <2>2
<1>8. ASSUME NEW t \in Threads, SkipUnregistered(t) PROVE OneDriver'
  <2>1. /\ pc[t] = "look" /\ pc' = [pc EXCEPT ![t] = "pick"]
        /\ UNCHANGED <<running, events, inHand, jobs>>
    BY <1>8 DEF SkipUnregistered
  <2>2. \A u \in Threads : ~Dispatches(u)'
    BY <2>1 DEF OneDriver
  <2>3. \A f \in Families : ~Underway(f)
    BY <2>1 DEF OneDriver
  <2> QED BY <2>1, <2>2, <2>3 DEF OneDriver, Underway
<1>9. ASSUME NEW t \in Threads, LookUpJob(t) PROVE OneDriver'
  <2>1. /\ UNCHANGED <<current, running, events, inHand, jobs>>
        /\ \A u \in Threads : Dispatches(u)' => Dispatches(u)
    BY <1>9 DEF LookUpJob, queueVars
  <2> QED BY <2>1, DriverStays
<1>10. ASSUME NEW t \in Threads, ModifyJob(t) \/ AddJob(t) PROVE OneDriver'
  <2>1. /\ Dispatches(t) /\ inHand[t] \in Families
        /\ UNCHANGED <<current, running, events, inHand>>
    BY <1>10 DEF ModifyJob, AddJob, queueVars, InHandIsFamily
  <2>2. inHand[t] = current /\ (\A u \in Threads : Dispatches(u) => u = t)
    BY <2>1 DEF OneDriver
  <2>3. \A f \in Families : ~Underway(f)
    BY <2>1 DEF OneDriver
  <2>4. \A u \in Threads : ~Dispatches(u)'
    <3>1. pc' = [pc EXCEPT ![t] = Resume(t)]
      BY <1>10 DEF ModifyJob, AddJob
    <3> QED BY <2>2, <3>1 DEF Resume
  <2>5. \A f \in Families : Soon(f)' => f = current
    <3>1. \A f \in Families \ {inHand[t]} : jobs'[f] = jobs[f]
      BY <1>10, <2>1 DEF ModifyJob, AddJob
    <3> QED BY <2>2, <2>3, <3>1 DEF Underway
  <2>6. \A f \in Families : f \notin running' /\ ~(events'[f] > 0)
    BY <2>1, <2>3 DEF Underway
  <2> QED BY <2>1, <2>4, <2>5, <2>6 DEF OneDriver, Underway
<1>11. ASSUME NEW t \in Threads, NEW f \in Families, FinishModelRetraining(t, f) PROVE OneDriver'
  <2>1. /\ events[f] > 0 /\ events' = [events EXCEPT ![f] = @ - 1]
        /\ UNCHANGED <<running, inHand, jobs>>
    BY <1>11 DEF FinishModelRetraining
  <2>2. f = current /\ events[f] = 1 /\ ~Soon(f) /\ f \notin running
    BY <2>1 DEF OneDriver, Underway
  <2>3. pc[t] = "idle" /\ pc' = [pc EXCEPT ![t] = "pick"]
    BY <1>11, <2>2 DEF FinishModelRetraining
  <2>4. \A u \in Threads : ~Dispatches(u)
    BY <2>1 DEF OneDriver, Underway
  <2>5. \A g \in Families : ~Soon(g)' /\ g \notin running' /\ ~(events'[g] > 0)
    <3>1. \A g \in Families \ {f} : ~Underway(g)
      BY <2>2 DEF OneDriver
    <3>2. \A g \in Families \ {f} : events'[g] = events[g]
      BY <2>1
    <3>3. events'[f] = 0
      BY <2>1, <2>2
    <3>4. ASSUME NEW g \in Families \ {f}
          PROVE  ~Soon(g)' /\ g \notin running' /\ ~(events'[g] > 0)
      BY <2>1, <3>1, <3>2, <3>4 DEF Underway
    <3>5. ~Soon(f)' /\ f \notin running' /\ ~(events'[f] > 0)
      BY <2>1, <2>2, <3>3
    <3> QED BY <3>4, <3>5
  <2>6. \A u \in Threads : ~Dispatches(u)'
    BY <2>3, <2>4
  <2> QED BY <2>5, <2>6 DEF OneDriver, Underway
<1>12. ASSUME NEW f \in Families, Fire(f) PROVE OneDriver'
  <2>1. Soon(f)
    <3>1. ~(regularFires' = regularFires + 1)
      BY DEF Calm
    <3> QED BY <1>12, <3>1 DEF Fire
  <2>2. /\ running' = running \union {f}
        /\ UNCHANGED <<current, events, pc, inHand>>
    BY <1>12 DEF Fire, queueVars, threadVars
  <2>3. ~Soon(f)' /\ \A g \in Families \ {f} : Soon(g)' <=> Soon(g)
    BY <1>12 DEF Fire, AfterDue, Absent, OnSchedule
  <2>4. f = current /\ (\A u \in Threads : ~Dispatches(u)) /\ ~(events[f] > 0)
    BY <2>1 DEF OneDriver, Underway
  <2>5. \A g \in Families \ {f} : ~Underway(g)
    BY <2>4 DEF OneDriver
  <2>6. \A g \in Families \ {f} : ~Soon(g)' /\ g \notin running' /\ ~(events'[g] > 0)
    BY <2>2, <2>3, <2>5 DEF Underway
  <2>7. \A u \in Threads : ~Dispatches(u)'
    BY <2>2, <2>4
  <2> QED BY <2>2, <2>3, <2>4, <2>6, <2>7 DEF OneDriver, Underway
<1>13. ASSUME NEW f \in Families, Misfire(f) PROVE OneDriver'
  <2>1. UNCHANGED <<current, running, events, pc, inHand>>
    BY <1>13 DEF Misfire, queueVars, threadVars
  <2>2. \A g \in Families : Soon(g)' => Soon(g)
    BY <1>13 DEF Misfire, AfterDue, Absent, OnSchedule
  <2> QED BY <2>1, <2>2, DriverStays
<1>14. ASSUME NEW f \in Families, Complete(f) PROVE OneDriver'
  <2>1. /\ f \in running /\ running' = running \ {f}
        /\ events' = [events EXCEPT ![f] = @ + 1]
        /\ UNCHANGED <<current, jobs, pc, inHand>>
    BY <1>14 DEF Complete, queueVars, threadVars
  <2>2. f = current /\ ~Soon(f) /\ (\A u \in Threads : ~Dispatches(u))
    BY <2>1 DEF OneDriver, Underway
  <2>3. events'[f] = 1
    <3>1. ~(events[f] > 0) /\ events[f] \in Nat
      BY <2>1 DEF OneDriver
    <3> QED BY <2>1, <3>1
  <2>4. \A g \in Families \ {f} : ~Underway(g)
    BY <2>2 DEF OneDriver
  <2>5. \A g \in Families \ {f} : events'[g] = events[g]
    BY <2>1
  <2>6. \A g \in Families \ {f} : ~Soon(g)' /\ g \notin running' /\ ~(events'[g] > 0)
    BY <2>1, <2>4, <2>5 DEF Underway
  <2>7. (\A u \in Threads : ~Dispatches(u)') /\ ~Soon(f)' /\ f \notin running'
    BY <2>1, <2>2
  <2> QED BY <2>1, <2>2, <2>3, <2>6, <2>7 DEF OneDriver, Underway
<1>15. ASSUME ReloadScheduler PROVE OneDriver'
  BY <1>15 DEF ReloadScheduler, Calm
<1>16. ASSUME NEW f \in Families, ReloadAdd(f) PROVE OneDriver'
  <2>1. UNCHANGED <<current, running, events, pc, inHand>>
    BY <1>16 DEF ReloadAdd, queueVars, threadVars
  <2>2. \A g \in Families : Soon(g)' => Soon(g)
    BY <1>16 DEF ReloadAdd, OnSchedule
  <2> QED BY <2>1, <2>2, DriverStays
<1> QED BY <1>1, <1>2, <1>3, <1>4, <1>5, <1>6, <1>7, <1>8, <1>9, <1>10, <1>11, <1>12,
           <1>13, <1>14, <1>15, <1>16 DEF Next, ThreadStep, Deliver

\* The two counters only grow, so the past of a calm state is calm.
LEMMA CalmBefore ==
  ASSUME TypeOK, Next, Calm'
  PROVE  Calm
<1> USE DEF Calm, TypeOK, envVars
<1>1. ASSUME NEW t \in Threads, NEW f \in Families,
             Report(t, f) \/ Enqueue(t, f) \/ FinishModelRetraining(t, f)
      PROVE  Calm
  BY <1>1 DEF Report, Enqueue, FinishModelRetraining
<1>2. ASSUME NEW t \in Threads,
             \/ SetRetrainingCallback(t) \/ HoldWaiting(t) \/ PauseWaiting(t)
             \/ SchedulerRaises(t) \/ Pick(t)
      PROVE  Calm
  BY <1>2 DEF SetRetrainingCallback, HoldWaiting, PauseWaiting, SchedulerRaises, Pick
<1>3. ASSUME NEW t \in Threads,
             SkipUnregistered(t) \/ LookUpJob(t) \/ ModifyJob(t) \/ AddJob(t)
      PROVE  Calm
  BY <1>3 DEF SkipUnregistered, LookUpJob, ModifyJob, AddJob
<1>4. ASSUME NEW f \in Families, Fire(f) \/ Misfire(f) \/ Complete(f) \/ ReloadAdd(f)
      PROVE  Calm
  BY <1>4 DEF Fire, Misfire, Complete, ReloadAdd
<1>5. ASSUME ReloadScheduler PROVE Calm
  BY <1>5 DEF ReloadScheduler
<1> QED BY <1>1, <1>2, <1>3, <1>4, <1>5 DEF Next, ThreadStep, Deliver

\* As long as no settings were saved and no regular schedule fired, no two
\* affected families are in training at the same time.
THEOREM OneFamilyUndisturbedHolds == Spec => []OneFamilyUndisturbed
<1>1. Init => CalmOneDriver
  BY OneDriverInit DEF CalmOneDriver
<1>2. Inv /\ CalmOneDriver /\ [Next]_vars => CalmOneDriver'
  <2>1. CalmOneDriver /\ UNCHANGED vars => CalmOneDriver'
    BY DEF CalmOneDriver, Calm, OneDriver, Underway, Soon, Dispatches,
           vars, queueVars, threadVars, envVars
  <2> QED BY <2>1, OneDriverStep, CalmBefore DEF Inv, CalmOneDriver
<1>3. Inv /\ CalmOneDriver => OneFamilyUndisturbed
  <2> SUFFICES ASSUME Inv, CalmOneDriver, Calm
               PROVE  Cardinality(running \intersect reported) <= 1
    BY DEF OneFamilyUndisturbed, OneFamilyAtATime, Calm
  <2>1. running \intersect reported \subseteq {current}
    BY DEF CalmOneDriver, OneDriver, Underway, Inv, TypeOK
  <2>2. IsFiniteSet({current}) /\ Cardinality({current}) = 1
    BY FS_Singleton
  <2> QED BY <2>1, <2>2, FS_Subset
<1> QED BY <1>1, <1>2, <1>3, Invariance, PTL DEF Spec
=============================================================================
