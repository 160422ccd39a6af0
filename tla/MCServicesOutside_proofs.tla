---------------------- MODULE MCServicesOutside_proofs --------------------
(* Proofs about services that face the outside, for any number of threads, *)
(* keys, names, requests, links, sign-outs and restarts.                   *)
(*                                                                         *)
(* McpKeys: the hashes in the cache are the rows of some moment.  That     *)
(* they know every key that was shown, and none whose deletion has         *)
(* returned, rests on the lock: a load holds it from its reading to its    *)
(* keeping, and who has changed a row needs it before the user is told.    *)
(* So while a load is under way neither set can grow, and whoever makes    *)
(* one grow empties the cache in the same step.                            *)
(*                                                                         *)
(* SignIns: a session from before a sign-out is over while the process     *)
(* lives, for its epoch is behind the one in force and any still to come   *)
(* (EpochIsOver), or its key is none of these (SecretIsOver).  A sign-out  *)
(* that began alone brings that about, because those that begin after it   *)
(* go no less far (LeadsOn), and because a new secret has a number nobody  *)
(* has seen (SecretsAreNew).  The end of the process does not undo it if   *)
(* the same is so of .env and of every copy of it that a thread will put   *)
(* in its place (EpochIsGone, SecretIsGone), as it is when nobody had a    *)
(* copy at the moment the sign-out was written.                            *)
(*                                                                         *)
(* YahooAccess: a caller is on the session from taking the lock to leaving *)
(* it, less the pauses of a request that is not a bulk call's; such a call *)
(* has one request, so that the pauses of that request are the call's.     *)
(* Whom the pause holds back is not past its wait until it is over         *)
(* (LateIsPast); while an intraday caller is on the session nobody else    *)
(* adds intraday bars to the cache, and so it asks for news (AsksForNews). *)
(*                                                                         *)
(* McpLimits: whatever still counts of a key's calls and of an address'    *)
(* wrong credentials is in the tables (TimesFit), and so is every lockout  *)
(* and notice that still holds (HeldFit): a sweep takes only what does     *)
(* not count, and selecting twice is selecting once (ThoseOfThose).        *)
(*                                                                         *)
(* LearnCards: how many cards go before a card numbers them without gaps,  *)
(* so a sorted list exists and is the set it sorts (SortedLists); a        *)
(* session is a cut of two such lists one after the other (FilledUp,       *)
(* CutLists).  A card whose answers never met has one thread at work on    *)
(* it, which has read the number of answers that is there.                 *)
EXTENDS MCServicesOutside, FiniteSetTheorems, SequenceTheorems, TLAPS

Places == {"idle", "add", "drop new", "drop old", "load", "use"}
ThreadState == [do : Places, key : Keys \cup {Idle.key}, name : Names \cup {NoName}, read : SUBSET Keys]

Typed ==
  /\ row \in [Keys -> Names \cup {NoName}]
  /\ made \subseteq Keys /\ hashes \subseteq Keys /\ written \subseteq Keys /\ queued \subseteq Keys
  /\ shown \subseteq Keys /\ gone \subseteq Keys
  /\ loaded \in BOOLEAN /\ over \in BOOLEAN
  /\ holder \in Threads \cup {Nobody}
  /\ at \in [Threads -> ThreadState]
  /\ ~loaded => hashes = {}
  /\ \A t \in Threads : Does(t, "use") => at[t].key \in Keys

\* A key whose row is gone never comes back; the user knows of no row that is not there.
Told ==
  /\ Rows \subseteq made /\ shown \subseteq Rows /\ gone \subseteq made \ Rows
  /\ \A t \in Threads : Does(t, "drop old") => at[t].key \in made \ Rows

\* A set of keys that answers for the table: what KeysAreCurrent asks of the cache.
UpToDate(known) == shown \subseteq known /\ gone \cap known = {}

\* Whoever loads holds the lock, and what it has read is up to date until it keeps it.
Loading ==
  /\ \A t \in Threads : holder = t <=> Does(t, "load")
  /\ \A t \in Threads : Does(t, "load") => UpToDate(at[t].read)
  /\ loaded => UpToDate(hashes)

\* Until two creations meet there is room for the row that is about to be inserted.
Bounded ==
  /\ IsFiniteSet(Rows)
  /\ \A j, k \in Rows : row[j] = row[k] => j = k
  /\ \A t \in Threads : Does(t, "add") => at[t].name \in Names
  /\ ~over => /\ \A t, u \in Threads : Creating(t) /\ Creating(u) => t = u
              /\ Cardinality(Rows) <= KeysMax
              /\ \A t \in Threads : Does(t, "add") => Cardinality(Rows) < KeysMax

Inv == Typed /\ Told /\ Loading /\ Bounded

-----------------------------------------------------------------------------
LEMMA IdleState == Idle \in ThreadState /\ Idle.do = "idle"
  BY DEF Idle, ThreadState, Places

\* What the other threads see of a thread that goes on.
Others(t) == \A u \in Threads \ {t} : at'[u] = at[u]

LEMMA EndState ==
  ASSUME Typed, NEW t \in Threads, End(t)
  PROVE  at' \in [Threads -> ThreadState] /\ at'[t].do = "idle" /\ Others(t)
  BY IdleState DEF Typed, End, Others

LEMMA MoveState ==
  ASSUME Typed, NEW t \in Threads, NEW s \in ThreadState, at' = [at EXCEPT ![t] = s]
  PROVE  at' \in [Threads -> ThreadState] /\ at'[t] = s /\ Others(t)
  BY DEF Typed, Others

LEMMA GotoState ==
  ASSUME Typed, NEW t \in Threads, NEW d \in Places, NEW k \in Keys, Goto(t, d, k)
  PROVE  /\ at' \in [Threads -> ThreadState] /\ Others(t)
         /\ at'[t].do = d /\ at'[t].key = k /\ at'[t].name = NoName
<1> DEFINE s == [Idle EXCEPT !.do = d, !.key = k]
<1>1. s \in ThreadState /\ s.do = d /\ s.key = k /\ s.name = NoName
  BY DEF Idle, ThreadState
<1>2. at' = [at EXCEPT ![t] = s]
  BY DEF Goto
<1> HIDE DEF s
<1> QED
  BY <1>1, <1>2, MoveState

LEMMA InitInv == Init => Inv
<1> SUFFICES ASSUME Init PROVE Inv
  OBVIOUS
<1>1. Rows = {}
  BY DEF Init, Rows
<1>2. Typed
  <2>1. at \in [Threads -> ThreadState] /\ \A t \in Threads : at[t].do = "idle"
    BY IdleState DEF Init
  <2> QED
    BY <2>1 DEF Init, Typed, Does
<1>a. \A t \in Threads : at[t].do = "idle"
  BY IdleState DEF Init
<1>3. Told
  BY <1>1, <1>a DEF Init, Told, Does
<1>4. Loading
  BY <1>a, NameAssumption DEF Init, Loading, Does, Nobody
<1>b. Cardinality(Rows) = 0 /\ IsFiniteSet(Rows)
  BY <1>1, FS_EmptySet
<1>5. Bounded
  <2>1. Cardinality(Rows) <= KeysMax
    BY <1>b, BoundAssumption
  <2>2. \A t \in Threads : ~Does(t, "add") /\ ~Creating(t)
    BY <1>a DEF Does, Creating
  <2>3. \A j, k \in Rows : row[j] = row[k] => j = k
    BY <1>1
  <2> QED
    BY <1>b, <2>1, <2>2, <2>3 DEF Bounded
<1> QED
  BY <1>2, <1>3, <1>4, <1>5 DEF Inv

LEMMA ListStep == ASSUME Inv, NEW t \in Threads, NEW n \in Names, List(t, n) PROVE Inv'
<1> USE DEF Inv
<1> DEFINE s == [Idle EXCEPT !.do = "add", !.name = n]
<1>a. s \in ThreadState /\ s.do = "add" /\ s.name = n
  BY DEF Idle, ThreadState, Places
<1>b. at' = [at EXCEPT ![t] = s]
  BY DEF List
<1> HIDE DEF s
<1>0. at' \in [Threads -> ThreadState] /\ at'[t].do = "add" /\ at'[t].name = n /\ Others(t)
  BY <1>a, <1>b, MoveState
<1>r. Rows' = Rows /\ made' = made
  BY DEF List, Rows
<1>1. Typed'
  BY <1>0, <1>r DEF List, cached, Does, Typed, Others
<1>2. Told'
  BY <1>0, <1>r DEF List, cached, Does, Typed, Others, Told
<1>3. Loading'
  BY <1>0, <1>r DEF List, cached, Does, Typed, Others, Told, Loading, UpToDate
<1>4. Bounded'
  BY <1>0, <1>r DEF List, cached, Does, Typed, Others, Bounded, Creating
<1> QED
  BY <1>1, <1>2, <1>3, <1>4

LEMMA AddStep == ASSUME Inv, NEW t \in Threads, Add(t) PROVE Inv'
<1> USE DEF Inv
<1>a. CASE Taken(at[t].name)
  <2>0. at' \in [Threads -> ThreadState] /\ at'[t].do = "idle" /\ Others(t) /\ UNCHANGED <<row, made>>
    BY <1>a, EndState DEF Add
  <2>1. Typed'
    BY <2>0 DEF Add, cached, Typed, Does, Others
  <2>2. Told'
    BY <2>0 DEF Add, cached, Does, Others, Told, Rows
  <2>3. Loading'
    BY <2>0 DEF Add, cached, Does, Others, Loading, UpToDate
  <2>4. Bounded'
    BY <2>0 DEF Add, cached, Does, Others, Bounded, Creating, Rows
  <2> QED
    BY <2>1, <2>2, <2>3, <2>4
<1>b. CASE ~Taken(at[t].name)
  <2>a. PICK k \in Keys \ made : /\ row' = [row EXCEPT ![k] = at[t].name] /\ made' = made \cup {k}
                                  /\ Goto(t, "drop new", k)
    BY <1>b DEF Add
  <2>b. at[t].name \in Names /\ at[t].name # NoName
    BY NameAssumption DEF Add, Bounded, NoName
  <2>c. k \notin Rows /\ Rows' = Rows \cup {k}
    BY <2>a, <2>b DEF Rows, Typed, Told
  <2>0. at' \in [Threads -> ThreadState] /\ at'[t].do = "drop new" /\ Others(t)
    BY <2>a, GotoState DEF Places
  <2>1. Typed'
    BY <2>a, <2>b, <2>0 DEF Add, cached, Typed, Does, Others
  <2>2. Told'
    BY <2>a, <2>c, <2>0 DEF Add, Does, Others, Told
  <2>3. Loading'
    BY <2>0 DEF Add, cached, Does, Others, Loading, UpToDate
  <2>4. Bounded'
    <3>1. IsFiniteSet(Rows') /\ Cardinality(Rows') = Cardinality(Rows) + 1
      BY <2>c, FS_AddElement DEF Bounded
    <3>2. \A i, j \in Rows' : row'[i] = row'[j] => i = j
      BY <1>b, <2>a, <2>c DEF Bounded, Taken, Rows, Typed
    <3>3. Cardinality(Rows) \in Nat
      BY FS_CardinalityType DEF Bounded
    <3>4. ~over => \A u \in Threads \ {t} : ~Does(u, "add")
      BY DEF Add, Bounded, Creating, Does
    <3> QED
      <4>1. over' = over /\ \A u \in Threads : Creating(u)' => Creating(u)
        BY <2>0 DEF Add, Does, Others, Creating
      <4>2. \A u \in Threads : Does(u, "add")' => u # t /\ Does(u, "add") /\ at'[u].name = at[u].name
        BY <2>0 DEF Others, Does
      <4>3. ~over => Cardinality(Rows') <= KeysMax
        <5>1. ~over => Cardinality(Rows) < KeysMax
          BY DEF Add, Bounded
        <5> QED
          BY <3>1, <3>3, <5>1, BoundAssumption
      <4> QED
        BY <3>1, <3>2, <3>4, <4>1, <4>2, <4>3 DEF Bounded
  <2> QED
    BY <2>1, <2>2, <2>3, <2>4
<1> QED
  BY <1>a, <1>b

LEMMA DropForNewStep == ASSUME Inv, NEW t \in Threads, DropForNew(t) PROVE Inv'
<1> USE DEF Inv
<1>0. at' \in [Threads -> ThreadState] /\ at'[t].do = "idle" /\ Others(t)
  BY EndState DEF DropForNew
<1>r. Rows' = Rows /\ made' = made
  BY DEF DropForNew, Rows
<1>k. at[t].key \in Rows => at[t].key \in Keys
  BY DEF Rows
<1>1. Typed'
  BY <1>0, <1>k DEF DropForNew, Invalidate, Does, Typed, Others
<1>2. Told'
  BY <1>0, <1>r DEF DropForNew, Invalidate, LockIsFree, Does, Typed, Others, Told
<1>3. Loading'
  <2>1. \A u \in Threads : ~Does(u, "load") /\ holder # u
    BY NameAssumption DEF DropForNew, Invalidate, LockIsFree, Loading, Nobody
  <2> QED
    BY <1>0, <2>1 DEF DropForNew, Invalidate, Does, Others, Loading
<1>4. Bounded'
  BY <1>0, <1>r DEF DropForNew, Invalidate, LockIsFree, Does, Typed, Others, Bounded, Creating
<1> QED
  BY <1>1, <1>2, <1>3, <1>4

LEMMA DeleteStep == ASSUME Inv, NEW t \in Threads, NEW k \in Keys, Delete(t, k) PROVE Inv'
<1> USE DEF Inv
<1>0. at' \in [Threads -> ThreadState] /\ Others(t) /\ at'[t].do = "drop old" /\ at'[t].key = k
  BY GotoState DEF Delete, Places
<1>r. Rows' = Rows \ {k} /\ made' = made
  BY DEF Delete, Rows, Typed
<1>1. Typed'
  BY <1>0 DEF Delete, cached, Does, Typed, Others, Rows
<1>2. Told'
  BY <1>0, <1>r DEF Delete, Does, Others, Told
<1>3. Loading'
  BY <1>0  DEF Delete, cached, Does, Typed, Others, Told, Loading, UpToDate, Rows
<1>4. Bounded'
  <2>2. IsFiniteSet(Rows') /\ Cardinality(Rows') <= Cardinality(Rows)
    BY <1>r, FS_Subset DEF Bounded
  <2>3. Cardinality(Rows) \in Nat /\ Cardinality(Rows') \in Nat
    BY <2>2, FS_CardinalityType DEF Bounded
  <2>4. \A i, j \in Rows' : row'[i] = row'[j] => i = j
    BY <1>r DEF Delete, Bounded, Rows, Typed
  <2> QED
    <3>1. over' = over /\ \A u \in Threads : Creating(u)' => u # t /\ Creating(u)
      BY <1>0 DEF Delete, Others, Creating
    <3>2. \A u \in Threads : Does(u, "add")' => Does(u, "add") /\ at'[u].name = at[u].name
      BY <1>0 DEF Others, Does
    <3>3. ~over => Cardinality(Rows') <= KeysMax
      BY <2>2, <2>3, BoundAssumption DEF Bounded
    <3>4. ~over => \A u \in Threads : Does(u, "add") => Cardinality(Rows') < KeysMax
      BY <2>2, <2>3, BoundAssumption DEF Bounded
    <3> QED
      BY <2>2, <2>4, <3>1, <3>2, <3>3, <3>4 DEF Bounded
<1> QED
  BY <1>1, <1>2, <1>3, <1>4

LEMMA DropForOldStep == ASSUME Inv, NEW t \in Threads, DropForOld(t) PROVE Inv'
<1> USE DEF Inv
<1>0. at' \in [Threads -> ThreadState] /\ at'[t].do = "idle" /\ Others(t)
  BY EndState DEF DropForOld
<1>r. Rows' = Rows /\ made' = made
  BY DEF DropForOld, Rows
<1>k. at[t].key \in Keys
  BY DEF DropForOld, Told, Typed
<1>1. Typed'
  BY <1>0, <1>k DEF DropForOld, Invalidate, Does, Typed, Others
<1>2. Told'
  BY <1>0, <1>r DEF DropForOld, Invalidate, LockIsFree, Does, Typed, Others, Told
<1>3. Loading'
  <2>1. \A u \in Threads : ~Does(u, "load") /\ holder # u
    BY NameAssumption DEF DropForOld, Invalidate, LockIsFree, Loading, Nobody
  <2> QED
    BY <1>0, <2>1 DEF DropForOld, Invalidate, Does, Others, Loading
<1>4. Bounded'
  BY <1>0, <1>r DEF DropForOld, Invalidate, LockIsFree, Does, Typed, Others, Bounded, Creating
<1> QED
  BY <1>1, <1>2, <1>3, <1>4

LEMMA LoadStep == ASSUME Inv, NEW t \in Threads, NEW k \in Keys, Load(t, k) PROVE Inv'
<1> USE DEF Inv
<1> DEFINE s == [Idle EXCEPT !.do = "load", !.key = k, !.read = Rows]
<1>a. s \in ThreadState /\ s.do = "load" /\ s.read = Rows
  BY DEF Idle, ThreadState, Places, Rows
<1>b. at' = [at EXCEPT ![t] = s]
  BY DEF Load
<1> HIDE DEF s
<1>0. at' \in [Threads -> ThreadState] /\ at'[t].do = "load" /\ at'[t].read = Rows /\ Others(t)
  BY <1>a, <1>b, MoveState
<1>r. Rows' = Rows /\ made' = made
  BY DEF Load, Rows
<1>1. Typed'
  BY <1>0, <1>r DEF Load, Does, Typed, Others
<1>2. Told'
  BY <1>0, <1>r DEF Load, Does, Typed, Others, Told
<1>3. Loading'
  BY <1>0, <1>r, NameAssumption DEF Load, Does, Typed, Others, Told, Loading, UpToDate, Nobody
<1>4. Bounded'
  BY <1>0, <1>r DEF Load, Does, Typed, Others, Bounded, Creating
<1> QED
  BY <1>1, <1>2, <1>3, <1>4

LEMMA MatchedState ==
  ASSUME Typed, NEW t \in Threads, NEW k \in Keys \cup {Idle.key}, NEW known \in SUBSET Keys, Matched(t, k, known)
  PROVE  /\ at' \in [Threads -> ThreadState] /\ at'[t].do \in {"idle", "use"} /\ Others(t)
         /\ at'[t].do = "use" => at'[t].key \in Keys
  BY EndState, GotoState DEF Matched, Places

LEMMA KeepStep == ASSUME Inv, NEW t \in Threads, Keep(t) PROVE Inv'
<1> USE DEF Inv
<1>a. at[t].key \in Keys \cup {Idle.key} /\ at[t].read \in SUBSET Keys
  BY DEF Typed, ThreadState
<1>0. /\ at' \in [Threads -> ThreadState] /\ at'[t].do \in {"idle", "use"} /\ Others(t)
      /\ at'[t].do = "use" => at'[t].key \in Keys
  BY <1>a, MatchedState DEF Keep
<1>r. Rows' = Rows /\ made' = made
  BY DEF Keep, Rows
<1>1. Typed'
  BY <1>0, <1>r, <1>a DEF Keep, Does, Typed, Others
<1>2. Told'
  BY <1>0, <1>r DEF Keep, Does, Typed, Others, Told
<1>3. Loading'
  BY <1>0, <1>r, <1>a, NameAssumption DEF Keep, Does, Typed, Others, Told, Loading, UpToDate, Nobody
<1>4. Bounded'
  BY <1>0, <1>r DEF Keep, Does, Typed, Others, Bounded, Creating
<1> QED
  BY <1>1, <1>2, <1>3, <1>4

LEMMA MatchStep == ASSUME Inv, NEW t \in Threads, NEW k \in Keys, Match(t, k) PROVE Inv'
<1> USE DEF Inv
<1>0. /\ at' \in [Threads -> ThreadState] /\ at'[t].do \in {"idle", "use"} /\ Others(t)
      /\ at'[t].do = "use" => at'[t].key \in Keys
  BY MatchedState DEF Match, Typed
<1>r. Rows' = Rows /\ made' = made
  BY DEF Match, Rows
<1>1. Typed'
  BY <1>0, <1>r DEF Match, cached, Does, Typed, Others
<1>2. Told'
  BY <1>0, <1>r DEF Match, cached, Does, Typed, Others, Told
<1>3. Loading'
  BY <1>0, <1>r DEF Match, cached, Does, Typed, Others, Told, Loading, UpToDate
<1>4. Bounded'
  BY <1>0, <1>r DEF Match, cached, Does, Typed, Others, Bounded, Creating
<1> QED
  BY <1>1, <1>2, <1>3, <1>4

LEMMA RecordUseStep == ASSUME Inv, NEW t \in Threads, RecordUse(t) PROVE Inv'
<1> USE DEF Inv
<1>0. at' \in [Threads -> ThreadState] /\ at'[t].do = "idle" /\ Others(t)
  BY EndState DEF RecordUse
<1>a. at[t].key \in Keys
  BY DEF RecordUse, Typed, Does
<1>r. Rows' = Rows /\ made' = made
  BY DEF RecordUse, Rows
<1>1. Typed'
  BY <1>0, <1>r, <1>a DEF RecordUse, Does, Typed, Others
<1>2. Told'
  BY <1>0, <1>r DEF RecordUse, Does, Typed, Others, Told
<1>3. Loading'
  BY <1>0, <1>r DEF RecordUse, Does, Typed, Others, Loading, UpToDate
<1>4. Bounded'
  BY <1>0, <1>r DEF RecordUse, Does, Typed, Others, Bounded, Creating
<1> QED
  BY <1>1, <1>2, <1>3, <1>4

-----------------------------------------------------------------------------
LEMMA NextInv == Inv /\ [Next]_vars => Inv'
<1> SUFFICES ASSUME Inv, [Next]_vars PROVE Inv'
  OBVIOUS
<1>1. ASSUME NEW k \in Keys, WriteUse(k) \/ IntervalEnds(k) PROVE Inv'
  <2>1. UNCHANGED <<row, made, loaded, hashes, holder, at, shown, gone, over>>
    BY <1>1 DEF WriteUse, IntervalEnds
  <2>2. written' \subseteq Keys /\ queued' \subseteq Keys
    BY <1>1 DEF WriteUse, IntervalEnds, Inv, Typed
  <2>3. Typed'
    BY <2>1, <2>2 DEF Inv, Typed, Does
  <2> QED
    BY <2>1, <2>3 DEF Inv, Told, Loading, UpToDate, Bounded, Creating, Does, Rows
<1>2. CASE UNCHANGED vars
  BY <1>2 DEF vars, Inv, Typed, Told, Loading, UpToDate, Bounded, Creating, Does, Rows
<1> QED
  BY <1>1, <1>2, ListStep, AddStep, DropForNewStep, DeleteStep, DropForOldStep, LoadStep, KeepStep, MatchStep,
     RecordUseStep DEF Next

\* A key that its user was shown is known to the cache and a key whose deletion has
\* returned is not, whatever loads, creations and deletions overlap; names stay apart, and
\* the number of keys stays within the limit until two creations overlap.
THEOREM KeysHoldAlways == Spec => []KeysHold
<1>1. Init => Inv
  BY InitInv
<1>2. Inv /\ [Next]_vars => Inv'
  BY NextInv
<1>3. Inv => KeysHold
  BY DEF Inv, Typed, Told, Loading, UpToDate, Bounded, KeysHold, TypeOK, KeysAreCurrent, KeysBounded, Rows
<1> QED
  BY <1>1, <1>2, <1>3, PTL DEF Spec

-----------------------------------------------------------------------------
(* SignIns *)

Session == [epoch : Nat, key : Nat, born : Nat]
Request == [op : {"none", "login", "step-up", "change", "reset", "logout", "rotate", "save"},
            at : {"idle", "enforce", "check", "record", "sign", "step", "claims", "mark", "store", "hash file",
                  "blank", "blank file", "bump", "epoch", "epoch file", "epoch env", "clear", "key file", "key env",
                  "save file"},
            ok : BOOLEAN, link : Links \cup {CHOOSE l \in Links : TRUE}, epoch : Nat, no : Nat,
            alone : BOOLEAN, signed : BOOLEAN, copy : [epoch : Nat, key : Nat]]

SignTyped ==
  /\ {env, file} \subseteq [epoch : Nat, key : Nat]
  /\ failed \in Nat /\ barred \in BOOLEAN /\ tried \in Nat
  /\ links \in [Links -> {"none", "live", "late", "used"}]
  /\ sessions \subseteq Session /\ stepUps \subseteq sessions
  /\ signReq \in [Requests -> Request]
  /\ signOuts \in Nat /\ out \in Nat /\ filed \in Nat /\ resets \in [Links -> Nat]

\* What a restart may find in .env: what is there, and what threads will put in its place.
Copies == {file} \cup {signReq[r].copy : r \in {q \in Requests : Signing!Holds(q)}}

\* A new secret has a number of its own, and nobody has seen it before it is in force.
Rotating(r) == signReq[r].at \in {"key file", "key env"}
SecretsAreNew ==
  /\ env.key <= signOuts /\ \A c \in Copies : c.key <= signOuts
  /\ \A s \in sessions : s.key <= s.born /\ s.born <= signOuts
  /\ \A r \in Requests : Rotating(r) =>
       /\ signReq[r].no # env.key
       /\ \A s \in sessions : s.key # signReq[r].no
       /\ \A q \in Requests : Rotating(q) /\ signReq[q].no = signReq[r].no => q = r

\* A session that cannot become valid any more while the process lives, ...
EpochIsOver(s) ==
  /\ s.epoch < env.epoch
  /\ \A r \in Requests : Signing!Bumping(r) => s.epoch < signReq[r].epoch
SecretIsOver(s) ==
  /\ s.key # env.key
  /\ \A r \in Requests : Rotating(r) => s.key # signReq[r].no
SignedOutStay == out <= signOuts /\ \A s \in sessions : s.born < out => EpochIsOver(s) \/ SecretIsOver(s)

\* ... and one that cannot after its end either.
EpochIsGone(s) ==
  /\ s.epoch <= env.epoch /\ \A c \in Copies : s.epoch < c.epoch
  /\ \A r \in Requests : Signing!Bumping(r) => s.epoch < signReq[r].epoch
SecretIsGone(s) ==
  /\ \A c \in Copies : s.key # c.key
  /\ \A r \in Requests : Rotating(r) => s.key # signReq[r].no
FiledStay == filed <= signOuts /\ \A s \in sessions : s.born < filed => EpochIsGone(s) \/ SecretIsGone(s)

\* A sign-out that began alone: those that began after it go further than it does.
LeadsOn(r) ==
  /\ \A s \in sessions : s.born < signReq[r].no => s.epoch < signReq[r].epoch
  /\ signReq[r].epoch <= env.epoch + 1
  /\ \A q \in Requests : Signing!Bumping(q) => signReq[r].epoch <= signReq[q].epoch
AloneLeadOn ==
  \A r \in Requests : /\ Signing!Bumping(r) /\ signReq[r].alone => LeadsOn(r)
                      /\ Signing!Bumping(r) \/ Rotating(r) => signReq[r].no <= signOuts
                      /\ Rotating(r) => signReq[r].alone

\* Of passwords still to be checked while the lock is on.
Checking == {r \in Requests : signReq[r].at = "check"}
TriesLeft == barred => tried + Cardinality(Checking) < Cardinality(Requests)

\* A reset link that was not looked up twice before it was marked.
Works(r, l) == signReq[r].op = "reset" /\ signReq[r].link = l /\ signReq[r].at \in {"mark", "store"}
LinksOnce ==
  /\ \A r \in Requests : signReq[r].op = "reset" => signReq[r].at \notin {"enforce", "check", "record", "claims"}
  /\ \A l, k \in Links : links[l] = "live" /\ links[k] = "live" => l = k
  /\ \A l \in Links : l \notin raced =>
       /\ \A r, q \in Requests : Works(r, l) /\ Works(q, l) => r = q
       /\ resets[l] <= 1
       /\ resets[l] = 1 => links[l] \in {"late", "used"} /\ \A r \in Requests : ~Works(r, l)
       /\ \A r \in Requests : Works(r, l) => links[l] # "none" /\ (signReq[r].at = "store" => links[l] \in {"late", "used"})

SignInv == SignTyped /\ SecretsAreNew /\ SignedOutStay /\ FiledStay /\ AloneLeadOn /\ TriesLeft /\ LinksOnce

LEMMA IdleRequest ==
  /\ Signing!NoRequest \in Request /\ Signing!NoRequest.at = "idle" /\ Signing!NoRequest.op = "none"
  /\ Signing!NoRequest.alone /\ Signing!NoRequest.copy \in [epoch : Nat, key : Nat]
BY DEF Signing!NoRequest, Request

RequestsStay(r) == \A q \in Requests \ {r} : signReq'[q] = signReq[q]
LEMMA RequestMoves ==
  ASSUME SignTyped, NEW r \in Requests, NEW s \in Request, signReq' = [signReq EXCEPT ![r] = s]
  PROVE  signReq' \in [Requests -> Request] /\ signReq'[r] = s /\ RequestsStay(r)
BY DEF SignTyped, RequestsStay

\* Whoever is to change the settings.
Signs(s) == s.at \in {"hash file", "blank file", "epoch", "epoch file", "epoch env", "key file", "key env", "save file"}
LEMMA OnlyThoseSign ==
  ASSUME NEW r
  PROVE  /\ Signing!Bumping(r) \/ Rotating(r) \/ Signing!Holds(r) => Signs(signReq[r])
         /\ Signing!Bumping(r)' \/ Rotating(r)' \/ Signing!Holds(r)' => Signs(signReq'[r])
BY Zenon DEF Signing!Bumping, Rotating, Signing!Holds, Signing!Copying, Signs

\* A sign-out under way goes on as it began, or ends.
GoesOn(r) ==
  /\ Rotating(r)' => Rotating(r) /\ signReq'[r].no = signReq[r].no /\ signReq'[r].alone = signReq[r].alone
  /\ Signing!Bumping(r)' => /\ Signing!Bumping(r) /\ signReq'[r].no = signReq[r].no
                            /\ signReq'[r].alone = signReq[r].alone /\ signReq'[r].epoch = signReq[r].epoch

\* Steps after which .env may hold only what it may have held before.
LEMMA CopiesStay ==
  ASSUME SignInv, UNCHANGED <<env, signOuts, out, filed>>, sessions' \subseteq sessions, Copies' \subseteq Copies,
         \A r \in Requests : GoesOn(r)
  PROVE  SecretsAreNew' /\ SignedOutStay' /\ FiledStay' /\ AloneLeadOn'
<1>1. SecretsAreNew'
  <2>1. /\ env'.key <= signOuts' /\ \A c \in Copies' : c.key <= signOuts'
        /\ \A s \in sessions' : s.key <= s.born /\ s.born <= signOuts'
    BY DEF SignInv, SecretsAreNew
  <2>2. ASSUME NEW r \in Requests, Rotating(r)'
        PROVE  /\ signReq'[r].no # env'.key /\ \A s \in sessions' : s.key # signReq'[r].no
               /\ \A q \in Requests : Rotating(q)' /\ signReq'[q].no = signReq'[r].no => q = r
    <3>1. \A q \in Requests : Rotating(q)' => Rotating(q) /\ signReq'[q].no = signReq[q].no
      BY DEF GoesOn
    <3> QED
      BY <2>2, <3>1 DEF SignInv, SecretsAreNew
  <2> QED
    BY <2>1, <2>2 DEF SecretsAreNew
<1>2. SignedOutStay'
  BY DEF SignInv, SignedOutStay, EpochIsOver, SecretIsOver, GoesOn
<1>3. FiledStay'
  BY DEF SignInv, FiledStay, EpochIsGone, SecretIsGone, GoesOn
<1>4. AloneLeadOn'
  BY DEF SignInv, AloneLeadOn, LeadsOn, GoesOn
<1> QED
  BY <1>1, <1>2, <1>3, <1>4

\* Steps that leave the settings alone.
LEMMA SettingsStay ==
  ASSUME SignInv, UNCHANGED <<env, file, signOuts, out, filed>>, sessions' \subseteq sessions,
         \A r \in Requests : Signs(signReq'[r]) => signReq'[r] = signReq[r]
  PROVE  SecretsAreNew' /\ SignedOutStay' /\ FiledStay' /\ AloneLeadOn'
<1>1. ASSUME NEW r \in Requests, signReq'[r] = signReq[r]
      PROVE  GoesOn(r) /\ (Signing!Holds(r)' => Signing!Holds(r))
  BY <1>1, Zenon DEF GoesOn, Rotating, Signing!Bumping, Signing!Holds, Signing!Copying
<1>2. \A r \in Requests : GoesOn(r)
  BY <1>1, OnlyThoseSign DEF GoesOn
<1>3. \A r \in Requests : Signing!Holds(r)' => Signing!Holds(r) /\ signReq'[r].copy = signReq[r].copy
  BY <1>1, OnlyThoseSign
<1>4. Copies' \subseteq Copies
  BY <1>3 DEF Copies
<1> QED
  BY <1>2, <1>4, CopiesStay

LEMMA TriesStay ==
  ASSUME SignInv, barred' => barred, tried' = tried,
         \A r \in Requests : signReq'[r].at = "check" => signReq[r].at = "check"
  PROVE  TriesLeft'
<1>1. Checking' \subseteq Checking /\ IsFiniteSet(Checking)
  BY RequestsAssumption, FS_Subset DEF Checking
<1>2. Cardinality(Checking') <= Cardinality(Checking) /\ Cardinality(Checking') \in Nat /\ Cardinality(Checking) \in Nat
  BY <1>1, FS_Subset, FS_CardinalityType
<1>3. Cardinality(Requests) \in Nat
  BY RequestsAssumption, FS_CardinalityType
<1> QED
  BY <1>2, <1>3 DEF SignInv, SignTyped, TriesLeft

Early == {"enforce", "check", "record", "claims"}
LEMMA LinksStay ==
  ASSUME SignInv, UNCHANGED <<links, resets, raced>>,
         \A r \in Requests :
           \/ signReq'[r] = signReq[r]
           \/ signReq'[r].op # "reset"
           \/ (signReq[r].op = "reset" /\ signReq'[r].at \notin Early \cup {"mark", "store"})
  PROVE  LinksOnce'
<1>1. \A r \in Requests, l \in Links : Works(r, l)' => Works(r, l) /\ signReq'[r] = signReq[r]
  BY DEF Works
<1>2. \A r \in Requests : signReq'[r].op = "reset" => signReq'[r].at \notin Early
  BY DEF SignInv, LinksOnce, Early
<1> QED
  BY <1>1, <1>2 DEF SignInv, LinksOnce, Early

\* Steps of one request that change neither settings nor links.
LEMMA QuietStep ==
  ASSUME SignInv, NEW r \in Requests, NEW s \in Request, signReq' = [signReq EXCEPT ![r] = s], ~Signs(s),
         UNCHANGED <<env, file, signOuts, out, filed, links, resets, raced>>,
         sessions' \subseteq sessions, stepUps' \subseteq sessions',
         failed' \in Nat, barred' \in BOOLEAN, tried' \in Nat,
         s.op # "reset" \/ (signReq[r].op = "reset" /\ s.at \notin Early \cup {"mark", "store"}),
         TriesLeft'
  PROVE  SignInv'
<1>1. signReq' \in [Requests -> Request] /\ signReq'[r] = s /\ RequestsStay(r)
  BY RequestMoves DEF SignInv
<1>2. SignTyped'
  BY <1>1 DEF SignInv, SignTyped
<1>3. SecretsAreNew' /\ SignedOutStay' /\ FiledStay' /\ AloneLeadOn'
  BY <1>1, SettingsStay DEF RequestsStay
<1>4. LinksOnce'
  BY <1>1, LinksStay DEF RequestsStay
<1> QED
  BY <1>2, <1>3, <1>4 DEF SignInv

\* ... and no password is on its way to be checked either.
LEMMA QuieterStep ==
  ASSUME SignInv, NEW r \in Requests, NEW s \in Request, signReq' = [signReq EXCEPT ![r] = s], ~Signs(s),
         UNCHANGED <<env, file, signOuts, out, filed, links, resets, raced, tried>>,
         sessions' \subseteq sessions, stepUps' \subseteq sessions', s.at # "check",
         failed' \in Nat, barred' \in BOOLEAN, barred' => barred,
         s.op # "reset" \/ (signReq[r].op = "reset" /\ s.at \notin Early \cup {"mark", "store"})
  PROVE  SignInv'
<1>1. signReq' \in [Requests -> Request] /\ signReq'[r] = s /\ RequestsStay(r)
  BY RequestMoves DEF SignInv
<1>2. TriesLeft'
  BY <1>1, TriesStay DEF RequestsStay
<1> QED
  BY <1>2, QuietStep DEF SignInv, SignTyped

\* What every request under way is.
LEMMA RequestTyped ==
  ASSUME SignInv, NEW r \in Requests
  PROVE  /\ signReq[r] \in Request /\ stepUps \subseteq sessions
         /\ failed \in Nat /\ barred \in BOOLEAN /\ tried \in Nat
         /\ signReq[r].op = "reset" => signReq[r].at \notin Early
BY DEF SignInv, SignTyped, LinksOnce, Early

LEMMA AskStep ==
  ASSUME SignInv, NEW r \in Requests, NEW op \in Signing!Ops, Signing!Ask(r, op)
  PROVE  SignInv'
<1> DEFINE s == [Signing!NoRequest EXCEPT !.op = op, !.at = "enforce"]
<1>1. /\ signReq' = [signReq EXCEPT ![r] = s] /\ op \in {"login", "step-up", "change"}
      /\ UNCHANGED <<env, file, signOuts, out, filed, links, resets, raced, tried, sessions, stepUps, failed, barred>>
  BY DEF Signing!Ask, Signing!settings, Signing!throttle, Signing!cookies, Signing!history
<1>2. s \in Request /\ s.at = "enforce" /\ s.op = op
  BY <1>1, IdleRequest DEF Request
<1> HIDE DEF s
<1> QED
  BY <1>1, <1>2, RequestTyped, QuieterStep DEF Signs

LEMMA EnforceStep == ASSUME SignInv, NEW r \in Requests, Signing!Enforce(r) PROVE SignInv'
<1>1. /\ UNCHANGED <<env, file, signOuts, out, filed, links, resets, raced, tried, sessions, stepUps, failed, barred>>
      /\ signReq[r].at = "enforce"
  BY DEF Signing!Enforce, Signing!At, Signing!settings, Signing!throttle, Signing!cookies, Signing!history
<1>2. CASE barred
  <2>1. signReq' = [signReq EXCEPT ![r] = Signing!NoRequest]
    BY <1>2 DEF Signing!Enforce, Signing!Refuses, Signing!End
  <2> QED
    BY <1>1, <2>1, IdleRequest, RequestTyped, QuieterStep DEF Signs
<1>3. CASE ~barred
  <2> DEFINE s == [signReq[r] EXCEPT !.at = "check"]
  <2>1. signReq' = [signReq EXCEPT ![r] = s]
    BY <1>3 DEF Signing!Enforce, Signing!Refuses, Signing!Goto
  <2>2. s \in Request /\ s.at = "check" /\ s.op = signReq[r].op /\ s.op # "reset"
    BY <1>1, RequestTyped DEF Request, Early
  <2> HIDE DEF s
  <2>3. TriesLeft'
    BY <1>1, <1>3 DEF TriesLeft
  <2> QED
    BY <1>1, <2>1, <2>2, <2>3, RequestTyped, QuietStep DEF Signs
<1> QED
  BY <1>2, <1>3

LEMMA CheckPasswordStep == ASSUME SignInv, NEW r \in Requests, Signing!CheckPassword(r) PROVE SignInv'
<1>1. PICK ok \in BOOLEAN : signReq' = [signReq EXCEPT ![r].at = "record", ![r].ok = ok]
  BY DEF Signing!CheckPassword
<1> DEFINE s == [signReq[r] EXCEPT !.at = "record", !.ok = ok]
<1>2. /\ UNCHANGED <<env, file, signOuts, out, filed, links, resets, raced, sessions, stepUps, failed, barred>>
      /\ signReq[r].at = "check" /\ tried' = IF barred THEN tried + 1 ELSE tried
  BY DEF Signing!CheckPassword, Signing!At, Signing!settings, Signing!cookies, Signing!history
<1>3. signReq' = [signReq EXCEPT ![r] = s]
  BY <1>1, RequestTyped DEF SignInv, SignTyped, Request
<1>4. s \in Request /\ s.at = "record" /\ s.op # "reset"
  BY <1>2, RequestTyped DEF Request, Early
<1> HIDE DEF s
<1>5. Checking' = Checking \ {r} /\ r \in Checking /\ IsFiniteSet(Checking)
  <2>1. signReq'[r] = s /\ RequestsStay(r)
    BY <1>3, <1>4, RequestMoves DEF SignInv
  <2> QED
    BY <1>2, <1>4, <2>1, RequestsAssumption, FS_Subset DEF Checking, RequestsStay
<1>6. TriesLeft'
  <2>1. /\ Cardinality(Checking') = Cardinality(Checking) - 1 /\ Cardinality(Checking) \in Nat
        /\ Cardinality(Requests) \in Nat
    BY <1>5, RequestsAssumption, FS_RemoveElement, FS_CardinalityType
  <2> QED
    BY <1>2, <2>1, RequestTyped DEF SignInv, TriesLeft
<1>7. tried' \in Nat
  BY <1>2, RequestTyped
<1> QED
  BY <1>2, <1>3, <1>4, <1>6, <1>7, RequestTyped, QuietStep DEF Signs

LEMMA RecordAttemptStep == ASSUME SignInv, NEW r \in Requests, Signing!RecordAttempt(r) PROVE SignInv'
<1>1. /\ UNCHANGED <<env, file, signOuts, out, filed, links, resets, raced, sessions, stepUps>>
      /\ signReq[r].at = "record"
  BY DEF Signing!RecordAttempt, Signing!At, Signing!settings, Signing!cookies, Signing!history
<1>2. CASE signReq[r].ok
  <2>1. /\ Signing!ClearFailures
        /\ signReq' = [signReq EXCEPT ![r].at = Signing!After(r), ![r].ok = FALSE]
    BY <1>2 DEF Signing!RecordAttempt
  <2> DEFINE s == [signReq[r] EXCEPT !.at = Signing!After(r), !.ok = FALSE]
  <2>2. signReq' = [signReq EXCEPT ![r] = s]
    BY <2>1, RequestTyped DEF SignInv, SignTyped, Request
  <2>3. Signing!After(r) \in {"sign", "step", "claims"}
    BY DEF Signing!After
  <2>4. s \in Request /\ s.at \in {"sign", "step", "claims"} /\ s.op # "reset"
    BY <1>1, <2>3, RequestTyped DEF Request, Early
  <2> HIDE DEF s
  <2>5. failed' = 0 /\ barred' = (barred /\ failed = 0) /\ UNCHANGED tried
    BY <2>1 DEF Signing!ClearFailures
  <2> QED
    BY <1>1, <2>2, <2>4, <2>5, RequestTyped, QuieterStep DEF Signs
<1>3. CASE ~signReq[r].ok
  <2>1. Signing!RecordFailure /\ signReq' = [signReq EXCEPT ![r] = Signing!NoRequest]
    BY <1>3 DEF Signing!RecordAttempt, Signing!End
  <2>2. /\ failed' = failed + 1
        /\ \/ barred' = TRUE /\ tried' = 0
           \/ barred' = barred /\ tried' = tried
    BY <2>1 DEF Signing!RecordFailure
  <2>3. /\ signReq'[r] = Signing!NoRequest /\ RequestsStay(r)
        /\ Checking' \subseteq Requests \ {r} /\ IsFiniteSet(Requests)
    <3>1. signReq'[r] = Signing!NoRequest /\ RequestsStay(r)
      BY <2>1, IdleRequest, RequestMoves DEF SignInv
    <3> QED
      BY <3>1, IdleRequest, RequestsAssumption DEF Checking
  <2>4. Cardinality(Checking') < Cardinality(Requests)
    <3>1. Cardinality(Requests \ {r}) = Cardinality(Requests) - 1 /\ IsFiniteSet(Requests \ {r})
      BY <2>3, FS_RemoveElement
    <3>2. Cardinality(Checking') <= Cardinality(Requests \ {r})
      BY <2>3, <3>1, FS_Subset
    <3>3. IsFiniteSet(Checking')
      BY <2>3, <3>1, FS_Subset
    <3>4. Cardinality(Checking') \in Nat /\ Cardinality(Requests) \in Nat
      BY <2>3, <3>3, FS_CardinalityType
    <3> QED
      BY <3>1, <3>2, <3>4
  <2>5. Cardinality(Checking') \in Nat /\ Cardinality(Requests) \in Nat
    BY <2>3, FS_RemoveElement, FS_Subset, FS_CardinalityType
  <2>6. TriesLeft'
    <3>1. CASE barred' = TRUE /\ tried' = 0
      BY <2>4, <2>5, <3>1 DEF TriesLeft
    <3>2. CASE barred' = barred /\ tried' = tried
      <4>1. \A q \in Requests : signReq'[q].at = "check" => signReq[q].at = "check"
        BY <2>3, IdleRequest DEF RequestsStay
      <4> QED
        BY <3>2, <4>1, TriesStay
    <3> QED
      BY <2>2, <3>1, <3>2
  <2>7. barred' \in BOOLEAN
    BY <2>2, RequestTyped, Zenon
  <2>8. failed' \in Nat /\ tried' \in Nat
    BY <2>2, RequestTyped
  <2> QED
    BY <1>1, <2>1, <2>6, <2>7, <2>8, IdleRequest, RequestTyped, QuietStep DEF Signs
<1> QED
  BY <1>2, <1>3

LEMMA StepUpStep == ASSUME SignInv, NEW r \in Requests, Signing!StepUp(r) PROVE SignInv'
<1>1. /\ UNCHANGED <<env, file, signOuts, out, filed, links, resets, raced, tried, sessions, failed, barred>>
      /\ stepUps' \in {stepUps} \cup {stepUps \cup {s} : s \in sessions}
      /\ signReq' = [signReq EXCEPT ![r] = Signing!NoRequest]
  BY DEF Signing!StepUp, Signing!settings, Signing!throttle, Signing!history, Signing!End
<1>2. stepUps' \subseteq sessions'
  BY <1>1, RequestTyped
<1> QED
  BY <1>1, <1>2, IdleRequest, RequestTyped, QuieterStep DEF Signs

LEMMA ClaimsStep == ASSUME SignInv, NEW r \in Requests, Signing!Claims(r) PROVE SignInv'
<1>1. /\ UNCHANGED <<env, file, signOuts, out, filed, links, resets, raced, tried, sessions, stepUps, failed, barred>>
      /\ signReq[r].at = "claims"
  BY DEF Signing!Claims, Signing!At, Signing!settings, Signing!throttle, Signing!cookies, Signing!history
<1>2. CASE signReq' = [signReq EXCEPT ![r] = Signing!NoRequest]
  BY <1>1, <1>2, IdleRequest, RequestTyped, QuieterStep DEF Signs
<1>3. ASSUME NEW signed \in BOOLEAN, signReq' = [signReq EXCEPT ![r].at = "store", ![r].signed = signed]
      PROVE  SignInv'
  <2> DEFINE s == [signReq[r] EXCEPT !.at = "store", !.signed = signed]
  <2>1. signReq' = [signReq EXCEPT ![r] = s]
    BY <1>3, RequestTyped DEF SignInv, SignTyped, Request
  <2>2. s \in Request /\ s.at = "store" /\ s.op # "reset"
    BY <1>1, RequestTyped DEF Request, Early
  <2> HIDE DEF s
  <2> QED
    BY <1>1, <2>1, <2>2, RequestTyped, QuieterStep DEF Signs
<1> QED
  BY <1>2, <1>3 DEF Signing!Claims, Signing!End

LEMMA LogOutEverywhereStep == ASSUME SignInv, NEW r \in Requests, Signing!LogOutEverywhere(r) PROVE SignInv'
<1> DEFINE s == [Signing!NoRequest EXCEPT !.op = "logout", !.at = "bump"]
<1>1. /\ UNCHANGED <<env, file, signOuts, out, filed, links, resets, raced, tried, sessions, stepUps, failed, barred>>
      /\ signReq' = [signReq EXCEPT ![r] = s]
  BY DEF Signing!LogOutEverywhere, Signing!settings, Signing!throttle, Signing!cookies, Signing!history
<1>2. s \in Request /\ s.at = "bump" /\ s.op = "logout"
  BY IdleRequest DEF Request
<1> HIDE DEF s
<1> QED
  BY <1>1, <1>2, RequestTyped, QuieterStep DEF Signs

LEMMA ClearStep == ASSUME SignInv, NEW r \in Requests, Signing!Clear(r) PROVE SignInv'
<1>1. /\ UNCHANGED <<env, file, signOuts, out, filed, links, resets, raced, tried, sessions, stepUps>>
      /\ signReq[r].at = "clear" /\ failed' = 0 /\ barred' = (barred /\ failed = 0)
  BY DEF Signing!Clear, Signing!At, Signing!settings, Signing!cookies, Signing!history, Signing!ClearFailures
<1>2. CASE signReq[r].signed
  <2> DEFINE s == [signReq[r] EXCEPT !.at = "sign"]
  <2>1. signReq' = [signReq EXCEPT ![r] = s]
    BY <1>2 DEF Signing!Clear, Signing!Goto
  <2>2. s \in Request /\ s.at = "sign" /\ s.op = signReq[r].op
    BY RequestTyped DEF Request
  <2> HIDE DEF s
  <2> QED
    BY <1>1, <2>1, <2>2, RequestTyped, QuieterStep DEF Signs, Early
<1>3. CASE ~signReq[r].signed
  <2>1. signReq' = [signReq EXCEPT ![r] = Signing!NoRequest]
    BY <1>3 DEF Signing!Clear, Signing!End
  <2> QED
    BY <1>1, <2>1, IdleRequest, RequestTyped, QuieterStep DEF Signs
<1> QED
  BY <1>2, <1>3

\* Steps that change links, and at most one request.
LEMMA LinkStep ==
  ASSUME SignInv, LinksOnce',
         UNCHANGED <<env, file, signOuts, out, filed, tried, sessions, stepUps, failed, barred>>,
         links' \in [Links -> {"none", "live", "late", "used"}], resets' \in [Links -> Nat],
         \/ signReq' = signReq
         \/ \E r \in Requests, s \in Request :
              ~Signs(s) /\ s.at # "check" /\ signReq' = [signReq EXCEPT ![r] = s]
  PROVE  SignInv'
<1>1. /\ signReq' \in [Requests -> Request]
      /\ \A q \in Requests : signReq'[q] = signReq[q] \/ (~Signs(signReq'[q]) /\ signReq'[q].at # "check")
  <2>1. CASE signReq' = signReq
    BY <2>1 DEF SignInv, SignTyped
  <2>2. ASSUME NEW r \in Requests, NEW s \in Request,
               ~Signs(s), s.at # "check", signReq' = [signReq EXCEPT ![r] = s]
        PROVE  <1>1!1 /\ <1>1!2
    BY <2>2, RequestMoves DEF SignInv, RequestsStay
  <2> QED
    BY <2>1, <2>2
<1>2. SignTyped'
  BY <1>1 DEF SignInv, SignTyped
<1>3. SecretsAreNew' /\ SignedOutStay' /\ FiledStay' /\ AloneLeadOn'
  BY <1>1, SettingsStay
<1>4. TriesLeft'
  BY <1>1, TriesStay
<1> QED
  BY <1>2, <1>3, <1>4 DEF SignInv

LEMMA IssueLinkStep == ASSUME SignInv, NEW l \in Links, Signing!IssueLink(l) PROVE SignInv'
<1>1. /\ UNCHANGED <<env, file, signOuts, out, filed, tried, sessions, stepUps, failed, barred, signReq, resets, raced>>
      /\ links[l] = "none" /\ links' = Signing!Issued(l)
  BY DEF Signing!IssueLink, Signing!settings, Signing!throttle, Signing!cookies, Signing!history
<1>2. /\ links' \in [Links -> {"none", "live", "late", "used"}] /\ links'[l] = "live"
      /\ \A k \in Links \ {l} : links'[k] = IF links[k] \in {"live", "late"} THEN "used" ELSE links[k]
  BY <1>1 DEF Signing!Issued, Signing!Unused, SignInv, SignTyped
<1>3. LinksOnce'
  BY <1>1, <1>2 DEF SignInv, LinksOnce, Works
<1> QED
  BY <1>1, <1>2, <1>3, LinkStep DEF SignInv, SignTyped

LEMMA LinkExpiresStep == ASSUME SignInv, NEW l \in Links, Signing!LinkExpires(l) PROVE SignInv'
<1>1. /\ UNCHANGED <<env, file, signOuts, out, filed, tried, sessions, stepUps, failed, barred, signReq, resets, raced>>
      /\ links[l] = "live" /\ links' = [links EXCEPT ![l] = "late"]
  BY DEF Signing!LinkExpires, Signing!settings, Signing!throttle, Signing!cookies, Signing!history
<1>2. /\ links' \in [Links -> {"none", "live", "late", "used"}] /\ links'[l] = "late"
      /\ \A k \in Links \ {l} : links'[k] = links[k]
  BY <1>1 DEF SignInv, SignTyped
<1>3. LinksOnce'
  BY <1>1, <1>2 DEF SignInv, LinksOnce, Works
<1> QED
  BY <1>1, <1>2, <1>3, LinkStep DEF SignInv, SignTyped

LEMMA LookUpStep == ASSUME SignInv, NEW r \in Requests, NEW l \in Links, Signing!LookUp(r, l) PROVE SignInv'
<1> DEFINE s == [Signing!NoRequest EXCEPT !.op = "reset", !.at = "mark", !.link = l]
<1>1. /\ UNCHANGED <<env, file, signOuts, out, filed, tried, sessions, stepUps, failed, barred, links, resets>>
      /\ links[l] = "live" /\ signReq' = [signReq EXCEPT ![r] = s]
      /\ raced' = IF \E q \in Requests : signReq[q].at = "mark" /\ signReq[q].link = l THEN raced \cup {l} ELSE raced
  BY DEF Signing!LookUp, Signing!At, Signing!settings, Signing!throttle, Signing!cookies
<1>2. s \in Request /\ s.at = "mark" /\ s.op = "reset" /\ s.link = l
  BY IdleRequest DEF Request
<1> HIDE DEF s
<1>3. signReq'[r] = s /\ RequestsStay(r)
  BY <1>1, <1>2, RequestMoves DEF SignInv
<1>4. /\ \A k \in Links \ {l} : ~Works(r, k)'
      /\ \A q \in Requests \ {r}, k \in Links : Works(q, k)' <=> Works(q, k)
      /\ Works(r, l)' /\ signReq'[r].at = "mark"
  BY <1>2, <1>3 DEF Works, RequestsStay
<1>5. l \notin raced' => l \notin raced /\ \A q \in Requests : ~Works(q, l)
  BY <1>1 DEF Works, SignInv, LinksOnce
<1>6. \A k \in Links : k \notin raced' =>
       /\ \A p, q \in Requests : Works(p, k)' /\ Works(q, k)' => p = q
       /\ resets'[k] <= 1
       /\ resets'[k] = 1 => links'[k] \in {"late", "used"} /\ \A p \in Requests : ~Works(p, k)'
       /\ \A p \in Requests : Works(p, k)' => links'[k] # "none" /\ (signReq'[p].at = "store" => links'[k] \in {"late", "used"})
  <2> SUFFICES ASSUME NEW k \in Links, k \notin raced'
               PROVE  /\ \A p, q \in Requests : Works(p, k)' /\ Works(q, k)' => p = q
                      /\ resets'[k] <= 1
                      /\ resets'[k] = 1 => links'[k] \in {"late", "used"} /\ \A p \in Requests : ~Works(p, k)'
                      /\ \A p \in Requests : Works(p, k)' => links'[k] # "none" /\ (signReq'[p].at = "store" => links'[k] \in {"late", "used"})
    OBVIOUS
  <2>1. k \notin raced
    BY <1>1
  <2>2. CASE k = l
    BY <1>1, <1>4, <1>5, <2>1, <2>2 DEF SignInv, LinksOnce
  <2>3. CASE k # l
    <3>1. \A p \in Requests : Works(p, k)' => Works(p, k) /\ signReq'[p] = signReq[p]
      BY <1>3, <1>4, <2>3 DEF RequestsStay
    <3> QED
      BY <1>1, <3>1, <2>1 DEF SignInv, LinksOnce
  <2> QED
    BY <2>2, <2>3
<1>7. LinksOnce'
  <2>1. \A q \in Requests : signReq'[q].op = "reset" => signReq'[q].at \notin {"enforce", "check", "record", "claims"}
    BY <1>2, <1>3 DEF RequestsStay, SignInv, LinksOnce
  <2> QED
    BY <1>1, <1>6, <2>1 DEF SignInv, LinksOnce
<1> QED
  BY <1>1, <1>2, <1>7, LinkStep DEF SignInv, SignTyped, Signs

LEMMA MarkLinkStep == ASSUME SignInv, NEW r \in Requests, Signing!MarkLink(r) PROVE SignInv'
<1> DEFINE s == [signReq[r] EXCEPT !.at = "store"]
<1>1. /\ UNCHANGED <<env, file, signOuts, out, filed, tried, sessions, stepUps, failed, barred, resets, raced>>
      /\ signReq[r].at = "mark" /\ links' = [links EXCEPT ![signReq[r].link] = "used"]
      /\ signReq' = [signReq EXCEPT ![r] = s]
  BY DEF Signing!MarkLink, Signing!At, Signing!Marked, Signing!Goto, Signing!settings, Signing!throttle,
         Signing!cookies, Signing!history
<1>2. s \in Request /\ s.at = "store" /\ s.op = signReq[r].op /\ s.link = signReq[r].link
  BY RequestTyped DEF Request
<1> HIDE DEF s
<1>3. signReq'[r] = s /\ RequestsStay(r)
  BY <1>1, <1>2, RequestMoves DEF SignInv
<1>4. /\ links' \in [Links -> {"none", "live", "late", "used"}]
      /\ \A l \in Links : links'[l] = IF l = signReq[r].link THEN "used" ELSE links[l]
  BY <1>1 DEF SignInv, SignTyped
<1>5. \A q \in Requests, l \in Links : Works(q, l)' <=> Works(q, l)
  BY <1>1, <1>2, <1>3 DEF Works, RequestsStay
<1>6. \A q \in Requests, l \in Links :
        Works(q, l)' /\ signReq'[q].at = "store" => (q = r /\ l = signReq[r].link) \/ signReq[q].at = "store"
  BY <1>2, <1>3 DEF Works, RequestsStay
<1>7. LinksOnce'
  <2>1. \A q \in Requests : signReq'[q].op = "reset" => signReq'[q].at \notin {"enforce", "check", "record", "claims"}
    BY <1>2, <1>3 DEF RequestsStay, SignInv, LinksOnce
  <2> QED
    BY <1>1, <1>4, <1>5, <1>6, <2>1 DEF SignInv, LinksOnce
<1> QED
  BY <1>1, <1>2, <1>4, <1>7, LinkStep DEF SignInv, SignTyped, Signs

\* Steps of time that start and end no request.
LEMMA TimeStep ==
  ASSUME SignInv, UNCHANGED <<env, file, signOuts, out, filed, links, resets, raced, signReq, tried, failed>>,
         sessions' \subseteq sessions, stepUps' \subseteq sessions', barred' \in BOOLEAN, barred' => barred
  PROVE  SignInv'
<1>1. SignTyped'
  BY DEF SignInv, SignTyped
<1>2. SecretsAreNew' /\ SignedOutStay' /\ FiledStay' /\ AloneLeadOn'
  BY SettingsStay
<1>3. TriesLeft' /\ LinksOnce'
  BY TriesStay, LinksStay
<1> QED
  BY <1>1, <1>2, <1>3 DEF SignInv

LEMMA SessionExpiresStep ==
  ASSUME SignInv, NEW s \in sessions, Signing!SessionExpires(s) \/ Signing!StepUpExpires(s)
  PROVE  SignInv'
<1>1. /\ UNCHANGED <<env, file, signOuts, out, filed, links, resets, raced, signReq, tried, failed, barred>>
      /\ sessions' \subseteq sessions /\ stepUps' \subseteq sessions'
  BY RequestTyped DEF Signing!SessionExpires, Signing!StepUpExpires, Signing!settings, Signing!throttle,
     Signing!history, SignInv, SignTyped
<1> QED
  BY <1>1, TimeStep DEF SignInv, SignTyped

LEMMA LockEndsStep == ASSUME SignInv, Signing!LockEnds PROVE SignInv'
<1>1. /\ UNCHANGED <<env, file, signOuts, out, filed, links, resets, raced, signReq, tried, failed, sessions, stepUps>>
      /\ barred' = FALSE
  BY DEF Signing!LockEnds, Signing!settings, Signing!cookies, Signing!history
<1> QED
  BY <1>1, TimeStep DEF SignInv, SignTyped

\* Steps of one request that change the settings or who is signed in.
LEMMA SettingStep ==
  ASSUME SignInv, SecretsAreNew', SignedOutStay', FiledStay', AloneLeadOn',
         NEW r \in Requests, NEW s \in Request, signReq' = [signReq EXCEPT ![r] = s],
         UNCHANGED <<links, resets, raced, tried, failed, barred, stepUps>>,
         env' \in [epoch : Nat, key : Nat], file' \in [epoch : Nat, key : Nat],
         sessions \subseteq sessions', sessions' \subseteq Session, signOuts' \in Nat, out' \in Nat, filed' \in Nat,
         s.at \notin Early \cup {"mark", "store"}, s.op # "reset" \/ signReq[r].op = "reset"
  PROVE  SignInv'
<1>1. signReq' \in [Requests -> Request] /\ signReq'[r] = s /\ RequestsStay(r)
  BY RequestMoves DEF SignInv
<1>2. SignTyped'
  BY <1>1 DEF SignInv, SignTyped
<1>3. TriesLeft'
  BY <1>1, TriesStay DEF RequestsStay, Early
<1>4. LinksOnce'
  BY <1>1, LinksStay DEF RequestsStay
<1> QED
  BY <1>2, <1>3, <1>4 DEF SignInv

LEMMA SettingsTyped ==
  ASSUME SignInv
  PROVE  /\ env \in [epoch : Nat, key : Nat] /\ file \in [epoch : Nat, key : Nat]
         /\ sessions \subseteq Session /\ signOuts \in Nat /\ out \in Nat /\ filed \in Nat
         /\ \A q \in Requests : signReq[q] \in Request
BY DEF SignInv, SignTyped

\* One request reads .env, replaces it by what it has read, or does neither.
LEMMA CopiesMove ==
  ASSUME SignInv, NEW r \in Requests, NEW s \in Request, signReq' = [signReq EXCEPT ![r] = s],
         file' = file \/ (Signing!Holds(r) /\ file' = signReq[r].copy),
         Signing!Holds(r)' => s.copy = file /\ file' = file
  PROVE  Copies' \subseteq Copies
<1>1. signReq'[r] = s /\ RequestsStay(r)
  BY RequestMoves DEF SignInv
<1>2. \A q \in Requests \ {r} : Signing!Holds(q)' <=> Signing!Holds(q)
  BY <1>1, Zenon DEF RequestsStay, Signing!Holds, Signing!Copying
<1>3. file' \in Copies /\ file \in Copies
  BY DEF Copies
<1>4. ASSUME NEW q \in Requests, Signing!Holds(q)' PROVE signReq'[q].copy \in Copies
  <2>1. CASE q = r
    BY <1>1, <1>3, <1>4, <2>1
  <2>2. CASE q # r
    <3>1. signReq'[q] = signReq[q] /\ Signing!Holds(q)
      BY <1>1, <1>2, <1>4, <2>2 DEF RequestsStay
    <3> QED
      BY <3>1 DEF Copies
  <2> QED
    BY <2>1, <2>2
<1> QED
  BY <1>3, <1>4 DEF Copies

\* Steps of one request that read .env, or put the copy in its place.
LEMMA FileStep ==
  ASSUME SignInv, LinksOnce', NEW r \in Requests, NEW s \in Request, signReq' = [signReq EXCEPT ![r] = s],
         UNCHANGED <<env, links, raced, tried, failed, barred, sessions, stepUps, signOuts, out, filed>>,
         resets' \in [Links -> Nat], s.at # "check", GoesOn(r),
         file' = file \/ (Signing!Holds(r) /\ file' = signReq[r].copy),
         Signing!Holds(r)' => s.copy = file /\ file' = file
  PROVE  SignInv'
<1>1. signReq' \in [Requests -> Request] /\ signReq'[r] = s /\ RequestsStay(r)
  BY RequestMoves DEF SignInv
<1>2. SignTyped'
  <2>1. file' \in [epoch : Nat, key : Nat]
    <3>1. signReq[r].copy \in [epoch : Nat, key : Nat]
      BY SettingsTyped DEF Request
    <3> QED
      BY <3>1, SettingsTyped
  <2> QED
    BY <1>1, <2>1 DEF SignInv, SignTyped
<1>3. \A q \in Requests \ {r} : GoesOn(q)
  BY <1>1, Zenon DEF RequestsStay, GoesOn, Rotating, Signing!Bumping
<1>4. Copies' \subseteq Copies
  BY CopiesMove
<1>5. SecretsAreNew' /\ SignedOutStay' /\ FiledStay' /\ AloneLeadOn'
  BY <1>3, <1>4, CopiesStay
<1>6. TriesLeft'
  BY <1>1, TriesStay DEF RequestsStay
<1> QED
  BY <1>2, <1>5, <1>6 DEF SignInv

\* ... which sets no password.
LEMMA CopyStep ==
  ASSUME SignInv, NEW r \in Requests, NEW s \in Request, signReq' = [signReq EXCEPT ![r] = s],
         UNCHANGED <<env, links, raced, resets, tried, failed, barred, sessions, stepUps, signOuts, out, filed>>,
         s.at \notin Early \cup {"mark", "store"}, s.op # "reset" \/ signReq[r].op = "reset", GoesOn(r),
         file' = file \/ (Signing!Holds(r) /\ file' = signReq[r].copy),
         Signing!Holds(r)' => s.copy = file /\ file' = file
  PROVE  SignInv'
<1>1. signReq'[r] = s /\ RequestsStay(r)
  BY RequestMoves DEF SignInv
<1>2. LinksOnce'
  BY <1>1, LinksStay DEF RequestsStay
<1> QED
  BY <1>2, FileStep DEF SignInv, SignTyped, Early

\* A request that is at none of the steps of a sign-out goes on.
LEMMA StartsCopy ==
  ASSUME SignInv, NEW r \in Requests, NEW s \in Request, signReq' = [signReq EXCEPT ![r] = s],
         s.at \in {"idle", "blank", "bump", "hash file", "blank file", "save file"}
  PROVE  GoesOn(r) /\ (Signing!Holds(r)' => s.at \in {"hash file", "blank file", "save file"})
<1>1. signReq'[r] = s
  BY RequestMoves DEF SignInv
<1> QED
  BY <1>1, Zenon DEF GoesOn, Rotating, Signing!Bumping, Signing!Holds, Signing!Copying

LEMMA StorePasswordStep == ASSUME SignInv, NEW r \in Requests, Signing!StorePassword(r) PROVE SignInv'
<1> DEFINE s == [signReq[r] EXCEPT !.at = "hash file", !.copy = file]
<1>1. /\ UNCHANGED <<env, file, signOuts, out, filed, tried, sessions, stepUps, failed, barred, links, raced>>
      /\ signReq[r].at = "store" /\ signReq' = [signReq EXCEPT ![r] = s]
      /\ resets' = IF signReq[r].op = "reset" THEN [resets EXCEPT ![signReq[r].link] = @ + 1] ELSE resets
  BY RequestTyped DEF Signing!StorePassword, Signing!At, Signing!ReadFile, Signing!settings, Signing!throttle,
     Signing!cookies, SignInv, SignTyped, Request
<1>2. s \in Request /\ s.at = "hash file" /\ s.op = signReq[r].op /\ s.copy = file
  BY SettingsTyped DEF Request
<1> HIDE DEF s
<1>3. signReq'[r] = s /\ RequestsStay(r)
  BY <1>1, <1>2, RequestMoves DEF SignInv
<1>4. /\ resets' \in [Links -> Nat]
      /\ \A l \in Links : resets'[l] = IF Works(r, l) THEN resets[l] + 1 ELSE resets[l]
  <2>1. resets \in [Links -> Nat] /\ \A l \in Links : Works(r, l) <=> signReq[r].op = "reset" /\ signReq[r].link = l
    BY <1>1 DEF SignInv, SignTyped, Works
  <2>2. CASE signReq[r].op = "reset"
    <3>1. resets' = [resets EXCEPT ![signReq[r].link] = @ + 1]
      BY <1>1, <2>2
    <3>2. \A l \in Links : resets[l] + 1 \in Nat
      BY <2>1
    <3>3. resets' \in [Links -> Nat]
      BY <2>1, <3>1, <3>2
    <3>4. \A l \in Links : resets'[l] = IF l = signReq[r].link THEN resets[l] + 1 ELSE resets[l]
      BY <2>1, <3>1
    <3> QED
      BY <2>1, <2>2, <3>3, <3>4
  <2>3. CASE signReq[r].op # "reset"
    BY <1>1, <2>1, <2>3
  <2> QED
    BY <2>2, <2>3
<1>5. \A q \in Requests, l \in Links : Works(q, l)' => Works(q, l) /\ q # r /\ signReq'[q] = signReq[q]
  BY <1>2, <1>3 DEF Works, RequestsStay
<1>6. \A l \in Links : l \notin raced =>
       /\ \A p, q \in Requests : Works(p, l)' /\ Works(q, l)' => p = q
       /\ resets'[l] <= 1
       /\ resets'[l] = 1 => links[l] \in {"late", "used"} /\ \A p \in Requests : ~Works(p, l)'
       /\ \A p \in Requests : Works(p, l)' => links[l] # "none" /\ (signReq'[p].at = "store" => links[l] \in {"late", "used"})
  <2> SUFFICES ASSUME NEW l \in Links, l \notin raced
               PROVE  /\ \A p, q \in Requests : Works(p, l)' /\ Works(q, l)' => p = q
                      /\ resets'[l] <= 1
                      /\ resets'[l] = 1 => links[l] \in {"late", "used"} /\ \A p \in Requests : ~Works(p, l)'
                      /\ \A p \in Requests : Works(p, l)' => links[l] # "none" /\ (signReq'[p].at = "store" => links[l] \in {"late", "used"})
    OBVIOUS
  <2>1. CASE Works(r, l)
    <3>1. resets[l] = 0 /\ links[l] \in {"late", "used"}
      BY <1>1, <2>1 DEF SignInv, SignTyped, LinksOnce
    <3>2. \A p \in Requests : ~Works(p, l)'
      BY <1>5, <2>1 DEF SignInv, LinksOnce
    <3> QED
      BY <1>4, <2>1, <3>1, <3>2
  <2>2. CASE ~Works(r, l)
    BY <1>4, <1>5, <2>2 DEF SignInv, LinksOnce
  <2> QED
    BY <2>1, <2>2
<1>7. LinksOnce'
  <2>1. \A q \in Requests : signReq'[q].op = "reset" => signReq'[q].at \notin {"enforce", "check", "record", "claims"}
    BY <1>2, <1>3 DEF RequestsStay, SignInv, LinksOnce
  <2> QED
    BY <1>1, <1>6, <2>1 DEF SignInv, LinksOnce
<1>8. s \in Request /\ s.copy = file /\ s.at # "check" /\ GoesOn(r)
  BY <1>1, <1>2, StartsCopy, Zenon
<1>9. UNCHANGED <<env, file, links, raced, tried, failed, barred, sessions, stepUps, signOuts, out, filed>>
  BY <1>1, Zenon
<1> QED
  BY <1>1, <1>4, <1>7, <1>8, <1>9, FileStep

LEMMA HashFileStep == ASSUME SignInv, NEW r \in Requests, Signing!HashFile(r) PROVE SignInv'
<1> DEFINE s == [signReq[r] EXCEPT !.at = "blank", !.copy = Signing!NoRequest.copy]
<1>1. /\ UNCHANGED <<env, signOuts, out, filed, tried, sessions, stepUps, failed, barred, links, resets, raced>>
      /\ signReq[r].at = "hash file" /\ signReq' = [signReq EXCEPT ![r] = s] /\ file' = signReq[r].copy
  BY RequestTyped DEF Signing!HashFile, Signing!At, Signing!WriteFile, Signing!throttle, Signing!cookies,
     Signing!history, SignInv, SignTyped, Request
<1>2. s \in Request /\ s.at = "blank" /\ s.op = signReq[r].op
  BY RequestTyped, IdleRequest DEF Request
<1> HIDE DEF s
<1>3. Signing!Holds(r)
  BY <1>1, Zenon DEF Signing!Holds, Signing!Copying
<1> QED
  BY <1>1, <1>2, <1>3, StartsCopy, CopyStep DEF Early

LEMMA BlankPasswordStep == ASSUME SignInv, NEW r \in Requests, Signing!BlankPassword(r) PROVE SignInv'
<1> DEFINE s == [signReq[r] EXCEPT !.at = "blank file", !.copy = file]
<1>1. /\ UNCHANGED <<env, file, signOuts, out, filed, tried, sessions, stepUps, failed, barred, links, resets, raced>>
      /\ signReq' = [signReq EXCEPT ![r] = s]
  BY RequestTyped DEF Signing!BlankPassword, Signing!ReadFile, Signing!settings, Signing!throttle, Signing!cookies,
     Signing!history, SignInv, SignTyped, Request
<1>2. s \in Request /\ s.at = "blank file" /\ s.op = signReq[r].op /\ s.copy = file
  BY SettingsTyped DEF Request
<1> HIDE DEF s
<1>5. /\ s \in Request /\ s.copy = file /\ s.at \notin Early \cup {"mark", "store"} /\ GoesOn(r)
      /\ s.op # "reset" \/ signReq[r].op = "reset"
  BY <1>1, <1>2, StartsCopy, Zenon DEF Early
<1>6. UNCHANGED <<env, file, links, raced, resets, tried, failed, barred, sessions, stepUps, signOuts, out, filed>>
  BY <1>1, Zenon
<1> QED
  BY <1>1, <1>5, <1>6, CopyStep

LEMMA BlankFileStep == ASSUME SignInv, NEW r \in Requests, Signing!BlankFile(r) PROVE SignInv'
<1> DEFINE s == [signReq[r] EXCEPT !.at = "bump", !.copy = Signing!NoRequest.copy]
<1>1. /\ UNCHANGED <<env, signOuts, out, filed, tried, sessions, stepUps, failed, barred, links, resets, raced>>
      /\ signReq[r].at = "blank file" /\ signReq' = [signReq EXCEPT ![r] = s] /\ file' = signReq[r].copy
  BY RequestTyped DEF Signing!BlankFile, Signing!At, Signing!WriteFile, Signing!throttle, Signing!cookies,
     Signing!history, SignInv, SignTyped, Request
<1>2. s \in Request /\ s.at = "bump" /\ s.op = signReq[r].op
  BY RequestTyped, IdleRequest DEF Request
<1> HIDE DEF s
<1>3. Signing!Holds(r)
  BY <1>1, Zenon DEF Signing!Holds, Signing!Copying
<1> QED
  BY <1>1, <1>2, <1>3, StartsCopy, CopyStep DEF Early

LEMMA SaveStep == ASSUME SignInv, NEW r \in Requests, Signing!Save(r) PROVE SignInv'
<1> DEFINE s == [Signing!NoRequest EXCEPT !.op = "save", !.at = "save file", !.copy = file]
<1>1. /\ UNCHANGED <<env, file, signOuts, out, filed, tried, sessions, stepUps, failed, barred, links, resets, raced>>
      /\ signReq' = [signReq EXCEPT ![r] = s]
  BY DEF Signing!Save, Signing!settings, Signing!throttle, Signing!cookies, Signing!history
<1>2. s \in Request /\ s.at = "save file" /\ s.op = "save" /\ s.copy = file
  BY SettingsTyped, IdleRequest DEF Request
<1> HIDE DEF s
<1>5. /\ s \in Request /\ s.copy = file /\ s.at \notin Early \cup {"mark", "store"} /\ GoesOn(r)
      /\ s.op # "reset" \/ signReq[r].op = "reset"
  BY <1>1, <1>2, StartsCopy, Zenon DEF Early
<1>6. UNCHANGED <<env, file, links, raced, resets, tried, failed, barred, sessions, stepUps, signOuts, out, filed>>
  BY <1>1, Zenon
<1> QED
  BY <1>1, <1>5, <1>6, CopyStep

LEMMA SaveFileStep == ASSUME SignInv, NEW r \in Requests, Signing!SaveFile(r) PROVE SignInv'
<1>1. /\ UNCHANGED <<env, signOuts, out, filed, tried, sessions, stepUps, failed, barred, links, resets, raced>>
      /\ signReq[r].at = "save file" /\ signReq' = [signReq EXCEPT ![r] = Signing!NoRequest] /\ file' = signReq[r].copy
  BY DEF Signing!SaveFile, Signing!At, Signing!End, Signing!throttle, Signing!cookies, Signing!history
<1>2. Signing!Holds(r)
  BY <1>1, Zenon DEF Signing!Holds, Signing!Copying
<1> QED
  BY <1>1, <1>2, IdleRequest, StartsCopy, CopyStep DEF Early

LEMMA BumpCopyStep == ASSUME SignInv, NEW r \in Requests, Signing!BumpCopy(r) PROVE SignInv'
<1> DEFINE s == [signReq[r] EXCEPT !.at = "epoch file", !.copy = file]
<1>1. /\ UNCHANGED <<env, file, signOuts, out, filed, tried, sessions, stepUps, failed, barred, links, resets, raced>>
      /\ signReq[r].at = "epoch" /\ signReq' = [signReq EXCEPT ![r] = s]
  BY RequestTyped DEF Signing!BumpCopy, Signing!At, Signing!ReadFile, Signing!settings, Signing!throttle,
     Signing!cookies, Signing!history, SignInv, SignTyped, Request
<1>2. /\ s \in Request /\ s.at = "epoch file" /\ s.op = signReq[r].op /\ s.copy = file
      /\ s.no = signReq[r].no /\ s.epoch = signReq[r].epoch /\ s.alone = signReq[r].alone
  BY SettingsTyped DEF Request
<1> HIDE DEF s
<1>3. signReq'[r] = s
  BY <1>1, <1>2, RequestMoves DEF SignInv
<1>4. GoesOn(r)
  BY <1>1, <1>2, <1>3, Zenon DEF GoesOn, Rotating, Signing!Bumping
<1>5. /\ s \in Request /\ s.copy = file /\ s.at \notin Early \cup {"mark", "store"} /\ GoesOn(r)
      /\ s.op # "reset" \/ signReq[r].op = "reset"
  BY <1>1, <1>2, <1>4, Zenon DEF Early
<1>6. UNCHANGED <<env, file, links, raced, resets, tried, failed, barred, sessions, stepUps, signOuts, out, filed>>
  BY <1>1, Zenon
<1> QED
  BY <1>1, <1>5, <1>6, CopyStep

LEMMA Numbers ==
  ASSUME SignInv
  PROVE  /\ env.epoch \in Nat /\ env.key \in Nat /\ file.epoch \in Nat /\ file.key \in Nat
         /\ signOuts \in Nat /\ out \in Nat /\ filed \in Nat /\ file \in Copies
         /\ \A c \in Copies : c \in [epoch : Nat, key : Nat] /\ c.epoch \in Nat /\ c.key \in Nat
         /\ \A q \in Requests : signReq[q].no \in Nat /\ signReq[q].epoch \in Nat
         /\ \A s \in sessions : s.epoch \in Nat /\ s.key \in Nat /\ s.born \in Nat
<1>1. \A q \in Requests : signReq[q] \in Request /\ signReq[q].copy \in [epoch : Nat, key : Nat]
  BY SettingsTyped DEF Request
<1>2. file \in Copies /\ \A c \in Copies : c \in [epoch : Nat, key : Nat]
  BY <1>1, SettingsTyped DEF Copies
<1>3. \A q \in Requests : signReq[q].no \in Nat /\ signReq[q].epoch \in Nat
  BY SettingsTyped DEF Request
<1> QED
  BY <1>2, <1>3, SettingsTyped DEF Session

\* Where the other requests are when one moves.
LEMMA OthersStay ==
  ASSUME SignInv, NEW r \in Requests, NEW s \in Request, signReq' = [signReq EXCEPT ![r] = s]
  PROVE  /\ signReq'[r] = s
         /\ \A q \in Requests \ {r} : /\ signReq'[q] = signReq[q] /\ (Rotating(q)' <=> Rotating(q))
                                      /\ (Signing!Bumping(q)' <=> Signing!Bumping(q))
                                      /\ (Signing!Holds(q)' <=> Signing!Holds(q))
<1>1. signReq'[r] = s /\ RequestsStay(r)
  BY RequestMoves DEF SignInv
<1> QED
  BY <1>1, Zenon DEF RequestsStay, Rotating, Signing!Bumping, Signing!Holds, Signing!Copying

\* At which steps a request does what.
LEMMA AtPlaces ==
  ASSUME NEW r, NEW s, signReq'[r] = s
  PROVE  /\ Rotating(r) <=> signReq[r].at \in {"key file", "key env"}
         /\ Rotating(r)' <=> s.at \in {"key file", "key env"}
         /\ Signing!Bumping(r) <=> signReq[r].at \in {"epoch", "epoch file", "epoch env"}
         /\ Signing!Bumping(r)' <=> s.at \in {"epoch", "epoch file", "epoch env"}
         /\ Signing!Holds(r) <=> signReq[r].at \in {"hash file", "blank file", "epoch file", "key file", "save file"}
         /\ Signing!Holds(r)' <=> s.at \in {"hash file", "blank file", "epoch file", "key file", "save file"}
BY Zenon DEF Rotating, Signing!Bumping, Signing!Holds, Signing!Copying

LEMMA SignInStep == ASSUME SignInv, NEW r \in Requests, Signing!SignIn(r) PROVE SignInv'
<1> DEFINE n == [epoch |-> env.epoch, key |-> env.key, born |-> signOuts]
<1>1. /\ UNCHANGED <<env, file, links, resets, raced, tried, failed, barred, stepUps, signOuts, out, filed>>
      /\ sessions' = sessions \cup {n} /\ signReq' = [signReq EXCEPT ![r] = Signing!NoRequest]
  BY DEF Signing!SignIn, Signing!End, Signing!settings, Signing!throttle, Signing!history
<1>2. n \in Session /\ n.epoch = env.epoch /\ n.key = env.key /\ n.born = signOuts
  BY SettingsTyped DEF Session
<1> HIDE DEF n
<1>3. /\ signReq'[r] = Signing!NoRequest /\ ~Rotating(r)' /\ ~Signing!Bumping(r)' /\ ~Signing!Holds(r)'
      /\ \A q \in Requests \ {r} : /\ signReq'[q] = signReq[q] /\ (Rotating(q)' <=> Rotating(q))
                                   /\ (Signing!Bumping(q)' <=> Signing!Bumping(q))
  <2>1. Signing!NoRequest \in Request /\ Signing!NoRequest.at = "idle"
    BY IdleRequest
  <2>2. /\ signReq'[r] = Signing!NoRequest
        /\ \A q \in Requests \ {r} : /\ signReq'[q] = signReq[q] /\ (Rotating(q)' <=> Rotating(q))
                                     /\ (Signing!Bumping(q)' <=> Signing!Bumping(q))
    BY <1>1, <2>1, OthersStay
  <2>3. ~Rotating(r)' /\ ~Signing!Bumping(r)' /\ ~Signing!Holds(r)'
    BY <2>1, <2>2, AtPlaces
  <2> QED
    BY <2>2, <2>3
<1>4. Copies' \subseteq Copies
  BY <1>1, <1>3, IdleRequest, CopiesMove
<1>5. SecretsAreNew'
  BY <1>1, <1>2, <1>3, <1>4, Numbers DEF SignInv, SecretsAreNew
<1>6. SignedOutStay'
  <2>1. ~ (n.born < out)
    BY <1>2, Numbers DEF SignInv, SignedOutStay
  <2> QED
    BY <1>1, <1>3, <2>1 DEF SignInv, SignedOutStay, EpochIsOver, SecretIsOver
<1>7. FiledStay'
  <2>1. ~ (n.born < filed)
    BY <1>2, Numbers DEF SignInv, FiledStay
  <2> QED
    BY <1>1, <1>3, <1>4, <2>1 DEF SignInv, FiledStay, EpochIsGone, SecretIsGone
<1>8. AloneLeadOn'
  <2>1. \A q \in Requests : Signing!Bumping(q) => ~ (n.born < signReq[q].no)
    BY <1>2, Numbers DEF SignInv, AloneLeadOn
  <2> QED
    BY <1>1, <1>3, <2>1 DEF SignInv, AloneLeadOn, LeadsOn
<1> QED
  BY <1>1, <1>2, <1>5, <1>6, <1>7, <1>8, IdleRequest, SettingsTyped, SettingStep DEF Early

\* Bumping an epoch leaves the secrets alone.
LEMMA SecretsStay ==
  ASSUME SignInv, env'.key = env.key, \A c \in Copies' : \E d \in Copies : c.key = d.key,
         signOuts' \in {signOuts, signOuts + 1}, sessions' = sessions,
         \A q \in Requests : Rotating(q)' => Rotating(q) /\ signReq'[q].no = signReq[q].no
  PROVE  /\ SecretsAreNew' /\ \A t \in sessions : SecretIsOver(t) => SecretIsOver(t)'
         /\ \A t \in sessions : SecretIsGone(t) => SecretIsGone(t)'
<1>1. /\ env'.key <= signOuts' /\ \A c \in Copies' : c.key <= signOuts'
      /\ \A t \in sessions' : t.key <= t.born /\ t.born <= signOuts'
  BY Numbers DEF SignInv, SecretsAreNew
<1>2. ASSUME NEW q \in Requests, Rotating(q)'
      PROVE  /\ signReq'[q].no # env'.key /\ \A t \in sessions' : t.key # signReq'[q].no
             /\ \A p \in Requests : Rotating(p)' /\ signReq'[p].no = signReq'[q].no => p = q
  <2>1. Rotating(q) /\ signReq'[q].no = signReq[q].no
    BY <1>2
  <2>2. signReq[q].no # env.key /\ \A t \in sessions : t.key # signReq[q].no
    BY <2>1 DEF SignInv, SecretsAreNew
  <2>3. ASSUME NEW p \in Requests, Rotating(p)', signReq'[p].no = signReq'[q].no PROVE p = q
    <3>1. Rotating(p) /\ signReq[p].no = signReq[q].no
      BY <2>1, <2>3
    <3> QED
      BY <2>1, <3>1 DEF SignInv, SecretsAreNew
  <2> QED
    BY <2>1, <2>2, <2>3
<1>3. \A t \in sessions : SecretIsOver(t) => SecretIsOver(t)'
  BY DEF SecretIsOver
<1>4. \A t \in sessions : SecretIsGone(t) => SecretIsGone(t)'
  BY DEF SecretIsGone
<1> QED
  BY <1>1, <1>2, <1>3, <1>4 DEF SecretsAreNew

\* What a bump under way that began alone is sure of.
LEMMA AloneLeads ==
  ASSUME SignInv, NEW p \in Requests, Signing!Bumping(p), signReq[p].alone
  PROVE  LeadsOn(p)
BY DEF SignInv, AloneLeadOn

LEMMA NumbersGiven ==
  ASSUME SignInv, NEW p \in Requests, Signing!Bumping(p) \/ Rotating(p)
  PROVE  signReq[p].no <= signOuts /\ (Rotating(p) => signReq[p].alone)
BY DEF SignInv, AloneLeadOn

LEMMA BumpReadStep == ASSUME SignInv, NEW r \in Requests, Signing!BumpRead(r) PROVE SignInv'
<1> DEFINE n == [signReq[r] EXCEPT !.at = "epoch", !.epoch = env.epoch + 1, !.no = signOuts + 1,
                                   !.alone = Signing!Alone]
<1>1. /\ UNCHANGED <<env, file, links, resets, raced, tried, failed, barred, sessions, stepUps, out, filed>>
      /\ signReq[r].at = "bump" /\ signOuts' = signOuts + 1
  BY DEF Signing!BumpRead, Signing!At, Signing!settings, Signing!throttle, Signing!cookies
<1>2. signReq' = [signReq EXCEPT ![r] = n]
  BY SettingsTyped DEF Signing!BumpRead, SignInv, SignTyped, Request
<1>3. /\ n \in Request /\ n.at = "epoch" /\ n.epoch = env.epoch + 1 /\ n.no = signOuts + 1
      /\ n.alone = Signing!Alone /\ n.op = signReq[r].op
  <2>1. Signing!Alone \in BOOLEAN
    BY DEF Signing!Alone
  <2>2. env.epoch + 1 \in Nat /\ signOuts + 1 \in Nat /\ signReq[r] \in Request
    BY SettingsTyped, Numbers
  <2>3. n \in Request
    BY <2>1, <2>2 DEF Request
  <2>4. /\ n.at = "epoch" /\ n.epoch = env.epoch + 1 /\ n.no = signOuts + 1 /\ n.op = signReq[r].op
    BY <2>2 DEF Request
  <2>5. n.alone = Signing!Alone
    BY <2>2 DEF Request
  <2> QED
    BY <2>3, <2>4, <2>5
<1> HIDE DEF n
<1>4. /\ signReq'[r] = n /\ ~Rotating(r)' /\ Signing!Bumping(r)' /\ ~Signing!Holds(r)'
      /\ \A q \in Requests \ {r} : /\ signReq'[q] = signReq[q] /\ (Rotating(q)' <=> Rotating(q))
                                   /\ (Signing!Bumping(q)' <=> Signing!Bumping(q))
  <2>1. signReq'[r] = n
    BY <1>2, <1>3, OthersStay
  <2>2. ~Rotating(r)' /\ Signing!Bumping(r)' /\ ~Signing!Holds(r)'
    BY <1>3, <2>1, AtPlaces, Zenon
  <2> QED
    BY <1>2, <1>3, <2>1, <2>2, OthersStay
<1>5. Copies' \subseteq Copies
  BY <1>1, <1>2, <1>3, <1>4, CopiesMove
<1>6. /\ SecretsAreNew' /\ \A t \in sessions : SecretIsOver(t) => SecretIsOver(t)'
      /\ \A t \in sessions : SecretIsGone(t) => SecretIsGone(t)'
  BY <1>1, <1>4, <1>5, SecretsStay
<1>7. ASSUME NEW t \in sessions, t.epoch <= env.epoch,
             \A q \in Requests : Signing!Bumping(q) => t.epoch < signReq[q].epoch
      PROVE  \A q \in Requests : Signing!Bumping(q)' => t.epoch < signReq'[q].epoch
  <2>1. t.epoch < env.epoch + 1
    BY <1>7, Numbers
  <2> QED
    BY <1>3, <1>4, <1>7, <2>1
<1>8. SignedOutStay'
  <2>1. ASSUME NEW t \in sessions, EpochIsOver(t) PROVE EpochIsOver(t)'
    <3>1. t.epoch <= env.epoch
      BY <2>1, Numbers DEF EpochIsOver
    <3> QED
      BY <1>1, <1>7, <2>1, <3>1 DEF EpochIsOver
  <2>2. out' <= signOuts'
    BY <1>1, Numbers DEF SignInv, SignedOutStay
  <2> QED
    BY <1>1, <1>6, <2>1, <2>2 DEF SignInv, SignedOutStay
<1>9. FiledStay'
  <2>1. ASSUME NEW t \in sessions, EpochIsGone(t) PROVE EpochIsGone(t)'
    BY <1>1, <1>5, <1>7, <2>1 DEF EpochIsGone
  <2>2. filed' <= signOuts'
    BY <1>1, Numbers DEF SignInv, FiledStay
  <2> QED
    BY <1>1, <1>6, <2>1, <2>2 DEF SignInv, FiledStay
<1>10. AloneLeadOn'
  <2>1. signReq'[r].epoch = env.epoch + 1 /\ signReq'[r].no = signOuts + 1 /\ signReq'[r].alone = Signing!Alone
    BY <1>3, <1>4
  <2>2. ASSUME Signing!Alone PROVE LeadsOn(r)'
    <3>1. (\A q \in Requests : ~Signing!Bumping(q)) /\ \A t \in sessions : t.epoch <= env.epoch
      BY <2>2 DEF Signing!Alone
    <3>2. \A t \in sessions : t.epoch < env.epoch + 1
      BY <3>1, Numbers
    <3>3. \A q \in Requests : Signing!Bumping(q)' => q = r
      BY <1>4, <3>1
    <3>4. signReq'[r].epoch <= env'.epoch + 1 /\ \A q \in Requests : q = r => signReq'[r].epoch <= signReq'[q].epoch
      <4>1. env.epoch + 1 <= env.epoch + 1
        BY Numbers
      <4> QED
        BY <1>1, <2>1, <4>1
    <3> QED
      BY <1>1, <2>1, <3>2, <3>3, <3>4 DEF LeadsOn
  <2>3. ASSUME NEW p \in Requests, p # r, Signing!Bumping(p), signReq[p].alone PROVE LeadsOn(p)'
    <3>1. LeadsOn(p) /\ signReq'[p] = signReq[p]
      BY <1>4, <2>3, AloneLeads
    <3>2. ASSUME NEW q \in Requests, Signing!Bumping(q)' PROVE signReq[p].epoch <= signReq'[q].epoch
      <4>1. CASE q = r
        BY <2>1, <3>1, <4>1 DEF LeadsOn
      <4>2. CASE q # r
        BY <1>4, <3>1, <3>2, <4>2 DEF LeadsOn
      <4> QED
        BY <4>1, <4>2
    <3> QED
      BY <1>1, <3>1, <3>2 DEF LeadsOn
  <2>4. ASSUME NEW q \in Requests, Signing!Bumping(q)' \/ Rotating(q)'
        PROVE  signReq'[q].no <= signOuts' /\ (Rotating(q)' => signReq'[q].alone)
    <3>1. CASE q = r
      <4>1. signOuts + 1 <= signOuts + 1
        BY Numbers
      <4> QED
        BY <1>1, <1>4, <2>1, <3>1, <4>1
    <3>2. CASE q # r
      <4>1. signReq'[q] = signReq[q] /\ (Signing!Bumping(q) \/ Rotating(q)) /\ (Rotating(q)' => Rotating(q))
        BY <1>4, <2>4, <3>2
      <4>2. signReq[q].no <= signOuts /\ (Rotating(q) => signReq[q].alone)
        BY <4>1, NumbersGiven
      <4>3. signReq[q].no <= signOuts + 1
        BY <4>2, Numbers
      <4> QED
        BY <1>1, <4>1, <4>2, <4>3
    <3> QED
      BY <3>1, <3>2
  <2>5. ASSUME NEW q \in Requests, Signing!Bumping(q)', signReq'[q].alone PROVE LeadsOn(q)'
    <3>1. CASE q = r
      BY <2>1, <2>2, <2>5, <3>1
    <3>2. CASE q # r
      BY <1>4, <2>3, <2>5, <3>2
    <3> QED
      BY <3>1, <3>2
  <2> QED
    BY <2>4, <2>5 DEF AloneLeadOn
<1>11. signOuts' \in Nat
  BY <1>1, Numbers
<1> QED
  BY <1>1, <1>2, <1>3, <1>6, <1>8, <1>9, <1>10, <1>11, SettingsTyped, SettingStep DEF Early

\* One request puts a changed copy in the place of .env: then that is there, and the copies
\* of the others; nothing else if there are none.
LEMMA CopyChanges ==
  ASSUME SignInv, NEW r \in Requests, NEW s \in Request, signReq' = [signReq EXCEPT ![r] = s], ~Signing!Holds(r)'
  PROVE  Copies' \subseteq Copies \cup {file'} /\ (Signing!Settles(r) => Copies' = {file'})
<1>1. \A q \in Requests : Signing!Holds(q)' => q # r /\ Signing!Holds(q) /\ signReq'[q].copy = signReq[q].copy
  BY OthersStay
<1>2. Copies' \subseteq Copies \cup {file'}
  BY <1>1 DEF Copies
<1>3. Signing!Settles(r) => Copies' = {file'}
  BY <1>1 DEF Copies, Signing!Settles
<1> QED
  BY <1>2, <1>3

LEMMA BumpFileStep == ASSUME SignInv, NEW r \in Requests, Signing!BumpFile(r) PROVE SignInv'
<1> DEFINE n == [signReq[r] EXCEPT !.at = "epoch env", !.copy = Signing!NoRequest.copy]
<1>1. /\ UNCHANGED <<env, links, resets, raced, tried, failed, barred, sessions, stepUps, signOuts, out>>
      /\ signReq[r].at = "epoch file" /\ signReq' = [signReq EXCEPT ![r] = n]
      /\ file' = [signReq[r].copy EXCEPT !.epoch = signReq[r].epoch]
      /\ filed' = IF signReq[r].alone /\ Signing!Settles(r) /\ signReq[r].no > filed THEN signReq[r].no ELSE filed
  BY SettingsTyped DEF Signing!BumpFile, Signing!At, Signing!WriteFile, Signing!Files, Signing!Kept, Signing!throttle,
     Signing!cookies, SignInv, SignTyped, Request
<1>2. /\ n \in Request /\ n.at = "epoch env" /\ n.epoch = signReq[r].epoch /\ n.no = signReq[r].no
      /\ n.alone = signReq[r].alone /\ n.op = signReq[r].op
  BY SettingsTyped, IdleRequest DEF Request
<1> HIDE DEF n
<1>3. /\ signReq'[r] = n /\ ~Rotating(r) /\ ~Rotating(r)' /\ Signing!Bumping(r) /\ Signing!Bumping(r)'
      /\ Signing!Holds(r) /\ ~Signing!Holds(r)'
  <2>1. signReq'[r] = n
    BY <1>1, <1>2, OthersStay
  <2> QED
    BY <1>1, <1>2, <2>1, AtPlaces, Zenon
<1>4. \A q \in Requests : /\ Rotating(q)' <=> Rotating(q)
                          /\ Signing!Bumping(q)' <=> Signing!Bumping(q)
                          /\ signReq'[q].epoch = signReq[q].epoch /\ signReq'[q].no = signReq[q].no
                          /\ signReq'[q].alone = signReq[q].alone
  BY <1>1, <1>2, <1>3, OthersStay
<1>5. /\ file' \in [epoch : Nat, key : Nat] /\ file'.epoch = signReq[r].epoch /\ file'.key = signReq[r].copy.key
      /\ signReq[r].copy \in Copies
  <2>1. signReq[r].copy \in Copies
    BY <1>3 DEF Copies
  <2> QED
    BY <1>1, <2>1, Numbers
<1>6. Copies' \subseteq Copies \cup {file'} /\ (Signing!Settles(r) => Copies' = {file'})
  BY <1>1, <1>2, <1>3, CopyChanges
<1>7. /\ SecretsAreNew' /\ \A t \in sessions : SecretIsOver(t) => SecretIsOver(t)'
      /\ \A t \in sessions : SecretIsGone(t) => SecretIsGone(t)'
  <2>1. \A c \in Copies' : \E d \in Copies : c.key = d.key
    BY <1>5, <1>6
  <2> QED
    BY <1>1, <1>4, <2>1, SecretsStay
<1>8. SignedOutStay'
  BY <1>1, <1>4, <1>7 DEF SignInv, SignedOutStay, EpochIsOver
<1>9. filed' \in Nat /\ filed' <= signOuts
  BY <1>1, <1>3, Numbers DEF SignInv, AloneLeadOn, FiledStay
<1>10. FiledStay'
  <2>1. ASSUME NEW t \in sessions, EpochIsGone(t) PROVE EpochIsGone(t)'
    <3>1. t.epoch < signReq[r].epoch
      BY <1>3, <2>1 DEF EpochIsGone
    <3>2. \A c \in Copies' : t.epoch < c.epoch
      BY <1>5, <1>6, <2>1, <3>1 DEF EpochIsGone
    <3> QED
      BY <1>1, <1>4, <2>1, <3>2 DEF EpochIsGone
  <2>2. ASSUME NEW t \in sessions, t.born < filed', ~(t.born < filed) PROVE EpochIsGone(t)'
    <3>1. signReq[r].alone /\ Signing!Settles(r) /\ t.born < signReq[r].no
      BY <1>1, <2>2
    <3>2. LeadsOn(r)
      BY <1>3, <3>1, AloneLeads
    <3>3. t.epoch < signReq[r].epoch /\ signReq[r].epoch <= env.epoch + 1
      BY <3>1, <3>2 DEF LeadsOn
    <3>4. t.epoch <= env.epoch
      BY <3>3, Numbers
    <3>5. \A c \in Copies' : t.epoch < c.epoch
      BY <1>5, <1>6, <3>1, <3>3
    <3>6. ASSUME NEW q \in Requests, Signing!Bumping(q) PROVE t.epoch < signReq[q].epoch
      <4>1. signReq[r].epoch <= signReq[q].epoch
        BY <3>2, <3>6 DEF LeadsOn
      <4> QED
        BY <3>3, <4>1, Numbers
    <3> QED
      BY <1>1, <1>4, <3>4, <3>5, <3>6 DEF EpochIsGone
  <2> QED
    BY <1>1, <1>7, <1>9, <2>1, <2>2 DEF SignInv, FiledStay
<1>11. AloneLeadOn'
  BY <1>1, <1>4 DEF SignInv, AloneLeadOn, LeadsOn
<1> QED
  BY <1>1, <1>2, <1>5, <1>7, <1>8, <1>9, <1>10, <1>11, SettingsTyped, SettingStep DEF Early

LEMMA BumpEnvStep == ASSUME SignInv, NEW r \in Requests, Signing!BumpEnv(r) PROVE SignInv'
<1>1. /\ UNCHANGED <<file, links, resets, raced, tried, failed, barred, sessions, stepUps, signOuts, filed>>
      /\ signReq[r].at = "epoch env" /\ env' = [env EXCEPT !.epoch = signReq[r].epoch]
      /\ out' = IF signReq[r].alone /\ signReq[r].no > out THEN signReq[r].no ELSE out
  BY DEF Signing!BumpEnv, Signing!At, Signing!SignedOut, Signing!throttle, Signing!cookies
<1>2. PICK n \in Request : /\ signReq' = [signReq EXCEPT ![r] = n] /\ n.at \in {"idle", "clear"}
                           /\ n.op # "reset" \/ signReq[r].op = "reset"
  <2>1. CASE signReq[r].op = "logout"
    BY <2>1, IdleRequest DEF Signing!BumpEnv, Signing!End
  <2>2. CASE signReq[r].op # "logout"
    <3> DEFINE t == [signReq[r] EXCEPT !.at = "clear"]
    <3>1. t \in Request /\ t.at = "clear" /\ t.op = signReq[r].op
      BY SettingsTyped DEF Request
    <3>2. signReq' = [signReq EXCEPT ![r] = t]
      BY <2>2 DEF Signing!BumpEnv, Signing!Goto
    <3> HIDE DEF t
    <3> QED
      BY <3>1, <3>2
  <2> QED
    BY <2>1, <2>2
<1>3. ~Rotating(r) /\ ~Rotating(r)' /\ Signing!Bumping(r) /\ ~Signing!Bumping(r)' /\ ~Signing!Holds(r)'
  <2>1. signReq'[r] = n
    BY <1>2, OthersStay
  <2> QED
    BY <1>1, <1>2, <2>1, AtPlaces, Zenon
<1>4. env' \in [epoch : Nat, key : Nat] /\ env'.epoch = signReq[r].epoch /\ env'.key = env.key
  BY <1>1, SettingsTyped, Numbers
<1>5. \A q \in Requests : /\ Rotating(q)' <=> q # r /\ Rotating(q)
                          /\ Signing!Bumping(q)' <=> q # r /\ Signing!Bumping(q)
                          /\ q # r => signReq'[q] = signReq[q]
  BY <1>2, <1>3, OthersStay
<1>6. Copies' \subseteq Copies
  BY <1>1, <1>2, <1>3, CopiesMove
<1>7. /\ SecretsAreNew' /\ \A t \in sessions : SecretIsOver(t) => SecretIsOver(t)'
      /\ \A t \in sessions : SecretIsGone(t) => SecretIsGone(t)'
  BY <1>1, <1>4, <1>5, <1>6, SecretsStay
<1>8. out' \in Nat /\ out' <= signOuts
  BY <1>1, <1>3, Numbers DEF SignInv, AloneLeadOn, SignedOutStay
<1>9. SignedOutStay'
  <2>1. ASSUME NEW t \in sessions, t.born < out' PROVE EpochIsOver(t)' \/ SecretIsOver(t)'
    <3>1. CASE t.born < out
      <4>1. ASSUME EpochIsOver(t) PROVE EpochIsOver(t)'
        BY <1>1, <1>3, <1>4, <1>5, <4>1 DEF EpochIsOver
      <4> QED
        BY <1>7, <3>1, <4>1 DEF SignInv, SignedOutStay
    <3>2. CASE ~ (t.born < out)
      <4>1. signReq[r].alone /\ t.born < signReq[r].no
        BY <1>1, <2>1, <3>2
      <4>2. LeadsOn(r)
        BY <1>3, <4>1, AloneLeads
      <4>3. t.epoch < signReq[r].epoch
        BY <4>1, <4>2 DEF LeadsOn
      <4>4. ASSUME NEW q \in Requests, Signing!Bumping(q) PROVE t.epoch < signReq[q].epoch
        <5>1. signReq[r].epoch <= signReq[q].epoch
          BY <4>2, <4>4 DEF LeadsOn
        <5> QED
          BY <4>3, <5>1, Numbers
      <4> QED
        BY <1>1, <1>4, <1>5, <4>3, <4>4 DEF EpochIsOver
    <3> QED
      BY <3>1, <3>2
  <2> QED
    BY <1>1, <1>8, <2>1 DEF SignedOutStay
<1>10. FiledStay'
  <2>1. ASSUME NEW t \in sessions, EpochIsGone(t) PROVE EpochIsGone(t)'
    <3>1. t.epoch < signReq[r].epoch
      BY <1>3, <2>1 DEF EpochIsGone
    <3>2. t.epoch <= env'.epoch
      BY <1>4, <3>1, Numbers
    <3> QED
      BY <1>1, <1>5, <1>6, <2>1, <3>2 DEF EpochIsGone
  <2> QED
    BY <1>1, <1>7, <2>1 DEF SignInv, FiledStay
<1>11. AloneLeadOn'
  <2>1. ASSUME NEW p \in Requests, p # r, Signing!Bumping(p), signReq[p].alone PROVE LeadsOn(p)'
    <3>1. LeadsOn(p) /\ signReq[p].epoch <= env'.epoch
      BY <1>3, <1>4, <2>1 DEF SignInv, AloneLeadOn, LeadsOn
    <3>2. signReq[p].epoch <= env'.epoch + 1
      BY <1>4, <3>1, Numbers
    <3> QED
      BY <1>1, <1>5, <2>1, <3>1, <3>2 DEF LeadsOn
  <2> QED
    BY <1>1, <1>5, <2>1 DEF SignInv, AloneLeadOn
<1> QED
  BY <1>1, <1>2, <1>4, <1>7, <1>8, <1>9, <1>10, <1>11, SettingsTyped, SettingStep DEF Early

LEMMA RotateSecretStep == ASSUME SignInv, NEW r \in Requests, Signing!RotateSecret(r) PROVE SignInv'
<1> DEFINE n == [Signing!NoRequest EXCEPT !.op = "rotate", !.at = "key file", !.no = signOuts + 1, !.copy = file]
<1>1. /\ UNCHANGED <<env, file, links, resets, raced, tried, failed, barred, sessions, stepUps, out, filed>>
      /\ signReq[r].at = "idle" /\ signOuts' = signOuts + 1 /\ signReq' = [signReq EXCEPT ![r] = n]
  BY DEF Signing!RotateSecret, Signing!At, Signing!settings, Signing!throttle, Signing!cookies
<1>2. n \in Request /\ n.at = "key file" /\ n.no = signOuts + 1 /\ n.alone /\ n.op = "rotate" /\ n.copy = file
  <2>1. signOuts + 1 \in Nat /\ file \in [epoch : Nat, key : Nat]
    BY Numbers, SettingsTyped
  <2>2. n \in Request
    BY <2>1, IdleRequest DEF Request
  <2>3. n.at = "key file" /\ n.no = signOuts + 1 /\ n.op = "rotate" /\ n.copy = file
    BY <2>1, IdleRequest DEF Request
  <2>4. n.alone = Signing!NoRequest.alone
    BY <2>1, IdleRequest DEF Request
  <2> QED
    BY <2>2, <2>3, <2>4, IdleRequest
<1> HIDE DEF n
<1>3. signReq'[r] = n /\ Rotating(r)' /\ ~Signing!Bumping(r)'
  <2>1. signReq'[r] = n
    BY <1>1, <1>2, OthersStay
  <2> QED
    BY <1>2, <2>1, AtPlaces, Zenon
<1>4. \A q \in Requests : /\ Rotating(q)' <=> q = r \/ Rotating(q)
                          /\ Signing!Bumping(q)' <=> q # r /\ Signing!Bumping(q)
                          /\ q # r => signReq'[q] = signReq[q]
  BY <1>1, <1>2, <1>3, OthersStay
<1>5. Copies' \subseteq Copies
  BY <1>1, <1>2, CopiesMove
<1>6. /\ \A t \in sessions : t.key # signOuts + 1
      /\ env.key # signOuts + 1 /\ \A c \in Copies : c.key # signOuts + 1
  BY Numbers DEF SignInv, SecretsAreNew
<1>7. SecretsAreNew'
  <2>1. /\ env'.key <= signOuts' /\ \A c \in Copies' : c.key <= signOuts'
        /\ \A t \in sessions' : t.key <= t.born /\ t.born <= signOuts'
    BY <1>1, <1>5, Numbers DEF SignInv, SecretsAreNew
  <2>2. ASSUME NEW q \in Requests, q # r, Rotating(q)
        PROVE  /\ signReq[q].no <= signOuts /\ signReq[q].no # env.key
               /\ \A t \in sessions : t.key # signReq[q].no
    BY <2>2, NumbersGiven DEF SignInv, SecretsAreNew
  <2>3. ASSUME NEW q \in Requests, Rotating(q)'
        PROVE  /\ signReq'[q].no # env'.key
               /\ \A t \in sessions' : t.key # signReq'[q].no
               /\ \A p \in Requests : Rotating(p)' /\ signReq'[p].no = signReq'[q].no => p = q
    <3>1. signReq'[q].no # env'.key /\ \A t \in sessions' : t.key # signReq'[q].no
      <4>1. CASE q = r
        BY <1>1, <1>2, <1>3, <1>6, <4>1
      <4>2. CASE q # r
        BY <1>1, <1>4, <2>2, <2>3, <4>2
      <4> QED
        BY <4>1, <4>2
    <3>2. \A p \in Requests : Rotating(p)' /\ signReq'[p].no = signReq'[q].no => p = q
      <4> SUFFICES ASSUME NEW p \in Requests, Rotating(p)', signReq'[p].no = signReq'[q].no PROVE p = q
        OBVIOUS
      <4>1. CASE p # r /\ q # r
        BY <1>4, <2>3, <4>1 DEF SignInv, SecretsAreNew
      <4>2. CASE p = r /\ q # r
        <5>1. signReq'[q].no <= signOuts
          BY <1>4, <2>2, <2>3, <4>2
        <5>2. signReq'[p].no = signOuts + 1
          BY <1>2, <1>3, <4>2
        <5> QED
          BY <5>1, <5>2, Numbers
      <4>3. CASE q = r /\ p # r
        <5>1. signReq'[p].no <= signOuts
          BY <1>4, <2>2, <2>3, <4>3
        <5>2. signReq'[q].no = signOuts + 1
          BY <1>2, <1>3, <4>3
        <5> QED
          BY <5>1, <5>2, Numbers
      <4> QED
        BY <4>1, <4>2, <4>3
    <3> QED
      BY <3>1, <3>2
  <2> QED
    BY <2>1, <2>3 DEF SecretsAreNew
<1>8. \A t \in sessions : (\A q \in Requests : Rotating(q) => t.key # signReq[q].no)
                            => \A q \in Requests : Rotating(q)' => t.key # signReq'[q].no
  BY <1>2, <1>3, <1>4, <1>6
<1>9. SignedOutStay'
  <2>1. \A t \in sessions : EpochIsOver(t) => EpochIsOver(t)'
    BY <1>1, <1>4 DEF EpochIsOver
  <2>2. \A t \in sessions : SecretIsOver(t) => SecretIsOver(t)'
    BY <1>1, <1>8 DEF SecretIsOver
  <2>3. out' <= signOuts'
    BY <1>1, Numbers DEF SignInv, SignedOutStay
  <2> QED
    BY <1>1, <2>1, <2>2, <2>3 DEF SignInv, SignedOutStay
<1>10. FiledStay'
  <2>1. \A t \in sessions : EpochIsGone(t) => EpochIsGone(t)'
    BY <1>1, <1>4, <1>5 DEF EpochIsGone
  <2>2. \A t \in sessions : SecretIsGone(t) => SecretIsGone(t)'
    BY <1>5, <1>8 DEF SecretIsGone
  <2>3. filed' <= signOuts'
    BY <1>1, Numbers DEF SignInv, FiledStay
  <2> QED
    BY <1>1, <2>1, <2>2, <2>3 DEF SignInv, FiledStay
<1>11. AloneLeadOn'
  <2>1. ASSUME NEW p \in Requests, Signing!Bumping(p)', signReq'[p].alone PROVE LeadsOn(p)'
    <3>1. LeadsOn(p) /\ signReq'[p] = signReq[p]
      BY <1>4, <2>1, AloneLeads
    <3>2. \A q \in Requests : Signing!Bumping(q)' => signReq[p].epoch <= signReq'[q].epoch
      BY <1>4, <3>1 DEF LeadsOn
    <3> QED
      BY <1>1, <3>1, <3>2 DEF LeadsOn
  <2>2. ASSUME NEW q \in Requests, Signing!Bumping(q)' \/ Rotating(q)'
        PROVE  signReq'[q].no <= signOuts' /\ (Rotating(q)' => signReq'[q].alone)
    <3>1. CASE q = r
      <4>1. signOuts + 1 <= signOuts + 1
        BY Numbers
      <4> QED
        BY <1>1, <1>2, <1>3, <3>1, <4>1
    <3>2. CASE q # r
      <4>1. signReq'[q] = signReq[q] /\ (Signing!Bumping(q) \/ Rotating(q)) /\ (Rotating(q)' => Rotating(q))
        BY <1>4, <2>2, <3>2
      <4>2. signReq[q].no <= signOuts /\ (Rotating(q) => signReq[q].alone)
        BY <4>1, NumbersGiven
      <4>3. signReq[q].no <= signOuts + 1
        BY <4>2, Numbers
      <4> QED
        BY <1>1, <4>1, <4>2, <4>3
    <3> QED
      BY <3>1, <3>2
  <2> QED
    BY <2>1, <2>2 DEF AloneLeadOn
<1>12. signOuts' \in Nat
  BY <1>1, Numbers
<1> QED
  BY <1>1, <1>2, <1>7, <1>9, <1>10, <1>11, <1>12, SettingsTyped, SettingStep DEF Early

LEMMA SecretFileStep == ASSUME SignInv, NEW r \in Requests, Signing!SecretFile(r) PROVE SignInv'
<1> DEFINE n == [signReq[r] EXCEPT !.at = "key env", !.copy = Signing!NoRequest.copy]
<1>1. /\ UNCHANGED <<env, links, resets, raced, tried, failed, barred, sessions, stepUps, signOuts, out>>
      /\ signReq[r].at = "key file" /\ signReq' = [signReq EXCEPT ![r] = n]
      /\ file' = [signReq[r].copy EXCEPT !.key = signReq[r].no]
      /\ filed' = IF signReq[r].alone /\ Signing!Settles(r) /\ signReq[r].no > filed THEN signReq[r].no ELSE filed
  BY SettingsTyped DEF Signing!SecretFile, Signing!At, Signing!WriteFile, Signing!Files, Signing!throttle,
     Signing!cookies, SignInv, SignTyped, Request
<1>2. /\ n \in Request /\ n.at = "key env" /\ n.epoch = signReq[r].epoch /\ n.no = signReq[r].no
      /\ n.alone = signReq[r].alone /\ n.op = signReq[r].op
  BY SettingsTyped, IdleRequest DEF Request
<1> HIDE DEF n
<1>3. /\ signReq'[r] = n /\ Rotating(r) /\ Rotating(r)' /\ ~Signing!Bumping(r) /\ ~Signing!Bumping(r)'
      /\ Signing!Holds(r) /\ ~Signing!Holds(r)'
  <2>1. signReq'[r] = n
    BY <1>1, <1>2, OthersStay
  <2> QED
    BY <1>1, <1>2, <2>1, AtPlaces, Zenon
<1>4. \A q \in Requests : /\ Rotating(q)' <=> Rotating(q)
                          /\ Signing!Bumping(q)' <=> Signing!Bumping(q)
                          /\ signReq'[q].epoch = signReq[q].epoch /\ signReq'[q].no = signReq[q].no
                          /\ signReq'[q].alone = signReq[q].alone
  BY <1>1, <1>2, <1>3, OthersStay
<1>5. /\ file' \in [epoch : Nat, key : Nat] /\ file'.key = signReq[r].no /\ file'.epoch = signReq[r].copy.epoch
      /\ signReq[r].copy \in Copies
  <2>1. signReq[r].copy \in Copies
    BY <1>3 DEF Copies
  <2> QED
    BY <1>1, <2>1, Numbers
<1>6. Copies' \subseteq Copies \cup {file'} /\ (Signing!Settles(r) => Copies' = {file'})
  BY <1>1, <1>2, <1>3, CopyChanges
<1>7. signReq[r].no <= signOuts /\ \A t \in sessions : t.key # signReq[r].no
  BY <1>3, NumbersGiven DEF SignInv, SecretsAreNew
<1>8. SecretsAreNew'
  <2>1. /\ env'.key <= signOuts' /\ \A c \in Copies' : c.key <= signOuts'
        /\ \A t \in sessions' : t.key <= t.born /\ t.born <= signOuts'
    BY <1>1, <1>5, <1>6, <1>7 DEF SignInv, SecretsAreNew
  <2>2. ASSUME NEW q \in Requests, Rotating(q)'
        PROVE  /\ signReq'[q].no # env'.key /\ \A t \in sessions' : t.key # signReq'[q].no
               /\ \A p \in Requests : Rotating(p)' /\ signReq'[p].no = signReq'[q].no => p = q
    <3>1. Rotating(q) /\ signReq'[q].no = signReq[q].no
      BY <1>4, <2>2
    <3>2. signReq[q].no # env.key /\ \A t \in sessions : t.key # signReq[q].no
      BY <3>1 DEF SignInv, SecretsAreNew
    <3>3. ASSUME NEW p \in Requests, Rotating(p)', signReq'[p].no = signReq'[q].no PROVE p = q
      <4>1. Rotating(p) /\ signReq[p].no = signReq[q].no
        BY <1>4, <3>1, <3>3
      <4> QED
        BY <3>1, <4>1 DEF SignInv, SecretsAreNew
    <3> QED
      BY <1>1, <3>1, <3>2, <3>3
  <2> QED
    BY <2>1, <2>2 DEF SecretsAreNew
<1>9. SignedOutStay'
  BY <1>1, <1>4 DEF SignInv, SignedOutStay, EpochIsOver, SecretIsOver
<1>10. filed' \in Nat /\ filed' <= signOuts
  BY <1>1, <1>7, Numbers DEF SignInv, FiledStay
<1>11. FiledStay'
  <2>1. ASSUME NEW t \in sessions, EpochIsGone(t) PROVE EpochIsGone(t)'
    <3>1. \A c \in Copies' : t.epoch < c.epoch
      BY <1>5, <1>6, <2>1 DEF EpochIsGone
    <3> QED
      BY <1>1, <1>4, <2>1, <3>1 DEF EpochIsGone
  <2>2. ASSUME NEW t \in sessions, SecretIsGone(t) PROVE SecretIsGone(t)'
    <3>1. \A c \in Copies' : t.key # c.key
      BY <1>5, <1>6, <1>7, <2>2 DEF SecretIsGone
    <3> QED
      BY <1>4, <2>2, <3>1 DEF SecretIsGone
  <2>3. ASSUME NEW t \in sessions, t.born < filed', ~(t.born < filed) PROVE SecretIsGone(t)'
    <3>1. \A c \in Copies' : t.key # c.key
      BY <1>1, <1>5, <1>6, <1>7, <2>3
    <3>2. \A q \in Requests : Rotating(q) => t.key # signReq[q].no
      BY DEF SignInv, SecretsAreNew
    <3> QED
      BY <1>4, <3>1, <3>2 DEF SecretIsGone
  <2> QED
    BY <1>1, <1>10, <2>1, <2>2, <2>3 DEF SignInv, FiledStay
<1>12. AloneLeadOn'
  BY <1>1, <1>4 DEF SignInv, AloneLeadOn, LeadsOn
<1> QED
  BY <1>1, <1>2, <1>5, <1>8, <1>9, <1>10, <1>11, <1>12, SettingsTyped, SettingStep DEF Early

LEMMA UseSecretStep == ASSUME SignInv, NEW r \in Requests, Signing!UseSecret(r) PROVE SignInv'
<1>1. /\ UNCHANGED <<file, links, resets, raced, tried, failed, barred, sessions, stepUps, signOuts, filed>>
      /\ signReq[r].at = "key env" /\ env' = [env EXCEPT !.key = signReq[r].no]
      /\ signReq' = [signReq EXCEPT ![r] = Signing!NoRequest]
      /\ out' = IF signReq[r].alone /\ signReq[r].no > out THEN signReq[r].no ELSE out
  BY DEF Signing!UseSecret, Signing!At, Signing!End, Signing!SignedOut, Signing!throttle, Signing!cookies
<1>2. Rotating(r) /\ ~Rotating(r)' /\ ~Signing!Bumping(r) /\ ~Signing!Bumping(r)' /\ ~Signing!Holds(r)'
  <2>1. signReq'[r] = Signing!NoRequest
    BY <1>1, IdleRequest, OthersStay
  <2> QED
    BY <1>1, <2>1, IdleRequest, AtPlaces, Zenon
<1>3. env' \in [epoch : Nat, key : Nat] /\ env'.epoch = env.epoch /\ env'.key = signReq[r].no
  BY <1>1, SettingsTyped, Numbers
<1>4. \A q \in Requests : /\ Rotating(q)' <=> q # r /\ Rotating(q)
                          /\ Signing!Bumping(q)' <=> Signing!Bumping(q)
                          /\ q # r => signReq'[q] = signReq[q]
  BY <1>1, <1>2, IdleRequest, OthersStay
<1>5. Copies' \subseteq Copies
  BY <1>1, <1>2, IdleRequest, CopiesMove
<1>6. signReq[r].no <= signOuts /\ \A t \in sessions : t.key # signReq[r].no
  BY <1>2, NumbersGiven DEF SignInv, SecretsAreNew
<1>7. SecretsAreNew'
  <2>1. /\ env'.key <= signOuts' /\ \A c \in Copies' : c.key <= signOuts'
        /\ \A t \in sessions' : t.key <= t.born /\ t.born <= signOuts'
    BY <1>1, <1>3, <1>5, <1>6 DEF SignInv, SecretsAreNew
  <2>2. ASSUME NEW q \in Requests, Rotating(q)'
        PROVE  /\ signReq'[q].no # env'.key /\ \A t \in sessions' : t.key # signReq'[q].no
               /\ \A p \in Requests : Rotating(p)' /\ signReq'[p].no = signReq'[q].no => p = q
    <3>1. q # r /\ Rotating(q) /\ signReq'[q] = signReq[q]
      BY <1>4, <2>2
    <3>2. signReq[q].no # signReq[r].no /\ \A t \in sessions : t.key # signReq[q].no
      BY <1>2, <3>1 DEF SignInv, SecretsAreNew
    <3>3. \A p \in Requests : Rotating(p)' /\ signReq'[p].no = signReq'[q].no => p = q
      BY <1>4, <3>1 DEF SignInv, SecretsAreNew
    <3> QED
      BY <1>1, <1>3, <3>1, <3>2, <3>3
  <2> QED
    BY <2>1, <2>2 DEF SecretsAreNew
<1>8. out' \in Nat /\ out' <= signOuts
  BY <1>1, <1>6, Numbers DEF SignInv, SignedOutStay
<1>9. SignedOutStay'
  <2>1. ASSUME NEW t \in sessions, t.born < out' PROVE EpochIsOver(t)' \/ SecretIsOver(t)'
    <3>1. EpochIsOver(t) => EpochIsOver(t)'
      BY <1>1, <1>2, <1>3, <1>4 DEF EpochIsOver
    <3>2. SecretIsOver(t)'
      <4>1. \A q \in Requests : Rotating(q) => t.key # signReq[q].no
        BY DEF SignInv, SecretsAreNew
      <4> QED
        BY <1>3, <1>4, <1>6, <4>1 DEF SecretIsOver
    <3> QED
      BY <3>1, <3>2
  <2> QED
    BY <1>1, <1>8, <2>1 DEF SignedOutStay
<1>10. FiledStay'
  <2>1. \A t \in sessions : EpochIsGone(t) => EpochIsGone(t)'
    BY <1>1, <1>2, <1>3, <1>4, <1>5 DEF EpochIsGone
  <2>2. \A t \in sessions : SecretIsGone(t) => SecretIsGone(t)'
    BY <1>4, <1>5 DEF SecretIsGone
  <2> QED
    BY <1>1, <2>1, <2>2 DEF SignInv, FiledStay
<1>11. AloneLeadOn'
  BY <1>1, <1>2, <1>3, <1>4 DEF SignInv, AloneLeadOn, LeadsOn
<1> QED
  BY <1>1, <1>3, <1>7, <1>8, <1>9, <1>10, <1>11, IdleRequest, SettingsTyped, SettingStep DEF Early

LEMMA RestartStep == ASSUME SignInv, Signing!Restart PROVE SignInv'
<1>1. /\ UNCHANGED <<file, failed, barred, tried, links, sessions, stepUps, signOuts, filed, resets, raced>>
      /\ env' = file /\ signReq' = [r \in Requests |-> Signing!NoRequest] /\ out' = filed
  BY DEF Signing!Restart, Signing!throttle, Signing!cookies
<1>2. signReq' \in [Requests -> Request] /\ \A r \in Requests : signReq'[r] = Signing!NoRequest
  BY <1>1, IdleRequest
<1>3. \A r \in Requests : ~Rotating(r)' /\ ~Signing!Bumping(r)' /\ ~Signing!Holds(r)'
  BY <1>2, IdleRequest, AtPlaces, Zenon
<1>4. Copies' = {file} /\ file \in Copies
  BY <1>1, <1>3 DEF Copies
<1>5. SignTyped'
  BY <1>1, <1>2 DEF SignInv, SignTyped
<1>6. SecretsAreNew'
  BY <1>1, <1>3, <1>4 DEF SignInv, SecretsAreNew
<1>7. SignedOutStay'
  BY <1>1, <1>3, <1>4 DEF SignInv, FiledStay, SignedOutStay, EpochIsOver, SecretIsOver, EpochIsGone, SecretIsGone
<1>8. FiledStay'
  <2>1. ASSUME NEW t \in sessions, EpochIsGone(t) PROVE EpochIsGone(t)'
    <3>1. t.epoch < file.epoch
      BY <1>4, <2>1 DEF EpochIsGone
    <3>2. t.epoch <= env'.epoch
      BY <1>1, <3>1, Numbers
    <3> QED
      BY <1>1, <1>3, <1>4, <3>1, <3>2 DEF EpochIsGone
  <2>2. \A t \in sessions : SecretIsGone(t) => SecretIsGone(t)'
    BY <1>3, <1>4 DEF SecretIsGone
  <2> QED
    BY <1>1, <2>1, <2>2 DEF SignInv, FiledStay
<1>9. AloneLeadOn'
  BY <1>3 DEF AloneLeadOn
<1>10. TriesLeft'
  BY <1>1, <1>2, IdleRequest, TriesStay
<1>11. LinksOnce'
  BY <1>1, <1>2, IdleRequest, LinksStay
<1> QED
  BY <1>5, <1>6, <1>7, <1>8, <1>9, <1>10, <1>11 DEF SignInv

LEMMA SignNextInv == ASSUME SignInv, Signing!Next PROVE SignInv'
<1>1. ASSUME NEW r \in Requests, Signing!Steps(r) PROVE SignInv'
  BY <1>1, EnforceStep, CheckPasswordStep, RecordAttemptStep, SignInStep, StepUpStep, ClaimsStep, MarkLinkStep,
     StorePasswordStep, HashFileStep, BlankPasswordStep, BlankFileStep, LogOutEverywhereStep, BumpReadStep,
     BumpCopyStep, BumpFileStep, BumpEnvStep, ClearStep, RotateSecretStep, SecretFileStep, UseSecretStep, SaveStep,
     SaveFileStep
     DEF Signing!Steps
<1>2. ASSUME NEW r \in Requests, NEW op \in Signing!Ops, Signing!Ask(r, op) PROVE SignInv'
  BY <1>2, AskStep
<1>3. ASSUME NEW r \in Requests, NEW l \in Links, Signing!LookUp(r, l) PROVE SignInv'
  BY <1>3, LookUpStep
<1>4. ASSUME NEW l \in Links, Signing!IssueLink(l) \/ Signing!LinkExpires(l) PROVE SignInv'
  BY <1>4, IssueLinkStep, LinkExpiresStep
<1>5. ASSUME NEW s \in sessions, Signing!SessionExpires(s) PROVE SignInv'
  BY <1>5, SessionExpiresStep
<1>6. ASSUME NEW s \in stepUps, Signing!StepUpExpires(s) PROVE SignInv'
  <2>1. s \in sessions
    BY DEF SignInv, SignTyped
  <2> QED
    BY <1>6, <2>1, SessionExpiresStep
<1>7. CASE Signing!LockEnds \/ Signing!Restart
  BY <1>7, LockEndsStep, RestartStep
<1> QED
  BY <1>1, <1>2, <1>3, <1>4, <1>5, <1>6, <1>7 DEF Signing!Next

LEMMA SignStutter == ASSUME SignInv, UNCHANGED signingVars PROVE SignInv'
<1>1. UNCHANGED <<env, file, failed, barred, links, sessions, stepUps, signReq, signOuts, out, filed, tried, resets, raced>>
  BY DEF signingVars
<1> QED
  BY <1>1, TimeStep DEF SignInv, SignTyped

LEMMA SignInit == ASSUME Signing!Init PROVE SignInv
<1>1. /\ env = [epoch |-> 0, key |-> 0] /\ file = env /\ failed = 0 /\ barred = FALSE
      /\ links = [l \in Links |-> "none"] /\ sessions = {} /\ stepUps = {}
      /\ signReq = [r \in Requests |-> Signing!NoRequest]
      /\ signOuts = 0 /\ out = 0 /\ filed = 0 /\ tried = 0 /\ resets = [l \in Links |-> 0] /\ raced = {}
  BY DEF Signing!Init
<1>2. \A r \in Requests : signReq[r] = Signing!NoRequest
  BY <1>1
<1>3. SignTyped
  <2>1. env \in [epoch : Nat, key : Nat] /\ file \in [epoch : Nat, key : Nat]
    BY <1>1
  <2>2. links \in [Links -> {"none", "live", "late", "used"}] /\ resets \in [Links -> Nat]
    BY <1>1
  <2>3. signReq \in [Requests -> Request]
    BY <1>1, IdleRequest
  <2>4. failed \in Nat /\ tried \in Nat /\ signOuts \in Nat /\ out \in Nat /\ filed \in Nat
    BY <1>1
  <2>5. barred \in BOOLEAN /\ sessions \subseteq Session /\ stepUps \subseteq sessions
    BY <1>1
  <2> QED
    BY <2>1, <2>2, <2>3, <2>4, <2>5 DEF SignTyped
<1>4. \A r \in Requests : ~Rotating(r) /\ ~Signing!Bumping(r) /\ ~Signing!Holds(r) /\ signReq[r].op = "none"
  BY <1>2, IdleRequest, Zenon DEF Rotating, Signing!Bumping, Signing!Holds, Signing!Copying
<1>5. SecretsAreNew /\ SignedOutStay /\ FiledStay /\ AloneLeadOn
  <2>1. Copies = {file}
    BY <1>4 DEF Copies
  <2> QED
    BY <1>1, <1>4, <2>1 DEF SecretsAreNew, SignedOutStay, FiledStay, AloneLeadOn
<1>6. TriesLeft
  BY <1>1 DEF TriesLeft
<1>7. LinksOnce
  BY <1>1, <1>4 DEF LinksOnce, Works
<1> QED
  BY <1>3, <1>5, <1>6, <1>7 DEF SignInv

\* What holds of every behaviour in which requests sign in and out, or use links.
LEMMA SignInvHolds == OutsideSpec => [](focus \in {"sign-ins", "attempts", "links"} => SignInv)
<1> DEFINE Inv0 == focus \in {"sign-ins", "attempts", "links"} => SignInv
<1>1. OutsideInit => Inv0
  BY SignInit DEF OutsideInit
<1>2. Inv0 /\ [OutsideNext]_outsideVars => Inv0'
  <2> SUFFICES ASSUME Inv0, [OutsideNext]_outsideVars, focus' \in {"sign-ins", "attempts", "links"} PROVE SignInv'
    OBVIOUS
  <2>1. focus' = focus
    BY DEF OutsideNext, outsideVars
  <2>2. Signing!Next \/ UNCHANGED signingVars
    BY <2>1 DEF OutsideNext, outsideVars
  <2> QED
    BY <2>1, <2>2, SignNextInv, SignStutter
<1> HIDE DEF Inv0
<1>3. OutsideSpec => []Inv0
  BY <1>1, <1>2, PTL DEF OutsideSpec
<1> QED
  BY <1>3 DEF Inv0

\* Sets are counted in an instance as they are here.
LEMMA SameCardinality == \A S : Signing!Cardinality(S) = Cardinality(S)
BY DEF Signing!Cardinality, Cardinality

\* Who was signed out stays out, and while the lock is on fewer passwords are checked than
\* there are threads, however many requests, sign-outs and restarts there are (auth.py,
\* login_throttle).
THEOREM StaysSignedOutHolds == OutsideSpec => []StaysSignedOut
<1> DEFINE Inv0 == focus \in {"sign-ins", "attempts", "links"} => SignInv
<1>1. Inv0 => StaysSignedOut
  <2> SUFFICES ASSUME SignInv PROVE Signing!TypeOK /\ Signing!StaysSignedOut /\ Signing!LockBoundsTries
    BY DEF StaysSignedOut
  <2>1. Signing!TypeOK
    BY DEF SignInv, SignTyped, Request, Signing!TypeOK, Signing!Settings, Signing!Ops
  <2>2. Signing!StaysSignedOut
    <3>1. ASSUME NEW s \in sessions, s.born < out PROVE ~Signing!Valid(s)
      <4>1. CASE EpochIsOver(s)
        <5>1. s.epoch < env.epoch /\ s.epoch \in Nat /\ env.epoch \in Nat
          BY <4>1, Numbers DEF EpochIsOver
        <5>2. s.epoch # env.epoch
          BY <5>1
        <5> QED
          BY <5>2 DEF Signing!Valid
      <4>2. CASE SecretIsOver(s)
        BY <4>2 DEF SecretIsOver, Signing!Valid
      <4> QED
        BY <3>1, <4>1, <4>2 DEF SignInv, SignedOutStay
    <3> QED
      BY <3>1 DEF Signing!StaysSignedOut
  <2>3. Signing!LockBoundsTries
    <3>1. IsFiniteSet(Checking)
      BY RequestsAssumption, FS_Subset DEF Checking
    <3>2. Cardinality(Checking) \in Nat /\ Cardinality(Requests) \in Nat
      BY <3>1, RequestsAssumption, FS_CardinalityType
    <3>3. barred => tried + Cardinality(Checking) < Cardinality(Requests)
      BY DEF SignInv, TriesLeft
    <3>4. tried \in Nat
      BY DEF SignInv, SignTyped
    <3>5. tried + Cardinality(Checking) < Cardinality(Requests) => tried < Cardinality(Requests)
      BY <3>2, <3>4
    <3> QED
      BY <3>3, <3>5, SameCardinality DEF Signing!LockBoundsTries
  <2> QED
    BY <2>1, <2>2, <2>3
<1>2. OutsideSpec => []Inv0
  BY SignInvHolds
<1> HIDE DEF Inv0
<1> QED
  BY <1>1, <1>2, PTL

\* Of any number of reset links one is usable at a time, and each sets one password unless
\* two requests looked it up at once (_issue_reset_link, reset_password).
THEOREM OneResetPerLinkHolds == OutsideSpec => []OneResetPerLink
<1> DEFINE Inv0 == focus \in {"sign-ins", "attempts", "links"} => SignInv
<1>1. Inv0 => OneResetPerLink
  <2> SUFFICES ASSUME SignInv PROVE Signing!OneResetPerLink
    BY DEF OneResetPerLink
  <2>1. Cardinality({l \in Links : links[l] = "live"}) <= 1
    <3>1. CASE {l \in Links : links[l] = "live"} = {}
      BY <3>1, FS_EmptySet
    <3>2. CASE {l \in Links : links[l] = "live"} # {}
      <4>1. PICK l \in Links : links[l] = "live"
        BY <3>2
      <4>2. {k \in Links : links[k] = "live"} = {l}
        BY <4>1 DEF SignInv, LinksOnce
      <4>3. Cardinality({l}) = 1
        BY FS_Singleton
      <4> QED
        BY <4>2, <4>3
    <3> QED
      BY <3>1, <3>2
  <2>2. \A l \in Links : resets[l] > 1 => l \in raced
    BY DEF SignInv, SignTyped, LinksOnce
  <2> QED
    BY <2>1, <2>2, SameCardinality DEF Signing!OneResetPerLink
<1>2. OutsideSpec => []Inv0
  BY SignInvHolds
<1> HIDE DEF Inv0
<1> QED
  BY <1>1, <1>2, PTL

-----------------------------------------------------------------------------
(* YahooAccess *)

Ended == {"data", "empty", "none"}
GetterState == [family : Yahoo!Families, bulk : BOOLEAN, lock : BOOLEAN, keeps : SUBSET Ended, forced : BOOLEAN]
CallState == [at : {"idle", "wait", "acquire", "open", "ask", "store"}, get : Yahoo!Getters, want : SUBSET Tickers,
              path : {"plain", "failover"}, fell : BOOLEAN]
SendState == [at : {"no", "ask", "sleep", "wait", "acquire", "fallback"} \cup Ended, tries : Nat]

YahooTyped ==
  /\ mode \in {"plain", "ipv6"} /\ locked \in BOOLEAN /\ ready \in BOOLEAN /\ latch \in BOOLEAN
  /\ cache \subseteq Yahoo!Families \X Tickers
  /\ call \in [Callers -> CallState]
  /\ yahooReq \in [Callers -> [Tickers -> SendState]]

\* The requests of a call are where the call is.
RequestsFit(c) ==
  /\ call[c].at \in {"idle", "wait", "acquire", "open"} => \A t \in Tickers : yahooReq[c][t].at = "no"
  /\ call[c].at = "store" => \A t \in Tickers : yahooReq[c][t].at \in Ended \cup {"no"}
  /\ call[c].at = "ask" => \A t \in Tickers \ call[c].want : yahooReq[c][t].at = "no"
  /\ call[c].at \in {"wait", "acquire"} => call[c].get.lock
  /\ call[c].at = "store" => call[c].get # Yahoo!Intraday
  /\ \A t \in Tickers : yahooReq[c][t].at \in {"wait", "acquire"} => Yahoo!KnowsLock(c)
  /\ ~call[c].get.bulk => \A t, u \in call[c].want : t = u
  /\ call[c].path = "failover" => mode = "ipv6"

\* Whoever has not been stopped by the pause was past the wait when it began.
LateIsPast(c) == \A t \in Tickers : call[c].get.lock /\ Yahoo!PastWait(c, t) => <<c, t>> \in late

\* Whoever is at the session for intraday bars asks for none that are there.
AsksForNews(c) ==
  Yahoo!LooksAgain(c) /\ call[c].at \in {"open", "ask"} => \A t \in call[c].want : ~Yahoo!Hit(Yahoo!Intraday, t)

YahooInv ==
  /\ YahooTyped /\ \A c \in Callers : RequestsFit(c)
  /\ Yahoo!OneAtTheSession
  /\ ~ready => \A c \in Callers : LateIsPast(c)
  /\ mode # "ipv6" => \A c \in Callers : AsksForNews(c)

-----------------------------------------------------------------------------
LEMMA GettersKnown ==
  /\ \A g \in Yahoo!Getters : g \in GetterState /\ (g.family = "intraday" => g = Yahoo!Intraday)
  /\ Yahoo!Intraday \in Yahoo!Getters /\ Yahoo!TickerInfo \in Yahoo!Getters
  /\ Yahoo!Intraday.bulk /\ Yahoo!Intraday.lock /\ ~Yahoo!Intraday.forced /\ Yahoo!Intraday.family = "intraday"
<1> USE DEF Yahoo!Getters, Yahoo!Intraday, Yahoo!History, Yahoo!ForcedHistory, Yahoo!TickerInfo, Yahoo!QuoteSnapshot,
         Yahoo!SessionShape, Yahoo!OptionsExpirations, Yahoo!OptionsChain, Yahoo!News, Yahoo!InsiderTransactions,
         Yahoo!EarningsDates, Yahoo!FundHoldings, Yahoo!SectorWeightings, Yahoo!TickerActions, Yahoo!AnnualFinancials,
         Yahoo!FxRate, Yahoo!SingleHistory, Yahoo!IsinSearch, Yahoo!TickerSearch, Yahoo!Single, Yahoo!IfAny, Yahoo!Anyway
<1>1. /\ Yahoo!Intraday \in GetterState /\ Yahoo!History \in GetterState /\ Yahoo!ForcedHistory \in GetterState
      /\ Yahoo!IfAny \in GetterState /\ Yahoo!Anyway \in GetterState /\ Yahoo!IsinSearch \in GetterState
  BY DEF GetterState, Ended, Yahoo!Families
<1>2. /\ Yahoo!History.family = "history" /\ Yahoo!ForcedHistory.family = "history" /\ Yahoo!IfAny.family = "single"
      /\ Yahoo!Anyway.family = "single" /\ Yahoo!IsinSearch.family = "single"
  OBVIOUS
<1>3. \A g \in Yahoo!Getters : g \in {Yahoo!Intraday, Yahoo!History, Yahoo!ForcedHistory, Yahoo!IfAny, Yahoo!Anyway, Yahoo!IsinSearch}
  OBVIOUS
<1>4. \A g \in Yahoo!Getters : g \in GetterState
  BY <1>1, <1>3
<1>5. \A g \in Yahoo!Getters : g.family = "intraday" => g = Yahoo!Intraday
  BY <1>2, <1>3
<1> QED
  BY <1>4, <1>5

\* A call whose fields are known.
LEMMA CallTyped ==
  ASSUME YahooTyped, NEW c \in Callers
  PROVE  /\ call[c] \in CallState /\ call[c].get \in Yahoo!Getters /\ call[c].get \in GetterState /\ call[c].want \subseteq Tickers
         /\ call[c].get.lock \in BOOLEAN /\ call[c].get.bulk \in BOOLEAN /\ call[c].fell \in BOOLEAN
         /\ \A t \in Tickers : yahooReq[c][t] \in SendState /\ yahooReq[c][t].tries \in Nat
  BY GettersKnown DEF YahooTyped, CallState, SendState, GetterState

LEMMA NoCallState ==
  /\ Yahoo!NoCall \in CallState /\ Yahoo!NoCall.at = "idle" /\ Yahoo!NoCall.want = {} /\ Yahoo!NoCall.path = "plain"
  /\ Yahoo!NoRequests \in [Tickers -> SendState] /\ \A t \in Tickers : Yahoo!NoRequests[t].at = "no"
  BY GettersKnown DEF Yahoo!NoCall, Yahoo!NoRequests, CallState, SendState

\* One caller moves: what the others are up to stays as it is.
LEMMA CallerMoves ==
  ASSUME YahooInv, YahooTyped', mode' = mode, NEW c \in Callers,
         \A d \in Callers \ {c} : call'[d] = call[d] /\ yahooReq'[d] = yahooReq[d],
         RequestsFit(c)',
         mode # "ipv6" =>
           /\ \/ (Yahoo!OnSession(c)' <=> Yahoo!OnSession(c)) /\ locked' = locked
              \/ ~locked /\ locked' /\ Yahoo!OnSession(c)'
              \/ Yahoo!OnSession(c) /\ ~Yahoo!OnSession(c)' /\ ~locked'
           /\ AsksForNews(c)'
           /\ \A t \in Tickers : <<"intraday", t>> \in cache' => <<"intraday", t>> \in cache \/ Yahoo!OnSession(c),
         ~ready' => \/ ~ready /\ late' = late /\ LateIsPast(c)'
                    \/ \A d \in Callers : LateIsPast(d)'
  PROVE  YahooInv'
<1>1. \A d \in Callers \ {c} :
        /\ RequestsFit(d)' <=> RequestsFit(d)
        /\ Yahoo!OnSession(d)' <=> Yahoo!OnSession(d)
        /\ late' = late => (LateIsPast(d)' <=> LateIsPast(d))
        /\ (call'[d].get = Yahoo!Intraday) <=> (call[d].get = Yahoo!Intraday)
  BY DEF RequestsFit, Yahoo!KnowsLock, Yahoo!OnSession, Yahoo!Pausing, Yahoo!At, LateIsPast, Yahoo!PastWait
<1>2. \A d \in Callers : RequestsFit(d)'
  BY <1>1 DEF YahooInv
<1>3. Yahoo!OneAtTheSession'
  BY <1>1 DEF YahooInv, Yahoo!OneAtTheSession
<1>4. ~ready' => \A d \in Callers : LateIsPast(d)'
  BY <1>1 DEF YahooInv
<1>5. ASSUME mode # "ipv6", NEW d \in Callers PROVE AsksForNews(d)'
  <2>1. CASE d = c
    BY <1>5, <2>1
  <2>2. CASE d # c /\ call[d].get = Yahoo!Intraday /\ call[d].at \in {"open", "ask"}
    <3>1. call[d].path = "plain"
      BY <1>5 DEF YahooInv, RequestsFit, YahooTyped, CallState
    <3>2. Yahoo!OnSession(d)
      BY <2>2, <3>1, GettersKnown DEF Yahoo!OnSession, Yahoo!At, Yahoo!KnowsLock
    <3>3. ~Yahoo!OnSession(c)
      BY <1>5, <2>2, <3>2 DEF YahooInv, Yahoo!OneAtTheSession
    <3>4. \A t \in call[d].want : t \in Tickers /\ <<"intraday", t>> \notin cache
      BY <1>5, <2>2, CallTyped, GettersKnown DEF YahooInv, AsksForNews, Yahoo!LooksAgain, Yahoo!Hit, Yahoo!Key
    <3> QED
      BY <1>5, <2>2, <3>3, <3>4, GettersKnown DEF AsksForNews, Yahoo!LooksAgain, Yahoo!Hit, Yahoo!Key
  <2>3. CASE d # c /\ ~(call[d].get = Yahoo!Intraday /\ call[d].at \in {"open", "ask"})
    BY <2>3 DEF AsksForNews, Yahoo!LooksAgain
  <2> QED
    BY <2>1, <2>2, <2>3
<1> QED
  BY <1>2, <1>3, <1>4, <1>5 DEF YahooInv

-----------------------------------------------------------------------------
(* The steps of a call *)

LEMMA CallSet ==
  ASSUME YahooTyped, NEW c \in Callers, NEW r \in CallState, call' = [call EXCEPT ![c] = r],
         UNCHANGED <<mode, yahooReq>>, locked' \in BOOLEAN, ready' = ready, latch' = latch,
         cache' \subseteq Yahoo!Families \X Tickers
  PROVE  /\ YahooTyped' /\ call'[c] = r /\ yahooReq'[c] = yahooReq[c]
         /\ \A d \in Callers \ {c} : call'[d] = call[d] /\ yahooReq'[d] = yahooReq[d]
  BY DEF YahooTyped

LEMMA One == \A T \in SUBSET Tickers : Yahoo!Cardinality(T) = 1 => \A t, u \in T : t = u
<1> SUFFICES ASSUME NEW T \in SUBSET Tickers, Cardinality(T) = 1 PROVE \A t, u \in T : t = u
  BY SameCardinality DEF Yahoo!Cardinality, Signing!Cardinality, Cardinality
<1>1. IsFiniteSet(T)
  BY TickersAssumption, FS_Subset
<1>2. \E t : T = {t}
  BY <1>1, FS_Singleton
<1> QED
  BY <1>2

LEMMA BeginStep ==
  ASSUME YahooInv, NEW c \in Callers, NEW g \in Yahoo!Getters, NEW T \in SUBSET Tickers, Yahoo!Begin(c, g, T)
  PROVE  YahooInv'
<1>1. YahooTyped /\ RequestsFit(c) /\ g.lock \in BOOLEAN /\ g.bulk \in BOOLEAN
  BY GettersKnown DEF YahooInv, GetterState
<1>2. PICK r : r = [Yahoo!NoCall EXCEPT !.get = g, !.want = Yahoo!Missing(g, T), !.at = IF g.lock THEN "wait" ELSE "open"]
  OBVIOUS
<1>3. /\ call[c].at = "idle" /\ (g.bulk \/ Yahoo!Cardinality(T) = 1)
      /\ call' = [call EXCEPT ![c] = r] /\ cache' \subseteq cache
      /\ UNCHANGED <<mode, locked, ready, latch, yahooReq, late, faults>>
  BY <1>2 DEF Yahoo!Begin, Yahoo!At
<1>4. Yahoo!Missing(g, T) \subseteq T
  BY DEF Yahoo!Missing
<1>5. /\ r \in CallState /\ r.at = (IF g.lock THEN "wait" ELSE "open") /\ r.get = g /\ r.want = Yahoo!Missing(g, T)
      /\ r.path = "plain"
  BY <1>2, <1>4, NoCallState DEF CallState
<1>6. /\ YahooTyped' /\ call'[c] = r /\ yahooReq'[c] = yahooReq[c]
      /\ \A d \in Callers \ {c} : call'[d] = call[d] /\ yahooReq'[d] = yahooReq[d]
  BY <1>1, <1>3, <1>5, CallSet DEF YahooTyped
<1>7. RequestsFit(c)'
  <2>1. \A t \in Tickers : yahooReq[c][t].at = "no"
    BY <1>1, <1>3 DEF RequestsFit
  <2>2. ~g.bulk => \A t, u \in r.want : t = u
    BY <1>3, <1>4, <1>5, One
  <2> QED
    BY <1>3, <1>5, <1>6, <2>1, <2>2 DEF RequestsFit
<1>8. ~Yahoo!OnSession(c) /\ ~Yahoo!OnSession(c)'
  BY <1>3, <1>5, <1>6 DEF Yahoo!OnSession, Yahoo!At
<1>9. AsksForNews(c)'
  BY <1>5, <1>6, GettersKnown DEF AsksForNews, Yahoo!LooksAgain
<1>10. LateIsPast(c)'
  BY <1>5, <1>6 DEF LateIsPast, Yahoo!PastWait, Yahoo!At
<1> QED
  BY <1>3, <1>6, <1>7, <1>8, <1>9, <1>10, CallerMoves

LEMMA PassStep == ASSUME YahooInv, NEW c \in Callers, Yahoo!PassBreaker(c) PROVE YahooInv'
<1>1. YahooTyped /\ RequestsFit(c)
  BY DEF YahooInv
<1>2. PICK r : r = [call[c] EXCEPT !.at = "acquire"]
  OBVIOUS
<1>3. /\ call[c].at = "wait" /\ ready /\ call' = [call EXCEPT ![c] = r]
      /\ UNCHANGED <<mode, locked, ready, latch, cache, yahooReq, late, faults>>
  BY <1>2 DEF Yahoo!PassBreaker, Yahoo!At
<1>4. r \in CallState /\ r.at = "acquire" /\ r.get = call[c].get /\ r.want = call[c].want /\ r.path = call[c].path
  BY <1>1, <1>2, CallTyped DEF CallState
<1>5. /\ YahooTyped' /\ call'[c] = r /\ yahooReq'[c] = yahooReq[c]
      /\ \A d \in Callers \ {c} : call'[d] = call[d] /\ yahooReq'[d] = yahooReq[d]
  BY <1>1, <1>3, <1>4, CallSet DEF YahooTyped
<1>6. RequestsFit(c)'
  BY <1>1, <1>3, <1>4, <1>5 DEF RequestsFit
<1>7. ~Yahoo!OnSession(c) /\ ~Yahoo!OnSession(c)'
  BY <1>3, <1>4, <1>5 DEF Yahoo!OnSession, Yahoo!At
<1>8. AsksForNews(c)'
  BY <1>4, <1>5 DEF AsksForNews
<1> QED
  BY <1>3, <1>5, <1>6, <1>7, <1>8, CallerMoves

LEMMA AcquireStep == ASSUME YahooInv, NEW c \in Callers, Yahoo!Acquire(c) PROVE YahooInv'
<1>1. YahooTyped /\ RequestsFit(c)
  BY DEF YahooInv
<1>2. PICK r : r = IF Yahoo!Wanted(c) = {} THEN Yahoo!NoCall ELSE [call[c] EXCEPT !.at = "open", !.want = Yahoo!Wanted(c)]
  OBVIOUS
<1>3. /\ call[c].at = "acquire" /\ ~locked /\ call' = [call EXCEPT ![c] = r] /\ locked' = (Yahoo!Wanted(c) # {})
      /\ UNCHANGED <<mode, ready, latch, cache, yahooReq, late, faults>>
  BY <1>2 DEF Yahoo!Acquire, Yahoo!At
<1>4. Yahoo!Wanted(c) \subseteq call[c].want /\ call[c].want \subseteq Tickers
  BY <1>1, CallTyped DEF Yahoo!Wanted, Yahoo!Missing
<1>5. CASE Yahoo!Wanted(c) = {}
  <2>1. /\ YahooTyped' /\ call'[c] = Yahoo!NoCall /\ yahooReq'[c] = yahooReq[c]
        /\ \A d \in Callers \ {c} : call'[d] = call[d] /\ yahooReq'[d] = yahooReq[d]
    BY <1>1, <1>2, <1>3, <1>5, CallSet, NoCallState DEF YahooTyped
  <2>2. RequestsFit(c)'
    BY <1>1, <1>3, <2>1, NoCallState DEF RequestsFit
  <2>3. ~Yahoo!OnSession(c) /\ ~Yahoo!OnSession(c)' /\ locked' = locked
    BY <1>1, <1>3, <1>5, <2>1, NoCallState DEF Yahoo!OnSession, Yahoo!At, YahooTyped
  <2>4. AsksForNews(c)' /\ LateIsPast(c)'
    BY <2>1, NoCallState DEF AsksForNews, LateIsPast, Yahoo!PastWait, Yahoo!At
  <2> QED
    BY <1>3, <2>1, <2>2, <2>3, <2>4, CallerMoves DEF YahooInv
<1>6. CASE Yahoo!Wanted(c) # {}
  <2>1. r \in CallState /\ r.at = "open" /\ r.get = call[c].get /\ r.want = Yahoo!Wanted(c) /\ r.path = call[c].path
    BY <1>1, <1>2, <1>4, <1>6, CallTyped DEF CallState
  <2>2. /\ YahooTyped' /\ call'[c] = r /\ yahooReq'[c] = yahooReq[c]
        /\ \A d \in Callers \ {c} : call'[d] = call[d] /\ yahooReq'[d] = yahooReq[d]
    BY <1>1, <1>3, <2>1, CallSet DEF YahooTyped
  <2>3. RequestsFit(c)'
    BY <1>1, <1>3, <1>4, <2>1, <2>2 DEF RequestsFit
  <2>4. Yahoo!OnSession(c)' /\ locked'
    BY <1>1, <1>3, <1>6, <2>1, <2>2 DEF Yahoo!OnSession, Yahoo!At, RequestsFit
  <2>5. AsksForNews(c)'
    <3> SUFFICES ASSUME call[c].get = Yahoo!Intraday PROVE \A t \in Yahoo!Wanted(c) : Yahoo!Key(Yahoo!Intraday, t) \notin cache
      BY <1>3, <2>1, <2>2 DEF AsksForNews, Yahoo!LooksAgain, Yahoo!Hit, Yahoo!Key
    <3>1. Yahoo!Wanted(c) = {t \in call[c].want : ~Yahoo!Hit(Yahoo!Intraday, t)}
      BY GettersKnown DEF Yahoo!Wanted, Yahoo!LooksAgain, Yahoo!Missing
    <3> QED
      BY <3>1 DEF Yahoo!Hit
  <2>6. ~ready => LateIsPast(c)'
    BY <1>3, <2>1, <2>2 DEF YahooInv, LateIsPast, Yahoo!PastWait, Yahoo!At
  <2> QED
    BY <1>3, <2>2, <2>3, <2>4, <2>5, <2>6, CallerMoves DEF YahooInv
<1> QED
  BY <1>5, <1>6

LEMMA OpenStep == ASSUME YahooInv, NEW c \in Callers, Yahoo!Open(c) PROVE YahooInv'
<1>1. YahooTyped /\ RequestsFit(c)
  BY DEF YahooInv
<1>2. PICK r : r = [call[c] EXCEPT !.at = "ask", !.path = Yahoo!Interface]
  OBVIOUS
<1>3. PICK q : q = [t \in Tickers |-> [at |-> IF t \in call[c].want THEN "ask" ELSE "no", tries |-> 0]]
  OBVIOUS
<1>4. /\ call[c].at = "open" /\ call' = [call EXCEPT ![c] = r] /\ yahooReq' = [yahooReq EXCEPT ![c] = q]
      /\ UNCHANGED <<mode, locked, ready, latch, cache, late, faults>>
  BY <1>2, <1>3 DEF Yahoo!Open, Yahoo!At
<1>5. /\ r \in CallState /\ r.at = "ask" /\ r.get = call[c].get /\ r.want = call[c].want
      /\ r.path = "failover" => mode = "ipv6"
  BY <1>1, <1>2, CallTyped DEF CallState, Yahoo!Interface
<1>6. q \in [Tickers -> SendState] /\ \A t \in Tickers : q[t].at = IF t \in call[c].want THEN "ask" ELSE "no"
  BY <1>3 DEF SendState
<1>7. /\ YahooTyped' /\ call'[c] = r /\ yahooReq'[c] = q
      /\ \A d \in Callers \ {c} : call'[d] = call[d] /\ yahooReq'[d] = yahooReq[d]
  BY <1>1, <1>4, <1>5, <1>6 DEF YahooTyped
<1>8. RequestsFit(c)'
  BY <1>1, <1>4, <1>5, <1>6, <1>7 DEF RequestsFit
<1>9. Yahoo!OnSession(c)' <=> Yahoo!OnSession(c)
  BY <1>4, <1>5, <1>6, <1>7 DEF Yahoo!OnSession, Yahoo!At, Yahoo!Pausing
<1>10. mode # "ipv6" => AsksForNews(c)'
  BY <1>4, <1>5, <1>7 DEF YahooInv, AsksForNews, Yahoo!LooksAgain, Yahoo!Hit
<1>11. ~ready => LateIsPast(c)'
  BY <1>4, <1>5, <1>7 DEF YahooInv, LateIsPast, Yahoo!PastWait, Yahoo!At
<1> QED
  BY <1>4, <1>7, <1>8, <1>9, <1>10, <1>11, CallerMoves

\* What is kept of a family's answers changes that family alone.
LEMMA StoredFits ==
  ASSUME YahooTyped, NEW c \in Callers
  PROVE  /\ Yahoo!Stored(c) \subseteq Yahoo!Families \X Tickers
         /\ call[c].get # Yahoo!Intraday => \A t \in Tickers : <<"intraday", t>> \in Yahoo!Stored(c) => <<"intraday", t>> \in cache
<1>1. call[c].get \in Yahoo!Getters /\ call[c].get.family \in Yahoo!Families /\ call[c].want \subseteq Tickers
  BY CallTyped DEF GetterState
<1>2. Yahoo!Kept(c) \subseteq Tickers
  BY <1>1 DEF Yahoo!Kept
<1>3. Yahoo!Stored(c) \subseteq cache \cup ({call[c].get.family} \X Yahoo!Kept(c))
  BY DEF Yahoo!Stored, Yahoo!Key
<1>4. cache \subseteq Yahoo!Families \X Tickers
  BY DEF YahooTyped
<1>5. call[c].get # Yahoo!Intraday => call[c].get.family # "intraday"
  BY <1>1, GettersKnown
<1> QED
  BY <1>1, <1>2, <1>3, <1>4, <1>5

LEMMA LeaveStep == ASSUME YahooInv, NEW c \in Callers, Yahoo!Leave(c) PROVE YahooInv'
<1>1. /\ YahooTyped /\ RequestsFit(c) /\ call[c].get.lock \in BOOLEAN
  BY CallTyped DEF YahooInv
<1>2. /\ call[c].at = "ask" /\ \A t \in call[c].want : yahooReq[c][t].at \in Ended
      /\ locked' = (locked /\ ~call[c].get.lock) /\ locked' \in BOOLEAN
      /\ UNCHANGED <<mode, ready, latch, late, faults>>
  BY DEF Yahoo!Leave, Yahoo!At, Yahoo!Answered, Yahoo!Got, Ended
<1>3. \A t \in Tickers : yahooReq[c][t].at \in Ended \cup {"no"}
  BY <1>1, <1>2 DEF RequestsFit
<1>4. Yahoo!OnSession(c) <=> call[c].get.lock
  BY <1>2, <1>3 DEF Yahoo!OnSession, Yahoo!At, Yahoo!Pausing, Ended
<1>5. CASE call[c].get = Yahoo!Intraday
  <2>1. /\ cache' = Yahoo!Stored(c) /\ call' = [call EXCEPT ![c] = Yahoo!NoCall]
        /\ yahooReq' = [yahooReq EXCEPT ![c] = Yahoo!NoRequests]
    BY <1>5 DEF Yahoo!Leave, Yahoo!LooksAgain, Yahoo!Over
  <2>2. /\ YahooTyped' /\ call'[c] = Yahoo!NoCall /\ yahooReq'[c] = Yahoo!NoRequests
        /\ \A d \in Callers \ {c} : call'[d] = call[d] /\ yahooReq'[d] = yahooReq[d]
    BY <1>1, <1>2, <2>1, StoredFits, NoCallState DEF YahooTyped
  <2>3. RequestsFit(c)'
    BY <2>2, NoCallState DEF RequestsFit
  <2>4. AsksForNews(c)' /\ LateIsPast(c)' /\ ~Yahoo!OnSession(c)'
    BY <2>2, NoCallState DEF AsksForNews, LateIsPast, Yahoo!PastWait, Yahoo!At, Yahoo!OnSession
  <2>5. Yahoo!OnSession(c) /\ ~locked'
    BY <1>2, <1>4, <1>5, GettersKnown
  <2> QED
    BY <1>2, <2>2, <2>3, <2>4, <2>5, CallerMoves
<1>6. CASE call[c].get # Yahoo!Intraday
  <2>1. PICK r : r = [call[c] EXCEPT !.at = "store"]
    OBVIOUS
  <2>2. call' = [call EXCEPT ![c] = r] /\ UNCHANGED <<cache, yahooReq>>
    BY <1>6, <2>1 DEF Yahoo!Leave, Yahoo!LooksAgain
  <2>3. r \in CallState /\ r.at = "store" /\ r.get = call[c].get /\ r.want = call[c].want /\ r.path = call[c].path
    BY <1>1, <2>1, CallTyped DEF CallState
  <2>4. /\ YahooTyped' /\ call'[c] = r /\ yahooReq'[c] = yahooReq[c]
        /\ \A d \in Callers \ {c} : call'[d] = call[d] /\ yahooReq'[d] = yahooReq[d]
    BY <1>1, <1>2, <2>2, <2>3, CallSet DEF YahooTyped
  <2>5. RequestsFit(c)'
    BY <1>1, <1>2, <1>3, <1>6, <2>3, <2>4 DEF RequestsFit, Ended
  <2>6. AsksForNews(c)' /\ LateIsPast(c)' /\ ~Yahoo!OnSession(c)'
    BY <2>3, <2>4 DEF AsksForNews, LateIsPast, Yahoo!PastWait, Yahoo!At, Yahoo!OnSession
  <2>7. call[c].get.lock => Yahoo!OnSession(c) /\ ~locked'
    BY <1>2, <1>4
  <2>8. ~call[c].get.lock => ~Yahoo!OnSession(c) /\ locked' = locked
    BY <1>1, <1>2, <1>4 DEF YahooTyped
  <2> QED
    BY <1>2, <2>2, <2>4, <2>5, <2>6, <2>7, <2>8, CallerMoves
<1> QED
  BY <1>5, <1>6

LEMMA StoreStep == ASSUME YahooInv, NEW c \in Callers, Yahoo!Store(c) PROVE YahooInv'
<1>1. YahooTyped /\ RequestsFit(c)
  BY DEF YahooInv
<1>2. /\ call[c].at = "store" /\ cache' = Yahoo!Stored(c) /\ call' = [call EXCEPT ![c] = Yahoo!NoCall]
      /\ yahooReq' = [yahooReq EXCEPT ![c] = Yahoo!NoRequests]
      /\ UNCHANGED <<mode, locked, ready, latch, late, faults>>
  BY DEF Yahoo!Store, Yahoo!At, Yahoo!Over
<1>3. /\ YahooTyped' /\ call'[c] = Yahoo!NoCall /\ yahooReq'[c] = Yahoo!NoRequests
      /\ \A d \in Callers \ {c} : call'[d] = call[d] /\ yahooReq'[d] = yahooReq[d]
  BY <1>1, <1>2, StoredFits, NoCallState DEF YahooTyped
<1>4. RequestsFit(c)'
  BY <1>3, NoCallState DEF RequestsFit
<1>5. AsksForNews(c)' /\ LateIsPast(c)' /\ ~Yahoo!OnSession(c)' /\ ~Yahoo!OnSession(c)
  BY <1>2, <1>3, NoCallState DEF AsksForNews, LateIsPast, Yahoo!PastWait, Yahoo!At, Yahoo!OnSession
<1>6. \A t \in Tickers : <<"intraday", t>> \in cache' => <<"intraday", t>> \in cache
  BY <1>1, <1>2, StoredFits DEF RequestsFit
<1> QED
  BY <1>2, <1>3, <1>4, <1>5, <1>6, CallerMoves

-----------------------------------------------------------------------------
(* The steps of a request *)

Paused(p) == p \in {"sleep", "wait", "acquire"}
PastThen(c, p) == p \in {"ask", "acquire"} \/ (p = "sleep" /\ ~Yahoo!KnowsLock(c))

LEMMA SendSet ==
  ASSUME YahooTyped, NEW c \in Callers, NEW t \in Tickers, NEW s \in SendState, yahooReq' = [yahooReq EXCEPT ![c][t] = s],
         call' = call \/ call' = [call EXCEPT ![c].fell = TRUE],
         UNCHANGED <<mode, cache>>, locked' \in BOOLEAN, ready' \in BOOLEAN, latch' \in BOOLEAN
  PROVE  /\ YahooTyped' /\ yahooReq'[c][t] = s /\ \A u \in Tickers \ {t} : yahooReq'[c][u] = yahooReq[c][u]
         /\ \A d \in Callers \ {c} : call'[d] = call[d] /\ yahooReq'[d] = yahooReq[d]
         /\ call'[c].at = call[c].at /\ call'[c].get = call[c].get /\ call'[c].want = call[c].want /\ call'[c].path = call[c].path
<1>1. yahooReq[c] \in [Tickers -> SendState] /\ call[c] \in CallState
  BY DEF YahooTyped
<1>2. PICK q : q = [yahooReq[c] EXCEPT ![t] = s]
  OBVIOUS
<1>3. yahooReq' = [yahooReq EXCEPT ![c] = q] /\ q \in [Tickers -> SendState] /\ q[t] = s
      /\ \A u \in Tickers \ {t} : q[u] = yahooReq[c][u]
  BY <1>1, <1>2
<1>4. yahooReq' \in [Callers -> [Tickers -> SendState]] /\ yahooReq'[c] = q
      /\ \A d \in Callers \ {c} : yahooReq'[d] = yahooReq[d]
  BY <1>3 DEF YahooTyped
<1>5. PICK r : r = [call[c] EXCEPT !.fell = TRUE]
  OBVIOUS
<1>6. r \in CallState /\ r.at = call[c].at /\ r.get = call[c].get /\ r.want = call[c].want /\ r.path = call[c].path
  BY <1>1, <1>5 DEF CallState
<1>7. call' = call \/ call' = [call EXCEPT ![c] = r]
  BY <1>5
<1>8. /\ call' \in [Callers -> CallState] /\ \A d \in Callers \ {c} : call'[d] = call[d]
      /\ call'[c] = call[c] \/ call'[c] = r
  BY <1>6, <1>7 DEF YahooTyped
<1> QED
  BY <1>3, <1>4, <1>6, <1>8 DEF YahooTyped

LEMMA RequestMoved ==
  ASSUME YahooInv, NEW c \in Callers, NEW t \in Tickers, yahooReq[c][t].at \notin Ended \cup {"no"},
         NEW s \in SendState, s.at # "no", yahooReq' = [yahooReq EXCEPT ![c][t] = s],
         call' = call \/ call' = [call EXCEPT ![c].fell = TRUE],
         UNCHANGED <<mode, cache>>, locked' \in BOOLEAN, ready' \in BOOLEAN, latch' \in BOOLEAN,
         s.at \in {"wait", "acquire"} => Yahoo!KnowsLock(c),
         mode # "ipv6" =>
           \/ (Yahoo!KnowsLock(c) => (Paused(yahooReq[c][t].at) <=> Paused(s.at))) /\ locked' = locked
           \/ Yahoo!KnowsLock(c) /\ Paused(yahooReq[c][t].at) /\ ~Paused(s.at) /\ ~locked /\ locked'
           \/ Yahoo!KnowsLock(c) /\ ~Paused(yahooReq[c][t].at) /\ Paused(s.at) /\ ~locked',
         ~ready' => \/ ~ready /\ late' = late /\ (PastThen(c, s.at) => Yahoo!PastWait(c, t))
                    \/ s.at \in Ended /\ late' = {k \in Callers \X Tickers : Yahoo!PastWait(k[1], k[2])}
  PROVE  YahooInv'
<1>1. YahooTyped /\ RequestsFit(c)
  BY DEF YahooInv
<1>2. call[c].at = "ask" /\ t \in call[c].want
  BY <1>1, CallTyped DEF RequestsFit, YahooTyped, CallState
<1>3. /\ YahooTyped' /\ yahooReq'[c][t] = s /\ \A u \in Tickers \ {t} : yahooReq'[c][u] = yahooReq[c][u]
      /\ \A d \in Callers \ {c} : call'[d] = call[d] /\ yahooReq'[d] = yahooReq[d]
      /\ call'[c].at = call[c].at /\ call'[c].get = call[c].get /\ call'[c].want = call[c].want /\ call'[c].path = call[c].path
  BY <1>1, SendSet
<1>4. Yahoo!KnowsLock(c)' <=> Yahoo!KnowsLock(c)
  BY <1>3 DEF Yahoo!KnowsLock
<1>5. RequestsFit(c)'
  <2>1. \A u \in Tickers \ call'[c].want : yahooReq'[c][u].at = "no"
    BY <1>1, <1>2, <1>3 DEF RequestsFit
  <2>2. \A u \in Tickers : yahooReq'[c][u].at \in {"wait", "acquire"} => Yahoo!KnowsLock(c)
    BY <1>1, <1>3 DEF RequestsFit
  <2> QED
    BY <1>1, <1>2, <1>3, <1>4, <2>1, <2>2 DEF RequestsFit
<1>6. ASSUME mode # "ipv6", Yahoo!KnowsLock(c)
      PROVE  /\ Yahoo!OnSession(c) <=> ~Paused(yahooReq[c][t].at)
             /\ Yahoo!OnSession(c)' <=> ~Paused(s.at)
  <2>1. ~call[c].get.bulk /\ call[c].get.lock
    BY <1>1, <1>6, CallTyped DEF RequestsFit, Yahoo!KnowsLock, YahooTyped, CallState
  <2>2. \A u \in Tickers \ {t} : yahooReq[c][u].at = "no"
    BY <1>1, <1>2, <2>1 DEF RequestsFit
  <2>3. Yahoo!Pausing(c) <=> Paused(yahooReq[c][t].at)
    BY <2>2 DEF Yahoo!Pausing, Paused
  <2>4. Yahoo!Pausing(c)' <=> Paused(s.at)
    BY <1>3, <2>2 DEF Yahoo!Pausing, Paused
  <2> QED
    BY <1>2, <1>3, <1>4, <1>6, <2>1, <2>3, <2>4 DEF Yahoo!OnSession, Yahoo!At
<1>7. ASSUME mode # "ipv6", ~Yahoo!KnowsLock(c) PROVE Yahoo!OnSession(c)' <=> Yahoo!OnSession(c)
  BY <1>2, <1>3, <1>4, <1>7 DEF Yahoo!OnSession, Yahoo!At
<1>8. mode # "ipv6" =>
        \/ (Yahoo!OnSession(c)' <=> Yahoo!OnSession(c)) /\ locked' = locked
        \/ ~locked /\ locked' /\ Yahoo!OnSession(c)'
        \/ Yahoo!OnSession(c) /\ ~Yahoo!OnSession(c)' /\ ~locked'
  BY <1>6, <1>7
<1>9. mode # "ipv6" => AsksForNews(c)'
  BY <1>3 DEF YahooInv, AsksForNews, Yahoo!LooksAgain, Yahoo!Hit
<1>10. Yahoo!PastWait(c, t)' <=> PastThen(c, s.at)
  BY <1>2, <1>3, <1>4 DEF Yahoo!PastWait, PastThen, Yahoo!At
<1>11. \A u \in Tickers \ {t} : Yahoo!PastWait(c, u)' <=> Yahoo!PastWait(c, u)
  BY <1>3, <1>4 DEF Yahoo!PastWait, Yahoo!At
<1>12. ~ready' => \/ ~ready /\ late' = late /\ LateIsPast(c)'
                  \/ \A d \in Callers : LateIsPast(d)'
  <2>1. ASSUME ~ready, late' = late, PastThen(c, s.at) => Yahoo!PastWait(c, t) PROVE LateIsPast(c)'
    BY <1>3, <1>10, <1>11, <2>1 DEF YahooInv, LateIsPast
  <2>2. ASSUME s.at \in Ended, late' = {k \in Callers \X Tickers : Yahoo!PastWait(k[1], k[2])}, NEW d \in Callers
        PROVE  LateIsPast(d)'
    <3>1. ~PastThen(c, s.at)
      BY <2>2 DEF PastThen, Ended
    <3>2. \A u \in Tickers : Yahoo!PastWait(d, u)' => Yahoo!PastWait(d, u)
      <4>1. CASE d = c
        BY <1>10, <1>11, <3>1, <4>1
      <4>2. CASE d # c
        BY <1>3, <4>2 DEF Yahoo!PastWait, Yahoo!At, Yahoo!KnowsLock
      <4> QED
        BY <4>1, <4>2
    <3> QED
      BY <2>2, <3>2 DEF LateIsPast
  <2> QED
    BY <2>1, <2>2
<1> QED
  BY <1>3, <1>5, <1>8, <1>9, <1>12, CallerMoves

\* A request is moved to p.
LEMMA PutState ==
  ASSUME YahooTyped, NEW c \in Callers, NEW t \in Tickers,
         NEW p \in {"ask", "sleep", "wait", "acquire", "fallback"} \cup Ended, Yahoo!Put(c, t, p)
  PROVE  \E s \in SendState : s.at = p /\ yahooReq' = [yahooReq EXCEPT ![c][t] = s]
<1>1. PICK s : s = [yahooReq[c][t] EXCEPT !.at = p]
  OBVIOUS
<1>2. s \in SendState /\ s.at = p
  BY <1>1, CallTyped DEF SendState
<1>3. yahooReq' = [yahooReq EXCEPT ![c][t] = s]
  BY <1>1 DEF Yahoo!Put
<1> QED
  BY <1>2, <1>3

LEMMA AgainState ==
  ASSUME YahooTyped, NEW c \in Callers, NEW t \in Tickers, Yahoo!Again(c, t)
  PROVE  \E s \in SendState : s.at = "ask" /\ yahooReq' = [yahooReq EXCEPT ![c][t] = s]
<1>1. PICK s : s = [at |-> "ask", tries |-> yahooReq[c][t].tries + 1]
  OBVIOUS
<1>2. yahooReq[c][t].tries + 1 \in Nat
  BY CallTyped
<1>3. s \in SendState /\ s.at = "ask"
  BY <1>1, <1>2 DEF SendState
<1>4. yahooReq' = [yahooReq EXCEPT ![c][t] = s]
  BY <1>1 DEF Yahoo!Again
<1> QED
  BY <1>3, <1>4

LEMMA AtAsk ==
  ASSUME YahooInv, NEW c \in Callers, NEW t \in Tickers, yahooReq[c][t].at \notin Ended \cup {"no"}
  PROVE  YahooTyped /\ RequestsFit(c) /\ call[c].at = "ask"
  BY CallTyped DEF YahooInv, RequestsFit, YahooTyped, CallState

LEMMA AnswersEnd == \A c \in Callers : Yahoo!Answers(c) \subseteq Ended
  BY DEF Yahoo!Answers, Ended

LEMMA AnswerStep == ASSUME YahooInv, NEW c \in Callers, NEW t \in Tickers, Yahoo!Answer(c, t) PROVE YahooInv'
<1>1. YahooTyped
  BY DEF YahooInv
<1>2. PICK a \in Ended : Yahoo!Put(c, t, a)
  BY AnswersEnd DEF Yahoo!Answer
<1>3. PICK s \in SendState : s.at = a /\ yahooReq' = [yahooReq EXCEPT ![c][t] = s]
  BY <1>1, <1>2, PutState
<1>4. /\ yahooReq[c][t].at = "ask" /\ latch' \in BOOLEAN
      /\ UNCHANGED <<mode, locked, ready, cache, call, late, faults>>
  BY <1>1 DEF Yahoo!Answer, Yahoo!Asks, YahooTyped
<1> QED
  BY <1>1, <1>3, <1>4, RequestMoved DEF YahooTyped, Ended, Paused, PastThen

LEMMA RateLimitedStep == ASSUME YahooInv, NEW c \in Callers, NEW t \in Tickers, Yahoo!RateLimited(c, t) PROVE YahooInv'
<1>1. YahooTyped
  BY DEF YahooInv
<1>2. PICK s \in SendState : s.at = "none" /\ yahooReq' = [yahooReq EXCEPT ![c][t] = s]
  BY <1>1, PutState DEF Yahoo!RateLimited, Ended
<1>3. /\ yahooReq[c][t].at = "ask" /\ ready' \in BOOLEAN
      /\ UNCHANGED <<mode, locked, latch, cache, call, faults>>
      /\ \/ ~ready /\ late' = late
         \/ late' = {k \in Callers \X Tickers : Yahoo!PastWait(k[1], k[2])}
  BY <1>1 DEF Yahoo!RateLimited, Yahoo!Asks, YahooTyped
<1> QED
  BY <1>1, <1>2, <1>3, RequestMoved DEF YahooTyped, Ended, Paused, PastThen

LEMMA TransientStep == ASSUME YahooInv, NEW c \in Callers, NEW t \in Tickers, Yahoo!Transient(c, t) PROVE YahooInv'
<1>1. YahooTyped /\ RequestsFit(c)
  BY DEF YahooInv
<1>2. /\ yahooReq[c][t].at = "ask" /\ locked' = (locked /\ ~Yahoo!KnowsLock(c)) /\ locked' \in BOOLEAN
      /\ UNCHANGED <<mode, ready, latch, cache, call, late, faults>>
  BY <1>1 DEF Yahoo!Transient, Yahoo!Asks, Yahoo!Releases, YahooTyped
<1>3. CASE Yahoo!KnowsLock(c) /\ ~locked
  <2>1. PICK s \in SendState : s.at = "none" /\ yahooReq' = [yahooReq EXCEPT ![c][t] = s]
    BY <1>1, <1>3, PutState DEF Yahoo!Transient, Yahoo!Releases, Ended
  <2> QED
    BY <1>1, <1>2, <1>3, <2>1, RequestMoved DEF YahooTyped, Ended, Paused, PastThen
<1>4. CASE ~(Yahoo!KnowsLock(c) /\ ~locked)
  <2>1. PICK s \in SendState : s.at = "sleep" /\ yahooReq' = [yahooReq EXCEPT ![c][t] = s]
    BY <1>1, <1>4, PutState DEF Yahoo!Transient, Yahoo!Releases, Ended
  <2>2. PastThen(c, s.at) => Yahoo!PastWait(c, t)
    BY <1>2, AtAsk DEF Ended, Yahoo!PastWait, Yahoo!At
  <2>3. Yahoo!KnowsLock(c) => ~locked'
    BY <1>2
  <2>4. ~Yahoo!KnowsLock(c) => locked' = locked
    BY <1>1, <1>2 DEF YahooTyped
  <2> QED
    BY <1>1, <1>2, <2>1, <2>2, <2>3, <2>4, RequestMoved DEF YahooTyped, Ended, Paused
<1> QED
  BY <1>3, <1>4

LEMMA RebuildStep == ASSUME YahooInv, NEW c \in Callers, NEW t \in Tickers, Yahoo!Rebuild(c, t) PROVE YahooInv'
<1>1. /\ yahooReq[c][t].at = "ask" /\ yahooReq' = [yahooReq EXCEPT ![c][t].tries = yahooReq[c][t].tries + 1]
      /\ UNCHANGED <<mode, locked, ready, latch, cache, call, late, faults>>
  BY DEF Yahoo!Rebuild, Yahoo!Asks
<1>2. YahooTyped /\ call[c].at = "ask"
  BY <1>1, AtAsk DEF Ended
<1>3. PICK s : s = [yahooReq[c][t] EXCEPT !.tries = yahooReq[c][t].tries + 1]
  OBVIOUS
<1>4. s \in SendState /\ s.at = "ask"
  <2>1. yahooReq[c][t] \in SendState /\ yahooReq[c][t].tries + 1 \in Nat
    BY <1>2, CallTyped
  <2> QED
    BY <1>1, <1>3, <2>1 DEF SendState
<1>5. yahooReq' = [yahooReq EXCEPT ![c][t] = s]
  BY <1>1, <1>3
<1>6. Yahoo!PastWait(c, t)
  BY <1>1, <1>2 DEF Yahoo!PastWait, Yahoo!At
<1>7. yahooReq[c][t].at \notin Ended \cup {"no"} /\ s.at # "no" /\ ~Paused(yahooReq[c][t].at) /\ ~Paused(s.at)
      /\ (s.at \in {"wait", "acquire"} => Yahoo!KnowsLock(c))
  BY <1>1, <1>4 DEF Ended, Paused
<1>8. locked' \in BOOLEAN /\ ready' \in BOOLEAN /\ latch' \in BOOLEAN
  BY <1>1, <1>2 DEF YahooTyped
<1> QED
  BY <1>1, <1>4, <1>5, <1>6, <1>7, <1>8, RequestMoved

LEMMA GiveUpStep == ASSUME YahooInv, NEW c \in Callers, NEW t \in Tickers, Yahoo!GiveUp(c, t) PROVE YahooInv'
<1>1. YahooTyped
  BY DEF YahooInv
<1>2. PICK s \in SendState : s.at = "none" /\ yahooReq' = [yahooReq EXCEPT ![c][t] = s]
  BY <1>1, PutState DEF Yahoo!GiveUp, Ended
<1>3. /\ yahooReq[c][t].at = "ask" /\ UNCHANGED <<mode, locked, ready, latch, cache, call, late, faults>>
  BY DEF Yahoo!GiveUp, Yahoo!Asks
<1> QED
  BY <1>1, <1>2, <1>3, RequestMoved DEF YahooTyped, Ended, Paused, PastThen

LEMMA HardFaultStep == ASSUME YahooInv, NEW c \in Callers, NEW t \in Tickers, Yahoo!HardFault(c, t) PROVE YahooInv'
<1>1. YahooTyped
  BY DEF YahooInv
<1>2. PICK s \in SendState : s.at = "fallback" /\ yahooReq' = [yahooReq EXCEPT ![c][t] = s]
  BY <1>1, PutState DEF Yahoo!HardFault
<1>3. /\ yahooReq[c][t].at = "ask" /\ latch' = TRUE /\ call' = [call EXCEPT ![c].fell = TRUE]
      /\ UNCHANGED <<mode, locked, ready, cache, late>>
  BY DEF Yahoo!HardFault, Yahoo!Asks
<1> QED
  BY <1>1, <1>2, <1>3, RequestMoved DEF YahooTyped, Ended, Paused, PastThen

LEMMA FallbackStep == ASSUME YahooInv, NEW c \in Callers, NEW t \in Tickers, Yahoo!Fallback(c, t) PROVE YahooInv'
<1>1. YahooTyped
  BY DEF YahooInv
<1>2. PICK a \in Ended : Yahoo!Put(c, t, a)
  BY AnswersEnd DEF Yahoo!Fallback
<1>3. PICK s \in SendState : s.at = a /\ yahooReq' = [yahooReq EXCEPT ![c][t] = s]
  BY <1>1, <1>2, PutState
<1>4. yahooReq[c][t].at = "fallback" /\ UNCHANGED <<mode, locked, ready, latch, cache, call, late, faults>>
  BY DEF Yahoo!Fallback
<1> QED
  BY <1>1, <1>3, <1>4, RequestMoved DEF YahooTyped, Ended, Paused, PastThen

LEMMA WakeStep == ASSUME YahooInv, NEW c \in Callers, NEW t \in Tickers, Yahoo!Wake(c, t) PROVE YahooInv'
<1>1. yahooReq[c][t].at = "sleep" /\ UNCHANGED <<mode, locked, ready, latch, cache, call, late, faults>>
  BY DEF Yahoo!Wake
<1>2. YahooTyped /\ call[c].at = "ask"
  BY <1>1, AtAsk DEF Ended
<1>3. CASE Yahoo!KnowsLock(c)
  <2>1. PICK s \in SendState : s.at = "wait" /\ yahooReq' = [yahooReq EXCEPT ![c][t] = s]
    BY <1>2, <1>3, PutState DEF Yahoo!Wake
  <2> QED
    BY <1>1, <1>2, <1>3, <2>1, RequestMoved DEF YahooTyped, Ended, Paused, PastThen
<1>4. CASE ~Yahoo!KnowsLock(c)
  <2>1. PICK s \in SendState : s.at = "ask" /\ yahooReq' = [yahooReq EXCEPT ![c][t] = s]
    BY <1>2, <1>4, AgainState DEF Yahoo!Wake
  <2>2. Yahoo!PastWait(c, t)
    BY <1>1, <1>2, <1>4 DEF Yahoo!PastWait, Yahoo!At
  <2> QED
    BY <1>1, <1>2, <1>4, <2>1, <2>2, RequestMoved DEF YahooTyped, Ended, Paused
<1> QED
  BY <1>3, <1>4

LEMMA RepassStep == ASSUME YahooInv, NEW c \in Callers, NEW t \in Tickers, Yahoo!Repass(c, t) PROVE YahooInv'
<1>1. yahooReq[c][t].at = "wait" /\ ready /\ UNCHANGED <<mode, locked, ready, latch, cache, call, late, faults>>
  BY DEF Yahoo!Repass
<1>2. YahooTyped /\ RequestsFit(c) /\ Yahoo!KnowsLock(c)
  BY <1>1, AtAsk DEF Ended, RequestsFit
<1>3. PICK s \in SendState : s.at = "acquire" /\ yahooReq' = [yahooReq EXCEPT ![c][t] = s]
  BY <1>2, PutState DEF Yahoo!Repass
<1> QED
  BY <1>1, <1>2, <1>3, RequestMoved DEF YahooTyped, Ended, Paused

LEMMA ReacquireStep == ASSUME YahooInv, NEW c \in Callers, NEW t \in Tickers, Yahoo!Reacquire(c, t) PROVE YahooInv'
<1>1. /\ yahooReq[c][t].at = "acquire" /\ ~locked /\ locked' = TRUE
      /\ UNCHANGED <<mode, ready, latch, cache, call, late, faults>>
  BY DEF Yahoo!Reacquire
<1>2. YahooTyped /\ RequestsFit(c) /\ Yahoo!KnowsLock(c) /\ call[c].at = "ask"
  BY <1>1, AtAsk DEF Ended, RequestsFit
<1>3. PICK s \in SendState : s.at = "ask" /\ yahooReq' = [yahooReq EXCEPT ![c][t] = s]
  BY <1>2, AgainState DEF Yahoo!Reacquire
<1>4. Yahoo!PastWait(c, t)
  BY <1>1, <1>2 DEF Yahoo!PastWait, Yahoo!At
<1> QED
  BY <1>1, <1>2, <1>3, <1>4, RequestMoved DEF YahooTyped, Ended, Paused

-----------------------------------------------------------------------------
LEMMA ResetStep == ASSUME YahooInv, Yahoo!Reset PROVE YahooInv'
<1>1. /\ ready' = TRUE /\ UNCHANGED <<mode, locked, latch, cache>>
      /\ call' = [c \in Callers |-> IF call[c].at = "wait" THEN [call[c] EXCEPT !.at = "acquire"] ELSE call[c]]
      /\ yahooReq' = [c \in Callers |-> [t \in Tickers |->
                        IF yahooReq[c][t].at = "wait" THEN [yahooReq[c][t] EXCEPT !.at = "acquire"] ELSE yahooReq[c][t]]]
  BY DEF Yahoo!Reset, Yahoo!At
<1>2. YahooTyped
  BY DEF YahooInv
<1>3. ASSUME NEW c \in Callers
      PROVE  /\ call'[c] \in CallState /\ call'[c].get = call[c].get /\ call'[c].want = call[c].want /\ call'[c].path = call[c].path
             /\ call'[c].at = IF call[c].at = "wait" THEN "acquire" ELSE call[c].at
  <2>1. call[c] \in CallState
    BY <1>2, CallTyped
  <2> QED
    BY <1>1, <2>1 DEF CallState
<1>4. ASSUME NEW c \in Callers, NEW t \in Tickers
      PROVE  /\ yahooReq'[c][t] \in SendState
             /\ yahooReq'[c][t].at = IF yahooReq[c][t].at = "wait" THEN "acquire" ELSE yahooReq[c][t].at
  <2>1. yahooReq[c][t] \in SendState
    BY <1>2, CallTyped
  <2> QED
    BY <1>1, <2>1 DEF SendState
<1>5. call' \in [Callers -> CallState]
  BY <1>1, <1>3
<1>6. yahooReq' \in [Callers -> [Tickers -> SendState]]
  <2> SUFFICES ASSUME NEW c \in Callers PROVE yahooReq'[c] \in [Tickers -> SendState]
    BY <1>1
  <2>1. \A t \in Tickers : yahooReq'[c][t] \in SendState
    BY <1>4
  <2>2. yahooReq'[c] = [t \in Tickers |->
                        IF yahooReq[c][t].at = "wait" THEN [yahooReq[c][t] EXCEPT !.at = "acquire"] ELSE yahooReq[c][t]]
    BY <1>1
  <2> QED
    BY <2>1, <2>2
<1>7. YahooTyped'
  BY <1>1, <1>2, <1>5, <1>6 DEF YahooTyped
<1>8. \A c \in Callers : (Yahoo!OnSession(c)' <=> Yahoo!OnSession(c)) /\ (Yahoo!KnowsLock(c)' <=> Yahoo!KnowsLock(c))
  <2> SUFFICES ASSUME NEW c \in Callers
               PROVE  (Yahoo!OnSession(c)' <=> Yahoo!OnSession(c)) /\ (Yahoo!KnowsLock(c)' <=> Yahoo!KnowsLock(c))
    OBVIOUS
  <2>1. Yahoo!KnowsLock(c)' <=> Yahoo!KnowsLock(c)
    BY <1>3 DEF Yahoo!KnowsLock
  <2>2. Yahoo!Pausing(c)' <=> Yahoo!Pausing(c)
    BY <1>4 DEF Yahoo!Pausing
  <2>3. (call'[c].at = "open" <=> call[c].at = "open") /\ (call'[c].at = "ask" <=> call[c].at = "ask")
    BY <1>3
  <2> QED
    BY <1>3, <2>1, <2>2, <2>3 DEF Yahoo!OnSession, Yahoo!At
<1>9. ASSUME NEW c \in Callers PROVE RequestsFit(c)'
  <2>1. RequestsFit(c)
    BY DEF YahooInv
  <2> QED
    BY <1>1, <1>3, <1>4, <1>8, <2>1 DEF RequestsFit, Ended
<1>10. Yahoo!OneAtTheSession'
  BY <1>1, <1>8 DEF YahooInv, Yahoo!OneAtTheSession
<1>11. mode # "ipv6" => \A c \in Callers : AsksForNews(c)'
  BY <1>1, <1>3 DEF YahooInv, AsksForNews, Yahoo!LooksAgain, Yahoo!Hit
<1> QED
  BY <1>1, <1>7, <1>9, <1>10, <1>11 DEF YahooInv

LEMMA ForgetStep ==
  ASSUME YahooInv, cache' \subseteq cache, UNCHANGED <<mode, locked, ready, latch, call, yahooReq, late>>
  PROVE  YahooInv'
<1>1. YahooTyped'
  BY DEF YahooInv, YahooTyped
<1>2. \A c \in Callers : /\ RequestsFit(c)' <=> RequestsFit(c)
                         /\ Yahoo!OnSession(c)' <=> Yahoo!OnSession(c)
                         /\ LateIsPast(c)' <=> LateIsPast(c)
                         /\ AsksForNews(c) => AsksForNews(c)'
  BY DEF RequestsFit, Yahoo!KnowsLock, Yahoo!OnSession, Yahoo!Pausing, Yahoo!At, LateIsPast, Yahoo!PastWait,
         AsksForNews, Yahoo!LooksAgain, Yahoo!Hit
<1> QED
  BY <1>1, <1>2 DEF YahooInv, Yahoo!OneAtTheSession

LEMMA YahooInit == ASSUME Yahoo!Init PROVE YahooInv
<1>1. /\ mode \in {"plain", "ipv6"} /\ latch \in BOOLEAN /\ locked = FALSE /\ ready = TRUE /\ cache = {}
      /\ call = [c \in Callers |-> Yahoo!NoCall] /\ yahooReq = [c \in Callers |-> Yahoo!NoRequests]
  BY DEF Yahoo!Init
<1>2. YahooTyped
  BY <1>1, NoCallState DEF YahooTyped
<1>3. \A c \in Callers : RequestsFit(c) /\ ~Yahoo!OnSession(c) /\ AsksForNews(c)
  BY <1>1, NoCallState DEF RequestsFit, Yahoo!OnSession, Yahoo!At, AsksForNews
<1> QED
  BY <1>1, <1>2, <1>3 DEF YahooInv, Yahoo!OneAtTheSession

LEMMA YahooNext == ASSUME YahooInv, Yahoo!Next PROVE YahooInv'
<1>1. CASE \E c \in Callers, g \in Yahoo!Getters, T \in SUBSET Tickers : Yahoo!Begin(c, g, T)
  BY <1>1, BeginStep
<1>2. CASE \E c \in Callers : Yahoo!Steps(c)
  BY <1>2, PassStep, AcquireStep, OpenStep, LeaveStep, StoreStep DEF Yahoo!Steps
<1>3. CASE \E c \in Callers, t \in Tickers : Yahoo!RequestSteps(c, t)
  BY <1>3, AnswerStep, RateLimitedStep, TransientStep, RebuildStep, GiveUpStep, HardFaultStep, FallbackStep, WakeStep,
     RepassStep, ReacquireStep DEF Yahoo!RequestSteps
<1>4. CASE Yahoo!Reset
  BY <1>4, ResetStep
<1>5. CASE (\E k \in cache : Yahoo!Expire(k)) \/ (\E t \in Tickers : Yahoo!Invalidate(t))
  BY <1>5, ForgetStep DEF Yahoo!Expire, Yahoo!Invalidate
<1> QED
  BY <1>1, <1>2, <1>3, <1>4, <1>5 DEF Yahoo!Next

LEMMA YahooStutter == ASSUME YahooInv, UNCHANGED yahooVars PROVE YahooInv'
  BY ForgetStep DEF yahooVars

-----------------------------------------------------------------------------
\* A step that makes no call go over IPv6, alerts nobody and keeps the latch if nothing is
\* under way over IPv6.
LEMMA LatchKept ==
  ASSUME YahooInv, Yahoo!Next, latch, ~Yahoo!FailoverUnderWay
  PROVE  latch' /\ ~Yahoo!FailoverUnderWay' /\ faults' = faults
<1>1. YahooTyped /\ \A c \in Callers : call[c].path = "plain" /\ call[c] \in CallState
  BY DEF YahooInv, YahooTyped, CallState, Yahoo!FailoverUnderWay
<1>2. \A c \in Callers : Yahoo!Interface = "plain"
  BY DEF Yahoo!Interface
<1> SUFFICES latch' /\ faults' = faults /\ \A c \in Callers : call'[c].path = "plain"
  BY DEF Yahoo!FailoverUnderWay
<1>3. \A c \in Callers : \A r : r.path = "plain" /\ call' = [call EXCEPT ![c] = r] => \A d \in Callers : call'[d].path = "plain"
  BY <1>1 DEF YahooTyped
<1>4. ASSUME NEW c \in Callers, NEW g \in Yahoo!Getters, NEW T \in SUBSET Tickers, Yahoo!Begin(c, g, T)
      PROVE  latch' /\ faults' = faults /\ \A d \in Callers : call'[d].path = "plain"
  <2>1. PICK r : r = [Yahoo!NoCall EXCEPT !.get = g, !.want = Yahoo!Missing(g, T), !.at = IF g.lock THEN "wait" ELSE "open"]
    OBVIOUS
  <2>2. r.path = "plain" /\ call' = [call EXCEPT ![c] = r] /\ UNCHANGED <<latch, faults>>
    BY <1>4, <2>1 DEF Yahoo!Begin, Yahoo!NoCall
  <2> QED
    BY <1>3, <2>2
<1>5. ASSUME NEW c \in Callers, Yahoo!PassBreaker(c) \/ Yahoo!Open(c)
      PROVE  latch' /\ faults' = faults /\ \A d \in Callers : call'[d].path = "plain"
  <2>1. PICK r : r = IF Yahoo!PassBreaker(c) THEN [call[c] EXCEPT !.at = "acquire"]
                     ELSE [call[c] EXCEPT !.at = "ask", !.path = Yahoo!Interface]
    OBVIOUS
  <2>2. r.path = "plain"
    BY <1>1, <1>2, <2>1 DEF CallState
  <2>3. call' = [call EXCEPT ![c] = r] /\ UNCHANGED <<latch, faults>>
    BY <1>5, <2>1 DEF Yahoo!PassBreaker, Yahoo!Open
  <2> QED
    BY <1>3, <2>2, <2>3
<1>6. ASSUME NEW c \in Callers, Yahoo!Acquire(c)
      PROVE  latch' /\ faults' = faults /\ \A d \in Callers : call'[d].path = "plain"
  <2>1. PICK r : r = IF Yahoo!Wanted(c) = {} THEN Yahoo!NoCall ELSE [call[c] EXCEPT !.at = "open", !.want = Yahoo!Wanted(c)]
    OBVIOUS
  <2>2. r.path = "plain"
    BY <1>1, <2>1, NoCallState DEF CallState
  <2>3. call' = [call EXCEPT ![c] = r] /\ UNCHANGED <<latch, faults>>
    BY <1>6, <2>1 DEF Yahoo!Acquire
  <2> QED
    BY <1>3, <2>2, <2>3
<1>7. ASSUME NEW c \in Callers, Yahoo!Leave(c) \/ Yahoo!Store(c)
      PROVE  latch' /\ faults' = faults /\ \A d \in Callers : call'[d].path = "plain"
  <2>1. PICK r : r = [call[c] EXCEPT !.at = "store"]
    OBVIOUS
  <2>2. r.path = "plain" /\ Yahoo!NoCall.path = "plain"
    BY <1>1, <2>1, NoCallState DEF CallState
  <2>3. call' = [call EXCEPT ![c] = r] \/ call' = [call EXCEPT ![c] = Yahoo!NoCall]
    BY <1>7, <2>1 DEF Yahoo!Leave, Yahoo!Store, Yahoo!Over
  <2>4. UNCHANGED <<latch, faults>>
    BY <1>7 DEF Yahoo!Leave, Yahoo!Store
  <2> QED
    BY <1>3, <2>2, <2>3, <2>4
<1>8. ASSUME NEW c \in Callers, NEW t \in Tickers, Yahoo!RequestSteps(c, t)
      PROVE  latch' /\ faults' = faults /\ \A d \in Callers : call'[d].path = "plain"
  <2>1. call[c].path # "failover"
    BY <1>1
  <2>2. /\ ~Yahoo!HardFault(c, t) /\ ~Yahoo!Rebuild(c, t)
        /\ Yahoo!Answer(c, t) => UNCHANGED <<latch, faults, call>>
    BY <1>1, <2>1 DEF Yahoo!HardFault, Yahoo!Rebuild, Yahoo!Answer, YahooTyped
  <2>3. UNCHANGED <<latch, faults, call>>
    BY <1>8, <2>2 DEF Yahoo!RequestSteps, Yahoo!RateLimited, Yahoo!Transient, Yahoo!GiveUp, Yahoo!Fallback, Yahoo!Wake,
                      Yahoo!Repass, Yahoo!Reacquire
  <2> QED
    BY <1>1, <2>3
<1>9. ASSUME Yahoo!Reset PROVE latch' /\ faults' = faults /\ \A d \in Callers : call'[d].path = "plain"
  <2>1. /\ call' = [c \in Callers |-> IF call[c].at = "wait" THEN [call[c] EXCEPT !.at = "acquire"] ELSE call[c]]
        /\ UNCHANGED <<latch, faults>>
    BY <1>9 DEF Yahoo!Reset, Yahoo!At
  <2>2. ASSUME NEW d \in Callers PROVE call'[d].path = "plain"
    <3>1. PICK r : r = [call[d] EXCEPT !.at = "acquire"]
      OBVIOUS
    <3>2. r.path = "plain"
      BY <1>1, <3>1 DEF CallState
    <3>3. call'[d] \in {r, call[d]}
      BY <2>1, <3>1
    <3> QED
      BY <1>1, <3>2, <3>3
  <2> QED
    BY <2>1, <2>2
<1>10. ASSUME (\E k \in cache : Yahoo!Expire(k)) \/ (\E t \in Tickers : Yahoo!Invalidate(t))
       PROVE  latch' /\ faults' = faults /\ \A d \in Callers : call'[d].path = "plain"
  BY <1>1, <1>10 DEF Yahoo!Expire, Yahoo!Invalidate
<1> QED
  BY <1>4, <1>5, <1>6, <1>7, <1>8, <1>9, <1>10 DEF Yahoo!Next, Yahoo!Steps

\* Only one caller at a time is on yfinance's session and holds its lock, unless only IPv6
\* is to be used; while Yahoo has asked for a pause nobody under the lock sends what was not
\* already past the wait; nobody downloads intraday bars that another has just stored; and
\* once the latch is set and no call from before is under way over IPv6 it stays.
THEOREM SessionIsSharedHolds == OutsideSpec => SessionIsShared
<1> DEFINE Inv0 == focus = "yahoo" => YahooInv
<1>1. OutsideInit => Inv0
  BY YahooInit DEF OutsideInit
<1>2. Inv0 /\ [OutsideNext]_outsideVars => Inv0'
  <2> SUFFICES ASSUME Inv0, [OutsideNext]_outsideVars, focus' = "yahoo" PROVE YahooInv'
    OBVIOUS
  <2>1. focus = "yahoo" /\ YahooInv
    BY DEF OutsideNext, outsideVars
  <2>2. Yahoo!Next \/ UNCHANGED yahooVars
    BY <2>1 DEF OutsideNext, outsideVars
  <2> QED
    BY <2>1, <2>2, YahooNext, YahooStutter
<1>3. Inv0 => Shared
  <2> SUFFICES ASSUME YahooInv PROVE Yahoo!TypeOK /\ Yahoo!OneAtTheSession /\ Yahoo!PauseIsKept /\ Yahoo!NobodyAsksTwice
    BY DEF Shared
  <2>1. Yahoo!TypeOK
    BY DEF YahooInv, YahooTyped, CallState, Yahoo!TypeOK
  <2>2. Yahoo!OneAtTheSession
    BY DEF YahooInv
  <2>3. ASSUME NEW c \in Callers, NEW t \in Tickers, yahooReq[c][t].at = "ask" PROVE call[c].at = "ask" /\ t \in call[c].want
    BY <2>3, AtAsk DEF Ended, RequestsFit
  <2>4. Yahoo!PauseIsKept
    BY <2>3 DEF YahooInv, LateIsPast, Yahoo!PauseIsKept, Yahoo!PastWait, Yahoo!Asks, Yahoo!At
  <2>5. Yahoo!NobodyAsksTwice
    BY <2>3 DEF YahooInv, AsksForNews, Yahoo!NobodyAsksTwice, Yahoo!Asks
  <2> QED
    BY <2>1, <2>2, <2>4, <2>5
<1>4. Inv0 /\ [OutsideNext]_outsideVars => [focus = "yahoo" => Yahoo!LatchStays]_yahooVars
  <2> SUFFICES ASSUME Inv0, OutsideNext, focus = "yahoo", latch, ~Yahoo!FailoverUnderWay
               PROVE  latch' /\ ~Yahoo!FailoverUnderWay' /\ faults' = faults
    BY DEF Yahoo!LatchStays, outsideVars, yahooVars
  <2>1. YahooInv /\ Yahoo!Next
    BY DEF OutsideNext
  <2> QED
    BY <2>1, LatchKept
<1> HIDE DEF Inv0
<1> QED
  BY <1>1, <1>2, <1>3, <1>4, PTL DEF OutsideSpec, SessionIsShared

-----------------------------------------------------------------------------
(* McpAudit.  What a sequence of rows stands for is a sum over it, which   *)
(* grows and shrinks by the row that joins or leaves (TotalAppend,         *)
(* TotalTail); what the threads carry is counted with them (OneMoves).  So *)
(* a step moves a number from one place to another, and the sum stays.     *)

\* A nonempty set of numbers has a least one (0..k is smallest for the least k), so that
\* what holds of 0 and is handed on holds of all: induction over data, stated of sets.
LEMMA LeastNumber == ASSUME NEW T, T \subseteq Nat, T # {} PROVE \E n \in T : \A m \in T : n <= m
<1>1. PICK b \in T : TRUE OBVIOUS
<1> DEFINE S == 0..b
           R == StrictSubsetOrdering(S)
           U == {0..k : k \in {j \in T : j <= b}}
<1>2. IsWellFoundedOn(R, SUBSET S)
  <2>1. IsFiniteSet(S) BY <1>1, FS_Interval
  <2> HIDE DEF S
  <2> QED BY <2>1, FS_StrictSubsetOrderingWellFounded, FS_FiniteSubsetsOfFinite
<1>3. U \subseteq SUBSET S /\ U # {}
  BY <1>1
<1>4. PICK x \in U : \A y \in U : <<y, x>> \notin R
  <2> HIDE DEF R, U, S
  <2> QED BY <1>2, <1>3, WFMin
<1>5. PICK n \in T : n <= b /\ x = 0..n
  BY DEF U
<1>6. \A m \in T : m <= b => n <= m
  <2> SUFFICES ASSUME NEW m \in T, m <= b, m < n PROVE FALSE BY <1>5
  <2>1. 0..m \in U OBVIOUS
  <2>2. 0..m \subseteq 0..n /\ n \in 0..n /\ n \notin 0..m BY <1>5
  <2>3. <<0..m, 0..n>> \in R BY <2>2, <1>5, <2>1, <1>3, <1>1 DEF StrictSubsetOrdering
  <2> QED BY <2>1, <2>3, <1>4, <1>5
<1> QED
  <2> SUFFICES ASSUME NEW m \in T PROVE n <= m
    BY <1>5
  <2>1. n \in Nat /\ m \in Nat /\ b \in Nat /\ n <= b
    BY <1>1, <1>5
  <2>2. CASE m <= b
    BY <1>6, <2>2
  <2>3. CASE ~(m <= b)
    BY <2>1, <2>3
  <2> QED
    BY <2>2, <2>3

LEMMA UpTo ==
  ASSUME NEW m \in Nat, NEW T, 0 \in T, \A n \in 0..(m - 1) : n \in T => n + 1 \in T
  PROVE  \A n \in 0..m : n \in T
<1> SUFFICES ASSUME (0..m) \ T # {} PROVE FALSE
  OBVIOUS
<1>1. PICK n \in (0..m) \ T : \A k \in (0..m) \ T : n <= k
  <2>1. (0..m) \ T \subseteq Nat
    OBVIOUS
  <2> QED
    BY <2>1, LeastNumber
<1>2. n # 0 /\ n - 1 \in 0..(m - 1) /\ (n - 1) + 1 = n
  BY <1>1
<1>3. n - 1 \in T
  BY <1>1, <1>2
<1> QED
  BY <1>1, <1>2, <1>3

\* A loop over n steps has one run, whatever the steps do.
LEMMA Recursion ==
  ASSUME NEW S, NEW b \in S, NEW m \in Nat, NEW g \in [1..m -> [S -> S]]
  PROVE  \E f \in [0..m -> S] : f[0] = b /\ \A n \in 1..m : f[n] = g[n][f[n - 1]]
<1> DEFINE RunsTo(n, f) == f \in [0..n -> S] /\ f[0] = b /\ \A k \in 1..n : f[k] = g[k][f[k - 1]]
           T == {n \in 0..m : \E f : RunsTo(n, f)}
<1>1. 0 \in T
  <2>1. RunsTo(0, [k \in 0..0 |-> b])
    OBVIOUS
  <2> HIDE DEF RunsTo
  <2> QED
    BY <2>1
<1>2. \A n \in 0..(m - 1) : n \in T => n + 1 \in T
  <2> SUFFICES ASSUME NEW n \in 0..(m - 1), NEW f, RunsTo(n, f) PROVE n + 1 \in T
    OBVIOUS
  <2> DEFINE h == [k \in 0..(n + 1) |-> IF k = n + 1 THEN g[n + 1][f[n]] ELSE f[k]]
  <2>1. n + 1 \in 1..m /\ n \in 0..n /\ n + 1 \in 0..m
    OBVIOUS
  <2>2. h \in [0..(n + 1) -> S]
    BY <2>1
  <2>3. \A k \in 1..(n + 1) : h[k] = g[k][h[k - 1]]
    <3> TAKE k \in 1..(n + 1)
    <3>1. CASE k = n + 1
      <4>1. h[k] = g[n + 1][f[n]] /\ k - 1 = n /\ n \in 0..(n + 1) /\ n # n + 1
        BY <3>1
      <4>2. h[n] = f[n]
        BY <4>1
      <4> QED
        BY <4>1, <4>2, <3>1
    <3>2. CASE k # n + 1
      <4>1. k \in 1..n /\ k \in 0..(n + 1) /\ k - 1 \in 0..(n + 1) /\ k - 1 # n + 1
        BY <3>2
      <4>2. h[k] = f[k] /\ h[k - 1] = f[k - 1]
        BY <4>1, <3>2
      <4> QED
        BY <4>1, <4>2
    <3> QED
      BY <3>1, <3>2
  <2>4. h[0] = b
    OBVIOUS
  <2>5. RunsTo(n + 1, h)
    BY <2>2, <2>3, <2>4
  <2> HIDE DEF RunsTo, h
  <2> QED
    BY <2>1, <2>5
<1>3. \A n \in 0..m : n \in T
  <2> HIDE DEF T
  <2> QED
    BY <1>1, <1>2, UpTo
<1>4. m \in T
  BY <1>3
<1> QED
  BY <1>4

\* The function that Total defines by recursion has the values its equations ask for.
LEMMA TotalLoop ==
  ASSUME NEW s \in Seq(Nat), NEW m \in Nat, m = Len(s)
  PROVE  \E u \in [0..m -> Nat] :
           /\ u[0] = 0 /\ \A n \in 1..m : u[n] = u[n - 1] + s[n]
           /\ Audit!Total(s) = u[m]
<1> DEFINE g == [n \in 1..m |-> [x \in Nat |-> x + s[n]]]
           After(f) == [n \in 0..m |-> IF n = 0 THEN 0 ELSE f[n - 1] + s[n]]
           u == CHOOSE f : f = After(f)
<1>1. \A n \in 1..m : s[n] \in Nat /\ n - 1 \in 0..m /\ n \in 0..m /\ n # 0
  OBVIOUS
<1>2. g \in [1..m -> [Nat -> Nat]]
  BY <1>1
<1>3. \E f \in [0..m -> Nat] : f[0] = 0 /\ \A n \in 1..m : f[n] = g[n][f[n - 1]]
  <2>1. PICK S, z, h : S = Nat /\ z = 0 /\ h = g
    OBVIOUS
  <2>2. h \in [1..m -> [S -> S]]
    BY <1>2, <2>1
  <2>3. z \in S
    BY <2>1
  <2> HIDE DEF g
  <2>4. \E f \in [0..m -> S] : f[0] = z /\ \A n \in 1..m : f[n] = h[n][f[n - 1]]
    BY ONLY <2>2, <2>3, Recursion, m \in Nat, SMTT(60)
  <2> QED
    BY <2>1, <2>4
<1>4. PICK f \in [0..m -> Nat] : f[0] = 0 /\ \A n \in 1..m : f[n] = f[n - 1] + s[n]
  <2>1. PICK f \in [0..m -> Nat] : f[0] = 0 /\ \A n \in 1..m : f[n] = g[n][f[n - 1]]
    BY <1>3
  <2>2. \A n \in 1..m : g[n][f[n - 1]] = f[n - 1] + s[n]
    BY <1>1
  <2> HIDE DEF g
  <2> QED
    BY <2>1, <2>2
<1>5. f = After(f)
  BY <1>1, <1>4
<1>6. u = After(u)
  <2> HIDE DEF After
  <2> QED
    BY <1>5
<1>7. Audit!Total(s) = u[m]
  BY Zenon DEF Audit!Total
<1> HIDE DEF u
<1>8. u[0] = 0 /\ \A n \in 1..m : u[n] = u[n - 1] + s[n]
  <2>1. \A n \in 0..m : u[n] = After(u)[n]
    BY <1>6
  <2>2. After(u)[0] = 0 /\ \A n \in 1..m : After(u)[n] = u[n - 1] + s[n]
    BY <1>1
  <2>3. 0 \in 0..m
    OBVIOUS
  <2> HIDE DEF After
  <2> QED
    BY <1>1, <2>1, <2>2, <2>3
<1>9. \A n \in 0..m : u[n] \in Nat
  <2> DEFINE T == {n \in 0..m : u[n] \in Nat}
  <2>1. 0 \in T
    BY <1>8
  <2>2. \A n \in 0..(m - 1) : n \in T => n + 1 \in T
    <3> SUFFICES ASSUME NEW n \in 0..(m - 1), u[n] \in Nat PROVE n + 1 \in 0..m /\ u[n + 1] \in Nat
      OBVIOUS
    <3>1. n + 1 \in 1..m /\ (n + 1) - 1 = n
      OBVIOUS
    <3> QED
      BY <1>1, <1>8, <3>1
  <2>3. \A n \in 0..m : n \in T
    <3> HIDE DEF T
    <3> QED
      BY <2>1, <2>2, UpTo
  <2> QED
    BY <2>3
<1>10. u \in [0..m -> Nat]
  BY <1>6, <1>9
<1> QED
  BY <1>7, <1>8, <1>10

\* One more row adds what it stands for; the first row takes away what it stands for.
LEMMA TotalAppend ==
  ASSUME NEW s \in Seq(Nat), NEW x \in Nat
  PROVE  Audit!Total(s) \in Nat /\ Audit!Total(Append(s, x)) = Audit!Total(s) + x
<1>1. PICK m \in Nat : m = Len(s)
  OBVIOUS
<1>2. PICK p \in Seq(Nat) : p = Append(s, x)
  <2>1. Append(s, x) \in Seq(Nat)
    OBVIOUS
  <2> QED
    BY <2>1
<1>3. Len(p) = m + 1 /\ p[m + 1] = x /\ \A n \in 1..m : p[n] = s[n]
  BY <1>1, <1>2
<1>4. PICK u \in [0..m -> Nat] : u[0] = 0 /\ (\A n \in 1..m : u[n] = u[n - 1] + s[n]) /\ Audit!Total(s) = u[m]
  BY <1>1, TotalLoop
<1>5. PICK k \in Nat : k = m + 1
  OBVIOUS
<1>6. PICK v \in [0..k -> Nat] : v[0] = 0 /\ (\A n \in 1..k : v[n] = v[n - 1] + p[n]) /\ Audit!Total(p) = v[k]
  BY <1>3, <1>5, TotalLoop
<1> DEFINE T == {n \in 0..m : v[n] = u[n]}
<1>7. \A n \in 0..m : n \in T
  <2>1. 0 \in T
    BY <1>4, <1>6
  <2>2. \A n \in 0..(m - 1) : n \in T => n + 1 \in T
    <3> SUFFICES ASSUME NEW n \in 0..(m - 1), v[n] = u[n] PROVE n + 1 \in T
      OBVIOUS
    <3>1. n + 1 \in 1..m /\ n + 1 \in 1..k /\ (n + 1) - 1 = n
      BY <1>5
    <3> QED
      BY <1>3, <1>4, <1>6, <3>1
  <2> HIDE DEF T
  <2> QED
    BY <2>1, <2>2, UpTo
<1>8. v[m] = u[m] /\ u[m] \in Nat
  BY <1>4, <1>7
<1>9. v[k] = v[m] + x
  <2>1. k \in 1..k /\ k - 1 = m
    BY <1>5
  <2> QED
    BY <1>3, <1>5, <1>6, <2>1
<1> QED
  BY <1>2, <1>4, <1>6, <1>8, <1>9

LEMMA TotalTail ==
  ASSUME NEW s \in Seq(Nat), s # <<>>
  PROVE  /\ Head(s) \in Nat /\ Tail(s) \in Seq(Nat) /\ Len(Tail(s)) = Len(s) - 1
         /\ Audit!Total(s) = Head(s) + Audit!Total(Tail(s)) /\ Audit!Total(Tail(s)) \in Nat
<1>1. PICK m \in Nat : Len(s) = m + 1
  BY Len(s) - 1 \in Nat
<1>2. PICK p \in Seq(Nat) : p = Tail(s)
  BY HeadTailProperties
<1>3. Len(p) = m /\ \A n \in 1..m : p[n] = s[n + 1]
  BY <1>1, <1>2, HeadTailProperties
<1>4. Head(s) = s[1] /\ s[1] \in Nat
  <2>1. 1 \in 1..Len(s)
    BY <1>1
  <2> QED
    BY <2>1
<1>5. PICK k \in Nat : k = m + 1
  OBVIOUS
<1>6. PICK u \in [0..k -> Nat] : u[0] = 0 /\ (\A n \in 1..k : u[n] = u[n - 1] + s[n]) /\ Audit!Total(s) = u[k]
  BY <1>1, <1>5, TotalLoop
<1>7. PICK v \in [0..m -> Nat] : v[0] = 0 /\ (\A n \in 1..m : v[n] = v[n - 1] + p[n]) /\ Audit!Total(p) = v[m]
  BY <1>3, TotalLoop
<1> DEFINE T == {n \in 0..m : u[n + 1] = s[1] + v[n]}
<1>8. \A n \in 0..m : n \in T
  <2>1. 0 \in T
    <3>1. 1 \in 1..k /\ 1 - 1 = 0 /\ 0 + 1 = 1
      BY <1>5
    <3> QED
      BY <1>4, <1>6, <1>7, <3>1
  <2>2. \A n \in 0..(m - 1) : n \in T => n + 1 \in T
    <3> SUFFICES ASSUME NEW n \in 0..(m - 1), u[n + 1] = s[1] + v[n]
                 PROVE  n + 1 \in 0..m /\ u[(n + 1) + 1] = s[1] + v[n + 1]
      OBVIOUS
    <3>1. n + 1 \in 1..m /\ (n + 1) - 1 = n /\ (n + 1) + 1 \in 1..k /\ ((n + 1) + 1) - 1 = n + 1 /\ n \in 0..m
      BY <1>5
    <3>2. u[(n + 1) + 1] = u[n + 1] + s[(n + 1) + 1] /\ v[n + 1] = v[n] + s[(n + 1) + 1]
      BY <1>3, <1>6, <1>7, <3>1
    <3>3. s[(n + 1) + 1] \in Nat /\ v[n] \in Nat
      <4>1. (n + 1) + 1 \in 1..Len(s)
        BY <1>1, <1>5, <3>1
      <4>2. v[n] \in Nat
        BY <1>7, <3>1
      <4>3. s[(n + 1) + 1] \in Nat
        BY <4>1, LenProperties
      <4> QED
        BY <4>2, <4>3
    <3>4. PICK i, j, k1 \in Nat : i = s[1] /\ j = v[n] /\ k1 = s[(n + 1) + 1]
      BY <1>4, <3>3
    <3>5. n + 1 \in 0..m
      BY <3>1
    <3>6. u[(n + 1) + 1] = (i + j) + k1 /\ v[n + 1] = j + k1
      BY <3>2, <3>4
    <3>7. (i + j) + k1 = i + (j + k1)
      OBVIOUS
    <3>8. u[(n + 1) + 1] = s[1] + v[n + 1]
      BY <3>4, <3>6, <3>7
    <3> QED
      BY <3>5, <3>8
  <2> HIDE DEF T
  <2> QED
    BY <2>1, <2>2, UpTo
<1>9. u[k] = s[1] + v[m] /\ v[m] \in Nat
  BY <1>5, <1>7, <1>8
<1> QED
  BY <1>1, <1>2, <1>3, <1>4, <1>6, <1>7, <1>9

LEMMA TotalFew ==
  /\ <<>> \in Seq(Nat) /\ Audit!Total(<<>>) = 0
  /\ \A x \in Nat : <<x>> \in Seq(Nat) /\ Audit!Total(<<x>>) = x
  /\ \A x, y \in Nat : <<x, y>> \in Seq(Nat) /\ Audit!Total(<<x, y>>) = x + y
<1>1. <<>> \in Seq(Nat) /\ Audit!Total(<<>>) = 0
  <2>1. PICK s \in Seq(Nat) : s = <<>>
    BY EmptySeq
  <2>2. PICK m \in Nat : m = 0 /\ m = Len(s)
    BY <2>1
  <2>3. PICK u \in [0..m -> Nat] : u[0] = 0 /\ Audit!Total(s) = u[m]
    BY <2>2, TotalLoop
  <2> QED
    BY <2>1, <2>2, <2>3
<1>2. ASSUME NEW x \in Nat PROVE <<x>> \in Seq(Nat) /\ Audit!Total(<<x>>) = x
  <2>1. <<x>> = Append(<<>>, x)
    OBVIOUS
  <2>2. Audit!Total(Append(<<>>, x)) = 0 + x
    BY <1>1, TotalAppend
  <2> QED
    BY <1>1, <2>1, <2>2
<1>3. ASSUME NEW x \in Nat, NEW y \in Nat PROVE <<x, y>> \in Seq(Nat) /\ Audit!Total(<<x, y>>) = x + y
  <2>1. <<x, y>> = Append(<<x>>, y)
    OBVIOUS
  <2>2. Audit!Total(Append(<<x>>, y)) = x + y
    BY <1>2, TotalAppend
  <2>3. Append(<<x>>, y) \in Seq(Nat)
    BY <1>2
  <2> QED
    BY <2>1, <2>2, <2>3
<1> QED
  BY <1>1, <1>2, <1>3

LEMMA TwoRows == ASSUME NEW x \in Nat, NEW y \in Nat PROVE <<x>> \o <<y>> = <<x, y>>
<1>1. <<x>> \in Seq(Nat) /\ <<y>> \in Seq(Nat) /\ <<x, y>> \in Seq(Nat)
  BY TotalFew
<1>2. Len(<<x>>) = 1 /\ Len(<<y>>) = 1 /\ Len(<<x, y>>) = 2
  OBVIOUS
<1>3. <<x>>[1] = x /\ <<y>>[1] = y /\ <<x, y>>[1] = x /\ <<x, y>>[2] = y
  OBVIOUS
<1>4. PICK s, t, v \in Seq(Nat) : s = <<x>> /\ t = <<y>> /\ v = <<x, y>>
  BY <1>1
<1>5. Len(s) = 1 /\ Len(t) = 1 /\ Len(v) = 2 /\ s[1] = x /\ t[1] = y /\ v[1] = x /\ v[2] = y
  BY <1>2, <1>3, <1>4
<1>6. /\ s \o t \in Seq(Nat) /\ Len(s \o t) = Len(s) + Len(t)
      /\ \A i \in 1..Len(s) + Len(t) : (s \o t)[i] = IF i <= Len(s) THEN s[i] ELSE t[i - Len(s)]
  BY ConcatProperties
<1>7. PICK w \in Seq(Nat) : w = s \o t
  BY <1>6
<1>8. Len(w) = 2 /\ w[1] = x /\ w[2] = y
  BY ONLY <1>5, <1>6, <1>7
<1>9. w = v
  <2>1. \A i \in 1..Len(w) : w[i] = v[i]
    BY <1>5, <1>8
  <2> QED
    BY <1>5, <1>8, <2>1, SeqEqual
<1> QED
  BY <1>4, <1>7, <1>9

LEMMA TotalOne ==
  ASSUME NEW s \in Seq(Nat), Len(s) <= 1, s # <<>>
  PROVE  Len(s) = 1 /\ Head(s) \in Nat /\ Audit!Total(s) = Head(s)
<1>1. Len(s) = 1
  <2>1. PICK m \in Nat : m = Len(s)
    OBVIOUS
  <2>2. m # 0
    BY <2>1, EmptySeq
  <2> QED
    BY <2>1, <2>2
<1>2. Head(s) \in Nat /\ Tail(s) \in Seq(Nat) /\ Len(Tail(s)) = 0 /\ Audit!Total(s) = Head(s) + Audit!Total(Tail(s))
  <2>1. Head(s) \in Nat /\ Tail(s) \in Seq(Nat) /\ Len(Tail(s)) = Len(s) - 1 /\ Audit!Total(s) = Head(s)
          + Audit!Total(Tail(s))
    BY TotalTail
  <2> QED
    BY <1>1, <2>1
<1>3. Tail(s) = <<>>
  BY <1>2, EmptySeq
<1>4. Audit!Total(s) = Head(s) + 0
  BY <1>2, <1>3, TotalFew
<1> QED
  BY <1>1, <1>2, <1>4

\* Rows numbered by who carries them: when one thread's number changes, the set of them
\* changes by as much.
LEMMA OneMoves ==
  ASSUME NEW f \in [Threads -> Nat], NEW g \in [Threads -> Nat], NEW t \in Threads,
         \A u \in Threads : u # t => g[u] = f[u], NEW U, NEW V, IsFiniteSet(U),
         \A p : p \in U <=> \E u \in Threads : \E k \in 1..f[u] : p = <<u, k>>,
         \A p : p \in V <=> \E u \in Threads : \E k \in 1..g[u] : p = <<u, k>>
  PROVE  IsFiniteSet(V) /\ Cardinality(U) \in Nat /\ Cardinality(V) = (Cardinality(U) - f[t]) + g[t]
<1> DEFINE W == {p \in U : p[1] # t}
           Mine(n) == {t} \X (1..n)
<1>1. IsFiniteSet(W) /\ Cardinality(W) \in Nat
  <2>1. W \subseteq U
    OBVIOUS
  <2> HIDE DEF W
  <2> QED
    BY <2>1, FS_Subset, FS_CardinalityType
<1>2. ASSUME NEW n \in Nat
      PROVE  IsFiniteSet(Mine(n)) /\ Cardinality(Mine(n)) = n /\ W \cap Mine(n) = {}
  <2>1. IsFiniteSet({t}) /\ Cardinality({t}) = 1
    BY FS_Singleton
  <2>2. IsFiniteSet(1..n) /\ Cardinality(1..n) = n
    <3>1. PICK i, j \in Int : i = 1 /\ j = n
      OBVIOUS
    <3>2. IsFiniteSet(i..j) /\ Cardinality(i..j) = IF i > j THEN 0 ELSE j - i + 1
      BY FS_Interval
    <3> QED
      BY <3>1, <3>2
  <2>3. IsFiniteSet(Mine(n)) /\ Cardinality(Mine(n)) = 1 * n
    <3>1. PICK A, B : A = {t} /\ B = 1..n
      OBVIOUS
    <3>2. IsFiniteSet(A \X B) /\ Cardinality(A \X B) = Cardinality(A) * Cardinality(B)
      BY <2>1, <2>2, <3>1, FS_Product
    <3> QED
      BY <2>1, <2>2, <3>1, <3>2
  <2> QED
    BY <2>3
<1>3. U = W \cup Mine(f[t]) /\ V = W \cup Mine(g[t])
  <2>1. U = W \cup Mine(f[t])
    OBVIOUS
  <2>2. \A p : p \in V => p \in W \cup Mine(g[t])
    OBVIOUS
  <2>3. \A p : p \in W \cup Mine(g[t]) => p \in V
    OBVIOUS
  <2> QED
    BY <2>1, <2>2, <2>3
<1>4. ASSUME NEW n \in Nat PROVE IsFiniteSet(W \cup Mine(n)) /\ Cardinality(W \cup Mine(n)) = Cardinality(W) + n
  <2>1. PICK M : M = Mine(n)
    OBVIOUS
  <2>2. IsFiniteSet(M) /\ Cardinality(M) = n /\ W \cap M = {}
    BY <1>2, <2>1
  <2> HIDE DEF W, Mine
  <2>3. IsFiniteSet(W \cup M) /\ Cardinality(W \cup M) = Cardinality(W) + Cardinality(M) - Cardinality(W \cap M)
    BY <1>1, <2>2, FS_Union
  <2>4. Cardinality(W \cap M) = 0
    BY <2>2, FS_EmptySet
  <2> QED
    BY <1>1, <2>1, <2>2, <2>3, <2>4
<1>5. f[t] \in Nat /\ g[t] \in Nat
  OBVIOUS
<1>6. Cardinality(U) = Cardinality(W) + f[t] /\ Cardinality(V) = Cardinality(W) + g[t] /\ IsFiniteSet(V)
  <2> HIDE DEF W, Mine
  <2> QED
    BY <1>3, <1>4, <1>5
<1> HIDE DEF W, Mine
<1> QED
  BY <1>1, <1>5, <1>6

\* The rows before the writer, at it and in the hands of the threads are of their types; a
\* thread has one row counted and not yet queued, the writer one row.
AuditTypes ==
  /\ pending \in Nat /\ rows \in Nat /\ suppressed \in Nat /\ kept \in Nat /\ missed \in Nat /\ recorded \in Nat
  /\ hand \in [Threads -> Seq(Nat)] /\ entering \in [Threads -> Seq(Nat)]
  /\ queue \in Seq(Nat) /\ writing \in Seq(Nat) /\ Len(writing) <= 1
  /\ \A t \in Threads : Len(entering[t]) <= 1
RowsCounted ==
  recorded = kept + missed + suppressed + Cardinality(Audit!Carried) + Audit!Total(queue) + Audit!Total(writing)
QueueFits ==
  /\ pending <= QueueMax /\ pending = Len(queue) + Len(writing) + Cardinality(Audit!Held(entering))
  /\ rows <= Cap /\ (suppressed > 0 => rows = Cap)
AuditInv == AuditTypes /\ IsFiniteSet(Audit!Held(entering)) /\ IsFiniteSet(Audit!Carried) /\ RowsCounted /\ QueueFits

LEMMA SeqTotal == ASSUME NEW s \in Seq(Nat) PROVE Audit!Total(s) \in Nat
BY TotalAppend, 0 \in Nat

\* A step of one thread changes what is carried by what that thread carries.
LEMMA CarriedMoves ==
  ASSUME AuditTypes, AuditTypes', NEW t \in Threads, IsFiniteSet(Audit!Carried),
         \A u \in Threads : u # t => hand'[u] = hand[u] /\ entering'[u] = entering[u]
  PROVE  /\ IsFiniteSet(Audit!Carried') /\ Cardinality(Audit!Carried) \in Nat
         /\ Cardinality(Audit!Carried') = (Cardinality(Audit!Carried) - (Audit!Total(hand[t])
              + Audit!Total(entering[t])))
                                      + (Audit!Total(hand'[t]) + Audit!Total(entering'[t]))
<1>1. PICK f : f = [u \in Threads |-> Audit!Total(hand[u]) + Audit!Total(entering[u])]
  OBVIOUS
<1>2. PICK g : g = [u \in Threads |-> Audit!Total(hand'[u]) + Audit!Total(entering'[u])]
  OBVIOUS
<1>3. \A u \in Threads : hand[u] \in Seq(Nat) /\ entering[u] \in Seq(Nat) /\ hand'[u] \in Seq(Nat)
        /\ entering'[u] \in Seq(Nat)
  BY DEF AuditTypes
<1>4. \A u \in Threads : Audit!Total(hand[u]) \in Nat /\ Audit!Total(entering[u]) \in Nat
        /\ Audit!Total(hand'[u]) \in Nat /\ Audit!Total(entering'[u]) \in Nat
  BY <1>3, SeqTotal
<1>5. f \in [Threads -> Nat] /\ g \in [Threads -> Nat] /\ \A u \in Threads : u # t => g[u] = f[u]
  BY <1>1, <1>2, <1>4
<1>6. PICK U, V : U = Audit!Carried /\ V = Audit!Carried'
  OBVIOUS
<1>7. \A p : p \in U <=> \E u \in Threads : \E k \in 1..f[u] : p = <<u, k>>
  BY <1>1, <1>6 DEF Audit!Carried, Audit!Carries
<1>8. \A p : p \in V <=> \E u \in Threads : \E k \in 1..g[u] : p = <<u, k>>
  BY <1>2, <1>6 DEF Audit!Carried, Audit!Carries
<1>9. IsFiniteSet(U)
  BY <1>6
<1>10. IsFiniteSet(V) /\ Cardinality(U) \in Nat /\ Cardinality(V) = (Cardinality(U) - f[t]) + g[t]
  BY ONLY <1>5, <1>7, <1>8, <1>9, t \in Threads, OneMoves
<1>11. f[t] = Audit!Total(hand[t]) + Audit!Total(entering[t]) /\ g[t] = Audit!Total(hand'[t])
         + Audit!Total(entering'[t])
  BY <1>1, <1>2
<1> QED
  BY <1>6, <1>10, <1>11

\* A thread joins those with a row on its way to the queue, leaves them, or neither.
LEMMA HeldMoves ==
  ASSUME AuditTypes, AuditTypes', NEW t \in Threads, IsFiniteSet(Audit!Held(entering)),
         \A u \in Threads : u # t => entering'[u] = entering[u]
  PROVE  /\ IsFiniteSet(Audit!Held(entering)') /\ Cardinality(Audit!Held(entering)) \in Nat
         /\ Cardinality(Audit!Held(entering)') = Cardinality(Audit!Held(entering))
              + (IF entering[t] = <<>> /\ entering'[t] # <<>> THEN 1 ELSE 0)
              - (IF entering[t] # <<>> /\ entering'[t] = <<>> THEN 1 ELSE 0)
<1>1. PICK U, V : U = Audit!Held(entering) /\ V = Audit!Held(entering)'
  OBVIOUS
<1>2. \A u : (u \in U <=> u \in Threads /\ entering[u] # <<>>) /\ (u \in V <=> u \in Threads /\ entering'[u] # <<>>)
  BY <1>1 DEF Audit!Held
<1>3. IsFiniteSet(U) /\ Cardinality(U) \in Nat
  BY <1>1, FS_CardinalityType
<1>4. CASE entering[t] = <<>> /\ entering'[t] # <<>>
  <2>1. V = U \cup {t} /\ t \notin U
    BY <1>2, <1>4
  <2>2. IsFiniteSet(U \cup {t}) /\ Cardinality(U \cup {t}) = Cardinality(U) + 1
    BY <1>3, <2>1, FS_AddElement
  <2> QED
    BY <1>1, <1>3, <1>4, <2>1, <2>2
<1>5. CASE entering[t] # <<>> /\ entering'[t] = <<>>
  <2>1. V = U \ {t} /\ t \in U
    BY <1>2, <1>5
  <2>2. IsFiniteSet(U \ {t}) /\ Cardinality(U \ {t}) = Cardinality(U) - 1
    BY <1>3, <2>1, FS_RemoveElement
  <2> QED
    BY <1>1, <1>3, <1>5, <2>1, <2>2
<1>6. CASE entering[t] = <<>> <=> entering'[t] = <<>>
  <2>1. V = U
    BY <1>2, <1>6
  <2> QED
    BY <1>1, <1>3, <1>6, <2>1
<1> QED
  BY <1>4, <1>5, <1>6

LEMMA AuditStarts == ASSUME Audit!Init PROVE AuditInv
<1>1. AuditTypes
  BY TotalFew DEF AuditTypes, Audit!Init
<1>2. Audit!Held(entering) = {}
  BY DEF Audit!Held, Audit!Init
<1>3. Audit!Carried = {}
  <2>1. \A t \in Threads : Audit!Carries(t) = 0
    BY TotalFew DEF Audit!Carries, Audit!Init
  <2> QED
    BY <2>1 DEF Audit!Carried
<1>4. Cardinality({}) = 0 /\ IsFiniteSet({})
  BY FS_EmptySet
<1>5. RowsCounted
  BY <1>3, <1>4, TotalFew DEF RowsCounted, Audit!Init
<1>6. QueueFits
  <2>1. pending = 0 /\ Len(queue) = 0 /\ Len(writing) = 0 /\ rows = 0 /\ suppressed = 0
    BY DEF Audit!Init
  <2> QED
    BY <1>2, <1>4, <2>1, AuditAssumption DEF QueueFits
<1> QED
  BY <1>1, <1>2, <1>3, <1>4, <1>5, <1>6 DEF AuditInv

\* What _record hands to its thread is what it adds to the count and takes off the summary.
LEMMA RecordStep == ASSUME AuditInv, NEW t \in Threads, NEW b \in BOOLEAN, Audit!Record(t, b) PROVE AuditInv'
<1> DEFINE ok == ~b \/ Audit!RowsThen < Cap
           given == Audit!Summary \o (IF ok THEN <<1>> ELSE <<>>)
<1>1. AuditTypes /\ Cap \in Nat /\ QueueMax \in Nat
  BY AuditAssumption DEF AuditInv
<1>2. /\ hand[t] = <<>> /\ entering[t] = <<>> /\ recorded' = recorded + 1
      /\ rows' = (IF b /\ ok THEN Audit!RowsThen + 1 ELSE Audit!RowsThen)
      /\ suppressed' = (IF ok THEN Audit!SuppressedThen ELSE Audit!SuppressedThen + 1)
      /\ hand' = [hand EXCEPT ![t] = given]
      /\ UNCHANGED <<pending, entering, queue, writing, kept, missed>>
  BY Zenon DEF Audit!Record
<1>3. Audit!RowsThen \in Nat /\ Audit!SuppressedThen \in Nat /\ Audit!RowsThen <= Cap /\ (Audit!SuppressedThen > 0
        => Audit!RowsThen = Cap)
  BY <1>1 DEF AuditInv, AuditTypes, QueueFits, Audit!RowsThen, Audit!SuppressedThen
<1>4. /\ given \in Seq(Nat) /\ Audit!Total(given) \in Nat
      /\ Audit!Total(given) + Audit!SuppressedThen = suppressed + (IF ok THEN 1 ELSE 0)
  <2>1. suppressed \in Nat
    BY <1>1 DEF AuditTypes
  <2>2. CASE Audit!Rolls /\ suppressed > 0
    <3>1. Audit!Summary = <<suppressed>> /\ Audit!SuppressedThen = 0
      BY <2>2 DEF Audit!Summary, Audit!SuppressedThen
    <3>2. CASE ok
      <4>1. given = <<suppressed>> \o <<1>>
        BY <3>1, <3>2
      <4>2. given = <<suppressed, 1>>
        BY <2>1, <4>1, TwoRows
      <4> HIDE DEF given, ok
      <4> QED
        BY <2>1, <3>1, <3>2, <4>2, TotalFew
    <3>3. CASE ~ok
      <4>1. given = <<suppressed>>
        BY <3>1, <3>3
      <4> HIDE DEF given, ok
      <4> QED
        BY <2>1, <3>1, <3>3, <4>1, TotalFew
    <3> QED
      BY <3>2, <3>3
  <2>3. CASE ~(Audit!Rolls /\ suppressed > 0)
    <3>1. Audit!Summary = <<>> /\ Audit!SuppressedThen = suppressed
      BY <2>1, <2>3 DEF Audit!Summary, Audit!SuppressedThen
    <3>2. CASE ok
      <4>1. given = <<1>>
        BY <3>1, <3>2
      <4> HIDE DEF given, ok
      <4> QED
        BY <2>1, <3>1, <3>2, <4>1, TotalFew
    <3>3. CASE ~ok
      <4>1. given = <<>>
        BY <3>1, <3>3
      <4> HIDE DEF given, ok
      <4> QED
        BY <2>1, <3>1, <3>3, <4>1, TotalFew
    <3> QED
      BY <3>2, <3>3
  <2> QED
    BY <2>2, <2>3
<1>5. /\ rows' \in Nat /\ suppressed' \in Nat /\ recorded' \in Nat
      /\ rows' <= Cap /\ (suppressed' > 0 => rows' = Cap)
  <2>1. CASE ok
    BY <1>1, <1>2, <1>3, <2>1 DEF AuditTypes
  <2>2. CASE ~ok
    BY <1>1, <1>2, <1>3, <2>2 DEF AuditTypes
  <2> QED
    BY <2>1, <2>2
<1> HIDE DEF given
<1>6. hand' \in [Threads -> Seq(Nat)] /\ hand'[t] = given /\ \A u \in Threads : u # t => hand'[u] = hand[u]
  BY <1>1, <1>2, <1>4 DEF AuditTypes
<1>7. AuditTypes'
  BY <1>1, <1>2, <1>5, <1>6 DEF AuditTypes
<1>8. IsFiniteSet(Audit!Held(entering)') /\ Audit!Held(entering)' = Audit!Held(entering)
  BY <1>2 DEF AuditInv, Audit!Held
<1>9. /\ IsFiniteSet(Audit!Carried') /\ Cardinality(Audit!Carried) \in Nat
      /\ Cardinality(Audit!Carried') = Cardinality(Audit!Carried) + Audit!Total(given)
  <2>1. /\ IsFiniteSet(Audit!Carried') /\ Cardinality(Audit!Carried) \in Nat
        /\ Cardinality(Audit!Carried') = (Cardinality(Audit!Carried) - (Audit!Total(hand[t])
             + Audit!Total(entering[t])))
                                      + (Audit!Total(hand'[t]) + Audit!Total(entering'[t]))
    BY <1>1, <1>2, <1>6, <1>7, CarriedMoves DEF AuditInv
  <2>2. Audit!Total(hand[t]) = 0 /\ Audit!Total(entering[t]) = 0 /\ Audit!Total(entering'[t]) = 0
    BY <1>2, TotalFew
  <2> QED
    BY <1>4, <1>6, <2>1, <2>2
<1>10. RowsCounted'
  <2>1. recorded = kept + missed + suppressed + Cardinality(Audit!Carried) + Audit!Total(queue) + Audit!Total(writing)
    BY DEF AuditInv, RowsCounted
  <2>2. Audit!Total(queue) \in Nat /\ Audit!Total(writing) \in Nat
    BY <1>1, SeqTotal DEF AuditTypes
  <2>3. suppressed' + Audit!Total(given) = suppressed + 1
    <3>1. suppressed \in Nat
      BY <1>1 DEF AuditTypes
    <3>2. /\ suppressed' = (IF ok THEN Audit!SuppressedThen ELSE Audit!SuppressedThen + 1)
          /\ Audit!SuppressedThen \in Nat /\ Audit!Total(given) \in Nat
          /\ Audit!Total(given) + Audit!SuppressedThen = suppressed + (IF ok THEN 1 ELSE 0)
      BY <1>2, <1>3, <1>4
    <3> HIDE DEF ok
    <3>3. CASE ok
      BY <3>1, <3>2, <3>3
    <3>4. CASE ~ok
      BY <3>1, <3>2, <3>4
    <3> QED
      BY <3>3, <3>4
  <2>4. kept \in Nat /\ missed \in Nat /\ suppressed \in Nat
    BY <1>1 DEF AuditTypes
  <2>5. Audit!Total(given) \in Nat /\ suppressed' \in Nat /\ Cardinality(Audit!Carried) \in Nat
    BY <1>4, <1>5, <1>9
  <2>6. recorded' = recorded + 1 /\ Cardinality(Audit!Carried') = Cardinality(Audit!Carried) + Audit!Total(given)
    BY <1>2, <1>9
  <2>7. recorded' = kept + missed + suppressed' + Cardinality(Audit!Carried') + Audit!Total(queue)
          + Audit!Total(writing)
    BY ONLY <2>1, <2>2, <2>3, <2>4, <2>5, <2>6
  <2> QED
    BY <1>2, <2>7 DEF RowsCounted
<1>11. QueueFits'
  BY <1>2, <1>5, <1>8 DEF AuditInv, QueueFits
<1> QED
  BY <1>7, <1>8, <1>9, <1>10, <1>11 DEF AuditInv

LEMMA SubmitStep == ASSUME AuditInv, NEW t \in Threads, Audit!Submit(t) PROVE AuditInv'
<1>1. AuditTypes /\ hand[t] \in Seq(Nat) /\ hand[t] # <<>> /\ entering[t] = <<>>
  BY DEF AuditInv, AuditTypes, Audit!Submit
<1> DEFINE x == Head(hand[t])
<1>2. x \in Nat /\ Tail(hand[t]) \in Seq(Nat) /\ Audit!Total(hand[t]) = x + Audit!Total(Tail(hand[t]))
        /\ Audit!Total(Tail(hand[t])) \in Nat
  BY <1>1, TotalTail
<1>3. /\ hand' = [hand EXCEPT ![t] = Tail(@)] /\ UNCHANGED <<rows, suppressed, queue, writing, kept, recorded>>
      /\ \/ Audit!Full /\ missed' = missed + x /\ UNCHANGED <<pending, entering>>
         \/ ~Audit!Full /\ pending' = pending + 1 /\ entering' = [entering EXCEPT ![t] = <<x>>] /\ UNCHANGED missed
  BY Zenon DEF Audit!Submit
<1> HIDE DEF x
<1>4. hand' \in [Threads -> Seq(Nat)] /\ hand'[t] = Tail(hand[t]) /\ \A u \in Threads : u # t => hand'[u] = hand[u]
  BY <1>1, <1>2, <1>3 DEF AuditTypes
<1>5. <<x>> \in Seq(Nat) /\ Audit!Total(<<x>>) = x /\ Len(<<x>>) = 1 /\ <<x>> # <<>> /\ Audit!Total(<<>>) = 0
  BY <1>2, TotalFew
<1>6. /\ \A u \in Threads : u # t => entering'[u] = entering[u]
      /\ entering' \in [Threads -> Seq(Nat)] /\ \A u \in Threads : Len(entering'[u]) <= 1
  <2>1. entering \in [Threads -> Seq(Nat)] /\ \A u \in Threads : Len(entering[u]) <= 1
    BY <1>1 DEF AuditTypes
  <2>2. CASE entering' = entering
    BY <2>1, <2>2
  <2>3. CASE entering' = [entering EXCEPT ![t] = <<x>>]
    <3>1. PICK y \in Seq(Nat) : y = <<x>> /\ Len(y) = 1
      BY <1>5
    <3>2. entering' = [entering EXCEPT ![t] = y]
      BY <2>3, <3>1
    <3>3. entering' \in [Threads -> Seq(Nat)]
      BY ONLY <2>1, <3>1, <3>2
    <3>4. \A u \in Threads : entering'[u] = IF u = t THEN y ELSE entering[u]
      BY ONLY <2>1, <3>2
    <3>5. \A u \in Threads : u # t => entering'[u] = entering[u]
      BY <3>4
    <3>6. ASSUME NEW u \in Threads PROVE Len(entering'[u]) <= 1
      <4>1. CASE u = t
        <5>1. entering'[u] = y
          BY <3>4, <4>1
        <5> QED
          BY <3>1, <5>1
      <4>2. CASE u # t
        BY <2>1, <3>5, <4>2
      <4> QED
        BY <4>1, <4>2
    <3> QED
      BY <3>3, <3>5, <3>6
  <2> QED
    BY <1>3, <2>2, <2>3
<1>7. pending' \in Nat /\ missed' \in Nat
  <2>1. pending \in Nat /\ missed \in Nat
    BY <1>1 DEF AuditTypes
  <2>2. pending' = pending \/ pending' = pending + 1
    BY <1>3
  <2>3. missed' = missed \/ missed' = missed + x
    BY <1>3
  <2> QED
    BY <1>2, <2>1, <2>2, <2>3
<1>8. AuditTypes'
  BY <1>1, <1>3, <1>4, <1>6, <1>7 DEF AuditTypes
<1>9. /\ IsFiniteSet(Audit!Carried') /\ Cardinality(Audit!Carried) \in Nat
      /\ Cardinality(Audit!Carried') = (Cardinality(Audit!Carried) - (Audit!Total(hand[t]) + Audit!Total(entering[t])))
                                    + (Audit!Total(hand'[t]) + Audit!Total(entering'[t]))
  BY <1>1, <1>4, <1>6, <1>8, CarriedMoves DEF AuditInv
<1>10. /\ IsFiniteSet(Audit!Held(entering)') /\ Cardinality(Audit!Held(entering)) \in Nat
       /\ Cardinality(Audit!Held(entering)') = Cardinality(Audit!Held(entering))
            + (IF entering[t] = <<>> /\ entering'[t] # <<>> THEN 1 ELSE 0)
            - (IF entering[t] # <<>> /\ entering'[t] = <<>> THEN 1 ELSE 0)
  BY <1>1, <1>6, <1>8, HeldMoves DEF AuditInv
<1>11. Audit!Total(queue) \in Nat /\ Audit!Total(writing) \in Nat /\ kept \in Nat /\ missed \in Nat
         /\ suppressed \in Nat
  BY <1>1, SeqTotal DEF AuditTypes
<1>12. recorded = kept + missed + suppressed + Cardinality(Audit!Carried) + Audit!Total(queue) + Audit!Total(writing)
  BY DEF AuditInv, RowsCounted
<1>13. /\ pending <= QueueMax /\ pending = Len(queue) + Len(writing) + Cardinality(Audit!Held(entering))
       /\ Len(queue) \in Nat /\ Len(writing) \in Nat /\ pending \in Nat /\ QueueMax \in Nat
  BY <1>1, AuditAssumption DEF AuditInv, QueueFits, AuditTypes
<1>14. CASE Audit!Full /\ missed' = missed + x /\ UNCHANGED <<pending, entering>>
  <2>1. Audit!Total(entering[t]) = 0 /\ Audit!Total(entering'[t]) = 0 /\ Cardinality(Audit!Held(entering)')
          = Cardinality(Audit!Held(entering))
    BY <1>1, <1>5, <1>10, <1>14
  <2>2. Cardinality(Audit!Carried') = Cardinality(Audit!Carried) - x
    BY <1>2, <1>4, <1>9, <2>1
  <2>3. recorded' = kept' + missed' + suppressed' + Cardinality(Audit!Carried') + Audit!Total(queue')
          + Audit!Total(writing')
    BY <1>2, <1>3, <1>9, <1>11, <1>12, <1>14, <2>2
  <2>4. QueueFits'
    BY <1>3, <1>14, <2>1 DEF AuditInv, QueueFits
  <2> QED
    BY <1>8, <1>9, <1>10, <2>3, <2>4 DEF AuditInv, RowsCounted
<1>15. CASE ~Audit!Full /\ pending' = pending + 1 /\ entering' = [entering EXCEPT ![t] = <<x>>] /\ UNCHANGED missed
  <2>1. entering'[t] = <<x>>
    BY <1>1, <1>15 DEF AuditTypes
  <2>2. /\ Audit!Total(entering[t]) = 0 /\ Audit!Total(entering'[t]) = x
        /\ Cardinality(Audit!Held(entering)') = Cardinality(Audit!Held(entering)) + 1
    BY <1>1, <1>5, <1>10, <2>1
  <2>3. Cardinality(Audit!Carried') = Cardinality(Audit!Carried)
    BY <1>2, <1>4, <1>9, <2>2
  <2>4. recorded' = kept' + missed' + suppressed' + Cardinality(Audit!Carried') + Audit!Total(queue')
          + Audit!Total(writing')
    BY <1>3, <1>12, <1>15, <2>3
  <2>5. pending' <= QueueMax /\ pending' = Len(queue') + Len(writing') + Cardinality(Audit!Held(entering)')
    BY <1>3, <1>10, <1>13, <1>15, <2>2 DEF Audit!Full
  <2>6. QueueFits'
    BY <1>3, <2>5 DEF AuditInv, QueueFits
  <2> QED
    BY <1>8, <1>9, <1>10, <2>4, <2>6 DEF AuditInv, RowsCounted
<1> QED
  BY <1>3, <1>14, <1>15

LEMMA EnqueueStep == ASSUME AuditInv, NEW t \in Threads, Audit!Enqueue(t) PROVE AuditInv'
<1> DEFINE x == Head(entering[t])
<1>1. /\ AuditTypes /\ entering[t] \in Seq(Nat) /\ Len(entering[t]) <= 1 /\ entering[t] # <<>>
      /\ queue' = Append(queue, x) /\ entering' = [entering EXCEPT ![t] = <<>>]
      /\ UNCHANGED <<pending, rows, suppressed, hand, writing, kept, missed, recorded>>
  BY DEF AuditInv, AuditTypes, Audit!Enqueue
<1>2. x \in Nat /\ Audit!Total(entering[t]) = x
  BY <1>1, TotalOne
<1> HIDE DEF x
<1>3. queue' \in Seq(Nat) /\ Len(queue') = Len(queue) + 1 /\ Audit!Total(queue) \in Nat /\ Audit!Total(queue')
        = Audit!Total(queue) + x
  <2>1. queue \in Seq(Nat)
    BY <1>1 DEF AuditTypes
  <2>2. Audit!Total(queue) \in Nat /\ Audit!Total(Append(queue, x)) = Audit!Total(queue) + x
    BY <1>2, <2>1, TotalAppend
  <2> QED
    BY <1>1, <1>2, <2>1, <2>2
<1>4. <<>> \in Seq(Nat) /\ Len(<<>>) = 0 /\ Audit!Total(<<>>) = 0
  BY TotalFew
<1>5. /\ entering'[t] = <<>> /\ \A u \in Threads : u # t => entering'[u] = entering[u]
      /\ entering' \in [Threads -> Seq(Nat)] /\ \A u \in Threads : Len(entering'[u]) <= 1
  BY <1>1, <1>4 DEF AuditTypes
<1>6. AuditTypes'
  BY <1>1, <1>3, <1>5 DEF AuditTypes
<1>7. /\ IsFiniteSet(Audit!Carried') /\ Cardinality(Audit!Carried) \in Nat
      /\ Cardinality(Audit!Carried') = (Cardinality(Audit!Carried) - (Audit!Total(hand[t]) + Audit!Total(entering[t])))
                                    + (Audit!Total(hand'[t]) + Audit!Total(entering'[t]))
  BY <1>1, <1>5, <1>6, CarriedMoves DEF AuditInv
<1>8. /\ IsFiniteSet(Audit!Held(entering)') /\ Cardinality(Audit!Held(entering)) \in Nat
      /\ Cardinality(Audit!Held(entering)') = Cardinality(Audit!Held(entering)) - 1
  <2>1. /\ IsFiniteSet(Audit!Held(entering)') /\ Cardinality(Audit!Held(entering)) \in Nat
        /\ Cardinality(Audit!Held(entering)') = Cardinality(Audit!Held(entering))
             + (IF entering[t] = <<>> /\ entering'[t] # <<>> THEN 1 ELSE 0)
             - (IF entering[t] # <<>> /\ entering'[t] = <<>> THEN 1 ELSE 0)
    BY <1>1, <1>5, <1>6, HeldMoves DEF AuditInv
  <2> QED
    BY <1>1, <1>5, <2>1
<1>9. Cardinality(Audit!Carried') = Cardinality(Audit!Carried) - x
  <2>1. Audit!Total(hand[t]) \in Nat /\ hand' = hand
    BY <1>1, SeqTotal DEF AuditTypes
  <2> QED
    BY <1>2, <1>4, <1>5, <1>7, <2>1
<1>10. RowsCounted'
  <2>1. recorded = kept + missed + suppressed + Cardinality(Audit!Carried) + Audit!Total(queue) + Audit!Total(writing)
    BY DEF AuditInv, RowsCounted
  <2>2. Audit!Total(writing) \in Nat /\ kept \in Nat /\ missed \in Nat /\ suppressed \in Nat
    BY <1>1, SeqTotal DEF AuditTypes
  <2>3. recorded' = kept' + missed' + suppressed' + Cardinality(Audit!Carried') + Audit!Total(queue')
          + Audit!Total(writing')
    BY <1>1, <1>2, <1>3, <1>7, <1>9, <2>1, <2>2
  <2> QED
    BY <2>3 DEF RowsCounted
<1>11. QueueFits'
  <2>1. /\ pending <= QueueMax /\ pending = Len(queue) + Len(writing) + Cardinality(Audit!Held(entering))
        /\ Len(queue) \in Nat /\ Len(writing) \in Nat
    BY <1>1 DEF AuditInv, QueueFits, AuditTypes
  <2>2. pending' <= QueueMax /\ pending' = Len(queue') + Len(writing') + Cardinality(Audit!Held(entering)')
    BY <1>1, <1>3, <1>8, <2>1
  <2> QED
    BY <1>1, <2>2 DEF AuditInv, QueueFits
<1> QED
  BY <1>6, <1>7, <1>8, <1>10, <1>11 DEF AuditInv

\* The writer takes the first row and drops it when it is through with it.
LEMMA WriterStep == ASSUME AuditInv, Audit!Take \/ \E ok \in BOOLEAN : Audit!Written(ok) PROVE AuditInv'
<1>1. AuditTypes /\ queue \in Seq(Nat) /\ writing \in Seq(Nat) /\ Len(writing) <= 1
  BY DEF AuditInv, AuditTypes
<1>2. UNCHANGED <<rows, suppressed, hand, entering, recorded>>
  BY DEF Audit!Take, Audit!Written
<1>3. Audit!Carried' = Audit!Carried /\ Audit!Held(entering)' = Audit!Held(entering)
  BY <1>2 DEF Audit!Carried, Audit!Carries, Audit!Held
<1>4. /\ recorded = kept + missed + suppressed + Cardinality(Audit!Carried) + Audit!Total(queue) + Audit!Total(writing)
      /\ kept \in Nat /\ missed \in Nat /\ suppressed \in Nat /\ Cardinality(Audit!Carried) \in Nat
  BY <1>1, FS_CardinalityType DEF AuditInv, RowsCounted, AuditTypes
<1>5. /\ pending <= QueueMax /\ pending = Len(queue) + Len(writing) + Cardinality(Audit!Held(entering))
      /\ Len(queue) \in Nat /\ Len(writing) \in Nat /\ pending \in Nat /\ Cardinality(Audit!Held(entering)) \in Nat
      /\ QueueMax \in Nat
  BY <1>1, AuditAssumption, FS_CardinalityType DEF AuditInv, QueueFits, AuditTypes
<1>6. <<>> \in Seq(Nat) /\ Len(<<>>) = 0 /\ Audit!Total(<<>>) = 0
  BY TotalFew
<1>7. CASE Audit!Take
  <2>1. /\ writing = <<>> /\ queue # <<>> /\ writing' = <<Head(queue)>> /\ queue' = Tail(queue)
        /\ UNCHANGED <<pending, kept, missed>>
    BY <1>7 DEF Audit!Take
  <2>2. /\ Head(queue) \in Nat /\ queue' \in Seq(Nat) /\ Len(queue') = Len(queue) - 1
        /\ Audit!Total(queue) = Head(queue) + Audit!Total(queue') /\ Audit!Total(queue') \in Nat
    BY <1>1, <2>1, TotalTail
  <2>3. writing' \in Seq(Nat) /\ Len(writing') = 1 /\ Audit!Total(writing') = Head(queue)
    BY <2>1, <2>2, TotalFew
  <2>4. AuditTypes'
    BY <1>1, <1>2, <2>1, <2>2, <2>3 DEF AuditTypes
  <2>5. Len(writing) = 0 /\ Audit!Total(writing) = 0
    BY <1>6, <2>1
  <2>6. recorded' = kept' + missed' + suppressed' + Cardinality(Audit!Carried') + Audit!Total(queue')
          + Audit!Total(writing')
    BY <1>2, <1>3, <1>4, <2>1, <2>2, <2>3, <2>5
  <2>7. pending' <= QueueMax /\ pending' = Len(queue') + Len(writing') + Cardinality(Audit!Held(entering)')
    BY <1>3, <1>5, <2>1, <2>2, <2>3, <2>5
  <2> QED
    BY <1>2, <1>3, <2>4, <2>6, <2>7 DEF AuditInv, RowsCounted, QueueFits
<1>8. ASSUME NEW ok \in BOOLEAN, Audit!Written(ok) PROVE AuditInv'
  <2>1. /\ writing # <<>> /\ writing' = <<>> /\ pending' = pending - 1 /\ UNCHANGED queue
        /\ \/ kept' = kept + Head(writing) /\ UNCHANGED missed
           \/ missed' = missed + Head(writing) /\ UNCHANGED kept
    BY <1>8 DEF Audit!Written
  <2>2. Len(writing) = 1 /\ Head(writing) \in Nat /\ Audit!Total(writing) = Head(writing)
    BY <1>1, <2>1, TotalOne
  <2>3. pending' \in Nat /\ kept' \in Nat /\ missed' \in Nat
    <3>1. pending - 1 \in Nat
      BY <1>5, <2>2
    <3>2. kept' \in Nat /\ missed' \in Nat
      BY <1>4, <2>1, <2>2
    <3> QED
      BY <2>1, <3>1, <3>2
  <2>4. AuditTypes'
    BY <1>1, <1>2, <1>6, <2>1, <2>3 DEF AuditTypes
  <2>5. Audit!Total(queue) \in Nat
    BY <1>1, SeqTotal
  <2>6. recorded' = kept' + missed' + suppressed' + Cardinality(Audit!Carried') + Audit!Total(queue')
          + Audit!Total(writing')
    BY <1>2, <1>3, <1>4, <1>6, <2>1, <2>2, <2>5, SMTT(30)
  <2>7. pending' <= QueueMax /\ pending' = Len(queue') + Len(writing') + Cardinality(Audit!Held(entering)')
    BY <1>3, <1>5, <1>6, <2>1, <2>2
  <2> QED
    BY <1>2, <1>3, <2>4, <2>6, <2>7 DEF AuditInv, RowsCounted, QueueFits
<1> QED
  BY <1>7, <1>8

LEMMA AuditStays == ASSUME AuditInv, Audit!MinuteEnds \/ UNCHANGED auditVars PROVE AuditInv'
<1>1. UNCHANGED <<pending, rows, suppressed, hand, entering, queue, writing, kept, missed, recorded>>
  BY DEF Audit!MinuteEnds, auditVars
<1>2. Audit!Carried' = Audit!Carried /\ Audit!Held(entering)' = Audit!Held(entering) /\ Audit!Total(queue)'
        = Audit!Total(queue) /\ Audit!Total(writing)' = Audit!Total(writing)
  BY <1>1 DEF Audit!Carried, Audit!Carries, Audit!Held
<1> QED
  BY <1>1, <1>2 DEF AuditInv, AuditTypes, RowsCounted, QueueFits

LEMMA AuditStep == ASSUME AuditInv, [Audit!Next]_auditVars PROVE AuditInv'
BY RecordStep, SubmitStep, EnqueueStep, WriterStep, AuditStays DEF Audit!Next

\* Every row that was recorded is in the log, on its way there, counted towards a summary or
\* was missed, none twice, and the rows before the writer stay within the queue's limit: for
\* any threads, caps and limits (audit.py).
THEOREM AuditIsCompleteAlways == OutsideSpec => []AuditIsComplete
<1> DEFINE Inv0 == focus = "audit" => AuditInv
<1>1. OutsideInit => Inv0
  BY AuditStarts DEF OutsideInit
<1>2. Inv0 /\ [OutsideNext]_outsideVars => Inv0'
  <2> SUFFICES ASSUME Inv0, [OutsideNext]_outsideVars, focus' = "audit" PROVE AuditInv'
    OBVIOUS
  <2>1. focus = "audit" /\ [Audit!Next]_auditVars
    BY DEF OutsideNext, outsideVars, auditVars
  <2> QED
    BY <2>1, AuditStep
<1>3. Inv0 => AuditIsComplete
  <2>1. \A S : Audit!Cardinality(S) = Cardinality(S)
    BY DEF Audit!Cardinality, Cardinality
  <2> QED
    BY <2>1 DEF AuditIsComplete, AuditInv, RowsCounted, QueueFits, Audit!EveryRowCounted, Audit!QueueBounded
<1> HIDE DEF Inv0
<1> QED
  BY <1>1, <1>2, <1>3, PTL DEF OutsideSpec

-----------------------------------------------------------------------------
\* The function that Those defines by recursion has the values its equations ask for.
OnePass(u, q, S, m, E) ==
  /\ u \in [0..m -> Seq(E)] /\ u[0] = <<>>
  /\ \A n \in 1..m : u[n] = IF q[n] \in S THEN Append(u[n - 1], q[n]) ELSE u[n - 1]
LEMMA ThoseLoop ==
  ASSUME NEW E, NEW q \in Seq(E), NEW S, NEW m \in Nat, m = Len(q)
  PROVE  \E u : OnePass(u, q, S, m, E) /\ Limits!Those(q, S) = u[m]
<1> DEFINE g == [n \in 1..m |-> [x \in Seq(E) |-> IF q[n] \in S THEN Append(x, q[n]) ELSE x]]
           After(f) == [n \in 0..m |-> IF n = 0 THEN <<>> ELSE IF q[n] \in S THEN Append(f[n - 1], q[n]) ELSE f[n - 1]]
           u == CHOOSE f : f = After(f)
<1>1. \A n \in 1..m : q[n] \in E /\ n - 1 \in 0..m /\ n \in 0..m /\ n # 0
  OBVIOUS
<1>2. g \in [1..m -> [Seq(E) -> Seq(E)]]
  <2>1. \A n \in 1..m : \A x \in Seq(E) : Append(x, q[n]) \in Seq(E)
    BY <1>1, AppendProperties
  <2> QED
    BY <2>1
<1>3. \E f \in [0..m -> Seq(E)] : f[0] = <<>> /\ \A n \in 1..m : f[n] = g[n][f[n - 1]]
  <2>1. PICK B, z, h : B = Seq(E) /\ z = <<>> /\ h = g
    OBVIOUS
  <2>2. h \in [1..m -> [B -> B]]
    BY <1>2, <2>1
  <2>3. z \in B
    BY <2>1, EmptySeq
  <2> HIDE DEF g
  <2>4. \E f \in [0..m -> B] : f[0] = z /\ \A n \in 1..m : f[n] = h[n][f[n - 1]]
    BY ONLY <2>2, <2>3, Recursion, m \in Nat, SMTT(60)
  <2> QED
    BY <2>1, <2>4
<1>4. PICK f \in [0..m -> Seq(E)] :
        f[0] = <<>> /\ \A n \in 1..m : f[n] = IF q[n] \in S THEN Append(f[n - 1], q[n]) ELSE f[n - 1]
  <2>1. PICK f \in [0..m -> Seq(E)] : f[0] = <<>> /\ \A n \in 1..m : f[n] = g[n][f[n - 1]]
    BY <1>3
  <2>2. \A n \in 1..m : f[n - 1] \in Seq(E)
    BY <1>1
  <2>3. \A n \in 1..m : g[n][f[n - 1]] = IF q[n] \in S THEN Append(f[n - 1], q[n]) ELSE f[n - 1]
    BY <2>2
  <2> HIDE DEF g
  <2> QED
    BY <2>1, <2>3
<1>5. f = After(f)
  <2>1. \A n \in 0..m : f[n] = After(f)[n]
    <3>1. \A n \in 0..m : n = 0 \/ n \in 1..m
      OBVIOUS
    <3> QED
      BY <1>4, <3>1
  <2>2. f = [n \in 0..m |-> f[n]] /\ After(f) = [n \in 0..m |-> After(f)[n]]
    OBVIOUS
  <2> HIDE DEF After
  <2> QED
    BY <2>1, <2>2
<1>6. u = After(u)
  <2> HIDE DEF After
  <2> QED
    BY <1>5
<1>7. Limits!Those(q, S) = u[m]
  BY Zenon DEF Limits!Those
<1> HIDE DEF u
<1>8. u[0] = <<>> /\ \A n \in 1..m : u[n] = IF q[n] \in S THEN Append(u[n - 1], q[n]) ELSE u[n - 1]
  <2>1. \A n \in 0..m : u[n] = After(u)[n]
    BY <1>6
  <2>2. After(u)[0] = <<>>
    OBVIOUS
  <2>3. \A n \in 1..m : After(u)[n] = IF q[n] \in S THEN Append(u[n - 1], q[n]) ELSE u[n - 1]
    BY <1>1
  <2>4. 0 \in 0..m
    OBVIOUS
  <2> HIDE DEF After
  <2> QED
    BY <1>1, <2>1, <2>2, <2>3, <2>4
<1>9. \A n \in 0..m : u[n] \in Seq(E)
  <2> DEFINE T == {n \in 0..m : u[n] \in Seq(E)}
  <2>1. 0 \in T
    <3>1. <<>> \in Seq(E) /\ 0 \in 0..m
      BY EmptySeq
    <3> QED
      BY <1>8, <3>1
  <2>2. \A n \in 0..(m - 1) : n \in T => n + 1 \in T
    <3> SUFFICES ASSUME NEW n \in 0..(m - 1), u[n] \in Seq(E) PROVE n + 1 \in 0..m /\ u[n + 1] \in Seq(E)
      OBVIOUS
    <3>1. n + 1 \in 1..m /\ (n + 1) - 1 = n
      OBVIOUS
    <3>2. Append(u[n], q[n + 1]) \in Seq(E)
      BY <1>1, <3>1, AppendProperties
    <3> QED
      BY <1>1, <1>8, <3>1, <3>2
  <2>3. \A n \in 0..m : n \in T
    <3> HIDE DEF T
    <3> QED
      BY <2>1, <2>2, UpTo
  <2> QED
    BY <2>3
<1>10. u \in [0..m -> Seq(E)]
  <2>1. \E k : u = [n \in 0..m |-> k[n]]
    <3>1. u = [n \in 0..m |-> After(u)[n]]
      BY <1>6
    <3> HIDE DEF After
    <3> QED
      BY <3>1
  <2> QED
    BY <1>9, <2>1
<1> QED
  BY <1>7, <1>8, <1>10 DEF OnePass


LEMMA NoneAtFirst == Limits!Members(<<>>) = {} /\ Len(<<>>) = 0
BY EmptySeq DEF Limits!Members

LEMMA OneMore ==
  ASSUME NEW E, NEW q \in Seq(E), NEW x \in E
  PROVE  /\ Append(q, x) \in Seq(E) /\ Len(Append(q, x)) = Len(q) + 1 /\ Append(q, x)[Len(q) + 1] = x
         /\ Limits!Members(Append(q, x)) = Limits!Members(q) \cup {x} /\ \A i \in 1..Len(q) : Append(q, x)[i] = q[i]
<1>1. PICK k \in Nat : k = Len(q)
  OBVIOUS
<1>2. PICK p \in Seq(E) : p = Append(q, x)
  BY AppendProperties
<1>3. Len(p) = k + 1 /\ p[k + 1] = x /\ \A i \in 1..k : p[i] = q[i]
  BY <1>1, <1>2
<1>4. Limits!Members(p) = Limits!Members(q) \cup {x}
  <2>1. \A y : y \in Limits!Members(p) <=> \E i \in 1..(k + 1) : y = p[i]
    BY <1>3 DEF Limits!Members
  <2>2. \A y : y \in Limits!Members(q) <=> \E i \in 1..k : y = q[i]
    BY <1>1 DEF Limits!Members
  <2>3. \A i : i \in 1..(k + 1) <=> i \in 1..k \/ i = k + 1
    OBVIOUS
  <2> QED
    BY <1>3, <2>1, <2>2, <2>3
<1> QED
  BY <1>1, <1>2, <1>3, <1>4

\* Any two members, in their order, are related.
Ordered(q, R) == \A i, j \in 1..Len(q) : i < j => <<q[i], q[j]>> \in R

LEMMA OrderedOneMore ==
  ASSUME NEW E, NEW q \in Seq(E), NEW x \in E, NEW R, Ordered(q, R), \A y \in Limits!Members(q) : <<y, x>> \in R
  PROVE  Ordered(Append(q, x), R)
<1>1. PICK k \in Nat : k = Len(q)
  OBVIOUS
<1>2. PICK p \in Seq(E) : p = Append(q, x)
  BY AppendProperties
<1>3. Len(p) = k + 1 /\ p[k + 1] = x /\ \A i \in 1..k : p[i] = q[i]
  BY <1>1, <1>2
<1> SUFFICES ASSUME NEW i \in 1..(k + 1), NEW j \in 1..(k + 1), i < j PROVE <<p[i], p[j]>> \in R
  BY <1>2, <1>3 DEF Ordered
<1>4. i \in 1..k
  OBVIOUS
<1>5. CASE j = k + 1
  BY <1>1, <1>3, <1>4, <1>5 DEF Limits!Members
<1>6. CASE j # k + 1
  <2>1. j \in 1..k
    BY <1>6
  <2> QED
    BY <1>1, <1>3, <1>4, <2>1 DEF Ordered
<1> QED
  BY <1>5, <1>6

LEMMA ThoseOnly ==
  ASSUME NEW E, NEW q \in Seq(E), NEW S
  PROVE  /\ Limits!Those(q, S) \in Seq(E) /\ Limits!Members(Limits!Those(q, S)) = Limits!Members(q) \cap S
              /\ Len(Limits!Those(q, S)) <= Len(q)
         /\ \A R : Ordered(q, R) => Ordered(Limits!Those(q, S), R)
<1>1. PICK m \in Nat : m = Len(q)
  OBVIOUS
<1>2. PICK u : OnePass(u, q, S, m, E) /\ Limits!Those(q, S) = u[m]
  BY <1>1, ThoseLoop
<1>3. u \in [0..m -> Seq(E)] /\ u[0] = <<>>
  BY <1>2 DEF OnePass
<1> DEFINE Before(n) == {q[i] : i \in 1..n} \cap S
           Good(n) == Limits!Members(u[n]) = Before(n) /\ Len(u[n]) <= n /\ \A R : Ordered(q, R) => Ordered(u[n], R)
           T == {n \in 0..m : Good(n)}
<1>4. 0 \in T
  <2>1. Limits!Members(u[0]) = {} /\ Len(u[0]) = 0
    BY Zenon, <1>3, NoneAtFirst
  <2>2. \A R : Ordered(u[0], R)
    BY <2>1 DEF Ordered
  <2> QED
    BY <2>1, <2>2
<1>5. ASSUME NEW n \in 0..(m - 1), Good(n) PROVE Good(n + 1)
  <2>1. n + 1 \in 1..m /\ (n + 1) - 1 = n /\ n \in 0..m
    OBVIOUS
  <2>2. u[n] \in Seq(E) /\ q[n + 1] \in E
    BY <1>1, <1>3, <2>1
  <2>3. {q[i] : i \in 1..(n + 1)} = {q[i] : i \in 1..n} \cup {q[n + 1]}
    <3>1. \A i : i \in 1..(n + 1) <=> i \in 1..n \/ i = n + 1
      OBVIOUS
    <3> QED
      BY <3>1
  <2>4. CASE q[n + 1] \in S
    <3>1. u[n + 1] = Append(u[n], q[n + 1])
      BY <1>2, <2>1, <2>4 DEF OnePass
    <3>2. Limits!Members(u[n + 1]) = Limits!Members(u[n]) \cup {q[n + 1]} /\ Len(u[n + 1]) = Len(u[n]) + 1
      BY <2>2, <3>1, OneMore
    <3>3. ASSUME NEW R, Ordered(q, R) PROVE Ordered(u[n + 1], R)
      <4>1. \A i \in 1..n : i \in 1..Len(q) /\ n + 1 \in 1..Len(q) /\ i < n + 1
        BY <1>1, <2>1
      <4>2. \A y \in Limits!Members(u[n]) : <<y, q[n + 1]>> \in R
        BY <1>5, <3>3, <4>1 DEF Ordered
      <4>3. Ordered(u[n], R)
        BY <1>5, <3>3
      <4> QED
        BY <2>2, <3>1, <4>2, <4>3, OrderedOneMore
    <3>4. Limits!Members(u[n + 1]) = Before(n + 1)
      BY <1>5, <2>3, <2>4, <3>2
    <3>5. Len(u[n + 1]) <= n + 1
      BY <1>5, <2>2, <3>2
    <3> QED
      BY <3>3, <3>4, <3>5
  <2>5. CASE q[n + 1] \notin S
    <3>1. u[n + 1] = u[n]
      BY <1>2, <2>1, <2>5 DEF OnePass
    <3>2. Limits!Members(u[n + 1]) = Before(n + 1)
      BY <1>5, <2>3, <2>5, <3>1
    <3>3. Len(u[n + 1]) <= n + 1
      BY <1>5, <2>2, <3>1
    <3> QED
      BY <1>5, <3>1, <3>2, <3>3
  <2> QED
    BY <2>4, <2>5
<1>6. \A n \in 0..m : n \in T
  <2>1. \A n \in 0..(m - 1) : n \in T => n + 1 \in T
    <3> HIDE DEF Good
    <3> QED
      BY <1>5
  <2> HIDE DEF T
  <2> QED
    BY <1>4, <2>1, UpTo
<1>7. Good(m)
  <2>1. m \in 0..m
    OBVIOUS
  <2> HIDE DEF Good
  <2>2. m \in {n \in 0..m : Good(n)}
    BY <1>6, <2>1
  <2> QED
    BY <2>2
<1>8. Before(m) = Limits!Members(q) \cap S
  BY <1>1 DEF Limits!Members
<1>9. u[m] \in Seq(E)
  BY <1>3, m \in 0..m
<1> HIDE DEF Before
<1> QED
  BY <1>1, <1>2, <1>7, <1>8, <1>9

\* One more element is selected or not, after the others.
LEMMA ThoseAppend ==
  ASSUME NEW E, NEW q \in Seq(E), NEW x \in E, NEW S
  PROVE  Limits!Those(Append(q, x), S) = IF x \in S THEN Append(Limits!Those(q, S), x) ELSE Limits!Those(q, S)
<1>1. PICK m \in Nat : m = Len(q)
  OBVIOUS
<1>2. PICK p \in Seq(E) : p = Append(q, x)
  BY AppendProperties
<1>3. Len(p) = m + 1 /\ p[m + 1] = x /\ \A i \in 1..m : p[i] = q[i]
  BY <1>1, <1>2
<1>4. PICK u : OnePass(u, q, S, m, E) /\ Limits!Those(q, S) = u[m]
  BY <1>1, ThoseLoop
<1>5. PICK w : OnePass(w, p, S, m + 1, E) /\ Limits!Those(p, S) = w[m + 1]
  BY <1>3, ThoseLoop, m + 1 \in Nat
<1>6. w[0] = u[0]
  BY <1>4, <1>5 DEF OnePass
<1>7. ASSUME NEW n \in 0..(m - 1), w[n] = u[n] PROVE w[n + 1] = u[n + 1]
  <2>1. n + 1 \in 1..m /\ n + 1 \in 1..(m + 1) /\ (n + 1) - 1 = n
    OBVIOUS
  <2> QED
    BY <1>3, <1>4, <1>5, <1>7, <2>1 DEF OnePass
<1>8. \A n \in 0..m : n \in {i \in 0..m : w[i] = u[i]}
  <2> DEFINE T == {i \in 0..m : w[i] = u[i]}
  <2>1. 0 \in T /\ \A n \in 0..(m - 1) : n \in T => n + 1 \in T
    BY <1>6, <1>7
  <2> HIDE DEF T
  <2>2. \A n \in 0..m : n \in T
    BY <2>1, UpTo
  <2> QED
    BY <2>2 DEF T
<1>9. w[m] = u[m]
  BY <1>8, m \in 0..m
<1>10. w[m + 1] = IF x \in S THEN Append(w[m], x) ELSE w[m]
  <2>1. m + 1 \in 1..(m + 1) /\ (m + 1) - 1 = m
    OBVIOUS
  <2> QED
    BY <1>3, <1>5, <2>1 DEF OnePass
<1> QED
  BY <1>2, <1>4, <1>5, <1>9, <1>10

LEMMA ThoseOfNone == ASSUME NEW S PROVE Limits!Those(<<>>, S) = <<>>
<1>1. PICK e \in Seq(Nat), m \in Nat : e = <<>> /\ m = Len(e) /\ m = 0
  BY EmptySeq, Len(<<>>) = 0
<1>2. PICK E : e \in Seq(E) /\ E = Nat
  OBVIOUS
<1>3. m = Len(e)
  BY <1>1
<1>4. PICK u : OnePass(u, e, S, m, E) /\ Limits!Those(e, S) = u[m]
  BY <1>2, <1>3, ThoseLoop
<1> QED
  BY <1>1, <1>4 DEF OnePass

\* What was selected for more is selected again.
LEMMA ThoseOfThose ==
  ASSUME NEW E, NEW q \in Seq(E), NEW S, NEW C, Limits!Members(q) \cap C \subseteq S
  PROVE  Limits!Those(Limits!Those(q, S), C) = Limits!Those(q, C)
<1>1. PICK m \in Nat : m = Len(q)
  OBVIOUS
<1>2. PICK u : OnePass(u, q, S, m, E) /\ Limits!Those(q, S) = u[m]
  BY <1>1, ThoseLoop
<1>3. PICK w : OnePass(w, q, C, m, E) /\ Limits!Those(q, C) = w[m]
  BY <1>1, ThoseLoop
<1>4. Limits!Those(u[0], C) = w[0]
  <2>1. u[0] = <<>> /\ w[0] = <<>>
    BY <1>2, <1>3 DEF OnePass
  <2> QED
    BY Zenon, <2>1, ThoseOfNone
<1>5. ASSUME NEW n \in 0..(m - 1), Limits!Those(u[n], C) = w[n] PROVE Limits!Those(u[n + 1], C) = w[n + 1]
  <2>1. n + 1 \in 1..m /\ (n + 1) - 1 = n /\ n \in 0..m
    OBVIOUS
  <2>2. u[n] \in Seq(E) /\ q[n + 1] \in E /\ q[n + 1] \in Limits!Members(q)
    BY <1>1, <1>2, <2>1 DEF OnePass, Limits!Members
  <2>3. w[n + 1] = IF q[n + 1] \in C THEN Append(w[n], q[n + 1]) ELSE w[n]
    BY <1>3, <2>1 DEF OnePass
  <2>4. CASE q[n + 1] \in S
    <3>1. u[n + 1] = Append(u[n], q[n + 1])
      BY <1>2, <2>1, <2>4 DEF OnePass
    <3>2. Limits!Those(Append(u[n], q[n + 1]), C)
            = IF q[n + 1] \in C THEN Append(Limits!Those(u[n], C), q[n + 1]) ELSE Limits!Those(u[n], C)
      <4>1. PICK p \in Seq(E), x \in E : p = u[n] /\ x = q[n + 1]
        BY <2>2
      <4>2. Limits!Those(Append(p, x), C) = IF x \in C THEN Append(Limits!Those(p, C), x) ELSE Limits!Those(p, C)
        BY ThoseAppend
      <4> QED
        BY <4>1, <4>2
    <3> QED
      BY <1>5, <2>3, <3>1, <3>2
  <2>5. CASE q[n + 1] \notin S
    <3>1. u[n + 1] = u[n]
      BY <1>2, <2>1, <2>5 DEF OnePass
    <3> QED
      BY <1>5, <2>2, <2>3, <2>5, <3>1
  <2> QED
    BY <2>4, <2>5
<1>6. Limits!Those(u[m], C) = w[m]
  <2> DEFINE T == {i \in 0..m : Limits!Those(u[i], C) = w[i]}
  <2>1. 0 \in T /\ \A n \in 0..(m - 1) : n \in T => n + 1 \in T
    BY <1>4, <1>5
  <2> HIDE DEF T
  <2>2. \A n \in 0..m : n \in T
    BY <2>1, UpTo
  <2>3. m \in T
    BY <2>2, m \in 0..m
  <2> QED
    BY <2>3 DEF T
<1> QED
  BY <1>2, <1>3, <1>6

-----------------------------------------------------------------------------
Named(N, V) == [name : N, val : V]
OtherName(E) == {p \in E \X E : p[1].name # p[2].name}

LEMMA DistinctIsOrdered ==
  ASSUME NEW E, NEW m \in Seq(E)
  PROVE  (\A i, j \in 1..Len(m) : m[i].name = m[j].name => i = j) <=> Ordered(m, OtherName(E))
<1>1. \A i \in 1..Len(m) : m[i] \in E
  OBVIOUS
<1>2. \A i, j \in 1..Len(m) : <<m[i], m[j]>> \in OtherName(E) <=> m[i].name # m[j].name
  BY <1>1 DEF OtherName
<1>3. ASSUME NEW i \in 1..Len(m), NEW j \in 1..Len(m), i # j PROVE i < j \/ j < i
  BY <1>3
<1>4. ASSUME NEW i \in 1..Len(m), NEW j \in 1..Len(m), i < j PROVE i # j
  BY <1>4
<1> QED
  BY <1>2, <1>3, <1>4 DEF Ordered

\* A name has one entry.
LEMMA OneEntry ==
  ASSUME NEW E, NEW m \in Seq(E), Limits!Distinct(m), NEW e \in Limits!Members(m)
  PROVE  /\ e.name \in Limits!Entered(m) /\ Limits!Get(m, e.name) = e.val
         /\ \A d \in Limits!Members(m) : d.name = e.name => d = e
<1>1. \A d \in Limits!Members(m) : d.name = e.name => d = e
  BY DEF Limits!Members, Limits!Distinct
<1>2. (CHOOSE d \in Limits!Members(m) : d.name = e.name) = e
  BY <1>1
<1> QED
  BY <1>1, <1>2 DEF Limits!Get, Limits!Entered

LEMMA EntryOf ==
  ASSUME NEW E, NEW m \in Seq(E), Limits!Distinct(m), NEW k \in Limits!Entered(m)
  PROVE  \E e \in Limits!Members(m) : e.name = k /\ e.val = Limits!Get(m, k)
<1>1. PICK e \in Limits!Members(m) : e.name = k
  BY DEF Limits!Entered
<1>2. Limits!Get(m, e.name) = e.val
  BY OneEntry
<1> QED
  BY <1>1, <1>2

LEMMA Thinned ==
  ASSUME NEW E, NEW m \in Seq(E), Limits!Distinct(m), MaxEntries \in Nat, NEW S
  PROVE  Limits!Those(m, S) \in Seq(E) /\ Limits!Distinct(Limits!Those(m, S))
           /\ Limits!Members(Limits!Those(m, S)) = Limits!Members(m) \cap S
<1>1. PICK p \in Seq(E) : p = Limits!Those(m, S) /\ Limits!Members(p) = Limits!Members(m) \cap S /\ Len(p) <= Len(m)
                          /\ (Ordered(m, OtherName(E)) => Ordered(p, OtherName(E)))
  BY ThoseOnly
<1>2. Len(p) <= MaxEntries
  BY <1>1 DEF Limits!Distinct
<1>3. \A i, j \in 1..Len(p) : p[i].name = p[j].name => i = j
  BY <1>1, DistinctIsOrdered DEF Limits!Distinct
<1> QED
  BY <1>1, <1>2, <1>3 DEF Limits!Distinct

LEMMA FirstAndRest ==
  ASSUME NEW E, NEW q \in Seq(E), Limits!Distinct(q), Len(q) # 0
  PROVE  /\ Head(q) \in Limits!Members(q) /\ Tail(q) \in Seq(E) /\ Len(Tail(q)) = Len(q) - 1
         /\ Limits!Members(Tail(q)) = {e \in Limits!Members(q) : e.name # Head(q).name}
         /\ \A i, j \in 1..Len(Tail(q)) : Tail(q)[i].name = Tail(q)[j].name => i = j
<1>1. PICK k \in Nat : Len(q) = k + 1
  BY Len(q) - 1 \in Nat
<1>2. q # <<>>
  BY EmptySeq
<1>3. PICK p \in Seq(E) : p = Tail(q)
  BY <1>2, HeadTailProperties
<1>4. Len(p) = k /\ (\A i \in 1..k : p[i] = q[i + 1]) /\ Head(q) = q[1]
  BY <1>1, <1>2, <1>3, HeadTailProperties
<1>5. 1 \in 1..Len(q) /\ \A i \in 1..k : i + 1 \in 1..Len(q) /\ i + 1 # 1
  BY <1>1
<1>6. \A i, j \in 1..Len(q) : q[i].name = q[j].name => i = j
  BY DEF Limits!Distinct
<1>7. \A i, j \in 1..k : p[i].name = p[j].name => i = j
  <2> SUFFICES ASSUME NEW i \in 1..k, NEW j \in 1..k, p[i].name = p[j].name PROVE i = j
    OBVIOUS
  <2>1. i + 1 = j + 1
    BY <1>4, <1>5, <1>6
  <2> QED
    BY <2>1
<1>8. Limits!Members(p) = {e \in Limits!Members(q) : e.name # q[1].name}
  <2>1. ASSUME NEW e \in Limits!Members(p) PROVE e \in Limits!Members(q) /\ e.name # q[1].name
    <3>1. PICK i \in 1..k : e = q[i + 1]
      BY <1>4 DEF Limits!Members
    <3>2. i + 1 \in 1..Len(q) /\ i + 1 # 1
      BY <1>5
    <3> QED
      BY <1>5, <1>6, <3>1, <3>2 DEF Limits!Members
  <2>2. ASSUME NEW e \in Limits!Members(q), e.name # q[1].name PROVE e \in Limits!Members(p)
    <3>1. PICK i \in 1..Len(q) : e = q[i]
      BY DEF Limits!Members
    <3>2. i - 1 \in 1..k /\ (i - 1) + 1 = i
      BY <1>1, <2>2, <3>1
    <3>3. p[i - 1] = e
      BY <1>4, <3>1, <3>2
    <3> QED
      BY <1>4, <3>2, <3>3 DEF Limits!Members
  <2> QED
    BY <2>1, <2>2
<1>9. q[1] \in Limits!Members(q)
  BY <1>5 DEF Limits!Members
<1> QED
  BY <1>1, <1>3, <1>4, <1>7, <1>8, <1>9

\* An entry is set in its place, or put behind the others, of which the first may have to go.
LEMMA SetIn ==
  ASSUME NEW N, NEW V, NEW m \in Seq(Named(N, V)), Limits!Distinct(m), NEW k \in Limits!Entered(m), NEW v \in V
  PROVE  /\ Limits!Set(m, k, v) \in Seq(Named(N, V)) /\ Limits!Distinct(Limits!Set(m, k, v))
         /\ Limits!Members(Limits!Set(m, k, v)) = {e \in Limits!Members(m) : e.name # k} \cup {Limits!Entry(k, v)}
<1>1. PICK n \in Nat : n = Len(m)
  OBVIOUS
<1>2. DOMAIN m = 1..n
  BY <1>1
<1>3. k \in N
  <2>1. \A i \in 1..Len(m) : m[i] \in Named(N, V)
    OBVIOUS
  <2>2. PICK i \in 1..Len(m) : m[i].name = k
    BY DEF Limits!Entered, Limits!Members
  <2> QED
    BY <2>1, <2>2 DEF Named
<1>4. Limits!Entry(k, v) \in Named(N, V) /\ Limits!Entry(k, v).name = k
  BY <1>3 DEF Limits!Entry, Named
<1> DEFINE p == [i \in 1..n |-> IF m[i].name = k THEN Limits!Entry(k, v) ELSE m[i]]
<1>5. \A i \in 1..n : m[i] \in Named(N, V)
  BY <1>1
<1>6. p \in [1..n -> Named(N, V)]
  BY <1>4, <1>5
<1>7. p \in Seq(Named(N, V)) /\ Len(p) = n
  BY <1>6
<1>8. Limits!Set(m, k, v) = p
  BY <1>2 DEF Limits!Set
<1>9. \A i \in 1..n : p[i].name = m[i].name /\ (m[i].name # k => p[i] = m[i])
        /\ (m[i].name = k => p[i] = Limits!Entry(k, v))
  BY <1>4
<1> HIDE DEF p
<1>10. Limits!Distinct(p)
  BY <1>1, <1>7, <1>9 DEF Limits!Distinct
<1>11. Limits!Members(p) = {e \in Limits!Members(m) : e.name # k} \cup {Limits!Entry(k, v)}
  <2>1. \A e : e \in Limits!Members(p) <=> \E i \in 1..n : e = p[i]
    BY <1>7 DEF Limits!Members
  <2>2. \A e : e \in Limits!Members(m) <=> \E i \in 1..n : e = m[i]
    BY <1>1 DEF Limits!Members
  <2>3. PICK j \in 1..n : m[j].name = k
    BY <2>2 DEF Limits!Entered
  <2>4. ASSUME NEW e \in Limits!Members(p) PROVE e = Limits!Entry(k, v) \/ (e \in Limits!Members(m) /\ e.name # k)
    BY <1>9, <2>1, <2>2
  <2>5. ASSUME NEW e \in Limits!Members(m), e.name # k PROVE e \in Limits!Members(p)
    BY <1>9, <2>1, <2>2, <2>5
  <2>6. Limits!Entry(k, v) \in Limits!Members(p)
    BY <1>9, <2>1, <2>3
  <2> QED
    BY <2>4, <2>5, <2>6
<1> QED
  BY <1>7, <1>8, <1>10, <1>11

LEMMA PutIn ==
  ASSUME NEW N, NEW V, NEW m \in Seq(Named(N, V)), Limits!Distinct(m), NEW k \in N, NEW v \in V, MaxEntries \in Nat \ {0}
  PROVE  /\ Limits!Put(m, k, v) \in Seq(Named(N, V)) /\ Limits!Distinct(Limits!Put(m, k, v))
              /\ k \notin Limits!Dropped(m, k)
         /\ Limits!Members(Limits!Put(m, k, v))
              = {e \in Limits!Members(m) : e.name # k /\ e.name \notin Limits!Dropped(m, k)} \cup {Limits!Entry(k, v)}
<1> DEFINE E == Named(N, V)
<1>1. Limits!Entry(k, v) \in E /\ Limits!Entry(k, v).name = k
  BY DEF Limits!Entry, Named
<1>2. CASE k \in Limits!Entered(m)
  <2>1. Limits!Put(m, k, v) = Limits!Set(m, k, v) /\ Limits!Dropped(m, k) = {}
    BY <1>2 DEF Limits!Put, Limits!Dropped, Limits!Drops
  <2> QED
    BY <1>2, <2>1, SetIn
<1>3. CASE k \notin Limits!Entered(m)
  <2>1. PICK p \in Seq(E) :
          /\ p = IF Limits!Drops(m, k) THEN Tail(m) ELSE m
          /\ Limits!Members(p) = {e \in Limits!Members(m) : e.name \notin Limits!Dropped(m, k)}
          /\ Len(p) < MaxEntries /\ k \notin Limits!Dropped(m, k)
          /\ \A i, j \in 1..Len(p) : p[i].name = p[j].name => i = j
    <3>0. Len(m) \in Nat /\ Len(m) <= MaxEntries
      BY DEF Limits!Distinct
    <3>1. CASE Limits!Drops(m, k)
      <4>1. Len(m) # 0
        BY <3>1 DEF Limits!Drops
      <4>2. /\ Head(m) \in Limits!Members(m) /\ Tail(m) \in Seq(E) /\ Len(Tail(m)) = Len(m) - 1
            /\ Limits!Members(Tail(m)) = {e \in Limits!Members(m) : e.name # Head(m).name}
            /\ \A i, j \in 1..Len(Tail(m)) : Tail(m)[i].name = Tail(m)[j].name => i = j
        BY <4>1, FirstAndRest
      <4>3. Limits!Dropped(m, k) = {Head(m).name}
        BY <3>1 DEF Limits!Dropped
      <4>4. k # Head(m).name
        BY <1>3, <4>2 DEF Limits!Entered
      <4>5. Len(Tail(m)) < MaxEntries
        BY <3>0, <4>1, <4>2
      <4> QED
        BY <3>1, <4>2, <4>3, <4>4, <4>5
    <3>2. CASE ~Limits!Drops(m, k)
      <4>1. Limits!Dropped(m, k) = {} /\ Len(m) < MaxEntries
        BY <1>3, <3>0, <3>2 DEF Limits!Dropped, Limits!Drops
      <4> QED
        BY <3>2, <4>1 DEF Limits!Distinct
    <3> QED
      BY <3>1, <3>2
  <2>2. Limits!Put(m, k, v) = Append(p, Limits!Entry(k, v))
    BY <1>3, <2>1 DEF Limits!Put
  <2>3. PICK n \in Nat : n = Len(p)
    OBVIOUS
  <2>4. PICK w \in Seq(E) : /\ w = Append(p, Limits!Entry(k, v)) /\ Len(w) = n + 1 /\ w[n + 1] = Limits!Entry(k, v)
                            /\ Limits!Members(w) = Limits!Members(p) \cup {Limits!Entry(k, v)}
                                 /\ \A i \in 1..n : w[i] = p[i]
    <3>1. PICK x \in E : x = Limits!Entry(k, v)
      BY <1>1
    <3> HIDE DEF E
    <3>2. PICK w : w = Append(p, x)
      OBVIOUS
    <3>3. w \in Seq(E) /\ Len(w) = Len(p) + 1 /\ w[Len(p) + 1] = x /\ Limits!Members(w) = Limits!Members(p) \cup {x}
          /\ \A i \in 1..Len(p) : w[i] = p[i]
      BY <3>2, OneMore
    <3> QED
      BY <2>3, <3>1, <3>2, <3>3
  <2>5. \A e \in Limits!Members(m) : e.name # k
    BY <1>3 DEF Limits!Entered
  <2>6. \A i \in 1..n : p[i].name # k
    <3>1. \A i \in 1..n : p[i] \in Limits!Members(p)
      BY <2>3 DEF Limits!Members
    <3> QED
      BY <2>1, <2>5, <3>1
  <2>7. \A i, j \in 1..(n + 1) : w[i].name = w[j].name => i = j
    <3> SUFFICES ASSUME NEW i \in 1..(n + 1), NEW j \in 1..(n + 1), w[i].name = w[j].name PROVE i = j
      OBVIOUS
    <3>1. i \in 1..n \/ i = n + 1
      OBVIOUS
    <3>2. j \in 1..n \/ j = n + 1
      OBVIOUS
    <3>3. \A x \in 1..n : w[x].name # w[n + 1].name
      BY <1>1, <2>4, <2>6
    <3>4. CASE i \in 1..n /\ j \in 1..n
      BY <2>1, <2>3, <2>4, <3>4
    <3> QED
      BY <3>1, <3>2, <3>3, <3>4
  <2>8. Len(w) <= MaxEntries
    BY <2>1, <2>3, <2>4
  <2>9. Limits!Distinct(w)
    BY <2>4, <2>7, <2>8 DEF Limits!Distinct
  <2> QED
    BY <2>1, <2>2, <2>4, <2>5, <2>9
<1> QED
  BY <1>2, <1>3

-----------------------------------------------------------------------------
Rising == {p \in Nat \X Nat : p[1] <= p[2]}
Past(t, n) == t \in Seq(Nat) /\ Ordered(t, Rising) /\ Limits!Members(t) \subseteq 0..n

\* The table m knows, of the times that L keeps by name, those that still count (W) at n.
TimesFit(m, L, W, n, N) ==
  /\ m \in Seq(Named(N, Seq(Nat))) /\ Limits!Distinct(m)
  /\ L \in [N -> Seq(Nat)] /\ \A k \in N : Limits!Members(L[k]) \subseteq 0..n
  /\ \A e \in Limits!Members(m) : e.name \in N /\ Past(e.val, n) /\ Limits!Those(L[e.name], W) = Limits!Those(e.val, W)
  /\ \A k \in N \ Limits!Entered(m) : Limits!Those(L[k], W) = <<>>

LEMMA NoMembers == ASSUME NEW E, NEW q \in Seq(E), Limits!Members(q) = {} PROVE q = <<>>
<1>1. Len(q) \in Nat /\ \A i \in 1..Len(q) : q[i] \in Limits!Members(q)
  BY DEF Limits!Members
<1>2. Len(q) = 0
  BY <1>1, 1 \in 1..Len(q) \/ Len(q) = 0
<1> QED
  BY <1>2, EmptySeq

\* If the last time does not count any more, none does.
LEMMA NothingCounts ==
  ASSUME NEW t, NEW n \in Nat, Past(t, n), NEW W, t = <<>> \/ \A x \in 0..n : x <= Limits!Last(t) => x \notin W
  PROVE  Limits!Those(t, W) = <<>>
<1>1. CASE t = <<>>
  BY Zenon, <1>1, ThoseOfNone
<1>2. CASE t # <<>>
  <2>1. PICK q \in Seq(Nat) : q = t /\ Ordered(q, Rising) /\ Limits!Members(q) \subseteq 0..n
    BY DEF Past
  <2>2. PICK k \in Nat : k = Len(q)
    OBVIOUS
  <2>3. k # 0
    BY <1>2, <2>1, <2>2, EmptySeq
  <2>4. ASSUME NEW x \in Limits!Members(q) PROVE x <= Limits!Last(q) /\ x \in 0..n
    <3>1. PICK i \in 1..k : x = q[i]
      BY <2>2 DEF Limits!Members
    <3>2. k \in 1..k /\ q[k] \in Nat /\ x \in Nat
      BY <2>2, <2>3, <3>1
    <3>3. CASE i = k
      BY <2>1, <2>2, <3>1, <3>2, <3>3 DEF Limits!Last
    <3>4. CASE i # k
      <4>1. i < k
        BY <3>4
      <4>2. <<q[i], q[k]>> \in Rising
        BY <2>1, <2>2, <3>2, <4>1 DEF Ordered
      <4> QED
        BY <2>1, <2>2, <3>1, <4>2 DEF Rising, Limits!Last
    <3> QED
      BY <3>3, <3>4
  <2>5. Limits!Members(q) \cap W = {}
    BY <1>2, <2>1, <2>4
  <2>6. PICK p \in Seq(Nat) : p = Limits!Those(q, W) /\ Limits!Members(p) = Limits!Members(q) \cap W
    BY ThoseOnly
  <2>7. p = <<>>
    BY <2>5, <2>6, NoMembers
  <2> QED
    BY <2>1, <2>6, <2>7
<1> QED
  BY <1>1, <1>2

LEMMA TimesSwept ==
  ASSUME NEW m, NEW L, NEW W, NEW n \in Nat, NEW N, TimesFit(m, L, W, n, N), MaxEntries \in Nat, NEW S,
         \A e \in Limits!Members(m) : e \notin S => Limits!Those(e.val, W) = <<>>
  PROVE  TimesFit(Limits!Those(m, S), L, W, n, N)
<1>1. m \in Seq(Named(N, Seq(Nat))) /\ Limits!Distinct(m)
  BY DEF TimesFit
<1>2. PICK p \in Seq(Named(N, Seq(Nat))) : p = Limits!Those(m, S) /\ Limits!Distinct(p)
        /\ Limits!Members(p) = Limits!Members(m) \cap S
  <2>1. PICK E : E = Named(N, Seq(Nat))
    OBVIOUS
  <2>2. Limits!Those(m, S) \in Seq(E) /\ Limits!Distinct(Limits!Those(m, S))
          /\ Limits!Members(Limits!Those(m, S)) = Limits!Members(m) \cap S
    BY <1>1, <2>1, Thinned
  <2> QED
    BY <2>1, <2>2
<1>3. ASSUME NEW k \in N \ Limits!Entered(p) PROVE Limits!Those(L[k], W) = <<>>
  <2>1. CASE k \in Limits!Entered(m)
    <3>1. PICK e \in Limits!Members(m) : e.name = k
      BY <2>1 DEF Limits!Entered
    <3>2. e \notin S
      BY <1>2, <1>3, <3>1 DEF Limits!Entered
    <3> QED
      BY <3>1, <3>2 DEF TimesFit
  <2>2. CASE k \notin Limits!Entered(m)
    BY <2>2 DEF TimesFit
  <2> QED
    BY <2>1, <2>2
<1>4. \A e \in Limits!Members(p) : e.name \in N /\ Past(e.val, n) /\ Limits!Those(L[e.name], W) = Limits!Those(e.val, W)
  BY <1>2 DEF TimesFit
<1>5. L \in [N -> Seq(Nat)] /\ \A k \in N : Limits!Members(L[k]) \subseteq 0..n
  BY DEF TimesFit
<1> QED
  BY <1>2, <1>3, <1>4, <1>5 DEF TimesFit

\* Time passes: less counts.
LEMMA TimesLater ==
  ASSUME NEW m, NEW L, NEW W, NEW n \in Nat, NEW N, TimesFit(m, L, W, n, N), NEW X, (0..n) \cap X \subseteq W
  PROVE  TimesFit(m, L, X, n + 1, N) /\ \A k \in N : Len(Limits!Those(L[k], X)) <= Len(Limits!Those(L[k], W))
<1>1. \A x : x \in 0..n => x \in 0..(n + 1)
  OBVIOUS
<1>2. ASSUME NEW t \in Seq(Nat), Limits!Members(t) \subseteq 0..n
      PROVE Limits!Those(Limits!Those(t, W), X) = Limits!Those(t, X)
  <2>1. Limits!Members(t) \cap X \subseteq W
    BY <1>2
  <2> QED
    BY <2>1, ThoseOfThose
<1>3. \A k \in N : L[k] \in Seq(Nat) /\ Limits!Members(L[k]) \subseteq 0..n
  BY DEF TimesFit
<1>4. \A k \in N : Limits!Those(Limits!Those(L[k], W), X) = Limits!Those(L[k], X)
  BY <1>2, <1>3
<1>5. ASSUME NEW e \in Limits!Members(m)
      PROVE e.name \in N /\ Past(e.val, n + 1) /\ Limits!Those(L[e.name], X) = Limits!Those(e.val, X)
  <2>1. e.name \in N /\ Past(e.val, n) /\ Limits!Those(L[e.name], W) = Limits!Those(e.val, W)
    BY DEF TimesFit
  <2>2. Limits!Those(Limits!Those(e.val, W), X) = Limits!Those(e.val, X)
    BY <1>2, <2>1 DEF Past
  <2>3. Past(e.val, n + 1)
    BY <1>1, <2>1 DEF Past
  <2> QED
    BY <1>4, <2>1, <2>2, <2>3
<1>6. ASSUME NEW k \in N \ Limits!Entered(m) PROVE Limits!Those(L[k], X) = <<>>
  <2>1. Limits!Those(L[k], W) = <<>>
    BY DEF TimesFit
  <2>2. Limits!Those(Limits!Those(L[k], W), X) = <<>>
    BY Zenon, <2>1, ThoseOfNone
  <2> QED
    BY <1>4, <2>2
<1>7. \A k \in N : Limits!Members(L[k]) \subseteq 0..(n + 1)
  BY <1>1, <1>3
<1>8. ASSUME NEW k \in N PROVE Len(Limits!Those(L[k], X)) <= Len(Limits!Those(L[k], W))
  <2>1. PICK t \in Seq(Nat) : t = Limits!Those(L[k], W)
    BY <1>3, ThoseOnly
  <2>2. Len(Limits!Those(t, X)) <= Len(t)
    BY ThoseOnly
  <2> QED
    BY <1>4, <2>1, <2>2
<1> QED
  BY <1>5, <1>6, <1>7, <1>8 DEF TimesFit

LEMMA TimesPut ==
  ASSUME NEW m, NEW L, NEW W, NEW n \in Nat, NEW N, TimesFit(m, L, W, n, N), MaxEntries \in Nat \ {0},
         NEW k \in N, NEW v, Past(v, n), NEW M \in [N -> Seq(Nat)], M[k] = v,
         \A x \in N : x # k => /\ x \in Limits!Dropped(m, k) => M[x] = <<>>
                               /\ x \notin Limits!Dropped(m, k) => M[x] = L[x] \/ M[x] = Limits!Those(L[x], W)
  PROVE  TimesFit(Limits!Put(m, k, v), M, W, n, N)
<1>1. m \in Seq(Named(N, Seq(Nat))) /\ Limits!Distinct(m) /\ v \in Seq(Nat)
  BY DEF TimesFit, Past
<1>2. PICK p \in Seq(Named(N, Seq(Nat))) :
        /\ p = Limits!Put(m, k, v) /\ Limits!Distinct(p) /\ k \notin Limits!Dropped(m, k)
        /\ Limits!Members(p)
             = {e \in Limits!Members(m) : e.name # k /\ e.name \notin Limits!Dropped(m, k)} \cup {Limits!Entry(k, v)}
  BY <1>1, PutIn
<1>3. Limits!Entry(k, v).name = k /\ Limits!Entry(k, v).val = v
  BY DEF Limits!Entry
<1>4. ASSUME NEW x \in N, x # k, x \notin Limits!Dropped(m, k)
      PROVE Limits!Those(M[x], W) = Limits!Those(L[x], W) /\ Limits!Members(M[x]) \subseteq 0..n
  <2>1. L[x] \in Seq(Nat) /\ Limits!Members(L[x]) \subseteq 0..n
    BY DEF TimesFit
  <2>2. Limits!Those(Limits!Those(L[x], W), W) = Limits!Those(L[x], W)
          /\ Limits!Members(Limits!Those(L[x], W)) \subseteq 0..n
    <3>1. PICK t \in Seq(Nat) : t = L[x] /\ Limits!Members(t) \subseteq 0..n
      BY <2>1
    <3>2. Limits!Those(Limits!Those(t, W), W) = Limits!Those(t, W)
      BY ThoseOfThose
    <3>3. Limits!Members(Limits!Those(t, W)) = Limits!Members(t) \cap W
      BY ThoseOnly
    <3> QED
      BY <3>1, <3>2, <3>3
  <2>3. M[x] = L[x] \/ M[x] = Limits!Those(L[x], W)
    BY <1>4
  <2> QED
    BY <2>1, <2>2, <2>3
<1>5. ASSUME NEW x \in N, x # k, x \in Limits!Dropped(m, k) PROVE Limits!Those(M[x], W) = <<>> /\ Limits!Members(M[x]) = {}
  <2>1. M[x] = <<>>
    BY <1>5
  <2> QED
    BY Zenon, <2>1, ThoseOfNone, NoneAtFirst
<1>6. ASSUME NEW e \in Limits!Members(p)
      PROVE e.name \in N /\ Past(e.val, n) /\ Limits!Those(M[e.name], W) = Limits!Those(e.val, W)
  <2>1. CASE e = Limits!Entry(k, v)
    BY <1>3, <2>1
  <2>2. CASE e \in Limits!Members(m) /\ e.name # k /\ e.name \notin Limits!Dropped(m, k)
    BY <1>4, <2>2 DEF TimesFit
  <2> QED
    BY <1>2, <2>1, <2>2
<1>7. ASSUME NEW x \in N \ Limits!Entered(p) PROVE Limits!Those(M[x], W) = <<>>
  <2>1. x # k
    BY <1>2, <1>3 DEF Limits!Entered
  <2>2. CASE x \in Limits!Dropped(m, k)
    BY <1>5, <2>1, <2>2
  <2>3. CASE x \notin Limits!Dropped(m, k)
    <3>1. x \notin Limits!Entered(m)
      BY <1>2, <1>7, <2>1, <2>3 DEF Limits!Entered
    <3> QED
      BY <1>4, <2>1, <2>3, <3>1 DEF TimesFit
  <2> QED
    BY <2>2, <2>3
<1>8. ASSUME NEW x \in N PROVE Limits!Members(M[x]) \subseteq 0..n
  <2>1. CASE x = k
    BY <2>1 DEF Past
  <2>2. CASE x # k
    BY <1>4, <1>5, <2>2
  <2> QED
    BY <2>1, <2>2
<1> QED
  BY <1>2, <1>6, <1>7, <1>8 DEF TimesFit

LEMMA TimesRemoved ==
  ASSUME NEW m, NEW L, NEW W, NEW n \in Nat, NEW N, TimesFit(m, L, W, n, N), MaxEntries \in Nat,
         NEW k \in N, NEW M \in [N -> Seq(Nat)], M[k] = <<>>, \A x \in N : x # k => M[x] = L[x]
  PROVE  TimesFit(Limits!Those(m, {e \in Limits!Members(m) : e.name # k}), M, W, n, N)
<1> DEFINE S == {e \in Limits!Members(m) : e.name # k}
<1>1. m \in Seq(Named(N, Seq(Nat))) /\ Limits!Distinct(m)
  BY DEF TimesFit
<1>2. PICK p \in Seq(Named(N, Seq(Nat))) : p = Limits!Those(m, S) /\ Limits!Distinct(p) /\ Limits!Members(p) = S
  <2>1. PICK E : E = Named(N, Seq(Nat))
    OBVIOUS
  <2>2. Limits!Members(m) \cap S = S
    OBVIOUS
  <2> HIDE DEF S
  <2>3. Limits!Those(m, S) \in Seq(E) /\ Limits!Distinct(Limits!Those(m, S))
          /\ Limits!Members(Limits!Those(m, S)) = Limits!Members(m) \cap S
    BY <1>1, <2>1, Thinned
  <2> QED
    BY <2>1, <2>2, <2>3
<1>3. Limits!Those(M[k], W) = <<>> /\ Limits!Members(M[k]) = {}
  BY Zenon, ThoseOfNone, NoneAtFirst
<1>4. ASSUME NEW x \in N \ Limits!Entered(p) PROVE Limits!Those(M[x], W) = <<>>
  <2>1. CASE x = k
    BY <1>3, <2>1
  <2>2. CASE x # k
    <3>1. x \notin Limits!Entered(m)
      BY <1>2, <1>4, <2>2 DEF Limits!Entered
    <3> QED
      BY <2>2, <3>1 DEF TimesFit
  <2> QED
    BY <2>1, <2>2
<1>5. ASSUME NEW e \in Limits!Members(p)
      PROVE e.name \in N /\ Past(e.val, n) /\ Limits!Those(M[e.name], W) = Limits!Those(e.val, W)
  <2>1. e \in Limits!Members(m) /\ e.name # k
    BY <1>2
  <2> QED
    BY <2>1 DEF TimesFit
<1>6. \A x \in N : Limits!Members(M[x]) \subseteq 0..n
  BY <1>3 DEF TimesFit
<1> QED
  BY <1>2, <1>4, <1>5, <1>6 DEF TimesFit

\* Whatever T counts from, for d ticks, is in the table m until that is over.
HeldFit(m, T, d, n, N) ==
  /\ m \in Seq(Named(N, Nat)) /\ Limits!Distinct(m) /\ T \in [N -> Nat]
  /\ \A a \in N : T[a] # Limits!Never /\ n < T[a] + d => \E e \in Limits!Members(m) : e.name = a /\ e.val >= T[a] + d

LEMMA HeldSwept ==
  ASSUME NEW m, NEW T, NEW d, NEW n, NEW N, HeldFit(m, T, d, n, N), MaxEntries \in Nat, NEW S,
         \A e \in Limits!Members(m) : e \notin S => \A a \in N : e.name = a
             => ~(T[a] # Limits!Never /\ n < T[a] + d /\ e.val >= T[a] + d)
  PROVE  HeldFit(Limits!Those(m, S), T, d, n, N)
<1>1. m \in Seq(Named(N, Nat)) /\ Limits!Distinct(m) /\ T \in [N -> Nat]
  BY DEF HeldFit
<1>2. PICK p \in Seq(Named(N, Nat)) : p = Limits!Those(m, S) /\ Limits!Distinct(p)
        /\ Limits!Members(p) = Limits!Members(m) \cap S
  <2>1. PICK E : E = Named(N, Nat)
    OBVIOUS
  <2>2. Limits!Those(m, S) \in Seq(E) /\ Limits!Distinct(Limits!Those(m, S))
          /\ Limits!Members(Limits!Those(m, S)) = Limits!Members(m) \cap S
    BY <1>1, <2>1, Thinned
  <2> QED
    BY <2>1, <2>2
<1>3. ASSUME NEW a \in N, T[a] # Limits!Never, n < T[a] + d
      PROVE \E e \in Limits!Members(p) : e.name = a /\ e.val >= T[a] + d
  <2>1. PICK e \in Limits!Members(m) : e.name = a /\ e.val >= T[a] + d
    BY <1>3 DEF HeldFit
  <2>2. e \in S
    BY <1>3, <2>1
  <2> QED
    BY <1>2, <2>1, <2>2
<1> QED
  BY <1>1, <1>2, <1>3 DEF HeldFit

LEMMA HeldPut ==
  ASSUME NEW m, NEW T, NEW d, NEW n, NEW N, HeldFit(m, T, d, n, N), MaxEntries \in Nat \ {0},
         NEW k \in N, NEW v \in Nat, NEW U \in [N -> Nat], U[k] # Limits!Never /\ n < U[k] + d => v >= U[k] + d,
         \A a \in N : a # k => U[a] = IF a \in Limits!Dropped(m, k) THEN Limits!Never ELSE T[a]
  PROVE  HeldFit(Limits!Put(m, k, v), U, d, n, N)
<1>1. m \in Seq(Named(N, Nat)) /\ Limits!Distinct(m)
  BY DEF HeldFit
<1>2. PICK p \in Seq(Named(N, Nat)) :
        /\ p = Limits!Put(m, k, v) /\ Limits!Distinct(p)
        /\ Limits!Members(p)
             = {e \in Limits!Members(m) : e.name # k /\ e.name \notin Limits!Dropped(m, k)} \cup {Limits!Entry(k, v)}
  BY <1>1, PutIn
<1>3. Limits!Entry(k, v).name = k /\ Limits!Entry(k, v).val = v
  BY DEF Limits!Entry
<1>4. ASSUME NEW a \in N, U[a] # Limits!Never, n < U[a] + d
      PROVE \E e \in Limits!Members(p) : e.name = a /\ e.val >= U[a] + d
  <2>1. CASE a = k
    BY <1>2, <1>3, <1>4, <2>1
  <2>2. CASE a # k
    <3>1. a \notin Limits!Dropped(m, k) /\ U[a] = T[a]
      BY <1>4, <2>2
    <3>2. PICK e \in Limits!Members(m) : e.name = a /\ e.val >= T[a] + d
      BY <1>4, <3>1 DEF HeldFit
    <3> QED
      BY <1>2, <2>2, <3>1, <3>2
  <2> QED
    BY <2>1, <2>2
<1> QED
  BY <1>2, <1>4 DEF HeldFit

LEMMA HeldLater ==
  ASSUME NEW m, NEW T, NEW d \in Nat, NEW n \in Nat, NEW N, HeldFit(m, T, d, n, N)
  PROVE  HeldFit(m, T, d, n + 1, N)
<1>1. ASSUME NEW a \in N, n + 1 < T[a] + d PROVE n < T[a] + d
  BY <1>1 DEF HeldFit
<1> QED
  BY <1>1 DEF HeldFit

-----------------------------------------------------------------------------
Calls == {"acquire", "run", "refused"}
OfAddress == {"locked out", "match", "tell", "tell range"}
LimitRequest == [at : Calls \cup OfAddress \cup {"idle"}, address : Addresses \cup {Limits!Idle.address},
                 key : Keys \cup {Limits!Idle.key}]
Running(k) == {r \in Requests : Limits!At(r, "run") /\ mcpReq[r].key = k}
OfMinute(n) == {x \in 0..n : n - x < Minute}
OfWindow(n) == {x \in 0..n : n - x <= Window}

LimitTypes ==
  /\ now \in Nat /\ now <= MaxTime
  /\ refusals \in Seq(Named(Limits!Scopes, Nat)) /\ Limits!Distinct(refusals)
  /\ mcpReq \in [Requests -> LimitRequest]
  /\ \A r \in Requests : /\ mcpReq[r].at \in Calls => mcpReq[r].key \in Keys
                         /\ mcpReq[r].at \in OfAddress => mcpReq[r].address \in Addresses
  /\ active \in [Keys -> Nat]

CallsCounted ==
  /\ \A k \in Keys : IsFiniteSet(Running(k)) /\ active[k] = Cardinality(Running(k)) /\ active[k] <= Slots
  /\ \A k \in Keys : Len(Limits!Those(let[k], OfMinute(now))) <= Rate

LimitInv ==
  /\ LimitTypes /\ CallsCounted
  /\ TimesFit(spent, let, OfMinute(now), now, Keys)
  /\ TimesFit(failures, wrong, OfWindow(now), now, Addresses)
  /\ HeldFit(lockedOut, tripped, Lockout, now, Addresses)
  /\ HeldFit(notified, notices, Cooldown, now, Limits!Subjects)

LEMMA LimitBounds ==
  /\ MaxEntries \in Nat \ {0} /\ MaxEntries \in Nat /\ Rate \in Nat /\ Slots \in Nat /\ Minute \in Nat /\ Window \in Nat
  /\ Lockout \in Nat /\ Cooldown \in Nat /\ MaxTime \in Nat
BY LimitsAssumption

\* Sweeping loses nothing that counts.
LEMMA Sweeps ==
  ASSUME LimitInv
  PROVE  /\ TimesFit(Limits!SweptCalls, let, OfMinute(now), now, Keys)
         /\ TimesFit(Limits!SweptFailures, wrong, OfWindow(now), now, Addresses)
         /\ HeldFit(Limits!SweptLocks, tripped, Lockout, now, Addresses)
         /\ HeldFit(Limits!SweptNotices, notices, Cooldown, now, Limits!Subjects)
         /\ Limits!SweptRefusals \in Seq(Named(Limits!Scopes, Nat)) /\ Limits!Distinct(Limits!SweptRefusals)
<1>0. now \in Nat
  BY DEF LimitInv, LimitTypes
<1>1. TimesFit(Limits!SweptCalls, let, OfMinute(now), now, Keys)
  <2> DEFINE S == {e \in Limits!Members(spent) : active[e.name] > 0 \/ (e.val # <<>> /\ now - Limits!Last(e.val) < Minute)}
  <2>1. TimesFit(spent, let, OfMinute(now), now, Keys)
    BY DEF LimitInv
  <2>2. ASSUME NEW e \in Limits!Members(spent), e \notin S PROVE Limits!Those(e.val, OfMinute(now)) = <<>>
    <3>1. Past(e.val, now)
      BY <2>1 DEF TimesFit
    <3>2. e.val = <<>> \/ ~(now - Limits!Last(e.val) < Minute)
      BY <2>2
    <3>3. e.val # <<>> => Limits!Last(e.val) \in Nat
      BY <3>1, EmptySeq DEF Past, Limits!Last
    <3>4. e.val = <<>> \/ \A x \in 0..now : x <= Limits!Last(e.val) => x \notin OfMinute(now)
      BY <1>0, <3>2, <3>3, LimitBounds DEF OfMinute
    <3> QED
      BY <1>0, <3>1, <3>4, NothingCounts
  <2> HIDE DEF S
  <2>3. TimesFit(Limits!Those(spent, S), let, OfMinute(now), now, Keys)
    BY <1>0, <2>1, <2>2, LimitBounds, TimesSwept
  <2> QED
    BY <2>1, <2>3 DEF Limits!SweptCalls, Limits!Swept, S
<1>2. TimesFit(Limits!SweptFailures, wrong, OfWindow(now), now, Addresses)
  <2> DEFINE S == {e \in Limits!Members(failures) : e.val # <<>> /\ now - Limits!Last(e.val) <= Window}
  <2>1. TimesFit(failures, wrong, OfWindow(now), now, Addresses)
    BY DEF LimitInv
  <2>2. ASSUME NEW e \in Limits!Members(failures), e \notin S PROVE Limits!Those(e.val, OfWindow(now)) = <<>>
    <3>1. Past(e.val, now)
      BY <2>1 DEF TimesFit
    <3>2. e.val = <<>> \/ ~(now - Limits!Last(e.val) <= Window)
      BY <2>2
    <3>3. e.val # <<>> => Limits!Last(e.val) \in Nat
      BY <3>1, EmptySeq DEF Past, Limits!Last
    <3>4. e.val = <<>> \/ \A x \in 0..now : x <= Limits!Last(e.val) => x \notin OfWindow(now)
      BY <1>0, <3>2, <3>3, LimitBounds DEF OfWindow
    <3> QED
      BY <1>0, <3>1, <3>4, NothingCounts
  <2> HIDE DEF S
  <2>3. TimesFit(Limits!Those(failures, S), wrong, OfWindow(now), now, Addresses)
    BY <1>0, <2>1, <2>2, LimitBounds, TimesSwept
  <2> QED
    BY <2>1, <2>3 DEF Limits!SweptFailures, Limits!Swept, S
<1>3. HeldFit(Limits!SweptLocks, tripped, Lockout, now, Addresses)
  <2> DEFINE S == {e \in Limits!Members(lockedOut) : e.val > now}
  <2>1. HeldFit(lockedOut, tripped, Lockout, now, Addresses)
    BY DEF LimitInv
  <2>2. \A e \in Limits!Members(lockedOut) : e.val \in Nat
    <3>1. \A i \in 1..Len(lockedOut) : lockedOut[i] \in Named(Addresses, Nat)
      BY <2>1 DEF HeldFit
    <3> QED
      BY <3>1 DEF Limits!Members, Named
  <2>3. \A e \in Limits!Members(lockedOut) : e \notin S => \A a \in Addresses : e.name = a =>
          ~(tripped[a] # Limits!Never /\ now < tripped[a] + Lockout /\ e.val >= tripped[a] + Lockout)
    BY <1>0, <2>1, <2>2, LimitBounds DEF HeldFit
  <2> HIDE DEF S
  <2>4. HeldFit(Limits!Those(lockedOut, S), tripped, Lockout, now, Addresses)
    BY <2>1, <2>3, LimitBounds, HeldSwept
  <2> QED
    BY <2>1, <2>4 DEF Limits!SweptLocks, Limits!Swept, S
<1>4. HeldFit(Limits!SweptNotices, notices, Cooldown, now, Limits!Subjects)
  <2> DEFINE S == {e \in Limits!Members(notified) : e.val > now}
  <2>1. HeldFit(notified, notices, Cooldown, now, Limits!Subjects)
    BY DEF LimitInv
  <2>2. \A e \in Limits!Members(notified) : e.val \in Nat
    <3>1. \A i \in 1..Len(notified) : notified[i] \in Named(Limits!Subjects, Nat)
      BY <2>1 DEF HeldFit
    <3> QED
      BY <3>1 DEF Limits!Members, Named
  <2>3. \A e \in Limits!Members(notified) : e \notin S => \A a \in Limits!Subjects : e.name = a =>
          ~(notices[a] # Limits!Never /\ now < notices[a] + Cooldown /\ e.val >= notices[a] + Cooldown)
    BY <1>0, <2>1, <2>2, LimitBounds DEF HeldFit
  <2> HIDE DEF S
  <2>4. HeldFit(Limits!Those(notified, S), notices, Cooldown, now, Limits!Subjects)
    BY <2>1, <2>3, LimitBounds, HeldSwept
  <2> QED
    BY <2>1, <2>4 DEF Limits!SweptNotices, Limits!Swept, S
<1>5. Limits!SweptRefusals \in Seq(Named(Limits!Scopes, Nat)) /\ Limits!Distinct(Limits!SweptRefusals)
  <2> DEFINE S == {e \in Limits!Members(refusals) : now - e.val < LogEvery}
  <2>1. PICK E : E = Named(Limits!Scopes, Nat)
    OBVIOUS
  <2>2. refusals \in Seq(E) /\ Limits!Distinct(refusals)
    BY <2>1 DEF LimitInv, LimitTypes
  <2> HIDE DEF S
  <2>3. Limits!Those(refusals, S) \in Seq(E) /\ Limits!Distinct(Limits!Those(refusals, S))
    BY <2>2, LimitBounds, Thinned
  <2> QED
    BY <2>1, <2>2, <2>3 DEF Limits!SweptRefusals, Limits!Swept, S
<1> QED
  BY <1>1, <1>2, <1>3, <1>4, <1>5

LEMMA LimitStart == Limits!Init => LimitInv
<1> SUFFICES ASSUME Limits!Init PROVE LimitInv
  OBVIOUS
<1> USE DEF Limits!Init
<1>0. now = 0 /\ now \in Nat
  OBVIOUS
<1>1. \A E : <<>> \in Seq(E)
  BY EmptySeq
<1>2. Limits!Distinct(<<>>) /\ Limits!Entered(<<>>) = {}
  BY NoneAtFirst, LimitBounds DEF Limits!Distinct, Limits!Entered
<1>3. LimitTypes
  <2>1. Limits!Idle.at = "idle" /\ Limits!Idle \in LimitRequest
    BY DEF Limits!Idle, LimitRequest
  <2>2. \A r \in Requests : mcpReq[r] = Limits!Idle
    OBVIOUS
  <2>3. mcpReq \in [Requests -> LimitRequest]
    BY <2>1
  <2>4. refusals \in Seq(Named(Limits!Scopes, Nat)) /\ Limits!Distinct(refusals)
    BY <1>1, <1>2
  <2>5. now <= MaxTime
    BY <1>0, LimitBounds
  <2> QED
    BY <1>0, <2>1, <2>2, <2>3, <2>4, <2>5 DEF LimitTypes, Calls, OfAddress
<1>4. CallsCounted
  <2>1. ASSUME NEW k \in Keys PROVE Running(k) = {}
    BY DEF Running, Limits!At, Limits!Idle
  <2>2. ASSUME NEW k \in Keys PROVE Len(Limits!Those(let[k], OfMinute(now))) <= Rate
    <3>1. let[k] = <<>>
      OBVIOUS
    <3>2. Len(Limits!Those(let[k], OfMinute(now))) = 0
      BY Zenon, <3>1, ThoseOfNone, NoneAtFirst
    <3> QED
      BY <3>2, LimitBounds
  <2>3. IsFiniteSet({}) /\ Cardinality({}) = 0
    BY FS_EmptySet
  <2>4. \A k \in Keys : active[k] = 0 /\ 0 <= Slots
    BY LimitBounds
  <2> QED
    BY <2>1, <2>2, <2>3, <2>4 DEF CallsCounted
<1>5. ASSUME NEW N, NEW W PROVE TimesFit(<<>>, [k \in N |-> <<>>], W, 0, N)
  <2>1. PICK L : L = [k \in N |-> <<>>]
    OBVIOUS
  <2>2. L \in [N -> Seq(Nat)] /\ \A k \in N : L[k] = <<>>
    BY <1>1, <2>1
  <2>3. ASSUME NEW k \in N PROVE Limits!Those(L[k], W) = <<>> /\ Limits!Members(L[k]) = {}
    BY Zenon, <2>2, ThoseOfNone, NoneAtFirst
  <2>4. TimesFit(<<>>, L, W, 0, N)
    BY <1>1, <1>2, <2>2, <2>3, NoneAtFirst DEF TimesFit
  <2> QED
    BY <2>1, <2>4
<1>6. ASSUME NEW N, NEW d PROVE HeldFit(<<>>, [a \in N |-> Limits!Never], d, 0, N)
  <2>1. Limits!Never \in Nat
    BY LimitBounds DEF Limits!Never
  <2> QED
    BY <1>1, <1>2, <2>1 DEF HeldFit
<1> QED
  BY <1>3, <1>4, <1>5, <1>6 DEF LimitInv

\* A request moves on outside its call.
LEMMA MovesOn ==
  ASSUME LimitInv, NEW r \in Requests, NEW z \in LimitRequest, z.at # "run", mcpReq[r].at # "run",
         z.at \in Calls => z.key \in Keys, z.at \in OfAddress => z.address \in Addresses,
         mcpReq' = [mcpReq EXCEPT ![r] = z]
  PROVE  /\ mcpReq' \in [Requests -> LimitRequest]
         /\ \A q \in Requests : /\ mcpReq'[q].at \in Calls => mcpReq'[q].key \in Keys
                                /\ mcpReq'[q].at \in OfAddress => mcpReq'[q].address \in Addresses
         /\ \A k \in Keys : Running(k)' = Running(k)
<1>1. mcpReq \in [Requests -> LimitRequest]
  BY DEF LimitInv, LimitTypes
<1>2. mcpReq'[r] = z /\ \A q \in Requests : q # r => mcpReq'[q] = mcpReq[q]
  BY <1>1
<1>3. ASSUME NEW q \in Requests
      PROVE  /\ mcpReq'[q].at \in Calls => mcpReq'[q].key \in Keys
             /\ mcpReq'[q].at \in OfAddress => mcpReq'[q].address \in Addresses
  BY <1>2 DEF LimitInv, LimitTypes
<1>4. ASSUME NEW k \in Keys PROVE Running(k)' = Running(k)
  BY <1>2 DEF Running, Limits!At
<1> QED
  BY <1>1, <1>3, <1>4

LEMMA IdleIsARequest == Limits!Idle \in LimitRequest /\ Limits!Idle.at = "idle"
BY DEF Limits!Idle, LimitRequest

\* A step that leaves calls and times alone.
LEMMA CountsStay ==
  ASSUME LimitInv, \A k \in Keys : Running(k)' = Running(k), active' = active, let' = let, now' = now
  PROVE  CallsCounted'
BY DEF LimitInv, CallsCounted

LEMMA Logged ==
  ASSUME LimitInv, NEW s \in Limits!Scopes, Limits!LogRefusal(s)
  PROVE  refusals' \in Seq(Named(Limits!Scopes, Nat)) /\ Limits!Distinct(refusals')
<1>1. refusals \in Seq(Named(Limits!Scopes, Nat)) /\ Limits!Distinct(refusals) /\ now \in Nat
  BY DEF LimitInv, LimitTypes
<1>2. Limits!Put(refusals, s, now) \in Seq(Named(Limits!Scopes, Nat)) /\ Limits!Distinct(Limits!Put(refusals, s, now))
  BY <1>1, LimitBounds, PutIn
<1> QED
  BY <1>1, <1>2 DEF Limits!LogRefusal

LEMMA ArriveStep == ASSUME LimitInv, NEW r \in Requests, NEW a \in Addresses, Limits!Arrive(r, a) PROVE LimitInv'
<1> USE DEF Limits!Arrive
<1>0. now \in Nat
  BY DEF LimitInv, LimitTypes
<1> DEFINE z == [mcpReq[r] EXCEPT !.at = IF Limits!LockedOut(a) THEN "locked out" ELSE "match", !.address = a]
<1>1. z \in LimitRequest /\ z.at \in OfAddress /\ z.address = a /\ z.at # "run" /\ z.at \notin Calls /\ mcpReq[r].at # "run"
  BY DEF LimitInv, LimitTypes, LimitRequest, OfAddress, Calls, Limits!At
<1>2. mcpReq' = [mcpReq EXCEPT ![r] = z]
  BY DEF LimitInv, LimitTypes
<1> HIDE DEF z
<1>3. /\ mcpReq' \in [Requests -> LimitRequest]
      /\ \A q \in Requests : /\ mcpReq'[q].at \in Calls => mcpReq'[q].key \in Keys
                             /\ mcpReq'[q].at \in OfAddress => mcpReq'[q].address \in Addresses
      /\ \A k \in Keys : Running(k)' = Running(k)
  BY <1>1, <1>2, MovesOn
<1>4. LimitTypes'
  BY <1>3 DEF LimitInv, LimitTypes
<1>5. CallsCounted'
  BY <1>3, CountsStay
<1>l. lockedOut' = Limits!Those(lockedOut, {e \in Limits!Members(lockedOut) : e.name # a \/ Limits!LockedOut(a)})
  OBVIOUS
<1>u. UNCHANGED <<now, spent, active, failures, refusals, notified, lastSweep, let, wrong, tripped, notices>>
  OBVIOUS
<1> HIDE DEF Limits!Arrive
<1>6. HeldFit(lockedOut', tripped, Lockout, now, Addresses)
  <2> DEFINE S == {e \in Limits!Members(lockedOut) : e.name # a \/ Limits!LockedOut(a)}
  <2>1. HeldFit(lockedOut, tripped, Lockout, now, Addresses)
    BY DEF LimitInv
  <2>2. lockedOut \in Seq(Named(Addresses, Nat)) /\ Limits!Distinct(lockedOut)
    BY <2>1 DEF HeldFit
  <2>3. \A e \in Limits!Members(lockedOut) : e.val \in Nat
    <3>1. \A i \in 1..Len(lockedOut) : lockedOut[i] \in Named(Addresses, Nat)
      BY <2>1 DEF HeldFit
    <3> QED
      BY <3>1 DEF Limits!Members, Named
  <2>4. ASSUME NEW e \in Limits!Members(lockedOut), e \notin S, NEW b \in Addresses, e.name = b,
               tripped[b] # Limits!Never, now < tripped[b] + Lockout, e.val >= tripped[b] + Lockout
        PROVE  FALSE
    <3>1. e.name = a /\ ~Limits!LockedOut(a)
      BY <2>4
    <3>2. a \in Limits!Entered(lockedOut) /\ Limits!Get(lockedOut, a) = e.val
      BY <2>2, <3>1, OneEntry
    <3>3. ~(e.val > now)
      BY <3>1, <3>2 DEF Limits!LockedOut
    <3>4. e.val \in Nat /\ tripped[b] \in Nat
      BY <2>1, <2>3 DEF HeldFit
    <3> QED
      BY <1>0, <2>4, <3>3, <3>4, LimitBounds
  <2> HIDE DEF S
  <2>5. HeldFit(Limits!Those(lockedOut, S), tripped, Lockout, now, Addresses)
    BY <2>1, <2>4, LimitBounds, HeldSwept
  <2> QED
    BY <1>l, <2>5 DEF S
<1> QED
  BY <1>4, <1>5, <1>6, <1>u DEF LimitInv

LEMMA LimitMatchStep == ASSUME LimitInv, NEW r \in Requests, NEW k \in Keys, Limits!Match(r, k) PROVE LimitInv'
<1> USE DEF Limits!Match
<1> DEFINE z == [Limits!Idle EXCEPT !.at = "acquire", !.key = k]
<1>1. z \in LimitRequest /\ z.at = "acquire" /\ z.key = k
  BY DEF Limits!Idle, LimitRequest, Calls
<1>2. mcpReq' = [mcpReq EXCEPT ![r] = z] /\ mcpReq[r].at # "run"
  BY DEF Limits!At
<1> HIDE DEF z
<1>3. /\ mcpReq' \in [Requests -> LimitRequest]
      /\ \A q \in Requests : /\ mcpReq'[q].at \in Calls => mcpReq'[q].key \in Keys
                             /\ mcpReq'[q].at \in OfAddress => mcpReq'[q].address \in Addresses
      /\ \A x \in Keys : Running(x)' = Running(x)
  BY <1>1, <1>2, MovesOn DEF OfAddress
<1>4. LimitTypes'
  BY <1>3 DEF LimitInv, LimitTypes
<1>5. CallsCounted'
  BY <1>3, CountsStay
<1> QED
  BY <1>4, <1>5 DEF LimitInv

LEMMA RefuseStep ==
  ASSUME LimitInv, NEW r \in Requests,
         Limits!RefuseLockedOut(r) \/ Limits!RefuseCall(r) \/ \E a \in Addresses : Limits!RefuseOffRange(r, a)
  PROVE  LimitInv'
<1>1. UNCHANGED <<now, spent, active, failures, lockedOut, notified, lastSweep, let, wrong, tripped, notices>>
  BY DEF Limits!RefuseLockedOut, Limits!RefuseCall, Limits!RefuseOffRange
<1>2. refusals' \in Seq(Named(Limits!Scopes, Nat)) /\ Limits!Distinct(refusals')
  <2>1. CASE Limits!RefuseLockedOut(r)
    <3>1. <<"address", mcpReq[r].address>> \in Limits!Scopes
      BY <2>1 DEF Limits!RefuseLockedOut, Limits!At, LimitInv, LimitTypes, OfAddress, Limits!Scopes
    <3> QED
      BY <2>1, <3>1, Logged DEF Limits!RefuseLockedOut
  <2>2. CASE Limits!RefuseCall(r)
    <3>1. <<"key", mcpReq[r].key>> \in Limits!Scopes
      BY <2>2 DEF Limits!RefuseCall, Limits!At, LimitInv, LimitTypes, Calls, Limits!Scopes
    <3> QED
      BY <2>2, <3>1, Logged DEF Limits!RefuseCall
  <2>3. ASSUME NEW a \in Addresses, Limits!RefuseOffRange(r, a)
        PROVE refusals' \in Seq(Named(Limits!Scopes, Nat)) /\ Limits!Distinct(refusals')
    <3>1. <<"range", a>> \in Limits!Scopes
      BY DEF Limits!Scopes
    <3> QED
      BY <2>3, <3>1, Logged DEF Limits!RefuseOffRange
  <2> QED
    BY <2>1, <2>2, <2>3
<1>3. PICK z \in LimitRequest : /\ z.at # "run" /\ mcpReq[r].at # "run" /\ z.at \notin Calls
                                /\ z.at \in OfAddress => z.address \in Addresses
                                /\ mcpReq' = [mcpReq EXCEPT ![r] = z]
  <2>1. CASE Limits!RefuseLockedOut(r) \/ Limits!RefuseCall(r)
    <3>1. mcpReq' = [mcpReq EXCEPT ![r] = Limits!Idle] /\ mcpReq[r].at # "run"
      BY <2>1 DEF Limits!RefuseLockedOut, Limits!RefuseCall, Limits!End, Limits!At
    <3> QED
      BY <3>1, IdleIsARequest DEF OfAddress, Calls
  <2>2. ASSUME NEW a \in Addresses, Limits!RefuseOffRange(r, a)
        PROVE  \E z \in LimitRequest : /\ z.at # "run" /\ mcpReq[r].at # "run" /\ z.at \notin Calls
                                       /\ z.at \in OfAddress => z.address \in Addresses
                                       /\ mcpReq' = [mcpReq EXCEPT ![r] = z]
    <3>0. mcpReq \in [Requests -> LimitRequest] /\ mcpReq[r].at = "idle"
      BY <2>2 DEF LimitInv, LimitTypes, Limits!RefuseOffRange, Limits!At
    <3>1. CASE Limits!FirstRefusal(<<"range", a>>)
      <4> DEFINE z == [mcpReq[r] EXCEPT !.at = "tell range", !.address = a]
      <4>1. z \in LimitRequest /\ z.at = "tell range" /\ z.address = a
        BY <3>0 DEF LimitRequest, OfAddress
      <4>2. mcpReq' = [mcpReq EXCEPT ![r] = z]
        BY <2>2, <3>0, <3>1 DEF Limits!RefuseOffRange
      <4> HIDE DEF z
      <4> QED
        BY <3>0, <4>1, <4>2 DEF Calls
    <3>2. CASE ~Limits!FirstRefusal(<<"range", a>>)
      <4>1. mcpReq' = mcpReq
        BY <2>2, <3>2 DEF Limits!RefuseOffRange
      <4>2. mcpReq[r] \in LimitRequest /\ mcpReq' = [mcpReq EXCEPT ![r] = mcpReq[r]]
        BY <3>0, <4>1
      <4> QED
        BY <3>0, <4>2 DEF Calls, OfAddress
    <3> QED
      BY <3>1, <3>2
  <2> QED
    BY <2>1, <2>2
<1>4. /\ mcpReq' \in [Requests -> LimitRequest]
      /\ \A q \in Requests : /\ mcpReq'[q].at \in Calls => mcpReq'[q].key \in Keys
                             /\ mcpReq'[q].at \in OfAddress => mcpReq'[q].address \in Addresses
      /\ \A k \in Keys : Running(k)' = Running(k)
  BY <1>3, MovesOn
<1>5. LimitTypes'
  BY <1>1, <1>2, <1>4 DEF LimitInv, LimitTypes
<1>6. CallsCounted'
  BY <1>1, <1>4, CountsStay
<1> QED
  BY <1>1, <1>5, <1>6 DEF LimitInv

-----------------------------------------------------------------------------
\* Of a past, what still counts, and the present after it.
LEMMA PastAndNow ==
  ASSUME NEW n \in Nat, NEW t, Past(t, n), NEW W
  PROVE  Past(Limits!Those(t, W), n) /\ Past(Append(Limits!Those(t, W), n), n)
           /\ Len(Append(Limits!Those(t, W), n)) = Len(Limits!Those(t, W)) + 1
<1>1. PICK q \in Seq(Nat) : q = t /\ Ordered(q, Rising) /\ Limits!Members(q) \subseteq 0..n
  BY DEF Past
<1>2. PICK p \in Seq(Nat) : p = Limits!Those(q, W) /\ Limits!Members(p) \subseteq 0..n /\ Ordered(p, Rising)
  <2>1. Limits!Those(q, W) \in Seq(Nat) /\ Limits!Members(Limits!Those(q, W)) = Limits!Members(q) \cap W
        /\ \A R : Ordered(q, R) => Ordered(Limits!Those(q, W), R)
    BY ThoseOnly
  <2> QED
    BY <1>1, <2>1
<1>3. Append(p, n) \in Seq(Nat) /\ Limits!Members(Append(p, n)) = Limits!Members(p) \cup {n}
        /\ Len(Append(p, n)) = Len(p) + 1
  BY OneMore
<1>4. \A y \in Limits!Members(p) : <<y, n>> \in Rising
  BY <1>2 DEF Rising
<1>5. Ordered(Append(p, n), Rising)
  BY <1>2, <1>4, OrderedOneMore
<1>6. n \in 0..n
  OBVIOUS
<1> QED
  BY <1>1, <1>2, <1>3, <1>5, <1>6 DEF Past

\* What the table has for a name is what its times count, and nothing if it has no entry.
LEMMA KnownTimes ==
  ASSUME NEW m, NEW L, NEW W, NEW n \in Nat, NEW N, TimesFit(m, L, W, n, N), NEW k \in N, MaxEntries \in Nat \ {0}
  PROVE  /\ k \in Limits!Entered(m) => Past(Limits!Get(m, k), n)
              /\ Limits!Those(Limits!Get(m, k), W) = Limits!Those(L[k], W)
         /\ k \notin Limits!Entered(m) => Limits!Those(L[k], W) = <<>>
         /\ k \notin Limits!Dropped(m, k) /\ L[k] \in Seq(Nat)
<1>1. ASSUME k \in Limits!Entered(m)
      PROVE Past(Limits!Get(m, k), n) /\ Limits!Those(Limits!Get(m, k), W) = Limits!Those(L[k], W)
  <2>1. PICK e \in Limits!Members(m) : e.name = k /\ e.val = Limits!Get(m, k)
    <3>1. PICK E : E = Named(N, Seq(Nat))
      OBVIOUS
    <3>2. m \in Seq(E) /\ Limits!Distinct(m)
      BY <3>1 DEF TimesFit
    <3> QED
      BY <1>1, <3>2, EntryOf
  <2> QED
    BY <2>1 DEF TimesFit
<1>2. k \notin Limits!Entered(m) => Limits!Those(L[k], W) = <<>>
  BY DEF TimesFit
<1>3. k \notin Limits!Dropped(m, k)
  <2>1. PICK E : E = Named(N, Seq(Nat))
    OBVIOUS
  <2>2. m \in Seq(E) /\ Limits!Distinct(m)
    BY <2>1 DEF TimesFit
  <2>3. CASE Limits!Drops(m, k) /\ Len(m) # 0
    <3>1. Head(m) \in Limits!Members(m)
      BY <2>2, <2>3, FirstAndRest
    <3> QED
      BY <2>3, <3>1 DEF Limits!Dropped, Limits!Drops, Limits!Entered
  <2>4. CASE Limits!Drops(m, k) /\ Len(m) = 0
    BY <2>4 DEF Limits!Dropped, Limits!Drops
  <2>5. CASE ~Limits!Drops(m, k)
    BY <2>5 DEF Limits!Dropped
  <2> QED
    BY <2>3, <2>4, <2>5
<1>4. L[k] \in Seq(Nat)
  BY DEF TimesFit
<1> QED
  BY <1>1, <1>2, <1>3, <1>4

\* A wrong credential: the table and the history note the same times.
LEMMA TimesSeen ==
  ASSUME LimitInv, NEW a \in Addresses
  PROVE  /\ Limits!Times(a) = Limits!Recent(Append(wrong[a], now)) /\ Past(Limits!Times(a), now)
         /\ a \notin Limits!Dropped(Limits!SweptFailures, a) /\ wrong[a] \in Seq(Nat)
<1>0. now \in Nat
  BY DEF LimitInv, LimitTypes
<1>1. PICK W, S : W = OfWindow(now) /\ S = Limits!SweptFailures
  OBVIOUS
<1>2. TimesFit(S, wrong, W, now, Addresses)
  BY <1>1, Sweeps
<1>3. /\ a \in Limits!Entered(S) => Past(Limits!Get(S, a), now)
           /\ Limits!Those(Limits!Get(S, a), W) = Limits!Those(wrong[a], W)
      /\ a \notin Limits!Entered(S) => Limits!Those(wrong[a], W) = <<>>
      /\ a \notin Limits!Dropped(S, a) /\ wrong[a] \in Seq(Nat)
  BY <1>0, <1>2, LimitBounds, KnownTimes
<1>4. now \in W /\ \A t : Limits!Recent(t) = Limits!Those(t, W)
  BY <1>0, <1>1, LimitBounds DEF OfWindow, Limits!Recent
<1>5. \A t \in Seq(Nat) : Limits!Those(Append(t, now), W) = Append(Limits!Those(t, W), now)
  <2> SUFFICES ASSUME NEW t \in Seq(Nat) PROVE Limits!Those(Append(t, now), W) = Append(Limits!Those(t, W), now)
    OBVIOUS
  <2>1. Limits!Those(Append(t, now), W) = IF now \in W THEN Append(Limits!Those(t, W), now) ELSE Limits!Those(t, W)
    BY <1>0, ThoseAppend
  <2> QED
    BY <1>4, <2>1
<1>6. Limits!Recent(Append(wrong[a], now)) = Append(Limits!Those(wrong[a], W), now)
  BY <1>3, <1>4, <1>5
<1>7. CASE a \in Limits!Entered(S)
  <2>1. PICK v : v = Limits!Get(S, a) /\ Past(v, now) /\ Limits!Those(v, W) = Limits!Those(wrong[a], W)
    BY <1>3, <1>7
  <2>2. Limits!Times(a) = Limits!Recent(Append(v, now))
    BY <1>1, <1>7, <2>1 DEF Limits!Times
  <2>3. Limits!Times(a) = Append(Limits!Those(v, W), now)
    BY <1>4, <1>5, <2>1, <2>2 DEF Past
  <2>4. Past(Append(Limits!Those(v, W), now), now)
    BY <1>0, <2>1, PastAndNow
  <2> QED
    BY <1>1, <1>3, <1>6, <2>1, <2>3, <2>4
<1>8. CASE a \notin Limits!Entered(S)
  <2>1. Limits!Times(a) = <<now>>
    BY <1>1, <1>8 DEF Limits!Times
  <2>2. <<now>> = Append(<<>>, now)
    OBVIOUS
  <2>3. Past(<<>>, now)
    BY EmptySeq, NoneAtFirst DEF Past, Ordered
  <2>4. Limits!Those(<<>>, W) = <<>>
    BY ThoseOfNone
  <2>5. Past(Append(Limits!Those(<<>>, W), now), now)
    BY Zenon, <1>0, <2>3, PastAndNow
  <2>6. Limits!Those(wrong[a], W) = <<>>
    BY <1>3, <1>8
  <2> QED
    BY Zenon, <1>1, <1>3, <1>6, <2>1, <2>2, <2>4, <2>5, <2>6
<1> QED
  BY <1>7, <1>8

LEMMA FailuresFit ==
  ASSUME LimitInv, NEW a \in Addresses, NEW M \in [Addresses -> Seq(Nat)],
         M[a] = IF Limits!Trips(a) THEN <<>> ELSE Limits!Times(a),
         \A b \in Addresses : b # a => M[b] = IF b \in Limits!Dropped(Limits!SweptFailures, a) THEN <<>> ELSE wrong[b]
  PROVE  TimesFit(Limits!FailuresThen(a), M, OfWindow(now), now, Addresses)
<1>0. now \in Nat
  BY DEF LimitInv, LimitTypes
<1>1. PICK W, S : W = OfWindow(now) /\ S = Limits!SweptFailures
  OBVIOUS
<1>2. TimesFit(S, wrong, W, now, Addresses)
  BY <1>1, Sweeps
<1>3. S \in Seq(Named(Addresses, Seq(Nat))) /\ Limits!Distinct(S) /\ wrong \in [Addresses -> Seq(Nat)]
  BY <1>2 DEF TimesFit
<1>4. Past(Limits!Times(a), now) /\ a \notin Limits!Dropped(S, a)
  BY <1>1, TimesSeen
<1>s. PICK F : F = [Addresses -> Seq(Nat)] /\ wrong \in F /\ M \in F
  BY <1>3
<1>5. PICK K, H : H \in F /\
        /\ K = Limits!Known(a) /\ TimesFit(K, H, W, now, Addresses) /\ a \in Limits!Entered(K)
        /\ \A b \in Addresses : b # a => H[b] = M[b]
  <2>1. CASE a \in Limits!Entered(S)
    <3>1. Limits!Dropped(S, a) = {}
      BY <2>1 DEF Limits!Dropped, Limits!Drops
    <3>2. Limits!Known(a) = S
      BY <1>1, <2>1 DEF Limits!Known
    <3>3. \A b \in Addresses : b # a => wrong[b] = M[b]
      BY <1>1, <3>1
    <3> QED
      BY Zenon, <1>2, <1>s, <2>1, <3>2, <3>3
  <2>2. CASE a \notin Limits!Entered(S)
    <3>1. PICK z : z = <<>>
      OBVIOUS
    <3>2. Past(z, now) /\ z \in Seq(Nat)
      BY <3>1, EmptySeq, NoneAtFirst DEF Past, Ordered
    <3>3. PICK H : H = [M EXCEPT ![a] = z]
      OBVIOUS
    <3>4. H \in [Addresses -> Seq(Nat)] /\ H[a] = z /\ \A b \in Addresses : b # a => H[b] = M[b]
      BY <3>2, <3>3
    <3>5. \A b \in Addresses : b # a => /\ b \in Limits!Dropped(S, a) => H[b] = <<>>
                                        /\ b \notin Limits!Dropped(S, a) => H[b] = wrong[b]
                                             \/ H[b] = Limits!Those(wrong[b], W)
      BY <1>1, <3>4
    <3>6. TimesFit(Limits!Put(S, a, z), H, W, now, Addresses)
      BY <1>0, <1>2, <3>2, <3>4, <3>5, LimitBounds, TimesPut
    <3>7. a \in Limits!Entered(Limits!Put(S, a, z))
      <4>1. Limits!Entry(a, z) \in Limits!Members(Limits!Put(S, a, z)) /\ Limits!Entry(a, z).name = a
        <5>1. Limits!Members(Limits!Put(S, a, z))
                = {e \in Limits!Members(S) : e.name # a /\ e.name \notin Limits!Dropped(S, a)} \cup {Limits!Entry(a, z)}
          BY <1>3, <3>2, LimitBounds, PutIn
        <5> QED
          BY <5>1 DEF Limits!Entry
      <4> QED
        BY <4>1 DEF Limits!Entered
    <3>8. Limits!Known(a) = Limits!Put(S, a, z)
      BY <1>1, <2>2, <3>1 DEF Limits!Known
    <3>9. H \in F
      BY <1>s, <3>4
    <3> QED
      BY Zenon, <3>4, <3>6, <3>7, <3>8, <3>9
  <2> QED
    BY <2>1, <2>2
<1>6. CASE Limits!Trips(a)
  <2>1. TimesFit(Limits!Those(K, {e \in Limits!Members(K) : e.name # a}), M, W, now, Addresses)
    <3>1. M[a] = <<>>
      BY <1>6
    <3>2. \A b \in Addresses : b # a => M[b] = H[b]
      BY <1>5
    <3>3. MaxEntries \in Nat /\ TimesFit(K, H, W, now, Addresses)
      BY <1>5, LimitBounds
    <3> QED
      BY ONLY <1>0, <3>1, <3>2, <3>3, a \in Addresses, M \in [Addresses -> Seq(Nat)], TimesRemoved
  <2> QED
    BY <1>1, <1>5, <1>6, <2>1 DEF Limits!FailuresThen
<1>7. CASE ~Limits!Trips(a)
  <2>1. M[a] = Limits!Times(a)
    BY <1>7
  <2>2. Limits!Dropped(K, a) = {} /\ Limits!Put(K, a, Limits!Times(a)) = Limits!Set(K, a, Limits!Times(a))
    BY <1>5 DEF Limits!Dropped, Limits!Drops, Limits!Put
  <2>3. \A b \in Addresses : b # a => /\ b \in Limits!Dropped(K, a) => M[b] = <<>>
                                      /\ b \notin Limits!Dropped(K, a) => M[b] = H[b] \/ M[b] = Limits!Those(H[b], W)
    BY <1>5, <2>2
  <2>4. TimesFit(Limits!Put(K, a, Limits!Times(a)), M, W, now, Addresses)
    BY <1>0, <1>4, <1>5, <2>1, <2>3, LimitBounds, TimesPut
  <2> QED
    BY <1>1, <1>5, <1>7, <2>2, <2>4 DEF Limits!FailuresThen
<1> QED
  BY <1>6, <1>7

\* What a step through the sweep keeps, when the requests allow it.
MovesTo(r, z) ==
  /\ z \in LimitRequest /\ z.at # "run" /\ mcpReq[r].at # "run"
  /\ z.at \in Calls => z.key \in Keys
  /\ z.at \in OfAddress => z.address \in Addresses
  /\ mcpReq' = [mcpReq EXCEPT ![r] = z]
LEMMA SweptTypes ==
  ASSUME LimitInv, NEW r \in Requests, NEW z, MovesTo(r, z),
         refusals' = Limits!SweptRefusals, now' = now, active' = active, let' = let
  PROVE  LimitTypes' /\ CallsCounted'
<1>1. /\ mcpReq' \in [Requests -> LimitRequest]
      /\ \A q \in Requests : /\ mcpReq'[q].at \in Calls => mcpReq'[q].key \in Keys
                             /\ mcpReq'[q].at \in OfAddress => mcpReq'[q].address \in Addresses
      /\ \A k \in Keys : Running(k)' = Running(k)
  BY MovesOn DEF MovesTo
<1>2. refusals' \in Seq(Named(Limits!Scopes, Nat)) /\ Limits!Distinct(refusals')
  BY Sweeps
<1>3. LimitTypes'
  BY <1>1, <1>2 DEF LimitInv, LimitTypes
<1>4. CallsCounted'
  BY <1>1, CountsStay
<1> QED
  BY <1>3, <1>4

LEMMA WrongStep == ASSUME LimitInv, NEW r \in Requests, Limits!WrongCredential(r) PROVE LimitInv'
<1>0. now \in Nat /\ now' = now
  BY DEF LimitInv, LimitTypes, Limits!WrongCredential
<1>1. PICK a \in Addresses : a = mcpReq[r].address /\ mcpReq[r].at = "match"
  BY DEF LimitInv, LimitTypes, Limits!WrongCredential, Limits!At, OfAddress
<1> DEFINE left == Limits!Dropped(Limits!SweptFailures, a)
           others == [b \in Addresses |-> IF b \in left THEN <<>> ELSE wrong[b]]
           seen == Limits!Recent(Append(others[a], now))
           full == Len(seen) >= FailuresMax
<1>2. /\ failures' = Limits!FailuresThen(a)
      /\ lockedOut' = IF Limits!Trips(a) THEN Limits!Put(Limits!SweptLocks, a, now + Lockout) ELSE Limits!SweptLocks
      /\ spent' = Limits!SweptCalls /\ refusals' = Limits!SweptRefusals /\ notified' = Limits!SweptNotices
      /\ IF Limits!Trips(a) THEN Limits!Goto(r, "tell") ELSE Limits!End(r)
      /\ wrong' = [others EXCEPT ![a] = IF full THEN <<>> ELSE seen]
      /\ tripped' = [b \in Addresses |-> IF Limits!Trips(a) /\ b \in Limits!Dropped(Limits!SweptLocks, a) THEN Limits!Never
                                         ELSE IF b = a /\ full THEN now ELSE tripped[b]]
      /\ UNCHANGED <<now, active, let, notices>>
  BY <1>1 DEF Limits!WrongCredential
<1>3. seen = Limits!Times(a) /\ full = Limits!Trips(a)
  <2>1. others[a] = wrong[a]
    BY TimesSeen
  <2>2. seen = Limits!Times(a)
    BY <2>1, TimesSeen
  <2> QED
    BY <2>2 DEF Limits!Trips
<1>4. wrong' \in [Addresses -> Seq(Nat)] /\ wrong'[a] = (IF Limits!Trips(a) THEN <<>> ELSE Limits!Times(a))
      /\ \A b \in Addresses : b # a => wrong'[b] = IF b \in left THEN <<>> ELSE wrong[b]
  <2> HIDE DEF seen, full, left
  <2>1. \A b \in Addresses : wrong[b] \in Seq(Nat)
    BY DEF LimitInv, TimesFit
  <2>2. Limits!Times(a) \in Seq(Nat) /\ <<>> \in Seq(Nat)
    BY TimesSeen, EmptySeq DEF Past
  <2>3. wrong' = [others EXCEPT ![a] = IF Limits!Trips(a) THEN <<>> ELSE Limits!Times(a)]
    BY <1>2, <1>3
  <2>4. wrong' = [b \in Addresses |-> IF b = a THEN (IF Limits!Trips(a) THEN <<>> ELSE Limits!Times(a))
                                                     ELSE IF b \in left THEN <<>> ELSE wrong[b]]
    BY Zenon, <2>3
  <2>5. \A b \in Addresses : (IF b = a THEN (IF Limits!Trips(a) THEN <<>> ELSE Limits!Times(a))
                              ELSE IF b \in left THEN <<>> ELSE wrong[b]) \in Seq(Nat)
    BY <2>1, <2>2
  <2>6. wrong' \in [Addresses -> Seq(Nat)]
    BY Zenon, <2>4, <2>5
  <2> QED
    BY Zenon, <2>4, <2>6
<1>5. tripped' = [b \in Addresses |-> IF Limits!Trips(a) /\ b \in Limits!Dropped(Limits!SweptLocks, a) THEN Limits!Never
                                      ELSE IF b = a /\ Limits!Trips(a) THEN now ELSE tripped[b]]
  BY Zenon, <1>2, <1>3
<1>6. /\ failures' = Limits!FailuresThen(a) /\ spent' = Limits!SweptCalls /\ refusals' = Limits!SweptRefusals
           /\ notified' = Limits!SweptNotices
      /\ lockedOut' = IF Limits!Trips(a) THEN Limits!Put(Limits!SweptLocks, a, now + Lockout) ELSE Limits!SweptLocks
      /\ active' = active /\ let' = let /\ notices' = notices
  BY <1>2
<1>7. \E z \in LimitRequest : /\ z.at # "run"
                              /\ z.at \in Calls => z.key \in Keys
                              /\ z.at \in OfAddress => z.address \in Addresses
                              /\ mcpReq' = [mcpReq EXCEPT ![r] = z]
  <2>1. CASE Limits!Trips(a)
    <3> DEFINE z == [mcpReq[r] EXCEPT !.at = "tell"]
    <3>1. mcpReq \in [Requests -> LimitRequest]
      BY DEF LimitInv, LimitTypes
    <3>2. mcpReq' = [mcpReq EXCEPT ![r] = z]
      BY <1>2, <2>1, <3>1 DEF Limits!Goto
    <3>3. z \in LimitRequest /\ z.at = "tell" /\ z.address = a
      <4>1. mcpReq[r] \in LimitRequest
        BY <3>1
      <4> QED
        BY Zenon, <1>1, <4>1 DEF LimitRequest, OfAddress
    <3> HIDE DEF z
    <3> QED
      BY <3>2, <3>3 DEF Calls
  <2>2. CASE ~Limits!Trips(a)
    <3>1. mcpReq' = [mcpReq EXCEPT ![r] = Limits!Idle]
      BY <1>2, <2>2 DEF Limits!End
    <3>2. Limits!Idle.at \notin Calls /\ Limits!Idle.at \notin OfAddress
      BY Zenon, IdleIsARequest DEF Calls, OfAddress
    <3> QED
      BY <3>1, <3>2, IdleIsARequest
  <2> QED
    BY <2>1, <2>2
<1> HIDE DEF left, others, seen, full
<1>8. LimitTypes' /\ CallsCounted'
  <2>1. PICK z : MovesTo(r, z)
    BY <1>1, <1>7 DEF MovesTo
  <2>2. refusals' = Limits!SweptRefusals /\ now' = now /\ active' = active /\ let' = let
    BY <1>0, <1>6
  <2> QED
    BY <2>1, <2>2, SweptTypes
<1>9. TimesFit(failures', wrong', OfWindow(now), now, Addresses)
  BY <1>4, <1>6, FailuresFit DEF left
<1>10. HeldFit(lockedOut', tripped', Lockout, now, Addresses)
  <2>1. HeldFit(Limits!SweptLocks, tripped, Lockout, now, Addresses)
    BY Sweeps
  <2>2. \A b \in Addresses : tripped[b] \in Nat
    BY <2>1 DEF HeldFit
  <2>3. tripped = [b \in Addresses |-> tripped[b]]
    BY <2>1 DEF HeldFit
  <2>4. CASE Limits!Trips(a)
    <3>1. PICK m : m = Limits!SweptLocks
      OBVIOUS
    <3>2. a \notin Limits!Dropped(m, a)
      <4>1. m \in Seq(Named(Addresses, Nat)) /\ Limits!Distinct(m)
        BY <2>1, <3>1 DEF HeldFit
      <4> QED
        BY <1>0, <4>1, LimitBounds, PutIn
    <3>3. tripped' = [b \in Addresses |-> IF b \in Limits!Dropped(m, a) THEN Limits!Never
                                          ELSE IF b = a THEN now ELSE tripped[b]]
      BY <1>5, <2>4, <3>1
    <3>4. Limits!Never \in Nat /\ now + Lockout \in Nat
      BY <1>0, LimitBounds DEF Limits!Never
    <3>5. tripped' \in [Addresses -> Nat] /\ tripped'[a] = now
          /\ \A b \in Addresses : b # a => tripped'[b] = IF b \in Limits!Dropped(m, a) THEN Limits!Never ELSE tripped[b]
      BY <1>0, <2>2, <3>2, <3>3, <3>4
    <3>6. tripped'[a] # Limits!Never /\ now < tripped'[a] + Lockout => now + Lockout >= tripped'[a] + Lockout
      BY <1>0, <3>5, LimitBounds
    <3>7. HeldFit(Limits!Put(m, a, now + Lockout), tripped', Lockout, now, Addresses)
      BY <2>1, <3>1, <3>4, <3>5, <3>6, LimitBounds, HeldPut
    <3> QED
      BY <1>6, <2>4, <3>1, <3>7
  <2>5. CASE ~Limits!Trips(a)
    BY <1>5, <1>6, <2>1, <2>3, <2>5
  <2> QED
    BY <2>4, <2>5
<1>11. TimesFit(Limits!SweptCalls, let, OfMinute(now), now, Keys)
         /\ HeldFit(Limits!SweptNotices, notices, Cooldown, now, Limits!Subjects)
  BY Sweeps
<1> QED
  BY <1>0, <1>6, <1>8, <1>9, <1>10, <1>11 DEF LimitInv, OfMinute, OfWindow

LEMMA NotifyStep == ASSUME LimitInv, NEW s \in Limits!Subjects, Limits!Notify(s)
PROVE HeldFit(notified', notices', Cooldown, now, Limits!Subjects)
<1>0. now \in Nat
  BY DEF LimitInv, LimitTypes
<1>1. PICK m : m = Limits!SweptNotices /\ HeldFit(m, notices, Cooldown, now, Limits!Subjects)
  BY Sweeps
<1>2. \A x \in Limits!Subjects : notices[x] \in Nat
  BY <1>1 DEF HeldFit
<1>3. CASE Limits!Due(s)
  <2>1. notified' = Limits!Put(m, s, now + Cooldown)
        /\ notices' = [x \in Limits!Subjects |-> IF x = s THEN now
                                                 ELSE IF x \in Limits!Dropped(m, s) THEN Limits!Never ELSE notices[x]]
    BY <1>1, <1>3 DEF Limits!Notify
  <2>2. Limits!Never \in Nat /\ now + Cooldown \in Nat
    BY <1>0, LimitBounds DEF Limits!Never
  <2>3. notices' \in [Limits!Subjects -> Nat] /\ notices'[s] = now
        /\ \A x \in Limits!Subjects : x # s => notices'[x] = IF x \in Limits!Dropped(m, s) THEN Limits!Never ELSE notices[x]
    BY <1>0, <1>2, <2>1, <2>2
  <2>4. notices'[s] # Limits!Never /\ now < notices'[s] + Cooldown => now + Cooldown >= notices'[s] + Cooldown
    BY <1>0, <2>3, LimitBounds
  <2>5. HeldFit(Limits!Put(m, s, now + Cooldown), notices', Cooldown, now, Limits!Subjects)
    BY <1>1, <2>2, <2>3, <2>4, LimitBounds, HeldPut
  <2> QED
    BY <2>1, <2>5
<1>4. CASE ~Limits!Due(s)
  <2>1. notified' = m /\ notices' = [x \in Limits!Subjects |-> notices[x]]
    BY <1>1, <1>4 DEF Limits!Notify
  <2>2. notices = [x \in Limits!Subjects |-> notices[x]]
    BY <1>1 DEF HeldFit
  <2> QED
    BY <1>1, <2>1, <2>2
<1> QED
  BY <1>3, <1>4

LEMMA TellStep == ASSUME LimitInv, NEW r \in Requests, Limits!TellLockedOut(r) \/ Limits!TellOffRange(r) PROVE LimitInv'
<1>0. now \in Nat /\ now' = now
  BY DEF LimitInv, LimitTypes, Limits!TellLockedOut, Limits!TellOffRange
<1>1. PICK s \in Limits!Subjects : Limits!Notify(s)
  <2>1. mcpReq[r].address \in Addresses
    BY DEF LimitInv, LimitTypes, Limits!TellLockedOut, Limits!TellOffRange, Limits!At, OfAddress
  <2>2. \A a \in Addresses : <<"lockout", a>> \in Limits!Subjects /\ <<"off_range", a>> \in Limits!Subjects
    BY DEF Limits!Subjects
  <2> QED
    BY Zenon, <2>1, <2>2 DEF Limits!TellLockedOut, Limits!TellOffRange
<1>2. /\ mcpReq[r].at # "run" /\ mcpReq' = [mcpReq EXCEPT ![r] = Limits!Idle] /\ refusals' = Limits!SweptRefusals
      /\ UNCHANGED <<now, active, let, wrong, tripped>>
  BY Zenon DEF Limits!TellLockedOut, Limits!TellOffRange, Limits!At, Limits!End
<1>3. LimitTypes' /\ CallsCounted'
  <2>1. Limits!Idle.at \notin Calls /\ Limits!Idle.at \notin OfAddress /\ Limits!Idle.at # "run"
          /\ Limits!Idle \in LimitRequest
    BY Zenon, IdleIsARequest DEF Calls, OfAddress
  <2>2. MovesTo(r, Limits!Idle)
    BY <1>2, <2>1 DEF MovesTo
  <2> QED
    BY <1>2, <2>2, SweptTypes
<1>4. HeldFit(notified', notices', Cooldown, now, Limits!Subjects)
  BY <1>1, NotifyStep
<1>5. spent' = Limits!SweptCalls /\ failures' = Limits!SweptFailures /\ lockedOut' = Limits!SweptLocks
  BY <1>1 DEF Limits!Notify
<1>6. /\ TimesFit(Limits!SweptCalls, let, OfMinute(now), now, Keys)
           /\ TimesFit(Limits!SweptFailures, wrong, OfWindow(now), now, Addresses)
      /\ HeldFit(Limits!SweptLocks, tripped, Lockout, now, Addresses)
  BY Sweeps
<1> QED
  BY <1>0, <1>2, <1>3, <1>4, <1>5, <1>6 DEF LimitInv, OfMinute, OfWindow

LEMMA AdmitStep == ASSUME LimitInv, NEW r \in Requests, Limits!Acquire(r) PROVE LimitInv'
<1>0. now \in Nat /\ now' = now
  BY DEF LimitInv, LimitTypes, Limits!Acquire
<1>1. PICK k \in Keys : k = mcpReq[r].key /\ mcpReq[r].at = "acquire"
  BY DEF LimitInv, LimitTypes, Limits!Acquire, Limits!At, Calls
<1>a. PICK W, C : W = OfMinute(now) /\ C = Limits!SweptCalls
  OBVIOUS
<1>b. TimesFit(C, let, W, now, Keys)
  BY <1>a, Sweeps
<1>2. W = OfMinute(now) /\ C = Limits!SweptCalls /\ TimesFit(C, let, W, now, Keys)
  BY <1>a, <1>b
<1>3. \A t : Limits!InMinute(t) = Limits!Those(t, W)
  BY <1>2 DEF Limits!InMinute, OfMinute
<1>4. /\ spent' = Limits!Put(C, k, IF Limits!Free(k) THEN Append(Limits!Made(k), now) ELSE Limits!Made(k))
      /\ active' = IF Limits!Free(k) THEN [active EXCEPT ![k] = @ + 1] ELSE active
      /\ failures' = Limits!SweptFailures /\ lockedOut' = Limits!SweptLocks /\ refusals' = Limits!SweptRefusals
      /\ notified' = Limits!SweptNotices
      /\ mcpReq' = [mcpReq EXCEPT ![r].at = IF Limits!Free(k) THEN "run" ELSE "refused"]
      /\ UNCHANGED <<now, wrong, tripped, notices>>
  BY <1>1, <1>2 DEF Limits!Acquire, Limits!Goto
<1>5. /\ k \in Limits!Entered(C) => Past(Limits!Get(C, k), now)
           /\ Limits!Those(Limits!Get(C, k), W) = Limits!Those(let[k], W)
      /\ k \notin Limits!Entered(C) => Limits!Those(let[k], W) = <<>>
      /\ k \notin Limits!Dropped(C, k) /\ let[k] \in Seq(Nat)
  BY <1>0, <1>b, LimitBounds, KnownTimes
<1>6. Limits!Made(k) = Limits!Those(let[k], W) /\ Past(Limits!Made(k), now) /\ Past(Append(Limits!Made(k), now), now)
      /\ Len(Append(Limits!Made(k), now)) = Len(Limits!Made(k)) + 1
  <2>1. CASE k \in Limits!Entered(C)
    <3>1. PICK v : v = Limits!Get(C, k) /\ Past(v, now) /\ Limits!Those(v, W) = Limits!Those(let[k], W)
      BY <1>5, <2>1
    <3>2. Limits!Made(k) = Limits!Those(v, W)
      BY <1>2, <1>3, <2>1, <3>1 DEF Limits!Made
    <3>3. Past(Limits!Those(v, W), now) /\ Past(Append(Limits!Those(v, W), now), now)
          /\ Len(Append(Limits!Those(v, W), now)) = Len(Limits!Those(v, W)) + 1
      BY <1>0, <3>1, PastAndNow
    <3> QED
      BY <3>1, <3>2, <3>3
  <2>2. CASE k \notin Limits!Entered(C)
    <3>0. Past(<<>>, now)
      BY EmptySeq, NoneAtFirst DEF Past, Ordered
    <3>1. PICK z : z = <<>> /\ Past(z, now) /\ Limits!Those(z, W) = <<>>
      BY Zenon, <3>0, ThoseOfNone
    <3>2. Limits!Made(k) = z /\ Limits!Those(let[k], W) = z
      BY <1>2, <1>5, <2>2, <3>1 DEF Limits!Made
    <3>3. Past(Append(Limits!Those(z, W), now), now) /\ Len(Append(Limits!Those(z, W), now)) = Len(Limits!Those(z, W)) + 1
      BY <1>0, <3>1, PastAndNow
    <3> QED
      BY Zenon, <3>1, <3>2, <3>3
  <2> QED
    BY <2>1, <2>2
<1>7. Limits!Made(k) \in Seq(Nat) /\ Append(Limits!Made(k), now) \in Seq(Nat)
  BY <1>6 DEF Past
<1>8. let' = [x \in Keys |-> IF x = k THEN (IF Limits!Free(k) THEN Append(Limits!Made(k), now) ELSE Limits!Made(k))
                             ELSE IF x \in Limits!Dropped(C, k) THEN <<>> ELSE Limits!Those(let[x], W)]
  <2> DEFINE others == [x \in Keys |-> IF x \in Limits!Dropped(C, k) THEN <<>> ELSE Limits!InMinute(let[x])]
  <2>1. let' = IF Limits!Free(k) THEN [others EXCEPT ![k] = Append(@, now)] ELSE others
    BY <1>1, <1>2 DEF Limits!Acquire
  <2>2. others[k] = Limits!Made(k)
          /\ \A x \in Keys : others[x] = IF x \in Limits!Dropped(C, k) THEN <<>> ELSE Limits!Those(let[x], W)
    BY <1>3, <1>5, <1>6
  <2>3. others = [x \in Keys |-> others[x]]
    OBVIOUS
  <2> HIDE DEF others
  <2>4. CASE Limits!Free(k)
    <3>1. let' = [x \in Keys |-> IF x = k THEN Append(others[k], now) ELSE others[x]]
      BY <2>1, <2>3, <2>4
    <3> QED
      BY <2>2, <2>4, <3>1
  <2>5. CASE ~Limits!Free(k)
    <3>1. let' = [x \in Keys |-> others[x]]
      BY Zenon, <2>1, <2>3, <2>5
    <3> QED
      BY <2>2, <2>5, <3>1
  <2> QED
    BY <2>4, <2>5
<1>9. \A x \in Keys : let[x] \in Seq(Nat) /\ Limits!Those(let[x], W) \in Seq(Nat) /\ Len(Limits!Those(let[x], W)) \in Nat
  <2>1. ASSUME NEW x \in Keys PROVE let[x] \in Seq(Nat) /\ Limits!Those(let[x], W) \in Seq(Nat)
    <3>1. PICK t \in Seq(Nat) : t = let[x]
      BY <1>2 DEF TimesFit
    <3>2. Limits!Those(t, W) \in Seq(Nat)
      BY ThoseOnly
    <3> QED
      BY <3>1, <3>2
  <2> QED
    BY <2>1
<1>10. let' \in [Keys -> Seq(Nat)] /\ let'[k] = (IF Limits!Free(k) THEN Append(Limits!Made(k), now) ELSE Limits!Made(k))
       /\ \A x \in Keys : x # k => let'[x] = IF x \in Limits!Dropped(C, k) THEN <<>> ELSE Limits!Those(let[x], W)
  <2>1. <<>> \in Seq(Nat)
    BY EmptySeq
  <2> QED
    BY <1>7, <1>8, <1>9, <2>1
<1>11. TimesFit(spent', let', W, now, Keys)
  <2>1. PICK v : v = IF Limits!Free(k) THEN Append(Limits!Made(k), now) ELSE Limits!Made(k)
    OBVIOUS
  <2>2. Past(v, now) /\ let'[k] = v /\ spent' = Limits!Put(C, k, v)
    BY <1>4, <1>6, <1>10, <2>1
  <2>3. \A x \in Keys : x # k => /\ x \in Limits!Dropped(C, k) => let'[x] = <<>>
                                 /\ x \notin Limits!Dropped(C, k) => let'[x] = let[x] \/ let'[x] = Limits!Those(let[x], W)
    BY <1>10
  <2>4. TimesFit(Limits!Put(C, k, v), let', W, now, Keys)
    BY <1>0, <1>2, <1>10, <2>2, <2>3, LimitBounds, TimesPut
  <2> QED
    BY <2>2, <2>4
<1>12. \A x \in Keys : Len(Limits!Those(let'[x], W)) <= Rate
  <2> SUFFICES ASSUME NEW x \in Keys PROVE Len(Limits!Those(let'[x], W)) <= Rate
    OBVIOUS
  <2>1. PICK t \in Seq(Nat) : t = let'[x] /\ Len(Limits!Those(t, W)) <= Len(t) /\ Len(Limits!Those(t, W)) \in Nat
    <3>1. PICK t \in Seq(Nat) : t = let'[x]
      BY <1>10
    <3>2. Limits!Those(t, W) \in Seq(Nat) /\ Len(Limits!Those(t, W)) <= Len(t)
      BY ThoseOnly
    <3>3. Len(Limits!Those(t, W)) \in Nat
      BY <3>2
    <3> QED
      BY <3>1, <3>2, <3>3
  <2>2. \A y \in Keys : Len(Limits!Those(let[y], W)) <= Rate
    BY <1>2 DEF LimitInv, CallsCounted
  <2>3. Len(t) \in Nat /\ Len(t) <= Rate
    <3>1. CASE x = k /\ Limits!Free(k)
      <4>1. Len(Limits!Made(k)) < Rate /\ Len(t) = Len(Limits!Made(k)) + 1 /\ Len(Limits!Made(k)) \in Nat
        BY <1>6, <1>7, <1>10, <2>1, <3>1 DEF Limits!Free
      <4> QED
        BY <4>1, LimitBounds
    <3>2. CASE x = k /\ ~Limits!Free(k)
      BY <1>6, <1>10, <2>1, <2>2, <3>2
    <3>3. CASE x # k /\ x \in Limits!Dropped(C, k)
      <4>1. Len(t) = 0
        BY <1>10, <2>1, <3>3, NoneAtFirst
      <4> QED
        BY <4>1, LimitBounds
    <3>4. CASE x # k /\ x \notin Limits!Dropped(C, k)
      BY <1>10, <2>1, <2>2, <3>4
    <3> QED
      BY <3>1, <3>2, <3>3, <3>4
  <2> QED
    BY <2>1, <2>3, LimitBounds
<1>13. mcpReq \in [Requests -> LimitRequest] /\ active \in [Keys -> Nat]
  BY DEF LimitInv, LimitTypes
<1>14. /\ \A q \in Requests \ {r} : mcpReq'[q] = mcpReq[q]
       /\ mcpReq'[r].key = k /\ mcpReq'[r].at = (IF Limits!Free(k) THEN "run" ELSE "refused")
       /\ mcpReq'[r] \in LimitRequest /\ mcpReq' \in [Requests -> LimitRequest]
  <2> DEFINE z == [mcpReq[r] EXCEPT !.at = IF Limits!Free(k) THEN "run" ELSE "refused"]
  <2>0. mcpReq[r] \in LimitRequest /\ (IF Limits!Free(k) THEN "run" ELSE "refused") \in Calls
    BY <1>13 DEF Calls
  <2>1. z \in LimitRequest /\ z.key = k /\ z.at = IF Limits!Free(k) THEN "run" ELSE "refused"
    BY Zenon, <1>1, <2>0 DEF LimitRequest
  <2>2. mcpReq' = [mcpReq EXCEPT ![r] = z]
    BY <1>4, <1>13
  <2> HIDE DEF z
  <2> QED
    BY <1>13, <2>1, <2>2
<1>15. /\ \A x \in Keys : IsFiniteSet(Running(x)') /\ active'[x] = Cardinality(Running(x)') /\ active'[x] <= Slots
       /\ active' \in [Keys -> Nat]
  <2>1. \A x \in Keys : IsFiniteSet(Running(x)) /\ active[x] = Cardinality(Running(x)) /\ active[x] <= Slots
    BY DEF LimitInv, CallsCounted
  <2>2. \A x \in Keys : r \notin Running(x)
    BY <1>1 DEF Running, Limits!At
  <2>3. CASE Limits!Free(k)
    <3>1. \A x \in Keys : Running(x)' = IF x = k THEN Running(x) \cup {r} ELSE Running(x)
      BY <1>14, <2>2, <2>3 DEF Running, Limits!At
    <3>2. \A x \in Keys : active'[x] = IF x = k THEN active[k] + 1 ELSE active[x]
      BY <1>4, <1>13, <2>3
    <3>3. active[k] < Slots
      BY <2>3 DEF Limits!Free
    <3>4. IsFiniteSet(Running(k) \cup {r}) /\ Cardinality(Running(k) \cup {r}) = Cardinality(Running(k)) + 1
      <4>1. PICK X : X = Running(k) /\ IsFiniteSet(X) /\ r \notin X
        BY <2>1, <2>2
      <4>2. IsFiniteSet(X \cup {r}) /\ Cardinality(X \cup {r}) = Cardinality(X) + 1
        BY <4>1, FS_AddElement
      <4> QED
        BY <4>1, <4>2
    <3>5. active' \in [Keys -> Nat]
      BY <1>4, <1>13, <2>3
    <3> QED
      BY <1>13, <2>1, <3>1, <3>2, <3>3, <3>4, <3>5, LimitBounds
  <2>4. CASE ~Limits!Free(k)
    <3>1. \A x \in Keys : Running(x)' = Running(x)
      BY <1>14, <2>2, <2>4 DEF Running, Limits!At
    <3> QED
      BY <1>4, <1>13, <2>1, <2>4, <3>1
  <2> QED
    BY <2>3, <2>4
<1>16. LimitTypes'
  <2>1. refusals' \in Seq(Named(Limits!Scopes, Nat)) /\ Limits!Distinct(refusals')
    BY <1>4, Sweeps
  <2>2. \A q \in Requests : /\ mcpReq'[q].at \in Calls => mcpReq'[q].key \in Keys
                            /\ mcpReq'[q].at \in OfAddress => mcpReq'[q].address \in Addresses
    <3>1. mcpReq'[r].at \notin OfAddress
      BY Zenon, <1>14 DEF OfAddress
    <3> QED
      BY <1>14, <3>1 DEF LimitInv, LimitTypes
  <2>3. now' <= MaxTime
    BY <1>0 DEF LimitInv, LimitTypes
  <2> QED
    BY <1>0, <1>14, <1>15, <2>1, <2>2, <2>3 DEF LimitTypes
<1>17. CallsCounted'
  BY <1>0, <1>2, <1>12, <1>15 DEF CallsCounted, OfMinute
<1>18. /\ TimesFit(Limits!SweptFailures, wrong, OfWindow(now), now, Addresses)
       /\ HeldFit(Limits!SweptLocks, tripped, Lockout, now, Addresses)
       /\ HeldFit(Limits!SweptNotices, notices, Cooldown, now, Limits!Subjects)
  BY Sweeps
<1> QED
  BY <1>0, <1>2, <1>4, <1>11, <1>16, <1>17, <1>18 DEF LimitInv, OfMinute, OfWindow

LEMMA ReleaseStep == ASSUME LimitInv, NEW r \in Requests, Limits!Release(r) PROVE LimitInv'
<1>1. PICK k \in Keys : k = mcpReq[r].key /\ mcpReq[r].at = "run"
  BY DEF LimitInv, LimitTypes, Limits!Release, Limits!At, Calls
<1>2. mcpReq \in [Requests -> LimitRequest] /\ active \in [Keys -> Nat]
  BY DEF LimitInv, LimitTypes
<1>3. /\ active' = [active EXCEPT ![k] = IF @ > 1 THEN @ - 1 ELSE 0] /\ mcpReq' = [mcpReq EXCEPT ![r] = Limits!Idle]
      /\ UNCHANGED <<now, spent, failures, lockedOut, refusals, notified, lastSweep, let, wrong, tripped, notices>>
  BY <1>1 DEF Limits!Release, Limits!End
<1>4. Limits!Idle \in LimitRequest /\ Limits!Idle.at \notin Calls /\ Limits!Idle.at \notin OfAddress
        /\ Limits!Idle.at # "run"
  BY Zenon, IdleIsARequest DEF Calls, OfAddress
<1>5. /\ \A q \in Requests \ {r} : mcpReq'[q] = mcpReq[q]
      /\ mcpReq'[r] = Limits!Idle /\ mcpReq' \in [Requests -> LimitRequest]
  BY <1>2, <1>3, <1>4
<1>6. /\ \A x \in Keys : IsFiniteSet(Running(x)') /\ active'[x] = Cardinality(Running(x)') /\ active'[x] <= Slots
      /\ active' \in [Keys -> Nat]
  <2>1. \A x \in Keys : IsFiniteSet(Running(x)) /\ active[x] = Cardinality(Running(x)) /\ active[x] <= Slots
    BY DEF LimitInv, CallsCounted
  <2>2. \A x \in Keys : Running(x)' = IF x = k THEN Running(x) \ {r} ELSE Running(x)
    BY <1>1, <1>4, <1>5 DEF Running, Limits!At
  <2>3. r \in Running(k)
    BY <1>1 DEF Running, Limits!At
  <2>4. IsFiniteSet(Running(k) \ {r}) /\ Cardinality(Running(k) \ {r}) = Cardinality(Running(k)) - 1
    <3>1. PICK X : X = Running(k) /\ IsFiniteSet(X) /\ r \in X
      BY <2>1, <2>3
    <3>2. IsFiniteSet(X \ {r}) /\ Cardinality(X \ {r}) = Cardinality(X) - 1
      BY <3>1, FS_RemoveElement
    <3> QED
      BY <3>1, <3>2
  <2>5. Cardinality(Running(k) \ {r}) \in Nat
    BY <2>4, FS_CardinalityType
  <2>6. active[k] >= 1
    BY <1>2, <2>1, <2>4, <2>5
  <2>7. active'[k] = active[k] - 1 /\ \A x \in Keys : x # k => active'[x] = active[x]
    BY <1>2, <1>3, <2>6
  <2>8. active' \in [Keys -> Nat]
    BY <1>2, <1>3
  <2>9. IsFiniteSet(Running(k)') /\ active'[k] = Cardinality(Running(k)') /\ active'[k] <= Slots
    BY <1>2, <2>1, <2>2, <2>4, <2>7, LimitBounds
  <2>10. ASSUME NEW x \in Keys, x # k
         PROVE  IsFiniteSet(Running(x)') /\ active'[x] = Cardinality(Running(x)') /\ active'[x] <= Slots
    BY <2>1, <2>2, <2>7, <2>10
  <2> QED
    BY <2>8, <2>9, <2>10
<1>7. LimitTypes'
  BY <1>3, <1>4, <1>5, <1>6 DEF LimitInv, LimitTypes
<1>8. CallsCounted'
  BY <1>3, <1>6 DEF LimitInv, CallsCounted, OfMinute
<1> QED
  BY <1>3, <1>7, <1>8 DEF LimitInv, OfMinute, OfWindow

LEMMA TickStep == ASSUME LimitInv, Limits!Tick PROVE LimitInv'
<1>0. now \in Nat /\ now' = now + 1 /\ now' \in Nat /\ now' <= MaxTime
  BY LimitBounds DEF LimitInv, LimitTypes, Limits!Tick
<1>1. UNCHANGED <<spent, active, failures, lockedOut, refusals, notified, lastSweep, mcpReq, let, wrong, tripped, notices>>
  BY DEF Limits!Tick
<1>2. (0..now) \cap OfMinute(now + 1) \subseteq OfMinute(now) /\ (0..now) \cap OfWindow(now + 1) \subseteq OfWindow(now)
  BY <1>0, LimitBounds DEF OfMinute, OfWindow
<1>3. TimesFit(spent, let, OfMinute(now + 1), now + 1, Keys)
      /\ \A k \in Keys : Len(Limits!Those(let[k], OfMinute(now + 1))) <= Len(Limits!Those(let[k], OfMinute(now)))
  <2>1. PICK W, X : W = OfMinute(now) /\ X = OfMinute(now + 1)
    OBVIOUS
  <2>2. TimesFit(spent, let, W, now, Keys) /\ (0..now) \cap X \subseteq W
    BY <1>2, <2>1 DEF LimitInv
  <2>3. TimesFit(spent, let, X, now + 1, Keys)
          /\ \A k \in Keys : Len(Limits!Those(let[k], X)) <= Len(Limits!Those(let[k], W))
    BY <1>0, <2>2, TimesLater
  <2> QED
    BY <2>1, <2>3
<1>4. TimesFit(failures, wrong, OfWindow(now + 1), now + 1, Addresses)
  <2>1. PICK W, X : W = OfWindow(now) /\ X = OfWindow(now + 1)
    OBVIOUS
  <2>2. TimesFit(failures, wrong, W, now, Addresses) /\ (0..now) \cap X \subseteq W
    BY <1>2, <2>1 DEF LimitInv
  <2>3. TimesFit(failures, wrong, X, now + 1, Addresses)
    BY <1>0, <2>2, TimesLater
  <2> QED
    BY <2>1, <2>3
<1>5. HeldFit(lockedOut, tripped, Lockout, now + 1, Addresses)
        /\ HeldFit(notified, notices, Cooldown, now + 1, Limits!Subjects)
  BY <1>0, LimitBounds, HeldLater DEF LimitInv
<1>6. LimitTypes'
  BY <1>0, <1>1 DEF LimitInv, LimitTypes
<1>7. CallsCounted'
  <2>1. \A k \in Keys : Running(k)' = Running(k)
    BY <1>1 DEF Running, Limits!At
  <2>2. ASSUME NEW k \in Keys PROVE Len(Limits!Those(let[k], OfMinute(now + 1))) <= Rate
    <3>1. let[k] \in Seq(Nat)
      BY DEF LimitInv, TimesFit
    <3>2. PICK t, W, X : t = let[k] /\ W = OfMinute(now) /\ X = OfMinute(now + 1)
      OBVIOUS
    <3>3. Limits!Those(t, W) \in Seq(Nat) /\ Limits!Those(t, X) \in Seq(Nat)
      BY <3>1, <3>2, ThoseOnly
    <3>4. Len(Limits!Those(t, X)) \in Nat /\ Len(Limits!Those(t, W)) \in Nat
      BY <3>3
    <3>5. Len(Limits!Those(t, W)) <= Rate
      BY <3>2 DEF LimitInv, CallsCounted
    <3>6. Len(Limits!Those(t, X)) <= Len(Limits!Those(t, W))
      BY <1>3, <3>2
    <3> QED
      BY <3>2, <3>4, <3>5, <3>6, LimitBounds
  <2>3. OfMinute(now)' = OfMinute(now + 1)
    BY <1>0 DEF OfMinute
  <2> QED
    BY <1>1, <2>1, <2>2, <2>3 DEF LimitInv, CallsCounted
<1>8. OfMinute(now)' = OfMinute(now + 1) /\ OfWindow(now)' = OfWindow(now + 1)
  BY <1>0 DEF OfMinute, OfWindow
<1> QED
  BY <1>0, <1>1, <1>3, <1>4, <1>5, <1>6, <1>7, <1>8 DEF LimitInv

LEMMA LimitKept == ASSUME LimitInv, [Limits!Next]_limitVars PROVE LimitInv'
<1>1. CASE UNCHANGED limitVars
  <2>1. \A k \in Keys : Running(k)' = Running(k)
    BY <1>1 DEF limitVars, Running, Limits!At
  <2>2. LimitTypes' /\ CallsCounted'
    BY <1>1, <2>1 DEF limitVars, LimitInv, LimitTypes, CallsCounted, OfMinute
  <2> QED
    BY <1>1, <2>2 DEF limitVars, LimitInv, OfMinute, OfWindow
<1>2. CASE Limits!Next
  BY <1>2, ArriveStep, RefuseStep, LimitMatchStep, WrongStep, TellStep, AdmitStep, ReleaseStep, TickStep DEF Limits!Next
<1> QED
  BY <1>1, <1>2

LEMMA LimitGives == ASSUME LimitInv PROVE Limits!TypeOK /\ Limits!CallsLimited /\ Limits!LockoutsHold
<1>1. ASSUME NEW N, NEW V, NEW m \in Seq(Named(N, V)) PROVE Limits!Entered(m) \subseteq N
  <2>1. \A i \in 1..Len(m) : m[i] \in Named(N, V)
    OBVIOUS
  <2> QED
    BY <2>1 DEF Limits!Entered, Limits!Members, Named
<1>2. /\ spent \in Seq(Named(Keys, Seq(Nat))) /\ Limits!Distinct(spent)
      /\ failures \in Seq(Named(Addresses, Seq(Nat))) /\ Limits!Distinct(failures)
      /\ lockedOut \in Seq(Named(Addresses, Nat)) /\ Limits!Distinct(lockedOut)
      /\ notified \in Seq(Named(Limits!Subjects, Nat)) /\ Limits!Distinct(notified)
      /\ refusals \in Seq(Named(Limits!Scopes, Nat)) /\ Limits!Distinct(refusals)
  BY DEF LimitInv, LimitTypes, TimesFit, HeldFit
<1>3. Limits!TypeOK
  <2>1. now \in 0..MaxTime /\ active \in [Keys -> Nat]
    BY LimitBounds DEF LimitInv, LimitTypes
  <2>2. /\ Limits!Entered(spent) \subseteq Keys /\ Limits!Entered(failures) \subseteq Addresses
             /\ Limits!Entered(lockedOut) \subseteq Addresses
        /\ Limits!Entered(refusals) \subseteq Limits!Scopes /\ Limits!Entered(notified) \subseteq Limits!Subjects
    BY <1>1, <1>2
  <2> QED
    BY <1>2, <2>1, <2>2 DEF Limits!TypeOK
<1>4. Limits!CallsLimited
  <2>1. \A k \in Keys : Limits!InMinute(let[k]) = Limits!Those(let[k], OfMinute(now))
    BY DEF Limits!InMinute, OfMinute
  <2>2. \A S : Limits!Cardinality(S) = Cardinality(S)
    BY DEF Limits!Cardinality, Cardinality
  <2> QED
    BY <2>1, <2>2 DEF LimitInv, CallsCounted, Limits!CallsLimited, Running
<1>5. Limits!LockoutsHold
  <2> SUFFICES ASSUME NEW a \in Addresses, tripped[a] # Limits!Never, now < tripped[a] + Lockout PROVE Limits!LockedOut(a)
    BY DEF Limits!LockoutsHold
  <2>1. PICK e \in Limits!Members(lockedOut) : e.name = a /\ e.val >= tripped[a] + Lockout
    BY DEF LimitInv, HeldFit
  <2>2. a \in Limits!Entered(lockedOut) /\ Limits!Get(lockedOut, a) = e.val
    <3>1. PICK E : E = Named(Addresses, Nat)
      OBVIOUS
    <3>2. lockedOut \in Seq(E) /\ Limits!Distinct(lockedOut)
      BY <1>2, <3>1
    <3> QED
      BY <2>1, <3>2, OneEntry
  <2>3. e.val \in Nat /\ tripped[a] \in Nat /\ now \in Nat
    <3>1. \A i \in 1..Len(lockedOut) : lockedOut[i] \in Named(Addresses, Nat)
      BY <1>2
    <3> QED
      BY <2>1, <3>1 DEF LimitInv, LimitTypes, HeldFit, Limits!Members, Named
  <2> QED
    BY <2>1, <2>2, <2>3, LimitBounds DEF Limits!LockedOut
<1> QED
  BY <1>3, <1>4, <1>5

LEMMA LimitSpaces == ASSUME LimitInv, [Limits!Next]_limitVars PROVE Limits!SpacesNotices
<1>0. now \in Nat /\ \A x \in Limits!Subjects : notices[x] \in Nat
  BY DEF LimitInv, LimitTypes, HeldFit
<1>1. ASSUME NEW s \in Limits!Subjects, Limits!Notify(s) PROVE Limits!SpacesNotices
  <2> SUFFICES ASSUME NEW x \in Limits!Subjects, notices'[x] # notices[x], notices'[x] # Limits!Never,
        notices[x] # Limits!Never
      PROVE  notices'[x] >= notices[x] + Cooldown
    BY DEF Limits!SpacesNotices
  <2>1. notices'[x] = IF ~Limits!Due(s) THEN notices[x] ELSE IF x = s THEN now
                      ELSE IF x \in Limits!Dropped(Limits!SweptNotices, s) THEN Limits!Never ELSE notices[x]
    BY <1>1 DEF Limits!Notify
  <2>2. Limits!Due(s) /\ x = s /\ notices'[x] = now
    BY <2>1
  <2>3. CASE now < notices[x] + Cooldown
    <3>1. PICK m : m = Limits!SweptNotices /\ HeldFit(m, notices, Cooldown, now, Limits!Subjects)
      BY Sweeps
    <3>2. PICK e \in Limits!Members(m) : e.name = x /\ e.val >= notices[x] + Cooldown
      BY <2>3, <3>1 DEF HeldFit
    <3>3. x \in Limits!Entered(m) /\ Limits!Get(m, x) = e.val
      <4>1. PICK E : E = Named(Limits!Subjects, Nat)
        OBVIOUS
      <4>2. m \in Seq(E) /\ Limits!Distinct(m)
        BY <3>1, <4>1 DEF HeldFit
      <4> QED
        BY <3>2, <4>2, OneEntry
    <3>4. e.val <= now
      BY <2>2, <3>1, <3>3 DEF Limits!Due
    <3>5. e.val \in Nat
      <4>1. \A i \in 1..Len(m) : m[i] \in Named(Limits!Subjects, Nat)
        BY <3>1 DEF HeldFit
      <4> QED
        BY <4>1 DEF Limits!Members, Named
    <3> QED
      BY <1>0, <2>3, <3>2, <3>4, <3>5, LimitBounds
  <2> QED
    BY <1>0, <2>2, <2>3, LimitBounds
<1>2. CASE UNCHANGED notices
  BY <1>2 DEF Limits!SpacesNotices
<1>3. ASSUME NEW r \in Requests, Limits!TellLockedOut(r) \/ Limits!TellOffRange(r) PROVE Limits!SpacesNotices
  <2>1. mcpReq[r].address \in Addresses
    BY <1>3 DEF LimitInv, LimitTypes, Limits!TellLockedOut, Limits!TellOffRange, Limits!At, OfAddress
  <2>2. \A a \in Addresses : <<"lockout", a>> \in Limits!Subjects /\ <<"off_range", a>> \in Limits!Subjects
    BY DEF Limits!Subjects
  <2> QED
    BY Zenon, <1>1, <1>3, <2>1, <2>2 DEF Limits!TellLockedOut, Limits!TellOffRange
<1>4. [Limits!Next]_limitVars => UNCHANGED notices \/ \E r \in Requests : Limits!TellLockedOut(r) \/ Limits!TellOffRange(r)
  BY Zenon DEF Limits!Next, limitVars, Limits!Arrive, Limits!RefuseOffRange, Limits!Match, Limits!RefuseLockedOut,
       Limits!WrongCredential, Limits!Acquire, Limits!RefuseCall, Limits!Release, Limits!Tick
<1> QED
  BY <1>2, <1>3, <1>4

-----------------------------------------------------------------------------
\* Whatever requests overlap, whatever the tables forget and whenever they are swept, a key has
\* no more calls in flight than slots, each of them a call's, and no more within a minute than
\* its rate; an address that was locked out stays so for the whole lockout; and notices about
\* one subject keep their distance: for any limits (limits.py).
THEOREM ThrottlesHoldHolds == OutsideSpec => ThrottlesHold
<1> DEFINE Inv0 == focus = "limits" => LimitInv
<1>1. OutsideInit => Inv0
  BY LimitStart DEF OutsideInit
<1>2. Inv0 /\ [OutsideNext]_outsideVars => Inv0'
  <2> SUFFICES ASSUME Inv0, [OutsideNext]_outsideVars, focus' = "limits" PROVE LimitInv'
    OBVIOUS
  <2>1. focus = "limits" /\ LimitInv
    BY DEF OutsideNext, outsideVars
  <2>2. [Limits!Next]_limitVars
    BY <2>1 DEF OutsideNext, outsideVars
  <2> QED
    BY <2>1, <2>2, LimitKept
<1>3. Inv0 => Limited
  BY LimitGives DEF Limited
<1>4. Inv0 /\ [OutsideNext]_outsideVars => [focus = "limits" => Limits!SpacesNotices]_limitVars
  <2> SUFFICES ASSUME Inv0, [OutsideNext]_outsideVars, focus = "limits", limitVars' # limitVars
      PROVE  Limits!SpacesNotices
    OBVIOUS
  <2>1. LimitInv /\ [Limits!Next]_limitVars
    BY DEF OutsideNext, outsideVars
  <2> QED
    BY <2>1, LimitSpaces
<1> HIDE DEF Inv0
<1> QED
  BY <1>1, <1>2, <1>3, <1>4, PTL DEF OutsideSpec, ThrottlesHold

-----------------------------------------------------------------------------
(* LearnCards *)

\* R is an order on S: of two members one goes first.
Strict(R, S) ==
  /\ \A a \in S : <<a, a>> \notin R
  /\ \A a, b \in S : a # b => <<a, b>> \in R \/ <<b, a>> \in R
  /\ \A a, b, c \in S : <<a, b>> \in R /\ <<b, c>> \in R => <<a, c>> \in R
\* s is S, each of its members once, in the order R.
ListOf(s, S, R) ==
  /\ s \in Seq(S) /\ Learn!Members(s) = S /\ Learn!NoRepeats(s)
  /\ \A i, j \in 1..Len(s) : i < j => <<s[i], s[j]>> \in R

\* How many members of S come before one is a bijection between S and 0..n - 1, so Sorted, which
\* picks the member that has n before it, lists S in order.
LEMMA LearnCounts == \A T : Learn!Cardinality(T) = Cardinality(T)
  BY DEF Learn!Cardinality, Cardinality

LEMMA SortedLists ==
  ASSUME NEW S, IsFiniteSet(S), NEW R, Strict(R, S)
  PROVE  ListOf(Learn!Sorted(S, R), S, R)
<1> DEFINE Before(c) == {d \in S : <<d, c>> \in R}
           Rank(c) == Learn!Cardinality(Before(c))
           n == Learn!Cardinality(S)
           s == Learn!Sorted(S, R)
<1>1. n \in Nat /\ \A c \in S : Rank(c) \in Nat /\ IsFiniteSet(Before(c))
  BY LearnCounts, FS_CardinalityType, FS_Subset
<1>2. ASSUME NEW a \in S, NEW b \in S, <<a, b>> \in R PROVE Rank(a) < Rank(b)
  <2>1. Before(a) \in SUBSET Before(b) /\ a \in Before(b) /\ a \notin Before(a)
    BY <1>2 DEF Strict
  <2>2. Rank(a) <= Rank(b) /\ Rank(b) # Rank(a)
    BY <1>1, <2>1, LearnCounts, FS_Subset
  <2> QED
    BY <1>1, <2>2
<1>3. \A c \in S : Rank(c) \in 0..(n - 1)
  <2> SUFFICES ASSUME NEW c \in S PROVE Rank(c) \in 0..(n - 1)
    OBVIOUS
  <2>1. Before(c) \in SUBSET S /\ c \notin Before(c)
    BY DEF Strict
  <2>2. Rank(c) <= n /\ n # Rank(c)
    BY <2>1, LearnCounts, FS_Subset
  <2> QED
    BY <1>1, <2>2
<1>4. \A a, b \in S : Rank(a) = Rank(b) => a = b
  <2> SUFFICES ASSUME NEW a \in S, NEW b \in S, a # b PROVE Rank(a) # Rank(b)
    OBVIOUS
  <2>1. <<a, b>> \in R \/ <<b, a>> \in R
    BY DEF Strict
  <2>2. Rank(a) < Rank(b) \/ Rank(b) < Rank(a)
    BY <1>2, <2>1
  <2> QED
    BY <1>1, <2>2
<1>5. \A k \in 0..(n - 1) : \E c \in S : Rank(c) = k
  <2>1. PICK f, T : f = [c \in S |-> Rank(c)] /\ T = 0..(n - 1)
    OBVIOUS
  <2>2. f \in Injection(S, T)
    <3>1. f \in [S -> T]
      BY <1>3, <2>1
    <3> QED
      <4> HIDE DEF Rank
      <4> QED
        BY <1>4, <2>1, <3>1 DEF Injection, IsInjective
  <2>3. IsFiniteSet(T) /\ Cardinality(T) = Cardinality(S)
    BY <1>1, <2>1, FS_Interval, LearnCounts
  <2>4. f \in Surjection(S, T)
    BY <2>2, <2>3, FS_Injection
  <2> QED
    BY <2>1, <2>4 DEF Surjection
<1>6. s = [i \in 1..n |-> CHOOSE c \in S : Rank(c) = i - 1]
  BY DEF Learn!Sorted
<1>7. \A i \in 1..n : s[i] \in S /\ Rank(s[i]) = i - 1
  <2> SUFFICES ASSUME NEW i \in 1..n PROVE s[i] \in S /\ Rank(s[i]) = i - 1
    OBVIOUS
  <2>1. \E c \in S : Rank(c) = i - 1
    <3> HIDE DEF n, Rank
    <3>1. i - 1 \in 0..(n - 1)
      BY <1>1
    <3> QED
      BY <1>5, <3>1
  <2>2. s[i] = CHOOSE c \in S : Rank(c) = i - 1
    BY <1>6
  <2> HIDE DEF s, Rank
  <2> QED
    BY <2>1, <2>2
<1> HIDE DEF Rank
<1>8. s \in Seq(S) /\ Len(s) = n /\ DOMAIN s = 1..n
  <2>1. s \in [1..n -> S]
    BY <1>6, <1>7
  <2>2. PICK t, k : t = s /\ k = n
    OBVIOUS
  <2>3. t \in Seq(S) /\ Len(t) = k /\ DOMAIN t = 1..k
    BY ONLY <1>1, <2>1, <2>2
  <2> QED
    BY <2>2, <2>3
<1>9. \A c \in S : \E i \in 1..n : s[i] = c
  <2> SUFFICES ASSUME NEW c \in S PROVE \E i \in 1..n : s[i] = c
    OBVIOUS
  <2>1. Rank(c) \in 0..(n - 1)
    BY <1>3
  <2>2. Rank(c) + 1 \in 1..n /\ (Rank(c) + 1) - 1 = Rank(c)
    BY <1>1, <2>1
  <2> HIDE DEF s, n
  <2> QED
    BY <1>4, <1>7, <2>2
<1> HIDE DEF s, n
<1>10. \A i, j \in 1..n : i # j => s[i] # s[j]
  BY <1>1, <1>7
<1>11. ASSUME NEW i \in 1..n, NEW j \in 1..n, i < j PROVE <<s[i], s[j]>> \in R
  <2>1. s[i] \in S /\ s[j] \in S /\ Rank(s[i]) < Rank(s[j]) /\ s[i] # s[j]
    BY <1>1, <1>7, <1>10, <1>11
  <2>2. ~(Rank(s[j]) < Rank(s[i]))
    BY <1>1, <1>7, <1>11
  <2>3. PICK a \in S, b \in S : a = s[i] /\ b = s[j]
    BY <2>1
  <2>4. <<a, b>> \in R \/ <<b, a>> \in R
    BY <2>1, <2>3 DEF Strict
  <2> QED
    BY <1>2, <2>2, <2>3, <2>4
<1>12. Learn!Members(s) = S /\ Learn!NoRepeats(s)
  BY <1>7, <1>8, <1>9, <1>10 DEF Learn!Members, Learn!NoRepeats
<1> QED
  BY <1>8, <1>11, <1>12 DEF ListOf, s

LEMMA Fewer == \A a, b \in Nat : Learn!Less(a, b) \in Nat /\ Learn!Less(a, b) = IF a <= b THEN a ELSE b
  BY DEF Learn!Less

\* What is first: as many as asked for, or all.
LEMMA Firsts ==
  ASSUME NEW S, NEW s \in Seq(S), NEW n \in Nat
  PROVE  LET f == Learn!First(n, s)
         IN /\ f \in Seq(S) /\ Len(f) = (IF n <= Len(s) THEN n ELSE Len(s))
            /\ \A i \in 1..Len(f) : f[i] = s[i] /\ i \in 1..Len(s)
<1> DEFINE m == Learn!Less(n, Len(s))
           f == [i \in 1..m |-> s[i]]
<1>1. Len(s) \in Nat
  BY LenProperties
<1>2. m \in Nat /\ m = IF n <= Len(s) THEN n ELSE Len(s)
  BY <1>1, Fewer
<1> HIDE DEF m
<1>3. \A i \in 1..m : i \in 1..Len(s) /\ s[i] \in S
  BY <1>1, <1>2
<1>4. f \in [1..m -> S]
  BY <1>3
<1>5. f \in Seq(S) /\ Len(f) = m
  <2>1. PICK t, k : t = f /\ k = m
    OBVIOUS
  <2>2. t \in Seq(S) /\ Len(t) = k
    BY ONLY <1>1, <1>2, <1>4, <2>1
  <2> QED
    BY <2>1, <2>2
<1>6. Learn!First(n, s) = f
  BY DEF Learn!First, m
<1> QED
  BY <1>1, <1>2, <1>3, <1>5, <1>6

\* One list and then another, cut: nothing twice, filled when there is enough, and as long as
\* something of the first list is left out nothing of the second is in.
Cut(r, A, B, R, n) ==
  /\ Learn!NoRepeats(r) /\ Learn!Members(r) \subseteq A \cup B /\ Len(r) <= n
  /\ Len(r) < n => A \cup B \subseteq Learn!Members(r)
  /\ \A a \in A : a \notin Learn!Members(r) => Learn!Members(r) \subseteq A
  /\ \A a \in A \cap Learn!Members(r), b \in A : b \notin Learn!Members(r) => <<a, b>> \in R
LEMMA CutLists ==
  ASSUME NEW A, NEW B, A \cap B = {}, NEW R, NEW Q, NEW n \in Nat,
         NEW s, NEW t, ListOf(s, A, R), ListOf(t, B, Q)
  PROVE  Cut(Learn!First(n, s \o t), A, B, R, n)
<1> DEFINE u == s \o t
           r == Learn!First(n, u)
           k == Len(s)
           l == Len(t)
<1>1. k \in Nat /\ l \in Nat /\ DOMAIN s = 1..k /\ DOMAIN t = 1..l
  BY LenProperties DEF ListOf
<1>2. u \in Seq(A \cup B) /\ Len(u) = k + l /\ \A i \in 1..(k + l) : u[i] = IF i <= k THEN s[i] ELSE t[i - k]
  <2>1. s \in Seq(A \cup B) /\ t \in Seq(A \cup B)
    BY SeqMonotonic DEF ListOf
  <2> QED
    BY <2>1, ConcatProperties
<1> DEFINE m == IF n <= k + l THEN n ELSE k + l
<1>3. r \in Seq(A \cup B) /\ Len(r) = m /\ DOMAIN r = 1..m /\ \A i \in 1..m : r[i] = u[i] /\ i \in 1..(k + l)
  <2>1. PICK C : C = A \cup B
    OBVIOUS
  <2>2. u \in Seq(C)
    BY <1>2, <2>1
  <2>3. r \in Seq(C) /\ Len(r) = m /\ \A i \in 1..Len(r) : r[i] = u[i] /\ i \in 1..Len(u)
    BY <1>2, <2>2, Firsts
  <2> QED
    BY <1>2, <2>1, <2>3, LenProperties
<1>4. \A i \in 1..k : s[i] \in A /\ \A j \in 1..k : (i # j => s[i] # s[j]) /\ (i < j => <<s[i], s[j]>> \in R)
  BY <1>1 DEF ListOf, Learn!Members, Learn!NoRepeats
<1>5. \A i \in 1..l : t[i] \in B /\ \A j \in 1..l : i # j => t[i] # t[j]
  BY <1>1 DEF ListOf, Learn!Members, Learn!NoRepeats
<1>6. /\ \A a \in A : \E i \in 1..k : s[i] = a
      /\ \A b \in B : \E i \in 1..l : t[i] = b
  BY <1>1 DEF ListOf, Learn!Members
<1>7. m \in Nat /\ m <= n /\ m <= k + l /\ (m < n => m = k + l)
  BY <1>1
<1>8. \A i \in 1..m : \/ i \in 1..k /\ r[i] = s[i]
                      \/ i > k /\ i - k \in 1..l /\ r[i] = t[i - k]
  BY <1>1, <1>2, <1>3, <1>7
<1> HIDE DEF m, r, u, k, l
<1>9. Learn!NoRepeats(r)
  <2> SUFFICES ASSUME NEW i \in 1..m, NEW j \in 1..m, i < j PROVE r[i] # r[j]
    BY <1>3, <1>7 DEF Learn!NoRepeats
  <2>1. CASE j <= k
    <3>1. i \in 1..k /\ j \in 1..k /\ r[i] = s[i] /\ r[j] = s[j] /\ i # j
      BY <1>1, <1>7, <1>8, <2>1
    <3> QED
      BY <1>4, <3>1
  <2>2. CASE i <= k /\ j > k
    <3>1. r[i] \in A /\ r[j] \in B
      BY <1>1, <1>4, <1>5, <1>7, <1>8, <2>2
    <3> QED
      BY <3>1
  <2>3. CASE i > k
    <3>1. i - k \in 1..l /\ j - k \in 1..l /\ i - k # j - k /\ r[i] = t[i - k] /\ r[j] = t[j - k]
      BY <1>1, <1>7, <1>8, <2>3
    <3> QED
      BY <1>5, <3>1
  <2> QED
    BY <1>1, <1>7, <2>1, <2>2, <2>3
<1>10. Learn!Members(r) = {r[i] : i \in 1..m}
  BY <1>3 DEF Learn!Members
<1>11. Learn!Members(r) \subseteq A \cup B
  BY <1>4, <1>5, <1>8, <1>10
<1>12. \A i \in 1..k : i <= m => i \in 1..m /\ r[i] = s[i]
  BY <1>1, <1>7, <1>8
<1>13. ASSUME m = k + l PROVE A \cup B \subseteq Learn!Members(r)
  <2>1. \A i \in 1..l : i + k \in 1..m /\ r[i + k] = t[i]
    <3> SUFFICES ASSUME NEW i \in 1..l PROVE i + k \in 1..m /\ r[i + k] = t[i]
      OBVIOUS
    <3>1. i + k \in 1..m /\ ~(i + k \in 1..k) /\ (i + k) - k = i
      BY <1>1, <1>13
    <3> QED
      BY <1>8, <3>1
  <2>2. \A i \in 1..k : i \in 1..m /\ r[i] = s[i]
    BY <1>1, <1>12, <1>13
  <2> QED
    BY <1>6, <1>10, <2>1, <2>2
<1>14. ASSUME NEW a \in A, a \notin Learn!Members(r) PROVE m < k /\ Learn!Members(r) \subseteq A
  <2>1. PICK i \in 1..k : s[i] = a
    BY <1>6
  <2>2. ~(i <= m)
    BY <1>10, <1>12, <1>14, <2>1
  <2>3. m < k
    BY <1>1, <1>7, <2>2
  <2>4. \A j \in 1..m : r[j] \in A
    BY <1>1, <1>4, <1>7, <1>8, <2>3
  <2> QED
    BY <1>10, <2>3, <2>4
<1>15. ASSUME NEW a \in A \cap Learn!Members(r), NEW b \in A, b \notin Learn!Members(r) PROVE <<a, b>> \in R
  <2>1. PICK i \in 1..m : r[i] = a
    BY <1>10
  <2>2. m < k
    BY <1>14, <1>15
  <2>3. PICK j \in 1..k : s[j] = b
    BY <1>6
  <2>4. m < j
    BY <1>1, <1>7, <1>10, <1>12, <1>15, <2>3
  <2>5. i \in 1..k /\ s[i] = a /\ i < j
    BY <1>1, <1>7, <1>8, <2>1, <2>2, <2>4
  <2> QED
    BY <1>4, <2>3, <2>5
<1>16. Len(r) \in Nat /\ Len(r) <= n /\ (Len(r) < n => A \cup B \subseteq Learn!Members(r))
  BY <1>3, <1>7, <1>13
<1> QED
  BY <1>9, <1>11, <1>14, <1>15, <1>16 DEF Cut, r, u

\* What is first of one list, filled up from another, is what is first of both.
LEMMA FilledUp ==
  ASSUME NEW S, NEW s \in Seq(S), NEW t \in Seq(S), NEW n \in Nat
  PROVE  LET f == Learn!First(n, s) IN f \o Learn!First(n - Len(f), t) = Learn!First(n, s \o t)
<1> DEFINE f == Learn!First(n, s)
           g == Learn!First(n - Len(f), t)
           h == Learn!First(n, s \o t)
<1>1. Len(s) \in Nat /\ Len(t) \in Nat
  BY LenProperties
<1>2. f \in Seq(S) /\ Len(f) = (IF n <= Len(s) THEN n ELSE Len(s)) /\ \A i \in 1..Len(f) : f[i] = s[i]
  BY Firsts
<1>3. n - Len(f) \in Nat
  BY <1>1, <1>2
<1>4. /\ g \in Seq(S) /\ Len(g) = (IF n - Len(f) <= Len(t) THEN n - Len(f) ELSE Len(t))
      /\ \A i \in 1..Len(g) : g[i] = t[i]
  <2> HIDE DEF f
  <2> QED
    BY <1>3, Firsts
<1>5. /\ s \o t \in Seq(S) /\ Len(s \o t) = Len(s) + Len(t)
      /\ \A i \in 1..(Len(s) + Len(t)) : (s \o t)[i] = IF i <= Len(s) THEN s[i] ELSE t[i - Len(s)]
  BY ConcatProperties
<1>6. /\ h \in Seq(S) /\ Len(h) = (IF n <= Len(s) + Len(t) THEN n ELSE Len(s) + Len(t))
      /\ \A i \in 1..Len(h) : h[i] = (s \o t)[i] /\ i \in 1..(Len(s) + Len(t))
  BY <1>5, Firsts
<1> HIDE DEF f, g, h
<1>7. /\ f \o g \in Seq(S) /\ Len(f \o g) = Len(f) + Len(g)
      /\ \A i \in 1..(Len(f) + Len(g)) : (f \o g)[i] = IF i <= Len(f) THEN f[i] ELSE g[i - Len(f)]
  <2>1. PICK p \in Seq(S), q \in Seq(S) : p = f /\ q = g
    BY <1>2, <1>4
  <2> QED
    BY <2>1, ConcatProperties
<1>8. Len(f \o g) = Len(h)
  <2>1. Len(f) \in Nat /\ Len(g) \in Nat
    BY <1>1, <1>2, <1>3, <1>4
  <2>2. Len(f \o g) = Len(f) + Len(g)
    BY <1>7
  <2>3. CASE n <= Len(s)
    BY <1>1, <1>2, <1>4, <1>6, <2>1, <2>2, <2>3
  <2>4. CASE ~(n <= Len(s))
    <3>1. Len(f) = Len(s) /\ n - Len(f) \in Nat
      BY <1>2, <1>3, <2>4
    <3>2. CASE n <= Len(s) + Len(t)
      BY <1>1, <1>4, <1>6, <2>1, <2>2, <3>1, <3>2
    <3>3. CASE ~(n <= Len(s) + Len(t))
      BY <1>1, <1>4, <1>6, <2>1, <2>2, <3>1, <3>3
    <3> QED
      BY <3>2, <3>3
  <2> QED
    BY <2>3, <2>4
<1>9. \A i \in 1..Len(f \o g) : (f \o g)[i] = h[i]
  <2> SUFFICES ASSUME NEW i \in 1..Len(f \o g) PROVE (f \o g)[i] = h[i]
    OBVIOUS
  <2>1. h[i] = IF i <= Len(s) THEN s[i] ELSE t[i - Len(s)]
    BY <1>5, <1>6, <1>8
  <2>2. CASE i <= Len(f)
    BY <1>1, <1>2, <1>4, <1>7, <2>1, <2>2
  <2>3. CASE ~(i <= Len(f))
    <3>1. i - Len(f) \in 1..Len(g) /\ (f \o g)[i] = g[i - Len(f)]
      <4>1. Len(f) \in Nat /\ Len(g) \in Nat /\ i \in 1..(Len(f) + Len(g))
        BY <1>1, <1>2, <1>3, <1>4, <1>7
      <4> QED
        BY <1>7, <2>3, <4>1
    <3>2. Len(f) = Len(s)
      BY <1>1, <1>2, <1>3, <1>4, <3>1
    <3> QED
      BY <1>1, <1>4, <2>1, <2>3, <3>1, <3>2
  <2> QED
    BY <2>2, <2>3
<1>10. f \o g = h
  BY <1>6, <1>7, <1>8, <1>9, SeqEqual
<1> QED
  BY <1>10 DEF f, g, h

-----------------------------------------------------------------------------
\* Questions in progress and how the cards stand.
Standing == [box : 0..5, due : Nat, total : Nat]
LearnInv ==
  /\ cards \in [Cards -> Levels \cup {0}] /\ day \in Nat
  /\ cardState \in [Cards -> Standing] /\ reviews \in [Cards -> Nat]
  /\ answering \in [Readers -> [card : Cards \cup {0}, read : Standing, now : Nat]]
  /\ \A r \in Readers : answering[r].now <= day
  /\ \A c \in Cards : /\ reviews[c] > 0 <=> cardState[c].box > 0
                      /\ cardState[c].due <= day + 30
                      /\ c \notin doubled => cardState[c].total = reviews[c]
  /\ \A r \in Readers, q \in Readers :
       answering[r].card # 0 /\ answering[r].card \notin doubled =>
         /\ answering[r].read.total = cardState[answering[r].card].total
         /\ answering[q].card = answering[r].card => q = r

LEMMA LearnStart == ASSUME OutsideInit PROVE LearnInv
<1>1. Learn!Init /\ Learn!NoState \in Standing /\ Learn!NoState.box = 0 /\ Learn!NoState.total = 0 /\ Learn!NoState.due = 0
  BY DEF OutsideInit, Learn!NoState, Standing
<1>2. Learn!NoAnswer = [card |-> 0, read |-> Learn!NoState, now |-> 0]
  BY DEF Learn!NoAnswer
<1> QED
  BY <1>1, <1>2, LearnAssumption DEF Learn!Init, LearnInv

LEMMA Regraded ==
  ASSUME NEW s \in Standing, NEW g \in {"good", "hard", "fail"}, NEW n \in Nat
  PROVE  LET u == Learn!Graded(s, g, n)
         IN u \in Standing /\ u.box > 0 /\ u.due <= n + 30 /\ u.total = s.total + 1
<1> DEFINE b == Learn!Box(s.box, g)
<1>1. s.box \in 0..5 /\ s.total \in Nat
  BY DEF Standing
<1>2. b \in 1..5
  <2>1. Learn!Less(s.box + 1, 5) \in 1..5
    BY <1>1 DEF Learn!Less
  <2> QED
    BY <1>1, <2>1 DEF Learn!Box
<1>3. Learn!Interval[b] \in 1..30
  BY <1>2 DEF Learn!Interval
<1>4. Learn!Graded(s, g, n) = [box |-> b, due |-> n + Learn!Interval[b], total |-> s.total + 1]
  BY DEF Learn!Graded
<1> HIDE DEF b
<1>5. n + Learn!Interval[b] \in Nat /\ n + Learn!Interval[b] <= n + 30 /\ s.total + 1 \in Nat /\ b \in 0..5 /\ b > 0
  BY <1>1, <1>2, <1>3
<1> QED
  BY <1>4, <1>5 DEF Standing

LEMMA LearnRead == ASSUME LearnInv, NEW r \in Readers, NEW c \in Cards, Learn!Read(r, c) PROVE LearnInv'
<1>1. answering[r].card = 0 /\ c # 0
  BY LearnAssumption DEF Learn!Read
<1>2. UNCHANGED <<cards, cardState, day, reviews>>
  BY DEF Learn!Read
<1>3. answering' = [answering EXCEPT ![r] = [card |-> c, read |-> cardState[c], now |-> day]]
  BY DEF Learn!Read
<1>4. \A d : d \notin doubled' => d \notin doubled
  BY DEF Learn!Read
<1>5. c \notin doubled' => \A q \in Readers : answering[q].card # c
  BY DEF Learn!Read
<1>6. \A q \in Readers : answering'[q] = IF q = r THEN [card |-> c, read |-> cardState[c], now |-> day] ELSE answering[q]
  BY <1>3 DEF LearnInv
<1>7. answering' \in [Readers -> [card : Cards \cup {0}, read : Standing, now : Nat]]
  BY <1>3 DEF LearnInv
<1>8. \A p \in Readers, q \in Readers :
        answering'[p].card # 0 /\ answering'[p].card \notin doubled' =>
          /\ answering'[p].read.total = cardState[answering'[p].card].total
          /\ answering'[q].card = answering'[p].card => q = p
  <2> SUFFICES ASSUME NEW p \in Readers, NEW q \in Readers,
                      answering'[p].card # 0, answering'[p].card \notin doubled'
               PROVE  /\ answering'[p].read.total = cardState[answering'[p].card].total
                      /\ answering'[q].card = answering'[p].card => q = p
    OBVIOUS
  <2>1. CASE p = r
    BY <1>5, <1>6, <2>1
  <2>2. CASE p # r
    <3>1. answering'[p] = answering[p] /\ answering[p].card \notin doubled
      BY <1>4, <1>6, <2>2
    <3>2. answering[p].card # c
      BY <1>5, <3>1
    <3> QED
      BY <1>6, <3>1, <3>2 DEF LearnInv
  <2> QED
    BY <2>1, <2>2
<1>9. \A q \in Readers : answering'[q].now <= day
  BY <1>6 DEF LearnInv
<1> QED
  BY <1>2, <1>4, <1>7, <1>8, <1>9 DEF LearnInv

LEMMA LearnWrite ==
  ASSUME LearnInv, NEW r \in Readers, NEW g \in {"good", "hard", "fail"}, Learn!Write(r, g)
  PROVE  LearnInv' /\ \A d \in Cards : cardState[d].total > 0 => cardState'[d].total > 0
<1> DEFINE c == answering[r].card
           u == Learn!Graded(answering[r].read, g, answering[r].now)
<1>1. c \in Cards /\ c # 0
  BY DEF Learn!Write, LearnInv
<1>2. UNCHANGED <<cards, day, doubled>> /\ cardState' = [cardState EXCEPT ![c] = u]
      /\ reviews' = [reviews EXCEPT ![c] = @ + 1] /\ answering' = [answering EXCEPT ![r] = Learn!NoAnswer]
  BY DEF Learn!Write
<1>3. answering[r].read \in Standing /\ answering[r].now \in Nat /\ answering[r].now <= day /\ day \in Nat
  BY DEF LearnInv
<1>4. u \in Standing /\ u.box > 0 /\ u.due <= answering[r].now + 30 /\ u.total = answering[r].read.total + 1
  BY <1>3, Regraded
<1>5. u.due <= day + 30 /\ u.due \in Nat /\ u.total \in Nat /\ u.total > 0
  BY <1>3, <1>4 DEF Standing
<1> HIDE DEF u
<1>6. /\ \A d \in Cards : cardState'[d] = IF d = c THEN u ELSE cardState[d]
      /\ \A d \in Cards : reviews'[d] = IF d = c THEN reviews[c] + 1 ELSE reviews[d]
      /\ cardState' \in [Cards -> Standing] /\ reviews' \in [Cards -> Nat]
  BY <1>1, <1>2, <1>4 DEF LearnInv
<1>7. Learn!NoAnswer \in [card : Cards \cup {0}, read : Standing, now : Nat] /\ Learn!NoAnswer.card = 0
      /\ Learn!NoAnswer.now = 0
  BY DEF Learn!NoAnswer, Learn!NoState, Standing
<1>8. \A q \in Readers : answering'[q] = IF q = r THEN Learn!NoAnswer ELSE answering[q]
  BY <1>2 DEF LearnInv
<1>9. answering' \in [Readers -> [card : Cards \cup {0}, read : Standing, now : Nat]]
  BY <1>2, <1>7 DEF LearnInv
<1>10. \A d \in Cards : /\ reviews'[d] > 0 <=> cardState'[d].box > 0
                        /\ cardState'[d].due <= day + 30
                        /\ d \notin doubled => cardState'[d].total = reviews'[d]
  <2> SUFFICES ASSUME NEW d \in Cards
               PROVE  /\ reviews'[d] > 0 <=> cardState'[d].box > 0
                      /\ cardState'[d].due <= day + 30
                      /\ d \notin doubled => cardState'[d].total = reviews'[d]
    OBVIOUS
  <2>1. CASE d # c
    BY <1>6, <2>1 DEF LearnInv
  <2>2. CASE d = c
    <3>1. reviews[c] \in Nat /\ (c \notin doubled => answering[r].read.total = reviews[c])
      BY <1>1 DEF LearnInv
    <3> QED
      BY <1>4, <1>5, <1>6, <2>2, <3>1
  <2> QED
    BY <2>1, <2>2
<1>11. \A p \in Readers, q \in Readers :
        answering'[p].card # 0 /\ answering'[p].card \notin doubled =>
          /\ answering'[p].read.total = cardState'[answering'[p].card].total
          /\ answering'[q].card = answering'[p].card => q = p
  <2> SUFFICES ASSUME NEW p \in Readers, NEW q \in Readers,
                      answering'[p].card # 0, answering'[p].card \notin doubled
               PROVE  /\ answering'[p].read.total = cardState'[answering'[p].card].total
                      /\ answering'[q].card = answering'[p].card => q = p
    OBVIOUS
  <2>1. p # r /\ answering'[p] = answering[p]
    BY <1>7, <1>8
  <2>2. answering[p].card # c /\ answering[p].card \in Cards
    BY <2>1 DEF LearnInv
  <2>3. cardState'[answering[p].card] = cardState[answering[p].card]
    BY <1>6, <2>2
  <2>4. answering[p].read.total = cardState[answering[p].card].total
    BY <2>1 DEF LearnInv
  <2>5. answering'[q].card = answering'[p].card => q = p
    BY <1>7, <1>8, <2>1 DEF LearnInv
  <2> QED
    BY <2>1, <2>3, <2>4, <2>5
<1>12. \A q \in Readers : answering'[q].now <= day
  BY <1>3, <1>7, <1>8 DEF LearnInv
<1>13. \A d \in Cards : cardState[d].total > 0 => cardState'[d].total > 0
  BY <1>5, <1>6
<1> QED
  BY <1>2, <1>6, <1>9, <1>10, <1>11, <1>12, <1>13 DEF LearnInv

LEMMA LearnRestart == ASSUME LearnInv, NEW s \in Seeds, Learn!Restart(s) PROVE LearnInv'
<1>1. s \in [Cards -> Levels \cup {0}]
  BY LearnAssumption
<1>2. UNCHANGED <<day, doubled>> /\ cards' = s
      /\ cardState' = [d \in Cards |-> IF s[d] = 0 THEN Learn!NoState ELSE cardState[d]]
      /\ reviews' = [d \in Cards |-> IF s[d] = 0 THEN 0 ELSE reviews[d]]
      /\ answering' = [q \in Readers |-> Learn!NoAnswer]
  BY DEF Learn!Restart, Learn!NoLevel
<1>3. Learn!NoState \in Standing /\ Learn!NoState.box = 0 /\ Learn!NoState.total = 0 /\ Learn!NoState.due = 0
  BY DEF Learn!NoState, Standing
<1>4. Learn!NoAnswer = [card |-> 0, read |-> Learn!NoState, now |-> 0]
  BY DEF Learn!NoAnswer
<1>5. cardState' \in [Cards -> Standing] /\ reviews' \in [Cards -> Nat]
      /\ answering' \in [Readers -> [card : Cards \cup {0}, read : Standing, now : Nat]]
  BY <1>2, <1>3, <1>4 DEF LearnInv
<1>6. \A d \in Cards : /\ reviews'[d] > 0 <=> cardState'[d].box > 0
                       /\ cardState'[d].due <= day + 30
                       /\ d \notin doubled => cardState'[d].total = reviews'[d]
  BY <1>2, <1>3 DEF LearnInv
<1> QED
  BY <1>1, <1>2, <1>4, <1>5, <1>6 DEF LearnInv

LEMMA LearnDays == ASSUME LearnInv, NEW n \in {1, 3}, Learn!DaysPass(n) PROVE LearnInv'
<1>1. day \in Nat /\ day' = day + n /\ UNCHANGED <<cards, cardState, answering, reviews, doubled>>
  BY DEF Learn!DaysPass, LearnInv
<1>2. \A k \in Nat : (k <= day => k <= day') /\ (k <= day + 30 => k <= day' + 30)
  BY <1>1
<1>3. \A q \in Readers : answering[q].now \in Nat /\ answering[q].now <= day
  BY DEF LearnInv
<1>4. \A d \in Cards : cardState[d].due \in Nat /\ cardState[d].due <= day + 30
  BY DEF LearnInv, Standing
<1>5. day' \in Nat /\ (\A q \in Readers : answering[q].now <= day') /\ \A d \in Cards : cardState[d].due <= day' + 30
  BY <1>1, <1>2, <1>3, <1>4
<1> QED
  BY <1>1, <1>5 DEF LearnInv

LEMMA LearnNext == ASSUME LearnInv, OutsideNext \/ UNCHANGED outsideVars PROVE LearnInv'
<1>1. CASE UNCHANGED learnVars
  BY <1>1 DEF LearnInv, learnVars
<1>2. CASE Learn!Next
  BY <1>2, LearnRead, LearnWrite, LearnRestart, LearnDays DEF Learn!Next
<1>3. UNCHANGED learnVars \/ Learn!Next
  BY Zenon DEF OutsideNext, outsideVars
<1> QED
  BY <1>1, <1>2, <1>3

-----------------------------------------------------------------------------
\* The orders of sessions have no ties.
LEMMA OrdersStrict ==
  ASSUME LearnInv, NEW S \in SUBSET Cards
  PROVE  Strict(Learn!ByDay, S) /\ Strict(Learn!ByLevel, S) /\ Strict(Learn!InOrder, S)
<1>1. \A c \in S : c \in Cards /\ c \in Nat /\ cards[c] \in Nat /\ cardState[c].due \in Nat
  <2> SUFFICES ASSUME NEW c \in S PROVE c \in Nat /\ cards[c] \in Nat /\ cardState[c].due \in Nat
    OBVIOUS
  <2>1. cards[c] \in Levels \cup {0} /\ cardState[c] \in Standing
    BY DEF LearnInv
  <2>2. Levels \cup {0} \subseteq Nat /\ Cards \subseteq Nat
    BY LearnAssumption
  <2>3. cardState[c].due \in Nat
    BY <2>1 DEF Standing
  <2> QED
    BY <2>1, <2>2, <2>3
<1>2. \A a, b \in S : <<a, b>> \in Learn!InOrder <=> a < b
  BY <1>1 DEF Learn!InOrder
<1>3. \A a, b \in S : <<a, b>> \in Learn!ByDay <=>
        cardState[a].due < cardState[b].due \/ (cardState[a].due = cardState[b].due /\ a < b)
  BY <1>1, <1>2 DEF Learn!ByDay
<1>4. \A a, b \in S : <<a, b>> \in Learn!ByLevel <=> cards[a] < cards[b] \/ (cards[a] = cards[b] /\ a < b)
  BY <1>1, <1>2 DEF Learn!ByLevel
<1>5. Strict(Learn!InOrder, S)
  BY <1>1, <1>2 DEF Strict
<1>6. Strict(Learn!ByDay, S)
  BY <1>1, <1>3 DEF Strict
<1>7. Strict(Learn!ByLevel, S)
  BY <1>1, <1>4 DEF Strict
<1> QED
  BY <1>5, <1>6, <1>7

\* A session, of all levels or of one, is a cut of what is due and what else there is.
LEMMA SessionsCut ==
  ASSUME LearnInv, NEW A \in SUBSET Cards, NEW B \in SUBSET Cards, A \cap B = {},
         NEW Q, Strict(Q, B), NEW r,
         \/ LET due == Learn!First(Size, Learn!Sorted(A, Learn!ByDay))
            IN r = due \o Learn!First(Size - Len(due), Learn!Sorted(B, Q))
         \/ r = Learn!First(Size, Learn!Sorted(A, Learn!ByDay) \o Learn!Sorted(B, Q))
  PROVE  Cut(r, A, B, Learn!ByDay, Size)
<1> DEFINE s == Learn!Sorted(A, Learn!ByDay)
           t == Learn!Sorted(B, Q)
<1>1. IsFiniteSet(A) /\ IsFiniteSet(B) /\ Size \in Nat
  BY LearnAssumption, FS_Subset
<1>2. ListOf(s, A, Learn!ByDay) /\ ListOf(t, B, Q)
  BY <1>1, OrdersStrict, SortedLists
<1>3. s \in Seq(Cards) /\ t \in Seq(Cards)
  BY <1>2, SeqMonotonic DEF ListOf
<1> HIDE DEF s, t
<1>4. r = Learn!First(Size, s \o t)
  BY <1>1, <1>3, FilledUp DEF s, t
<1> QED
  <2>1. Cut(Learn!First(Size, s \o t), A, B, Learn!ByDay, Size)
    BY <1>1, <1>2, CutLists
  <2> QED
    BY <1>4, <2>1

LEMMA SessionIsFair == ASSUME LearnInv, NEW all \in BOOLEAN PROVE Learn!Fair(Learn!Session(all), all)
<1> DEFINE A == Learn!Due
           B == Learn!New(Learn!Open(all)) \ Learn!Due
           r == Learn!Session(all)
<1>1. A \in SUBSET Cards /\ B \in SUBSET Cards /\ A \cap B = {} /\ A \cup B = Learn!Due \cup Learn!New(Learn!Open(all))
  BY DEF Learn!Due, Learn!New, Learn!There
<1>2. Strict(Learn!ByLevel, B)
  BY <1>1, OrdersStrict
<1>3. LET due == Learn!First(Size, Learn!Sorted(A, Learn!ByDay))
      IN r = due \o Learn!First(Size - Len(due), Learn!Sorted(B, Learn!ByLevel))
  BY DEF Learn!Session, Learn!NewCards
<1> HIDE DEF A, B, r
<1>4. Cut(r, A, B, Learn!ByDay, Size)
  BY <1>1, <1>2, <1>3, SessionsCut
<1>5. \A c \in Cards, d \in Cards : <<c, d>> \in Learn!ByDay => cardState[c].due <= cardState[d].due
  <2>1. \A c \in Cards : cardState[c].due \in Nat
    BY DEF LearnInv, Standing
  <2> QED
    BY <2>1 DEF Learn!ByDay
<1>6. \A c \in Learn!Members(r) \cap A, d \in A : d \notin Learn!Members(r) => cardState[c].due <= cardState[d].due
  BY <1>1, <1>4, <1>5 DEF Cut
<1> QED
  BY <1>1, <1>4, <1>6 DEF Cut, Learn!Fair, r, A

LEMMA SectionIsFair ==
  ASSUME LearnInv, NEW l \in Levels
  PROVE  LET s == Learn!SectionSession(l)
         IN /\ Learn!NoRepeats(s) /\ Learn!Members(s) \subseteq Learn!In(l)
            /\ (Learn!In(l) \cap Learn!Due) \ Learn!Members(s) # {} => Learn!Members(s) \subseteq Learn!Due
<1> DEFINE A == Learn!Due \cap Learn!In(l)
           B == Learn!In(l) \ Learn!Due
           r == Learn!SectionSession(l)
<1>1. A \in SUBSET Cards /\ B \in SUBSET Cards /\ A \cap B = {} /\ A \cup B = Learn!In(l)
  BY DEF Learn!Due, Learn!In, Learn!There
<1>2. Strict(Learn!InOrder, B)
  BY <1>1, OrdersStrict
<1>3. r = Learn!First(Size, Learn!Sorted(A, Learn!ByDay) \o Learn!Sorted(B, Learn!InOrder))
  BY DEF Learn!SectionSession
<1> HIDE DEF B, r
<1>4. Cut(r, A, B, Learn!ByDay, Size)
  <2> HIDE DEF A
  <2> QED
    BY <1>1, <1>2, <1>3, SessionsCut
<1> QED
  BY <1>1, <1>4 DEF Cut, r

LEMMA LearnGives == ASSUME LearnInv PROVE Learn!SessionsAreFair /\ Learn!StudiedComesBack
<1>1. Learn!SessionsAreFair
  BY SessionIsFair, SectionIsFair DEF Learn!SessionsAreFair
<1>2. Learn!StudiedComesBack
  <2> SUFFICES ASSUME NEW c \in Cards
               PROVE  /\ reviews[c] > 0 <=> cardState[c].box > 0
                      /\ cardState[c].box > 0 => cardState[c].box <= 5 /\ cardState[c].due <= day + 30
                      /\ c \notin doubled => cardState[c].total = reviews[c]
    BY DEF Learn!StudiedComesBack, Learn!There
  <2>1. cardState[c].box \in 0..5
    BY DEF LearnInv, Standing
  <2> QED
    BY <2>1 DEF LearnInv
<1> QED
  BY <1>1, <1>2

\* Where no card moves and none loses its answers, what opens a level goes on to.
LEMMA LevelsOpen ==
  ASSUME LearnInv, LearnInv', cards' = cards,
         \A c \in Cards : cards[c] # 0 /\ cardState[c].total > 0 => cardState'[c].total > 0
  PROVE  Learn!Unlocked \subseteq Learn!Unlocked'
<1>1. ASSUME NEW l \in Levels, Learn!Opens(l) PROVE Learn!Opens(l)'
  <2>1. Learn!In(l)' = Learn!In(l) /\ Learn!In(l) \in SUBSET Cards
    BY DEF Learn!In, Learn!There
  <2>2. Learn!Studied(l) \in SUBSET Learn!Studied(l)' /\ Learn!Studied(l)' \in SUBSET Cards
    BY <2>1 DEF Learn!Studied, Learn!In, Learn!There, Learn!NoLevel
  <2>3. IsFiniteSet(Learn!In(l)) /\ IsFiniteSet(Learn!Studied(l)')
    BY <2>1, <2>2, LearnAssumption, FS_Subset
  <2>4. /\ Cardinality(Learn!Studied(l)) <= Cardinality(Learn!Studied(l)') /\ IsFiniteSet(Learn!Studied(l))
    BY <2>2, <2>3, FS_Subset
  <2>5. /\ Cardinality(Learn!In(l)) \in Nat /\ Cardinality(Learn!Studied(l)) \in Nat
        /\ Cardinality(Learn!Studied(l)') \in Nat
    BY <2>3, <2>4, FS_CardinalityType
  <2>6. Learn!In(l) # {} /\ 5 * Cardinality(Learn!Studied(l)) >= 4 * Cardinality(Learn!In(l))
    BY <1>1, LearnCounts DEF Learn!Opens
  <2>7. Learn!In(l)' # {} /\ 5 * Cardinality(Learn!Studied(l)') >= 4 * Cardinality(Learn!In(l)')
    BY <2>1, <2>4, <2>5, <2>6
  <2> QED
    BY <2>7, LearnCounts DEF Learn!Opens
<1> QED
  BY <1>1 DEF Learn!Unlocked

LEMMA LearnKeeps == ASSUME LearnInv, LearnInv', [Learn!Next]_learnVars PROVE Learn!KeepsOpen
<1> SUFFICES ASSUME cards' = cards PROVE Learn!Unlocked \subseteq Learn!Unlocked'
  BY DEF Learn!KeepsOpen
<1> DEFINE Kept == \A c \in Cards : cards[c] # 0 /\ cardState[c].total > 0 => cardState'[c].total > 0
<1>1. CASE UNCHANGED cardState
  BY <1>1, LevelsOpen
<1>2. ASSUME NEW r \in Readers, NEW g \in {"good", "hard", "fail"}, Learn!Write(r, g) PROVE Kept
  BY <1>2, LearnWrite
<1>3. ASSUME NEW s \in Seeds, Learn!Restart(s) PROVE Kept
  BY <1>3 DEF Learn!Restart, Learn!NoLevel
<1>4. UNCHANGED cardState \/ Kept
  BY <1>2, <1>3 DEF Learn!Next, Learn!Read, Learn!DaysPass, learnVars
<1> QED
  BY <1>1, <1>4, LevelsOpen

\* Whatever answers overlap and whenever the cards are seeded anew, a session of any size
\* brings what is due before what is new and what was due longer before what was not, no
\* card twice and none of a locked level unless asked to; a studied card comes back within
\* thirty days; and a level stays open until the cards change (build_session, get_answer).
THEOREM SessionsAreFairHolds == OutsideSpec => SessionsAreFair
<1>1. OutsideInit => LearnInv
  BY LearnStart
<1>2. LearnInv /\ [OutsideNext]_outsideVars => LearnInv'
  BY LearnNext
<1>3. LearnInv => Fair
  BY LearnGives DEF Fair
<1>4. LearnInv /\ LearnInv' /\ [OutsideNext]_outsideVars => [focus = "learn" => Learn!KeepsOpen]_learnVars
  <2> SUFFICES ASSUME LearnInv, LearnInv', [OutsideNext]_outsideVars PROVE UNCHANGED learnVars \/ Learn!KeepsOpen
    OBVIOUS
  <2>1. [Learn!Next]_learnVars
    BY Zenon DEF OutsideNext, outsideVars
  <2> QED
    BY <2>1, LearnKeeps
<1> QED
  BY <1>1, <1>2, <1>3, <1>4, PTL DEF OutsideSpec, SessionsAreFair
=============================================================================
