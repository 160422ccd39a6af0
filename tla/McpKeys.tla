------------------------------ MODULE McpKeys ------------------------------
(* The keys of the MCP server: mcp_server/keys.py over the table           *)
(* mcp_api_keys (db_mcp_keys.py).  Every request matches its token against *)
(* hashes cached in the process; creating and deleting a key commits a row *)
(* and then drops the cache.  The threads of several routes run at once.   *)
EXTENDS Naturals, FiniteSets

CONSTANTS Threads, Keys, Names, KeysMax

ASSUME NameAssumption == "no name" \notin Names /\ "nobody" \notin Threads
ASSUME BoundAssumption == KeysMax \in Nat

VARIABLES
  row,      \* mcp_api_keys: the name of each key that exists
  made,     \* keys whose row has ever been inserted: a new key has a new id and token
  loaded,   \* _hashes is not None
  hashes,   \* _hashes: the keys loaded
  written,  \* _last_written: keys whose last use was written within the interval
  queued,   \* _executor: uses to be written
  holder,   \* the thread that holds _lock while it loads, if any
  at,       \* where each thread is
  shown,    \* history: keys shown to the user whose deletion has not begun
  gone,     \* history: keys whose deletion has returned
  over      \* history: two creations ran at the same time

vars == <<row, made, loaded, hashes, written, queued, holder, at, shown, gone, over>>

NoName == "no name"
Nobody == "nobody"
Idle == [do |-> "idle", key |-> CHOOSE k \in Keys : TRUE, name |-> NoName, read |-> {}]
Rows == {k \in Keys : row[k] # NoName}

Init ==
  /\ row = [k \in Keys |-> NoName] /\ made = {} /\ loaded = FALSE /\ hashes = {} /\ written = {} /\ queued = {}
  /\ holder = Nobody /\ at = [t \in Threads |-> Idle] /\ shown = {} /\ gone = {} /\ over = FALSE

Does(t, d) == at[t].do = d
Goto(t, d, k) == at' = [at EXCEPT ![t] = [Idle EXCEPT !.do = d, !.key = k]]
End(t) == at' = [at EXCEPT ![t] = Idle]
cached == <<loaded, hashes, written, queued, holder>>

\* invalidate, when nobody is loading.
(* Variant: without the lock. *)
Anytime == TRUE
LockIsFree == holder = Nobody
Invalidate == LockIsFree /\ loaded' = FALSE /\ hashes' = {} /\ written' = {} /\ UNCHANGED <<queued, holder>>

-----------------------------------------------------------------------------
(* create_key: the keys are listed, the row inserted, the cache dropped.   *)

Creating(t) == at[t].do \in {"add", "drop new"}
Taken(n) == \E k \in Rows : row[k] = n
List(t, n) ==
  /\ Does(t, "idle") /\ Cardinality(Rows) < KeysMax /\ ~Taken(n)
  /\ at' = [at EXCEPT ![t] = [Idle EXCEPT !.do = "add", !.name = n]]
  /\ over' = (over \/ \E u \in Threads \ {t} : Creating(u))
  /\ UNCHANGED <<row, made, cached, shown, gone>>

\* add_key: the table refuses a name it has.
Add(t) ==
  /\ Does(t, "add")
  /\ IF Taken(at[t].name)
     THEN End(t) /\ UNCHANGED <<row, made>>
     ELSE \E k \in Keys \ made : /\ row' = [row EXCEPT ![k] = at[t].name] /\ made' = made \cup {k}
                                 /\ Goto(t, "drop new", k)
  /\ UNCHANGED <<cached, shown, gone, over>>
DropForNew(t) ==
  /\ Does(t, "drop new") /\ Invalidate /\ shown' = shown \cup ({at[t].key} \cap Rows) /\ End(t)
  /\ UNCHANGED <<row, made, gone, over>>

-----------------------------------------------------------------------------
(* delete_key: the row, then the cache, whether there still was a row or   *)
(* not.  The user picks a key that was listed.                             *)

Delete(t, k) ==
  /\ Does(t, "idle") /\ k \in made
  /\ row' = [row EXCEPT ![k] = NoName] /\ shown' = shown \ {k}
  /\ Goto(t, "drop old", k)
  /\ UNCHANGED <<made, cached, gone, over>>
DropForOld(t) ==
  /\ Does(t, "drop old") /\ Invalidate
  /\ gone' = gone \cup {at[t].key} /\ End(t)
  /\ UNCHANGED <<row, made, shown, over>>

-----------------------------------------------------------------------------
(* match and record_use: a request with the token of key k, or with one    *)
(* that is no key's (has_keys reads the same hashes): k was never made.    *)

\* _cached_hashes loads under the lock.
Load(t, k) ==
  /\ Does(t, "idle") /\ holder = Nobody /\ ~loaded
  /\ holder' = t /\ at' = [at EXCEPT ![t] = [Idle EXCEPT !.do = "load", !.key = k, !.read = Rows]]
  /\ UNCHANGED <<row, made, loaded, hashes, written, queued, shown, gone, over>>
Matched(t, k, known) == IF k \in known THEN Goto(t, "use", k) ELSE End(t)
Keep(t) ==
  /\ Does(t, "load") /\ loaded' = TRUE /\ hashes' = at[t].read /\ holder' = Nobody /\ Matched(t, at[t].key, at[t].read)
  /\ UNCHANGED <<row, made, written, queued, shown, gone, over>>
Match(t, k) ==
  /\ Does(t, "idle") /\ holder = Nobody /\ loaded /\ Matched(t, k, hashes)
  /\ UNCHANGED <<row, made, cached, shown, gone, over>>

\* The last use is written off the request's thread, once in the interval.
RecordUse(t) ==
  /\ Does(t, "use") /\ holder = Nobody
  /\ written' = written \cup {at[t].key}
  /\ queued' = IF at[t].key \in written THEN queued ELSE queued \cup {at[t].key}
  /\ End(t) /\ UNCHANGED <<row, made, loaded, hashes, holder, shown, gone, over>>
WriteUse(k) ==
  /\ k \in queued /\ queued' = queued \ {k}
  /\ UNCHANGED <<row, made, loaded, hashes, written, holder, at, shown, gone, over>>
IntervalEnds(k) ==
  /\ k \in written /\ written' = written \ {k}
  /\ UNCHANGED <<row, made, loaded, hashes, queued, holder, at, shown, gone, over>>

-----------------------------------------------------------------------------
Next ==
  \/ \E t \in Threads : \/ \E n \in Names : List(t, n)
                        \/ \E k \in Keys : Delete(t, k) \/ Load(t, k) \/ Match(t, k)
                        \/ Add(t) \/ DropForNew(t) \/ DropForOld(t) \/ Keep(t) \/ RecordUse(t)
  \/ \E k \in Keys : WriteUse(k) \/ IntervalEnds(k)

Spec == Init /\ [][Next]_vars

-----------------------------------------------------------------------------
(* Properties.                                                             *)

TypeOK ==
  /\ row \in [Keys -> Names \cup {NoName}] /\ Rows \subseteq made
  /\ hashes \subseteq (IF loaded THEN Keys ELSE {}) /\ holder \in Threads \cup {Nobody}

\* What requests are matched against knows every key its user was shown, and no key
\* whose deletion has returned (create_key, delete_key, _cached_hashes).
KeysAreCurrent == loaded => shown \subseteq hashes /\ gone \cap hashes = {}

\* There are never two keys of one name, and never more than the limit unless two were
\* created at the same time: the count is not part of the insertion (create_key).
KeysBounded ==
  /\ \A j, k \in Rows : row[j] = row[k] => j = k
  /\ ~over => Cardinality(Rows) <= KeysMax

\* A key is accepted from when it is shown to when its deletion returns, and the table
\* keeps its limits.
KeysHold == TypeOK /\ KeysAreCurrent /\ KeysBounded
=============================================================================
