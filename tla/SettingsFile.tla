----------------------------- MODULE SettingsFile --------------------------
(* config.json as config.py reads and saves it.  A save loads the settings *)
(* (from a cache that knows the file by its signature), merges its own in, *)
(* writes config.tmp and puts it in the place of config.json.  Routes and  *)
(* jobs save from threads of their own, nothing keeps them apart, and all  *)
(* use the one config.tmp.                                                 *)
EXTENDS Naturals

CONSTANTS Threads, Settings, Inodes, MaxSaves, MaxFails, MaxCrashes

VARIABLES
  content,   \* what is in each file on the disk: all settings, or Half of them
  stamp,     \* writes to each file: with its number, what st_size and st_mtime_ns tell
  main, tmp, \* the files under the names config.json and config.tmp
  spoilt,    \* files that two threads had open for writing at the same time
  cache,     \* _config_cache
  at,        \* where each thread is
  saves, fails, crashes,  \* so far, for the bounds
  promised,  \* history: the settings of the last saves that went through
  overlapped \* history: a save began while another was under way

vars == <<content, stamp, main, tmp, spoilt, cache, at, saves, fails, crashes, promised, overlapped>>

Nothing == 0
Half == [s \in Settings |-> MaxSaves + 1]  \* a file that is not JSON
\* DEFAULT_CONFIG; a setting is represented by the number of the save that made it.
Default == [s \in Settings |-> 0]
NoCache == [file |-> Nothing, stamp |-> 0, data |-> Default]
Idle == [do |-> "idle", save |-> 0, setting |-> CHOOSE s \in Settings : TRUE, sign |-> NoCache,
         data |-> Default, fd |-> Nothing]

Init ==
  /\ main = (CHOOSE i \in Inodes : TRUE) /\ tmp = Nothing /\ spoilt = {}
  /\ content = [i \in Inodes |-> Default] /\ stamp = [i \in Inodes |-> 0]
  /\ cache = NoCache /\ at = [t \in Threads |-> Idle]
  /\ saves = 0 /\ fails = 0 /\ crashes = 0 /\ promised = Default /\ overlapped = FALSE

Does(t, d) == at[t].do = d
End(t) == at' = [at EXCEPT ![t] = Idle]
disk == <<content, stamp, main, tmp, spoilt>>
bounds == <<saves, fails, crashes>>
history == <<promised, overlapped>>

Saving(t) == at[t].save > 0
Begin(t, s) ==
  /\ Does(t, "idle") /\ saves < MaxSaves /\ saves' = saves + 1
  /\ at' = [at EXCEPT ![t] = [Idle EXCEPT !.do = "look", !.save = saves + 1, !.setting = s]]
  /\ overlapped' = (overlapped \/ \E u \in Threads : Saving(u))
  /\ UNCHANGED <<disk, cache, fails, crashes, promised>>
\* load_config by anybody who only reads.
BeginRead(t) ==
  /\ Does(t, "idle") /\ at' = [at EXCEPT ![t].do = "look"]
  /\ UNCHANGED <<disk, cache, bounds, history>>

-----------------------------------------------------------------------------
(* load_config: the signature, then the cache or the file.                 *)

Known == [file |-> main, stamp |-> stamp[main]]
Hit == [file |-> cache.file, stamp |-> cache.stamp] = Known
\* What the settings now loaded are for: a save goes on with them.
Loaded(t, data) ==
  at' = [at EXCEPT ![t] = IF Saving(t) THEN [@ EXCEPT !.do = "open", !.data = [data EXCEPT ![at[t].setting] = at[t].save]]
                          ELSE Idle]
Look(t) ==
  /\ Does(t, "look")
  /\ IF Hit THEN Loaded(t, cache.data)
            ELSE at' = [at EXCEPT ![t].do = "read", ![t].sign = [NoCache EXCEPT !.file = main, !.stamp = stamp[main]]]
  /\ UNCHANGED <<disk, cache, bounds, history>>

Entry(t) == [at[t].sign EXCEPT !.data = at[t].data]
\* _read_config: what cannot be read is not cached, and the defaults are used.
ReadFile(t) ==
  /\ Does(t, "read")
  /\ IF content[main] = Half THEN Loaded(t, Default)
     ELSE at' = [at EXCEPT ![t].do = "keep", ![t].data = content[main]]
  /\ UNCHANGED <<disk, cache, bounds, history>>
Keep(t) ==
  /\ Does(t, "keep") /\ cache' = Entry(t) /\ Loaded(t, at[t].data)
  /\ UNCHANGED <<disk, bounds, history>>

-----------------------------------------------------------------------------
(* update_config_atomic.                                                   *)

\* _open_private: a file left under the name is emptied, else there is a new one.
Free == Inodes \ ({main, tmp} \cup {at[t].fd : t \in Threads})
Touch(i, c) == content' = [content EXCEPT ![i] = c] /\ stamp' = [stamp EXCEPT ![i] = @ + 1]
(* Variant: it is config.json itself that is written. *)
InPlace == main
Target == IF tmp # Nothing THEN tmp ELSE CHOOSE i \in Free : TRUE
OpenTmp(t) ==
  LET i == Target
  IN /\ Does(t, "open") /\ (tmp # Nothing \/ Free # {})
     /\ Touch(i, Half) /\ tmp' = i
     /\ spoilt' = IF \E u \in Threads : at[u].fd = i THEN spoilt \cup {i} ELSE spoilt \ {i}
     /\ at' = [at EXCEPT ![t].do = "write", ![t].fd = i]
     /\ UNCHANGED <<main, cache, bounds, history>>

\* What two threads wrote is any mixture of both, or not JSON any more.
Outcomes(t) ==
  IF at[t].fd \in spoilt
  THEN {Half} \cup {[s \in Settings |-> IF s \in mine THEN at[t].data[s] ELSE at[u].data[s]] :
                       mine \in SUBSET Settings, u \in Threads}
  ELSE {at[t].data}
Write(t) ==
  /\ Does(t, "write") /\ \E c \in Outcomes(t) : Touch(at[t].fd, c)
  /\ at' = [at EXCEPT ![t].do = "replace", ![t].fd = Nothing]
  /\ UNCHANGED <<main, tmp, spoilt, cache, bounds, history>>

\* os.replace: whatever file has the name by now; none is an error.
Replace(t) ==
  /\ Does(t, "replace")
  /\ IF tmp = Nothing THEN End(t) /\ UNCHANGED <<main, tmp, promised>>
     ELSE /\ main' = tmp /\ tmp' = Nothing /\ at' = [at EXCEPT ![t].do = "clear"]
          /\ promised' = [promised EXCEPT ![at[t].setting] = at[t].save]
  /\ UNCHANGED <<content, stamp, spoilt, cache, bounds, overlapped>>
Clear(t) ==
  /\ Does(t, "clear") /\ cache' = NoCache /\ End(t) /\ UNCHANGED <<disk, bounds, history>>

\* Any error on the way: config.tmp is removed, whoever is writing it.
Fail(t) ==
  /\ at[t].do \in {"write", "replace"} /\ fails < MaxFails /\ fails' = fails + 1
  /\ tmp' = Nothing /\ End(t)
  /\ UNCHANGED <<content, stamp, main, spoilt, cache, saves, crashes, history>>

Restart ==
  /\ crashes < MaxCrashes /\ crashes' = crashes + 1
  /\ cache' = NoCache /\ at' = [t \in Threads |-> Idle]
  /\ UNCHANGED <<disk, saves, fails, history>>

-----------------------------------------------------------------------------
Next ==
  \/ \E t \in Threads : \/ \E s \in Settings : Begin(t, s)
                        \/ BeginRead(t) \/ Look(t) \/ ReadFile(t) \/ Keep(t)
                        \/ OpenTmp(t) \/ Write(t) \/ Replace(t) \/ Clear(t) \/ Fail(t)
  \/ Restart

Spec == Init /\ [][Next]_vars

-----------------------------------------------------------------------------
(* Properties.                                                             *)

TypeOK ==
  /\ main \in Inodes /\ tmp \in Inodes \cup {Nothing}
  /\ \A t \in Threads : at[t].fd \in Inodes \cup {Nothing}

\* As long as saves do not overlap, config.json is never half written and holds exactly
\* what was saved, whatever fails or ends on the way (update_config_atomic).
SettingsKept == ~overlapped => content[main] = promised

\* Settings from the cache are what is in the file, saves overlapping or not
\* (load_config: "The signature is taken before the read").
CacheIsHonest == Hit => cache.data = content[main]

\* The same without the proviso; two saves at the same time share config.tmp.
SavedIsKept == \A s \in Settings : content[main] # Half /\ content[main][s] >= promised[s]
=============================================================================
