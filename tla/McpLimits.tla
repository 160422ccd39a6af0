----------------------------- MODULE McpLimits -----------------------------
(* The throttles of the MCP server (mcp_server/limits.py) and the requests *)
(* that pass them: the lockout of an address and the check of its          *)
(* credential (auth.py), the rate and the slots of a key (transport.py),   *)
(* refusals outside the allowed range (public_host.py) and the notices     *)
(* (events.py).  Each operation of limits.py runs under its lock, so it is *)
(* one step; a request takes several.  The dictionaries keep insertion     *)
(* order and drop the entry that came first when they are full.            *)
EXTENDS Naturals, Sequences, FiniteSets

CONSTANTS Requests, Keys, Addresses, Rate, Slots, FailuresMax, MaxEntries,
          Minute, SweepEvery, Window, Lockout, LogEvery, Cooldown, MaxTime

VARIABLES
  now,        \* time.monotonic
  calls,      \* _calls: per key the times of the calls let in
  active,     \* _active: the calls of a key in flight
  failures,   \* _failures: per address the times of wrong credentials
  lockedOut,  \* _locked_until
  refusals,   \* _refusal_logged
  notified,   \* _notified_until
  lastSweep,
  req,        \* the request in each thread
  let,        \* history: calls let in within the last minute, of keys not dropped since
  wrong,      \* history: wrong credentials within the window, of addresses not dropped since
  tripped,    \* history: when an address was last locked out (addresses not dropped since)
  notices     \* history: when a notice was last sent (of scopes not dropped since)

vars == <<now, calls, active, failures, lockedOut, refusals, notified, lastSweep, req, let, wrong, tripped, notices>>

-----------------------------------------------------------------------------
(* Dictionaries, as sequences of entries.                                  *)

Members(q) == {q[i] : i \in 1..Len(q)}
\* The members of a set, in the order of the sequence.
Those(q, S) ==
  LET first[n \in 0..Len(q)] ==
        IF n = 0 THEN <<>> ELSE IF q[n] \in S THEN Append(first[n - 1], q[n]) ELSE first[n - 1]
  IN first[Len(q)]
Entered(m) == {e.name : e \in Members(m)}
Get(m, k) == (CHOOSE e \in Members(m) : e.name = k).val
Entry(k, v) == [name |-> k, val |-> v]
Set(m, k, v) == [i \in DOMAIN m |-> IF m[i].name = k THEN Entry(k, v) ELSE m[i]]
\* _put: full, and a new name.
Drops(m, k) == k \notin Entered(m) /\ Len(m) >= MaxEntries
Dropped(m, k) == IF Drops(m, k) THEN {Head(m).name} ELSE {}
Put(m, k, v) ==
  IF k \in Entered(m) THEN Set(m, k, v)
  ELSE Append(IF Drops(m, k) THEN Tail(m) ELSE m, Entry(k, v))
Last(t) == t[Len(t)]

Scopes == {"address", "key", "range"} \X (Addresses \cup Keys)
Subjects == {"lockout", "off_range"} \X Addresses
Never == MaxTime + 1
Idle == [at |-> "idle", address |-> CHOOSE a \in Addresses : TRUE, key |-> CHOOSE k \in Keys : TRUE]

Init ==
  /\ now = 0 /\ lastSweep = 0
  /\ calls = <<>> /\ active = [k \in Keys |-> 0] /\ failures = <<>> /\ lockedOut = <<>>
  /\ refusals = <<>> /\ notified = <<>>
  /\ req = [r \in Requests |-> Idle]
  /\ let = [k \in Keys |-> <<>>] /\ wrong = [a \in Addresses |-> <<>>]
  /\ tripped = [a \in Addresses |-> Never] /\ notices = [s \in Subjects |-> Never]

At(r, p) == req[r].at = p
Goto(r, p) == req' = [req EXCEPT ![r].at = p]
End(r) == req' = [req EXCEPT ![r] = Idle]

-----------------------------------------------------------------------------
(* _sweep_locked, from record_failure, acquire and notify_due.             *)

SweepDue == now - lastSweep >= SweepEvery
Swept(m, S) == IF SweepDue THEN Those(m, S) ELSE m
SweptLocks == Swept(lockedOut, {e \in Members(lockedOut) : e.val > now})
SweptFailures == Swept(failures, {e \in Members(failures) : e.val # <<>> /\ now - Last(e.val) <= Window})
SweptCalls ==
  Swept(calls, {e \in Members(calls) : active[e.name] > 0 \/ (e.val # <<>> /\ now - Last(e.val) < Minute)})
SweptRefusals == Swept(refusals, {e \in Members(refusals) : now - e.val < LogEvery})
(* Variant: every notice is forgotten. *)
SweepsNotices == Swept(notified, {})
SweptNotices == Swept(notified, {e \in Members(notified) : e.val > now})
SweepTime == lastSweep' = IF SweepDue THEN now ELSE lastSweep

-----------------------------------------------------------------------------
(* auth.py: an address, then its credential.                               *)

LockedOut(a) == a \in Entered(lockedOut) /\ Get(lockedOut, a) > now
\* lockout_remaining: an entry that is over is deleted.
Arrive(r, a) ==
  /\ At(r, "idle")
  /\ req' = [req EXCEPT ![r].at = IF LockedOut(a) THEN "locked out" ELSE "match", ![r].address = a]
  /\ lockedOut' = Those(lockedOut, {e \in Members(lockedOut) : e.name # a \/ LockedOut(a)})
  /\ UNCHANGED <<now, calls, active, failures, refusals, notified, lastSweep, let, wrong, tripped, notices>>

\* first_refusal.
FirstRefusal(s) == s \notin Entered(refusals) \/ now - Get(refusals, s) >= LogEvery
LogRefusal(s) == refusals' = IF FirstRefusal(s) THEN Put(refusals, s, now) ELSE refusals
RefuseLockedOut(r) ==
  /\ At(r, "locked out") /\ LogRefusal(<<"address", req[r].address>>) /\ End(r)
  /\ UNCHANGED <<now, calls, active, failures, lockedOut, notified, lastSweep, let, wrong, tripped, notices>>

Recent(t) == Those(t, {x \in 0..now : now - x <= Window})
\* record_failure.
Times(a) == IF a \in Entered(SweptFailures) THEN Recent(Append(Get(SweptFailures, a), now)) ELSE <<now>>
Known(a) == IF a \in Entered(SweptFailures) THEN SweptFailures ELSE Put(SweptFailures, a, <<>>)
Trips(a) == Len(Times(a)) >= FailuresMax
FailuresThen(a) ==
  IF Trips(a) THEN Those(Known(a), {e \in Members(Known(a)) : e.name # a}) ELSE Set(Known(a), a, Times(a))
WrongCredential(r) ==
  LET a == req[r].address
      gone == Dropped(SweptFailures, a)
      kept == [b \in Addresses |-> IF b \in gone THEN <<>> ELSE wrong[b]]
      seen == Recent(Append(kept[a], now))
      full == Len(seen) >= FailuresMax
  IN /\ At(r, "match")
     /\ failures' = FailuresThen(a)
     /\ lockedOut' = IF Trips(a) THEN Put(SweptLocks, a, now + Lockout) ELSE SweptLocks
     /\ calls' = SweptCalls /\ refusals' = SweptRefusals /\ notified' = SweptNotices /\ SweepTime
     /\ IF Trips(a) THEN Goto(r, "tell") ELSE End(r)
     /\ wrong' = [kept EXCEPT ![a] = IF full THEN <<>> ELSE seen]
     /\ tripped' = [b \in Addresses |-> IF Trips(a) /\ b \in Dropped(SweptLocks, a) THEN Never
                                        ELSE IF b = a /\ full THEN now ELSE tripped[b]]
     /\ UNCHANGED <<now, active, let, notices>>

\* notify_due.
Due(s) == s \notin Entered(SweptNotices) \/ Get(SweptNotices, s) <= now
Notify(s) ==
  /\ notified' = IF Due(s) THEN Put(SweptNotices, s, now + Cooldown) ELSE SweptNotices
  /\ notices' = [x \in Subjects |-> IF ~Due(s) THEN notices[x]
                                    ELSE IF x = s THEN now
                                    ELSE IF x \in Dropped(SweptNotices, s) THEN Never ELSE notices[x]]
  /\ calls' = SweptCalls /\ failures' = SweptFailures /\ lockedOut' = SweptLocks /\ SweepTime
TellLockedOut(r) ==
  /\ At(r, "tell") /\ Notify(<<"lockout", req[r].address>>) /\ End(r) /\ refusals' = SweptRefusals
  /\ UNCHANGED <<now, active, let, wrong, tripped>>

\* public_host.py: an address outside the allowed range.
RefuseOffRange(r, a) ==
  /\ At(r, "idle") /\ LogRefusal(<<"range", a>>)
  /\ req' = IF FirstRefusal(<<"range", a>>) THEN [req EXCEPT ![r].at = "tell range", ![r].address = a] ELSE req
  /\ UNCHANGED <<now, calls, active, failures, lockedOut, notified, lastSweep, let, wrong, tripped, notices>>
TellOffRange(r) ==
  /\ At(r, "tell range") /\ Notify(<<"off_range", req[r].address>>) /\ End(r) /\ refusals' = SweptRefusals
  /\ UNCHANGED <<now, active, let, wrong, tripped>>

-----------------------------------------------------------------------------
(* transport.py: a call of a key, or of a grant.                           *)

Match(r, k) ==
  /\ At(r, "match") /\ req' = [req EXCEPT ![r] = [Idle EXCEPT !.at = "acquire", !.key = k]]
  /\ UNCHANGED <<now, calls, active, failures, lockedOut, refusals, notified, lastSweep, let, wrong, tripped, notices>>

InMinute(t) == Those(t, {x \in 0..now : now - x < Minute})
\* acquire.
Made(k) == IF k \in Entered(SweptCalls) THEN InMinute(Get(SweptCalls, k)) ELSE <<>>
Free(k) == Len(Made(k)) < Rate /\ active[k] < Slots
Acquire(r) ==
  LET k == req[r].key
      gone == Dropped(SweptCalls, k)
      kept == [x \in Keys |-> IF x \in gone THEN <<>> ELSE InMinute(let[x])]
  IN /\ At(r, "acquire")
     /\ calls' = Put(SweptCalls, k, IF Free(k) THEN Append(Made(k), now) ELSE Made(k))
     /\ active' = IF Free(k) THEN [active EXCEPT ![k] = @ + 1] ELSE active
     /\ let' = IF Free(k) THEN [kept EXCEPT ![k] = Append(@, now)] ELSE kept
     /\ failures' = SweptFailures /\ lockedOut' = SweptLocks /\ refusals' = SweptRefusals
     /\ notified' = SweptNotices /\ SweepTime
     /\ Goto(r, IF Free(k) THEN "run" ELSE "refused")
     /\ UNCHANGED <<now, wrong, tripped, notices>>

RefuseCall(r) ==
  /\ At(r, "refused") /\ LogRefusal(<<"key", req[r].key>>) /\ End(r)
  /\ UNCHANGED <<now, calls, active, failures, lockedOut, notified, lastSweep, let, wrong, tripped, notices>>

\* release, however the call ended.
Release(r) ==
  /\ At(r, "run") /\ active' = [active EXCEPT ![req[r].key] = IF @ > 1 THEN @ - 1 ELSE 0] /\ End(r)
  /\ UNCHANGED <<now, calls, failures, lockedOut, refusals, notified, lastSweep, let, wrong, tripped, notices>>

Tick ==
  /\ now < MaxTime /\ now' = now + 1
  /\ UNCHANGED <<calls, active, failures, lockedOut, refusals, notified, lastSweep, req, let, wrong, tripped, notices>>

-----------------------------------------------------------------------------
Next ==
  \/ \E r \in Requests : \/ \E a \in Addresses : Arrive(r, a) \/ RefuseOffRange(r, a)
                         \/ \E k \in Keys : Match(r, k)
                         \/ RefuseLockedOut(r) \/ WrongCredential(r) \/ TellLockedOut(r) \/ TellOffRange(r)
                         \/ Acquire(r) \/ RefuseCall(r) \/ Release(r)
  \/ Tick

Spec == Init /\ [][Next]_vars

-----------------------------------------------------------------------------
(* Properties.                                                             *)

Distinct(m) == (\A i, j \in 1..Len(m) : m[i].name = m[j].name => i = j) /\ Len(m) <= MaxEntries
TypeOK ==
  /\ now \in 0..MaxTime /\ active \in [Keys -> Nat] /\ Entered(calls) \subseteq Keys
  /\ Entered(failures) \cup Entered(lockedOut) \subseteq Addresses
  /\ Entered(refusals) \subseteq Scopes /\ Entered(notified) \subseteq Subjects
  /\ Distinct(calls) /\ Distinct(failures) /\ Distinct(lockedOut) /\ Distinct(refusals) /\ Distinct(notified)

\* A key never has more calls in flight than it has slots, every slot taken belongs to a
\* call in flight, and within a minute it makes no more calls than its rate, sweeps in
\* between or not, unless the table was full and forgot it (acquire, release).
CallsLimited ==
  \A k \in Keys :
    /\ active[k] = Cardinality({r \in Requests : At(r, "run") /\ req[r].key = k}) /\ active[k] <= Slots
    /\ Len(InMinute(let[k])) <= Rate

\* An address stays locked out for the whole lockout after too many wrong credentials
\* within the window, and notices about one subject are a cooldown apart, unless the
\* table was full and forgot it (record_failure, notify_due).
LockoutsHold ==
  \A a \in Addresses : tripped[a] # Never /\ now < tripped[a] + Lockout => LockedOut(a)
\* notify_due counts from the send.
SpacesNotices ==
  \A s \in Subjects : notices'[s] # notices[s] /\ notices'[s] # Never /\ notices[s] # Never
    => notices'[s] >= notices[s] + Cooldown
NoticesSpaced == [][SpacesNotices]_vars
=============================================================================
