---------------------------- MODULE TalkRetry ----------------------------
(***************************************************************************)
(* Delivery to Nextcloud Talk (notification_engine.py).  Every notify      *)
(* sends its own message if it is routed to Talk, queues it when that      *)
(* fails, and then serves the queue: it drops what is too old, takes what  *)
(* is due, and sends until the first failure.  There is no timer and no    *)
(* file behind the queue.  Threads notify at the same time; a lock covers  *)
(* the queue and the time of the last health warning, not the sending.     *)
(*                                                                         *)
(* Abstraction: a message is a slot that is used again once its message is *)
(* settled; ages are counted up to the bound that the code compares with.  *)
(* The health warning is not routed to Talk itself, its default.           *)
(***************************************************************************)
EXTENDS Naturals, Sequences

CONSTANTS
  Threads,      \* job workers and request threads that notify
  Messages,     \* message slots
  MaxRetries,   \* NEXTCLOUD_TALK_MAX_RETRIES
  MinInterval,  \* NEXTCLOUD_TALK_RETRY_MIN_INTERVAL_SECONDS, in ticks
  MaxAge,       \* NEXTCLOUD_TALK_RETRY_MAX_AGE_SECONDS, in ticks
  WarnCooldown, \* NEXTCLOUD_TALK_HEALTH_WARNING_COOLDOWN_SECONDS, in ticks
  MaxCrashes    \* bound: restarts of the process

VARIABLES
  pending,   \* _pending_talk
  retries,   \* retries[m], "retries" of the queue entry
  age,       \* age[m], ticks since "queued", up to MaxAge + 1
  idle,      \* idle[m], ticks since "last_attempt", up to MinInterval
  sinceWarn, \* ticks since the last health warning, up to WarnCooldown
  at,        \* at[t], where thread t is in notify
  hand,      \* hand[t], the messages t is sending, the next one first
  open,      \* the messages that were raised and are not settled
  attempts,  \* attempts[m], how often m has been sent or tried
  failures,  \* failures[t], calls of this notify that failed
  crashes

talkVars == <<pending, retries, age, idle, sinceWarn, at, hand, open, attempts, failures, crashes>>

Members(q) == {q[i] : i \in 1..Len(q)}

Init ==
  /\ pending = <<>>
  /\ retries = [m \in Messages |-> 0]
  /\ age = [m \in Messages |-> 0]
  /\ idle = [m \in Messages |-> 0]
  /\ sinceWarn = WarnCooldown
  /\ at = [t \in Threads |-> "idle"]
  /\ hand = [t \in Threads |-> <<>>]
  /\ open = {}
  /\ attempts = [m \in Messages |-> 0]
  /\ failures = [t \in Threads |-> 0]
  /\ crashes = 0

-----------------------------------------------------------------------------
(* notify: a message routed to Talk is sent first; one for the log or the  *)
(* notification centre only goes straight to the queue.                    *)

Notify(t, m) ==
  /\ at[t] = "idle"
  /\ m \notin open
  /\ open' = open \cup {m}
  /\ hand' = [hand EXCEPT ![t] = <<m>>]
  /\ attempts' = [attempts EXCEPT ![m] = 0]
  /\ retries' = [retries EXCEPT ![m] = 0]
  /\ age' = [age EXCEPT ![m] = 0]
  /\ idle' = [idle EXCEPT ![m] = 0]
  /\ failures' = [failures EXCEPT ![t] = 0]
  /\ at' = [at EXCEPT ![t] = "send"]
  /\ UNCHANGED <<pending, sinceWarn, crashes>>

(* Variant: only messages routed to Talk serve the queue. *)
QueueSkipped == "idle"
AfterQuiet == "look"

NotifyQuietly(t) ==
  /\ at[t] = "idle"
  /\ failures' = [failures EXCEPT ![t] = 0]
  /\ at' = [at EXCEPT ![t] = AfterQuiet]
  /\ UNCHANGED <<pending, retries, age, idle, sinceWarn, hand, open, attempts, crashes>>

(* send_text_message got through. *)
Delivered(t) ==
  /\ at[t] \in {"send", "resend"}
  /\ LET m == Head(hand[t])
     IN /\ attempts' = [attempts EXCEPT ![m] = @ + 1]
        /\ open' = open \ {m}
  /\ hand' = [hand EXCEPT ![t] = Tail(@)]
  /\ at' = [at EXCEPT ![t] = IF at[t] = "send" THEN "look"
                             ELSE IF Len(hand[t]) = 1 THEN "idle" ELSE "resend"]
  /\ UNCHANGED <<pending, retries, age, idle, sinceWarn, failures, crashes>>

(* The call failed, or Talk took the message and its answer was lost. *)
Failed(t) ==
  /\ at[t] \in {"send", "resend"}
  /\ attempts' = [attempts EXCEPT ![Head(hand[t])] = @ + 1]
  /\ failures' = [failures EXCEPT ![t] = @ + 1]
  /\ at' = [at EXCEPT ![t] = IF at[t] = "send" THEN "warn" ELSE "rewarn"]
  /\ UNCHANGED <<pending, retries, age, idle, sinceWarn, hand, open, crashes>>

WarnDue == sinceWarn >= WarnCooldown

(* _warn_talk_failing: the cooldown is checked and started under the lock, *)
(* before the warning itself is routed.                                    *)
Warn(t) ==
  /\ at[t] \in {"warn", "rewarn"}
  /\ sinceWarn' = IF WarnDue THEN 0 ELSE sinceWarn
  /\ at' = [at EXCEPT ![t] = IF at[t] = "warn" THEN "queue" ELSE "requeue"]
  /\ UNCHANGED <<pending, retries, age, idle, hand, open, attempts, failures, crashes>>

(* A new message that failed: queued now, last tried now. *)
Queue(t) ==
  /\ at[t] = "queue"
  /\ LET m == Head(hand[t])
     IN /\ pending' = Append(pending, m)
        /\ retries' = [retries EXCEPT ![m] = 0]
        /\ age' = [age EXCEPT ![m] = 0]
        /\ idle' = [idle EXCEPT ![m] = 0]
  /\ hand' = [hand EXCEPT ![t] = <<>>]
  /\ at' = [at EXCEPT ![t] = "look"]
  /\ UNCHANGED <<sinceWarn, open, attempts, failures, crashes>>

-----------------------------------------------------------------------------
(* _retry_pending_talk *)

TooOld(m) == age[m] > MaxAge
(* Variant: the interval since the last attempt is not waited for. *)
DueAtOnce(m) == ~TooOld(m)
Due(m) == ~TooOld(m) /\ idle[m] >= MinInterval

NotDue(m) == ~TooOld(m) /\ ~Due(m)

(* Look at the queue without the lock, then split it under the lock. *)
NothingPending(t) ==
  /\ at[t] = "look"
  /\ pending = <<>>
  /\ at' = [at EXCEPT ![t] = "idle"]
  /\ UNCHANGED <<pending, retries, age, idle, sinceWarn, hand, open, attempts, failures, crashes>>

SomePending(t) ==
  /\ at[t] = "look"
  /\ pending # <<>>
  /\ at' = [at EXCEPT ![t] = "take"]
  /\ UNCHANGED <<pending, retries, age, idle, sinceWarn, hand, open, attempts, failures, crashes>>

(* One pass over the queue: the messages of a set, in the queue's order. *)
Those(q, S) ==
  LET first[n \in 0..Len(q)] ==
        IF n = 0 THEN <<>> ELSE IF q[n] \in S THEN Append(first[n - 1], q[n]) ELSE first[n - 1]
  IN first[Len(q)]

(* What stays in the queue. *)
Keep(q) == Those(q, {m \in Messages : NotDue(m)})

Take(t) ==
  /\ at[t] = "take"
  /\ pending' = Keep(pending)
  /\ hand' = [hand EXCEPT ![t] = Those(pending, {m \in Messages : Due(m)})]
  /\ open' = open \ {m \in Members(pending) : TooOld(m)}
  /\ at' = [at EXCEPT ![t] = IF hand'[t] = <<>> THEN "idle" ELSE "resend"]
  /\ UNCHANGED <<retries, age, idle, sinceWarn, attempts, failures, crashes>>

(* After the first failure the rest goes back untried, the failed message  *)
(* in front of it unless its retries are used up.                          *)
BackToQueue(q, exhausted) == IF exhausted THEN Tail(q) ELSE q

AfterFailure == "idle"

Exhausted(m) == retries[m] + 1 >= MaxRetries

Requeue(t) ==
  /\ at[t] = "requeue"
  /\ LET m == Head(hand[t])
     IN /\ retries' = [retries EXCEPT ![m] = @ + 1]
        /\ idle' = [idle EXCEPT ![m] = 0]
        /\ pending' = pending \o BackToQueue(hand[t], Exhausted(m))
        /\ open' = IF Exhausted(m) THEN open \ {m} ELSE open
  /\ hand' = [hand EXCEPT ![t] = <<>>]
  /\ at' = [at EXCEPT ![t] = AfterFailure]
  /\ UNCHANGED <<age, sinceWarn, attempts, failures, crashes>>

-----------------------------------------------------------------------------
UpTo(n, k) == IF n < k THEN n + 1 ELSE n

Tick ==
  /\ sinceWarn < WarnCooldown \/ \E m \in open : age[m] <= MaxAge \/ idle[m] < MinInterval
  /\ age' = [m \in Messages |-> IF m \in open THEN UpTo(age[m], MaxAge + 1) ELSE age[m]]
  /\ idle' = [m \in Messages |-> IF m \in open THEN UpTo(idle[m], MinInterval) ELSE idle[m]]
  /\ sinceWarn' = UpTo(sinceWarn, WarnCooldown)
  /\ UNCHANGED <<pending, retries, at, hand, open, attempts, failures, crashes>>

(* The process restarts: the queue and everything in hand is gone. *)
Crash ==
  /\ crashes < MaxCrashes
  /\ open # {}
  /\ crashes' = crashes + 1
  /\ pending' = <<>> /\ open' = {}
  /\ hand' = [t \in Threads |-> <<>>]
  /\ at' = [t \in Threads |-> "idle"]
  /\ sinceWarn' = WarnCooldown
  /\ UNCHANGED <<retries, age, idle, attempts, failures>>

Work(t) == \/ Delivered(t) \/ Failed(t) \/ Warn(t) \/ Queue(t)
           \/ NothingPending(t) \/ SomePending(t) \/ Take(t) \/ Requeue(t)

Raise == \E t \in Threads : NotifyQuietly(t) \/ \E m \in Messages : Notify(t, m)

Next == Tick \/ Crash \/ Raise \/ \E t \in Threads : Work(t)

(* A thread in notify goes on, time passes, and there is always another    *)
(* notification: every job notifies its start and its end.                 *)
Fairness == /\ \A t \in Threads : WF_talkVars(Work(t))
            /\ WF_talkVars(Tick)
            /\ SF_talkVars(\E t \in Threads : NotifyQuietly(t))

Spec == Init /\ [][Next]_talkVars
FairSpec == Spec /\ Fairness

-----------------------------------------------------------------------------
(* Properties *)

TypeOK ==
  /\ pending \in Seq(Messages) /\ open \subseteq Messages
  /\ retries \in [Messages -> 0..MaxRetries]
  /\ age \in [Messages -> 0..(MaxAge + 1)] /\ idle \in [Messages -> 0..MinInterval]
  /\ sinceWarn \in 0..WarnCooldown
  /\ \A t \in Threads : hand[t] \in Seq(Messages)

Once(q) == \A i, j \in 1..Len(q) : q[i] = q[j] => i = j
Apart(p, q) == Members(p) \cap Members(q) = {}

(* Nothing is lost and nothing is doubled in the queue: a message that is  *)
(* neither delivered nor given up is in the queue or with one thread,      *)
(* exactly once, whatever notifies overlap.                                *)
NothingLost ==
  /\ open = Members(pending) \cup UNION {Members(hand[t]) : t \in Threads}
  /\ Once(pending) /\ \A t \in Threads : Once(hand[t]) /\ Apart(hand[t], pending)
  /\ \A t, u \in Threads : t # u => Apart(hand[t], hand[u])

(* A message is tried once and retried at most MaxRetries times.           *)
RetriesBounded == \A m \in Messages : attempts[m] <= MaxRetries + 1

(* A server that is down costs a notify one call for its own message and   *)
(* one for the whole queue.                                                *)
OneBlockingCall == \A t \in Threads : failures[t] <= 2

(* A message that failed is not tried again before MinInterval has passed, *)
(* so a burst of notifications cannot use up its retries.                  *)
Spaced == \A m \in Messages : attempts'[m] = attempts[m] + 1 /\ attempts[m] > 0 => idle[m] >= MinInterval
RetriesSpaced == [][Spaced]_talkVars

(* Health warnings are WarnCooldown apart, whichever threads meet the      *)
(* failing server.                                                         *)
WarnedApart == sinceWarn' = 0 /\ sinceWarn # 0 /\ crashes' = crashes => sinceWarn = WarnCooldown
WarningsSpaced == [][WarnedApart]_talkVars

(* Every message is settled in the end: delivered, or given up after its   *)
(* retries or its age.                                                     *)
MessagesSettle == \A m \in Messages : m \in open ~> m \notin open
=============================================================================
