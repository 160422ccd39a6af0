------------------------------ MODULE SignIns ------------------------------
(* Passwords, sessions and the throttle on wrong passwords: auth.py and    *)
(* the routes of api_routes_auth.py that check or change a password, sign  *)
(* in or out, or work with reset links.  Settings live twice, in the       *)
(* process (os.environ) and in .env, which a restart reads; requests run   *)
(* in threads of their own, and the process may end between two steps.     *)
(* dotenv.set_key changes one key of .env by reading the whole file and    *)
(* putting a changed copy in its place, under no lock: a key that another  *)
(* thread has written in between goes back to what the copy has.           *)
EXTENDS Naturals, FiniteSets

CONSTANTS Requests, Links, Threshold, MaxFailed, MaxSessions, MaxSignOuts, MaxCrashes

VARIABLES
  env,       \* os.environ: SESSION_EPOCH and APP_SECRET_KEY in force
  file,      \* the same in .env
  failed,    \* login_throttle.failed_count
  locked,    \* login_throttle.locked_until is in the future
  links,     \* password_reset_tokens
  sessions,  \* the session cookies handed out, until they expire
  stepUps,   \* the sessions with a step-up cookie
  req,       \* the request in each thread
  signOuts,  \* history: sign-outs begun
  out,       \* history: the last one in force that had begun alone
  filed,     \* history: the last of these that .env holds, and no copy will undo
  tried,     \* history: passwords checked since the lock was last set
  resets,    \* history: passwords stored on account of each link
  raced,     \* history: links that two requests found usable before either marked them
  crashes    \* restarts so far, for the bound

vars == <<env, file, failed, locked, links, sessions, stepUps, req, signOuts, out, filed, tried, resets, raced, crashes>>

Settings == [epoch : Nat, key : Nat]
Ops == {"login", "step-up", "change", "reset", "logout", "rotate", "save"}
NoRequest == [op |-> "none", at |-> "idle", ok |-> FALSE, link |-> CHOOSE l \in Links : TRUE,
              epoch |-> 0, no |-> 0, alone |-> TRUE, signed |-> FALSE, copy |-> [epoch |-> 0, key |-> 0]]

Init ==
  /\ env = [epoch |-> 0, key |-> 0] /\ file = env
  /\ failed = 0 /\ locked = FALSE
  /\ links = [l \in Links |-> "none"] /\ sessions = {} /\ stepUps = {}
  /\ req = [r \in Requests |-> NoRequest]
  /\ signOuts = 0 /\ out = 0 /\ filed = 0 /\ tried = 0 /\ resets = [l \in Links |-> 0] /\ raced = {} /\ crashes = 0

At(r, p) == req[r].at = p
Goto(r, p) == req' = [req EXCEPT ![r].at = p]
End(r) == req' = [req EXCEPT ![r] = NoRequest]
settings == <<env, file>>
throttle == <<failed, locked, tried>>
cookies == <<sessions, stepUps>>
history == <<signOuts, out, filed, resets, raced, crashes>>

\* session_claims: signed with the key in force and of the epoch in force.
Valid(s) == s.key = env.key /\ s.epoch = env.epoch
\* require_step_up.
SteppedUp == \E s \in stepUps : Valid(s)

-----------------------------------------------------------------------------
(* Checking a password: the user knows the one in force, or does not.     *)

Ask(r, op) ==
  /\ At(r, "idle") /\ op \in {"login", "step-up", "change"}
  /\ op = "step-up" => \E s \in sessions : Valid(s)
  /\ req' = [req EXCEPT ![r] = [NoRequest EXCEPT !.op = op, !.at = "enforce"]]
  /\ UNCHANGED <<settings, throttle, links, cookies, history>>

\* enforce_login_lockout.
Refuses(r) == locked
Enforce(r) ==
  /\ At(r, "enforce")
  /\ IF Refuses(r) THEN End(r) ELSE Goto(r, "check")
  /\ UNCHANGED <<settings, throttle, links, cookies, history>>

CheckPassword(r) ==
  /\ At(r, "check")
  /\ \E ok \in BOOLEAN : req' = [req EXCEPT ![r].at = "record", ![r].ok = ok]
  /\ tried' = IF locked THEN tried + 1 ELSE tried
  /\ UNCHANGED <<settings, failed, locked, links, cookies, history>>

\* clear_login_failures.
ClearFailures == failed' = 0 /\ locked' = (locked /\ failed = 0) /\ UNCHANGED tried
RecordFailure ==
  /\ failed < MaxFailed /\ failed' = failed + 1
  /\ IF failed + 1 >= Threshold THEN locked' = TRUE /\ tried' = 0 ELSE UNCHANGED <<locked, tried>>
After(r) ==
  CASE req[r].op = "login" -> "sign"
    [] req[r].op = "step-up" -> "step"
    [] OTHER -> "claims"
RecordAttempt(r) ==
  /\ At(r, "record")
  /\ IF req[r].ok THEN ClearFailures /\ req' = [req EXCEPT ![r].at = After(r), ![r].ok = FALSE] ELSE RecordFailure /\ End(r)
  /\ UNCHANGED <<settings, links, cookies, history>>

\* create_session_token and the cookie of the answer.
SignIn(r) ==
  /\ At(r, "sign") /\ Cardinality(sessions) < MaxSessions
  /\ sessions' = sessions \cup {[epoch |-> env.epoch, key |-> env.key, born |-> signOuts]}
  /\ End(r) /\ UNCHANGED <<settings, throttle, links, stepUps, history>>

\* A step-up cookie is bound to the session that the request came with.
StepUp(r) ==
  /\ At(r, "step") /\ stepUps' \in {stepUps} \cup {stepUps \cup {s} : s \in sessions}
  /\ End(r) /\ UNCHANGED <<settings, throttle, links, sessions, history>>

\* change_password: the new one may be refused; a session that is valid now is replaced
\* in the end.
Claims(r) ==
  /\ At(r, "claims")
  /\ \/ End(r)
     \/ \E signed \in {b \in BOOLEAN : b => \E s \in sessions : Valid(s)} :
          req' = [req EXCEPT ![r].at = "store", ![r].signed = signed]
  /\ UNCHANGED <<settings, throttle, links, cookies, history>>

-----------------------------------------------------------------------------
(* Reset links.                                                            *)

\* _issue_reset_link: earlier links are used up in the same transaction.
Unused(l) == links[l] \in {"live", "late"}
(* Variant: they stay. *)
KeepsOlder(l) == [links EXCEPT ![l] = "live"]
Issued(l) == [k \in Links |-> IF k = l THEN "live" ELSE IF Unused(k) THEN "used" ELSE links[k]]
IssueLink(l) ==
  /\ links[l] = "none" /\ links' = Issued(l)
  /\ UNCHANGED <<settings, throttle, cookies, req, history>>

\* reset_password: the link is looked up ...
LookUp(r, l) ==
  /\ At(r, "idle") /\ links[l] = "live"
  /\ req' = [req EXCEPT ![r] = [NoRequest EXCEPT !.op = "reset", !.at = "mark", !.link = l]]
  /\ raced' = IF \E q \in Requests : At(q, "mark") /\ req[q].link = l THEN raced \cup {l} ELSE raced
  /\ UNCHANGED <<settings, throttle, links, cookies, signOuts, out, filed, resets, crashes>>

\* ... and marked, in a transaction of its own.
Marked(r) == [links EXCEPT ![req[r].link] = "used"]
MarkLink(r) ==
  /\ At(r, "mark") /\ links' = Marked(r) /\ Goto(r, "store")
  /\ UNCHANGED <<settings, throttle, cookies, history>>

-----------------------------------------------------------------------------
(* dotenv.set_key: the file is read, a copy is written and takes its place. *)

Copying == {"hash file", "blank file", "epoch file", "key file", "save file"}
Holds(r) == req[r].at \in Copying
ReadFile(r, p) == req' = [req EXCEPT ![r].at = p, ![r].copy = file]
WriteFile(r, settled, p) ==
  file' = settled /\ req' = [req EXCEPT ![r].at = p, ![r].copy = NoRequest.copy]
\* Whether the copy that r puts in place is the last one read so far.
Settles(r) == \A q \in Requests \ {r} : ~Holds(q)
Files(r) == filed' = IF req[r].alone /\ Settles(r) /\ req[r].no > filed THEN req[r].no ELSE filed

\* Any other setting: save_account_email, change_username, _generate_env_secret, ...
Save(r) ==
  /\ At(r, "idle") /\ SteppedUp
  /\ req' = [req EXCEPT ![r] = [NoRequest EXCEPT !.op = "save", !.at = "save file", !.copy = file]]
  /\ UNCHANGED <<settings, throttle, links, cookies, history>>
SaveFile(r) ==
  /\ At(r, "save file") /\ file' = req[r].copy /\ End(r)
  /\ UNCHANGED <<env, throttle, links, cookies, history>>

-----------------------------------------------------------------------------
(* Storing a password, and signing every browser out.                      *)

\* _store_new_password, up to the sign-out: the hash, then no plain password.
StorePassword(r) ==
  /\ At(r, "store") /\ ReadFile(r, "hash file")
  /\ resets' = IF req[r].op = "reset" THEN [resets EXCEPT ![req[r].link] = @ + 1] ELSE resets
  /\ UNCHANGED <<settings, throttle, links, cookies, signOuts, out, filed, raced, crashes>>
HashFile(r) ==
  /\ At(r, "hash file") /\ WriteFile(r, req[r].copy, "blank")
  /\ UNCHANGED <<env, throttle, links, cookies, history>>
BlankPassword(r) ==
  /\ At(r, "blank") /\ ReadFile(r, "blank file")
  /\ UNCHANGED <<settings, throttle, links, cookies, history>>
BlankFile(r) ==
  /\ At(r, "blank file") /\ WriteFile(r, req[r].copy, "bump")
  /\ UNCHANGED <<env, throttle, links, cookies, history>>

LogOutEverywhere(r) ==
  /\ At(r, "idle") /\ SteppedUp
  /\ req' = [req EXCEPT ![r] = [NoRequest EXCEPT !.op = "logout", !.at = "bump"]]
  /\ UNCHANGED <<settings, throttle, links, cookies, history>>

\* bump_session_epoch: read, written to .env, then in force.
Bumping(r) == req[r].at \in {"epoch", "epoch file", "epoch env"}
Alone == (\A q \in Requests : ~Bumping(q)) /\ \A s \in sessions : s.epoch <= env.epoch
BumpRead(r) ==
  /\ At(r, "bump") /\ signOuts < MaxSignOuts /\ signOuts' = signOuts + 1
  /\ req' = [req EXCEPT ![r].at = "epoch", ![r].epoch = env.epoch + 1, ![r].no = signOuts + 1,
                        ![r].alone = Alone]
  /\ UNCHANGED <<settings, throttle, links, cookies, out, filed, resets, raced, crashes>>
BumpCopy(r) ==
  /\ At(r, "epoch") /\ ReadFile(r, "epoch file")
  /\ UNCHANGED <<settings, throttle, links, cookies, history>>
(* Variant: .env keeps the epoch it has. *)
NotKept(r) == req[r].copy
Kept(r) == [req[r].copy EXCEPT !.epoch = req[r].epoch]
BumpFile(r) ==
  /\ At(r, "epoch file") /\ WriteFile(r, Kept(r), "epoch env") /\ Files(r)
  /\ UNCHANGED <<env, throttle, links, cookies, signOuts, out, resets, raced, crashes>>
SignedOut(r) == out' = IF req[r].alone /\ req[r].no > out THEN req[r].no ELSE out
BumpEnv(r) ==
  /\ At(r, "epoch env") /\ env' = [env EXCEPT !.epoch = req[r].epoch] /\ SignedOut(r)
  /\ IF req[r].op = "logout" THEN End(r) ELSE Goto(r, "clear")
  /\ UNCHANGED <<file, throttle, links, cookies, signOuts, filed, resets, raced, crashes>>

Clear(r) ==
  /\ At(r, "clear") /\ ClearFailures
  /\ IF req[r].signed THEN Goto(r, "sign") ELSE End(r)
  /\ UNCHANGED <<settings, links, cookies, history>>

\* rotate_app_secret: .env, then in force.
RotateSecret(r) ==
  /\ At(r, "idle") /\ SteppedUp /\ signOuts < MaxSignOuts /\ signOuts' = signOuts + 1
  /\ req' = [req EXCEPT ![r] = [NoRequest EXCEPT !.op = "rotate", !.at = "key file", !.no = signOuts + 1,
                                                !.copy = file]]
  /\ UNCHANGED <<settings, throttle, links, cookies, out, filed, resets, raced, crashes>>
SecretFile(r) ==
  /\ At(r, "key file") /\ WriteFile(r, [req[r].copy EXCEPT !.key = req[r].no], "key env") /\ Files(r)
  /\ UNCHANGED <<env, throttle, links, cookies, signOuts, out, resets, raced, crashes>>
UseSecret(r) ==
  /\ At(r, "key env") /\ env' = [env EXCEPT !.key = req[r].no] /\ SignedOut(r) /\ End(r)
  /\ UNCHANGED <<file, throttle, links, cookies, signOuts, filed, resets, raced, crashes>>

-----------------------------------------------------------------------------
(* Time, and the end of the process.                                       *)

LockEnds == locked /\ locked' = FALSE /\ UNCHANGED <<settings, failed, tried, links, cookies, req, history>>
LinkExpires(l) ==
  /\ links[l] = "live" /\ links' = [links EXCEPT ![l] = "late"]
  /\ UNCHANGED <<settings, throttle, cookies, req, history>>
SessionExpires(s) ==
  /\ sessions' = sessions \ {s} /\ stepUps' = stepUps \ {s}
  /\ UNCHANGED <<settings, throttle, links, req, history>>
StepUpExpires(s) ==
  /\ stepUps' = stepUps \ {s}
  /\ UNCHANGED <<settings, throttle, links, sessions, req, history>>
Restart ==
  /\ crashes < MaxCrashes /\ crashes' = crashes + 1
  /\ env' = file /\ req' = [r \in Requests |-> NoRequest] /\ out' = filed
  /\ UNCHANGED <<file, throttle, links, cookies, signOuts, filed, resets, raced>>

-----------------------------------------------------------------------------
Steps(r) ==
  \/ Enforce(r) \/ CheckPassword(r) \/ RecordAttempt(r) \/ SignIn(r) \/ StepUp(r) \/ Claims(r)
  \/ MarkLink(r) \/ StorePassword(r) \/ HashFile(r) \/ BlankPassword(r) \/ BlankFile(r)
  \/ LogOutEverywhere(r) \/ BumpRead(r) \/ BumpCopy(r) \/ BumpFile(r) \/ BumpEnv(r) \/ Clear(r)
  \/ RotateSecret(r) \/ SecretFile(r) \/ UseSecret(r) \/ Save(r) \/ SaveFile(r)

Next ==
  \/ \E r \in Requests, op \in Ops : Ask(r, op)
  \/ \E r \in Requests, l \in Links : LookUp(r, l)
  \/ \E r \in Requests : Steps(r)
  \/ \E l \in Links : IssueLink(l) \/ LinkExpires(l)
  \/ \E s \in sessions : SessionExpires(s)
  \/ \E s \in stepUps : StepUpExpires(s)
  \/ LockEnds \/ Restart

Spec == Init /\ [][Next]_vars

-----------------------------------------------------------------------------
(* Properties.                                                             *)

TypeOK ==
  /\ {env, file} \subseteq Settings /\ failed \in Nat /\ locked \in BOOLEAN
  /\ links \in [Links -> {"none", "live", "late", "used"}] /\ stepUps \subseteq sessions
  /\ \A r \in Requests : req[r].op \in Ops \cup {"none"}

\* After a sign-out (logging out everywhere, a new password or secret) no session from
\* before it is accepted for as long as the process lives, whatever requests come later;
\* nor after it has ended, provided that no other thread was between reading and replacing
\* .env when the sign-out replaced it (bump_session_epoch, rotate_app_secret, set_key).
\* Two sign-outs at the same time each write what they read, plus one: the one that ran
\* into the other may be undone by it, and a third may give out an epoch again, so a
\* sign-out counts if it began while no other was under way and no session was ahead of
\* the epoch in force.
StaysSignedOut == \A s \in sessions : s.born < out => ~Valid(s)

\* "a password change or reset and `POST /api/logout-everywhere` raise the epoch, which signs
\* out every browser at once" (assets/api_reference.md): no step, the end of the process
\* among them, makes a browser that was signed out acceptable again.
NoneComesBack == [][\A s \in sessions : s.born < out => ~Valid(s)']_vars

\* Of a reset link only the last one sent is usable, and it sets a password once, across
\* restarts too (_issue_reset_link, reset_password); two requests that looked it up before
\* either marked it both do.
OneResetPerLink ==
  /\ Cardinality({l \in Links : links[l] = "live"}) <= 1
  /\ \A l \in Links : resets[l] > 1 => l \in raced

\* While the lock is on, the passwords still checked are those of requests that were let
\* in before: fewer than there are threads (enforce_login_lockout before each check).
LockBoundsTries == locked => tried < Cardinality(Requests)
=============================================================================
