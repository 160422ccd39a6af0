--------------------------- MODULE McpTokenCache ---------------------------
(***************************************************************************)
(* The access-token cache of the public MCP endpoint (mcp_server/oauth.py) *)
(* against everything that ends a connection.  Verifications run in the    *)
(* threadpool, as do the requests that revoke or refresh; they share       *)
(* _cache and _generation under _lock, and read or write the database      *)
(* outside it.                                                             *)
(*                                                                         *)
(* Time is abstracted to the set of access tokens that have expired: what  *)
(* a thread reads from the clock is the set expired at that moment.        *)
(***************************************************************************)
EXTENDS Naturals, FiniteSets

CONSTANTS
  Verifiers,      \* threads that verify a presented access token
  Workers,        \* threads that revoke or refresh
  Grants, Tokens,
  Owner,          \* the grant each token is issued for
  MaxEntries,     \* MCP_OAUTH_CACHE_MAX_ENTRIES
  MaxGeneration   \* bound: no worker starts at this generation or above

ASSUME OwnerAssumption == Owner \in [Tokens -> Grants]
ASSUME FiniteAssumption == IsFiniteSet(Tokens)
ASSUME EntriesAssumption == MaxEntries \in Nat \ {0}

VARIABLES
  grant,       \* mcp_oauth_grants: absent, live or revoked
  token,       \* mcp_oauth_tokens: the row of each access token
  expired,     \* the tokens whose time (or whose grant's) is over
  cache,       \* the keys of _cache
  generation,  \* _generation
  verifier,    \* the locals of each verification
  worker,      \* the locals of each revocation or refresh
  ended        \* history: the grants whose revocation has returned

database == <<grant, token>>
memory   == <<cache, generation>>
vars == <<database, expired, memory, verifier, worker, ended>>

-----------------------------------------------------------------------------
TokensOf(gs) == {t \in Tokens : Owner[t] \in gs}
Live(g) == grant[g] = "live"
Revoked == {g \in Grants : grant[g] = "revoked"}

VerifierStates == {"idle", "look", "read", "remember", "accepted", "refused"}
IdleVerifier(t) == [pc |-> "idle", token |-> t, now |-> {}, seen |-> 0, barred |-> {}]
IdleWorker == [pc |-> "idle", ends |-> {}, drops |-> {}]

TypeOK ==
  /\ grant \in [Grants -> {"absent", "live", "revoked"}]
  /\ token \in [Tokens -> {"unissued", "stored", "deleted"}]
  /\ expired \subseteq Tokens
  /\ cache \subseteq Tokens
  /\ generation \in Nat
  /\ verifier \in [Verifiers -> [pc : VerifierStates, token : Tokens, now : SUBSET Tokens,
                                 seen : Nat, barred : SUBSET Grants]]
  /\ worker \in [Workers -> [pc : {"idle", "invalidate"}, ends : SUBSET Grants,
                             drops : SUBSET Tokens]]
  /\ ended \subseteq Grants

Init ==
  /\ grant = [g \in Grants |-> "absent"]
  /\ token = [t \in Tokens |-> "unissued"]
  /\ expired = {} /\ cache = {} /\ generation = 0 /\ ended = {}
  /\ verifier \in [Verifiers -> {IdleVerifier(t) : t \in Tokens}]
  /\ worker = [w \in Workers |-> IdleWorker]

-----------------------------------------------------------------------------
(* verify_access_token *)

\* A request arrives with token t; the loop reads the clock.
Present(v, t) ==
  /\ verifier[v].pc \in {"idle", "accepted", "refused"}
  /\ token[t] # "unissued"
  /\ verifier' = [verifier EXCEPT ![v] = [pc |-> "look", token |-> t, now |-> expired,
                                          seen |-> 0, barred |-> ended]]
  /\ UNCHANGED <<database, expired, memory, worker, ended>>

\* The first section under _lock: a cached token whose time is not over is
\* accepted without the database.
Hit(v) ==
  /\ verifier[v].pc = "look"
  /\ verifier[v].token \in cache \ verifier[v].now
  /\ verifier' = [verifier EXCEPT ![v].pc = "accepted"]
  /\ UNCHANGED <<database, expired, memory, worker, ended>>

Miss(v) ==
  /\ verifier[v].pc = "look"
  /\ verifier[v].token \notin cache \ verifier[v].now
  /\ cache' = cache \ {verifier[v].token}
  /\ verifier' = [verifier EXCEPT ![v].pc = "read", ![v].seen = generation]
  /\ UNCHANGED <<database, expired, generation, worker, ended>>

\* db_mcp_oauth.get_token and the checks of its row.
Valid(t, now) == token[t] = "stored" /\ Live(Owner[t]) /\ t \notin now
ReadRow(v) ==
  LET me == verifier[v]
  IN /\ me.pc = "read"
     /\ verifier' = [verifier EXCEPT ![v].pc = IF Valid(me.token, me.now) THEN "remember" ELSE "refused"]
     /\ UNCHANGED <<database, expired, memory, worker, ended>>

\* _remember: expired entries go, then one more if the cache is still full.
\* The code evicts the entry inserted first; here it may be any.
\* Variant: the generation is not compared.
AnyGeneration(v) == TRUE
Unchanged(v) == verifier[v].seen = generation
Fresh(v) == cache \ verifier[v].now
Remembered(v) ==
  LET fresh == Fresh(v)
  IN IF Cardinality(fresh) >= MaxEntries
       THEN {(fresh \ {x}) \union {verifier[v].token} : x \in fresh}
       ELSE {fresh \union {verifier[v].token}}

Remember(v) ==
  /\ verifier[v].pc = "remember"
  /\ Unchanged(v)
  /\ cache' \in Remembered(v)
  /\ verifier' = [verifier EXCEPT ![v].pc = "accepted"]
  /\ UNCHANGED <<database, expired, generation, worker, ended>>

\* An invalidation ran meanwhile: the loop starts over, clock included.
Retry(v) ==
  /\ verifier[v].pc = "remember"
  /\ ~Unchanged(v)
  /\ verifier' = [verifier EXCEPT ![v].pc = "look", ![v].now = expired]
  /\ UNCHANGED <<database, expired, memory, worker, ended>>

-----------------------------------------------------------------------------
(* What ends or renews a connection: one committed write, then invalidate. *)

\* ends: the grants found revoked by this request; drops: what it will
\* remove from the cache.
Committed(w, gs, ts) ==
  /\ worker[w].pc = "idle"
  /\ generation < MaxGeneration
  /\ worker' = [worker EXCEPT ![w] = [pc |-> "invalidate", ends |-> gs, drops |-> ts]]
  /\ UNCHANGED <<expired, memory, verifier, ended>>

\* _revoke: the Revoke button, POST /oauth/revoke, a code or a refresh token
\* presented again.
RevokeGrant(w, g) ==
  /\ grant[g] # "absent"
  /\ grant' = [grant EXCEPT ![g] = "revoked"]
  /\ token' = token
  /\ Committed(w, {g}, TokensOf({g}))

RevokedAll == [g \in Grants |-> IF Live(g) THEN "revoked" ELSE grant[g]]

\* revoke_all_remote_access
RevokeAll(w) ==
  /\ grant' = RevokedAll
  /\ token' = token
  /\ Committed(w, {g \in Grants : grant[g] # "absent"}, Tokens)

\* create_client also deletes every token.  Variant: it drops nothing.
CreateClientQuietly(w) ==
  /\ grant' = RevokedAll
  /\ token' = [t \in Tokens |-> IF token[t] = "stored" THEN "deleted" ELSE token[t]]
  /\ Committed(w, {g \in Grants : grant[g] # "absent"}, {})

CreateClient(w) ==
  /\ grant' = RevokedAll
  /\ token' = [t \in Tokens |-> IF token[t] = "stored" THEN "deleted" ELSE token[t]]
  /\ Committed(w, {g \in Grants : grant[g] # "absent"}, Tokens)

\* refresh_tokens: the grant was read, and the old refresh token rotated,
\* before add_tokens writes; the grant may have been revoked in between.
Refresh(w, t) ==
  /\ grant[Owner[t]] # "absent"
  /\ token[t] = "unissued"
  /\ token' = [token EXCEPT ![t] = "stored"]
  /\ grant' = grant
  /\ Committed(w, {}, TokensOf({Owner[t]}))

\* invalidate, and the return of the request that called it.
Invalidate(w) ==
  /\ worker[w].pc = "invalidate"
  /\ generation' = generation + 1
  /\ cache' = cache \ worker[w].drops
  /\ ended' = ended \union worker[w].ends
  /\ worker' = [worker EXCEPT ![w] = IdleWorker]
  /\ UNCHANGED <<database, expired, verifier>>

\* create_grant: one transaction, no invalidation.
CreateGrant(t) ==
  /\ grant[Owner[t]] = "absent"
  /\ token[t] = "unissued"
  /\ grant' = [grant EXCEPT ![Owner[t]] = "live"]
  /\ token' = [token EXCEPT ![t] = "stored"]
  /\ UNCHANGED <<expired, memory, verifier, worker, ended>>

-----------------------------------------------------------------------------
(* Environment *)

Expire(t) ==
  /\ token[t] # "unissued" /\ t \notin expired
  /\ expired' = expired \union {t}
  /\ UNCHANGED <<database, memory, verifier, worker, ended>>

\* The process ends and starts again: the cache and every thread are gone.
Restart ==
  /\ cache' = {} /\ generation' = 0
  /\ verifier' = [v \in Verifiers |-> IdleVerifier(verifier[v].token)]
  /\ worker' = [w \in Workers |-> IdleWorker]
  /\ UNCHANGED <<database, expired, ended>>

Verify(v) == Hit(v) \/ Miss(v) \/ ReadRow(v) \/ Remember(v) \/ Retry(v)

Work(w) ==
  \/ \E g \in Grants : RevokeGrant(w, g)
  \/ RevokeAll(w)
  \/ CreateClient(w)
  \/ \E t \in Tokens : Refresh(w, t)
  \/ Invalidate(w)

Next ==
  \/ \E v \in Verifiers, t \in Tokens : Present(v, t)
  \/ \E v \in Verifiers : Verify(v)
  \/ \E w \in Workers : Work(w)
  \/ \E t \in Tokens : CreateGrant(t) \/ Expire(t)
  \/ Restart

Spec == Init /\ [][Next]_vars

-----------------------------------------------------------------------------
(* Properties *)

\* "Revocation applies on the next request": a verification that starts after
\* a revocation has returned never accepts a token of that grant, however the
\* database read, the commit and the invalidation interleave; and what it
\* accepts had not expired when it last read the clock.
AcceptedIsCurrent ==
  \A v \in Verifiers : verifier[v].pc = "accepted" =>
    /\ Owner[verifier[v].token] \notin verifier[v].barred
    /\ verifier[v].token \notin verifier[v].now

\* "A token revoked while it was being checked cannot re-enter the cache": a
\* cached token of a revoked grant is about to be dropped by the request that
\* revoked it, which has committed and not yet invalidated.
CacheFollowsGrants ==
  \A t \in cache : Live(Owner[t]) \/ \E w \in Workers : worker[w].pc = "invalidate" /\ t \in worker[w].drops

\* The cache never exceeds its limit, whichever threads insert into it.
CacheBounded == Cardinality(cache) <= MaxEntries

=============================================================================
