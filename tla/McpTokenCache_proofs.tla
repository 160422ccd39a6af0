------------------------ MODULE McpTokenCache_proofs ------------------------
(***************************************************************************)
(* Proofs about McpTokenCache, for any number of threads, grants, tokens   *)
(* and cache entries.                                                      *)
(*                                                                         *)
(* Inv is the inductive invariant.  Its heart is the generation argument:  *)
(* a verification about to store a row either has seen an older            *)
(* generation, so that it will start over, or no revocation of its grant   *)
(* has returned since it looked (SettledAreDropped), and one that has      *)
(* committed is still to invalidate (PendingCoversRead).                   *)
(***************************************************************************)
EXTENDS McpTokenCache, FiniteSetTheorems, TLAPS

Pending(t) == \E w \in Workers : worker[w].pc = "invalidate" /\ t \in worker[w].drops
Storing(v) == verifier[v].pc = "remember" /\ verifier[v].seen = generation

\* What a request will have ended is revoked, and it drops all tokens of that.
WorkersCover ==
  \A w \in Workers : worker[w].ends \subseteq Revoked /\ TokensOf(worker[w].ends) \subseteq worker[w].drops

\* A revocation that has returned was committed; verifications know of no other.
EndedAreRevoked == ended \subseteq Revoked /\ \A v \in Verifiers : verifier[v].barred \subseteq ended

\* No thread has seen a generation that is still to come.
SeenInThePast == \A v \in Verifiers : verifier[v].seen <= generation

\* A row read as valid had not expired by the clock that was read.
StoredUnexpired == \A v \in Verifiers : verifier[v].pc = "remember" => verifier[v].token \notin verifier[v].now

\* A verification that will store its row: the grant is live, or the request
\* that revoked it has not invalidated yet.
PendingCoversRead ==
  \A v \in Verifiers : Storing(v) => Live(Owner[verifier[v].token]) \/ Pending(verifier[v].token)

\* No token of a grant whose revocation has returned is cached or about to be.
SettledAreDropped ==
  /\ \A t \in cache : Owner[t] \notin ended
  /\ \A v \in Verifiers : Storing(v) => Owner[verifier[v].token] \notin ended

Inv ==
  /\ TypeOK
  /\ WorkersCover
  /\ EndedAreRevoked
  /\ SeenInThePast
  /\ StoredUnexpired
  /\ PendingCoversRead
  /\ SettledAreDropped
  /\ CacheFollowsGrants
  /\ AcceptedIsCurrent

-----------------------------------------------------------------------------
\* The three requests that revoke, seen together: each marks what it ends
\* revoked, leaves other grants alone, and will drop all tokens of the rest.
Revoking(w) ==
  \/ \E g \in Grants : RevokeGrant(w, g)
  \/ RevokeAll(w)
  \/ CreateClient(w)

\* Each of these requests leaves the memory alone, takes an idle worker and
\* records in it the tokens of every grant that it turns from live to revoked.
LEMMA RevokingStep ==
  ASSUME TypeOK, NEW w \in Workers, Revoking(w)
  PROVE  /\ UNCHANGED <<expired, memory, verifier, ended>>
         /\ worker[w].pc = "idle"
         /\ \E gs \in SUBSET Grants, ts \in SUBSET Tokens :
              /\ worker' = [worker EXCEPT ![w] = [pc |-> "invalidate", ends |-> gs, drops |-> ts]]
              /\ TokensOf(gs) \subseteq ts
              /\ \A g \in gs : grant'[g] = "revoked"
              /\ \A t \in Tokens : Live(Owner[t]) => t \in ts \/ grant'[Owner[t]] = "live"
         /\ \A g \in Grants : grant[g] = "revoked" => grant'[g] = "revoked"
         /\ grant' \in [Grants -> {"absent", "live", "revoked"}]
         /\ token' \in [Tokens -> {"unissued", "stored", "deleted"}]
<1> USE OwnerAssumption DEF TypeOK
<1>1. CASE \E g \in Grants : RevokeGrant(w, g)
  <2>1. PICK g \in Grants : RevokeGrant(w, g)
    BY <1>1
  <2>2. /\ worker' = [worker EXCEPT ![w] = [pc |-> "invalidate", ends |-> {g}, drops |-> TokensOf({g})]]
        /\ worker[w].pc = "idle"
        /\ UNCHANGED <<expired, memory, verifier, ended>>
        /\ grant' = [grant EXCEPT ![g] = "revoked"] /\ token' = token
    BY <2>1 DEF RevokeGrant, Committed
  <2>3. TokensOf({g}) \subseteq Tokens /\ {g} \subseteq Grants
    BY DEF TokensOf
  <2>4. \A t \in Tokens : Live(Owner[t]) => t \in TokensOf({g}) \/ grant'[Owner[t]] = "live"
    BY <2>2 DEF TokensOf, Live
  <2>5. \A h \in {g} : grant'[h] = "revoked"
    BY <2>2
  <2>6. /\ \A h \in Grants : grant[h] = "revoked" => grant'[h] = "revoked"
        /\ grant' \in [Grants -> {"absent", "live", "revoked"}]
        /\ token' \in [Tokens -> {"unissued", "stored", "deleted"}]
    BY <2>2
  <2> HIDE DEF TypeOK
  <2>7. \E gs \in SUBSET Grants, ts \in SUBSET Tokens :
           /\ worker' = [worker EXCEPT ![w] = [pc |-> "invalidate", ends |-> gs, drops |-> ts]]
           /\ TokensOf(gs) \subseteq ts
           /\ \A h \in gs : grant'[h] = "revoked"
           /\ \A t \in Tokens : Live(Owner[t]) => t \in ts \/ grant'[Owner[t]] = "live"
    <3> DEFINE gs == {g}  ts == TokensOf(gs)
    <3>1. /\ gs \in SUBSET Grants /\ ts \in SUBSET Tokens /\ TokensOf(gs) \subseteq ts
          /\ worker' = [worker EXCEPT ![w] = [pc |-> "invalidate", ends |-> gs, drops |-> ts]]
          /\ \A h \in gs : grant'[h] = "revoked"
          /\ \A t \in Tokens : Live(Owner[t]) => t \in ts \/ grant'[Owner[t]] = "live"
      BY <2>2, <2>3, <2>4, <2>5
    <3> HIDE DEF gs, ts
    <3> QED
      BY <3>1
  <2> QED
    BY <2>2, <2>6, <2>7
<1>2. CASE RevokeAll(w) \/ CreateClient(w)
  <2> DEFINE gs == {g \in Grants : grant[g] # "absent"}
  <2>1. /\ worker' = [worker EXCEPT ![w] = [pc |-> "invalidate", ends |-> gs, drops |-> Tokens]]
        /\ worker[w].pc = "idle"
        /\ UNCHANGED <<expired, memory, verifier, ended>>
        /\ grant' = RevokedAll
    BY <1>2 DEF RevokeAll, CreateClient, Committed
  <2>2. token' \in [Tokens -> {"unissued", "stored", "deleted"}]
    BY <1>2 DEF RevokeAll, CreateClient
  <2>3. /\ TokensOf(gs) \subseteq Tokens
        /\ \A g \in gs : grant'[g] = "revoked"
        /\ \A h \in Grants : grant[h] = "revoked" => grant'[h] = "revoked"
        /\ grant' \in [Grants -> {"absent", "live", "revoked"}]
    BY <2>1 DEF TokensOf, RevokedAll, Live
  <2> HIDE DEF gs
  <2>4. gs \subseteq Grants
    BY DEF gs
  <2> HIDE DEF TypeOK
  <2> QED
    BY <2>1, <2>2, <2>3, <2>4
<1> QED
  BY <1>1, <1>2 DEF Revoking

\* Every step is one of these.
LEMMA Steps ==
  ASSUME Next
  PROVE  \/ \E v \in Verifiers, t \in Tokens : Present(v, t)
         \/ \E v \in Verifiers : Hit(v) \/ Miss(v) \/ ReadRow(v) \/ Remember(v) \/ Retry(v)
         \/ \E w \in Workers : Revoking(w) \/ Invalidate(w)
         \/ \E w \in Workers, t \in Tokens : Refresh(w, t)
         \/ \E t \in Tokens : CreateGrant(t)
         \/ \E t \in Tokens : Expire(t)
         \/ Restart
BY DEF Next, Verify, Work, Revoking

\* A refresh stores a token and records that it ends nothing.
LEMMA RefreshStep ==
  ASSUME TypeOK, NEW w \in Workers, NEW t \in Tokens, Refresh(w, t)
  PROVE  /\ UNCHANGED <<grant, expired, memory, verifier, ended>>
         /\ worker[w].pc = "idle"
         /\ \E ts \in SUBSET Tokens :
              worker' = [worker EXCEPT ![w] = [pc |-> "invalidate", ends |-> {}, drops |-> ts]]
         /\ token' \in [Tokens -> {"unissued", "stored", "deleted"}]
BY DEF Refresh, Committed, TypeOK, TokensOf

-----------------------------------------------------------------------------
(* Type correctness *)

LEMMA TypeStep == ASSUME TypeOK, Next PROVE TypeOK'
<1>1. CASE \E v \in Verifiers, t \in Tokens : Present(v, t)
  BY <1>1 DEF TypeOK, Present, VerifierStates, database, memory
<1>2. CASE \E v \in Verifiers : Hit(v) \/ Miss(v)
  <2> DEFINE Looker == [pc : VerifierStates, token : Tokens, now : SUBSET Tokens, seen : Nat, barred : SUBSET Grants]
  <2>1. PICK v \in Verifiers : Hit(v) \/ Miss(v)
    BY <1>2
  <2>2. verifier \in [Verifiers -> Looker] /\ generation \in Nat
    BY DEF TypeOK
  <2>3. [verifier[v] EXCEPT !.pc = "accepted"] \in Looker
    BY <2>2 DEF VerifierStates
  <2>4. [verifier[v] EXCEPT !.pc = "read", !.seen = generation] \in Looker
    BY <2>2 DEF VerifierStates
  <2>5. \E l \in Looker : verifier' = [verifier EXCEPT ![v] = l]
    BY <2>1, <2>2, <2>3, <2>4 DEF Hit, Miss
  <2> HIDE DEF Looker
  <2>6. verifier' \in [Verifiers -> Looker]
    BY <2>2, <2>5
  <2> USE DEF Looker
  <2>7. cache' \subseteq Tokens /\ UNCHANGED <<database, expired, generation, worker, ended>>
    BY <2>1 DEF TypeOK, Hit, Miss, memory
  <2> QED
    BY <2>6, <2>7 DEF TypeOK, database
<1>3. CASE \E v \in Verifiers : ReadRow(v)
  BY <1>3 DEF TypeOK, ReadRow, VerifierStates, database, memory
<1>4. CASE \E v \in Verifiers : Remember(v)
  <2>1. PICK v \in Verifiers : Remember(v)
    BY <1>4
  <2>2. cache' \subseteq Tokens
    BY <2>1 DEF TypeOK, Remember, Remembered, Fresh
  <2> DEFINE Looker == [pc : VerifierStates, token : Tokens, now : SUBSET Tokens, seen : Nat, barred : SUBSET Grants]
  <2>3. verifier \in [Verifiers -> Looker]
    BY DEF TypeOK
  <2>4. [verifier[v] EXCEPT !.pc = "accepted"] \in Looker
    BY <2>3 DEF VerifierStates
  <2>5. verifier' = [verifier EXCEPT ![v] = [verifier[v] EXCEPT !.pc = "accepted"]]
    BY <2>1, <2>3 DEF Remember
  <2>6. verifier' \in [Verifiers -> Looker]
    <3> HIDE DEF Looker
    <3> QED
      BY <2>3, <2>4, <2>5
  <2> QED
    BY <2>1, <2>2, <2>6 DEF TypeOK, Remember, database
<1>5. CASE \E v \in Verifiers : Retry(v)
  <2>1. PICK v \in Verifiers : Retry(v)
    BY <1>5
  <2>2. verifier' = [verifier EXCEPT ![v] = [verifier[v] EXCEPT !.pc = "look", !.now = expired]]
    BY <2>1 DEF Retry, TypeOK
  <2>3. [verifier[v] EXCEPT !.pc = "look", !.now = expired] \in
          [pc : VerifierStates, token : Tokens, now : SUBSET Tokens, seen : Nat, barred : SUBSET Grants]
    BY DEF TypeOK, VerifierStates
  <2> QED
    BY <2>1, <2>2, <2>3 DEF TypeOK, Retry, database, memory
<1>6. CASE \E w \in Workers : Revoking(w)
  <2>1. PICK w \in Workers : Revoking(w)
    BY <1>6
  <2>2. PICK gs \in SUBSET Grants, ts \in SUBSET Tokens :
            worker' = [worker EXCEPT ![w] = [pc |-> "invalidate", ends |-> gs, drops |-> ts]]
    BY <2>1, RevokingStep
  <2>3. UNCHANGED <<expired, memory, verifier, ended>>
        /\ grant' \in [Grants -> {"absent", "live", "revoked"}]
        /\ token' \in [Tokens -> {"unissued", "stored", "deleted"}]
    BY <2>1, RevokingStep
  <2> QED
    BY <2>2, <2>3 DEF TypeOK, memory
<1>7. CASE \E w \in Workers : Invalidate(w)
  BY <1>7 DEF TypeOK, Invalidate, IdleWorker, database
<1>8. CASE \E w \in Workers, t \in Tokens : Refresh(w, t)
  BY <1>8, RefreshStep DEF TypeOK, memory
<1>9. CASE \E t \in Tokens : CreateGrant(t)
  <2>1. PICK t \in Tokens : CreateGrant(t)
    BY <1>9
  <2> QED
    BY <2>1, OwnerAssumption DEF TypeOK, CreateGrant, memory
<1>10. CASE \E t \in Tokens : Expire(t)
  BY <1>10 DEF TypeOK, Expire, database, memory
<1>11. CASE Restart
  BY <1>11 DEF TypeOK, Restart, IdleVerifier, IdleWorker, VerifierStates, database
<1> QED
  BY Steps, <1>1, <1>2, <1>3, <1>4, <1>5, <1>6, <1>7, <1>8, <1>9, <1>10, <1>11

LEMMA TypeInit == Init => TypeOK
BY DEF Init, TypeOK, IdleVerifier, IdleWorker, VerifierStates

\* Every variable keeps its type.
THEOREM TypeCorrect == Spec => []TypeOK
<1>1. TypeOK /\ UNCHANGED vars => TypeOK'
  BY DEF TypeOK, vars, database, memory
<1> QED
  BY <1>1, TypeInit, TypeStep, PTL DEF Spec

-----------------------------------------------------------------------------
(* The inductive invariant, action by action *)

\* The parts of Inv that only speak of grants, workers and what has ended.
RequestParts == WorkersCover /\ EndedAreRevoked /\ SeenInThePast
\* The parts that say what a verification or the cache may hold.
TokenParts == StoredUnexpired /\ PendingCoversRead /\ SettledAreDropped /\ CacheFollowsGrants /\ AcceptedIsCurrent

LEMMA InvParts == Inv <=> TypeOK /\ RequestParts /\ TokenParts
BY DEF Inv, RequestParts, TokenParts

LEMMA InvInit == Init => Inv
<1> SUFFICES ASSUME Init PROVE Inv
  OBVIOUS
<1>1. TypeOK
  BY TypeInit
<1>2. RequestParts
  BY DEF Init, RequestParts, WorkersCover, EndedAreRevoked, SeenInThePast, IdleVerifier, IdleWorker, TokensOf, Revoked
<1>3. TokenParts
  BY DEF Init, TokenParts, StoredUnexpired, PendingCoversRead, SettledAreDropped, CacheFollowsGrants,
         AcceptedIsCurrent, Storing, IdleVerifier
<1> QED
  BY <1>1, <1>2, <1>3, InvParts

\* A verification step: the requests are as before.
LEMMA VerifierStep ==
  ASSUME Inv, NEW v \in Verifiers, NEW t \in Tokens,
         Present(v, t) \/ Hit(v) \/ Miss(v) \/ ReadRow(v) \/ Remember(v) \/ Retry(v)
  PROVE  RequestParts' /\ TokenParts'
<1> USE DEF TypeOK
<1>1. CASE Present(v, t)
  <2>1. RequestParts'
    BY <1>1 DEF Inv, Present, database, memory, RequestParts, WorkersCover, EndedAreRevoked, SeenInThePast, Revoked
  <2>2. TokenParts'
    BY <1>1 DEF Inv, Present, database, memory, TokenParts, StoredUnexpired, PendingCoversRead, SettledAreDropped,
                CacheFollowsGrants, AcceptedIsCurrent, Storing, Pending, Live
  <2> QED
    BY <2>1, <2>2
<1>2. CASE Hit(v)
  <2>1. RequestParts'
    BY <1>2 DEF Inv, Hit, database, memory, RequestParts, WorkersCover, EndedAreRevoked, SeenInThePast, Revoked
  <2>2. TokenParts'
    BY <1>2 DEF Inv, Hit, database, memory, TokenParts, StoredUnexpired, PendingCoversRead, SettledAreDropped,
                CacheFollowsGrants, AcceptedIsCurrent, Storing, Pending, Live, EndedAreRevoked
  <2> QED
    BY <2>1, <2>2
<1>3. CASE Miss(v)
  <2>1. RequestParts'
    BY <1>3 DEF Inv, Miss, database, RequestParts, WorkersCover, EndedAreRevoked, SeenInThePast, Revoked
  <2>2. /\ cache' \subseteq cache /\ ended' = ended /\ generation' = generation
        /\ UNCHANGED <<grant, token, worker>>
        /\ verifier' = [verifier EXCEPT ![v].pc = "read", ![v].seen = generation]
    BY <1>3 DEF Miss, database
  <2>3. \A u \in Verifiers :
          /\ verifier'[u].pc \in {"remember", "accepted"} => u # v /\ verifier'[u] = verifier[u]
          /\ Storing(u)' => u # v /\ Storing(u) /\ verifier'[u] = verifier[u]
    BY <2>2 DEF Inv, Storing
  <2>4. StoredUnexpired' /\ AcceptedIsCurrent'
    BY <2>2, <2>3 DEF Inv, StoredUnexpired, AcceptedIsCurrent
  <2>5. PendingCoversRead' /\ SettledAreDropped'
    BY <2>2, <2>3 DEF Inv, PendingCoversRead, SettledAreDropped, Pending, Live
  <2>6. CacheFollowsGrants'
    BY <2>2 DEF Inv, CacheFollowsGrants, Live
  <2> QED
    BY <2>1, <2>4, <2>5, <2>6 DEF TokenParts
<1>4. CASE ReadRow(v)
  <2>1. RequestParts'
    BY <1>4 DEF Inv, ReadRow, database, memory, RequestParts, WorkersCover, EndedAreRevoked, SeenInThePast, Revoked
  <2>2. TokenParts'
    BY <1>4, OwnerAssumption DEF Inv, ReadRow, Valid, database, memory, TokenParts, StoredUnexpired, PendingCoversRead,
                SettledAreDropped, CacheFollowsGrants, AcceptedIsCurrent, Storing, Pending, Live, EndedAreRevoked, Revoked
  <2> QED
    BY <2>1, <2>2
<1>5. CASE Remember(v)
  <2>1. RequestParts'
    BY <1>5 DEF Inv, Remember, database, RequestParts, WorkersCover, EndedAreRevoked, SeenInThePast, Revoked
  <2>2. cache' \subseteq cache \union {verifier[v].token}
    BY <1>5 DEF Remember, Remembered, Fresh
  <2>3. Storing(v)
    BY <1>5 DEF Remember, Unchanged, Storing
  <2>4. TokenParts'
    BY <1>5, <2>2, <2>3
       DEF Inv, Remember, database, TokenParts, StoredUnexpired, PendingCoversRead, SettledAreDropped,
           CacheFollowsGrants, AcceptedIsCurrent, Storing, Pending, Live, EndedAreRevoked
  <2> QED
    BY <2>1, <2>4
<1>6. CASE Retry(v)
  <2>1. RequestParts'
    BY <1>6 DEF Inv, Retry, database, memory, RequestParts, WorkersCover, EndedAreRevoked, SeenInThePast, Revoked
  <2>2. TokenParts'
    BY <1>6 DEF Inv, Retry, database, memory, TokenParts, StoredUnexpired, PendingCoversRead, SettledAreDropped,
                CacheFollowsGrants, AcceptedIsCurrent, Storing, Pending, Live
  <2> QED
    BY <2>1, <2>2
<1> QED
  BY <1>1, <1>2, <1>3, <1>4, <1>5, <1>6

\* A commit that revokes: what turns from live to revoked is in its drops.
LEMMA RevokingKeeps ==
  ASSUME Inv, NEW w \in Workers, Revoking(w)
  PROVE  RequestParts' /\ TokenParts'
<1>0. TypeOK
  BY DEF Inv
<1>1. /\ UNCHANGED <<expired, cache, generation, verifier, ended>>
      /\ worker[w].pc = "idle"
      /\ \A g \in Grants : grant[g] = "revoked" => grant'[g] = "revoked"
  BY <1>0, RevokingStep DEF memory
<1>2. PICK gs \in SUBSET Grants, ts \in SUBSET Tokens :
         /\ worker' = [worker EXCEPT ![w] = [pc |-> "invalidate", ends |-> gs, drops |-> ts]]
         /\ TokensOf(gs) \subseteq ts
         /\ \A g \in gs : grant'[g] = "revoked"
         /\ \A t \in Tokens : Live(Owner[t]) => t \in ts \/ grant'[Owner[t]] = "live"
  BY <1>0, RevokingStep
<1>3. RequestParts'
  BY <1>0, <1>1, <1>2
     DEF Inv, TypeOK, RequestParts, WorkersCover, EndedAreRevoked, SeenInThePast, Revoked, TokensOf
<1>4. \A t \in Tokens : Live(Owner[t]) \/ Pending(t) => Live(Owner[t])' \/ Pending(t)'
  BY <1>0, <1>1, <1>2 DEF TypeOK, Live, Pending
<1>5. (StoredUnexpired /\ SettledAreDropped /\ AcceptedIsCurrent)'
  BY <1>1 DEF Inv, StoredUnexpired, SettledAreDropped, AcceptedIsCurrent, Storing
<1>6. PendingCoversRead'
  BY <1>0, <1>1, <1>4 DEF Inv, TypeOK, PendingCoversRead, Storing, Live
<1>7. CacheFollowsGrants'
  BY <1>0, <1>1, <1>4 DEF Inv, TypeOK, CacheFollowsGrants, Pending, Live
<1> QED
  BY <1>3, <1>5, <1>6, <1>7 DEF TokenParts

\* An invalidation: whoever is about to store has seen an older generation.
LEMMA InvalidateKeeps ==
  ASSUME Inv, NEW w \in Workers, Invalidate(w)
  PROVE  RequestParts' /\ TokenParts'
<1> USE DEF TypeOK
<1>1. RequestParts'
  BY DEF Inv, Invalidate, IdleWorker, database, RequestParts, WorkersCover, EndedAreRevoked, SeenInThePast, Revoked, TokensOf
<1>2. \A v \in Verifiers : ~Storing(v)'
  BY DEF Inv, Invalidate, SeenInThePast, Storing
<1>3. \A t \in cache' : Owner[t] \notin ended'
  BY DEF Inv, Invalidate, SettledAreDropped, WorkersCover, TokensOf
<1>4. CacheFollowsGrants'
  BY DEF Inv, Invalidate, IdleWorker, database, CacheFollowsGrants, Live
<1>5. (StoredUnexpired /\ AcceptedIsCurrent)'
  BY DEF Inv, Invalidate, StoredUnexpired, AcceptedIsCurrent
<1> QED
  BY <1>1, <1>2, <1>3, <1>4, <1>5 DEF TokenParts, PendingCoversRead, SettledAreDropped

\* A refresh revokes nothing.
LEMMA RefreshKeeps ==
  ASSUME Inv, NEW w \in Workers, NEW t \in Tokens, Refresh(w, t)
  PROVE  RequestParts' /\ TokenParts'
<1>0. TypeOK
  BY DEF Inv
<1>1. UNCHANGED <<grant, expired, cache, generation, verifier, ended>> /\ worker[w].pc = "idle"
  BY <1>0, RefreshStep DEF memory
<1>2. PICK ts \in SUBSET Tokens :
         worker' = [worker EXCEPT ![w] = [pc |-> "invalidate", ends |-> {}, drops |-> ts]]
  BY <1>0, RefreshStep
<1>3. RequestParts'
  BY <1>0, <1>1, <1>2
     DEF Inv, TypeOK, RequestParts, WorkersCover, EndedAreRevoked, SeenInThePast, Revoked, TokensOf
<1>4. TokenParts'
  BY <1>0, <1>1, <1>2
     DEF Inv, TypeOK, TokenParts, StoredUnexpired, PendingCoversRead, SettledAreDropped, CacheFollowsGrants,
         AcceptedIsCurrent, Storing, Pending, Live
<1> QED
  BY <1>3, <1>4

\* New grants, the clock and a restart.
LEMMA EnvironmentKeeps ==
  ASSUME Inv, (\E t \in Tokens : CreateGrant(t) \/ Expire(t)) \/ Restart
  PROVE  RequestParts' /\ TokenParts'
<1>1. CASE \E t \in Tokens : CreateGrant(t)
  <2>0. PICK t \in Tokens : CreateGrant(t)
    BY <1>1
  <2>1. RequestParts'
    BY <2>0, OwnerAssumption DEF Inv, TypeOK, CreateGrant, memory, RequestParts, WorkersCover, EndedAreRevoked,
                SeenInThePast, Revoked
  <2>2. TokenParts'
    BY <2>0, OwnerAssumption DEF Inv, TypeOK, CreateGrant, memory, TokenParts, StoredUnexpired, PendingCoversRead,
                SettledAreDropped, CacheFollowsGrants, AcceptedIsCurrent, Storing, Pending, Live
  <2> QED
    BY <2>1, <2>2
<1>2. CASE \E t \in Tokens : Expire(t)
  BY <1>2 DEF Inv, TypeOK, Expire, database, memory, RequestParts, WorkersCover, EndedAreRevoked, SeenInThePast, Revoked,
              TokenParts, StoredUnexpired, PendingCoversRead, SettledAreDropped, CacheFollowsGrants,
              AcceptedIsCurrent, Storing, Pending, Live
<1>3. CASE Restart
  BY <1>3 DEF Inv, TypeOK, Restart, IdleVerifier, IdleWorker, database, RequestParts, WorkersCover, EndedAreRevoked,
              SeenInThePast, Revoked, TokensOf, TokenParts, StoredUnexpired, PendingCoversRead, SettledAreDropped,
              CacheFollowsGrants, AcceptedIsCurrent, Storing
<1> QED
  BY <1>1, <1>2, <1>3

LEMMA InvStep == ASSUME Inv, Next PROVE Inv'
<1>1. TypeOK'
  BY TypeStep DEF Inv
<1>2. RequestParts' /\ TokenParts'
  <2>1. CASE \E v \in Verifiers, t \in Tokens : Present(v, t)
    BY <2>1, VerifierStep
  <2>2. CASE \E v \in Verifiers : Hit(v) \/ Miss(v) \/ ReadRow(v) \/ Remember(v) \/ Retry(v)
    <3>1. PICK v \in Verifiers : Hit(v) \/ Miss(v) \/ ReadRow(v) \/ Remember(v) \/ Retry(v)
      BY <2>2
    <3>2. verifier[v].token \in Tokens
      BY DEF Inv, TypeOK
    <3> QED
      BY <3>1, <3>2, VerifierStep
  <2>3. CASE \E w \in Workers : Revoking(w) \/ Invalidate(w)
    BY <2>3, RevokingKeeps, InvalidateKeeps
  <2>4. CASE \E w \in Workers, t \in Tokens : Refresh(w, t)
    BY <2>4, RefreshKeeps
  <2>5. CASE (\E t \in Tokens : CreateGrant(t) \/ Expire(t)) \/ Restart
    BY <2>5, EnvironmentKeeps
  <2> QED
    BY Steps, <2>1, <2>2, <2>3, <2>4, <2>5
<1> QED
  BY <1>1, <1>2 DEF Inv, RequestParts, TokenParts

LEMMA InvStutter == ASSUME Inv, UNCHANGED vars PROVE Inv'
BY DEF Inv, vars, database, memory, TypeOK, WorkersCover, EndedAreRevoked, SeenInThePast, StoredUnexpired,
       PendingCoversRead, SettledAreDropped, CacheFollowsGrants, AcceptedIsCurrent, Storing, Pending, Live, Revoked

LEMMA Invariance == Spec => []Inv
<1>1. Inv /\ [Next]_vars => Inv'
  BY InvStep, InvStutter
<1> QED
  BY <1>1, InvInit, PTL DEF Spec

\* A verification that starts after a revocation has returned never accepts
\* a token of that grant.
THEOREM AcceptedIsCurrentHolds == Spec => []AcceptedIsCurrent
<1>1. Inv => AcceptedIsCurrent
  BY DEF Inv
<1> QED
  BY <1>1, Invariance, PTL

\* A cached token of a revoked grant is about to be dropped.
THEOREM CacheFollowsGrantsHolds == Spec => []CacheFollowsGrants
<1>1. Inv => CacheFollowsGrants
  BY DEF Inv
<1> QED
  BY <1>1, Invariance, PTL

-----------------------------------------------------------------------------
(* The size of the cache *)

\* Storing a token keeps the cache within its limit.
LEMMA RememberedBounded ==
  ASSUME TypeOK, CacheBounded, NEW v \in Verifiers, NEW c \in Remembered(v)
  PROVE  Cardinality(c) <= MaxEntries
<1> DEFINE fresh == Fresh(v)
           mine == verifier[v].token
<1>1. fresh \subseteq cache /\ cache \subseteq Tokens
  BY DEF Fresh, TypeOK
<1>2. IsFiniteSet(cache) /\ IsFiniteSet(fresh)
  BY <1>1, FiniteAssumption, FS_Subset
<1>3. Cardinality(fresh) \in Nat /\ Cardinality(cache) \in Nat
  BY <1>2, FS_CardinalityType
<1>4. Cardinality(fresh) <= MaxEntries
  BY <1>1, <1>2, <1>3, FS_Subset, EntriesAssumption DEF CacheBounded
<1>5. CASE Cardinality(fresh) >= MaxEntries
  <2>1. PICK x \in fresh : c = (fresh \ {x}) \union {mine}
    BY <1>5 DEF Remembered
  <2> DEFINE rest == fresh \ {x}
  <2>2. IsFiniteSet(rest) /\ Cardinality(rest) = Cardinality(fresh) - 1
    BY <1>2, FS_RemoveElement
  <2>3. Cardinality(rest \union {mine}) \in {Cardinality(rest), Cardinality(rest) + 1}
    BY <2>2, FS_AddElement
  <2> HIDE DEF rest, fresh, mine
  <2>4. Cardinality(rest \union {mine}) <= Cardinality(fresh)
    BY <2>2, <2>3, <1>3
  <2>5. c = rest \union {mine}
    BY <2>1 DEF rest
  <2> QED
    BY <2>2, <2>3, <2>4, <2>5, <1>3, <1>4, EntriesAssumption
<1>6. CASE ~(Cardinality(fresh) >= MaxEntries)
  <2>1. c = fresh \union {mine}
    BY <1>6 DEF Remembered
  <2>2. Cardinality(fresh \union {mine}) \in {Cardinality(fresh), Cardinality(fresh) + 1}
    BY <1>2, FS_AddElement
  <2> HIDE DEF fresh, mine
  <2> QED
    BY <2>1, <2>2, <1>3, <1>6, EntriesAssumption
<1> QED
  BY <1>5, <1>6

LEMMA BoundedStep == ASSUME TypeOK, CacheBounded, [Next]_vars PROVE CacheBounded'
<1>1. CASE \E v \in Verifiers : Remember(v)
  <2>1. PICK v \in Verifiers : Remember(v)
    BY <1>1
  <2> QED
    BY <2>1, RememberedBounded DEF Remember, CacheBounded
<1>2. CASE ~\E v \in Verifiers : Remember(v)
  <2>1. cache' \subseteq cache
    <3>1. CASE UNCHANGED vars
      BY <3>1 DEF vars, memory
    <3>2. CASE \E w \in Workers : Revoking(w) \/ (\E t \in Tokens : Refresh(w, t))
      BY <3>2, RevokingStep, RefreshStep DEF memory
    <3>3. CASE Next /\ ~\E w \in Workers : Revoking(w) \/ (\E t \in Tokens : Refresh(w, t))
      BY <3>3, <1>2, Steps DEF Present, Hit, Miss, ReadRow, Retry, Invalidate, CreateGrant, Expire, Restart, memory
    <3> QED
      BY <3>1, <3>2, <3>3
  <2>2. IsFiniteSet(cache)
    BY FiniteAssumption, FS_Subset DEF TypeOK
  <2>3. Cardinality(cache') <= Cardinality(cache) /\ IsFiniteSet(cache')
    BY <2>1, <2>2, FS_Subset
  <2>4. Cardinality(cache) \in Nat /\ Cardinality(cache') \in Nat
    BY <2>2, <2>3, FS_CardinalityType
  <2> QED
    BY <2>3, <2>4, EntriesAssumption DEF CacheBounded
<1> QED
  BY <1>1, <1>2

\* The cache never exceeds its limit.
THEOREM CacheBoundedHolds == Spec => []CacheBounded
<1>1. Init => CacheBounded
  BY FS_EmptySet, EntriesAssumption DEF Init, CacheBounded
<1>2. TypeOK /\ CacheBounded /\ [Next]_vars => CacheBounded'
  BY BoundedStep
<1> QED
  BY <1>1, <1>2, TypeCorrect, PTL DEF Spec
=============================================================================
