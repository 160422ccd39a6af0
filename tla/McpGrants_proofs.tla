-------------------------- MODULE McpGrants_proofs --------------------------
(* Proofs about McpGrants, for any threads, requests, grants and tokens.   *)
(*                                                                         *)
(* Two arguments that hardly touch.  Of requests: a handler that redeems a *)
(* code has used it up, or the request is gone for good; and what is       *)
(* approved was approved since the last reset.  Of tokens: every grant     *)
(* that was made has one usable token or one handler about to add it,      *)
(* never two, and a grant not made yet has neither.                        *)
EXTENDS McpGrants, FiniteSetTheorems, TLAPS

\* Both are stated of any rows q, gr and tk of the tables and any threads th, so that a
\* step can be taken apart: the tables move first, then the thread.
Opening(th, h) == th[h].pc \in {"count", "insert"}

\* Nobody else knows a request until its row is there.
OpenersAlone(q, th) ==
  /\ \A h \in Threads : Opening(th, h) => th[h].request \in Requests /\ q[th[h].request].status = "none"
  /\ \A h, i \in Threads : Opening(th, h) /\ th[i].request = th[h].request => h = i
CodesApproved(q) == \A r \in Requests : q[r].code # "none" => q[r].status = "approved"
ApprovedSince(q, n) == \A r \in Requests : q[r].status = "approved" => q[r].approved = n
RedeemersUsedUp(q, th) ==
  /\ \A h \in Threads : th[h].pc = "consume" => th[h].request \in Requests
  /\ \A h \in Threads : th[h].pc = "create" =>
       th[h].request \in Requests /\ (q[th[h].request].status = "gone" \/ q[th[h].request].code = "used")
OneRedeems(th) ==
  \A h, i \in Threads : th[h].pc = "create" /\ th[i].pc = "create" /\ th[h].request = th[i].request => h = i
RequestsInv(q, th, n) ==
  OpenersAlone(q, th) /\ CodesApproved(q) /\ ApprovedSince(q, n) /\ RedeemersUsedUp(q, th) /\ OneRedeems(th)

\* Whoever holds a token, or is about to add one, knows a grant that was made.
TokensHaveGrants(gr, tk, th) ==
  /\ \A t \in RefreshTokens : tk[t].status # "none" => tk[t].grant \in Grants /\ gr[tk[t].grant].status # "none"
  /\ \A h \in Threads : th[h].pc \in {"rotate", "add"} => th[h].grant \in Grants /\ gr[th[h].grant].status # "none"
  /\ \A h \in Threads : th[h].pc \in {"read", "rotate"} => th[h].token \in RefreshTokens /\ tk[th[h].token].status # "none"
  /\ \A h \in Threads : th[h].pc = "rotate" => tk[th[h].token].grant = th[h].grant
Usable(tk, t, g) == tk[t].status = "usable" /\ tk[t].grant = g
Adds(th, h, g) == th[h].pc = "add" /\ th[h].grant = g
OneToken(tk, th) ==
  \A g \in Grants :
    /\ \A t, u \in RefreshTokens : Usable(tk, t, g) /\ Usable(tk, u, g) => t = u
    /\ \A h, i \in Threads : Adds(th, h, g) /\ Adds(th, i, g) => h = i
    /\ \A t \in RefreshTokens, h \in Threads : ~(Usable(tk, t, g) /\ Adds(th, h, g))
AToken(gr, tk, th, c) ==
  c = 0 => \A g \in Grants : gr[g].status = "live" =>
    (\E t \in RefreshTokens : Usable(tk, t, g)) \/ \E h \in Threads : Adds(th, h, g)
TokensInv(gr, tk, th, c) == TokensHaveGrants(gr, tk, th) /\ OneToken(tk, th) /\ AToken(gr, tk, th, c)

Inv ==
  /\ TypeOK /\ RequestsInv(request, thread, resets) /\ LiveGrantsAreCurrent
  /\ TokensInv(grant, token, thread, crashes)

-----------------------------------------------------------------------------
(* Rows *)

LEMMA NewRows ==
  /\ Idle \in Handler /\ Idle.pc = "idle" /\ Idle.request = None
  /\ NoRequest \in RequestRow /\ NoRequest.code = "none"
  /\ None \notin Requests
  BY NoneAssumption, BoundAssumption DEF Idle, Handler, NoRequest, RequestRow

LEMMA DeletedRow ==
  ASSUME NEW row \in RequestRow
  PROVE  /\ Deleted(row) \in RequestRow /\ Deleted(row).status \in {"none", "gone"}
         /\ row.status = "none" => Deleted(row) = row
         /\ row.status # "none" => Deleted(row).status = "gone" /\ Deleted(row).code = "none"
<1> DEFINE gone == [NoRequest EXCEPT !.status = "gone", !.approved = row.approved]
<1>1. gone \in RequestRow /\ gone.status = "gone" /\ gone.code = NoRequest.code
  BY NewRows DEF RequestRow
<1>2. Deleted(row) = IF row.status = "none" THEN row ELSE gone
  BY DEF Deleted
<1> QED
  BY <1>1, <1>2, NewRows

\* What the actions write to one row of a request.
LEMMA RowFields ==
  ASSUME NEW row \in RequestRow
  PROVE  /\ \A s \in {"pending", "approved", "denied", "gone"} : [row EXCEPT !.status = s] \in RequestRow
         /\ \A n \in 0 .. MaxResets : [row EXCEPT !.status = "approved", !.approved = n] \in RequestRow
         /\ \A c \in {"minted", "stale", "used"} : [row EXCEPT !.code = c] \in RequestRow
         /\ \A g \in Grants : [row EXCEPT !.grant = g] \in RequestRow
         /\ [row EXCEPT !.expired = TRUE] \in RequestRow
         /\ [row EXCEPT !.replayed = TRUE] \in RequestRow
<1>1. \A s \in {"pending", "approved", "denied", "gone"} : [row EXCEPT !.status = s] \in RequestRow
  BY DEF RequestRow
<1>2. \A n \in 0 .. MaxResets : [row EXCEPT !.status = "approved", !.approved = n] \in RequestRow
  BY DEF RequestRow
<1>3. \A c \in {"minted", "stale", "used"} : [row EXCEPT !.code = c] \in RequestRow
  BY DEF RequestRow
<1>4. \A g \in Grants : [row EXCEPT !.grant = g] \in RequestRow
  BY DEF RequestRow
<1>5. [row EXCEPT !.expired = TRUE] \in RequestRow
  BY DEF RequestRow
<1>6. [row EXCEPT !.replayed = TRUE] \in RequestRow
  BY DEF RequestRow
<1> QED
  BY <1>1, <1>2, <1>3, <1>4, <1>5, <1>6

\* One row of request changes, the others stay.
Replaced(r, new) == request' = [request EXCEPT ![r] = new]
LEMMA OneRow ==
  ASSUME TypeOK, NEW r \in Requests, NEW new \in RequestRow, Replaced(r, new)
  PROVE  /\ request' \in [Requests -> RequestRow] /\ request'[r] = new
         /\ \A q \in Requests \ {r} : request'[q] = request[q]
  BY DEF TypeOK, Replaced

LEMMA CutRow ==
  ASSUME NEW row \in GrantRow
  PROVE  /\ Cut(row) \in GrantRow /\ Cut(row).status # "live"
         /\ Cut(row).status = "none" <=> row.status = "none"
  BY DEF Cut, GrantRow

LEMMA RevokedRow ==
  ASSUME TypeOK, NEW g \in Grants
  PROVE  /\ Revoked(g) \in [Grants -> GrantRow] /\ Revoked(g)[g].status = "revoked"
         /\ \A f \in Grants \ {g} : Revoked(g)[f] = grant[f]
  BY DEF TypeOK, Revoked, GrantRow

\* What one step of a handler makes of the threads.
Others(h) == \A i \in Threads \ {h} : thread'[i] = thread[i]

LEMMA Went ==
  ASSUME TypeOK, NEW h \in Threads, NEW pc \in {"insert", "create", "rotate", "add", "revoke"}, Goto(h, pc)
  PROVE  /\ thread'[h].pc = pc /\ thread'[h].request = thread[h].request
         /\ thread'[h].token = thread[h].token /\ thread'[h].grant = thread[h].grant
         /\ Others(h) /\ thread' \in [Threads -> Handler]
<1> DEFINE new == [thread[h] EXCEPT !.pc = pc]
<1>1. thread[h] \in Handler /\ thread \in [Threads -> Handler] /\ thread' = [thread EXCEPT ![h] = new]
  BY DEF TypeOK, Goto
<1>2. /\ new \in Handler /\ new.pc = pc /\ new.request = thread[h].request
      /\ new.token = thread[h].token /\ new.grant = thread[h].grant
  BY <1>1 DEF Handler
<1> HIDE DEF new
<1> QED
  BY <1>1, <1>2 DEF Others

LEMMA Finished ==
  ASSUME TypeOK, NEW h \in Threads, Finish(h)
  PROVE  /\ thread'[h] = Idle /\ Others(h) /\ thread' \in [Threads -> Handler]
  BY NewRows DEF TypeOK, Finish, Others

LEMMA Began ==
  ASSUME TypeOK, NEW h \in Threads, NEW new \in Handler, thread' = [thread EXCEPT ![h] = new]
  PROVE  thread'[h] = new /\ Others(h) /\ thread' \in [Threads -> Handler]
  BY DEF TypeOK, Others

-----------------------------------------------------------------------------
(* The types *)

LEMMA ClearedTypes ==
  ASSUME TypeOK, ClearRemoteAccess
  PROVE  /\ window' \in BOOLEAN /\ request' \in [Requests -> RequestRow] /\ grant' \in [Grants -> GrantRow]
         /\ \A r \in Requests : request'[r] = Deleted(request[r])
         /\ \A g \in Grants : grant'[g] = Cut(grant[g])
<1>1. \A r \in Requests : Deleted(request[r]) \in RequestRow
  BY DeletedRow DEF TypeOK
<1>2. \A g \in Grants : Cut(grant[g]) \in GrantRow
  BY CutRow DEF TypeOK
<1> QED
  BY <1>1, <1>2 DEF ClearRemoteAccess

LEMMA OperatorTypes == ASSUME TypeOK, Operator PROVE TypeOK'
<1>1. ASSUME NEW open \in BOOLEAN, SetWindow(open) PROVE TypeOK'
  BY <1>1 DEF SetWindow, TypeOK
<1>2. CASE RevokeAll
  BY <1>2, ClearedTypes, BoundAssumption DEF RevokeAll, TypeOK
<1>3. CASE CreateClient
  <2>1. token' \in [RefreshTokens -> TokenRow]
    BY <1>3 DEF CreateClient, TypeOK, TokenRow
  <2>2. resets' \in 0 .. MaxResets /\ client' \in 0 .. MaxResets
    BY <1>3, BoundAssumption DEF CreateClient, TypeOK
  <2> QED
    BY <1>3, <2>1, <2>2, ClearedTypes DEF CreateClient, TypeOK
<1>4. ASSUME NEW r \in Requests, Approve(r) \/ Deny(r) PROVE TypeOK'
  <2>1. request' \in [Requests -> RequestRow]
    BY <1>4 DEF Approve, Deny, TypeOK, RequestRow
  <2> QED
    BY <1>4, <2>1 DEF Approve, Deny, TypeOK
<1>5. ASSUME NEW g \in Grants, RevokeGrant(g) PROVE TypeOK'
  BY <1>5, RevokedRow DEF RevokeGrant, TypeOK
<1> QED
  BY <1>1, <1>2, <1>3, <1>4, <1>5 DEF Operator

LEMMA TimeTypes == ASSUME TypeOK, Time PROVE TypeOK'
<1>1. ASSUME NEW r \in Requests, RequestExpires(r) \/ CodeExpires(r) \/ Claim(r) PROVE TypeOK'
  <2>1. request' \in [Requests -> RequestRow]
    <3>1. \/ Replaced(r, [request[r] EXCEPT !.expired = TRUE])
          \/ Replaced(r, [request[r] EXCEPT !.code = "stale"])
          \/ Replaced(r, [request[r] EXCEPT !.code = "minted"])
      BY <1>1 DEF RequestExpires, CodeExpires, Claim, Replaced
    <3>2. request[r] \in RequestRow
      BY DEF TypeOK
    <3> QED
      BY <3>1, <3>2, RowFields, OneRow
  <2> QED
    BY <1>1, <2>1 DEF RequestExpires, CodeExpires, Claim, TypeOK
<1>2. ASSUME NEW t \in RefreshTokens, GraceEnds(t) PROVE TypeOK'
  <2>1. token' \in [RefreshTokens -> TokenRow]
    BY <1>2 DEF GraceEnds, TypeOK, TokenRow
  <2> QED
    BY <1>2, <2>1 DEF GraceEnds, TypeOK
<1> QED
  BY <1>1, <1>2 DEF Time

LEMMA OpeningTypes ==
  ASSUME TypeOK, NEW h \in Threads,
         (\E r \in Requests : Authorize(h, r) \/ PresentCode(h, r)) \/ Count(h) \/ Insert(h)
  PROVE  TypeOK'
<1>1. ASSUME NEW r \in Requests, Authorize(h, r) \/ PresentCode(h, r) PROVE TypeOK'
  <2>1. /\ [Idle EXCEPT !.pc = "count", !.request = r, !.at = resets] \in Handler
        /\ [Idle EXCEPT !.pc = "consume", !.request = r, !.at = client] \in Handler
    BY DEF Idle, Handler, TypeOK
  <2>2. /\ [Idle EXCEPT !.pc = "count", !.request = r, !.at = resets].pc = "count"
        /\ [Idle EXCEPT !.pc = "consume", !.request = r, !.at = client].pc = "consume"
    BY DEF Idle
  <2>3. thread' \in [Threads -> Handler] /\ Others(h) /\ thread'[h].pc \in {"count", "consume"}
    BY <1>1, <2>1, <2>2, Began DEF Authorize, PresentCode
  <2> QED
    BY <1>1, <2>3 DEF Authorize, PresentCode, TypeOK, tables, Others
<1>2. CASE Count(h)
  <2>1. thread' \in [Threads -> Handler] /\ Others(h) /\ thread'[h].pc = "insert"
    BY <1>2, Went DEF Count
  <2> QED
    BY <1>2, <2>1 DEF Count, TypeOK, tables, Others
<1>3. CASE Insert(h)
  <2> DEFINE new == [NoRequest EXCEPT !.status = "pending", !.begun = thread[h].at]
  <2>1. new \in RequestRow
    BY NewRows DEF RequestRow, TypeOK, Handler
  <2>2. PICK old \in SUBSET {r \in Requests : Prunable(r)} :
          request' = [r \in Requests |-> IF r = thread[h].request THEN new
                                         ELSE IF r \in old THEN Deleted(request[r]) ELSE request[r]]
    BY <1>3 DEF Insert
  <2>3. \A r \in Requests : Deleted(request[r]) \in RequestRow
    BY DeletedRow DEF TypeOK
  <2> HIDE DEF new
  <2>4. request' \in [Requests -> RequestRow]
    BY <2>1, <2>2, <2>3 DEF TypeOK
  <2> QED
    BY <1>3, <2>4, Finished DEF Insert, TypeOK, Others, Idle
<1> QED
  BY <1>1, <1>2, <1>3

LEMMA RedeemingTypes ==
  ASSUME Inv, NEW h \in Threads,
         Consume(h) \/ Reuse(h) \/ \E g \in Grants, t \in RefreshTokens : CreateGrant(h, g, t)
  PROVE  TypeOK'
<1> USE DEF Inv
<1>1. CASE Consume(h)
  <2>1. request' \in [Requests -> RequestRow]
    <3>1. thread[h].request \in Requests
      BY <1>1 DEF Consume, At, RequestsInv, RedeemersUsedUp
    <3>2. Replaced(thread[h].request, [request[thread[h].request] EXCEPT !.code = "used"])
      BY <1>1 DEF Consume, Replaced
    <3> QED
      BY <3>1, <3>2, RowFields, OneRow DEF TypeOK
  <2>2. thread' \in [Threads -> Handler] /\ Others(h) /\ thread'[h].pc \in {"create", "idle"}
    <3>1. Goto(h, "create") \/ Finish(h)
      BY <1>1 DEF Consume
    <3> QED
      BY <3>1, Went, Finished, NewRows
  <2> QED
    BY <1>1, <2>1, <2>2 DEF Consume, TypeOK, Others
<1>2. CASE Reuse(h)
  <2> DEFINE r == thread[h].request
  <2>2. r \in Requests /\ request[r].grant \in Grants \union {None} /\ request[r] \in RequestRow
    BY <1>2 DEF Reuse, At, TypeOK, RequestRow, RequestsInv, RedeemersUsedUp
  <2>1. request' \in [Requests -> RequestRow]
    <3>1. request' = request \/ Replaced(r, [request[r] EXCEPT !.replayed = TRUE])
      BY <1>2 DEF Reuse, Replaced
    <3> QED
      BY <2>2, <3>1, RowFields, OneRow DEF TypeOK
  <2>3. CASE request[r].grant # None
    <3>1. [thread[h] EXCEPT !.pc = "revoke", !.grant = request[r].grant] \in Handler
      <4>1. thread[h] \in Handler /\ request[r].grant \in Grants
        BY <2>2, <2>3 DEF TypeOK
      <4> QED
        BY <4>1 DEF Handler
    <3>2. thread' = [thread EXCEPT ![h] = [thread[h] EXCEPT !.pc = "revoke", !.grant = request[r].grant]]
      BY <1>2, <2>3 DEF Reuse, TypeOK, Handler
    <3>3. thread' \in [Threads -> Handler] /\ Others(h) /\ thread'[h].grant \in Grants
      BY <2>2, <2>3, <3>1, <3>2, Began DEF Handler, TypeOK
    <3> QED
      BY <1>2, <2>1, <3>3 DEF Reuse, TypeOK, Others
  <2>4. CASE request[r].grant = None
    BY <1>2, <2>1, <2>4, Finished DEF Reuse, TypeOK, Others, Idle
  <2> QED
    BY <2>3, <2>4
<1>3. ASSUME NEW g \in Grants, NEW t \in RefreshTokens, CreateGrant(h, g, t) PROVE TypeOK'
  <2> DEFINE r == thread[h].request
  <2>1. r \in Requests
    BY <1>3 DEF CreateGrant, At, RequestsInv, RedeemersUsedUp
  <2>2. grant' \in [Grants -> GrantRow]
    BY <1>3, <2>1 DEF CreateGrant, TypeOK, GrantRow, RequestRow, Handler
  <2>3. token' \in [RefreshTokens -> TokenRow]
    BY <1>3 DEF CreateGrant, TypeOK, TokenRow
  <2>4. request' \in [Requests -> RequestRow]
    <3>1. Replaced(r, [request[r] EXCEPT !.grant = g])
      BY <1>3 DEF CreateGrant, Replaced
    <3> QED
      BY <2>1, <3>1, RowFields, OneRow DEF TypeOK
  <2> QED
    BY <1>3, <2>2, <2>3, <2>4, Finished DEF CreateGrant, TypeOK, Others, Idle
<1> QED
  BY <1>1, <1>2, <1>3

LEMMA RefreshingTypes ==
  ASSUME Inv, NEW h \in Threads,
         \/ \E t \in RefreshTokens : PresentRefresh(h, t) \/ AddTokens(h, t)
         \/ Read(h) \/ Rotate(h) \/ RevokeReused(h) \/ Refuse(h)
  PROVE  TypeOK'
<1> USE DEF Inv
<1>1. ASSUME NEW t \in RefreshTokens, PresentRefresh(h, t) PROVE TypeOK'
  <2>1. [Idle EXCEPT !.pc = "read", !.token = t, !.at = client] \in Handler
    BY DEF Idle, Handler, TypeOK
  <2> QED
    BY <1>1, <2>1, Began DEF PresentRefresh, Idle, TypeOK, tables, Others
<1>2. ASSUME NEW t \in RefreshTokens, AddTokens(h, t) PROVE TypeOK'
  <2>1. token' \in [RefreshTokens -> TokenRow]
    BY <1>2 DEF AddTokens, TypeOK, TokenRow, Handler
  <2> QED
    BY <1>2, <2>1, Finished DEF AddTokens, TypeOK, Others, Idle
<1>3. CASE Read(h)
  <2> DEFINE row == token[thread[h].token]
             pc == IF row.status = "late" THEN "revoke" ELSE "rotate"
  <2>1. row.grant \in Grants
    BY <1>3 DEF Read, At, TokensInv, TokensHaveGrants
  <2>2. [thread[h] EXCEPT !.pc = pc, !.grant = row.grant] \in Handler
    BY <2>1 DEF TypeOK, Handler
  <2>3. thread' = [thread EXCEPT ![h] = [thread[h] EXCEPT !.pc = pc, !.grant = row.grant]]
    BY <1>3 DEF Read, TypeOK, Handler
  <2>4. thread' \in [Threads -> Handler] /\ Others(h) /\ thread'[h].grant \in Grants
    BY <2>1, <2>2, <2>3, Began DEF Handler, TypeOK
  <2> QED
    BY <1>3, <2>4 DEF Read, TypeOK, Others, tables
<1>4. CASE Rotate(h)
  <2>1. token' \in [RefreshTokens -> TokenRow]
    BY <1>4 DEF Rotate, TypeOK, TokenRow
  <2>2. thread[h].grant \in Grants
    BY <1>4 DEF Rotate, At, TokensInv, TokensHaveGrants
  <2>3. thread'[h].grant = thread[h].grant /\ thread' \in [Threads -> Handler] /\ Others(h)
    BY <1>4, Went DEF Rotate
  <2> QED
    BY <1>4, <2>1, <2>2, <2>3 DEF Rotate, TypeOK, Others
<1>5. CASE RevokeReused(h)
  <2>1. thread[h].grant \in Grants
    BY <1>5 DEF RevokeReused, At, TypeOK
  <2>2. request' \in [Requests -> RequestRow]
    <3> DEFINE r == thread[h].request
    <3>1. request' = request \/ (r \in Requests /\ Replaced(r, [request[r] EXCEPT !.replayed = TRUE]))
      BY <1>5 DEF RevokeReused, Replaced
    <3> QED
      BY <3>1, RowFields, OneRow DEF TypeOK
  <2>3. grant' \in [Grants -> GrantRow]
    BY <1>5, <2>1, RevokedRow DEF RevokeReused
  <2>4. thread' \in [Threads -> Handler] /\ Others(h) /\ thread'[h].pc = "idle"
    BY <1>5, Finished, NewRows DEF RevokeReused
  <2> QED
    BY <1>5, <2>2, <2>3, <2>4 DEF RevokeReused, TypeOK, Others
<1>6. CASE Refuse(h)
  BY <1>6, Finished DEF Refuse, TypeOK, Others, Idle, tables
<1> QED
  BY <1>1, <1>2, <1>3, <1>4, <1>5, <1>6

LEMMA CrashTypes == ASSUME TypeOK, Crash PROVE TypeOK'
  BY NewRows, BoundAssumption DEF Crash, TypeOK, tables, Idle

-----------------------------------------------------------------------------
(* Requests *)

\* A row that is there moves on: a used code stays used, and what is gone stays gone.
LEMMA RowsMove ==
  ASSUME NEW q, NEW p, NEW th, NEW n, NEW m, RequestsInv(q, th, n),
         \A r \in Requests :
           \/ p[r] = q[r] /\ (q[r].status = "approved" => m = n)
           \/ /\ q[r].status # "none" /\ p[r].status # "none"
              /\ q[r].status = "gone" => p[r].status = "gone"
              /\ q[r].code = "used" => p[r].code = "used" \/ p[r].status = "gone"
              /\ p[r].code # "none" => p[r].status = "approved"
              /\ p[r].status = "approved" => p[r].approved = m
  PROVE  RequestsInv(p, th, m)
<1> USE DEF RequestsInv
<1>1. OpenersAlone(p, th)
  BY DEF OpenersAlone
<1>2. CodesApproved(p)
  BY DEF CodesApproved
<1>3. ApprovedSince(p, m)
  BY DEF ApprovedSince
<1>4. RedeemersUsedUp(p, th)
  BY DEF RedeemersUsedUp
<1> QED
  BY <1>1, <1>2, <1>3, <1>4

\* One thread moves: if it is to open a request nobody else knows it, if it is to redeem a
\* code it alone does.
LEMMA ThreadMoves ==
  ASSUME NEW q, NEW th, NEW ti, NEW n, RequestsInv(q, th, n), NEW h \in Threads,
         \A i \in Threads \ {h} : ti[i] = th[i],
         Opening(ti, h) => /\ ti[h].request \in Requests /\ q[ti[h].request].status = "none"
                           /\ \A i \in Threads \ {h} : th[i].request # ti[h].request,
         ti[h].request \notin Requests \/ ti[h].request = th[h].request
           \/ \A i \in Threads \ {h} : Opening(th, i) => th[i].request # ti[h].request,
         ti[h].pc = "consume" => ti[h].request \in Requests,
         ti[h].pc = "create" =>
           /\ ti[h].request \in Requests
           /\ q[ti[h].request].status = "gone" \/ q[ti[h].request].code = "used"
           /\ \A i \in Threads \ {h} : th[i].pc = "create" => th[i].request # ti[h].request
  PROVE  RequestsInv(q, ti, n)
<1> USE DEF RequestsInv
<1>1. OpenersAlone(q, ti)
  <2>1. \A i \in Threads : Opening(ti, i) => ti[i].request \in Requests /\ q[ti[i].request].status = "none"
    BY DEF OpenersAlone, Opening
  <2>2. ASSUME NEW i \in Threads, NEW j \in Threads, Opening(ti, i), ti[j].request = ti[i].request
        PROVE  i = j
    BY <2>2 DEF OpenersAlone, Opening
  <2> QED
    BY <2>1, <2>2 DEF OpenersAlone
<1>2. RedeemersUsedUp(q, ti)
  BY DEF RedeemersUsedUp
<1>3. OneRedeems(ti)
  BY DEF OneRedeems
<1> QED
  BY <1>1, <1>2, <1>3

\* A thread that neither opens nor redeems, and has no other request than before.
LEMMA ThreadRests ==
  ASSUME NEW q, NEW n, RequestsInv(q, thread, n), NEW h \in Threads, Others(h),
         thread'[h].pc \in {"idle", "read", "rotate", "add", "revoke"},
         thread'[h].request \in {None, thread[h].request}
  PROVE  RequestsInv(q, thread', n)
  BY ThreadMoves, NewRows DEF Others, Opening

LEMMA ClearedRequests ==
  ASSUME Inv, ClearRemoteAccess, UNCHANGED thread
  PROVE  RequestsInv(request', thread', resets')
<1>1. \A r \in Requests : request[r] \in RequestRow /\ request'[r] = Deleted(request[r])
  BY ClearedTypes DEF Inv, TypeOK
<1>2. \A r \in Requests : request[r].status = "none" => request'[r] = request[r]
  BY <1>1, DeletedRow
<1>3. \A r \in Requests : request[r].status # "none" => request'[r].status = "gone" /\ request'[r].code = "none"
  BY <1>1, DeletedRow
<1>4. RequestsInv(request', thread, resets')
  BY <1>2, <1>3, RowsMove DEF Inv
<1> QED
  BY <1>4

\* What is written to a row that is there, threads and resets left alone.
LEMMA RowWritten ==
  ASSUME Inv, NEW r \in Requests, NEW new \in RequestRow, Replaced(r, new), resets' = resets,
         request[r].status \notin {"none", "gone"}, new.status # "none",
         request[r].code = "used" => new.code = "used",
         new.code # "none" => new.status = "approved",
         new.status = "approved" => new.approved = resets
  PROVE  RequestsInv(request', thread, resets')
<1>1. request'[r] = new /\ \A p \in Requests \ {r} : request'[p] = request[p]
  BY OneRow DEF Inv
<1> QED
  BY <1>1, RowsMove DEF Inv

LEMMA OperatorRequests == ASSUME Inv, Operator PROVE RequestsInv(request', thread', resets')
<1>1. CASE RevokeAll \/ CreateClient
  BY <1>1, ClearedRequests DEF RevokeAll, CreateClient
<1>2. ASSUME NEW r \in Requests, Approve(r) \/ Deny(r) PROVE RequestsInv(request', thread', resets')
  <2>1. /\ request[r] \in RequestRow /\ request[r].status = "pending" /\ request[r].code = "none"
        /\ resets \in 0 .. MaxResets
    BY <1>2 DEF Inv, TypeOK, Approve, Deny, RequestsInv, CodesApproved
  <2>2. CASE Approve(r)
    <3>1. Replaced(r, [request[r] EXCEPT !.status = "approved", !.approved = resets])
      BY <2>2 DEF Approve, Replaced
    <3>2. /\ [request[r] EXCEPT !.status = "approved", !.approved = resets].status = "approved"
          /\ [request[r] EXCEPT !.status = "approved", !.approved = resets].approved = resets
          /\ [request[r] EXCEPT !.status = "approved", !.approved = resets].code = "none"
      BY <2>1 DEF RequestRow
    <3> QED
      BY <2>1, <2>2, <3>1, <3>2, RowFields, RowWritten DEF Approve
  <2>3. CASE Deny(r)
    <3>1. Replaced(r, [request[r] EXCEPT !.status = "denied"])
      BY <2>3 DEF Deny, Replaced
    <3>2. /\ [request[r] EXCEPT !.status = "denied"].status = "denied"
          /\ [request[r] EXCEPT !.status = "denied"].code = "none"
      BY <2>1 DEF RequestRow
    <3> QED
      BY <2>1, <2>3, <3>1, <3>2, RowFields, RowWritten DEF Deny
  <2> QED
    BY <1>2, <2>2, <2>3
<1>3. ASSUME NEW open \in BOOLEAN, SetWindow(open) PROVE RequestsInv(request', thread', resets')
  BY <1>3 DEF SetWindow, Inv
<1>4. ASSUME NEW g \in Grants, RevokeGrant(g) PROVE RequestsInv(request', thread', resets')
  BY <1>4 DEF RevokeGrant, Inv
<1> QED
  BY <1>1, <1>2, <1>3, <1>4 DEF Operator

LEMMA TimeRequests == ASSUME Inv, Time PROVE RequestsInv(request', thread', resets')
<1>1. ASSUME NEW r \in Requests, RequestExpires(r) \/ CodeExpires(r) \/ Claim(r)
      PROVE  RequestsInv(request', thread', resets')
  <2>1. /\ request[r] \in RequestRow /\ UNCHANGED <<thread, resets>>
        /\ request[r].code # "none" => request[r].status = "approved"
        /\ request[r].status = "approved" => request[r].approved = resets
    BY <1>1 DEF Inv, TypeOK, RequestExpires, CodeExpires, Claim, RequestsInv, CodesApproved, ApprovedSince
  <2>2. PICK new \in RequestRow :
          /\ Replaced(r, new) /\ new.status = request[r].status /\ new.approved = request[r].approved
          /\ new.code # request[r].code => request[r].status = "approved" /\ request[r].code # "used"
    <3>1. CASE RequestExpires(r)
      <4> DEFINE new == [request[r] EXCEPT !.expired = TRUE]
      <4>1. Replaced(r, new)
        BY <3>1 DEF RequestExpires, Replaced
      <4>2. new.status = request[r].status /\ new.approved = request[r].approved /\ new.code = request[r].code
        BY <2>1 DEF RequestRow
      <4> QED
        BY <2>1, <4>1, <4>2, RowFields
    <3>2. CASE CodeExpires(r)
      <4> DEFINE new == [request[r] EXCEPT !.code = "stale"]
      <4>1. Replaced(r, new) /\ request[r].code = "minted"
        BY <3>2 DEF CodeExpires, Replaced
      <4>2. new.status = request[r].status /\ new.approved = request[r].approved
        BY <2>1 DEF RequestRow
      <4> QED
        BY <2>1, <4>1, <4>2, RowFields
    <3>3. CASE Claim(r)
      <4> DEFINE new == [request[r] EXCEPT !.code = "minted"]
      <4>1. Replaced(r, new) /\ request[r].code = "none" /\ request[r].status = "approved"
        BY <3>3 DEF Claim, Replaced
      <4>2. new.status = request[r].status /\ new.approved = request[r].approved
        BY <2>1 DEF RequestRow
      <4> QED
        BY <2>1, <4>1, <4>2, RowFields
    <3> QED
      BY <1>1, <3>1, <3>2, <3>3
  <2>3. request[r].status \notin {"none", "gone"}
    BY <1>1, <2>1 DEF RequestExpires, CodeExpires, Claim
  <2>4. RequestsInv(request', thread, resets')
    BY <2>1, <2>2, <2>3, RowWritten
  <2> QED
    BY <2>1, <2>4
<1>2. ASSUME NEW t \in RefreshTokens, GraceEnds(t) PROVE RequestsInv(request', thread', resets')
  BY <1>2 DEF GraceEnds, Inv
<1> QED
  BY <1>1, <1>2 DEF Time

LEMMA OpeningRequests ==
  ASSUME Inv, NEW h \in Threads,
         (\E r \in Requests : Authorize(h, r) \/ PresentCode(h, r)) \/ Count(h) \/ Insert(h)
  PROVE  RequestsInv(request', thread', resets')
<1>1. ASSUME NEW r \in Requests, Authorize(h, r) PROVE RequestsInv(request', thread', resets')
  <2> DEFINE new == [Idle EXCEPT !.pc = "count", !.request = r, !.at = resets]
  <2>1. new \in Handler /\ new.pc = "count" /\ new.request = r
    BY DEF Inv, Idle, Handler, TypeOK
  <2>2. thread'[h] = new /\ Others(h)
    BY <1>1, <2>1, Began DEF Authorize, Inv
  <2>3. /\ request[r].status = "none" /\ \A i \in Threads : thread[i].request # r
        /\ request' = request /\ resets' = resets
    BY <1>1 DEF Authorize, tables
  <2> HIDE DEF new
  <2> QED
    BY <2>1, <2>2, <2>3, ThreadMoves DEF Inv, Others
<1>2. ASSUME NEW r \in Requests, PresentCode(h, r) PROVE RequestsInv(request', thread', resets')
  <2> DEFINE new == [Idle EXCEPT !.pc = "consume", !.request = r, !.at = client]
  <2>1. new \in Handler /\ new.pc = "consume" /\ new.request = r
    BY DEF Inv, Idle, Handler, TypeOK
  <2>2. thread'[h] = new /\ Others(h) /\ request' = request /\ resets' = resets
    BY <1>2, <2>1, Began DEF PresentCode, Inv, tables
  <2>3. request[r].status = "approved"
    BY <1>2 DEF PresentCode, Inv, RequestsInv, CodesApproved
  <2>4. \A i \in Threads : Opening(thread, i) => thread[i].request # r
    BY <2>3 DEF Inv, RequestsInv, OpenersAlone
  <2> HIDE DEF new
  <2> QED
    BY <2>1, <2>2, <2>4, ThreadMoves DEF Inv, Others, Opening
<1>3. CASE Count(h)
  <2>1. thread'[h].pc = "insert" /\ thread'[h].request = thread[h].request /\ Others(h)
    BY <1>3, Went DEF Count, Inv
  <2>2. Opening(thread, h) /\ request' = request /\ resets' = resets
    BY <1>3 DEF Count, At, Opening, tables
  <2>3. /\ thread[h].request \in Requests /\ request[thread[h].request].status = "none"
        /\ \A i \in Threads \ {h} : thread[i].request # thread[h].request
    BY <2>2 DEF Inv, RequestsInv, OpenersAlone
  <2> QED
    BY <2>1, <2>2, <2>3, ThreadMoves DEF Inv, Others
<1>4. CASE Insert(h)
  <2> DEFINE new == [NoRequest EXCEPT !.status = "pending", !.begun = thread[h].at]
  <2>1. new.status = "pending" /\ new.code = "none"
    BY DEF NoRequest
  <2>2. PICK old \in SUBSET {r \in Requests : Prunable(r)} :
          request' = [r \in Requests |-> IF r = thread[h].request THEN new
                                         ELSE IF r \in old THEN Deleted(request[r]) ELSE request[r]]
    BY <1>4 DEF Insert
  <2>3. /\ Opening(thread, h) /\ thread[h].request \in Requests /\ request[thread[h].request].status = "none"
        /\ \A i \in Threads \ {h} : thread[i].request # thread[h].request
    BY <1>4 DEF Insert, At, Opening, Inv, RequestsInv, OpenersAlone
  <2>4. thread'[h] = Idle /\ Others(h) /\ resets' = resets
    BY <1>4, Finished DEF Insert, Inv
  <2> HIDE DEF new
  \* First the thread lets go of its request.
  <2>5. RequestsInv(request, thread', resets)
    BY <2>4, ThreadRests, NewRows DEF Inv
  <2>6. \A i \in Threads : thread'[i].request # thread[h].request
    BY <2>3, <2>4, NewRows DEF Others
  <2>7. \A r \in Requests \ {thread[h].request} :
          \/ request'[r] = request[r]
          \/ request[r].status # "none" /\ request'[r].status = "gone" /\ request'[r].code = "none"
    <3> SUFFICES ASSUME NEW r \in Requests \ {thread[h].request}, request'[r] # request[r]
                 PROVE  request[r].status # "none" /\ request'[r].status = "gone" /\ request'[r].code = "none"
      OBVIOUS
    <3>1. r \in old /\ request'[r] = Deleted(request[r]) /\ request[r] \in RequestRow
      BY <2>2 DEF Inv, TypeOK
    <3>2. request[r].status # "none"
      BY <3>1 DEF Prunable
    <3> QED
      BY <3>1, <3>2, DeletedRow
  <2>8. request'[thread[h].request].status = "pending" /\ request'[thread[h].request].code = "none"
    BY <2>1, <2>2, <2>3
  <2>9. OpenersAlone(request', thread')
    BY <2>5, <2>6, <2>7 DEF RequestsInv, OpenersAlone
  <2>10. CodesApproved(request') /\ ApprovedSince(request', resets)
    BY <2>5, <2>7, <2>8 DEF RequestsInv, CodesApproved, ApprovedSince
  <2>11. RedeemersUsedUp(request', thread')
    BY <2>5, <2>6, <2>7 DEF RequestsInv, RedeemersUsedUp
  <2> QED
    BY <2>4, <2>5, <2>9, <2>10, <2>11 DEF RequestsInv
<1> QED
  BY <1>1, <1>2, <1>3, <1>4

LEMMA RedeemingRequests ==
  ASSUME Inv, NEW h \in Threads,
         Consume(h) \/ Reuse(h) \/ \E g \in Grants, t \in RefreshTokens : CreateGrant(h, g, t)
  PROVE  RequestsInv(request', thread', resets')
<1> DEFINE r == thread[h].request
<1>1. r \in Requests /\ request[r] \in RequestRow /\ request[r].status = "approved" /\ request[r].approved = resets
  BY DEF Consume, Reuse, CreateGrant, MayGrant, Linked, At, Inv, TypeOK, RequestsInv, RedeemersUsedUp, ApprovedSince
<1>2. resets' = resets
  BY DEF Consume, Reuse, CreateGrant
<1>3. CASE Consume(h)
  <2> DEFINE new == [request[r] EXCEPT !.code = "used"]
  <2>1. new \in RequestRow /\ new.code = "used" /\ new.status = "approved" /\ new.approved = resets
    <3>1. new \in RequestRow
      BY <1>1, RowFields
    <3> QED
      BY <1>1, <3>1 DEF RequestRow
  <2>2. Replaced(r, new)
    BY <1>3 DEF Consume, Replaced
  <2> HIDE DEF new
  <2>3. RequestsInv(request', thread, resets') /\ request'[r] = new
    BY <1>1, <1>2, <2>1, <2>2, RowWritten, OneRow DEF Inv
  <2>4. CASE request[r].code = "minted"
    <3>1. thread'[h].pc = "create" /\ thread'[h].request = r /\ Others(h)
      BY <1>3, <2>4, Went DEF Consume, Inv
    <3>2. \A i \in Threads \ {h} : thread[i].pc = "create" => thread[i].request # r
      BY <1>1, <2>4 DEF Inv, RequestsInv, RedeemersUsedUp
    <3> QED
      BY <1>1, <2>1, <2>3, <3>1, <3>2, ThreadMoves DEF Others, Opening
  <2>5. CASE request[r].code # "minted"
    <3>1. thread'[h] = Idle /\ Others(h)
      BY <1>3, <2>5, Finished DEF Consume, Inv
    <3> QED
      BY <2>3, <3>1, ThreadMoves, NewRows DEF Others, Opening
  <2> QED
    BY <2>4, <2>5
<1>4. CASE Reuse(h)
  <2> DEFINE new == [request[r] EXCEPT !.replayed = TRUE]
  <2>1. /\ new \in RequestRow /\ new.code = request[r].code /\ new.status = "approved" /\ new.approved = resets
    <3>1. new \in RequestRow
      BY <1>1, RowFields
    <3> QED
      BY <1>1, <3>1 DEF RequestRow
  <2>2. request' = request \/ Replaced(r, new)
    BY <1>4 DEF Reuse, Replaced
  <2> HIDE DEF new
  <2>3. RequestsInv(request', thread, resets')
    BY <1>1, <1>2, <2>1, <2>2, RowWritten DEF Inv
  <2>4. thread'[h].pc \in {"idle", "revoke"} /\ thread'[h].request \in {None, r} /\ Others(h)
    <3>1. \/ Finish(h)
          \/ thread' = [thread EXCEPT ![h].pc = "revoke", ![h].grant = request[r].grant]
      BY <1>4 DEF Reuse
    <3>2. CASE Finish(h)
      BY <3>2, Finished, NewRows DEF Inv
    <3>3. CASE thread' = [thread EXCEPT ![h].pc = "revoke", ![h].grant = request[r].grant]
      BY <3>3 DEF Inv, TypeOK, Handler, Others
    <3> QED
      BY <3>1, <3>2, <3>3
  <2> QED
    BY <2>3, <2>4, ThreadMoves, NewRows DEF Others, Opening
<1>5. ASSUME NEW g \in Grants, NEW t \in RefreshTokens, CreateGrant(h, g, t)
      PROVE  RequestsInv(request', thread', resets')
  <2> DEFINE new == [request[r] EXCEPT !.grant = g]
  <2>1. /\ new \in RequestRow /\ new.code = request[r].code /\ new.status = "approved" /\ new.approved = resets
    <3>1. new \in RequestRow
      BY <1>1, RowFields
    <3> QED
      BY <1>1, <3>1 DEF RequestRow
  <2>2. Replaced(r, new)
    BY <1>5 DEF CreateGrant, Replaced
  <2> HIDE DEF new
  <2>3. RequestsInv(request', thread, resets')
    BY <1>1, <1>2, <2>1, <2>2, RowWritten
  <2>4. thread'[h] = Idle /\ Others(h)
    BY <1>5, Finished DEF CreateGrant, Inv
  <2> QED
    BY <2>3, <2>4, ThreadMoves, NewRows DEF Others, Opening
<1> QED
  BY <1>3, <1>4, <1>5

LEMMA RefreshingRequests ==
  ASSUME Inv, NEW h \in Threads,
         \/ \E t \in RefreshTokens : PresentRefresh(h, t) \/ AddTokens(h, t)
         \/ Read(h) \/ Rotate(h) \/ RevokeReused(h) \/ Refuse(h)
  PROVE  RequestsInv(request', thread', resets')
<1>1. ASSUME NEW t \in RefreshTokens, PresentRefresh(h, t) PROVE RequestsInv(request', thread', resets')
  <2> DEFINE new == [Idle EXCEPT !.pc = "read", !.token = t, !.at = client]
  <2>1. new \in Handler /\ new.pc = "read" /\ new.request = None
    BY DEF Inv, Idle, Handler, TypeOK
  <2>2. thread'[h] = new /\ Others(h) /\ request' = request /\ resets' = resets
    BY <1>1, <2>1, Began DEF PresentRefresh, Inv, tables
  <2> HIDE DEF new
  <2> QED
    BY <2>1, <2>2, ThreadRests DEF Inv
<1>2. CASE Read(h) \/ Rotate(h)
  <2>1. /\ thread'[h].pc \in {"rotate", "revoke", "add"} /\ thread'[h].request = thread[h].request /\ Others(h)
    <3>1. CASE Read(h)
      BY <3>1 DEF Read, Inv, TypeOK, Handler, Others
    <3>2. CASE Rotate(h)
      BY <3>2, Went DEF Rotate, Inv
    <3> QED
      BY <1>2, <3>1, <3>2
  <2> QED
    BY <1>2, <2>1, ThreadRests DEF Inv, Read, Rotate, tables
<1>3. ASSUME Finish(h), request' = request, resets' = resets PROVE RequestsInv(request', thread', resets')
  <2>1. thread'[h] = Idle /\ Others(h)
    BY <1>3, Finished DEF Inv
  <2> QED
    BY <1>3, <2>1, ThreadRests, NewRows DEF Inv
<1>4. CASE Refuse(h) \/ \E t \in RefreshTokens : AddTokens(h, t)
  BY <1>3, <1>4 DEF Refuse, AddTokens, tables
<1>5. CASE RevokeReused(h)
  <2> DEFINE r == thread[h].request
             new == [request[r] EXCEPT !.replayed = TRUE]
  <2>1. /\ Finish(h) /\ resets' = resets
        /\ request' = request \/ (r \in Requests /\ request[r].status = "approved" /\ Replaced(r, new))
    BY <1>5 DEF RevokeReused, Replaced
  <2>2. CASE request' = request
    BY <1>3, <2>1, <2>2
  <2>3. CASE r \in Requests /\ request[r].status = "approved" /\ Replaced(r, new)
    <3>1. request[r] \in RequestRow /\ request[r].approved = resets
      BY <2>3 DEF Inv, TypeOK, RequestsInv, ApprovedSince
    <3>2. new \in RequestRow
      BY <3>1, RowFields
    <3>3. new.code = request[r].code /\ new.status = "approved" /\ new.approved = resets
      BY <2>3, <3>1 DEF RequestRow
    <3> HIDE DEF new
    <3>4. RequestsInv(request', thread, resets')
      BY <2>1, <2>3, <3>1, <3>2, <3>3, RowWritten
    <3>5. thread'[h] = Idle /\ Others(h)
      BY <2>1, Finished DEF Inv
    <3> QED
      BY <3>4, <3>5, ThreadRests, NewRows
  <2> QED
    BY <2>1, <2>2, <2>3
<1> QED
  BY <1>1, <1>2, <1>4, <1>5

-----------------------------------------------------------------------------
(* Grants and tokens *)

\* Grants that were made stay made, those that live lived before, and a token becomes
\* unusable only where nothing lives.
LEMMA TablesFade ==
  ASSUME NEW gr, NEW gs, NEW tk, NEW tl, NEW th, NEW c, TokensInv(gr, tk, th, c),
         \A g \in Grants : /\ gr[g].status # "none" => gs[g].status # "none"
                           /\ gs[g].status = "live" => gr[g].status = "live",
         \A t \in RefreshTokens :
           /\ tl[t].grant = tk[t].grant
           /\ (tl[t].status = "none") <=> (tk[t].status = "none")
           /\ tl[t].status = "usable" => tk[t].status = "usable"
           /\ tk[t].status = "usable" => tl[t].status = "usable" \/ \A g \in Grants : gs[g].status # "live"
  PROVE  TokensInv(gs, tl, th, c)
<1> USE DEF TokensInv
<1>1. TokensHaveGrants(gs, tl, th)
  BY DEF TokensHaveGrants
<1>2. \A t \in RefreshTokens, g \in Grants : Usable(tl, t, g) => Usable(tk, t, g)
  BY DEF Usable
<1>3. OneToken(tl, th)
  BY <1>2 DEF OneToken
<1>4. AToken(gs, tl, th, c)
  BY DEF AToken, Usable
<1> QED
  BY <1>1, <1>3, <1>4

\* A thread that neither was to add a token nor is now.
LEMMA ThreadAddsNone ==
  ASSUME NEW gr, NEW tk, NEW c, TokensInv(gr, tk, thread, c), NEW h \in Threads, Others(h),
         thread[h].pc # "add", thread'[h].pc # "add",
         thread'[h].pc \in {"read", "rotate"} =>
           thread'[h].token \in RefreshTokens /\ tk[thread'[h].token].status # "none",
         thread'[h].pc = "rotate" => /\ thread'[h].grant \in Grants /\ gr[thread'[h].grant].status # "none"
                                     /\ tk[thread'[h].token].grant = thread'[h].grant
  PROVE  TokensInv(gr, tk, thread', c)
<1> USE DEF TokensInv
<1>1. TokensHaveGrants(gr, tk, thread')
  BY DEF TokensHaveGrants, Others
<1>2. \A i \in Threads, g \in Grants : Adds(thread', i, g) <=> Adds(thread, i, g)
  BY DEF Adds, Others
<1>3. OneToken(tk, thread')
  BY <1>2 DEF OneToken
<1>4. AToken(gr, tk, thread', c)
  BY <1>2 DEF AToken
<1> QED
  BY <1>1, <1>3, <1>4

LEMMA OperatorTokens == ASSUME Inv, Operator PROVE TokensInv(grant', token', thread', crashes')
<1>1. ASSUME ClearRemoteAccess
      PROVE  \A g \in Grants : /\ grant[g].status # "none" => grant'[g].status # "none"
                               /\ grant'[g].status # "live"
  BY <1>1, ClearedTypes, CutRow DEF Inv, TypeOK
<1>2. CASE RevokeAll
  <2>1. ClearRemoteAccess /\ UNCHANGED <<token, thread, crashes>>
    BY <1>2 DEF RevokeAll
  <2>2. TokensInv(grant', token, thread, crashes)
    BY <1>1, <2>1, TablesFade DEF Inv
  <2> QED
    BY <2>1, <2>2
<1>3. CASE CreateClient
  <2>1. ClearRemoteAccess /\ UNCHANGED <<thread, crashes>>
    BY <1>3 DEF CreateClient
  <2>2. \A t \in RefreshTokens :
           /\ token'[t].grant = token[t].grant
           /\ (token'[t].status = "none") <=> (token[t].status = "none")
           /\ token'[t].status # "usable"
    <3>1. \A t \in RefreshTokens : token[t] \in TokenRow
      BY DEF Inv, TypeOK
    <3>2. \A t \in RefreshTokens : token'[t] = IF token[t].status = "none" THEN token[t]
                                         ELSE [token[t] EXCEPT !.status = "deleted"]
      BY <1>3 DEF CreateClient
    <3> QED
      BY <3>1, <3>2 DEF TokenRow
  <2>3. TokensInv(grant', token', thread, crashes)
    BY <1>1, <2>1, <2>2, TablesFade DEF Inv
  <2> QED
    BY <2>1, <2>3
<1>4. ASSUME NEW g \in Grants, RevokeGrant(g) PROVE TokensInv(grant', token', thread', crashes')
  <2>1. UNCHANGED <<token, thread, crashes>> /\ grant' = Revoked(g)
    BY <1>4 DEF RevokeGrant
  <2>2. TokensInv(grant', token, thread, crashes)
    BY <2>1, RevokedRow, TablesFade DEF Inv
  <2> QED
    BY <2>1, <2>2
<1>5. ASSUME NEW open \in BOOLEAN, SetWindow(open) PROVE TokensInv(grant', token', thread', crashes')
  BY <1>5 DEF SetWindow, Inv
<1>6. ASSUME NEW r \in Requests, Approve(r) \/ Deny(r) PROVE TokensInv(grant', token', thread', crashes')
  BY <1>6 DEF Approve, Deny, Inv
<1> QED
  BY <1>2, <1>3, <1>4, <1>5, <1>6 DEF Operator

LEMMA TimeTokens == ASSUME Inv, Time PROVE TokensInv(grant', token', thread', crashes')
<1>1. ASSUME NEW r \in Requests, RequestExpires(r) \/ CodeExpires(r) \/ Claim(r)
      PROVE  TokensInv(grant', token', thread', crashes')
  BY <1>1 DEF RequestExpires, CodeExpires, Claim, Inv
<1>2. ASSUME NEW t \in RefreshTokens, GraceEnds(t) PROVE TokensInv(grant', token', thread', crashes')
  <2>1. UNCHANGED <<grant, thread, crashes>> /\ token[t].status = "rotated" /\ token[t] \in TokenRow
    BY <1>2 DEF GraceEnds, Inv, TypeOK
  <2>2. /\ token'[t].grant = token[t].grant /\ token'[t].status = "late"
        /\ \A u \in RefreshTokens \ {t} : token'[u] = token[u]
    BY <1>2, <2>1 DEF GraceEnds, TokenRow, Inv, TypeOK
  <2>3. TokensInv(grant, token', thread, crashes)
    BY <2>1, <2>2, TablesFade DEF Inv
  <2> QED
    BY <2>1, <2>3
<1> QED
  BY <1>1, <1>2 DEF Time

LEMMA OpeningTokens ==
  ASSUME Inv, NEW h \in Threads,
         (\E r \in Requests : Authorize(h, r) \/ PresentCode(h, r)) \/ Count(h) \/ Insert(h) \/ Consume(h) \/ Reuse(h)
  PROVE  TokensInv(grant', token', thread', crashes')
<1>1. UNCHANGED <<grant, token, crashes>>
  BY DEF Authorize, PresentCode, Count, Insert, Consume, Reuse, tables
<1>2. thread[h].pc # "add" /\ thread[h] \in Handler /\ thread \in [Threads -> Handler]
  BY DEF Authorize, PresentCode, Count, Insert, Consume, Reuse, At, Inv, TypeOK
<1>3. thread'[h].pc \notin {"read", "rotate", "add"} /\ Others(h)
  <2>1. ASSUME NEW r \in Requests, Authorize(h, r) \/ PresentCode(h, r)
        PROVE  thread'[h].pc \notin {"read", "rotate", "add"} /\ Others(h)
    BY <1>2, <2>1 DEF Authorize, PresentCode, Idle, Others
  <2>2. CASE Count(h)
    BY <1>2, <2>2 DEF Count, Goto, Handler, Others
  <2>3. CASE Insert(h)
    BY <2>3, Finished, NewRows DEF Insert, Inv
  <2>4. CASE Consume(h)
    <3>1. Goto(h, "create") \/ Finish(h)
      BY <2>4 DEF Consume
    <3>2. Goto(h, "create") => thread'[h].pc = "create" /\ Others(h)
      BY <1>2 DEF Goto, Handler, Others
    <3> QED
      BY <3>1, <3>2, Finished, NewRows DEF Inv
  <2>5. CASE Reuse(h)
    <3>1. \/ Finish(h)
          \/ thread' = [thread EXCEPT ![h].pc = "revoke", ![h].grant = request[thread[h].request].grant]
      BY <2>5 DEF Reuse
    <3>2. CASE Finish(h)
      BY <3>2, Finished, NewRows DEF Inv
    <3>3. CASE thread' = [thread EXCEPT ![h].pc = "revoke", ![h].grant = request[thread[h].request].grant]
      BY <1>2, <3>3 DEF Handler, Others
    <3> QED
      BY <3>1, <3>2, <3>3
  <2> QED
    BY <2>1, <2>2, <2>3, <2>4, <2>5
<1>4. TokensInv(grant, token, thread', crashes)
  BY <1>2, <1>3, ThreadAddsNone DEF Inv
<1> QED
  BY <1>1, <1>4

\* A new grant has its first token and nothing else, since nothing names a grant that was
\* not made.
LEMMA CreateTokens ==
  ASSUME Inv, NEW h \in Threads, NEW g \in Grants, NEW t \in RefreshTokens, CreateGrant(h, g, t)
  PROVE  TokensInv(grant', token', thread', crashes')
<1> USE DEF Inv, TokensInv
<1>1. /\ grant[g].status = "none" /\ token[t].status = "none" /\ thread[h].pc = "create" /\ crashes' = crashes
      /\ grant'[g].status = "live" /\ \A f \in Grants \ {g} : grant'[f] = grant[f]
      /\ token'[t].status = "usable" /\ token'[t].grant = g /\ \A u \in RefreshTokens \ {t} : token'[u] = token[u]
  BY DEF CreateGrant, At, TypeOK
<1>2. thread'[h].pc = "idle" /\ Others(h)
  BY Finished, NewRows DEF CreateGrant
<1>3. \A u \in RefreshTokens \ {t} : ~Usable(token', u, g)
  BY <1>1 DEF TokensHaveGrants, Usable
<1>4. \A i \in Threads : ~Adds(thread', i, g)
  BY <1>1, <1>2 DEF TokensHaveGrants, Adds, Others
<1>5. TokensHaveGrants(grant', token', thread')
  <2>1. \A u \in RefreshTokens : token'[u].status # "none" =>
          token'[u].grant \in Grants /\ grant'[token'[u].grant].status # "none"
    BY <1>1 DEF TokensHaveGrants
  <2>2. \A i \in Threads : thread'[i].pc \in {"rotate", "add"} =>
          thread'[i].grant \in Grants /\ grant'[thread'[i].grant].status # "none"
    BY <1>1, <1>2 DEF TokensHaveGrants, Others
  <2>3. \A i \in Threads : thread'[i].pc \in {"read", "rotate"} =>
          thread'[i].token \in RefreshTokens /\ token'[thread'[i].token].status # "none"
    BY <1>1, <1>2 DEF TokensHaveGrants, Others
  <2>4. \A i \in Threads : thread'[i].pc = "rotate" => token'[thread'[i].token].grant = thread'[i].grant
    BY <1>1, <1>2 DEF TokensHaveGrants, Others
  <2> QED
    BY <2>1, <2>2, <2>3, <2>4 DEF TokensHaveGrants
<1>6. /\ \A f \in Grants \ {g}, u \in RefreshTokens : Usable(token', u, f) <=> Usable(token, u, f)
      /\ \A f \in Grants, i \in Threads : Adds(thread', i, f) <=> Adds(thread, i, f)
  BY <1>1, <1>2 DEF Usable, Adds, Others
<1>7. OneToken(token', thread')
  BY <1>3, <1>4, <1>6 DEF OneToken
<1>8. Usable(token', t, g)
  BY <1>1 DEF Usable
<1>9. AToken(grant', token', thread', crashes')
  BY <1>1, <1>6, <1>8 DEF AToken
<1> QED
  BY <1>5, <1>7, <1>9

\* Of the handlers that read a token one rotates it, and is then the one that adds.
LEMMA RotateTokens ==
  ASSUME Inv, NEW h \in Threads, Rotate(h)
  PROVE  TokensInv(grant', token', thread', crashes')
<1> USE DEF Inv, TokensInv
<1> DEFINE t == thread[h].token
           g == thread[h].grant
<1>1. /\ thread[h].pc = "rotate" /\ t \in RefreshTokens /\ token[t].status = "usable" /\ token[t].grant = g
      /\ g \in Grants /\ grant[g].status # "none" /\ token[t] \in TokenRow
      /\ UNCHANGED <<grant, crashes>>
  BY DEF Rotate, MayRotate, StillUsable, At, TokensHaveGrants, TypeOK
<1>2. /\ token'[t].status = "rotated" /\ token'[t].grant = g /\ \A u \in RefreshTokens \ {t} : token'[u] = token[u]
  BY <1>1 DEF Rotate, TypeOK, TokenRow
<1>3. thread'[h].pc = "add" /\ thread'[h].grant = g /\ Others(h)
  BY Went DEF Rotate
<1> HIDE DEF t, g
<1>4. TokensHaveGrants(grant', token', thread')
  <2>1. \A u \in RefreshTokens : token'[u].grant = token[u].grant /\ (token'[u].status = "none" <=> token[u].status = "none")
    BY <1>1, <1>2
  <2>2. \A i \in Threads : thread'[i].pc \in {"rotate", "add"} => thread'[i].grant \in Grants /\ grant[thread'[i].grant].status # "none"
    BY <1>1, <1>3 DEF TokensHaveGrants, Others
  <2>3. \A i \in Threads : thread'[i].pc \in {"read", "rotate"} => thread'[i] = thread[i]
    BY <1>3 DEF Others
  <2> QED
    BY <1>1, <2>1, <2>2, <2>3 DEF TokensHaveGrants
<1>5. Usable(token, t, g) /\ \A i \in Threads : ~Adds(thread, i, g)
  BY <1>1 DEF OneToken, Usable
<1>6. /\ \A f \in Grants, u \in RefreshTokens : Usable(token', u, f) <=> Usable(token, u, f) /\ u # t
      /\ \A f \in Grants, i \in Threads : Adds(thread', i, f) <=> Adds(thread, i, f) \/ (i = h /\ f = g)
  BY <1>1, <1>2, <1>3 DEF Usable, Adds, Others
<1>7. \A u \in RefreshTokens, f \in Grants : Usable(token, u, f) /\ f = g => u = t
  BY <1>1, <1>5 DEF OneToken
<1>8. OneToken(token', thread')
  BY <1>5, <1>6, <1>7 DEF OneToken
<1>9. AToken(grant', token', thread', crashes')
  <2> SUFFICES ASSUME crashes = 0, NEW f \in Grants, grant[f].status = "live"
               PROVE  (\E u \in RefreshTokens : Usable(token', u, f)) \/ \E i \in Threads : Adds(thread', i, f)
    BY <1>1 DEF AToken
  <2>1. CASE f = g
    BY <1>6, <2>1
  <2>2. CASE f # g
    <3>1. \A u \in RefreshTokens : Usable(token, u, f) => u # t
      BY <1>1, <2>2 DEF Usable
    <3> QED
      BY <1>6, <3>1 DEF AToken
  <2> QED
    BY <2>1, <2>2
<1> QED
  BY <1>4, <1>8, <1>9

LEMMA AddedTokens ==
  ASSUME Inv, NEW h \in Threads, NEW t \in RefreshTokens, AddTokens(h, t)
  PROVE  TokensInv(grant', token', thread', crashes')
<1> USE DEF Inv, TokensInv
<1> DEFINE g == thread[h].grant
<1>1. /\ thread[h].pc = "add" /\ g \in Grants /\ grant[g].status # "none" /\ token[t].status = "none"
      /\ UNCHANGED <<grant, crashes>>
  BY DEF AddTokens, At, TokensHaveGrants
<1>2. /\ token'[t].status = "usable" /\ token'[t].grant = g /\ \A u \in RefreshTokens \ {t} : token'[u] = token[u]
  BY DEF AddTokens, TypeOK
<1>3. thread'[h].pc = "idle" /\ Others(h)
  BY Finished, NewRows DEF AddTokens
<1> HIDE DEF g
<1>4. TokensHaveGrants(grant', token', thread')
  <2>1. \A u \in RefreshTokens : token'[u].status # "none" => token'[u].grant \in Grants /\ grant[token'[u].grant].status # "none"
    BY <1>1, <1>2 DEF TokensHaveGrants
  <2>2. \A u \in RefreshTokens : token[u].status # "none" => token'[u] = token[u]
    BY <1>1, <1>2
  <2>3. \A i \in Threads : thread'[i].pc \in {"read", "rotate", "add"} => thread'[i] = thread[i]
    BY <1>3 DEF Others
  <2> QED
    BY <1>1, <2>1, <2>2, <2>3 DEF TokensHaveGrants
<1>5. Adds(thread, h, g) /\ \A u \in RefreshTokens : ~Usable(token, u, g)
  BY <1>1 DEF OneToken, Adds, g
<1>6. /\ \A f \in Grants, u \in RefreshTokens : Usable(token', u, f) <=> Usable(token, u, f) \/ (u = t /\ f = g)
      /\ \A f \in Grants, i \in Threads : Adds(thread', i, f) <=> Adds(thread, i, f) /\ i # h
  BY <1>1, <1>2, <1>3 DEF Usable, Adds, Others
<1>7. \A i \in Threads, f \in Grants : Adds(thread, i, f) /\ f = g => i = h
  BY <1>1, <1>5 DEF OneToken
<1>8. OneToken(token', thread')
  BY <1>5, <1>6, <1>7 DEF OneToken
<1>9. AToken(grant', token', thread', crashes')
  <2> SUFFICES ASSUME crashes = 0, NEW f \in Grants, grant[f].status = "live"
               PROVE  (\E u \in RefreshTokens : Usable(token', u, f)) \/ \E i \in Threads : Adds(thread', i, f)
    BY <1>1 DEF AToken
  <2>1. CASE f = g
    BY <1>6, <2>1
  <2>2. CASE f # g
    <3>1. \A i \in Threads : Adds(thread, i, f) => i # h
      BY <2>2 DEF Adds, g
    <3> QED
      BY <1>6, <3>1 DEF AToken
  <2> QED
    BY <2>1, <2>2
<1> QED
  BY <1>4, <1>8, <1>9

LEMMA ReadTokens ==
  ASSUME Inv, NEW h \in Threads, Read(h) \/ \E t \in RefreshTokens : PresentRefresh(h, t)
  PROVE  TokensInv(grant', token', thread', crashes')
<1>1. UNCHANGED <<grant, token, crashes>> /\ thread[h].pc # "add" /\ thread[h] \in Handler
  BY DEF Read, PresentRefresh, At, tables, Inv, TypeOK
<1>2. ASSUME NEW t \in RefreshTokens, PresentRefresh(h, t) PROVE TokensInv(grant, token, thread', crashes)
  <2> DEFINE new == [Idle EXCEPT !.pc = "read", !.token = t, !.at = client]
  <2>1. new \in Handler /\ new.pc = "read" /\ new.token = t
    BY DEF Inv, Idle, Handler, TypeOK
  <2>2. thread'[h] = new /\ Others(h) /\ token[t].status # "none"
    BY <1>2, <2>1, Began DEF PresentRefresh, Inv
  <2> HIDE DEF new
  <2> QED
    BY <1>1, <2>1, <2>2, ThreadAddsNone DEF Inv
<1>3. CASE Read(h)
  <2> DEFINE t == thread[h].token
  <2>1. t \in RefreshTokens /\ token[t].status # "none" /\ token[t].grant \in Grants /\ grant[token[t].grant].status # "none"
    BY <1>3 DEF Read, At, Inv, TokensInv, TokensHaveGrants
  <2>2. thread'[h].pc \in {"rotate", "revoke"} /\ thread'[h].token = t /\ thread'[h].grant = token[t].grant /\ Others(h)
    BY <1>1, <1>3 DEF Read, Inv, TypeOK, Handler, Others
  <2> HIDE DEF t
  <2>3. TokensInv(grant, token, thread', crashes)
    BY <1>1, <2>1, <2>2, ThreadAddsNone DEF Inv
  <2> QED
    BY <1>1, <2>3
<1> QED
  BY <1>1, <1>2, <1>3

LEMMA EndedTokens ==
  ASSUME Inv, NEW h \in Threads, RevokeReused(h) \/ Refuse(h)
  PROVE  TokensInv(grant', token', thread', crashes')
<1>1. /\ UNCHANGED <<token, crashes>> /\ thread[h].pc # "add" /\ thread'[h].pc = "idle" /\ Others(h)
      /\ \A g \in Grants : /\ grant[g].status # "none" => grant'[g].status # "none"
                           /\ grant'[g].status = "live" => grant[g].status = "live"
  <2>1. Finish(h) /\ UNCHANGED <<token, crashes>> /\ thread[h].pc # "add"
    BY DEF RevokeReused, Refuse, At, tables
  <2>2. CASE Refuse(h)
    BY <2>1, <2>2, Finished, NewRows DEF Inv, Refuse, tables
  <2>3. CASE RevokeReused(h)
    <3>1. thread[h].grant \in Grants /\ grant' = Revoked(thread[h].grant)
      BY <2>3 DEF RevokeReused, At, Inv, TypeOK
    <3> QED
      BY <2>1, <3>1, RevokedRow, Finished, NewRows DEF Inv
  <2> QED
    BY <2>2, <2>3
<1>2. TokensInv(grant', token, thread, crashes)
  BY <1>1, TablesFade DEF Inv
<1>3. TokensInv(grant', token, thread', crashes)
  BY <1>1, <1>2, ThreadAddsNone
<1> QED
  BY <1>1, <1>3

LEMMA CrashKeeps ==
  ASSUME Inv, Crash
  PROVE  RequestsInv(request', thread', resets') /\ TokensInv(grant', token', thread', crashes')
<1>1. /\ UNCHANGED <<request, grant, token, resets>> /\ crashes' # 0
      /\ \A h \in Threads : thread'[h].pc = "idle" /\ thread'[h].request = None
  BY NewRows, BoundAssumption DEF Crash, Inv, TypeOK, tables
<1>2. RequestsInv(request, thread', resets)
  BY <1>1, NewRows DEF Inv, RequestsInv, OpenersAlone, Opening, RedeemersUsedUp, OneRedeems
<1>3. TokensInv(grant, token, thread', crashes')
  BY <1>1 DEF Inv, TokensInv, TokensHaveGrants, OneToken, AToken, Adds
<1> QED
  BY <1>1, <1>2, <1>3

\* A live grant is made only for the registered client and from an approval that stands.
LEMMA CurrentNext == ASSUME Inv, Next PROVE LiveGrantsAreCurrent'
<1>1. CASE RevokeAll \/ CreateClient
  <2>1. \A g \in Grants : grant'[g].status # "live"
    BY <1>1, ClearedTypes, CutRow DEF RevokeAll, CreateClient, Inv, TypeOK
  <2> QED
    BY <2>1 DEF LiveGrantsAreCurrent
<1>2. ASSUME UNCHANGED <<client, resets>>,
             \A g \in Grants : grant'[g].status = "live" => grant'[g] = grant[g]
      PROVE  LiveGrantsAreCurrent'
  BY <1>2 DEF Inv, LiveGrantsAreCurrent
<1>3. ASSUME NEW g \in Grants, RevokeGrant(g) PROVE LiveGrantsAreCurrent'
  BY <1>2, <1>3, RevokedRow DEF RevokeGrant, Inv
<1>4. ASSUME NEW h \in Threads, RevokeReused(h) PROVE LiveGrantsAreCurrent'
  <2>1. thread[h].grant \in Grants
    BY <1>4 DEF RevokeReused, At, Inv, TypeOK
  <2> QED
    BY <1>2, <1>4, <2>1, RevokedRow DEF RevokeReused, Inv
<1>5. ASSUME NEW h \in Threads, NEW g \in Grants, NEW t \in RefreshTokens, CreateGrant(h, g, t)
      PROVE  LiveGrantsAreCurrent'
  <2>1. /\ request[thread[h].request].approved = resets /\ thread[h].at = client /\ UNCHANGED <<client, resets>>
    BY <1>5 DEF CreateGrant, MayGrant, Linked, SameClient, At, Inv, RequestsInv, RedeemersUsedUp, ApprovedSince
  <2>2. /\ grant'[g].client = client /\ grant'[g].approved = resets
        /\ \A f \in Grants \ {g} : grant'[f] = grant[f]
    BY <1>5, <2>1 DEF CreateGrant, Inv, TypeOK
  <2> QED
    BY <2>1, <2>2 DEF Inv, LiveGrantsAreCurrent
<1>6. ASSUME UNCHANGED <<client, grant, resets>> PROVE LiveGrantsAreCurrent'
  BY <1>2, <1>6
<1>7. CASE Operator
  BY <1>1, <1>3, <1>6, <1>7 DEF Operator, SetWindow, Approve, Deny
<1>8. CASE Time \/ Crash
  BY <1>6, <1>8 DEF Time, RequestExpires, CodeExpires, Claim, GraceEnds, Crash, tables
<1>9. ASSUME NEW h \in Threads, Handle(h) PROVE LiveGrantsAreCurrent'
  <2>1. ASSUME NEW r \in Requests, Authorize(h, r) \/ PresentCode(h, r) PROVE LiveGrantsAreCurrent'
    BY <1>6, <2>1 DEF Authorize, PresentCode, tables
  <2>2. CASE Count(h) \/ Insert(h) \/ Consume(h) \/ Reuse(h)
    BY <1>6, <2>2 DEF Count, Insert, Consume, Reuse, tables
  <2>3. ASSUME NEW t \in RefreshTokens, PresentRefresh(h, t) \/ AddTokens(h, t) PROVE LiveGrantsAreCurrent'
    BY <1>6, <2>3 DEF PresentRefresh, AddTokens, tables
  <2>4. CASE Read(h) \/ Rotate(h) \/ Refuse(h)
    BY <1>6, <2>4 DEF Read, Rotate, Refuse, tables
  <2> QED
    BY <1>4, <1>5, <1>9, <2>1, <2>2, <2>3, <2>4 DEF Handle
<1> QED
  BY <1>7, <1>8, <1>9 DEF Next

-----------------------------------------------------------------------------
(* The theorem *)

LEMMA InitInv == Init => Inv
<1> SUFFICES ASSUME Init PROVE Inv
  OBVIOUS
<1>1. TypeOK
  <2>1. /\ request \in [Requests -> RequestRow] /\ thread \in [Threads -> Handler]
        /\ \A h \in Threads : thread[h].pc = "idle"
    BY NewRows DEF Init
  <2>2. grant \in [Grants -> GrantRow] /\ token \in [RefreshTokens -> TokenRow]
    BY BoundAssumption DEF Init, GrantRow, TokenRow
  <2>3. client \in 0 .. MaxResets /\ resets \in 0 .. MaxResets /\ crashes \in 0 .. MaxCrashes
    BY BoundAssumption DEF Init
  <2>4. window \in BOOLEAN
    BY DEF Init
  <2> QED
    BY <2>1, <2>2, <2>3, <2>4 DEF TypeOK
<1>2. \A h \in Threads : thread[h].pc = "idle"
  BY NewRows DEF Init
<1>3. RequestsInv(request, thread, resets)
  BY <1>2, NewRows DEF Init, RequestsInv, OpenersAlone, Opening, CodesApproved, ApprovedSince, RedeemersUsedUp,
                       OneRedeems, NoRequest
<1>4. LiveGrantsAreCurrent /\ TokensInv(grant, token, thread, crashes)
  BY <1>2 DEF Init, LiveGrantsAreCurrent, TokensInv, TokensHaveGrants, OneToken, AToken, Usable, Adds
<1> QED
  BY <1>1, <1>3, <1>4 DEF Inv

LEMMA NextInv == Inv /\ [Next]_vars => Inv'
<1> SUFFICES ASSUME Inv, [Next]_vars PROVE Inv'
  OBVIOUS
<1>1. CASE Operator
  BY <1>1, OperatorTypes, OperatorRequests, OperatorTokens, CurrentNext DEF Inv, Next
<1>2. CASE Time
  BY <1>2, TimeTypes, TimeRequests, TimeTokens, CurrentNext DEF Inv, Next
<1>3. CASE Crash
  BY <1>3, CrashTypes, CrashKeeps, CurrentNext DEF Inv, Next
<1>4. ASSUME NEW h \in Threads, Handle(h) PROVE Inv'
  <2>1. LiveGrantsAreCurrent'
    BY <1>4, CurrentNext DEF Next
  <2>2. CASE (\E r \in Requests : Authorize(h, r) \/ PresentCode(h, r)) \/ Count(h) \/ Insert(h)
    BY <2>1, <2>2, OpeningTypes, OpeningRequests, OpeningTokens DEF Inv
  <2>3. CASE Consume(h) \/ Reuse(h)
    BY <2>1, <2>3, RedeemingTypes, RedeemingRequests, OpeningTokens DEF Inv
  <2>4. CASE \E g \in Grants, t \in RefreshTokens : CreateGrant(h, g, t)
    BY <2>1, <2>4, RedeemingTypes, RedeemingRequests, CreateTokens DEF Inv
  <2>5. CASE Read(h) \/ \E t \in RefreshTokens : PresentRefresh(h, t)
    BY <2>1, <2>5, RefreshingTypes, RefreshingRequests, ReadTokens DEF Inv
  <2>6. CASE Rotate(h) \/ \E t \in RefreshTokens : AddTokens(h, t)
    BY <2>1, <2>6, RefreshingTypes, RefreshingRequests, RotateTokens, AddedTokens DEF Inv
  <2>7. CASE RevokeReused(h) \/ Refuse(h)
    BY <2>1, <2>7, RefreshingTypes, RefreshingRequests, EndedTokens DEF Inv
  <2> QED
    BY <1>4, <2>2, <2>3, <2>4, <2>5, <2>6, <2>7 DEF Handle
<1>5. CASE UNCHANGED vars
  BY <1>5 DEF vars, tables, Inv, TypeOK, LiveGrantsAreCurrent
<1> QED
  BY <1>1, <1>2, <1>3, <1>4, <1>5 DEF Next

\* Sets of which any two members are the same, and of which one is empty, have one
\* member together.
LEMMA OneTogether ==
  ASSUME NEW S, NEW T, \A x, y \in S : x = y, \A x, y \in T : x = y, S = {} \/ T = {}
  PROVE  Cardinality(S) + Cardinality(T) <= 1
<1>1. ASSUME NEW R, \A x, y \in R : x = y PROVE Cardinality(R) = 0 \/ Cardinality(R) = 1
  <2>1. CASE R = {}
    BY <2>1, FS_EmptySet
  <2>2. CASE R # {}
    <3>1. PICK x \in R : R = {x}
      BY <1>1, <2>2
    <3> QED
      BY <3>1, FS_Singleton
  <2> QED
    BY <2>1, <2>2
<1>2. Cardinality({}) = 0
  BY FS_EmptySet
<1>3. /\ Cardinality(S) = 0 \/ Cardinality(S) = 1
      /\ Cardinality(T) = 0 \/ Cardinality(T) = 1
      /\ Cardinality(S) = 0 \/ Cardinality(T) = 0
  BY <1>1, <1>2
<1> QED
  BY <1>3

LEMMA InvHolds == Inv => GrantsHold
<1> SUFFICES ASSUME Inv PROVE GrantsHold
  OBVIOUS
<1>1. OneRedemption
  BY DEF OneRedemption, At, Inv, RequestsInv, OneRedeems
<1>2. OneRefreshToken
  <2> SUFFICES ASSUME NEW g \in Grants PROVE Cardinality(UsableTokens(g)) + Cardinality(Adding(g)) <= 1
    BY DEF OneRefreshToken
  <2>1. \A t, u \in UsableTokens(g) : t = u
    BY DEF UsableTokens, Inv, TokensInv, OneToken, Usable
  <2>2. \A h, i \in Adding(g) : h = i
    BY DEF Adding, At, Inv, TokensInv, OneToken, Adds
  <2>3. UsableTokens(g) = {} \/ Adding(g) = {}
    BY DEF UsableTokens, Adding, At, Inv, TokensInv, OneToken, Usable, Adds
  <2> QED
    BY <2>1, <2>2, <2>3, OneTogether
<1>3. LiveGrantsCanRefresh
  BY DEF LiveGrantsCanRefresh, UsableTokens, Adding, At, Inv, TokensInv, AToken, Usable, Adds
<1> QED
  BY <1>1, <1>2, <1>3 DEF Inv, GrantsHold

(* However handlers, the operator, time and crashes come between each      *)
(* other's transactions: a code is redeemed by one handler, a live grant   *)
(* rests on the latest decision of the operator, and it has one token it   *)
(* can be refreshed with, unless the process ended between the two         *)
(* transactions of a refresh (mcp_server/oauth.py).                        *)
THEOREM GrantsHoldAlways == Spec => []GrantsHold
<1>1. Init => Inv
  BY InitInv
<1>2. Inv /\ [Next]_vars => Inv'
  BY NextInv
<1>3. Inv => GrantsHold
  BY InvHolds
<1> QED
  BY <1>1, <1>2, <1>3, PTL DEF Spec
=============================================================================
