----------------------------- MODULE McpGrants -----------------------------
(***************************************************************************)
(* How a remote MCP connection is made and kept: connection requests,      *)
(* authorization codes, grants and refresh tokens (mcp_server/oauth.py on  *)
(* db_mcp_oauth.py).  Handlers run in the threadpool; each database        *)
(* function is one transaction, so a handler is a sequence of steps that   *)
(* other handlers may come between.  Access tokens are McpTokenCache's.    *)
(*                                                                         *)
(* The checks of a request's own parameters (PKCE, scope, resource, secret)*)
(* only decide whether it is refused: a handler may refuse wherever the    *)
(* code has such a check.                                                  *)
(***************************************************************************)
EXTENDS Naturals, FiniteSets

CONSTANTS
  Threads,
  Requests, Grants, RefreshTokens,
  None,
  PendingMax,   \* MCP_OAUTH_PENDING_MAX
  MaxResets,    \* bound: Revoke All and new clients together
  MaxCrashes    \* bound: threads lost with the process

ASSUME NoneAssumption == None \notin Requests \union Grants \union RefreshTokens
ASSUME BoundAssumption == PendingMax \in Nat \ {0} /\ MaxResets \in Nat /\ MaxCrashes \in Nat

VARIABLES
  client,    \* mcp_oauth_client: the reset that created it, or 0
  window,    \* whether the pairing window is open
  request,   \* mcp_oauth_requests
  grant,     \* mcp_oauth_grants
  token,     \* the refresh rows of mcp_oauth_tokens
  thread,    \* the locals of each handler
  resets,    \* history: Revoke All and create_client so far
  crashes

tables == <<client, window, request, grant, token>>
vars == <<tables, thread, resets, crashes>>

-----------------------------------------------------------------------------
\* History in the rows.  begun, approved: the number of resets when the browser
\* asked and when the operator agreed, which the grant keeps.  replayed: a
\* second presentation of the code has ended.
RequestRow == [status : {"none", "pending", "approved", "denied", "gone"}, expired : BOOLEAN,
               code : {"none", "minted", "stale", "used"}, grant : Grants \union {None},
               begun : 0 .. MaxResets, approved : 0 .. MaxResets, replayed : BOOLEAN]
GrantRow == [status : {"none", "live", "revoked"}, client : 0 .. MaxResets, approved : 0 .. MaxResets]
TokenRow == [status : {"none", "usable", "rotated", "late", "deleted"}, grant : Grants \union {None}]
Handler == [pc : {"idle", "count", "insert", "consume", "create", "read", "rotate", "add", "revoke"},
            request : Requests \union {None}, token : RefreshTokens \union {None},
            grant : Grants \union {None}, at : 0 .. MaxResets]

NoRequest == [status |-> "none", expired |-> FALSE, code |-> "none", grant |-> None,
              begun |-> 0, approved |-> 0, replayed |-> FALSE]
Idle == [pc |-> "idle", request |-> None, token |-> None, grant |-> None, at |-> 0]

TypeOK ==
  /\ client \in 0 .. MaxResets /\ window \in BOOLEAN
  /\ request \in [Requests -> RequestRow]
  /\ grant \in [Grants -> GrantRow]
  /\ token \in [RefreshTokens -> TokenRow]
  /\ thread \in [Threads -> Handler]
  /\ \A h \in Threads : thread[h].pc \in {"add", "revoke"} => thread[h].grant \in Grants
  /\ resets \in 0 .. MaxResets /\ crashes \in 0 .. MaxCrashes

Init ==
  /\ client = 0 /\ window = FALSE
  /\ request = [r \in Requests |-> NoRequest]
  /\ grant = [g \in Grants |-> [status |-> "none", client |-> 0, approved |-> 0]]
  /\ token = [t \in RefreshTokens |-> [status |-> "none", grant |-> None]]
  /\ thread = [h \in Threads |-> Idle]
  /\ resets = 0 /\ crashes = 0

At(h, pc) == thread[h].pc = pc
Goto(h, pc) == thread' = [thread EXCEPT ![h].pc = pc]
Finish(h) == thread' = [thread EXCEPT ![h] = Idle]

-----------------------------------------------------------------------------
(* The operator: each call is one transaction. *)

\* open_pairing_window, close_pairing_window, and the end of the window's time.
SetWindow(open) ==
  /\ open => client # 0
  /\ window # open
  /\ window' = open
  /\ UNCHANGED <<client, request, grant, token, thread, resets, crashes>>

\* clear_remote_access
Deleted(row) == IF row.status = "none" THEN row ELSE [NoRequest EXCEPT !.status = "gone", !.approved = row.approved]
Cut(row) == IF row.status = "live" THEN [row EXCEPT !.status = "revoked"] ELSE row
ClearRemoteAccess ==
  /\ grant' = [g \in Grants |-> Cut(grant[g])]
  /\ window' = FALSE
  /\ request' = [r \in Requests |-> Deleted(request[r])]

RevokeAll ==
  /\ client # 0 /\ resets < MaxResets
  /\ ClearRemoteAccess
  /\ resets' = resets + 1
  /\ UNCHANGED <<client, token, thread, crashes>>

\* create_client
CreateClient ==
  /\ resets < MaxResets
  /\ ClearRemoteAccess
  /\ resets' = resets + 1
  /\ client' = resets + 1
  /\ token' = [t \in RefreshTokens |-> IF token[t].status = "none" THEN token[t]
                                         ELSE [token[t] EXCEPT !.status = "deleted"]]
  /\ UNCHANGED <<thread, crashes>>

Approve(r) ==
  /\ request[r].status = "pending" /\ ~request[r].expired
  /\ request' = [request EXCEPT ![r].status = "approved", ![r].approved = resets]
  /\ UNCHANGED <<client, window, grant, token, thread, resets, crashes>>

Deny(r) ==
  /\ request[r].status = "pending" /\ ~request[r].expired
  /\ request' = [request EXCEPT ![r].status = "denied"]
  /\ UNCHANGED <<client, window, grant, token, thread, resets, crashes>>

Revoked(g) == [grant EXCEPT ![g].status = "revoked"]

\* The Revoke button of a connected app; POST /oauth/revoke has the same effect.
RevokeGrant(g) ==
  /\ grant[g].status = "live"
  /\ grant' = Revoked(g)
  /\ UNCHANGED <<client, window, request, token, thread, resets, crashes>>

-----------------------------------------------------------------------------
(* begin_authorization *)

Pending == {r \in Requests : request[r].status = "pending" /\ ~request[r].expired}

Authorize(h, r) ==
  /\ At(h, "idle") /\ client # 0 /\ window
  /\ request[r].status = "none" /\ \A i \in Threads : thread[i].request # r
  /\ thread' = [thread EXCEPT ![h] = [Idle EXCEPT !.pc = "count", !.request = r, !.at = resets]]
  /\ UNCHANGED <<tables, resets, crashes>>

\* request_counts, below both limits
Count(h) ==
  /\ At(h, "count") /\ Cardinality(Pending) < PendingMax
  /\ Goto(h, "insert")
  /\ UNCHANGED <<tables, resets, crashes>>

\* insert_request; rows that expired more than a day ago go.
Prunable(r) ==
  /\ request[r].status \notin {"none", "gone"} /\ request[r].expired /\ request[r].code # "minted"
  /\ \A h \in Threads : thread[h].request # r
Insert(h) ==
  LET new == [NoRequest EXCEPT !.status = "pending", !.begun = thread[h].at]
  IN /\ At(h, "insert")
     /\ \E old \in SUBSET {r \in Requests : Prunable(r)} :
          request' = [r \in Requests |-> IF r = thread[h].request THEN new
                                         ELSE IF r \in old THEN Deleted(request[r]) ELSE request[r]]
     /\ Finish(h)
     /\ UNCHANGED <<client, window, grant, token, resets, crashes>>

\* claim_authorization, by the browser that holds the binding.
Claim(r) ==
  /\ request[r].status = "approved" /\ request[r].code = "none" /\ ~request[r].expired
  /\ request' = [request EXCEPT ![r].code = "minted"]
  /\ UNCHANGED <<client, window, grant, token, thread, resets, crashes>>

-----------------------------------------------------------------------------
(* exchange_code *)

\* The client has authenticated and sends a code that was minted.
PresentCode(h, r) ==
  /\ At(h, "idle") /\ client # 0
  /\ request[r].code # "none"
  /\ thread' = [thread EXCEPT ![h] = [Idle EXCEPT !.pc = "consume", !.request = r, !.at = client]]
  /\ UNCHANGED <<tables, resets, crashes>>

\* consume_code: the first presentation uses the code up.  Variant: it only
\* reads the row.
ConsumeByReading(h) ==
  /\ At(h, "consume")
  /\ request[thread[h].request].status = "approved" /\ request[thread[h].request].code = "minted"
  /\ Goto(h, "create")
  /\ UNCHANGED <<tables, resets, crashes>>
Consume(h) ==
  LET r == thread[h].request
  IN /\ At(h, "consume")
     /\ request[r].status = "approved" /\ request[r].code \in {"minted", "stale"}
     /\ request' = [request EXCEPT ![r].code = "used"]
     /\ IF request[r].code = "minted" THEN Goto(h, "create") ELSE Finish(h)
     /\ UNCHANGED <<client, window, grant, token, resets, crashes>>

\* A later one is about to revoke the grant, if the request has one.
Reuse(h) ==
  LET r == thread[h].request
  IN /\ At(h, "consume")
     /\ request[r].status = "approved" /\ request[r].code = "used"
     /\ IF request[r].grant # None
          THEN /\ thread' = [thread EXCEPT ![h].pc = "revoke", ![h].grant = request[r].grant]
               /\ request' = request
          ELSE /\ Finish(h)
               /\ request' = [request EXCEPT ![r].replayed = TRUE]
     /\ UNCHANGED <<client, window, grant, token, resets, crashes>>

\* create_grant commits only if it could link the request, and for the client
\* that is still registered.
Linked(h) == request[thread[h].request].status = "approved" /\ request[thread[h].request].grant = None
SameClient(h) == client = thread[h].at
MayGrant(h) == Linked(h) /\ SameClient(h)

CreateGrant(h, g, t) ==
  LET r == thread[h].request
  IN /\ At(h, "create") /\ MayGrant(h)
     /\ grant[g].status = "none" /\ token[t].status = "none"
     /\ grant' = [grant EXCEPT ![g] = [status |-> "live", client |-> thread[h].at, approved |-> request[r].approved]]
     /\ token' = [token EXCEPT ![t] = [status |-> "usable", grant |-> g]]
     /\ request' = [request EXCEPT ![r].grant = g]
     /\ Finish(h)
     /\ UNCHANGED <<client, window, resets, crashes>>

-----------------------------------------------------------------------------
(* refresh_tokens *)

PresentRefresh(h, t) ==
  /\ At(h, "idle") /\ client # 0
  /\ token[t].status # "none"
  /\ thread' = [thread EXCEPT ![h] = [Idle EXCEPT !.pc = "read", !.token = t, !.at = client]]
  /\ UNCHANGED <<tables, resets, crashes>>

\* get_token: a token rotated long ago ends its grant, a usable one may go on.
Read(h) ==
  LET row == token[thread[h].token]
  IN /\ At(h, "read")
     /\ row.status \in {"usable", "late"}
     /\ grant[row.grant].status = "live" /\ grant[row.grant].client = thread[h].at
     /\ thread' = [thread EXCEPT ![h].pc = IF row.status = "late" THEN "revoke" ELSE "rotate",
                                 ![h].grant = row.grant]
     /\ UNCHANGED <<tables, resets, crashes>>

\* rotate_refresh_token: only one of the requests that read the token wins.
StillUsable(h) == token[thread[h].token].status = "usable"
MayRotate(h) == StillUsable(h)
Rotate(h) ==
  /\ At(h, "rotate") /\ MayRotate(h)
  /\ token' = [token EXCEPT ![thread[h].token].status = "rotated"]
  /\ Goto(h, "add")
  /\ UNCHANGED <<client, window, request, grant, resets, crashes>>

\* add_tokens, whatever has become of the grant meanwhile.
AddTokens(h, t) ==
  /\ At(h, "add") /\ token[t].status = "none"
  /\ token' = [token EXCEPT ![t] = [status |-> "usable", grant |-> thread[h].grant]]
  /\ Finish(h)
  /\ UNCHANGED <<client, window, request, grant, resets, crashes>>

-----------------------------------------------------------------------------
(* Endings *)

\* _revoke, for a code or a refresh token presented again.
RevokeReused(h) ==
  LET r == thread[h].request
  IN /\ At(h, "revoke")
     /\ grant' = Revoked(thread[h].grant)
     /\ request' = IF r \in Requests /\ request[r].status = "approved"
                     THEN [request EXCEPT ![r].replayed = TRUE] ELSE request
     /\ Finish(h)
     /\ UNCHANGED <<client, window, token, resets, crashes>>

\* A check fails: too many requests, a wrong parameter, a row that is gone,
\* revoked, expired or rotated within the grace.  A reused code or token is
\* dealt with first, and after a rotation nothing is checked.
Refuse(h) ==
  /\ \/ At(h, "count")
     \/ At(h, "consume") /\ request[thread[h].request].status # "approved"
     \/ At(h, "create")
     \/ At(h, "read") /\ token[thread[h].token].status # "late"
     \/ At(h, "read") /\ grant[token[thread[h].token].grant].status = "revoked"
     \/ At(h, "rotate") /\ ~MayRotate(h)
  /\ Finish(h)
  /\ UNCHANGED <<tables, resets, crashes>>

Crash ==
  /\ crashes < MaxCrashes
  /\ thread' = [h \in Threads |-> Idle]
  /\ crashes' = crashes + 1
  /\ UNCHANGED <<tables, resets>>

-----------------------------------------------------------------------------
(* Time *)

RequestExpires(r) ==
  /\ request[r].status \in {"pending", "approved", "denied"} /\ ~request[r].expired
  /\ request' = [request EXCEPT ![r].expired = TRUE]
  /\ UNCHANGED <<client, window, grant, token, thread, resets, crashes>>

CodeExpires(r) ==
  /\ request[r].code = "minted"
  /\ request' = [request EXCEPT ![r].code = "stale"]
  /\ UNCHANGED <<client, window, grant, token, thread, resets, crashes>>

\* MCP_OAUTH_REFRESH_RETRY_GRACE_SECONDS after the rotation.
GraceEnds(t) ==
  /\ token[t].status = "rotated"
  /\ token' = [token EXCEPT ![t].status = "late"]
  /\ UNCHANGED <<client, window, request, grant, thread, resets, crashes>>

Operator ==
  \/ \E open \in BOOLEAN : SetWindow(open)
  \/ RevokeAll \/ CreateClient
  \/ \E r \in Requests : Approve(r) \/ Deny(r)
  \/ \E g \in Grants : RevokeGrant(g)

Handle(h) ==
  \/ \E r \in Requests : Authorize(h, r) \/ PresentCode(h, r)
  \/ Count(h) \/ Insert(h) \/ Consume(h) \/ Reuse(h)
  \/ \E g \in Grants, t \in RefreshTokens : CreateGrant(h, g, t)
  \/ \E t \in RefreshTokens : PresentRefresh(h, t) \/ AddTokens(h, t)
  \/ Read(h) \/ Rotate(h) \/ RevokeReused(h) \/ Refuse(h)

Time ==
  \/ \E r \in Requests : RequestExpires(r) \/ CodeExpires(r) \/ Claim(r)
  \/ \E t \in RefreshTokens : GraceEnds(t)

Next == Operator \/ (\E h \in Threads : Handle(h)) \/ Time \/ Crash

Spec == Init /\ [][Next]_vars

-----------------------------------------------------------------------------
(* Properties *)

\* A live grant rests on an approval the operator gave since the last Revoke
\* All or new client, and belongs to the registered client, whatever exchange
\* was in flight then ("so Revoke All lands wholly before or after").
LiveGrantsAreCurrent ==
  \A g \in Grants : grant[g].status = "live" =>
    grant[g].client = client /\ grant[g].approved = resets

\* A code is redeemed by one handler only, however many present it.
OneRedemption ==
  \A h, i \in Threads : At(h, "create") /\ At(i, "create") /\ thread[h].request = thread[i].request => h = i

\* However many requests present the same refresh token at once, a live grant
\* has at most one usable refresh token, the one being added included.
UsableTokens(g) == {t \in RefreshTokens : token[t].grant = g /\ token[t].status = "usable"}
Adding(g) == {h \in Threads : At(h, "add") /\ thread[h].grant = g}
OneRefreshToken ==
  \A g \in Grants : grant[g].status = "live" => Cardinality(UsableTokens(g)) + Cardinality(Adding(g)) <= 1

\* A live grant can be refreshed, or a handler is adding the token that can:
\* no refusal uses a token up.  A crash between the two transactions of a
\* refresh breaks it.
LiveGrantsCanRefresh ==
  crashes = 0 => \A g \in Grants : grant[g].status = "live" => UsableTokens(g) # {} \/ Adding(g) # {}

\* A code is redeemed once; a live grant is the operator's latest decision, and can
\* always be refreshed with the one token it has.
GrantsHold == TypeOK /\ OneRedemption /\ LiveGrantsAreCurrent /\ OneRefreshToken /\ LiveGrantsCanRefresh

\* "At most 5 unexpired pending requests [...] exist."
PendingBounded == Cardinality(Pending) <= PendingMax

\* "A second presentation revokes the grant the first one created."
ReplayRevokes ==
  \A r \in Requests : request[r].replayed /\ request[r].grant # None
                        => grant[request[r].grant].status = "revoked"

\* Revoke All "drops every request": a pending one was asked for since.
PendingAskedSince == \A r \in Requests : request[r].status = "pending" => request[r].begun = resets

=============================================================================
