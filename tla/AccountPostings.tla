--------------------------- MODULE AccountPostings ---------------------------
(***************************************************************************)
(* Postings to the account ledger that take several transactions of the    *)
(* database (accounts_engine.py, account_reminders_engine.py on            *)
(* db_accounts.py, db_account_reminders.py): a transfer is two rows linked *)
(* to each other; a due top-up or pension reminder is staged as a pending  *)
(* row, which the operator confirms (a row is posted) or dismisses.  Every *)
(* operation runs in a request thread of its own.                          *)
(***************************************************************************)
EXTENDS Integers, Sequences, FiniteSets

CONSTANTS
  Threads,
  Occurrences,  \* due top-ups and pension reminders
  Transfers,    \* transfers the operator may make, each once
  None,
  Fallible,     \* the steps whose database call may fail
  MaxFaults,    \* bound: failing calls
  MaxCrashes    \* bound: process ends

VARIABLES
  ledger,   \* account_transactions in the order of their ids
  pending,  \* account_autotopup_pending and account_reminder_pending
  thread,   \* the locals of each operation
  failed,   \* history: the steps whose database call has failed, each at most once
  crashes,  \* history: process ends so far
  overlapped, \* history: an operation has started while another was running
  early     \* history: a row was deleted before the request that posted it had returned

vars == <<ledger, pending, thread, failed, crashes, overlapped, early>>

Subjects == Occurrences \union Transfers
Transaction == [of : Subjects, leg : {"cash", "out", "in"}, link : Nat, live : BOOLEAN]
Pending == [status : {"none", "pending", "confirmed", "dismissed"}, txn : Nat]
Local == [pc : {"idle", "post", "resolve", "dismiss", "in", "undo", "link", "delete", "sibling"},
          of : Subjects \union {None}, txn : Nat, other : Nat]
Idle == [pc |-> "idle", of |-> None, txn |-> 0, other |-> 0]

TypeOK ==
  /\ ledger \in Seq(Transaction)
  /\ pending \in [Occurrences -> Pending]
  /\ thread \in [Threads -> Local]
  /\ \A i \in DOMAIN ledger : ledger[i].link \in 0 .. Len(ledger) \ {i}
  /\ \A t \in Threads : {thread[t].txn, thread[t].other} \subseteq 0 .. Len(ledger)
  /\ failed \subseteq Fallible /\ crashes \in 0 .. MaxCrashes
  /\ overlapped \in BOOLEAN /\ early \in BOOLEAN

Init ==
  /\ ledger = <<>>
  /\ pending = [d \in Occurrences |-> [status |-> "none", txn |-> 0]]
  /\ thread = [t \in Threads |-> Idle]
  /\ failed = {} /\ crashes = 0 /\ overlapped = FALSE /\ early = FALSE

-----------------------------------------------------------------------------
At(t, pc) == thread[t].pc = pc
Goto(t, pc) == thread' = [thread EXCEPT ![t].pc = pc]
Finish(t) == thread' = [thread EXCEPT ![t] = Idle]
Start(t, pc, of, txn, other) ==
  /\ At(t, "idle")
  /\ overlapped' = (overlapped \/ \E u \in Threads : ~At(u, "idle"))
  /\ thread' = [thread EXCEPT ![t] = [pc |-> pc, of |-> of, txn |-> txn, other |-> other]]

\* A database function that logs its exception and returns None or False.
Fails(step) ==
  /\ step \in Fallible \ failed /\ Cardinality(failed) < MaxFaults
  /\ failed' = failed \union {step}
Works == failed' = failed

Post(of, leg, link) == ledger' = Append(ledger, [of |-> of, leg |-> leg, link |-> link, live |-> TRUE])
Delete(id) == ledger' = [ledger EXCEPT ![id].live = FALSE]

-----------------------------------------------------------------------------
(* Top-ups and reminders *)

\* create_pending_topup, create_due_reminder
Fall(d) ==
  /\ pending[d].status = "none"
  /\ pending' = [pending EXCEPT ![d].status = "pending"]
  /\ UNCHANGED <<ledger, thread, failed, crashes, overlapped, early>>

Unresolved(d) == pending[d].status = "pending"
StartConfirm(t, d) ==
  /\ Unresolved(d) /\ Start(t, "post", d, 0, 0)
  /\ UNCHANGED <<ledger, pending, failed, crashes, early>>

\* A missing exchange rate or unit price is refused without effect as well.
PostCash(t) ==
  /\ At(t, "post")
  /\ \/ /\ Works /\ Post(thread[t].of, "cash", 0)
        /\ thread' = [thread EXCEPT ![t].pc = "resolve", ![t].txn = Len(ledger) + 1]
     \/ Fails("post") /\ UNCHANGED ledger /\ Finish(t)
  /\ UNCHANGED <<pending, crashes, overlapped, early>>

\* resolve_pending_topup, resolve_pending_reminder: an UPDATE of the pending row only
\* Variant: the UPDATE has no condition on the status.
WhateverStatus(d) == pending[d].status # "none"
Resolvable(d) == Unresolved(d)
Settle(t, status) ==
  /\ \/ /\ Works /\ Resolvable(thread[t].of)
        /\ pending' = [pending EXCEPT ![thread[t].of] = [status |-> status, txn |-> thread[t].txn]]
     \/ (Fails("resolve") \/ (Works /\ ~Resolvable(thread[t].of))) /\ UNCHANGED pending
  /\ Finish(t)
  /\ UNCHANGED <<ledger, crashes, overlapped, early>>

Confirm(t) == At(t, "resolve") /\ Settle(t, "confirmed")

StartDismiss(t, d) ==
  /\ Unresolved(d) /\ Start(t, "dismiss", d, 0, 0)
  /\ UNCHANGED <<ledger, pending, failed, crashes, early>>

Dismiss(t) == At(t, "dismiss") /\ Settle(t, "dismissed")

-----------------------------------------------------------------------------
(* create_transfer *)

AddOut(t, x) ==
  /\ \A i \in DOMAIN ledger : ledger[i].of # x
  /\ Start(t, "in", x, Len(ledger) + 1, 0)
  /\ Post(x, "out", 0)
  /\ UNCHANGED <<pending, failed, crashes, early>>

AddIn(t) ==
  /\ At(t, "in")
  /\ \/ /\ Works /\ Post(thread[t].of, "in", thread[t].txn)
        /\ thread' = [thread EXCEPT ![t].pc = "link", ![t].other = Len(ledger) + 1]
     \/ Fails("in") /\ UNCHANGED ledger /\ Goto(t, "undo")
  /\ UNCHANGED <<pending, crashes, overlapped, early>>

\* delete_transaction; its result is not looked at
UndoOut(t) ==
  /\ At(t, "undo")
  /\ \/ Works /\ Delete(thread[t].txn)
     \/ Fails("undo") /\ UNCHANGED ledger
  /\ Finish(t)
  /\ UNCHANGED <<pending, crashes, overlapped, early>>

\* update_transaction; its result is not looked at.  On a row deleted meanwhile it has
\* no effect, as the link of such a row is never read.
LinkOut(t) ==
  /\ At(t, "link")
  /\ \/ Works /\ ledger' = [ledger EXCEPT ![thread[t].txn].link = thread[t].other]
     \/ Fails("link") /\ UNCHANGED ledger
  /\ Finish(t)
  /\ UNCHANGED <<pending, crashes, overlapped, early>>

-----------------------------------------------------------------------------
(* delete_transaction_with_pair: the sibling is the one it read first *)

Returned(id) == \A u \in Threads : id \notin {thread[u].txn, thread[u].other} \/ thread[u].pc \in {"delete", "sibling"}
StartDelete(t, id) ==
  /\ ledger[id].live /\ early' = (early \/ ~Returned(id))
  /\ Start(t, "delete", ledger[id].of, id, ledger[id].link)
  /\ UNCHANGED <<ledger, pending, failed, crashes>>

HasSibling(t) == thread[t].other # 0
DeleteFirst(t) ==
  /\ At(t, "delete")
  /\ \/ Works /\ ledger[thread[t].txn].live /\ Delete(thread[t].txn)
        /\ IF HasSibling(t) THEN Goto(t, "sibling") ELSE Finish(t)
     \/ (Fails("delete") \/ (Works /\ ~ledger[thread[t].txn].live)) /\ UNCHANGED ledger /\ Finish(t)
  /\ UNCHANGED <<pending, crashes, overlapped, early>>

DeleteSibling(t) ==
  /\ At(t, "sibling")
  /\ \/ Works /\ Delete(thread[t].other)
     \/ Fails("sibling") /\ UNCHANGED ledger
  /\ Finish(t)
  /\ UNCHANGED <<pending, crashes, overlapped, early>>

-----------------------------------------------------------------------------
Crash ==
  /\ crashes < MaxCrashes /\ \E t \in Threads : ~At(t, "idle")
  /\ crashes' = crashes + 1
  /\ thread' = [t \in Threads |-> Idle]
  /\ UNCHANGED <<ledger, pending, failed, overlapped, early>>

Next ==
  \/ \E d \in Occurrences : Fall(d)
  \/ \E t \in Threads, d \in Occurrences : StartConfirm(t, d) \/ StartDismiss(t, d)
  \/ \E t \in Threads, x \in Transfers : AddOut(t, x)
  \/ \E t \in Threads : \E id \in DOMAIN ledger : StartDelete(t, id)
  \/ \E t \in Threads :
       \/ PostCash(t) \/ Confirm(t) \/ Dismiss(t)
       \/ AddIn(t) \/ UndoOut(t) \/ LinkOut(t)
       \/ DeleteFirst(t) \/ DeleteSibling(t)
  \/ Crash

Spec == Init /\ [][Next]_vars

-----------------------------------------------------------------------------
InHand(s) == \E t \in Threads : thread[t].of = s
Live(s) == {i \in DOMAIN ledger : ledger[i].of = s /\ ledger[i].live}

Whole(x) ==
  \/ Live(x) = {}
  \/ \E out, in \in DOMAIN ledger :
       /\ Live(x) = {out, in}
       /\ ledger[out].leg = "out" /\ ledger[in].leg = "in"
       /\ ledger[out].link = in /\ ledger[in].link = out

\* As long as no row is deleted before its request has returned and no deletion, link or
\* undoing breaks off: while no operation is at a transfer, both of its rows are there,
\* each linked to the other, or neither is (create_transfer, delete_transaction_with_pair).
NoneBroken == ~early /\ crashes = 0 /\ failed \intersect {"undo", "link", "delete", "sibling"} = {}
TransfersWhole == \A x \in Transfers : NoneBroken /\ ~InHand(x) => Whole(x)

\* The linked leg is deleted too "so a transfer is never left half-deleted"
\* (delete_transaction_with_pair).
NeverHalfDeleted == \A x \in Transfers : ~InHand(x) => Whole(x)

\* What became of a top-up or reminder is decided once, whoever confirms and dismisses
\* it at the same time (resolve_pending_topup, resolve_pending_reminder).
ResolvedOnce ==
  [][\A d \in Occurrences : pending[d].status \in {"confirmed", "dismissed"} => pending'[d] = pending[d]]_vars

\* As long as operations came one after the other and no confirmation broke off between its
\* posting and its resolution: while none is at an occurrence, exactly the row its confirmation
\* names was posted for it, and none if it was not confirmed (confirm_autotopup, dismiss_autotopup).
InTurn == ~overlapped /\ crashes = 0 /\ "resolve" \notin failed
PostedAsResolved == \A d \in Occurrences : InTurn /\ ~InHand(d) =>
  {i \in DOMAIN ledger : ledger[i].of = d} = IF pending[d].status = "confirmed" THEN {pending[d].txn} ELSE {}

\* At most one row is posted for an occurrence (confirm_autotopup).
PostedOnce == \A d \in Occurrences : Cardinality({i \in DOMAIN ledger : ledger[i].of = d}) <= 1

\* Nothing is posted for a dismissed occurrence (dismiss_autotopup).
DismissedPostsNothing == \A d \in Occurrences :
  pending[d].status = "dismissed" => \A i \in DOMAIN ledger : ledger[i].of # d
=============================================================================
