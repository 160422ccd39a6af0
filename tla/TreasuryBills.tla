---------------------------- MODULE TreasuryBills ----------------------------
(***************************************************************************)
(* UK Treasury Bills (treasury_bill_engine.py on db_accounts.py): a bill   *)
(* is a row of treasury_bills and up to two rows of the ledger, the Buy    *)
(* posted at purchase and the Sell posted at maturity.  Every database     *)
(* function is one transaction of its own; purchases, edits and deletions  *)
(* run in request threads, the maturity sweep in a scheduler thread or in  *)
(* the background task of a manual trigger.                                *)
(***************************************************************************)
EXTENDS Integers, Sequences, FiniteSets

CONSTANTS
  Bills,       \* purchases the operator may make
  Requests, Sweeps,  \* the threads of each kind
  Price,       \* what every bill costs
  Faces,       \* face values the operator enters
  Fallible,    \* the steps whose database call may fail
  MaxFaults,   \* bound: failing calls
  MaxCrashes   \* bound: process ends

ASSUME PriceAssumption == Price \in Nat /\ Faces \subseteq Nat
ASSUME BoundAssumption == MaxFaults \in Nat /\ MaxCrashes \in Nat
ASSUME ThreadAssumption == Requests \intersect Sweeps = {}

VARIABLES
  ledger,   \* account_transactions in the order of their ids
  row,      \* treasury_bills
  age,      \* of each bill: 0 before maturity, 1 on its day, 2 later
  thread,   \* the locals of each operation
  failed,   \* history: the steps whose database call has failed, each at most once
  crashes,  \* history: process ends so far
  overlapped  \* history: an operation has started while another was running

vars == <<ledger, row, age, thread, failed, crashes, overlapped>>

Tasks == Requests \union Sweeps

\* A face value has to exceed the price.
Acceptable(face) == face > Price
Row == [status : {"none", "Open", "Matured", "deleted"}, face : {f \in Faces : f > Price} \union {0},
        buy : Nat, sell : Nat]
Blank == [status |-> "none", face |-> 0, buy |-> 0, sell |-> 0]
Transaction == [bill : Bills, leg : {"Buy", "Sell"}, ticker : BOOLEAN, amount : Nat, live : BOOLEAN]
Local == [pc : {"idle", "ticker", "create", "undo", "post", "mark", "edit", "correct", "buy", "sell", "row"},
          todo : SUBSET Bills, seen : [Bills -> Row], face : Nat, txn : Nat]
Idle == [pc |-> "idle", todo |-> {}, seen |-> [b \in Bills |-> Blank], face |-> 0, txn |-> 0]

TypeOK ==
  /\ ledger \in Seq(Transaction)
  /\ row \in [Bills -> Row] /\ age \in [Bills -> 0 .. 2]
  /\ thread \in [Tasks -> Local]
  /\ \A b \in Bills : {row[b].buy, row[b].sell} \subseteq 0 .. Len(ledger)
  /\ failed \subseteq Fallible /\ crashes \in 0 .. MaxCrashes /\ overlapped \in BOOLEAN

Init ==
  /\ ledger = <<>>
  /\ row = [b \in Bills |-> Blank] /\ age = [b \in Bills |-> 0]
  /\ thread = [t \in Tasks |-> Idle]
  /\ failed = {} /\ crashes = 0 /\ overlapped = FALSE

-----------------------------------------------------------------------------
At(t, pc) == thread[t].pc = pc
Goto(t, pc) == thread' = [thread EXCEPT ![t].pc = pc]
Finish(t) == thread' = [thread EXCEPT ![t] = Idle]
Begins(t) == At(t, "idle") /\ overlapped' = (overlapped \/ \E u \in Tasks : ~At(u, "idle"))

\* The bill a request, or a sweep between its two writes, is at.
BillOf(t) == CHOOSE b \in thread[t].todo : TRUE

\* A database function that logs its exception and returns None or False.
Fails(step) ==
  /\ step \in Fallible \ failed /\ Cardinality(failed) < MaxFaults
  /\ failed' = failed \union {step}
Works == failed' = failed

Exists(b) == row[b].status \in {"Open", "Matured"}
Reading(t, pc, bs, face) ==
  thread' = [thread EXCEPT ![t] = [Idle EXCEPT !.pc = pc, !.todo = bs, !.face = face,
               !.seen = [b \in Bills |-> IF b \in bs THEN row[b] ELSE Blank]]]

Post(b, leg, amount) ==
  ledger' = Append(ledger, [bill |-> b, leg |-> leg, ticker |-> (leg = "Sell"), amount |-> amount, live |-> TRUE])
DeleteTransaction(id) == ledger' = [ledger EXCEPT ![id].live = FALSE]

-----------------------------------------------------------------------------
(* buy_treasury_bill: the ticker embeds the id of the Buy, so it is set     *)
(* once that row exists; a failure later deletes the Buy again.             *)

AddBuy(t, b, face) ==
  /\ Begins(t) /\ row[b].status = "none" /\ Acceptable(face)
  /\ \A u \in Tasks : b \notin thread[u].todo
  /\ Post(b, "Buy", Price)
  /\ thread' = [thread EXCEPT ![t] = [Idle EXCEPT !.pc = "ticker", !.todo = {b}, !.face = face, !.txn = Len(ledger) + 1]]
  /\ UNCHANGED <<row, age, failed, crashes>>

SetTicker(t) ==
  /\ At(t, "ticker")
  /\ \/ Works /\ ledger' = [ledger EXCEPT ![thread[t].txn].ticker = TRUE] /\ Goto(t, "create")
     \/ Fails("ticker") /\ UNCHANGED ledger /\ Goto(t, "undo")
  /\ UNCHANGED <<row, age, crashes, overlapped>>

CreateBill(t) ==
  /\ At(t, "create")
  /\ \/ /\ Works /\ Finish(t)
        /\ row' = [row EXCEPT ![BillOf(t)] = [Blank EXCEPT !.status = "Open", !.face = thread[t].face, !.buy = thread[t].txn]]
     \/ Fails("create") /\ UNCHANGED row /\ Goto(t, "undo")
  /\ UNCHANGED <<ledger, age, crashes, overlapped>>

\* delete_transaction; its result is not looked at
UndoBuy(t) ==
  /\ At(t, "undo")
  /\ \/ Works /\ DeleteTransaction(thread[t].txn)
     \/ Fails("undo") /\ UNCHANGED ledger
  /\ Finish(t)
  /\ UNCHANGED <<row, age, crashes, overlapped>>

-----------------------------------------------------------------------------
(* sweep_matured_bills *)

\* get_open_treasury_bills_due.  Variant: only the bills of today.
DueToday == {b \in Bills : row[b].status = "Open" /\ age[b] = 1}
Due == {b \in Bills : row[b].status = "Open" /\ age[b] >= 1}
ReadDue(t) ==
  /\ Begins(t) /\ Due # {}
  /\ Reading(t, "post", Due, 0)
  /\ UNCHANGED <<ledger, row, age, failed, crashes>>

\* The bills left after b; the sweep is over when none is.
Continue(t, b) ==
  IF thread[t].todo = {b} THEN Finish(t)
  ELSE thread' = [thread EXCEPT ![t].pc = "post", ![t].todo = @ \ {b}, ![t].face = 0, ![t].txn = 0]

PostSell(t, b) ==
  /\ At(t, "post") /\ b \in thread[t].todo
  /\ Works /\ Post(b, "Sell", thread[t].seen[b].face)
  /\ thread' = [thread EXCEPT ![t].pc = "mark", ![t].face = thread[t].seen[b].face, ![t].txn = Len(ledger) + 1]
  /\ UNCHANGED <<row, age, crashes, overlapped>>

\* The payout could not be posted: the bill stays open.
SkipUnposted(t, b) ==
  /\ At(t, "post") /\ b \in thread[t].todo
  /\ Fails("post") /\ Continue(t, b)
  /\ UNCHANGED <<ledger, row, age, crashes, overlapped>>

\* mark_treasury_bill_matured takes open bills only.  Variant: any that exists.
Posted(t) == ledger[thread[t].txn].bill
NotDeleted(b) == Exists(b)
StillOpen(b) == row[b].status = "Open"
MarkMatured(t) ==
  LET b == Posted(t) IN
  /\ At(t, "mark")
  /\ \/ /\ Works /\ StillOpen(b)
        /\ row' = [row EXCEPT ![b].status = "Matured", ![b].sell = thread[t].txn]
        /\ Continue(t, b)
     \/ (Fails("mark") \/ (Works /\ ~StillOpen(b))) /\ UNCHANGED row /\ Continue(t, b)
     \/ /\ Fails("resnapshot") /\ StillOpen(b)  \* resnapshot_account raises: the sweep is abandoned
        /\ row' = [row EXCEPT ![b].status = "Matured", ![b].sell = thread[t].txn]
        /\ Finish(t)
  /\ UNCHANGED <<ledger, age, crashes, overlapped>>

-----------------------------------------------------------------------------
(* confirm_ytm: a new face value, or the one it read ("Keep Estimate") *)

StartEdit(t, b, face) ==
  /\ Begins(t) /\ Exists(b)
  /\ Acceptable(face)
  /\ Reading(t, "edit", {b}, face)
  /\ UNCHANGED <<ledger, row, age, failed, crashes>>

\* confirm_treasury_bill_ytm has no condition on the status.
Edit(t) ==
  LET b == BillOf(t) IN
  /\ At(t, "edit")
  /\ \/ /\ Works /\ Exists(b) /\ row' = [row EXCEPT ![b].face = thread[t].face]
        /\ IF thread[t].seen[b].status = "Matured" THEN Goto(t, "correct") ELSE Finish(t)
     \/ (Fails("edit") \/ (Works /\ ~Exists(b))) /\ UNCHANGED row /\ Finish(t)
  /\ UNCHANGED <<ledger, age, crashes, overlapped>>

CorrectSell(t) ==
  /\ At(t, "correct")
  /\ \/ Works /\ ledger' = [ledger EXCEPT ![thread[t].seen[BillOf(t)].sell].amount = thread[t].face]
     \/ Fails("correct") /\ UNCHANGED ledger
  /\ Finish(t)
  /\ UNCHANGED <<row, age, crashes, overlapped>>

-----------------------------------------------------------------------------
(* delete_treasury_bill: the results of the first two calls are not looked at *)

StartDelete(t, b) ==
  /\ Begins(t) /\ Exists(b)
  /\ Reading(t, "buy", {b}, 0)
  /\ UNCHANGED <<ledger, row, age, failed, crashes>>

DeleteBuy(t) ==
  LET seen == thread[t].seen[BillOf(t)] IN
  /\ At(t, "buy")
  /\ \/ Works /\ DeleteTransaction(seen.buy)
     \/ Fails("buy") /\ UNCHANGED ledger
  /\ Goto(t, IF seen.sell # 0 THEN "sell" ELSE "row")
  /\ UNCHANGED <<row, age, crashes, overlapped>>

DeleteSell(t) ==
  /\ At(t, "sell")
  /\ \/ Works /\ DeleteTransaction(thread[t].seen[BillOf(t)].sell)
     \/ Fails("sell") /\ UNCHANGED ledger
  /\ Goto(t, "row")
  /\ UNCHANGED <<row, age, crashes, overlapped>>

DeleteRow(t) ==
  /\ At(t, "row")
  /\ \/ Works /\ row' = [row EXCEPT ![BillOf(t)] = [Blank EXCEPT !.status = "deleted"]]
     \/ Fails("row") /\ UNCHANGED row
  /\ Finish(t)
  /\ UNCHANGED <<ledger, age, crashes, overlapped>>

-----------------------------------------------------------------------------
NextDay(b) ==
  /\ Exists(b) /\ age[b] < 2
  /\ age' = [age EXCEPT ![b] = @ + 1]
  /\ UNCHANGED <<ledger, row, thread, failed, crashes, overlapped>>

Crash ==
  /\ crashes < MaxCrashes /\ \E t \in Tasks : ~At(t, "idle")
  /\ crashes' = crashes + 1
  /\ thread' = [t \in Tasks |-> Idle]
  /\ UNCHANGED <<ledger, row, age, failed, overlapped>>

Step(t) ==
  \/ SetTicker(t) \/ CreateBill(t) \/ UndoBuy(t)
  \/ \E b \in Bills : PostSell(t, b) \/ SkipUnposted(t, b)
  \/ MarkMatured(t)
  \/ Edit(t) \/ CorrectSell(t)
  \/ DeleteBuy(t) \/ DeleteSell(t) \/ DeleteRow(t)

Next ==
  \/ \E t \in Requests, b \in Bills :
       \/ \E face \in Faces : AddBuy(t, b, face) \/ StartEdit(t, b, face)
       \/ StartDelete(t, b)
  \/ \E t \in Sweeps : ReadDue(t)
  \/ \E t \in Tasks : Step(t)
  \/ \E b \in Bills : NextDay(b)
  \/ Crash

Spec == Init /\ [][Next]_vars

\* Tasks run on, and the sweep is a daily job; nobody has to buy, edit or delete.
FairSpec ==
  /\ Spec
  /\ \A t \in Tasks : WF_vars(Step(t))
  /\ \A t \in Sweeps : WF_vars(ReadDue(t))

-----------------------------------------------------------------------------
InHand(b) == \E t \in Tasks : b \in thread[t].todo
Legs(b) == {i \in DOMAIN ledger : ledger[i].live /\ ledger[i].bill = b}

\* As long as operations came one after the other and none broke off where the code has
\* nothing to take back: while none is at a bill, its live ledger rows are the ones its row
\* names, with a ticker, and the payout is its face value (buy_treasury_bill,
\* sweep_matured_bills, confirm_ytm, delete_treasury_bill).
InTurn ==
  /\ ~overlapped /\ crashes = 0
  /\ failed \intersect {"undo", "mark", "correct", "buy", "sell", "row"} = {}
Reconciled == \A b \in Bills : InTurn /\ ~InHand(b) =>
  LET legs == Legs(b) IN
  /\ ~Exists(b) => legs = {}
  /\ row[b].status = "Open" => legs = {row[b].buy}
  /\ row[b].status = "Matured" => (legs = {row[b].buy, row[b].sell} /\ ledger[row[b].sell].leg = "Sell"
                                   /\ ledger[row[b].sell].amount = row[b].face)
  /\ \A i \in legs : ledger[i].ticker

\* A bill matures once: whatever sweeps, edits and failures overlap, the payout its row
\* names is never replaced by another (mark_treasury_bill_matured).
MaturityIsFinal ==
  [][\A b \in Bills : row[b].status = "Matured" /\ row'[b].status # "deleted" =>
       row'[b].status = "Matured" /\ row'[b].sell = row[b].sell]_vars

\* A bill whose row says Matured was paid out, unless it is being deleted, or a deletion
\* broke off after its Sell was gone (sweep_matured_bills posts first, marks afterwards).
MaturedIsPaid == \A b \in Bills :
  \/ row[b].status # "Matured" \/ "row" \in failed \/ crashes > 0
  \/ row[b].sell \in Legs(b) /\ ledger[row[b].sell].leg = "Sell"
  \/ \E t \in Tasks : b \in thread[t].todo /\ thread[t].pc \in {"buy", "sell", "row"}

\* A bill that is due is closed, on its day or any later one (get_open_treasury_bills_due).
DuePaid == \A b \in Bills : (row[b].status = "Open" /\ age[b] >= 1) ~> row[b].status # "Open"

\* A bill is paid out at most once (sweep_matured_bills).
PaidOutOnce == \A b \in Bills : Cardinality({i \in Legs(b) : ledger[i].leg = "Sell"}) <= 1

\* The posted payout of a matured bill is its face value (confirm_ytm).
PayoutIsFace == \A b \in Bills :
  row[b].status = "Matured" /\ ~InHand(b) => ledger[row[b].sell].amount = row[b].face

\* A deleted bill leaves no transaction (delete_treasury_bill).
DeletedLeavesNothing == \A b \in Bills : row[b].status = "deleted" /\ ~InHand(b) => Legs(b) = {}

=============================================================================
