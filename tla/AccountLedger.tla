---------------------------- MODULE AccountLedger --------------------------
(* The books of one account, computed from its transactions                *)
(* (accounts_engine.py): the holding of a ticker at average cost with what *)
(* its sales realized, the cash balance, and the money put in.  Amounts    *)
(* are in base currency; a loop over the transactions is the function of   *)
(* what it has computed after each of them.                                *)
EXTENDS Integers, Sequences

CONSTANTS
  Quantities, Prices, Fees,
  Earnings,   \* what dividends, interest and fees come to
  Movements,  \* what is paid in (or out, when negative)
  MaxRows     \* bound: transactions

VARIABLE rows   \* account_transactions in the order of dates and numbers

TradeTypes == {"Buy", "Sell"}
EarningTypes == {"Dividend", "Interest", "Fee"}
ContributionTypes == {"Cash", "Transfer"}
Rows(types, quantities, prices) ==
  [type : types, qty : quantities, price : prices, fee : Fees, cash : BOOLEAN]
Transactions ==
  Rows(TradeTypes, Quantities, Prices) \union Rows(EarningTypes, {1}, Earnings)
    \union Rows(ContributionTypes, {1}, Movements)

Init == rows = <<>>
\* add_transaction; every list of rows is reached so.
Add(r) == Len(rows) < MaxRows /\ rows' = Append(rows, r)
Next == \E r \in Transactions : Add(r)
Spec == Init /\ [][Next]_rows

-----------------------------------------------------------------------------
Sum(q) == LET upto[n \in 0..Len(q)] == IF n = 0 THEN 0 ELSE upto[n - 1] + q[n] IN upto[Len(q)]

\* _cash_delta.
Gross(r) == r.qty * r.price
CashDelta(r) == IF r.type \in {"Buy", "Fee"} THEN -(Gross(r) + r.fee) ELSE Gross(r) - r.fee

\* cash_balance and net_contributions.
Cash(r) == IF r.cash THEN CashDelta(r) ELSE 0
Contribution(r) == IF r.cash /\ r.type \in ContributionTypes THEN CashDelta(r) ELSE 0
CashBalance(s) == Sum([i \in DOMAIN s |-> Cash(s[i])])
NetContributions(s) == Sum([i \in DOMAIN s |-> Contribution(s[i])])

\* _ledger_for_account, one ticker; the cost and what was realized are in parts of a unit.
Nothing == [shares |-> 0, cost |-> 0, realized |-> 0, parts |-> 1]
Buy(h, r) == [h EXCEPT !.shares = @ + r.qty, !.cost = @ + Gross(r) * h.parts]
\* No more than there is is sold, ...
Sold(h, r) == IF r.qty <= h.shares THEN r.qty ELSE h.shares
(* Variant: what is sold leaves at the price it is sold for. *)
AtItsPrice(h, r) == r.price * h.parts * h.shares
\* ... at the average cost, cost / shares.
AtCost(h, r) == h.cost
Sell(h, r) ==
  LET n == Sold(h, r)
  IN IF h.shares = 0 THEN h
     ELSE [shares |-> h.shares - n, cost |-> h.cost * h.shares - n * AtCost(h, r), parts |-> h.parts * h.shares,
           realized |-> h.realized * h.shares + n * (r.price * h.parts * h.shares - h.cost)]
Trade(h, r) == CASE r.type = "Buy" -> Buy(h, r) [] r.type = "Sell" -> Sell(h, r) [] OTHER -> h
Holdings(s) == LET after[n \in 0..Len(s)] == IF n = 0 THEN Nothing ELSE Trade(after[n - 1], s[n]) IN after
Holding(s) == Holdings(s)[Len(s)]

-----------------------------------------------------------------------------
(* Properties.                                                             *)

Earned(r) ==
  IF ~r.cash \/ r.type \notin EarningTypes THEN 0 ELSE IF r.type = "Fee" THEN -Gross(r) ELSE Gross(r)
FeePaid(r) == IF r.cash /\ r.type \notin ContributionTypes THEN r.fee ELSE 0
NotInCash(r) == IF r.cash \/ r.type \notin TradeTypes THEN 0 ELSE IF r.type = "Buy" THEN Gross(r) ELSE -Gross(r)
\* What a sale sold beyond the holding before it.
Excess(h, r) == IF r.type = "Sell" THEN (r.qty - Sold(h, r)) * r.price ELSE 0
Explained(s) ==
  NetContributions(s)
    + Sum([i \in DOMAIN s |-> Earned(s[i]) - FeePaid(s[i]) + NotInCash(s[i]) + Excess(Holdings(s)[i - 1], s[i])])

\* The two computations agree to the penny: cash, with what the holding cost and without
\* what sales realized, is the money put in and earned, less the fees, plus what was sold
\* beyond the holding and bought outside the cash (_cash_delta and _ledger_for_account).
BooksBalance ==
  LET h == Holding(rows) IN CashBalance(rows) * h.parts + h.cost - h.realized = Explained(rows) * h.parts

\* The average cost lies between the lowest and the highest price paid, a position that is
\* sold out costs nothing, and one cannot be short (_ledger_for_account).
Paid(s) == {s[i].price : i \in {j \in DOMAIN s : s[j].type = "Buy"}}
AverageIsAPrice ==
  LET h == Holding(rows)
  IN /\ h.shares >= 0
     /\ IF h.shares = 0 THEN h.cost = 0
        ELSE /\ \E p \in Paid(rows) : p * h.shares * h.parts <= h.cost
             /\ \E p \in Paid(rows) : h.cost <= p * h.shares * h.parts
=============================================================================
