------------------------------- MODULE Returns -------------------------------
(***************************************************************************)
(* Customer returns (backend/src/modules/returns) and, with them, the whole *)
(* life of stock and documents in one branch: Inventory, Sales and Returns  *)
(* composed over the shared stock, receivables and ledger.                  *)
(*                                                                         *)
(* A return is drafted against a posted sale and posted once.  The code     *)
(* sums the lines of the posted returns of a sale whenever it needs to know *)
(* what came back; posted returns never change, so the sums are kept as     *)
(* running totals here.  The return window and its override, which only add *)
(* a permission to the request, are left out.                               *)
(***************************************************************************)
EXTENDS Sales

CONSTANTS Returns,  \* return documents
          NoSale    \* the sale of a return not yet drafted

ASSUME NoSaleAssumption == NoSale \notin Sales

VARIABLES ret,       \* returns: status, sale and claimed quantities
          returned,  \* per sale and item: quantity on posted returns
          refunded,  \* per sale and item: refund on posted returns
          paidOut,   \* per sale: the refunds paid, the refunds table
          faulted    \* returns whose posting the database once refused

returnVars == <<ret, returned, refunded, paidOut, faulted>>
vars == <<stockVars, saleVars, returnVars>>

ReturnTypeOK ==
  /\ ret \in [Returns -> [status: {"none", "draft", "posted"},
                          sale: Sales \cup {NoSale}, qty: [Items -> Nat]]]
  /\ returned \in [Sales -> [Items -> Nat]]
  /\ refunded \in [Sales -> [Items -> Nat]]
  /\ paidOut \in [Sales -> Nat]
  /\ faulted \subseteq Returns

ReturnInit ==
  /\ ret = [r \in Returns |-> [status |-> "none", sale |-> NoSale, qty |-> NoLines]]
  /\ returned = [s \in Sales |-> NoLines]
  /\ refunded = [s \in Sales |-> NoLines]
  /\ paidOut = [s \in Sales |-> 0]
  /\ faulted = {}

-----------------------------------------------------------------------------
Returnable(s) == sale[s].status \in {"posted", "partially_returned"}

\* The claims a return may make on a sale: unit lines only while the unit is
\* with the customer, no line beyond what is left of it.
Claimable(s, qty) ==
  /\ LinesOf(qty) # {}
  /\ \A i \in LinesOf(qty) : returned[s][i] + qty[i] <= sale[s].qty[i]
  /\ \A u \in Units : qty[u] > 0 => unit[u].state = "sold"

CreateReturnDraft(r, s, units, q) ==
  /\ ret[r].status = "none"
  /\ Returnable(s)
  /\ Claimable(s, Cart(units, q))
  /\ ret' = [ret EXCEPT ![r] = [status |-> "draft", sale |-> s, qty |-> Cart(units, q)]]
  /\ UNCHANGED <<returned, refunded, paidOut, faulted>>
  /\ UNCHANGED stockVars /\ UNCHANGED saleVars

\* Fault: every return rounds on its own.
SeparateRefund(lineTotal, soldQty, before, thisQty) ==
  (lineTotal * thisQty) \div soldQty

\* proportionalRefundMinor: the step of the floored cumulative refund.
ProportionalRefund(lineTotal, soldQty, before, thisQty) ==
  (lineTotal * (before + thisQty)) \div soldQty - (lineTotal * before) \div soldQty

LineRefunds(s, qty) ==
  [i \in Items |->
     IF qty[i] = 0 THEN 0
     ELSE ProportionalRefund(sale[s].total[i], sale[s].qty[i], returned[s][i], qty[i])]

\* The part of a refund that pays off the sale's open receivable.
ReceivableCredit(s, refund) ==
  IF receivable[s].status \in {"open", "partially_paid"}
    THEN IF refund < receivable[s].balance THEN refund ELSE receivable[s].balance
    ELSE 0

CreditedReceivable(rec, credit) ==
  IF credit = 0 THEN rec
  ELSE [rec EXCEPT !.credited = @ + credit,
                   !.balance = @ - credit,
                   !.status = IF rec.balance - credit <= 0 THEN "paid" ELSE "partially_paid"]

\* receivables_balance_identity_check and receivables_status_shape_check.
ReceivableChecks(rec) ==
  /\ rec.balance = rec.amount - rec.paid
  /\ rec.status = "open" => rec.paid = 0 /\ rec.balance = rec.amount
  /\ rec.status = "partially_paid" => 0 < rec.paid /\ rec.paid < rec.amount
  /\ rec.status = "paid" => rec.paid = rec.amount /\ rec.balance = 0

\* Fault: a line counts as returned with its first piece.
NextSaleStatusEarly(s, after) ==
  IF \A i \in LinesOf(sale[s].qty) : after[i] > 0
    THEN "returned" ELSE "partially_returned"

NextSaleStatus(s, after) ==
  IF \A i \in LinesOf(sale[s].qty) : after[i] >= sale[s].qty[i]
    THEN "returned" ELSE "partially_returned"

\* What must hold, under the locks, before anything is written.
Postable(r) ==
  /\ ret[r].status = "draft"
  /\ Returnable(ret[r].sale)
  /\ Claimable(ret[r].sale, ret[r].qty)

RestockGoods(l, q) ==
  IF q = 0 THEN UNCHANGED <<batch, batchReplay>>
  ELSE /\ batch' = [batch EXCEPT ![l].onHand = @ + q]
       /\ batchReplay' = [batchReplay EXCEPT ![l] = AfterBatchMove(@, "sale_return", q)]

\* One transaction: restock, settle against the receivable and then in cash,
\* reverse the ledger, move the sale's status and freeze the return.
PostReturn(r) ==
  LET s       == ret[r].sale
      qty     == ret[r].qty
      refunds == LineRefunds(s, qty)
      refund  == Total(refunds)
      credit  == ReceivableCredit(s, refund)
      after   == [i \in Items |-> returned[s][i] + qty[i]]
      back    == {u \in Units : qty[u] > 0}
  IN  /\ Postable(r)
      /\ ReceivableChecks(CreditedReceivable(receivable[s], credit))
      /\ unit' = [u \in Units |->
                    IF u \in back THEN [unit[u] EXCEPT !.state = "returned_inspection"]
                    ELSE unit[u]]
      /\ unitReplay' = [u \in Units |->
                    IF u \in back THEN AfterUnitMove(unitReplay[u], unit[u].loc, "sale_return")
                    ELSE unitReplay[u]]
      /\ RestockGoods(sale[s].loc, qty[Goods])
      /\ Post(-(refund - credit), -credit, -refund, -CostOf(qty))
      /\ receivable' = [receivable EXCEPT ![s] = CreditedReceivable(@, credit)]
      /\ sale' = [sale EXCEPT ![s].status = NextSaleStatus(s, after)]
      /\ ret' = [ret EXCEPT ![r].status = "posted"]
      /\ returned' = [returned EXCEPT ![s] = after]
      /\ refunded' = [refunded EXCEPT ![s] = [i \in Items |-> @[i] + refunds[i]]]
      /\ paidOut' = [paidOut EXCEPT ![s] = @ + (refund - credit)]
      /\ UNCHANGED <<active, faulted>>

\* The receivable update violates a CHECK constraint: the transaction rolls
\* back, and the catch block passes the error on.
PostReturnRefused(r) ==
  LET s      == ret[r].sale
      credit == ReceivableCredit(s, Total(LineRefunds(s, ret[r].qty)))
  IN  /\ Postable(r)
      /\ ~ReceivableChecks(CreditedReceivable(receivable[s], credit))
      /\ faulted' = faulted \cup {r}
      /\ UNCHANGED <<ret, returned, refunded, paidOut>>
      /\ UNCHANGED stockVars /\ UNCHANGED saleVars

-----------------------------------------------------------------------------
Init == StockInit /\ SaleInit /\ ReturnInit

ReturnStep ==
  \E r \in Returns :
    \/ \E s \in Sales, units \in SUBSET Units, q \in LineQuantities \cup {0} :
         CreateReturnDraft(r, s, units, q)
    \/ PostReturn(r)
    \/ PostReturnRefused(r)

Next ==
  \/ StockStep /\ UNCHANGED returnVars
  \/ SaleStep /\ UNCHANGED returnVars
  \/ ReturnStep

Spec == Init /\ [][Next]_vars

-----------------------------------------------------------------------------
(* Properties.                                                              *)

\* The type invariant of the composed system: no stock, line total, refund,
\* payment or open balance is below zero.
TypeOK == StockTypeOK /\ SaleTypeOK /\ ReturnTypeOK

\* A unit that is marked sold is with exactly one customer: one posted sale
\* has a line for it that has not come back.  Posting, returning and the
\* staff's manual transitions all touch the state.
Owners(u) == {s \in Sold : returned[s][u] < sale[s].qty[u]}

SoldUnitHasOneOwner ==
  \A u \in Units : unit[u].state = "sold" =>
    \E s \in Sales : Owners(u) = {s}

\* However a sale comes back, in pieces over several returns, no line refunds
\* more than the customer paid for it, and a line that is all back has
\* refunded it to the last minor unit, discount share and rounding included.
RefundsTelescope ==
  \A s \in Sold : \A i \in LinesOf(sale[s].qty) :
    /\ 0 <= refunded[s][i] /\ refunded[s][i] <= sale[s].total[i]
    /\ returned[s][i] = sale[s].qty[i] => refunded[s][i] = sale[s].total[i]

\* The status of a sale says how much of it came back: nothing, some, or all;
\* and no line comes back more often than it was sold.
SaleStatusTellsReturns ==
  \A s \in Sales :
    LET lines == LinesOf(sale[s].qty)
        allBack == \A i \in lines : returned[s][i] = sale[s].qty[i]
        noneBack == \A i \in Items : returned[s][i] = 0
    IN  /\ \A i \in Items : returned[s][i] <= sale[s].qty[i]
        /\ s \in Sold => /\ (sale[s].status = "returned") = allBack
                         /\ (sale[s].status = "posted") = noneBack
        /\ s \notin Sold => noneBack

\* The ledger is what the documents say it is: receipts less refunds in CASH,
\* the open balances in AR, kept revenue in SALES, and in COGS and INVENTORY
\* the cost of what is still with customers.
SumSold(f) == SumOver(f, Sold)

BooksMatchDocuments ==
  LET kept(s)  == [i \in Items |-> sale[s].qty[i] - returned[s][i]]
      received == [s \in Sales |->
                     Total(sale[s].total) - receivable[s].amount - paidOut[s]]
      owed     == [s \in Sales |-> receivable[s].balance]
      revenue  == [s \in Sales |-> Total(sale[s].total) - Total(refunded[s])]
      costOut  == [s \in Sales |-> CostOf(kept(s))]
  IN  /\ books["CASH"] = SumSold(received)
      /\ books["AR"] = SumSold(owed)
      /\ books["SALES"] = -SumSold(revenue)
      /\ books["COGS"] = SumSold(costOut)
      /\ books["INVENTORY"] = -SumSold(costOut)

\* Documents, statuses, ledgers and receivables together trade as Trade says:
\* a sale hands over only what was free, for its list price less the discount,
\* in cash or within the credit limit, and a return gives back exactly the
\* part of the price it takes off, first from the debt.
SoldLines(s) == IF s \in Sold THEN sale[s].qty ELSE NoLines

Deals   == [s \in Sales |-> [qty   |-> SoldLines(s),
                             total |-> IF s \in Sold THEN sale[s].total ELSE NoLines]]
InHands == [s \in Sales |-> [i \in Items |-> SoldLines(s)[i] - returned[s][i]]]
Free    == [l \in Locations |-> Available(l)]
Debts   == [s \in Sales |-> receivable[s].balance]

Trade == INSTANCE Trade WITH
  deal <- Deals, hold <- InHands, stock <- Free, cash <- books["CASH"], owes <- Debts

TradesFairly == Trade!Spec

\* "A sold IMEI cannot be sold again unless a completed return restores it":
\* a unit that came back on a posted return and passed inspection is saleable.
ReturnedUnitsCanBeSoldAgain ==
  \A u \in Units :
    unit[u].state = "available" /\ (\E s \in Sales : returned[s][u] > 0)
      => ~SaleBarred(u)

\* "Return credit reduces debt without pretending the customer paid cash": the
\* database accepts the settlement of every return.
SettlementsAccepted == faulted = {}
=============================================================================
