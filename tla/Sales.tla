-------------------------------- MODULE Sales --------------------------------
(***************************************************************************)
(* Sale documents: backend/src/modules/sales.                               *)
(*                                                                         *)
(* A sale is drafted, edited, held, cancelled or posted.  Posting is one    *)
(* serializable transaction that moves the stock, settles the total in cash *)
(* and customer credit and writes a balanced ledger group; it is one step   *)
(* here, and SalePosting shows why that is justified.                       *)
(*                                                                         *)
(* A sale has at most one line per item: a serialized unit, or Goods, the   *)
(* quantity-tracked variant.  Unit prices and costs are fixed.  The lines   *)
(* of a unit follow the unit's location, so only Goods needs one.           *)
(* Cash, card, bank and wallet settle alike and are all called CASH.        *)
(***************************************************************************)
EXTENDS Inventory, FiniteSets, FiniteSetsExt, Sums

CONSTANTS Sales,          \* sale documents
          Goods,          \* the quantity-tracked item
          NoLocation,     \* the location of a sale without a Goods line
          Price, Cost,    \* per item
          LineQuantities, \* quantities a Goods line may carry
          Discounts,      \* discounts a draft may request
          CreditAmounts,  \* credit a settlement may contain
          CreditLimit     \* of the one customer who buys on credit

Items == Units \cup {Goods}

ASSUME GoodsAssumption == Goods \notin Units /\ NoLocation \notin Locations
ASSUME PriceAssumption == Price \in [Items -> Nat \ {0}] /\ Cost \in [Items -> Nat]
ASSUME FiniteAssumption == IsFiniteSet(Units) /\ IsFiniteSet(Sales)
ASSUME SaleAmountAssumption ==
  /\ LineQuantities \subseteq Nat \ {0}
  /\ Discounts \subseteq Nat
  /\ CreditAmounts \subseteq Nat
  /\ CreditLimit \in Nat

VARIABLES sale,         \* sales with their lines
          receivable,   \* receivables, by the sale they finance
          books         \* ledger: debits minus credits of every account

saleVars == <<sale, receivable, books>>

SaleStatuses ==
  {"none", "draft", "posted", "partially_returned", "returned", "cancelled"}
ReceivableStatuses == {"none", "open", "partially_paid", "paid"}
Accounts == {"CASH", "AR", "SALES", "COGS", "INVENTORY"}

\* Lines as functions of the item: 0 where the sale has no line.
NoLines == [i \in Items |-> 0]

SaleTypeOK ==
  /\ sale \in [Sales -> [status: SaleStatuses, held: BOOLEAN,
                         loc: Locations \cup {NoLocation},
                         qty: [Items -> Nat], total: [Items -> Nat]]]
  /\ receivable \in [Sales -> [amount: Nat, paid: Nat, credited: Nat,
                               balance: Nat, status: ReceivableStatuses]]
  /\ books \in [Accounts -> Int]

SaleInit ==
  /\ sale = [s \in Sales |-> [status |-> "none", held |-> FALSE,
                              loc |-> NoLocation,
                              qty |-> NoLines, total |-> NoLines]]
  /\ receivable = [s \in Sales |-> [amount |-> 0, paid |-> 0, credited |-> 0,
                                    balance |-> 0, status |-> "none"]]
  /\ books = [a \in Accounts |-> 0]

-----------------------------------------------------------------------------
Total(lines) == SumOver(lines, Items)

LinesOf(qty) == {i \in Items : qty[i] > 0}

CostOf(qty) == Total([i \in Items |-> Cost[i] * qty[i]])

\* The sales that were posted, whatever came back since.
Sold == {s \in Sales : sale[s].status \in {"posted", "partially_returned", "returned"}}

Outstanding ==
  SumOver([s \in Sales |-> receivable[s].balance],
          {s \in Sales : receivable[s].status \in {"open", "partially_paid"}})

\* Fault: the discount a rounding leaves over is given to no line.
AllocationsFloored(amount, weight) ==
  {[i \in Items |-> (amount * weight[i]) \div Total(weight)]}

\* allocateByIntegerWeights: every weight's floor share of the amount, and one
\* unit more for as many of the largest remainders as are left over.  Equal
\* remainders are served in line order, any of which a request may choose.
Allocations(amount, weight) ==
  LET sum  == Total(weight)
      Share(i) == (amount * weight[i]) \div sum
      Rest(i)  == (amount * weight[i]) % sum
      left == amount - Total([i \in Items |-> Share(i)])
  IN  { [i \in Items |-> Share(i) + IF i \in lucky THEN 1 ELSE 0] :
          lucky \in {T \in SUBSET LinesOf(weight) :
                       /\ Cardinality(T) = left
                       /\ \A i \in T, j \in LinesOf(weight) \ T : Rest(i) >= Rest(j)} }

\* calculate: the line totals a discount leaves.
LineTotals(qty, discount) ==
  LET subtotal == [i \in Items |-> Price[i] * qty[i]]
  IN  { [i \in Items |-> subtotal[i] - share[i]] :
          share \in Allocations(discount, subtotal) }

\* Fault: credit is booked as if it were cash.
PostCreditAsCash(cash, ar, revenue, cost) ==
  books' = [books EXCEPT !["CASH"] = @ + cash + ar,
                         !["SALES"] = @ - revenue,
                         !["COGS"] = @ + cost, !["INVENTORY"] = @ - cost]

\* The postings of one balanced ledger group, as net debits.
Post(cash, ar, revenue, cost) ==
  books' = [books EXCEPT !["CASH"] = @ + cash, !["AR"] = @ + ar,
                         !["SALES"] = @ - revenue,
                         !["COGS"] = @ + cost, !["INVENTORY"] = @ - cost]

-----------------------------------------------------------------------------
\* The lines of a cart: each item at most once.
Cart(units, q) ==
  [i \in Items |-> IF i = Goods THEN q ELSE IF i \in units THEN 1 ELSE 0]

\* What createDraft and replaceDraft accept: at least one line, every line at
\* an open location.  Stock need not be available yet.
WriteDraft(s, units, q, l, discount) ==
  LET qty == Cart(units, q)
  IN  /\ LinesOf(qty) # {}
      /\ (q > 0) = (l # NoLocation)
      /\ q > 0 => active[l]
      /\ \A u \in units : active[unit[u].loc]
      /\ discount <= Total([i \in Items |-> Price[i] * qty[i]])
      /\ \E total \in LineTotals(qty, discount) :
           sale' = [sale EXCEPT ![s] = [status |-> "draft", held |-> FALSE,
                                        loc |-> l, qty |-> qty, total |-> total]]
      /\ UNCHANGED <<receivable, books>> /\ UNCHANGED stockVars

CreateDraft(s, units, q, l, discount) ==
  /\ sale[s].status = "none"
  /\ WriteDraft(s, units, q, l, discount)

\* Replacing the cart also takes the sale off hold.
ReplaceDraft(s, units, q, l, discount) ==
  /\ sale[s].status = "draft"
  /\ WriteDraft(s, units, q, l, discount)

Hold(s) ==
  /\ sale[s].status = "draft"
  /\ sale' = [sale EXCEPT ![s].held = TRUE]
  /\ UNCHANGED <<receivable, books>> /\ UNCHANGED stockVars

Cancel(s) ==
  /\ sale[s].status = "draft"
  /\ sale' = [sale EXCEPT ![s].status = "cancelled", ![s].held = FALSE]
  /\ UNCHANGED <<receivable, books>> /\ UNCHANGED stockVars

\* Fault: only serialized units are checked.
UnitsAvailable(s) ==
  \A u \in Units : sale[s].qty[u] > 0 =>
    active[unit[u].loc] /\ unit[u].state = "available"

\* resolveRecordLines under the row locks, then assertPostAllowed.
StockAvailable(s) ==
  /\ \A u \in Units : sale[s].qty[u] > 0 =>
       active[unit[u].loc] /\ unit[u].state = "available"
  /\ sale[s].qty[Goods] > 0 =>
       active[sale[s].loc] /\ Available(sale[s].loc) >= sale[s].qty[Goods]

\* Fault: the index does not exist.
NotBarred(u) == FALSE

\* The partial unique index sale_lines_active_serialized_unit_uq: posting sets
\* unit_sale_active on a unit's line, nothing ever clears it, and no second
\* line of that unit can be posted.
SaleBarred(u) == \E s \in Sold : sale[s].qty[u] > 0

IssueGoods(l, q) ==
  IF q = 0 THEN UNCHANGED <<batch, batchReplay>>
  ELSE /\ batch' = [batch EXCEPT ![l].onHand = @ - q]
       /\ batchReplay' = [batchReplay EXCEPT ![l] = AfterBatchMove(@, "sale", q)]

PostSale(s, credit) ==
  LET line  == sale[s]
      total == Total(line.total)
      sold  == {u \in Units : line.qty[u] > 0}
  IN  /\ line.status = "draft"
      /\ StockAvailable(s)
      /\ \A u \in sold : ~SaleBarred(u)
      /\ credit <= total
      /\ credit > 0 => Outstanding + credit <= CreditLimit
      /\ unit' = [u \in Units |->
                    IF u \in sold THEN [unit[u] EXCEPT !.state = "sold"] ELSE unit[u]]
      /\ unitReplay' = [u \in Units |->
                    IF u \in sold THEN AfterUnitMove(unitReplay[u], unit[u].loc, "sale")
                    ELSE unitReplay[u]]
      /\ IssueGoods(line.loc, line.qty[Goods])
      /\ receivable' =
           IF credit = 0 THEN receivable
           ELSE [receivable EXCEPT ![s] = [amount |-> credit, paid |-> 0, credited |-> 0,
                                           balance |-> credit, status |-> "open"]]
      /\ Post(total - credit, credit, total, CostOf(line.qty))
      /\ sale' = [sale EXCEPT ![s].status = "posted", ![s].held = FALSE]
      /\ UNCHANGED active

-----------------------------------------------------------------------------
\* An open draft's unit lines follow their unit.  The foreign key's ON UPDATE
\* CASCADE would also rewrite the lines of closed sales, which the trigger
\* guard_sale_line_draft forbids: such a unit cannot be transferred.
MayMove(u) == \A s \in Sales : sale[s].qty[u] > 0 => sale[s].status = "draft"

StockStep ==
  /\ StockNext
  /\ \A u \in Units : unit'[u].loc # unit[u].loc => MayMove(u)
  /\ UNCHANGED saleVars

SaleStep ==
  \E s \in Sales :
    \/ \E units \in SUBSET Units, q \in LineQuantities \cup {0},
          l \in Locations \cup {NoLocation}, discount \in Discounts :
         \/ CreateDraft(s, units, q, l, discount)
         \/ ReplaceDraft(s, units, q, l, discount)
    \/ Hold(s)
    \/ Cancel(s)
    \/ \E credit \in CreditAmounts : PostSale(s, credit)
=============================================================================
