------------------------------ MODULE ShopProofs ------------------------------
(***************************************************************************)
(* Proofs about the shop as a whole, Returns over Sales over Inventory: the *)
(* stock invariants survive sales and returns, every sold unit is with      *)
(* exactly one customer, refunds are exact, statuses tell what came back,   *)
(* the books are what the documents say, and the whole implements Trade.    *)
(* They hold for any units, locations, sales, returns, prices, quantities,  *)
(* discounts and credits.                                                   *)
(***************************************************************************)
EXTENDS Returns, InventoryProofs, SumProofs

\* Sales as rows.  What a line total may be is of no importance here.
SaleRows ==
  /\ DOMAIN sale = Sales
  /\ \A s \in Sales :
       /\ DOMAIN sale[s] = {"status", "held", "loc", "qty", "total"}
       /\ sale[s].qty \in [Items -> Nat]
       /\ sale[s].qty[Goods] > 0 => sale[s].loc \in Locations

ReturnRows ==
  /\ ret \in [Returns -> [status: {"none", "draft", "posted"},
                          sale: Sales \cup {NoSale}, qty: [Items -> Nat]]]
  /\ \A r \in Returns : ret[r].status = "draft" => ret[r].sale \in Sales
  /\ returned \in [Sales -> [Items -> Nat]]

\* Nothing comes back of a sale that was not posted.
OnlySoldReturns ==
  \A s \in Sales \ Sold, i \in Items : returned[s][i] = 0

\* No unit was ever sold twice.
OneSalePerUnit ==
  \A s, t \in Sold, u \in Units :
    sale[s].qty[u] > 0 /\ sale[t].qty[u] > 0 => s = t

\* A sold unit is with the customer of some posted sale.
SoldUnitHasOwner ==
  \A u \in Units : unit[u].state = "sold" =>
    \E s \in Sold : returned[s][u] < sale[s].qty[u]

DocumentInv ==
  /\ SaleRows
  /\ ReturnRows
  /\ OnlySoldReturns
  /\ OneSalePerUnit
  /\ SoldUnitHasOwner

\* The inductive invariant: that of the stock, and what documents and units
\* say of each other.
ShopInv == StockInv /\ DocumentInv
-----------------------------------------------------------------------------
\* Sold units and their owners as functions of what a step leaves alone.
LEMMA DocumentsKept ==
  ASSUME DocumentInv, SaleRows', ReturnRows', Sold' = Sold, returned' = returned,
         \A s \in Sold : sale'[s].qty = sale[s].qty,
         \A u \in Units : unit'[u].state = "sold" => unit[u].state = "sold"
  PROVE  DocumentInv'
<1>1. OnlySoldReturns'
  BY DEF DocumentInv, OnlySoldReturns
<1>2. OneSalePerUnit'
  BY DEF DocumentInv, OneSalePerUnit
<1>3. SoldUnitHasOwner'
  BY DEF DocumentInv, SoldUnitHasOwner
<1> QED
  BY <1>1, <1>2, <1>3 DEF DocumentInv

\* A document operation that leaves the stock alone keeps its invariant.
LEMMA StockKept ==
  ASSUME StockInv, UNCHANGED stockVars
  PROVE  StockInv' /\ unit' = unit
  BY DEF stockVars, StockInv, StockTypeOK, UnitLedgerReplays,
         BatchLedgerReplays, ReservedIsOnHand

\* A cart's quantities.
LEMMA CartQuantities ==
  ASSUME NEW units \in SUBSET Units, NEW q \in Nat
  PROVE  /\ Cart(units, q) \in [Items -> Nat]
         /\ Cart(units, q)[Goods] = q
  BY GoodsAssumption DEF Cart, Items

\* The quantities of a Goods line are natural numbers.
LEMMA LineQuantitiesType == LineQuantities \cup {0} \subseteq Nat
  BY SaleAmountAssumption

\* The shop opens with the received units and no documents.
LEMMA ShopInitInv == Init => ShopInv
<1> SUFFICES ASSUME Init PROVE ShopInv
  OBVIOUS
<1>1. StockInv
  BY StockInitInv DEF Init
<1>2. NoLines \in [Items -> Nat] /\ \A i \in Items : NoLines[i] = 0
  BY DEF NoLines
<1>3. SaleRows
  BY <1>2 DEF Init, SaleInit, SaleRows, Items
<1>4. ReturnRows
  BY <1>2 DEF Init, ReturnInit, ReturnRows
<1>5. Sold = {}
  BY DEF Init, SaleInit, Sold
<1>6. OnlySoldReturns /\ OneSalePerUnit
  BY <1>2, <1>5 DEF Init, ReturnInit, OnlySoldReturns, OneSalePerUnit
<1>7. SoldUnitHasOwner
  BY DEF Init, StockInit, SoldUnitHasOwner
<1> QED
  BY <1>1, <1>3, <1>4, <1>6, <1>7 DEF ShopInv, DocumentInv

-----------------------------------------------------------------------------
\* No manual operation marks a unit sold (assertTransitionAllowed).
LEMMA NoManualSale ==
  ASSUME StockInv, StockNext, NEW u \in Units, unit'[u].state = "sold"
  PROVE  unit[u].state = "sold"
<1>1. unit \in [Units -> [state: SERIALIZED_STOCK_STATES, loc: Locations]]
  BY DEF StockInv, StockTypeOK
<1>2. ASSUME NEW v \in Units, NEW s \in SERIALIZED_STOCK_STATES,
             TransitionSerializedUnit(v, s)
      PROVE  unit[u].state = "sold"
  <2>1. unit' = [unit EXCEPT ![v].state = s] /\ s # "sold"
    BY <1>2 DEF TransitionSerializedUnit, TransitionAllowed
  <2> QED
    BY <1>1, <2>1
<1>3. ASSUME NEW v \in Units, NEW l \in Locations, TransferSerializedUnit(v, l)
      PROVE  unit[u].state = "sold"
  <2>1. unit' = [unit EXCEPT ![v].loc = l]
    BY <1>3 DEF TransferSerializedUnit
  <2> QED
    BY <1>1, <2>1
<1>4. \/ \E v \in Units, s \in SERIALIZED_STOCK_STATES :
            TransitionSerializedUnit(v, s)
      \/ \E v \in Units, l \in Locations : TransferSerializedUnit(v, l)
      \/ UNCHANGED unit
  BY DEF StockNext, AdjustIn, AdjustOut, ReserveStock, ReleaseStock,
         TransferStock, SetStockLocationActive
<1> QED
  BY <1>2, <1>3, <1>4

\* Staff work on the stock (StockStep): documents stay as they are.
LEMMA StockStepShop ==
  ASSUME ShopInv, StockStep, UNCHANGED returnVars
  PROVE  ShopInv'
<1>1. StockInv'
  BY StockStepInv DEF ShopInv, StockStep
<1>2. UNCHANGED <<sale, ret, returned>>
  BY DEF StockStep, saleVars, returnVars
<1>3. SaleRows' /\ ReturnRows' /\ Sold' = Sold
  BY <1>2 DEF ShopInv, DocumentInv, SaleRows, ReturnRows, Sold
<1>4. \A u \in Units : unit'[u].state = "sold" => unit[u].state = "sold"
  BY NoManualSale DEF ShopInv, StockStep
<1>5. DocumentInv'
  BY <1>2, <1>3, <1>4, DocumentsKept DEF ShopInv
<1> QED
  BY <1>1, <1>5 DEF ShopInv

-----------------------------------------------------------------------------
\* Writing a sale that is not posted.
LEMMA DraftInv ==
  ASSUME ShopInv, UNCHANGED stockVars, UNCHANGED returnVars,
         NEW s \in Sales, s \notin Sold,
         NEW row, sale' = [sale EXCEPT ![s] = row],
         row.status \in {"draft", "cancelled"},
         DOMAIN row = {"status", "held", "loc", "qty", "total"},
         row.qty \in [Items -> Nat],
         row.qty[Goods] > 0 => row.loc \in Locations
  PROVE  ShopInv'
<1>1. StockInv' /\ unit' = unit
  BY StockKept DEF ShopInv
<1>2. DOMAIN sale' = Sales /\ \A t \in Sales : sale'[t] = IF t = s THEN row ELSE sale[t]
  BY DEF ShopInv, DocumentInv, SaleRows
<1>3. SaleRows'
  BY <1>2 DEF ShopInv, DocumentInv, SaleRows
<1>4. Sold' = Sold /\ \A t \in Sold : sale'[t].qty = sale[t].qty
  BY <1>2 DEF Sold
<1>5. ReturnRows' /\ returned' = returned
  BY DEF ShopInv, DocumentInv, ReturnRows, returnVars
<1>6. DocumentInv'
  BY <1>1, <1>3, <1>4, <1>5, DocumentsKept DEF ShopInv
<1> QED
  BY <1>1, <1>6 DEF ShopInv

\* createDraft and replaceDraft write a draft, never a sold sale.
LEMMA WriteDraftInv ==
  ASSUME ShopInv, UNCHANGED returnVars, NEW s \in Sales, s \notin Sold,
         NEW units \in SUBSET Units, NEW q \in LineQuantities \cup {0},
         NEW l \in Locations \cup {NoLocation}, NEW discount,
         WriteDraft(s, units, q, l, discount)
  PROVE  ShopInv'
<1>1. PICK total : sale' = [sale EXCEPT ![s] =
        [status |-> "draft", held |-> FALSE, loc |-> l,
         qty |-> Cart(units, q), total |-> total]]
  BY DEF WriteDraft
<1>2. UNCHANGED stockVars /\ (q > 0) = (l # NoLocation)
  BY DEF WriteDraft
<1>3. /\ Cart(units, q) \in [Items -> Nat]
      /\ Cart(units, q)[Goods] > 0 => l \in Locations
  BY <1>2, CartQuantities, LineQuantitiesType
<1> DEFINE row == [status |-> "draft", held |-> FALSE, loc |-> l,
                   qty |-> Cart(units, q), total |-> total]
<1>4. /\ row.status \in {"draft", "cancelled"}
      /\ DOMAIN row = {"status", "held", "loc", "qty", "total"}
      /\ row.qty = Cart(units, q) /\ row.loc = l
      /\ sale' = [sale EXCEPT ![s] = row]
  BY <1>1
<1> HIDE DEF row
<1> QED
  BY <1>2, <1>3, <1>4, DraftInv

\* hold and cancel change a draft's status only.
LEMMA HoldInv ==
  ASSUME ShopInv, UNCHANGED returnVars, NEW s \in Sales, Hold(s) \/ Cancel(s)
  PROVE  ShopInv'
<1>1. s \notin Sold
  BY DEF Hold, Cancel, Sold
<1>2. UNCHANGED stockVars
  BY DEF Hold, Cancel
<1>3. PICK row : row \in {[sale[s] EXCEPT !.held = TRUE],
                          [sale[s] EXCEPT !.status = "cancelled", !.held = FALSE]}
                 /\ sale' = [sale EXCEPT ![s] = row]
  BY DEF Hold, Cancel
<1>4. DOMAIN sale[s] = {"status", "held", "loc", "qty", "total"}
  BY DEF ShopInv, DocumentInv, SaleRows
<1>5. sale[s].status = "draft"
  BY DEF Hold, Cancel
<1>6. /\ row.status \in {"draft", "cancelled"}
      /\ DOMAIN row = {"status", "held", "loc", "qty", "total"}
      /\ row.qty = sale[s].qty /\ row.loc = sale[s].loc
  BY <1>3, <1>4, <1>5
<1>7. /\ row.qty \in [Items -> Nat]
      /\ row.qty[Goods] > 0 => row.loc \in Locations
  BY <1>6 DEF ShopInv, DocumentInv, SaleRows
<1> QED
  BY <1>1, <1>2, <1>3, <1>6, <1>7, DraftInv

-----------------------------------------------------------------------------
\* Several units change their state in one transaction, each with a movement
\* that makes up for the change of its on-hand count.
LEMMA UnitsMoved ==
  ASSUME StockInv, NEW moved \in SUBSET Units,
         NEW to \in SERIALIZED_STOCK_STATES, NEW type,
         \A u \in moved :
           MOVEMENT_ON_HAND_SIGN[type] = OnHand(to) - OnHand(unit[u].state),
         unit' = [u \in Units |->
                    IF u \in moved THEN [unit[u] EXCEPT !.state = to] ELSE unit[u]],
         unitReplay' = [u \in Units |->
                    IF u \in moved THEN AfterUnitMove(unitReplay[u], unit[u].loc, type)
                    ELSE unitReplay[u]]
  PROVE  /\ unit' \in [Units -> [state: SERIALIZED_STOCK_STATES, loc: Locations]]
         /\ unitReplay' \in [Units -> [Locations -> Int]]
         /\ UnitLedgerReplays'
<1>1. \A u \in Units :
        /\ unit[u] \in [state: SERIALIZED_STOCK_STATES, loc: Locations]
        /\ unitReplay[u] \in [Locations -> Int]
  BY DEF StockInv, StockTypeOK
<1>2. unit' \in [Units -> [state: SERIALIZED_STOCK_STATES, loc: Locations]]
  BY <1>1
<1>3. ASSUME NEW u \in Units
      PROVE  /\ unitReplay'[u] \in [Locations -> Int]
             /\ \A k \in Locations : unitReplay'[u][k] =
                  IF k = unit'[u].loc THEN OnHand(unit'[u].state) ELSE 0
  <2>1. \A k \in Locations : unitReplay[u][k] =
          IF k = unit[u].loc THEN OnHand(unit[u].state) ELSE 0
    BY DEF StockInv, UnitLedgerReplays
  <2>2. CASE u \notin moved
    <3>1. unit'[u] = unit[u] /\ unitReplay'[u] = unitReplay[u]
      BY <2>2
    <3> QED
      BY <1>1, <2>1, <3>1
  <2>3. CASE u \in moved
    <3>1. unit'[u].loc = unit[u].loc /\ unit'[u].state = to /\ unit[u].loc \in Locations
      BY <1>1, <2>3
    <3>2. OnHand(to) \in Int /\ OnHand(unit[u].state) \in Int
      BY OnHandType
    <3>3. unitReplay'[u] =
            [unitReplay[u] EXCEPT ![unit[u].loc] = @ + MOVEMENT_ON_HAND_SIGN[type]]
      BY <2>3 DEF AfterUnitMove
    <3>4. MOVEMENT_ON_HAND_SIGN[type] = OnHand(to) - OnHand(unit[u].state)
      BY <2>3
    <3>5. unitReplay'[u] =
            [unitReplay[u] EXCEPT ![unit[u].loc] = OnHand(to)]
      BY <1>1, <2>1, <3>1, <3>2, <3>3, <3>4
    <3> QED
      BY <1>1, <2>1, <3>1, <3>2, <3>5
  <2> QED
    BY <2>2, <2>3
<1>4. unitReplay' \in [Units -> [Locations -> Int]]
  BY <1>3
<1>5. UnitLedgerReplays'
  BY <1>3 DEF UnitLedgerReplays
<1> QED
  BY <1>2, <1>4, <1>5

\* The two document operations on the batch.
LEMMA GoodsIssued ==
  ASSUME StockInv, NEW l, NEW q \in Nat,
         q > 0 => l \in Locations /\ Available(l) >= q,
         IssueGoods(l, q)
  PROVE  /\ batch' \in [Locations -> [onHand: Nat, reserved: Nat]]
         /\ BatchLedgerReplays'
         /\ ReservedIsOnHand'
<1>1. CASE q = 0
  BY <1>1, BatchRows DEF IssueGoods, BatchLedgerReplays, ReservedIsOnHand
<1>2. CASE q > 0
  <2>1. AfterBatchMove(batch[l], "sale", q)
          = [onHand |-> batch[l].onHand - q, reserved |-> batch[l].reserved]
    BY <1>2, BatchRows, Signs, ReservedSigns DEF AfterBatchMove
  <2>2. /\ batchReplay' = [batch EXCEPT ![l] =
             [onHand |-> batch[l].onHand - q, reserved |-> batch[l].reserved]]
        /\ batch' = [batch EXCEPT ![l].onHand = @ - q]
    BY <1>2, <2>1, BatchRows DEF IssueGoods
  <2>3. batch[l].onHand - batch[l].reserved >= q
    BY <1>2 DEF Available
  <2>4. batch' = [batch EXCEPT ![l] =
             [onHand |-> batch[l].onHand - q, reserved |-> batch[l].reserved]]
    <3>1. [batch[l] EXCEPT !.onHand = @ - q]
            = [onHand |-> batch[l].onHand - q, reserved |-> batch[l].reserved]
      BY <1>2, BatchRows
    <3> QED
      BY <2>2, <3>1
  <2>5. batch' \in [Locations -> [onHand: Nat, reserved: Nat]]
    BY <1>2, <2>3, <2>4, BatchRows
  <2>6. ReservedIsOnHand'
    BY <1>2, <2>3, <2>4, BatchRows DEF ReservedIsOnHand
  <2> QED
    BY <2>2, <2>4, <2>5, <2>6 DEF BatchLedgerReplays
<1> QED
  BY <1>1, <1>2

\* A return puts its quantity back on hand.
LEMMA GoodsRestocked ==
  ASSUME StockInv, NEW l, NEW q \in Nat, q > 0 => l \in Locations,
         RestockGoods(l, q)
  PROVE  /\ batch' \in [Locations -> [onHand: Nat, reserved: Nat]]
         /\ BatchLedgerReplays'
         /\ ReservedIsOnHand'
<1>1. CASE q = 0
  BY <1>1, BatchRows DEF RestockGoods, BatchLedgerReplays, ReservedIsOnHand
<1>2. CASE q > 0
  <2>1. AfterBatchMove(batch[l], "sale_return", q)
          = [onHand |-> batch[l].onHand + q, reserved |-> batch[l].reserved]
    BY <1>2, BatchRows, Signs, ReservedSigns DEF AfterBatchMove
  <2>2. /\ batchReplay' = [batch EXCEPT ![l] =
             [onHand |-> batch[l].onHand + q, reserved |-> batch[l].reserved]]
        /\ batch' = [batch EXCEPT ![l].onHand = @ + q]
    BY <1>2, <2>1, BatchRows DEF RestockGoods
  <2>3. batch' = [batch EXCEPT ![l] =
             [onHand |-> batch[l].onHand + q, reserved |-> batch[l].reserved]]
    <3>1. [batch[l] EXCEPT !.onHand = @ + q]
            = [onHand |-> batch[l].onHand + q, reserved |-> batch[l].reserved]
      BY <1>2, BatchRows
    <3> QED
      BY <2>2, <3>1
  <2>4. batch' \in [Locations -> [onHand: Nat, reserved: Nat]]
    BY <1>2, <2>3, BatchRows
  <2>5. ReservedIsOnHand'
    BY <1>2, <2>3, BatchRows DEF ReservedIsOnHand
  <2> QED
    BY <2>2, <2>3, <2>4, <2>5 DEF BatchLedgerReplays
<1> QED
  BY <1>1, <1>2

\* What the invariant says of a sale's row.
LEMMA SaleRow ==
  ASSUME ShopInv, NEW s \in Sales
  PROVE  /\ DOMAIN sale = Sales
         /\ DOMAIN sale[s] = {"status", "held", "loc", "qty", "total"}
         /\ sale[s].qty \in [Items -> Nat]
         /\ sale[s].qty[Goods] \in Nat
         /\ sale[s].qty[Goods] > 0 => sale[s].loc \in Locations
         /\ \A u \in Units : sale[s].qty[u] \in Nat
  BY DEF ShopInv, DocumentInv, SaleRows, Items

\* Posting a sale takes available units and free stock only.
LEMMA PostSaleStock ==
  ASSUME ShopInv, NEW s \in Sales, NEW credit, PostSale(s, credit)
  PROVE  StockInv'
<1> DEFINE sold == {u \in Units : sale[s].qty[u] > 0}
<1>1. /\ unit' = [u \in Units |->
                    IF u \in sold THEN [unit[u] EXCEPT !.state = "sold"] ELSE unit[u]]
      /\ unitReplay' = [u \in Units |->
                    IF u \in sold THEN AfterUnitMove(unitReplay[u], unit[u].loc, "sale")
                    ELSE unitReplay[u]]
      /\ IssueGoods(sale[s].loc, sale[s].qty[Goods])
      /\ active' = active
  BY DEF PostSale
<1>2. StockAvailable(s)
  BY DEF PostSale
<1>3. \A u \in sold : unit[u].state = "available"
  BY <1>2 DEF StockAvailable
<1>4. OnHand("sold") = 0 /\ OnHand("available") = 1
  BY DEF OnHand, ON_HAND_STOCK_STATES
<1>5. /\ sold \in SUBSET Units /\ "sold" \in SERIALIZED_STOCK_STATES
      /\ \A u \in sold :
           MOVEMENT_ON_HAND_SIGN["sale"] = OnHand("sold") - OnHand(unit[u].state)
  BY <1>3, <1>4, Signs DEF SERIALIZED_STOCK_STATES
<1> HIDE DEF sold
<1>6. /\ unit' \in [Units -> [state: SERIALIZED_STOCK_STATES, loc: Locations]]
      /\ unitReplay' \in [Units -> [Locations -> Int]]
      /\ UnitLedgerReplays'
  BY <1>1, <1>5, UnitsMoved DEF ShopInv
<1>7. sale[s].qty[Goods] > 0 =>
        sale[s].loc \in Locations /\ Available(sale[s].loc) >= sale[s].qty[Goods]
  BY <1>2, SaleRow DEF StockAvailable
<1>8. /\ batch' \in [Locations -> [onHand: Nat, reserved: Nat]]
      /\ BatchLedgerReplays'
      /\ ReservedIsOnHand'
  BY <1>1, <1>7, SaleRow, GoodsIssued DEF ShopInv
<1>9. StockTypeOK'
  <2>1. batchReplay' \in [Locations -> [onHand: Int, reserved: Int]]
    BY <1>8 DEF BatchLedgerReplays
  <2>2. active' \in [Locations -> BOOLEAN]
    BY <1>1 DEF ShopInv, StockInv, StockTypeOK
  <2> QED
    BY <1>6, <1>8, <2>1, <2>2 DEF StockTypeOK
<1> QED
  BY <1>6, <1>8, <1>9 DEF StockInv

\* Posting a sale sells units that no other sold sale lists.
LEMMA PostSaleInv ==
  ASSUME ShopInv, UNCHANGED returnVars, NEW s \in Sales, NEW credit,
         PostSale(s, credit)
  PROVE  ShopInv'
<1>1. StockInv'
  BY PostSaleStock
<1>2. /\ sale[s].status = "draft"
      /\ sale' = [sale EXCEPT ![s].status = "posted", ![s].held = FALSE]
      /\ UNCHANGED <<ret, returned>>
  BY DEF PostSale, returnVars
<1>3. /\ DOMAIN sale' = Sales
      /\ \A t \in Sales :
           /\ DOMAIN sale'[t] = {"status", "held", "loc", "qty", "total"}
           /\ sale'[t].qty = sale[t].qty /\ sale'[t].loc = sale[t].loc
           /\ sale'[t].status = IF t = s THEN "posted" ELSE sale[t].status
  BY <1>2 DEF ShopInv, DocumentInv, SaleRows
<1>4. SaleRows' /\ ReturnRows'
  BY <1>2, <1>3 DEF ShopInv, DocumentInv, SaleRows, ReturnRows
<1>5. s \notin Sold /\ Sold' = Sold \cup {s}
  BY <1>2, <1>3 DEF Sold
<1>6. OnlySoldReturns'
  BY <1>2, <1>5 DEF ShopInv, DocumentInv, OnlySoldReturns
<1>7. OneSalePerUnit'
  <2>1. ASSUME NEW t \in Sold, NEW u \in Units,
               sale[s].qty[u] > 0, sale[t].qty[u] > 0
        PROVE  FALSE
    BY <2>1 DEF PostSale, SaleBarred
  <2>2. Sold \subseteq Sales
    BY DEF Sold
  <2> QED
    BY <1>3, <1>5, <2>1, <2>2 DEF ShopInv, DocumentInv, OneSalePerUnit
<1>8. SoldUnitHasOwner'
  <2> SUFFICES ASSUME NEW u \in Units, unit'[u].state = "sold"
               PROVE  \E t \in Sold' : returned'[t][u] < sale'[t].qty[u]
    BY DEF SoldUnitHasOwner
  <2>1. CASE sale[s].qty[u] > 0
    <3>1. returned[s][u] = 0
      BY <1>5 DEF ShopInv, DocumentInv, OnlySoldReturns, Items
    <3> QED
      BY <1>2, <1>3, <1>5, <2>1, <3>1
  <2>2. CASE ~(sale[s].qty[u] > 0)
    <3>1. unit'[u] = unit[u]
      BY <2>2 DEF PostSale
    <3>2. PICK t \in Sold : returned[t][u] < sale[t].qty[u]
      BY <3>1 DEF ShopInv, DocumentInv, SoldUnitHasOwner
    <3>3. t \in Sales
      BY DEF Sold
    <3> QED
      BY <1>2, <1>3, <1>5, <3>2, <3>3
  <2> QED
    BY <2>1, <2>2
<1> QED
  BY <1>1, <1>4, <1>6, <1>7, <1>8 DEF ShopInv, DocumentInv

-----------------------------------------------------------------------------
\* What the invariant says of a return's row.
LEMMA ReturnRow ==
  ASSUME ShopInv, NEW r \in Returns
  PROVE  /\ ret \in [Returns -> [status: {"none", "draft", "posted"},
                                 sale: Sales \cup {NoSale}, qty: [Items -> Nat]]]
         /\ ret[r].status = "draft" => ret[r].sale \in Sales
         /\ ret[r].qty \in [Items -> Nat]
         /\ returned \in [Sales -> [Items -> Nat]]
  BY DEF ShopInv, DocumentInv, ReturnRows

\* Drafting a return changes nothing but the draft.
LEMMA CreateReturnInv ==
  ASSUME ShopInv, NEW r \in Returns, NEW s \in Sales, NEW units \in SUBSET Units,
         NEW q \in LineQuantities \cup {0}, CreateReturnDraft(r, s, units, q)
  PROVE  ShopInv'
<1>1. /\ UNCHANGED stockVars /\ UNCHANGED saleVars /\ returned' = returned
      /\ ret' = [ret EXCEPT ![r] =
           [status |-> "draft", sale |-> s, qty |-> Cart(units, q)]]
  BY DEF CreateReturnDraft
<1>2. StockInv' /\ unit' = unit
  BY <1>1, StockKept DEF ShopInv
<1>3. SaleRows' /\ Sold' = Sold /\ sale' = sale
  BY <1>1 DEF saleVars, ShopInv, DocumentInv, SaleRows, Sold
<1>4. Cart(units, q) \in [Items -> Nat]
  BY CartQuantities, LineQuantitiesType
<1>5. ReturnRows'
  BY <1>1, <1>4 DEF ShopInv, DocumentInv, ReturnRows
<1>6. DocumentInv'
  BY <1>1, <1>2, <1>3, <1>5, DocumentsKept DEF ShopInv
<1> QED
  BY <1>2, <1>6 DEF ShopInv

\* A refused return changes neither stock nor documents.
LEMMA PostReturnRefusedInv ==
  ASSUME ShopInv, NEW r \in Returns, PostReturnRefused(r)
  PROVE  ShopInv'
<1>1. UNCHANGED stockVars /\ UNCHANGED saleVars /\ UNCHANGED <<ret, returned>>
  BY DEF PostReturnRefused
<1>2. StockInv' /\ unit' = unit
  BY <1>1, StockKept DEF ShopInv
<1>3. SaleRows' /\ ReturnRows' /\ Sold' = Sold /\ sale' = sale
  BY <1>1 DEF saleVars, ShopInv, DocumentInv, SaleRows, ReturnRows, Sold
<1>4. DocumentInv'
  BY <1>1, <1>2, <1>3, DocumentsKept DEF ShopInv
<1> QED
  BY <1>2, <1>4 DEF ShopInv

\* What a posting return claims: of a sold sale, at most what is with the
\* customer, and only sold units.
LEMMA ClaimRow ==
  ASSUME ShopInv, NEW r \in Returns, Postable(r)
  PROVE  /\ ret[r].sale \in Sales /\ ret[r].sale \in Sold
         /\ ret[r].qty \in [Items -> Nat]
         /\ ret[r].qty[Goods] > 0 => sale[ret[r].sale].loc \in Locations
         /\ \A u \in Units : ret[r].qty[u] > 0 => unit[u].state = "sold"
<1>1. /\ ret[r].status = "draft" /\ Returnable(ret[r].sale)
      /\ Claimable(ret[r].sale, ret[r].qty)
  BY DEF Postable
<1>2. ret[r].sale \in Sales /\ ret[r].qty \in [Items -> Nat]
  BY <1>1, ReturnRow
<1>3. ret[r].sale \in Sold
  BY <1>1, <1>2 DEF Returnable, Sold
<1>4. ASSUME ret[r].qty[Goods] > 0
      PROVE  sale[ret[r].sale].loc \in Locations
  <2>1. returned[ret[r].sale][Goods] + ret[r].qty[Goods] <= sale[ret[r].sale].qty[Goods]
    BY <1>1, <1>4 DEF Claimable, LinesOf, Items
  <2>2. returned[ret[r].sale][Goods] \in Nat /\ ret[r].qty[Goods] \in Nat
    BY <1>2, ReturnRow DEF Items
  <2>3. sale[ret[r].sale].qty[Goods] > 0
    BY <1>2, <1>4, <2>1, <2>2, SaleRow
  <2> QED
    BY <1>2, <2>3, SaleRow
<1> QED
  BY <1>1, <1>2, <1>3, <1>4 DEF Claimable

\* Posting a return takes sold units and quantities back on hand.
LEMMA PostReturnStock ==
  ASSUME ShopInv, NEW r \in Returns, PostReturn(r)
  PROVE  StockInv'
<1> DEFINE s == ret[r].sale
           qty == ret[r].qty
           back == {u \in Units : qty[u] > 0}
<1>1. /\ Postable(r)
      /\ unit' = [u \in Units |->
                    IF u \in back THEN [unit[u] EXCEPT !.state = "returned_inspection"]
                    ELSE unit[u]]
      /\ unitReplay' = [u \in Units |->
                    IF u \in back THEN AfterUnitMove(unitReplay[u], unit[u].loc, "sale_return")
                    ELSE unitReplay[u]]
      /\ RestockGoods(sale[s].loc, qty[Goods])
      /\ active' = active
  BY DEF PostReturn
<1>2. OnHand("returned_inspection") = 1 /\ OnHand("sold") = 0
  BY DEF OnHand, ON_HAND_STOCK_STATES
<1>3. /\ back \in SUBSET Units /\ "returned_inspection" \in SERIALIZED_STOCK_STATES
      /\ \A u \in back :
           MOVEMENT_ON_HAND_SIGN["sale_return"]
             = OnHand("returned_inspection") - OnHand(unit[u].state)
  BY <1>1, <1>2, ClaimRow, Signs DEF SERIALIZED_STOCK_STATES
<1>4. /\ qty[Goods] \in Nat
      /\ qty[Goods] > 0 => sale[s].loc \in Locations
  BY <1>1, ClaimRow DEF Items
<1> HIDE DEF s, qty, back
<1>5. /\ unit' \in [Units -> [state: SERIALIZED_STOCK_STATES, loc: Locations]]
      /\ unitReplay' \in [Units -> [Locations -> Int]]
      /\ UnitLedgerReplays'
  BY <1>1, <1>3, UnitsMoved DEF ShopInv
<1>6. /\ batch' \in [Locations -> [onHand: Nat, reserved: Nat]]
      /\ BatchLedgerReplays'
      /\ ReservedIsOnHand'
  BY <1>1, <1>4, GoodsRestocked DEF ShopInv
<1>7. StockTypeOK'
  <2>1. batchReplay' \in [Locations -> [onHand: Int, reserved: Int]]
    BY <1>6 DEF BatchLedgerReplays
  <2>2. active' \in [Locations -> BOOLEAN]
    BY <1>1 DEF ShopInv, StockInv, StockTypeOK
  <2> QED
    BY <1>5, <1>6, <2>1, <2>2 DEF StockTypeOK
<1> QED
  BY <1>5, <1>6, <1>7 DEF StockInv

\* Posting a return leaves the units it does not claim with their owners.
LEMMA PostReturnInv ==
  ASSUME ShopInv, NEW r \in Returns, PostReturn(r)
  PROVE  ShopInv'
<1> DEFINE s == ret[r].sale
           qty == ret[r].qty
           after == [i \in Items |-> returned[s][i] + qty[i]]
<1>1. StockInv'
  BY PostReturnStock
<1>2. /\ Postable(r)
      /\ sale' = [sale EXCEPT ![s].status = NextSaleStatus(s, after)]
      /\ ret' = [ret EXCEPT ![r].status = "posted"]
      /\ returned' = [returned EXCEPT ![s] = after]
  BY DEF PostReturn
<1>3. s \in Sales /\ s \in Sold /\ qty \in [Items -> Nat]
  BY <1>2, ClaimRow
<1>4. after \in [Items -> Nat]
  BY <1>3, ReturnRow
<1>5. NextSaleStatus(s, after) \in {"returned", "partially_returned"}
  BY DEF NextSaleStatus
<1>6. \A u \in Units :
        \/ qty[u] > 0 /\ unit'[u].state # "sold"
        \/ qty[u] = 0 /\ unit'[u] = unit[u] /\ after[u] = returned[s][u]
  <2> SUFFICES ASSUME NEW u \in Units
               PROVE  \/ qty[u] > 0 /\ unit'[u].state # "sold"
                      \/ qty[u] = 0 /\ unit'[u] = unit[u] /\ after[u] = returned[s][u]
    OBVIOUS
  <2>1. qty[u] \in Nat /\ returned[s][u] \in Nat /\ u \in Items
    BY <1>3, ReturnRow DEF Items
  <2>2. unit' = [v \in Units |->
                    IF v \in {w \in Units : qty[w] > 0}
                      THEN [unit[v] EXCEPT !.state = "returned_inspection"]
                      ELSE unit[v]]
    BY DEF PostReturn
  <2>3. CASE qty[u] > 0
    <3>1. unit[u] \in [state: SERIALIZED_STOCK_STATES, loc: Locations]
      BY DEF ShopInv, StockInv, StockTypeOK
    <3> QED
      BY <2>2, <2>3, <3>1
  <2>4. CASE qty[u] = 0
    BY <2>1, <2>2, <2>4
  <2> QED
    BY <2>1, <2>3, <2>4
<1> HIDE DEF after, s, qty
<1>7. /\ DOMAIN sale' = Sales
      /\ \A t \in Sales :
           /\ DOMAIN sale'[t] = {"status", "held", "loc", "qty", "total"}
           /\ sale'[t].qty = sale[t].qty /\ sale'[t].loc = sale[t].loc
           /\ sale'[t].status = IF t = s THEN NextSaleStatus(s, after) ELSE sale[t].status
  BY <1>2, <1>3 DEF ShopInv, DocumentInv, SaleRows
<1>8. SaleRows'
  BY <1>7 DEF ShopInv, DocumentInv, SaleRows
<1>9. ReturnRows'
  BY <1>2, <1>3, <1>4 DEF ShopInv, DocumentInv, ReturnRows
<1>10. Sold' = Sold
  BY <1>3, <1>5, <1>7 DEF Sold
<1>11. returned' \in [Sales -> [Items -> Nat]]
       /\ \A t \in Sales : returned'[t] = IF t = s THEN after ELSE returned[t]
  BY <1>2, <1>3, <1>4, ReturnRow
<1>12. OnlySoldReturns'
  BY <1>3, <1>10, <1>11 DEF ShopInv, DocumentInv, OnlySoldReturns
<1>13. OneSalePerUnit'
  BY <1>7, <1>10 DEF ShopInv, DocumentInv, OneSalePerUnit, Sold
<1>14. SoldUnitHasOwner'
  <2> SUFFICES ASSUME NEW u \in Units, unit'[u].state = "sold"
               PROVE  \E t \in Sold' : returned'[t][u] < sale'[t].qty[u]
    BY DEF SoldUnitHasOwner
  <2>1. unit'[u] = unit[u] /\ after[u] = returned[s][u]
    BY <1>6
  <2>2. PICK t \in Sold : returned[t][u] < sale[t].qty[u]
    BY <2>1 DEF ShopInv, DocumentInv, SoldUnitHasOwner
  <2>3. t \in Sales
    BY DEF Sold
  <2> QED
    BY <1>7, <1>10, <1>11, <2>1, <2>2, <2>3
<1> QED
  BY <1>1, <1>8, <1>9, <1>12, <1>13, <1>14 DEF ShopInv, DocumentInv

-----------------------------------------------------------------------------
\* Every step of the shop keeps the invariant.
LEMMA ShopStepInv == ShopInv /\ [Next]_vars => ShopInv'
<1> SUFFICES ASSUME ShopInv, [Next]_vars PROVE ShopInv'
  OBVIOUS
<1>1. CASE StockStep /\ UNCHANGED returnVars
  BY <1>1, StockStepShop
<1>2. CASE SaleStep /\ UNCHANGED returnVars
  <2>1. ASSUME NEW s \in Sales, NEW units \in SUBSET Units,
               NEW q \in LineQuantities \cup {0},
               NEW l \in Locations \cup {NoLocation}, NEW discount \in Discounts,
               \/ CreateDraft(s, units, q, l, discount)
               \/ ReplaceDraft(s, units, q, l, discount)
        PROVE  ShopInv'
    <3>1. WriteDraft(s, units, q, l, discount) /\ s \notin Sold
      BY <2>1 DEF CreateDraft, ReplaceDraft, Sold
    <3> QED
      BY <1>2, <3>1, WriteDraftInv
  <2>2. ASSUME NEW s \in Sales, Hold(s) \/ Cancel(s)
        PROVE  ShopInv'
    BY <1>2, <2>2, HoldInv
  <2>3. ASSUME NEW s \in Sales, NEW credit \in CreditAmounts, PostSale(s, credit)
        PROVE  ShopInv'
    BY <1>2, <2>3, PostSaleInv
  <2> QED
    BY <1>2, <2>1, <2>2, <2>3 DEF SaleStep
<1>3. CASE ReturnStep
  <2>1. ASSUME NEW r \in Returns, NEW s \in Sales, NEW units \in SUBSET Units,
               NEW q \in LineQuantities \cup {0}, CreateReturnDraft(r, s, units, q)
        PROVE  ShopInv'
    BY <2>1, CreateReturnInv
  <2>2. ASSUME NEW r \in Returns, PostReturn(r) PROVE ShopInv'
    BY <2>2, PostReturnInv
  <2>3. ASSUME NEW r \in Returns, PostReturnRefused(r) PROVE ShopInv'
    BY <2>3, PostReturnRefusedInv
  <2> QED
    BY <1>3, <2>1, <2>2, <2>3 DEF ReturnStep
<1>4. CASE UNCHANGED vars
  <2>1. UNCHANGED stockVars /\ UNCHANGED <<sale, ret, returned>>
    BY <1>4 DEF vars, saleVars, returnVars
  <2>2. StockInv' /\ unit' = unit
    BY <2>1, StockKept DEF ShopInv
  <2>3. SaleRows' /\ ReturnRows' /\ Sold' = Sold
    BY <2>1 DEF ShopInv, DocumentInv, SaleRows, ReturnRows, Sold
  <2>4. DocumentInv'
    BY <2>1, <2>2, <2>3, DocumentsKept DEF ShopInv
  <2> QED
    BY <2>2, <2>4 DEF ShopInv
<1> QED
  BY <1>1, <1>2, <1>3, <1>4 DEF Next

\* Stock and documents agree in every reachable state of the shop: the base
\* of the theorems below.
THEOREM ShopInvariant == Spec => []ShopInv
<1>1. Init => ShopInv
  BY ShopInitInv
<1>2. ShopInv /\ [Next]_vars => ShopInv'
  BY ShopStepInv
<1> QED
  BY <1>1, <1>2, PTL DEF Spec

\* Every unit that is marked sold is with exactly one customer, whatever is
\* sold, returned and moved by hand in between.
THEOREM SoldUnits == Spec => []SoldUnitHasOneOwner
<1>1. ShopInv => SoldUnitHasOneOwner
  <2> SUFFICES ASSUME ShopInv, NEW u \in Units, unit[u].state = "sold"
               PROVE  \E s \in Sales : Owners(u) = {s}
    BY DEF SoldUnitHasOneOwner
  <2>1. PICK s \in Sold : returned[s][u] < sale[s].qty[u]
    BY DEF ShopInv, DocumentInv, SoldUnitHasOwner
  <2>2. s \in Sales
    BY DEF Sold
  <2>3. ASSUME NEW t \in Owners(u) PROVE t = s
    <3>1. t \in Sold /\ t \in Sales /\ returned[t][u] < sale[t].qty[u]
      BY DEF Owners, Sold
    <3>2. /\ returned[t][u] \in Nat /\ returned[s][u] \in Nat
          /\ sale[t].qty[u] \in Nat /\ sale[s].qty[u] \in Nat
      BY <2>2, <3>1 DEF ShopInv, DocumentInv, SaleRows, ReturnRows, Items
    <3>3. sale[t].qty[u] > 0 /\ sale[s].qty[u] > 0
      BY <2>1, <3>1, <3>2
    <3> QED
      BY <3>1, <3>3 DEF ShopInv, DocumentInv, OneSalePerUnit
  <2>4. s \in Owners(u)
    BY <2>1 DEF Owners
  <2> QED
    BY <2>2, <2>3, <2>4
<1> QED
  BY <1>1, ShopInvariant, PTL

\* Sales and returns write ledger rows of their own, yet the ledger of every
\* unit replays to whether and where the unit is on hand, and that of the
\* batch to its two counters.
THEOREM ShopLedgers == Spec => []LedgersReplay
<1>1. ShopInv => LedgersReplay
  BY DEF ShopInv, StockInv, LedgersReplay
<1> QED
  BY <1>1, ShopInvariant, PTL

\* No sale takes reserved stock: what is reserved stays on hand, whatever is
\* sold and returned.
THEOREM ShopReservedStock == Spec => []ReservedIsOnHand
<1>1. ShopInv => ReservedIsOnHand
  BY DEF ShopInv, StockInv
<1> QED
  BY <1>1, ShopInvariant, PTL

\* A unit's life goes the same way through documents: it is sold off the
\* shelf, comes back from a customer into inspection, and rests once written
\* off or returned to its supplier.
THEOREM ShopLifecycle == Spec => LifecycleRespected
<1>1. ShopInv /\ [Next]_vars => [\A u \in Units : KeepsLifecycle(u)]_unit
  <2> SUFFICES ASSUME ShopInv, [Next]_vars
               PROVE  [\A u \in Units : KeepsLifecycle(u)]_unit
    OBVIOUS
  <2>1. unit \in [Units -> [state: SERIALIZED_STOCK_STATES, loc: Locations]]
    BY DEF ShopInv, StockInv, StockTypeOK
  <2>2. CASE StockStep
    BY <2>2, LifecycleStep DEF StockStep, ShopInv
  <2>3. ASSUME NEW s \in Sales, NEW credit, PostSale(s, credit), NEW u \in Units
        PROVE  KeepsLifecycle(u)
    <3> DEFINE sold == {v \in Units : sale[s].qty[v] > 0}
    <3>1. unit'[u] = IF u \in sold THEN [unit[u] EXCEPT !.state = "sold"] ELSE unit[u]
      BY <2>3 DEF PostSale
    <3>2. u \in sold => unit[u].state = "available"
      BY <2>3 DEF PostSale, StockAvailable
    <3> QED
      BY <3>1, <3>2 DEF KeepsLifecycle
  <2>4. ASSUME NEW r \in Returns, PostReturn(r), NEW u \in Units
        PROVE  KeepsLifecycle(u)
    <3> DEFINE back == {v \in Units : ret[r].qty[v] > 0}
    <3>1. unit'[u] = IF u \in back THEN [unit[u] EXCEPT !.state = "returned_inspection"]
                     ELSE unit[u]
      BY <2>4 DEF PostReturn
    <3>2. u \in back => unit[u].state = "sold"
      BY <2>4, ClaimRow DEF PostReturn
    <3>3. unit[u] \in [state: SERIALIZED_STOCK_STATES, loc: Locations]
      BY <2>1
    <3>4. [unit[u] EXCEPT !.state = "returned_inspection"].state = "returned_inspection"
      BY <3>3
    <3> QED
      BY <3>1, <3>2, <3>4 DEF KeepsLifecycle
  <2>5. \/ StockStep
        \/ \E s \in Sales, credit \in CreditAmounts : PostSale(s, credit)
        \/ \E r \in Returns : PostReturn(r)
        \/ UNCHANGED unit
    <3>1. CASE SaleStep
      <4>1. \A s, units, q, l, discount :
              CreateDraft(s, units, q, l, discount) \/ ReplaceDraft(s, units, q, l, discount)
                => UNCHANGED unit
        BY DEF CreateDraft, ReplaceDraft, WriteDraft, stockVars
      <4>2. \A s \in Sales : Hold(s) \/ Cancel(s) => UNCHANGED unit
        BY DEF Hold, Cancel, stockVars
      <4> QED
        BY <3>1, <4>1, <4>2 DEF SaleStep
    <3>2. CASE ReturnStep
      <4>1. \A r, s, units, q : CreateReturnDraft(r, s, units, q) => UNCHANGED unit
        BY DEF CreateReturnDraft, stockVars
      <4>2. \A r \in Returns : PostReturnRefused(r) => UNCHANGED unit
        BY DEF PostReturnRefused, stockVars
      <4> QED
        BY <3>2, <4>1, <4>2 DEF ReturnStep
    <3>3. CASE UNCHANGED vars
      BY <3>3 DEF vars, stockVars
    <3> QED
      BY <3>1, <3>2, <3>3 DEF Next
  <2> QED
    BY <2>2, <2>3, <2>4, <2>5
<1> QED
  BY <1>1, ShopInvariant, PTL DEF Spec, LifecycleRespected, KeepsLifecycle

-----------------------------------------------------------------------------
(* What documents and books say of each other.                              *)

SaleRecords ==
  [status: SaleStatuses, held: BOOLEAN, loc: Locations \cup {NoLocation},
   qty: [Items -> Nat], total: [Items -> Nat]]

ReceivableRecords ==
  [amount: Nat, paid: Nat, credited: Nat, balance: Nat,
   status: ReceivableStatuses]

\* No line total, open balance, refund or payment is below zero.
MoneyTypes ==
  /\ sale \in [Sales -> SaleRecords]
  /\ receivable \in [Sales -> ReceivableRecords]
  /\ refunded \in [Sales -> [Items -> Nat]]
  /\ paidOut \in [Sales -> Nat]
  /\ books \in [Accounts -> Int]
  /\ faulted \subseteq Returns

\* A sale that was ever drafted has a line.
LinesKept ==
  \A s \in Sales : sale[s].status # "none" => LinesOf(sale[s].qty) # {}

\* Before a sale is posted, nobody owes for it and nothing was refunded.
NothingBeforePosting ==
  \A s \in Sales \ Sold :
    /\ receivable[s].amount = 0 /\ receivable[s].balance = 0
    /\ refunded[s] = NoLines /\ paidOut[s] = 0

\* What all returns of a line together have refunded, rounded down once.
RefundsFloor ==
  \A s \in Sales : \A i \in Items :
    refunded[s][i] = IF sale[s].qty[i] = 0 THEN 0
                     ELSE (sale[s].total[i] * returned[s][i]) \div sale[s].qty[i]

MoneyInv ==
  /\ MoneyTypes
  /\ LinesKept
  /\ NothingBeforePosting
  /\ RefundsFloor
  /\ SaleStatusTellsReturns
  /\ BooksMatchDocuments

\* The terms of the sums in BooksMatchDocuments.
Received == [s \in Sales |-> Total(sale[s].total) - receivable[s].amount - paidOut[s]]
Owed     == [s \in Sales |-> receivable[s].balance]
Revenue  == [s \in Sales |-> Total(sale[s].total) - Total(refunded[s])]
Kept(s)  == [i \in Items |-> sale[s].qty[i] - returned[s][i]]
CostOut  == [s \in Sales |-> CostOf(Kept(s))]

\* SaleStatusTellsReturns of one row.
SoldStatuses == {"posted", "partially_returned", "returned"}

Tells(row, back) ==
  /\ \A i \in Items : back[i] <= row.qty[i]
  /\ row.status \in SoldStatuses =>
       /\ row.status = "returned" <=> \A i \in LinesOf(row.qty) : back[i] = row.qty[i]
       /\ row.status = "posted" <=> \A i \in Items : back[i] = 0
  /\ row.status \notin SoldStatuses => \A i \in Items : back[i] = 0

LEMMA StatusByRow ==
  SaleStatusTellsReturns <=> \A s \in Sales : Tells(sale[s], returned[s])
  BY DEF SaleStatusTellsReturns, Tells, Sold, SoldStatuses

LEMMA StatusByRowNext ==
  SaleStatusTellsReturns' <=> \A s \in Sales : Tells(sale'[s], returned'[s])
  BY DEF SaleStatusTellsReturns, Tells, Sold, SoldStatuses, LinesOf

LEMMA BooksAreSums ==
  BooksMatchDocuments <=>
    /\ books["CASH"] = SumOver(Received, Sold)
    /\ books["AR"] = SumOver(Owed, Sold)
    /\ books["SALES"] = -SumOver(Revenue, Sold)
    /\ books["COGS"] = SumOver(CostOut, Sold)
    /\ books["INVENTORY"] = -SumOver(CostOut, Sold)
  BY DEF BooksMatchDocuments, SumSold, Received, Owed, Revenue, Kept, CostOut

LEMMA BooksNextAreSums ==
  BooksMatchDocuments' <=>
    /\ books'["CASH"] = SumOver(Received', Sold')
    /\ books'["AR"] = SumOver(Owed', Sold')
    /\ books'["SALES"] = -SumOver(Revenue', Sold')
    /\ books'["COGS"] = SumOver(CostOut', Sold')
    /\ books'["INVENTORY"] = -SumOver(CostOut', Sold')
  BY DEF BooksMatchDocuments, SumSold, Received, Owed, Revenue, Kept, CostOut

-----------------------------------------------------------------------------
(* Sums over the items.                                                     *)

LEMMA TotalIsSum ==
  ASSUME NEW f
  PROVE  Total(f) = SumOver(f, Items)
  BY DEF Total

LEMMA ItemsFinite == IsFiniteSet(Items)
  BY FiniteAssumption, FS_AddElement DEF Items

LEMMA TotalInt ==
  ASSUME NEW f \in [Items -> Int]
  PROVE  Total(f) \in Int
  BY ItemsFinite, TotalIsSum, SumInt

LEMMA TotalNat ==
  ASSUME NEW f \in [Items -> Nat]
  PROVE  Total(f) \in Nat /\ \A i \in Items : f[i] <= Total(f)
  BY ItemsFinite, TotalIsSum, SumNat

LEMMA TotalPlus ==
  ASSUME NEW f \in [Items -> Int], NEW h \in [Items -> Int], NEW k \in [Items -> Int],
         \A i \in Items : k[i] = f[i] + h[i]
  PROVE  Total(k) = Total(f) + Total(h)
  BY ItemsFinite, TotalIsSum, SumPlus

LEMMA TotalNone == Total(NoLines) = 0
<1>1. NoLines \in [Items -> Int] /\ \A i \in Items : NoLines[i] = NoLines[i] + NoLines[i]
  BY DEF NoLines
<1>2. Total(NoLines) = Total(NoLines) + Total(NoLines)
  BY <1>1, TotalPlus
<1>3. Total(NoLines) \in Int
  BY <1>1, TotalInt
<1>4. \A n \in Int : n = n + n => n = 0
  OBVIOUS
<1> QED
  BY <1>2, <1>3, <1>4

LEMMA CostPlus ==
  ASSUME NEW f \in [Items -> Int], NEW h \in [Items -> Int], NEW k \in [Items -> Int],
         \A i \in Items : k[i] = f[i] + h[i]
  PROVE  /\ CostOf(k) = CostOf(f) + CostOf(h)
         /\ CostOf(f) \in Int /\ CostOf(h) \in Int /\ CostOf(k) \in Int
<1> DEFINE c(g) == [i \in Items |-> Cost[i] * g[i]]
<1>1. \A i \in Items : Cost[i] \in Int
  BY PriceAssumption
<1>2. c(f) \in [Items -> Int] /\ c(h) \in [Items -> Int] /\ c(k) \in [Items -> Int]
  BY <1>1
<1>3. \A i \in Items : c(k)[i] = c(f)[i] + c(h)[i]
  BY <1>1
<1>4. CostOf(f) = Total(c(f)) /\ CostOf(h) = Total(c(h)) /\ CostOf(k) = Total(c(k))
  BY DEF CostOf
<1> HIDE DEF c
<1> QED
  BY <1>2, <1>3, <1>4, TotalPlus, TotalInt

-----------------------------------------------------------------------------
(* Arithmetic of proportional amounts.                                      *)

LEMMA PartOf ==
  ASSUME NEW t \in Nat, NEW k \in Nat, NEW n \in Nat, n > 0, k <= n
  PROVE  /\ (t * k) \div n \in 0..t
         /\ (t * n) \div n = t
         /\ (t * 0) \div n = 0
         /\ t * k \in Nat
  OBVIOUS

LEMMA DivMonotone ==
  ASSUME NEW a \in Nat, NEW c \in Nat, NEW b \in Nat, b > 0, a <= c
  PROVE  a \div b \in Nat /\ c \div b \in Nat /\ a \div b <= c \div b
  OBVIOUS

LEMMA ShareBelow ==
  ASSUME NEW t \in Nat, NEW k \in Nat, NEW n \in Nat, n > 0, k < n, t > 0
  PROVE  (k * t) \div n < t /\ (k * t) \div n \in Nat
  OBVIOUS

\* The shares of a discount: none exceeds its line, and together they are the
\* discount (allocateByIntegerWeights).
LEMMA SharesWithinLines ==
  ASSUME NEW amount \in Nat, NEW weight \in [Items -> Nat],
         amount <= Total(weight), Total(weight) > 0,
         NEW share \in Allocations(amount, weight)
  PROVE  /\ share \in [Items -> Nat]
         /\ \A i \in Items : share[i] <= weight[i]
<1> DEFINE sum == Total(weight)
           Share(i) == (amount * weight[i]) \div sum
           shares == [i \in Items |-> Share(i)]
           left == amount - Total(shares)
<1>1. PICK lucky \in SUBSET LinesOf(weight) :
        /\ Cardinality(lucky) = left
        /\ share = [i \in Items |-> Share(i) + IF i \in lucky THEN 1 ELSE 0]
  BY DEF Allocations
<1>2. sum \in Nat /\ sum > 0
  BY TotalNat
<1>3. CASE amount = sum
  <2>1. \A i \in Items : Share(i) = weight[i]
    <3> SUFFICES ASSUME NEW i \in Items PROVE Share(i) = weight[i]
      OBVIOUS
    <3>1. (weight[i] * sum) \div sum = weight[i]
      <4> HIDE DEF sum
      <4> QED
        BY <1>2, PartOf
    <3>2. amount * weight[i] = weight[i] * sum
      <4> HIDE DEF sum
      <4> QED
        BY <1>2, <1>3
    <3> QED
      BY <3>1, <3>2
  <2>2. Total(shares) = sum
    <3>1. shares = weight
      BY <2>1
    <3> QED
      BY <3>1
  <2>3. lucky = {}
    <3>1. IsFiniteSet(lucky)
      BY ItemsFinite, FS_Subset DEF LinesOf
    <3>2. Cardinality(lucky) = 0
      BY <1>1, <1>2, <1>3, <2>2
    <3> QED
      BY <3>1, <3>2, FS_EmptySet
  <2> HIDE DEF Share
  <2>4. share = [i \in Items |-> weight[i]]
    BY <1>1, <2>1, <2>3
  <2> QED
    BY <2>4
<1>4. CASE amount < sum
  <2>1. \A i \in Items :
          /\ Share(i) \in Nat
          /\ weight[i] = 0 => Share(i) = 0
          /\ weight[i] > 0 => Share(i) < weight[i]
    <3> SUFFICES ASSUME NEW i \in Items
                 PROVE  /\ Share(i) \in Nat
                        /\ weight[i] = 0 => Share(i) = 0
                        /\ weight[i] > 0 => Share(i) < weight[i]
      OBVIOUS
    <3>1. weight[i] \in Nat
      OBVIOUS
    <3>2. CASE weight[i] = 0
      <4> HIDE DEF sum
      <4> QED
        BY <1>2, <1>4, <3>2
    <3>3. CASE weight[i] > 0
      <4> HIDE DEF sum
      <4> QED
        BY <1>2, <1>4, <3>1, <3>3, ShareBelow
    <3> QED
      BY <3>1, <3>2, <3>3
  <2> HIDE DEF Share
  <2>2. \A i \in lucky : weight[i] > 0
    BY DEF LinesOf
  <2>3. \A i \in Items : share[i] \in Nat /\ share[i] <= weight[i]
    BY <1>1, <2>1, <2>2
  <2> QED
    BY <1>1, <2>3
<1> QED
  BY <1>2, <1>3, <1>4

\* The remainders that are handed out make the shares add up to the discount
\* (allocateByIntegerWeights).
LEMMA SharesAddUp ==
  ASSUME NEW amount \in Nat, NEW weight \in [Items -> Nat], Total(weight) > 0,
         NEW share \in Allocations(amount, weight)
  PROVE  Total(share) = amount
<1> DEFINE sum == Total(weight)
           floors == [i \in Items |-> (amount * weight[i]) \div sum]
           left == amount - Total(floors)
<1>1. PICK lucky \in SUBSET LinesOf(weight) :
        /\ Cardinality(lucky) = left
        /\ share = [i \in Items |-> (amount * weight[i]) \div sum + IF i \in lucky THEN 1 ELSE 0]
  BY DEF Allocations
<1> DEFINE ones == [i \in Items |-> IF i \in lucky THEN 1 ELSE 0]
<1>2. sum \in Nat /\ sum > 0
  BY TotalNat
<1> HIDE DEF sum
<1>3. \A i \in Items : (amount * weight[i]) \div sum \in Int
  <2> SUFFICES ASSUME NEW i \in Items PROVE (amount * weight[i]) \div sum \in Int
    OBVIOUS
  <2>1. amount * weight[i] \in Nat
    OBVIOUS
  <2> QED
    BY <1>2, <2>1
<1>4. floors \in [Items -> Int] /\ ones \in [Items -> Int] /\ share \in [Items -> Int]
  BY <1>1, <1>3
<1>5. \A i \in Items : share[i] = floors[i] + ones[i]
  BY <1>1
<1>6. Total(ones) = Cardinality(lucky)
  <2>1. lucky \in SUBSET Items /\ \A i \in Items : ones[i] = IF i \in lucky THEN 1 ELSE 0
    BY DEF LinesOf
  <2> HIDE DEF ones
  <2>2. SumOver(ones, Items) = Cardinality(lucky)
    BY <2>1, ItemsFinite, SumCounts
  <2> QED
    BY <2>2, TotalIsSum
<1> HIDE DEF ones, floors
<1>7. Total(share) = Total(floors) + Total(ones) /\ Total(floors) \in Int
  BY <1>4, <1>5, TotalPlus, TotalInt
<1>8. Total(share) = Total(floors) + left
  BY <1>1, <1>6, <1>7
<1> QED
  BY <1>7, <1>8

ListPrice(qty) == [i \in Items |-> Price[i] * qty[i]]

\* What a draft's totals are, given its cart and discount.
LEMMA DraftPriced ==
  ASSUME NEW qty \in [Items -> Nat], LinesOf(qty) # {}, NEW discount \in Nat,
         discount <= Total(ListPrice(qty)), NEW total \in LineTotals(qty, discount)
  PROVE  /\ total \in [Items -> Nat]
         /\ \A i \in Items : total[i] <= Price[i] * qty[i]
         /\ Total(total) = Total(ListPrice(qty)) - discount
<1> DEFINE list == ListPrice(qty)
<1>1. PICK share \in Allocations(discount, list) :
        total = [i \in Items |-> list[i] - share[i]]
  BY DEF LineTotals, ListPrice
<1>2. list \in [Items -> Nat] /\ \A i \in Items : list[i] = Price[i] * qty[i]
  BY PriceAssumption DEF ListPrice
<1>3. Total(list) > 0
  <2>1. PICK i \in Items : qty[i] > 0
    BY DEF LinesOf
  <2>2. list[i] > 0
    <3>1. Price[i] \in Nat \ {0} /\ qty[i] \in Nat
      BY PriceAssumption
    <3>2. \A m \in Nat \ {0}, n \in Nat : n > 0 => m * n > 0
      OBVIOUS
    <3> QED
      BY <1>2, <2>1, <3>1, <3>2
  <2> HIDE DEF list
  <2>3. list[i] <= Total(list) /\ Total(list) \in Nat /\ list[i] \in Nat
    BY <1>2, TotalNat
  <2> QED
    BY <2>2, <2>3
<1>4. discount <= Total(list)
  OBVIOUS
<1> HIDE DEF list
<1>5. share \in [Items -> Nat] /\ \A i \in Items : share[i] <= list[i]
  BY <1>2, <1>3, <1>4, SharesWithinLines
<1>6. Total(share) = discount
  BY <1>2, <1>3, SharesAddUp
<1>7. total \in [Items -> Nat] /\ \A i \in Items : total[i] <= list[i]
  BY <1>1, <1>2, <1>5
<1>8. Total(list) = Total(total) + Total(share)
  <2>1. \A i \in Items : list[i] = total[i] + share[i]
    BY <1>1, <1>2, <1>5
  <2>2. list \in [Items -> Int] /\ total \in [Items -> Int] /\ share \in [Items -> Int]
    BY <1>2, <1>5, <1>7
  <2> QED
    BY <2>1, <2>2, TotalPlus
<1>9. Total(total) \in Nat /\ Total(list) \in Nat
  BY <1>2, <1>7, TotalNat
<1>10. Total(total) = Total(list) - discount
  BY <1>6, <1>8, <1>9
<1> QED
  BY <1>2, <1>7, <1>10 DEF list

-----------------------------------------------------------------------------
(* One lemma per operation.                                                 *)

\* The rows of the tables.
LEMMA MoneyRow ==
  ASSUME MoneyTypes, NEW s \in Sales
  PROVE  /\ sale[s] \in SaleRecords
         /\ sale[s].status \in SaleStatuses /\ sale[s].held \in BOOLEAN
         /\ sale[s].loc \in Locations \cup {NoLocation}
         /\ sale[s].qty \in [Items -> Nat] /\ sale[s].total \in [Items -> Nat]
         /\ receivable[s] \in ReceivableRecords
         /\ receivable[s].amount \in Nat /\ receivable[s].balance \in Nat
         /\ receivable[s].paid \in Nat /\ receivable[s].credited \in Nat
         /\ receivable[s].status \in ReceivableStatuses
         /\ refunded[s] \in [Items -> Int] /\ paidOut[s] \in Int
  BY DEF MoneyTypes, SaleRecords, ReceivableRecords

\* The terms of the sums are integers.
LEMMA TermsAreInts ==
  ASSUME ShopInv, MoneyTypes
  PROVE  /\ IsFiniteSet(Sold) /\ Sold \subseteq Sales
         /\ \A s \in Sold : /\ Received[s] \in Int /\ Owed[s] \in Int
                            /\ Revenue[s] \in Int /\ CostOut[s] \in Int
         /\ \A s \in Sales : Kept(s) \in [Items -> Int]
<1>1. IsFiniteSet(Sold) /\ Sold \subseteq Sales
  BY FiniteAssumption, FS_Subset DEF Sold
<1>2. ASSUME NEW s \in Sales PROVE Kept(s) \in [Items -> Int]
  BY ReturnRows, MoneyRow DEF ShopInv, DocumentInv, ReturnRows, Kept
<1>3. ASSUME NEW s \in Sold
      PROVE  /\ Received[s] \in Int /\ Owed[s] \in Int
             /\ Revenue[s] \in Int /\ CostOut[s] \in Int
  <2>1. s \in Sales
    BY <1>1
  <2>2. Total(sale[s].total) \in Int /\ Total(refunded[s]) \in Int
    <3>1. sale[s].total \in [Items -> Nat] /\ refunded[s] \in [Items -> Int]
      BY <2>1, MoneyRow
    <3>2. Total(sale[s].total) \in Nat
      BY <3>1, TotalNat
    <3> QED
      BY <3>1, <3>2, TotalInt
  <2>3. CostOf(Kept(s)) \in Int
    <3>1. Kept(s) \in [Items -> Int] /\ NoLines \in [Items -> Int]
          /\ \A i \in Items : Kept(s)[i] = Kept(s)[i] + NoLines[i]
      BY <1>2, <2>1 DEF NoLines
    <3> QED
      BY <3>1, CostPlus
  <2>4. receivable[s].amount \in Int /\ receivable[s].balance \in Int /\ paidOut[s] \in Int
    BY <2>1, MoneyRow
  <2> QED
    BY <2>1, <2>2, <2>3, <2>4 DEF Received, Owed, Revenue, CostOut
<1> QED
  BY <1>1, <1>2, <1>3

\* The books stay right while no sold sale is touched.
LEMMA BooksKept ==
  ASSUME ShopInv, MoneyTypes, BooksMatchDocuments, books' = books, Sold' = Sold,
         returned' = returned, refunded' = refunded, paidOut' = paidOut,
         receivable' = receivable,
         \A s \in Sold : sale'[s].qty = sale[s].qty /\ sale'[s].total = sale[s].total
  PROVE  BooksMatchDocuments'
<1>1. IsFiniteSet(Sold) /\ Sold \subseteq Sales
  BY TermsAreInts
<1>2. \A s \in Sold : /\ Received'[s] = Received[s] /\ Owed'[s] = Owed[s]
                      /\ Revenue'[s] = Revenue[s] /\ CostOut'[s] = CostOut[s]
  BY <1>1 DEF Received, Owed, Revenue, CostOut, Kept
<1>3. /\ SumOver(Received', Sold) = SumOver(Received, Sold)
      /\ SumOver(Owed', Sold) = SumOver(Owed, Sold)
      /\ SumOver(Revenue', Sold) = SumOver(Revenue, Sold)
      /\ SumOver(CostOut', Sold) = SumOver(CostOut, Sold)
  BY <1>1, <1>2, SumSame
<1>4. /\ books'["CASH"] = SumOver(Received', Sold')
      /\ books'["AR"] = SumOver(Owed', Sold')
      /\ books'["SALES"] = -SumOver(Revenue', Sold')
      /\ books'["COGS"] = SumOver(CostOut', Sold')
      /\ books'["INVENTORY"] = -SumOver(CostOut', Sold')
  BY <1>3, BooksAreSums
<1> QED
  BY <1>4, BooksNextAreSums

\* Nothing is kept but by operations that touch documents or books.
LEMMA MoneyKept ==
  ASSUME ShopInv, MoneyInv, faulted' \subseteq Returns,
         UNCHANGED <<sale, receivable, books, returned, refunded, paidOut>>
  PROVE  MoneyInv'
<1>1. Sold' = Sold
  BY DEF Sold
<1>2. BooksMatchDocuments'
  BY <1>1, BooksKept DEF MoneyInv
<1>3. MoneyTypes' /\ LinesKept' /\ RefundsFloor'
  BY DEF MoneyInv, MoneyTypes, LinesKept, RefundsFloor
<1>4. NothingBeforePosting' /\ SaleStatusTellsReturns'
  BY <1>1 DEF MoneyInv, NothingBeforePosting, SaleStatusTellsReturns
<1> QED
  BY <1>2, <1>3, <1>4 DEF MoneyInv

\* Before a sale is posted nothing came back of it.
LEMMA NothingBack ==
  ASSUME ShopInv, NEW s \in Sales \ Sold
  PROVE  returned[s] = NoLines
<1>1. \A i \in Items : returned[s][i] = 0
  BY DEF ShopInv, DocumentInv, OnlySoldReturns
<1>2. returned[s] \in [Items -> Nat]
  BY DEF ShopInv, DocumentInv, ReturnRows
<1> QED
  BY <1>1, <1>2 DEF NoLines

\* Writing a sale that is not posted.
LEMMA DraftMoney ==
  ASSUME ShopInv, MoneyInv, UNCHANGED <<receivable, books>>, UNCHANGED returnVars,
         NEW s \in Sales, s \notin Sold, NEW row \in SaleRecords,
         sale' = [sale EXCEPT ![s] = row], row.status \in {"draft", "cancelled"},
         LinesOf(row.qty) # {}
  PROVE  MoneyInv'
<1>1. /\ sale \in [Sales -> SaleRecords]
      /\ UNCHANGED <<receivable, books, returned, refunded, paidOut, faulted>>
  BY DEF MoneyInv, MoneyTypes, returnVars
<1>2. \A t \in Sales : sale'[t] = IF t = s THEN row ELSE sale[t]
  BY <1>1
<1>3. Sold' = Sold
  BY <1>2 DEF Sold
<1>4. MoneyTypes'
  BY <1>1 DEF MoneyInv, MoneyTypes
<1>5. BooksMatchDocuments'
  BY <1>1, <1>2, <1>3, BooksKept DEF MoneyInv, Sold
<1>6. LinesKept'
  BY <1>2 DEF MoneyInv, LinesKept
<1>7. NothingBeforePosting'
  BY <1>1, <1>3 DEF MoneyInv, NothingBeforePosting
<1>8. returned[s] = NoLines /\ refunded[s] = NoLines
  BY NothingBack DEF MoneyInv, NothingBeforePosting
<1>9. row.qty \in [Items -> Nat] /\ row.total \in [Items -> Nat]
  BY DEF SaleRecords
<1>10. RefundsFloor'
  <2> SUFFICES ASSUME NEW t \in Sales, NEW i \in Items
               PROVE  refunded[t][i] = IF sale'[t].qty[i] = 0 THEN 0
                        ELSE (sale'[t].total[i] * returned[t][i]) \div sale'[t].qty[i]
    BY <1>1 DEF RefundsFloor
  <2>1. CASE t = s
    <3>1. sale'[t] = row
      BY <1>2, <2>1
    <3>2. refunded[t][i] = 0 /\ returned[t][i] = 0
      BY <1>8, <2>1 DEF NoLines
    <3>3. row.qty[i] \in Nat /\ row.total[i] \in Nat
      BY <1>9
    <3>4. row.qty[i] > 0 => (row.total[i] * 0) \div row.qty[i] = 0
      BY <3>3, PartOf
    <3> QED
      BY <3>1, <3>2, <3>3, <3>4
  <2>2. CASE t # s
    BY <1>2, <2>2 DEF MoneyInv, RefundsFloor
  <2> QED
    BY <2>1, <2>2
<1>11. SaleStatusTellsReturns'
  <2>1. Tells(row, returned[s])
    BY <1>8, <1>9 DEF NoLines, Tells, SoldStatuses
  <2>2. \A t \in Sales : Tells(sale[t], returned[t])
    BY StatusByRow DEF MoneyInv
  <2>3. \A t \in Sales : Tells(sale'[t], returned[t])
    BY <1>2, <2>1, <2>2
  <2> QED
    BY <1>1, <1>3, <2>3, StatusByRowNext
<1> QED
  BY <1>4, <1>5, <1>6, <1>7, <1>10, <1>11 DEF MoneyInv

\* createDraft and replaceDraft: no discount makes a line negative.
LEMMA WriteDraftMoney ==
  ASSUME ShopInv, MoneyInv, UNCHANGED returnVars, NEW s \in Sales, s \notin Sold,
         NEW units \in SUBSET Units, NEW q \in LineQuantities \cup {0},
         NEW l \in Locations \cup {NoLocation}, NEW discount \in Discounts,
         WriteDraft(s, units, q, l, discount)
  PROVE  MoneyInv'
<1> DEFINE qty == Cart(units, q)
<1>1. /\ LinesOf(qty) # {} /\ discount <= Total(ListPrice(qty))
      /\ UNCHANGED <<receivable, books>>
  BY DEF WriteDraft, ListPrice
<1>2. PICK total \in LineTotals(qty, discount) :
        sale' = [sale EXCEPT ![s] = [status |-> "draft", held |-> FALSE,
                                     loc |-> l, qty |-> qty, total |-> total]]
  BY DEF WriteDraft
<1>3. qty \in [Items -> Nat] /\ discount \in Nat
  BY CartQuantities, LineQuantitiesType, SaleAmountAssumption
<1> HIDE DEF qty
<1>4. total \in [Items -> Nat]
  BY <1>1, <1>2, <1>3, DraftPriced
<1> DEFINE row == [status |-> "draft", held |-> FALSE, loc |-> l,
                   qty |-> qty, total |-> total]
<1>5. row \in SaleRecords /\ row.status = "draft" /\ row.qty = qty
  BY <1>3, <1>4 DEF SaleRecords, SaleStatuses
<1>6. sale' = [sale EXCEPT ![s] = row]
  BY <1>2
<1> HIDE DEF row
<1> QED
  BY <1>1, <1>5, <1>6, DraftMoney

\* A new status, and the hold taken off, leave the rest of a row.
LEMMA StatusRow ==
  ASSUME NEW old \in SaleRecords, NEW status \in SaleStatuses
  PROVE  /\ [old EXCEPT !.status = status] \in SaleRecords
         /\ [old EXCEPT !.status = status].status = status
         /\ [old EXCEPT !.status = status].qty = old.qty
         /\ [old EXCEPT !.status = status].total = old.total
  BY DEF SaleRecords

LEMMA HeldRow ==
  ASSUME NEW old \in SaleRecords, NEW held \in BOOLEAN
  PROVE  /\ [old EXCEPT !.held = held] \in SaleRecords
         /\ [old EXCEPT !.held = held].status = old.status
         /\ [old EXCEPT !.held = held].qty = old.qty
         /\ [old EXCEPT !.held = held].total = old.total
  BY DEF SaleRecords

\* hold and cancel.
LEMMA HoldMoney ==
  ASSUME ShopInv, MoneyInv, UNCHANGED returnVars, NEW s \in Sales, Hold(s) \/ Cancel(s)
  PROVE  MoneyInv'
<1>1. /\ sale[s].status = "draft" /\ UNCHANGED <<receivable, books>>
  BY DEF Hold, Cancel
<1>2. s \notin Sold
  BY <1>1 DEF Sold
<1>3. sale[s] \in SaleRecords /\ LinesOf(sale[s].qty) # {} /\ DOMAIN sale = Sales
  BY <1>1, MoneyRow DEF MoneyInv, MoneyTypes, LinesKept
<1>4. PICK old \in SaleRecords : old = sale[s]
  BY <1>3
<1>5. CASE Hold(s)
  <2>1. PICK row : row = [old EXCEPT !.held = TRUE]
    OBVIOUS
  <2>2. sale' = [sale EXCEPT ![s] = row]
    BY <1>4, <1>5, <2>1 DEF Hold
  <2>3. row \in SaleRecords /\ row.status = "draft" /\ row.qty = sale[s].qty
    BY <1>1, <1>4, <2>1, HeldRow
  <2> QED
    BY <1>1, <1>2, <1>3, <2>2, <2>3, DraftMoney
<1>6. CASE Cancel(s)
  <2>1. PICK mid : mid = [old EXCEPT !.status = "cancelled"]
    OBVIOUS
  <2>2. mid \in SaleRecords /\ mid.status = "cancelled" /\ mid.qty = old.qty
    BY <2>1, StatusRow DEF SaleStatuses
  <2>3. PICK row : row = [mid EXCEPT !.held = FALSE]
    OBVIOUS
  <2>4. row \in SaleRecords /\ row.status = "cancelled" /\ row.qty = sale[s].qty
    BY <1>4, <2>2, <2>3, HeldRow
  <2>5. sale' = [sale EXCEPT ![s] = row]
    BY <1>4, <1>6, <2>1, <2>3 DEF Cancel
  <2> QED
    BY <1>1, <1>2, <1>3, <2>4, <2>5, DraftMoney
<1> QED
  BY <1>5, <1>6

\* The five entries of a ledger group.
LEMMA Posted ==
  ASSUME books \in [Accounts -> Int], NEW cash \in Int, NEW ar \in Int,
         NEW revenue \in Int, NEW cost \in Int, Post(cash, ar, revenue, cost)
  PROVE  /\ books' \in [Accounts -> Int]
         /\ books'["CASH"] = books["CASH"] + cash
         /\ books'["AR"] = books["AR"] + ar
         /\ books'["SALES"] = books["SALES"] - revenue
         /\ books'["COGS"] = books["COGS"] + cost
         /\ books'["INVENTORY"] = books["INVENTORY"] - cost
  BY DEF Post, Accounts

\* What posting a sale does to the documents and the books.
LEMMA PostSaleRows ==
  ASSUME ShopInv, MoneyInv, UNCHANGED returnVars, NEW s \in Sales,
         NEW credit \in CreditAmounts, PostSale(s, credit)
  PROVE  /\ s \notin Sold /\ Sold' = Sold \cup {s} /\ credit \in Nat
         /\ sale' \in [Sales -> SaleRecords]
         /\ sale'[s].status = "posted"
         /\ sale'[s].qty = sale[s].qty /\ sale'[s].total = sale[s].total
         /\ \A t \in Sales : t # s => sale'[t] = sale[t]
         /\ receivable' \in [Sales -> ReceivableRecords]
         /\ receivable'[s].amount = credit /\ receivable'[s].balance = credit
         /\ \A t \in Sales : t # s => receivable'[t] = receivable[t]
         /\ UNCHANGED <<returned, refunded, paidOut, faulted>>
<1>1. /\ sale[s].status = "draft"
      /\ sale' = [sale EXCEPT ![s].status = "posted", ![s].held = FALSE]
      /\ receivable' =
           IF credit = 0 THEN receivable
           ELSE [receivable EXCEPT ![s] = [amount |-> credit, paid |-> 0, credited |-> 0,
                                           balance |-> credit, status |-> "open"]]
  BY DEF PostSale
<1>2. UNCHANGED <<returned, refunded, paidOut, faulted>>
  BY DEF returnVars
<1>3. s \notin Sold /\ credit \in Nat
  BY <1>1, SaleAmountAssumption DEF Sold
<1>4. sale \in [Sales -> SaleRecords] /\ receivable \in [Sales -> ReceivableRecords]
  BY DEF MoneyInv, MoneyTypes
<1>5. PICK old \in SaleRecords : old = sale[s]
  BY <1>4
<1>6. PICK mid : mid = [old EXCEPT !.status = "posted"]
  OBVIOUS
<1>7. PICK row : row = [mid EXCEPT !.held = FALSE]
  OBVIOUS
<1>8. /\ mid \in SaleRecords /\ mid.status = "posted"
      /\ mid.qty = old.qty /\ mid.total = old.total
  BY <1>6, StatusRow DEF SaleStatuses
<1>9. /\ row \in SaleRecords /\ row.status = "posted"
      /\ row.qty = sale[s].qty /\ row.total = sale[s].total
  BY <1>5, <1>7, <1>8, HeldRow
<1>10. sale' = [sale EXCEPT ![s] = row]
  BY <1>1, <1>5, <1>6, <1>7
<1>11. /\ sale' \in [Sales -> SaleRecords] /\ sale'[s] = row
       /\ \A t \in Sales : t # s => sale'[t] = sale[t]
  BY <1>4, <1>9, <1>10
<1>12. Sold' = Sold \cup {s}
  BY <1>9, <1>11 DEF Sold
<1>13. /\ receivable' \in [Sales -> ReceivableRecords]
       /\ receivable'[s].amount = credit /\ receivable'[s].balance = credit
       /\ \A t \in Sales : t # s => receivable'[t] = receivable[t]
  <2>1. CASE credit = 0
    <3>1. receivable[s].amount = 0 /\ receivable[s].balance = 0
      BY <1>3 DEF MoneyInv, NothingBeforePosting
    <3> QED
      BY <1>1, <1>4, <2>1, <3>1
  <2>2. CASE credit # 0
    <3> DEFINE new == [amount |-> credit, paid |-> 0, credited |-> 0,
                       balance |-> credit, status |-> "open"]
    <3>1. new \in ReceivableRecords /\ new.amount = credit /\ new.balance = credit
      BY <1>3 DEF ReceivableRecords, ReceivableStatuses
    <3>2. receivable' = [receivable EXCEPT ![s] = new]
      BY <1>1, <2>2
    <3> HIDE DEF new
    <3> QED
      BY <1>4, <3>1, <3>2
  <2> QED
    BY <2>1, <2>2
<1> QED
  BY <1>2, <1>3, <1>9, <1>11, <1>12, <1>13

\* The books take in the sale that is posted.
LEMMA PostSaleBooks ==
  ASSUME ShopInv, MoneyInv, UNCHANGED returnVars, NEW s \in Sales,
         NEW credit \in CreditAmounts, PostSale(s, credit)
  PROVE  books' \in [Accounts -> Int] /\ BooksMatchDocuments'
<1> DEFINE total == Total(sale[s].total)
           cost == CostOf(sale[s].qty)
<1>1. /\ s \notin Sold /\ Sold' = Sold \cup {s} /\ credit \in Nat
      /\ sale'[s].qty = sale[s].qty /\ sale'[s].total = sale[s].total
      /\ \A t \in Sales : t # s => sale'[t] = sale[t]
      /\ receivable'[s].amount = credit /\ receivable'[s].balance = credit
      /\ \A t \in Sales : t # s => receivable'[t] = receivable[t]
      /\ returned' = returned /\ refunded' = refunded /\ paidOut' = paidOut
  BY PostSaleRows
<1>2. Post(total - credit, credit, total, cost)
  BY DEF PostSale
<1>3. /\ returned[s] = NoLines /\ refunded[s] = NoLines /\ paidOut[s] = 0
  BY <1>1, NothingBack DEF MoneyInv, NothingBeforePosting
<1>4. sale[s].qty \in [Items -> Nat] /\ sale[s].total \in [Items -> Nat]
  BY MoneyRow DEF MoneyInv
<1>5. total \in Int /\ cost \in Int
  <2>1. NoLines \in [Items -> Int] /\ sale[s].qty \in [Items -> Int]
        /\ \A i \in Items : sale[s].qty[i] = sale[s].qty[i] + NoLines[i]
    BY <1>4 DEF NoLines
  <2>2. cost \in Int
    BY <2>1, CostPlus
  <2> QED
    BY <1>4, <2>2, TotalNat
<1>6. books \in [Accounts -> Int]
  BY DEF MoneyInv, MoneyTypes
<1>7. Kept(s)' = sale[s].qty
  <2>1. \A i \in Items : sale'[s].qty[i] - returned'[s][i] = sale[s].qty[i]
    BY <1>1, <1>3, <1>4 DEF NoLines
  <2>2. Kept(s)' = [i \in Items |-> sale[s].qty[i]]
    BY <2>1 DEF Kept
  <2> QED
    BY <1>4, <2>2
<1>8. /\ Received'[s] = total - credit /\ Owed'[s] = credit
      /\ Revenue'[s] = total /\ CostOut'[s] = cost
  BY <1>1, <1>3, <1>5, <1>7, TotalNone DEF Received, Owed, Revenue, CostOut
<1>9. /\ IsFiniteSet(Sold) /\ Sold \subseteq Sales
      /\ \A t \in Sold : /\ Received[t] \in Int /\ Owed[t] \in Int
                         /\ Revenue[t] \in Int /\ CostOut[t] \in Int
  BY TermsAreInts DEF MoneyInv
<1>10. \A t \in Sold : /\ Received'[t] = Received[t] /\ Owed'[t] = Owed[t]
                       /\ Revenue'[t] = Revenue[t] /\ CostOut'[t] = CostOut[t]
  <2> SUFFICES ASSUME NEW t \in Sold
               PROVE  /\ Received'[t] = Received[t] /\ Owed'[t] = Owed[t]
                      /\ Revenue'[t] = Revenue[t] /\ CostOut'[t] = CostOut[t]
    OBVIOUS
  <2>1. t \in Sales /\ t # s
    BY <1>1, <1>9
  <2>2. sale'[t] = sale[t] /\ receivable'[t] = receivable[t]
    BY <1>1, <2>1
  <2>3. Kept(t)' = Kept(t)
    BY <1>1, <2>2 DEF Kept
  <2> QED
    BY <1>1, <2>1, <2>2, <2>3 DEF Received, Owed, Revenue, CostOut
<1> HIDE DEF total, cost
<1>11. /\ SumOver(Received', Sold') = SumOver(Received, Sold) + (total - credit)
       /\ SumOver(Owed', Sold') = SumOver(Owed, Sold) + credit
       /\ SumOver(Revenue', Sold') = SumOver(Revenue, Sold) + total
       /\ SumOver(CostOut', Sold') = SumOver(CostOut, Sold) + cost
  <2>1. /\ SumOver(Received', Sold) = SumOver(Received, Sold)
        /\ SumOver(Owed', Sold) = SumOver(Owed, Sold)
        /\ SumOver(Revenue', Sold) = SumOver(Revenue, Sold)
        /\ SumOver(CostOut', Sold) = SumOver(CostOut, Sold)
    BY <1>9, <1>10, SumSame
  <2>2. \A t \in Sold \cup {s} : /\ Received'[t] \in Int /\ Owed'[t] \in Int
                                 /\ Revenue'[t] \in Int /\ CostOut'[t] \in Int
    BY <1>1, <1>5, <1>8, <1>9, <1>10
  <2>3. SumOver(Received', Sold \cup {s}) = Received'[s] + SumOver(Received', Sold)
    BY <1>1, <1>9, <2>2, SumInsert
  <2>4. SumOver(Owed', Sold \cup {s}) = Owed'[s] + SumOver(Owed', Sold)
    BY <1>1, <1>9, <2>2, SumInsert
  <2>5. SumOver(Revenue', Sold \cup {s}) = Revenue'[s] + SumOver(Revenue', Sold)
    BY <1>1, <1>9, <2>2, SumInsert
  <2>6. SumOver(CostOut', Sold \cup {s}) = CostOut'[s] + SumOver(CostOut', Sold)
    BY <1>1, <1>9, <2>2, SumInsert
  <2>7. /\ SumOver(Received, Sold) \in Int /\ SumOver(Owed, Sold) \in Int
        /\ SumOver(Revenue, Sold) \in Int /\ SumOver(CostOut, Sold) \in Int
    BY <1>9, SumInt
  <2> QED
    BY <1>1, <1>5, <1>8, <2>1, <2>3, <2>4, <2>5, <2>6, <2>7
<1>12. /\ books["CASH"] = SumOver(Received, Sold)
       /\ books["AR"] = SumOver(Owed, Sold)
       /\ books["SALES"] = -SumOver(Revenue, Sold)
       /\ books["COGS"] = SumOver(CostOut, Sold)
       /\ books["INVENTORY"] = -SumOver(CostOut, Sold)
  BY BooksAreSums DEF MoneyInv
<1>13. /\ books' \in [Accounts -> Int]
       /\ books'["CASH"] = books["CASH"] + (total - credit)
       /\ books'["AR"] = books["AR"] + credit
       /\ books'["SALES"] = books["SALES"] - total
       /\ books'["COGS"] = books["COGS"] + cost
       /\ books'["INVENTORY"] = books["INVENTORY"] - cost
  <2>1. total - credit \in Int /\ credit \in Int
    BY <1>1, <1>5
  <2> QED
    BY <1>2, <1>5, <1>6, <2>1, Posted
<1>14. /\ SumOver(Revenue, Sold) \in Int /\ SumOver(CostOut, Sold) \in Int
  BY <1>9, SumInt
<1>15. /\ books'["CASH"] = SumOver(Received', Sold')
       /\ books'["AR"] = SumOver(Owed', Sold')
       /\ books'["SALES"] = -SumOver(Revenue', Sold')
       /\ books'["COGS"] = SumOver(CostOut', Sold')
       /\ books'["INVENTORY"] = -SumOver(CostOut', Sold')
  BY <1>5, <1>11, <1>12, <1>13, <1>14
<1> QED
  BY <1>13, <1>15, BooksNextAreSums

\* Posting a sale.
LEMMA PostSaleMoney ==
  ASSUME ShopInv, MoneyInv, UNCHANGED returnVars, NEW s \in Sales,
         NEW credit \in CreditAmounts, PostSale(s, credit)
  PROVE  MoneyInv'
<1>1. /\ s \notin Sold /\ Sold' = Sold \cup {s}
      /\ sale' \in [Sales -> SaleRecords]
      /\ sale'[s].status = "posted"
      /\ sale'[s].qty = sale[s].qty /\ sale'[s].total = sale[s].total
      /\ \A t \in Sales : t # s => sale'[t] = sale[t]
      /\ receivable' \in [Sales -> ReceivableRecords]
      /\ \A t \in Sales : t # s => receivable'[t] = receivable[t]
      /\ UNCHANGED <<returned, refunded, paidOut, faulted>>
  BY PostSaleRows
<1>2. books' \in [Accounts -> Int] /\ BooksMatchDocuments'
  BY PostSaleBooks
<1>3. MoneyTypes'
  BY <1>1, <1>2 DEF MoneyInv, MoneyTypes
<1>4. LinesOf(sale[s].qty) # {}
  BY DEF PostSale, MoneyInv, LinesKept
<1>5. LinesKept'
  <2> SUFFICES ASSUME NEW t \in Sales, sale'[t].status # "none"
               PROVE  LinesOf(sale'[t].qty) # {}
    BY DEF LinesKept, LinesOf
  <2> QED
    BY <1>1, <1>4 DEF MoneyInv, LinesKept
<1>6. NothingBeforePosting'
  BY <1>1 DEF MoneyInv, NothingBeforePosting
<1>7. RefundsFloor'
  <2>1. \A t \in Sales : sale'[t].qty = sale[t].qty /\ sale'[t].total = sale[t].total
    BY <1>1
  <2> QED
    BY <1>1, <2>1 DEF MoneyInv, RefundsFloor
<1>8. SaleStatusTellsReturns'
  <2>1. returned[s] = NoLines /\ sale[s].qty \in [Items -> Nat]
    BY <1>1, NothingBack, MoneyRow DEF MoneyInv
  <2>2. Tells(sale'[s], returned[s])
    <3>1. PICK i \in Items : sale[s].qty[i] > 0
      BY <1>4 DEF LinesOf
    <3>2. \A j \in Items : returned[s][j] = 0 /\ 0 <= sale[s].qty[j]
      BY <2>1 DEF NoLines
    <3>3. i \in LinesOf(sale'[s].qty) /\ returned[s][i] # sale'[s].qty[i]
      BY <1>1, <2>1, <3>1, <3>2 DEF LinesOf
    <3> QED
      BY <1>1, <3>2, <3>3 DEF Tells, SoldStatuses
  <2>3. \A t \in Sales : Tells(sale[t], returned[t])
    BY StatusByRow DEF MoneyInv
  <2>4. \A t \in Sales : Tells(sale'[t], returned[t])
    BY <1>1, <2>2, <2>3
  <2> QED
    BY <1>1, <2>4, StatusByRowNext
<1> QED
  BY <1>2, <1>3, <1>5, <1>6, <1>7, <1>8 DEF MoneyInv

\* What a return refunds of every line: the next step of the rounded
\* cumulative refund.
LEMMA RefundRows ==
  ASSUME ShopInv, MoneyInv, NEW r \in Returns, Postable(r)
  PROVE  LET s == ret[r].sale
             qty == ret[r].qty
             refunds == LineRefunds(s, qty)
             after == [i \in Items |-> returned[s][i] + qty[i]]
         IN  /\ s \in Sold /\ s \in Sales /\ qty \in [Items -> Nat]
             /\ LinesOf(qty) # {}
             /\ after \in [Items -> Nat]
             /\ \A i \in Items : after[i] <= sale[s].qty[i]
             /\ refunds \in [Items -> Nat]
             /\ \A i \in Items : refunded[s][i] + refunds[i] =
                  IF sale[s].qty[i] = 0 THEN 0
                  ELSE (sale[s].total[i] * after[i]) \div sale[s].qty[i]
<1> DEFINE s == ret[r].sale
           qty == ret[r].qty
           refunds == LineRefunds(s, qty)
           after == [i \in Items |-> returned[s][i] + qty[i]]
<1>1. s \in Sold /\ s \in Sales /\ qty \in [Items -> Nat]
  BY ClaimRow
<1>2. /\ LinesOf(qty) # {}
      /\ \A i \in LinesOf(qty) : returned[s][i] + qty[i] <= sale[s].qty[i]
  BY DEF Postable, Claimable
<1>3. /\ returned[s] \in [Items -> Nat]
      /\ sale[s].qty \in [Items -> Nat] /\ sale[s].total \in [Items -> Nat]
  BY <1>1, MoneyRow DEF MoneyInv, ShopInv, DocumentInv, ReturnRows
<1>4. \A i \in Items : returned[s][i] <= sale[s].qty[i]
  BY <1>1 DEF MoneyInv, SaleStatusTellsReturns
<1>5. refunds = [i \in Items |->
        IF qty[i] = 0 THEN 0
        ELSE (sale[s].total[i] * (returned[s][i] + qty[i])) \div sale[s].qty[i]
             - (sale[s].total[i] * returned[s][i]) \div sale[s].qty[i]]
  BY DEF LineRefunds, ProportionalRefund
<1>6. \A i \in Items : refunded[s][i] =
        IF sale[s].qty[i] = 0 THEN 0
        ELSE (sale[s].total[i] * returned[s][i]) \div sale[s].qty[i]
  BY <1>1 DEF MoneyInv, RefundsFloor
<1> HIDE DEF s, qty
<1>7. after \in [Items -> Nat]
  BY <1>1, <1>3
<1>8. ASSUME NEW i \in Items
      PROVE  /\ after[i] <= sale[s].qty[i]
             /\ refunds[i] \in Nat
             /\ refunded[s][i] + refunds[i] =
                  IF sale[s].qty[i] = 0 THEN 0
                  ELSE (sale[s].total[i] * after[i]) \div sale[s].qty[i]
  <2>1. /\ after[i] = returned[s][i] + qty[i]
        /\ returned[s][i] \in Nat /\ qty[i] \in Nat
        /\ sale[s].qty[i] \in Nat /\ sale[s].total[i] \in Nat
    BY <1>1, <1>3
  <2>2. CASE qty[i] = 0
    <3>1. refunds[i] = 0
      BY <1>5, <2>2
    <3>2. after[i] = returned[s][i]
      BY <2>1, <2>2
    <3>3. sale[s].qty[i] # 0 =>
            (sale[s].total[i] * returned[s][i]) \div sale[s].qty[i] \in Nat
      BY <1>4, <2>1, PartOf
    <3> QED
      BY <1>4, <1>6, <3>1, <3>2, <3>3
  <2>3. CASE qty[i] # 0
    <3> DEFINE n == sale[s].qty[i]
               t == sale[s].total[i]
               b == returned[s][i]
               a == b + qty[i]
    <3>1. i \in LinesOf(qty)
      BY <2>1, <2>3 DEF LinesOf
    <3>2. a <= n /\ n > 0 /\ a = after[i]
      BY <1>2, <2>1, <2>3, <3>1
    <3>3. refunds[i] = (t * a) \div n - (t * b) \div n
      BY <1>5, <2>3
    <3>4. refunded[s][i] = (t * b) \div n
      BY <1>6, <3>2
    <3>5. n \in Nat /\ t \in Nat /\ a \in Nat /\ b \in Nat /\ b <= a
      BY <2>1
    <3> HIDE DEF n, t, a, b
    <3>6. t * b \in Nat /\ t * a \in Nat /\ t * b <= t * a
      BY <3>5
    <3>7. (t * b) \div n \in Nat /\ (t * a) \div n \in Nat
          /\ (t * b) \div n <= (t * a) \div n
      BY <3>2, <3>5, <3>6, DivMonotone
    <3>8. refunds[i] \in Nat /\ refunded[s][i] + refunds[i] = (t * a) \div n
      BY <3>3, <3>4, <3>7
    <3> USE DEF n, t
    <3> QED
      BY <3>2, <3>8
  <2> QED
    BY <2>2, <2>3
<1>9. refunds \in [Items -> Nat]
  <2>1. refunds = [i \in Items |-> refunds[i]]
    BY <1>5
  <2> HIDE DEF refunds
  <2> QED
    BY <1>8, <2>1
<1> HIDE DEF refunds, after
<1>10. /\ s \in Sold /\ s \in Sales /\ qty \in [Items -> Nat]
       /\ LinesOf(qty) # {}
       /\ after \in [Items -> Nat]
       /\ \A i \in Items : after[i] <= sale[s].qty[i]
       /\ refunds \in [Items -> Nat]
       /\ \A i \in Items : refunded[s][i] + refunds[i] =
            IF sale[s].qty[i] = 0 THEN 0
            ELSE (sale[s].total[i] * after[i]) \div sale[s].qty[i]
  BY <1>1, <1>2, <1>7, <1>8, <1>9
<1> QED
  BY <1>10 DEF s, qty, refunds, after

\* A credit never exceeds what is owed, nor what is refunded.
LEMMA CreditedRow ==
  ASSUME MoneyTypes, NEW s \in Sales, NEW refund \in Nat
  PROVE  LET credit == ReceivableCredit(s, refund)
             rec == CreditedReceivable(receivable[s], credit)
         IN  /\ credit \in Nat /\ credit <= refund
             /\ rec \in ReceivableRecords
             /\ rec.amount = receivable[s].amount
             /\ rec.balance = receivable[s].balance - credit
<1> DEFINE credit == ReceivableCredit(s, refund)
<1>1. PICK old \in ReceivableRecords : old = receivable[s]
  BY MoneyRow
<1>2. /\ old.amount \in Nat /\ old.balance \in Nat
      /\ old.paid \in Nat /\ old.credited \in Nat
  BY DEF ReceivableRecords
<1>3. credit \in Nat /\ credit <= old.balance /\ credit <= refund
  BY <1>1, <1>2 DEF ReceivableCredit
<1> HIDE DEF credit
<1>4. CASE credit = 0
  BY <1>1, <1>2, <1>4 DEF CreditedReceivable, credit
<1>5. CASE credit # 0
  <2> DEFINE st == IF old.balance - credit <= 0 THEN "paid" ELSE "partially_paid"
  <2>1. PICK rec : rec = [old EXCEPT !.credited = old.credited + credit,
                                     !.balance = old.balance - credit,
                                     !.status = st]
    OBVIOUS
  <2>2. st \in ReceivableStatuses
    BY DEF ReceivableStatuses
  <2>3. rec = CreditedReceivable(receivable[s], credit)
    BY <1>1, <1>5, <2>1 DEF CreditedReceivable
  <2> HIDE DEF st
  <2>4. /\ rec \in ReceivableRecords /\ rec.amount = old.amount
        /\ rec.balance = old.balance - credit
    <3>1. rec = [amount |-> old.amount, paid |-> old.paid,
                 credited |-> old.credited + credit,
                 balance |-> old.balance - credit, status |-> st]
      BY <2>1 DEF ReceivableRecords
    <3> QED
      BY <1>2, <1>3, <2>2, <3>1 DEF ReceivableRecords
  <2> QED
    BY <1>1, <1>3, <2>3, <2>4 DEF credit
<1> QED
  BY <1>4, <1>5

\* What posting a return does to the documents.
LEMMA PostReturnRows ==
  ASSUME ShopInv, MoneyInv, NEW r \in Returns, PostReturn(r)
  PROVE  LET s == ret[r].sale
             qty == ret[r].qty
             refunds == LineRefunds(s, qty)
             refund == Total(refunds)
             credit == ReceivableCredit(s, refund)
             after == [i \in Items |-> returned[s][i] + qty[i]]
         IN  /\ refund \in Nat /\ credit \in Nat
             /\ Sold' = Sold
             /\ sale' \in [Sales -> SaleRecords]
             /\ sale'[s].status = NextSaleStatus(s, after)
             /\ \A t \in Sales : /\ sale'[t].qty = sale[t].qty
                                 /\ sale'[t].total = sale[t].total
                                 /\ t # s => sale'[t] = sale[t]
             /\ receivable' \in [Sales -> ReceivableRecords]
             /\ receivable'[s].amount = receivable[s].amount
             /\ receivable'[s].balance = receivable[s].balance - credit
             /\ \A t \in Sales : t # s => receivable'[t] = receivable[t]
             /\ returned' = [returned EXCEPT ![s] = after]
             /\ refunded' \in [Sales -> [Items -> Nat]]
             /\ \A i \in Items : refunded'[s][i] = refunded[s][i] + refunds[i]
             /\ \A t \in Sales : t # s => refunded'[t] = refunded[t]
             /\ paidOut' \in [Sales -> Nat]
             /\ paidOut'[s] = paidOut[s] + (refund - credit)
             /\ \A t \in Sales : t # s => paidOut'[t] = paidOut[t]
             /\ faulted' = faulted
<1> DEFINE s == ret[r].sale
           qty == ret[r].qty
           refunds == LineRefunds(s, qty)
           refund == Total(refunds)
           credit == ReceivableCredit(s, refund)
           rec == CreditedReceivable(receivable[s], credit)
           after == [i \in Items |-> returned[s][i] + qty[i]]
<1>1. /\ Postable(r)
      /\ receivable' = [receivable EXCEPT ![s] = CreditedReceivable(@, credit)]
      /\ sale' = [sale EXCEPT ![s].status = NextSaleStatus(s, after)]
      /\ returned' = [returned EXCEPT ![s] = after]
      /\ refunded' = [refunded EXCEPT ![s] = [i \in Items |-> @[i] + refunds[i]]]
      /\ paidOut' = [paidOut EXCEPT ![s] = @ + (refund - credit)]
      /\ faulted' = faulted
  BY DEF PostReturn
<1>2. s \in Sales /\ s \in Sold /\ refunds \in [Items -> Nat]
  BY <1>1, RefundRows
<1>3. refund \in Nat
  <2> HIDE DEF refunds
  <2> QED
    BY <1>2, TotalNat
<1>4. /\ sale \in [Sales -> SaleRecords] /\ receivable \in [Sales -> ReceivableRecords]
      /\ refunded \in [Sales -> [Items -> Nat]] /\ paidOut \in [Sales -> Nat]
  BY DEF MoneyInv, MoneyTypes
<1>5. /\ credit \in Nat /\ credit <= refund /\ rec \in ReceivableRecords
      /\ rec.amount = receivable[s].amount
      /\ rec.balance = receivable[s].balance - credit
  <2>1. MoneyTypes
    BY DEF MoneyInv
  <2> HIDE DEF s, refund
  <2> QED
    BY <1>2, <1>3, <2>1, CreditedRow
<1>6. receivable' = [receivable EXCEPT ![s] = rec]
  BY <1>1
<1>7. NextSaleStatus(s, after) \in {"returned", "partially_returned"}
  BY DEF NextSaleStatus
<1> DEFINE next == NextSaleStatus(s, after)
<1> HIDE DEF s, qty, refunds, refund, credit, rec, after
<1>8. PICK row : row = [sale[s] EXCEPT !.status = next]
  OBVIOUS
<1>9. row \in SaleRecords /\ row.status = next
      /\ row.qty = sale[s].qty /\ row.total = sale[s].total
  <2>1. next \in SaleStatuses /\ sale[s] \in SaleRecords
    BY <1>2, <1>4, <1>7 DEF SaleStatuses
  <2> HIDE DEF next
  <2> QED
    BY <1>8, <2>1, StatusRow
<1>10. sale' = [sale EXCEPT ![s] = row]
  BY <1>1, <1>8
<1>11. /\ sale' \in [Sales -> SaleRecords] /\ sale'[s] = row
       /\ \A t \in Sales : t # s => sale'[t] = sale[t]
  BY <1>2, <1>4, <1>9, <1>10
<1>12. Sold' = Sold
  <2>1. sale'[s].status \in {"returned", "partially_returned"}
    BY <1>7, <1>9, <1>11
  <2> QED
    BY <1>2, <1>11, <2>1 DEF Sold
<1>13. \A t \in Sales : sale'[t].qty = sale[t].qty /\ sale'[t].total = sale[t].total
  BY <1>9, <1>11
<1>14. /\ receivable' \in [Sales -> ReceivableRecords] /\ receivable'[s] = rec
       /\ \A t \in Sales : t # s => receivable'[t] = receivable[t]
  BY <1>2, <1>4, <1>5, <1>6
<1> DEFINE line == [i \in Items |-> refunded[s][i] + refunds[i]]
<1>15. line \in [Items -> Nat]
  BY <1>2, <1>4
<1>16. refunded' = [refunded EXCEPT ![s] = line]
  BY <1>1, <1>2, <1>4
<1>17. \A i \in Items : line[i] = refunded[s][i] + refunds[i]
  OBVIOUS
<1> HIDE DEF line
<1>18. /\ refunded' \in [Sales -> [Items -> Nat]]
       /\ \A i \in Items : refunded'[s][i] = refunded[s][i] + refunds[i]
       /\ \A t \in Sales : t # s => refunded'[t] = refunded[t]
  BY <1>2, <1>4, <1>15, <1>16, <1>17
<1>19. /\ paidOut' \in [Sales -> Nat]
       /\ paidOut'[s] = paidOut[s] + (refund - credit)
       /\ \A t \in Sales : t # s => paidOut'[t] = paidOut[t]
  <2>1. refund - credit \in Nat
    BY <1>3, <1>5
  <2> QED
    BY <1>1, <1>2, <1>4, <2>1
<1>20. /\ sale'[s].status = NextSaleStatus(s, after)
       /\ receivable'[s].amount = receivable[s].amount
       /\ receivable'[s].balance = receivable[s].balance - credit
       /\ returned' = [returned EXCEPT ![s] = after]
       /\ faulted' = faulted
  BY <1>1, <1>5, <1>9, <1>11, <1>14
<1> QED
  BY <1>3, <1>5, <1>11, <1>12, <1>13, <1>14, <1>18, <1>19, <1>20
     DEF s, qty, refunds, refund, credit, after

\* The part of it that the books are about: a return of qty that refunds
\* refund in all, of it credit against what is owed.
Settles(s, qty, refunds, after, refund, credit) ==
  /\ refund = Total(refunds)
  /\ \A i \in Items : after[i] = returned[s][i] + qty[i]
  /\ Post(-(refund - credit), -credit, -refund, -CostOf(qty))
  /\ Sold' = Sold
  /\ \A t \in Sales : sale'[t].qty = sale[t].qty /\ sale'[t].total = sale[t].total
  /\ receivable'[s].amount = receivable[s].amount
  /\ receivable'[s].balance = receivable[s].balance - credit
  /\ \A t \in Sales : t # s => receivable'[t] = receivable[t]
  /\ returned' = [returned EXCEPT ![s] = after]
  /\ refunded' \in [Sales -> [Items -> Nat]]
  /\ \A i \in Items : refunded'[s][i] = refunded[s][i] + refunds[i]
  /\ \A t \in Sales : t # s => refunded'[t] = refunded[t]
  /\ paidOut'[s] = paidOut[s] + (refund - credit)
  /\ \A t \in Sales : t # s => paidOut'[t] = paidOut[t]

\* The books give back what a return takes out of the documents.
LEMMA BooksGiveBack ==
  ASSUME ShopInv, MoneyInv, NEW s \in Sold, NEW qty \in [Items -> Nat],
         NEW refunds \in [Items -> Nat], NEW after \in [Items -> Nat],
         NEW refund \in Nat, NEW credit \in Nat,
         Settles(s, qty, refunds, after, refund, credit)
  PROVE  books' \in [Accounts -> Int] /\ BooksMatchDocuments'
<1> DEFINE cost == CostOf(qty)
<1>1. /\ refund = Total(refunds)
      /\ Sold' = Sold
      /\ \A t \in Sales : sale'[t].qty = sale[t].qty /\ sale'[t].total = sale[t].total
      /\ receivable'[s].amount = receivable[s].amount
      /\ receivable'[s].balance = receivable[s].balance - credit
      /\ \A t \in Sales : t # s => receivable'[t] = receivable[t]
      /\ returned' = [returned EXCEPT ![s] = after]
      /\ refunded' \in [Sales -> [Items -> Nat]]
      /\ \A i \in Items : refunded'[s][i] = refunded[s][i] + refunds[i]
      /\ \A t \in Sales : t # s => refunded'[t] = refunded[t]
      /\ paidOut'[s] = paidOut[s] + (refund - credit)
      /\ \A t \in Sales : t # s => paidOut'[t] = paidOut[t]
  BY DEF Settles
<1>2. Post(-(refund - credit), -credit, -refund, -cost)
  BY DEF Settles
<1>3. s \in Sales
  BY DEF Sold
<1>4. \A i \in Items : after[i] = returned[s][i] + qty[i]
  BY DEF Settles
<1>5. /\ MoneyTypes /\ books \in [Accounts -> Int]
      /\ sale[s].qty \in [Items -> Nat] /\ sale[s].total \in [Items -> Nat]
      /\ refunded[s] \in [Items -> Int] /\ paidOut[s] \in Int
      /\ receivable[s].amount \in Int /\ receivable[s].balance \in Int
      /\ returned \in [Sales -> [Items -> Nat]]
  BY <1>3, MoneyRow DEF ShopInv, DocumentInv, ReturnRows, MoneyInv, MoneyTypes
<1>6. /\ returned'[s] = after /\ \A t \in Sales : t # s => returned'[t] = returned[t]
  BY <1>1, <1>3, <1>5
<1>7. /\ IsFiniteSet(Sold) /\ Sold \subseteq Sales
      /\ \A t \in Sold : /\ Received[t] \in Int /\ Owed[t] \in Int
                         /\ Revenue[t] \in Int /\ CostOut[t] \in Int
      /\ Kept(s) \in [Items -> Int]
  BY <1>3, <1>5, TermsAreInts
<1>8. CostOut'[s] = CostOut[s] - cost /\ cost \in Int
  <2>1. Kept(s)' = [i \in Items |-> sale[s].qty[i] - after[i]]
    BY <1>1, <1>3, <1>6 DEF Kept
  <2>2. /\ Kept(s)' \in [Items -> Int] /\ qty \in [Items -> Int]
        /\ \A i \in Items : Kept(s)[i] = (Kept(s)')[i] + qty[i]
    BY <1>3, <1>4, <1>5, <2>1 DEF Kept
  <2>3. /\ CostOf(Kept(s)) = CostOf(Kept(s)') + cost
        /\ CostOf(Kept(s)') \in Int /\ cost \in Int
    <3>1. PICK k : k = Kept(s)'
      OBVIOUS
    <3> QED
      BY <1>7, <2>2, <3>1, CostPlus
  <2>4. CostOut'[s] = CostOf(Kept(s)') /\ CostOut[s] = CostOf(Kept(s))
    BY <1>3 DEF CostOut
  <2> QED
    BY <2>3, <2>4
<1>9. Revenue'[s] = Revenue[s] - refund
  <2>1. PICK new : new = refunded'[s]
    OBVIOUS
  <2>2. new \in [Items -> Int] /\ \A i \in Items : new[i] = refunded[s][i] + refunds[i]
    BY <1>1, <1>3, <2>1
  <2>3. refunds \in [Items -> Int]
    OBVIOUS
  <2>4. Total(new) = Total(refunded[s]) + refund
    BY <1>1, <1>5, <2>2, <2>3, TotalPlus
  <2>5. Total(sale[s].total) \in Int /\ Total(refunded[s]) \in Int
    BY <1>5, TotalNat, TotalInt
  <2>6. Revenue'[s] = Total(sale[s].total) - Total(new)
    BY <1>1, <1>3, <2>1 DEF Revenue
  <2>7. Revenue[s] = Total(sale[s].total) - Total(refunded[s])
    BY <1>3 DEF Revenue
  <2> QED
    BY <2>4, <2>5, <2>6, <2>7
<1>10. Received'[s] = Received[s] - (refund - credit) /\ Owed'[s] = Owed[s] - credit
  <2>1. Total(sale[s].total) \in Int
    BY <1>5, TotalNat
  <2>2. Received'[s] = Total(sale[s].total) - receivable[s].amount
                         - (paidOut[s] + (refund - credit))
    BY <1>1, <1>3 DEF Received
  <2>3. Received[s] = Total(sale[s].total) - receivable[s].amount - paidOut[s]
    BY <1>3 DEF Received
  <2>4. Owed'[s] = receivable[s].balance - credit /\ Owed[s] = receivable[s].balance
    BY <1>1, <1>3 DEF Owed
  <2> QED
    BY <1>5, <2>1, <2>2, <2>3, <2>4
<1>11. \A t \in Sold \ {s} : /\ Received'[t] = Received[t] /\ Owed'[t] = Owed[t]
                             /\ Revenue'[t] = Revenue[t] /\ CostOut'[t] = CostOut[t]
  <2> SUFFICES ASSUME NEW t \in Sold \ {s}
               PROVE  /\ Received'[t] = Received[t] /\ Owed'[t] = Owed[t]
                      /\ Revenue'[t] = Revenue[t] /\ CostOut'[t] = CostOut[t]
    OBVIOUS
  <2>1. t \in Sales /\ t # s
    BY <1>7
  <2>2. Kept(t)' = Kept(t)
    BY <1>1, <1>6, <2>1 DEF Kept
  <2> QED
    BY <1>1, <2>1, <2>2 DEF Received, Owed, Revenue, CostOut
<1> HIDE DEF cost
<1>12. \A t \in Sold : /\ Received'[t] \in Int /\ Owed'[t] \in Int
                       /\ Revenue'[t] \in Int /\ CostOut'[t] \in Int
  <2> SUFFICES ASSUME NEW t \in Sold
               PROVE  /\ Received'[t] \in Int /\ Owed'[t] \in Int
                      /\ Revenue'[t] \in Int /\ CostOut'[t] \in Int
    OBVIOUS
  <2>1. CASE t = s
    BY <1>3, <1>7, <1>8, <1>9, <1>10, <2>1
  <2>2. CASE t # s
    BY <1>7, <1>11, <2>2
  <2> QED
    BY <2>1, <2>2
<1>13. SumOver(Received', Sold) = SumOver(Received, Sold) - Received[s] + Received'[s]
  BY <1>3, <1>7, <1>11, <1>12, SumChange
<1>14. SumOver(Owed', Sold) = SumOver(Owed, Sold) - Owed[s] + Owed'[s]
  BY <1>3, <1>7, <1>11, <1>12, SumChange
<1>15. SumOver(Revenue', Sold) = SumOver(Revenue, Sold) - Revenue[s] + Revenue'[s]
  BY <1>3, <1>7, <1>11, <1>12, SumChange
<1>16. SumOver(CostOut', Sold) = SumOver(CostOut, Sold) - CostOut[s] + CostOut'[s]
  BY <1>3, <1>7, <1>11, <1>12, SumChange
<1>17. /\ SumOver(Received, Sold) \in Int /\ SumOver(Owed, Sold) \in Int
       /\ SumOver(Revenue, Sold) \in Int /\ SumOver(CostOut, Sold) \in Int
       /\ Received[s] \in Int /\ Owed[s] \in Int /\ Revenue[s] \in Int /\ CostOut[s] \in Int
  BY <1>3, <1>7, SumInt
<1>18. /\ SumOver(Received', Sold') = SumOver(Received, Sold) - (refund - credit)
       /\ SumOver(Owed', Sold') = SumOver(Owed, Sold) - credit
       /\ SumOver(Revenue', Sold') = SumOver(Revenue, Sold) - refund
       /\ SumOver(CostOut', Sold') = SumOver(CostOut, Sold) - cost
  BY <1>1, <1>8, <1>9, <1>10, <1>13, <1>14, <1>15, <1>16, <1>17
<1>19. /\ books["CASH"] = SumOver(Received, Sold)
       /\ books["AR"] = SumOver(Owed, Sold)
       /\ books["SALES"] = -SumOver(Revenue, Sold)
       /\ books["COGS"] = SumOver(CostOut, Sold)
       /\ books["INVENTORY"] = -SumOver(CostOut, Sold)
  BY BooksAreSums DEF MoneyInv
<1>20. PICK cash \in Int, ar \in Int, revenue \in Int, goods \in Int :
         /\ cash = -(refund - credit) /\ ar = -credit
         /\ revenue = -refund /\ goods = -cost
  BY <1>8
<1>21. /\ books' \in [Accounts -> Int]
       /\ books'["CASH"] = books["CASH"] + cash
       /\ books'["AR"] = books["AR"] + ar
       /\ books'["SALES"] = books["SALES"] - revenue
       /\ books'["COGS"] = books["COGS"] + goods
       /\ books'["INVENTORY"] = books["INVENTORY"] - goods
  BY <1>2, <1>5, <1>20, Posted
<1>22. /\ books'["CASH"] = SumOver(Received', Sold')
       /\ books'["AR"] = SumOver(Owed', Sold')
  BY <1>17, <1>18, <1>19, <1>20, <1>21
<1>23. books'["SALES"] = -SumOver(Revenue', Sold')
  BY <1>17, <1>18, <1>19, <1>20, <1>21
<1>24. /\ books'["COGS"] = SumOver(CostOut', Sold')
       /\ books'["INVENTORY"] = -SumOver(CostOut', Sold')
  BY <1>8, <1>17, <1>18, <1>19, <1>20, <1>21
<1> QED
  BY <1>21, <1>22, <1>23, <1>24, BooksNextAreSums

LEMMA PostReturnBooks ==
  ASSUME ShopInv, MoneyInv, NEW r \in Returns, PostReturn(r)
  PROVE  books' \in [Accounts -> Int] /\ BooksMatchDocuments'
<1> DEFINE z == ret[r].sale
           claim == ret[r].qty
           back == LineRefunds(z, claim)
           sum == Total(back)
           paid == ReceivableCredit(z, sum)
           new == [i \in Items |-> returned[z][i] + claim[i]]
<1>1. /\ z \in Sold /\ claim \in [Items -> Nat] /\ back \in [Items -> Nat]
      /\ new \in [Items -> Nat]
  <2>1. Postable(r)
    BY DEF PostReturn
  <2> QED
    BY <2>1, RefundRows
<1>2. sum \in Nat /\ paid \in Nat
  BY PostReturnRows
<1>3. Settles(z, claim, back, new, sum, paid)
  <2>1. Post(-(sum - paid), -paid, -sum, -CostOf(claim))
    BY DEF PostReturn
  <2> QED
    BY <2>1, PostReturnRows DEF Settles
<1> HIDE DEF z, claim, back, sum, paid, new
<1>4. PICK s \in Sold, qty \in [Items -> Nat], refunds \in [Items -> Nat],
           after \in [Items -> Nat], refund \in Nat, credit \in Nat :
        Settles(s, qty, refunds, after, refund, credit)
  BY <1>1, <1>2, <1>3
<1> QED
  BY <1>4, BooksGiveBack

\* Posting a return.
LEMMA PostReturnMoney ==
  ASSUME ShopInv, MoneyInv, NEW r \in Returns, PostReturn(r)
  PROVE  MoneyInv'
<1> DEFINE s == ret[r].sale
           qty == ret[r].qty
           refunds == LineRefunds(s, qty)
           after == [i \in Items |-> returned[s][i] + qty[i]]
<1>1. /\ Sold' = Sold
      /\ sale' \in [Sales -> SaleRecords]
      /\ sale'[s].status = NextSaleStatus(s, after)
      /\ \A t \in Sales : /\ sale'[t].qty = sale[t].qty
                          /\ sale'[t].total = sale[t].total
                          /\ t # s => sale'[t] = sale[t]
      /\ receivable' \in [Sales -> ReceivableRecords]
      /\ \A t \in Sales : t # s => receivable'[t] = receivable[t]
      /\ returned' = [returned EXCEPT ![s] = after]
      /\ refunded' \in [Sales -> [Items -> Nat]]
      /\ \A i \in Items : refunded'[s][i] = refunded[s][i] + refunds[i]
      /\ \A t \in Sales : t # s => refunded'[t] = refunded[t]
      /\ paidOut' \in [Sales -> Nat]
      /\ \A t \in Sales : t # s => paidOut'[t] = paidOut[t]
      /\ faulted' = faulted
  BY PostReturnRows
<1>2. /\ s \in Sold /\ s \in Sales /\ qty \in [Items -> Nat]
      /\ LinesOf(qty) # {}
      /\ after \in [Items -> Nat]
      /\ \A i \in Items : after[i] <= sale[s].qty[i]
      /\ \A i \in Items : refunded[s][i] + refunds[i] =
           IF sale[s].qty[i] = 0 THEN 0
           ELSE (sale[s].total[i] * after[i]) \div sale[s].qty[i]
  <2>1. Postable(r)
    BY DEF PostReturn
  <2> QED
    BY <2>1, RefundRows
<1>3. books' \in [Accounts -> Int] /\ BooksMatchDocuments'
  BY PostReturnBooks
<1>4. /\ returned \in [Sales -> [Items -> Nat]]
      /\ sale[s].qty \in [Items -> Nat]
      /\ sale[s].status # "none"
  BY <1>2, MoneyRow DEF MoneyInv, ShopInv, DocumentInv, ReturnRows, Sold
<1>5. \A i \in Items : after[i] = returned[s][i] + qty[i] /\ returned[s][i] \in Nat
  BY <1>2, <1>4
<1> HIDE DEF s, qty, refunds, after
<1>6. /\ returned'[s] = after /\ \A t \in Sales : t # s => returned'[t] = returned[t]
  BY <1>1, <1>2, <1>4
<1>7. MoneyTypes'
  BY <1>1, <1>3 DEF MoneyInv, MoneyTypes
<1>8. LinesKept'
  <2> SUFFICES ASSUME NEW t \in Sales, sale'[t].status # "none"
               PROVE  LinesOf(sale'[t].qty) # {}
    BY DEF LinesKept, LinesOf
  <2> QED
    BY <1>1, <1>4 DEF MoneyInv, LinesKept
<1>9. NothingBeforePosting'
  BY <1>1, <1>2 DEF MoneyInv, NothingBeforePosting
<1>10. RefundsFloor'
  <2> SUFFICES ASSUME NEW t \in Sales, NEW i \in Items
               PROVE  refunded'[t][i] = IF sale'[t].qty[i] = 0 THEN 0
                        ELSE (sale'[t].total[i] * returned'[t][i]) \div sale'[t].qty[i]
    BY DEF RefundsFloor
  <2>1. CASE t = s
    BY <1>1, <1>2, <1>6, <2>1
  <2>2. CASE t # s
    BY <1>1, <1>6, <2>2 DEF MoneyInv, RefundsFloor
  <2> QED
    BY <2>1, <2>2
<1>11. SaleStatusTellsReturns'
  <2>1. Tells(sale'[s], after)
    <3>1. PICK i \in Items : qty[i] > 0
      BY <1>2 DEF LinesOf
    <3>2. after[i] # 0
      <4>1. qty[i] \in Nat
        BY <1>2
      <4> QED
        BY <1>5, <3>1, <4>1
    <3>3. \A j \in Items : /\ after[j] \in Nat /\ sale[s].qty[j] \in Nat
                           /\ after[j] <= sale[s].qty[j]
      BY <1>2, <1>4
    <3>4. sale'[s].status = IF \A j \in LinesOf(sale[s].qty) : after[j] = sale[s].qty[j]
                              THEN "returned" ELSE "partially_returned"
      <4>1. LinesOf(sale[s].qty) \subseteq Items
        BY DEF LinesOf
      <4>2. \A j \in LinesOf(sale[s].qty) :
              after[j] >= sale[s].qty[j] <=> after[j] = sale[s].qty[j]
        BY <3>3, <4>1
      <4>3. NextSaleStatus(s, after) =
              IF \A j \in LinesOf(sale[s].qty) : after[j] = sale[s].qty[j]
                THEN "returned" ELSE "partially_returned"
        BY <4>2 DEF NextSaleStatus
      <4> QED
        BY <1>1, <4>3
    <3>5. sale'[s].qty = sale[s].qty
      BY <1>1, <1>2
    <3> QED
      BY <3>2, <3>3, <3>4, <3>5 DEF Tells, SoldStatuses
  <2>2. \A t \in Sales : Tells(sale[t], returned[t])
    BY StatusByRow DEF MoneyInv
  <2>3. \A t \in Sales : Tells(sale'[t], returned'[t])
    BY <1>1, <1>6, <2>1, <2>2
  <2> QED
    BY <2>3, StatusByRowNext
<1> QED
  BY <1>3, <1>7, <1>8, <1>9, <1>10, <1>11 DEF MoneyInv

\* The books open empty.
LEMMA MoneyInitInv == Init => MoneyInv
<1> SUFFICES ASSUME Init PROVE MoneyInv
  OBVIOUS
<1>1. NoLines \in [Items -> Nat] /\ \A i \in Items : NoLines[i] = 0
  BY DEF NoLines
<1>2. Sold = {}
  BY DEF Init, SaleInit, Sold
<1>3. \A s \in Sales :
        /\ sale[s] = [status |-> "none", held |-> FALSE, loc |-> NoLocation,
                      qty |-> NoLines, total |-> NoLines]
        /\ receivable[s] = [amount |-> 0, paid |-> 0, credited |-> 0,
                            balance |-> 0, status |-> "none"]
        /\ returned[s] = NoLines /\ refunded[s] = NoLines /\ paidOut[s] = 0
  BY DEF Init, SaleInit, ReturnInit
<1>4. MoneyTypes
  BY <1>1 DEF Init, SaleInit, ReturnInit, MoneyTypes, SaleRecords, SaleStatuses,
              ReceivableRecords, ReceivableStatuses
<1>5. LinesKept
  BY <1>3 DEF LinesKept
<1>6. NothingBeforePosting
  BY <1>3 DEF NothingBeforePosting
<1>7. RefundsFloor
  BY <1>1, <1>3 DEF RefundsFloor
<1>8. SaleStatusTellsReturns
  BY <1>1, <1>2, <1>3 DEF SaleStatusTellsReturns
<1>9. BooksMatchDocuments
  <2>1. \A a \in Accounts : books[a] = 0
    BY DEF Init, SaleInit
  <2>2. \A f : SumOver(f, Sold) = 0
    BY <1>2, SumEmpty
  <2>3. /\ SumOver(Received, Sold) = 0 /\ SumOver(Owed, Sold) = 0
        /\ SumOver(Revenue, Sold) = 0 /\ SumOver(CostOut, Sold) = 0
    BY <2>2
  <2> QED
    BY <2>1, <2>3, BooksAreSums DEF Accounts
<1> QED
  BY <1>4, <1>5, <1>6, <1>7, <1>8, <1>9 DEF MoneyInv

-----------------------------------------------------------------------------
\* Every step of the shop keeps the documents and the books in agreement.
LEMMA MoneyStepInv == ShopInv /\ MoneyInv /\ [Next]_vars => MoneyInv'
<1> SUFFICES ASSUME ShopInv, MoneyInv, [Next]_vars PROVE MoneyInv'
  OBVIOUS
<1>1. faulted \subseteq Returns
  BY DEF MoneyInv, MoneyTypes
<1>2. CASE StockStep /\ UNCHANGED returnVars
  BY <1>1, <1>2, MoneyKept DEF StockStep, saleVars, returnVars
<1>3. CASE SaleStep /\ UNCHANGED returnVars
  <2>1. ASSUME NEW s \in Sales, NEW units \in SUBSET Units,
               NEW q \in LineQuantities \cup {0},
               NEW l \in Locations \cup {NoLocation}, NEW discount \in Discounts,
               \/ CreateDraft(s, units, q, l, discount)
               \/ ReplaceDraft(s, units, q, l, discount)
        PROVE  MoneyInv'
    <3>1. WriteDraft(s, units, q, l, discount) /\ s \notin Sold
      BY <2>1 DEF CreateDraft, ReplaceDraft, Sold
    <3> QED
      BY <1>3, <3>1, WriteDraftMoney
  <2>2. ASSUME NEW s \in Sales, Hold(s) \/ Cancel(s)
        PROVE  MoneyInv'
    BY <1>3, <2>2, HoldMoney
  <2>3. ASSUME NEW s \in Sales, NEW credit \in CreditAmounts, PostSale(s, credit)
        PROVE  MoneyInv'
    BY <1>3, <2>3, PostSaleMoney
  <2> QED
    BY <1>3, <2>1, <2>2, <2>3 DEF SaleStep
<1>4. CASE ReturnStep
  <2>1. ASSUME NEW r \in Returns, NEW s \in Sales, NEW units \in SUBSET Units,
               NEW q \in LineQuantities \cup {0}, CreateReturnDraft(r, s, units, q)
        PROVE  MoneyInv'
    BY <1>1, <2>1, MoneyKept DEF CreateReturnDraft, saleVars
  <2>2. ASSUME NEW r \in Returns, PostReturn(r) PROVE MoneyInv'
    BY <2>2, PostReturnMoney
  <2>3. ASSUME NEW r \in Returns, PostReturnRefused(r) PROVE MoneyInv'
    <3>1. /\ UNCHANGED saleVars /\ UNCHANGED <<returned, refunded, paidOut>>
          /\ faulted' \subseteq Returns
      BY <1>1, <2>3 DEF PostReturnRefused
    <3> QED
      BY <3>1, MoneyKept DEF saleVars
  <2> QED
    BY <1>4, <2>1, <2>2, <2>3 DEF ReturnStep
<1>5. CASE UNCHANGED vars
  BY <1>1, <1>5, MoneyKept DEF vars, saleVars, returnVars
<1> QED
  BY <1>2, <1>3, <1>4, <1>5 DEF Next

\* Documents, their sums and the books agree in every reachable state of the
\* shop: the base of the theorems below.
THEOREM MoneyInvariant == Spec => []MoneyInv
<1>1. Init => ShopInv /\ MoneyInv
  BY ShopInitInv, MoneyInitInv
<1>2. (ShopInv /\ MoneyInv) /\ [Next]_vars => (ShopInv /\ MoneyInv)'
  BY ShopStepInv, MoneyStepInv
<1> QED
  BY <1>1, <1>2, PTL DEF Spec

\* The tables of the shop stay well typed: no stock, line total, refunded line,
\* paid refund or open balance goes below zero, and the ledger has its accounts.
THEOREM ShopTyped == Spec => []TypeOK
<1>1. ShopInv /\ MoneyInv => TypeOK
  <2> SUFFICES ASSUME ShopInv, MoneyInv PROVE TypeOK
    OBVIOUS
  <2>1. StockTypeOK
    BY DEF ShopInv, StockInv
  <2>2. SaleTypeOK
    BY DEF MoneyInv, MoneyTypes, SaleTypeOK, SaleRecords, ReceivableRecords
  <2>3. ReturnTypeOK
    BY DEF MoneyInv, MoneyTypes, ShopInv, DocumentInv, ReturnRows, ReturnTypeOK
  <2> QED
    BY <2>1, <2>2, <2>3 DEF TypeOK
<1> QED
  BY <1>1, ShopInvariant, MoneyInvariant, PTL

\* However a sale comes back, no line refunds more than was paid for it, and a
\* line that is all back has refunded it to the last minor unit.
THEOREM RefundsExact == Spec => []RefundsTelescope
<1>1. ShopInv /\ MoneyInv => RefundsTelescope
  <2> SUFFICES ASSUME ShopInv, MoneyInv, NEW s \in Sold, NEW i \in LinesOf(sale[s].qty)
               PROVE  /\ 0 <= refunded[s][i] /\ refunded[s][i] <= sale[s].total[i]
                      /\ returned[s][i] = sale[s].qty[i]
                           => refunded[s][i] = sale[s].total[i]
    BY DEF RefundsTelescope
  <2> DEFINE t == sale[s].total[i]
             n == sale[s].qty[i]
             k == returned[s][i]
  <2>1. s \in Sales /\ i \in Items /\ n > 0
    BY DEF Sold, LinesOf
  <2>2. t \in Nat /\ n \in Nat /\ k \in Nat
    BY <2>1, MoneyRow DEF MoneyInv, ShopInv, DocumentInv, ReturnRows
  <2>3. k <= n
    BY <2>1 DEF MoneyInv, SaleStatusTellsReturns
  <2>4. refunded[s][i] = (t * k) \div n
    BY <2>1, <2>2 DEF MoneyInv, RefundsFloor
  <2> HIDE DEF t, n, k
  <2>5. (t * k) \div n \in 0..t /\ (t * n) \div n = t
    BY <2>1, <2>2, <2>3, PartOf
  <2>6. 0 <= refunded[s][i] /\ refunded[s][i] <= t /\ (k = n => refunded[s][i] = t)
    BY <2>2, <2>4, <2>5
  <2> QED
    BY <2>6 DEF t, n, k
<1> QED
  BY <1>1, ShopInvariant, MoneyInvariant, PTL

\* The status of a sale says whether nothing, some or all of it came back, and
\* no line comes back more often than it was sold.
THEOREM StatusTellsReturns == Spec => []SaleStatusTellsReturns
<1>1. MoneyInv => SaleStatusTellsReturns
  BY DEF MoneyInv
<1> QED
  BY <1>1, MoneyInvariant, PTL

\* Every account of the ledger is, at any time, the sum that the posted sales,
\* receivables, returns and refunds say it is.
THEOREM BooksAgree == Spec => []BooksMatchDocuments
<1>1. MoneyInv => BooksMatchDocuments
  BY DEF MoneyInv
<1> QED
  BY <1>1, MoneyInvariant, PTL

-----------------------------------------------------------------------------
(* What the documents say of prices and debts.                              *)

\* A sale's lines: a unit at most once, no line above its list price, and
\* together the list price less one discount.
LinesPriced ==
  \A s \in Sales : sale[s].status # "none" =>
    /\ \A u \in Units : sale[s].qty[u] <= 1
    /\ \A i \in Items : sale[s].total[i] <= Price[i] * sale[s].qty[i]
    /\ \E d \in Discounts : Total(sale[s].total) = Total(ListPrice(sale[s].qty)) - d

\* Nothing is owed on a receivable that does not say so.
PaidOwesNothing ==
  \A s \in Sales : receivable[s].status \notin {"open", "partially_paid"} =>
                     receivable[s].balance = 0

TermsInv == LinesPriced /\ PaidOwesNothing

\* Steps that write no cart and no receivable.
LEMMA PricesKept ==
  ASSUME LinesPriced,
         \A t \in Sales : /\ sale'[t].qty = sale[t].qty /\ sale'[t].total = sale[t].total
                          /\ sale'[t].status # "none" => sale[t].status # "none"
  PROVE  LinesPriced'
  BY DEF LinesPriced

LEMMA TermsKept ==
  ASSUME TermsInv, UNCHANGED <<sale, receivable>>
  PROVE  TermsInv'
  BY DEF TermsInv, LinesPriced, PaidOwesNothing

\* createDraft and replaceDraft.
LEMMA WriteDraftTerms ==
  ASSUME MoneyInv, TermsInv, NEW s \in Sales, NEW units \in SUBSET Units,
         NEW q \in LineQuantities \cup {0}, NEW l, NEW discount \in Discounts,
         WriteDraft(s, units, q, l, discount)
  PROVE  TermsInv'
<1> DEFINE qty == Cart(units, q)
<1>1. /\ LinesOf(qty) # {} /\ discount <= Total(ListPrice(qty))
      /\ receivable' = receivable
  BY DEF WriteDraft, ListPrice
<1>2. PICK total \in LineTotals(qty, discount) :
        sale' = [sale EXCEPT ![s] = [status |-> "draft", held |-> FALSE,
                                     loc |-> l, qty |-> qty, total |-> total]]
  BY DEF WriteDraft
<1>3. qty \in [Items -> Nat] /\ discount \in Nat
  BY CartQuantities, LineQuantitiesType, SaleAmountAssumption
<1>4. \A u \in Units : qty[u] <= 1
  BY GoodsAssumption DEF Cart, Items
<1> HIDE DEF qty
<1>5. /\ \A i \in Items : total[i] <= Price[i] * qty[i]
      /\ Total(total) = Total(ListPrice(qty)) - discount
  BY <1>1, <1>2, <1>3, DraftPriced
<1>6. /\ sale'[s].qty = qty /\ sale'[s].total = total
      /\ \A t \in Sales : t # s => sale'[t] = sale[t]
  BY <1>2 DEF MoneyInv, MoneyTypes
<1>7. LinesPriced'
  <2> SUFFICES ASSUME NEW t \in Sales, sale'[t].status # "none"
               PROVE  /\ \A u \in Units : sale'[t].qty[u] <= 1
                      /\ \A i \in Items : sale'[t].total[i] <= Price[i] * sale'[t].qty[i]
                      /\ \E d \in Discounts :
                           Total(sale'[t].total) = Total(ListPrice(sale'[t].qty)) - d
    BY DEF LinesPriced
  <2>1. CASE t = s
    BY <1>4, <1>5, <1>6, <2>1
  <2>2. CASE t # s
    BY <1>6, <2>2 DEF TermsInv, LinesPriced
  <2> QED
    BY <2>1, <2>2
<1>8. PaidOwesNothing'
  BY <1>1 DEF TermsInv, PaidOwesNothing
<1> QED
  BY <1>7, <1>8 DEF TermsInv

\* hold and cancel.
LEMMA HoldTerms ==
  ASSUME MoneyInv, TermsInv, NEW s \in Sales, Hold(s) \/ Cancel(s)
  PROVE  TermsInv'
<1>1. sale[s].status = "draft" /\ receivable' = receivable
  BY DEF Hold, Cancel
<1>2. sale \in [Sales -> SaleRecords]
  BY DEF MoneyInv, MoneyTypes
<1>3. sale'[s].qty = sale[s].qty /\ sale'[s].total = sale[s].total
  BY <1>2 DEF Hold, Cancel, SaleRecords
<1>4. \A t \in Sales : t # s => sale'[t] = sale[t]
  BY <1>2 DEF Hold, Cancel
<1>5. LinesPriced'
  BY <1>1, <1>3, <1>4, PricesKept DEF TermsInv
<1>6. PaidOwesNothing'
  BY <1>1 DEF TermsInv, PaidOwesNothing
<1> QED
  BY <1>5, <1>6 DEF TermsInv

\* Posting a sale leaves its lines, and opens a receivable if it gives credit.
LEMMA PostSaleTerms ==
  ASSUME ShopInv, MoneyInv, TermsInv, UNCHANGED returnVars, NEW s \in Sales,
         NEW credit \in CreditAmounts, PostSale(s, credit)
  PROVE  TermsInv'
<1>1. /\ sale'[s].qty = sale[s].qty /\ sale'[s].total = sale[s].total
      /\ \A t \in Sales : t # s => sale'[t] = sale[t] /\ receivable'[t] = receivable[t]
  BY PostSaleRows
<1>2. sale[s].status = "draft"
  BY DEF PostSale
<1>3. LinesPriced'
  BY <1>1, <1>2, PricesKept DEF TermsInv
<1>4. receivable'[s].status \notin {"open", "partially_paid"} => receivable'[s].balance = 0
  <2>1. receivable \in [Sales -> ReceivableRecords]
    BY DEF MoneyInv, MoneyTypes
  <2>2. CASE credit = 0
    <3>1. receivable' = receivable
      BY <2>2 DEF PostSale
    <3> QED
      BY <3>1 DEF TermsInv, PaidOwesNothing
  <2>3. CASE credit # 0
    <3>1. receivable'[s].status = "open"
      BY <2>1, <2>3 DEF PostSale
    <3> QED
      BY <3>1
  <2> QED
    BY <2>2, <2>3
<1>5. PaidOwesNothing'
  BY <1>1, <1>4 DEF TermsInv, PaidOwesNothing
<1> QED
  BY <1>3, <1>5 DEF TermsInv

\* A credit is the refund or the open balance, whichever is less, and what is
\* paid off says so.
LEMMA CreditIsTheLess ==
  ASSUME MoneyTypes, PaidOwesNothing, NEW s \in Sales, NEW refund \in Nat
  PROVE  LET credit == ReceivableCredit(s, refund)
             rec == CreditedReceivable(receivable[s], credit)
         IN  /\ credit = IF refund < receivable[s].balance THEN refund
                         ELSE receivable[s].balance
             /\ rec.status \notin {"open", "partially_paid"} => rec.balance = 0
<1> DEFINE credit == ReceivableCredit(s, refund)
<1>1. PICK old \in ReceivableRecords : old = receivable[s]
  BY MoneyRow
<1>2. old.balance \in Nat
  BY DEF ReceivableRecords
<1>3. old.status \notin {"open", "partially_paid"} => old.balance = 0
  BY <1>1 DEF PaidOwesNothing
<1>4. credit = IF refund < old.balance THEN refund ELSE old.balance
  BY <1>1, <1>2, <1>3 DEF ReceivableCredit
<1> HIDE DEF credit
<1>5. CASE credit = 0
  BY <1>1, <1>3, <1>4, <1>5 DEF CreditedReceivable, credit
<1>6. CASE credit # 0
  <2> DEFINE st == IF old.balance - credit <= 0 THEN "paid" ELSE "partially_paid"
  <2>1. PICK rec : rec = [old EXCEPT !.credited = old.credited + credit,
                                     !.balance = old.balance - credit,
                                     !.status = st]
    OBVIOUS
  <2>2. rec = CreditedReceivable(receivable[s], credit)
    BY <1>1, <1>6, <2>1 DEF CreditedReceivable
  <2> HIDE DEF st
  <2>3. rec = [amount |-> old.amount, paid |-> old.paid,
               credited |-> old.credited + credit,
               balance |-> old.balance - credit, status |-> st]
    BY <2>1 DEF ReceivableRecords
  <2>4. rec.balance = old.balance - credit /\ rec.status = st
    BY <2>3
  <2>5. st \notin {"open", "partially_paid"} => old.balance - credit = 0
    BY <1>2, <1>4 DEF st
  <2> QED
    BY <1>1, <1>4, <2>2, <2>4, <2>5 DEF credit
<1> QED
  BY <1>5, <1>6

\* Posting a return leaves the lines, and credits the receivable.
LEMMA PostReturnTerms ==
  ASSUME ShopInv, MoneyInv, TermsInv, NEW r \in Returns, PostReturn(r)
  PROVE  TermsInv'
<1> DEFINE s == ret[r].sale
           refund == Total(LineRefunds(s, ret[r].qty))
           credit == ReceivableCredit(s, refund)
<1>1. /\ refund \in Nat
      /\ \A t \in Sales : /\ sale'[t].qty = sale[t].qty /\ sale'[t].total = sale[t].total
                          /\ t # s => sale'[t] = sale[t]
                          /\ t # s => receivable'[t] = receivable[t]
  BY PostReturnRows
<1>2. s \in Sales /\ s \in Sold
  BY ClaimRow DEF PostReturn
<1>3. LinesPriced'
  <2>1. sale[s].status # "none"
    BY <1>2 DEF Sold
  <2> HIDE DEF s
  <2> QED
    BY <1>1, <2>1, PricesKept DEF TermsInv
<1>4. receivable' = [receivable EXCEPT ![s] = CreditedReceivable(@, credit)]
  BY DEF PostReturn
<1> HIDE DEF s, refund
<1>5. receivable'[s] = CreditedReceivable(receivable[s], credit)
  BY <1>2, <1>4 DEF MoneyInv, MoneyTypes
<1>6. receivable'[s].status \notin {"open", "partially_paid"} => receivable'[s].balance = 0
  BY <1>1, <1>2, <1>5, CreditIsTheLess DEF MoneyInv, TermsInv
<1>7. PaidOwesNothing'
  BY <1>1, <1>6 DEF TermsInv, PaidOwesNothing
<1> QED
  BY <1>3, <1>7 DEF TermsInv

LEMMA TermsInitInv == Init => TermsInv
  BY DEF Init, SaleInit, TermsInv, LinesPriced, PaidOwesNothing

\* Every step of the shop keeps prices and debts in order.
LEMMA TermsStepInv == ShopInv /\ MoneyInv /\ TermsInv /\ [Next]_vars => TermsInv'
<1> SUFFICES ASSUME ShopInv, MoneyInv, TermsInv, [Next]_vars PROVE TermsInv'
  OBVIOUS
<1>1. CASE StockStep /\ UNCHANGED returnVars
  BY <1>1, TermsKept DEF StockStep, saleVars
<1>2. CASE SaleStep /\ UNCHANGED returnVars
  <2>1. ASSUME NEW s \in Sales, NEW units \in SUBSET Units,
               NEW q \in LineQuantities \cup {0},
               NEW l \in Locations \cup {NoLocation}, NEW discount \in Discounts,
               \/ CreateDraft(s, units, q, l, discount)
               \/ ReplaceDraft(s, units, q, l, discount)
        PROVE  TermsInv'
    BY <2>1, WriteDraftTerms DEF CreateDraft, ReplaceDraft
  <2>2. ASSUME NEW s \in Sales, Hold(s) \/ Cancel(s)
        PROVE  TermsInv'
    BY <2>2, HoldTerms
  <2>3. ASSUME NEW s \in Sales, NEW credit \in CreditAmounts, PostSale(s, credit)
        PROVE  TermsInv'
    BY <1>2, <2>3, PostSaleTerms
  <2> QED
    BY <1>2, <2>1, <2>2, <2>3 DEF SaleStep
<1>3. CASE ReturnStep
  <2>1. ASSUME NEW r \in Returns, NEW s \in Sales, NEW units \in SUBSET Units,
               NEW q \in LineQuantities \cup {0}, CreateReturnDraft(r, s, units, q)
        PROVE  TermsInv'
    BY <2>1, TermsKept DEF CreateReturnDraft, saleVars
  <2>2. ASSUME NEW r \in Returns, PostReturn(r) PROVE TermsInv'
    BY <2>2, PostReturnTerms
  <2>3. ASSUME NEW r \in Returns, PostReturnRefused(r) PROVE TermsInv'
    BY <2>3, TermsKept DEF PostReturnRefused, saleVars
  <2> QED
    BY <1>3, <2>1, <2>2, <2>3 DEF ReturnStep
<1>4. CASE UNCHANGED vars
  BY <1>4, TermsKept DEF vars, saleVars
<1> QED
  BY <1>1, <1>2, <1>3, <1>4 DEF Next

-----------------------------------------------------------------------------
(* The shop implements Trade.                                               *)

\* The vocabulary of Trade is that of the shop.
LEMMA TradeItems ==
  /\ Trade!Items = Items
  /\ Trade!Nothing = NoLines
  BY DEF Trade!Items, Items, Trade!Nothing, NoLines

LEMMA TradeSum ==
  ASSUME NEW f, NEW S
  PROVE  Trade!SumOver(f, S) = SumOver(f, S)
  BY DEF Trade!SumOver, SumOver, Trade!MapThenSumSet, MapThenSumSet,
         Trade!MapThenFoldSet, MapThenFoldSet

LEMMA TradeWorth ==
  ASSUME NEW f
  PROVE  Trade!Worth(f) = Total(f)
  BY TradeItems, TradeSum, TotalIsSum DEF Trade!Worth

\* The state of Trade is made of integers.
LEMMA TradeRows ==
  ASSUME ShopInv, MoneyInv, NEW s \in Sales
  PROVE  /\ SoldLines(s) \in [Items -> Nat]
         /\ Deals[s].qty = SoldLines(s)
         /\ s \in Sold => SoldLines(s) = sale[s].qty /\ Deals[s].total = sale[s].total
         /\ s \notin Sold => SoldLines(s) = NoLines
         /\ InHands[s] = [i \in Items |-> SoldLines(s)[i] - returned[s][i]]
         /\ \A i \in Items : /\ returned[s][i] \in Nat
                             /\ returned[s][i] <= SoldLines(s)[i]
                             /\ InHands[s][i] = SoldLines(s)[i] - returned[s][i]
         /\ Debts[s] = receivable[s].balance /\ Debts[s] \in Nat
<1>1. /\ sale[s].qty \in [Items -> Nat] /\ NoLines \in [Items -> Nat]
      /\ receivable[s].balance \in Nat
  BY MoneyRow DEF MoneyInv, NoLines
<1>2. \A i \in Items : returned[s][i] \in Nat
  BY DEF ShopInv, DocumentInv, ReturnRows
<1>3. s \in Sold => \A i \in Items : returned[s][i] <= sale[s].qty[i]
  BY DEF MoneyInv, SaleStatusTellsReturns
<1>4. s \notin Sold => \A i \in Items : returned[s][i] = 0 /\ NoLines[i] = 0
  BY DEF ShopInv, DocumentInv, OnlySoldReturns, NoLines
<1>5. \A i \in Items : returned[s][i] <= SoldLines(s)[i]
  BY <1>1, <1>2, <1>3, <1>4 DEF SoldLines
<1> QED
  BY <1>1, <1>2, <1>5 DEF SoldLines, Deals, InHands, Debts

\* Nothing but posting a sale or a return and stock operations changes what
\* Trade is about.
LEMMA TradeKept ==
  ASSUME Sold' = Sold, returned' = returned, receivable' = receivable, books' = books,
         \A s \in Sold : sale'[s].qty = sale[s].qty /\ sale'[s].total = sale[s].total
  PROVE  UNCHANGED <<Deals, InHands, books["CASH"], Debts>>
<1>1. \A s \in Sales : SoldLines(s)' = SoldLines(s)
  BY DEF SoldLines
<1>2. Deals' = Deals
  BY <1>1 DEF Deals
<1>3. InHands' = InHands
  BY <1>1 DEF InHands
<1> QED
  BY <1>2, <1>3 DEF Debts

\* The free stock is what nobody has reserved; it never goes below zero.
LEMMA FreeIsNat ==
  ASSUME StockInv
  PROVE  Free \in [Locations -> Nat]
  BY DEF StockInv, StockTypeOK, ReservedIsOnHand, Free, Available

\* Issued goods leave the free stock of their location.
LEMMA IssueImplementsTaken ==
  ASSUME StockInv, NEW l, NEW q \in Nat,
         q > 0 => l \in Locations /\ Available(l) >= q,
         IssueGoods(l, q)
  PROVE  Trade!Taken(q)
<1>1. CASE q = 0
  BY <1>1 DEF IssueGoods, Trade!Taken, Free, Available
<1>2. CASE q > 0
  <2>1. batch' = [batch EXCEPT ![l].onHand = @ - q] /\ l \in Locations
    BY <1>2 DEF IssueGoods
  <2>2. \A k \in Locations : /\ batch[k].onHand \in Nat /\ batch[k].reserved \in Nat
                             /\ Free[k] = batch[k].onHand - batch[k].reserved
                             /\ Free'[k] = batch'[k].onHand - batch'[k].reserved
    BY BatchRows DEF Free, Available
  <2>3. /\ batch'[l].onHand = batch[l].onHand - q /\ batch'[l].reserved = batch[l].reserved
        /\ \A k \in Locations : k # l => batch'[k] = batch[k]
    BY <2>1, BatchRows
  <2>4. Free'[l] = Free[l] - q /\ \A k \in Locations : k # l => Free'[k] = Free[k]
    BY <2>1, <2>2, <2>3
  <2>5. DOMAIN Free = Locations /\ Free' = [k \in Locations |-> Free'[k]]
    BY DEF Free
  <2>6. Free' = [Free EXCEPT ![l] = @ - q]
    BY <2>1, <2>4, <2>5
  <2>7. q <= Free[l]
    BY <1>2, <2>1, <2>2 DEF Available
  <2>8. \E k \in Locations : q <= Free[k] /\ Free' = [Free EXCEPT ![k] = @ - q]
    BY <2>1, <2>6, <2>7, Zenon
  <2>9. q # 0
    BY <1>2
  <2> QED
    BY <2>8, <2>9, Zenon DEF Trade!Taken
<1> QED
  BY <1>1, <1>2

\* Restocked goods enter it.
LEMMA RestockImplementsPutBack ==
  ASSUME StockInv, NEW l, NEW q \in Nat, q > 0 => l \in Locations,
         RestockGoods(l, q)
  PROVE  Trade!PutBack(q)
<1>1. CASE q = 0
  BY <1>1 DEF RestockGoods, Trade!PutBack, Free, Available
<1>2. CASE q > 0
  <2>1. batch' = [batch EXCEPT ![l].onHand = @ + q] /\ l \in Locations
    BY <1>2 DEF RestockGoods
  <2>2. \A k \in Locations : /\ batch[k].onHand \in Nat /\ batch[k].reserved \in Nat
                             /\ Free[k] = batch[k].onHand - batch[k].reserved
                             /\ Free'[k] = batch'[k].onHand - batch'[k].reserved
    BY BatchRows DEF Free, Available
  <2>3. /\ batch'[l].onHand = batch[l].onHand + q /\ batch'[l].reserved = batch[l].reserved
        /\ \A k \in Locations : k # l => batch'[k] = batch[k]
    BY <2>1, BatchRows
  <2>4. Free'[l] = Free[l] + q /\ \A k \in Locations : k # l => Free'[k] = Free[k]
    BY <2>1, <2>2, <2>3
  <2>5. DOMAIN Free = Locations /\ Free' = [k \in Locations |-> Free'[k]]
    BY DEF Free
  <2>6. Free' = [Free EXCEPT ![l] = @ + q]
    BY <2>1, <2>4, <2>5
  <2>7. \E k \in Locations : Free' = [Free EXCEPT ![k] = @ + q]
    BY <2>1, <2>6, Zenon
  <2>8. q # 0
    BY <1>2
  <2> QED
    BY <2>7, <2>8, Zenon DEF Trade!PutBack
<1> QED
  BY <1>1, <1>2

\* What the credit policy adds up is all that is owed.
LEMMA OutstandingIsOwed ==
  ASSUME ShopInv, MoneyInv, TermsInv
  PROVE  /\ Outstanding = SumOver(Debts, Sales)
         /\ Outstanding \in Int
<1> DEFINE Open == {s \in Sales : receivable[s].status \in {"open", "partially_paid"}}
<1>1. \A s \in Sales : Debts[s] = receivable[s].balance /\ Debts[s] \in Int
  <2>1. \A s \in Sales : receivable[s].balance \in Nat
    BY MoneyRow DEF MoneyInv
  <2> QED
    BY <2>1 DEF Debts
<1>2. \A s \in Sales \ Open : Debts[s] = 0
  BY <1>1 DEF TermsInv, PaidOwesNothing
<1>3. Outstanding = SumOver(Debts, Open)
  BY DEF Outstanding, Debts
<1>4. Open \in SUBSET Sales /\ IsFiniteSet(Sales)
  BY FiniteAssumption
<1> HIDE DEF Open
<1>5. SumOver(Debts, Sales) = SumOver(Debts, Open) /\ SumOver(Debts, Sales) \in Int
  BY <1>1, <1>2, <1>4, SumRestrict, SumInt
<1> QED
  BY <1>3, <1>5

\* Who is given a unit is the only one to have it.
LEMMA UnitsAreFree ==
  ASSUME ShopInv, MoneyInv, NEW u \in Units, ~SaleBarred(u), NEW t \in Sales
  PROVE  InHands[t][u] = 0
<1>1. u \in Items
  BY DEF Items
<1>2. /\ returned[t][u] \in Nat /\ returned[t][u] <= SoldLines(t)[u]
      /\ InHands[t][u] = SoldLines(t)[u] - returned[t][u]
      /\ SoldLines(t)[u] \in Nat
  BY <1>1, TradeRows
<1>3. SoldLines(t)[u] = 0
  <2>1. CASE t \in Sold
    <3>1. SoldLines(t)[u] = sale[t].qty[u] /\ ~(sale[t].qty[u] > 0)
      BY <2>1 DEF SaleBarred, SoldLines
    <3> QED
      BY <1>2, <3>1
  <2>2. CASE t \notin Sold
    BY <1>1, <2>2 DEF SoldLines, NoLines
  <2> QED
    BY <2>1, <2>2
<1> QED
  BY <1>2, <1>3

\* PostSale is Sell: its locks, checks and ledger rows hand over what was
\* free, at the price of the draft, in cash or within the credit limit.
LEMMA PostSaleImplementsSell ==
  ASSUME ShopInv, MoneyInv, TermsInv, UNCHANGED returnVars, NEW s \in Sales,
         NEW credit \in CreditAmounts, PostSale(s, credit)
  PROVE  Trade!Sell(s)
<1> DEFINE qty == sale[s].qty
           total == sale[s].total
<1>1. /\ s \notin Sold /\ Sold' = Sold \cup {s} /\ credit \in Nat
      /\ sale'[s].qty = qty /\ sale'[s].total = total
      /\ \A t \in Sales : t # s => sale'[t] = sale[t]
      /\ receivable'[s].balance = credit
      /\ \A t \in Sales : t # s => receivable'[t] = receivable[t]
      /\ returned' = returned
  BY PostSaleRows
<1>2. /\ sale[s].status = "draft" /\ StockAvailable(s)
      /\ \A u \in Units : qty[u] > 0 => ~SaleBarred(u)
      /\ credit <= Total(total)
      /\ credit > 0 => Outstanding + credit <= CreditLimit
      /\ IssueGoods(sale[s].loc, qty[Goods])
      /\ Post(Total(total) - credit, credit, Total(total), CostOf(qty))
  BY DEF PostSale
<1>3. qty \in [Items -> Nat] /\ total \in [Items -> Nat] /\ Total(total) \in Nat
  BY MoneyRow, TotalNat DEF MoneyInv
<1>4. /\ LinesOf(qty) # {}
      /\ \A u \in Units : qty[u] <= 1
      /\ \A i \in Items : total[i] <= Price[i] * qty[i]
      /\ \E d \in Discounts : Total(total) = Total(ListPrice(qty)) - d
  BY <1>2 DEF MoneyInv, LinesKept, TermsInv, LinesPriced
<1> HIDE DEF qty, total
<1> DEFINE terms == [qty |-> qty, total |-> total]
<1>5. /\ \A t \in Sales : t # s => SoldLines(t)' = SoldLines(t) /\ Deals'[t] = Deals[t]
      /\ SoldLines(s)' = qty
      /\ Deals'[s] = terms
      /\ DOMAIN Deals = Sales /\ Deals' = [t \in Sales |-> Deals'[t]]
  BY <1>1 DEF SoldLines, Deals
<1>6. Deals' = [Deals EXCEPT ![s] = Deals'[s]]
  BY <1>5
<1>7. Deals[s].qty = NoLines /\ Deals'[s].qty = qty /\ Deals'[s].total = total
  <2>1. Deals[s].qty = NoLines
    BY <1>1 DEF Deals, SoldLines
  <2> QED
    BY <1>5, <2>1
<1>8. InHands' = [InHands EXCEPT ![s] = Deals'[s].qty]
  <2>1. returned[s] = NoLines
    BY <1>1, NothingBack
  <2>2. InHands' = [t \in Sales |-> InHands'[t]] /\ DOMAIN InHands = Sales
    BY DEF InHands
  <2>3. \A t \in Sales : t # s => InHands'[t] = InHands[t]
    BY <1>1, <1>5 DEF InHands
  <2>4. InHands'[s] = qty
    <3>1. InHands'[s] = [i \in Items |-> qty[i] - returned[s][i]]
      BY <1>1, <1>5 DEF InHands
    <3>2. \A i \in Items : qty[i] - returned[s][i] = qty[i]
      BY <1>3, <2>1 DEF NoLines
    <3>3. InHands'[s] = [i \in Items |-> qty[i]]
      BY <3>1, <3>2
    <3> QED
      BY <1>3, <3>3
  <2> QED
    BY <1>7, <2>2, <2>3, <2>4
<1>9. /\ Debts[s] = 0 /\ Debts'[s] = credit
      /\ \A t \in Sales : t # s => Debts'[t] = Debts[t]
      /\ Debts' = [t \in Sales |-> Debts'[t]] /\ DOMAIN Debts = Sales
      /\ \A t \in Sales : Debts[t] \in Nat
  <2>1. \A t \in Sales : receivable[t].balance \in Nat
    BY MoneyRow DEF MoneyInv
  <2>2. receivable[s].balance = 0
    BY <1>1 DEF MoneyInv, NothingBeforePosting
  <2> QED
    BY <1>1, <2>1, <2>2 DEF Debts
<1>10. Debts' = [Debts EXCEPT ![s] = Debts'[s]]
  BY <1>9
<1>11. Debts'[s] > 0 => Trade!SumOver(Debts', Sales) <= CreditLimit
  <2>1. SumOver(Debts', Sales) = SumOver(Debts, Sales) - Debts[s] + Debts'[s]
    <3>1. /\ \A t \in Sales : Debts[t] \in Int /\ Debts'[t] \in Int
          /\ \A t \in Sales \ {s} : Debts'[t] = Debts[t]
      BY <1>1, <1>9
    <3> QED
      BY <3>1, SumChange, FiniteAssumption
  <2>2. Outstanding = SumOver(Debts, Sales) /\ Outstanding \in Int
    BY OutstandingIsOwed
  <2>3. SumOver(Debts', Sales) = Outstanding + credit
    BY <1>1, <1>9, <2>1, <2>2
  <2> QED
    BY <1>2, <1>9, <2>3, TradeSum
<1>12. Trade!Taken(Deals'[s].qty[Goods])
  <2>1. qty[Goods] \in Nat
    BY <1>3 DEF Items
  <2>2. qty[Goods] > 0 =>
          sale[s].loc \in Locations /\ Available(sale[s].loc) >= qty[Goods]
    BY <1>2, SaleRow DEF StockAvailable, qty
  <2>3. Trade!Taken(qty[Goods])
    BY <1>2, <2>1, <2>2, IssueImplementsTaken DEF ShopInv
  <2> QED
    BY <1>7, <2>3
<1>13. books'["CASH"] = books["CASH"] + (Total(total) - credit)
  <2>1. CostOf(qty) \in Int
    <3>1. NoLines \in [Items -> Int] /\ qty \in [Items -> Int]
          /\ \A i \in Items : qty[i] = qty[i] + NoLines[i]
      BY <1>3 DEF NoLines
    <3> QED
      BY <3>1, CostPlus
  <2>2. books \in [Accounts -> Int]
    BY DEF MoneyInv, MoneyTypes
  <2> QED
    BY <1>1, <1>2, <1>3, <2>1, <2>2, Posted
<1>14. \A u \in Units : qty[u] > 0 => qty[u] = 1 /\ \A t \in Sales : InHands[t][u] = 0
  <2> SUFFICES ASSUME NEW u \in Units, qty[u] > 0
               PROVE  qty[u] = 1 /\ \A t \in Sales : InHands[t][u] = 0
    OBVIOUS
  <2>1. qty[u] \in Nat /\ qty[u] <= 1
    BY <1>3, <1>4 DEF Items
  <2>2. \A t \in Sales : InHands[t][u] = 0
    BY <1>2, UnitsAreFree
  <2> QED
    BY <2>1, <2>2
<1>15. Trade!Priced(Deals'[s])
  <2>1. \A i \in Items : 0 <= total[i] /\ total[i] <= Price[i] * qty[i]
    BY <1>3, <1>4
  <2>2. \E d \in Discounts : Trade!Worth(total) = Trade!Worth(ListPrice(qty)) - d
    BY <1>4, TradeWorth
  <2>3. [i \in Items |-> Price[i] * qty[i]] = ListPrice(qty)
    BY DEF ListPrice
  <2> QED
    BY <1>7, <2>1, <2>2, <2>3, TradeItems DEF Trade!Priced
<1>16. /\ Deals[s].qty = Trade!Nothing
       /\ \E i \in Trade!Items : Deals'[s].qty[i] > 0
       /\ \A u \in Units : Deals'[s].qty[u] > 0 =>
            Deals'[s].qty[u] = 1 /\ \A t \in Sales : InHands[t][u] = 0
  BY <1>4, <1>7, <1>14, TradeItems DEF LinesOf
<1>17. /\ 0 <= Debts'[s] /\ Debts'[s] <= Trade!Worth(Deals'[s].total)
       /\ books'["CASH"] = books["CASH"] + (Trade!Worth(Deals'[s].total) - Debts'[s])
  BY <1>1, <1>2, <1>7, <1>9, <1>13, TradeWorth
<1> QED
  BY <1>6, <1>8, <1>10, <1>11, <1>12, <1>15, <1>16, <1>17 DEF Trade!Sell

\* What was given back of a line of which this much is kept.
GivenBack(line, kept) ==
  [i \in Items |-> IF line.qty[i] = 0 THEN 0
                   ELSE (line.total[i] * (line.qty[i] - kept[i])) \div line.qty[i]]

\* The refund of a return is what its customer is charged less.
LEMMA RefundIsChargedLess ==
  ASSUME NEW line, line.qty \in [Items -> Nat], line.total \in [Items -> Nat],
         NEW had, NEW has, NEW refunds \in [Items -> Nat],
         GivenBack(line, had) \in [Items -> Int],
         \A i \in Items : GivenBack(line, had)[i] + refunds[i] = GivenBack(line, has)[i]
  PROVE  Total(refunds) = Trade!Worth(Trade!Charge(line, had))
                          - Trade!Worth(Trade!Charge(line, has))
<1> DEFINE given == GivenBack(line, had)
           charged == [i \in Items |-> IF line.qty[i] = 0 THEN 0 ELSE line.total[i] - given[i]]
           charges == [i \in Items |-> IF line.qty[i] = 0 THEN 0
                                       ELSE line.total[i] - (given[i] + refunds[i])]
<1>1. Trade!Charge(line, had) = charged
  BY TradeItems DEF Trade!Charge, GivenBack
<1>2. Trade!Charge(line, has) = charges
  <2>1. charges = [i \in Items |-> IF line.qty[i] = 0 THEN 0
                                   ELSE line.total[i] - GivenBack(line, has)[i]]
    OBVIOUS
  <2> HIDE DEF charges
  <2> QED
    BY <2>1, TradeItems DEF Trade!Charge, GivenBack
<1>3. \A i \in Items : charged[i] = charges[i] + refunds[i]
  <2> SUFFICES ASSUME NEW i \in Items PROVE charged[i] = charges[i] + refunds[i]
    OBVIOUS
  <2>1. given[i] \in Int /\ refunds[i] \in Nat /\ line.total[i] \in Nat
    OBVIOUS
  <2>2. line.qty[i] = 0 => refunds[i] = 0
    BY <2>1 DEF GivenBack
  <2>3. /\ charged[i] = IF line.qty[i] = 0 THEN 0 ELSE line.total[i] - given[i]
        /\ charges[i] = IF line.qty[i] = 0 THEN 0
                        ELSE line.total[i] - (given[i] + refunds[i])
    OBVIOUS
  <2> HIDE DEF given, charged, charges
  <2> QED
    BY <2>1, <2>2, <2>3
<1>4. /\ charged \in [Items -> Int] /\ charges \in [Items -> Int]
      /\ refunds \in [Items -> Int]
  OBVIOUS
<1> HIDE DEF charged, charges
<1>5. Total(charged) = Total(charges) + Total(refunds)
  BY <1>3, <1>4, TotalPlus, Zenon
<1>6. Total(charges) \in Int /\ Total(refunds) \in Int
  BY <1>4, TotalInt
<1>7. Total(refunds) = Total(charged) - Total(charges)
  BY <1>5, <1>6
<1> QED
  BY <1>1, <1>2, <1>7, TradeWorth

\* PostReturn is TakeBack: the claimed quantities leave the customer's hands,
\* and the refund is what he is charged less, off the debt and then in cash.
LEMMA PostReturnImplementsTakeBack ==
  ASSUME ShopInv, MoneyInv, TermsInv, NEW r \in Returns, PostReturn(r)
  PROVE  Trade!TakeBack(ret[r].sale)
<1> DEFINE s == ret[r].sale
           claim == ret[r].qty
           refunds == LineRefunds(s, claim)
           refund == Total(refunds)
           credit == ReceivableCredit(s, refund)
           after == [i \in Items |-> returned[s][i] + claim[i]]
<1>1. Postable(r)
  BY DEF PostReturn
<1>2. /\ RestockGoods(sale[s].loc, claim[Goods])
      /\ Post(-(refund - credit), -credit, -refund, -CostOf(claim))
  BY DEF PostReturn
<1>3. /\ s \in Sold /\ s \in Sales /\ claim \in [Items -> Nat]
      /\ LinesOf(claim) # {}
      /\ after \in [Items -> Nat]
      /\ \A i \in Items : after[i] <= sale[s].qty[i]
      /\ refunds \in [Items -> Nat]
      /\ \A i \in Items : refunded[s][i] + refunds[i] =
           IF sale[s].qty[i] = 0 THEN 0
           ELSE (sale[s].total[i] * after[i]) \div sale[s].qty[i]
  BY <1>1, RefundRows
<1>4. /\ refund \in Nat /\ credit \in Nat
      /\ Sold' = Sold
      /\ \A t \in Sales : /\ sale'[t].qty = sale[t].qty
                          /\ sale'[t].total = sale[t].total
      /\ receivable'[s].balance = receivable[s].balance - credit
      /\ \A t \in Sales : t # s => receivable'[t] = receivable[t]
      /\ returned' = [returned EXCEPT ![s] = after]
  BY PostReturnRows
<1>5. claim[Goods] > 0 => sale[s].loc \in Locations
  BY <1>1, ClaimRow
<1>6. \A i \in Items : after[i] = returned[s][i] + claim[i]
  OBVIOUS
<1>7. refund = Total(refunds) /\ credit = ReceivableCredit(s, refund)
  OBVIOUS
<1> HIDE DEF s, claim, refunds, refund, credit, after
<1>8. /\ sale[s].qty \in [Items -> Nat] /\ sale[s].total \in [Items -> Nat]
      /\ returned[s] \in [Items -> Nat] /\ refunded[s] \in [Items -> Int]
      /\ receivable[s].balance \in Nat
      /\ returned \in [Sales -> [Items -> Nat]]
  BY <1>3, MoneyRow DEF MoneyInv, ShopInv, DocumentInv, ReturnRows
<1>9. /\ \A t \in Sales : SoldLines(t)' = SoldLines(t)
      /\ SoldLines(s) = sale[s].qty
      /\ Deals' = Deals
      /\ Deals[s] = [qty |-> sale[s].qty, total |-> sale[s].total]
  BY <1>3, <1>4 DEF SoldLines, Deals
<1>10. /\ InHands[s] \in [Items -> Int] /\ InHands'[s] \in [Items -> Int]
       /\ \A i \in Items : /\ InHands[s][i] = sale[s].qty[i] - returned[s][i]
                           /\ InHands'[s][i] = sale[s].qty[i] - after[i]
       /\ \A t \in Sales : t # s => InHands'[t] = InHands[t]
       /\ DOMAIN InHands = Sales /\ InHands' = [t \in Sales |-> InHands'[t]]
  <2>1. returned'[s] = after /\ \A t \in Sales : t # s => returned'[t] = returned[t]
    BY <1>3, <1>4, <1>8
  <2>2. InHands[s] = [i \in Items |-> sale[s].qty[i] - returned[s][i]]
    BY <1>3, <1>9 DEF InHands
  <2>3. InHands'[s] = [i \in Items |-> sale[s].qty[i] - after[i]]
    BY <1>3, <1>9, <2>1 DEF InHands
  <2>4. \A t \in Sales : t # s => InHands'[t] = InHands[t]
    BY <1>9, <2>1 DEF InHands
  <2>5. DOMAIN InHands = Sales /\ InHands' = [t \in Sales |-> InHands'[t]]
    BY DEF InHands
  <2> QED
    BY <1>3, <1>8, <2>2, <2>3, <2>4, <2>5
<1>11. InHands' = [InHands EXCEPT ![s] = InHands'[s]]
  BY <1>10
<1>12. \A i \in Items : 0 <= InHands'[s][i] /\ InHands'[s][i] <= InHands[s][i]
  BY <1>3, <1>6, <1>8, <1>10
<1>13. InHands'[s] # InHands[s]
  <2>1. PICK i \in Items : claim[i] > 0
    BY <1>3 DEF LinesOf
  <2>2. InHands'[s][i] # InHands[s][i]
    BY <1>3, <1>6, <1>8, <1>10, <2>1
  <2> QED
    BY <2>2
<1>14. Trade!PutBack(InHands[s][Goods] - InHands'[s][Goods])
  <2>1. claim[Goods] \in Nat /\ InHands[s][Goods] - InHands'[s][Goods] = claim[Goods]
    <3>1. Goods \in Items
      BY DEF Items
    <3>2. /\ claim[Goods] \in Nat /\ sale[s].qty[Goods] \in Nat
          /\ returned[s][Goods] \in Nat /\ after[Goods] = returned[s][Goods] + claim[Goods]
          /\ InHands[s][Goods] = sale[s].qty[Goods] - returned[s][Goods]
          /\ InHands'[s][Goods] = sale[s].qty[Goods] - after[Goods]
      BY <1>3, <1>6, <1>8, <1>10, <3>1
    <3> QED
      BY <3>2
  <2>2. Trade!PutBack(claim[Goods])
    BY <1>2, <1>5, <2>1, RestockImplementsPutBack DEF ShopInv
  <2> QED
    BY <2>1, <2>2
<1>15. refund = Trade!Worth(Trade!Charge(Deals[s], InHands[s]))
                - Trade!Worth(Trade!Charge(Deals[s], InHands'[s]))
  <2>1. \A i \in Items : refunded[s][i] =
          IF sale[s].qty[i] = 0 THEN 0
          ELSE (sale[s].total[i] * returned[s][i]) \div sale[s].qty[i]
    BY <1>3 DEF MoneyInv, RefundsFloor
  <2>2. PICK line : line = Deals[s]
    OBVIOUS
  <2>3. line.qty = sale[s].qty /\ line.total = sale[s].total
    BY <1>9, <2>2
  <2>4. line.qty \in [Items -> Nat] /\ line.total \in [Items -> Nat]
    BY <1>8, <2>3
  <2>5. \A i \in Items : /\ line.qty[i] - InHands[s][i] = returned[s][i]
                         /\ line.qty[i] - InHands'[s][i] = after[i]
    BY <1>3, <1>8, <1>10, <2>3
  <2>6. \A i \in Items : GivenBack(line, InHands[s])[i] = refunded[s][i]
    BY <2>1, <2>3, <2>5 DEF GivenBack
  <2>7. \A i \in Items : GivenBack(line, InHands'[s])[i] = refunded[s][i] + refunds[i]
    BY <1>3, <2>3, <2>5 DEF GivenBack
  <2>8. GivenBack(line, InHands[s]) \in [Items -> Int]
    <3>1. GivenBack(line, InHands[s])
            = [i \in Items |-> GivenBack(line, InHands[s])[i]]
      BY DEF GivenBack
    <3> QED
      BY <1>8, <2>6, <3>1
  <2>9. Total(refunds) = Trade!Worth(Trade!Charge(line, InHands[s]))
                         - Trade!Worth(Trade!Charge(line, InHands'[s]))
    BY <1>3, <2>4, <2>6, <2>7, <2>8, RefundIsChargedLess
  <2> QED
    BY <1>7, <2>2, <2>9
<1>16. credit = IF refund < Debts[s] THEN refund ELSE Debts[s]
  <2>1. Debts[s] = receivable[s].balance
    BY <1>3 DEF Debts
  <2> QED
    BY <1>3, <1>4, <1>7, <2>1, CreditIsTheLess DEF MoneyInv, TermsInv
<1>17. Debts' = [Debts EXCEPT ![s] = @ - credit]
  BY <1>3, <1>4 DEF Debts
<1>18. books'["CASH"] = books["CASH"] - (refund - credit)
  <2>1. CostOf(claim) \in Int
    <3>1. NoLines \in [Items -> Int] /\ claim \in [Items -> Int]
          /\ \A i \in Items : claim[i] = claim[i] + NoLines[i]
      BY <1>3 DEF NoLines
    <3> QED
      BY <3>1, CostPlus
  <2>2. books \in [Accounts -> Int]
    BY DEF MoneyInv, MoneyTypes
  <2>3. /\ -(refund - credit) \in Int /\ -credit \in Int
        /\ -refund \in Int /\ -CostOf(claim) \in Int
    BY <1>4, <2>1
  <2>4. books'["CASH"] = books["CASH"] + -(refund - credit)
    BY <1>2, <2>2, <2>3, Posted
  <2>5. books["CASH"] \in Int
    BY <2>2 DEF Accounts
  <2> QED
    BY <1>4, <2>4, <2>5
<1>19. Trade!TakeBack(s)
  BY <1>9, <1>11, <1>12, <1>13, <1>14, <1>15, <1>16, <1>17, <1>18, TradeItems
     DEF Trade!TakeBack
<1> QED
  BY <1>19 DEF s

\* The branch opens with nothing sold and nothing owed.
LEMMA InitImplementsTrade == Init => Trade!Init
<1> SUFFICES ASSUME Init PROVE Trade!Init
  OBVIOUS
<1>1. Sold = {} /\ StockInv
  BY StockInitInv DEF Init, SaleInit, Sold
<1>2. \A s \in Sales : SoldLines(s) = NoLines
  BY <1>1 DEF SoldLines
<1>3. Deals = [s \in Sales |-> [qty |-> NoLines, total |-> NoLines]]
  BY <1>1, <1>2 DEF Deals
<1>4. InHands = [s \in Sales |-> NoLines]
  <2>1. \A s \in Sales : [i \in Items |-> SoldLines(s)[i] - returned[s][i]] = NoLines
    BY <1>2 DEF Init, ReturnInit, NoLines
  <2> QED
    BY <2>1 DEF InHands
<1>5. books["CASH"] = 0 /\ Debts = [s \in Sales |-> 0]
  BY DEF Init, SaleInit, Accounts, Debts
<1> QED
  BY <1>1, <1>3, <1>4, <1>5, FreeIsNat, TradeItems DEF Trade!Init

\* Every step of the shop is a step of Trade or changes nothing Trade knows.
LEMMA StepImplementsTrade ==
  ASSUME ShopInv, ShopInv', MoneyInv, TermsInv, [Next]_vars
  PROVE  [Trade!Next]_(Trade!tradeVars)
<1>1. ASSUME UNCHANGED <<Deals, InHands, books["CASH"], Debts>>
      PROVE  Trade!Next
  <2>1. Free' \in [Locations -> Nat]
    <3>1. StockInv'
      BY DEF ShopInv
    <3> QED
      BY <3>1, FreeIsNat DEF StockInv, StockTypeOK, ReservedIsOnHand, Free, Available
  <2> QED
    BY <1>1, <2>1 DEF Trade!Next, Trade!Supply
<1>2. CASE StockStep /\ UNCHANGED returnVars
  <2>1. UNCHANGED <<sale, receivable, books, returned>>
    BY <1>2 DEF StockStep, saleVars, returnVars
  <2>2. Sold' = Sold
    BY <2>1 DEF Sold
  <2> QED
    BY <1>1, <2>1, <2>2, TradeKept
<1>3. CASE SaleStep /\ UNCHANGED returnVars
  <2>1. ASSUME NEW s \in Sales, s \notin Sold, UNCHANGED <<receivable, books>>,
               \A t \in Sales : t # s => sale'[t] = sale[t],
               sale'[s].status \in {"draft", "cancelled"}
        PROVE  Trade!Next
    <3>1. Sold' = Sold
      BY <2>1 DEF Sold
    <3>2. \A t \in Sold : sale'[t] = sale[t]
      BY <2>1 DEF Sold
    <3>3. returned' = returned
      BY <1>3 DEF returnVars
    <3> QED
      BY <1>1, <2>1, <3>1, <3>2, <3>3, TradeKept
  <2>2. sale \in [Sales -> SaleRecords]
    BY DEF MoneyInv, MoneyTypes
  <2>3. ASSUME NEW s \in Sales, NEW units \in SUBSET Units,
               NEW q \in LineQuantities \cup {0},
               NEW l \in Locations \cup {NoLocation}, NEW discount \in Discounts,
               \/ CreateDraft(s, units, q, l, discount)
               \/ ReplaceDraft(s, units, q, l, discount)
        PROVE  Trade!Next
    <3>1. WriteDraft(s, units, q, l, discount) /\ s \notin Sold
      BY <2>3 DEF CreateDraft, ReplaceDraft, Sold
    <3>2. PICK total : sale' = [sale EXCEPT ![s] =
                         [status |-> "draft", held |-> FALSE, loc |-> l,
                          qty |-> Cart(units, q), total |-> total]]
      BY <3>1 DEF WriteDraft
    <3>3. /\ \A t \in Sales : t # s => sale'[t] = sale[t]
          /\ sale'[s].status = "draft"
      BY <2>2, <3>2
    <3> QED
      BY <2>1, <3>1, <3>3 DEF WriteDraft
  <2>4. ASSUME NEW s \in Sales, Hold(s) \/ Cancel(s)
        PROVE  Trade!Next
    <3>1. /\ sale[s].status = "draft" /\ s \notin Sold
          /\ UNCHANGED <<receivable, books>>
      BY <2>4 DEF Hold, Cancel, Sold
    <3>2. /\ \A t \in Sales : t # s => sale'[t] = sale[t]
          /\ sale'[s].status \in {"draft", "cancelled"}
      BY <2>2, <2>4, <3>1 DEF Hold, Cancel, SaleRecords
    <3> QED
      BY <2>1, <3>1, <3>2
  <2>5. ASSUME NEW s \in Sales, NEW credit \in CreditAmounts, PostSale(s, credit)
        PROVE  Trade!Next
    BY <1>3, <2>5, PostSaleImplementsSell DEF Trade!Next
  <2> QED
    BY <1>3, <2>3, <2>4, <2>5 DEF SaleStep
<1>4. CASE ReturnStep
  <2>1. ASSUME UNCHANGED saleVars, returned' = returned
        PROVE  Trade!Next
    <3>1. UNCHANGED <<sale, receivable, books>>
      BY <2>1 DEF saleVars
    <3>2. Sold' = Sold
      BY <3>1 DEF Sold
    <3> QED
      BY <1>1, <2>1, <3>1, <3>2, TradeKept
  <2>2. ASSUME NEW r \in Returns, NEW s \in Sales, NEW units \in SUBSET Units,
               NEW q \in LineQuantities \cup {0}, CreateReturnDraft(r, s, units, q)
        PROVE  Trade!Next
    BY <2>1, <2>2 DEF CreateReturnDraft
  <2>3. ASSUME NEW r \in Returns, PostReturn(r)
        PROVE  Trade!Next
    <3>1. Trade!TakeBack(ret[r].sale)
      BY <2>3, PostReturnImplementsTakeBack
    <3>2. ret[r].sale \in Sales
      BY <2>3, ClaimRow DEF PostReturn
    <3> QED
      BY <3>1, <3>2 DEF Trade!Next
  <2>4. ASSUME NEW r \in Returns, PostReturnRefused(r)
        PROVE  Trade!Next
    BY <2>1, <2>4 DEF PostReturnRefused
  <2> QED
    BY <1>4, <2>2, <2>3, <2>4 DEF ReturnStep
<1>5. CASE UNCHANGED vars
  <2>1. UNCHANGED <<sale, receivable, books, returned, batch>>
    BY <1>5 DEF vars, saleVars, returnVars, stockVars
  <2>2. Sold' = Sold /\ Free' = Free
    BY <2>1 DEF Sold, Free, Available
  <2>3. UNCHANGED <<Deals, InHands, books["CASH"], Debts>>
    BY <2>1, <2>2, TradeKept
  <2> QED
    BY <2>2, <2>3 DEF Trade!tradeVars
<1> QED
  BY <1>2, <1>3, <1>4, <1>5 DEF Next

\* The shop, with its drafts, statuses, receivables, ledgers and returns in
\* pieces, trades as Trade says: for any units, locations, sales, returns,
\* prices, discounts and credit limit.
THEOREM ShopTradesFairly == Spec => TradesFairly
<1>1. Init => ShopInv /\ MoneyInv /\ TermsInv
  BY ShopInitInv, MoneyInitInv, TermsInitInv
<1>2. (ShopInv /\ MoneyInv /\ TermsInv) /\ [Next]_vars => (ShopInv /\ MoneyInv /\ TermsInv)'
  BY ShopStepInv, MoneyStepInv, TermsStepInv
<1>3. (ShopInv /\ MoneyInv /\ TermsInv) /\ (ShopInv /\ MoneyInv /\ TermsInv)'
        /\ [Next]_vars => [Trade!Next]_(Trade!tradeVars)
  BY StepImplementsTrade
<1> QED
  BY <1>1, <1>2, <1>3, InitImplementsTrade, PTL DEF Spec, TradesFairly, Trade!Spec
-----------------------------------------------------------------------------
(* The credit limit over the whole life of the shop.                        *)

\* What the customer owes for all sales together is within the limit.
DebtsWithinLimit == SumOver(Debts, Sales) <= CreditLimit

\* The receivables account is the sum of the debts.
LEMMA ReceivablesAreDebts ==
  ASSUME ShopInv, MoneyInv
  PROVE  books["AR"] = SumOver(Debts, Sales)
<1>1. books["AR"] = SumOver(Debts, Sold)
  BY BooksAreSums DEF MoneyInv, Owed, Debts
<1>2. \A s \in Sales : Debts[s] \in Int
  BY MoneyRow DEF MoneyInv, Debts
<1>3. \A s \in Sales \ Sold : Debts[s] = 0
  BY DEF MoneyInv, NothingBeforePosting, Debts
<1>4. Sold \in SUBSET Sales
  BY DEF Sold
<1>5. SumOver(Debts, Sales) = SumOver(Debts, Sold)
  BY <1>2, <1>3, <1>4, FiniteAssumption, SumRestrict
<1> QED
  BY <1>1, <1>5

\* Only posting a sale makes anybody owe more, and it looks at all debts.
LEMMA DebtsStep ==
  ASSUME ShopInv, ShopInv', MoneyInv, MoneyInv', TermsInv, DebtsWithinLimit, [Next]_vars
  PROVE  DebtsWithinLimit'
<1>1. /\ \A t \in Sales : Debts[t] \in Nat /\ Debts'[t] \in Nat
      /\ \A t \in Sales : Debts[t] = receivable[t].balance
      /\ \A t \in Sales : Debts'[t] = receivable'[t].balance
  <2>1. \A t \in Sales : receivable[t].balance \in Nat /\ receivable'[t].balance \in Nat
    <3>1. \A t \in Sales : receivable[t].balance \in Nat
      BY MoneyRow DEF MoneyInv
    <3>2. \A t \in Sales : receivable'[t].balance \in Nat
      BY DEF MoneyInv, MoneyTypes, ReceivableRecords
    <3> QED
      BY <3>1, <3>2
  <2> QED
    BY <2>1 DEF Debts
<1>2. SumOver(Debts, Sales) \in Int /\ CreditLimit \in Nat
  BY <1>1, FiniteAssumption, SumInt, SaleAmountAssumption
<1>3. ASSUME receivable' = receivable PROVE DebtsWithinLimit'
  BY <1>3 DEF DebtsWithinLimit, Debts
<1>4. ASSUME NEW s \in Sales, \A t \in Sales : t # s => receivable'[t] = receivable[t]
      PROVE  SumOver(Debts', Sales) = SumOver(Debts, Sales) - Debts[s] + Debts'[s]
  <2>1. /\ \A t \in Sales : Debts[t] \in Int /\ Debts'[t] \in Int
        /\ \A t \in Sales \ {s} : Debts'[t] = Debts[t]
    BY <1>1, <1>4
  <2> QED
    BY <2>1, FiniteAssumption, SumChange
<1>5. ASSUME NEW s \in Sales, \A t \in Sales : t # s => receivable'[t] = receivable[t],
             Debts'[s] <= Debts[s]
      PROVE  DebtsWithinLimit'
  BY <1>1, <1>2, <1>4, <1>5 DEF DebtsWithinLimit
<1>6. CASE StockStep /\ UNCHANGED returnVars
  BY <1>3, <1>6 DEF StockStep, saleVars
<1>7. CASE SaleStep /\ UNCHANGED returnVars
  <2>1. ASSUME NEW s \in Sales, NEW units \in SUBSET Units,
               NEW q \in LineQuantities \cup {0},
               NEW l \in Locations \cup {NoLocation}, NEW discount \in Discounts,
               \/ CreateDraft(s, units, q, l, discount)
               \/ ReplaceDraft(s, units, q, l, discount)
        PROVE  DebtsWithinLimit'
    BY <1>3, <2>1 DEF CreateDraft, ReplaceDraft, WriteDraft
  <2>2. ASSUME NEW s \in Sales, Hold(s) \/ Cancel(s)
        PROVE  DebtsWithinLimit'
    BY <1>3, <2>2 DEF Hold, Cancel
  <2>3. ASSUME NEW s \in Sales, NEW credit \in CreditAmounts, PostSale(s, credit)
        PROVE  DebtsWithinLimit'
    <3>1. /\ credit \in Nat /\ Debts'[s] = credit
          /\ \A t \in Sales : t # s => receivable'[t] = receivable[t]
      BY <1>1, <1>7, <2>3, PostSaleRows
    <3>2. credit > 0 => Outstanding + credit <= CreditLimit
      BY <2>3 DEF PostSale
    <3>3. Outstanding = SumOver(Debts, Sales)
      BY OutstandingIsOwed
    <3>4. CASE credit = 0
      BY <1>1, <1>5, <3>1, <3>4
    <3>5. CASE credit > 0
      BY <1>1, <1>2, <1>4, <3>1, <3>2, <3>3, <3>5 DEF DebtsWithinLimit
    <3> QED
      BY <3>1, <3>4, <3>5
  <2> QED
    BY <1>7, <2>1, <2>2, <2>3 DEF SaleStep
<1>8. CASE ReturnStep
  <2>1. ASSUME NEW r \in Returns, NEW s \in Sales, NEW units \in SUBSET Units,
               NEW q \in LineQuantities \cup {0}, CreateReturnDraft(r, s, units, q)
        PROVE  DebtsWithinLimit'
    BY <1>3, <2>1 DEF CreateReturnDraft, saleVars
  <2>2. ASSUME NEW r \in Returns, PostReturn(r) PROVE DebtsWithinLimit'
    <3> DEFINE s == ret[r].sale
               credit == ReceivableCredit(s, Total(LineRefunds(s, ret[r].qty)))
    <3>1. s \in Sales
      <4>1. Postable(r)
        BY <2>2 DEF PostReturn
      <4> QED
        BY <4>1, ClaimRow
    <3>2. /\ credit \in Nat
          /\ receivable'[s].balance = receivable[s].balance - credit
          /\ \A t \in Sales : t # s => receivable'[t] = receivable[t]
      BY <2>2, PostReturnRows
    <3> HIDE DEF s, credit
    <3> QED
      BY <1>1, <1>5, <3>1, <3>2
  <2>3. ASSUME NEW r \in Returns, PostReturnRefused(r) PROVE DebtsWithinLimit'
    BY <1>3, <2>3 DEF PostReturnRefused, saleVars
  <2> QED
    BY <1>8, <2>1, <2>2, <2>3 DEF ReturnStep
<1>9. CASE UNCHANGED vars
  BY <1>3, <1>9 DEF vars, saleVars
<1> QED
  BY <1>6, <1>7, <1>8, <1>9 DEF Next

\* Whatever is sold and returned in whatever order, the receivables account
\* never exceeds the credit limit: assertCredit adds up the open balances, and
\* no return makes anybody owe more.
THEOREM ReceivablesLimited == Spec => [](books["AR"] <= CreditLimit)
<1> DEFINE Inv == ShopInv /\ MoneyInv /\ TermsInv /\ DebtsWithinLimit
<1>1. Init => Inv
  <2> SUFFICES ASSUME Init PROVE Inv
    OBVIOUS
  <2>1. ShopInv /\ MoneyInv /\ TermsInv
    BY ShopInitInv, MoneyInitInv, TermsInitInv
  <2>2. books["AR"] = 0
    BY DEF Init, SaleInit, Accounts
  <2> QED
    BY <2>1, <2>2, ReceivablesAreDebts, SaleAmountAssumption DEF DebtsWithinLimit
<1>2. Inv /\ [Next]_vars => Inv'
  <2> SUFFICES ASSUME Inv, [Next]_vars PROVE Inv'
    OBVIOUS
  <2>1. ShopInv' /\ MoneyInv' /\ TermsInv'
    BY ShopStepInv, MoneyStepInv, TermsStepInv
  <2> QED
    BY <2>1, DebtsStep
<1>3. Inv => books["AR"] <= CreditLimit
  BY ReceivablesAreDebts DEF DebtsWithinLimit
<1> QED
  BY <1>1, <1>2, <1>3, PTL DEF Spec
=============================================================================
