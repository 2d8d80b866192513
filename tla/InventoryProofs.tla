--------------------------- MODULE InventoryProofs ---------------------------
(***************************************************************************)
(* Proofs about Inventory: its types, and that the movement ledger, the     *)
(* units and the batches never drift apart, for any number of units,        *)
(* locations and quantities.                                                *)
(***************************************************************************)
EXTENDS Inventory, TLAPS

\* Every lifecycle state is on hand or not.
LEMMA OnHandType == \A s : OnHand(s) \in {0, 1}
  BY DEF OnHand

\* The signs of the movements the operations write.
LEMMA Signs ==
  /\ MOVEMENT_ON_HAND_SIGN["sale"] = -1
  /\ MOVEMENT_ON_HAND_SIGN["sale_return"] = 1
  /\ MOVEMENT_ON_HAND_SIGN["transfer_out"] = -1
  /\ MOVEMENT_ON_HAND_SIGN["transfer_in"] = 1
  /\ MOVEMENT_ON_HAND_SIGN["reserve"] = 0
  /\ MOVEMENT_ON_HAND_SIGN["release"] = 0
  /\ MOVEMENT_ON_HAND_SIGN["adjustment_in"] = 1
  /\ MOVEMENT_ON_HAND_SIGN["adjustment_out"] = -1
  /\ MOVEMENT_ON_HAND_SIGN["none"] = 0
  BY DEF MOVEMENT_ON_HAND_SIGN

\* What the movements do to the reserved part of the batch.
LEMMA ReservedSigns ==
  /\ ReservedSign["sale"] = 0
  /\ ReservedSign["sale_return"] = 0
  /\ ReservedSign["transfer_out"] = 0
  /\ ReservedSign["transfer_in"] = 0
  /\ ReservedSign["reserve"] = 1
  /\ ReservedSign["release"] = -1
  /\ ReservedSign["adjustment_in"] = 0
  /\ ReservedSign["adjustment_out"] = 0
  BY DEF ReservedSign, MOVEMENT_TYPES

\* The movement a manual transition writes makes up exactly for the change of
\* the on-hand count (movementTypeForTransition).
LEMMA TransitionMovementBalances ==
  ASSUME NEW from, NEW to
  PROVE  MOVEMENT_ON_HAND_SIGN[MovementTypeForTransition(from, to)]
           = OnHand(to) - OnHand(from)
<1>1. OnHand("available") = 1 /\ OnHand("reserved") = 1
  BY DEF OnHand, ON_HAND_STOCK_STATES
<1>2. OnHand(from) \in {0, 1} /\ OnHand(to) \in {0, 1}
  BY OnHandType
<1>3. CASE from = "available" /\ to = "reserved"
  BY <1>1, <1>3, Signs DEF MovementTypeForTransition
<1>4. CASE from = "reserved" /\ to = "available"
  BY <1>1, <1>4, Signs DEF MovementTypeForTransition
<1>5. CASE /\ ~(from = "available" /\ to = "reserved")
           /\ ~(from = "reserved" /\ to = "available")
  <2>1. CASE OnHand(from) = 0 /\ OnHand(to) = 1
    BY <1>5, <2>1, Signs DEF MovementTypeForTransition
  <2>2. CASE OnHand(from) = 1 /\ OnHand(to) = 0
    BY <1>5, <2>2, Signs DEF MovementTypeForTransition
  <2>3. CASE OnHand(from) = OnHand(to)
    BY <1>2, <1>5, <2>3, Signs DEF MovementTypeForTransition
  <2> QED
    BY <1>2, <2>1, <2>2, <2>3
<1> QED
  BY <1>3, <1>4, <1>5

-----------------------------------------------------------------------------
\* The inductive invariant: what the three safety invariants of Inventory say,
\* with the types the arithmetic needs.
StockInv ==
  /\ StockTypeOK
  /\ UnitLedgerReplays
  /\ BatchLedgerReplays
  /\ ReservedIsOnHand

\* The received units' ledgers hold their one receipt row.
LEMMA StockInitInv == StockInit => StockInv
<1> SUFFICES ASSUME StockInit PROVE StockInv
  OBVIOUS
<1> USE DEF StockInit
<1>1. StockTypeOK
  <2>1. unit \in [Units -> [state: SERIALIZED_STOCK_STATES, loc: Locations]]
    BY DEF SERIALIZED_STOCK_STATES
  <2> QED
    BY <2>1 DEF StockTypeOK
<1>2. UnitLedgerReplays
  <2>1. \A u \in Units : OnHand(unit[u].state) = 1
    BY DEF OnHand, ON_HAND_STOCK_STATES
  <2> QED
    BY <2>1 DEF UnitLedgerReplays
<1>3. BatchLedgerReplays /\ ReservedIsOnHand
  BY DEF BatchLedgerReplays, ReservedIsOnHand
<1> QED
  BY <1>1, <1>2, <1>3 DEF StockInv

\* An operation on the batch keeps the invariant when its new rows are
\* quantities, replay, and reserve no more than is on hand.
LEMMA BatchChange ==
  ASSUME StockInv,
         UNCHANGED <<active, unit, unitReplay>>,
         batch' \in [Locations -> [onHand: Nat, reserved: Nat]],
         batchReplay' \in [Locations -> [onHand: Int, reserved: Int]],
         \A k \in Locations :
           /\ batchReplay'[k].onHand = batch'[k].onHand
           /\ batchReplay'[k].reserved = batch'[k].reserved
           /\ batch'[k].reserved <= batch'[k].onHand
  PROVE  StockInv'
<1>1. StockTypeOK'
  BY DEF StockInv, StockTypeOK
<1>2. UnitLedgerReplays'
  BY DEF StockInv, UnitLedgerReplays
<1>3. BatchLedgerReplays'
  <2>1. \A k \in Locations : batchReplay'[k] = batch'[k]
    OBVIOUS
  <2> QED
    BY <2>1 DEF BatchLedgerReplays
<1>4. ReservedIsOnHand'
  <2>1. \A k \in Locations : batch'[k].reserved \in Nat
    OBVIOUS
  <2> QED
    BY <2>1 DEF ReservedIsOnHand
<1> QED
  BY <1>1, <1>2, <1>3, <1>4 DEF StockInv

\* What the invariant says of a batch row before an operation changes it.
LEMMA BatchRows ==
  ASSUME StockInv
  PROVE  /\ batch \in [Locations -> [onHand: Nat, reserved: Nat]]
         /\ batchReplay = batch
         /\ \A k \in Locations : batch[k].reserved <= batch[k].onHand
  BY DEF StockInv, StockTypeOK, BatchLedgerReplays, ReservedIsOnHand

\* adjustStock, upwards.
LEMMA AdjustInInv ==
  ASSUME StockInv, NEW l \in Locations, NEW q \in Quantities, AdjustIn(l, q)
  PROVE  StockInv'
<1>1. q \in Nat /\ q > 0
  BY QuantitiesAssumption
<1>2. AfterBatchMove(batch[l], "adjustment_in", q)
        = [onHand |-> batch[l].onHand + q, reserved |-> batch[l].reserved]
  BY <1>1, BatchRows, Signs, ReservedSigns DEF AfterBatchMove
<1>3. batchReplay' = [batch EXCEPT ![l] =
        [onHand |-> batch[l].onHand + q, reserved |-> batch[l].reserved]]
  BY <1>2, BatchRows DEF AdjustIn
<1>4. batch' = [batch EXCEPT ![l].onHand = @ + q]
  BY DEF AdjustIn
<1>5. UNCHANGED <<active, unit, unitReplay>>
  BY DEF AdjustIn
<1> QED
  BY <1>1, <1>3, <1>4, <1>5, BatchRows, BatchChange

\* adjustStock, downwards: reserved stock stays covered.
LEMMA AdjustOutInv ==
  ASSUME StockInv, NEW l \in Locations, NEW q \in Quantities, AdjustOut(l, q)
  PROVE  StockInv'
<1>1. q \in Nat /\ q > 0
  BY QuantitiesAssumption
<1>2. AfterBatchMove(batch[l], "adjustment_out", q)
        = [onHand |-> batch[l].onHand - q, reserved |-> batch[l].reserved]
  BY <1>1, BatchRows, Signs, ReservedSigns DEF AfterBatchMove
<1>3. batchReplay' = [batch EXCEPT ![l] =
        [onHand |-> batch[l].onHand - q, reserved |-> batch[l].reserved]]
  BY <1>2, BatchRows DEF AdjustOut
<1>4. batch' = [batch EXCEPT ![l].onHand = @ - q]
  BY DEF AdjustOut
<1>5. UNCHANGED <<active, unit, unitReplay>>
  BY DEF AdjustOut
<1>6. batch[l].onHand - q >= batch[l].reserved
  BY DEF AdjustOut
<1> QED
  BY <1>1, <1>3, <1>4, <1>5, <1>6, BatchRows, BatchChange

\* reserveStock takes from what is available.
LEMMA ReserveStockInv ==
  ASSUME StockInv, NEW l \in Locations, NEW q \in Quantities, ReserveStock(l, q)
  PROVE  StockInv'
<1>1. q \in Nat /\ q > 0
  BY QuantitiesAssumption
<1>2. AfterBatchMove(batch[l], "reserve", q)
        = [onHand |-> batch[l].onHand, reserved |-> batch[l].reserved + q]
  BY <1>1, BatchRows, Signs, ReservedSigns DEF AfterBatchMove
<1>3. batchReplay' = [batch EXCEPT ![l] =
        [onHand |-> batch[l].onHand, reserved |-> batch[l].reserved + q]]
  BY <1>2, BatchRows DEF ReserveStock
<1>4. batch' = [batch EXCEPT ![l].reserved = @ + q]
  BY DEF ReserveStock
<1>5. UNCHANGED <<active, unit, unitReplay>>
  BY DEF ReserveStock
<1>6. batch[l].onHand - batch[l].reserved >= q
  BY DEF ReserveStock, Available
<1> QED
  BY <1>1, <1>3, <1>4, <1>5, <1>6, BatchRows, BatchChange

\* releaseStock gives back no more than is reserved.
LEMMA ReleaseStockInv ==
  ASSUME StockInv, NEW l \in Locations, NEW q \in Quantities, ReleaseStock(l, q)
  PROVE  StockInv'
<1>1. q \in Nat /\ q > 0
  BY QuantitiesAssumption
<1>2. AfterBatchMove(batch[l], "release", q)
        = [onHand |-> batch[l].onHand, reserved |-> batch[l].reserved - q]
  BY <1>1, BatchRows, Signs, ReservedSigns DEF AfterBatchMove
<1>3. batchReplay' = [batch EXCEPT ![l] =
        [onHand |-> batch[l].onHand, reserved |-> batch[l].reserved - q]]
  BY <1>2, BatchRows DEF ReleaseStock
<1>4. batch' = [batch EXCEPT ![l].reserved = @ - q]
  BY DEF ReleaseStock
<1>5. UNCHANGED <<active, unit, unitReplay>>
  BY DEF ReleaseStock
<1>6. batch[l].reserved >= q
  BY DEF ReleaseStock
<1> QED
  BY <1>1, <1>3, <1>4, <1>5, <1>6, BatchRows, BatchChange

\* transferStock moves free stock, with a row on either side.
LEMMA TransferStockInv ==
  ASSUME StockInv, NEW from \in Locations, NEW to \in Locations,
         NEW q \in Quantities, TransferStock(from, to, q)
  PROVE  StockInv'
<1>1. q \in Nat /\ q > 0
  BY QuantitiesAssumption
<1>2. AfterBatchMove(batch[from], "transfer_out", q)
        = [onHand |-> batch[from].onHand - q, reserved |-> batch[from].reserved]
  BY <1>1, BatchRows, Signs, ReservedSigns DEF AfterBatchMove
<1>3. AfterBatchMove(batch[to], "transfer_in", q)
        = [onHand |-> batch[to].onHand + q, reserved |-> batch[to].reserved]
  BY <1>1, BatchRows, Signs, ReservedSigns DEF AfterBatchMove
<1>4. from # to /\ batch[from].onHand - batch[from].reserved >= q
  BY DEF TransferStock, Available
<1>5. batchReplay' = [batch EXCEPT
        ![from] = [onHand |-> batch[from].onHand - q,
                   reserved |-> batch[from].reserved],
        ![to]   = [onHand |-> batch[to].onHand + q,
                   reserved |-> batch[to].reserved]]
  BY <1>2, <1>3, <1>4, BatchRows DEF TransferStock
<1>6. batch' = [batch EXCEPT ![from].onHand = @ - q, ![to].onHand = @ + q]
  BY DEF TransferStock
<1>7. UNCHANGED <<active, unit, unitReplay>>
  BY DEF TransferStock
<1> QED
  BY <1>1, <1>4, <1>5, <1>6, <1>7, BatchRows, BatchChange

-----------------------------------------------------------------------------
\* An operation on one unit keeps the invariant when the ledger it leaves
\* for that unit replays to the unit's new state and place.
LEMMA UnitChange ==
  ASSUME StockInv, NEW u \in Units,
         UNCHANGED <<active, batch, batchReplay>>,
         NEW row \in [state: SERIALIZED_STOCK_STATES, loc: Locations],
         NEW replay \in [Locations -> Int],
         unit' = [unit EXCEPT ![u] = row],
         unitReplay' = [unitReplay EXCEPT ![u] = replay],
         \A k \in Locations :
           replay[k] = IF k = row.loc THEN OnHand(row.state) ELSE 0
  PROVE  StockInv'
<1>1. /\ unit \in [Units -> [state: SERIALIZED_STOCK_STATES, loc: Locations]]
      /\ unitReplay \in [Units -> [Locations -> Int]]
  BY DEF StockInv, StockTypeOK
<1>2. StockTypeOK'
  BY <1>1 DEF StockInv, StockTypeOK
<1>3. UnitLedgerReplays'
  <2> SUFFICES ASSUME NEW v \in Units, NEW k \in Locations
               PROVE  unitReplay'[v][k]
                        = IF k = unit'[v].loc THEN OnHand(unit'[v].state) ELSE 0
    BY DEF UnitLedgerReplays
  <2>1. CASE v = u
    <3>1. unitReplay'[v] = replay /\ unit'[v] = row
      BY <1>1, <2>1
    <3> QED
      BY <3>1
  <2>2. CASE v # u
    <3>1. unitReplay'[v] = unitReplay[v] /\ unit'[v] = unit[v]
      BY <1>1, <2>2
    <3>2. unitReplay[v][k] = IF k = unit[v].loc THEN OnHand(unit[v].state) ELSE 0
      BY DEF StockInv, UnitLedgerReplays
    <3> QED
      BY <3>1, <3>2
  <2> QED
    BY <2>1, <2>2
<1>4. BatchLedgerReplays' /\ ReservedIsOnHand'
  BY DEF StockInv, BatchLedgerReplays, ReservedIsOnHand
<1> QED
  BY <1>2, <1>3, <1>4 DEF StockInv

\* What the invariant says of a unit before an operation changes it.
LEMMA UnitRows ==
  ASSUME StockInv, NEW u \in Units
  PROVE  /\ unit \in [Units -> [state: SERIALIZED_STOCK_STATES, loc: Locations]]
         /\ unit[u].state \in SERIALIZED_STOCK_STATES
         /\ unit[u].loc \in Locations
         /\ unitReplay[u] \in [Locations -> Int]
         /\ \A k \in Locations :
              unitReplay[u][k] =
                IF k = unit[u].loc THEN OnHand(unit[u].state) ELSE 0
  BY DEF StockInv, StockTypeOK, UnitLedgerReplays

\* transitionSerializedUnit writes the movement that balances.
LEMMA TransitionInv ==
  ASSUME StockInv, NEW u \in Units, NEW s \in SERIALIZED_STOCK_STATES,
         TransitionSerializedUnit(u, s)
  PROVE  StockInv'
<1> DEFINE row == [state |-> s, loc |-> unit[u].loc]
           type == MovementTypeForTransition(unit[u].state, s)
           replay == AfterUnitMove(unitReplay[u], unit[u].loc, type)
<1>1. unit' = [unit EXCEPT ![u] = row]
  <2>1. unit' = [unit EXCEPT ![u].state = s]
    BY DEF TransitionSerializedUnit
  <2>2. [unit[u] EXCEPT !.state = s] = row
    BY UnitRows
  <2> QED
    BY <2>1, <2>2
<1>2. unitReplay' = [unitReplay EXCEPT ![u] = replay]
  BY DEF TransitionSerializedUnit
<1>3. UNCHANGED <<active, batch, batchReplay>>
  BY DEF TransitionSerializedUnit
<1>4. MOVEMENT_ON_HAND_SIGN[type] = OnHand(s) - OnHand(unit[u].state)
  BY TransitionMovementBalances
<1>5. OnHand(s) \in {0, 1} /\ OnHand(unit[u].state) \in {0, 1}
  BY OnHandType
<1>6. /\ replay \in [Locations -> Int]
      /\ \A k \in Locations :
           replay[k] = IF k = row.loc THEN OnHand(row.state) ELSE 0
  <2> HIDE DEF type
  <2> QED
    BY <1>4, <1>5, UnitRows DEF AfterUnitMove
<1>7. row \in [state: SERIALIZED_STOCK_STATES, loc: Locations]
  BY UnitRows
<1> HIDE DEF row, replay
<1> QED
  BY <1>1, <1>2, <1>3, <1>6, <1>7, UnitChange

\* transferSerializedUnit moves the unit's one on-hand count.
LEMMA TransferUnitInv ==
  ASSUME StockInv, NEW u \in Units, NEW to \in Locations,
         TransferSerializedUnit(u, to)
  PROVE  StockInv'
<1> DEFINE row == [state |-> unit[u].state, loc |-> to]
           replay == AfterUnitMove(
                       AfterUnitMove(unitReplay[u], unit[u].loc, "transfer_out"),
                       to, "transfer_in")
<1>1. unit' = [unit EXCEPT ![u] = row]
  <2>1. unit' = [unit EXCEPT ![u].loc = to]
    BY DEF TransferSerializedUnit
  <2>2. [unit[u] EXCEPT !.loc = to] = row
    BY UnitRows
  <2> QED
    BY <2>1, <2>2
<1>2. unitReplay' = [unitReplay EXCEPT ![u] = replay]
  BY DEF TransferSerializedUnit
<1>3. UNCHANGED <<active, batch, batchReplay>>
  BY DEF TransferSerializedUnit
<1>4. to # unit[u].loc /\ OnHand(unit[u].state) = 1
  BY DEF TransferSerializedUnit, OnHand
<1>5. /\ replay \in [Locations -> Int]
      /\ \A k \in Locations :
           replay[k] = IF k = row.loc THEN OnHand(row.state) ELSE 0
  BY <1>4, UnitRows, Signs DEF AfterUnitMove
<1>6. row \in [state: SERIALIZED_STOCK_STATES, loc: Locations]
  BY UnitRows
<1> HIDE DEF row, replay
<1> QED
  BY <1>1, <1>2, <1>3, <1>5, <1>6, UnitChange

\* setStockLocationActive leaves the stock alone.
LEMMA LocationInv ==
  ASSUME StockInv, NEW l \in Locations, NEW b \in BOOLEAN,
         SetStockLocationActive(l, b)
  PROVE  StockInv'
<1>1. StockTypeOK'
  BY DEF StockInv, StockTypeOK, SetStockLocationActive
<1>2. UnitLedgerReplays' /\ BatchLedgerReplays' /\ ReservedIsOnHand'
  BY DEF StockInv, UnitLedgerReplays, BatchLedgerReplays, ReservedIsOnHand,
         SetStockLocationActive
<1> QED
  BY <1>1, <1>2 DEF StockInv

-----------------------------------------------------------------------------
\* Every stock operation keeps the invariant.
LEMMA StockStepInv == StockInv /\ [StockNext]_stockVars => StockInv'
<1> SUFFICES ASSUME StockInv, [StockNext]_stockVars PROVE StockInv'
  OBVIOUS
<1>1. ASSUME NEW l \in Locations, NEW q \in Quantities,
             \/ AdjustIn(l, q) \/ AdjustOut(l, q)
             \/ ReserveStock(l, q) \/ ReleaseStock(l, q)
      PROVE  StockInv'
  BY <1>1, AdjustInInv, AdjustOutInv, ReserveStockInv, ReleaseStockInv
<1>2. ASSUME NEW from \in Locations, NEW to \in Locations,
             NEW q \in Quantities, TransferStock(from, to, q)
      PROVE  StockInv'
  BY <1>2, TransferStockInv
<1>3. ASSUME NEW u \in Units, NEW s \in SERIALIZED_STOCK_STATES,
             TransitionSerializedUnit(u, s)
      PROVE  StockInv'
  BY <1>3, TransitionInv
<1>4. ASSUME NEW u \in Units, NEW l \in Locations, TransferSerializedUnit(u, l)
      PROVE  StockInv'
  BY <1>4, TransferUnitInv
<1>5. ASSUME NEW l \in Locations, NEW b \in BOOLEAN, SetStockLocationActive(l, b)
      PROVE  StockInv'
  BY <1>5, LocationInv
<1>6. CASE UNCHANGED stockVars
  BY <1>6 DEF stockVars, StockInv, StockTypeOK, UnitLedgerReplays,
              BatchLedgerReplays, ReservedIsOnHand
<1> QED
  BY <1>1, <1>2, <1>3, <1>4, <1>5, <1>6 DEF StockNext

\* The invariant holds in every reachable state, for any sets of units and
\* locations: the base of the theorems below.
THEOREM StockInvariant == StockSpec => []StockInv
<1>1. StockInit => StockInv
  BY StockInitInv
<1>2. StockInv /\ [StockNext]_stockVars => StockInv'
  BY StockStepInv
<1> QED
  BY <1>1, <1>2, PTL DEF StockSpec

\* Every operation of inventory.service.ts keeps the state well typed; in
\* particular no quantity goes below zero (stock_batches check constraints).
THEOREM StockTypes == StockSpec => []StockTypeOK
<1>1. StockInv => StockTypeOK
  BY DEF StockInv
<1> QED
  BY <1>1, StockInvariant, PTL

\* The ledger of a unit always replays to whether and where it is on hand,
\* and that of the batch to its two counters: writeMovement is called exactly
\* when the on-hand count changes, and every counter change writes its row.
THEOREM StockLedgers == StockSpec => []LedgersReplay
<1>1. StockInv => LedgersReplay
  BY DEF StockInv, LedgersReplay
<1> QED
  BY <1>1, StockInvariant, PTL

\* Reserved stock is on hand, whatever operations interleave.
THEOREM ReservedStock == StockSpec => []ReservedIsOnHand
<1>1. StockInv => ReservedIsOnHand
  BY DEF StockInv
<1> QED
  BY <1>1, StockInvariant, PTL

\* What LifecycleRespected says of a step and a unit.
KeepsLifecycle(u) ==
  /\ unit[u].state = "sold" =>
       unit'[u].state \in {"sold", "returned_inspection"}
  /\ unit[u].state \in {"written_off", "purchase_returned"} =>
       unit'[u] = unit[u]

\* The staff's operations follow the lifecycle (assertTransitionAllowed).
LEMMA LifecycleStep ==
  ASSUME StockInv, [StockNext]_stockVars
  PROVE  [\A u \in Units : KeepsLifecycle(u)]_unit
<1>1. ASSUME NEW v \in Units, NEW s \in SERIALIZED_STOCK_STATES,
             TransitionSerializedUnit(v, s), NEW u \in Units
      PROVE  KeepsLifecycle(u)
  <2>1. unit' = [unit EXCEPT ![v].state = s]
    BY <1>1 DEF TransitionSerializedUnit
  <2>2. s \in SERIALIZED_STATE_TRANSITIONS[unit[v].state] /\ s # "sold"
    BY <1>1 DEF TransitionSerializedUnit, TransitionAllowed
  <2>3. /\ unit[v].state = "sold" => s = "returned_inspection"
        /\ unit[v].state \notin {"written_off", "purchase_returned"}
    BY <2>2 DEF SERIALIZED_STATE_TRANSITIONS
  <2>4. unit \in [Units -> [state: SERIALIZED_STOCK_STATES, loc: Locations]]
    BY DEF StockInv, StockTypeOK
  <2> QED
    BY <2>1, <2>3, <2>4 DEF KeepsLifecycle
<1>2. ASSUME NEW v \in Units, NEW l \in Locations,
             TransferSerializedUnit(v, l), NEW u \in Units
      PROVE  KeepsLifecycle(u)
  <2>1. /\ unit' = [unit EXCEPT ![v].loc = l]
        /\ unit[v].state \in ON_HAND_STOCK_STATES
    BY <1>2 DEF TransferSerializedUnit
  <2>2. unit[v].state \notin {"sold", "written_off", "purchase_returned"}
    BY <2>1 DEF ON_HAND_STOCK_STATES
  <2>3. unit \in [Units -> [state: SERIALIZED_STOCK_STATES, loc: Locations]]
    BY DEF StockInv, StockTypeOK
  <2> QED
    BY <2>1, <2>2, <2>3 DEF KeepsLifecycle
<1>3. CASE UNCHANGED unit
  BY <1>3
<1>4. \/ \E v \in Units, s \in SERIALIZED_STOCK_STATES :
            TransitionSerializedUnit(v, s)
      \/ \E v \in Units, l \in Locations : TransferSerializedUnit(v, l)
      \/ UNCHANGED unit
  BY DEF StockNext, stockVars, AdjustIn, AdjustOut, ReserveStock,
         ReleaseStock, TransferStock, SetStockLocationActive
<1> QED
  BY <1>1, <1>2, <1>3, <1>4

\* A sold handset comes back through inspection only and a written-off or
\* purchase-returned one never changes again (assertTransitionAllowed).
THEOREM Lifecycle == StockSpec => LifecycleRespected
<1>1. StockInv /\ [StockNext]_stockVars => [\A u \in Units : KeepsLifecycle(u)]_unit
  BY LifecycleStep
<1> QED
  BY <1>1, StockInvariant, PTL DEF StockSpec, LifecycleRespected, KeepsLifecycle
=============================================================================
