------------------------------ MODULE Inventory ------------------------------
(***************************************************************************)
(* The stock of one branch: backend/src/modules/inventory.                  *)
(*                                                                         *)
(* Serialized units carry a lifecycle state and a location; one            *)
(* quantity-tracked variant has a batch row per location (an absent row and *)
(* a row of zeros are answered alike, so every location has a row).  Every  *)
(* operation runs in one transaction that locks the rows it touches FOR     *)
(* UPDATE before it reads them, and so is one step here; what happens       *)
(* between a client's read and its request is the subject of SalePosting.   *)
(*                                                                         *)
(* The append-only movement ledger is kept as what replaying it yields: for *)
(* every target and location, the sum of the signed quantities written.     *)
(***************************************************************************)
EXTENDS StockStates

CONSTANTS Units,          \* serialized handsets
          Locations,      \* stock locations of the branch
          Quantities,     \* quantities a request may carry
          MaxOnHand       \* bound: no batch is adjusted above this

ASSUME QuantitiesAssumption == Quantities \subseteq Nat \ {0}
ASSUME MaxOnHandAssumption  == MaxOnHand \in Nat

VARIABLES active,       \* stock_locations.is_active
          unit,         \* serialized_units: state and stock location
          batch,        \* stock_batches: on hand and reserved per location
          unitReplay,   \* ledger replay of every unit, per location
          batchReplay   \* ledger replay of the batch, per location

stockVars == <<active, unit, batch, unitReplay, batchReplay>>

StockTypeOK ==
  /\ active \in [Locations -> BOOLEAN]
  /\ unit \in [Units -> [state: SERIALIZED_STOCK_STATES, loc: Locations]]
  /\ batch \in [Locations -> [onHand: Nat, reserved: Nat]]
  /\ unitReplay \in [Units -> [Locations -> Int]]
  /\ batchReplay \in [Locations -> [onHand: Int, reserved: Int]]

\* A received unit lies at the location its receipt named, verified or not,
\* and its purchase_receive movement is the first row of its ledger.
StockInit ==
  /\ active = [l \in Locations |-> TRUE]
  /\ unit \in [Units -> [state: {"available", "pending_verification"},
                         loc: Locations]]
  /\ batch = [l \in Locations |-> [onHand |-> 0, reserved |-> 0]]
  /\ unitReplay = [u \in Units |-> [l \in Locations |->
                     IF l = unit[u].loc THEN 1 ELSE 0]]
  /\ batchReplay = batch

-----------------------------------------------------------------------------
(* writeMovement: one append to the ledger, seen through its replay.        *)

AfterUnitMove(replay, l, type) ==
  [replay EXCEPT ![l] = @ + MOVEMENT_ON_HAND_SIGN[type]]

\* Fault: reservations are booked with the on-hand sign.
AfterBatchMoveUnsigned(replay, type, q) ==
  [onHand   |-> replay.onHand + MOVEMENT_ON_HAND_SIGN[type] * q,
   reserved |-> replay.reserved + MOVEMENT_ON_HAND_SIGN[type] * q]

AfterBatchMove(replay, type, q) ==
  [onHand   |-> replay.onHand + MOVEMENT_ON_HAND_SIGN[type] * q,
   reserved |-> replay.reserved + ReservedSign[type] * q]

\* Fault: reservations are ignored.
AvailableGross(l) == batch[l].onHand

Available(l) == batch[l].onHand - batch[l].reserved

-----------------------------------------------------------------------------
(* Quantity-tracked stock.                                                  *)

AdjustIn(l, q) ==
  /\ active[l]
  /\ batch[l].onHand + q <= MaxOnHand
  /\ batch' = [batch EXCEPT ![l].onHand = @ + q]
  /\ batchReplay' =
       [batchReplay EXCEPT ![l] = AfterBatchMove(@, "adjustment_in", q)]
  /\ UNCHANGED <<active, unit, unitReplay>>

\* A correction may not eat into reserved stock.
AdjustOut(l, q) ==
  /\ active[l]
  /\ batch[l].onHand - q >= batch[l].reserved
  /\ batch' = [batch EXCEPT ![l].onHand = @ - q]
  /\ batchReplay' =
       [batchReplay EXCEPT ![l] = AfterBatchMove(@, "adjustment_out", q)]
  /\ UNCHANGED <<active, unit, unitReplay>>

ReserveStock(l, q) ==
  /\ active[l]
  /\ Available(l) >= q
  /\ batch' = [batch EXCEPT ![l].reserved = @ + q]
  /\ batchReplay' =
       [batchReplay EXCEPT ![l] = AfterBatchMove(@, "reserve", q)]
  /\ UNCHANGED <<active, unit, unitReplay>>

ReleaseStock(l, q) ==
  /\ active[l]
  /\ batch[l].reserved >= q
  /\ batch' = [batch EXCEPT ![l].reserved = @ - q]
  /\ batchReplay' =
       [batchReplay EXCEPT ![l] = AfterBatchMove(@, "release", q)]
  /\ UNCHANGED <<active, unit, unitReplay>>

\* Only free stock moves, and both sides move in one transaction.
TransferStock(from, to, q) ==
  /\ from # to
  /\ active[from] /\ active[to]
  /\ Available(from) >= q
  /\ batch[to].onHand + q <= MaxOnHand
  /\ batch' = [batch EXCEPT ![from].onHand = @ - q, ![to].onHand = @ + q]
  /\ batchReplay' =
       [batchReplay EXCEPT ![from] = AfterBatchMove(@, "transfer_out", q),
                           ![to]   = AfterBatchMove(@, "transfer_in", q)]
  /\ UNCHANGED <<active, unit, unitReplay>>

-----------------------------------------------------------------------------
(* Serialized stock.                                                        *)

TransitionSerializedUnit(u, to) ==
  LET from == unit[u].state
  IN  /\ TransitionAllowed(from, to)
      /\ unit' = [unit EXCEPT ![u].state = to]
      /\ unitReplay' =
           [unitReplay EXCEPT ![u] =
              AfterUnitMove(@, unit[u].loc, MovementTypeForTransition(from, to))]
      /\ UNCHANGED <<active, batch, batchReplay>>

TransferSerializedUnit(u, to) ==
  /\ to # unit[u].loc
  /\ active[to]
  /\ unit[u].state \in ON_HAND_STOCK_STATES
  /\ unit' = [unit EXCEPT ![u].loc = to]
  /\ unitReplay' =
       [unitReplay EXCEPT ![u] =
          AfterUnitMove(AfterUnitMove(@, unit[u].loc, "transfer_out"),
                        to, "transfer_in")]
  /\ UNCHANGED <<active, batch, batchReplay>>

\* A location may be closed whatever stock still lies in it.
SetStockLocationActive(l, isActive) ==
  /\ active[l] # isActive
  /\ active' = [active EXCEPT ![l] = isActive]
  /\ UNCHANGED <<unit, batch, unitReplay, batchReplay>>

-----------------------------------------------------------------------------
StockNext ==
  \/ \E l \in Locations, q \in Quantities :
       \/ AdjustIn(l, q)
       \/ AdjustOut(l, q)
       \/ ReserveStock(l, q)
       \/ ReleaseStock(l, q)
  \/ \E from, to \in Locations, q \in Quantities : TransferStock(from, to, q)
  \/ \E u \in Units, s \in SERIALIZED_STOCK_STATES : TransitionSerializedUnit(u, s)
  \/ \E u \in Units, l \in Locations : TransferSerializedUnit(u, l)
  \/ \E l \in Locations, b \in BOOLEAN : SetStockLocationActive(l, b)

StockSpec == StockInit /\ [][StockNext]_stockVars

-----------------------------------------------------------------------------
(* Properties.                                                              *)

\* Replaying a unit's movements tells, at every location, whether the unit is
\* physically there: the ledger and serialized_units never drift apart,
\* through transfers, write-offs, repairs and warranty trips.
UnitLedgerReplays ==
  \A u \in Units, l \in Locations :
    unitReplay[u][l] = IF l = unit[u].loc THEN OnHand(unit[u].state) ELSE 0

\* Replaying the batch's movements yields its quantities, on hand and
\* reserved: no operation moves a counter without its ledger row.
BatchLedgerReplays == batchReplay = batch

\* The movement ledger, replayed, is the stock: of units and of batches.
LedgersReplay == UnitLedgerReplays /\ BatchLedgerReplays

\* Reserved stock is always really there: corrections, transfers and sales
\* take free stock only (stock_batches_reserved_valid).
ReservedIsOnHand ==
  \A l \in Locations : 0 <= batch[l].reserved /\ batch[l].reserved <= batch[l].onHand

\* A handset that was sold comes back through inspection and nowhere else,
\* and one written off or sent back to its supplier never comes back.
LifecycleRespected ==
  [][\A u \in Units :
       /\ unit[u].state = "sold" =>
            unit'[u].state \in {"sold", "returned_inspection"}
       /\ unit[u].state \in {"written_off", "purchase_returned"} =>
            unit'[u] = unit[u]]_unit
=============================================================================
