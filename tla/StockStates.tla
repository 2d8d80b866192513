----------------------------- MODULE StockStates -----------------------------
(***************************************************************************)
(* The controlled vocabularies of shared/src/enums.ts that the stock        *)
(* modules share: the lifecycle of a serialized unit, the transitions it    *)
(* allows, and the sign each movement type applies to stock on hand.        *)
(***************************************************************************)
EXTENDS Integers

SERIALIZED_STATE_TRANSITIONS ==
  [ pending_verification |-> {"quarantined", "available", "defective",
                              "written_off", "purchase_returned"},
    quarantined          |-> {"available", "defective", "written_off",
                              "purchase_returned", "pending_verification"},
    available            |-> {"reserved", "sold", "defective", "repair",
                              "written_off", "quarantined",
                              "purchase_returned"},
    reserved             |-> {"available", "sold", "defective", "quarantined"},
    sold                 |-> {"returned_inspection"},
    returned_inspection  |-> {"available", "defective", "supplier_warranty",
                              "repair", "written_off", "quarantined"},
    defective            |-> {"supplier_warranty", "repair", "written_off",
                              "purchase_returned", "returned_inspection"},
    supplier_warranty    |-> {"available", "defective", "written_off",
                              "purchase_returned", "repair"},
    customer_warranty    |-> {"repair", "defective", "available",
                              "written_off"},
    repair               |-> {"available", "defective", "written_off",
                              "customer_warranty", "returned_inspection"},
    written_off          |-> {},
    purchase_returned    |-> {} ]

SERIALIZED_STOCK_STATES ==
  {"pending_verification", "quarantined", "available", "reserved", "sold",
   "returned_inspection", "defective", "supplier_warranty",
   "customer_warranty", "repair", "written_off", "purchase_returned"}

\* The states that count as physically on hand.
ON_HAND_STOCK_STATES ==
  {"pending_verification", "quarantined", "available", "reserved",
   "returned_inspection", "defective", "repair"}

\* The movement types the modelled operations write.  "none" stands for a
\* transition that writes no ledger row.
MOVEMENT_TYPES ==
  {"purchase_receive", "sale", "sale_return", "transfer_out", "transfer_in",
   "reserve", "release", "adjustment_in", "adjustment_out", "none"}

MOVEMENT_ON_HAND_SIGN ==
  [ purchase_receive |-> 1, sale |-> -1, sale_return |-> 1,
    transfer_out |-> -1, transfer_in |-> 1, reserve |-> 0, release |-> 0,
    adjustment_in |-> 1, adjustment_out |-> -1, none |-> 0 ]

\* What a movement does to the reserved part of a quantity batch.
ReservedSign == [t \in MOVEMENT_TYPES |->
                   IF t = "reserve" THEN 1 ELSE IF t = "release" THEN -1 ELSE 0]

\* Fault: the transition table is not consulted.
TransitionUnlisted(from, to) ==
  to # "sold" /\ (to = "reserved" => from = "available")

\* assertTransitionAllowed: a unit is sold by a sale only, is reserved from
\* the shelf only, and otherwise follows the table.
TransitionAllowed(from, to) ==
  /\ to # "sold"
  /\ to = "reserved" => from = "available"
  /\ to \in SERIALIZED_STATE_TRANSITIONS[from]

OnHand(state) == IF state \in ON_HAND_STOCK_STATES THEN 1 ELSE 0

\* Fault: every transition to a state on hand counts as coming in.
MovementTypeByTarget(from, to) ==
  CASE from = "available" /\ to = "reserved"  -> "reserve"
    [] from = "reserved"  /\ to = "available" -> "release"
    [] OTHER -> IF OnHand(to) = 1 THEN "adjustment_in" ELSE "adjustment_out"

\* movementTypeForTransition: the ledger row a manual transition writes.
MovementTypeForTransition(from, to) ==
  CASE from = "available" /\ to = "reserved"      -> "reserve"
    [] from = "reserved"  /\ to = "available"     -> "release"
    [] OnHand(from) = 0   /\ OnHand(to) = 1       -> "adjustment_in"
    [] OnHand(from) = 1   /\ OnHand(to) = 0       -> "adjustment_out"
    [] OTHER                                      -> "none"
=============================================================================
