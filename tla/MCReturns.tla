------------------------------ MODULE MCReturns ------------------------------
(* One branch: a handset and a quantity-tracked accessory, two sales and    *)
(* two returns.  An accessory line of 3 with a discount leaves a total that *)
(* does not divide evenly.                                                  *)
EXTENDS Returns, TLC

MCPrice == [i \in Items |-> IF i = Goods THEN 2 ELSE 3]
MCCost  == [i \in Items |-> 1]

MCSymmetry ==
  Permutations(Returns) \cup Permutations(Sales) \cup Permutations(Locations)

\* The staff moves worth combining with sales: to and from the shelf.
MCUnitStates == {"available", "sold", "returned_inspection"}

\* Bounds the exploration, not the model.
MCBound ==
  /\ \A u \in Units : unit[u].state \in MCUnitStates
  /\ \A l \in Locations : active[l]
  /\ Cardinality({l \in Locations : batch[l].onHand > 0}) <= 1
=============================================================================
