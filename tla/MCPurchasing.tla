----------------------------- MODULE MCPurchasing -----------------------------
(* Two requests at a time, two orders, two keys and one device identity.    *)
EXTENDS Purchasing, TLC

CONSTANTS o1, o2, d1

MCTerms == { [goods |-> 2, cost |-> 3, devices |-> 0],
             [goods |-> 1, cost |-> 4, devices |-> 1] }

MCContents == { [goods |-> 1, devices |-> {}], [goods |-> 1, devices |-> {d1}] }

MCQuickBuys == { [goods |-> 1, cost |-> 3, paid |-> 2] }

MCSymmetry == Permutations(Workers) \cup Permutations(Orders) \cup Permutations(Keys)

\* Bound: the two orders change six times between them, and a receipt that
\* states another cost than its order's is under way alone.
MCMispriced ==
  {w \in Workers : job[w].request # NoRequest /\ job[w].request.kind = "receive"
                     /\ job[w].request.cost # order[job[w].request.order].terms.cost}

MCBound ==
  /\ order[o1].version + order[o2].version <= 6
  /\ MCMispriced # {} => \E w \in Workers : job[w].pc = "idle"
=============================================================================
