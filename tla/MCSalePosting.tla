---------------------------- MODULE MCSalePosting ----------------------------
(* Two clients and one member of staff; two sales that share a unit, or sell *)
(* different ones, as the configuration's cart says.                         *)
EXTENDS SalePosting, TLC

CONSTANTS s1, s2, u1, u2

MCSharedCart   == s1 :> {u1} @@ s2 :> {u1}
MCSeparateCart == s1 :> {u1} @@ s2 :> {u2}
MCLockOrder    == u1 :> 1 @@ u2 :> 2
MCOneUnit      == u1 :> 1

\* Bounds the exploration: one edit of a draft or change of a unit, none
\* together with requests on credit or with a second retry.  The two sales of
\* separate carts are alike: it is enough to disturb the first.
MCDisturbedSales ==
  {s \in Sales : doc[s].version > (IF doc[s].status = "draft" THEN 1 ELSE 2)}
MCDisturbedUnits ==
  {u \in Units : unit[u].version > (IF unit[u].state = "sold" THEN 2 ELSE 1)}

MCBound ==
  \/ MCDisturbedSales \cup MCDisturbedUnits = {}
  \/ /\ \/ MCDisturbedSales = {s1} /\ MCDisturbedUnits = {}
        \/ MCDisturbedSales = {} /\ MCDisturbedUnits = {u1}
     /\ \A c \in Clients : /\ request[c] # NotPosted => request[c].payments = "cash"
                           /\ server[c].tries <= 1

MCSymmetry == Permutations(Clients) \cup Permutations(Keys)
=============================================================================
