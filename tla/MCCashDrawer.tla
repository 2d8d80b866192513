----------------------------- MODULE MCCashDrawer -----------------------------
(* Two requests at a time, two sessions in turn, two cashiers, over a day   *)
(* change.                                                                  *)
EXTENDS CashDrawer, TLC, FiniteSetsExt

MCSymmetry ==
  Permutations(Workers) \cup Permutations(Cashiers) \cup Permutations(Sessions)

\* Bounds the exploration: two movements, in one session or one in each.
MCBound ==
  MapThenSumSet(LAMBDA s : MapThenSumSet(LAMBDA m : drawer[s][m], Movements),
                Sessions) <= 2
=============================================================================
