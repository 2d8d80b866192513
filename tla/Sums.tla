--------------------------------- MODULE Sums ---------------------------------
(***************************************************************************)
(* Sums of amounts: the code's reductions over lines and the database's     *)
(* SUM over rows.                                                           *)
(***************************************************************************)
EXTENDS Integers, FiniteSetsExt

\* The sum of f[x] for all x in S; 0 if there is none.
SumOver(f, S) == MapThenSumSet(LAMBDA x : f[x], S)
=============================================================================
