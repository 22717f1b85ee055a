-------------------------- MODULE MCBudgetTracker --------------------------
(* Two concurrent requests and a third id, costs around the limits.  What  *)
(* is recorded may be negative or no finite number at all.                 *)
EXTENDS BudgetTracker, TLC

MCEstimates == {-1, 0, 2, 3, NaN, Infinity}
MCActuals == {-1, 1, 4, NaN, Infinity, NegInfinity}
MCRecorded == {-2, 0, 3, NaN, Infinity, NegInfinity}
MCSymmetry == Permutations(Ids)
============================================================================
