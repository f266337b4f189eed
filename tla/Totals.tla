------------------------------- MODULE Totals -------------------------------
(***************************************************************************)
(* The sums that the agents, the risk engine and the backtest take of a    *)
(* sequence: Python's sum, and an accumulator in a loop; and the sum of a  *)
(* function over a set, for what the properties count.                     *)
(***************************************************************************)
EXTENDS Integers, Sequences, SequencesExt, FiniteSetsExt

SumOf(q) == FoldLeft(LAMBDA a, x : a + x, 0, q)

SumOver(f, S) == MapThenSumSet(LAMBDA x : f[x], S)
=============================================================================
