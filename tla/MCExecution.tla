---------------------------- MODULE MCExecution ----------------------------
(* ExecutionService for TLC.                                                *)
EXTENDS ExecutionService, TLC

CONSTANTS c1, c2, c3, btc, eth

OneCall == {c1}
TwoCalls == {c1, c2}
ThreeCalls == {c1, c2, c3}
OneSymbol == {btc}
TwoSymbols == {btc, eth}

Perms2 == Permutations(TwoCalls)
Perms3 == Permutations(ThreeCalls)
=============================================================================
