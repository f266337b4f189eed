--------------------------- MODULE MCRiskGuardian ---------------------------
(* RiskGuardian for TLC: the monitor and one or two other tasks, one traded  *)
(* symbol, a limit of two API errors, a portfolio worth 100 or 60, and one   *)
(* harmless and one thoroughly bad book of positions.                        *)
EXTENDS RiskGuardian

CONSTANTS m, c1, c2, none

OneCaller == {c1}
TwoCallers == {c1, c2}
MCWorths == {60, 100}
MCBooks == {[count |-> 1, losers |-> 1], [count |-> 2, losers |-> 1]}
=============================================================================
