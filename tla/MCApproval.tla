----------------------------- MODULE MCApproval -----------------------------
(* Approval for TLC: two trades, a timeout that the poll interval divides   *)
(* unevenly, so that the last sleep overshoots it.                          *)
EXTENDS Approval

CONSTANTS r1, r2

MCRequests == {r1, r2}
=============================================================================
