----------------------------- MODULE MCBudgets -----------------------------
(* TLC instances of Budgets: one budget of the key of one client, and two    *)
(* handler threads.                                                          *)
EXTENDS Budgets, TLC

CONSTANTS b1, c1, t1, t2

Single == b1 :> {c1}
=============================================================================
