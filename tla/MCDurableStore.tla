----------------------------- MODULE MCDurableStore -----------------------------
(* Small instances of DurableStore: a transition and its message, a change of  *)
(* one row, and what the JSON file held.                                       *)
EXTENDS DurableStore

CONSTANTS k1, k2, m0, m1, m2

MCTouches(m) == CASE m = m0 -> {k1} [] m = m1 -> {k1, k2} [] m = m2 -> {k1}
===============================================================================
