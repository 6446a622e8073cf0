---------------------------- MODULE MCAccountRefresh ----------------------------
(* Instances of AccountRefresh for TLC: the faults a behaviour may hold.       *)
EXTENDS AccountRefresh

\* Any two of the faults, at most one of each kind.
MCBudget == [f \in Limits |-> IF f = "any" THEN 2 ELSE 1]
\* A login by the user and nothing else.
MCLogin == [f \in Limits |-> IF f \in {"login", "any"} THEN 1 ELSE 0]

===============================================================================
