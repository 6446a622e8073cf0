------------------------------ MODULE MCWorkspace ------------------------------
(* Small instances of Workspace: two sessions share a checkout. *)
EXTENDS Workspace

CONSTANTS s1, s2, s3, w1, w2

MCWorkspaceOf(s) == IF s = s3 THEN w2 ELSE w1

\* Of the initial states, the one in which both trees are there but only the
\* second is on the books; hibernations lead from it to the others.
MCInit ==
    /\ Init
    /\ disk = [w \in Workspaces |-> TRUE]
    /\ residency = [w \in Workspaces |-> IF w = w1 THEN "hibernated" ELSE "resident"]

MCSpec == MCInit /\ [][Next]_vars /\ Fairness
===============================================================================
