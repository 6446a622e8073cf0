--------------------------- MODULE OutboxRefinement ---------------------------
(***************************************************************************)
(* The outbox implements SessionLine: forget leases, budgets and clocks,   *)
(* and what is left of the open items of a session is a line, of some      *)
(* messages of which the delivery is under way.                            *)
(***************************************************************************)
EXTENDS Outbox, Enumeration

InState(its, s, states) ==
    {i \in Ids : its[i].session = s /\ its[i].state \in states}

\* The items of S in the order of their admission.
BySequence(its, S) == Listed(S, [i \in S |-> its[i].sequence])

LineIn(its) == [s \in Sessions |-> BySequence(its, InState(its, s, {"pending", "leased"}))]
ServingIn(its) == {i \in Ids : its[i].state = "leased"}
DeliveredIn(its) == {i \in Ids : its[i].state = "delivered"}
GoneIn(its) == {i \in Ids : its[i].state \in {"dead-letter", "cancelled"}}

Line == INSTANCE SessionLine WITH
    line      <- LineIn(items),
    serving   <- ServingIn(items),
    delivered <- DeliveredIn(items),
    gone      <- GoneIn(items)

\* Every behaviour of the outbox is a behaviour of the line: whatever overtakes it,
\* and through every retry, lapse, crash and late answer, a message keeps the place
\* the scheduler sorts it by (scheduler.js compareQueued) and leaves once.
ImplementsLine == Line!Spec
===============================================================================
