------------------------------ MODULE AtomicStore ------------------------------
(***************************************************************************)
(* What every service of the host takes for granted of its durable state:  *)
(* a mutation happens at once or not at all, it happens only on request,   *)
(* once it has happened nothing undoes it, and a caller that was told of   *)
(* success may rely on it.  A caller that was told of a failure knows      *)
(* nothing, and may ask again.                                             *)
(***************************************************************************)
CONSTANT Calls  \* mutations, each idempotent

VARIABLES applied,  \* those that are durable
          answer    \* what the caller of each has been told

vars == <<applied, answer>>

Answers == {"none", "pending", "ok", "failed"}

Submit(m) ==
    /\ answer[m] \in {"none", "failed"}
    /\ answer' = [answer EXCEPT ![m] = "pending"]
    /\ UNCHANGED applied

Apply(m) ==
    /\ answer[m] = "pending"
    /\ applied' = applied \cup {m}
    /\ UNCHANGED answer

Confirm(m) ==
    /\ answer[m] = "pending" /\ m \in applied
    /\ answer' = [answer EXCEPT ![m] = "ok"]
    /\ UNCHANGED applied

Refuse(m) ==
    /\ answer[m] = "pending"
    /\ answer' = [answer EXCEPT ![m] = "failed"]
    /\ UNCHANGED applied

\* The callers go down with their process.
Lose(S) ==
    /\ \A m \in S : answer[m] = "pending"
    /\ answer' = [m \in Calls |-> IF m \in S THEN "none" ELSE answer[m]]
    /\ UNCHANGED applied

Init ==
    /\ applied \in SUBSET Calls
    /\ answer = [m \in Calls |-> IF m \in applied THEN "ok" ELSE "none"]

Next ==
    \/ \E m \in Calls : Submit(m) \/ Apply(m) \/ Confirm(m) \/ Refuse(m)
    \/ \E S \in SUBSET Calls : Lose(S)

Spec == Init /\ [][Next]_vars

===============================================================================
