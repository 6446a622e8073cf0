------------------------------ MODULE SessionLine ------------------------------
(***************************************************************************)
(* What the outbox promises a session, without leases, retries or clocks:  *)
(* a line in which every message keeps the place it joined at, whatever is *)
(* served before it and however often it goes back to waiting; a message   *)
(* joins once and leaves once, delivered only out of service.              *)
(***************************************************************************)
EXTENDS Naturals, Sequences, Enumeration

CONSTANTS Ids, Sessions

VARIABLES
    line,       \* line[s]: the open messages of s, oldest first
    serving,    \* those being delivered
    delivered,  \* messages delivered
    gone        \* messages that left without being delivered

vars == <<line, serving, delivered, gone>>

Members(q) == {q[k] : k \in 1 .. Len(q)}
InLine == UNION {Members(line[s]) : s \in Sessions}
Waiting == InLine \ serving

\* What is left of a line when the messages of S leave it.
Without(q, S) ==
    LET left  == {k \in 1 .. Len(q) : q[k] \notin S}
        order == Listed(left, [k \in left |-> k])
    IN  [n \in 1 .. Cardinality(left) |-> q[order[n]]]

Init ==
    /\ line = [s \in Sessions |-> <<>>]
    /\ serving = {} /\ delivered = {} /\ gone = {}

Join(s, i) ==
    /\ UNCHANGED <<serving, delivered, gone>>
    /\ i \notin InLine \cup delivered \cup gone
    /\ line' = [line EXCEPT ![s] = Append(@, i)]

\* A message in service is delivered; other services that lapsed end with it, and
\* their messages quit for good or keep their place.
Deliver(i, quit, back) ==
    /\ delivered' = delivered \cup {i}
    /\ gone' = gone \cup quit
    /\ serving' = serving \ ({i} \cup quit \cup back)
    /\ line' = [s \in Sessions |-> Without(line[s], {i} \cup quit)]

\* Services end, and of each session at most one waiting message enters service.
Serve(quit, back, start) ==
    /\ serving' = (serving \ (quit \cup back)) \cup start
    /\ gone' = gone \cup quit
    /\ \A s \in Sessions : \A i, j \in start \cap Members(line[s]) : i = j
    /\ UNCHANGED delivered
    /\ line' = [s \in Sessions |-> Without(line[s], quit)]

\* Waiting messages, and ones in service, are withdrawn.
Withdraw(S) ==
    /\ S \subseteq InLine
    /\ gone' = gone \cup S
    /\ serving' = serving \ S
    /\ line' = [s \in Sessions |-> Without(line[s], S)]
    /\ UNCHANGED delivered

Next ==
    \/ \E s \in Sessions, i \in Ids : Join(s, i)
    \/ \E i \in serving :
          \E quit \in SUBSET (serving \ {i}), back \in SUBSET (serving \ {i}) :
              Deliver(i, quit, back)
    \/ \E quit \in SUBSET serving, back \in SUBSET serving, start \in SUBSET Waiting :
          Serve(quit, back, start)
    \/ \E S \in SUBSET InLine : Withdraw(S)

Spec == Init /\ [][Next]_vars
===============================================================================
