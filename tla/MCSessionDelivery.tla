-------------------------- MODULE MCSessionDelivery ---------------------------
(* Instances of SessionDelivery for TLC: one entry of each provenance, and the *)
(* disturbances each run allows, at most one of each kind.                     *)
EXTENDS SessionDelivery

CONSTANTS t1, a1, o1, c1, d1, r1, n1

MCClassOf(e) == CASE e = t1 -> "typed"
                  [] e = a1 -> "answer"
                  [] e = o1 -> "operation"
                  [] e = c1 -> "continuation"
                  [] e = d1 -> "request"
                  [] e = r1 -> "result"
                  [] e = n1 -> "notice"
MCNoTask(e) == None

Only(S) == [d \in Disturbances |-> IF d \in S THEN 1 ELSE 0]

MCWork == Only({"crash", "refuse", "resolve", "lapse"})
MCQuestion == Only({"ask", "remove", "reorder", "lapse"})
MCLive == Only({"ask", "insert", "cancel", "dismiss", "refuse", "stall"})

===============================================================================
