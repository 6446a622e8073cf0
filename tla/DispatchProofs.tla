----------------------------- MODULE DispatchProofs -----------------------------
(***************************************************************************)
(* The verdict of a dispatch, for any operations, attempts and restarts:   *)
(* the type correctness of Dispatch.tla, OneReceipt, VerdictFinal and      *)
(* QueuedNeverRuns.                                                        *)
(*                                                                         *)
(* As the tool host is wired an operation settles once (ReceiptOnce), which  *)
(* is inductive with the types: every path that settles an operation goes  *)
(* through Complete, CancelDispatch, DeleteOwner or Start, and each of     *)
(* them looks at the operation it overwrites.  The types need              *)
(* AttemptsLeft: the worker counts an attempt before it makes it, so a     *)
(* request in the queue has one left and a leased one has used one.        *)
(*                                                                         *)
(* QueuedNeverRuns needs to know which delivery could still send: only one *)
(* that holds the slot, and a cancellation that found the slot free found  *)
(* none (QueueInv).                                                        *)
(***************************************************************************)
EXTENDS Dispatch, SequenceTheorems, TLAPS

AttemptsLeft ==
    \A o \in Ops :
        /\ op[o].status = "none" => request[o] = "none" /\ attempts[o] = 0
        /\ request[o] = "pending" => attempts[o] < MaxAttempts
        /\ request[o] = "leased" => attempts[o] > 0

\* No completion asks to resettle: one verdict, and one message about it.
ReceiptOnce ==
    \A o \in Ops :
        /\ receipts[o] = IF Owed(o) THEN <<op[o].result>> ELSE <<>>
        /\ op[o].settles = IF IsTerminal(o) /\ op[o].status # "cancelled" THEN 1 ELSE 0

DispatchInv == TypeOK /\ AttemptsLeft /\ ReceiptOnce

-------------------------------------------------------------------------------
(* The operation service.                                                  *)

Calls == {"delivery", "finalize", "slave", "cancel", "stop"}
StepsOf(call) ==
    CASE call = "delivery" -> {"none", "leased", "claimed", "accepted", "acked", "dead"}
      [] call = "finalize" -> BOOLEAN
      [] call = "slave"    -> {"none", "early", "late", "refused"}
      [] call = "cancel"   -> {"none", "asked", "status", "stopping", "queued", "running",
                               "untrackable"}
      [] call = "stop"     -> {"none", "stopping", "interrupting"}

\* A call that goes on has a step of its own.
LEMMA AtTyped ==
    ASSUME flow \in [Ops -> Flow], NEW o \in Ops, NEW call \in Calls,
           NEW step \in StepsOf(call), At(o, call, step)
    PROVE  flow' \in [Ops -> Flow]
  <1>1. [flow[o] EXCEPT ![call] = step] \in Flow
    BY DEF Flow, Calls, StepsOf
  <1>2. flow' = [flow EXCEPT ![o] = [flow[o] EXCEPT ![call] = step]]
    BY DEF At
  <1> QED BY <1>1, <1>2

\* A verdict changes nothing else of an operation.
LEMMA SettledFacts ==
    ASSUME NEW o \in Ops, op[o] \in Operation,
           NEW status \in Terminal, NEW result \in Results \cup {"none", "cancel"}
    PROVE  LET done == Settled(o, status, result)
               sent == [done EXCEPT !.settles = @ + 1]
           IN  /\ done \in Operation /\ sent \in Operation
               /\ done.status = status /\ sent.status = status
               /\ done.result = result /\ sent.result = result
               /\ done.mode = op[o].mode /\ sent.mode = op[o].mode
               /\ done.settles = op[o].settles /\ sent.settles = op[o].settles + 1
  <1> DEFINE done == Settled(o, status, result)
  <1>1. /\ done \in Operation /\ done.status = status /\ done.result = result
        /\ done.mode = op[o].mode /\ done.settles = op[o].settles
    BY DEF Settled, Operation
  <1>2. done.settles + 1 \in Nat
    BY <1>1 DEF Operation
  <1> HIDE DEF done
  <1>3. LET sent == [done EXCEPT !.settles = done.settles + 1]
        IN  /\ sent \in Operation /\ sent.status = done.status /\ sent.result = done.result
            /\ sent.mode = done.mode /\ sent.settles = done.settles + 1
    BY <1>1, <1>2 DEF Operation
  <1> QED BY <1>1, <1>3 DEF done

\* Completing an operation settles it, or leaves it as it was.
LEMMA CompleteFacts ==
    ASSUME TypeOK, ReceiptOnce, NEW o \in Ops, NEW result \in Results, Complete(o, result)
    PROVE  /\ op' \in [Ops -> Operation]
           /\ receipts' \in [Ops -> Seq(Results)]
           /\ ReceiptOnce'
           /\ \A x \in Ops : IsTerminal(x) => op'[x] = op[x]
           /\ \A x \in Ops : op[x].status = "none" <=> op'[x].status = "none"
  <1>1. op \in [Ops -> Operation] /\ receipts \in [Ops -> Seq(Results)]
    BY DEF TypeOK
  <1>2. StatusOf(result) \in Terminal \ {"cancelled"}
    BY DEF StatusOf, Terminal, Results
  <1>3. CASE ~IsOpen(o)
    <2>1. op' = op /\ receipts' = receipts
      BY <1>3 DEF Complete, CompleteDraft, operation
    <2> QED BY <1>1, <2>1 DEF ReceiptOnce, Owed, IsTerminal
  <1>4. CASE IsOpen(o)
    <2> DEFINE new == [Settled(o, StatusOf(result), result) EXCEPT !.settles = @ + 1]
    <2>1. /\ op' = [op EXCEPT ![o] = new]
          /\ receipts' = IF op[o].mode = "async"
                         THEN [receipts EXCEPT ![o] = Append(receipts[o], result)] ELSE receipts
      BY <1>4 DEF Complete, CompleteDraft, Settling
    <2>2. op[o] \in Operation /\ op[o].status \in {"admitted", "running"}
      BY <1>1, <1>4 DEF IsOpen
    <2>3. op[o].mode \in {"async", "sync"}
      BY <2>2 DEF Operation
    <2>5. new \in Operation /\ new.status \in Terminal \ {"cancelled"}
          /\ new.result = result /\ new.mode = op[o].mode
          /\ new.settles = 1
      <3>1. op[o].settles = 0
        BY <2>2 DEF ReceiptOnce, IsTerminal, Terminal
      <3> QED BY <1>2, <2>2, <3>1, SettledFacts
    <2> HIDE DEF new
    <2>6. op' \in [Ops -> Operation] /\ op'[o] = new /\ \A x \in Ops \ {o} : op'[x] = op[x]
      BY <1>1, <2>1, <2>5
    <2>7. receipts[o] = <<>>
      BY <2>2 DEF ReceiptOnce, Owed, IsTerminal, Terminal
    <2>8. Append(receipts[o], result) = <<result>>
      BY <2>7
    <2>9. /\ receipts' \in [Ops -> Seq(Results)]
          /\ receipts'[o] = IF op[o].mode = "async" THEN <<result>> ELSE <<>>
          /\ \A x \in Ops \ {o} : receipts'[x] = receipts[x]
      BY <1>1, <2>1, <2>7, <2>8
    <2>10. ~IsTerminal(o)
      BY <2>2 DEF IsTerminal, Terminal
    <2>11. ASSUME NEW x \in Ops
           PROVE  receipts'[x] = IF op'[x].mode = "async" /\ op'[x].status \in Terminal
                                    /\ op'[x].status # "cancelled"
                                 THEN <<op'[x].result>> ELSE <<>>
      BY <2>3, <2>5, <2>6, <2>9 DEF ReceiptOnce, Owed, IsTerminal
    <2>14. ASSUME NEW x \in Ops
           PROVE  op'[x].settles = IF op'[x].status \in Terminal /\ op'[x].status # "cancelled"
                                   THEN 1 ELSE 0
      BY <2>5, <2>6 DEF ReceiptOnce, IsTerminal
    <2>12. ReceiptOnce'
      BY <2>11, <2>14 DEF ReceiptOnce, Owed, IsTerminal, Terminal
    <2>13. new.status # "none"
      BY <2>5 DEF Terminal
    <2> QED BY <2>2, <2>6, <2>9, <2>10, <2>12, <2>13
  <1> QED BY <1>3, <1>4

OperationsKept ==
    /\ op' \in [Ops -> Operation]
    /\ receipts' \in [Ops -> Seq(Results)]
    /\ ReceiptOnce'
    /\ \A x \in Ops : IsTerminal(x) => op'[x] = op[x]
    /\ \A x \in Ops : op'[x].status = "none" => op[x].status = "none"

LEMMA UnchangedOperations ==
    ASSUME TypeOK, ReceiptOnce, UNCHANGED operation
    PROVE  OperationsKept
  BY DEF OperationsKept, TypeOK, ReceiptOnce, Owed, IsTerminal, operation

\* Admission, running and cancelling send nothing, and overwrite no verdict.
LEMMA SilentFacts ==
    ASSUME TypeOK, ReceiptOnce, NEW o \in Ops, NEW new \in Operation, ~IsTerminal(o),
           new.status \notin Terminal \/ new.status = "cancelled", new.status # "none",
           new.settles = op[o].settles, op' = [op EXCEPT ![o] = new], receipts' = receipts
    PROVE  OperationsKept
  <1>1. op \in [Ops -> Operation] /\ receipts \in [Ops -> Seq(Results)]
    BY DEF TypeOK
  <1>2. op' \in [Ops -> Operation] /\ op'[o] = new /\ \A x \in Ops \ {o} : op'[x] = op[x]
    BY <1>1
  <1>3. receipts[o] = <<>>
    BY DEF ReceiptOnce, Owed
  <1>4. ReceiptOnce'
    BY <1>2, <1>3 DEF ReceiptOnce, Owed, IsTerminal
  <1> QED BY <1>1, <1>2, <1>4 DEF OperationsKept, IsTerminal

\* The operations keep in step with their receipts, whoever settles them.
LEMMA OperationStep ==
    ASSUME DispatchInv, [Next]_vars
    PROVE  OperationsKept
  <1>1. /\ TypeOK /\ ReceiptOnce
        /\ op \in [Ops -> Operation] /\ receipts \in [Ops -> Seq(Results)]
    BY DEF DispatchInv, TypeOK
  <1>2. CASE UNCHANGED vars \/ DeleteTarget \/ Crash \/ SweepTarget
    BY <1>1, <1>2, UnchangedOperations DEF vars, DeleteTarget, Crash, SweepTarget, operation
  <1>3. ASSUME NEW o \in Ops,
               \/ Lease(o) \/ Defer(o) \/ TakeSlot(o) \/ Send(o) \/ Acknowledge(o)
               \/ LeaseLapses(o) \/ TurnEnds(o) \/ SlaveReads(o) \/ CancelReads(o)
               \/ CancelQueued(o) \/ CancelRefused(o) \/ CancelRunning(o)
               \/ CancelUntrackable(o) \/ CancelStopped(o) \/ StopAsked(o) \/ StopRunner(o)
        PROVE  OperationsKept
    BY <1>1, <1>3, UnchangedOperations DEF Lease, Defer, TakeSlot, Send, SendAccepted, SendFailed,
          Acknowledge, LeaseLapses, TurnEnds, SlaveReads, CancelReads, CancelQueued, CancelRefused,
          CancelRunning, CancelUntrackable, CancelStopped, StopAsked, StopRunner, operation
  <1>4. ASSUME NEW o \in Ops,
               \/ SettleDeadLetter(o) \/ FinalizeDispatch(o) \/ SlaveCompletes(o)
               \/ InterruptDispatch(o) \/ InterruptDoomed(o)
        PROVE  OperationsKept
    <2>1. \E result \in Results : Complete(o, result)
      <3>1. {"undelivered", "missing", "final", "stopped", "deleted"}
                \cup Receipts \subseteq Results
        BY DEF Results
      <3> QED BY <1>4, <3>1 DEF SettleDeadLetter, FinalizeDispatch, SlaveCompletes,
                 InterruptDispatch, InterruptDoomed
    <2> QED BY <1>1, <2>1, CompleteFacts DEF OperationsKept
  <1>5. ASSUME NEW o \in Ops, NEW mode \in {"async", "sync"}, Admit(o, mode)
        PROVE  OperationsKept
    <2> DEFINE new == [status |-> "admitted", mode |-> mode, result |-> "none", settles |-> 0]
    <2>1. op' = [op EXCEPT ![o] = new] /\ receipts' = receipts /\ ~IsTerminal(o)
      BY <1>5 DEF Admit, IsTerminal, Terminal
    <2>2. new \in Operation /\ new.status = "admitted" /\ new.settles = op[o].settles
      BY <1>1, <2>1 DEF Operation, ReceiptOnce
    <2> HIDE DEF new
    <2> QED BY <1>1, <2>1, <2>2, SilentFacts DEF Terminal
  <1>6. ASSUME NEW o \in Ops, MarkRunning(o)
        PROVE  OperationsKept
    <2>1. CASE ~IsOpen(o)
      <3>1. op' = [op EXCEPT ![o].status = op[o].status] /\ receipts' = receipts
        BY <1>6, <2>1 DEF MarkRunning
      <3>2. [op[o] EXCEPT !.status = op[o].status] = op[o]
        BY <1>1 DEF Operation
      <3>3. op' = [op EXCEPT ![o] = op[o]]
        BY <3>1, <3>2
      <3>4. op' = op
        BY <1>1, <3>3
      <3> QED BY <1>1, <3>1, <3>4, UnchangedOperations DEF operation
    <2>2. CASE IsOpen(o)
      <3> DEFINE new == [op[o] EXCEPT !.status = "running"]
      <3>1. op' = [op EXCEPT ![o] = new] /\ receipts' = receipts
        BY <1>6, <2>2 DEF MarkRunning
      <3>2. new \in Operation /\ new.status = "running" /\ new.settles = op[o].settles
        BY <1>1 DEF Operation
      <3>3. ~IsTerminal(o)
        BY <2>2 DEF IsOpen, IsTerminal, Terminal
      <3> HIDE DEF new
      <3> QED BY <1>1, <3>1, <3>2, <3>3, SilentFacts DEF Terminal
    <2> QED BY <2>1, <2>2
  <1>7. ASSUME NEW o \in Ops, SettleCancel(o)
        PROVE  OperationsKept
    <2>1. CancelDispatch(o) /\ receipts' = receipts
      BY <1>7 DEF SettleCancel
    <2>2. CASE ~IsOpen(o)
      BY <1>1, <2>1, <2>2, UnchangedOperations DEF CancelDispatch, operation
    <2>3. CASE IsOpen(o)
      <3> DEFINE new == Settled(o, "cancelled", "cancel")
      <3>1. op' = [op EXCEPT ![o] = new]
        BY <2>1, <2>3 DEF CancelDispatch
      <3>2. new \in Operation /\ new.status = "cancelled" /\ new.settles = op[o].settles
        BY <1>1 DEF Operation, Settled, Terminal
      <3>3. ~IsTerminal(o)
        BY <2>3 DEF IsOpen, IsTerminal, Terminal
      <3> HIDE DEF new
      <3> QED BY <1>1, <2>1, <3>1, <3>2, <3>3, SilentFacts
    <2> QED BY <2>2, <2>3
  <1>8. CASE DeleteOwner
    <2>1. /\ op' = [o \in Ops |-> IF IsOpen(o) THEN Settled(o, "cancelled", "none") ELSE op[o]]
          /\ receipts' = receipts
      BY <1>8 DEF DeleteOwner
    <2>2. \A o \in Ops : /\ Settled(o, "cancelled", "none") \in Operation
                         /\ Settled(o, "cancelled", "none").status = "cancelled"
                         /\ Settled(o, "cancelled", "none").settles = op[o].settles
      BY <1>1 DEF Settled, Operation, Terminal
    <2>3. op' \in [Ops -> Operation]
      BY <1>1, <2>1, <2>2
    <2>4. \A o \in Ops : IsOpen(o) => /\ receipts[o] = <<>> /\ ~IsTerminal(o)
                                      /\ op[o].settles = 0
      BY <1>1 DEF ReceiptOnce, Owed, IsOpen, IsTerminal, Terminal
    <2>5. ASSUME NEW o \in Ops
          PROVE  /\ op'[o] = IF IsOpen(o) THEN Settled(o, "cancelled", "none") ELSE op[o]
                 /\ op'[o].status = "none" => op[o].status = "none"
      BY <2>1, <2>2
    <2>6. ReceiptOnce'
      BY <1>1, <2>1, <2>2, <2>4, <2>5 DEF ReceiptOnce, Owed, IsTerminal
    <2> QED BY <1>1, <2>1, <2>3, <2>4, <2>5, <2>6 DEF OperationsKept
  <1>9. CASE Start
    <2> DEFINE gone(o) == IsOpen(o) /\ Verdict(o) # "none"
               new(o) == [Settled(o, StatusOf(Verdict(o)), Verdict(o)) EXCEPT !.settles = @ + 1]
    <2>1. /\ op' = [o \in Ops |-> IF gone(o) THEN new(o) ELSE op[o]]
          /\ receipts' = [o \in Ops |-> IF gone(o) /\ op[o].mode = "async"
                                        THEN Append(receipts[o], Verdict(o)) ELSE receipts[o]]
      BY <1>9 DEF Start
    <2>2. \A o \in Ops : gone(o) => Verdict(o) \in {"exhausted", "recovered", "lost"}
      BY DEF Verdict
    <2>3. \A v \in {"exhausted", "recovered", "lost"} :
             v \in Results /\ StatusOf(v) \in {"completed", "interrupted"}
      BY DEF StatusOf, Results, Receipts
    <2>4. \A o \in Ops : gone(o) =>
             /\ new(o) \in Operation /\ new(o).status \in {"completed", "interrupted"}
             /\ new(o).result = Verdict(o) /\ new(o).mode = op[o].mode
             /\ new(o).settles = 1
      <3>1. \A o \in Ops : gone(o) => op[o].settles = 0
        BY <1>1 DEF ReceiptOnce, IsOpen, IsTerminal, Terminal
      <3> SUFFICES ASSUME NEW o \in Ops, gone(o)
                   PROVE  /\ new(o) \in Operation
                          /\ new(o).status \in {"completed", "interrupted"}
                          /\ new(o).result = Verdict(o) /\ new(o).mode = op[o].mode
                          /\ new(o).settles = 1
        OBVIOUS
      <3>2. StatusOf(Verdict(o)) \in {"completed", "interrupted"} /\ Verdict(o) \in Results
        BY <2>2, <2>3
      <3>3. op[o] \in Operation /\ op[o].settles = 0
        BY <1>1, <3>1
      <3> QED BY <3>2, <3>3, SettledFacts DEF Terminal
    <2>5. \A o \in Ops : gone(o) => receipts[o] = <<>> /\ ~IsTerminal(o) /\ Verdict(o) \in Results
      BY <1>1, <2>2, <2>3 DEF ReceiptOnce, Owed, IsOpen, IsTerminal, Terminal
    <2> HIDE DEF gone, new
    <2>6. op' \in [Ops -> Operation]
      BY <1>1, <2>1, <2>4
    <2>7. \A o \in Ops : gone(o) => Append(receipts[o], Verdict(o)) = <<Verdict(o)>>
                                    /\ <<Verdict(o)>> \in Seq(Results)
      <3>1. \A v \in Results : Append(<<>>, v) = <<v>> /\ <<v>> \in Seq(Results)
        OBVIOUS
      <3> QED BY <2>5, <3>1
    <2>8. receipts' \in [Ops -> Seq(Results)]
      BY <1>1, <2>1, <2>7
    <2>9. ASSUME NEW o \in Ops
          PROVE  receipts'[o] = IF op'[o].mode = "async" /\ op'[o].status \in Terminal
                                   /\ op'[o].status # "cancelled"
                                THEN <<op'[o].result>> ELSE <<>>
      <3>1. CASE gone(o)
        <4>1. op'[o] = new(o) /\ new(o).status \in Terminal /\ new(o).status # "cancelled"
          BY <2>1, <2>4, <3>1 DEF Terminal
        <4>2. receipts'[o] = IF op[o].mode = "async" THEN <<Verdict(o)>> ELSE <<>>
          BY <2>1, <2>5, <2>7, <3>1
        <4> QED BY <2>4, <3>1, <4>1, <4>2
      <3>2. CASE ~gone(o)
        BY <1>1, <2>1, <3>2 DEF ReceiptOnce, Owed, IsTerminal
      <3> QED BY <3>1, <3>2
    <2>13. ASSUME NEW o \in Ops
           PROVE  op'[o].settles = IF op'[o].status \in Terminal /\ op'[o].status # "cancelled"
                                   THEN 1 ELSE 0
      <3>1. CASE gone(o)
        BY <2>1, <2>4, <3>1 DEF Terminal
      <3>2. CASE ~gone(o)
        BY <1>1, <2>1, <3>2 DEF ReceiptOnce, IsTerminal
      <3> QED BY <3>1, <3>2
    <2>10. ReceiptOnce'
      BY <2>9, <2>13 DEF ReceiptOnce, Owed, IsTerminal, Terminal
    <2>11. \A o \in Ops : IsTerminal(o) => op'[o] = op[o]
      BY <2>1, <2>5
    <2>12. \A o \in Ops : op'[o].status = "none" => op[o].status = "none"
      BY <2>1, <2>4
    <2> QED BY <2>6, <2>8, <2>10, <2>11, <2>12 DEF OperationsKept
  <1> QED BY <1>2, <1>3, <1>4, <1>5, <1>6, <1>7, <1>8, <1>9
          DEF Next, Deliver, CancelStep, StopStep, Deletion


-------------------------------------------------------------------------------
(* Requests, calls and the rest.                                           *)

RequestsKept ==
    /\ request' \in [Ops -> {"none", "pending", "leased", "delivered", "dead-letter",
                             "cancelled"}]
    /\ attempts' \in [Ops -> 0 .. MaxAttempts]
    /\ AttemptsLeft'

\* One request moves on.
LEMMA RequestFacts ==
    ASSUME DispatchInv, OperationsKept, NEW o \in Ops,
           NEW r \in {"none", "pending", "leased", "delivered", "dead-letter", "cancelled"},
           NEW a \in 0 .. MaxAttempts,
           request' = [request EXCEPT ![o] = r], attempts' = [attempts EXCEPT ![o] = a],
           op'[o].status = "none" => r = "none" /\ a = 0,
           r = "pending" => a < MaxAttempts, r = "leased" => a > 0
    PROVE  RequestsKept
  <1>1. /\ request \in [Ops -> {"none", "pending", "leased", "delivered", "dead-letter",
                                "cancelled"}]
        /\ attempts \in [Ops -> 0 .. MaxAttempts]
    BY DEF DispatchInv, TypeOK
  <1>2. \A x \in Ops \ {o} : request'[x] = request[x] /\ attempts'[x] = attempts[x]
    BY <1>1
  <1>3. request'[o] = r /\ attempts'[o] = a
    BY <1>1
  <1>4. AttemptsLeft'
    BY <1>2, <1>3 DEF DispatchInv, AttemptsLeft, OperationsKept
  <1> QED BY <1>1, <1>4 DEF RequestsKept

LEMMA UnchangedRequests ==
    ASSUME DispatchInv, OperationsKept, UNCHANGED <<request, attempts>>
    PROVE  RequestsKept
  BY DEF DispatchInv, TypeOK, OperationsKept, RequestsKept, AttemptsLeft

\* A deletion takes requests out of the queue and adds none.
LEMMA SweptFacts ==
    ASSUME DispatchInv, OperationsKept, request' = SweptRequests, attempts' = attempts
    PROVE  RequestsKept
  <1>1. /\ request \in [Ops -> {"none", "pending", "leased", "delivered", "dead-letter",
                                "cancelled"}]
        /\ attempts \in [Ops -> 0 .. MaxAttempts]
    BY DEF DispatchInv, TypeOK
  <1>2. \A x \in Ops : request'[x] = IF request[x] \in {"pending", "leased"} THEN "cancelled"
                                     ELSE request[x]
    BY DEF SweptRequests
  <1>3. request' \in [Ops -> {"none", "pending", "leased", "delivered", "dead-letter",
                              "cancelled"}]
    BY <1>1 DEF SweptRequests
  <1>4. AttemptsLeft'
    BY <1>2 DEF DispatchInv, AttemptsLeft, OperationsKept
  <1> QED BY <1>1, <1>3, <1>4 DEF RequestsKept

\* Every delivery path leaves a queued request an attempt.
LEMMA RequestStep ==
    ASSUME DispatchInv, [Next]_vars
    PROVE  RequestsKept
  <1>1. /\ request \in [Ops -> {"none", "pending", "leased", "delivered", "dead-letter",
                                "cancelled"}]
        /\ attempts \in [Ops -> 0 .. MaxAttempts]
        /\ MaxAttempts \in Nat \ {0}
        /\ AttemptsLeft /\ OperationsKept
    BY OperationStep, DispatchAssumption DEF DispatchInv, TypeOK
  <1>2. \A o \in Ops : request[o] # "none" => op'[o].status # "none"
    BY <1>1 DEF AttemptsLeft, OperationsKept
  <1>3. \A o \in Ops : AfterFailure(o) \in {"pending", "dead-letter"}
                       /\ (AfterFailure(o) = "pending" => attempts[o] < MaxAttempts)
    BY DEF AfterFailure
  <1>4. \A o \in Ops : attempts = [attempts EXCEPT ![o] = attempts[o]]
                       /\ request = [request EXCEPT ![o] = request[o]]
    BY <1>1
  <1>5. CASE \/ UNCHANGED vars \/ DeleteTarget \/ Crash \/ Start
             \/ \E o \in Ops : InterruptDoomed(o)
    BY <1>1, <1>5, UnchangedRequests
       DEF vars, DeleteTarget, Crash, Start, InterruptDoomed, delivery
  <1>6. CASE SweepTarget \/ DeleteOwner
    BY <1>1, <1>6, SweptFacts DEF SweepTarget, DeleteOwner
  <1>7. ASSUME NEW o \in Ops,
               \/ TakeSlot(o) \/ SendAccepted(o) \/ SettleDeadLetter(o) \/ MarkRunning(o)
               \/ TurnEnds(o) \/ FinalizeDispatch(o) \/ SlaveReads(o) \/ SlaveCompletes(o)
               \/ CancelReads(o) \/ CancelRefused(o) \/ CancelRunning(o)
               \/ CancelUntrackable(o) \/ CancelStopped(o) \/ SettleCancel(o)
               \/ StopAsked(o) \/ StopStep(o)
        PROVE  RequestsKept
    BY <1>1, <1>7, UnchangedRequests DEF TakeSlot, SendAccepted, SettleDeadLetter, MarkRunning,
          TurnEnds, FinalizeDispatch, SlaveReads, SlaveCompletes, CancelReads, CancelRefused,
          CancelRunning, CancelUntrackable, CancelStopped, SettleCancel, StopAsked, StopStep,
          StopRunner, InterruptDispatch, delivery
  <1>8. ASSUME NEW o \in Ops, NEW mode \in {"async", "sync"}, Admit(o, mode)
        PROVE  RequestsKept
    <2>1. /\ request' = [request EXCEPT ![o] = "pending"]
          /\ attempts' = [attempts EXCEPT ![o] = 0]
      BY <1>1, <1>4, <1>8 DEF Admit, AttemptsLeft
    <2>2. op'[o].status = "admitted"
      BY <1>8 DEF Admit, DispatchInv, TypeOK
    <2>3. 0 \in 0 .. MaxAttempts /\ 0 < MaxAttempts
      BY <1>1
    <2> QED BY <1>1, <2>1, <2>2, <2>3, RequestFacts
  <1>9. ASSUME NEW o \in Ops, Lease(o)
        PROVE  RequestsKept
    <2>1. /\ request[o] = "pending" /\ request' = [request EXCEPT ![o] = "leased"]
          /\ attempts' = [attempts EXCEPT ![o] = attempts[o] + 1]
      BY <1>9 DEF Lease
    <2>2. attempts[o] + 1 \in 0 .. MaxAttempts /\ attempts[o] + 1 > 0
      BY <1>1, <2>1 DEF AttemptsLeft
    <2> QED BY <1>1, <1>2, <2>1, <2>2, RequestFacts
  <1>10. ASSUME NEW o \in Ops, Defer(o)
         PROVE  RequestsKept
    <2>1. /\ request[o] = "leased" /\ request' = [request EXCEPT ![o] = "pending"]
          /\ attempts' = [attempts EXCEPT ![o] = attempts[o] - 1]
      BY <1>10 DEF Defer
    <2>2. attempts[o] - 1 \in 0 .. MaxAttempts /\ attempts[o] - 1 < MaxAttempts
      BY <1>1, <2>1 DEF AttemptsLeft
    <2> QED BY <1>1, <1>2, <2>1, <2>2, RequestFacts
  <1>11. ASSUME NEW o \in Ops, SendFailed(o) \/ LeaseLapses(o)
         PROVE  RequestsKept
    <2>1. /\ attempts' = [attempts EXCEPT ![o] = attempts[o]]
          /\ \/ request' = request
             \/ /\ request[o] = "leased"
                /\ \E r \in {AfterFailure(o), "dead-letter"} :
                      request' = [request EXCEPT ![o] = r]
      BY <1>4, <1>11 DEF SendFailed, LeaseLapses
    <2>2. CASE request' = request
      BY <1>1, <1>4, <2>1, <2>2, UnchangedRequests
    <2>3. CASE request' # request
      <3>1. PICK r \in {AfterFailure(o), "dead-letter"} :
               request[o] = "leased" /\ request' = [request EXCEPT ![o] = r]
        BY <2>1, <2>3
      <3>2. /\ r \in {"pending", "dead-letter"}
            /\ r = "pending" => attempts[o] < MaxAttempts
            /\ attempts[o] \in 0 .. MaxAttempts
        BY <1>1, <1>3
      <3> QED BY <1>1, <1>2, <2>1, <3>1, <3>2, RequestFacts
    <2> QED BY <2>2, <2>3
  <1>12. ASSUME NEW o \in Ops, Acknowledge(o) \/ CancelQueued(o)
         PROVE  RequestsKept
    <2>1. /\ attempts' = [attempts EXCEPT ![o] = attempts[o]]
          /\ \/ request' = request
             \/ /\ request[o] # "none"
                /\ \E r \in {"delivered", "cancelled"} : request' = [request EXCEPT ![o] = r]
      BY <1>4, <1>12 DEF Acknowledge, CancelQueued, Cancellable
    <2>2. CASE request' = request
      BY <1>1, <1>4, <2>1, <2>2, UnchangedRequests
    <2>3. CASE request' # request
      <3>1. attempts[o] \in 0 .. MaxAttempts
        BY <1>1
      <3> QED BY <1>1, <1>2, <2>1, <2>3, <3>1, RequestFacts
    <2> QED BY <2>2, <2>3
  <1> QED BY <1>5, <1>6, <1>7, <1>8, <1>9, <1>10, <1>11, <1>12
          DEF Next, Deliver, Send, CancelStep, Deletion


\* The calls under way go from step to step of their own.
LEMMA FlowStep ==
    ASSUME DispatchInv, [Next]_vars
    PROVE  flow' \in [Ops -> Flow]
  <1>1. /\ flow \in [Ops -> Flow]
        /\ {"delivery", "finalize", "slave", "cancel", "stop"} = Calls
    BY DEF DispatchInv, TypeOK, Calls
  <1>2. /\ StepsOf("delivery") = {"none", "leased", "claimed", "accepted", "acked", "dead"}
        /\ StepsOf("finalize") = BOOLEAN
        /\ StepsOf("slave") = {"none", "early", "late", "refused"}
        /\ StepsOf("cancel") = {"none", "asked", "status", "stopping", "queued", "running",
                                "untrackable"}
        /\ StepsOf("stop") = {"none", "stopping", "interrupting"}
    BY DEF StepsOf
  <1>3. CASE \/ UNCHANGED vars \/ DeleteTarget \/ Deletion \/ DeleteOwner \/ Start
             \/ \E o \in Ops : \/ \E mode \in {"async", "sync"} : Admit(o, mode)
                               \/ LeaseLapses(o)
    BY <1>1, <1>3 DEF vars, DeleteTarget, Deletion, SweepTarget, InterruptDoomed, DeleteOwner,
          Start, Admit, LeaseLapses
  <1>4. CASE Crash
    BY <1>4 DEF Crash, Idle, Flow
  <1>5. ASSUME NEW o \in Ops,
               \/ Lease(o) \/ Defer(o) \/ TakeSlot(o) \/ SendAccepted(o) \/ SendFailed(o)
               \/ SettleDeadLetter(o) \/ Acknowledge(o) \/ MarkRunning(o)
        PROVE  flow' \in [Ops -> Flow]
    <2>1. \E step \in StepsOf("delivery") : At(o, "delivery", step)
      BY <1>2, <1>5 DEF Lease, Defer, TakeSlot, SendAccepted, SendFailed,
            SettleDeadLetter, Acknowledge, MarkRunning
    <2> QED BY <1>1, <2>1, AtTyped
  <1>6. ASSUME NEW o \in Ops, TurnEnds(o) \/ FinalizeDispatch(o)
        PROVE  flow' \in [Ops -> Flow]
    <2>1. \E step \in StepsOf("finalize") : At(o, "finalize", step)
      BY <1>2, <1>6 DEF TurnEnds, FinalizeDispatch
    <2> QED BY <1>1, <2>1, AtTyped
  <1>7. ASSUME NEW o \in Ops, SlaveReads(o) \/ SlaveCompletes(o)
        PROVE  flow' \in [Ops -> Flow]
    <2>1. \E step \in StepsOf("slave") : At(o, "slave", step)
      BY <1>2, <1>7 DEF SlaveReads, SlaveCompletes
    <2> QED BY <1>1, <2>1, AtTyped
  <1>8. ASSUME NEW o \in Ops,
               \/ CancelReads(o) \/ CancelQueued(o) \/ CancelRefused(o) \/ CancelUntrackable(o)
               \/ CancelStopped(o) \/ SettleCancel(o)
        PROVE  flow' \in [Ops -> Flow]
    <2>1. \E step \in StepsOf("cancel") : At(o, "cancel", step)
      BY <1>2, <1>8 DEF CancelReads, CancelQueued, CancelRefused, CancelUntrackable,
            CancelStopped, SettleCancel
    <2> QED BY <1>1, <2>1, AtTyped
  <1>9. ASSUME NEW o \in Ops, StopAsked(o) \/ StopStep(o)
        PROVE  flow' \in [Ops -> Flow]
    <2>1. \E step \in StepsOf("stop") : At(o, "stop", step)
      BY <1>2, <1>9 DEF StopAsked, StopStep, StopRunner, InterruptDispatch
    <2> QED BY <1>1, <2>1, AtTyped
  <1>10. ASSUME NEW o \in Ops, CancelRunning(o)
         PROVE  flow' \in [Ops -> Flow]
    <2> DEFINE stop == IF flow[o].stop = "none" THEN "stopping" ELSE flow[o].stop
               new == [[flow[o] EXCEPT !.cancel = "stopping"] EXCEPT !.stop = stop]
    <2>1. stop \in {"none", "stopping", "interrupting"}
      BY <1>1 DEF Flow
    <2>2. flow' = [flow EXCEPT ![o] = new]
      BY <1>10 DEF CancelRunning
    <2> HIDE DEF stop
    <2>3. new \in Flow
      BY <1>1, <2>1 DEF Flow
    <2> QED BY <1>1, <2>2, <2>3
  <1> QED BY <1>3, <1>4, <1>5, <1>6, <1>7, <1>8, <1>9, <1>10
          DEF Next, Deliver, Send, CancelStep

OthersTyped ==
    /\ saved \in [Ops -> {"no", "rejected", "yes"}]
    /\ slot \in [Ops -> BOOLEAN]
    /\ turn \in [Ops -> {"none", "running", "ended"}]
    /\ answer \in [Ops -> BOOLEAN]
    /\ told \in [Ops -> {"nothing", "queued", "running", "untrackable", "raced"}]
    /\ target \in {"there", "doomed", "gone"}
    /\ doomed \in SUBSET Ops
    /\ owner \in {"there", "gone"}
    /\ up \in BOOLEAN /\ crashes \in Nat

\* So does everything else.
LEMMA OthersStep ==
    ASSUME DispatchInv, [Next]_vars
    PROVE  OthersTyped'
  <1>1. OthersTyped
    BY DEF DispatchInv, TypeOK, OthersTyped
  <1>2. CASE UNCHANGED vars \/ DeleteTarget \/ SweepTarget \/ DeleteOwner \/ Crash \/ Start
    <2>1. CASE UNCHANGED vars
      BY <1>1, <2>1 DEF OthersTyped, vars
    <2>2. CASE DeleteTarget
      BY <1>1, <2>2 DEF OthersTyped, DeleteTarget, delivery, world
    <2>3. CASE SweepTarget
      BY <1>1, <2>3 DEF OthersTyped, SweepTarget, world
    <2>4. CASE DeleteOwner
      BY <1>1, <2>4 DEF OthersTyped, DeleteOwner, work, world
    <2>5. CASE Crash
      <3>1. /\ \A o \in Ops : (IF saved[o] = "rejected" THEN "yes" ELSE saved[o])
                               \in {"no", "rejected", "yes"}
            /\ \A o \in Ops : (IF turn[o] = "running" THEN "ended" ELSE turn[o])
                               \in {"none", "running", "ended"}
        BY <1>1 DEF OthersTyped
      <3>2. /\ saved' \in [Ops -> {"no", "rejected", "yes"}]
            /\ turn' \in [Ops -> {"none", "running", "ended"}]
        BY <2>5, <3>1 DEF Crash
      <3>3. /\ up' \in BOOLEAN /\ crashes' \in Nat
            /\ target' \in {"there", "doomed", "gone"} /\ doomed' \in SUBSET Ops
        <4>1. /\ up' = FALSE /\ crashes' = crashes + 1 /\ doomed' = {}
              /\ target' = IF target = "doomed" THEN "there" ELSE target
          BY <2>5 DEF Crash
        <4>2. crashes \in Nat /\ target \in {"there", "doomed", "gone"}
          BY <1>1 DEF OthersTyped
        <4>3. crashes' \in Nat
          BY <4>1, <4>2
        <4> QED BY <4>1, <4>2, <4>3
      <3>4. UNCHANGED <<slot, answer, told, owner>>
        BY <2>5 DEF Crash
      <3> QED BY <1>1, <3>2, <3>3, <3>4 DEF OthersTyped
    <2>6. CASE Start
      <3>1. slot' \in [Ops -> BOOLEAN]
        BY <2>6 DEF Start
      <3> QED BY <1>1, <2>6, <3>1 DEF OthersTyped, Start, work, sessions
    <2> QED BY <1>2, <2>1, <2>2, <2>3, <2>4, <2>5, <2>6
  <1>3. ASSUME NEW o \in Ops, InterruptDoomed(o) \/ SettleCancel(o)
        PROVE  OthersTyped'
    <2>1. CASE InterruptDoomed(o)
      BY <1>1, <2>1 DEF OthersTyped, InterruptDoomed, delivery, work, world
    <2>2. CASE SettleCancel(o)
      <3>1. \E t \in {"queued", "running", "untrackable", "raced"} :
               told' = [told EXCEPT ![o] = t]
        BY <2>2 DEF SettleCancel, CancelDispatch
      <3> QED BY <1>1, <2>2, <3>1 DEF OthersTyped, SettleCancel, delivery, work, sessions, world
    <2> QED BY <1>3, <2>1, <2>2
  <1>4. ASSUME NEW o \in Ops,
               \/ \E mode \in {"async", "sync"} : Admit(o, mode)
               \/ Deliver(o) \/ Defer(o) \/ TakeSlot(o) \/ Send(o) \/ LeaseLapses(o)
               \/ TurnEnds(o) \/ FinalizeDispatch(o) \/ SlaveReads(o) \/ SlaveCompletes(o)
               \/ CancelReads(o) \/ CancelQueued(o) \/ CancelRefused(o) \/ CancelRunning(o)
               \/ CancelUntrackable(o) \/ CancelStopped(o) \/ StopAsked(o) \/ StopStep(o)
        PROVE  OthersTyped'
    <2>1. CASE \/ \E mode \in {"async", "sync"} : Admit(o, mode)
               \/ Lease(o) \/ SettleDeadLetter(o) \/ Acknowledge(o) \/ MarkRunning(o)
               \/ LeaseLapses(o) \/ FinalizeDispatch(o) \/ SlaveReads(o) \/ SlaveCompletes(o)
      BY <1>1, <2>1 DEF OthersTyped, Admit, Lease, SettleDeadLetter, Acknowledge, MarkRunning,
            LeaseLapses, FinalizeDispatch, SlaveReads, SlaveCompletes, delivery, work,
            sessions, world
    <2>2. CASE \/ CancelReads(o) \/ CancelQueued(o) \/ CancelRefused(o) \/ CancelRunning(o)
               \/ CancelUntrackable(o) \/ CancelStopped(o) \/ StopAsked(o)
               \/ InterruptDispatch(o)
      BY <1>1, <2>2 DEF OthersTyped, CancelReads, CancelQueued, CancelRefused, CancelRunning,
            CancelUntrackable, CancelStopped, StopAsked, InterruptDispatch, delivery, work,
            sessions, world
    <2>3. CASE Defer(o) \/ TakeSlot(o)
      <3>1. slot' = slot \/ \E b \in BOOLEAN : slot' = [slot EXCEPT ![o] = b]
        BY <1>1, <2>3 DEF OthersTyped, Defer, TakeSlot
      <3> QED BY <1>1, <2>3, <3>1 DEF OthersTyped, Defer, TakeSlot, work, sessions, world
    <2>4. CASE SendAccepted(o) \/ TurnEnds(o) \/ StopRunner(o)
      BY <1>1, <2>4 DEF OthersTyped, SendAccepted, TurnEnds, StopRunner, sessions, world
    <2>5. CASE SendFailed(o)
      <3>1. /\ \E r \in {"no", "rejected", "yes"} : saved' = [saved EXCEPT ![o] = r]
            /\ slot' = [slot EXCEPT ![o] = FALSE]
            /\ UNCHANGED <<turn, answer, told, target, doomed, owner, up, crashes>>
        BY <1>1, <2>5 DEF OthersTyped, SendFailed, work, sessions, world
      <3> QED BY <1>1, <3>1 DEF OthersTyped
    <2> QED BY <1>4, <2>1, <2>2, <2>3, <2>4, <2>5 DEF Deliver, Send, StopStep
  <1> QED BY <1>2, <1>3, <1>4 DEF Next, CancelStep, Deletion

-------------------------------------------------------------------------------
(* The theorems.                                                           *)

LEMMA DispatchInit == Init => DispatchInv
  <1> SUFFICES ASSUME Init PROVE DispatchInv
    OBVIOUS
  <1>1. TypeOK
    BY DispatchAssumption DEF Init, TypeOK, Operation, Flow, Idle
  <1>2. AttemptsLeft /\ ReceiptOnce
    BY DEF Init, AttemptsLeft, ReceiptOnce, Owed, IsTerminal, Terminal
  <1> QED BY <1>1, <1>2 DEF DispatchInv

LEMMA DispatchNext == DispatchInv /\ [Next]_vars => DispatchInv'
  <1> SUFFICES ASSUME DispatchInv, [Next]_vars PROVE DispatchInv'
    OBVIOUS
  <1> QED BY OperationStep, RequestStep, FlowStep, OthersStep
          DEF DispatchInv, TypeOK, OperationsKept, RequestsKept, OthersTyped

\* The inductive invariant.
THEOREM DispatchSafe == Spec => []DispatchInv
  BY DispatchInit, DispatchNext, PTL DEF Spec

\* Operations, requests and calls stay well formed; a request is never tried
\* more often than the outbox allows.
THEOREM DispatchTyped == Spec => []TypeOK
  <1>1. DispatchInv => TypeOK
    BY DEF DispatchInv
  <1> QED BY <1>1, DispatchSafe, PTL

\* The owner of a dispatch is sent each of its verdicts once, the last one being the
\* verdict the operation has, and nothing else, whoever races to settle it.
THEOREM DispatchOneReceipt == Spec => []OneReceipt
  <1>1. ASSUME DispatchInv  PROVE OneReceipt
    <2> SUFFICES ASSUME NEW o \in Ops
                 PROVE  /\ Len(receipts[o]) = IF Owed(o) THEN op[o].settles ELSE 0
                        /\ Owed(o) => /\ receipts[o] # <<>>
                                      /\ receipts[o][Len(receipts[o])] = op[o].result
      BY DEF OneReceipt
    <2>1. ReceiptOnce
      BY <1>1 DEF DispatchInv
    <2>2. CASE Owed(o)
      <3>1. receipts[o] = <<op[o].result>> /\ op[o].settles = 1
        BY <2>1, <2>2 DEF ReceiptOnce, Owed
      <3> QED BY <2>2, <3>1
    <2>3. CASE ~Owed(o)
      <3>1. receipts[o] = <<>>
        BY <2>1, <2>3 DEF ReceiptOnce
      <3> QED BY <2>3, <3>1
    <2> QED BY <2>2, <2>3
  <1> QED BY <1>1, DispatchSafe, PTL

\* No later step overwrites the verdict of a dispatch, a provisional one apart.
THEOREM DispatchVerdictFinal == Spec => VerdictFinal
  <1>1. DispatchInv /\ [Next]_vars =>
           [\A o \in Ops : IsTerminal(o) =>
               \/ op'[o] = op[o]
               \/ op[o].result = "missing" /\ op'[o].result \in Receipts]_vars
    BY OperationStep DEF OperationsKept
  <1> QED BY <1>1, DispatchSafe, PTL DEF Spec, VerdictFinal

-------------------------------------------------------------------------------
(* A dispatch cancelled in the queue never runs.  A delivery that is about *)
(* to send holds the slot, so a request without one has no such delivery;  *)
(* once it is cancelled, none can begin.                                   *)

Unsent(o) == flow[o].delivery = "claimed" => turn[o] # "none" \/ target = "gone"

QueueInv ==
    /\ DispatchInv
    /\ \A o \in Ops :
          /\ flow[o].stop # "none" => turn[o] # "none"
          /\ slot[o] \/ Unsent(o)
          /\ flow[o].cancel = "queued" \/ told[o] = "queued"
             => request[o] = "cancelled" /\ Unsent(o)
    /\ ~up => \A o \in Ops : flow[o] = Idle /\ turn[o] # "running"

\* What a step may do to the calls of an operation ...
FlowMoves(x) ==
    /\ flow'[x].delivery = "claimed" =>
          flow[x].delivery = "claimed" \/ (slot'[x] /\ request[x] = "leased")
    /\ flow'[x].stop # "none" => flow[x].stop # "none" \/ turn[x] = "running"
    /\ flow'[x].cancel = "queued" =>
          flow[x].cancel = "queued" \/ (~slot[x] /\ request[x] = "pending" /\ request'[x] = "cancelled")
    /\ told'[x] = "queued" => told[x] = "queued" \/ flow[x].cancel = "queued"

\* ... and to its request, its slot and its turn.
WorkMoves(x) ==
    /\ turn[x] # "none" => turn'[x] # "none"
    /\ turn'[x] # "none" => \/ turn[x] # "none" \/ flow[x].stop # "none"
                            \/ flow[x].delivery = "claimed" /\ target # "gone"
    /\ target = "gone" => target' = "gone"
    /\ request[x] = "cancelled" => request'[x] = "cancelled"
    /\ slot[x] => \/ slot'[x] \/ ~up \/ flow'[x].delivery # "claimed"
                  \/ turn'[x] # "none" \/ target' = "gone"

LEMMA AtFacts ==
    ASSUME flow \in [Ops -> Flow], NEW o \in Ops, NEW call \in Calls, NEW step,
           At(o, call, step)
    PROVE  /\ flow'[o][call] = step
           /\ \A c \in Calls \ {call} : flow'[o][c] = flow[o][c]
           /\ \A x \in Ops \ {o} : flow'[x] = flow[x]
  BY DEF At, Flow, Calls

\* A step of one call leaves the others of the operation alone.
LEMMA CallFacts ==
    ASSUME flow \in [Ops -> Flow], NEW o \in Ops, NEW call \in Calls, NEW step,
           At(o, call, step)
    PROVE  \A x \in Ops :
              /\ flow'[x].delivery = IF x = o /\ call = "delivery" THEN step ELSE flow[x].delivery
              /\ flow'[x].cancel   = IF x = o /\ call = "cancel" THEN step ELSE flow[x].cancel
              /\ flow'[x].stop     = IF x = o /\ call = "stop" THEN step ELSE flow[x].stop
  <1>1. {"delivery", "cancel", "stop"} \subseteq Calls
    BY DEF Calls
  <1> QED BY <1>1, AtFacts

LEMMA MovesStep ==
    ASSUME DispatchInv, [Next]_vars, NEW x \in Ops
    PROVE  FlowMoves(x) /\ WorkMoves(x)
  <1>1. /\ flow \in [Ops -> Flow] /\ turn \in [Ops -> {"none", "running", "ended"}]
        /\ slot \in [Ops -> BOOLEAN] /\ told \in [Ops -> {"nothing", "queued", "running",
                                                          "untrackable", "raced"}]
        /\ request \in [Ops -> {"none", "pending", "leased", "delivered", "dead-letter",
                                "cancelled"}]
        /\ saved \in [Ops -> {"no", "rejected", "yes"}]
        /\ {"delivery", "finalize", "slave", "cancel", "stop"} \subseteq Calls
    BY DEF DispatchInv, TypeOK, Calls
  <1>2. CASE UNCHANGED vars \/ DeleteOwner \/ DeleteTarget \/ SweepTarget \/ Start
    <2>1. flow' = flow /\ told' = told
      BY <1>2 DEF vars, DeleteOwner, DeleteTarget, SweepTarget, Start
    <2>2. FlowMoves(x)
      BY <2>1, Zenon DEF FlowMoves
    <2>3. WorkMoves(x)
      BY <1>1, <1>2, <2>1 DEF WorkMoves, vars, DeleteOwner, DeleteTarget, SweepTarget, Start,
            SweptRequests, work, sessions, delivery
    <2> QED BY <2>2, <2>3
  <1>3. CASE Crash
    BY <1>1, <1>3 DEF FlowMoves, WorkMoves, Crash, Idle
  <1>4. ASSUME NEW o \in Ops, InterruptDoomed(o)  PROVE FlowMoves(x) /\ WorkMoves(x)
    <2>1. /\ flow' = flow /\ told' = told /\ slot' = slot /\ turn' = turn
          /\ request' = request /\ target # "gone"
      BY <1>4 DEF InterruptDoomed, delivery, work
    <2> QED BY <2>1, Zenon DEF FlowMoves, WorkMoves
  <1>5. ASSUME NEW o \in Ops,
               LeaseLapses(o) \/ \E mode \in {"async", "sync"} : Admit(o, mode)
        PROVE  FlowMoves(x) /\ WorkMoves(x)
    <2>1. flow' = flow /\ told' = told /\ slot' = slot /\ turn' = turn /\ target' = target
      BY <1>5 DEF LeaseLapses, Admit, work, sessions
    <2>2. request[x] = "cancelled" => request'[x] = "cancelled"
      BY <1>1, <1>5 DEF LeaseLapses, Admit, DispatchInv, AttemptsLeft
    <2> QED BY <2>1, <2>2, Zenon DEF FlowMoves, WorkMoves
  <1>6. ASSUME NEW o \in Ops,
               \/ Lease(o) \/ Defer(o) \/ SettleDeadLetter(o) \/ Acknowledge(o)
               \/ MarkRunning(o) \/ SendFailed(o) \/ SendAccepted(o) \/ TakeSlot(o)
        PROVE  FlowMoves(x) /\ WorkMoves(x)
    <2>1. PICK step : At(o, "delivery", step)
      BY <1>6 DEF Lease, Defer, SettleDeadLetter, Acknowledge, MarkRunning, SendFailed,
            SendAccepted, TakeSlot
    <2>2. /\ flow'[x].delivery = IF x = o THEN step ELSE flow[x].delivery
          /\ flow'[x].cancel = flow[x].cancel /\ flow'[x].stop = flow[x].stop
          /\ flow'[o].delivery = step
      BY <1>1, <2>1, CallFacts
    <2>3. CASE SettleDeadLetter(o) \/ MarkRunning(o)
      <3>1. /\ told' = told /\ slot' = slot /\ turn' = turn /\ request' = request
            /\ target' = target /\ step # "claimed"
        BY <1>1, <2>2, <2>3, CallFacts DEF SettleDeadLetter, MarkRunning, delivery, work, sessions
      <3> QED BY <2>2, <3>1, Zenon DEF FlowMoves, WorkMoves
    <2>4. CASE Lease(o) \/ Acknowledge(o)
      <3>1. /\ told' = told /\ slot' = slot /\ turn' = turn /\ target' = target
            /\ step # "claimed"
            /\ request[x] = "cancelled" => request'[x] = "cancelled"
        BY <1>1, <2>2, <2>4, CallFacts DEF Lease, Acknowledge, work, sessions
      <3> QED BY <2>2, <3>1, Zenon DEF FlowMoves, WorkMoves
    <2>5. CASE Defer(o) \/ SendFailed(o)
      <3>1. /\ told' = told /\ turn' = turn /\ target' = target
            /\ step # "claimed" /\ (x # o => slot'[x] = slot[x])
            /\ request[x] = "cancelled" => request'[x] = "cancelled"
        BY <1>1, <2>2, <2>5, CallFacts DEF Defer, SendFailed, work, sessions
      <3> QED BY <2>2, <3>1, Zenon DEF FlowMoves, WorkMoves
    <2>6. CASE SendAccepted(o)
      <3>1. /\ told' = told /\ slot' = slot /\ target' = target /\ request' = request
            /\ target # "gone" /\ flow[o].delivery = "claimed"
            /\ turn' = [turn EXCEPT ![o] = "running"]
            /\ step # "claimed"
        BY <1>1, <2>2, <2>6, CallFacts DEF SendAccepted, sessions
      <3> QED BY <1>1, <2>2, <3>1 DEF FlowMoves, WorkMoves
    <2>7. CASE TakeSlot(o)
      <3>1. /\ told' = told /\ turn' = turn /\ target' = target /\ request' = request
            /\ slot[x] => slot'[x]
            /\ step = "claimed" => request[o] = "leased" /\ slot'[o]
        BY <1>1, <2>2, <2>7, CallFacts DEF TakeSlot, work, sessions
      <3> QED BY <2>2, <3>1, Zenon DEF FlowMoves, WorkMoves
    <2> QED BY <1>6, <2>3, <2>4, <2>5, <2>6, <2>7
  <1>7. ASSUME NEW o \in Ops,
               \/ TurnEnds(o) \/ FinalizeDispatch(o) \/ SlaveReads(o) \/ SlaveCompletes(o)
        PROVE  FlowMoves(x) /\ WorkMoves(x)
    <2>1. \E call \in {"finalize", "slave"} : \E step : At(o, call, step)
      BY <1>7 DEF TurnEnds, FinalizeDispatch, SlaveReads, SlaveCompletes
    <2>2. /\ flow'[x].delivery = flow[x].delivery
          /\ flow'[x].cancel = flow[x].cancel /\ flow'[x].stop = flow[x].stop
      BY <1>1, <2>1, CallFacts
    <2>3. /\ request' = request /\ target' = target /\ told' = told
          /\ \/ slot' = slot /\ turn' = turn
             \/ /\ slot' = [slot EXCEPT ![o] = FALSE] /\ turn' = [turn EXCEPT ![o] = "ended"]
                /\ turn[o] = "running"
      BY <1>7 DEF TurnEnds, FinalizeDispatch, SlaveReads, SlaveCompletes, delivery, work, sessions
    <2> QED BY <1>1, <2>2, <2>3 DEF FlowMoves, WorkMoves
  <1>8. ASSUME NEW o \in Ops,
               \/ CancelReads(o) \/ CancelQueued(o) \/ CancelRefused(o)
               \/ CancelUntrackable(o) \/ CancelStopped(o) \/ SettleCancel(o)
        PROVE  FlowMoves(x) /\ WorkMoves(x)
    <2>1. PICK step : At(o, "cancel", step)
      BY <1>8 DEF CancelReads, CancelQueued, CancelRefused, CancelUntrackable, CancelStopped,
            SettleCancel
    <2>2. /\ flow'[x].cancel = IF x = o THEN step ELSE flow[x].cancel
          /\ flow'[x].delivery = flow[x].delivery /\ flow'[x].stop = flow[x].stop
          /\ flow'[o].cancel = step
      BY <1>1, <2>1, CallFacts
    <2>3. /\ slot' = slot /\ turn' = turn /\ target' = target
          /\ request[x] = "cancelled" => request'[x] = "cancelled"
      BY <1>1, <1>8 DEF CancelReads, CancelQueued, CancelRefused, CancelUntrackable,
            CancelStopped, SettleCancel, Cancellable, delivery, work, sessions
    <2>4. step = "queued" => ~slot[o] /\ request[o] = "pending" /\ request'[o] = "cancelled"
      BY <1>1, <1>8, <2>2, CallFacts DEF CancelReads, CancelQueued, CancelRefused,
            CancelUntrackable, CancelStopped, SettleCancel, Cancellable
    <2>5. told'[x] = "queued" => told[x] = "queued" \/ flow[x].cancel = "queued"
      <3>1. CASE told' = told
        BY <3>1
      <3>2. CASE \E t \in {flow[o].cancel, "raced"} : told' = [told EXCEPT ![o] = t]
        BY <1>1, <3>2
      <3> QED BY <1>8, <3>1, <3>2 DEF CancelReads, CancelQueued, CancelRefused,
                 CancelUntrackable, CancelStopped, SettleCancel, CancelDispatch
    <2> QED BY <2>2, <2>3, <2>4, <2>5, Zenon DEF FlowMoves, WorkMoves
  <1>9. ASSUME NEW o \in Ops, CancelRunning(o)  PROVE FlowMoves(x) /\ WorkMoves(x)
    <2> DEFINE stop == IF flow[o].stop = "none" THEN "stopping" ELSE flow[o].stop
               new == [[flow[o] EXCEPT !.cancel = "stopping"] EXCEPT !.stop = stop]
    <2>1. flow' = [flow EXCEPT ![o] = new] /\ turn[o] = "running"
      BY <1>9 DEF CancelRunning
    <2>2. /\ new.delivery = flow[o].delivery /\ new.cancel = "stopping"
      BY <1>1 DEF Flow
    <2> HIDE DEF new
    <2>3. /\ flow'[x].delivery = flow[x].delivery
          /\ flow'[x].cancel \in {flow[x].cancel, "stopping"}
          /\ flow'[x].stop = flow[x].stop \/ turn[x] = "running"
      BY <1>1, <2>1, <2>2
    <2>4. /\ told' = told /\ slot' = slot /\ turn' = turn /\ target' = target
          /\ request' = request
      BY <1>9 DEF CancelRunning, delivery, work, sessions
    <2>5. flow'[x].cancel = "queued" => flow[x].cancel = "queued"
      BY <2>3
    <2> QED BY <2>3, <2>4, <2>5, Zenon DEF FlowMoves, WorkMoves
  <1>10. ASSUME NEW o \in Ops, StopAsked(o) \/ StopRunner(o) \/ InterruptDispatch(o)
         PROVE  FlowMoves(x) /\ WorkMoves(x)
    <2>1. PICK step : At(o, "stop", step)
      BY <1>10 DEF StopAsked, StopRunner, InterruptDispatch
    <2>2. /\ flow'[x].stop = IF x = o THEN step ELSE flow[x].stop
          /\ flow'[x].delivery = flow[x].delivery /\ flow'[x].cancel = flow[x].cancel
          /\ flow'[o].stop = step
      BY <1>1, <2>1, CallFacts
    <2>3. step # "none" => flow[o].stop # "none" \/ turn[o] = "running"
      BY <1>1, <1>10, <2>2, CallFacts DEF StopAsked, StopRunner, InterruptDispatch
    <2>4. /\ told' = told /\ target' = target /\ request' = request
          /\ \/ slot' = slot /\ turn' = turn
             \/ /\ flow[o].stop # "none" /\ slot' = [slot EXCEPT ![o] = FALSE]
                /\ turn' = [turn EXCEPT ![o] = "ended"]
      BY <1>10 DEF StopAsked, StopRunner, InterruptDispatch, delivery, work, sessions
    <2> QED BY <1>1, <2>2, <2>3, <2>4 DEF FlowMoves, WorkMoves
  <1> QED BY <1>2, <1>3, <1>4, <1>5, <1>6, <1>7, <1>8, <1>9, <1>10
          DEF Next, Deliver, Send, CancelStep, StopStep, Deletion

\* A process that is down has no call under way and no turn.
LEMMA DownStep ==
    ASSUME QueueInv, [Next]_vars, ~up'
    PROVE  \A o \in Ops : flow'[o] = Idle /\ turn'[o] # "running"
  <1>1. flow \in [Ops -> Flow] /\ turn \in [Ops -> {"none", "running", "ended"}]
    BY DEF QueueInv, DispatchInv, TypeOK
  <1>2. CASE Crash
    BY <1>1, <1>2 DEF Crash
  <1>3. CASE ~Crash
    <2>1. ~up
      BY <1>3, ZenonT(30) DEF Next, vars, Admit, Deliver, Lease, SettleDeadLetter, Acknowledge, MarkRunning,
            Defer, TakeSlot, Send, SendAccepted, SendFailed, LeaseLapses, TurnEnds,
            FinalizeDispatch, SlaveReads, SlaveCompletes, CancelReads, CancelStep, CancelQueued,
            CancelRefused, CancelRunning, CancelUntrackable, CancelStopped, SettleCancel,
            StopAsked, StopStep, StopRunner, InterruptDispatch, DeleteTarget, Deletion,
            SweepTarget, InterruptDoomed, DeleteOwner, Start, world
    <2>2. \A o \in Ops : flow[o] = Idle /\ turn[o] # "running"
      BY <2>1 DEF QueueInv
    <2>3. \A o \in Ops : /\ flow[o].delivery = "none" /\ ~flow[o].finalize
                         /\ flow[o].slave = "none" /\ flow[o].cancel = "none"
                         /\ flow[o].stop = "none" /\ turn[o] # "running"
      BY <2>2 DEF Idle
    <2>4. ASSUME NEW o \in Ops
          PROVE  /\ ~Deliver(o) /\ ~Defer(o) /\ ~TakeSlot(o) /\ ~Send(o) /\ ~TurnEnds(o)
                 /\ ~FinalizeDispatch(o) /\ ~SlaveReads(o) /\ ~SlaveCompletes(o)
                 /\ ~CancelReads(o) /\ ~CancelStep(o) /\ ~StopAsked(o) /\ ~StopStep(o)
      BY <2>1, <2>3 DEF Deliver, Lease, SettleDeadLetter, Acknowledge, MarkRunning, Defer,
            TakeSlot, Send, SendAccepted, SendFailed, TurnEnds, FinalizeDispatch, SlaveReads,
            SlaveCompletes, CancelReads, CancelStep, CancelQueued, CancelRefused, CancelRunning,
            CancelUntrackable, CancelStopped, SettleCancel, StopAsked, StopStep, StopRunner,
            InterruptDispatch
    <2>5. flow' = flow /\ turn' = turn
      BY <1>3, <2>1, <2>4 DEF Next, vars, Admit, LeaseLapses, DeleteTarget, Deletion,
            SweepTarget, InterruptDoomed, DeleteOwner, Start, work
    <2> QED BY <2>2, <2>5
  <1> QED BY <1>2, <1>3

LEMMA QueueInit == Init => QueueInv
  BY DispatchInit DEF QueueInv, Init, Idle, Unsent

LEMMA QueueNext == QueueInv /\ [Next]_vars => QueueInv'
  <1> SUFFICES ASSUME QueueInv, [Next]_vars PROVE QueueInv'
    OBVIOUS
  <1>1. DispatchInv /\ DispatchInv'
    BY DispatchNext DEF QueueInv
  <1>2. ASSUME NEW o \in Ops
        PROVE  /\ flow'[o].stop # "none" => turn'[o] # "none"
               /\ slot'[o] \/ Unsent(o)'
               /\ flow'[o].cancel = "queued" \/ told'[o] = "queued"
                  => request'[o] = "cancelled" /\ Unsent(o)'
    <2>1. FlowMoves(o) /\ WorkMoves(o)
      BY <1>1, MovesStep
    <2>2. /\ flow[o].stop # "none" => turn[o] # "none"
          /\ slot[o] \/ Unsent(o)
          /\ flow[o].cancel = "queued" \/ told[o] = "queued"
             => request[o] = "cancelled" /\ Unsent(o)
          /\ ~up => flow[o].delivery = "none"
      BY DEF QueueInv, Idle
    <2>3. flow'[o].stop # "none" => turn'[o] # "none"
      BY <2>1, <2>2, Zenon DEF FlowMoves, WorkMoves
    <2>4. slot'[o] \/ Unsent(o)'
      BY <2>1, <2>2 DEF FlowMoves, WorkMoves, Unsent
    <2>5. Unsent(o) /\ request[o] # "leased" => Unsent(o)'
      BY <2>1, <2>2 DEF FlowMoves, WorkMoves, Unsent
    <2>6. ASSUME flow'[o].cancel = "queued" \/ told'[o] = "queued"
          PROVE  request'[o] = "cancelled" /\ Unsent(o)'
      <3>1. request[o] = "cancelled" \/ (request[o] = "pending" /\ request'[o] = "cancelled")
        BY <2>1, <2>2, <2>6, Zenon DEF FlowMoves
      <3>2. Unsent(o)
        BY <2>1, <2>2, <2>6, Zenon DEF FlowMoves
      <3> QED BY <2>1, <2>5, <3>1, <3>2 DEF WorkMoves
    <2> QED BY <2>3, <2>4, <2>6
  <1>3. ~up' => \A o \in Ops : flow'[o] = Idle /\ turn'[o] # "running"
    BY DownStep
  <1> QED BY <1>1, <1>2, <1>3 DEF QueueInv

\* The inductive invariant of the queue.
THEOREM QueueSafe == Spec => []QueueInv
  BY QueueInit, QueueNext, PTL DEF Spec

\* Once the owner has been told that its dispatch was removed from the queue, no
\* turn starts, whatever delivery was in flight.
THEOREM DispatchQueuedNeverRuns == Spec => QueuedNeverRuns
  <1>1. QueueInv /\ [Next]_vars =>
           [\A o \in Ops : told[o] = "queued" /\ turn[o] = "none" => turn'[o] = "none"]_vars
    <2> SUFFICES ASSUME QueueInv, [Next]_vars, NEW o \in Ops, told[o] = "queued",
                        turn[o] = "none"
                 PROVE  turn'[o] = "none"
      OBVIOUS
    <2>1. WorkMoves(o)
      BY MovesStep DEF QueueInv
    <2>2. (flow[o].stop # "none" => turn[o] # "none") /\ Unsent(o)
      BY DEF QueueInv
    <2> QED BY <2>1, <2>2 DEF WorkMoves, Unsent
  <1> QED BY <1>1, QueueSafe, PTL DEF Spec, QueuedNeverRuns

===============================================================================
