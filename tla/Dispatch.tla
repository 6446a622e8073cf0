-------------------------------- MODULE Dispatch --------------------------------
(***************************************************************************)
(* Dispatches: one session hands a task to another and is told the result. *)
(* src/src/operation-service.js and the dispatch half of                   *)
(* src/src/orchestration/runtime.js, with the callers that settle an       *)
(* operation: the turn that ends (dispatch/gateway-host.js), the worker's  *)
(* receipt and the owner's cancellation (router-tool-runtime.js), a turn   *)
(* stopped from outside (session-work/host.js), the deletion of either     *)
(* session, and the reconciliation at start.                               *)
(*                                                                         *)
(* Every call is a chain of store mutations with awaits between them; what *)
(* a call has read and not yet used is its entry in `flow`.  All           *)
(* operations share one owner and one target.  The request is an item of   *)
(* Outbox.tla, the slot the one of SessionScheduler.tla; both are reduced  *)
(* to what a dispatch can tell apart.                                      *)
(***************************************************************************)
EXTENDS Naturals, Sequences, FiniteSets

CONSTANTS
    Ops,          \* operation ids
    MaxAttempts,  \* delivery attempts of a request
    MaxCrashes    \* bound: process restarts

ASSUME DispatchAssumption ==
    /\ MaxAttempts \in Nat \ {0}
    /\ MaxCrashes \in Nat

VARIABLES
    op,        \* draft.operations
    receipts,  \* results sent to the owner, in order of admission
    request,   \* state of outbox item `operation:<id>:request`
    attempts,  \* its attempts
    saved,     \* its message in the target's history: no, rejected, yes
    slot,      \* the target's schedule.active is this request
    turn,      \* the turn it started: none, running, ended
    answer,    \* the turn's final output is in the target's history
    flow,      \* calls under way
    told,      \* what dispatch_cancel answered to the owner
    target,    \* there, doomed (being deleted), gone
    doomed,    \* operations the deletion has listed and not yet completed
    owner,     \* there, gone
    up, crashes

vars == <<op, receipts, request, attempts, saved, slot, turn, answer, flow, told,
          target, doomed, owner, up, crashes>>

operation == <<op, receipts>>
delivery  == <<request, attempts, saved, slot>>
work      == <<turn, answer>>
sessions  == <<target, doomed, owner>>
world     == <<up, crashes>>

-------------------------------------------------------------------------------
Terminal == {"completed", "failed", "interrupted", "cancelled"}
\* The worker's receipt says that the task was done, or that it failed.
Receipts == {"done", "gave-up"}
Results == Receipts \cup {"final", "recovered", "missing", "undelivered", "exhausted",
                         "lost", "stopped", "deleted"}
StatusOf(result) ==
    CASE result \in {"done", "final", "recovered"}           -> "completed"
      [] result \in {"gave-up", "missing", "undelivered"}    -> "failed"
      [] OTHER                                               -> "interrupted"

Operation == [status : {"none", "admitted", "running"} \cup Terminal,
              mode   : {"async", "sync"},
              result : Results \cup {"none", "cancel"},   \* resultHash
              settles : Nat]                              \* resultSettles

Flow == [delivery : {"none", "leased", "claimed", "accepted", "acked", "dead"},
         finalize : BOOLEAN,                    \* the turn's end is being told
         slave    : {"none", "early", "late", "refused"},
         cancel   : {"none", "asked", "status", "stopping", "queued", "running",
                     "untrackable"},
         stop     : {"none", "stopping", "interrupting"}]

Idle == [delivery |-> "none", finalize |-> FALSE, slave |-> "none",
         cancel |-> "none", stop |-> "none"]

IsOpen(o) == op[o].status \in {"admitted", "running"}
IsTerminal(o) == op[o].status \in Terminal
At(o, call, step) == flow' = [flow EXCEPT ![o][call] = step]

-------------------------------------------------------------------------------
(* The operation service.  Mutants: what each property must notice.        *)

Settled(o, status, result) ==
    [op[o] EXCEPT !.status = status, !.result = result]

Conflicts(o, result) == IsTerminal(o) /\ op[o].result # result

\* What a completion does: the verdict and its message to the owner, which has an
\* outbox id of its own per settlement, are one mutation.
Settling(o, result, sent) ==
    /\ op' = [op EXCEPT ![o] = [Settled(o, StatusOf(result), result) EXCEPT !.settles = @ + 1]]
    /\ receipts' = IF sent THEN [receipts EXCEPT ![o] = Append(@, result)] ELSE receipts

CompleteAllModes(o, result, resettle) ==
    IF IsOpen(o) \/ (resettle /\ Conflicts(o, result))
    THEN Settling(o, result, TRUE)
    ELSE UNCHANGED operation

\* completeOperationDraft: a terminal operation keeps its verdict (the same result
\* again is acknowledged, another one is a conflict) unless the caller resettles
\* it.  Sync results are waited for, not sent.
CompleteDraft(o, result, resettle) ==
    IF IsOpen(o) \/ (resettle /\ Conflicts(o, result))
    THEN Settling(o, result, op[o].mode = "async")
    ELSE UNCHANGED operation

CompleteResettled(o, result) == CompleteDraft(o, result, TRUE)

\* The runtime's completeDispatch(id, result), which every caller is wired to,
\* dispatch_slave included: it passes no options on.
Complete(o, result) == CompleteDraft(o, result, FALSE)

\* admitDispatch: the operation and its request are one mutation.
Admit(o, mode) ==
    /\ up /\ owner = "there" /\ target # "gone"
    /\ op[o].status = "none"
    /\ op' = [op EXCEPT ![o] = [status |-> "admitted", mode |-> mode, result |-> "none",
                               settles |-> 0]]
    /\ request' = [request EXCEPT ![o] = "pending"]
    /\ UNCHANGED <<receipts, attempts, saved, slot, work, flow, told, sessions, world>>

\* cancelDispatch, the last step of dispatch_cancel: no message to the owner,
\* and losing the race to a completion is reported as such.
CancelDispatch(o) ==
    IF IsOpen(o)
    THEN /\ op' = [op EXCEPT ![o] = Settled(o, "cancelled", "cancel")]
         /\ told' = [told EXCEPT ![o] = flow[o].cancel]
    ELSE /\ UNCHANGED op
         /\ told' = [told EXCEPT ![o] = "raced"]

-------------------------------------------------------------------------------
(* Delivery of the request: deliver, acknowledgeDelivery.                  *)

AfterFailure(o) == IF attempts[o] < MaxAttempts THEN "pending" ELSE "dead-letter"

\* The worker leases the request and starts its delivery.
Lease(o) ==
    /\ up /\ target = "there"
    /\ request[o] = "pending" /\ flow[o].delivery = "none"
    /\ request' = [request EXCEPT ![o] = "leased"]
    /\ attempts' = [attempts EXCEPT ![o] = @ + 1]
    /\ At(o, "delivery", "leased")
    /\ UNCHANGED <<operation, saved, slot, work, told, sessions, world>>

\* The target is busy, its slot taken or its work tree under pressure: the
\* attempt is given back, and the slot with it.
Defer(o) ==
    /\ flow[o].delivery \in {"leased", "claimed"} /\ request[o] = "leased"
    /\ request' = [request EXCEPT ![o] = "pending"]
    /\ attempts' = [attempts EXCEPT ![o] = @ - 1]
    /\ slot' = [slot EXCEPT ![o] = @ /\ flow[o].delivery = "leased"]
    /\ At(o, "delivery", "none")
    /\ UNCHANGED <<operation, saved, work, told, sessions, world>>

\* scheduler.claim; a message that is in the history and was not refused by the
\* runner is only acknowledged.
TakeSlot(o) ==
    /\ flow[o].delivery = "leased"
    /\ IF request[o] = "leased"
       THEN /\ slot' = [slot EXCEPT ![o] = TRUE]
            /\ At(o, "delivery", IF saved[o] = "yes" THEN "accepted" ELSE "claimed")
       ELSE /\ At(o, "delivery", "none")
            /\ UNCHANGED slot
    /\ UNCHANGED <<operation, request, attempts, saved, work, told, sessions, world>>

SendAccepted(o) ==
    /\ flow[o].delivery = "claimed" /\ target = "there"
    /\ saved' = [saved EXCEPT ![o] = "yes"]
    /\ turn' = [turn EXCEPT ![o] = "running"]
    /\ At(o, "delivery", "accepted")
    /\ UNCHANGED <<operation, request, attempts, slot, answer, told, sessions, world>>

\* Refused: the lease settles first, then the slot.  A dead letter settles the
\* operation too when the send threw, and does not when it returned false or
\* left nothing in the history.
SendFailed(o) ==
    /\ flow[o].delivery = "claimed"
    /\ \E after \in {AfterFailure(o), "dead-letter"}, thrown \in BOOLEAN,
          s \in {saved[o], "rejected"} :
          /\ ~thrown => after = AfterFailure(o)
          /\ request' = IF request[o] = "leased" THEN [request EXCEPT ![o] = after]
                        ELSE request
          /\ At(o, "delivery",
                IF thrown /\ request'[o] = "dead-letter" /\ request[o] = "leased"
                THEN "dead" ELSE "none")
          /\ saved' = [saved EXCEPT ![o] = s]
    /\ slot' = [slot EXCEPT ![o] = FALSE]
    /\ UNCHANGED <<operation, attempts, work, told, sessions, world>>

SettleDeadLetter(o) ==
    /\ flow[o].delivery = "dead"
    /\ Complete(o, "undelivered")
    /\ At(o, "delivery", "none")
    /\ UNCHANGED <<delivery, work, told, sessions, world>>

\* A lease that is no longer held acknowledges nothing.
Acknowledge(o) ==
    /\ flow[o].delivery = "accepted"
    /\ IF request[o] = "leased"
       THEN /\ request' = [request EXCEPT ![o] = "delivered"]
            /\ At(o, "delivery", "acked")
       ELSE /\ At(o, "delivery", "none")
            /\ UNCHANGED request
    /\ UNCHANGED <<operation, attempts, saved, slot, work, told, sessions, world>>

MarkRunning(o) ==
    /\ flow[o].delivery = "acked"
    /\ op' = [op EXCEPT ![o].status = IF IsOpen(o) THEN "running" ELSE @]
    /\ At(o, "delivery", "none")
    /\ UNCHANGED <<receipts, delivery, work, told, sessions, world>>

\* A slow delivery or a dead process outlives the lease.
LeaseLapses(o) ==
    /\ up /\ request[o] = "leased"
    /\ request' = [request EXCEPT ![o] = AfterFailure(o)]
    /\ UNCHANGED <<operation, attempts, saved, slot, work, flow, told, sessions, world>>

-------------------------------------------------------------------------------
(* The turn, its end and the worker's receipt.                             *)

TurnEnds(o) ==
    /\ turn[o] = "running"
    /\ turn' = [turn EXCEPT ![o] = "ended"]
    /\ answer' = [answer EXCEPT ![o] = TRUE]
    /\ slot' = [slot EXCEPT ![o] = FALSE]
    /\ At(o, "finalize", TRUE)
    /\ UNCHANGED <<operation, request, attempts, saved, told, sessions, world>>

\* finalizeDispatch: an async turn that ends without a receipt has failed.
FinalizeDispatch(o) ==
    /\ flow[o].finalize
    /\ Complete(o, IF op[o].mode = "async" THEN "missing" ELSE "final")
    /\ At(o, "finalize", FALSE)
    /\ UNCHANGED <<delivery, work, told, sessions, world>>

\* dispatch_slave, from the dispatched turn or a later one: the operation is
\* read first, and a settled one is only open to a late correction of "missing",
\* which the tool asks to be resettled and the wiring does not.
SlaveReads(o) ==
    /\ up /\ target = "there"
    /\ turn[o] # "none" /\ op[o].mode = "async" /\ flow[o].slave = "none"
    /\ \/ IsOpen(o) /\ At(o, "slave", "early")
       \/ IsTerminal(o) /\ op[o].result = "missing" /\ At(o, "slave", "late")
    /\ UNCHANGED <<operation, delivery, work, told, sessions, world>>

SlaveCompletes(o) ==
    /\ flow[o].slave \in {"early", "late"}
    /\ \E result \in Receipts :
          /\ Complete(o, result)
          /\ At(o, "slave", IF flow[o].slave = "late" /\ Conflicts(o, result)
                            THEN "refused" ELSE "none")
    /\ UNCHANGED <<delivery, work, told, sessions, world>>

-------------------------------------------------------------------------------
(* The owner's dispatch_cancel, and a turn stopped from outside.           *)

CancelReads(o) ==
    /\ up /\ owner = "there" /\ IsOpen(o) /\ flow[o].cancel = "none"
    /\ At(o, "cancel", "asked")
    /\ UNCHANGED <<operation, delivery, work, told, sessions, world>>

CancellablePending(o) == request[o] = "pending"
Cancellable(o) == request[o] = "pending" /\ ~slot[o]

\* cancelQueued, else a look at the schedule.
CancelQueued(o) ==
    /\ flow[o].cancel = "asked"
    /\ IF Cancellable(o)
       THEN /\ request' = [request EXCEPT ![o] = "cancelled"]
            /\ At(o, "cancel", "queued")
       ELSE /\ At(o, "cancel", "status")
            /\ UNCHANGED request
    /\ UNCHANGED <<operation, attempts, saved, slot, work, told, sessions, world>>

\* Running, and cancel_running was not given (or the turn is not up yet).
CancelRefused(o) ==
    /\ flow[o].cancel = "status" /\ slot[o]
    /\ At(o, "cancel", "none")
    /\ UNCHANGED <<operation, delivery, work, told, sessions, world>>

CancelRunning(o) ==
    /\ flow[o].cancel = "status" /\ slot[o] /\ turn[o] = "running"
    /\ flow' = [flow EXCEPT ![o].cancel = "stopping",
                            ![o].stop = IF @ = "none" THEN "stopping" ELSE @]
    /\ UNCHANGED <<operation, delivery, work, told, sessions, world>>

CancelUntrackable(o) ==
    /\ flow[o].cancel = "status" /\ ~slot[o]
    /\ At(o, "cancel", "untrackable")
    /\ UNCHANGED <<operation, delivery, work, told, sessions, world>>

CancelStopped(o) ==
    /\ flow[o].cancel = "stopping" /\ flow[o].stop = "none"
    /\ At(o, "cancel", "running")
    /\ UNCHANGED <<operation, delivery, work, told, sessions, world>>

SettleCancel(o) ==
    /\ flow[o].cancel \in {"queued", "running", "untrackable"}
    /\ CancelDispatch(o)
    /\ At(o, "cancel", "none")
    /\ UNCHANGED <<receipts, delivery, work, sessions, world>>

\* A user stops the target's turn.
StopAsked(o) ==
    /\ up /\ turn[o] = "running" /\ slot[o] /\ flow[o].stop = "none"
    /\ At(o, "stop", "stopping")
    /\ UNCHANGED <<operation, delivery, work, told, sessions, world>>

\* runCancel: the runner is stopped and detached, which skips the normal end of
\* a turn; the slot is closed.  The turn may have ended first.
StopRunner(o) ==
    /\ flow[o].stop = "stopping"
    /\ turn' = [turn EXCEPT ![o] = "ended"]
    /\ slot' = [slot EXCEPT ![o] = FALSE]
    /\ At(o, "stop", "interrupting")
    /\ UNCHANGED <<operation, request, attempts, saved, answer, told, sessions, world>>

InterruptDispatch(o) ==
    /\ flow[o].stop = "interrupting"
    /\ Complete(o, "stopped")
    /\ At(o, "stop", "none")
    /\ UNCHANGED <<delivery, work, told, sessions, world>>

-------------------------------------------------------------------------------
(* Deleting a session: cancelForSession.                                   *)

SweptRequests == [o \in Ops |-> IF request[o] \in {"pending", "leased"}
                                THEN "cancelled" ELSE request[o]]

\* The target: its runner is killed and its open dispatches are listed ...
DeleteTarget ==
    /\ up /\ target = "there"
    /\ target' = "doomed"
    /\ doomed' = {o \in Ops : IsOpen(o)}
    /\ turn' = [o \in Ops |-> IF turn[o] = "running" THEN "ended" ELSE turn[o]]
    /\ UNCHANGED <<operation, delivery, answer, flow, told, owner, world>>

\* ... completed one by one, where a conflict ends the deletion ...
InterruptDoomed(o) ==
    /\ target = "doomed" /\ o \in doomed
    /\ Complete(o, "deleted")
    /\ IF Conflicts(o, "deleted")
       THEN target' = "there" /\ doomed' = {}
       ELSE doomed' = doomed \ {o} /\ UNCHANGED target
    /\ UNCHANGED <<delivery, work, flow, told, owner, world>>

\* ... and what is left of its queue is swept, with its history.
SweepTarget ==
    /\ target = "doomed" /\ doomed = {}
    /\ target' = "gone"
    /\ request' = SweptRequests
    /\ slot' = [o \in Ops |-> FALSE]
    /\ saved' = [o \in Ops |-> "no"]
    /\ answer' = [o \in Ops |-> FALSE]
    /\ UNCHANGED <<operation, attempts, turn, flow, told, doomed, owner, world>>

\* The owner: its open operations are cancelled without a result.
DeleteOwner ==
    /\ up /\ owner = "there"
    /\ owner' = "gone"
    /\ request' = SweptRequests
    /\ op' = [o \in Ops |-> IF IsOpen(o) THEN Settled(o, "cancelled", "none") ELSE op[o]]
    /\ UNCHANGED <<receipts, attempts, saved, slot, work, flow, told, target, doomed, world>>

-------------------------------------------------------------------------------
(* Restarts.                                                               *)

\* A message in the history can no longer be told from one that was run.
Crash ==
    /\ up /\ crashes < MaxCrashes
    /\ up' = FALSE /\ crashes' = crashes + 1
    /\ flow' = [o \in Ops |-> Idle]
    /\ turn' = [o \in Ops |-> IF turn[o] = "running" THEN "ended" ELSE turn[o]]
    /\ saved' = [o \in Ops |-> IF saved[o] = "rejected" THEN "yes" ELSE saved[o]]
    /\ target' = IF target = "doomed" THEN "there" ELSE target
    /\ doomed' = {}
    /\ UNCHANGED <<operation, request, attempts, slot, answer, told, owner>>

EvidenceAcknowledged(o) == request[o] = "delivered"

\* The request reached the target: it was acknowledged or is in the history.
Evidence(o) ==
    \/ request[o] = "delivered"
    \/ request[o] \in {"pending", "leased"} /\ saved[o] = "yes"

\* The verdict reconcileDispatchesOnStartup gives an open dispatch, if any.
Verdict(o) ==
    IF request[o] = "dead-letter" THEN "exhausted"
    ELSE IF ~Evidence(o) THEN "none"
    ELSE IF answer[o] THEN "recovered" ELSE "lost"

\* start(), before the API listens and before the first tick.
Start ==
    LET settled == {o \in Ops : IsOpen(o) /\ Verdict(o) # "none"}
    IN  /\ ~up
        /\ up' = TRUE
        /\ op' = [o \in Ops |->
                    IF o \in settled
                    THEN [Settled(o, StatusOf(Verdict(o)), Verdict(o)) EXCEPT !.settles = @ + 1]
                    ELSE op[o]]
        /\ receipts' = [o \in Ops |->
                          IF o \in settled /\ op[o].mode = "async"
                          THEN Append(receipts[o], Verdict(o)) ELSE receipts[o]]
        /\ slot' = [o \in Ops |-> slot[o] /\ request[o] \in {"pending", "leased"}]
        /\ UNCHANGED <<request, attempts, saved, work, flow, told, sessions, crashes>>

-------------------------------------------------------------------------------
Init ==
    /\ op = [o \in Ops |-> [status |-> "none", mode |-> "async", result |-> "none",
                        settles |-> 0]]
    /\ receipts = [o \in Ops |-> <<>>]
    /\ request = [o \in Ops |-> "none"]
    /\ attempts = [o \in Ops |-> 0]
    /\ saved = [o \in Ops |-> "no"]
    /\ slot = [o \in Ops |-> FALSE]
    /\ turn = [o \in Ops |-> "none"]
    /\ answer = [o \in Ops |-> FALSE]
    /\ flow = [o \in Ops |-> Idle]
    /\ told = [o \in Ops |-> "nothing"]
    /\ target = "there" /\ doomed = {} /\ owner = "there"
    /\ up = TRUE /\ crashes = 0

Deliver(o) ==
    \/ Lease(o) \/ SettleDeadLetter(o) \/ Acknowledge(o) \/ MarkRunning(o)
Send(o) == SendAccepted(o) \/ SendFailed(o)

CancelStep(o) ==
    \/ CancelQueued(o) \/ CancelRefused(o) \/ CancelRunning(o) \/ CancelUntrackable(o)
    \/ CancelStopped(o) \/ SettleCancel(o)

StopStep(o) == StopRunner(o) \/ InterruptDispatch(o)

Deletion == SweepTarget \/ \E o \in Ops : InterruptDoomed(o)

Next ==
    \/ \E o \in Ops :
          \/ \E mode \in {"async", "sync"} : Admit(o, mode)
          \/ Deliver(o) \/ Defer(o) \/ TakeSlot(o) \/ Send(o) \/ LeaseLapses(o)
          \/ TurnEnds(o) \/ FinalizeDispatch(o)
          \/ SlaveReads(o) \/ SlaveCompletes(o)
          \/ CancelReads(o) \/ CancelStep(o)
          \/ StopAsked(o) \/ StopStep(o)
    \/ DeleteTarget \/ Deletion \/ DeleteOwner
    \/ Crash \/ Start

Spec == Init /\ [][Next]_vars

\* The worker ticks every second, calls run to their end, turns end (the
\* watchdog), leases lapse, a supervisor restarts the process; the target is
\* busy again and again but not for ever.
Fairness ==
    /\ WF_vars(Start) /\ WF_vars(Deletion)
    /\ \A o \in Ops :
          /\ WF_vars(Deliver(o)) /\ SF_vars(TakeSlot(o)) /\ SF_vars(Send(o))
          /\ WF_vars(LeaseLapses(o))
          /\ WF_vars(TurnEnds(o)) /\ WF_vars(FinalizeDispatch(o))
          /\ WF_vars(CancelStep(o)) /\ WF_vars(StopStep(o))

FairSpec == Spec /\ Fairness

-------------------------------------------------------------------------------
(* Properties.                                                             *)

\* Every operation, request and call under way is well formed.
TypeOK ==
    /\ op \in [Ops -> Operation]
    /\ receipts \in [Ops -> Seq(Results)]
    /\ request \in [Ops -> {"none", "pending", "leased", "delivered", "dead-letter",
                            "cancelled"}]
    /\ attempts \in [Ops -> 0 .. MaxAttempts]
    /\ saved \in [Ops -> {"no", "rejected", "yes"}]
    /\ slot \in [Ops -> BOOLEAN]
    /\ turn \in [Ops -> {"none", "running", "ended"}]
    /\ answer \in [Ops -> BOOLEAN]
    /\ flow \in [Ops -> Flow]
    /\ told \in [Ops -> {"nothing", "queued", "running", "untrackable", "raced"}]
    /\ target \in {"there", "doomed", "gone"}
    /\ doomed \in SUBSET Ops
    /\ owner \in {"there", "gone"}
    /\ up \in BOOLEAN /\ crashes \in Nat

\* However a receipt, the end of the turn, a stop, a cancellation, a deletion,
\* a dead letter and a restart race to settle a dispatch, the owner of an async
\* one is sent each of its verdicts once and the last it was sent is the verdict
\* the operation has; it is sent nothing while the operation is open, after a
\* cancellation, or of a sync one (completeOperationDraft, cancelDispatch).
Owed(o) == op[o].mode = "async" /\ IsTerminal(o) /\ op[o].status # "cancelled"
OneReceipt ==
    \A o \in Ops :
        /\ Len(receipts[o]) = IF Owed(o) THEN op[o].settles ELSE 0
        /\ Owed(o) => receipts[o] # <<>> /\ receipts[o][Len(receipts[o])] = op[o].result

\* What a caller of waitForOperation has seen of a settled dispatch stays so:
\* only the provisional verdict of a turn that ended without a receipt may be
\* corrected, and only by its worker's receipt.
VerdictFinal ==
    [][\A o \in Ops : IsTerminal(o) =>
          \/ op'[o] = op[o]
          \/ op[o].result = "missing" /\ op'[o].result \in Receipts]_vars

\* "The prior terminal verdict was provisional [...] Overwrite the verdict and emit
\* a fresh outbox item so the caller receives the corrected receipt": a late receipt
\* that was let in leaves no provisional verdict (completeOperationDraft, dispatchSlave).
LateReceiptCounts ==
    [][\A o \in Ops :
          flow[o].slave = "late" /\ flow'[o].slave # "late" /\ up'
            => op'[o].result # "missing"]_vars

\* "removed from the target FIFO before delivery; the worker never sees it":
\* once the owner has been told so, no turn starts, whatever delivery was in
\* flight (cancelQueued against the worker's lease, claim and redelivery).
QueuedNeverRuns ==
    [][\A o \in Ops : told[o] = "queued" /\ turn[o] = "none" => turn'[o] = "none"]_vars

\* A dispatch settles: through lost leases, refused sends, stopped turns and
\* restarts its operation ends, or its request is dead or was swept.
Waiting == {o \in Ops : IsOpen(o) /\ request[o] \notin {"dead-letter", "cancelled"}}
DispatchSettles == Waiting # {} ~> Waiting = {}

===============================================================================
