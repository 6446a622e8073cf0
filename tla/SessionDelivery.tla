---------------------------- MODULE SessionDelivery ----------------------------
(***************************************************************************)
(* How one session's messages travel from admission to the end of the      *)
(* native turn they start: the outbox worker (orchestration/runtime.js),   *)
(* the turn engine (chat/turn-engine.js) and the turn boundary             *)
(* (session-work/host.js) around the scheduler's durable state.            *)
(*                                                                         *)
(* Every store mutation is one action.  Between two of them the other      *)
(* processes run: a delivery is a chain of awaits (`pc`), a finished turn   *)
(* publishes its verdict before the scheduler hears of it (`boundaries`),   *)
(* the user acts at any time, and the server may crash and recover.        *)
(*                                                                         *)
(* `left` bounds each kind of disturbance; runs counts the native turns an *)
(* entry was given, it is never read by an action.                         *)
(***************************************************************************)
EXTENDS SessionScheduler

CONSTANTS
    Budget,       \* how many disturbances of each kind a behaviour may hold
    TickAnywhere  \* may a worker tick act between two mutations of a chain?

Disturbances == {"ask", "lapse", "stall", "refuse", "cancel", "remove", "insert",
                 "reorder", "dismiss", "resolve", "crash"}

ASSUME DeliveryAssumption ==
    Budget \in [Disturbances -> Nat] /\ TickAnywhere \in BOOLEAN

VARIABLES
    pc,          \* where the delivery of an entry is, in this process
    tick,        \* the entry the serialised worker tick waits for
    saved,       \* chat history, with what this process knows of the hand-over
    runner,      \* the entry whose native turn is running
    boundaries,  \* turn ends on their way to the scheduler
    ended,       \* lastTurnEndedAt is not before the slot's start
    runs,        \* turns each entry was given
    left

processVars == <<pc, tick, saved, runner, boundaries, ended, runs>>
vars == <<schedulerVars, processVars, left>>

Phases == {"idle", "taken", "checked", "claimed", "refused", "accepted", "acked", "settling"}
Boundary == [step   : {"stopping", "closing", "cancelling", "closed", "decided"},
             letter : Letters,
             task   : Tasks \cup {None},
             dismissed : Entries \cup {None}]

Init ==
    /\ SchedulerInit
    /\ pc = [e \in Entries |-> "idle"]
    /\ tick = None
    /\ saved = [e \in Entries |-> "no"]
    /\ runner = None
    /\ boundaries = {}
    /\ ended = FALSE
    /\ runs = [e \in Entries |-> 0]
    /\ left = Budget

Spend(kind) == left[kind] > 0 /\ left' = [left EXCEPT ![kind] = @ - 1]

\* host.isRunActive; a session in no shared workspace has no other guard.
Busy == shown = "running" \/ (shown = "idle" /\ letter = "P")

StartsTurn(e) == ClassOf(e) # "notice"

\* Node runs every continuation that is ready before it takes the next event:
\* an exit, a request or a timer finds no chain of store mutations half done.
\* A delivery waits for real I/O only while it is "claimed", a boundary only
\* while its runner is being stopped.
Drained ==
    /\ \A e \in Entries : pc[e] \in {"idle", "claimed"}
    /\ \A b \in boundaries : b.step \in {"stopping", "cancelling"}

\* Mutants, here and below: what each property must notice.
ProjectedRaw(state) == state

\* The queue projection of an event that reports the scheduler's own state.
Projected(state) == IF state \in {"running", "assessing"} THEN state ELSE "idle"

\* The delivery of e is over; the tick moves on if it was waiting for it.
Finish(e) ==
    /\ pc' = [pc EXCEPT ![e] = "idle"]
    /\ tick' = IF tick = e THEN None ELSE tick

Goto(e, phase) == pc' = [pc EXCEPT ![e] = phase] /\ UNCHANGED tick

SetState(e, state) == items' = [items EXCEPT ![e].state = state]
IfHeld(e, state) == IF items[e].state = "leased" THEN SetState(e, state) ELSE UNCHANGED items

\* cancelActiveTurn: a second request joins the one in flight.
Stopping == [step |-> "stopping", letter |-> "E", task |-> None, dismissed |-> None]
Cancelling == \E b \in boundaries : b.step \in {"stopping", "cancelling"}

-------------------------------------------------------------------------------
\* Admission and the user.

Admit(e) ==
    LET kindOf == CASE ClassOf(e) = "answer" -> "answer"
                    [] ClassOf(e) = "continuation" -> "continuation"
                    [] ClassOf(e) \in {"callback", "result", "notice"} -> "callback"
                    [] ClassOf(e) = "typed" /\ HasActive /\ letter # "P" -> "continuation"
                    [] OTHER -> "task"
        work     == IsWork(e)
        inherits == work /\ kindOf # "task" /\ HasActive /\ TaskOf(e) = None
    IN  /\ items[e].state = "absent"
        /\ ClassOf(e) = "answer" => question.id # None
        /\ items' = [items EXCEPT ![e] =
              [NewItem EXCEPT !.state = "pending", !.sequence = Admitted + 1, !.kind = kindOf,
                              !.task = IF inherits THEN sched.active.task
                                       ELSE IF ClassOf(e) = "result" THEN None ELSE TaskOf(e),
                              !.request = IF kindOf = "answer" THEN question.id ELSE None,
                              !.direct = IsTyped(e) \/ (work /\ kindOf # "task")]]
        /\ sched' = [sched EXCEPT
              !.priority = IF kindOf = "answer" THEN e ELSE @,
              !.awaiting = IF kindOf = "answer" /\ ~HasActive /\ question.open
                           THEN question.id ELSE @]
        /\ shown' = IF sched.state = "idle" THEN "queued" ELSE Projected(sched.state)
        \* the admission of an answer consumes the question it answers
        /\ question' = IF kindOf = "answer" THEN [question EXCEPT !.open = FALSE] ELSE question
        /\ UNCHANGED <<letter, processVars, left>>

CancelQueued(e) ==
    /\ CanCancelQueued(e)
    /\ SetState(e, "cancelled")
    /\ sched' = DropPriority(sched, e)
    /\ shown' = Projected(sched.state)
    /\ Spend("remove")
    /\ UNCHANGED <<letter, question, processVars>>

\* The route promotes the entry, then cancels whatever is running.
InsertQueued(e) ==
    /\ CanInsert(e)
    /\ items' = [items EXCEPT ![e] = Inserted(e)]
    /\ sched' = SupersededBy(e)
    /\ shown' = Projected(sched.state)
    /\ boundaries' = IF Cancelling THEN boundaries ELSE boundaries \cup {Stopping}
    /\ Spend("insert")
    /\ UNCHANGED <<letter, question, pc, tick, saved, runner, ended, runs>>

ReorderQueued(e, to) ==
    /\ CanCancelQueued(e)
    /\ e \in VisibleQueue
    /\ to < Cardinality(VisibleQueue)
    /\ to # Cardinality({f \in VisibleQueue \ {e} : Before(f, e)})
    /\ items' = Reordered(e, to)
    /\ shown' = Projected(sched.state)
    /\ Spend("reorder")
    /\ UNCHANGED <<sched, letter, question, processVars>>

\* resolve(skip | cancel | resolve) of a parked slot.
Resolve ==
    /\ HasActive
    /\ sched.state = "frozen"
    /\ sched' = Idle(sched, "D")
    /\ shown' = "idle"
    /\ Spend("resolve")
    /\ UNCHANGED <<items, letter, question, processVars>>

-------------------------------------------------------------------------------
\* The outbox worker.

Lease(e) ==
    /\ TickAnywhere \/ Drained
    /\ tick = None
    /\ Selected(e)
    /\ items[e].state = "pending"
    /\ pc[e] = "idle"
    /\ ~Busy
    /\ SetState(e, "leased")
    /\ pc' = [pc EXCEPT ![e] = "taken"]
    /\ tick' = e
    /\ UNCHANGED <<sched, letter, question, shown, saved, runner, boundaries, ended, runs, left>>

\* The worker gives up waiting for a slow delivery, which goes on by itself.
ReleaseTick ==
    /\ TickAnywhere \/ Drained
    /\ tick # None
    /\ tick' = None
    /\ Spend("stall")
    /\ UNCHANGED <<schedulerVars, pc, saved, runner, boundaries, ended, runs>>

\* A lapsed lease returns to the queue, or to the dead letters: the next claim,
\* acknowledgement, failure or deferral of any session returns it, also while the
\* tick still waits for this delivery.  A lease no delivery of this process holds
\* always lapses; one that outlives its thirty seconds spends `lapse`.
LeaseLapses(e) ==
    /\ items[e].state = "leased"
    /\ \E state \in {"pending", "dead-letter"} : SetState(e, state)
    /\ IF pc[e] = "idle" THEN UNCHANGED left ELSE Spend("lapse")
    /\ UNCHANGED <<sched, letter, question, shown, processVars>>

CheckBusy(e) ==
    /\ pc[e] = "taken"
    /\ IF Busy THEN IfHeld(e, "pending") /\ Finish(e)
               ELSE Goto(e, "checked") /\ UNCHANGED items
    /\ UNCHANGED <<sched, letter, question, shown, saved, runner, boundaries, ended, runs, left>>

ClaimSlot(e) ==
    /\ pc[e] = "checked"
    /\ items[e].state = "leased"
    /\ GateOpen(e)
    /\ sched' = Claimed(e)
    /\ ended' = (HasActive /\ ended)
    /\ shown' = "running"
    /\ Goto(e, "claimed")
    /\ UNCHANGED <<items, letter, question, saved, runner, boundaries, runs, left>>

GateClosed(e) ==
    /\ pc[e] = "checked"
    /\ items[e].state # "leased" \/ ~GateOpen(e)
    /\ IfHeld(e, "pending")
    /\ Finish(e)
    /\ UNCHANGED <<sched, letter, question, shown, saved, runner, boundaries, ended, runs, left>>

AckAnyPersisted(e) ==
    /\ pc[e] = "claimed"
    /\ saved[e] # "no"
    /\ IfHeld(e, "delivered")
    /\ Goto(e, "settling")
    /\ UNCHANGED <<sched, letter, question, shown, saved, runner, boundaries, ended, runs, left>>

\* The message is already in the history and nothing says it was refused: the
\* delivery is acknowledged instead of repeated.
AckPersisted(e) ==
    /\ pc[e] = "claimed"
    /\ saved[e] \in {"unknown", "handed"}
    /\ IfHeld(e, "delivered")
    /\ Goto(e, "settling")
    /\ UNCHANGED <<sched, letter, question, shown, saved, runner, boundaries, ended, runs, left>>

\* settlePersistedDelivery with the verdict the host remembers.
SettlePersisted(e) ==
    LET proven  == letter = "D" /\ ended
        verdict == IF proven THEN "D" ELSE letter
        mine    == IsActiveReplay(e)
        settled == mine /\ verdict # None /\ TaskMatches(items[e].task)
    IN  /\ pc[e] = "settling"
        /\ sched' = CASE settled -> Completed(verdict, None)
                      [] mine /\ verdict = None -> Assessing
                      [] OTHER -> sched
        /\ items' = IF settled THEN BlockStaged(verdict) ELSE items
        /\ shown' = IF sched' = sched THEN shown ELSE Projected(sched'.state)
        /\ Finish(e)
        /\ UNCHANGED <<letter, question, saved, runner, boundaries, ended, runs, left>>

AppendNotice(e) ==
    /\ pc[e] = "claimed"
    /\ saved[e] = "no"
    /\ ~StartsTurn(e)
    /\ saved' = [saved EXCEPT ![e] = "handed"]
    /\ Goto(e, "accepted")
    /\ UNCHANGED <<schedulerVars, runner, boundaries, ended, runs, left>>

\* Beginning the turn of e: its verdict is P again, and an unanswered question
\* is dropped unless the turn continues by itself (originContinue).
BeginTurn(e) ==
    /\ letter' = "P"
    /\ question' = IF IsControl(e) /\ ~IsTyped(e) THEN question ELSE NoQuestion

CanHandOverAgain(e) == pc[e] = "claimed" /\ StartsTurn(e)

CanHandOver(e) ==
    /\ pc[e] = "claimed"
    /\ saved[e] \in {"no", "refused"}
    /\ StartsTurn(e)

AnswerStale(e) == IsAnswer(e) /\ items[e].request # question.id

\* runChatTurn: the message is saved, the turn begun and the runner started in
\* one synchronous block.  A complete() already queued on the store is ahead of
\* it: it was queued behind the same read a claim must wait for.
HandOver(e) ==
    /\ CanHandOver(e)
    /\ runner = None
    /\ ~AnswerStale(e)
    /\ \A b \in boundaries : b.step # "decided"
    /\ BeginTurn(e)
    /\ saved' = [saved EXCEPT ![e] = "handed"]
    /\ runner' = e
    /\ runs' = [runs EXCEPT ![e] = @ + 1]
    /\ Goto(e, "accepted")
    /\ UNCHANGED <<items, sched, shown, boundaries, ended, left>>

\* The delivery fails: before the message is saved, after it, or after the
\* turn was announced; or a turn is running; or the answered question is gone.
Refuse(e) ==
    /\ CanHandOver(e)
    /\ \/ /\ runner # None
          /\ UNCHANGED <<saved, letter, question, left>>
       \/ /\ runner = None /\ AnswerStale(e)
          /\ saved' = [saved EXCEPT ![e] = "refused"]
          /\ UNCHANGED <<letter, question, left>>
       \/ /\ Spend("refuse")
          /\ UNCHANGED <<saved, letter, question>>
       \/ /\ runner = None /\ ~AnswerStale(e) /\ Spend("refuse")
          /\ saved' = [saved EXCEPT ![e] = "refused"]
          /\ BeginTurn(e) \/ UNCHANGED <<letter, question>>
    /\ \E state \in {"pending", "dead-letter"} : IfHeld(e, state)
    /\ Goto(e, "refused")
    /\ UNCHANGED <<sched, shown, runner, boundaries, ended, runs>>

ReleaseClaim(e) ==
    /\ pc[e] = "refused"
    /\ IF IsActiveReplay(e)
       THEN sched' = Released(e) /\ shown' = "idle"
       ELSE UNCHANGED <<sched, shown>>
    /\ Finish(e)
    /\ UNCHANGED <<items, letter, question, saved, runner, boundaries, ended, runs, left>>

Acknowledge(e) ==
    /\ pc[e] = "accepted"
    /\ IfHeld(e, "delivered")
    /\ IF items[e].state = "leased" THEN Goto(e, "acked") ELSE Finish(e)
    /\ UNCHANGED <<sched, letter, question, shown, saved, runner, boundaries, ended, runs, left>>

RecordStarted(e) ==
    /\ pc[e] = "acked"
    /\ IF IsActiveReplay(e)
       THEN sched' = Started /\ shown' = "running" /\ ended' = (sched.active.started /\ ended)
       ELSE UNCHANGED <<sched, shown, ended>>
    /\ Finish(e)
    /\ UNCHANGED <<items, letter, question, saved, runner, boundaries, runs, left>>

-------------------------------------------------------------------------------
\* The native turn and its boundary.


AskQuestion ==
    /\ Drained
    /\ runner # None
    /\ ~question.open
    /\ question' = [id |-> runner, open |-> TRUE, askedAt |-> Admitted]
    /\ Spend("ask")
    /\ UNCHANGED <<items, sched, letter, shown, processVars>>

\* The verdict is published at once; the two scheduler mutations that follow
\* (turnEnded, then complete) are only started.
RunnerEnds(verdict) ==
    /\ Drained
    /\ runner # None
    /\ verdict \in IF question.id # None THEN {"W"} ELSE {"D", "B", "E"}
    /\ runner' = None
    /\ letter' = verdict
    /\ ended' = TRUE
    /\ boundaries' = boundaries \cup
          {[Stopping EXCEPT !.step = "closing", !.letter = verdict,
                            !.task = items[runner].task]}
    /\ UNCHANGED <<items, sched, question, shown, pc, tick, saved, runs, left>>

CancelTurn ==
    /\ ~Cancelling
    /\ boundaries' = boundaries \cup {Stopping}
    /\ Spend("cancel")
    /\ UNCHANGED <<schedulerVars, pc, tick, saved, runner, ended, runs>>

\* The process watchdog: a session still in P with no runner.  A recovered turn
\* that had asked a question is settled on the question instead.
Orphaned == sched.state = "frozen" /\ sched.reason = "classify_running"

WatchdogStops ==
    /\ Drained
    /\ letter = "P"
    /\ runner = None
    /\ sched.state \notin {"assessing", "frozen"} \/ Orphaned
    /\ ~Cancelling
    /\ IF Orphaned /\ question.open
       THEN /\ letter' = "W"
            /\ boundaries' = boundaries \cup {[Stopping EXCEPT !.step = "closed", !.letter = "W"]}
       ELSE /\ boundaries' = boundaries \cup {Stopping}
            /\ UNCHANGED letter
    /\ UNCHANGED <<items, sched, question, shown, pc, tick, saved, runner, ended, runs, left>>

\* dismissUserInput: the question is settled without an answer.
Dismiss ==
    /\ question.open
    /\ runner = None
    /\ letter # "P"
    /\ HasActive => sched.state = "frozen"
    /\ question' = [question EXCEPT !.open = FALSE]
    /\ letter' = "D"
    /\ ended' = TRUE
    /\ boundaries' = boundaries \cup
          {[Stopping EXCEPT !.step = "closed", !.letter = "D", !.dismissed = question.id]}
    /\ Spend("dismiss")
    /\ UNCHANGED <<items, sched, shown, pc, tick, saved, runner, runs>>

Move(b, step) == boundaries' = (boundaries \ {b}) \cup {[b EXCEPT !.step = step]}
Drop(b) == boundaries' = boundaries \ {b}

\* A cancel stops whatever turn runs by now.
StopRunner(b) ==
    /\ b \in boundaries
    /\ b.step = "stopping"
    /\ Drained
    /\ runner' = None
    /\ Move(b, "cancelling")
    /\ UNCHANGED <<schedulerVars, pc, tick, saved, ended, runs, left>>

\* turnEnded, the first half; a cancel publishes its E only now.
CloseTurn(b) ==
    /\ b \in boundaries
    /\ b.step \in {"closing", "cancelling"}
    /\ IF HasActive THEN sched' = Assessing /\ shown' = "assessing"
                    ELSE UNCHANGED <<sched, shown>>
    /\ letter' = IF b.step = "cancelling" THEN "E" ELSE letter
    /\ Move(b, "closed")
    /\ UNCHANGED <<items, question, pc, tick, saved, runner, ended, runs, left>>

ReadSuccess(b) ==
    /\ b \in boundaries
    /\ b.step = "closed"
    /\ HasActive \/ b.dismissed = None
    /\ IF HasActive /\ b.letter = "D" THEN Move(b, "decided") ELSE Drop(b)
    /\ UNCHANGED <<schedulerVars, pc, tick, saved, runner, ended, runs, left>>

\* runClassifyTransition reads the slot and keeps the verdict only if the slot
\* is waiting for one.
ReadVerdict(b) ==
    /\ b \in boundaries
    /\ b.step = "closed"
    /\ HasActive \/ b.dismissed = None
    /\ IF HasActive /\ sched.state \in {"assessing", "frozen"} /\ TaskMatches(b.task)
       THEN Move(b, "decided") ELSE Drop(b)
    /\ UNCHANGED <<schedulerVars, pc, tick, saved, runner, ended, runs, left>>

CompleteTurn(b) ==
    /\ b \in boundaries
    /\ b.step = "decided"
    /\ IF HasActive /\ TaskMatches(b.task)
       THEN /\ sched' = Completed(b.letter, OpenQuestion)
            /\ items' = BlockStaged(b.letter)
            /\ shown' = "idle"
       ELSE UNCHANGED <<sched, items, shown>>
    /\ Drop(b)
    /\ UNCHANGED <<letter, question, pc, tick, saved, runner, ended, runs, left>>

\* settleUserInput, when the question's turn has already left the slot.
SettleDismissed(b) ==
    /\ b \in boundaries
    /\ b.step = "closed"
    /\ b.dismissed # None
    /\ ~HasActive
    /\ sched' = IF sched.awaiting \in {None, b.dismissed} THEN Idle(sched, "D") ELSE sched
    /\ Drop(b)
    /\ UNCHANGED <<items, letter, question, shown, pc, tick, saved, runner, ended, runs, left>>

-------------------------------------------------------------------------------
\* The process dies and the next one recovers the schedule.  Dying inside the
\* hand-over may leave the message saved and its turn never announced.
CrashAndRecover ==
    LET recovered == Recovered(letter = "D" /\ ended)
        handing   == {e \in Entries : CanHandOver(e) /\ saved[e] = "no" /\ runner = None}
    IN  /\ Spend("crash")
        /\ \E lost \in SUBSET handing :
              /\ Cardinality(lost) <= 1
              /\ saved' = [e \in Entries |-> IF saved[e] # "no" \/ e \in lost
                                             THEN "unknown" ELSE "no"]
        /\ sched' = recovered
        /\ shown' = IF HasActive THEN Projected(recovered.state) ELSE shown
        /\ pc' = [e \in Entries |-> "idle"]
        /\ tick' = None
        /\ runner' = None
        /\ boundaries' = {}
        /\ UNCHANGED <<items, letter, question, ended, runs>>

-------------------------------------------------------------------------------
Deliver(e) ==
    \/ CheckBusy(e) \/ ClaimSlot(e) \/ GateClosed(e)
    \/ AckPersisted(e) \/ SettlePersisted(e)
    \/ AppendNotice(e) \/ HandOver(e) \/ Refuse(e) \/ ReleaseClaim(e)
    \/ Acknowledge(e) \/ RecordStarted(e)

Settle(b) == StopRunner(b) \/ CloseTurn(b) \/ ReadVerdict(b) \/ CompleteTurn(b) \/ SettleDismissed(b)

Next ==
    \/ \E e \in Entries :
          \/ Admit(e) \/ CancelQueued(e) \/ InsertQueued(e)
          \/ \E to \in 0..Cardinality(Entries) : ReorderQueued(e, to)
          \/ Lease(e) \/ LeaseLapses(e) \/ Deliver(e)
    \/ ReleaseTick \/ Resolve \/ AskQuestion \/ CancelTurn \/ WatchdogStops \/ Dismiss
    \/ \E verdict \in {"D", "B", "E", "W"} : RunnerEnds(verdict)
    \/ \E b \in boundaries : Settle(b)
    \/ CrashAndRecover

Spec == Init /\ [][Next]_vars


\* The worker ticks, the watchdog sweeps, promises settle; a native turn ends
\* some day.  Nobody owes the session a question, a cancel or a message.
Fairness ==
    /\ \A e \in Entries : WF_vars(Deliver(e)) /\ WF_vars(Lease(e)) /\ WF_vars(LeaseLapses(e))
    /\ WF_vars(\E b \in boundaries : Settle(b))
    /\ WF_vars(WatchdogStops)
    /\ WF_vars(\E verdict \in {"D", "B", "E", "W"} : RunnerEnds(verdict))

FairSpec == Spec /\ Fairness

-------------------------------------------------------------------------------
\* Every variable has its type.
TypeOK ==
    /\ items \in [Entries -> Item]
    /\ sched \in Schedule
    /\ letter \in Letters \cup {None}
    /\ question \in Question
    /\ shown \in {"idle", "queued", "running", "assessing"}
    /\ pc \in [Entries -> Phases]
    /\ tick \in Entries \cup {None}
    /\ saved \in [Entries -> {"no", "unknown", "refused", "handed"}]
    /\ runner \in Entries \cup {None}
    /\ boundaries \subseteq Boundary
    /\ ended \in BOOLEAN
    /\ runs \in [Entries -> Nat]
    /\ left \in [Disturbances -> Nat]

\* However often its delivery is repeated, by a lapsed lease, a refusal or a
\* restart, a message starts at most one native turn (runtime.js deliver's
\* persisted-delivery guard and the turn engine's hand-over probe).
AtMostOnce == \A e \in Entries : runs[e] <= 1

Crashed == left["crash"] < Budget["crash"]

\* In a process that did not restart, a message counted as delivered was handed
\* to a runner: one only saved to the history is delivered again (runtime.js
\* 906-929, "persisted is not delivered").
DeliveredWasRun ==
    \A e \in Entries :
        items[e].state = "delivered" /\ StartsTurn(e) /\ ~Crashed => runs[e] = 1

Begins(e) == runs'[e] # runs[e]

\* Work that was already queued when a turn asked its question does not start
\* before the question is answered, settled or overridden
\* (scheduler.js selectSessionItem and complete).
QuestionHolds ==
    [][\A e \in Entries :
          Begins(e) /\ question.open /\ items[e].sequence <= question.askedAt
            => IsAnswer(e) \/ items[e].override = question.id]_vars

\* While the answer to the current question is queued and the slot is free, no
\* other message is taken from the queue (scheduler.js admit, priorityEntryId).
AnswerLeads ==
    [][\A e, a \in Entries :
          /\ items[e].state = "pending" /\ items'[e].state = "leased"
          /\ items[a].state = "pending" /\ IsAnswer(a) /\ items[a].request = question.id
          /\ ~HasActive
          => e = a]_vars

\* A slot in starting, running or assessing has something that will move it on:
\* a delivery, a turn, a boundary, a lease to repeat, or the process watchdog.
SlotDriven ==
    sched.state \in {"starting", "running", "assessing"} =>
        \/ \E e \in Entries : pc[e] # "idle"
        \/ runner # None
        \/ boundaries # {}
        \/ Open(sched.active.delivery)
        \/ letter = "P" /\ sched.state # "assessing"

\* Work that only waits its turn (not typed by the user, not a continuation)
\* starts after a success only: W, B and E leave it queued
\* (scheduler.js selectSessionItem, "Only D drains the FIFO").
Staged(e) == ~items[e].direct /\ ~IsControl(e)
OnlySuccessDrains ==
    [][\A e \in Entries : Begins(e) /\ Staged(e) => letter \in {"D", None}]_vars

\* A taken slot is given back: with every delivery and every turn coming to an
\* end, the session is never left occupied (host.js runClassifyTransition).
SlotReleased == HasActive ~> ~HasActive

===============================================================================
