--------------------------- MODULE SessionScheduler ---------------------------
(***************************************************************************)
(* The per-session FIFO scheduler of src/src/session-work/scheduler.js, for *)
(* one session: what each of its store mutations does to the schedule and  *)
(* to the session's outbox items, and which item it selects next.          *)
(*                                                                         *)
(* This module holds the durable state and one operator per mutation; the  *)
(* processes that call them, and everything that can happen between two    *)
(* calls, are in SessionDelivery.  Outbox models the leases themselves:    *)
(* here a leased item is one whose current holder can still settle it.     *)
(*                                                                         *)
(* Classify letters: P processing, D succeeded, W waits for the user,      *)
(* B waits for background work, E abnormal.  A question is identified by   *)
(* the entry whose turn asked it.                                          *)
(***************************************************************************)
EXTENDS Naturals, FiniteSets

CONSTANTS
    Entries,    \* outbox ids of this session
    ClassOf(_), \* provenance of an entry, one of Classes
    TaskOf(_),  \* payload.taskId of an entry, or None
    Tasks,      \* task ids
    None        \* null

\* Session work (typed by the user, answering, from an operation, continuing),
\* a dispatched request and its result, the callback of a wait, a notice.
Classes == {"typed", "answer", "operation", "continuation",
            "request", "result", "callback", "notice"}

ASSUME SchedulerAssumption ==
    /\ IsFiniteSet(Entries)
    /\ None \notin Entries \cup Tasks \cup {"P", "D", "W", "B", "E"}
    /\ \A e \in Entries : ClassOf(e) \in Classes /\ TaskOf(e) \in Tasks \cup {None}

VARIABLES
    items,     \* draft.outbox, the items of this session
    sched,     \* draft.sessionSchedules[session]
    letter,    \* taskState.classifyState: the canonical verdict, host side
    question,  \* taskState.pendingUserInput
    shown      \* taskState.queueState: the projection of scheduler events

schedulerVars == <<items, sched, letter, question, shown>>

-------------------------------------------------------------------------------
Letters == {"P", "D", "W", "B", "E"}
ItemStates == {"absent", "pending", "leased", "delivered", "dead-letter", "cancelled"}
SlotStates == {"idle", "starting", "running", "assessing", "frozen"}
ActiveStates == SlotStates \ {"idle"}
Kinds == {"task", "continuation", "answer", "callback"}
ControlKinds == Kinds \ {"task"}
NoOrder == Cardinality(Entries)   \* queueOrder unset: behind every set one

Active == [entry : Entries, delivery : Entries, task : Tasks \cup {None},
           started : BOOLEAN, superseded : Entries \cup {None}]
NoActive == [entry |-> None]

Item == [state    : ItemStates,
         sequence : 0..Cardinality(Entries),
         order    : 0..NoOrder,
         kind     : Kinds,
         task     : Tasks \cup {None},
         request  : Entries \cup {None},     \* requestId of an answer
         direct   : BOOLEAN,                 \* directRun
         override : Entries \cup {None},     \* userInputOverrideId
         blocked  : Entries \cup {None}]     \* blockedByUserInput

Schedule == [state    : SlotStates,
             reason   : {None, "classify_running", "other"},
             awaiting : Entries \cup {None},
             letter   : Letters \cup {None},
             priority : Entries \cup {None},
             active   : Active \cup {NoActive}]

Question == [id : Entries \cup {None}, open : BOOLEAN, askedAt : 0..Cardinality(Entries)]
NoQuestion == [id |-> None, open |-> FALSE, askedAt |-> 0]

NewItem == [state |-> "absent", sequence |-> 0, order |-> NoOrder, kind |-> "task",
            task |-> None, request |-> None, direct |-> FALSE, override |-> None, blocked |-> None]
NewSchedule == [state |-> "idle", reason |-> None, awaiting |-> None,
                letter |-> None, priority |-> None, active |-> NoActive]

SchedulerInit ==
    /\ items = [e \in Entries |-> NewItem]
    /\ sched = NewSchedule
    /\ letter = None
    /\ question = NoQuestion
    /\ shown = "idle"

-------------------------------------------------------------------------------
\* Reading the state.

HasActive == sched.active # NoActive
Open(e) == items[e].state \in {"pending", "leased"}
Admitted == Cardinality({e \in Entries : items[e].state # "absent"})

IsWork(e) == ClassOf(e) \in {"typed", "answer", "operation", "continuation"}
IsTyped(e) == ClassOf(e) \in {"typed", "answer"}
IsControl(e) == items[e].kind \in ControlKinds
IsAnswer(e) == IsWork(e) /\ items[e].kind = "answer"

OpenQuestion == IF question.open THEN question.id ELSE None

IsActiveReplay(e) == HasActive /\ sched.active.delivery = e

RelatedControl(e) ==
    /\ HasActive
    /\ IsControl(e)
    /\ \/ IsWork(e)
       \/ ClassOf(e) \in {"notice", "result"}
       \/ None \in {items[e].task, sched.active.task}
       \/ items[e].task = sched.active.task

ControlAllowed(e, cls) ==
    IF IsWork(e) \/ ClassOf(e) = "result" THEN cls # "P" ELSE cls = "B"

\* The persisted fallback, read when the host has no verdict yet.
ScheduleLetter ==
    IF sched.letter # None THEN sched.letter ELSE IF HasActive THEN "P" ELSE "D"

BeforeUnranked(e, f) ==
    \/ items[e].order < items[f].order
    \/ items[e].order = items[f].order /\ items[e].sequence < items[f].sequence

\* A priority entry first, then the order set by hand, then admission order.
Before(e, f) ==
    LET rank(x) == IF x = sched.priority THEN 0 ELSE 1
    IN  \/ rank(e) < rank(f)
        \/ rank(e) = rank(f) /\ items[e].order < items[f].order
        \/ /\ rank(e) = rank(f) /\ items[e].order = items[f].order
           /\ items[e].sequence < items[f].sequence

\* An unanswered question holds what was staged behind it.  The creation time
\* the code also compares never reaches the scheduler, so it decides nothing.
Held(e) ==
    /\ OpenQuestion # None
    /\ ~IsActiveReplay(e)
    /\ ~(IsAnswer(e) /\ items[e].request = OpenQuestion)
    /\ items[e].override # OpenQuestion
    /\ \/ items[e].blocked = OpenQuestion
       \/ HasActive /\ sched.state \in {"starting", "running", "assessing"}

DrainsAtRest(cls) == cls # "P"

\* Only a success lets the queue advance by itself.
Drains(cls) == cls = "D"

\* The items one pass of selectSessionItem chooses from: the first non-empty of
\* its alternatives.  The head of the set is the item selected.
Selectable ==
    LET free     == {e \in Entries : Open(e) /\ ~Held(e)}
        atRest   == IF letter # None THEN letter ELSE ScheduleLetter
        direct   == {e \in free : items[e].direct /\ atRest # "P"}
        control  == {e \in free : IsControl(e) /\ atRest # "P" /\ ControlAllowed(e, atRest)}
        staged   == {e \in free : Drains(atRest)}
        replay   == {e \in free : IsActiveReplay(e)}
        related  == {e \in free : RelatedControl(e) /\ ControlAllowed(e, letter)}
        firstOf(A, B) == IF A # {} THEN A ELSE B
    IN  IF ~HasActive THEN firstOf(direct, firstOf(control, staged))
                      ELSE firstOf(replay, related)

Selected(e) == e \in Selectable /\ \A f \in Selectable \ {e} : Before(e, f)

-------------------------------------------------------------------------------
\* One operator per mutation: the schedule, or the items, after it.  The operators
\* named for what goes wrong (BlockNothing, ...) are mutants.

Idle(s, letterAfter) ==
    [s EXCEPT !.state = "idle", !.reason = None, !.awaiting = None,
              !.letter = letterAfter, !.active = NoActive]

DropPriority(s, e) == [s EXCEPT !.priority = IF @ = e THEN None ELSE @]

CanCancelQueued(e) ==
    /\ items[e].state = "pending"
    /\ HasActive => e \notin {sched.active.entry, sched.active.delivery}

\* insertQueued: promoted over the queue and over an open question; a message
\* of the running task becomes its continuation.
CanInsert(e) ==
    /\ CanCancelQueued(e)
    /\ HasActive => sched.active.superseded \in {None, e}

Inserted(e) ==
    LET sameTask == HasActive /\ IsWork(e) /\ items[e].task \in {None, sched.active.task}
    IN  [items[e] EXCEPT !.kind = IF sameTask THEN "continuation" ELSE @,
                         !.task = IF sameTask THEN sched.active.task ELSE @,
                         !.direct = TRUE, !.override = OpenQuestion]

SupersededBy(e) ==
    [sched EXCEPT !.priority = e,
                  !.active = IF HasActive THEN [@ EXCEPT !.superseded = e] ELSE @]

\* reorderQueued: the whole visible queue renumbered with e at place `to`.
VisibleQueue == {e \in Entries : Open(e) /\ ~IsActiveReplay(e) /\ ~IsAnswer(e)}

Reordered(e, to) ==
    LET others   == VisibleQueue \ {e}
        place(f) == Cardinality({g \in others \ {f} : Before(g, f)})
    IN  [f \in Entries |->
            IF f = e THEN [items[f] EXCEPT !.order = to]
            ELSE IF f \in others
            THEN [items[f] EXCEPT !.order = IF place(f) < to THEN place(f) ELSE place(f) + 1]
            ELSE items[f]]

\* claim: a free slot, a redelivery of the slot's own entry, or a control that
\* continues it.  Anything else finds the gate closed.
GateOpen(e) == ~HasActive \/ IsActiveReplay(e) \/ RelatedControl(e)

Claimed(e) ==
    LET fresh  == [entry |-> e, delivery |-> e, task |-> items[e].task,
                   started |-> FALSE, superseded |-> None]
        joined == [sched.active EXCEPT !.delivery = e,
                                       !.task = IF @ = None THEN items[e].task ELSE @]
    IN  [(IF HasActive THEN sched ELSE DropPriority(sched, e))
            EXCEPT !.active = IF HasActive THEN joined ELSE fresh,
                   !.state = "starting", !.reason = None]

Started ==
    [sched EXCEPT !.state = "running", !.reason = None, !.awaiting = None,
                  !.letter = "P", !.active.started = TRUE]

ReleasedNothing(e) == sched

\* releaseClaim: an entry that never started leaves the slot, anything else
\* parks the slot on the entry that owns it.
Released(e) ==
    IF sched.active.entry = e /\ ~sched.active.started
    THEN DropPriority(Idle(sched, IF sched.letter = None THEN "D" ELSE sched.letter), e)
    ELSE [sched EXCEPT !.active.delivery = sched.active.entry,
                       !.state = "frozen", !.reason = "other"]

\* turnEnded
Assessing ==
    [sched EXCEPT !.state = "assessing", !.letter = "P", !.reason = None, !.awaiting = None]

\* complete: every verdict releases the slot.
Completed(verdict, awaiting) ==
    [DropPriority(Idle(sched, verdict), sched.active.entry)
        EXCEPT !.awaiting = IF verdict # "D" THEN awaiting ELSE None]

TaskMatches(task) == None \in {task, sched.active.task} \/ task = sched.active.task

BlockNothing(verdict) == items

\* complete(W) with an open question also blocks whatever is still pending.
BlockStaged(verdict) ==
    [e \in Entries |->
        IF /\ verdict = "W" /\ OpenQuestion # None
           /\ items[e].state = "pending"
           /\ ~(IsAnswer(e) /\ items[e].request = OpenQuestion)
           /\ items[e].override # OpenQuestion
        THEN [items[e] EXCEPT !.direct = FALSE, !.blocked = OpenQuestion]
        ELSE items[e]]

\* recover, once, when the process starts.  `proven` is recoveredSuccessProven.
RecoveredLetter == IF letter # None THEN letter ELSE ScheduleLetter

Recovered(proven) ==
    LET read   == [sched EXCEPT !.letter = IF letter # None THEN letter ELSE @]
        unacked == HasActive /\ Open(sched.active.delivery)
        parked(state, reason) == [read EXCEPT !.state = state, !.reason = reason]
    IN  IF ~HasActive THEN [read EXCEPT !.state = "idle", !.reason = None, !.awaiting = None]
        ELSE CASE RecoveredLetter = "E" -> Idle(read, read.letter)
               [] RecoveredLetter = "D" /\ ~proven ->
                    [parked("assessing", None) EXCEPT !.letter = "P"]
               [] RecoveredLetter = "D" /\ proven /\ unacked -> parked("frozen", "other")
               [] RecoveredLetter = "D" /\ proven /\ ~unacked -> Idle(read, read.letter)
               [] RecoveredLetter = "P" -> parked("frozen", "classify_running")
               [] OTHER -> parked("frozen", "other")

===============================================================================
