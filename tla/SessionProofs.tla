------------------------------ MODULE SessionProofs ------------------------------
(***************************************************************************)
(* What a message of a session can count on, for any messages, provenances *)
(* and tasks and any number of disturbances: the type correctness of       *)
(* SessionDelivery.tla, AtMostOnce and DeliveredWasRun; and, under the     *)
(* disturbances each of them survives, SlotDriven, OnlySuccessDrains,      *)
(* AnswerLeads and QuestionHolds.                                          *)
(*                                                                         *)
(* SessionInv says what the chat history knows of a turn: a message not in *)
(* it, or refused, started none; one handed over started exactly one; and  *)
(* only a restart leaves a message of which nothing is known.  That is     *)
(* what lets a repeated delivery decide, from the history alone, whether   *)
(* to start a turn or to acknowledge.                                      *)
(*                                                                         *)
(* SlotInv says what will move a taken slot on, state by state.            *)
(* SerialInv says what a session delivers one message at a time: while a   *)
(* message may still be handed over, the verdict it was taken under        *)
(* stands.  AnswerInv says that an answer leads the queue from its         *)
(* admission to its claim.  QuestionInv says that a turn has the slot, and *)
(* nothing else is under way, from its start until its verdict is settled, *)
(* and that an open question holds what was queued before it.              *)
(***************************************************************************)
EXTENDS SessionDelivery, FiniteSetTheorems, TLAPS

Nobody == Entries \cup {None}
Saved == {"no", "unknown", "refused", "handed"}
Shown == {"idle", "queued", "running", "assessing"}

HandedInv ==
    \A e \in Entries :
        /\ runs[e] <= 1
        /\ saved[e] \in {"no", "refused"} => runs[e] = 0
        /\ saved[e] = "handed" /\ StartsTurn(e) => runs[e] = 1
        /\ saved[e] = "unknown" => Crashed
        /\ pc[e] \in {"accepted", "acked"} => saved[e] = "handed"
        /\ items[e].state = "delivered" => saved[e] = "handed" \/ Crashed

SessionInv ==
    /\ TypeOK /\ HandedInv
    /\ left["crash"] <= Budget["crash"]

-------------------------------------------------------------------------------
\* The scheduler's mutations, as functions of a schedule.

LEMMA Counted ==
    ASSUME NEW S \in SUBSET Entries
    PROVE  Cardinality(S) \in 0..Cardinality(Entries) /\ IsFiniteSet(S)
<1>1. IsFiniteSet(Entries)  BY SchedulerAssumption
<1>2. IsFiniteSet(S) /\ Cardinality(S) <= Cardinality(Entries)  BY <1>1, FS_Subset
<1>3. Cardinality(S) \in Nat /\ Cardinality(Entries) \in Nat
  BY <1>1, <1>2, FS_CardinalityType
<1> QED  BY <1>2, <1>3

\* Something left out makes the difference of one.
LEMMA CountedLess ==
    ASSUME NEW S \in SUBSET Entries, NEW e \in Entries, e \notin S
    PROVE  Cardinality(S) + 1 \in 0..Cardinality(Entries)
<1>1. S \cup {e} \in SUBSET Entries /\ IsFiniteSet(S)  BY Counted
<1>2. Cardinality(S \cup {e}) = Cardinality(S) + 1  BY <1>1, FS_AddElement
<1> QED  BY <1>1, <1>2, Counted

LEMMA IdleTyped ==
    ASSUME NEW s \in Schedule, NEW l \in Letters \cup {None}
    PROVE  Idle(s, l) \in Schedule
BY DEF Idle, Schedule, SlotStates

LEMMA DropTyped ==
    ASSUME NEW s \in Schedule, NEW e \in Entries
    PROVE  DropPriority(s, e) \in Schedule
BY DEF DropPriority, Schedule

LEMMA ActiveTyped ==
    ASSUME sched \in Schedule, HasActive
    PROVE  sched.active \in Active
BY DEF Schedule, HasActive

LEMMA ClaimedTyped ==
    ASSUME sched \in Schedule, items \in [Entries -> Item], NEW e \in Entries
    PROVE  Claimed(e) \in Schedule
<1> DEFINE fresh  == [entry |-> e, delivery |-> e, task |-> items[e].task,
                      started |-> FALSE, superseded |-> None]
           joined == [sched.active EXCEPT !.delivery = e,
                          !.task = IF @ = None THEN items[e].task ELSE @]
<1>1. items[e].task \in Tasks \cup {None}  BY DEF Item
<1>2. fresh \in Active  BY <1>1 DEF Active
<1>3. HasActive => joined \in Active
  <2> SUFFICES ASSUME HasActive  PROVE joined \in Active
    OBVIOUS
  <2> DEFINE t == IF sched.active.task = None THEN items[e].task ELSE sched.active.task
  <2>1. sched.active \in Active  BY ActiveTyped
  <2>2. t \in Tasks \cup {None}  BY <1>1, <2>1 DEF Active
  <2>3. joined = [sched.active EXCEPT !.delivery = e, !.task = t]  BY <2>1 DEF Active
  <2> HIDE DEF t
  <2> QED  BY <2>1, <2>2, <2>3 DEF Active
<1>4. (IF HasActive THEN joined ELSE fresh) \in Active  BY <1>2, <1>3
<1> DEFINE a == IF HasActive THEN joined ELSE fresh
           s == IF HasActive THEN sched ELSE DropPriority(sched, e)
<1>5. s \in Schedule  BY DropTyped
<1>6. Claimed(e) = [s EXCEPT !.active = a, !.state = "starting", !.reason = None]
  BY DEF Claimed
<1> HIDE DEF fresh, joined, a, s
<1>7. a \in Active  BY <1>4 DEF a
<1> QED  BY <1>5, <1>6, <1>7 DEF Schedule, SlotStates

LEMMA StartedTyped ==
    ASSUME sched \in Schedule, HasActive
    PROVE  Started \in Schedule
<1> DEFINE a == [sched.active EXCEPT !.started = TRUE]
<1>1. a \in Active  BY ActiveTyped DEF Active
<1>2. Started = [sched EXCEPT !.state = "running", !.reason = None, !.awaiting = None,
                              !.letter = "P", !.active = a]
  BY DEF Started, Schedule
<1> HIDE DEF a
<1> QED  BY <1>1, <1>2 DEF Schedule, SlotStates, Letters

LEMMA ReleasedTyped ==
    ASSUME sched \in Schedule, HasActive, NEW e \in Entries
    PROVE  Released(e) \in Schedule
<1>1. sched.active \in Active  BY ActiveTyped
<1> DEFINE l == IF sched.letter = None THEN "D" ELSE sched.letter
           a == [sched.active EXCEPT !.delivery = sched.active.entry]
<1>2. l \in Letters \cup {None} /\ a \in Active  BY <1>1 DEF Schedule, Letters, Active
<1>3. Released(e) = IF sched.active.entry = e /\ ~sched.active.started
                    THEN DropPriority(Idle(sched, l), e)
                    ELSE [sched EXCEPT !.active = a, !.state = "frozen", !.reason = "other"]
  BY DEF Released, Schedule
<1> HIDE DEF l, a
<1>4. DropPriority(Idle(sched, l), e) \in Schedule  BY <1>2, IdleTyped, DropTyped
<1>5. [sched EXCEPT !.active = a, !.state = "frozen", !.reason = "other"] \in Schedule
  BY <1>2 DEF Schedule, SlotStates
<1> QED  BY <1>3, <1>4, <1>5

LEMMA AssessingTyped ==
    ASSUME sched \in Schedule
    PROVE  Assessing \in Schedule
BY DEF Assessing, Schedule, SlotStates, Letters

LEMMA CompletedTyped ==
    ASSUME sched \in Schedule, HasActive, NEW v \in Letters, NEW w \in Nobody
    PROVE  Completed(v, w) \in Schedule
<1>1. sched.active.entry \in Entries  BY ActiveTyped DEF Active
<1>2. DropPriority(Idle(sched, v), sched.active.entry) \in Schedule
  BY <1>1, IdleTyped, DropTyped
<1>3. ASSUME NEW s \in Schedule, NEW x \in Nobody
      PROVE  [s EXCEPT !.awaiting = x] \in Schedule
  BY DEF Schedule, Nobody
<1>4. (IF v # "D" THEN w ELSE None) \in Nobody  BY DEF Nobody
<1> QED  BY <1>2, <1>3, <1>4 DEF Completed

LEMMA SupersededTyped ==
    ASSUME sched \in Schedule, NEW e \in Entries
    PROVE  SupersededBy(e) \in Schedule
<1> DEFINE a == IF HasActive THEN [sched.active EXCEPT !.superseded = e] ELSE sched.active
<1>1. a \in Active \cup {NoActive}  BY ActiveTyped DEF Active, Schedule
<1>2. SupersededBy(e) = [sched EXCEPT !.priority = e, !.active = a]
  BY DEF SupersededBy, Schedule
<1> HIDE DEF a
<1> QED  BY <1>1, <1>2 DEF Schedule

LEMMA RecoveredTyped ==
    ASSUME sched \in Schedule, letter \in Letters \cup {None}, NEW proven
    PROVE  Recovered(proven) \in Schedule
<1> DEFINE l == IF letter # None THEN letter ELSE sched.letter
           read == [sched EXCEPT !.letter = IF letter # None THEN letter ELSE @]
           parked(state, reason) == [read EXCEPT !.state = state, !.reason = reason]
<1>1. l \in Letters \cup {None}  BY DEF Schedule
<1>2. read = [sched EXCEPT !.letter = l]  BY DEF Schedule
<1> HIDE DEF l
<1>3. read \in Schedule /\ read.letter \in Letters \cup {None}  BY <1>1, <1>2 DEF Schedule
<1>4. \/ Recovered(proven) = [read EXCEPT !.state = "idle", !.reason = None, !.awaiting = None]
      \/ Recovered(proven) = Idle(read, read.letter)
      \/ Recovered(proven) = [parked("assessing", None) EXCEPT !.letter = "P"]
      \/ Recovered(proven) = parked("frozen", "other")
      \/ Recovered(proven) = parked("frozen", "classify_running")
  BY DEF Recovered
<1> HIDE DEF read
<1>5. parked("assessing", None) \in Schedule /\ parked("frozen", "other") \in Schedule
      /\ parked("frozen", "classify_running") \in Schedule
  <2>1. ASSUME NEW state \in SlotStates, NEW reason \in {None, "classify_running", "other"}
        PROVE  parked(state, reason) \in Schedule
    <3> DEFINE x == [read EXCEPT !.state = state]
    <3>1. x \in Schedule  BY <1>3 DEF Schedule
    <3> HIDE DEF x
    <3>2. [x EXCEPT !.reason = reason] \in Schedule  BY <3>1 DEF Schedule
    <3> QED  BY <3>2 DEF x
  <2>2. {"assessing", "frozen"} \subseteq SlotStates  BY DEF SlotStates
  <2> HIDE DEF parked
  <2> QED  BY <2>1, <2>2
<1>6. [read EXCEPT !.state = "idle", !.reason = None, !.awaiting = None] \in Schedule
  <2> DEFINE x == [[read EXCEPT !.state = "idle"] EXCEPT !.reason = None]
  <2>1. "idle" \in SlotStates  BY DEF SlotStates
  <2>2. x \in Schedule  BY <1>3, <2>1 DEF Schedule
  <2> HIDE DEF x
  <2>3. [x EXCEPT !.awaiting = None] \in Schedule  BY <2>2 DEF Schedule
  <2> QED  BY <2>3 DEF x
<1> HIDE DEF parked
<1>7. [parked("assessing", None) EXCEPT !.letter = "P"] \in Schedule
  BY <1>5 DEF Schedule, Letters
<1> QED  BY <1>3, <1>4, <1>5, <1>6, <1>7, IdleTyped

-------------------------------------------------------------------------------
\* Its items.

LEMMA StateTyped ==
    ASSUME items \in [Entries -> Item], NEW e \in Entries, NEW state \in ItemStates
    PROVE  /\ [items EXCEPT ![e].state = state] \in [Entries -> Item]
           /\ [items EXCEPT ![e].state = state][e].state = state
           /\ \A f \in Entries \ {e} : [items EXCEPT ![e].state = state][f] = items[f]
<1>1. [items[e] EXCEPT !.state = state] \in Item
      /\ [items[e] EXCEPT !.state = state].state = state
  BY DEF Item
<1> QED  BY <1>1

\* What a mutation does to the items, with what AtMostOnce asks of it.
ItemsStep(may) ==
    /\ items' \in [Entries -> Item]
    /\ \A e \in Entries : items'[e].state = "delivered" => items[e].state = "delivered" \/ e \in may

LEMMA ItemsSame ==
    ASSUME items \in [Entries -> Item], UNCHANGED items
    PROVE  ItemsStep({})
BY DEF ItemsStep

LEMMA IfHeldStep ==
    ASSUME items \in [Entries -> Item], NEW e \in Entries, NEW state \in ItemStates,
           SetState(e, state) \/ IfHeld(e, state)
    PROVE  ItemsStep(IF state = "delivered" THEN {e} ELSE {})
<1>1. CASE UNCHANGED items  BY <1>1 DEF ItemsStep
<1>2. CASE SetState(e, state)  BY <1>2, StateTyped DEF ItemsStep, SetState
<1> QED  BY <1>1, <1>2 DEF IfHeld

LEMMA AdmitItems ==
    ASSUME TypeOK, NEW e \in Entries, Admit(e)
    PROVE  ItemsStep({})
<1> DEFINE kindOf == CASE ClassOf(e) = "answer" -> "answer"
                    [] ClassOf(e) = "continuation" -> "continuation"
                    [] ClassOf(e) \in {"callback", "result", "notice"} -> "callback"
                    [] ClassOf(e) = "typed" /\ HasActive /\ letter # "P" -> "continuation"
                    [] OTHER -> "task"
           work     == IsWork(e)
           inherits == work /\ kindOf # "task" /\ HasActive /\ TaskOf(e) = None
           t == IF inherits THEN sched.active.task
                ELSE IF ClassOf(e) = "result" THEN None ELSE TaskOf(e)
           r == IF kindOf = "answer" THEN question.id ELSE None
           n == Admitted + 1
           item(d) == [NewItem EXCEPT !.state = "pending", !.sequence = n, !.kind = kindOf,
                                      !.task = t, !.request = r, !.direct = d]
<1>1. items \in [Entries -> Item] /\ sched \in Schedule /\ question \in Question
  BY DEF TypeOK
<1>2. items[e].state = "absent"  BY DEF Admit
<1>6. PICK d \in BOOLEAN : items' = [items EXCEPT ![e] = item(d)]
  <2>1. (IsTyped(e) \/ (work /\ kindOf # "task")) \in BOOLEAN  OBVIOUS
  <2>2. items' = [items EXCEPT ![e] = item(IsTyped(e) \/ (work /\ kindOf # "task"))]
    BY DEF Admit
  <2> HIDE DEF item
  <2> QED  BY <2>1, <2>2
<1>3. kindOf \in Kinds  BY DEF Kinds
<1>4. t \in Tasks \cup {None}
  <2>1. TaskOf(e) \in Tasks \cup {None}  BY SchedulerAssumption
  <2>2. HasActive => sched.active.task \in Tasks \cup {None}
    BY <1>1, ActiveTyped DEF Active
  <2> QED  BY <2>1, <2>2
<1>5. r \in Nobody  BY <1>1 DEF Question, Nobody
<1>7. n \in 0..Cardinality(Entries)
  <2> DEFINE S == {f \in Entries : items[f].state # "absent"}
  <2>1. S \in SUBSET Entries /\ e \notin S  BY <1>2
  <2> HIDE DEF S
  <2>2. Cardinality(S) + 1 \in 0..Cardinality(Entries)  BY <2>1, CountedLess
  <2> QED  BY <2>2 DEF S, Admitted
<1>8. NoOrder \in 0..NoOrder /\ 0 \in 0..Cardinality(Entries)
  <2>1. Cardinality(Entries) \in Nat  BY SchedulerAssumption, FS_CardinalityType
  <2> QED  BY <2>1 DEF NoOrder
<1> HIDE DEF kindOf, t, r, n, work, inherits
<1>9. PICK k \in Kinds : k = kindOf  BY <1>3
<1>10. PICK new : new = item(d)  OBVIOUS
<1>11. new = [state |-> "pending", sequence |-> n, order |-> NoOrder, kind |-> k,
              task |-> t, request |-> r, direct |-> d, override |-> None, blocked |-> None]
  BY <1>9, <1>10 DEF NewItem
<1>12. new \in Item /\ new.state = "pending"
  BY <1>4, <1>5, <1>7, <1>8, <1>11 DEF Item, ItemStates, Nobody
<1> HIDE DEF item
<1> QED  BY <1>1, <1>2, <1>6, <1>10, <1>12 DEF ItemsStep

LEMMA InsertItems ==
    ASSUME TypeOK, NEW e \in Entries, InsertQueued(e)
    PROVE  ItemsStep({})
<1> DEFINE same == HasActive /\ IsWork(e) /\ items[e].task \in {None, sched.active.task}
           k == IF same THEN "continuation" ELSE items[e].kind
           t == IF same THEN sched.active.task ELSE items[e].task
           q == OpenQuestion
           item == [items[e] EXCEPT !.kind = k, !.task = t, !.direct = TRUE, !.override = q]
<1>1. items[e] \in Item /\ items \in [Entries -> Item] /\ sched \in Schedule
      /\ question \in Question
  BY DEF TypeOK
<1>2. k \in Kinds  BY <1>1 DEF Kinds, Item
<1>3. t \in Tasks \cup {None}  BY <1>1, ActiveTyped DEF Active, Item
<1>4. q \in Nobody  BY <1>1 DEF OpenQuestion, Question, Nobody
<1>5. items' = [items EXCEPT ![e] = item]  BY <1>1 DEF InsertQueued, Inserted, Item
<1> HIDE DEF same, k, t, q
<1>6. item \in Item /\ item.state = items[e].state
  BY <1>1, <1>2, <1>3, <1>4 DEF Item, Nobody
<1> HIDE DEF item
<1> QED  BY <1>1, <1>5, <1>6 DEF ItemsStep

LEMMA ReorderItems ==
    ASSUME TypeOK, NEW e \in Entries, NEW to \in Nat, ReorderQueued(e, to)
    PROVE  ItemsStep({})
<1> DEFINE others == VisibleQueue \ {e}
           place(f) == Cardinality({g \in others \ {f} : Before(g, f)})
           p(f) == IF place(f) < to THEN place(f) ELSE place(f) + 1
<1>1. items \in [Entries -> Item] /\ to < Cardinality(VisibleQueue)  BY DEF TypeOK, ReorderQueued
<1>2. items' = [f \in Entries |->
                  IF f = e THEN [items[f] EXCEPT !.order = to]
                  ELSE IF f \in others THEN [items[f] EXCEPT !.order = p(f)]
                  ELSE items[f]]
  BY DEF ReorderQueued, Reordered
<1>3. to \in 0..NoOrder
  <2>1. VisibleQueue \in SUBSET Entries  BY DEF VisibleQueue
  <2>2. Cardinality(VisibleQueue) \in 0..Cardinality(Entries)  BY <2>1, Counted
  <2>3. Cardinality(Entries) \in Nat  BY SchedulerAssumption, FS_CardinalityType
  <2> QED  BY <1>1, <2>2, <2>3 DEF NoOrder
<1>4. \A f \in others : p(f) \in 0..NoOrder
  <2> SUFFICES ASSUME NEW f \in others  PROVE p(f) \in 0..NoOrder
    OBVIOUS
  <2> DEFINE S == {g \in others \ {f} : Before(g, f)}
  <2>1. f \in Entries /\ S \in SUBSET Entries /\ f \notin S  BY DEF VisibleQueue
  <2> HIDE DEF S
  <2>2. Cardinality(S) \in 0..Cardinality(Entries) /\ Cardinality(S) + 1 \in 0..Cardinality(Entries)
    BY <2>1, Counted, CountedLess
  <2>3. place(f) = Cardinality(S)  BY DEF S
  <2> HIDE DEF place
  <2> QED  BY <2>2, <2>3 DEF NoOrder
<1> HIDE DEF others, p
<1>5. ASSUME NEW f \in Entries, NEW o \in 0..NoOrder
      PROVE  [items[f] EXCEPT !.order = o] \in Item
             /\ [items[f] EXCEPT !.order = o].state = items[f].state
  BY <1>1 DEF Item
<1>6. \A f \in Entries : items'[f] \in Item /\ items'[f].state = items[f].state
  BY <1>1, <1>2, <1>3, <1>4, <1>5
<1>7. items' \in [Entries -> Item]  BY <1>2, <1>6
<1> QED  BY <1>6, <1>7 DEF ItemsStep

LEMMA BlockedItems ==
    ASSUME TypeOK, NEW v, items' = BlockStaged(v)
    PROVE  ItemsStep({})
<1> DEFINE blocks(e) == /\ v = "W" /\ OpenQuestion # None
                        /\ items[e].state = "pending"
                        /\ ~(IsAnswer(e) /\ items[e].request = OpenQuestion)
                        /\ items[e].override # OpenQuestion
<1>1. items \in [Entries -> Item] /\ OpenQuestion \in Nobody
  BY DEF TypeOK, OpenQuestion, Question, Nobody
<1>2. items' = [e \in Entries |->
                  IF blocks(e) THEN [items[e] EXCEPT !.direct = FALSE, !.blocked = OpenQuestion]
                  ELSE items[e]]
  BY DEF BlockStaged
<1> HIDE DEF blocks
<1>3. ASSUME NEW f \in Entries, NEW q \in Nobody
      PROVE  [items[f] EXCEPT !.direct = FALSE, !.blocked = q] \in Item
             /\ [items[f] EXCEPT !.direct = FALSE, !.blocked = q].state = items[f].state
  BY <1>1 DEF Item, Nobody
<1>4. \A f \in Entries : items'[f] \in Item /\ items'[f].state = items[f].state
  BY <1>1, <1>2, <1>3
<1>5. items' \in [Entries -> Item]  BY <1>2, <1>4
<1> QED  BY <1>4, <1>5 DEF ItemsStep

\* The messages a delivery may acknowledge.
MayAck == {e \in Entries : saved[e] = "handed" \/ Crashed}

LEMMA ItemsWiden ==
    ASSUME NEW S, ItemsStep(S), S \subseteq MayAck
    PROVE  ItemsStep(MayAck)
BY DEF ItemsStep

LEMMA DeliverItems ==
    ASSUME SessionInv, NEW e \in Entries, Deliver(e)
    PROVE  ItemsStep(MayAck)
<1>1. items \in [Entries -> Item] /\ TypeOK /\ HandedInv  BY DEF SessionInv, TypeOK
<1>2. CASE UNCHANGED items
  BY <1>1, <1>2, ItemsSame, ItemsWiden
<1>3. CASE CheckBusy(e) \/ GateClosed(e) \/ Refuse(e)
  <2>1. UNCHANGED items \/ \E state \in {"pending", "dead-letter"} : IfHeld(e, state)
    BY <1>3 DEF CheckBusy, GateClosed, Refuse
  <2>2. ASSUME NEW state \in {"pending", "dead-letter"}, IfHeld(e, state)
        PROVE  ItemsStep({})
    BY <1>1, <2>2, IfHeldStep DEF ItemStates
  <2> QED  BY <1>2, <2>1, <2>2, ItemsWiden
<1>4. CASE AckPersisted(e) \/ Acknowledge(e)
  <2>1. IfHeld(e, "delivered") /\ e \in MayAck
    BY <1>1, <1>4 DEF AckPersisted, Acknowledge, HandedInv, MayAck
  <2>2. ItemsStep({e})  BY <1>1, <2>1, IfHeldStep DEF ItemStates
  <2> QED  BY <2>1, <2>2, ItemsWiden
<1>5. CASE SettlePersisted(e)
  <2>1. UNCHANGED items \/ \E v \in {"D", letter} : items' = BlockStaged(v)
    BY <1>5 DEF SettlePersisted
  <2>2. ASSUME NEW v, items' = BlockStaged(v)  PROVE ItemsStep({})
    BY <1>1, <2>2, BlockedItems
  <2> QED  BY <1>2, <2>1, <2>2, ItemsWiden
<1>6. CASE ClaimSlot(e) \/ AppendNotice(e) \/ HandOver(e) \/ ReleaseClaim(e) \/ RecordStarted(e)
  BY <1>2, <1>6
  DEF ClaimSlot, AppendNotice, HandOver, ReleaseClaim, RecordStarted, schedulerVars
<1> QED  BY <1>3, <1>4, <1>5, <1>6 DEF Deliver

LEMMA ItemsNext ==
    ASSUME SessionInv, [Next]_vars
    PROVE  ItemsStep(MayAck)
<1>1. items \in [Entries -> Item] /\ TypeOK  BY DEF SessionInv, TypeOK
<1>2. ASSUME ItemsStep({})  PROVE ItemsStep(MayAck)  BY <1>2, ItemsWiden
<1>3. ASSUME UNCHANGED items  PROVE ItemsStep(MayAck)  BY <1>1, <1>2, <1>3, ItemsSame
<1>4. ASSUME NEW e \in Entries, Admit(e)  PROVE ItemsStep(MayAck)
  BY <1>1, <1>2, <1>4, AdmitItems
<1>5. ASSUME NEW e \in Entries, InsertQueued(e)  PROVE ItemsStep(MayAck)
  BY <1>1, <1>2, <1>5, InsertItems
<1>6. ASSUME NEW e \in Entries, NEW to \in 0..Cardinality(Entries), ReorderQueued(e, to)
      PROVE  ItemsStep(MayAck)
  <2>1. to \in Nat  BY SchedulerAssumption, FS_CardinalityType
  <2> QED  BY <1>1, <1>2, <1>6, <2>1, ReorderItems
<1>7. ASSUME NEW e \in Entries, CancelQueued(e) \/ Lease(e) \/ LeaseLapses(e)
      PROVE  ItemsStep(MayAck)
  <2>1. \E state \in {"cancelled", "leased", "pending", "dead-letter"} : SetState(e, state)
    BY <1>7 DEF CancelQueued, Lease, LeaseLapses
  <2>2. ASSUME NEW state \in {"cancelled", "leased", "pending", "dead-letter"}, SetState(e, state)
        PROVE  ItemsStep({})
    BY <1>1, <2>2, IfHeldStep DEF ItemStates
  <2> QED  BY <1>2, <2>1, <2>2
<1>8. ASSUME NEW e \in Entries, Deliver(e)  PROVE ItemsStep(MayAck)  BY <1>8, DeliverItems
<1>9. CASE ReleaseTick \/ Resolve \/ AskQuestion \/ CancelTurn \/ WatchdogStops \/ Dismiss
           \/ CrashAndRecover
  BY <1>3, <1>9
  DEF ReleaseTick, Resolve, AskQuestion, CancelTurn, WatchdogStops, Dismiss, CrashAndRecover,
      schedulerVars
<1>10. ASSUME NEW v \in {"D", "B", "E", "W"}, RunnerEnds(v)  PROVE ItemsStep(MayAck)
  BY <1>3, <1>10 DEF RunnerEnds
<1>11. ASSUME NEW b \in boundaries, Settle(b)  PROVE ItemsStep(MayAck)
  <2>1. CASE CompleteTurn(b)
    <3>1. UNCHANGED items \/ items' = BlockStaged(b.letter)  BY <2>1 DEF CompleteTurn
    <3> QED  BY <1>1, <1>2, <1>3, <3>1, BlockedItems
  <2>2. CASE StopRunner(b) \/ CloseTurn(b) \/ ReadVerdict(b) \/ SettleDismissed(b)
    BY <1>3, <2>2 DEF StopRunner, CloseTurn, ReadVerdict, SettleDismissed, schedulerVars
  <2> QED  BY <1>11, <2>1, <2>2 DEF Settle
<1>12. CASE UNCHANGED vars  BY <1>3, <1>12 DEF vars, schedulerVars
<1> QED
  BY <1>4, <1>5, <1>6, <1>7, <1>8, <1>9, <1>10, <1>11, <1>12 DEF Next

-------------------------------------------------------------------------------
\* Its schedule.

LEMMA OpenQuestionTyped ==
    ASSUME question \in Question
    PROVE  OpenQuestion \in Nobody /\ question.id \in Nobody
BY DEF OpenQuestion, Question, Nobody

LEMMA DeliverSched ==
    ASSUME TypeOK, NEW e \in Entries, Deliver(e)
    PROVE  sched' \in Schedule
<1>1. items \in [Entries -> Item] /\ sched \in Schedule /\ question \in Question
      /\ letter \in Letters \cup {None}
  BY DEF TypeOK
<1>2. CASE CheckBusy(e) \/ GateClosed(e) \/ AckPersisted(e) \/ AppendNotice(e) \/ HandOver(e)
           \/ Refuse(e) \/ Acknowledge(e)
  BY <1>1, <1>2
  DEF CheckBusy, GateClosed, AckPersisted, AppendNotice, HandOver, Refuse, Acknowledge,
      schedulerVars
<1>3. CASE ClaimSlot(e)  BY <1>1, <1>3, ClaimedTyped DEF ClaimSlot
<1>4. CASE SettlePersisted(e)
  <2>1. \/ UNCHANGED sched
        \/ sched' = Assessing
        \/ HasActive /\ \E v \in {"D", letter} : v # None /\ sched' = Completed(v, None)
    BY <1>4 DEF SettlePersisted, IsActiveReplay, Letters
  <2>2. ASSUME HasActive, NEW v \in {"D", letter}, v # None, sched' = Completed(v, None)
        PROVE  sched' \in Schedule
    <3>1. v \in Letters /\ None \in Nobody  BY <1>1, <2>2 DEF Letters, Nobody
    <3> QED  BY <1>1, <2>2, <3>1, CompletedTyped
  <2> QED  BY <1>1, <2>1, <2>2, AssessingTyped
<1>5. CASE ReleaseClaim(e)
  BY <1>1, <1>5, ReleasedTyped DEF ReleaseClaim, IsActiveReplay
<1>6. CASE RecordStarted(e)
  BY <1>1, <1>6, StartedTyped DEF RecordStarted, IsActiveReplay
<1> QED  BY <1>2, <1>3, <1>4, <1>5, <1>6 DEF Deliver

LEMMA SchedNext ==
    ASSUME TypeOK, [Next]_vars
    PROVE  sched' \in Schedule
<1>1. items \in [Entries -> Item] /\ sched \in Schedule /\ question \in Question
      /\ letter \in Letters \cup {None} /\ boundaries \subseteq Boundary
      /\ OpenQuestion \in Nobody /\ question.id \in Nobody
  BY OpenQuestionTyped DEF TypeOK
<1>2. ASSUME NEW e \in Entries, Admit(e)  PROVE sched' \in Schedule
  <2>1. \E p, w \in Nobody : sched' = [sched EXCEPT !.priority = p, !.awaiting = w]
    <3>1. sched.priority \in Nobody /\ sched.awaiting \in Nobody /\ e \in Nobody
      BY <1>1 DEF Schedule, Nobody
    <3>2. \E p \in {e, sched.priority}, w \in {question.id, sched.awaiting} :
             sched' = [sched EXCEPT !.priority = p, !.awaiting = w]
      BY <1>1, <1>2 DEF Admit, Schedule
    <3> QED  BY <1>1, <3>1, <3>2
  <2> QED  BY <1>1, <2>1 DEF Schedule, Nobody
<1>3. ASSUME NEW e \in Entries, CancelQueued(e) \/ InsertQueued(e)  PROVE sched' \in Schedule
  BY <1>1, <1>3, DropTyped, SupersededTyped DEF CancelQueued, InsertQueued
<1>4. ASSUME NEW e \in Entries,
             Lease(e) \/ LeaseLapses(e) \/ \E to \in 0..Cardinality(Entries) : ReorderQueued(e, to)
      PROVE  sched' \in Schedule
  BY <1>1, <1>4 DEF Lease, LeaseLapses, ReorderQueued
<1>5. ASSUME NEW e \in Entries, Deliver(e)  PROVE sched' \in Schedule  BY <1>5, DeliverSched
<1>6. CASE ReleaseTick \/ AskQuestion \/ CancelTurn \/ WatchdogStops \/ Dismiss
  BY <1>1, <1>6 DEF ReleaseTick, AskQuestion, CancelTurn, WatchdogStops, Dismiss, schedulerVars
<1>7. CASE Resolve  BY <1>1, <1>7, IdleTyped DEF Resolve, Letters
<1>8. CASE CrashAndRecover  BY <1>1, <1>8, RecoveredTyped DEF CrashAndRecover
<1>9. ASSUME NEW v \in {"D", "B", "E", "W"}, RunnerEnds(v)  PROVE sched' \in Schedule
  BY <1>1, <1>9 DEF RunnerEnds
<1>10. ASSUME NEW b \in boundaries, Settle(b)  PROVE sched' \in Schedule
  <2>1. CASE StopRunner(b) \/ ReadVerdict(b)
    BY <1>1, <2>1 DEF StopRunner, ReadVerdict, schedulerVars
  <2>2. CASE CloseTurn(b)  BY <1>1, <2>2, AssessingTyped DEF CloseTurn
  <2>3. CASE CompleteTurn(b)
    <3>1. b.letter \in Letters  BY <1>1 DEF Boundary
    <3> QED  BY <1>1, <2>3, <3>1, CompletedTyped DEF CompleteTurn
  <2>4. CASE SettleDismissed(b)
    BY <1>1, <2>4, IdleTyped DEF SettleDismissed, Letters
  <2> QED  BY <1>10, <2>1, <2>2, <2>3, <2>4 DEF Settle
<1>11. CASE UNCHANGED vars  BY <1>1, <1>11 DEF vars, schedulerVars
<1> QED
  BY <1>2, <1>3, <1>4, <1>5, <1>6, <1>7, <1>8, <1>9, <1>10, <1>11 DEF Next

-------------------------------------------------------------------------------
\* What the host and this process hold.

LEMMA BoundaryTyped ==
    ASSUME NEW b \in Boundary
    PROVE  /\ \A step \in {"stopping", "closing", "cancelling", "closed", "decided"} :
                 [b EXCEPT !.step = step] \in Boundary
           /\ Stopping \in Boundary
BY DEF Boundary, Stopping, Letters

LEMMA BoundariesNext ==
    ASSUME TypeOK, [Next]_vars
    PROVE  boundaries' \subseteq Boundary
<1>1. /\ boundaries \subseteq Boundary /\ items \in [Entries -> Item]
      /\ runner \in Nobody /\ question.id \in Nobody /\ question \in Question
  BY OpenQuestionTyped DEF TypeOK, Nobody
<1>2. Stopping \in Boundary  BY DEF Boundary, Stopping, Letters
<1>3. ASSUME UNCHANGED boundaries  PROVE boundaries' \subseteq Boundary  BY <1>1, <1>3
<1>4. ASSUME NEW e \in Entries, InsertQueued(e)  PROVE boundaries' \subseteq Boundary
  BY <1>1, <1>2, <1>4 DEF InsertQueued
<1>5. ASSUME NEW e \in Entries,
             \/ Admit(e) \/ CancelQueued(e) \/ Lease(e) \/ LeaseLapses(e) \/ Deliver(e)
             \/ \E to \in 0..Cardinality(Entries) : ReorderQueued(e, to)
      PROVE  boundaries' \subseteq Boundary
  BY <1>3, <1>5
  DEF Admit, CancelQueued, ReorderQueued, Lease, LeaseLapses, Deliver, CheckBusy, ClaimSlot,
      GateClosed, AckPersisted, SettlePersisted, AppendNotice, HandOver, Refuse, ReleaseClaim,
      Acknowledge, RecordStarted, processVars
<1>6. CASE ReleaseTick \/ Resolve \/ AskQuestion
  BY <1>3, <1>6 DEF ReleaseTick, Resolve, AskQuestion, processVars
<1>7. CASE CancelTurn  BY <1>1, <1>2, <1>7 DEF CancelTurn
<1>8. CASE WatchdogStops
  <2>1. [Stopping EXCEPT !.step = "closed", !.letter = "W"] \in Boundary
    BY DEF Boundary, Stopping, Letters
  <2> QED  BY <1>1, <1>2, <1>8, <2>1 DEF WatchdogStops
<1>9. CASE Dismiss
  <2>1. [Stopping EXCEPT !.step = "closed", !.letter = "D", !.dismissed = question.id] \in Boundary
    BY <1>1 DEF Boundary, Stopping, Letters, Nobody
  <2> QED  BY <1>1, <1>9, <2>1 DEF Dismiss
<1>10. CASE CrashAndRecover  BY <1>10 DEF CrashAndRecover
<1>11. ASSUME NEW v \in {"D", "B", "E", "W"}, RunnerEnds(v)  PROVE boundaries' \subseteq Boundary
  <2>1. v \in Letters /\ runner \in Entries  BY <1>1, <1>11 DEF RunnerEnds, Letters, Nobody
  <2>2. items[runner].task \in Tasks \cup {None}  BY <1>1, <2>1 DEF Item
  <2>3. [Stopping EXCEPT !.step = "closing", !.letter = v, !.task = items[runner].task] \in Boundary
    BY <2>1, <2>2 DEF Boundary, Stopping
  <2> QED  BY <1>1, <1>11, <2>3 DEF RunnerEnds
<1>12. ASSUME NEW b \in boundaries, Settle(b)  PROVE boundaries' \subseteq Boundary
  <2>1. b \in Boundary  BY <1>1
  <2>2. \/ Drop(b)
        \/ \E step \in {"stopping", "closing", "cancelling", "closed", "decided"} : Move(b, step)
    BY <1>12 DEF Settle, StopRunner, CloseTurn, ReadVerdict, CompleteTurn, SettleDismissed
  <2> QED  BY <1>1, <2>1, <2>2, BoundaryTyped DEF Drop, Move
<1>13. CASE UNCHANGED vars  BY <1>3, <1>13 DEF vars, processVars
<1> QED
  BY <1>4, <1>5, <1>6, <1>7, <1>8, <1>9, <1>10, <1>11, <1>12, <1>13 DEF Next

\* The verdict, the question and the projection.
HostTyped ==
    /\ letter' \in Letters \cup {None}
    /\ question' \in Question
    /\ shown' \in Shown

LEMMA HostNext ==
    ASSUME TypeOK, [Next]_vars
    PROVE  HostTyped
<1>1. /\ letter \in Letters \cup {None} /\ question \in Question /\ shown \in Shown
      /\ boundaries \subseteq Boundary /\ runner \in Nobody
      /\ {"P", "D", "W", "E", "B"} \subseteq Letters
      /\ {"idle", "queued", "running", "assessing"} \subseteq Shown
      /\ \A state : Projected(state) \in Shown
  BY DEF TypeOK, Nobody, Letters, Shown, Projected
<1>2. NoQuestion \in Question
  <2>1. Cardinality(Entries) \in Nat  BY SchedulerAssumption, FS_CardinalityType
  <2> QED  BY <2>1 DEF NoQuestion, Question
<1>3. [question EXCEPT !.open = FALSE] \in Question  BY <1>1 DEF Question
<1>4. ASSUME NEW e \in Entries, Admit(e)  PROVE HostTyped
  BY <1>1, <1>3, <1>4 DEF Admit, HostTyped
<1>5. ASSUME NEW e \in Entries,
             \/ CancelQueued(e) \/ InsertQueued(e) \/ Lease(e) \/ LeaseLapses(e)
             \/ \E to \in 0..Cardinality(Entries) : ReorderQueued(e, to)
      PROVE  HostTyped
  BY <1>1, <1>5
  DEF CancelQueued, InsertQueued, ReorderQueued, Lease, LeaseLapses, HostTyped
<1>6. ASSUME NEW e \in Entries, Deliver(e)  PROVE HostTyped
  <2>1. CASE HandOver(e) \/ Refuse(e)
    <3>1. BeginTurn(e) \/ UNCHANGED <<letter, question>>
      BY <2>1 DEF HandOver, Refuse
    <3>2. UNCHANGED shown  BY <2>1 DEF HandOver, Refuse
    <3> QED  BY <1>1, <1>2, <3>1, <3>2 DEF BeginTurn, HostTyped
  <2>2. CASE CheckBusy(e) \/ ClaimSlot(e) \/ GateClosed(e) \/ AckPersisted(e) \/ AppendNotice(e)
             \/ SettlePersisted(e) \/ ReleaseClaim(e) \/ Acknowledge(e) \/ RecordStarted(e)
    BY <1>1, <2>2
    DEF CheckBusy, ClaimSlot, GateClosed, AckPersisted, AppendNotice, SettlePersisted,
        ReleaseClaim, Acknowledge, RecordStarted, HostTyped, schedulerVars
  <2> QED  BY <1>6, <2>1, <2>2 DEF Deliver
<1>7. CASE AskQuestion
  <2>1. Admitted \in 0..Cardinality(Entries)
    <3> DEFINE S == {e \in Entries : items[e].state # "absent"}
    <3>1. S \in SUBSET Entries  OBVIOUS
    <3> HIDE DEF S
    <3>2. Cardinality(S) \in 0..Cardinality(Entries)  BY <3>1, Counted
    <3> QED  BY <3>2 DEF Admitted, S
  <2> QED  BY <1>1, <1>7, <2>1 DEF AskQuestion, HostTyped, Question, Nobody
<1>8. CASE ReleaseTick \/ Resolve \/ CancelTurn \/ WatchdogStops \/ Dismiss
  BY <1>1, <1>3, <1>8
  DEF ReleaseTick, Resolve, CancelTurn, WatchdogStops, Dismiss, HostTyped, schedulerVars
<1>9. CASE CrashAndRecover  BY <1>1, <1>9 DEF CrashAndRecover, HostTyped
<1>10. ASSUME NEW v \in {"D", "B", "E", "W"}, RunnerEnds(v)  PROVE HostTyped
  BY <1>1, <1>10 DEF RunnerEnds, HostTyped
<1>11. ASSUME NEW b \in boundaries, Settle(b)  PROVE HostTyped
  BY <1>1, <1>11
  DEF Settle, StopRunner, CloseTurn, ReadVerdict, CompleteTurn, SettleDismissed, HostTyped,
      schedulerVars
<1>12. CASE UNCHANGED vars  BY <1>1, <1>12 DEF vars, schedulerVars, HostTyped
<1> QED
  BY <1>4, <1>5, <1>6, <1>7, <1>8, <1>9, <1>10, <1>11, <1>12 DEF Next

\* No disturbance is given back, and only a restart counts as one.
LeftStep ==
    /\ left' \in [Disturbances -> Nat]
    /\ left'["crash"] <= left["crash"]

LEMMA SpendStep ==
    ASSUME TypeOK, NEW kind \in Disturbances, Spend(kind)
    PROVE  LeftStep /\ left'[kind] < left[kind]
<1>1. "crash" \in Disturbances /\ left \in [Disturbances -> Nat]
  BY DEF Disturbances, TypeOK
<1>2. left[kind] > 0 /\ left' = [left EXCEPT ![kind] = left[kind] - 1]  BY DEF Spend
<1> QED  BY <1>1, <1>2 DEF LeftStep

\* A step spends at most one disturbance.
LEMMA LeftSpend ==
    ASSUME TypeOK, [Next]_vars
    PROVE  UNCHANGED left \/ \E kind \in Disturbances : Spend(kind)
<1>1. ASSUME NEW e \in Entries, CancelQueued(e) \/ InsertQueued(e) \/ LeaseLapses(e)
             \/ \E to \in 0..Cardinality(Entries) : ReorderQueued(e, to)
      PROVE  UNCHANGED left \/ \E kind \in Disturbances : Spend(kind)
  BY <1>1 DEF CancelQueued, InsertQueued, LeaseLapses, ReorderQueued, Disturbances
<1>2. ASSUME NEW e \in Entries, Refuse(e)
      PROVE  UNCHANGED left \/ \E kind \in Disturbances : Spend(kind)
  BY <1>2 DEF Refuse, Disturbances
<1>3. ASSUME NEW e \in Entries, Admit(e) \/ Lease(e) \/ (Deliver(e) /\ ~Refuse(e))
      PROVE  UNCHANGED left
  BY <1>3
  DEF Admit, Lease, Deliver, CheckBusy, ClaimSlot, GateClosed, AckPersisted, SettlePersisted,
      AppendNotice, HandOver, ReleaseClaim, Acknowledge, RecordStarted
<1>4. CASE ReleaseTick \/ Resolve \/ AskQuestion \/ CancelTurn \/ Dismiss \/ CrashAndRecover
  BY <1>4 DEF ReleaseTick, Resolve, AskQuestion, CancelTurn, Dismiss, CrashAndRecover,
              Disturbances
<1>5. ASSUME WatchdogStops \/ (\E v \in {"D", "B", "E", "W"} : RunnerEnds(v))
             \/ (\E b \in boundaries : Settle(b))
      PROVE  UNCHANGED left
  BY <1>5
  DEF WatchdogStops, RunnerEnds, Settle, StopRunner, CloseTurn, ReadVerdict, CompleteTurn,
      SettleDismissed
<1>6. CASE UNCHANGED vars  BY <1>6 DEF vars
<1> QED  BY <1>1, <1>2, <1>3, <1>4, <1>5, <1>6 DEF Next

LEMMA LeftNext ==
    ASSUME TypeOK, [Next]_vars
    PROVE  LeftStep
<1>1. left \in [Disturbances -> Nat] /\ "crash" \in Disturbances  BY DEF TypeOK, Disturbances
<1>2. CASE UNCHANGED left  BY <1>1, <1>2 DEF LeftStep
<1> QED  BY <1>2, LeftSpend, SpendStep

LEMMA CrashedNext ==
    ASSUME SessionInv, LeftStep
    PROVE  /\ Crashed => Crashed'
           /\ left'["crash"] <= Budget["crash"]
           /\ left'["crash"] < left["crash"] => Crashed'
<1>1. "crash" \in Disturbances  BY DEF Disturbances
<1>2. left["crash"] \in Nat /\ left'["crash"] \in Nat /\ Budget["crash"] \in Nat
  BY <1>1, DeliveryAssumption DEF SessionInv, TypeOK, LeftStep
<1> QED  BY <1>2 DEF SessionInv, LeftStep, Crashed

-------------------------------------------------------------------------------
\* The history and the turns.

ProcessTyped ==
    /\ pc' \in [Entries -> Phases]
    /\ tick' \in Nobody
    /\ saved' \in [Entries -> Saved]
    /\ runner' \in Nobody
    /\ ended' \in BOOLEAN
    /\ runs' \in [Entries -> Nat]

\* What HandedInv says of the message e.
Handed(e) ==
    /\ runs[e] <= 1
    /\ saved[e] \in {"no", "refused"} => runs[e] = 0
    /\ saved[e] = "handed" /\ StartsTurn(e) => runs[e] = 1
    /\ saved[e] = "unknown" => Crashed
    /\ pc[e] \in {"accepted", "acked"} => saved[e] = "handed"

HistoryStep == ProcessTyped /\ \A f \in Entries : Handed(f)'

LEMMA TypedFacts ==
    ASSUME SessionInv
    PROVE  /\ pc \in [Entries -> Phases] /\ tick \in Nobody /\ saved \in [Entries -> Saved]
           /\ runner \in Nobody /\ ended \in BOOLEAN /\ runs \in [Entries -> Nat]
           /\ \A f \in Entries : Handed(f)
BY DEF SessionInv, HandedInv, Handed, TypeOK, Nobody, Saved

LEMMA PhaseStep ==
    ASSUME pc \in [Entries -> Phases], tick \in Nobody, NEW e \in Entries,
           NEW phase \in Phases, Goto(e, phase) \/ (phase = "idle" /\ Finish(e))
    PROVE  /\ pc' \in [Entries -> Phases] /\ tick' \in Nobody
           /\ pc'[e] = phase /\ \A f \in Entries \ {e} : pc'[f] = pc[f]
BY DEF Goto, Finish, Nobody

\* A step of a delivery that is neither the hand-over nor after it.
LEMMA QuietHistory ==
    ASSUME SessionInv, Crashed => Crashed', UNCHANGED <<saved, runs>>,
           pc' \in [Entries -> Phases], tick' \in Nobody, runner' \in Nobody, ended' \in BOOLEAN,
           \A f \in Entries : pc'[f] \in {"accepted", "acked"} => pc[f] \in {"accepted", "acked"}
    PROVE  HistoryStep
<1>1. ProcessTyped  BY TypedFacts DEF ProcessTyped
<1>2. \A f \in Entries : Handed(f)'  BY TypedFacts DEF Handed, StartsTurn
<1> QED  BY <1>1, <1>2 DEF HistoryStep

LEMMA GoneOn ==
    ASSUME SessionInv, Crashed => Crashed', UNCHANGED <<saved, runs>>,
           NEW e \in Entries, NEW phase \in Phases,
           Goto(e, phase) \/ (phase = "idle" /\ Finish(e)),
           phase \in {"accepted", "acked"} => pc[e] \in {"accepted", "acked"},
           runner' \in Nobody, ended' \in BOOLEAN
    PROVE  HistoryStep
<1>1. /\ pc' \in [Entries -> Phases] /\ tick' \in Nobody
      /\ pc'[e] = phase /\ \A f \in Entries \ {e} : pc'[f] = pc[f]
  BY TypedFacts, PhaseStep
<1> QED  BY <1>1, QuietHistory

LEMMA HandOverHistory ==
    ASSUME SessionInv, Crashed => Crashed', NEW e \in Entries, HandOver(e)
    PROVE  HistoryStep
<1>1. /\ saved[e] \in {"no", "refused"} /\ saved' = [saved EXCEPT ![e] = "handed"]
      /\ runner' = e /\ runs' = [runs EXCEPT ![e] = @ + 1] /\ Goto(e, "accepted")
      /\ UNCHANGED ended
  BY DEF HandOver, CanHandOver
<1>2. /\ pc' \in [Entries -> Phases] /\ tick' \in Nobody
      /\ pc'[e] = "accepted" /\ \A f \in Entries \ {e} : pc'[f] = pc[f]
  BY <1>1, TypedFacts, PhaseStep DEF Phases
<1>3. /\ saved' \in [Entries -> Saved] /\ saved'[e] = "handed"
      /\ \A f \in Entries \ {e} : saved'[f] = saved[f]
  BY <1>1, TypedFacts DEF Saved
<1>4. runs[e] = 0  BY <1>1, TypedFacts DEF Handed
<1>5. /\ runs' \in [Entries -> Nat] /\ runs'[e] = 1
      /\ \A f \in Entries \ {e} : runs'[f] = runs[f]
  BY <1>1, <1>4, TypedFacts
<1>6. ProcessTyped  BY <1>1, <1>2, <1>3, <1>5, TypedFacts DEF ProcessTyped, Nobody
<1>7. Handed(e)'  BY <1>3, <1>5 DEF Handed
<1>8. \A f \in Entries \ {e} : Handed(f)'
  BY <1>2, <1>3, <1>5, TypedFacts DEF Handed, StartsTurn
<1> QED  BY <1>6, <1>7, <1>8 DEF HistoryStep

LEMMA AppendHistory ==
    ASSUME SessionInv, Crashed => Crashed', NEW e \in Entries, AppendNotice(e)
    PROVE  HistoryStep
<1>1. /\ saved[e] = "no" /\ ~StartsTurn(e) /\ saved' = [saved EXCEPT ![e] = "handed"]
      /\ Goto(e, "accepted") /\ UNCHANGED <<runner, ended, runs>>
  BY DEF AppendNotice
<1>2. /\ pc' \in [Entries -> Phases] /\ tick' \in Nobody
      /\ pc'[e] = "accepted" /\ \A f \in Entries \ {e} : pc'[f] = pc[f]
  BY <1>1, TypedFacts, PhaseStep DEF Phases
<1>3. /\ saved' \in [Entries -> Saved] /\ saved'[e] = "handed"
      /\ \A f \in Entries \ {e} : saved'[f] = saved[f]
  BY <1>1, TypedFacts DEF Saved
<1>4. ProcessTyped  BY <1>1, <1>2, <1>3, TypedFacts DEF ProcessTyped
<1>5. Handed(e)'  BY <1>1, <1>3, TypedFacts DEF Handed, StartsTurn
<1>6. \A f \in Entries \ {e} : Handed(f)'
  BY <1>1, <1>2, <1>3, TypedFacts DEF Handed, StartsTurn
<1> QED  BY <1>4, <1>5, <1>6 DEF HistoryStep

LEMMA RefuseHistory ==
    ASSUME SessionInv, Crashed => Crashed', NEW e \in Entries, Refuse(e)
    PROVE  HistoryStep
<1>1. /\ saved[e] \in {"no", "refused"}
      /\ saved' = saved \/ saved' = [saved EXCEPT ![e] = "refused"]
      /\ Goto(e, "refused") /\ UNCHANGED <<runner, ended, runs>>
  BY DEF Refuse, CanHandOver
<1>2. /\ pc' \in [Entries -> Phases] /\ tick' \in Nobody
      /\ pc'[e] = "refused" /\ \A f \in Entries \ {e} : pc'[f] = pc[f]
  BY <1>1, TypedFacts, PhaseStep DEF Phases
<1>3. /\ saved' \in [Entries -> Saved] /\ saved'[e] \in {"no", "refused"}
      /\ \A f \in Entries \ {e} : saved'[f] = saved[f]
  BY <1>1, TypedFacts DEF Saved
<1>4. ProcessTyped  BY <1>1, <1>2, <1>3, TypedFacts DEF ProcessTyped
<1>5. Handed(e)'  BY <1>1, <1>2, <1>3, TypedFacts DEF Handed, StartsTurn
<1>6. \A f \in Entries \ {e} : Handed(f)'
  BY <1>1, <1>2, <1>3, TypedFacts DEF Handed, StartsTurn
<1> QED  BY <1>4, <1>5, <1>6 DEF HistoryStep

\* The next process keeps the history and forgets what it knew of the turns.
LEMMA CrashHistory ==
    ASSUME SessionInv, Crashed', CrashAndRecover
    PROVE  HistoryStep
<1>1. /\ pc' = [f \in Entries |-> "idle"] /\ tick' = None /\ runner' = None
      /\ UNCHANGED <<ended, runs>>
  BY DEF CrashAndRecover
<1>2. PICK lost \in SUBSET Entries :
        saved' = [f \in Entries |-> IF saved[f] # "no" \/ f \in lost THEN "unknown" ELSE "no"]
  BY DEF CrashAndRecover
<1>3. saved' \in [Entries -> Saved]  BY <1>2 DEF Saved
<1>4. pc' \in [Entries -> Phases]  BY <1>1 DEF Phases
<1>5. ProcessTyped  BY <1>1, <1>3, <1>4, TypedFacts DEF ProcessTyped, Nobody
<1>6. \A f \in Entries : /\ saved'[f] \in {"unknown", "no"} /\ pc'[f] = "idle"
                         /\ saved'[f] = "no" => saved[f] = "no"
  BY <1>1, <1>2
<1>7. \A f \in Entries : Handed(f)'
  BY <1>1, <1>6, TypedFacts DEF Handed
<1> QED  BY <1>5, <1>7 DEF HistoryStep


LEMMA DeliverHistory ==
    ASSUME SessionInv, Crashed => Crashed', NEW e \in Entries, Deliver(e)
    PROVE  HistoryStep
<1>1. runner \in Nobody /\ ended \in BOOLEAN  BY TypedFacts
<1>2. ASSUME UNCHANGED <<saved, runs, runner>>, ended' \in BOOLEAN, NEW phase \in Phases,
             Goto(e, phase) \/ (phase = "idle" /\ Finish(e)),
             phase \in {"accepted", "acked"} => pc[e] \in {"accepted", "acked"}
      PROVE  HistoryStep
  BY <1>1, <1>2, GoneOn
<1>3. CASE HandOver(e) \/ AppendNotice(e) \/ Refuse(e)
  BY <1>3, HandOverHistory, AppendHistory, RefuseHistory
<1>4. CASE CheckBusy(e) \/ GateClosed(e) \/ SettlePersisted(e) \/ ReleaseClaim(e)
  <2>1. UNCHANGED <<saved, runs, runner, ended>> /\ (Finish(e) \/ Goto(e, "checked"))
    BY <1>4 DEF CheckBusy, GateClosed, SettlePersisted, ReleaseClaim
  <2> QED  BY <1>1, <1>2, <2>1 DEF Phases
<1>5. CASE ClaimSlot(e)
  <2>1. UNCHANGED <<saved, runs, runner>> /\ Goto(e, "claimed") /\ ended' = (HasActive /\ ended)
    BY <1>5 DEF ClaimSlot
  <2>2. ended' \in BOOLEAN  BY <2>1
  <2> QED  BY <1>2, <2>1, <2>2 DEF Phases
<1>6. CASE AckPersisted(e)
  <2>1. UNCHANGED <<saved, runs, runner, ended>> /\ Goto(e, "settling")
    BY <1>6 DEF AckPersisted
  <2> QED  BY <1>1, <1>2, <2>1 DEF Phases
<1>7. CASE Acknowledge(e)
  <2>1. UNCHANGED <<saved, runs, runner, ended>> /\ pc[e] = "accepted"
        /\ (Finish(e) \/ Goto(e, "acked"))
    BY <1>7 DEF Acknowledge
  <2> QED  BY <1>1, <1>2, <2>1 DEF Phases
<1>8. CASE RecordStarted(e)
  <2>1. UNCHANGED <<saved, runs, runner>> /\ Finish(e)
        /\ (ended' = ended \/ ended' = (sched.active.started /\ ended))
    BY <1>8 DEF RecordStarted
  <2>2. ended' \in BOOLEAN
    <3>1. (sched.active.started /\ ended) \in BOOLEAN  OBVIOUS
    <3> QED  BY <1>1, <2>1, <3>1
  <2> QED  BY <1>2, <2>1, <2>2 DEF Phases
<1> QED  BY <1>3, <1>4, <1>5, <1>6, <1>7, <1>8 DEF Deliver

LEMMA HistoryNext ==
    ASSUME SessionInv, [Next]_vars
    PROVE  HistoryStep
<1>1. TypeOK /\ pc \in [Entries -> Phases] /\ tick \in Nobody /\ runner \in Nobody
      /\ ended \in BOOLEAN /\ None \in Nobody
  BY TypedFacts DEF SessionInv, Nobody
<1>2. LeftStep /\ (Crashed => Crashed') /\ (left'["crash"] < left["crash"] => Crashed')
  BY <1>1, LeftNext, CrashedNext
<1>3. ASSUME UNCHANGED <<saved, runs, pc>>, tick' \in Nobody, runner' \in Nobody, ended' \in BOOLEAN
      PROVE  HistoryStep
  BY <1>1, <1>2, <1>3, QuietHistory
<1>4. ASSUME NEW e \in Entries, \/ Admit(e) \/ CancelQueued(e) \/ InsertQueued(e) \/ LeaseLapses(e)
                                \/ \E to \in 0..Cardinality(Entries) : ReorderQueued(e, to)
      PROVE  HistoryStep
  BY <1>1, <1>3, <1>4
  DEF Admit, CancelQueued, InsertQueued, LeaseLapses, ReorderQueued, processVars
<1>5. ASSUME NEW e \in Entries, Lease(e)  PROVE HistoryStep
  <2>1. /\ pc' = [pc EXCEPT ![e] = "taken"] /\ tick' = e
        /\ UNCHANGED <<saved, runs, runner, ended>>
    BY <1>5 DEF Lease
  <2>2. /\ pc' \in [Entries -> Phases] /\ tick' \in Nobody
        /\ \A f \in Entries : pc'[f] \in {"accepted", "acked"} => pc[f] \in {"accepted", "acked"}
    BY <1>1, <2>1 DEF Phases, Nobody
  <2> QED  BY <1>1, <1>2, <2>1, <2>2, QuietHistory
<1>6. ASSUME NEW e \in Entries, Deliver(e)  PROVE HistoryStep  BY <1>2, <1>6, DeliverHistory
<1>7. CASE ReleaseTick \/ Resolve \/ AskQuestion \/ CancelTurn \/ WatchdogStops \/ Dismiss
  <2>1. UNCHANGED <<saved, runs, pc, runner>> /\ tick' \in {tick, None} /\ ended' \in {ended, TRUE}
    BY <1>7 DEF ReleaseTick, Resolve, AskQuestion, CancelTurn, WatchdogStops, Dismiss, processVars
  <2> QED  BY <1>1, <1>3, <2>1
<1>8. CASE CrashAndRecover
  <2>1. "crash" \in Disturbances  BY DEF Disturbances
  <2>2. Crashed'  BY <1>1, <1>2, <1>8, <2>1, SpendStep DEF CrashAndRecover
  <2> QED  BY <1>8, <2>2, CrashHistory
<1>9. ASSUME NEW v \in {"D", "B", "E", "W"}, RunnerEnds(v)  PROVE HistoryStep
  BY <1>1, <1>3, <1>9 DEF RunnerEnds
<1>10. ASSUME NEW b \in boundaries, Settle(b)  PROVE HistoryStep
  BY <1>1, <1>3, <1>10
  DEF Settle, StopRunner, CloseTurn, ReadVerdict, CompleteTurn, SettleDismissed
<1>11. CASE UNCHANGED vars  BY <1>1, <1>3, <1>11 DEF vars, processVars
<1> QED
  BY <1>4, <1>5, <1>6, <1>7, <1>8, <1>9, <1>10, <1>11 DEF Next

\* What was handed over stays so for this process.
LEMMA SavedStays ==
    ASSUME SessionInv, [Next]_vars, NEW e \in Entries, saved[e] = "handed"
    PROVE  saved'[e] = "handed" \/ Crashed'
<1>1. saved \in [Entries -> Saved]  BY TypedFacts
<1>2. CASE UNCHANGED saved  BY <1>2
<1>3. ASSUME NEW f \in Entries, Deliver(f)  PROVE saved'[e] = "handed"
  BY <1>1, <1>3
  DEF Deliver, CheckBusy, ClaimSlot, GateClosed, AckPersisted, SettlePersisted, AppendNotice,
      HandOver, Refuse, ReleaseClaim, Acknowledge, RecordStarted, CanHandOver
<1>4. CASE CrashAndRecover
  <2>1. TypeOK /\ "crash" \in Disturbances  BY DEF SessionInv, Disturbances
  <2>2. LeftStep /\ left'["crash"] < left["crash"]  BY <1>4, <2>1, SpendStep DEF CrashAndRecover
  <2> QED  BY <2>2, CrashedNext
<1>5. ASSUME NEW f \in Entries,
             \/ Admit(f) \/ CancelQueued(f) \/ InsertQueued(f) \/ Lease(f) \/ LeaseLapses(f)
             \/ \E to \in 0..Cardinality(Entries) : ReorderQueued(f, to)
      PROVE  UNCHANGED saved
  BY <1>5
  DEF Admit, CancelQueued, InsertQueued, Lease, LeaseLapses, ReorderQueued, processVars
<1>6. ASSUME \/ ReleaseTick \/ Resolve \/ AskQuestion \/ CancelTurn \/ WatchdogStops \/ Dismiss
             \/ \E v \in {"D", "B", "E", "W"} : RunnerEnds(v)
             \/ \E b \in boundaries : Settle(b)
             \/ UNCHANGED vars
      PROVE  UNCHANGED saved
  BY <1>6
  DEF ReleaseTick, Resolve, AskQuestion, CancelTurn, WatchdogStops, Dismiss, RunnerEnds, Settle,
      StopRunner, CloseTurn, ReadVerdict, CompleteTurn, SettleDismissed, vars, processVars
<1> QED  BY <1>2, <1>3, <1>4, <1>5, <1>6 DEF Next

-------------------------------------------------------------------------------
LEMMA SessionInit == Init => SessionInv
<1> SUFFICES ASSUME Init  PROVE SessionInv
  OBVIOUS
<1>1. /\ items = [e \in Entries |-> NewItem] /\ sched = NewSchedule /\ letter = None
      /\ question = NoQuestion /\ shown = "idle" /\ pc = [e \in Entries |-> "idle"]
      /\ tick = None /\ saved = [e \in Entries |-> "no"] /\ runner = None /\ boundaries = {}
      /\ ended = FALSE /\ runs = [e \in Entries |-> 0] /\ left = Budget
  BY DEF Init, SchedulerInit
<1>2. Cardinality(Entries) \in Nat  BY SchedulerAssumption, FS_CardinalityType
<1>3. NewItem \in Item /\ NewItem.state = "absent"
  BY <1>2 DEF NewItem, Item, ItemStates, Kinds, NoOrder
<1>4. NewSchedule \in Schedule  BY DEF NewSchedule, Schedule, SlotStates
<1>5. NoQuestion \in Question  BY <1>2 DEF NoQuestion, Question
<1>6. items \in [Entries -> Item] /\ \A e \in Entries : items[e].state = "absent"
  BY <1>1, <1>3
<1>7. /\ pc \in [Entries -> Phases] /\ saved \in [Entries -> Saved] /\ runs \in [Entries -> Nat]
      /\ \A e \in Entries : pc[e] = "idle" /\ saved[e] = "no" /\ runs[e] = 0
  BY <1>1 DEF Phases, Saved
<1>8. left \in [Disturbances -> Nat] /\ left["crash"] <= Budget["crash"]
  <2>1. "crash" \in Disturbances  BY DEF Disturbances
  <2> QED  BY <1>1, <2>1, DeliveryAssumption
<1>9. TypeOK
  BY <1>1, <1>4, <1>5, <1>6, <1>7, <1>8 DEF TypeOK, Saved
<1>10. HandedInv  BY <1>6, <1>7 DEF HandedInv
<1> QED  BY <1>8, <1>9, <1>10 DEF SessionInv

LEMMA SessionNext == SessionInv /\ [Next]_vars => SessionInv'
<1> SUFFICES ASSUME SessionInv, [Next]_vars  PROVE SessionInv'
  OBVIOUS
<1>1. TypeOK  BY DEF SessionInv
<1>2. ItemsStep(MayAck)  BY ItemsNext
<1>3. sched' \in Schedule /\ HostTyped /\ boundaries' \subseteq Boundary /\ LeftStep
  BY <1>1, SchedNext, HostNext, BoundariesNext, LeftNext
<1>4. HistoryStep  BY HistoryNext
<1>5. (Crashed => Crashed') /\ left'["crash"] <= Budget["crash"]  BY <1>3, CrashedNext
<1>6. TypeOK'
  BY <1>2, <1>3, <1>4
  DEF TypeOK, ItemsStep, HostTyped, LeftStep, HistoryStep, ProcessTyped, Saved, Nobody, Shown
<1>7. HandedInv'
  <2> SUFFICES ASSUME NEW e \in Entries, items'[e].state = "delivered"
               PROVE  saved'[e] = "handed" \/ Crashed'
    BY <1>4 DEF HistoryStep, Handed, HandedInv
  <2>1. saved[e] = "handed" \/ Crashed
    BY <1>2 DEF ItemsStep, MayAck, SessionInv, HandedInv
  <2>2. saved[e] = "handed" => saved'[e] = "handed" \/ Crashed'
    BY SavedStays
  <2> QED  BY <1>5, <2>1, <2>2
<1> QED  BY <1>5, <1>6, <1>7 DEF SessionInv

LEMMA SessionSafe == Spec => []SessionInv
BY SessionInit, SessionNext, PTL DEF Spec

\* Every variable of a session keeps its type.
THEOREM SessionTyped == Spec => []TypeOK
<1>1. SessionInv => TypeOK  BY DEF SessionInv
<1> QED  BY <1>1, SessionSafe, PTL

\* However often its delivery is repeated, by a lapsed lease, a refusal or a
\* restart, a message starts at most one native turn.
THEOREM SessionAtMostOnce == Spec => []AtMostOnce
<1>1. SessionInv => AtMostOnce  BY DEF SessionInv, HandedInv, AtMostOnce
<1> QED  BY <1>1, SessionSafe, PTL

\* In a process that did not restart, a message counted as delivered was handed
\* to a runner, exactly once.
THEOREM SessionDeliveredWasRun == Spec => []DeliveredWasRun
<1>1. SessionInv => DeliveredWasRun  BY DEF SessionInv, HandedInv, DeliveredWasRun
<1> QED  BY <1>1, SessionSafe, PTL

-------------------------------------------------------------------------------
\* What a mutation leaves in the slot.

\* The slot is taken or free as its state says.
Shaped(s) == s.state = "idle" <=> s.active = NoActive

LEMMA RealActive ==
    ASSUME NEW a \in Active
    PROVE  a # NoActive
<1>1. a.entry \in Entries /\ NoActive.entry = None  BY DEF Active, NoActive
<1> QED  BY <1>1, SchedulerAssumption

LEMMA IdleIs ==
    ASSUME NEW s \in Schedule, NEW l
    PROVE  /\ Idle(s, l).state = "idle" /\ Idle(s, l).active = NoActive
           /\ Idle(s, l).priority = s.priority /\ Idle(s, l).letter = l
           /\ Idle(s, l).reason = None
BY DEF Idle, Schedule

LEMMA DropIs ==
    ASSUME NEW s \in Schedule, NEW e
    PROVE  /\ DropPriority(s, e).state = s.state /\ DropPriority(s, e).active = s.active
           /\ DropPriority(s, e).letter = s.letter /\ DropPriority(s, e).reason = s.reason
           /\ DropPriority(s, e).priority = IF s.priority = e THEN None ELSE s.priority
BY DEF DropPriority, Schedule

LEMMA ClaimedIs ==
    ASSUME sched \in Schedule, items \in [Entries -> Item], NEW e \in Entries
    PROVE  /\ Claimed(e).state = "starting" /\ Claimed(e).reason = None
           /\ Claimed(e).active # NoActive
           /\ Claimed(e).active.delivery = e
           /\ Claimed(e).active.entry = IF HasActive THEN sched.active.entry ELSE e
           /\ Claimed(e).active.started = IF HasActive THEN sched.active.started ELSE FALSE
           /\ Claimed(e).letter = sched.letter
           /\ Claimed(e).priority = IF ~HasActive /\ sched.priority = e THEN None
                                    ELSE sched.priority
<1> DEFINE a == Claimed(e).active
           s == IF HasActive THEN sched ELSE DropPriority(sched, e)
<1>1. Claimed(e) \in Schedule  BY ClaimedTyped
<1>2. s \in Schedule /\ s.letter = sched.letter
      /\ s.priority = IF ~HasActive /\ sched.priority = e THEN None ELSE sched.priority
  BY DropTyped, DropIs
<1>3. /\ Claimed(e).state = "starting" /\ Claimed(e).reason = None
      /\ Claimed(e).letter = s.letter /\ Claimed(e).priority = s.priority
  BY <1>2 DEF Claimed, Schedule
<1>4. CASE HasActive
  <2>1. sched.active \in Active  BY <1>4, ActiveTyped
  <2>2. a = [sched.active EXCEPT !.delivery = e,
                !.task = IF sched.active.task = None THEN items[e].task ELSE sched.active.task]
    BY <1>4, <2>1 DEF Claimed, Schedule, Active
  <2>3. a.delivery = e /\ a.entry = sched.active.entry /\ a.started = sched.active.started
    BY <2>1, <2>2 DEF Active
  <2>4. a.entry \in Entries  BY <2>1, <2>3 DEF Active
  <2>5. a # NoActive  BY <2>4, SchedulerAssumption DEF NoActive
  <2> QED  BY <1>2, <1>3, <1>4, <2>3, <2>5
<1>5. CASE ~HasActive
  <2>1. a = [entry |-> e, delivery |-> e, task |-> items[e].task, started |-> FALSE,
             superseded |-> None]
    BY <1>2, <1>5 DEF Claimed, Schedule
  <2>2. a.delivery = e /\ a.entry = e /\ a.started = FALSE  BY <2>1
  <2>3. a # NoActive  BY <2>2, SchedulerAssumption DEF NoActive
  <2> QED  BY <1>2, <1>3, <1>5, <2>2, <2>3
<1> QED  BY <1>4, <1>5

LEMMA StartedIs ==
    ASSUME sched \in Schedule, HasActive
    PROVE  /\ Started.state = "running" /\ Started.reason = None
           /\ Started.active # NoActive
           /\ Started.active.delivery = sched.active.delivery
           /\ Started.active.entry = sched.active.entry
           /\ Started.active.task = sched.active.task
           /\ Started.priority = sched.priority
<1>1. sched.active \in Active  BY ActiveTyped
<1>2. Started.state = "running" /\ Started.reason = None /\ Started.priority = sched.priority
      /\ Started.active = [sched.active EXCEPT !.started = TRUE]
  BY DEF Started, Schedule
<1>3. /\ Started.active.delivery = sched.active.delivery
      /\ Started.active.entry = sched.active.entry /\ Started.active.entry \in Entries
      /\ Started.active.task = sched.active.task
  BY <1>1, <1>2 DEF Active
<1> QED  BY <1>2, <1>3, SchedulerAssumption DEF NoActive

LEMMA ReleasedIs ==
    ASSUME sched \in Schedule, HasActive, NEW e \in Entries
    PROVE  /\ Released(e).state \in {"idle", "frozen"} /\ Shaped(Released(e))
           /\ \/ Released(e).active = NoActive
              \/ /\ sched.active.entry # e \/ sched.active.started
                 /\ Released(e).active.entry = sched.active.entry
                 /\ Released(e).active.delivery = sched.active.entry
                 /\ Released(e).active.started = sched.active.started
<1> DEFINE l == IF sched.letter = None THEN "D" ELSE sched.letter
<1>1. l \in Letters \cup {None}  BY DEF Letters, Schedule
<1>2. CASE sched.active.entry = e /\ ~sched.active.started
  <2>1. Released(e) = DropPriority(Idle(sched, l), e)  BY <1>2 DEF Released
  <2> HIDE DEF l
  <2>2. Idle(sched, l) \in Schedule  BY <1>1, IdleTyped
  <2> QED  BY <1>1, <2>1, <2>2, IdleIs, DropIs DEF Shaped
<1>3. CASE ~(sched.active.entry = e /\ ~sched.active.started)
  <2>1. sched.active \in Active  BY ActiveTyped
  <2>2. /\ Released(e).state = "frozen" /\ Released(e).reason = "other"
        /\ Released(e).active = [sched.active EXCEPT !.delivery = sched.active.entry]
    BY <1>3 DEF Released, Schedule
  <2>3. /\ Released(e).active.entry \in Entries
        /\ Released(e).active.entry = sched.active.entry
        /\ Released(e).active.delivery = sched.active.entry
        /\ Released(e).active.started = sched.active.started
    BY <2>1, <2>2 DEF Active
  <2> QED  BY <1>3, <2>2, <2>3, SchedulerAssumption DEF NoActive, Shaped
<1> QED  BY <1>2, <1>3

LEMMA AssessingIs ==
    ASSUME sched \in Schedule
    PROVE  /\ Assessing.state = "assessing" /\ Assessing.active = sched.active
           /\ Assessing.priority = sched.priority /\ Assessing.reason = None
BY DEF Assessing, Schedule

LEMMA CompletedIs ==
    ASSUME sched \in Schedule, HasActive, NEW v \in Letters, NEW w \in Nobody
    PROVE  /\ Completed(v, w).state = "idle" /\ Completed(v, w).active = NoActive
           /\ Completed(v, w).letter = v /\ Completed(v, w).reason = None
           /\ Completed(v, w).priority = IF sched.priority = sched.active.entry THEN None
                                         ELSE sched.priority
<1> DEFINE s == DropPriority(Idle(sched, v), sched.active.entry)
<1>1. sched.active.entry \in Entries  BY ActiveTyped DEF Active
<1>2. Idle(sched, v) \in Schedule  BY IdleTyped
<1>3. s \in Schedule  BY <1>1, <1>2, DropTyped
<1>4. /\ s.state = "idle" /\ s.active = NoActive /\ s.letter = v /\ s.reason = None
      /\ s.priority = IF sched.priority = sched.active.entry THEN None ELSE sched.priority
  BY <1>2, IdleIs, DropIs
<1> HIDE DEF s
<1>5. Completed(v, w) = [s EXCEPT !.awaiting = IF v # "D" THEN w ELSE None]
  BY DEF Completed, s
<1> QED  BY <1>3, <1>4, <1>5 DEF Schedule

LEMMA SupersededIs ==
    ASSUME sched \in Schedule, NEW e \in Entries
    PROVE  /\ SupersededBy(e).state = sched.state /\ SupersededBy(e).priority = e
           /\ SupersededBy(e).letter = sched.letter /\ SupersededBy(e).reason = sched.reason
           /\ HasActive <=> SupersededBy(e).active # NoActive
           /\ HasActive => /\ SupersededBy(e).active.delivery = sched.active.delivery
                           /\ SupersededBy(e).active.entry = sched.active.entry
                           /\ SupersededBy(e).active.task = sched.active.task
                           /\ SupersededBy(e).active.started = sched.active.started
<1> DEFINE a == SupersededBy(e).active
<1>1. /\ SupersededBy(e).state = sched.state /\ SupersededBy(e).priority = e
      /\ SupersededBy(e).letter = sched.letter /\ SupersededBy(e).reason = sched.reason
      /\ a = IF HasActive THEN [sched.active EXCEPT !.superseded = e] ELSE sched.active
  BY DEF SupersededBy, Schedule
<1>2. CASE HasActive
  <2>1. sched.active \in Active  BY <1>2, ActiveTyped
  <2>2. /\ a.delivery = sched.active.delivery /\ a.entry = sched.active.entry
        /\ a.task = sched.active.task /\ a.started = sched.active.started /\ a.entry \in Entries
    BY <1>1, <1>2, <2>1 DEF Active
  <2>3. a # NoActive  BY <2>2, SchedulerAssumption DEF NoActive
  <2> QED  BY <1>1, <1>2, <2>2, <2>3
<1>3. CASE ~HasActive  BY <1>1, <1>3 DEF HasActive
<1> QED  BY <1>2, <1>3

-------------------------------------------------------------------------------
\* What a step may do to the slot.

\* The same occupant, in the same state.
SameSlot ==
    /\ sched'.state = sched.state /\ sched'.reason = sched.reason
    /\ HasActive <=> sched'.active # NoActive
    /\ HasActive => /\ sched'.active.delivery = sched.active.delivery
                    /\ sched'.active.entry = sched.active.entry
                    /\ sched'.active.task = sched.active.task
                    /\ sched'.active.started = sched.active.started

FreedSlot == sched'.state = "idle" /\ sched'.active = NoActive

SlotMove ==
    \/ SameSlot
    \/ FreedSlot
    \/ \E e \in Entries : ClaimSlot(e) /\ sched' = Claimed(e)
    \/ \E e \in Entries : /\ SettlePersisted(e) /\ IsActiveReplay(e)
                          /\ letter = None /\ sched' = Assessing
    \/ \E e \in Entries : ReleaseClaim(e) /\ IsActiveReplay(e) /\ sched' = Released(e)
    \/ \E e \in Entries : RecordStarted(e) /\ IsActiveReplay(e) /\ sched' = Started
    \/ \E b \in boundaries : CloseTurn(b) /\ HasActive /\ sched' = Assessing

LEMMA DeliverSlot ==
    ASSUME TypeOK, NEW e \in Entries, Deliver(e)
    PROVE  SlotMove
<1>1. items \in [Entries -> Item] /\ sched \in Schedule /\ letter \in Letters \cup {None}
  BY DEF TypeOK
<1>2. CASE UNCHANGED sched  BY <1>2 DEF SlotMove, SameSlot, HasActive
<1>3. CASE ClaimSlot(e)  BY <1>3 DEF ClaimSlot, SlotMove
<1>4. CASE SettlePersisted(e)
  <2>1. \/ UNCHANGED sched
        \/ IsActiveReplay(e) /\ letter = None /\ sched' = Assessing
        \/ HasActive /\ \E v \in {"D", letter} : v # None /\ sched' = Completed(v, None)
    BY <1>4 DEF SettlePersisted, IsActiveReplay, Letters
  <2>2. ASSUME HasActive, NEW v \in {"D", letter}, v # None, sched' = Completed(v, None)
        PROVE  FreedSlot
    <3>1. v \in Letters /\ None \in Nobody  BY <1>1, <2>2 DEF Letters, Nobody
    <3> QED  BY <1>1, <2>2, <3>1, CompletedIs DEF FreedSlot
  <2> QED  BY <1>2, <1>4, <2>1, <2>2 DEF SlotMove
<1>5. CASE ReleaseClaim(e)  BY <1>2, <1>5 DEF ReleaseClaim, SlotMove
<1>6. CASE RecordStarted(e)  BY <1>2, <1>6 DEF RecordStarted, SlotMove
<1>7. CASE CheckBusy(e) \/ GateClosed(e) \/ AckPersisted(e) \/ AppendNotice(e) \/ HandOver(e)
           \/ Refuse(e) \/ Acknowledge(e)
  BY <1>2, <1>7
  DEF CheckBusy, GateClosed, AckPersisted, AppendNotice, HandOver, Refuse, Acknowledge,
      schedulerVars
<1> QED  BY <1>3, <1>4, <1>5, <1>6, <1>7 DEF Deliver

LEMMA SlotNext ==
    ASSUME TypeOK, [Next]_vars, ~CrashAndRecover
    PROVE  SlotMove
<1>1. /\ sched \in Schedule /\ question \in Question /\ boundaries \subseteq Boundary
      /\ OpenQuestion \in Nobody
  BY OpenQuestionTyped DEF TypeOK
<1>2. CASE UNCHANGED sched  BY <1>2 DEF SlotMove, SameSlot, HasActive
<1>3. ASSUME NEW e \in Entries, Admit(e)  PROVE SlotMove
  <2>1. /\ sched'.state = sched.state /\ sched'.reason = sched.reason
        /\ sched'.active = sched.active
    BY <1>1, <1>3 DEF Admit, Schedule
  <2> QED  BY <2>1 DEF SlotMove, SameSlot, HasActive
<1>4. ASSUME NEW e \in Entries, CancelQueued(e)  PROVE SlotMove
  BY <1>1, <1>4, DropIs DEF CancelQueued, SlotMove, SameSlot, HasActive
<1>5. ASSUME NEW e \in Entries, InsertQueued(e)  PROVE SlotMove
  BY <1>1, <1>5, SupersededIs DEF InsertQueued, SlotMove, SameSlot
<1>6. ASSUME NEW e \in Entries,
             Lease(e) \/ LeaseLapses(e) \/ \E to \in 0..Cardinality(Entries) : ReorderQueued(e, to)
      PROVE  SlotMove
  BY <1>2, <1>6 DEF Lease, LeaseLapses, ReorderQueued
<1>7. ASSUME NEW e \in Entries, Deliver(e)  PROVE SlotMove  BY <1>7, DeliverSlot
<1>8. CASE ReleaseTick \/ AskQuestion \/ CancelTurn \/ WatchdogStops \/ Dismiss
  BY <1>2, <1>8 DEF ReleaseTick, AskQuestion, CancelTurn, WatchdogStops, Dismiss, schedulerVars
<1>9. CASE Resolve  BY <1>1, <1>9, IdleIs DEF Resolve, SlotMove, FreedSlot
<1>10. ASSUME NEW v \in {"D", "B", "E", "W"}, RunnerEnds(v)  PROVE SlotMove
  BY <1>2, <1>10 DEF RunnerEnds
<1>11. ASSUME NEW b \in boundaries, Settle(b)  PROVE SlotMove
  <2>1. CASE StopRunner(b) \/ ReadVerdict(b)
    BY <1>2, <2>1 DEF StopRunner, ReadVerdict, schedulerVars
  <2>2. CASE CloseTurn(b)  BY <1>2, <2>2 DEF CloseTurn, SlotMove
  <2>3. CASE CompleteTurn(b)
    <3>1. b.letter \in Letters  BY <1>1 DEF Boundary
    <3> QED  BY <1>1, <1>2, <2>3, <3>1, CompletedIs DEF CompleteTurn, SlotMove, FreedSlot
  <2>4. CASE SettleDismissed(b)
    BY <1>1, <1>2, <2>4, IdleIs DEF SettleDismissed, SlotMove, FreedSlot
  <2> QED  BY <1>11, <2>1, <2>2, <2>3, <2>4 DEF Settle
<1>12. CASE UNCHANGED vars  BY <1>2, <1>12 DEF vars, schedulerVars
<1> QED
  BY <1>3, <1>4, <1>5, <1>6, <1>7, <1>8, <1>9, <1>10, <1>11, <1>12 DEF Next

-------------------------------------------------------------------------------
\* What moves an occupied slot on.

\* A delivery between its claim and the end of its call.
UnderWay == {"claimed", "refused", "accepted", "acked", "settling"}
Handling(e) == pc[e] \in UnderWay

\* A turn end that has still to reach the scheduler, and one that has.
Closing == \E b \in boundaries : b.step \in {"closing", "cancelling"}
Closed  == \E b \in boundaries : b.step \in {"closed", "decided"}

\* A slot that is starting or running has its delivery under way, or a turn, or
\* the end of a turn on its way to it; one that waits for a verdict has one.
MovedOn ==
    /\ Shaped(sched)
    /\ sched.state \in {"starting", "running"} =>
          Handling(sched.active.delivery) \/ runner # None \/ Closing
    /\ sched.state = "assessing" => Closed

TurnHeld == \A e \in Entries : pc[e] \in {"accepted", "acked"} => runner = e
VerdictKnown == \A e \in Entries : runs[e] > 0 => letter # None
Persisted == \A e \in Entries : pc[e] = "settling" => saved[e] \in {"unknown", "handed"}

SlotInv == MovedOn /\ TurnHeld /\ VerdictKnown /\ Persisted

\* Messages of one task start a turn each: notices start none, and a turn of
\* another task than the slot's leaves it as it is.
OneTask == \A t, u \in Tasks : t = u
AllStart == \A e \in Entries : StartsTurn(e)

LEMMA MatchOne ==
    ASSUME OneTask, sched \in Schedule, HasActive, NEW t \in Tasks \cup {None}
    PROVE  TaskMatches(t)
<1>1. sched.active.task \in Tasks \cup {None}  BY ActiveTyped DEF Active
<1> QED  BY <1>1 DEF TaskMatches, OneTask

\* A step that is no delivery's leaves what the deliveries hold as it was, but
\* for the runner.
Quiet == UNCHANGED <<pc, saved, runs>>

LEMMA QuietSteps ==
    ASSUME [Next]_vars, ~CrashAndRecover,
           \A e \in Entries : ~Deliver(e) /\ ~Lease(e)
    PROVE  /\ Quiet
           /\ \/ UNCHANGED runner
              \/ /\ runner' = None /\ \A e \in Entries : pc[e] \in {"idle", "claimed"}
<1>1. CASE UNCHANGED vars  BY <1>1 DEF vars, processVars, Quiet
<1>2. ASSUME NEW e \in Entries,
             \/ Admit(e) \/ CancelQueued(e) \/ InsertQueued(e) \/ LeaseLapses(e)
             \/ \E to \in 0..Cardinality(Entries) : ReorderQueued(e, to)
      PROVE  Quiet /\ UNCHANGED runner
  BY <1>2 DEF Admit, CancelQueued, InsertQueued, LeaseLapses, ReorderQueued, processVars, Quiet
<1>3. ASSUME ReleaseTick \/ Resolve \/ AskQuestion \/ CancelTurn \/ WatchdogStops \/ Dismiss
      PROVE  Quiet /\ UNCHANGED runner
  BY <1>3
  DEF ReleaseTick, Resolve, AskQuestion, CancelTurn, WatchdogStops, Dismiss, processVars, Quiet
<1>4. ASSUME NEW v \in {"D", "B", "E", "W"}, RunnerEnds(v)
      PROVE  Quiet /\ runner' = None /\ \A e \in Entries : pc[e] \in {"idle", "claimed"}
  BY <1>4 DEF RunnerEnds, Drained, Quiet
<1>5. ASSUME NEW b \in boundaries, Settle(b), ~StopRunner(b)
      PROVE  Quiet /\ UNCHANGED runner
  BY <1>5 DEF Settle, CloseTurn, ReadVerdict, CompleteTurn, SettleDismissed, Quiet
<1>6. ASSUME NEW b \in boundaries, StopRunner(b)
      PROVE  Quiet /\ runner' = None /\ \A e \in Entries : pc[e] \in {"idle", "claimed"}
  BY <1>6 DEF StopRunner, Drained, Quiet
<1> QED  BY <1>1, <1>2, <1>3, <1>4, <1>5, <1>6 DEF Next

\* One delivery goes from one phase to the next.
PhaseMove(e) ==
    /\ \A f \in Entries \ {e} : pc'[f] = pc[f]
    /\ \/ pc[e] = "taken"    /\ pc'[e] \in {"idle", "checked"} /\ UNCHANGED <<runner, saved, runs>>
       \/ pc[e] = "checked"  /\ pc'[e] \in {"idle", "claimed"} /\ UNCHANGED <<runner, saved, runs>>
       \/ /\ pc[e] = "claimed" /\ pc'[e] = "settling" /\ UNCHANGED <<runner, saved, runs>>
          /\ saved[e] \in {"unknown", "handed"}
       \/ /\ pc[e] = "claimed" /\ pc'[e] = "refused" /\ UNCHANGED <<runner, runs>>
          /\ \A f \in Entries \ {e} : saved'[f] = saved[f]
       \/ AppendNotice(e)
       \/ HandOver(e)
       \/ pc[e] = "settling" /\ pc'[e] = "idle" /\ UNCHANGED <<runner, saved, runs>>
       \/ pc[e] = "refused"  /\ pc'[e] = "idle" /\ UNCHANGED <<runner, saved, runs>>
       \/ pc[e] = "accepted" /\ pc'[e] \in {"idle", "acked"} /\ UNCHANGED <<runner, saved, runs>>
       \/ pc[e] = "acked"    /\ pc'[e] = "idle" /\ UNCHANGED <<runner, saved, runs>>

LEMMA PhaseMoves ==
    ASSUME SessionInv, NEW e \in Entries, Deliver(e)
    PROVE  PhaseMove(e)
<1>1. /\ pc \in [Entries -> Phases] /\ tick \in Nobody /\ saved \in [Entries -> Saved]
      /\ {"idle", "checked", "claimed", "settling", "refused", "accepted", "acked"} \subseteq Phases
  BY TypedFacts DEF Phases
<1>2. ASSUME NEW phase \in Phases, Goto(e, phase) \/ (phase = "idle" /\ Finish(e))
      PROVE  pc'[e] = phase /\ \A f \in Entries \ {e} : pc'[f] = pc[f]
  BY <1>1, <1>2, PhaseStep
<1>3. CASE CheckBusy(e)
  <2>1. pc[e] = "taken" /\ (Finish(e) \/ Goto(e, "checked")) /\ UNCHANGED <<runner, saved, runs>>
    BY <1>3 DEF CheckBusy
  <2> QED  BY <1>1, <1>2, <2>1 DEF PhaseMove
<1>4. CASE ClaimSlot(e) \/ GateClosed(e)
  <2>1. pc[e] = "checked" /\ (Finish(e) \/ Goto(e, "claimed")) /\ UNCHANGED <<runner, saved, runs>>
    BY <1>4 DEF ClaimSlot, GateClosed
  <2> QED  BY <1>1, <1>2, <2>1 DEF PhaseMove
<1>5. CASE AckPersisted(e)
  <2>1. /\ pc[e] = "claimed" /\ Goto(e, "settling") /\ UNCHANGED <<runner, saved, runs>>
        /\ saved[e] \in {"unknown", "handed"}
    BY <1>5 DEF AckPersisted
  <2> QED  BY <1>1, <1>2, <2>1 DEF PhaseMove
<1>6. CASE SettlePersisted(e)
  <2>1. pc[e] = "settling" /\ Finish(e) /\ UNCHANGED <<runner, saved, runs>>
    BY <1>6 DEF SettlePersisted
  <2> QED  BY <1>1, <1>2, <2>1 DEF PhaseMove
<1>7. CASE AppendNotice(e)
  <2>1. Goto(e, "accepted")  BY <1>7 DEF AppendNotice
  <2> QED  BY <1>1, <1>2, <1>7, <2>1 DEF PhaseMove
<1>8. CASE HandOver(e)
  <2>1. Goto(e, "accepted")  BY <1>8 DEF HandOver
  <2> QED  BY <1>1, <1>2, <1>8, <2>1 DEF PhaseMove
<1>9. CASE Refuse(e)
  <2>1. /\ pc[e] = "claimed" /\ Goto(e, "refused") /\ UNCHANGED <<runner, runs>>
        /\ saved' = saved \/ saved' = [saved EXCEPT ![e] = "refused"]
    BY <1>9 DEF Refuse, CanHandOver
  <2>2. \A f \in Entries \ {e} : saved'[f] = saved[f]  BY <1>1, <2>1
  <2> QED  BY <1>1, <1>2, <2>1, <2>2 DEF PhaseMove
<1>10. CASE ReleaseClaim(e)
  <2>1. pc[e] = "refused" /\ Finish(e) /\ UNCHANGED <<runner, saved, runs>>
    BY <1>10 DEF ReleaseClaim
  <2> QED  BY <1>1, <1>2, <2>1 DEF PhaseMove
<1>11. CASE Acknowledge(e)
  <2>1. pc[e] = "accepted" /\ (Finish(e) \/ Goto(e, "acked")) /\ UNCHANGED <<runner, saved, runs>>
    BY <1>11 DEF Acknowledge
  <2> QED  BY <1>1, <1>2, <2>1 DEF PhaseMove
<1>12. CASE RecordStarted(e)
  <2>1. pc[e] = "acked" /\ Finish(e) /\ UNCHANGED <<runner, saved, runs>>
    BY <1>12 DEF RecordStarted
  <2> QED  BY <1>1, <1>2, <2>1 DEF PhaseMove
<1> QED
  BY <1>3, <1>4, <1>5, <1>6, <1>7, <1>8, <1>9, <1>10, <1>11, <1>12 DEF Deliver

LEMMA LeasePhase ==
    ASSUME SessionInv, NEW e \in Entries, Lease(e)
    PROVE  /\ pc[e] = "idle" /\ pc'[e] = "taken"
           /\ \A f \in Entries \ {e} : pc'[f] = pc[f]
           /\ UNCHANGED <<runner, saved, runs, boundaries, sched, letter>>
<1>1. pc \in [Entries -> Phases]  BY TypedFacts
<1> QED  BY <1>1 DEF Lease

\* A turn end stays until its own next step.
LEMMA BoundaryKept ==
    ASSUME [Next]_vars, ~CrashAndRecover, NEW b \in boundaries
    PROVE  b \in boundaries' \/ Settle(b)
<1>1. CASE UNCHANGED boundaries  BY <1>1
<1>2. ASSUME NEW e \in Entries,
             \/ Admit(e) \/ CancelQueued(e) \/ InsertQueued(e) \/ Lease(e) \/ LeaseLapses(e)
             \/ \E to \in 0..Cardinality(Entries) : ReorderQueued(e, to)
      PROVE  b \in boundaries'
  BY <1>2
  DEF Admit, CancelQueued, InsertQueued, Lease, LeaseLapses, ReorderQueued, processVars
<1>3. ASSUME NEW e \in Entries, Deliver(e)  PROVE UNCHANGED boundaries
  BY <1>3
  DEF Deliver, CheckBusy, ClaimSlot, GateClosed, AckPersisted, SettlePersisted, AppendNotice,
      HandOver, Refuse, ReleaseClaim, Acknowledge, RecordStarted
<1>4. CASE ReleaseTick \/ Resolve \/ AskQuestion \/ CancelTurn \/ WatchdogStops \/ Dismiss
  BY <1>4
  DEF ReleaseTick, Resolve, AskQuestion, CancelTurn, WatchdogStops, Dismiss, processVars
<1>5. ASSUME NEW v \in {"D", "B", "E", "W"}, RunnerEnds(v)  PROVE b \in boundaries'
  BY <1>5 DEF RunnerEnds
<1>6. ASSUME NEW c \in boundaries, Settle(c), c # b  PROVE b \in boundaries'
  BY <1>6
  DEF Settle, StopRunner, CloseTurn, ReadVerdict, CompleteTurn, SettleDismissed, Move, Drop
<1>7. CASE UNCHANGED vars  BY <1>7 DEF vars, processVars
<1> QED  BY <1>1, <1>2, <1>3, <1>4, <1>5, <1>6, <1>7 DEF Next

LEMMA Moved ==
    ASSUME NEW b \in boundaries, boundaries \subseteq Boundary, NEW step, Move(b, step)
    PROVE  \E c \in boundaries' : c.step = step
<1>1. [b EXCEPT !.step = step].step = step  BY DEF Boundary
<1> QED  BY <1>1 DEF Move

\* A running turn that stops leaves the end of a turn behind.
LEMMA RunnerOn ==
    ASSUME SessionInv, [Next]_vars, ~CrashAndRecover, runner # None
    PROVE  runner' # None \/ Closing'
<1>1. boundaries \subseteq Boundary /\ None \notin Entries
  BY SchedulerAssumption DEF SessionInv, TypeOK
<1>2. ASSUME NEW e \in Entries, Deliver(e) \/ Lease(e)  PROVE runner' # None
  BY <1>1, <1>2, PhaseMoves, LeasePhase DEF PhaseMove, AppendNotice, HandOver
<1>3. ASSUME NEW v \in {"D", "B", "E", "W"}, RunnerEnds(v)  PROVE Closing'
  <2> DEFINE c == [Stopping EXCEPT !.step = "closing", !.letter = v,
                                   !.task = items[runner].task]
  <2>1. c \in boundaries' /\ c.step = "closing"  BY <1>3 DEF RunnerEnds, Stopping
  <2> QED  BY <2>1 DEF Closing
<1>4. ASSUME NEW b \in boundaries, StopRunner(b)  PROVE Closing'
  <2>1. Move(b, "cancelling")  BY <1>4 DEF StopRunner
  <2> QED  BY <1>1, <2>1, Moved DEF Closing
<1>5. CASE UNCHANGED runner  BY <1>5
<1>6. ASSUME \A e \in Entries : ~Deliver(e) /\ ~Lease(e),
             \A v \in {"D", "B", "E", "W"} : ~RunnerEnds(v),
             \A b \in boundaries : ~StopRunner(b)
      PROVE  UNCHANGED runner
  <2>1. ASSUME NEW e \in Entries,
               \/ Admit(e) \/ CancelQueued(e) \/ InsertQueued(e) \/ LeaseLapses(e)
               \/ \E to \in 0..Cardinality(Entries) : ReorderQueued(e, to)
        PROVE  UNCHANGED runner
    BY <2>1 DEF Admit, CancelQueued, InsertQueued, LeaseLapses, ReorderQueued, processVars
  <2>2. CASE ReleaseTick \/ Resolve \/ AskQuestion \/ CancelTurn \/ WatchdogStops \/ Dismiss
    BY <2>2
    DEF ReleaseTick, Resolve, AskQuestion, CancelTurn, WatchdogStops, Dismiss, processVars
  <2>3. ASSUME NEW b \in boundaries, Settle(b)  PROVE UNCHANGED runner
    BY <1>6, <2>3 DEF Settle, CloseTurn, ReadVerdict, CompleteTurn, SettleDismissed
  <2>4. CASE UNCHANGED vars  BY <2>4 DEF vars, processVars
  <2> QED  BY <1>6, <2>1, <2>2, <2>3, <2>4 DEF Next
<1> QED  BY <1>2, <1>3, <1>4, <1>5, <1>6

\* In a process that did not restart, a message found in the history had its
\* turn announced: settling it finds a verdict, and frees its own slot.
LEMMA SettlesOwn ==
    ASSUME SessionInv, SlotInv, OneTask, AllStart, ~Crashed,
           NEW e \in Entries, SettlePersisted(e), IsActiveReplay(e)
    PROVE  letter # None /\ FreedSlot
<1>1. pc[e] = "settling"  BY DEF SettlePersisted
<1>2. saved[e] \in {"unknown", "handed"} /\ StartsTurn(e)  BY <1>1 DEF SlotInv, Persisted, AllStart
<1>3. runs[e] = 1  BY <1>2, TypedFacts DEF Handed
<1>4. letter # None  BY <1>3 DEF SlotInv, VerdictKnown
<1>5. /\ sched \in Schedule /\ letter \in Letters /\ "D" \in Letters /\ None \in Nobody
      /\ HasActive /\ items[e].task \in Tasks \cup {None}
  BY <1>4 DEF SessionInv, TypeOK, Item, Letters, Nobody, IsActiveReplay
<1>6. TaskMatches(items[e].task)  BY <1>5, MatchOne
<1>7. \E v \in {"D", letter} : sched' = Completed(v, None)
  BY <1>4, <1>6, SchedulerAssumption DEF SettlePersisted
<1> QED  BY <1>4, <1>5, <1>7, CompletedIs DEF FreedSlot

\* A delivery under way that leaves the slot as it is goes on, or leaves a turn.
LEMMA DeliveryOn ==
    ASSUME SessionInv, SlotInv, OneTask, AllStart, ~Crashed, [Next]_vars, ~CrashAndRecover,
           SameSlot, HasActive, sched.state \in {"starting", "running"},
           Handling(sched.active.delivery)
    PROVE  Handling(sched.active.delivery)' \/ runner' # None
<1> DEFINE d == sched.active.delivery
<1>1. /\ sched \in Schedule /\ d \in Entries /\ None \notin Entries
      /\ sched'.state \in {"starting", "running"} /\ sched'.active.delivery = d
  BY ActiveTyped, SchedulerAssumption DEF SessionInv, TypeOK, Active, SameSlot
<1> HIDE DEF d
<1>2. Handling(d)  BY DEF d
<1>3. SUFFICES pc'[d] \in UnderWay \/ runner' # None
  BY <1>1 DEF Handling
<1>4. IsActiveReplay(d)  BY DEF IsActiveReplay, d
<1>5. CASE Deliver(d)
  <2>1. PhaseMove(d) /\ StartsTurn(d)  BY <1>1, <1>5, PhaseMoves DEF AllStart
  <2>2. CASE pc[d] = "settling"
    <3>1. SettlePersisted(d)
      BY <1>5, <2>2
      DEF Deliver, CheckBusy, ClaimSlot, GateClosed, AckPersisted, AppendNotice, HandOver,
          CanHandOver, Refuse, ReleaseClaim, Acknowledge, RecordStarted
    <3>2. FreedSlot  BY <1>1, <1>4, <3>1, SettlesOwn
    <3> QED  BY <1>1, <3>2 DEF FreedSlot
  <2>3. CASE pc[d] = "refused"
    <3>1. ReleaseClaim(d)
      BY <1>5, <2>3
      DEF Deliver, CheckBusy, ClaimSlot, GateClosed, AckPersisted, SettlePersisted, AppendNotice,
          HandOver, CanHandOver, Refuse, Acknowledge, RecordStarted
    <3>2. sched' = Released(d)  BY <1>4, <3>1 DEF ReleaseClaim
    <3>3. sched'.state \in {"idle", "frozen"}  BY <1>1, <3>2, ReleasedIs
    <3> QED  BY <1>1, <3>3
  <2>4. CASE pc[d] \in {"accepted", "acked"}
    <3>1. runner = d  BY <1>1, <2>4 DEF SlotInv, TurnHeld
    <3>2. UNCHANGED runner
      BY <2>1, <2>4 DEF PhaseMove, AppendNotice, HandOver, CanHandOver
    <3> QED  BY <1>1, <3>1, <3>2
  <2>5. CASE pc[d] = "claimed"
    <3>1. pc'[d] \in {"settling", "refused"} \/ HandOver(d)
      BY <2>1, <2>5 DEF PhaseMove, AppendNotice
    <3> QED  BY <1>1, <3>1 DEF UnderWay, HandOver
  <2> QED  BY <1>2, <2>2, <2>3, <2>4, <2>5 DEF Handling, UnderWay
<1>6. ASSUME NEW e \in Entries, Deliver(e) \/ Lease(e), e # d \/ ~Deliver(d)  PROVE pc'[d] = pc[d]
  <2>1. CASE Lease(e)
    <3>1. pc[e] = "idle" /\ \A f \in Entries \ {e} : pc'[f] = pc[f]  BY <2>1, LeasePhase
    <3> QED  BY <1>1, <1>2, <3>1 DEF Handling, UnderWay
  <2>2. CASE Deliver(e) /\ e # d
    <3>1. \A f \in Entries \ {e} : pc'[f] = pc[f]  BY <2>2, PhaseMoves DEF PhaseMove
    <3> QED  BY <1>1, <2>2, <3>1
  <2> QED  BY <1>6, <2>1, <2>2
<1>7. CASE \A e \in Entries : ~Deliver(e) /\ ~Lease(e)
  <2>1. pc'[d] = pc[d]  BY <1>7, QuietSteps DEF Quiet
  <2> QED  BY <1>2, <2>1 DEF Handling
<1> QED  BY <1>2, <1>5, <1>6, <1>7 DEF Handling

\* An occupied slot that stays as it is keeps what moves it on.
LEMMA SameMovedOn ==
    ASSUME SessionInv, SlotInv, OneTask, AllStart, ~Crashed, [Next]_vars, ~CrashAndRecover,
           SameSlot
    PROVE  MovedOn'
<1>1. /\ sched \in Schedule /\ boundaries \subseteq Boundary /\ MovedOn
      /\ sched'.state = sched.state
  BY DEF SessionInv, TypeOK, SlotInv, SameSlot
<1>2. Shaped(sched')  BY <1>1 DEF MovedOn, Shaped, SameSlot, HasActive
<1>3. ASSUME sched.state \in {"starting", "running"}
      PROVE  Handling(sched.active.delivery)' \/ runner' # None \/ Closing'
  <2>1. HasActive  BY <1>1, <1>3 DEF MovedOn, Shaped, HasActive
  <2>2. CASE Handling(sched.active.delivery)  BY <1>3, <2>1, <2>2, DeliveryOn
  <2>3. CASE runner # None  BY <2>3, RunnerOn
  <2>4. ASSUME NEW b \in boundaries, b.step \in {"closing", "cancelling"}  PROVE Closing'
    <3>1. CASE Settle(b)
      <4>1. CloseTurn(b)
        BY <2>4, <3>1
        DEF Settle, StopRunner, ReadVerdict, CompleteTurn, SettleDismissed
      <4>2. sched' = Assessing  BY <2>1, <4>1 DEF CloseTurn
      <4>3. sched'.state = "assessing"  BY <1>1, <4>2, AssessingIs
      <4> QED  BY <1>1, <1>3, <4>3
    <3>2. CASE b \in boundaries'  BY <2>4, <3>2 DEF Closing
    <3> QED  BY <3>1, <3>2, BoundaryKept
  <2> QED  BY <1>1, <1>3, <2>2, <2>3, <2>4 DEF MovedOn, Closing
<1>4. ASSUME sched.state = "assessing"  PROVE Closed'
  <2>1. HasActive /\ Closed  BY <1>1, <1>4 DEF MovedOn, Shaped, HasActive
  <2>2. PICK b \in boundaries : b.step \in {"closed", "decided"}  BY <2>1 DEF Closed
  <2>3. b.task \in Tasks \cup {None} /\ b.letter \in Letters  BY <1>1 DEF Boundary
  <2>4. TaskMatches(b.task)  BY <1>1, <2>1, <2>3, MatchOne
  <2>5. CASE Settle(b)
    <3>1. CASE ReadVerdict(b)
      <4>1. Move(b, "decided")  BY <1>4, <2>1, <2>4, <3>1 DEF ReadVerdict
      <4> QED  BY <1>1, <4>1, Moved DEF Closed
    <3>2. CASE CompleteTurn(b)
      <4>1. sched' = Completed(b.letter, OpenQuestion)  BY <2>1, <2>4, <3>2 DEF CompleteTurn
      <4>2. OpenQuestion \in Nobody  BY OpenQuestionTyped DEF SessionInv, TypeOK
      <4>3. sched'.state = "idle"  BY <1>1, <2>1, <2>3, <4>1, <4>2, CompletedIs
      <4> QED  BY <1>1, <1>4, <4>3
    <3> QED
      BY <2>1, <2>2, <2>5, <3>1, <3>2 DEF Settle, StopRunner, CloseTurn, SettleDismissed
  <2>6. CASE b \in boundaries'  BY <2>2, <2>6 DEF Closed
  <2> QED  BY <2>5, <2>6, BoundaryKept
<1> QED  BY <1>1, <1>2, <1>3, <1>4 DEF MovedOn

LEMMA MovedOnNext ==
    ASSUME SessionInv, SlotInv, OneTask, AllStart, ~Crashed, [Next]_vars, ~CrashAndRecover
    PROVE  MovedOn'
<1>1. /\ TypeOK /\ sched \in Schedule /\ items \in [Entries -> Item]
      /\ boundaries \subseteq Boundary /\ None \notin Entries
  BY SchedulerAssumption DEF SessionInv, TypeOK
<1>2. SlotMove  BY <1>1, SlotNext
<1>3. CASE SameSlot  BY <1>3, SameMovedOn
<1>4. CASE FreedSlot  BY <1>4 DEF FreedSlot, MovedOn, Shaped
<1>5. ASSUME NEW e \in Entries, ClaimSlot(e), sched' = Claimed(e)  PROVE MovedOn'
  <2>1. /\ sched'.state = "starting" /\ sched'.active # NoActive
        /\ sched'.active.delivery = e
    BY <1>1, <1>5, ClaimedIs
  <2>2. pc'[e] = "claimed"  BY <1>5, TypedFacts DEF ClaimSlot, Goto
  <2> QED  BY <2>1, <2>2 DEF MovedOn, Shaped, Handling, UnderWay
<1>6. ASSUME NEW e \in Entries, SettlePersisted(e), IsActiveReplay(e), letter = None
      PROVE  FALSE
  BY <1>6, SettlesOwn
<1>7. ASSUME NEW e \in Entries, ReleaseClaim(e), IsActiveReplay(e), sched' = Released(e)
      PROVE  MovedOn'
  <2>1. sched'.state \in {"idle", "frozen"} /\ Shaped(sched')
    BY <1>1, <1>7, ReleasedIs DEF IsActiveReplay
  <2> QED  BY <2>1 DEF MovedOn
<1>8. ASSUME NEW e \in Entries, RecordStarted(e), IsActiveReplay(e), sched' = Started
      PROVE  MovedOn'
  <2>1. sched'.state = "running" /\ sched'.active # NoActive
    BY <1>1, <1>8, StartedIs DEF IsActiveReplay
  <2>2. runner = e /\ UNCHANGED runner  BY <1>8 DEF RecordStarted, SlotInv, TurnHeld
  <2>3. runner' # None  BY <1>1, <2>2
  <2> QED  BY <2>1, <2>3 DEF MovedOn, Shaped
<1>9. ASSUME NEW b \in boundaries, CloseTurn(b), HasActive, sched' = Assessing  PROVE MovedOn'
  <2>1. sched'.state = "assessing" /\ sched'.active # NoActive
    BY <1>1, <1>9, AssessingIs DEF HasActive
  <2>2. Move(b, "closed")  BY <1>9 DEF CloseTurn
  <2>3. Closed'  BY <1>1, <2>2, Moved DEF Closed
  <2> QED  BY <2>1, <2>3 DEF MovedOn, Shaped
<1> QED  BY <1>2, <1>3, <1>4, <1>5, <1>6, <1>7, <1>8, <1>9 DEF SlotMove

\* What changes the verdict.
VerdictMove ==
    \/ UNCHANGED letter
    \/ \E e \in Entries : HandOver(e) /\ letter' = "P"
    \/ \E e \in Entries : Refuse(e) /\ letter' = "P" /\ saved'[e] = "refused"
    \/ \E v \in {"D", "B", "E", "W"} : RunnerEnds(v) /\ letter' = v
    \/ WatchdogStops /\ letter = "P" /\ runner = None
    \/ Dismiss /\ letter' = "D"
    \/ \E b \in boundaries : CloseTurn(b) /\ b.step = "cancelling" /\ letter' = "E"

LEMMA VerdictNext ==
    ASSUME SessionInv, [Next]_vars
    PROVE  VerdictMove
<1>1. CASE UNCHANGED letter  BY <1>1 DEF VerdictMove
<1>2. ASSUME NEW e \in Entries,
             \/ Admit(e) \/ CancelQueued(e) \/ InsertQueued(e) \/ Lease(e) \/ LeaseLapses(e)
             \/ \E to \in 0..Cardinality(Entries) : ReorderQueued(e, to)
      PROVE  UNCHANGED letter
  BY <1>2 DEF Admit, CancelQueued, InsertQueued, Lease, LeaseLapses, ReorderQueued
<1>3. ASSUME NEW e \in Entries, Deliver(e)  PROVE VerdictMove
  <2>1. CASE HandOver(e)  BY <2>1 DEF HandOver, BeginTurn, VerdictMove
  <2>2. CASE Refuse(e)
    <3>1. \/ UNCHANGED letter
          \/ saved' = [saved EXCEPT ![e] = "refused"] /\ letter' = "P"
      BY <2>2 DEF Refuse, BeginTurn
    <3> QED  BY <2>2, <3>1, TypedFacts DEF VerdictMove
  <2>3. CASE ~HandOver(e) /\ ~Refuse(e)
    BY <1>1, <1>3, <2>3
    DEF Deliver, CheckBusy, ClaimSlot, GateClosed, AckPersisted, SettlePersisted, AppendNotice,
        ReleaseClaim, Acknowledge, RecordStarted, schedulerVars
  <2> QED  BY <2>1, <2>2, <2>3
<1>4. CASE ReleaseTick \/ Resolve \/ AskQuestion \/ CancelTurn \/ CrashAndRecover
  BY <1>1, <1>4 DEF ReleaseTick, Resolve, AskQuestion, CancelTurn, CrashAndRecover, schedulerVars
<1>5. CASE WatchdogStops \/ Dismiss
  BY <1>5 DEF WatchdogStops, Dismiss, VerdictMove
<1>6. ASSUME NEW v \in {"D", "B", "E", "W"}, RunnerEnds(v)  PROVE VerdictMove
  BY <1>6 DEF RunnerEnds, VerdictMove
<1>7. ASSUME NEW b \in boundaries, Settle(b)  PROVE VerdictMove
  BY <1>1, <1>7
  DEF Settle, StopRunner, CloseTurn, ReadVerdict, CompleteTurn, SettleDismissed, schedulerVars,
      VerdictMove
<1>8. CASE UNCHANGED vars  BY <1>1, <1>8 DEF vars, schedulerVars
<1> QED  BY <1>1, <1>2, <1>3, <1>4, <1>5, <1>6, <1>7, <1>8 DEF Next

\* No step forgets the session's verdict.
LEMMA VerdictStays ==
    ASSUME SessionInv, [Next]_vars, letter # None
    PROVE  letter' # None
<1>1. None \notin {"P", "D", "W", "B", "E"}  BY SchedulerAssumption
<1>2. WatchdogStops => UNCHANGED letter \/ letter' = "W"  BY DEF WatchdogStops
<1> QED  BY <1>1, <1>2, VerdictNext DEF VerdictMove

LEMMA HeldNext ==
    ASSUME SessionInv, SlotInv, AllStart, [Next]_vars, ~CrashAndRecover
    PROVE  TurnHeld' /\ VerdictKnown' /\ Persisted'
<1>1. /\ None \notin Entries /\ "P" # None /\ TurnHeld /\ VerdictKnown /\ Persisted
      /\ pc \in [Entries -> Phases] /\ saved \in [Entries -> Saved] /\ runs \in [Entries -> Nat]
  BY SchedulerAssumption, TypedFacts DEF SlotInv
<1>2. CASE \A e \in Entries : ~Deliver(e) /\ ~Lease(e)
  <2>1. /\ UNCHANGED <<pc, saved, runs>>
        /\ UNCHANGED runner \/ \A e \in Entries : pc[e] \in {"idle", "claimed"}
    BY <1>2, QuietSteps DEF Quiet
  <2>2. TurnHeld'  BY <1>1, <2>1 DEF TurnHeld
  <2>3. Persisted'  BY <1>1, <2>1 DEF Persisted
  <2>4. VerdictKnown'  BY <1>1, <2>1, VerdictStays DEF VerdictKnown
  <2> QED  BY <2>2, <2>3, <2>4
<1>3. ASSUME NEW f \in Entries, Lease(f)  PROVE TurnHeld' /\ VerdictKnown' /\ Persisted'
  <2>1. /\ pc'[f] = "taken" /\ \A e \in Entries \ {f} : pc'[e] = pc[e]
        /\ UNCHANGED <<runner, saved, runs, letter>>
    BY <1>3, LeasePhase
  <2> QED  BY <1>1, <2>1 DEF TurnHeld, VerdictKnown, Persisted
<1>4. ASSUME NEW f \in Entries, Deliver(f)  PROVE TurnHeld' /\ VerdictKnown' /\ Persisted'
  <2>1. PhaseMove(f) /\ StartsTurn(f)  BY <1>4, PhaseMoves DEF AllStart
  <2>2. CASE HandOver(f)
    <3>1. /\ runner = None /\ runner' = f /\ letter' = "P"
          /\ pc'[f] = "accepted" /\ \A e \in Entries \ {f} : pc'[e] = pc[e]
          /\ \A e \in Entries \ {f} : saved'[e] = saved[e]
      BY <1>1, <2>2 DEF HandOver, BeginTurn, Goto
    <3> QED  BY <1>1, <3>1 DEF TurnHeld, VerdictKnown, Persisted
  <2>3. CASE ~HandOver(f)
    <3>1. /\ \A e \in Entries \ {f} : pc'[e] = pc[e] /\ saved'[e] = saved[e]
          /\ UNCHANGED <<runner, runs>>
          /\ pc'[f] \in {"accepted", "acked"} => pc[f] \in {"accepted", "acked"}
          /\ pc'[f] = "settling" => saved[f] \in {"unknown", "handed"} /\ UNCHANGED saved
      BY <2>1, <2>3 DEF PhaseMove, AppendNotice
    <3>2. TurnHeld'  BY <1>1, <3>1 DEF TurnHeld
    <3>3. Persisted'  BY <1>1, <3>1 DEF Persisted
    <3>4. VerdictKnown'  BY <1>1, <3>1, VerdictStays DEF VerdictKnown
    <3> QED  BY <3>2, <3>3, <3>4
  <2> QED  BY <2>2, <2>3
<1> QED  BY <1>2, <1>3, <1>4

\* Until the process restarts, whatever occupies the slot moves it on.
SlotHeldInv == Crashed \/ SlotInv

LEMMA SlotHeldInit == Init => SlotInv
<1> SUFFICES ASSUME Init  PROVE SlotInv
  OBVIOUS
<1>1. /\ sched = NewSchedule /\ \A e \in Entries : pc[e] = "idle" /\ runs[e] = 0
  BY DEF Init, SchedulerInit
<1>2. sched.state = "idle" /\ sched.active = NoActive  BY <1>1 DEF NewSchedule
<1> QED  BY <1>1, <1>2 DEF SlotInv, MovedOn, Shaped, TurnHeld, VerdictKnown, Persisted

LEMMA SlotHeldNext ==
    ASSUME OneTask, AllStart, SessionInv, SlotHeldInv, [Next]_vars
    PROVE  SlotHeldInv'
<1>1. TypeOK /\ "crash" \in Disturbances  BY DEF SessionInv, Disturbances
<1>2. LeftStep /\ (Crashed => Crashed')  BY <1>1, LeftNext, CrashedNext
<1>3. CASE CrashAndRecover
  <2>1. left'["crash"] < left["crash"]  BY <1>1, <1>3, SpendStep DEF CrashAndRecover
  <2> QED  BY <1>2, <2>1, CrashedNext DEF SlotHeldInv
<1>4. CASE ~Crashed /\ ~CrashAndRecover
  BY <1>4, MovedOnNext, HeldNext DEF SlotHeldInv, SlotInv
<1> QED  BY <1>2, <1>3, <1>4 DEF SlotHeldInv

\* Until the process restarts, a slot in starting, running or assessing has a
\* delivery, a turn, a turn end, a lease to repeat or the watchdog to move it on
\* (scheduler.js claim and releaseClaim, host.js runClassifyTransition), when
\* every message of the session starts a turn and all are of one task: a
\* message of another task may join a slot that is about to be released.
THEOREM SessionSlotDriven ==
    ASSUME OneTask, AllStart
    PROVE  Spec => [](~Crashed => SlotDriven)
<1>1. Init => SlotHeldInv  BY SlotHeldInit DEF SlotHeldInv
<1>2. SessionInv /\ SlotHeldInv /\ [Next]_vars => SlotHeldInv'  BY SlotHeldNext
<1>3. SessionInv /\ SlotHeldInv => (~Crashed => SlotDriven)
  <2> SUFFICES ASSUME SessionInv, SlotInv, sched.state \in {"starting", "running", "assessing"}
               PROVE  SlotDriven
    BY DEF SlotHeldInv, SlotDriven
  <2>1. MovedOn /\ sched \in Schedule  BY DEF SlotInv, SessionInv, TypeOK
  <2>2. HasActive  BY <2>1 DEF MovedOn, Shaped, HasActive
  <2>3. sched.active.delivery \in Entries  BY <2>1, <2>2, ActiveTyped DEF Active
  <2>4. Handling(sched.active.delivery) => pc[sched.active.delivery] # "idle"
    BY DEF Handling, UnderWay
  <2>5. Closing \/ Closed => boundaries # {}  BY DEF Closing, Closed
  <2> QED  BY <2>1, <2>3, <2>4, <2>5 DEF MovedOn, SlotDriven
<1> QED  BY <1>1, <1>2, <1>3, SessionSafe, PTL DEF Spec

-------------------------------------------------------------------------------
\* A session no one cancels, inserts into or gives up waiting for: one step at a
\* time, what the step may do to a message, to the slot's occupant, to the verdict.

Undisturbed == \A kind \in {"stall", "cancel", "insert"} : left[kind] = 0

\* A disturbance that is used up does not come back.
LEMMA SpentStays ==
    ASSUME TypeOK, [Next]_vars, NEW kind \in Disturbances, left[kind] = 0
    PROVE  left'[kind] = 0
<1>1. ASSUME NEW other \in Disturbances, Spend(other)  PROVE left'[kind] = 0
  <2>1. left[other] > 0 /\ left' = [left EXCEPT ![other] = left[other] - 1]  BY <1>1 DEF Spend
  <2>2. other # kind  BY <2>1
  <2> QED  BY <2>1, <2>2 DEF TypeOK
<1> QED  BY <1>1, LeftSpend

LEMMA UndisturbedStays ==
    ASSUME TypeOK, [Next]_vars, Undisturbed
    PROVE  Undisturbed'
<1>1. {"stall", "cancel", "insert"} \subseteq Disturbances  BY DEF Disturbances
<1> QED  BY <1>1, SpentStays DEF Undisturbed

LEMMA NotDisturbed ==
    ASSUME Undisturbed
    PROVE  ~ReleaseTick /\ ~CancelTurn /\ \A e \in Entries : ~InsertQueued(e)
BY DEF Undisturbed, ReleaseTick, CancelTurn, InsertQueued, Spend

-------------------------------------------------------------------------------
\* One delivery at a time.

Alone == \A e \in Entries : pc[e] # "idle" => tick = e

LEMMA DeliverPhase ==
    ASSUME NEW e \in Entries, Deliver(e)
    PROVE  pc[e] # "idle" /\ (Finish(e) \/ \E phase \in Phases : Goto(e, phase))
<1>1. {"checked", "claimed", "settling", "accepted", "refused", "acked"} \subseteq Phases
  BY DEF Phases
<1> QED
  BY <1>1
  DEF Deliver, CheckBusy, ClaimSlot, GateClosed, AckPersisted, SettlePersisted, AppendNotice,
      HandOver, Refuse, ReleaseClaim, Acknowledge, RecordStarted, CanHandOver

\* While a delivery is under way, no other is.
LEMMA OnlyOne ==
    ASSUME Alone, NEW e \in Entries, pc[e] # "idle"
    PROVE  tick = e /\ \A f \in Entries \ {e} : pc[f] = "idle"
BY DEF Alone

LEMMA DeliverAlone ==
    ASSUME SessionInv, Alone, NEW e \in Entries, Deliver(e)
    PROVE  /\ tick = e /\ \A f \in Entries \ {e} : pc[f] = "idle" /\ pc'[f] = "idle"
           /\ pc'[e] # "idle" => tick' = e
<1>1. pc[e] # "idle" /\ (Finish(e) \/ \E phase \in Phases : Goto(e, phase))  BY DeliverPhase
<1>2. tick = e /\ \A f \in Entries \ {e} : pc[f] = "idle"  BY <1>1, OnlyOne
<1> QED  BY <1>1, <1>2, TypedFacts DEF Finish, Goto

LEMMA AllIdle ==
    ASSUME Alone, tick = None
    PROVE  \A e \in Entries : pc[e] = "idle"
BY SchedulerAssumption DEF Alone

\* Only a delivery and a lease start or end one; a restart ends all.
LEMMA PhaseStays ==
    ASSUME [Next]_vars, ~ReleaseTick, ~CrashAndRecover,
           \A e \in Entries : ~Deliver(e) /\ ~Lease(e)
    PROVE  UNCHANGED <<pc, tick, saved>>
<1>1. ASSUME NEW e \in Entries,
             \/ Admit(e) \/ CancelQueued(e) \/ InsertQueued(e) \/ LeaseLapses(e)
             \/ \E to \in 0..Cardinality(Entries) : ReorderQueued(e, to)
      PROVE  UNCHANGED <<pc, tick, saved>>
  BY <1>1 DEF Admit, CancelQueued, InsertQueued, LeaseLapses, ReorderQueued, processVars
<1>2. CASE Resolve \/ AskQuestion \/ CancelTurn \/ WatchdogStops \/ Dismiss
  BY <1>2 DEF Resolve, AskQuestion, CancelTurn, WatchdogStops, Dismiss, processVars
<1>3. ASSUME NEW v \in {"D", "B", "E", "W"}, RunnerEnds(v)  PROVE UNCHANGED <<pc, tick, saved>>
  BY <1>3 DEF RunnerEnds
<1>4. ASSUME NEW b \in boundaries, Settle(b)  PROVE UNCHANGED <<pc, tick, saved>>
  BY <1>4 DEF Settle, StopRunner, CloseTurn, ReadVerdict, CompleteTurn, SettleDismissed
<1>5. CASE UNCHANGED vars  BY <1>5 DEF vars, processVars
<1> QED  BY <1>1, <1>2, <1>3, <1>4, <1>5 DEF Next

LEMMA AloneNext ==
    ASSUME SessionInv, Undisturbed, Alone, [Next]_vars
    PROVE  Alone'
<1>1. ASSUME NEW e \in Entries, Deliver(e)  PROVE Alone'
  <2>1. /\ \A f \in Entries \ {e} : pc'[f] = "idle"
        /\ pc'[e] # "idle" => tick' = e
    BY <1>1, DeliverAlone
  <2> QED  BY <2>1 DEF Alone
<1>2. ASSUME NEW e \in Entries, Lease(e)  PROVE Alone'
  <2>1. tick = None /\ tick' = e /\ pc' = [pc EXCEPT ![e] = "taken"]  BY <1>2 DEF Lease
  <2> QED  BY <2>1, AllIdle, TypedFacts DEF Alone
<1>3. CASE CrashAndRecover  BY <1>3 DEF CrashAndRecover, Alone
<1>4. CASE UNCHANGED <<pc, tick, saved>>  BY <1>4 DEF Alone
<1> QED  BY <1>1, <1>2, <1>3, <1>4, PhaseStays, NotDisturbed

-------------------------------------------------------------------------------
\* A message.

Done(e) == items[e].state \in {"delivered", "dead-letter", "cancelled"}
SameRank(e) ==
    /\ items'[e].kind = items[e].kind /\ items'[e].request = items[e].request
    /\ items'[e].sequence = items[e].sequence /\ items'[e].override = items[e].override
SameWork(e) ==
    /\ SameRank(e)
    /\ items'[e].direct = items[e].direct /\ items'[e].blocked = items[e].blocked

\* Blocked behind the open question, which it does not answer.
StagedAgain(e) ==
    /\ items[e].state = "pending" /\ items'[e].state = "pending"
    /\ SameRank(e) /\ items'[e].blocked = OpenQuestion
    /\ OpenQuestion # None /\ ~(IsAnswer(e) /\ items[e].request = OpenQuestion)

ItemMove(e) ==
    \/ Admit(e)
    \/ SameWork(e) /\ items'[e].state = items[e].state
    \/ SameWork(e) /\ items[e].state = "pending" /\ items'[e].state = "cancelled"
    \/ SameWork(e) /\ Lease(e) /\ items'[e].state = "leased"
    \/ SameWork(e) /\ LeaseLapses(e) /\ items'[e].state \in {"pending", "dead-letter"}
    \/ /\ SameWork(e) /\ Deliver(e)
       /\ items[e].state = "leased" /\ items'[e].state \in {"pending", "dead-letter", "delivered"}
    \/ StagedAgain(e) /\ FreedSlot

LEMMA StateSame ==
    ASSUME items \in [Entries -> Item], NEW e \in Entries, NEW f \in Entries, NEW state,
           SetState(e, state)
    PROVE  SameWork(f) /\ items'[f].state = IF f = e THEN state ELSE items[f].state
BY DEF SetState, SameRank, SameWork, Item

LEMMA HeldMove ==
    ASSUME items \in [Entries -> Item], NEW e \in Entries, NEW f \in Entries, NEW state,
           IfHeld(e, state)
    PROVE  /\ SameWork(f)
           /\ \/ items'[f].state = items[f].state
              \/ f = e /\ items[f].state = "leased" /\ items'[f].state = state
<1>1. CASE UNCHANGED items  BY <1>1 DEF SameRank, SameWork
<1>2. CASE SetState(e, state) /\ items[e].state = "leased"  BY <1>2, StateSame
<1> QED  BY <1>1, <1>2 DEF IfHeld

LEMMA BlockMove ==
    ASSUME items \in [Entries -> Item], NEW f \in Entries, NEW v, items' = BlockStaged(v)
    PROVE  \/ SameWork(f) /\ items'[f].state = items[f].state
           \/ StagedAgain(f)
<1> DEFINE blocked == [items[f] EXCEPT !.direct = FALSE, !.blocked = OpenQuestion]
<1>1. \/ items'[f] = items[f]
      \/ /\ items[f].state = "pending" /\ items'[f] = blocked
         /\ OpenQuestion # None /\ ~(IsAnswer(f) /\ items[f].request = OpenQuestion)
  BY DEF BlockStaged
<1>2. /\ blocked.state = items[f].state /\ blocked.kind = items[f].kind
      /\ blocked.request = items[f].request /\ blocked.sequence = items[f].sequence
      /\ blocked.override = items[f].override /\ blocked.blocked = OpenQuestion
  BY DEF Item
<1> HIDE DEF blocked
<1> QED  BY <1>1, <1>2 DEF SameRank, SameWork, StagedAgain

LEMMA ReorderMove ==
    ASSUME items \in [Entries -> Item], NEW e \in Entries, NEW to, ReorderQueued(e, to),
           NEW f \in Entries
    PROVE  SameWork(f) /\ items'[f].state = items[f].state
<1>1. \E o : items'[f] = [items[f] EXCEPT !.order = o] \/ items'[f] = items[f]
  BY DEF ReorderQueued, Reordered
<1> QED  BY <1>1 DEF SameRank, SameWork, Item

LEMMA ItemNext ==
    ASSUME SessionInv, Undisturbed, [Next]_vars, NEW f \in Entries
    PROVE  ItemMove(f)
<1>1. items \in [Entries -> Item] /\ TypeOK /\ OpenQuestion \in Nobody
  BY OpenQuestionTyped DEF SessionInv, TypeOK
<1>2. CASE UNCHANGED items  BY <1>2 DEF ItemMove, SameRank, SameWork
<1>3. ASSUME NEW e \in Entries, Admit(e)  PROVE ItemMove(f)
  <2>1. e # f => items'[f] = items[f]  BY <1>1, <1>3 DEF Admit
  <2> QED  BY <1>3, <2>1 DEF ItemMove, SameRank, SameWork
<1>4. ASSUME NEW e \in Entries, CancelQueued(e)  PROVE ItemMove(f)
  <2>1. SetState(e, "cancelled") /\ items[e].state = "pending"
    BY <1>4 DEF CancelQueued, CanCancelQueued
  <2> QED  BY <1>1, <2>1, StateSame DEF ItemMove
<1>5. ASSUME NEW e \in Entries, NEW to, ReorderQueued(e, to)  PROVE ItemMove(f)
  BY <1>1, <1>5, ReorderMove DEF ItemMove
<1>6. ASSUME NEW e \in Entries, Lease(e)  PROVE ItemMove(f)
  <2>1. SetState(e, "leased")  BY <1>6 DEF Lease
  <2> QED  BY <1>1, <1>6, <2>1, StateSame DEF ItemMove
<1>7. ASSUME NEW e \in Entries, LeaseLapses(e)  PROVE ItemMove(f)
  <2>1. PICK state \in {"pending", "dead-letter"} : SetState(e, state)
    BY <1>7 DEF LeaseLapses
  <2> QED  BY <1>1, <1>7, <2>1, StateSame DEF ItemMove
<1>8. ASSUME NEW e \in Entries, Deliver(e)  PROVE ItemMove(f)
  <2>1. CASE SettlePersisted(e)
    <3>1. \/ UNCHANGED items
          \/ /\ HasActive
             /\ \E v \in {"D", letter} : /\ v # None /\ sched' = Completed(v, None)
                                         /\ items' = BlockStaged(v)
      BY <2>1 DEF SettlePersisted, IsActiveReplay, Letters
    <3>2. ASSUME HasActive, NEW v \in {"D", letter}, v # None, sched' = Completed(v, None),
                 items' = BlockStaged(v)
          PROVE  ItemMove(f)
      <4>1. v \in Letters /\ None \in Nobody /\ sched \in Schedule
        BY <1>1, <3>2 DEF Letters, Nobody, TypeOK
      <4>2. FreedSlot  BY <3>2, <4>1, CompletedIs DEF FreedSlot
      <4> QED  BY <1>1, <3>2, <4>2, BlockMove DEF ItemMove
    <3> QED  BY <1>2, <3>1, <3>2
  <2>2. CASE ~SettlePersisted(e)
    <3>1. \/ UNCHANGED items
          \/ \E state \in {"pending", "dead-letter", "delivered"} : IfHeld(e, state)
      BY <1>8, <2>2
      DEF Deliver, CheckBusy, ClaimSlot, GateClosed, AckPersisted, AppendNotice, HandOver,
          Refuse, ReleaseClaim, Acknowledge, RecordStarted, schedulerVars
    <3> QED  BY <1>1, <1>2, <1>8, <3>1, HeldMove DEF ItemMove
  <2> QED  BY <2>1, <2>2
<1>9. CASE Resolve \/ AskQuestion \/ WatchdogStops \/ Dismiss \/ CrashAndRecover
  BY <1>2, <1>9
  DEF Resolve, AskQuestion, WatchdogStops, Dismiss, CrashAndRecover, schedulerVars
<1>10. ASSUME NEW v \in {"D", "B", "E", "W"}, RunnerEnds(v)  PROVE ItemMove(f)
  BY <1>2, <1>10 DEF RunnerEnds
<1>11. ASSUME NEW b \in boundaries, Settle(b)  PROVE ItemMove(f)
  <2>1. CASE CompleteTurn(b) /\ ~UNCHANGED items
    <3>1. /\ HasActive /\ sched' = Completed(b.letter, OpenQuestion)
          /\ items' = BlockStaged(b.letter) /\ b.letter \in Letters /\ sched \in Schedule
      BY <1>1, <2>1 DEF CompleteTurn, Boundary, TypeOK
    <3>2. FreedSlot  BY <1>1, <3>1, CompletedIs DEF FreedSlot
    <3> QED  BY <1>1, <3>1, <3>2, BlockMove DEF ItemMove
  <2>2. CASE StopRunner(b) \/ CloseTurn(b) \/ ReadVerdict(b) \/ SettleDismissed(b)
    BY <1>2, <2>2 DEF StopRunner, CloseTurn, ReadVerdict, SettleDismissed, schedulerVars
  <2> QED  BY <1>2, <1>11, <2>1, <2>2 DEF Settle
<1>12. CASE UNCHANGED vars  BY <1>2, <1>12 DEF vars, schedulerVars
<1> QED
  BY <1>3, <1>4, <1>5, <1>6, <1>7, <1>8, <1>9, <1>10, <1>11, <1>12, NotDisturbed DEF Next

\* A restart keeps the slot's occupant or frees the slot.
LEMMA RecoveredIs ==
    ASSUME sched \in Schedule, NEW proven
    PROVE  Recovered(proven).active \in {sched.active, NoActive}
<1> DEFINE read == [sched EXCEPT !.letter = IF letter # None THEN letter ELSE @]
<1> DEFINE parked(state, reason) == [read EXCEPT !.state = state, !.reason = reason]
<1>1. \A state, reason : parked(state, reason).active = sched.active  BY DEF Schedule
<1>2. [read EXCEPT !.state = "idle", !.reason = None, !.awaiting = None].active = sched.active
  BY DEF Schedule
<1>3. Idle(read, read.letter).active = NoActive  BY DEF Idle, Schedule
<1>4. [parked("assessing", None) EXCEPT !.letter = "P"].active = sched.active  BY DEF Schedule
<1>5. \/ Recovered(proven) = [read EXCEPT !.state = "idle", !.reason = None, !.awaiting = None]
      \/ Recovered(proven) = Idle(read, read.letter)
      \/ Recovered(proven) = [parked("assessing", None) EXCEPT !.letter = "P"]
      \/ \E reason : Recovered(proven) = parked("frozen", reason)
  BY DEF Recovered
<1> HIDE DEF read, parked
<1> DEFINE r == Recovered(proven)
<1>6. CASE r = [read EXCEPT !.state = "idle", !.reason = None, !.awaiting = None]
  BY <1>2, <1>6
<1>7. CASE r = Idle(read, read.letter)  BY <1>3, <1>7
<1>8. CASE r = [parked("assessing", None) EXCEPT !.letter = "P"]  BY <1>4, <1>8
<1>9. CASE \E reason : r = parked("frozen", reason)  BY <1>1, <1>9
<1> QED  BY <1>5, <1>6, <1>7, <1>8, <1>9

\* The slot's occupant, over a step.
SameOccupant ==
    /\ HasActive <=> HasActive'
    /\ HasActive => /\ sched'.active.delivery = sched.active.delivery
                    /\ sched'.active.entry = sched.active.entry
                    /\ sched'.active.started = sched.active.started

OccupantMove ==
    \/ SameOccupant
    \/ ~HasActive'
    \/ \E e \in Entries :
          /\ ClaimSlot(e) /\ HasActive' /\ sched'.active.delivery = e
          /\ IF HasActive THEN /\ sched'.active.entry = sched.active.entry
                               /\ sched'.active.started = sched.active.started
                          ELSE sched'.active.entry = e /\ sched'.active.started = FALSE
    \/ \E e \in Entries :
          /\ ReleaseClaim(e) /\ IsActiveReplay(e) /\ HasActive'
          /\ sched.active.entry # e \/ sched.active.started
          /\ sched'.active.delivery = sched.active.entry
          /\ sched'.active.entry = sched.active.entry
          /\ sched'.active.started = sched.active.started
    \/ \E e \in Entries :
          /\ RecordStarted(e) /\ IsActiveReplay(e) /\ HasActive'
          /\ sched'.active.delivery = e
          /\ sched'.active.entry = sched.active.entry

LEMMA OccupantNext ==
    ASSUME SessionInv, [Next]_vars
    PROVE  OccupantMove
<1>1. TypeOK /\ sched \in Schedule /\ items \in [Entries -> Item]  BY DEF SessionInv, TypeOK
<1>2. CASE CrashAndRecover
  <2>1. sched'.active \in {sched.active, NoActive}  BY <1>1, <1>2, RecoveredIs DEF CrashAndRecover
  <2> QED  BY <2>1 DEF OccupantMove, SameOccupant, HasActive
<1>3. CASE ~CrashAndRecover
  <2>1. SlotMove  BY <1>1, <1>3, SlotNext
  <2>2. CASE SameSlot  BY <2>2 DEF SameSlot, OccupantMove, SameOccupant, HasActive
  <2>3. CASE FreedSlot  BY <2>3 DEF FreedSlot, OccupantMove, HasActive
  <2>4. ASSUME NEW e \in Entries, ClaimSlot(e), sched' = Claimed(e)  PROVE OccupantMove
    <3>1. /\ HasActive' /\ sched'.active.delivery = e
          /\ IF HasActive THEN /\ sched'.active.entry = sched.active.entry
                               /\ sched'.active.started = sched.active.started
                          ELSE sched'.active.entry = e /\ sched'.active.started = FALSE
      BY <1>1, <2>4, ClaimedIs DEF HasActive
    <3> QED  BY <2>4, <3>1 DEF OccupantMove
  <2>5. ASSUME sched' = Assessing  PROVE OccupantMove
    BY <1>1, <2>5, AssessingIs DEF OccupantMove, SameOccupant, HasActive
  <2>6. ASSUME NEW e \in Entries, ReleaseClaim(e), IsActiveReplay(e), sched' = Released(e)
        PROVE  OccupantMove
    BY <1>1, <2>6, ReleasedIs DEF OccupantMove, HasActive, IsActiveReplay
  <2>7. ASSUME NEW e \in Entries, RecordStarted(e), IsActiveReplay(e), sched' = Started
        PROVE  OccupantMove
    BY <1>1, <2>7, StartedIs DEF OccupantMove, HasActive, IsActiveReplay
  <2> QED  BY <2>1, <2>2, <2>3, <2>4, <2>5, <2>6, <2>7 DEF SlotMove
<1> QED  BY <1>2, <1>3

-------------------------------------------------------------------------------
\* What keeps a verdict steady under a delivery that has still to start its turn.

Known(e) == items[e].state # "absent"

\* A delivery that has not reached its runner yet.
Waiting(e) == pc[e] \in {"taken", "checked", "claimed"}

\* A message that may still be handed over: its delivery waits, or the slot is
\* kept for its next one; the history does not hold it, or it was refused.
Fresh(e) ==
    /\ saved[e] = "no" \/ (saved[e] = "refused" /\ pc[e] # "refused")
    /\ Waiting(e) \/ (IsActiveReplay(e) /\ Open(e))

\* Staged work stays what it is while its delivery waits: no lease of a delivery
\* under way lapses, or no question stages it again.
Steady == Budget["ask"] = 0 \/ Budget["lapse"] = 0

Ready(e) == letter # "P" /\ (Steady /\ Staged(e) => letter \in {"D", None})

Stops(b) == b.step \in {"stopping", "cancelling"}

\* A turn runs in P; only a session stuck in P without a turn is being stopped.
HostInv ==
    /\ runner # None => letter = "P"
    /\ \A b \in boundaries : Stops(b) => letter = "P" /\ runner = None
    /\ \A b, c \in boundaries : Stops(b) /\ Stops(c) => b = c

FreshInv == \A e \in Entries : Fresh(e) => Ready(e)

\* A delivery under way holds its lease unless that lapsed, then the slot unless it
\* was freed.
ClaimInv ==
    \A e \in Entries :
        /\ Waiting(e) => Known(e) /\ (Budget["lapse"] = 0 => items[e].state = "leased")
        /\ pc[e] \in UnderWay => ~HasActive \/ sched.active.delivery = e
        /\ pc[e] = "acked" => Done(e)
        /\ pc[e] \in {"taken", "checked"} /\ HasActive /\ sched.active.delivery # e =>
              Done(sched.active.delivery)

\* The owner of a slot that was joined, or started, has left the queue.
OwnerInv ==
    HasActive => /\ Known(sched.active.entry) /\ Known(sched.active.delivery)
                 /\ \/ sched.active.entry = sched.active.delivery /\ ~sched.active.started
                    \/ Done(sched.active.entry)

\* What the budget rules out does not happen.
BudgetInv ==
    /\ \A kind \in Disturbances : Budget[kind] = 0 => left[kind] = 0
    /\ Budget["ask"] = 0 => ~question.open

SerialInv ==
    Undisturbed /\ Alone /\ HostInv /\ FreshInv /\ ClaimInv /\ OwnerInv /\ BudgetInv

LEMMA DoneStays ==
    ASSUME SessionInv, Undisturbed, [Next]_vars, NEW e \in Entries
    PROVE  /\ Done(e) => items'[e].state \in {"delivered", "dead-letter", "cancelled"}
           /\ Known(e) => items'[e].state # "absent"
<1>1. ItemMove(e)  BY ItemNext
<1> QED  BY <1>1 DEF ItemMove, StagedAgain, Done, Known, Admit, Lease, LeaseLapses

LEMMA OccupantTyped ==
    ASSUME SessionInv, HasActive
    PROVE  sched.active.entry \in Entries /\ sched.active.delivery \in Entries
BY ActiveTyped DEF SessionInv, TypeOK, Active

LEMMA OwnerNext ==
    ASSUME SessionInv, SerialInv, [Next]_vars
    PROVE  OwnerInv'
<1>1. /\ Undisturbed /\ ClaimInv /\ OwnerInv /\ OccupantMove
  BY OccupantNext DEF SerialInv
<1> DEFINE out(e) == items'[e].state \in {"delivered", "dead-letter", "cancelled"}
           in(e) == items'[e].state # "absent"
<1>2. \A e \in Entries : (Done(e) => out(e)) /\ (Known(e) => in(e))  BY <1>1, DoneStays
<1>3. SUFFICES ASSUME HasActive'
               PROVE  /\ in(sched'.active.entry) /\ in(sched'.active.delivery)
                      /\ \/ /\ sched'.active.entry = sched'.active.delivery
                            /\ ~sched'.active.started
                         \/ out(sched'.active.entry)
  BY DEF OwnerInv, Known, Done
<1> HIDE DEF out, in
<1>4. CASE SameOccupant  BY <1>1, <1>2, <1>3, <1>4, OccupantTyped DEF SameOccupant, OwnerInv
<1>5. ASSUME NEW e \in Entries, ClaimSlot(e), sched'.active.delivery = e,
             IF HasActive THEN /\ sched'.active.entry = sched.active.entry
                               /\ sched'.active.started = sched.active.started
                          ELSE sched'.active.entry = e /\ sched'.active.started = FALSE
      PROVE  /\ in(sched'.active.entry) /\ in(sched'.active.delivery)
             /\ \/ /\ sched'.active.entry = sched'.active.delivery
                   /\ ~sched'.active.started
                \/ out(sched'.active.entry)
  <2>1. pc[e] = "checked" /\ Known(e)  BY <1>5 DEF ClaimSlot, Known
  <2>2. CASE HasActive
    <3>1. /\ Known(sched.active.entry) /\ sched.active.entry \in Entries
          /\ sched.active.delivery # e => Done(sched.active.delivery)
      BY <1>1, <2>1, <2>2, OccupantTyped DEF OwnerInv, ClaimInv
    <3> QED  BY <1>1, <1>2, <1>5, <2>1, <2>2, <3>1 DEF OwnerInv
  <2>3. CASE ~HasActive  BY <1>2, <1>5, <2>1, <2>3
  <2> QED  BY <2>2, <2>3
<1>6. ASSUME NEW e \in Entries, IsActiveReplay(e),
             sched.active.entry # e \/ sched.active.started,
             sched'.active.delivery = sched.active.entry,
             sched'.active.entry = sched.active.entry
      PROVE  out(sched'.active.entry) /\ in(sched'.active.entry) /\ in(sched'.active.delivery)
  BY <1>1, <1>2, <1>6, OccupantTyped DEF OwnerInv, IsActiveReplay
<1>7. ASSUME NEW e \in Entries, RecordStarted(e), IsActiveReplay(e),
             sched'.active.delivery = e, sched'.active.entry = sched.active.entry
      PROVE  out(sched'.active.entry) /\ in(sched'.active.entry) /\ in(sched'.active.delivery)
  <2>1. Done(e)  BY <1>1, <1>7 DEF RecordStarted, ClaimInv
  <2> QED  BY <1>1, <1>2, <1>7, <2>1, OccupantTyped DEF OwnerInv, IsActiveReplay
<1> QED  BY <1>1, <1>3, <1>4, <1>5, <1>6, <1>7 DEF OccupantMove

\* A delivery waits on because its step changed neither message nor history.
LEMMA WaitsOn ==
    ASSUME SessionInv, NEW e \in Entries, Deliver(e), pc'[e] \in {"taken", "checked", "claimed"}
    PROVE  /\ UNCHANGED <<items, saved, letter, runner>>
           /\ \/ CheckBusy(e) /\ pc[e] = "taken" /\ pc'[e] = "checked" /\ UNCHANGED sched
              \/ ClaimSlot(e) /\ pc[e] = "checked" /\ pc'[e] = "claimed"
<1>1. pc \in [Entries -> Phases]  BY TypedFacts
<1> QED
  BY <1>1
  DEF Deliver, CheckBusy, ClaimSlot, GateClosed, AckPersisted, SettlePersisted, AppendNotice,
      HandOver, Refuse, ReleaseClaim, Acknowledge, RecordStarted, Goto, Finish

\* A message is taken while its slot is free or its own, or joins a slot whose
\* own message has left the queue.
LEMMA LeaseJoins ==
    ASSUME SessionInv, OwnerInv, NEW e \in Entries, Lease(e), HasActive,
           sched.active.delivery # e
    PROVE  RelatedControl(e) /\ ControlAllowed(e, letter) /\ Done(sched.active.delivery)
<1> DEFINE d == sched.active.delivery
<1>1. d \in Entries /\ IsActiveReplay(d) /\ ~IsActiveReplay(e) /\ Known(d)
  BY OccupantTyped DEF IsActiveReplay, OwnerInv
<1>2. /\ ~Open(d)
      /\ RelatedControl(e) /\ ControlAllowed(e, letter)
  <2>1. ~Held(d)  BY <1>1 DEF Held
  <2> HIDE DEF d
  <2>2. e \in Selectable  BY DEF Lease, Selected
  <2> QED  BY <1>1, <2>1, <2>2 DEF Selectable
<1>3. items[d] \in Item  BY <1>1 DEF SessionInv, TypeOK
<1> HIDE DEF d
<1>4. Done(d)  BY <1>1, <1>2, <1>3 DEF Item, ItemStates, Open, Done, Known
<1> QED  BY <1>2, <1>4 DEF d

LEMMA ClaimNext ==
    ASSUME SessionInv, SerialInv, [Next]_vars
    PROVE  ClaimInv'
<1>1. /\ Undisturbed /\ Alone /\ ClaimInv /\ OwnerInv /\ BudgetInv /\ OccupantMove
      /\ pc \in [Entries -> Phases] /\ None \notin Entries /\ items \in [Entries -> Item]
      /\ sched \in Schedule
  BY OccupantNext, TypedFacts, SchedulerAssumption DEF SerialInv, SessionInv, TypeOK
<1>2. CASE CrashAndRecover
  BY <1>2 DEF CrashAndRecover, ClaimInv, Waiting, UnderWay
<1> SUFFICES ASSUME ~CrashAndRecover, NEW e \in Entries
             PROVE  /\ pc'[e] \in {"taken", "checked", "claimed"} =>
                          Known(e)' /\ (Budget["lapse"] = 0 => items'[e].state = "leased")
                    /\ pc'[e] \in UnderWay => ~HasActive' \/ sched'.active.delivery = e
                    /\ pc'[e] = "acked" => Done(e)'
                    /\ pc'[e] \in {"taken", "checked"} /\ HasActive' /\ sched'.active.delivery # e
                          => Done(sched.active.delivery)'
  BY <1>2 DEF ClaimInv, Waiting, UnderWay
<1>3. CASE Lease(e)
  <2>1. pc'[e] = "taken" /\ items'[e].state = "leased" /\ UNCHANGED sched
    BY <1>1, <1>3, StateSame DEF Lease
  <2> Known(e)'  BY <2>1 DEF Known
  <2>2. ASSUME HasActive, sched.active.delivery # e  PROVE Done(sched.active.delivery)'
    <3>1. Done(sched.active.delivery) /\ sched.active.delivery \in Entries
      BY <1>1, <1>3, <2>2, LeaseJoins, OccupantTyped
    <3> QED  BY <1>1, <2>1, <3>1, DoneStays DEF Done
  <2> QED  BY <2>1, <2>2 DEF UnderWay, HasActive
<1>4. CASE Deliver(e)
  <2>1. ASSUME pc'[e] \in {"taken", "checked", "claimed"}
        PROVE  Known(e)' /\ (Budget["lapse"] = 0 => items'[e].state = "leased")
    BY <1>1, <1>4, <2>1, WaitsOn DEF ClaimInv, Waiting, Known
  <2>2. ASSUME pc'[e] \in {"taken", "checked"}
        PROVE  UNCHANGED <<items, sched>> /\ pc[e] \in {"taken", "checked"}
    BY <1>1, <1>4, <2>2, WaitsOn
  <2>3. ASSUME pc'[e] = "acked"  PROVE Done(e)'
    <3>1. Acknowledge(e) /\ items[e].state = "leased"
      BY <1>1, <1>4, <2>3
      DEF Deliver, CheckBusy, ClaimSlot, GateClosed, AckPersisted, SettlePersisted, AppendNotice,
          HandOver, Refuse, ReleaseClaim, Acknowledge, RecordStarted, Goto, Finish
    <3>2. SetState(e, "delivered")  BY <3>1 DEF Acknowledge, IfHeld
    <3> QED  BY <1>1, <3>2, StateSame DEF Done
  <2>4. ASSUME pc'[e] \in UnderWay  PROVE ~HasActive' \/ sched'.active.delivery = e
    <3>1. CASE ClaimSlot(e)
      BY <1>1, <3>1, ClaimedIs DEF ClaimSlot
    <3>2. CASE ~ClaimSlot(e)
      <4>1. pc[e] \in UnderWay /\ UNCHANGED sched
        BY <1>1, <1>4, <2>4, <3>2
        DEF Deliver, CheckBusy, GateClosed, AckPersisted, SettlePersisted, AppendNotice,
            HandOver, Refuse, ReleaseClaim, Acknowledge, RecordStarted, Goto, Finish, UnderWay,
            CanHandOver, schedulerVars
      <4> QED  BY <1>1, <4>1 DEF ClaimInv, HasActive
    <3> QED  BY <3>1, <3>2
  <2>5. pc'[e] \in {"taken", "checked"} /\ HasActive /\ sched.active.delivery # e
           => Done(sched.active.delivery)
    BY <1>1, <2>2 DEF ClaimInv
  <2> QED  BY <2>1, <2>2, <2>3, <2>4, <2>5 DEF HasActive, Done
<1>5. CASE ~Lease(e) /\ ~Deliver(e) /\ pc[e] # "idle"
  <2>1. /\ tick = e /\ tick # None /\ \A f \in Entries : ~Lease(f)
        /\ \A f \in Entries : ~Deliver(f)
    BY <1>1, <1>5, OnlyOne, DeliverPhase DEF Lease
  <2>2. pc'[e] = pc[e]  BY <1>1, <2>1, NotDisturbed, PhaseStays
  <2>3. ~HasActive' \/ SameOccupant
    BY <1>1, <2>1 DEF OccupantMove, Deliver
  <2>4. Waiting(e) => Known(e)' /\ (Budget["lapse"] = 0 => items'[e].state = "leased")
    <3>1. ItemMove(e) /\ (Known(e) => Known(e)')  BY <1>1, ItemNext, DoneStays DEF Known
    <3>2. Budget["lapse"] = 0 => ~LeaseLapses(e)
      <4>1. "lapse" \in Disturbances  BY DEF Disturbances
      <4> QED  BY <1>1, <1>5, <4>1 DEF BudgetInv, LeaseLapses, Spend
    <3> QED  BY <1>1, <2>1, <3>1, <3>2 DEF ItemMove, StagedAgain, Admit, ClaimInv
  <2>5. Done(e) => Done(e)'  BY <1>1, DoneStays DEF Done
  <2>6. HasActive /\ Done(sched.active.delivery) /\ SameOccupant => Done(sched.active.delivery)'
    BY <1>1, DoneStays, OccupantTyped DEF Done, SameOccupant
  <2> QED  BY <1>1, <2>2, <2>3, <2>4, <2>5, <2>6 DEF ClaimInv, Waiting, SameOccupant
<1>6. CASE ~Lease(e) /\ ~Deliver(e) /\ pc[e] = "idle"
  <2>1. pc'[e] = "idle"
    <3>1. ASSUME NEW f \in Entries, Deliver(f) \/ Lease(f)  PROVE pc'[e] = "idle"
      BY <1>1, <1>6, <3>1, DeliverAlone DEF Lease
    <3> QED  BY <1>1, <1>6, <3>1, NotDisturbed, PhaseStays
  <2> QED  BY <2>1 DEF UnderWay
<1> QED  BY <1>3, <1>4, <1>5, <1>6

\* A message is taken while no turn is in P, and staged work after a success.
LEMMA LeaseReady ==
    ASSUME SessionInv, SerialInv, NEW e \in Entries, Lease(e),
           saved[e] = "no" \/ (saved[e] = "refused" /\ pc[e] # "refused")
    PROVE  Ready(e)
<1>1. e \in Selectable /\ items[e].state = "pending" /\ FreshInv /\ OwnerInv
  BY DEF Lease, Selected, SerialInv
<1>2. CASE ~HasActive
  BY <1>1, <1>2, SchedulerAssumption
  DEF Selectable, Drains, ScheduleLetter, Ready, Staged
<1>3. CASE HasActive /\ sched.active.delivery = e
  <2>1. Fresh(e)  BY <1>1, <1>3 DEF Fresh, IsActiveReplay, Open
  <2> QED  BY <1>1, <2>1 DEF FreshInv
<1>4. CASE HasActive /\ sched.active.delivery # e
  BY <1>1, <1>4, LeaseJoins DEF RelatedControl, ControlAllowed, Ready, Staged
<1> QED  BY <1>2, <1>3, <1>4

\* What the history says of a message before a step that leaves it fresh.
LEMMA FreshSaved ==
    ASSUME SessionInv, [Next]_vars, NEW e \in Entries,
           saved'[e] = "no" \/ (saved'[e] = "refused" /\ pc'[e] # "refused"),
           ~ReleaseTick
    PROVE  \/ saved[e] = "no" \/ (saved[e] = "refused" /\ pc[e] # "refused")
           \/ ReleaseClaim(e)
<1>1. saved \in [Entries -> Saved] /\ pc \in [Entries -> Phases]  BY TypedFacts
<1>2. CASE CrashAndRecover
  BY <1>1, <1>2 DEF CrashAndRecover, Saved
<1>3. ASSUME NEW f \in Entries, Deliver(f), f # e
      PROVE  saved'[e] = saved[e] /\ pc'[e] = pc[e]
  BY <1>1, <1>3, PhaseMoves, TypedFacts
  DEF PhaseMove, HandOver, AppendNotice, Goto, Finish
<1>4. CASE Deliver(e)
  BY <1>1, <1>4
  DEF Deliver, CheckBusy, ClaimSlot, GateClosed, AckPersisted, SettlePersisted, AppendNotice,
      HandOver, Refuse, ReleaseClaim, Acknowledge, RecordStarted, Goto, Finish, CanHandOver
<1>5. ASSUME NEW f \in Entries, Lease(f)
      PROVE  saved'[e] = saved[e] /\ (pc[e] # "refused" \/ pc'[e] = pc[e])
  <2>1. pc[f] = "idle" /\ pc' = [pc EXCEPT ![f] = "taken"] /\ UNCHANGED saved  BY <1>5 DEF Lease
  <2>2. f = e \/ pc'[e] = pc[e]  BY <1>1, <2>1
  <2> QED  BY <2>1, <2>2
<1>6. CASE \A f \in Entries : ~Deliver(f) /\ ~Lease(f)
  BY <1>2, <1>6, PhaseStays
<1> QED  BY <1>2, <1>3, <1>4, <1>5, <1>6

LEMMA FreshBefore ==
    ASSUME SessionInv, SerialInv, [Next]_vars, NEW e \in Entries, Fresh(e)'
    PROVE  \/ Fresh(e)
           \/ /\ Lease(e)
              /\ saved[e] = "no" \/ (saved[e] = "refused" /\ pc[e] # "refused")
<1>1. /\ Undisturbed /\ Alone /\ ClaimInv /\ OwnerInv /\ OccupantMove /\ ItemMove(e)
      /\ pc \in [Entries -> Phases] /\ None \notin Entries /\ sched \in Schedule
      /\ ~ReleaseTick
  BY OccupantNext, ItemNext, TypedFacts, SchedulerAssumption, NotDisturbed
  DEF SerialInv, SessionInv, TypeOK
<1>2. /\ saved'[e] = "no" \/ (saved'[e] = "refused" /\ pc'[e] # "refused")
      /\ pc'[e] \in {"taken", "checked", "claimed"}
         \/ (HasActive' /\ sched'.active.delivery = e /\ items'[e].state \in {"pending", "leased"})
  BY DEF Fresh, Waiting, IsActiveReplay, Open
\* The slot is kept for a delivery that is still in the queue.
<1>3. ASSUME HasActive', sched'.active.delivery = e, items'[e].state \in {"pending", "leased"}
      PROVE  (IsActiveReplay(e) /\ Open(e) /\ ~ReleaseClaim(e)) \/ Waiting(e)
  <2>1. ~Done(e)  BY <1>1, DoneStays, <1>3
  <2>2. ASSUME NEW f \in Entries, ReleaseClaim(f), IsActiveReplay(f)  PROVE FALSE
    <3>1. CASE sched.active.entry = e /\ (sched.active.entry # f \/ sched.active.started)
      BY <1>1, <2>1, <2>2, <3>1 DEF OwnerInv, IsActiveReplay
    <3>2. CASE ~(sched.active.entry = e /\ (sched.active.entry # f \/ sched.active.started))
      <4>1. sched' = Released(f)  BY <2>2 DEF ReleaseClaim
      <4> QED  BY <1>1, <1>3, <2>2, <3>2, <4>1, ReleasedIs DEF IsActiveReplay, HasActive
    <3> QED  BY <3>1, <3>2
  <2>3. CASE \E f \in Entries : ClaimSlot(f) /\ sched'.active.delivery = f
    BY <1>3, <2>3 DEF ClaimSlot, Waiting
  <2>4. ASSUME IsActiveReplay(e)
        PROVE  (IsActiveReplay(e) /\ Open(e) /\ ~ReleaseClaim(e)) \/ Waiting(e)
    <3>1. Known(e)  BY <1>1, <2>4 DEF OwnerInv, IsActiveReplay
    <3>2. items[e] \in Item  BY DEF SessionInv, TypeOK
    <3>3. Open(e)  BY <2>1, <3>1, <3>2 DEF Item, ItemStates, Open, Done, Known
    <3> QED  BY <2>2, <2>4, <3>3
  <2>5. CASE SameOccupant  BY <1>3, <2>4, <2>5 DEF SameOccupant, IsActiveReplay
  <2>6. CASE \E f \in Entries : RecordStarted(f) /\ IsActiveReplay(f) /\ sched'.active.delivery = f
    BY <1>3, <2>4, <2>6
  <2> QED  BY <1>1, <1>3, <2>2, <2>3, <2>5, <2>6 DEF OccupantMove
<1>4. ASSUME pc'[e] \in {"taken", "checked", "claimed"}
      PROVE  Waiting(e) \/ Lease(e)
  <2>1. CASE Deliver(e)  BY <1>4, <2>1, WaitsOn DEF Waiting
  <2>2. ASSUME NEW f \in Entries, f # e, Deliver(f) \/ Lease(f)  PROVE pc'[e] = pc[e]
    <3>1. CASE Deliver(f)  BY <1>1, <2>2, <3>1, DeliverAlone
    <3>2. CASE Lease(f)  BY <1>1, <2>2, <3>2 DEF Lease
    <3> QED  BY <2>2, <3>1, <3>2
  <2>3. CASE CrashAndRecover  BY <1>4, <2>3 DEF CrashAndRecover
  <2>4. CASE \A f \in Entries : ~Deliver(f) /\ ~Lease(f)
    BY <1>1, <1>4, <2>3, <2>4, PhaseStays DEF Waiting
  <2> QED  BY <1>4, <2>1, <2>2, <2>4 DEF Waiting
<1>5. Waiting(e) \/ Lease(e) \/ (IsActiveReplay(e) /\ Open(e) /\ ~ReleaseClaim(e))
  BY <1>2, <1>3, <1>4
<1>6. Lease(e) => pc[e] = "idle"  BY DEF Lease
<1>7. ReleaseClaim(e) => pc[e] = "refused"  BY DEF ReleaseClaim
<1>8. Lease(e) => ~ReleaseClaim(e)  BY <1>6, <1>7
<1>9. saved[e] = "no" \/ (saved[e] = "refused" /\ pc[e] # "refused")
  BY <1>1, <1>2, <1>5, <1>7, <1>8, FreshSaved DEF Waiting
<1> QED  BY <1>5, <1>9 DEF Fresh

\* The turn of a message that may still be handed over has not begun.
LEMMA HandOverFresh ==
    ASSUME NEW e \in Entries, HandOver(e) \/ Refuse(e)
    PROVE  pc[e] = "claimed" /\ Fresh(e)
BY DEF HandOver, Refuse, CanHandOver, Fresh, Waiting

LEMMA FreshNext ==
    ASSUME SessionInv, SerialInv, [Next]_vars
    PROVE  FreshInv'
<1>1. /\ Undisturbed /\ Alone /\ HostInv /\ FreshInv /\ ClaimInv /\ BudgetInv /\ VerdictMove
      /\ None \notin {"P", "D", "W", "B", "E"} /\ saved \in [Entries -> Saved]
      /\ pc \in [Entries -> Phases]
  BY VerdictNext, TypedFacts, SchedulerAssumption DEF SerialInv
<1> SUFFICES ASSUME NEW e \in Entries, Fresh(e)'  PROVE Ready(e)'
  BY DEF FreshInv
<1>2. Ready(e)
  <2>1. Fresh(e) => Ready(e)  BY <1>1 DEF FreshInv
  <2> QED  BY <2>1, FreshBefore, LeaseReady
\* Work that a step stages is neither under way nor kept in the slot.
<1>3. Steady => (Staged(e)' => Staged(e))
  <2> SUFFICES ASSUME Steady  PROVE Staged(e)' => Staged(e)
    OBVIOUS
  <2>1. ItemMove(e) /\ ClaimInv'  BY <1>1, ItemNext, ClaimNext
  <2>2. CASE SameWork(e)  BY <2>2 DEF SameRank, SameWork, Staged, IsControl
  <2>3. CASE Admit(e)
    <3>1. items[e].state = "absent"  BY <2>3 DEF Admit
    <3>2. ~Fresh(e)  BY <1>1, <3>1 DEF Fresh, ClaimInv, Open, Known
    <3> QED  BY <3>1, <3>2, FreshBefore DEF Lease
  <2>4. CASE StagedAgain(e) /\ FreedSlot
    <3>1. Waiting(e)'  BY <2>4 DEF Fresh, IsActiveReplay, HasActive, FreedSlot
    <3>2. Budget["ask"] # 0  BY <1>1, <2>4 DEF StagedAgain, OpenQuestion, BudgetInv
    <3> QED  BY <2>1, <2>4, <3>1, <3>2 DEF ClaimInv, StagedAgain, Steady
  <2> QED  BY <2>1, <2>2, <2>3, <2>4 DEF ItemMove
<1>4. CASE UNCHANGED letter  BY <1>2, <1>3, <1>4 DEF Ready
\* A turn that begins is the message's own, which is fresh no more.
<1>5. ASSUME NEW f \in Entries, HandOver(f) \/ (Refuse(f) /\ saved'[f] = "refused")
      PROVE  FALSE
  <2>1. pc[f] = "claimed" /\ f # e
    <3>1. pc[f] = "claimed"  BY <1>5, HandOverFresh
    <3>2. CASE HandOver(f)
      <4>1. saved'[f] = "handed"  BY <1>1, <3>2 DEF HandOver
      <4> QED  BY <3>1, <4>1 DEF Fresh
    <3>3. CASE Refuse(f) /\ saved'[f] = "refused"
      <4>1. pc'[f] = "refused"  BY <1>1, <3>3 DEF Refuse, Goto
      <4> QED  BY <3>1, <3>3, <4>1 DEF Fresh
    <3> QED  BY <1>5, <3>2, <3>3
  <2>2. pc[e] = "idle"  BY <1>1, <2>1, OnlyOne
  <2>3. Fresh(e)
    <3>1. ~Lease(e)  BY <1>1, <2>1, OnlyOne, SchedulerAssumption DEF Lease
    <3> QED  BY <3>1, FreshBefore
  <2>4. IsActiveReplay(e)  BY <2>2, <2>3 DEF Fresh, Waiting
  <2> QED  BY <1>1, <2>1, <2>4 DEF ClaimInv, UnderWay, IsActiveReplay
<1>6. CASE Dismiss /\ letter' = "D"  BY <1>1, <1>6 DEF Ready
<1>7. letter # "P"  BY <1>2 DEF Ready
<1>8. ~RunnerEnds("D") /\ ~RunnerEnds("B") /\ ~RunnerEnds("E") /\ ~RunnerEnds("W")
  BY <1>1, <1>7 DEF RunnerEnds, HostInv
<1>9. \A b \in boundaries : b.step # "cancelling"  BY <1>1, <1>7 DEF HostInv, Stops
<1> QED  BY <1>1, <1>4, <1>5, <1>6, <1>7, <1>8, <1>9 DEF VerdictMove

LEMMA RunnerNext ==
    ASSUME [Next]_vars
    PROVE  UNCHANGED runner \/ runner' = None \/ \E e \in Entries : HandOver(e)
<1>1. ASSUME NEW e \in Entries,
             \/ Admit(e) \/ CancelQueued(e) \/ InsertQueued(e) \/ Lease(e) \/ LeaseLapses(e)
             \/ \E to \in 0..Cardinality(Entries) : ReorderQueued(e, to)
      PROVE  UNCHANGED runner
  BY <1>1 DEF Admit, CancelQueued, InsertQueued, Lease, LeaseLapses, ReorderQueued, processVars
<1>2. ASSUME NEW e \in Entries, Deliver(e)  PROVE UNCHANGED runner \/ HandOver(e)
  BY <1>2
  DEF Deliver, CheckBusy, ClaimSlot, GateClosed, AckPersisted, SettlePersisted, AppendNotice,
      Refuse, ReleaseClaim, Acknowledge, RecordStarted
<1>3. CASE ReleaseTick \/ Resolve \/ AskQuestion \/ CancelTurn \/ WatchdogStops \/ Dismiss
           \/ CrashAndRecover
  BY <1>3
  DEF ReleaseTick, Resolve, AskQuestion, CancelTurn, WatchdogStops, Dismiss, CrashAndRecover,
      processVars
<1>4. ASSUME NEW v \in {"D", "B", "E", "W"}, RunnerEnds(v)  PROVE runner' = None
  BY <1>4 DEF RunnerEnds
<1>5. ASSUME NEW b \in boundaries, Settle(b)  PROVE UNCHANGED runner \/ runner' = None
  BY <1>5 DEF Settle, StopRunner, CloseTurn, ReadVerdict, CompleteTurn, SettleDismissed
<1>6. CASE UNCHANGED vars  BY <1>6 DEF vars, processVars
<1> QED  BY <1>1, <1>2, <1>3, <1>4, <1>5, <1>6 DEF Next

\* What starts or carries on the stopping of a session.
LEMMA StopsNext ==
    ASSUME SessionInv, Undisturbed, [Next]_vars
    PROVE  \/ \A b \in boundaries' : Stops(b) => b \in boundaries
           \/ /\ letter = "P" /\ UNCHANGED letter /\ runner = None /\ UNCHANGED runner
              /\ \A b \in boundaries : ~Stops(b)
              /\ \A b \in boundaries' : Stops(b) => b = Stopping
           \/ \E c \in boundaries :
                 /\ Stops(c) /\ UNCHANGED letter /\ runner' = None
                 /\ \A b \in boundaries' :
                       b \in boundaries \ {c} \/ b = [c EXCEPT !.step = "cancelling"]
<1>1. boundaries \subseteq Boundary  BY DEF SessionInv, TypeOK
<1>2. CASE UNCHANGED boundaries  BY <1>2
<1>3. ASSUME NEW e \in Entries,
             \/ Admit(e) \/ CancelQueued(e) \/ Lease(e) \/ LeaseLapses(e) \/ Deliver(e)
             \/ \E to \in 0..Cardinality(Entries) : ReorderQueued(e, to)
      PROVE  UNCHANGED boundaries
  BY <1>3
  DEF Admit, CancelQueued, Lease, LeaseLapses, ReorderQueued, processVars,
      Deliver, CheckBusy, ClaimSlot, GateClosed, AckPersisted, SettlePersisted, AppendNotice,
      HandOver, Refuse, ReleaseClaim, Acknowledge, RecordStarted
<1>4. CASE Resolve \/ AskQuestion
  BY <1>4, <1>2 DEF Resolve, AskQuestion, processVars
<1>5. CASE CrashAndRecover  BY <1>5 DEF CrashAndRecover
<1>6. CASE Dismiss
  <2> DEFINE c == [Stopping EXCEPT !.step = "closed", !.letter = "D", !.dismissed = question.id]
  <2>1. boundaries' = boundaries \cup {c} /\ c.step = "closed"  BY <1>6 DEF Dismiss, Stopping
  <2> HIDE DEF c
  <2> QED  BY <2>1 DEF Stops
<1>7. CASE WatchdogStops
  <2> DEFINE c == [Stopping EXCEPT !.step = "closed", !.letter = "W"]
  <2>1. /\ letter = "P" /\ runner = None /\ UNCHANGED runner /\ ~Cancelling
        /\ \/ boundaries' = boundaries \cup {c}
           \/ boundaries' = boundaries \cup {Stopping} /\ UNCHANGED letter
    BY <1>7 DEF WatchdogStops
  <2>2. c.step = "closed"  BY DEF Stopping
  <2> HIDE DEF c
  <2> QED  BY <2>1, <2>2 DEF Stops, Cancelling
<1>8. ASSUME NEW v \in {"D", "B", "E", "W"}, RunnerEnds(v)
      PROVE  \A b \in boundaries' : Stops(b) => b \in boundaries
  <2> DEFINE c == [Stopping EXCEPT !.step = "closing", !.letter = v,
                                   !.task = items[runner].task]
  <2>1. boundaries' = boundaries \cup {c} /\ c.step = "closing"  BY <1>8 DEF RunnerEnds, Stopping
  <2> HIDE DEF c
  <2> QED  BY <2>1 DEF Stops
<1>9. ASSUME NEW c \in boundaries, StopRunner(c)
      PROVE  /\ Stops(c) /\ UNCHANGED letter /\ runner' = None
             /\ \A b \in boundaries' :
                   b \in boundaries \ {c} \/ b = [c EXCEPT !.step = "cancelling"]
  BY <1>9 DEF StopRunner, Move, Stops, schedulerVars
<1>10. ASSUME NEW c \in boundaries, Settle(c), ~StopRunner(c)
       PROVE  \A b \in boundaries' : Stops(b) => b \in boundaries
  <2>1. Drop(c) \/ Move(c, "closed") \/ Move(c, "decided")
    BY <1>10 DEF Settle, CloseTurn, ReadVerdict, CompleteTurn, SettleDismissed
  <2>2. \A step : [c EXCEPT !.step = step].step = step  BY <1>1 DEF Boundary
  <2> QED  BY <2>1, <2>2 DEF Drop, Move, Stops
<1>11. CASE UNCHANGED vars  BY <1>2, <1>11 DEF vars, processVars
<1> QED
  BY <1>2, <1>3, <1>4, <1>5, <1>6, <1>7, <1>8, <1>9, <1>10, <1>11, NotDisturbed DEF Next

LEMMA HostSteady ==
    ASSUME SessionInv, SerialInv, [Next]_vars
    PROVE  HostInv'
<1>1. /\ Undisturbed /\ HostInv /\ FreshInv /\ VerdictMove
      /\ None \notin Entries /\ boundaries \subseteq Boundary
  BY VerdictNext, SchedulerAssumption DEF SerialInv, SessionInv, TypeOK
<1>2. \A e \in Entries : HandOver(e) \/ Refuse(e) => letter # "P"
  BY <1>1, HandOverFresh DEF FreshInv, Ready
\* In P without a turn, with the session being stopped, P stays until the stop ends.
<1>3. ASSUME NEW c \in boundaries, Stops(c)
      PROVE  \/ letter' = "P" /\ runner' = None
             \/ \A b \in boundaries' : ~Stops(b)
  <2>1. letter = "P" /\ runner = None /\ Cancelling  BY <1>1, <1>3 DEF HostInv, Stops, Cancelling
  <2>2. runner' = None  BY <1>2, <2>1, RunnerNext
  <2>3. CASE UNCHANGED letter  BY <2>1, <2>2, <2>3
  <2>4. ASSUME NEW d \in boundaries, CloseTurn(d), d.step = "cancelling"
        PROVE  \A b \in boundaries' : ~Stops(b)
    <3>1. Move(d, "closed") /\ [d EXCEPT !.step = "closed"].step = "closed"
      BY <1>1, <2>4 DEF CloseTurn, Boundary
    <3>2. \A b \in boundaries : Stops(b) => b = d  BY <1>1, <2>4 DEF HostInv, Stops
    <3> QED  BY <3>1, <3>2 DEF Move, Stops
  <2>5. ~WatchdogStops /\ ~Dismiss  BY <2>1 DEF WatchdogStops, Dismiss
  <2>6. \A v : ~RunnerEnds(v)  BY <2>1 DEF RunnerEnds
  <2> QED  BY <1>1, <1>2, <2>1, <2>3, <2>4, <2>5, <2>6 DEF VerdictMove
<1>4. ASSUME runner' # None  PROVE letter' = "P"
  <2>1. CASE \E e \in Entries : HandOver(e)  BY <2>1 DEF HandOver, BeginTurn
  <2>2. CASE runner' = runner
    <3>1. letter = "P" /\ runner # None  BY <1>1, <1>4, <2>2 DEF HostInv
    <3>2. \A b \in boundaries : b.step # "cancelling"  BY <1>1, <3>1 DEF HostInv, Stops
    <3>3. ~Dismiss /\ \A v : ~RunnerEnds(v)  BY <1>4, <3>1 DEF Dismiss, RunnerEnds
    <3> QED  BY <1>1, <3>1, <3>2, <3>3 DEF VerdictMove
  <2> QED  BY <1>4, <2>1, <2>2, RunnerNext
<1>5. CASE \A b \in boundaries' : Stops(b) => b \in boundaries
  BY <1>1, <1>3, <1>4, <1>5 DEF HostInv, Stops
<1>6. CASE /\ letter = "P" /\ UNCHANGED letter /\ runner = None /\ UNCHANGED runner
           /\ \A b \in boundaries' : Stops(b) => b = Stopping
  BY <1>4, <1>6 DEF HostInv, Stops
<1>7. ASSUME NEW c \in boundaries, Stops(c), UNCHANGED letter, runner' = None,
             \A b \in boundaries' : b \in boundaries \ {c} \/ b = [c EXCEPT !.step = "cancelling"]
      PROVE  HostInv'
  <2>1. letter = "P" /\ \A b \in boundaries : Stops(b) => b = c  BY <1>1, <1>7 DEF HostInv
  <2>2. \A b \in boundaries' : Stops(b) => b = [c EXCEPT !.step = "cancelling"]  BY <1>7, <2>1
  <2> QED  BY <1>7, <2>1, <2>2 DEF HostInv, Stops
<1> QED  BY <1>1, <1>5, <1>6, <1>7, StopsNext

\* Only a turn that asks opens a question.
LEMMA QuestionOpens ==
    ASSUME SessionInv, [Next]_vars, ~question.open, ~AskQuestion
    PROVE  ~question'.open
<1>1. question \in Question  BY DEF SessionInv, TypeOK
<1>2. ASSUME NEW e \in Entries, Admit(e)  PROVE ~question'.open
  BY <1>1, <1>2 DEF Admit, Question
<1>3. ASSUME NEW e \in Entries, Deliver(e)  PROVE ~question'.open
  <2>1. BeginTurn(e) => ~question'.open  BY DEF BeginTurn, NoQuestion
  <2> QED
    BY <1>3, <2>1
    DEF Deliver, CheckBusy, ClaimSlot, GateClosed, AckPersisted, SettlePersisted, AppendNotice,
        HandOver, Refuse, ReleaseClaim, Acknowledge, RecordStarted, schedulerVars
<1>4. ASSUME NEW e \in Entries,
             \/ CancelQueued(e) \/ InsertQueued(e) \/ Lease(e) \/ LeaseLapses(e)
             \/ \E to \in 0..Cardinality(Entries) : ReorderQueued(e, to)
      PROVE  UNCHANGED question
  BY <1>4 DEF CancelQueued, InsertQueued, Lease, LeaseLapses, ReorderQueued
<1>5. CASE Dismiss  BY <1>1, <1>5 DEF Dismiss, Question
<1>6. CASE ReleaseTick \/ Resolve \/ CancelTurn \/ WatchdogStops \/ CrashAndRecover
  BY <1>6 DEF ReleaseTick, Resolve, CancelTurn, WatchdogStops, CrashAndRecover, schedulerVars
<1>7. ASSUME NEW v \in {"D", "B", "E", "W"}, RunnerEnds(v)  PROVE UNCHANGED question
  BY <1>7 DEF RunnerEnds
<1>8. ASSUME NEW b \in boundaries, Settle(b)  PROVE UNCHANGED question
  BY <1>8
  DEF Settle, StopRunner, CloseTurn, ReadVerdict, CompleteTurn, SettleDismissed, schedulerVars
<1>9. CASE UNCHANGED vars  BY <1>9 DEF vars, schedulerVars
<1> QED
  BY <1>2, <1>3, <1>4, <1>5, <1>6, <1>7, <1>8, <1>9 DEF Next

LEMMA SerialInit ==
    ASSUME \A kind \in {"stall", "cancel", "insert"} : Budget[kind] = 0, Init
    PROVE  SerialInv
<1>1. /\ left = Budget /\ tick = None /\ runner = None /\ boundaries = {}
      /\ sched = NewSchedule /\ \A e \in Entries : pc[e] = "idle"
  BY DEF Init, SchedulerInit
<1>2. ~HasActive  BY <1>1 DEF HasActive, NewSchedule
<1>3. BudgetInv
  <2>1. question = NoQuestion  BY DEF Init, SchedulerInit
  <2> QED  BY <1>1, <2>1 DEF BudgetInv, NoQuestion
<1> QED
  BY <1>1, <1>2, <1>3
  DEF SerialInv, Undisturbed, Alone, HostInv, FreshInv, Fresh, Waiting, ClaimInv, UnderWay,
      OwnerInv, IsActiveReplay

\* No disturbance comes back, and only a turn that asks opens a question.
LEMMA BudgetNext ==
    ASSUME SessionInv, BudgetInv, [Next]_vars
    PROVE  BudgetInv'
<1>1. TypeOK /\ question \in Question  BY DEF SessionInv, TypeOK
<1>2. \A kind \in Disturbances : Budget[kind] = 0 => left'[kind] = 0
  BY <1>1, SpentStays DEF BudgetInv
<1>3. ASSUME Budget["ask"] = 0  PROVE ~question'.open
  <2>1. "ask" \in Disturbances  BY DEF Disturbances
  <2>2. ~AskQuestion  BY <1>3, <2>1 DEF BudgetInv, AskQuestion, Spend
  <2> QED  BY <1>3, <2>2, QuestionOpens DEF BudgetInv
<1> QED  BY <1>2, <1>3 DEF BudgetInv

LEMMA SerialNext ==
    ASSUME SessionInv, SerialInv, [Next]_vars
    PROVE  SerialInv'
<1>1. TypeOK /\ Undisturbed /\ Alone  BY DEF SessionInv, SerialInv
<1> QED
  BY <1>1, UndisturbedStays, AloneNext, HostSteady, FreshNext, ClaimNext, OwnerNext, BudgetNext
  DEF SerialInv

LEMMA SerialSafe ==
    ASSUME \A kind \in {"stall", "cancel", "insert"} : Budget[kind] = 0
    PROVE  Spec => []SerialInv
<1>1. Init => SerialInv  BY SerialInit
<1>2. SessionInv /\ SerialInv /\ [Next]_vars => SerialInv'  BY SerialNext
<1> QED  BY <1>1, <1>2, SessionSafe, PTL DEF Spec

\* A turn begins by a hand-over.
LEMMA BeginsBy ==
    ASSUME SessionInv, [Next]_vars, NEW e \in Entries, Begins(e)
    PROVE  HandOver(e)
<1>1. runs \in [Entries -> Nat]  BY TypedFacts
<1>2. ASSUME NEW f \in Entries, Deliver(f)  PROVE HandOver(e)
  BY <1>1, <1>2
  DEF Deliver, CheckBusy, ClaimSlot, GateClosed, AckPersisted, SettlePersisted, AppendNotice,
      HandOver, Refuse, ReleaseClaim, Acknowledge, RecordStarted, Begins
<1>3. ASSUME NEW f \in Entries,
             \/ Admit(f) \/ CancelQueued(f) \/ InsertQueued(f) \/ Lease(f) \/ LeaseLapses(f)
             \/ \E to \in 0..Cardinality(Entries) : ReorderQueued(f, to)
      PROVE  UNCHANGED runs
  BY <1>3
  DEF Admit, CancelQueued, InsertQueued, Lease, LeaseLapses, ReorderQueued, processVars
<1>4. ASSUME \/ ReleaseTick \/ Resolve \/ AskQuestion \/ CancelTurn \/ WatchdogStops \/ Dismiss
             \/ CrashAndRecover
             \/ \E v \in {"D", "B", "E", "W"} : RunnerEnds(v)
             \/ \E b \in boundaries : Settle(b)
             \/ UNCHANGED vars
      PROVE  UNCHANGED runs
  BY <1>4
  DEF ReleaseTick, Resolve, AskQuestion, CancelTurn, WatchdogStops, Dismiss, CrashAndRecover,
      RunnerEnds, Settle, StopRunner, CloseTurn, ReadVerdict, CompleteTurn, SettleDismissed,
      vars, processVars
<1> QED  BY <1>2, <1>3, <1>4 DEF Next, Begins

\* Work that only waits its turn starts after a success, or as the first thing the
\* session does: W, B and E leave it queued (scheduler.js selectSessionItem, "Only D
\* drains the FIFO").  It holds through refusals, restarts, operator decisions and
\* leases that lapse under a delivery still under way, in a session whose tick is not
\* given up and whose turns are neither cancelled nor overtaken: each of those three
\* lets a verdict change between the moment the scheduler reads it and the hand-over.
\* Questions are covered too, unless a lease lapses under a delivery as well: then
\* the W of a question may take its direct mark from a message that is being handed
\* over.
THEOREM SessionOnlySuccessDrains ==
    ASSUME \A kind \in {"stall", "cancel", "insert"} : Budget[kind] = 0,
           Budget["ask"] = 0 \/ Budget["lapse"] = 0
    PROVE  Spec => OnlySuccessDrains
<1> DEFINE A == \A e \in Entries : Begins(e) /\ Staged(e) => letter \in {"D", None}
<1>1. SessionInv /\ SerialInv /\ [Next]_vars => [A]_vars
  <2> SUFFICES ASSUME SessionInv, SerialInv, [Next]_vars,
                      NEW e \in Entries, Begins(e), Staged(e)
               PROVE  letter \in {"D", None}
    OBVIOUS
  <2>1. Fresh(e)  BY BeginsBy, HandOverFresh
  <2> QED  BY <2>1 DEF SerialInv, FreshInv, Ready, Steady
<1>2. OnlySuccessDrains <=> [][A]_vars  BY DEF OnlySuccessDrains
<1> QED  BY <1>1, <1>2, SessionSafe, SerialSafe, PTL DEF Spec

-------------------------------------------------------------------------------
\* The answer to a question.

\* The turns an entry was given only grow, by a hand-over.
LEMMA RunsGrow ==
    ASSUME SessionInv, [Next]_vars, NEW e \in Entries
    PROVE  /\ runs[e] \in Nat /\ runs'[e] \in Nat
           /\ \/ runs'[e] = runs[e]
              \/ HandOver(e) /\ runs[e] = 0 /\ runs'[e] = 1
           /\ HandOver(e) => runs[e] = 0 /\ runs'[e] = 1
<1>1. runs \in [Entries -> Nat] /\ Handed(e)  BY TypedFacts
<1>2. ASSUME HandOver(e)  PROVE runs[e] = 0 /\ runs'[e] = 1
  <2>1. runs' = [runs EXCEPT ![e] = runs[e] + 1] /\ saved[e] \in {"no", "refused"}
    BY <1>2 DEF HandOver, CanHandOver
  <2>2. runs[e] = 0  BY <2>1 DEF SessionInv, HandedInv
  <2> QED  BY <1>1, <2>1, <2>2
<1>3. runs'[e] # runs[e] => HandOver(e)  BY BeginsBy DEF Begins
<1> QED  BY <1>1, <1>2, <1>3

\* What changes the question that is asked.
QuestionMove ==
    \/ question'.id = question.id
    \/ question'.id = None /\ \E e \in Entries : HandOver(e) \/ Refuse(e)
    \/ AskQuestion /\ question'.id = runner

LEMMA QuestionNext ==
    ASSUME SessionInv, [Next]_vars
    PROVE  QuestionMove
<1>1. question \in Question  BY DEF SessionInv, TypeOK
<1>2. CASE UNCHANGED question  BY <1>2 DEF QuestionMove
<1>3. ASSUME NEW e \in Entries, Admit(e)  PROVE QuestionMove
  BY <1>1, <1>3 DEF Admit, Question, QuestionMove
<1>4. ASSUME NEW e \in Entries, HandOver(e) \/ Refuse(e)  PROVE QuestionMove
  BY <1>4 DEF HandOver, Refuse, BeginTurn, NoQuestion, QuestionMove
<1>5. ASSUME NEW e \in Entries, Deliver(e), ~HandOver(e), ~Refuse(e)  PROVE UNCHANGED question
  BY <1>5
  DEF Deliver, CheckBusy, ClaimSlot, GateClosed, AckPersisted, SettlePersisted, AppendNotice,
      ReleaseClaim, Acknowledge, RecordStarted, schedulerVars
<1>6. ASSUME NEW e \in Entries,
             \/ CancelQueued(e) \/ InsertQueued(e) \/ Lease(e) \/ LeaseLapses(e)
             \/ \E to \in 0..Cardinality(Entries) : ReorderQueued(e, to)
      PROVE  UNCHANGED question
  BY <1>6 DEF CancelQueued, InsertQueued, Lease, LeaseLapses, ReorderQueued
<1>7. CASE AskQuestion  BY <1>7 DEF AskQuestion, QuestionMove
<1>8. CASE Dismiss  BY <1>1, <1>8 DEF Dismiss, Question, QuestionMove
<1>9. CASE ReleaseTick \/ Resolve \/ CancelTurn \/ WatchdogStops \/ CrashAndRecover
  BY <1>2, <1>9 DEF ReleaseTick, Resolve, CancelTurn, WatchdogStops, CrashAndRecover, schedulerVars
<1>10. ASSUME NEW v \in {"D", "B", "E", "W"}, RunnerEnds(v)  PROVE UNCHANGED question
  BY <1>10 DEF RunnerEnds
<1>11. ASSUME NEW b \in boundaries, Settle(b)  PROVE UNCHANGED question
  BY <1>11
  DEF Settle, StopRunner, CloseTurn, ReadVerdict, CompleteTurn, SettleDismissed, schedulerVars
<1>12. CASE UNCHANGED vars  BY <1>2, <1>12 DEF vars, schedulerVars
<1> QED
  BY <1>2, <1>3, <1>4, <1>5, <1>6, <1>7, <1>8, <1>9, <1>10, <1>11, <1>12 DEF Next

\* The entry the queue is led by, over a step that is no insertion and no restart.
PriorityMove ==
    \/ sched'.priority = sched.priority
    \/ \E e \in Entries : Admit(e) /\ ClassOf(e) = "answer" /\ sched'.priority = e
    \/ CancelQueued(sched.priority)
    \/ ClaimSlot(sched.priority)
    \/ HasActive /\ sched.active.entry = sched.priority

LEMMA PriorityDeliver ==
    ASSUME TypeOK, NEW e \in Entries, Deliver(e)
    PROVE  PriorityMove
<1>1. items \in [Entries -> Item] /\ sched \in Schedule /\ letter \in Letters \cup {None}
  BY DEF TypeOK
<1>2. CASE UNCHANGED sched  BY <1>2 DEF PriorityMove
<1>3. CASE ClaimSlot(e)
  <2>1. sched'.priority = sched.priority \/ sched.priority = e
    BY <1>1, <1>3, ClaimedIs DEF ClaimSlot
  <2> QED  BY <1>3, <2>1 DEF PriorityMove
<1>4. CASE SettlePersisted(e)
  <2>1. \/ UNCHANGED sched
        \/ sched' = Assessing
        \/ HasActive /\ \E v \in {"D", letter} : v # None /\ sched' = Completed(v, None)
    BY <1>4 DEF SettlePersisted, IsActiveReplay, Letters
  <2>2. ASSUME HasActive, NEW v \in {"D", letter}, v # None, sched' = Completed(v, None)
        PROVE  PriorityMove
    <3>1. v \in Letters /\ None \in Nobody  BY <1>1, <2>2 DEF Letters, Nobody
    <3>2. sched'.priority = sched.priority \/ sched.priority = sched.active.entry
      BY <1>1, <2>2, <3>1, CompletedIs
    <3> QED  BY <2>2, <3>2 DEF PriorityMove
  <2>3. CASE sched' = Assessing  BY <1>1, <2>3, AssessingIs DEF PriorityMove
  <2> QED  BY <1>2, <2>1, <2>2, <2>3
<1>5. CASE ReleaseClaim(e) /\ ~UNCHANGED sched
  <2>1. HasActive /\ sched' = Released(e)  BY <1>5 DEF ReleaseClaim, IsActiveReplay
  <2>2. sched'.priority = sched.priority \/ sched.priority = sched.active.entry
    <3> DEFINE l == IF sched.letter = None THEN "D" ELSE sched.letter
    <3>1. l \in Letters \cup {None}  BY <1>1 DEF Letters, Schedule
    <3>2. CASE Released(e) = DropPriority(Idle(sched, l), e) /\ sched.active.entry = e
      <4> HIDE DEF l
      <4>1. Idle(sched, l) \in Schedule  BY <1>1, <3>1, IdleTyped
      <4> QED  BY <1>1, <2>1, <3>2, <4>1, IdleIs, DropIs
    <3>3. CASE Released(e) = [sched EXCEPT !.active.delivery = sched.active.entry,
                                           !.state = "frozen", !.reason = "other"]
      BY <1>1, <2>1, <3>3 DEF Schedule
    <3> QED  BY <3>2, <3>3 DEF Released
  <2> QED  BY <2>1, <2>2 DEF PriorityMove
<1>6. CASE RecordStarted(e) /\ ~UNCHANGED sched
  <2>1. HasActive /\ sched' = Started  BY <1>6 DEF RecordStarted, IsActiveReplay
  <2> QED  BY <1>1, <2>1, StartedIs DEF PriorityMove
<1>7. CASE CheckBusy(e) \/ GateClosed(e) \/ AckPersisted(e) \/ AppendNotice(e) \/ HandOver(e)
           \/ Refuse(e) \/ Acknowledge(e)
  BY <1>2, <1>7
  DEF CheckBusy, GateClosed, AckPersisted, AppendNotice, HandOver, Refuse, Acknowledge,
      schedulerVars
<1> QED  BY <1>2, <1>3, <1>4, <1>5, <1>6, <1>7 DEF Deliver

LEMMA PriorityNext ==
    ASSUME TypeOK, [Next]_vars, ~CrashAndRecover, \A e \in Entries : ~InsertQueued(e)
    PROVE  PriorityMove
<1>1. /\ sched \in Schedule /\ question \in Question /\ boundaries \subseteq Boundary
      /\ OpenQuestion \in Nobody
  BY OpenQuestionTyped DEF TypeOK
<1>2. CASE UNCHANGED sched  BY <1>2 DEF PriorityMove
<1>3. ASSUME NEW e \in Entries, Admit(e)  PROVE PriorityMove
  <2>1. (sched'.priority = e /\ ClassOf(e) = "answer") \/ sched'.priority = sched.priority
    BY <1>1, <1>3 DEF Admit, Schedule
  <2> QED  BY <1>3, <2>1 DEF PriorityMove
<1>4. ASSUME NEW e \in Entries, CancelQueued(e)  PROVE PriorityMove
  <2>1. sched'.priority = sched.priority \/ sched.priority = e
    BY <1>1, <1>4, DropIs DEF CancelQueued
  <2> QED  BY <1>4, <2>1 DEF PriorityMove
<1>5. ASSUME NEW e \in Entries,
             Lease(e) \/ LeaseLapses(e) \/ \E to \in 0..Cardinality(Entries) : ReorderQueued(e, to)
      PROVE  PriorityMove
  BY <1>2, <1>5 DEF Lease, LeaseLapses, ReorderQueued
<1>6. ASSUME NEW e \in Entries, Deliver(e)  PROVE PriorityMove  BY <1>6, PriorityDeliver
<1>7. CASE ReleaseTick \/ AskQuestion \/ CancelTurn \/ WatchdogStops \/ Dismiss
  BY <1>2, <1>7 DEF ReleaseTick, AskQuestion, CancelTurn, WatchdogStops, Dismiss, schedulerVars
<1>8. CASE Resolve  BY <1>1, <1>8, IdleIs DEF Resolve, PriorityMove
<1>9. ASSUME NEW v \in {"D", "B", "E", "W"}, RunnerEnds(v)  PROVE PriorityMove
  BY <1>2, <1>9 DEF RunnerEnds
<1>10. ASSUME NEW b \in boundaries, Settle(b)  PROVE PriorityMove
  <2>1. CASE StopRunner(b) \/ ReadVerdict(b)
    BY <1>2, <2>1 DEF StopRunner, ReadVerdict, schedulerVars
  <2>2. CASE CloseTurn(b)  BY <1>1, <1>2, <2>2, AssessingIs DEF CloseTurn, PriorityMove
  <2>3. CASE CompleteTurn(b) /\ ~UNCHANGED sched
    <3>1. /\ b.letter \in Letters /\ HasActive /\ sched' = Completed(b.letter, OpenQuestion)
      BY <1>1, <2>3 DEF Boundary, CompleteTurn
    <3>2. sched'.priority = sched.priority \/ sched.priority = sched.active.entry
      BY <1>1, <3>1, CompletedIs
    <3> QED  BY <3>1, <3>2 DEF PriorityMove
  <2>4. CASE SettleDismissed(b)
    BY <1>1, <1>2, <2>4, IdleIs DEF SettleDismissed, PriorityMove
  <2> QED  BY <1>2, <1>10, <2>1, <2>2, <2>3, <2>4 DEF Settle
<1>11. CASE UNCHANGED vars  BY <1>2, <1>11 DEF vars, schedulerVars
<1> QED
  BY <1>3, <1>4, <1>5, <1>6, <1>7, <1>8, <1>9, <1>10, <1>11 DEF Next

OneAnswer == \A a, b \in Entries : ClassOf(a) = "answer" /\ ClassOf(b) = "answer" => a = b

\* An answer to the current question on its way to the slot.
Asked(a) ==
    /\ IsAnswer(a) /\ items[a].request = question.id
    /\ items[a].state = "pending" \/ pc[a] \in {"taken", "checked"}

\* Questions are asked by turns that were given, and answers name one.
AskerInv ==
    /\ runner # None => runs[runner] > 0
    /\ question.id # None => runs[question.id] > 0
    /\ \A e \in Entries :
          /\ items[e].kind = "answer" => ClassOf(e) = "answer" /\ items[e].request # None
          /\ items[e].request \notin {None, question.id} =>
                runs[items[e].request] > 0 /\ runner # items[e].request

\* No lease outlives the delivery that holds it.
LeaseInv ==
    \A e \in Entries :
        items[e].state = "leased" => pc[e] \in {"taken", "checked", "claimed", "accepted"}

\* Nothing is refused, no delivery outlives its lease, and the process does not restart.
CalmInv ==
    /\ \A kind \in {"crash", "refuse", "lapse"} : left[kind] = 0
    /\ Budget["lapse"] = 0
    /\ LeaseInv

LeadInv ==
    \A e \in Entries :
        Asked(e) => items[e].direct /\ sched.priority = e /\ (HasActive => sched.active.entry # e)

AnswerInv == CalmInv /\ AskerInv /\ LeadInv

LEMMA NoTrouble ==
    ASSUME CalmInv
    PROVE  ~CrashAndRecover /\ ~Spend("refuse")
BY DEF CalmInv, CrashAndRecover, Spend

\* Every lease has its delivery, and none lapses under way.
LEMMA NoLapse ==
    ASSUME CalmInv, NEW e \in Entries
    PROVE  ~LeaseLapses(e)
BY DEF CalmInv, LeaseInv, LeaseLapses, Spend

\* What an admission records of a message, and of the queue's head.
LEMMA AdmitIs ==
    ASSUME items \in [Entries -> Item], question \in Question, sched \in Schedule,
           NEW e \in Entries, Admit(e)
    PROVE  /\ items[e].state = "absent" /\ items'[e].state = "pending"
           /\ items'[e].kind = "answer" <=> ClassOf(e) = "answer"
           /\ items'[e].request = IF ClassOf(e) = "answer" THEN question.id ELSE None
           /\ ClassOf(e) = "answer" => question.id # None
           /\ ClassOf(e) = "answer" => items'[e].direct
           /\ ClassOf(e) = "answer" => sched'.priority = e
           /\ sched'.active = sched.active
           /\ question'.id = question.id
<1> DEFINE kindOf == CASE ClassOf(e) = "answer" -> "answer"
                    [] ClassOf(e) = "continuation" -> "continuation"
                    [] ClassOf(e) \in {"callback", "result", "notice"} -> "callback"
                    [] ClassOf(e) = "typed" /\ HasActive /\ letter # "P" -> "continuation"
                    [] OTHER -> "task"
<1>1. kindOf = "answer" <=> ClassOf(e) = "answer"  OBVIOUS
<1>2. /\ items[e].state = "absent"
      /\ ClassOf(e) = "answer" => question.id # None
      /\ question' = IF kindOf = "answer" THEN [question EXCEPT !.open = FALSE] ELSE question
      /\ sched' = [sched EXCEPT
              !.priority = IF kindOf = "answer" THEN e ELSE @,
              !.awaiting = IF kindOf = "answer" /\ ~HasActive /\ question.open
                           THEN question.id ELSE @]
  BY DEF Admit
<1>3. \E n, t : items'[e] =
         [NewItem EXCEPT !.state = "pending", !.sequence = n, !.kind = kindOf, !.task = t,
                         !.request = IF kindOf = "answer" THEN question.id ELSE None,
                         !.direct = IsTyped(e) \/ (IsWork(e) /\ kindOf # "task")]
  BY DEF Admit
<1> HIDE DEF kindOf
<1>4. /\ items'[e].state = "pending" /\ items'[e].kind = kindOf
      /\ items'[e].request = IF kindOf = "answer" THEN question.id ELSE None
      /\ items'[e].direct = (IsTyped(e) \/ (IsWork(e) /\ kindOf # "task"))
  BY <1>3 DEF NewItem
<1>5. ClassOf(e) = "answer" => items'[e].direct  BY <1>4 DEF IsTyped
<1>6. question'.id = question.id  BY <1>2 DEF Question
<1>7. /\ ClassOf(e) = "answer" => sched'.priority = e
      /\ sched'.active = sched.active
  BY <1>1, <1>2 DEF Schedule
<1> QED  BY <1>1, <1>2, <1>4, <1>5, <1>6, <1>7

LEMMA LeaseInvNext ==
    ASSUME SessionInv, SerialInv, CalmInv, [Next]_vars
    PROVE  LeaseInv'
<1>1. /\ Undisturbed /\ Alone /\ LeaseInv /\ pc \in [Entries -> Phases] /\ ~CrashAndRecover
      /\ items \in [Entries -> Item] /\ ClaimInv /\ None \notin Entries
  BY TypedFacts, NoTrouble, SchedulerAssumption DEF SerialInv, CalmInv, SessionInv, TypeOK
<1> SUFFICES ASSUME NEW e \in Entries, items'[e].state = "leased"
             PROVE  pc'[e] \in {"taken", "checked", "claimed", "accepted"}
  BY DEF LeaseInv
<1>2. CASE Lease(e)  BY <1>1, <1>2 DEF Lease
<1>3. items[e].state = "leased" \/ Lease(e)
  <2>1. ItemMove(e)  BY <1>1, ItemNext
  <2>2. Admit(e) => items'[e].state = "pending"  BY AdmitIs DEF SessionInv, TypeOK
  <2> QED  BY <2>1, <2>2 DEF ItemMove, StagedAgain
<1>4. ASSUME items[e].state = "leased", Deliver(e)
      PROVE  pc'[e] \in {"taken", "checked", "claimed", "accepted"}
  <2>1. pc[e] \in {"taken", "checked", "claimed", "accepted"}  BY <1>1, <1>4 DEF LeaseInv
  <2>2. \A state \in {"pending", "dead-letter", "delivered"} : ~IfHeld(e, state)
    BY <1>1, <1>4, StateSame DEF IfHeld
  <2> QED
    BY <1>1, <1>4, <2>1, <2>2
    DEF Deliver, CheckBusy, ClaimSlot, GateClosed, AckPersisted, SettlePersisted, AppendNotice,
        HandOver, Refuse, ReleaseClaim, Acknowledge, RecordStarted, Goto
<1>5. ASSUME items[e].state = "leased", NEW f \in Entries, f # e, Deliver(f) \/ Lease(f)
      PROVE  pc'[e] = pc[e]
  <2>1. CASE Deliver(f)  BY <1>1, <1>5, <2>1, DeliverAlone
  <2>2. CASE Lease(f)  BY <1>1, <1>5, <2>2 DEF Lease
  <2> QED  BY <1>5, <2>1, <2>2
<1>6. CASE \A f \in Entries : ~Deliver(f) /\ ~Lease(f)
  <2>1. pc'[e] = pc[e]  BY <1>1, <1>6, NotDisturbed, PhaseStays
  <2> QED  BY <1>1, <1>3, <1>6, <2>1 DEF LeaseInv
<1> QED  BY <1>1, <1>2, <1>3, <1>4, <1>5, <1>6 DEF LeaseInv

LEMMA CalmNext ==
    ASSUME SessionInv, SerialInv, CalmInv, [Next]_vars
    PROVE  CalmInv'
<1>1. TypeOK /\ {"crash", "refuse", "lapse"} \subseteq Disturbances
  BY DEF SessionInv, Disturbances
<1>2. \A kind \in {"crash", "refuse", "lapse"} : left'[kind] = 0
  BY <1>1, SpentStays DEF CalmInv
<1> QED  BY <1>2, LeaseInvNext DEF CalmInv

\* A message stays the answer it was admitted as.
LEMMA RequestSame ==
    ASSUME SessionInv, Undisturbed, [Next]_vars, NEW e \in Entries, ~Admit(e)
    PROVE  /\ items'[e].kind = items[e].kind /\ items'[e].request = items[e].request
           /\ Asked(e) => items'[e].direct = items[e].direct
<1>1. ItemMove(e)  BY ItemNext
<1>2. CASE SameWork(e)  BY <1>2 DEF SameRank, SameWork
<1>3. CASE StagedAgain(e)  BY <1>3 DEF SameRank, StagedAgain, Asked, OpenQuestion
<1> QED  BY <1>1, <1>2, <1>3 DEF ItemMove

\* The turn of a message that is handed over, or refused, is the only one.
LEMMA AloneToStart ==
    ASSUME SessionInv, SerialInv, NEW e \in Entries, HandOver(e) \/ Refuse(e)
    PROVE  pc[e] = "claimed" /\ runner = None
<1>1. pc[e] = "claimed" /\ Fresh(e)  BY HandOverFresh
<1>2. letter # "P"  BY <1>1 DEF SerialInv, FreshInv, Ready
<1> QED  BY <1>1, <1>2 DEF SerialInv, HostInv

LEMMA AskerNext ==
    ASSUME SessionInv, SerialInv, AnswerInv, [Next]_vars
    PROVE  AskerInv'
<1>1. /\ Undisturbed /\ AskerInv /\ QuestionMove /\ runner \in Nobody /\ None \notin Entries
      /\ question \in Question /\ items \in [Entries -> Item] /\ sched \in Schedule
      /\ question.id \in Nobody
  BY QuestionNext, TypedFacts, SchedulerAssumption, OpenQuestionTyped
  DEF SerialInv, AnswerInv, SessionInv, TypeOK
<1>2. \A e \in Entries : runs[e] > 0 => runs'[e] > 0  BY RunsGrow
<1>3. ASSUME runner' # None  PROVE runs'[runner'] > 0
  <2>1. CASE UNCHANGED runner
    <3>1. runner \in Entries /\ runs[runner] > 0  BY <1>1, <1>3, <2>1 DEF AskerInv, Nobody
    <3> QED  BY <1>2, <2>1, <3>1
  <2>2. ASSUME NEW e \in Entries, HandOver(e)  PROVE runs'[runner'] > 0
    <3>1. runner' = e  BY <2>2 DEF HandOver
    <3> QED  BY <2>2, <3>1, RunsGrow
  <2> QED  BY <1>3, <2>1, <2>2, RunnerNext
<1>4. ASSUME AskQuestion  PROVE UNCHANGED runner /\ runner \in Entries /\ runs[runner] > 0
  BY <1>1, <1>4 DEF AskQuestion, processVars, AskerInv, Nobody
<1>5. ASSUME question'.id # None  PROVE runs'[question'.id] > 0
  <2>1. CASE question'.id = question.id
    <3>1. question.id \in Entries /\ runs[question.id] > 0  BY <1>1, <1>5, <2>1 DEF AskerInv, Nobody
    <3> QED  BY <1>2, <2>1, <3>1
  <2>2. CASE AskQuestion /\ question'.id = runner  BY <1>2, <1>4, <2>2
  <2> QED  BY <1>1, <1>5, <2>1, <2>2 DEF QuestionMove
<1>6. ASSUME NEW e \in Entries
      PROVE  items'[e].kind = "answer" => ClassOf(e) = "answer" /\ items'[e].request # None
  <2>1. CASE Admit(e)  BY <1>1, <2>1, AdmitIs
  <2>2. CASE ~Admit(e)  BY <1>1, <2>2, RequestSame DEF AskerInv
  <2> QED  BY <2>1, <2>2
<1>7. ASSUME NEW e \in Entries, items'[e].request \notin {None, question'.id}
      PROVE  runs'[items'[e].request] > 0 /\ runner' # items'[e].request
  <2> DEFINE r == items'[e].request
  <2>1. ~Admit(e)  BY <1>1, <1>7, AdmitIs
  <2>2. r = items[e].request /\ r \in Entries
    BY <1>1, <1>7, <2>1, RequestSame DEF Item
  <2>3. runs[r] > 0
    BY <1>1, <2>2 DEF AskerInv
  <2>4. runner' # r
    <3>1. CASE \E f \in Entries : HandOver(f)
      <4>1. PICK f \in Entries : HandOver(f)  BY <3>1
      <4>2. runner' = f /\ runs[f] = 0  BY <4>1, RunsGrow DEF HandOver
      <4> QED  BY <2>3, <4>2
    <3>2. CASE UNCHANGED runner /\ \A f \in Entries : ~HandOver(f)
      <4>1. CASE r # question.id  BY <1>1, <2>2, <3>2, <4>1 DEF AskerInv
      <4>2. CASE r = question.id
        <5>1. question'.id # question.id  BY <1>7, <4>2
        <5>2. CASE \E f \in Entries : Refuse(f)
          BY <1>1, <2>2, <3>2, <5>2, AloneToStart
        <5>3. CASE AskQuestion /\ question'.id = runner  BY <1>7, <3>2, <5>3
        <5> QED  BY <1>1, <3>2, <5>1, <5>2, <5>3 DEF QuestionMove
      <4> QED  BY <4>1, <4>2
    <3> QED  BY <1>1, <2>2, <3>1, <3>2, RunnerNext
  <2> QED  BY <1>2, <2>2, <2>3, <2>4
<1> QED  BY <1>3, <1>5, <1>6, <1>7 DEF AskerInv

\* An answer under way is asked for from its admission on.
LEMMA AskedBefore ==
    ASSUME SessionInv, SerialInv, AnswerInv, [Next]_vars, NEW a \in Entries, Asked(a)', ~Admit(a)
    PROVE  Asked(a)
<1>1. /\ Undisturbed /\ Alone /\ AskerInv /\ QuestionMove /\ ItemMove(a)
      /\ pc \in [Entries -> Phases] /\ items \in [Entries -> Item]
      /\ ~CrashAndRecover /\ ~LeaseLapses(a) /\ None \notin Entries
  BY QuestionNext, ItemNext, TypedFacts, NoTrouble, NoLapse, SchedulerAssumption
  DEF SerialInv, AnswerInv, SessionInv, TypeOK
<1>2. /\ IsAnswer(a) /\ items[a].request = question'.id /\ items[a].request # None
      /\ items'[a].state = "pending" \/ pc'[a] \in {"taken", "checked"}
  <2>1. /\ IsWork(a) /\ items'[a].kind = "answer" /\ items'[a].request = question'.id
        /\ items'[a].state = "pending" \/ pc'[a] \in {"taken", "checked"}
    BY DEF Asked, IsAnswer, IsWork
  <2> QED  BY <1>1, <2>1, RequestSame DEF AskerInv, IsAnswer
<1>3. items[a].request = question.id
  <2>1. CASE AskQuestion /\ question'.id = runner  BY <1>1, <1>2, <2>1 DEF AskerInv
  <2> QED  BY <1>1, <1>2, <2>1 DEF QuestionMove
<1>4. ASSUME Deliver(a), items'[a].state = "pending" \/ pc'[a] \in {"taken", "checked"}
      PROVE  items[a].state = "pending" \/ pc[a] \in {"taken", "checked"}
  <2>1. CASE Refuse(a)
    <3>1. ~AnswerStale(a) /\ runner = None  BY <1>3, <2>1, AloneToStart DEF AnswerStale
    <3> QED  BY <2>1, <3>1, NoTrouble DEF Refuse, AnswerInv
  <2>2. CASE SettlePersisted(a)
    <3>1. pc'[a] = "idle"  BY <1>1, <2>2 DEF SettlePersisted, Finish
    <3>2. items[a].state # "leased"
      <4>1. pc[a] = "settling"  BY <2>2 DEF SettlePersisted
      <4> QED  BY <4>1 DEF AnswerInv, CalmInv, LeaseInv
    <3>3. ~Lease(a)  BY <1>4, DeliverPhase DEF Lease
    <3>4. items'[a].state = items[a].state \/ items[a].state = "pending"
      BY <1>1, <3>2, <3>3 DEF ItemMove, StagedAgain
    <3> QED  BY <1>4, <3>1, <3>4
  <2>3. CASE ~Refuse(a) /\ ~SettlePersisted(a)
    <3>1. \/ pc[a] \in {"taken", "checked"}
          \/ /\ pc'[a] \notin {"taken", "checked"}
             /\ UNCHANGED items \/ IfHeld(a, "delivered")
      BY <1>1, <1>4, <2>3
      DEF Deliver, CheckBusy, ClaimSlot, GateClosed, AckPersisted, AppendNotice, HandOver,
          ReleaseClaim, Acknowledge, RecordStarted, Goto, Finish, CanHandOver, schedulerVars
    <3> QED  BY <1>1, <1>4, <3>1, HeldMove
  <2> QED  BY <2>1, <2>2, <2>3
<1>5. ASSUME ~Deliver(a)
      PROVE  items[a].state = "pending" \/ pc[a] \in {"taken", "checked"}
  <2>1. CASE Lease(a)  BY <2>1 DEF Lease
  <2>2. CASE ~Lease(a)
    <3>1. items'[a].state = "pending" => items[a].state = "pending"
      BY <1>1, <1>5, <2>2 DEF ItemMove, StagedAgain
    <3>2. pc'[a] \in {"taken", "checked"} => pc[a] \in {"taken", "checked"}
      <4>1. ASSUME NEW f \in Entries, Deliver(f)
            PROVE  pc'[a] = "idle"
        BY <1>1, <1>5, <4>1, DeliverAlone
      <4>2. ASSUME NEW f \in Entries, Lease(f)  PROVE pc'[a] = pc[a]
        BY <1>1, <2>2, <4>2 DEF Lease
      <4>3. CASE \A f \in Entries : ~Deliver(f) /\ ~Lease(f)
        BY <1>1, <4>3, NotDisturbed, PhaseStays
      <4> QED  BY <4>1, <4>2, <4>3
    <3> QED  BY <1>2, <3>1, <3>2
  <2> QED  BY <2>1, <2>2
<1> QED  BY <1>2, <1>3, <1>4, <1>5 DEF Asked

\* The slot's owner, over a step, is the same or the message that claims it.
LEMMA OwnerMove ==
    ASSUME SessionInv, [Next]_vars, HasActive'
    PROVE  \/ HasActive /\ sched'.active.entry = sched.active.entry
           \/ \E e \in Entries : ClaimSlot(e) /\ sched'.active.entry = e
BY OccupantNext DEF OccupantMove, SameOccupant, IsActiveReplay

\* A message that claims the slot, or is removed, is no longer on its way to it.
LEMMA NotAskedAgain ==
    ASSUME SessionInv, SerialInv, CalmInv, NEW a \in Entries, ClaimSlot(a) \/ CancelQueued(a)
    PROVE  ~Asked(a)'
<1>1. /\ pc \in [Entries -> Phases] /\ items \in [Entries -> Item] /\ ClaimInv
  BY TypedFacts DEF SerialInv, SessionInv, TypeOK
<1>2. CASE ClaimSlot(a)
  BY <1>1, <1>2 DEF ClaimSlot, Goto, Asked
<1>3. CASE CancelQueued(a)
  <2>1. /\ items[a].state = "pending" /\ items'[a].state = "cancelled" /\ UNCHANGED pc
    BY <1>1, <1>3, StateSame DEF CancelQueued, CanCancelQueued, processVars
  <2>2. pc[a] \notin {"taken", "checked"}  BY <1>1, <2>1 DEF ClaimInv, Waiting, CalmInv
  <2> QED  BY <2>1, <2>2 DEF Asked
<1> QED  BY <1>2, <1>3

LEMMA LeadNext ==
    ASSUME OneAnswer, SessionInv, SerialInv, AnswerInv, [Next]_vars
    PROVE  LeadInv'
<1>1. /\ Undisturbed /\ AskerInv /\ LeadInv /\ ClaimInv /\ OwnerInv /\ PriorityMove
      /\ question \in Question /\ items \in [Entries -> Item] /\ sched \in Schedule
  BY PriorityNext, NoTrouble, NotDisturbed
  DEF SerialInv, AnswerInv, SessionInv, TypeOK
<1> SUFFICES ASSUME NEW a \in Entries, Asked(a)'
             PROVE  items'[a].direct /\ sched'.priority = a
                    /\ (HasActive' => sched'.active.entry # a)
  BY DEF LeadInv
<1>2. CASE Admit(a)
  <2>1. ClassOf(a) = "answer"
    <3>1. items'[a].kind = "answer"  BY DEF Asked, IsAnswer
    <3> QED  BY <1>1, <1>2, <3>1, AdmitIs
  <2>2. HasActive => sched.active.entry # a
    <3>1. ~Known(a)  BY <1>1, <1>2, AdmitIs DEF Known
    <3> QED  BY <1>1, <3>1 DEF OwnerInv
  <2> QED  BY <1>1, <1>2, <2>1, <2>2, AdmitIs DEF HasActive
<1>3. CASE ~Admit(a)
  <2>1. Asked(a) /\ items[a].direct /\ sched.priority = a
        /\ (HasActive => sched.active.entry # a)
    BY <1>1, <1>3, AskedBefore DEF LeadInv
  <2>2. items'[a].direct  BY <1>1, <1>3, <2>1, RequestSame
  <2>3. ~ClaimSlot(a) /\ ~CancelQueued(a)  BY NotAskedAgain DEF AnswerInv
  <2>4. ASSUME NEW e \in Entries, Admit(e)  PROVE ClassOf(e) # "answer"
    <3>1. ClassOf(a) = "answer"  BY <1>1, <2>1 DEF Asked, IsAnswer, AskerInv
    <3> QED  BY <1>3, <2>4, <3>1 DEF OneAnswer
  <2>5. sched'.priority = a  BY <1>1, <2>1, <2>3, <2>4 DEF PriorityMove
  <2>6. HasActive' => sched'.active.entry # a  BY <2>1, <2>3, OwnerMove
  <2> QED  BY <2>2, <2>5, <2>6
<1> QED  BY <1>2, <1>3

LEMMA AnswerInit ==
    ASSUME \A kind \in {"refuse", "lapse", "crash"} : Budget[kind] = 0, Init
    PROVE  AnswerInv
<1>1. /\ left = Budget /\ runner = None /\ question.id = None
      /\ \A e \in Entries : /\ items[e].state = "absent" /\ items[e].kind = "task"
                            /\ items[e].request = None /\ pc[e] = "idle"
  BY DEF Init, SchedulerInit, NoQuestion, NewItem
<1> QED  BY <1>1 DEF AnswerInv, CalmInv, AskerInv, LeaseInv, LeadInv, Asked, IsAnswer

LEMMA AnswerNext ==
    ASSUME OneAnswer, SessionInv, SerialInv, AnswerInv, [Next]_vars
    PROVE  AnswerInv'
<1> QED  BY CalmNext, AskerNext, LeadNext DEF AnswerInv

LEMMA AnswerSafe ==
    ASSUME OneAnswer,
           \A kind \in {"stall", "lapse", "cancel", "insert", "refuse", "crash"} :
               Budget[kind] = 0
    PROVE  Spec => []AnswerInv
<1>1. Init => AnswerInv  BY AnswerInit
<1>2. SessionInv /\ SerialInv /\ AnswerInv /\ [Next]_vars => AnswerInv'  BY AnswerNext
<1>3. Spec => []SerialInv  BY SerialSafe
<1> QED  BY <1>1, <1>2, <1>3, SessionSafe, PTL DEF Spec

\* The scheduler takes the entry the queue is led by, when it can take any.
LEMMA LeaderSelected ==
    ASSUME NEW a \in Entries, NEW e \in Entries, Selected(e), ~HasActive,
           IsAnswer(a), items[a].request = question.id,
           Open(a), items[a].direct, sched.priority = a
    PROVE  e = a
<1>1. ~Held(a)  BY DEF Held, OpenQuestion
<1>2. a \in Selectable
  BY <1>1 DEF Selected, Selectable, Drains
<1>3. e # a => ~Before(e, a)  BY DEF Before
<1> QED  BY <1>2, <1>3 DEF Selected

\* While the answer to the current question is queued and the slot is free, no
\* other message is taken from the queue (scheduler.js admit, priorityEntryId): the
\* answer keeps the head of the queue from its admission to its claim.  It holds
\* through removals, reorderings, dismissals and parked slots, in a session with one
\* answer, whose process does not restart, whose deliveries keep their leases and are
\* neither refused nor given up waiting for, and whose turns are neither cancelled
\* nor overtaken.
THEOREM SessionAnswerLeads ==
    ASSUME OneAnswer,
           \A kind \in {"stall", "lapse", "cancel", "insert", "refuse", "crash"} :
               Budget[kind] = 0
    PROVE  Spec => AnswerLeads
<1> DEFINE A == \A e, a \in Entries :
                   /\ items[e].state = "pending" /\ items'[e].state = "leased"
                   /\ items[a].state = "pending" /\ IsAnswer(a) /\ items[a].request = question.id
                   /\ ~HasActive
                   => e = a
<1>1. SessionInv /\ SerialInv /\ AnswerInv /\ [Next]_vars => [A]_vars
  <2> SUFFICES ASSUME SessionInv, SerialInv, AnswerInv, [Next]_vars,
                      NEW e \in Entries, NEW a \in Entries,
                      items[e].state = "pending", items'[e].state = "leased",
                      items[a].state = "pending", IsAnswer(a), items[a].request = question.id,
                      ~HasActive
               PROVE  e = a
    OBVIOUS
  <2>1. Lease(e)
    <3>1. ItemMove(e)  BY ItemNext DEF SerialInv
    <3>2. ~Admit(e)  BY DEF Admit
    <3> QED  BY <3>1, <3>2 DEF ItemMove, StagedAgain
  <2>2. items[a].direct /\ sched.priority = a  BY DEF AnswerInv, LeadInv, Asked
  <2> QED  BY <2>1, <2>2, LeaderSelected DEF Lease, Open
<1>2. AnswerLeads <=> [][A]_vars  BY DEF AnswerLeads
<1>3. Spec => []SerialInv  BY SerialSafe
<1> QED  BY <1>1, <1>2, <1>3, AnswerSafe, SessionSafe, PTL DEF Spec

-------------------------------------------------------------------------------
\* A session that does one thing at a time: nothing disturbs it, its messages are
\* of one task and start a turn each, and no tick acts inside a chain.

\* The end of a turn, rather than the dismissal of a question.
TurnEnd(b) == b.dismissed = None

\* What is known of one message.
TurnOf(e) ==
    /\ pc[e] # "settling"
    /\ pc[e] = "claimed" => saved[e] \in {"no", "refused"}
    /\ saved[e] = "handed" => \/ items[e].state = "delivered"
                              \/ items[e].state = "leased" /\ pc[e] = "accepted"
    /\ pc[e] = "refused" => runner = None
    /\ pc[e] \in {"taken", "checked"} => ~HasActive
    /\ pc[e] \in {"claimed", "refused"} =>
          HasActive /\ sched.active.entry = e /\ ~sched.active.started

TurnInv ==
    /\ letter = "P" <=> runner # None
    /\ runner # None => HasActive
    /\ sched.state # "frozen"
    /\ question.open => question.id # None
    /\ \A e \in Entries : TurnOf(e)
    /\ \A b \in boundaries :
          /\ ~Stops(b)
          /\ TurnEnd(b) => /\ HasActive /\ runner = None
                           /\ \A e \in Entries : pc[e] = "idle"
                           /\ \A c \in boundaries : c = b
          /\ ~TurnEnd(b) => b.step = "closed" /\ sched.state # "assessing"

QuietSession ==
    /\ SessionInv /\ SerialInv /\ CalmInv /\ SlotInv /\ TurnInv
    /\ ~TickAnywhere /\ Budget["crash"] = 0 /\ OneTask /\ AllStart

\* No turn is being given to a message while one runs, and none is left over.
LEMMA NoneClaimed ==
    ASSUME QuietSession, runner # None, NEW e \in Entries
    PROVE  pc[e] # "claimed"
<1>1. pc[e] = "claimed" => Fresh(e)  BY DEF QuietSession, TurnInv, TurnOf, Fresh, Waiting
<1>2. letter = "P"  BY DEF QuietSession, TurnInv
<1> QED  BY <1>1, <1>2 DEF QuietSession, SerialInv, FreshInv, Ready

\* When the event loop is drained and a turn runs, nothing else is under way.
LEMMA DrainedTurn ==
    ASSUME QuietSession, Drained
    PROVE  /\ boundaries = {}
           /\ runner # None => \A e \in Entries : pc[e] = "idle"
BY NoneClaimed DEF QuietSession, Drained, TurnInv, TurnOf, Stops

\* The queue is only looked at while the slot is free.
LEMMA LeaseFree ==
    ASSUME QuietSession, NEW e \in Entries, Lease(e)
    PROVE  ~HasActive /\ runner = None /\ boundaries = {}
<1>1. /\ boundaries = {} /\ \A f \in Entries : pc[f] = "idle"
  <2>1. Drained /\ tick = None  BY DEF Lease, QuietSession
  <2> QED  BY <2>1, DrainedTurn, AllIdle DEF QuietSession, SerialInv
<1>2. sched \in Schedule /\ items[e] \in Item /\ saved[e] \in Saved
      /\ items[e].state = "pending" /\ pc[e] = "idle" /\ e \in Selectable
  BY TypedFacts DEF QuietSession, SessionInv, TypeOK, Lease, Selected
<1>3. ~HasActive
  <2> SUFFICES ASSUME HasActive  PROVE FALSE
    OBVIOUS
  <2>1. sched.state \in {"starting", "running", "assessing"}
    BY <1>2 DEF QuietSession, SlotInv, MovedOn, Shaped, TurnInv, HasActive, Schedule, SlotStates
  <2>2. runner # None
    BY <1>1, <2>1, OccupantTyped
    DEF QuietSession, SlotInv, MovedOn, Handling, UnderWay, Closing, Closed
  <2>3. letter = "P"  BY <2>2 DEF QuietSession, TurnInv
  <2>4. ~(RelatedControl(e) /\ ControlAllowed(e, letter))  BY <2>3 DEF ControlAllowed
  <2>5. IsActiveReplay(e) /\ Open(e)
    BY <1>2, <2>4 DEF Selectable
  <2>6. saved[e] \notin {"handed", "unknown"}
    <3>1. ~Crashed  BY DEF QuietSession, CalmInv, Crashed
    <3> QED  BY <1>2, <3>1 DEF QuietSession, TurnInv, TurnOf, SessionInv, HandedInv
  <2>7. Fresh(e)  BY <1>2, <2>5, <2>6 DEF Fresh, Saved
  <2> QED  BY <2>3, <2>7 DEF QuietSession, SerialInv, FreshInv, Ready
<1> QED  BY <1>1, <1>3 DEF QuietSession, TurnInv

\* What can happen in such a session.
UserMove == \E e \in Entries :
    Admit(e) \/ CancelQueued(e) \/ \E to \in 0..Cardinality(Entries) : ReorderQueued(e, to)
DeliverMove(e) ==
    \/ CheckBusy(e) \/ ClaimSlot(e) \/ GateClosed(e) \/ HandOver(e) \/ Refuse(e)
    \/ ReleaseClaim(e) \/ Acknowledge(e) \/ RecordStarted(e)
SettleMove(b) == CloseTurn(b) \/ ReadVerdict(b) \/ CompleteTurn(b) \/ SettleDismissed(b)

LEMMA QuietNext ==
    ASSUME QuietSession, [Next]_vars
    PROVE  \/ UserMove
           \/ \E e \in Entries : Lease(e) \/ DeliverMove(e)
           \/ AskQuestion \/ Dismiss
           \/ \E v \in {"D", "B", "E", "W"} : RunnerEnds(v)
           \/ \E b \in boundaries : SettleMove(b)
           \/ UNCHANGED vars
<1>1. ~CrashAndRecover /\ ~ReleaseTick /\ ~CancelTurn
      /\ \A e \in Entries : ~InsertQueued(e) /\ ~LeaseLapses(e)
  BY NoTrouble, NoLapse, NotDisturbed DEF QuietSession, SerialInv
<1>2. ~Resolve /\ ~WatchdogStops  BY DEF QuietSession, TurnInv, Resolve, WatchdogStops
<1>3. ASSUME NEW e \in Entries, Deliver(e)  PROVE DeliverMove(e)
  <2>1. ~AckPersisted(e) /\ ~SettlePersisted(e)
    BY DEF QuietSession, TurnInv, TurnOf, AckPersisted, SettlePersisted
  <2>2. ~AppendNotice(e)  BY DEF QuietSession, AllStart, AppendNotice
  <2> QED  BY <1>3, <2>1, <2>2 DEF Deliver, DeliverMove
<1>4. ASSUME NEW b \in boundaries, Settle(b)  PROVE SettleMove(b)
  <2>1. ~StopRunner(b)  BY DEF QuietSession, TurnInv, Stops, StopRunner
  <2> QED  BY <1>4, <2>1 DEF Settle, SettleMove
<1> QED  BY <1>1, <1>2, <1>3, <1>4 DEF Next, UserMove

\* A question is asked, or closed or dropped, or left as it is.
LEMMA OpenNext ==
    ASSUME QuietSession, [Next]_vars
    PROVE  \/ UNCHANGED question
           \/ ~question'.open /\ question'.askedAt \in {question.askedAt, 0}
           \/ /\ AskQuestion /\ question'.id = runner
              /\ question'.askedAt = Admitted
<1> DEFINE Closes == ~question'.open /\ question'.askedAt \in {question.askedAt, 0}
<1>1. question \in Question  BY DEF QuietSession, SessionInv, TypeOK
<1>2. ASSUME UserMove  PROVE UNCHANGED question \/ Closes
  BY <1>1, <1>2 DEF UserMove, Admit, CancelQueued, ReorderQueued, Question
<1>3. ASSUME NEW e \in Entries, Lease(e) \/ DeliverMove(e)  PROVE UNCHANGED question \/ Closes
  <2>1. BeginTurn(e) => UNCHANGED question \/ Closes  BY DEF BeginTurn, NoQuestion
  <2> QED
    BY <1>3, <2>1
    DEF Lease, DeliverMove, CheckBusy, ClaimSlot, GateClosed, HandOver, Refuse, ReleaseClaim,
        Acknowledge, RecordStarted
<1>4. Dismiss => Closes  BY <1>1 DEF Dismiss, Question
<1>5. ASSUME NEW v, RunnerEnds(v)  PROVE UNCHANGED question  BY <1>5 DEF RunnerEnds
<1>6. ASSUME NEW b \in boundaries, SettleMove(b)  PROVE UNCHANGED question
  BY <1>6
  DEF SettleMove, CloseTurn, ReadVerdict, CompleteTurn, SettleDismissed, schedulerVars
<1>7. AskQuestion => question'.id = runner /\ question'.askedAt = Admitted  BY DEF AskQuestion
<1>8. UNCHANGED vars => UNCHANGED question  BY DEF vars, schedulerVars
<1> QED  BY <1>2, <1>3, <1>4, <1>5, <1>6, <1>7, <1>8, QuietNext

\* What was delivered stays so, and what is leased is moved by its own delivery only.
LEMMA KeptState ==
    ASSUME QuietSession, [Next]_vars, NEW e \in Entries
    PROVE  /\ items[e].state = "delivered" => items'[e].state = "delivered"
           /\ items[e].state = "leased" /\ ~Deliver(e) => items'[e].state = "leased"
<1>1. ItemMove(e) /\ ~LeaseLapses(e)  BY ItemNext, NoLapse DEF QuietSession, SerialInv
<1>2. Admit(e) => items[e].state = "absent"  BY DEF Admit
<1>3. Lease(e) => items[e].state = "pending"  BY DEF Lease
<1> QED  BY <1>1, <1>2, <1>3 DEF ItemMove, StagedAgain

\* Every message stays as TurnInv wants it, when nothing is done to it.
LEMMA TurnOfKept ==
    ASSUME QuietSession, [Next]_vars, NEW e \in Entries, ~Deliver(e),
           saved'[e] = saved[e], pc'[e] = pc[e],
           pc[e] # "idle" => /\ UNCHANGED runner /\ HasActive' = HasActive
                             /\ sched'.active.entry = sched.active.entry
                             /\ sched'.active.started = sched.active.started
    PROVE  TurnOf(e)'
BY KeptState DEF QuietSession, TurnInv, TurnOf

\* What the session knows in such a state, one fact after the other.
LEMMA QuietFacts ==
    ASSUME QuietSession
    PROVE  /\ TypeOK /\ SessionInv /\ SerialInv /\ Alone /\ Undisturbed /\ ~Crashed
           /\ pc \in [Entries -> Phases] /\ saved \in [Entries -> Saved] /\ runner \in Nobody
           /\ items \in [Entries -> Item] /\ sched \in Schedule /\ question \in Question
           /\ boundaries \subseteq Boundary /\ None \notin Entries
           /\ sched.state = "idle" <=> ~HasActive
BY TypedFacts, SchedulerAssumption
DEF QuietSession, SessionInv, TypeOK, SerialInv, CalmInv, Crashed, SlotInv, MovedOn, Shaped,
    HasActive

\* A question that is open names the turn that asked it.
LEMMA AskerNamed ==
    ASSUME QuietSession, [Next]_vars, question'.open
    PROVE  question'.id # None
<1>1. AskQuestion => runner # None  BY DEF AskQuestion
<1> QED  BY <1>1, OpenNext DEF QuietSession, TurnInv

\* A step of a delivery shows in its phase.
LEMMA DeliverMoves ==
    ASSUME SessionInv, NEW e \in Entries, UNCHANGED pc
    PROVE  ~Deliver(e)
<1>1. Deliver(e) => pc'[e] # pc[e]
  BY TypedFacts, PhaseMoves
  DEF PhaseMove, AppendNotice, HandOver, CanHandOver, Goto
<1> QED  BY <1>1

\* The user adds and orders messages.
LEMMA UserTurn ==
    ASSUME QuietSession, [Next]_vars, UserMove
    PROVE  TurnInv'
<1>1. /\ UNCHANGED <<letter, processVars>>
      /\ sched'.state = sched.state /\ sched'.active = sched.active
  <2>1. sched \in Schedule  BY QuietFacts
  <2> QED
    BY <2>1 DEF UserMove, Admit, CancelQueued, ReorderQueued, DropPriority, Schedule
<1>2. ASSUME NEW e \in Entries  PROVE TurnOf(e)'
  <2>1. ~Deliver(e) /\ UNCHANGED <<pc, saved, runner>>
    BY <1>1, QuietFacts, DeliverMoves DEF processVars
  <2> QED  BY <1>1, <2>1, TurnOfKept DEF HasActive
<1> QED
  BY <1>1, <1>2, AskerNamed DEF TurnInv, QuietSession, processVars, HasActive

\* A message is taken from the queue: the slot is free.
LEMMA LeaseTurn ==
    ASSUME QuietSession, [Next]_vars, NEW e \in Entries, Lease(e)
    PROVE  TurnInv'
<1>1. ~HasActive /\ runner = None /\ boundaries = {}  BY LeaseFree
<1>2. /\ UNCHANGED <<sched, letter, saved, runner, boundaries>>
      /\ pc[e] = "idle" /\ pc'[e] = "taken" /\ \A f \in Entries \ {e} : pc'[f] = pc[f]
  BY QuietFacts, LeasePhase DEF Lease
<1>3. ASSUME NEW f \in Entries  PROVE TurnOf(f)'
  <2>1. CASE f = e
    <3>1. saved[e] # "handed"
      BY <1>2, LeaseFree DEF QuietSession, TurnInv, TurnOf, Lease
    <3> QED  BY <1>1, <1>2, <2>1, <3>1 DEF TurnOf, HasActive
  <2>2. CASE f # e
    <3>1. pc[f] = "idle"  BY <2>2, QuietFacts DEF Alone, Lease, SchedulerAssumption
    <3>2. ~Deliver(f)  BY <3>1, DeliverPhase
    <3> QED  BY <1>2, <2>2, <3>1, <3>2, TurnOfKept
  <2> QED  BY <2>1, <2>2
<1> QED  BY <1>1, <1>2, <1>3, AskerNamed DEF TurnInv, QuietSession, HasActive

\* What one step of e's delivery leaves for the rest of TurnInv.
DeliverTurned(e) ==
    /\ letter' = "P" <=> runner' # None
    /\ runner' # None => HasActive'
    /\ sched'.state = sched.state \/ sched'.state \in {"idle", "starting", "running"}
    /\ sched'.state # "frozen"
    /\ TurnOf(e)'

\* The outbox worker reads the session before it claims it.
LEMMA CheckTurn ==
    ASSUME QuietSession, NEW e \in Entries, CheckBusy(e) \/ GateClosed(e)
    PROVE  DeliverTurned(e)
<1>1. pc[e] \in {"taken", "checked"} /\ UNCHANGED <<sched, letter, saved, runner>>
      /\ pc'[e] \in {"idle", "checked"}
  BY QuietFacts DEF CheckBusy, GateClosed, Goto, Finish
<1>2. ~HasActive /\ saved[e] # "handed"
  BY <1>1 DEF QuietSession, TurnInv, TurnOf, SerialInv, ClaimInv, Waiting, CalmInv
<1> QED  BY <1>1, <1>2 DEF QuietSession, TurnInv, DeliverTurned, TurnOf, HasActive

LEMMA ClaimTurn ==
    ASSUME QuietSession, NEW e \in Entries, ClaimSlot(e)
    PROVE  DeliverTurned(e)
<1>1. /\ pc[e] = "checked" /\ pc'[e] = "claimed" /\ items[e].state = "leased"
      /\ sched' = Claimed(e) /\ UNCHANGED <<letter, saved, runner>>
  BY QuietFacts DEF ClaimSlot, Goto
<1>2. ~HasActive /\ saved[e] \in {"no", "refused"}
  <2>1. saved[e] # "unknown"  BY QuietFacts DEF SessionInv, HandedInv
  <2> QED  BY <1>1, <2>1, QuietFacts DEF QuietSession, TurnInv, TurnOf, Saved
<1>3. /\ Claimed(e).state = "starting" /\ Claimed(e).active # NoActive
      /\ Claimed(e).active.entry = e /\ Claimed(e).active.started = FALSE
  BY <1>2, QuietFacts, ClaimedIs
<1>4. HasActive' /\ sched'.active.entry = e /\ ~sched'.active.started  BY <1>1, <1>3 DEF HasActive
<1> QED  BY <1>1, <1>2, <1>3, <1>4 DEF QuietSession, TurnInv, DeliverTurned, TurnOf

LEMMA StartTurn ==
    ASSUME QuietSession, NEW e \in Entries, HandOver(e)
    PROVE  DeliverTurned(e)
<1>1. /\ pc[e] = "claimed" /\ pc'[e] = "accepted" /\ saved'[e] = "handed"
      /\ UNCHANGED <<items, sched>> /\ letter' = "P" /\ runner' = e
  BY QuietFacts DEF HandOver, CanHandOver, BeginTurn, Goto
<1>2. items[e].state = "leased" /\ HasActive
  BY <1>1 DEF QuietSession, TurnInv, TurnOf, SerialInv, ClaimInv, Waiting, CalmInv
<1> QED
  BY <1>1, <1>2, QuietFacts DEF QuietSession, TurnInv, DeliverTurned, TurnOf, HasActive

LEMMA RefuseTurn ==
    ASSUME QuietSession, NEW e \in Entries, Refuse(e)
    PROVE  DeliverTurned(e) /\ AnswerStale(e)
<1>1. pc[e] = "claimed" /\ runner = None  BY AloneToStart DEF QuietSession
<1>2. /\ AnswerStale(e) /\ saved'[e] = "refused" /\ pc'[e] = "refused"
      /\ UNCHANGED <<letter, sched, runner>>
  BY <1>1, QuietFacts, NoTrouble DEF QuietSession, Refuse, Goto
<1> QED
  BY <1>1, <1>2 DEF QuietSession, TurnInv, DeliverTurned, TurnOf, HasActive

LEMMA ReleaseTurn ==
    ASSUME QuietSession, NEW e \in Entries, ReleaseClaim(e)
    PROVE  DeliverTurned(e)
<1>1. pc[e] = "refused" /\ pc'[e] = "idle" /\ UNCHANGED <<letter, saved, runner, items>>
  BY QuietFacts DEF ReleaseClaim, Finish
<1>2. /\ runner = None /\ HasActive /\ sched.active.entry = e /\ ~sched.active.started
      /\ sched.active.delivery = e
  BY <1>1 DEF QuietSession, TurnInv, TurnOf, SerialInv, ClaimInv, UnderWay
<1>3. sched' = Released(e)  BY <1>2 DEF ReleaseClaim, IsActiveReplay
<1>4. sched'.state = "idle"
  BY <1>2, <1>3, QuietFacts, ReleasedIs DEF Shaped
<1>5. saved[e] = "handed" => items[e].state = "delivered"
  BY <1>1 DEF QuietSession, TurnInv, TurnOf
<1> QED
  BY <1>1, <1>2, <1>4, <1>5 DEF QuietSession, TurnInv, DeliverTurned, TurnOf

LEMMA AckTurn ==
    ASSUME QuietSession, NEW e \in Entries, Acknowledge(e)
    PROVE  DeliverTurned(e)
<1>1. /\ pc[e] = "accepted" /\ pc'[e] \in {"idle", "acked"}
      /\ UNCHANGED <<sched, letter, saved, runner>>
  BY QuietFacts DEF Acknowledge, Goto, Finish
<1>2. items'[e].state = "delivered"
  <2>1. saved[e] = "handed"  BY <1>1, QuietFacts DEF SessionInv, HandedInv
  <2>2. items[e].state \in {"delivered", "leased"}
    BY <2>1 DEF QuietSession, TurnInv, TurnOf
  <2> QED  BY <2>2, QuietFacts, StateSame DEF Acknowledge, IfHeld
<1> QED  BY <1>1, <1>2 DEF QuietSession, TurnInv, DeliverTurned, TurnOf, HasActive

LEMMA StartedTurn ==
    ASSUME QuietSession, NEW e \in Entries, RecordStarted(e)
    PROVE  DeliverTurned(e)
<1>1. pc[e] = "acked" /\ pc'[e] = "idle" /\ UNCHANGED <<items, letter, saved, runner>>
  BY QuietFacts DEF RecordStarted, Finish
<1>2. saved[e] = "handed" => items[e].state = "delivered"
  BY <1>1 DEF QuietSession, TurnInv, TurnOf
<1>3. CASE UNCHANGED sched
  BY <1>1, <1>2, <1>3 DEF QuietSession, TurnInv, DeliverTurned, TurnOf, HasActive
<1>4. CASE HasActive /\ sched' = Started
  <2>1. sched'.state = "running" /\ HasActive'
    BY <1>4, QuietFacts, StartedIs DEF HasActive
  <2> QED  BY <1>1, <1>2, <2>1 DEF QuietSession, TurnInv, DeliverTurned, TurnOf
<1> QED  BY <1>3, <1>4 DEF RecordStarted, IsActiveReplay

LEMMA DeliverTurn ==
    ASSUME QuietSession, [Next]_vars, NEW e \in Entries, DeliverMove(e)
    PROVE  TurnInv'
<1>1. Deliver(e)  BY DEF DeliverMove, Deliver
<1>2. pc[e] # "idle" /\ \A f \in Entries \ {e} : pc[f] = "idle" /\ pc'[f] = "idle"
  BY <1>1, QuietFacts, DeliverAlone, DeliverPhase
<1>3. UNCHANGED boundaries /\ \A b \in boundaries : ~TurnEnd(b)
  <2>1. UNCHANGED boundaries
    BY DEF DeliverMove, CheckBusy, ClaimSlot, GateClosed, HandOver, Refuse, ReleaseClaim,
           Acknowledge, RecordStarted
  <2> QED  BY <1>2, <2>1 DEF QuietSession, TurnInv
<1>4. DeliverTurned(e)
  BY CheckTurn, ClaimTurn, StartTurn, RefuseTurn, ReleaseTurn, AckTurn, StartedTurn
  DEF DeliverMove
<1>5. ASSUME NEW f \in Entries  PROVE TurnOf(f)'
  <2>1. CASE f = e  BY <1>4, <2>1 DEF DeliverTurned
  <2>2. CASE f # e
    <3>1. ~Deliver(f) /\ pc[f] = "idle" /\ pc'[f] = pc[f]  BY <1>2, <2>2, DeliverPhase
    <3>2. saved'[f] = saved[f]
      BY <2>2, QuietFacts
      DEF DeliverMove, CheckBusy, ClaimSlot, GateClosed, HandOver, Refuse, ReleaseClaim,
          Acknowledge, RecordStarted
    <3> QED  BY <3>1, <3>2, TurnOfKept
  <2> QED  BY <2>1, <2>2
<1> QED
  BY <1>3, <1>4, <1>5, AskerNamed DEF TurnInv, DeliverTurned, QuietSession, TurnEnd, Stops

\* A step that leaves every delivery and the slot's occupant alone, or finds no
\* delivery under way.
LEMMA RestOf ==
    ASSUME QuietSession, [Next]_vars, UNCHANGED <<pc, saved>>,
           \/ \A e \in Entries : pc[e] = "idle"
           \/ UNCHANGED runner /\ sched'.active = sched.active
    PROVE  \A e \in Entries : TurnOf(e)'
<1> SUFFICES ASSUME NEW e \in Entries  PROVE TurnOf(e)'
  OBVIOUS
<1>1. ~Deliver(e)  BY QuietFacts, DeliverMoves
<1> QED  BY <1>1, TurnOfKept DEF HasActive

LEMMA AskTurn ==
    ASSUME QuietSession, [Next]_vars, AskQuestion
    PROVE  TurnInv'
<1>1. UNCHANGED <<letter, pc, saved, sched, runner, boundaries>>
  BY DEF AskQuestion, processVars
<1>2. \A e \in Entries : TurnOf(e)'  BY <1>1, RestOf
<1> QED  BY <1>1, <1>2, AskerNamed DEF QuietSession, TurnInv, HasActive

\* A dismissed question finds the slot free and no turn on its way to its end.
LEMMA DismissTurn ==
    ASSUME QuietSession, [Next]_vars, Dismiss
    PROVE  TurnInv'
<1> DEFINE c == [Stopping EXCEPT !.step = "closed", !.letter = "D", !.dismissed = question.id]
<1>1. /\ UNCHANGED <<pc, saved, sched, runner>> /\ runner = None /\ letter' = "D"
      /\ boundaries' = boundaries \cup {c} /\ ~HasActive /\ question.open
  BY DEF Dismiss, QuietSession, TurnInv
<1>2. c.step = "closed" /\ c.dismissed = question.id  BY DEF Stopping
<1>3. question.id # None  BY <1>1 DEF QuietSession, TurnInv
<1>4. \A e \in Entries : TurnOf(e)'  BY <1>1, RestOf
<1>5. sched.state \notin {"assessing", "frozen"}  BY <1>1, QuietFacts
<1> HIDE DEF c
<1>6. \A b \in boundaries : ~TurnEnd(b)  BY <1>1 DEF QuietSession, TurnInv
<1>7. \A b \in boundaries' : ~Stops(b) /\ ~TurnEnd(b) /\ b.step = "closed"
  BY <1>1, <1>2, <1>3, <1>6 DEF QuietSession, TurnInv, TurnEnd, Stops
<1> QED
  BY <1>1, <1>4, <1>5, <1>7, AskerNamed DEF TurnInv, HasActive

\* A native turn ends: nothing else is under way.
LEMMA EndTurn ==
    ASSUME QuietSession, [Next]_vars, NEW v \in {"D", "B", "E", "W"}, RunnerEnds(v)
    PROVE  TurnInv'
<1> DEFINE c == [Stopping EXCEPT !.step = "closing", !.letter = v, !.task = items[runner].task]
<1>1. /\ UNCHANGED <<pc, saved, sched>> /\ runner # None /\ runner' = None /\ letter' = v
      /\ boundaries' = boundaries \cup {c} /\ Drained
  BY DEF RunnerEnds
<1>2. boundaries = {} /\ \A e \in Entries : pc[e] = "idle"  BY <1>1, DrainedTurn
<1>3. c.step = "closing" /\ c.dismissed = None  BY DEF Stopping
<1>4. \A e \in Entries : TurnOf(e)'  BY <1>1, <1>2, RestOf
<1>5. HasActive /\ sched.state # "frozen"  BY <1>1 DEF QuietSession, TurnInv
<1> HIDE DEF c
<1> QED
  BY <1>1, <1>2, <1>3, <1>4, <1>5, AskerNamed DEF TurnInv, HasActive, TurnEnd, Stops

\* A turn end moves on, or is dropped.
LEMMA MoveIs ==
    ASSUME QuietSession, NEW b \in boundaries, NEW step
    PROVE  /\ [b EXCEPT !.step = step].step = step
           /\ [b EXCEPT !.step = step].dismissed = b.dismissed
           /\ [b EXCEPT !.step = step].letter = b.letter
BY QuietFacts DEF Boundary

LEMMA SettleTurn ==
    ASSUME QuietSession, [Next]_vars, NEW b \in boundaries, SettleMove(b)
    PROVE  TurnInv'
<1>1. UNCHANGED <<pc, saved, runner>>
  BY DEF SettleMove, CloseTurn, ReadVerdict, CompleteTurn, SettleDismissed
<1>2. ASSUME TurnEnd(b)
      PROVE  /\ HasActive /\ runner = None /\ \A e \in Entries : pc[e] = "idle"
             /\ boundaries = {b}
  BY <1>2 DEF QuietSession, TurnInv
<1>3. ~TurnEnd(b) => b.step = "closed" /\ sched.state \notin {"assessing", "frozen"}
  BY DEF QuietSession, TurnInv
<1>4. CASE CloseTurn(b)
  <2>1. TurnEnd(b) /\ b.step # "cancelling" /\ UNCHANGED letter
    BY <1>3, <1>4 DEF CloseTurn, QuietSession, TurnInv, Stops
  <2>2. sched' = Assessing /\ Move(b, "closed")  BY <1>2, <1>4, <2>1 DEF CloseTurn
  <2>3. sched'.state = "assessing" /\ HasActive'
    BY <1>2, <2>1, <2>2, QuietFacts, AssessingIs DEF HasActive
  <2> DEFINE c == [b EXCEPT !.step = "closed"]
  <2>4. boundaries' = {c} /\ c.step = "closed" /\ TurnEnd(c)
    BY <1>2, <2>1, <2>2, MoveIs DEF Move, TurnEnd
  <2>5. \A e \in Entries : TurnOf(e)'  BY <1>1, <1>2, <2>1, RestOf
  <2> HIDE DEF c
  <2> QED
    BY <1>1, <1>2, <2>1, <2>3, <2>4, <2>5, AskerNamed DEF QuietSession, TurnInv, Stops
<1>5. CASE ReadVerdict(b)
  <2>1. UNCHANGED <<sched, letter>>  BY <1>5 DEF ReadVerdict, schedulerVars
  <2>2. \A e \in Entries : TurnOf(e)'  BY <1>1, <2>1, RestOf
  <2>3. CASE Drop(b)
    BY <1>1, <2>1, <2>2, <2>3, AskerNamed DEF QuietSession, TurnInv, Drop, HasActive
  <2>4. CASE ~Drop(b)
    <3>1. Move(b, "decided") /\ TurnEnd(b)  BY <1>3, <1>5, <2>4 DEF ReadVerdict
    <3> DEFINE c == [b EXCEPT !.step = "decided"]
    <3>2. boundaries' = {c} /\ c.step = "decided" /\ TurnEnd(c)
      BY <1>2, <3>1, MoveIs DEF Move, TurnEnd
    <3> HIDE DEF c
    <3> QED
      BY <1>1, <1>2, <2>1, <2>2, <3>1, <3>2, AskerNamed
      DEF QuietSession, TurnInv, Stops, HasActive
  <2> QED  BY <2>3, <2>4
<1>6. CASE CompleteTurn(b)
  <2>1. TurnEnd(b) /\ Drop(b) /\ UNCHANGED letter  BY <1>3, <1>6 DEF CompleteTurn
  <2>2. sched'.state # "frozen"
    <3>1. b.letter \in Letters /\ OpenQuestion \in Nobody
      BY QuietFacts, OpenQuestionTyped DEF Boundary
    <3>2. Completed(b.letter, OpenQuestion).state = "idle"
      BY <1>2, <2>1, <3>1, QuietFacts, CompletedIs
    <3>3. sched.state # "frozen"  BY DEF QuietSession, TurnInv
    <3> QED  BY <1>6, <3>2, <3>3 DEF CompleteTurn
  <2>3. \A e \in Entries : TurnOf(e)'  BY <1>1, <1>2, <2>1, RestOf
  <2>4. boundaries' = {}  BY <1>2, <2>1 DEF Drop
  <2> QED
    BY <1>1, <1>2, <2>1, <2>2, <2>3, <2>4, AskerNamed DEF QuietSession, TurnInv
<1>7. CASE SettleDismissed(b)
  <2>1. ~HasActive /\ ~TurnEnd(b) /\ Drop(b) /\ UNCHANGED letter
    BY <1>7 DEF SettleDismissed, TurnEnd
  <2>2. sched'.state \notin {"assessing", "frozen"} /\ sched'.active = sched.active
    BY <1>3, <1>7, <2>1, QuietFacts, IdleIs DEF SettleDismissed, HasActive
  <2>3. \A e \in Entries : TurnOf(e)'  BY <1>1, <2>2, RestOf
  <2>4. boundaries' \subseteq boundaries /\ HasActive' = HasActive
    BY <2>1, <2>2 DEF Drop, HasActive
  <2> QED
    BY <1>1, <2>1, <2>2, <2>3, <2>4, AskerNamed DEF QuietSession, TurnInv
<1> QED  BY <1>4, <1>5, <1>6, <1>7 DEF SettleMove

LEMMA TurnNext ==
    ASSUME QuietSession, [Next]_vars
    PROVE  TurnInv'
<1>1. CASE UNCHANGED vars
  <2>1. UNCHANGED <<schedulerVars, processVars>>  BY <1>1 DEF vars
  <2> QED
    BY <2>1
    DEF QuietSession, TurnInv, TurnOf, HasActive, Stops, TurnEnd, schedulerVars, processVars
<1> QED
  BY <1>1, QuietNext, UserTurn, LeaseTurn, DeliverTurn, AskTurn, DismissTurn, EndTurn, SettleTurn

\* Work queued before the question was asked, other than its answer.
Old(e) == items[e].sequence <= question.askedAt
          /\ ~(IsAnswer(e) /\ items[e].request = question.id)

CountInv ==
    /\ question.askedAt <= Admitted
    /\ \A e \in Entries : items[e].sequence <= Admitted /\ items[e].override = None

\* While a question is open, what is old is not under way, and held when the slot
\* is free.
StillOf(e) ==
    /\ pc[e] # "refused"
    /\ IsAnswer(e) => items[e].sequence <= question.askedAt
    /\ Old(e) => pc[e] = "idle"
    /\ Old(e) /\ Open(e) => HasActive \/ items[e].blocked = question.id
HoldInv ==
    question.open => /\ \A b \in boundaries : b.letter = "W"
                     /\ \A e \in Entries : StillOf(e)

\* Admission counts the messages of the session.
LEMMA AdmittedNext ==
    ASSUME QuietSession, [Next]_vars
    PROVE  /\ Admitted \in Nat /\ Admitted' \in Nat /\ Admitted <= Admitted'
           /\ \A e \in Entries : Admit(e) => Admitted' = Admitted + 1
<1> DEFINE A == {e \in Entries : items[e].state # "absent"}
           B == {e \in Entries : items'[e].state # "absent"}
<1>1. Admitted = Cardinality(A) /\ Admitted' = Cardinality(B)  BY DEF Admitted
<1>2. IsFiniteSet(A) /\ IsFiniteSet(B) /\ Cardinality(A) \in Nat /\ Cardinality(B) \in Nat
  <2>1. A \in SUBSET Entries /\ B \in SUBSET Entries  OBVIOUS
  <2> QED  BY <2>1, SchedulerAssumption, FS_Subset, FS_CardinalityType
<1>3. A \subseteq B  BY DoneStays, QuietFacts DEF Known
<1>4. Cardinality(A) <= Cardinality(B)  BY <1>2, <1>3, FS_Subset
<1>5. ASSUME NEW e \in Entries, Admit(e)  PROVE Cardinality(B) = Cardinality(A) + 1
  <2>1. e \notin A /\ B = A \cup {e}
    BY <1>5, QuietFacts DEF Admit, NewItem
  <2> QED  BY <1>2, <2>1, FS_AddElement
<1> QED  BY <1>1, <1>2, <1>4, <1>5

\* What a message keeps, and gets at its admission.
LEMMA Numbered ==
    ASSUME QuietSession, [Next]_vars, NEW e \in Entries
    PROVE  /\ ~Admit(e) => SameRank(e)
           /\ Admit(e) => items'[e].sequence = Admitted + 1 /\ items'[e].override = None
<1>1. Admit(e) => items'[e].sequence = Admitted + 1 /\ items'[e].override = None
  BY QuietFacts DEF Admit, NewItem
<1>2. ItemMove(e)  BY QuietFacts, ItemNext
<1> QED  BY <1>1, <1>2 DEF ItemMove, SameWork, StagedAgain

LEMMA CountNext ==
    ASSUME QuietSession, CountInv, [Next]_vars
    PROVE  CountInv'
<1>1. items \in [Entries -> Item] /\ items' \in [Entries -> Item]
      /\ question \in Question /\ question' \in Question
  BY SessionNext, QuietFacts DEF SessionInv, TypeOK
<1>2. /\ Admitted \in Nat /\ Admitted' \in Nat /\ Admitted <= Admitted'
      /\ \A e \in Entries : items[e].sequence \in Nat /\ items'[e].sequence \in Nat
      /\ question.askedAt \in Nat /\ question'.askedAt \in Nat
  <2>1. Cardinality(Entries) \in Nat  BY SchedulerAssumption, FS_CardinalityType
  <2> QED  BY <1>1, <2>1, AdmittedNext DEF Item, Question
<1>3. ASSUME NEW e \in Entries  PROVE items'[e].sequence <= Admitted' /\ items'[e].override = None
  BY <1>2, <1>3, Numbered, AdmittedNext DEF SameRank, CountInv
<1>4. question'.askedAt <= Admitted'
  <2>1. question'.askedAt \in {question.askedAt, 0, Admitted}
    BY OpenNext
  <2> QED  BY <1>2, <2>1 DEF CountInv
<1> QED  BY <1>3, <1>4 DEF CountInv

\* The verdict on its way to the scheduler while a question is open is W.
LEMMA WaitsNext ==
    ASSUME QuietSession, HoldInv, [Next]_vars, UNCHANGED question, question.open
    PROVE  \A b \in boundaries' : b.letter = "W"
<1>1. \A b \in boundaries : b.letter = "W"  BY DEF HoldInv
<1>2. question.id # None /\ question \in Question  BY QuietFacts DEF QuietSession, TurnInv
<1>3. ASSUME UserMove \/ AskQuestion \/ \E e \in Entries : Lease(e) \/ DeliverMove(e)
      PROVE  UNCHANGED boundaries
  BY <1>3
  DEF UserMove, Admit, CancelQueued, ReorderQueued, AskQuestion, Lease, DeliverMove, CheckBusy,
      ClaimSlot, GateClosed, HandOver, Refuse, ReleaseClaim, Acknowledge, RecordStarted,
      processVars
<1>4. ~Dismiss
  <2>1. Dismiss => ~question'.open  BY <1>2 DEF Dismiss, Question
  <2> QED  BY <2>1
<1>5. ASSUME NEW v, RunnerEnds(v)  PROVE \A b \in boundaries' : b.letter = "W"
  <2> DEFINE c == [Stopping EXCEPT !.step = "closing", !.letter = v, !.task = items[runner].task]
  <2>1. boundaries' = boundaries \cup {c} /\ v = "W"  BY <1>2, <1>5 DEF RunnerEnds
  <2>2. c.letter = v  BY DEF Stopping
  <2> HIDE DEF c
  <2> QED  BY <1>1, <2>1, <2>2
<1>6. ASSUME NEW c \in boundaries, SettleMove(c)  PROVE \A b \in boundaries' : b.letter = "W"
  <2>1. Drop(c) \/ Move(c, "closed") \/ Move(c, "decided")
    BY <1>6 DEF SettleMove, CloseTurn, ReadVerdict, CompleteTurn, SettleDismissed
  <2>2. \A step : [c EXCEPT !.step = step].letter = "W"  BY <1>1, MoveIs
  <2> QED  BY <1>1, <2>1, <2>2 DEF Drop, Move
<1>7. UNCHANGED vars => UNCHANGED boundaries  BY DEF vars, processVars
<1> QED  BY <1>1, <1>3, <1>4, <1>5, <1>6, <1>7, QuietNext

\* A message that the open question holds is not selected.
LEMMA HeldNotLeased ==
    ASSUME QuietSession, CountInv, HoldInv, question.open, NEW e \in Entries, Lease(e)
    PROVE  ~Old(e)
<1> SUFFICES ASSUME Old(e)  PROVE FALSE
  OBVIOUS
<1>1. ~HasActive  BY LeaseFree
<1>2. e \in Selectable /\ items[e].state = "pending"  BY DEF Lease, Selected
<1>3. ~Held(e)  BY <1>2 DEF Selectable
<1>4. items[e].blocked = question.id  BY <1>1, <1>2 DEF HoldInv, StillOf, Open
<1>5. OpenQuestion = question.id /\ question.id # None
  BY DEF OpenQuestion, QuietSession, TurnInv
<1>6. items[e].override = None  BY DEF CountInv
<1> QED  BY <1>1, <1>3, <1>4, <1>5, <1>6 DEF Held, Old, IsActiveReplay

\* While a question is open, only the W of its turn frees the slot.
LEMMA FreedBy ==
    ASSUME QuietSession, HoldInv, question.open, UNCHANGED question, [Next]_vars,
           HasActive, ~HasActive'
    PROVE  \E b \in boundaries : CompleteTurn(b) /\ items' = BlockStaged("W")
<1>1. ~UserMove
  <2>1. UserMove => sched'.active = sched.active
    BY QuietFacts DEF UserMove, Admit, CancelQueued, ReorderQueued, DropPriority, Schedule
  <2> QED  BY <2>1 DEF HasActive
<1>2. ASSUME NEW e \in Entries, Lease(e) \/ DeliverMove(e)  PROVE FALSE
  <2>1. pc[e] # "refused"  BY DEF HoldInv, StillOf
  <2>2. ~ClaimSlot(e)
    BY QuietFacts, ClaimedIs DEF ClaimSlot, HasActive
  <2>3. ~RecordStarted(e)
    BY QuietFacts, StartedIs DEF RecordStarted, HasActive
  <2> QED
    BY <1>2, <2>1, <2>2, <2>3
    DEF Lease, DeliverMove, CheckBusy, GateClosed, HandOver, Refuse, ReleaseClaim, Acknowledge,
        HasActive
<1>3. UNCHANGED sched => FALSE  BY DEF HasActive
<1>4. ASSUME NEW b \in boundaries, SettleMove(b)
      PROVE  CompleteTurn(b) /\ items' = BlockStaged("W")
  <2>1. ~CloseTurn(b)
    BY QuietFacts, AssessingIs DEF CloseTurn, HasActive
  <2>2. ~ReadVerdict(b) /\ ~SettleDismissed(b)
    BY <1>3 DEF ReadVerdict, SettleDismissed, schedulerVars
  <2>3. CompleteTurn(b)  BY <1>4, <2>1, <2>2 DEF SettleMove
  <2>4. b.letter = "W"  BY DEF HoldInv
  <2> QED  BY <1>3, <2>3, <2>4 DEF CompleteTurn
<1>5. ASSUME \/ AskQuestion \/ Dismiss \/ UNCHANGED vars
             \/ \E v \in {"D", "B", "E", "W"} : RunnerEnds(v)
      PROVE  UNCHANGED sched
  BY <1>5 DEF AskQuestion, Dismiss, RunnerEnds, vars, schedulerVars
<1> QED  BY <1>1, <1>2, <1>3, <1>4, <1>5, QuietNext

\* A message changes its phase when it is taken, or by its delivery.
LEMMA PhaseBy ==
    ASSUME QuietSession, [Next]_vars, NEW e \in Entries, pc'[e] # pc[e]
    PROVE  Lease(e) \/ Deliver(e)
<1>1. ASSUME NEW f \in Entries, f # e, Lease(f) \/ Deliver(f)  PROVE FALSE
  BY <1>1, QuietFacts, LeasePhase, PhaseMoves DEF PhaseMove
<1>2. ~ReleaseTick /\ ~CrashAndRecover  BY NotDisturbed, NoTrouble, QuietFacts DEF QuietSession
<1> QED  BY <1>1, <1>2, PhaseStays

LEMMA StillNext ==
    ASSUME QuietSession, CountInv, HoldInv, [Next]_vars, UNCHANGED question, question.open,
           NEW e \in Entries
    PROVE  StillOf(e)'
<1>1. StillOf(e)  BY DEF HoldInv
<1>2. /\ items[e] \in Item /\ items'[e] \in Item /\ question.askedAt \in Nat
      /\ items[e].sequence \in Nat /\ items'[e].sequence \in Nat /\ Admitted \in Nat
      /\ question.askedAt <= Admitted
  <2>1. items' \in [Entries -> Item]  BY SessionNext, QuietFacts DEF SessionInv, TypeOK
  <2>2. Cardinality(Entries) \in Nat  BY SchedulerAssumption, FS_CardinalityType
  <2> QED  BY <2>1, <2>2, QuietFacts, AdmittedNext DEF Item, Question, CountInv
<1>3. pc'[e] # "refused"
  <2>1. ~Refuse(e)
    <3>1. ASSUME Refuse(e)  PROVE FALSE
      <4>1. AnswerStale(e) /\ pc[e] = "claimed"
        BY <3>1, RefuseTurn DEF Refuse, CanHandOver
      <4> QED  BY <1>1, <4>1 DEF AnswerStale, StillOf, Old
    <3> QED  BY <3>1
  <2>2. Lease(e) \/ Deliver(e) => pc'[e] # "refused"
    BY <2>1, QuietFacts
    DEF Lease, Deliver, CheckBusy, ClaimSlot, GateClosed, AckPersisted, SettlePersisted,
        AppendNotice, HandOver, ReleaseClaim, Acknowledge, RecordStarted, Goto, Finish
  <2> QED  BY <1>1, <2>2, PhaseBy DEF StillOf
\* What is admitted while the question is open is not held by it.
<1>4. CASE Admit(e)
  <2>1. items'[e].sequence = Admitted + 1  BY <1>4, Numbered
  <2>2. ~IsAnswer(e)'
    <3>1. items'[e].kind = "answer" => ~question'.open
      <4>1. items'[e].kind = "answer" => ClassOf(e) = "answer"  BY <1>4, QuietFacts, AdmitIs
      <4>2. ClassOf(e) = "answer" => question' = [question EXCEPT !.open = FALSE]
        BY <1>4 DEF Admit
      <4> QED  BY <4>1, <4>2, QuietFacts DEF Question
    <3> QED  BY <3>1 DEF IsAnswer
  <2> QED  BY <1>2, <1>3, <2>1, <2>2 DEF StillOf, Old
<1>5. CASE ~Admit(e)
  <2>1. SameRank(e) /\ ItemMove(e)  BY <1>5, QuietFacts, Numbered, ItemNext
  <2>2. (IsAnswer(e)' <=> IsAnswer(e)) /\ (Old(e)' <=> Old(e))
    BY <2>1 DEF SameRank, IsAnswer, IsWork, Old
  <2>3. ASSUME Old(e)  PROVE pc[e] = "idle" /\ pc'[e] = "idle"
    <3>1. pc[e] = "idle"  BY <1>1, <2>3 DEF StillOf
    <3>2. ~Lease(e) /\ ~Deliver(e)  BY <2>3, <3>1, HeldNotLeased, DeliverPhase
    <3> QED  BY <3>1, <3>2, PhaseBy
  <2>4. ASSUME Old(e), Open(e)'  PROVE HasActive' \/ items'[e].blocked = question.id
    <3>1. items[e].state = "pending"
      <4>1. Open(e)  BY <1>5, <2>1, <2>4 DEF ItemMove, Open, StagedAgain, LeaseLapses, Lease
      <4>2. items[e].state # "leased"
        BY <2>3, <2>4 DEF QuietSession, CalmInv, LeaseInv
      <4> QED  BY <4>1, <4>2 DEF Open
    <3>2. CASE items[e].blocked = question.id
      BY <1>5, <2>1, <3>2 DEF ItemMove, SameWork, StagedAgain, OpenQuestion
    <3>3. CASE HasActive /\ ~HasActive'
      <4>1. items' = BlockStaged("W")  BY <3>3, FreedBy
      <4>2. OpenQuestion = question.id /\ question.id # None /\ items[e].override = None
        BY DEF OpenQuestion, QuietSession, TurnInv, CountInv
      <4>3. items'[e] = [items[e] EXCEPT !.direct = FALSE, !.blocked = question.id]
        BY <2>4, <3>1, <4>1, <4>2 DEF BlockStaged, Old
      <4> QED  BY <1>2, <4>3 DEF Item
    <3> QED  BY <1>1, <2>4, <3>1, <3>2, <3>3 DEF StillOf, Open
  <2>5. IsAnswer(e) => items'[e].sequence <= question.askedAt
    BY <1>1, <2>1 DEF StillOf, SameRank
  <2> HIDE DEF IsAnswer, Old
  <2> QED  BY <1>3, <2>2, <2>3, <2>4, <2>5 DEF StillOf
<1> QED  BY <1>4, <1>5

LEMMA HoldNext ==
    ASSUME QuietSession, CountInv, HoldInv, [Next]_vars
    PROVE  HoldInv'
<1> SUFFICES ASSUME question'.open
             PROVE  /\ \A b \in boundaries' : b.letter = "W"
                    /\ \A e \in Entries : StillOf(e)'
  BY DEF HoldInv
<1>1. CASE UNCHANGED question  BY <1>1, WaitsNext, StillNext
<1>2. CASE AskQuestion /\ question'.askedAt = Admitted
  <2>1. /\ Drained /\ runner # None
        /\ UNCHANGED <<items, sched, pc, boundaries>>
    BY <1>2 DEF AskQuestion, processVars
  <2>2. /\ boundaries = {} /\ HasActive /\ \A e \in Entries : pc[e] = "idle"
    BY <2>1, DrainedTurn DEF QuietSession, TurnInv
  <2>3. \A e \in Entries : items[e].sequence <= Admitted  BY DEF CountInv
  <2> QED  BY <1>2, <2>1, <2>2, <2>3 DEF StillOf, HasActive
<1> QED  BY <1>1, <1>2, OpenNext

LEMMA TurnInit ==
    ASSUME Init
    PROVE  TurnInv /\ CountInv /\ HoldInv
<1>1. /\ letter = None /\ runner = None /\ boundaries = {} /\ question = NoQuestion
      /\ sched = NewSchedule /\ items = [e \in Entries |-> NewItem]
      /\ \A e \in Entries : pc[e] = "idle" /\ saved[e] = "no"
  BY DEF Init, SchedulerInit
<1>2. TurnInv
  BY <1>1, SchedulerAssumption DEF TurnInv, TurnOf, NewSchedule, NoQuestion
<1>3. Admitted = 0
  <2>1. {e \in Entries : items[e].state # "absent"} = {}  BY <1>1 DEF NewItem
  <2> QED  BY <2>1, FS_EmptySet DEF Admitted
<1> QED  BY <1>1, <1>2, <1>3 DEF CountInv, HoldInv, NoQuestion, NewItem

QuestionInv == TurnInv /\ CountInv /\ HoldInv

LEMMA QuestionSafe ==
    ASSUME OneTask, AllStart, ~TickAnywhere,
           \A kind \in {"stall", "lapse", "cancel", "insert", "refuse", "crash"} :
               Budget[kind] = 0
    PROVE  Spec => [](SessionInv /\ QuietSession /\ QuestionInv)
<1> DEFINE All == SerialInv /\ CalmInv /\ SlotInv /\ QuestionInv
<1>1. ASSUME Init  PROVE All
  <2>1. CalmInv
    <3>1. left = Budget /\ \A e \in Entries : items[e].state = "absent"
      BY <1>1 DEF Init, SchedulerInit, NewItem
    <3> QED  BY <3>1 DEF CalmInv, LeaseInv
  <2> QED  BY <1>1, <2>1, SerialInit, SlotHeldInit, TurnInit DEF QuestionInv
<1>2. ASSUME SessionInv, All, [Next]_vars  PROVE All'
  <2>1. QuietSession  BY <1>2 DEF QuietSession, QuestionInv
  <2>2. SlotInv'
    <3>1. ~Crashed'
      <4>1. TypeOK /\ "crash" \in Disturbances  BY <1>2 DEF SessionInv, Disturbances
      <4>2. left'["crash"] = 0  BY <1>2, <4>1, SpentStays DEF CalmInv
      <4> QED  BY <4>2 DEF Crashed
    <3> QED  BY <1>2, <3>1, SlotHeldNext DEF SlotHeldInv
  <2> QED
    BY <1>2, <2>1, <2>2, SerialNext, CalmNext, TurnNext, CountNext, HoldNext DEF QuestionInv
<1>3. SessionInv /\ All => SessionInv /\ QuietSession /\ QuestionInv
  BY DEF QuietSession, QuestionInv
<1> HIDE DEF All
<1> QED  BY <1>1, <1>2, <1>3, SessionSafe, PTL DEF Spec

\* Work that was queued when a turn asked its question does not start before the
\* question is answered, settled or overridden (scheduler.js selectSessionItem and
\* complete): the slot is taken until the question's W blocks what is queued, and the
\* queue is not looked at in between.  It holds through removals, reorderings,
\* dismissals, refused stale answers and any number of questions, in a session of
\* one task whose messages start a turn each and whose tick acts between two chains,
\* with no delivery failing or given up waiting for, no turn cancelled or overtaken,
\* and no restart.
THEOREM SessionQuestionHolds ==
    ASSUME OneTask, AllStart, ~TickAnywhere,
           \A kind \in {"stall", "lapse", "cancel", "insert", "refuse", "crash"} :
               Budget[kind] = 0
    PROVE  Spec => QuestionHolds
<1> DEFINE A == \A e \in Entries :
                   Begins(e) /\ question.open /\ items[e].sequence <= question.askedAt
                     => IsAnswer(e) \/ items[e].override = question.id
<1>1. SessionInv /\ QuietSession /\ QuestionInv /\ [Next]_vars => [A]_vars
  <2> SUFFICES ASSUME SessionInv, QuestionInv, [Next]_vars, NEW e \in Entries,
                      Begins(e), question.open, items[e].sequence <= question.askedAt
               PROVE  IsAnswer(e)
    OBVIOUS
  <2>1. pc[e] = "claimed"  BY BeginsBy DEF HandOver, CanHandOver
  <2> QED  BY <2>1 DEF QuestionInv, HoldInv, StillOf, Old
<1>2. QuestionHolds <=> [][A]_vars  BY DEF QuestionHolds
<1> QED  BY <1>1, <1>2, QuestionSafe, PTL DEF Spec

===============================================================================
