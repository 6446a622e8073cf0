------------------------------- MODULE WaitsProofs -------------------------------
(***************************************************************************)
(* How a wait ends, for any waits, sessions, payloads and bounds: the type *)
(* correctness of Waits.tla, OneStory, FirstEndingWins and GuardExact.     *)
(*                                                                         *)
(* With the types, OneStory is inductive as it stands.  Every store call   *)
(* is an instance of Commit, so what is to be shown of one is that what it *)
(* would write is well typed, tells one story, and leaves the waits that   *)
(* have ended as they are; whether the call fails makes no difference.     *)
(*                                                                         *)
(* GuardExact speaks of a moment with no update to come, so its invariant  *)
(* (GuardInv) says for every moment what the guard will be told: the last  *)
(* update to come that names a wait, or the guard itself when none does,   *)
(* agrees with the store.                                                  *)
(***************************************************************************)
EXTENDS Waits, SequenceTheorems, TLAPS

Endings == {"resolved", "cancelled"}

Story(ws, ms) ==
    \A i \in Ids : /\ ms[i] # None <=> ws[i].status = "resolved"
                   /\ ms[i] = ws[i].verdict

EndedKept(ws, ms) ==
    \A i \in Ids : waits[i].status \in Endings =>
        /\ ws[i].status = waits[i].status
        /\ ws[i].verdict = waits[i].verdict
        /\ ms[i] = message[i]

\* What a store call may write.
Sound(ws, ms) ==
    /\ ws \in [Ids -> Wait] /\ ms \in [Ids -> Verdicts \cup {None}]
    /\ Story(ws, ms) /\ EndedKept(ws, ms)

WaitsInv == TypeOK /\ OneStory

-------------------------------------------------------------------------------
(* One wait changes.                                                       *)

LEMMA CancelledFacts ==
    ASSUME NEW w \in Wait
    PROVE  /\ Cancelled(w) \in Wait
           /\ Cancelled(w).status = "cancelled" /\ Cancelled(w).verdict = w.verdict
  BY DEF Cancelled, Wait

LEMMA ResolvedFacts ==
    ASSUME NEW w \in Wait, NEW v \in Verdicts
    PROVE  /\ Resolved(w, v) \in Wait
           /\ Resolved(w, v).status = "resolved" /\ Resolved(w, v).verdict = v
  BY DEF Resolved, Wait

\* Counting a check costs at most the last one.
LEMMA CheckedFacts ==
    ASSUME NEW w \in Wait
    PROVE  /\ Checked(w) \in Wait
           /\ Checked(w).status = w.status /\ Checked(w).verdict = w.verdict
  <1> DEFINE n == IF w.checks < MaxChecks THEN w.checks + 1 ELSE w.checks
  <1>1. n \in 0 .. MaxChecks
    BY WaitsAssumption DEF Wait
  <1>2. Checked(w) = [[w EXCEPT !.checks = n] EXCEPT !.lease = "none"]
    BY DEF Checked
  <1> HIDE DEF n
  <1> QED BY <1>1, <1>2 DEF Wait

LEMMA DueFacts ==
    ASSUME NEW w \in Wait, NEW b \in BOOLEAN
    PROVE  /\ [w EXCEPT !.due = b] \in Wait
           /\ [w EXCEPT !.due = b].status = w.status
           /\ [w EXCEPT !.due = b].verdict = w.verdict
  BY DEF Wait

LEMMA LeaseFacts ==
    ASSUME NEW w \in Wait, NEW l \in {"none", "live", "lapsed"}
    PROVE  /\ [w EXCEPT !.lease = l] \in Wait
           /\ [w EXCEPT !.lease = l].status = w.status
           /\ [w EXCEPT !.lease = l].verdict = w.verdict
  BY DEF Wait

-------------------------------------------------------------------------------
(* Store calls.                                                            *)

LEMMA TypeFacts ==
    ASSUME WaitsInv
    PROVE  /\ waits \in [Ids -> Wait]
           /\ message \in [Ids -> Verdicts \cup {None}]
           /\ \A i \in Ids : waits[i] \in Wait
           /\ Story(waits, message)
           /\ None \notin Verdicts
  <1>1. None \notin Verdicts
    BY WaitsAssumption DEF Verdicts
  <1> QED BY <1>1 DEF WaitsInv, TypeOK, OneStory, Story

\* Where no wait is resolved or revived, no message is due.
LEMMA QuietChange ==
    ASSUME WaitsInv, NEW ws \in [Ids -> Wait],
           \A i \in Ids :
              /\ ws[i].verdict = waits[i].verdict
              /\ \/ ws[i].status = waits[i].status
                 \/ waits[i].status \notin Endings /\ ws[i].status # "resolved"
    PROVE  Sound(ws, message)
  <1>1. /\ message \in [Ids -> Verdicts \cup {None}] /\ Story(waits, message)
    BY TypeFacts
  <1>2. Story(ws, message)
    BY <1>1 DEF Story, Endings
  <1>3. EndedKept(ws, message)
    BY DEF EndedKept
  <1> QED BY <1>1, <1>2, <1>3 DEF Sound

LEMMA QuietOne ==
    ASSUME WaitsInv, NEW i \in Ids, NEW w \in Wait, w.verdict = waits[i].verdict,
           \/ w.status = waits[i].status
           \/ waits[i].status \notin Endings /\ w.status # "resolved"
    PROVE  Sound([waits EXCEPT ![i] = w], message)
  <1> DEFINE ws == [waits EXCEPT ![i] = w]
  <1>1. waits \in [Ids -> Wait]
    BY TypeFacts
  <1>2. ws \in [Ids -> Wait] /\ ws[i] = w /\ \A j \in Ids \ {i} : ws[j] = waits[j]
    BY <1>1
  <1> HIDE DEF ws
  <1>3. Sound(ws, message)
    BY <1>2, QuietChange
  <1> QED BY <1>3 DEF ws

LEMMA SoundSame == ASSUME WaitsInv PROVE Sound(waits, message)
  BY TypeFacts, QuietChange

\* A verdict on a pending wait, and its message.
LEMMA VerdictSound ==
    ASSUME WaitsInv, NEW i \in Ids, NEW v \in Verdicts, waits[i].status = "pending"
    PROVE  Sound([waits EXCEPT ![i] = Resolved(waits[i], v)], [message EXCEPT ![i] = v])
  <1> DEFINE ws == [waits EXCEPT ![i] = Resolved(waits[i], v)]
             ms == [message EXCEPT ![i] = v]
  <1>1. /\ waits \in [Ids -> Wait] /\ waits[i] \in Wait
        /\ message \in [Ids -> Verdicts \cup {None}]
        /\ Story(waits, message) /\ None \notin Verdicts
    BY TypeFacts
  <1>2. /\ Resolved(waits[i], v) \in Wait
        /\ Resolved(waits[i], v).status = "resolved" /\ Resolved(waits[i], v).verdict = v
    BY <1>1, ResolvedFacts
  <1>3. /\ ws \in [Ids -> Wait] /\ ws[i] = Resolved(waits[i], v)
        /\ \A j \in Ids \ {i} : ws[j] = waits[j]
    BY <1>1, <1>2
  <1>4. /\ ms \in [Ids -> Verdicts \cup {None}] /\ ms[i] = v
        /\ \A j \in Ids \ {i} : ms[j] = message[j]
    BY <1>1
  <1> HIDE DEF ws, ms
  <1>5. Story(ws, ms)
    BY <1>1, <1>2, <1>3, <1>4 DEF Story
  <1>6. EndedKept(ws, ms)
    BY <1>3, <1>4 DEF EndedKept, Endings
  <1>7. Sound(ws, ms)
    BY <1>3, <1>4, <1>5, <1>6 DEF Sound
  <1> QED BY <1>7 DEF ws, ms

\* Whether a store call fails or not, it leaves what it may leave.
StoreKept ==
    /\ Sound(waits', message')
    /\ after' \in Seq(Updates)
    /\ unseen' \in SUBSET Ids
    /\ faults' \in Nat

LEMMA CommitKept ==
    ASSUME WaitsInv, NEW fault, NEW ws, NEW ms, Sound(ws, ms),
           NEW update \in Updates, Commit(fault, ws, ms, update)
    PROVE  StoreKept
  <1>1. after \in Seq(Updates) /\ unseen \in SUBSET Ids /\ faults \in Nat
    BY DEF WaitsInv, TypeOK
  <1>2. (waits' = ws /\ message' = ms) \/ (waits' = waits /\ message' = message)
    BY DEF Commit, durable
  <1>3. Sound(waits', message')
    BY <1>2, SoundSame
  <1>4. Append(after, update) \in Seq(Updates)
    BY <1>1
  <1>5. after' \in Seq(Updates)
    BY <1>1, <1>4 DEF Commit
  <1>6. unseen' \in SUBSET Ids
    <2>1. unseen' = unseen \/ unseen' = unseen \cup {i \in Ids : ws[i] # waits[i]}
      BY DEF Commit
    <2> QED BY <1>1, <2>1
  <1>7. faults' \in Nat
    BY <1>1 DEF Commit
  <1> QED BY <1>3, <1>5, <1>6, <1>7 DEF StoreKept

LEMMA UpdateTyped ==
    ASSUME NEW ids \in SUBSET Ids
    PROVE  Update("add", ids) \in Updates /\ Update("drop", ids) \in Updates
           /\ Update("reset", ids) \in Updates
  BY DEF Update, Updates

\* resolveInternal, for any caller.
LEMMA ResolveKept ==
    ASSUME WaitsInv, NEW i \in Ids, NEW v \in Verdicts, NEW fault, Resolve(i, v, fault)
    PROVE  StoreKept
  <1> DEFINE r == ResolveInternal(i, v)
  <1>1. Sound(r.ws, r.ms)
    <2>1. CASE waits[i].status = "pending"
      <3>1. /\ r.ws = [waits EXCEPT ![i] = Resolved(waits[i], v)]
            /\ r.ms = [message EXCEPT ![i] = v]
        BY <2>1 DEF ResolveInternal, WithVerdict
      <3> QED BY <2>1, <3>1, VerdictSound
    <2>2. CASE waits[i].status # "pending"
      <3>1. r.ws = waits /\ r.ms = message
        BY <2>2 DEF ResolveInternal
      <3> QED BY <3>1, SoundSame
    <2> QED BY <2>1, <2>2
  <1>2. Update("drop", IF r.ok THEN {i} ELSE {}) \in Updates
    BY UpdateTyped
  <1>3. Commit(fault, r.ws, r.ms, Update("drop", IF r.ok THEN {i} ELSE {}))
    BY DEF Resolve
  <1> HIDE DEF r
  <1> QED BY <1>1, <1>2, <1>3, CommitKept


\* A step that calls no store.
LEMMA NoCallKept ==
    ASSUME WaitsInv, waits' = waits, message' = message, after' \in Seq(Updates),
           unseen' \in SUBSET Ids, faults' = faults
    PROVE  StoreKept
  BY SoundSame DEF WaitsInv, TypeOK, StoreKept

-------------------------------------------------------------------------------
(* The actions.                                                            *)

\* However it ends, every step leaves one story.
LEMMA StoreStep ==
    ASSUME WaitsInv, [Next]_vars
    PROVE  StoreKept
  <1>1. /\ waits \in [Ids -> Wait] /\ \A i \in Ids : waits[i] \in Wait
        /\ message \in [Ids -> Verdicts \cup {None}]
        /\ after \in Seq(Updates) /\ unseen \in SUBSET Ids /\ faults \in Nat
    BY TypeFacts DEF WaitsInv, TypeOK
  <1>2. CASE \E i \in Ids : Register(i)
    <2>1. PICK i \in Ids : Register(i)
      BY <1>2
    <2> DEFINE w == [waits[i] EXCEPT !.status = "pending"]
    <2>2. w \in Wait /\ w.verdict = waits[i].verdict /\ w.status = "pending"
      BY <1>1 DEF Wait
    <2>3. waits[i].status = "absent"
      BY <2>1 DEF Register
    <2>4. \E fault \in Faults : Commit(fault, [waits EXCEPT ![i] = w], message,
                  Update("add", IF IsBlockingWait(i) THEN {i} ELSE {}))
      BY <2>1 DEF Register
    <2> HIDE DEF w
    <2>5. Sound([waits EXCEPT ![i] = w], message)
      BY <2>2, <2>3, QuietOne DEF Endings
    <2>6. Update("add", IF IsBlockingWait(i) THEN {i} ELSE {}) \in Updates
      BY UpdateTyped
    <2> QED BY <2>4, <2>5, <2>6, CommitKept
  <1>3. CASE \E i \in Ids, p \in Payloads : ResolveCallback(i, p)
    <2>1. Payloads \subseteq Verdicts
      BY DEF Verdicts
    <2> QED BY <1>3, <2>1, ResolveKept DEF ResolveCallback
  <1>4. CASE \E i \in Ids : Cancel(i)
    <2>1. PICK i \in Ids : Cancel(i)
      BY <1>4
    <2>2. Cancelled(waits[i]) \in Wait /\ Cancelled(waits[i]).verdict = waits[i].verdict
          /\ Cancelled(waits[i]).status = "cancelled"
      BY <1>1, CancelledFacts
    <2>3. waits[i].status \in {"pending", "cancelled"}
      BY <2>1 DEF Cancel
    <2>4. \E fault \in Faults : Commit(fault, [waits EXCEPT ![i] = Cancelled(waits[i])], message,
                                       Update("drop", {i}))
      BY <2>1 DEF Cancel
    <2>5. Sound([waits EXCEPT ![i] = Cancelled(waits[i])], message)
      BY <2>2, <2>3, QuietOne DEF Endings
    <2>6. Update("drop", {i}) \in Updates
      BY UpdateTyped
    <2> QED BY <2>4, <2>5, <2>6, CommitKept
  <1>5. CASE \E s \in Sessions : CancelForSession(s)
    <2>1. PICK s \in Sessions : CancelForSession(s)
      BY <1>5
    <2> DEFINE mine == {i \in Ids : SessionOf(i) = s}
               ws == [i \in Ids |-> IF i \in mine \cap PendingIn(waits)
                                    THEN Cancelled(waits[i]) ELSE waits[i]]
    <2>2. \A i \in Ids :
             /\ ws[i] \in Wait /\ ws[i].verdict = waits[i].verdict
             /\ \/ ws[i].status = waits[i].status
                \/ waits[i].status = "pending" /\ ws[i].status = "cancelled"
      <3>1. \A i \in Ids : /\ Cancelled(waits[i]) \in Wait
                           /\ Cancelled(waits[i]).verdict = waits[i].verdict
                           /\ Cancelled(waits[i]).status = "cancelled"
        BY <1>1, CancelledFacts
      <3> QED BY <1>1, <3>1 DEF PendingIn
    <2>3. ws \in [Ids -> Wait]
      BY <2>2
    <2>4. \E fault \in Faults : Commit(fault, ws, message, Update("drop", mine))
      BY <2>1 DEF CancelForSession
    <2>5. Update("drop", mine) \in Updates
      BY UpdateTyped
    <2> HIDE DEF ws, mine
    <2>6. Sound(ws, message)
      BY <2>2, <2>3, QuietChange DEF Endings
    <2> QED BY <2>4, <2>5, <2>6, CommitKept
  <1>6. CASE ClaimDuePolls
    <2> DEFINE due     == {i \in Ids : Due(waits, i)}
               expired == {i \in due : ModeOf(i) = "callback"}
               claims  == due \ expired
               ws == [i \in Ids |-> IF i \in expired THEN Cancelled(waits[i])
                                    ELSE IF i \in claims THEN [waits[i] EXCEPT !.lease = "live"]
                                    ELSE waits[i]]
    <2>1. \A i \in Ids : i \in due => waits[i].status = "pending"
      BY DEF Due
    <2>2. \A i \in Ids :
             /\ ws[i] \in Wait /\ ws[i].verdict = waits[i].verdict
             /\ \/ ws[i].status = waits[i].status
                \/ waits[i].status = "pending" /\ ws[i].status = "cancelled"
      <3> SUFFICES ASSUME NEW i \in Ids
                   PROVE  /\ ws[i] \in Wait /\ ws[i].verdict = waits[i].verdict
                          /\ \/ ws[i].status = waits[i].status
                             \/ waits[i].status = "pending" /\ ws[i].status = "cancelled"
        OBVIOUS
      <3>1. CASE i \in expired
        <4>1. ws[i] = Cancelled(waits[i]) /\ waits[i].status = "pending"
          BY <2>1, <3>1
        <4> QED BY <1>1, <4>1, CancelledFacts
      <3>2. CASE i \in claims
        <4>1. ws[i] = [waits[i] EXCEPT !.lease = "live"]
          BY <3>2
        <4> QED BY <1>1, <4>1, LeaseFacts, ZenonT(30)
      <3>3. CASE i \notin expired /\ i \notin claims
        BY <1>1, <3>3
      <3> QED BY <3>1, <3>2, <3>3
    <2>3. ws \in [Ids -> Wait]
      BY <2>2
    <2>4. \E fault \in Faults : Commit(fault, ws, message, Update("drop", expired))
      BY <1>6 DEF ClaimDuePolls
    <2>5. Update("drop", expired) \in Updates
      BY UpdateTyped
    <2> HIDE DEF ws, expired
    <2>6. Sound(ws, message)
      BY <2>2, <2>3, QuietChange DEF Endings
    <2> QED BY <2>4, <2>5, <2>6, CommitKept
  <1>7. CASE \E i \in Ids : ResolveDelay(i) \/ ResolvePoll(i)
    <2>1. {"due", "matched", "timeout"} \subseteq Verdicts
      BY DEF Verdicts
    <2> QED BY <1>7, <2>1, ResolveKept DEF ResolveDelay, ResolvePoll
  <1>8. CASE \E i \in Ids : FinishPollAttempt(i)
    <2>1. PICK i \in Ids : FinishPollAttempt(i)
      BY <1>8
    <2> DEFINE mine == waits[i].status = "pending" /\ waits[i].lease # "none"
               saved(b) == [Checked(waits[i]) EXCEPT !.due = b]
    <2>2. PICK fault \in Faults, matches \in BOOLEAN :
             Commit(fault, IF mine THEN [waits EXCEPT ![i] =
                              saved(Outcome(Checked(waits[i]), matches) # "retry")] ELSE waits,
                    message, Update("drop", {}))
      BY <2>1, Zenon DEF FinishPollAttempt
    <2> DEFINE b == Outcome(Checked(waits[i]), matches) # "retry"
    <2>3. /\ b \in BOOLEAN
          /\ Commit(fault, IF mine THEN [waits EXCEPT ![i] = saved(b)] ELSE waits,
                    message, Update("drop", {}))
      BY <2>2
    <2> HIDE DEF b
    <2>4. /\ saved(b) \in Wait /\ saved(b).status = waits[i].status
          /\ saved(b).verdict = waits[i].verdict
      BY <1>1, <2>3, CheckedFacts, DueFacts
    <2> HIDE DEF mine, saved
    <2>5. Sound([waits EXCEPT ![i] = saved(b)], message)
      BY <2>4, QuietOne
    <2>6. Update("drop", {}) \in Updates
      BY UpdateTyped
    <2>7. Sound(IF mine THEN [waits EXCEPT ![i] = saved(b)] ELSE waits, message)
      BY <2>5, SoundSame
    <2> QED BY <2>3, <2>6, <2>7, CommitKept
  <1>9. CASE RefreshPending \/ Start
    <2>1. BlockingIn(waits) \in SUBSET Ids
      BY DEF BlockingIn, PendingIn
    <2>2. Update("reset", BlockingIn(waits)) \in Updates
      BY <2>1, UpdateTyped
    <2> DEFINE u == Update("reset", BlockingIn(waits))
    <2>a. after' = Append(after, u) \/ after' = <<u>>
      BY <1>9 DEF RefreshPending, Start
    <2> HIDE DEF u
    <2>b. u \in Updates
      BY <2>2 DEF u
    <2>3. after' \in Seq(Updates)
      <3>1. Append(after, u) \in Seq(Updates)
        BY <1>1, <2>b
      <3>2. <<u>> \in Seq(Updates)
        BY <2>b
      <3> QED BY <2>a, <3>1, <3>2, Zenon
    <2>c. unseen' = unseen \/ unseen' = {}
      BY <1>9 DEF RefreshPending, Start
    <2> QED BY <1>1, <1>9, <2>3, <2>c, NoCallKept DEF RefreshPending, Start
  <1>10. CASE UpdateGuard
    <2>1. after' \in Seq(Updates)
      BY <1>1, <1>10 DEF UpdateGuard
    <2> QED BY <1>1, <1>10, <2>1, NoCallKept DEF UpdateGuard
  <1>11. CASE \E i \in Ids : FallsDue(i) \/ LeaseLapses(i)
    <2>1. PICK i \in Ids : FallsDue(i) \/ LeaseLapses(i)
      BY <1>11
    <2>2. \E w \in Wait : /\ w.verdict = waits[i].verdict /\ w.status = waits[i].status
                          /\ waits' = [waits EXCEPT ![i] = w]
      <3>1. CASE FallsDue(i)
        <4>1. waits' = [waits EXCEPT ![i] = [waits[i] EXCEPT !.due = TRUE]]
          BY <3>1 DEF FallsDue
        <4> QED BY <1>1, <4>1, DueFacts
      <3>2. CASE LeaseLapses(i)
        <4>1. waits' = [waits EXCEPT ![i] = [waits[i] EXCEPT !.lease = "lapsed"]]
          BY <3>2 DEF LeaseLapses
        <4> QED BY <1>1, <4>1, LeaseFacts
      <3> QED BY <2>1, <3>1, <3>2
    <2>3. Sound(waits', message)
      BY <2>2, QuietOne
    <2>4. UNCHANGED <<message, after, unseen, faults>>
      BY <2>1 DEF FallsDue, LeaseLapses
    <2> QED BY <1>1, <2>3, <2>4 DEF StoreKept
  <1>12. CASE Crash
    <2>1. after' \in Seq(Updates) /\ unseen' \in SUBSET Ids
      BY <1>12 DEF Crash
    <2> QED BY <1>12, <2>1, NoCallKept DEF Crash
  <1>13. CASE UNCHANGED vars
    BY <1>1, <1>13, NoCallKept DEF vars
  <1> QED BY <1>2, <1>3, <1>4, <1>5, <1>6, <1>7, <1>8, <1>9, <1>10, <1>11, <1>12, <1>13
          DEF Next, Tick, Clock

\* The worker, its claims and the guard stay well formed.
LEMMA VolatileStep ==
    ASSUME WaitsInv, [Next]_vars
    PROVE  /\ phase' \in {"down", "idle", "polls", "refresh"}
           /\ job' \in [Ids -> Jobs]
           /\ guard' \in SUBSET Ids
           /\ crashes' \in Nat
  <1>1. /\ phase \in {"down", "idle", "polls", "refresh"}
        /\ job \in [Ids -> Jobs] /\ guard \in SUBSET Ids /\ crashes \in Nat
        /\ after \in Seq(Updates)
    BY DEF WaitsInv, TypeOK
  <1>2. CASE \/ UNCHANGED vars
             \/ \E i \in Ids : Register(i) \/ Cancel(i) \/ FallsDue(i) \/ LeaseLapses(i)
             \/ \E i \in Ids, p \in Payloads : ResolveCallback(i, p)
             \/ \E s \in Sessions : CancelForSession(s)
    BY <1>1, <1>2 DEF vars, Register, Cancel, FallsDue, LeaseLapses, ResolveCallback,
          CancelForSession
  <1>3. CASE ClaimDuePolls
    <2>1. job' \in [Ids -> Jobs]
      BY <1>3 DEF ClaimDuePolls, Jobs
    <2>2. phase' \in {"idle", "polls"}
      BY <1>3 DEF ClaimDuePolls
    <2> QED BY <1>1, <1>3, <2>1, <2>2 DEF ClaimDuePolls
  <1>4. ASSUME NEW i \in Ids, ResolveDelay(i) \/ ResolvePoll(i) \/ FinishPollAttempt(i)
        PROVE  \E j \in Jobs : job' = [job EXCEPT ![i] = j]
    <2>1. CASE ResolveDelay(i)
      BY <2>1 DEF ResolveDelay, Jobs
    <2>2. CASE ResolvePoll(i)
      BY <2>2 DEF ResolvePoll, Jobs
    <2>3. CASE FinishPollAttempt(i)
      <3>1. \A w, b : Outcome(w, b) \in {"matched", "timeout", "retry"}
        BY DEF Outcome
      <3>2. \E e \in {"failed", "none", "matched", "timeout"} : job' = [job EXCEPT ![i] = e]
        <4> DEFINE mine == waits[i].status = "pending" /\ waits[i].lease # "none"
                   next(fault, o) == IF fault # "none"
                                     THEN IF job[i] = "claimed" THEN "failed" ELSE "none"
                                     ELSE IF mine /\ o # "retry" THEN o ELSE "none"
        <4>1. PICK fault, matches :
                 job' = [job EXCEPT ![i] = next(fault, Outcome(Checked(waits[i]), matches))]
          BY <2>3, Zenon DEF FinishPollAttempt
        <4>2. next(fault, Outcome(Checked(waits[i]), matches))
                 \in {"failed", "none", "matched", "timeout"}
          BY <3>1
        <4> QED BY <4>1, <4>2
      <3> QED BY <3>2 DEF Jobs
    <2> QED BY <1>4, <2>1, <2>2, <2>3
  <1>5. CASE \E i \in Ids : ResolveDelay(i) \/ ResolvePoll(i) \/ FinishPollAttempt(i)
    <2>1. job' \in [Ids -> Jobs]
      BY <1>1, <1>4, <1>5
    <2> QED BY <1>1, <1>5, <2>1 DEF ResolveDelay, ResolvePoll, FinishPollAttempt
  <1>6. CASE RefreshPending \/ Start
    BY <1>1, <1>6 DEF RefreshPending, Start
  <1>7. CASE UpdateGuard
    <2>1. Head(after) \in Updates
      BY <1>1, <1>7 DEF UpdateGuard
    <2>2. Head(after).ids \in SUBSET Ids /\ Head(after).op \in {"add", "drop", "reset"}
      BY <2>1 DEF Updates
    <2>3. Rebuilt(guard, Head(after)) \in SUBSET Ids
      BY <1>1, <2>2 DEF Rebuilt
    <2> QED BY <1>1, <1>7, <2>3 DEF UpdateGuard
  <1>8. CASE Crash
    BY <1>1, <1>8 DEF Crash, Jobs
  <1> QED BY <1>2, <1>3, <1>5, <1>6, <1>7, <1>8 DEF Next, Tick, Clock

-------------------------------------------------------------------------------
(* The theorems.                                                           *)

LEMMA WaitsInit == Init => WaitsInv
  <1> SUFFICES ASSUME Init PROVE WaitsInv
    OBVIOUS
  <1>1. NoWait \in Wait /\ NoWait.status = "absent" /\ NoWait.verdict = None
    BY WaitsAssumption DEF NoWait, Wait
  <1>2. TypeOK
    BY <1>1 DEF Init, TypeOK, Jobs
  <1>3. OneStory
    BY <1>1 DEF Init, OneStory
  <1> QED BY <1>2, <1>3 DEF WaitsInv

LEMMA WaitsNext == WaitsInv /\ [Next]_vars => WaitsInv'
  <1> SUFFICES ASSUME WaitsInv, [Next]_vars PROVE WaitsInv'
    OBVIOUS
  <1>1. TypeOK'
    BY StoreStep, VolatileStep DEF StoreKept, Sound, TypeOK
  <1>2. OneStory'
    BY StoreStep DEF StoreKept, Sound, Story, OneStory
  <1> QED BY <1>1, <1>2 DEF WaitsInv

\* The inductive invariant.
THEOREM WaitsSafe == Spec => []WaitsInv
  BY WaitsInit, WaitsNext, PTL DEF Spec

\* Waits, claims and guard updates stay well formed; a poll is checked at most
\* as often as it was allowed.
THEOREM WaitsTyped == Spec => []TypeOK
  <1>1. WaitsInv => TypeOK
    BY DEF WaitsInv
  <1> QED BY <1>1, WaitsSafe, PTL

\* A message leaves a wait exactly when it resolved, with its verdict.
THEOREM WaitsOneStory == Spec => []OneStory
  <1>1. WaitsInv => OneStory
    BY DEF WaitsInv
  <1> QED BY <1>1, WaitsSafe, PTL

\* A wait ends once.
THEOREM WaitsEndOnce == Spec => FirstEndingWins
  <1>1. WaitsInv /\ [Next]_vars =>
           [\A i \in Ids : waits[i].status \in {"resolved", "cancelled"} =>
                 /\ waits'[i].status = waits[i].status
                 /\ waits'[i].verdict = waits[i].verdict
                 /\ message'[i] = message[i]]_vars
    BY StoreStep DEF StoreKept, Sound, EndedKept, Endings
  <1> QED BY <1>1, WaitsSafe, PTL DEF Spec, FirstEndingWins

-------------------------------------------------------------------------------
(* The guard.  Of the updates still to come, the last one that speaks of a *)
(* wait says what the store says of it; where none does, the guard does.   *)

Touches(u, i) == u.op = "reset" \/ i \in u.ids
Puts(u, i) == u.op # "drop" /\ i \in u.ids
Blocks(i) == i \in BlockingIn(waits)

Untouched(i, k) == \A m \in k .. Len(after) : ~Touches(after[m], i)

GuardTells(i) ==
    \/ Untouched(i, 1) /\ (i \in guard <=> Blocks(i))
    \/ \E k \in 1 .. Len(after) :
          /\ Touches(after[k], i) /\ Untouched(i, k + 1)
          /\ Puts(after[k], i) <=> Blocks(i)

GuardInv ==
    /\ WaitsInv
    /\ Up => \A i \in Ids \ unseen : GuardTells(i)
    /\ ~Up => after = <<>> /\ \A i \in Ids : job[i] = "none"

BlocksIn(ws, i) == ws[i].status = "pending" /\ IsBlockingWait(i)

\* The update of a call tells what the call makes of the waits it names, and the
\* call changes nothing the guard is about in the others.
Told(ws, u) ==
    /\ u.op \in {"add", "drop"}
    /\ \A i \in Ids : IF i \in u.ids THEN u.op = "add" <=> BlocksIn(ws, i)
                      ELSE BlocksIn(ws, i) <=> BlocksIn(waits, i)

GuardKept == \A i \in Ids \ unseen' : GuardTells(i)'

LEMMA BlocksIs == \A i \in Ids : Blocks(i) <=> BlocksIn(waits, i)
  BY DEF Blocks, BlocksIn, BlockingIn, PendingIn

LEMMA BlocksIsThen == \A i \in Ids : Blocks(i)' <=> BlocksIn(waits', i)
  BY DEF Blocks, BlocksIn, BlockingIn, PendingIn

LEMMA TellsSame ==
    ASSUME NEW i \in Ids, GuardTells(i), UNCHANGED <<after, guard>>, Blocks(i)' <=> Blocks(i)
    PROVE  GuardTells(i)'
  BY DEF GuardTells, Untouched

\* One more update, that tells the truth or is not about the wait.
LEMMA TellsMore ==
    ASSUME after \in Seq(Updates), NEW i \in Ids, NEW u \in Updates,
           after' = Append(after, u), guard' = guard,
           IF Touches(u, i) THEN Puts(u, i) <=> Blocks(i)'
                            ELSE GuardTells(i) /\ (Blocks(i)' <=> Blocks(i))
    PROVE  GuardTells(i)'
  <1>1. /\ Len(after) \in Nat /\ Len(after') = Len(after) + 1
        /\ \A k \in 1 .. Len(after) : after'[k] = after[k]
        /\ after'[Len(after) + 1] = u
    BY AppendProperties
  <1>2. CASE Touches(u, i)
    <2>1. PICK n \in 1 .. Len(after') : after'[n] = u /\ n + 1 .. Len(after') = {}
      BY <1>1
    <2>2. Untouched(i, n + 1)'
      BY <2>1 DEF Untouched
    <2> QED BY <1>2, <2>1, <2>2 DEF GuardTells, Touches, Puts
  <1>3. CASE ~Touches(u, i)
    <2>1. ASSUME NEW k \in Nat \ {0}, Untouched(i, k)  PROVE Untouched(i, k)'
      <3> SUFFICES ASSUME NEW m \in k .. Len(after')  PROVE ~Touches(after'[m], i)
        BY DEF Untouched, Touches
      <3>1. m \in k .. Len(after) \/ m = Len(after) + 1
        BY <1>1
      <3>2. m \in k .. Len(after) => m \in 1 .. Len(after)
        BY <1>1
      <3> QED BY <1>1, <1>3, <2>1, <3>1, <3>2 DEF Untouched
    <2>2. CASE Untouched(i, 1) /\ (i \in guard <=> Blocks(i))
      BY <1>3, <2>1, <2>2 DEF GuardTells
    <2>3. CASE \E k \in 1 .. Len(after) :
                  /\ Touches(after[k], i) /\ Untouched(i, k + 1)
                  /\ Puts(after[k], i) <=> Blocks(i)
      <3>1. PICK k \in 1 .. Len(after) :
                  /\ Touches(after[k], i) /\ Untouched(i, k + 1)
                  /\ Puts(after[k], i) <=> Blocks(i)
        BY <2>3
      <3>2. k \in 1 .. Len(after') /\ after'[k] = after[k] /\ k + 1 \in Nat \ {0}
        BY <1>1
      <3>3. Untouched(i, k + 1)'
        BY <2>1, <3>1, <3>2
      <3> QED BY <1>3, <3>1, <3>2, <3>3 DEF GuardTells, Touches, Puts
    <2> QED BY <1>3, <2>2, <2>3 DEF GuardTells
  <1> QED BY <1>2, <1>3

LEMMA CommitGuard ==
    ASSUME GuardInv, Up, NEW fault \in {"none", "rolledback", "unseen"}, NEW ws, NEW ms,
           NEW u \in Updates, Commit(fault, ws, ms, u), Told(ws, u), guard' = guard
    PROVE  GuardKept
  <1>1. /\ after \in Seq(Updates)
        /\ \A i \in Ids \ unseen : GuardTells(i)
        /\ \A i \in Ids : Blocks(i) <=> BlocksIn(waits, i)
        /\ \A i \in Ids : Blocks(i)' <=> BlocksIn(waits', i)
    BY BlocksIs, BlocksIsThen DEF GuardInv, WaitsInv, TypeOK
  <1> SUFFICES ASSUME NEW i \in Ids, i \notin unseen'
               PROVE  GuardTells(i)'
    BY DEF GuardKept
  <1>2. i \notin unseen
    BY DEF Commit
  <1>3. CASE fault = "rolledback"
    <2>1. waits' = waits /\ after' = after
      BY <1>3 DEF Commit, durable
    <2> QED BY <1>1, <1>2, <2>1, TellsSame DEF BlocksIn
  <1>4. CASE fault = "unseen"
    <2>1. waits' = ws /\ after' = after /\ ws[i] = waits[i]
      BY <1>4 DEF Commit
    <2> QED BY <1>1, <1>2, <2>1, TellsSame DEF BlocksIn
  <1>5. CASE fault = "none"
    <2>1. waits' = ws /\ (after' = IF u.ids # {} THEN Append(after, u) ELSE after)
      BY <1>5 DEF Commit
    <2>2. CASE u.ids = {}
      BY <1>1, <1>2, <2>1, <2>2, TellsSame DEF Told
    <2>3. CASE u.ids # {} /\ i \in u.ids
      <3>1. Touches(u, i) /\ (Puts(u, i) <=> Blocks(i)')
        BY <1>1, <2>1, <2>3 DEF Told, Touches, Puts
      <3> QED BY <1>1, <2>1, <2>3, <3>1, TellsMore
    <2>4. CASE u.ids # {} /\ i \notin u.ids
      <3>1. ~Touches(u, i) /\ (Blocks(i)' <=> Blocks(i))
        BY <1>1, <2>1, <2>4 DEF Told, Touches
      <3> QED BY <1>1, <1>2, <2>1, <2>4, <3>1, TellsMore
    <2> QED BY <2>2, <2>3, <2>4
  <1> QED BY <1>3, <1>4, <1>5


\* What each call tells.

LEMMA ResolveGuard ==
    ASSUME GuardInv, Up, NEW i \in Ids, NEW v \in Verdicts,
           NEW fault \in {"none", "rolledback", "unseen"}, Resolve(i, v, fault), guard' = guard
    PROVE  GuardKept
  <1>1. waits \in [Ids -> Wait]
    BY DEF GuardInv, WaitsInv, TypeOK
  <1> DEFINE r == ResolveInternal(i, v)
             u == Update("drop", IF r.ok THEN {i} ELSE {})
  <1>2. u \in Updates /\ u.op = "drop" /\ u.ids = IF r.ok THEN {i} ELSE {}
    BY UpdateTyped DEF Update
  <1>3. Commit(fault, r.ws, r.ms, u)
    BY DEF Resolve
  <1>4. Told(r.ws, u)
    <2>1. CASE waits[i].status = "pending"
      <3>1. r.ok = TRUE /\ r.ws = [waits EXCEPT ![i] = Resolved(waits[i], v)]
        BY <2>1 DEF ResolveInternal, WithVerdict
      <3>2. Resolved(waits[i], v).status = "resolved"
        BY <1>1, ResolvedFacts
      <3>3. r.ws[i].status = "resolved" /\ \A j \in Ids \ {i} : r.ws[j] = waits[j]
        BY <1>1, <3>1, <3>2
      <3> HIDE DEF r
      <3> QED BY <1>2, <3>1, <3>3 DEF Told, BlocksIn
    <2>2. CASE waits[i].status # "pending"
      <3>1. r.ws = waits
        BY <2>2 DEF ResolveInternal
      <3> HIDE DEF r
      <3> QED BY <1>2, <2>2, <3>1 DEF Told, BlocksIn
    <2> QED BY <2>1, <2>2
  <1> HIDE DEF r, u
  <1> QED BY <1>2, <1>3, <1>4, CommitGuard

\* A call that leaves the waits' standing alone and tells nothing.
LEMMA SilentTold ==
    ASSUME NEW ws, \A i \in Ids : ws[i].status = waits[i].status
    PROVE  Told(ws, Update("drop", {})) /\ Update("drop", {}) \in Updates
  BY UpdateTyped DEF Told, BlocksIn, Update

LEMMA RegisterGuard ==
    ASSUME GuardInv, NEW i \in Ids, Register(i)
    PROVE  GuardKept
  <1> DEFINE ws == [waits EXCEPT ![i].status = "pending"]
             u == Update("add", IF IsBlockingWait(i) THEN {i} ELSE {})
  <1>1. waits \in [Ids -> Wait] /\ waits[i] \in Wait
    BY DEF GuardInv, WaitsInv, TypeOK
  <1>2. Up /\ waits[i].status = "absent" /\ guard' = guard
        /\ \E fault \in Faults : Commit(fault, ws, message, u)
    BY DEF Register, Callable
  <1>3. ws[i].status = "pending" /\ \A j \in Ids \ {i} : ws[j] = waits[j]
    BY <1>1 DEF Wait
  <1>4. u \in Updates /\ u.op = "add" /\ u.ids = IF IsBlockingWait(i) THEN {i} ELSE {}
    BY UpdateTyped DEF Update
  <1> HIDE DEF ws, u
  <1>5. Told(ws, u)
    BY <1>2, <1>3, <1>4 DEF Told, BlocksIn
  <1> QED BY <1>2, <1>4, <1>5, CommitGuard DEF Faults

\* Waits are cancelled, those named by the update and no other; the rest of it
\* are over or never began.
LEMMA CancelGuard ==
    ASSUME GuardInv, Up, guard' = guard, NEW fault \in {"none", "rolledback", "unseen"},
           NEW ws, NEW ids \in SUBSET Ids,
           \A i \in Ids : ws[i].status = IF i \in ids /\ waits[i].status = "pending"
                                         THEN "cancelled" ELSE waits[i].status,
           Commit(fault, ws, message, Update("drop", ids))
    PROVE  GuardKept
  <1> DEFINE u == Update("drop", ids)
  <1>1. u \in Updates /\ u.op = "drop" /\ u.ids = ids
    BY UpdateTyped DEF Update
  <1>2. Told(ws, u)
    BY <1>1 DEF Told, BlocksIn
  <1> HIDE DEF u
  <1>3. Commit(fault, ws, message, u)
    BY DEF u
  <1> QED BY <1>1, <1>2, <1>3, CommitGuard

LEMMA GuardStep ==
    ASSUME GuardInv, Up, Up', [Next]_vars, ~UpdateGuard
    PROVE  GuardKept
  <1>1. /\ waits \in [Ids -> Wait] /\ \A i \in Ids : waits[i] \in Wait
        /\ after \in Seq(Updates)
        /\ \A i \in Ids \ unseen : GuardTells(i)
        /\ Faults \subseteq {"none", "rolledback", "unseen"}
    BY DEF GuardInv, WaitsInv, TypeOK, Faults
  <1>2. ASSUME NEW i \in Ids, Register(i)  PROVE GuardKept
    BY <1>2, RegisterGuard
  <1>3. ASSUME NEW i \in Ids, NEW p \in Payloads, ResolveCallback(i, p)  PROVE GuardKept
    <2>1. p \in Verdicts
      BY DEF Verdicts
    <2> QED BY <1>1, <1>3, <2>1, ResolveGuard DEF ResolveCallback
  <1>4. ASSUME NEW i \in Ids, Cancel(i)  PROVE GuardKept
    <2> DEFINE ws == [waits EXCEPT ![i] = Cancelled(waits[i])]
    <2>1. /\ waits[i].status \in {"pending", "cancelled"} /\ guard' = guard
          /\ \E fault \in Faults : Commit(fault, ws, message, Update("drop", {i}))
      BY <1>4 DEF Cancel
    <2>2. Cancelled(waits[i]).status = "cancelled"
      BY <1>1, CancelledFacts
    <2>3. \A j \in Ids : ws[j].status = IF j \in {i} /\ waits[j].status = "pending"
                                        THEN "cancelled" ELSE waits[j].status
      BY <1>1, <2>1, <2>2
    <2>4. {i} \in SUBSET Ids
      OBVIOUS
    <2> HIDE DEF ws
    <2> QED BY <1>1, <2>1, <2>3, <2>4, CancelGuard
  <1>5. ASSUME NEW s \in Sessions, CancelForSession(s)  PROVE GuardKept
    <2> DEFINE mine == {i \in Ids : SessionOf(i) = s}
               ws == [i \in Ids |-> IF i \in mine \cap PendingIn(waits)
                                    THEN Cancelled(waits[i]) ELSE waits[i]]
    <2>1. /\ guard' = guard
          /\ \E fault \in Faults : Commit(fault, ws, message, Update("drop", mine))
      BY <1>5 DEF CancelForSession
    <2>2. \A i \in Ids : Cancelled(waits[i]).status = "cancelled"
      BY <1>1, CancelledFacts
    <2>3. \A i \in Ids : ws[i].status = IF i \in mine /\ waits[i].status = "pending"
                                        THEN "cancelled" ELSE waits[i].status
      BY <2>2 DEF PendingIn
    <2>4. mine \in SUBSET Ids
      OBVIOUS
    <2> HIDE DEF ws, mine
    <2>5. PICK fault \in Faults : Commit(fault, ws, message, Update("drop", mine))
      BY <2>1
    <2>6. fault \in {"none", "rolledback", "unseen"} /\ guard' = guard
      BY <1>1, <2>1
    <2> QED BY <2>3, <2>4, <2>5, <2>6, CancelGuard
  <1>6. CASE ClaimDuePolls
    <2> DEFINE due     == {i \in Ids : Due(waits, i)}
               expired == {i \in due : ModeOf(i) = "callback"}
               claims  == due \ expired
               ws == [i \in Ids |-> IF i \in expired THEN Cancelled(waits[i])
                                    ELSE IF i \in claims THEN [waits[i] EXCEPT !.lease = "live"]
                                    ELSE waits[i]]
    <2>1. /\ guard' = guard
          /\ \E fault \in Faults : Commit(fault, ws, message, Update("drop", expired))
      BY <1>6 DEF ClaimDuePolls
    <2>2. \A i \in Ids : /\ Cancelled(waits[i]).status = "cancelled"
                         /\ [waits[i] EXCEPT !.lease = "live"].status = waits[i].status
      BY <1>1, CancelledFacts, LeaseFacts
    <2>3. \A i \in expired : waits[i].status = "pending"
      BY DEF Due
    <2>4. expired \in SUBSET Ids
      OBVIOUS
    <2> HIDE DEF expired, claims
    <2>5. \A i \in Ids : ws[i].status = IF i \in expired /\ waits[i].status = "pending"
                                        THEN "cancelled" ELSE waits[i].status
      BY <2>2, <2>3
    <2> HIDE DEF ws
    <2>6. PICK fault \in Faults : Commit(fault, ws, message, Update("drop", expired))
      BY <2>1
    <2>7. fault \in {"none", "rolledback", "unseen"} /\ guard' = guard
      BY <1>1, <2>1
    <2> QED BY <2>4, <2>5, <2>6, <2>7, CancelGuard
  <1>7. ASSUME NEW i \in Ids, ResolveDelay(i) \/ ResolvePoll(i)  PROVE GuardKept
    <2>1. {"due", "matched", "timeout"} \subseteq Verdicts
      BY DEF Verdicts
    <2>2. \E v \in {"due", "matched", "timeout"}, fault \in Faults : Resolve(i, v, fault)
      BY <1>7 DEF ResolveDelay, ResolvePoll
    <2>3. guard' = guard
      BY <1>7 DEF ResolveDelay, ResolvePoll
    <2> QED BY <1>1, <2>1, <2>2, <2>3, ResolveGuard
  <1>8. ASSUME NEW i \in Ids, FinishPollAttempt(i)  PROVE GuardKept
    <2> DEFINE mine == waits[i].status = "pending" /\ waits[i].lease # "none"
               saved(b) == [Checked(waits[i]) EXCEPT !.due = b]
    <2>1. PICK fault \in Faults, matches \in BOOLEAN :
             Commit(fault, IF mine THEN [waits EXCEPT ![i] =
                              saved(Outcome(Checked(waits[i]), matches) # "retry")] ELSE waits,
                    message, Update("drop", {}))
      BY <1>8, Zenon DEF FinishPollAttempt
    <2> DEFINE b == Outcome(Checked(waits[i]), matches) # "retry"
               ws == IF mine THEN [waits EXCEPT ![i] = saved(b)] ELSE waits
    <2>2. b \in BOOLEAN /\ Commit(fault, ws, message, Update("drop", {}))
      BY <2>1
    <2> HIDE DEF b
    <2>3. saved(b).status = waits[i].status
      BY <1>1, <2>2, CheckedFacts, DueFacts
    <2> HIDE DEF mine, saved
    <2>4. \A j \in Ids : ws[j].status = waits[j].status
      BY <1>1, <2>3
    <2>5. guard' = guard
      BY <1>8 DEF FinishPollAttempt
    <2> HIDE DEF ws
    <2> QED BY <1>1, <2>2, <2>4, <2>5, SilentTold, CommitGuard
  <1>9. CASE RefreshPending
    <2> DEFINE u == Update("reset", BlockingIn(waits))
    <2>1. BlockingIn(waits) \in SUBSET Ids
      BY DEF BlockingIn, PendingIn
    <2>2. u \in Updates /\ u.op = "reset" /\ u.ids = BlockingIn(waits)
      BY <2>1, UpdateTyped DEF Update
    <2>3. after' = Append(after, u) /\ guard' = guard /\ waits' = waits
      BY <1>9 DEF RefreshPending
    <2> HIDE DEF u
    <2>4. \A i \in Ids : Touches(u, i) /\ (Puts(u, i) <=> Blocks(i)')
      BY <2>2, <2>3 DEF Touches, Puts, Blocks
    <2> QED BY <1>1, <2>2, <2>3, <2>4, TellsMore DEF GuardKept
  <1>10. ASSUME NEW i \in Ids, FallsDue(i) \/ LeaseLapses(i)  PROVE GuardKept
    <2>1. \A j \in Ids : waits'[j].status = waits[j].status
      <3>1. CASE FallsDue(i)
        <4>1. waits' = [waits EXCEPT ![i] = [waits[i] EXCEPT !.due = TRUE]]
          BY <1>1, <3>1 DEF FallsDue
        <4>2. [waits[i] EXCEPT !.due = TRUE].status = waits[i].status
          BY <1>1, DueFacts
        <4> QED BY <1>1, <4>1, <4>2
      <3>2. CASE LeaseLapses(i)
        <4>1. waits' = [waits EXCEPT ![i] = [waits[i] EXCEPT !.lease = "lapsed"]]
          BY <1>1, <3>2 DEF LeaseLapses
        <4>2. [waits[i] EXCEPT !.lease = "lapsed"].status = waits[i].status
          BY <1>1, LeaseFacts
        <4> QED BY <1>1, <4>1, <4>2
      <3> QED BY <1>10, <3>1, <3>2
    <2>2. \A j \in Ids : Blocks(j)' <=> Blocks(j)
      BY <2>1, BlocksIs, BlocksIsThen DEF BlocksIn
    <2>3. UNCHANGED <<after, guard, unseen>>
      BY <1>10 DEF FallsDue, LeaseLapses
    <2> QED BY <1>1, <2>2, <2>3, TellsSame DEF GuardKept
  <1>11. CASE UNCHANGED vars
    <2>1. UNCHANGED <<waits, after, guard, unseen>>
      BY <1>11 DEF vars
    <2>2. \A j \in Ids : Blocks(j)' <=> Blocks(j)
      BY <2>1 DEF Blocks
    <2> QED BY <1>1, <2>1, <2>2, TellsSame DEF GuardKept
  <1>12. ~Crash /\ ~Start
    BY DEF Crash, Start, Up
  <1> QED BY <1>2, <1>3, <1>4, <1>5, <1>6, <1>7, <1>8, <1>9, <1>10, <1>11, <1>12
          DEF Next, Tick, Clock

\* The continuation of the oldest call: what it tells moves into the guard.
LEMMA UpdateGuardKept ==
    ASSUME GuardInv, Up, UpdateGuard
    PROVE  GuardKept
  <1>1. /\ after \in Seq(Updates) /\ after # <<>> /\ guard \in SUBSET Ids
        /\ \A i \in Ids \ unseen : GuardTells(i)
        /\ after' = Tail(after) /\ UNCHANGED <<waits, unseen>>
        /\ guard' = Rebuilt(guard, Head(after))
    BY DEF GuardInv, WaitsInv, TypeOK, UpdateGuard
  <1>2. PICK n \in Nat : Len(after) = n + 1
    BY <1>1
  <1>3. /\ Len(after') = n /\ Head(after) = after[1] /\ after[1] \in Updates
        /\ \A k \in 1 .. n : after'[k] = after[k + 1]
    BY <1>1, <1>2
  <1> SUFFICES ASSUME NEW i \in Ids, i \notin unseen
               PROVE  GuardTells(i)'
    BY <1>1 DEF GuardKept
  <1>4. Blocks(i)' <=> Blocks(i)
    BY <1>1 DEF Blocks
  <1>5. ASSUME NEW k \in Nat \ {0}, Untouched(i, k + 1)  PROVE Untouched(i, k)'
    <2> SUFFICES ASSUME NEW m \in k .. n  PROVE ~Touches(after'[m], i)
      BY <1>3 DEF Untouched, Touches
    <2>1. m \in 1 .. n /\ m + 1 \in k + 1 .. Len(after)
      BY <1>2
    <2> QED BY <1>3, <1>5, <2>1 DEF Untouched
  <1>6. CASE Untouched(i, 1) /\ (i \in guard <=> Blocks(i))
    <2>1. Untouched(i, 1 + 1) /\ ~Touches(after[1], i)
      BY <1>2, <1>6 DEF Untouched
    <2>2. i \in guard' <=> i \in guard
      BY <1>1, <1>3, <2>1 DEF Rebuilt, Touches, Updates
    <2>3. Untouched(i, 1)'
      BY <1>5, <2>1
    <2> QED BY <1>4, <1>6, <2>2, <2>3 DEF GuardTells
  <1>7. ASSUME NEW k \in 1 .. Len(after), Touches(after[k], i), Untouched(i, k + 1),
               Puts(after[k], i) <=> Blocks(i)
        PROVE  GuardTells(i)'
    <2>1. CASE k = 1
      <3>1. Untouched(i, 1)'
        BY <1>5, <1>7, <2>1
      <3>2. i \in guard' <=> Puts(after[1], i)
        BY <1>1, <1>3, <1>7, <2>1 DEF Rebuilt, Touches, Puts, Updates
      <3> QED BY <1>4, <1>7, <2>1, <3>1, <3>2 DEF GuardTells
    <2>2. CASE k # 1
      <3>1. PICK j \in 1 .. n : k = j + 1
        BY <1>2, <2>2
      <3>2. after'[j] = after[k] /\ Untouched(i, j + 1)'
        BY <1>3, <1>5, <1>7, <3>1
      <3> QED BY <1>3, <1>4, <1>7, <3>1, <3>2 DEF GuardTells, Touches, Puts
    <2> QED BY <2>1, <2>2
  <1>8. GuardTells(i)
    BY <1>1
  <1> QED BY <1>6, <1>7, <1>8 DEF GuardTells

LEMMA GuardInit == Init => GuardInv
  <1> SUFFICES ASSUME Init PROVE GuardInv
    OBVIOUS
  <1>1. WaitsInv
    BY WaitsInit
  <1>2. \A i \in Ids : ~Blocks(i)
    BY DEF Init, NoWait, Blocks, BlockingIn, PendingIn
  <1>3. \A i \in Ids : Untouched(i, 1) /\ i \notin guard
    BY DEF Init, Untouched
  <1>4. Up
    BY DEF Init, Up
  <1> QED BY <1>1, <1>2, <1>3, <1>4 DEF GuardInv, GuardTells

LEMMA GuardNext == GuardInv /\ [Next]_vars => GuardInv'
  <1> SUFFICES ASSUME GuardInv, [Next]_vars PROVE GuardInv'
    OBVIOUS
  <1>1. WaitsInv'
    BY WaitsNext DEF GuardInv
  <1>2. ASSUME Up'  PROVE \A i \in Ids \ unseen' : GuardTells(i)'
    <2>1. CASE Up /\ UpdateGuard
      BY <2>1, UpdateGuardKept DEF GuardKept
    <2>2. CASE Up /\ ~UpdateGuard
      BY <1>2, <2>2, GuardStep DEF GuardKept
    <2>3. CASE ~Up
      <3>1. Start
        BY <1>2, <2>3 DEF GuardInv, Next, Tick, Clock, Up, Register, ResolveCallback, Cancel,
              CancelForSession, Callable, ClaimDuePolls, ResolveDelay, FinishPollAttempt,
              ResolvePoll, RefreshPending, UpdateGuard, FallsDue, LeaseLapses, Crash, vars
      <3> DEFINE u == Update("reset", BlockingIn(waits))
      <3>2. after' = <<u>> /\ waits' = waits /\ u.op = "reset" /\ u.ids = BlockingIn(waits)
        BY <3>1 DEF Start, Update
      <3> HIDE DEF u
      <3>3. Len(after') = 1 /\ after'[1] = u
        BY <3>2
      <3> SUFFICES ASSUME NEW i \in Ids  PROVE GuardTells(i)'
        OBVIOUS
      <3>4. Touches(u, i) /\ (Puts(u, i) <=> Blocks(i)')
        BY <3>2 DEF Touches, Puts, Blocks
      <3>5. Untouched(i, 1 + 1)'
        BY <3>3 DEF Untouched
      <3> QED BY <3>3, <3>4, <3>5 DEF GuardTells, Touches, Puts
    <2> QED BY <2>1, <2>2, <2>3
  <1>3. ASSUME ~Up'  PROVE after' = <<>> /\ \A i \in Ids : job'[i] = "none"
    <2>1. CASE Crash
      BY <2>1 DEF Crash
    <2>2. CASE ~Crash
      <3>1. ~UpdateGuard \/ Up
        BY DEF UpdateGuard, GuardInv
      <3>2. ~Up
        BY <1>3, <2>2, <3>1 DEF Next, Tick, Clock, Up, Register, ResolveCallback, Cancel,
              CancelForSession, ClaimDuePolls, ResolveDelay, FinishPollAttempt,
              ResolvePoll, RefreshPending, UpdateGuard, Start, FallsDue, LeaseLapses, vars
      <3>3. UNCHANGED <<after, job>>
        BY <1>3, <2>2, <3>1, <3>2 DEF GuardInv, Next, Tick, Clock, Up, Register, ResolveCallback,
              Cancel, CancelForSession, Callable, ClaimDuePolls, ResolveDelay, FinishPollAttempt,
              ResolvePoll, RefreshPending, Start, FallsDue, LeaseLapses, vars
      <3> QED BY <3>2, <3>3 DEF GuardInv
    <2> QED BY <2>1, <2>2
  <1> QED BY <1>1, <1>2, <1>3 DEF GuardInv

\* The inductive invariant of the guard.
THEOREM WaitsGuardSafe == Spec => []GuardInv
  BY GuardInit, GuardNext, PTL DEF Spec

\* Once every continuation has run, the guard is what the store says, except
\* for changes whose call reported a failure after it committed.
THEOREM WaitsGuardExact == Spec => []GuardExact
  <1>1. GuardInv => GuardExact
    <2> SUFFICES ASSUME GuardInv, Up, after = <<>>, NEW i \in Ids \ unseen
                 PROVE  i \in guard <=> i \in BlockingIn(waits)
      BY DEF GuardExact
    <2>1. GuardTells(i) /\ 1 .. Len(after) = {}
      BY DEF GuardInv
    <2> QED BY <2>1 DEF GuardTells, Blocks
  <1> QED BY <1>1, WaitsGuardSafe, PTL

===============================================================================
