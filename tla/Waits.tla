--------------------------------- MODULE Waits ---------------------------------
(***************************************************************************)
(* External waits and scheduled messages: src/src/wait/service.js and the  *)
(* half of src/src/orchestration/runtime.js that drives it.                *)
(*                                                                         *)
(* A wait is durable; it ends by a callback, by the tick (a poll that      *)
(* matched or ran out of checks, a delay that fell due, a callback that    *)
(* expired) or by a cancellation, and these race.  `guard` is              *)
(* pendingBySession, the volatile index the session host asks whether a    *)
(* session waits for the outside: every store mutation is followed, after  *)
(* an await, by its own guard update.  The store runs one operation at a   *)
(* time and the continuations of two operations run in the order of the    *)
(* operations, so the updates still to come form a queue, `after`.         *)
(*                                                                         *)
(* A store call may fail: `fault` is "none", "rolledback" (nothing         *)
(* committed) or "unseen" (committed, but the caller saw an exception).    *)
(***************************************************************************)
EXTENDS Naturals, Sequences, FiniteSets

CONSTANTS
    Ids,            \* wait ids
    Sessions,       \* chat sessions
    Payloads,       \* callback payloads, up to equality of payloadHash
    None,           \* null
    SessionOf(_),   \* the session a wait is registered for
    ModeOf(_),      \* callback, poll, delay; "message": a scheduled message
    MaxChecks,      \* maxChecks of a poll
    MaxFaults,      \* bound: store calls that fail
    MaxCrashes,     \* bound: process restarts
    MaxAfter        \* bound: guard updates under way when a call starts

Modes == {"callback", "poll", "delay", "message"}

ASSUME WaitsAssumption ==
    /\ MaxChecks \in Nat \ {0}
    /\ MaxFaults \in Nat /\ MaxCrashes \in Nat /\ MaxAfter \in Nat
    /\ \A i \in Ids : SessionOf(i) \in Sessions /\ ModeOf(i) \in Modes
    /\ None \notin Payloads \cup {"matched", "timeout", "due"}
    /\ Payloads \cap {"matched", "timeout", "due"} = {}

VARIABLES
    waits,    \* draft.waits
    message,  \* payload of outbox item `wait:<id>`, None while there is none
    phase,    \* the worker: down, idle, polls (claims under way), refresh
    job,      \* claim of this tick: what its async flow does next
    guard,    \* pendingBySession
    after,    \* guard updates of completed store calls, in order
    unseen,   \* waits whose last change was committed but not reported
    faults, crashes

vars == <<waits, message, phase, job, guard, after, unseen, faults, crashes>>
durable == <<waits, message>>

-------------------------------------------------------------------------------
Verdicts == Payloads \cup {"matched", "timeout", "due"}
Wait == [status  : {"absent", "pending", "resolved", "cancelled"},
         due     : BOOLEAN,  \* expireAt, dueAt or nextAt has passed
         lease   : {"none", "live", "lapsed"},
         checks  : 0 .. MaxChecks,
         verdict : Verdicts \cup {None}]  \* resolutionPayloadHash

NoWait == [status |-> "absent", due |-> FALSE, lease |-> "none", checks |-> 0,
           verdict |-> None]

Jobs == {"none", "claimed", "matched", "timeout", "failed"}
Updates == [op : {"add", "drop", "reset"}, ids : SUBSET Ids]
Update(op, ids) == [op |-> op, ids |-> ids]

Up == phase # "down"
Callable == Up /\ Len(after) < MaxAfter  \* a call from outside may start
IsBlockingWait(i) == ModeOf(i) # "message"
PendingIn(ws) == {i \in Ids : ws[i].status = "pending"}
BlockingIn(ws) == {i \in PendingIn(ws) : IsBlockingWait(i)}

Lapsed(ws, i) == ws[i].lease # "live"
Due(ws, i) ==
    /\ ws[i].status = "pending" /\ ws[i].due
    /\ ModeOf(i) = "callback" \/ Lapsed(ws, i)

\* Of a wait that is over, due and lease are forgotten: nothing reads them.
Cancelled(w) == [w EXCEPT !.status = "cancelled", !.due = FALSE, !.lease = "none"]
Resolved(w, v) == [w EXCEPT !.status = "resolved", !.verdict = v,
                            !.due = FALSE, !.lease = "none"]

-------------------------------------------------------------------------------
(* Store calls.  Commit makes the change to the waits and messages `ws`,   *)
(* `ms` durable and queues the caller's guard update.                      *)

Faults == {"none"} \cup (IF faults < MaxFaults THEN {"rolledback", "unseen"} ELSE {})

Commit(fault, ws, ms, update) ==
    /\ ws = waits => fault = "none"   \* nothing to write
    /\ faults' = IF fault = "none" THEN faults ELSE faults + 1
    /\ IF fault = "rolledback" THEN UNCHANGED durable ELSE waits' = ws /\ message' = ms
    /\ after' = IF fault = "none" /\ update.ids # {} THEN Append(after, update) ELSE after
    /\ unseen' = IF fault = "unseen"
                 THEN unseen \cup {i \in Ids : ws[i] # waits[i]} ELSE unseen

WithVerdict(i, v) == [ws |-> [waits EXCEPT ![i] = Resolved(@, v)],
                         ms |-> [message EXCEPT ![i] = v], ok |-> TRUE]
UnlessResolved(i, v) ==
    IF waits[i].status # "resolved" THEN WithVerdict(i, v)
    ELSE [ws |-> waits, ms |-> message, ok |-> waits[i].verdict = v]

\* resolveInternal: the first verdict on a pending wait is recorded and admits
\* its message in the same mutation; the same verdict again is acknowledged,
\* and any other is refused.
ResolveInternal(i, v) ==
    IF waits[i].status = "pending" THEN WithVerdict(i, v)
    ELSE [ws |-> waits, ms |-> message,
          ok |-> waits[i].status = "resolved" /\ waits[i].verdict = v]

Resolve(i, v, fault) ==
    LET r == ResolveInternal(i, v)
    IN  Commit(fault, r.ws, r.ms, Update("drop", IF r.ok THEN {i} ELSE {}))

-------------------------------------------------------------------------------
Init ==
    /\ waits = [i \in Ids |-> NoWait]
    /\ message = [i \in Ids |-> None]
    /\ phase = "idle"
    /\ job = [i \in Ids |-> "none"]
    /\ guard = {} /\ after = <<>> /\ unseen = {}
    /\ faults = 0 /\ crashes = 0

(* Calls from outside.                                                     *)

\* register: an id is used once; WAIT_ALREADY_EXISTS changes nothing.
Register(i) ==
    /\ Callable
    /\ waits[i].status = "absent"
    /\ \E fault \in Faults :
          Commit(fault, [waits EXCEPT ![i].status = "pending"], message,
                 Update("add", IF IsBlockingWait(i) THEN {i} ELSE {}))
    /\ UNCHANGED <<phase, job, guard, crashes>>

\* An HTTP callback with the right token, for the first time or repeated.
ResolveCallback(i, p) ==
    /\ Callable
    /\ ModeOf(i) = "callback" /\ waits[i].status # "absent"
    /\ \E fault \in Faults : Resolve(i, p, fault)
    /\ UNCHANGED <<phase, job, guard, crashes>>

Cancel(i) ==
    /\ Callable
    /\ waits[i].status \in {"pending", "cancelled"}
    /\ \E fault \in Faults :
          Commit(fault, [waits EXCEPT ![i] = Cancelled(@)], message, Update("drop", {i}))
    /\ UNCHANGED <<phase, job, guard, crashes>>

CancelAllOf(s) ==
    LET mine == {i \in Ids : SessionOf(i) = s /\ waits[i].status # "absent"}
    IN  /\ Callable
        /\ Commit("none", [i \in Ids |-> IF i \in mine THEN Cancelled(waits[i]) ELSE waits[i]],
                  message, Update("drop", mine))
        /\ UNCHANGED <<phase, job, guard, crashes>>

\* Deleting a session; its outbox items are cancelled with it (Outbox.tla).
CancelForSession(s) ==
    LET mine == {i \in Ids : SessionOf(i) = s}
    IN  /\ Callable
        /\ mine \cap PendingIn(waits) # {}
        /\ \E fault \in Faults :
              Commit(fault,
                     [i \in Ids |-> IF i \in mine \cap PendingIn(waits)
                                    THEN Cancelled(waits[i]) ELSE waits[i]],
                     message, Update("drop", mine))
        /\ UNCHANGED <<phase, job, guard, crashes>>

-------------------------------------------------------------------------------
(* The tick: processPolls.                                                 *)

\* claimDuePolls: one mutation cancels the expired callbacks and leases
\* everything else that is due; a failure ends the tick.
ClaimDuePolls ==
    LET due     == {i \in Ids : Due(waits, i)}
        expired == {i \in due : ModeOf(i) = "callback"}
        claims  == due \ expired
        claimed == [i \in Ids |-> IF i \in expired THEN Cancelled(waits[i])
                                  ELSE IF i \in claims THEN [waits[i] EXCEPT !.lease = "live"]
                                  ELSE waits[i]]
    IN  /\ phase = "idle"
        /\ \E fault \in Faults :
              /\ Commit(fault, claimed, message, Update("drop", expired))
              /\ phase' = IF fault = "none" THEN "polls" ELSE "idle"
              /\ job' = [i \in Ids |-> IF fault = "none" /\ i \in claims
                                       THEN "claimed" ELSE "none"]
        /\ UNCHANGED <<guard, crashes>>

\* A delay or a scheduled message that fell due; a failure is left to a later
\* tick, when the lease has lapsed.
ResolveDelay(i) ==
    /\ job[i] = "claimed" /\ ModeOf(i) \in {"delay", "message"}
    /\ \E fault \in Faults : Resolve(i, "due", fault)
    /\ job' = [job EXCEPT ![i] = "none"]
    /\ UNCHANGED <<phase, guard, crashes>>

CheckedForFree(w) == [w EXCEPT !.lease = "none"]

\* The next stage of a poll whose probe said `matches`, from its first mutation.
Checked(w) == [w EXCEPT !.checks = IF @ < MaxChecks THEN @ + 1 ELSE @, !.lease = "none"]
Outcome(w, matches) == IF matches THEN "matched"
                       ELSE IF w.checks = MaxChecks THEN "timeout" ELSE "retry"

\* finishPollAttempt, first mutation: the check is counted and the lease
\* released.  An exception sends the flow through finishPollAttempt once more,
\* with the error; a second exception is only logged.
FinishPollAttempt(i) ==
    /\ job[i] \in {"claimed", "failed"} /\ ModeOf(i) = "poll"
    /\ \E fault \in Faults, matches \in IF job[i] = "claimed" THEN BOOLEAN ELSE {FALSE} :
          LET mine    == waits[i].status = "pending" /\ waits[i].lease # "none"
              checked == Checked(waits[i])
              outcome == Outcome(checked, matches)
              saved   == [checked EXCEPT !.due = outcome # "retry"]
          IN  /\ Commit(fault, IF mine THEN [waits EXCEPT ![i] = saved] ELSE waits,
                        message, Update("drop", {}))
              /\ job' = [job EXCEPT ![i] =
                    IF fault # "none" THEN IF @ = "claimed" THEN "failed" ELSE "none"
                    ELSE IF mine /\ outcome # "retry" THEN outcome ELSE "none"]
    /\ UNCHANGED <<phase, guard, crashes>>

\* finishPollAttempt, second mutation: resolvePoll.
ResolvePoll(i) ==
    /\ job[i] \in {"matched", "timeout"}
    /\ \E fault \in Faults :
          /\ Resolve(i, job[i], fault)
          /\ job' = [job EXCEPT ![i] = IF fault = "none" THEN "none" ELSE "failed"]
    /\ UNCHANGED <<phase, guard, crashes>>

NothingRefreshed ==
    /\ phase = "polls" /\ \A i \in Ids : job[i] = "none"
    /\ phase' = "idle"
    /\ UNCHANGED <<waits, message, job, guard, after, unseen, faults, crashes>>

\* Every claim has settled: read the pending waits, to rebuild the guard.
RefreshPending ==
    /\ phase = "polls"
    /\ \A i \in Ids : job[i] = "none"
    /\ after' = Append(after, Update("reset", BlockingIn(waits)))
    /\ unseen' = {}
    /\ phase' = "refresh"
    /\ UNCHANGED <<waits, message, job, guard, faults, crashes>>

RebuiltOnTop(g, update) == IF update.op = "drop" THEN g \ update.ids ELSE g \cup update.ids

Rebuilt(g, update) ==
    CASE update.op = "add"   -> g \cup update.ids
      [] update.op = "drop"  -> g \ update.ids
      [] update.op = "reset" -> update.ids

\* The continuation of the oldest completed store call runs.
UpdateGuard ==
    /\ after # <<>>
    /\ guard' = Rebuilt(guard, Head(after))
    /\ after' = Tail(after)
    /\ phase' = IF Head(after).op = "reset" THEN "idle" ELSE phase
    /\ UNCHANGED <<waits, message, job, unseen, faults, crashes>>

-------------------------------------------------------------------------------
(* The environment: time passes; the process dies and starts again.        *)

FallsDue(i) ==
    /\ waits[i].status = "pending" /\ ~waits[i].due
    /\ waits' = [waits EXCEPT ![i].due = TRUE]
    /\ UNCHANGED <<message, phase, job, guard, after, unseen, faults, crashes>>

LeaseLapses(i) ==
    /\ waits[i].lease = "live"
    /\ waits' = [waits EXCEPT ![i].lease = "lapsed"]
    /\ UNCHANGED <<message, phase, job, guard, after, unseen, faults, crashes>>

Crash ==
    /\ Up /\ crashes < MaxCrashes
    /\ crashes' = crashes + 1
    /\ phase' = "down"
    /\ job' = [i \in Ids |-> "none"]
    /\ guard' = {} /\ after' = <<>> /\ unseen' = {}
    /\ UNCHANGED <<waits, message, faults>>

\* start() rebuilds the guard before the first tick.
Start ==
    /\ phase = "down"
    /\ phase' = "refresh"
    /\ after' = <<Update("reset", BlockingIn(waits))>>
    /\ UNCHANGED <<waits, message, job, guard, unseen, faults, crashes>>

-------------------------------------------------------------------------------
Tick ==
    \/ ClaimDuePolls
    \/ \E i \in Ids : ResolveDelay(i)
    \/ \E i \in Ids : FinishPollAttempt(i)
    \/ \E i \in Ids : ResolvePoll(i)
    \/ RefreshPending
    \/ Start

Clock == \E i \in Ids : FallsDue(i) \/ LeaseLapses(i)

Next ==
    \/ \E i \in Ids : Register(i)
    \/ \E i \in Ids, p \in Payloads : ResolveCallback(i, p)
    \/ \E i \in Ids : Cancel(i)
    \/ \E s \in Sessions : CancelForSession(s)
    \/ Tick
    \/ UpdateGuard
    \/ Clock
    \/ Crash

Spec == Init /\ [][Next]_vars

\* The tick runs every second and awaits each of its promises; probes have a
\* timeout; a supervisor restarts the process; the clock advances.
Fairness == WF_vars(Tick) /\ WF_vars(UpdateGuard) /\ WF_vars(Clock)

FairSpec == Spec /\ Fairness

-------------------------------------------------------------------------------
(* Properties.                                                             *)

\* Every wait, claim and guard update is well formed.
TypeOK ==
    /\ waits \in [Ids -> Wait]
    /\ message \in [Ids -> Verdicts \cup {None}]
    /\ phase \in {"down", "idle", "polls", "refresh"}
    /\ job \in [Ids -> Jobs]
    /\ guard \in SUBSET Ids
    /\ after \in Seq(Updates)
    /\ unseen \in SUBSET Ids
    /\ faults \in Nat /\ crashes \in Nat

\* A message leaves a wait exactly when it resolved, and tells its verdict:
\* however a callback, a poll in flight, a timeout, a cancellation, a failed
\* store call and a restart interleave, a cancelled or expired wait never
\* speaks and a resolved one is never silent (resolveInternal, cancel,
\* cancelForSession, claimDueWaitsDraft).
OneStory ==
    \A i \in Ids :
        /\ message[i] # None <=> waits[i].status = "resolved"
        /\ message[i] = waits[i].verdict

\* The first ending of a wait is its only one: a later callback, a poll match
\* still in flight or a second cancellation neither revives it nor changes its
\* verdict or its message.
FirstEndingWins ==
    [][\A i \in Ids : waits[i].status \in {"resolved", "cancelled"} =>
          /\ waits'[i].status = waits[i].status
          /\ waits'[i].verdict = waits[i].verdict
          /\ message'[i] = message[i]]_vars

\* Once every continuation has run, the guard the session host reads holds
\* exactly the blocking waits that are durably pending, except for changes
\* whose store call reported a failure after committing (addPending,
\* removePending, refreshPending).
GuardExact ==
    Up /\ after = <<>> =>
        \A i \in Ids \ unseen : i \in guard <=> i \in BlockingIn(waits)

\* And those are healed by the refresh that closes every tick, so no session
\* is held for ever by a wait that is over, nor idles past one that is open
\* (the "after-rename crash window" of processPolls).
GuardHeals == []<>(guard = BlockingIn(waits))

\* Every wait ends: the expiry, the due time or the last check comes, through
\* lapsed leases, failed store calls and restarts.
WaitEnds == PendingIn(waits) # {} ~> PendingIn(waits) = {}

===============================================================================
