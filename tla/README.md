# MultiCC: a TLA+ model of its session work

MultiCC is a Node.js server that keeps coding-agent command-line tools working on
behalf of its users: chat sessions, dispatched tasks, timers, callbacks. Everything
that makes a session work passes through one pipeline: a message is *admitted* to a
durable outbox, a per-session *scheduler* decides when it may run, the *worker*
leases and delivers it, the *turn engine* starts one native turn, and the *turn
boundary* publishes a verdict that frees the session for the next message. Around
the pipeline stand the services that put messages into it (external waits,
dispatches, detached jobs) and those it relies on (the durable store, the admission
of writers to a work tree, the renewal of logins). This project models both, checks
them with TLC and proves what matters most with TLAPS.

## 1. Inventory

### The pipeline

| component | code | state it keeps | operations |
| --- | --- | --- | --- |
| outbox | `src/outbox.js` | items: session, sequence, state, attempts, lease token and time, availability | enqueue, claim, acknowledge, fail, defer, recoverExpired |
| scheduler | `src/session-work/scheduler.js` | per session: slot (`active`), slot state, freeze reason, verdict letter, priority entry, awaited question | admit, claim, started, releaseClaim, turnEnded, complete, settlePersistedDelivery, resolve, settleUserInput, cancelQueued, insertQueued, reorderQueued, recover |
| host | `src/session-work/host.js` | cancel in flight, closures and transitions in flight, queue projection on the session record | closeTurnForClassify, classifyTransition, cancelActiveTurn, dismissUserInput, settleRecoveredQuestion, recoveryState |
| worker | `src/orchestration/runtime.js` | the current tick, deliveries in flight | processOutbox, deliver, deliverWithinTick, cancelForSession, start |
| turn engine | `src/chat/turn-engine.js` | chat history, delivery probes, the running turn | runChatTurn, deliverOrchestrationOutbox |
| questions | `src/classify/user-input-host.js` | the pending and the last settled question | record, beginTurn, resolve |
| watchdog | `src/chat/process-watchdog.js` | suspects | sweep |

(Paths are below `src/` of the repository; the source tree copied here has one more
`src/` in front.)

They interact by calls and by shared state. The scheduler's schedules and the outbox's
items live in one store whose mutations are synchronous functions run one after the
other (`orchestration/store.js`); everything between two mutations is a promise chain,
so other chains run in between. The scheduler reads the session's verdict and open
question from the host (not from the store), and the host derives "is this session
busy" from a projection it updates on the scheduler's events. So three records of the
same fact (the slot, the verdict, the projection) are written at different times, and
that is where the hard behaviours are:

- a delivery is a chain of awaits (busy? claim, already persisted? hand over,
  acknowledge, started); its lease may lapse, the worker may stop waiting for it, a
  cancel may empty the slot while it waits;
- a turn's end publishes the verdict first and frees the slot two mutations later;
- the process may die between any two of these, the next one finds the store, the
  history and the host record, and has to guess what happened;
- a user reorders, removes, inserts, cancels, answers or dismisses at any time.

### Around the pipeline

| component | code | state it keeps | operations |
| --- | --- | --- | --- |
| store | `src/orchestration/sqlite-store.js`, `store.js` | database file, frozen copy, mutation queue; a JSON file it was migrated from | open, import, mutate, exportLegacy, close |
| waits | `src/wait/service.js`, `src/orchestration/runtime.js` | durable waits; the volatile guard `pendingBySession` | register, resolveCallback, polls, due waits, cancel, cancelForSession, refreshPending |
| dispatches | `src/operation-service.js`, `src/router-tool-runtime.js`, `src/dispatch/gateway-host.js` | operations, their request and result items | admit, complete, cancel, interrupt, sweep, reconcile |
| detached jobs | `src/detached.js` | files of a job: meta, started, pid, done; the operation that follows it | launch, status, cancel, reconcileDetached |
| workspace admission | `src/workspace/admission.js`, `registry.js`, `src/chat/workspace-residency.js` | leases and records of work trees; permits in memory | beforeDeliver, settled, drain, escalate, stale sweep, reclaim |
| hibernation | `src/session/hibernation.js` | `workspaceState` of a session, key locks | hibernate, ensureAwake, reconcileStartup |
| token refresh | `src/claude-auth/*`, `native/core/src/claude_refresh.rs` | account file, CLI slot, refresher state and its health file | checkAccount, attempt, load, login |

A wait, a dispatch and a job each end by one of several events that race, each a chain
of awaits between a read and a mutation; each owes its owner exactly one message. The
store turns a mutator into a transaction, but a call may fail after its commit, and
another process may have the file open. A delivery takes the lease of its work tree
across awaits in which hibernation may remove the tree. A refresh token is used up by
its exchange, which an external program makes, and that program may outlive the server
that started it.

What makes each part correct: the outbox delivers each item within a budget, by the
holder of the lease only, and keeps the place it was admitted at through every retry; the
scheduler starts at most one
turn per message, holds queued work behind an open question, drains after a success
only, and lets an answer lead; the host gives every taken slot back; the store is
atomic and shows committed contents only; waits, dispatches and jobs end once, tell
their owner once, and always end; a tree has one writer at a time and is not removed
under it; a login is never lost, nor a refresh token used twice. The other subsystems
are listed in `PROJECT.json` with the reason each is not modelled. The hazards of the
code, each at its line, are in the same file.

## 2. Plan

| order | module | what | state |
| --- | --- | --- | --- |
| 1 | `Outbox` | leases, retries, places | checked, proved |
| 2 | `SessionLine`, `Enumeration`, `OutboxRefinement` | what the outbox promises; the refinement | checked, proved |
| 3 | `SessionScheduler` | the schedule and its mutations | checked |
| 4 | `SessionDelivery` (on 3) | worker, turn, boundary, user, crash | checked, safety proved |
| 5 | `Waits` | the endings of a wait, and the guard | checked, safety of the endings and of the guard proved |
| 6 | `Dispatch` | a dispatch from admission to receipt | checked, safety proved |
| 7 | `DetachedJobs` | a shell job that outlives the host | checked, safety proved |
| 8 | `AtomicStore`, `DurableStore` | what the store promises; the refinement | checked, proved |
| 9 | `Workspace` | leases of work trees and hibernation | checked, safety proved |
| 10 | `AccountRefresh` | one account's login | checked, safety proved |
| 11 | task shell receipts, back-pressure, provider attempts, the git queue | one module each | planned |

Open in the modelled part: entries of different tasks in one session (`Tasks` is empty
in the present runs, so task correlation always succeeds; the binding of a session to
its current task, which the turn boundary reads, has to be modelled first), the retry
and resume kinds, `editQueued`, gateway sessions.

Worth proving next: the session theorems under weaker hypotheses (section 5 says what each
of them assumes): notices and refusals in `SlotDriven` and `QuestionHolds`, a lapse under
a delivery in the latter, and a stalled tick whose lease does not lapse.

## 3. What is modelled

### Outbox

`items` is `draft.outbox`; a record of it keeps what `outbox.js` reads: state, session,
body (the payload hash), sequence, attempts, lease token, whether the lease has lapsed
and whether the item is available. `grants` holds the tokens deliveries of this process
still have in hand: it is the only volatile variable, and `Crash` empties it. Time is
left out: `LeaseLapses` and `BecomesAvailable` let a lease or a back-off end at any
moment. `Claim`, `Acknowledge`, `Fail` and `Defer` each begin with the recovery of lapsed
leases, as every mutation of the code does. Production passes its own selection to every
claim (`selectSessionItem`): of each session it offers one open item or none, and an
answer, a priority item or a direct run may overtake. `Offers` leaves that choice free, so
what this module shows depends on no selection; the scheduler's is in `SessionScheduler`.
`ClaimCandidates` then keeps what is pending and due, one item per group, up to the limit.
`CancelQueued` and `CancelForSession` are the two places outside `outbox.js` that write
items.

`SessionLine` says what a session may count on without leases or clocks: a message joins
the line once and leaves it once, is delivered only out of service, a claim takes at most
one message of a session into service, and whatever is served before it and however often
it comes back, a message keeps its place. That place, the sequence number, is what the
scheduler sorts by; it is not a promise of the order of deliveries, which is the
scheduler's (`AnswerLeads`, `QuestionHolds`, `OnlySuccessDrains`). `OutboxRefinement` maps
a snapshot of the items to it (`LineIn`, `ServingIn`, `DeliveredIn`, `GoneIn`), listing
items by their sequence number (`Listed` of `Enumeration`).

### SessionScheduler and SessionDelivery

`SessionScheduler` has the durable state of one session and one operator per mutation:

| variable | code |
| --- | --- |
| `items` | the session's outbox items: state, sequence, `queueOrder`, work kind, task, `requestId`, `directRun`, `userInputOverrideId`, `blockedByUserInput` |
| `sched` | `draft.sessionSchedules[session]` |
| `letter` | `taskState.classifyState`, the host's verdict: P, D, W, B, E |
| `question` | `taskState.pendingUserInput`, identified by the entry whose turn asked |
| `shown` | `taskState.queueState`, what the last scheduler event projected |

`SessionDelivery` adds the processes. `pc[e]` is where the delivery of `e` stands:
`taken` (leased), `checked` (not busy), `claimed` (slot taken), `accepted` (handed over),
`acked`, `refused` (failed, claim not yet released), `settling` (already persisted).
`tick` is the entry the serialised tick waits for. `saved[e]` is the history together
with the delivery probe: `no`, `refused` (saved, runner refused), `handed`, `unknown`
(saved by an earlier process). `boundaries` are turn ends under way: `stopping` and
`cancelling` (a cancel), `closing` (a finished turn), `closed` (turnEnded done), `decided`
(the read before `complete`). `ended` says that `lastTurnEndedAt` is not before the slot
was taken. `runs` counts native turns and is read by no action.

| actions | code |
| --- | --- |
| `Admit` | `scheduler.admit` with the kind `host.admit` gives the input; an answer's admission settles its question |
| `CancelQueued`, `InsertQueued`, `ReorderQueued`, `Resolve` | the queue route; an insertion also cancels the running turn |
| `Lease`, `ReleaseTick`, `LeaseLapses` | `processOutbox`, the delivery watchdog, `recoverExpired` |
| `CheckBusy`, `ClaimSlot`, `GateClosed`, `AckPersisted`, `SettlePersisted`, `AppendNotice`, `HandOver`, `Refuse`, `ReleaseClaim`, `Acknowledge`, `RecordStarted` | `runtime.deliver`, one action per await that writes, with what the turn engine does inside |
| `AskQuestion`, `RunnerEnds` | the native turn |
| `CancelTurn`, `WatchdogStops`, `StopRunner` | `cancelActiveTurn`, the process watchdog |
| `CloseTurn`, `ReadVerdict`, `CompleteTurn`, `SettleDismissed`, `Dismiss` | the turn boundary |
| `CrashAndRecover` | process death, then `scheduler.recover` on start |

**Atomicity.** A store mutator is synchronous, so it is one action. `HandOver` is one
action because `runChatTurn` is synchronous from the duplicate probe to the runner.
Chains of mutations of different promises interleave. Two refinements of that rule say
what the event loop adds. `Drained`: an exit, a timer or a request is a new event, and
Node runs all ready continuations first, so it finds no chain half done; the only real
waits are in `claimed` (workspace guard, turn preparation) and while a runner is being
stopped. `TickAnywhere`: a worker tick can also be started by a continuation
(`runtime.tick()` after `complete`), so safety runs let it act between any two
mutations; where that adds interleavings the FIFO store queue rules out (a read and the
mutation queued right behind it) the run says `FALSE`. The stronger setting is used
wherever the property holds under it. With `FALSE`, every violation below is a trace of
whole event-loop turns.

**Abstractions.** The retry budget of the outbox is a choice (back to the queue, or
dead letter): `Outbox` has the budget. `LeaseLapses` may take the lease of any delivery, the
one the tick waits for included: a lease is 30 seconds, the worker waits for 120, and each
settlement of another item recovers what has lapsed. `SettlePersisted` makes one step of
`settlePersistedDelivery`, which reads the schedule, awaits and completes. The classes of entries are those the code
tells apart by payload type, source and work kind: `typed` and `answer` (a user),
`operation` and `continuation` (session work a machine admits), `request` (a dispatched
task), `result` (the result of a dispatch), `callback` (of a wait) and `notice` (starts no
turn). A `request` is a task of its own; the redirection of a dispatch into a running
task (`taskStart: false`) is not modelled. Texts, wording, events to clients, history layout and
elapsed times do not appear; the watchdog's grace period is the guard that its action
waits for a drained process. External waits (which turn W into B), gateway sessions,
retry/resume and a work tree shared by sessions are not part of this module; `Waits` and
`Workspace` have the second and the last on their own.

### Waits

`waits` is `draft.waits`; `message[i]` the outbox item a resolution adds in the same
mutation; `guard` is `pendingBySession`, which tells the session host that a session
waits for the outside. The code updates the guard in a continuation of each store call.
The store runs one call at a time and continuations run in the order of the calls, so
the updates still to come are a queue, `after`. A poll has a lease and two mutations
(`FinishPollAttempt`, then `ResolvePoll`), between which a callback, a lapsed lease or a
restart may come. `fault` says how a store call ended: committed, rolled back, or
committed without its caller knowing. Time is `FallsDue` and `LeaseLapses`. A scheduled
message is a wait that does not block its session.

### Dispatch

`op` is the operation, `request` its outbox item, `saved`/`turn`/`answer` what became of
the task in the target, `receipts` the results sent to the owner. `flow[o]` holds what
each call under way has read and not yet used: the delivery, the worker's receipt
(`SlaveReads`, `SlaveCompletes`), the owner's cancellation (`CancelReads` to
`SettleCancel`), a stop (`StopAsked`, `StopRunner`, `InterruptDispatch`), the end of the turn. `DeleteTarget`
lists the operations of a session being deleted (`doomed`) before it interrupts each and
sweeps the rest. `CompleteDraft` is `completeOperationDraft` with its `resettle` option,
under which a terminal operation takes another result and sends a second message;
`Complete` is what the callers are wired to, which never passes it on. `settles` counts the
settlements. `Start` is `reconcileDispatchesOnStartup`, with the evidence rules
(`Evidence`, `Verdict`) it applies to each open operation. The FIFO and the slot are
reduced to what one dispatch can tell apart; `SessionDelivery` has them.

### DetachedJobs

The wrapper shell claims `started` with noclobber, writes its pid, runs the command and
moves the done marker into place, one action each; `Dies` may take it at any point after
its claim. `status()` is four actions (`Look`, `ReadPid`, `ReadDone`, `ReadAlive`), because the
wrapper runs on meanwhile; `thread` keeps
two calls of the single-threaded host from mixing inside one. Reused pids, a spawn that
fails, and a wrapper that dies before its claim are left out (the last would be launched
again, as a job whose spawn was lost is). A job cancelled between the listing and the
launch of a reconciliation leaves a process nobody follows; `Spawn` has this step.

### DurableStore

Each process has a copy (`state`), a queue of calls, and the draft of the current one.
`Commit` is the transaction with its revision check; `RollBack`, a commit whose caller
sees an exception, and the reload are separate, so that a crash or the other process
comes between them. `AtomicStore` is what the services rely on: a mutation happens at
once or not at all, is never undone, and an answer "ok" means it happened; a failed call
may be repeated. Rows hold the set of mutations that touched them, so that a lost or
half-written one is visible. `Crash` is the death of a process: a power loss, after which
SQLite in WAL mode with `synchronous=NORMAL` (`sqlite-store.js:500`) may have lost the last
commits, is not modelled. The first creation of the database file by rename is done
by one process alone, as the server does.

### Workspace

`lease`, `residency` and `state` are durable; `permit`, `busy`, `background` and the
hibernator's step are the host's; `child` is the operating system's, and an `orphan`
survives the host. A delivery is `Acquire`, `ClaimPersistent` (retire the warm children of
the other sessions on the tree), `EnsureAwake`, `Thaw` (git restores the tree, under the
state `thawing` and the key of the workspace), `Verify`, `TurnBegins`, `Starting`,
`Launch` and `Return`, with `Spawned` when a stream reports its process later, and
`Reject`, `SpawnFails` and `GiveUp` when it fails; a turn drains through `Settled` and
`Drain`; hibernation checks, prepares, closes, confirms and detaches. `Available` has the
three budgets of `registry.available`: leases, restores under way, and checkouts of a
directory, where a tree that could not be validated stays on the books as `retained`.
When only the last is exhausted, the delivery has another checkout hibernated and asks
again (`AwaitRelief`, `Relieved`); the hibernation is whichever the model takes meanwhile.

The lease state `materializing` is folded into `reserved` and the workspace state `planned`
into `hibernated` (the code treats them alike). All checkouts are of one directory. Of the
blockers of a hibernation the model has the lease and the live processes; open outbox
items, schedules and waits of the session itself also block it, so hibernation is less
restrained here than in the code. `hibernation.admit` is not used where there is an
admission. Left out: trees found and registered at start, which the registry puts on the
books without asking the budget, the evidence a settled turn writes, and
`withSeparationBarrier`.

A lease taken after a relief is taken on a workspace state read before it
(`admission.js:244`), although the comment there says that refusing at that point "closes
the race". If a hibernation of the same checkout has passed its last check in the
meantime, it removes the tree under the new lease. In the code the open outbox item of the
delivery would normally block that hibernation too; it does not when the delivery is of
another session that shares the checkout, since the blockers look at the owner. No harm
follows: the delivery waits for the key of the workspace and restores the tree before it
writes (`WriterHasCheckout`). `DetachUnleased` says exactly this much.

### AccountRefresh

Credentials are numbered in the order they were issued. `account` is the account's file,
`slot` the CLI's store, `run[c]` the check under way and the login it read, `health` the
refresher's state and `disk` the copy it has written. The CLI is external: it exchanges
the token of its slot when that is near its expiry (`CliRotates`), at a moment of its own. The retry policy (park, probe
budget, the one attempt after expiry) is translated operator by operator from
`claude_refresh.rs` and `attempt`. `reader` is a request that finds the token
lapsed and waits for a check. Delays, spacing and cool-down are left out, so a check may
begin at any moment, which is weaker for safety; the budget of declines only delays.

A crash kills the server and not necessarily the CLI, which is a plain child process whose
timeout dies with its parent (`accounts-refresh.js:102`), and nothing stops it when the
server comes back. `orphans` holds the logins such a CLI was started on, and
`OrphanRotates` lets it make its exchange at any later moment. At a restart the health
record is read back, or taken for empty when it cannot be read (fault `forget`). A health
write may fail at each place where the refresher writes, and `auth status` may fail with a
reason of its own (`Reason`). The refresher's own read of the slot may fail at its start
(`Seed`) or after a turn (`Overlooked`). Left out: deletion of accounts and the sweep of
orphaned slots, `recoverAccountToken`, the peek read, parking after an API error, the login
shared with the CLI.

## 4. Runs

All runs set `CHECK_DEADLOCK FALSE`: the set of messages, waits, jobs and credentials is
finite, and a system that has dealt with them all stops.

| run | module | shows |
| --- | --- | --- |
| `outbox` | `MCOutbox` | `RetryBudget`, `DeliveredByHolder`, `AdmittedOnce`; the outbox implements `SessionLine`; under `FairSpec`, `EverythingSettles` |
| `session_work` | `MCSessionDelivery` | typed, operation, notice: at most one turn per message; staged work starts after a success only |
| `session_question` | | typed, answer, continuation, request: an open question holds what was queued before it; its answer is taken first |
| `session_liveness` | | typed, result: an occupied slot always has something to move it on, delivered means run, and under `FairSpec` a taken slot is given back |
| `waits` | `MCWaits` | `OneStory`, `FirstEndingWins`: one ending, one message; `GuardExact`, `GuardHeals`: the guard agrees with the store; `WaitEnds` |
| `dispatch` | `Dispatch` | `OneReceipt`, `VerdictFinal`, `QueuedNeverRuns`, `DispatchSettles` |
| `late_receipt` | | a disagreement below |
| `workspace` | `MCWorkspace` | `WriterHoldsLease`, `WriterHasCheckout`, `DetachUnleased`, `BudgetHeld`, `LeaseEnds` |
| `detached` | `DetachedJobs` | `RunsOnce`, `OneResult`, `VerdictTrue`, `JobSettles` |
| `store` | `MCDurableStore` | `ReadsCommitted`, the store implements `AtomicStore`, `CallsAnswered` |
| `account_refresh` | `MCAccountRefresh` | `LoginSurvives`, `NeverSpentTwice`, `ProbesBounded`, `ServesCurrent`, `LapseSettles` |
| `stale_login` | | a disagreement below |

**Bounds.** *Outbox*: two messages, in either of two sessions, three tokens, two attempts, two
claims at a time. Overtaking needs two messages in one session; two attempts distinguish a first, a last
and a spent one; with more than one token an old grant competes with a new one.
*Sessions*: two to four entries, chosen by class, and `left` counts how many
disturbances of each kind remain, one at most of each in a run: a crash, a refusal, a
lease that lapses under its delivery, a stalled delivery, a question, a cancel, an insertion, a removal, a reordering, a
dismissal, an operator decision. *Waits*: one callback and one poll of one session, one
scheduled message of another, two payloads (a repeated callback with the same and with
another one), two checks, one failed store call, one restart; `MaxAfter = 1` lets the
next call start while one guard update is still to come, the overlap an await allows.
*Dispatch*: one operation (operations meet only in the target's queue, which
`SessionDelivery` has), two attempts, one restart. *Workspace*: two sessions on one
tree and a third on another, two leases at once, room for one tree, two leases per
behaviour and one restart: a lease, a restart in it, and the lease after it. It starts with
both trees there and the room taken by the second, so that the first delivery needs relief;
hibernations lead to the other initial states.
*DetachedJobs*: two wrappers (the first and one launched beside or after it), one
restart. *DurableStore*: two processes, a mutation of two rows and one of a shared row,
a third that came with the JSON file; two failures, one crash. *AccountRefresh*: three
credentials (what a check read, its rotation, one newer), one ordinary probe, three
failures to a park, any two faults, one at most of each kind (an instance with three has
5.3 million states and no violation).

The disturbances a session run leaves out are those that break one of its properties, for
the reasons the next section gives, and those that would make it too large.

- `session_work` (crash, refusal, operator decision, lapse; a tick may act inside a chain)
  has no stalled tick: a delivery the worker no longer waits for is still run, and the
  verdict it then finds may be anybody's. It has no cancel and no insertion, which publish a
  verdict between the selection and the hand-over, and no question: with a lapse under a
  delivery, the W of that question strips the direct mark from a message just being handed
  over, which then runs although the session waits.
- `session_question` (question, removal, reordering, lapse) has no crash and no refusal. It has
  no cancel: cancelling a turn does not settle the question it asked, and the verdict E
  then lets a continuation run, which the code means. It has no stalled tick: `QuestionHolds`
  holds with a stall alone and with a lapse alone, and fails with both.
- `session_liveness` (question, insertion, cancel, dismissal, refusal, stall; safety and
  liveness) has no crash, after which a slot may be left in assessment. It has no lapse: the
  retry budget is a choice here, so a message refused and re-delivered for ever is a
  behaviour of the model and none of the code.

`LoginSurvives` and `NeverSpentTwice` are conditional on two things (`Blind`). No slot read
failed: `ReadBack` clears a slot it could not read, and an unreadable slot is taken for an
empty one, so a rotation in it is lost. And no CLI of a dead server made its exchange
after the next server's check had looked at the slot and before it wrote or cleared it
(`raced`): between `accounts-refresh.js:329` and 346 the spent token is written over its
successor and used again, between 359 and 372 the successor is cleared. Nothing in the code
prevents either; with any other timing of such a CLI both properties hold. `ProbesBounded`
excludes a restart that could not read the record back. `ServesCurrent` excludes a token
whose rotation was cut off by a crash or a failed write, which nobody could know.
`WriterHoldsLease` is about the writers of this host. `VerdictTrue` is about the verdicts
completed and failed; interrupted may be false, see below.

**Fairness.** `Outbox`: the tick recovers lapsed leases, leases lapse, back-offs end, every
delivery settles or is given up (the tick runs every second; the watchdog bounds a
delivery). Nobody owes a message a claim: a session that waits or failed is passed over.
So `EverythingSettles` is about a message the scheduler offers again and again, and
excludes a session deferred for ever, since a defer costs no attempt. `SessionDelivery`: each delivery takes its next step, the worker leases what is
selected, a lapsed lease is recovered, boundaries proceed (promises settle), the watchdog
sweeps, a native turn ends. `Waits`: the tick, the queue of continuations and the clock go
on; a probe has a timeout. `Dispatch`: calls run to their end, turns end, leases lapse,
the host restarts; strong fairness for taking the slot and for sending, since the target
is busy again and again but not for ever. `Workspace`: deliveries, hibernations, turns and
background work end and the sweep runs; an orphan need not die. `DetachedJobs`: the calls,
the timer, the shells and the command run to their end. `DurableStore`: the promise queue
of a process that is up goes on. `AccountRefresh`: the timer begins a check when the gates
are open, its steps settle, and the CLI exchanges the token when it can. No fairness for
the user, for faults, or for a request.

### Where the code disagrees with what it says

Two are runs. `stale_login`: `checkAccount` compares what it finds in the slot with the expiry
it read before its awaits, and the login route writes the account's file without the lock
of the account. A user who logs in while a rotation of the previous login runs loses the
new login to that rotation, which the comment at the comparison says cannot happen.

`late_receipt`: a turn that ends without a receipt settles its async dispatch as missing, and
the comments say that this verdict is provisional: when the worker shows up with its
result, the operation is to be resettled and the owner sent the correction
(`operation-service.js:238`, `router-tool-runtime.js:868`). `dispatchSlave` asks for
`resettle`, but `router-tool-host.js:50` and `runtime.js:1319` pass two arguments on and drop
it, so the call ends in a conflict and the owner keeps the wrong verdict. The test of the
correction wires the option through itself. `OneReceipt` and `VerdictFinal` allow the
correction: they hold of this wiring, and say what a repaired one would have to keep.

The following were met while modelling and have no run in the present set. They are the
reason for the exclusions above.

- Sessions. A recovered verdict that does not correlate still completes the slot
  (`scheduler.js:980`, against `docs/session-fifo-scheduler.md:97`). A notice takes the
  slot to `running` and starts no turn (`scheduler.js:751`). The hold of a question is
  meant to cover a crash between the published W and the completion, but compares creation
  times `recoveryState` does not pass on (`scheduler.js:477`). A first message saved but
  never announced leaves the slot in assessment for good (`scheduler.js:990`). An answer
  loses its rank with its first claim; refused once, it queues behind older messages
  (`scheduler.js:722`).
- Dispatches. A cancellation that finds neither a queued nor a running trace says that nothing will execute, while a delivery in flight may (`router-tool-runtime.js:812`).
  A request that dies through `outbox.fail` or a lapsed lease leaves its operation open
  until the next start. A receipt that settles a listed operation during the deletion of
  the target makes the deletion throw; a dispatch admitted between its list and its sweep
  stays open. `cancel_running` promises that no result is delivered
  (`operation-service.js:416`); the stopped turn may settle first and deliver one.
- Jobs. A wrapper that has claimed the job and not yet written its pid, or that moves the
  marker between the read of the marker and the test of the pid, is reported as
  interrupted (`runtime.js:1175`) although it runs or ended well.
- Workspaces. `registry.js:19` says that "Lease age never grants another writer access";
  the sweep (`admission.js:414`) releases an old uncertain lease whose writer it cannot
  see, and an orphan of the previous host may still write. `WriterHoldsLease` is about the
  writers of this host.
- Tokens. A slot that cannot be read is cleared after a run, though it may hold "the only
  copy of the new token" (`accounts-refresh.js:370`). A CLI left behind by a killed server
  may make its exchange in the windows described above.

Differences of the FIFO document from the code: its transition table freezes the slot on
P/W/B/E where `complete` releases it for every verdict; it requires a control to name the
running entry or task, where `relatedControl` accepts any session work; it says that an
insertion never interrupts, where the route cancels the running turn.

## 5. Proofs

Each proof holds for every value of the constants that satisfies the named assumption of
its module.

| theorem | property | of |
| --- | --- | --- |
| `TypeCorrect`, `BudgetExact`, `OneHolder`, `HolderDelivers`, `EntryAdmittedOnce` | `TypeOK`, `RetryBudget`, `LeaseExclusive`, `DeliveredByHolder`, `AdmittedOnce` | `Outbox` |
| `OutboxImplementsLine` | `ImplementsLine` | `OutboxRefinement` |
| `SessionTyped`, `SessionAtMostOnce`, `SessionDeliveredWasRun`, `SessionSlotDriven`, `SessionOnlySuccessDrains`, `SessionAnswerLeads`, `SessionQuestionHolds` | `TypeOK`, `AtMostOnce`, `DeliveredWasRun`, `SlotDriven`, `OnlySuccessDrains`, `AnswerLeads`, `QuestionHolds` | `SessionDelivery` |
| `StoreTyped`, `StoreAllOrNothing`, `StoreReadsCommitted`, `StoreImplementsAtomic` | `TypeOK`, `AllOrNothing`, `ReadsCommitted`, `ImplementsAtomic` | `DurableStore` |
| `DispatchTyped`, `DispatchOneReceipt`, `DispatchVerdictFinal`, `DispatchQueuedNeverRuns` | `TypeOK`, `OneReceipt`, `VerdictFinal`, `QueuedNeverRuns` | `Dispatch` |
| `WaitsTyped`, `WaitsOneStory`, `WaitsEndOnce`, `WaitsGuardExact` | `TypeOK`, `OneStory`, `FirstEndingWins`, `GuardExact` | `Waits` |
| `JobTyped`, `JobRunsOnce`, `JobOneResult`, `JobVerdictTrue`, `JobVerdictFinal` | `TypeOK`, `RunsOnce`, `OneResult`, `VerdictTrue`, `VerdictFinal` | `DetachedJobs` |
| `WorkspaceTyped`, `WorkspaceWriterHoldsLease`, `WorkspaceWriterHasCheckout`, `WorkspaceDetachUnleased`, `WorkspaceBudgetHeld` | `TypeOK`, `WriterHoldsLease`, `WriterHasCheckout`, `DetachUnleased`, `BudgetHeld` | `Workspace` |
| `AccountTyped`, `AccountLoginSurvives`, `AccountNeverSpentTwice`, `AccountProbesBounded`, `AccountServesCurrent` | `TypeOK`, `LoginSurvives`, `NeverSpentTwice`, `ProbesBounded`, `ServesCurrent` | `AccountRefresh` |

*Outbox* (`OutboxProofs`). The inductive invariant `IInv` joins the state properties with
what they need: sequence numbers are unique and below the next one (or two messages could
share a place), and exactly the leased items carry a token (or a returned item could be
settled with its old lease). It is stated over a snapshot rather than the variables,
because a mutation composes a recovery and a change: `RecoverKeeps` covers the first,
`RelaxKeeps` every change that only closes, returns or re-times items, and claiming
(`LeaseKeeps`) and admission (`AdmitKeeps`) are proved apart. `HolderDelivers` and
`EntryAdmittedOnce` are action properties that follow from `IInv` and one case per action.

The refinement (`OutboxImplementsLine`) has three layers. Lists: `ListedLists` says that
`Listed` lists a finite set in increasing order, `OnlyListed` that nothing else does, so
the line after a step is known as soon as some increasing list of the right items is
(`AppendLists`, `WithoutLists`). Snapshots: a step that admits nothing carries every session
and sequence number, so the line of a session loses exactly the items that ended and the
rest keep their places (`CarriedLine`, `ClosedLine`), and a step that only changes states
in one of four ways is a step of the line (`ServesServe`, `DeliversDeliver`,
`WithdrawsWithdraw`, `JoinsJoin`). Actions: each is one of the four (`NextLine`); a claim,
a failure, a deferral, a lapse and a late answer are all `Serve`. The line needs one fact
more than `IInv`: every admitted item belongs to a session (`LineInv`).

*Sessions* (`SessionProofs`). What the history knows of a message decides how often it was
run (`HandedInv`): not saved or refused, never; handed over, once; unknown only after a
restart, at most once. A repeated delivery reads exactly that before it starts a turn. The
types need the arithmetic of the queue order, which is a rank among the entries.

These three hold for every `Budget`. The other four are true under some disturbances and
false under others, so each names what it excludes; the messages, their provenance (but
for what is named) and the disturbances left are any.

- `SessionSlotDriven` is about a process that did not restart, a session of one task
  (`OneTask`) and messages that start a turn each (`AllStart`). A restart may leave a slot
  assessing with no verdict on its way; a verdict for another task than the slot's is
  dropped; a notice takes a slot without a turn. `SlotInv` says which of the movers each state of the slot has (a delivery past
  its claim or a turn or a turn end for *starting* and *running*, a verdict on its way for
  *assessing*), that a message accepted has its turn running, and that a verdict once
  published is never forgotten, so that the slot cannot fall back to *assessing* with no
  boundary left.
- `SessionOnlySuccessDrains` excludes a tick that is given up, a cancel and an insertion,
  and keeps restarts, refusals, leases that lapse under a live delivery, notices, operator
  decisions and all tasks. It keeps questions too, but not together with such a lapse (the
  counterexample is in section 4).
  `SerialInv` says what is serial then: one delivery at a time; a delivery that may still
  start its turn (`Fresh`) stands under the verdict it was selected by (`Ready`), because
  whatever could publish another one (a turn, a stop, a redelivery of the slot's own entry)
  excludes it; and a message that joins a taken slot finds the delivery before it done.
- `SessionAnswerLeads` also excludes refusals, restarts and lapses under a delivery, and a
  second answer in the session. `AnswerInv` says that the answer to the current question, from its admission to
  its claim, has the priority entry and runs directly, that a leased entry has a live
  delivery, and that a question identifies a turn that has begun, so that an answer admitted
  to an earlier question can never become the answer to a later one. TLC has a counterexample
  for a cancel, an insertion, a refusal and a restart, each by itself, for a second answer,
  and for a stalled tick together with a lapse, if ticks act inside chains. A stall alone and a
  lapse alone have none in small instances; the proof needs to exclude them.
- `SessionQuestionHolds` excludes the same disturbances, a tick that acts inside a chain
  (`TickAnywhere`), a second task and messages that start no turn, and keeps any number of
  questions and answers, dismissals, removals and reorderings. `TurnInv` says that a turn
  has the slot to itself until its verdict is settled (verdict P, a taken slot, no other
  delivery, at most one turn end), so the queue is only looked at while the slot is free
  (`LeaseFree`). `HoldInv` then follows a message that is older than the open question: it is
  not under way; while the asking turn has the slot it stays where it is; and the only step
  that frees the slot is the completion with W, which blocks it (`FreedBy`). A tick inside a
  chain, a stalled tick together with a lapse, a cancel, an insertion and a restart each break
  it, and TLC shows how; a lapse alone does not in `session_question`. Whether one task, messages with a turn and no refusals are necessary is
  open: the proof needs them (`SlotInv`, `TurnInv`), and small instances without them have
  no counterexample.

*Store* (`DurableStoreProofs`). The invariant `StoreInv` joins the types with four facts:
every queued call is unanswered and queued once (`QueuesPending`); every copy, draft and
draft just committed is a past of the database, smaller in revision and rows or equal
(`CopiesPast`); the process that creates the database is alone (`CreatorAlone`); no
snapshot holds half a mutation (`AllWhole`). Equal revisions then mean equal contents, so
a commit that passes the revision check adds one mutation to what the database holds. The
refinement maps `applied` to the mutations the database shows: `Commit` is the only step
that changes it, every other step moves the answers of the callers or stutters.

*Dispatch* (`DispatchProofs`). Since nobody resettles, `OneReceipt` follows from a stronger
fact, that a dispatch is settled once (`ReceiptOnce`). This is inductive with the types and
the fact that a request still to be sent has an attempt left: every settling action goes
through `Complete`, proved once, or through the cancellation, which adds no receipt and is barred
from a terminal operation. `QueuedNeverRuns` needs the slot (`QueueInv`): only a delivery
that holds it can still send, so a cancellation that found the request queued, outside
any slot, leaves nothing behind that could start a turn, and the cancelled request is
never leased again.

*Waits* (`WaitsProofs`). `OneStory` is inductive with the types; a settled wait is never
written again because each mutation checks its status in the transaction that writes.
`GuardExact` is about the moment when no update is under way, and is not inductive;
`GuardInv` says for every moment that the last update still to come that names a wait,
or the guard itself if there is none, agrees with the store. Each store call appends one
update that says what the call made of the waits it names.

*Jobs* (`DetachedProofs`). `RunsOnce` follows from the claim: only the wrapper that
created `started` is past it. `VerdictTrue` needs that the marker, and what a call has
read of it, is the exit of the wrapper that holds the claim.

*Workspaces* (`WorkspaceProofs`). A check and its effect are awaits apart, so
`WorkspaceInv` says what each step under way may rely on: a delivery that has not launched
writes nothing; one past `ensureAwake` that still has its lease has its checkout; a restore
excludes a hibernation; a hibernation past its last check keeps the checkout closed to all
but a lease not woken yet; while the host is down none is under way. `BudgetHeld` rests on
the books: every active lease is counted, as a checkout on the books or as one to come. It assumes finitely many
checkouts (`WorkspaceAssumption`), since the budget counts them.

*Accounts* (`AccountProofs`). `LoginInv` follows a login through a check: unless a check
could not see what it wrote over (`Blind`), the slot never holds a spent login, a spent
login in the file has its successor in the slot, and a check about to overwrite or clear
the slot has seen that nothing is lost by it. A CLI left behind (`orphans`) adds one case to
each: its exchange either leaves the successor in the slot, where the next check finds it,
or falls into one of the two windows and is `raced`. `ProbeInv` says that the refresher's
record, in memory and on disk alike, counts every turn of the newest credential that had
one, which is why a restart that reads it back cannot forget any.

Only model-checked:

- Liveness (`EverythingSettles`, `SlotReleased`, `GuardHeals`, `WaitEnds`,
  `DispatchSettles`, `LeaseEnds`, `JobSettles`, `CallsAnswered`, `LapseSettles`): it needs
  fairness, and `ENABLED`, which is out of the prover's reach.
- `QuestionHolds` and `AnswerLeads` of `SessionDelivery` when a lease lapses under its
  delivery, which `session_question` allows and their theorems exclude.

`LoginKept` is the property `stale_login` refutes, `LateReceiptCounts` the one `late_receipt`
refutes.

## 6. Not modelled

The task shell and the task board, provider attempts within a turn, the git queue and
websocket back-pressure keep state worth a module each and come next. The rest decides
nothing about session work: it is process and protocol glue around external programs,
accounting, files and indexes, HTTP argument checks, and separate client programs (the
Flutter and browser clients make up most of the repository's lines).
