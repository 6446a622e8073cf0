------------------------------- MODULE Workspace -------------------------------
(***************************************************************************)
(* Who may write a checkout: src/src/workspace/admission.js and            *)
(* registry.js, with the warm children of src/src/chat/workspace-          *)
(* residency.js and the hibernation of src/src/session/hibernation.js.     *)
(*                                                                         *)
(* A delivery takes the lease of its session's workspace, retires the warm *)
(* children of the other sessions on that checkout, wakes the checkout,    *)
(* and starts a turn; the lease goes when the writer has stopped.  When    *)
(* the checkouts on the books are too many, it has another one hibernated  *)
(* first.  A hibernation removes an idle checkout.  Both await between     *)
(* their checks and their effects, and only the key of the workspace keeps *)
(* those that touch the tree apart.  The lease and the workspace state are *)
(* durable; permits, steps and what the host believes of its children are  *)
(* not, and a child may survive the host.                                  *)
(***************************************************************************)
EXTENDS Naturals, FiniteSetsExt

CONSTANTS
    Sessions, Workspaces,
    WorkspaceOf(_),   \* the checkout a session (or its owner) works in
    NoSession,        \* null
    ExecutionLimit,   \* executionLimit: active leases
    ResidentLimit,    \* residentLimit: checkouts on the books, of one directory
    RestoreLimit,     \* restoreLimit: checkouts being restored at a time
    MaxLeases,        \* bound: leases ever taken
    MaxCrashes        \* bound: host restarts

ASSUME WorkspaceAssumption ==
    /\ IsFiniteSet(Workspaces)
    /\ \A s \in Sessions : WorkspaceOf(s) \in Workspaces
    /\ NoSession \notin Sessions
    /\ ExecutionLimit \in Nat \ {0} /\ ResidentLimit \in Nat \ {0} /\ RestoreLimit \in Nat \ {0}
    /\ MaxLeases \in Nat /\ MaxCrashes \in Nat

VARIABLES
    lease,      \* registry: the last lease of each workspace
    residency,  \* registry: hibernated (planned too), resident, or retained
                \* after a restore that could not be validated
    state,      \* workspaceState of the owner's record
    disk,       \* the checkout is there
    step,       \* delivery of a session: how far it has come
    permit,     \* `active`: none, held, terminal
    permitGen,  \* the lease generation of that permit
    busy,       \* the session's turn is on
    background, \* background tasks of the session run
    child,      \* its process: none, idle, busy, orphan (outlived the host)
    hibernator, \* hibernation of a workspace: how far it has come
    up, crashes

vars == <<lease, residency, state, disk, step, permit, permitGen, busy, background,
          child, hibernator, up, crashes>>

registry == <<lease, residency>>
checkout == <<state, disk>>
permits  == <<permit, permitGen>>
writers  == <<busy, background, child>>
world    == <<up, crashes>>

-------------------------------------------------------------------------------
\* `materializing` is treated as `reserved` wherever the code reads it.
ActiveStates == {"reserved", "starting", "running", "uncertain"}
Lease == [state : ActiveStates \cup {"released"}, session : Sessions \cup {NoSession},
          gen : Nat,
          materializing : BOOLEAN,  \* counts as a checkout to come
          pid : BOOLEAN,            \* a writer's pid is recorded
          aged : BOOLEAN]           \* uncertain, and older than staleUncertainMs

Steps == {"idle", "relief", "claim", "wake", "thaw", "verify", "ready", "begun",
          "starting", "launched"}
Keepers == {"none", "checked", "prepared", "closed", "confirmed"}
Residencies == {"hibernated", "resident", "retained"}

NoLease == [state |-> "released", session |-> NoSession, gen |-> 0,
            materializing |-> FALSE, pid |-> FALSE, aged |-> FALSE]

Active(w) == lease[w].state \in ActiveStates
Issued == MapThenSumSet(LAMBDA w : lease[w].gen, Workspaces)
Residents(s) == {t \in Sessions : WorkspaceOf(t) = WorkspaceOf(s)}
IsLive(s) == busy[s] \/ background[s] \/ child[s] = "busy"
LiveOn(w) == \E s \in Sessions : WorkspaceOf(s) = w /\ IsLive(s)
Writing(s) == child[s] = "busy" \/ background[s]

\* Mutant.
KeyIgnored(w) == TRUE

\* Hibernation and restore of one workspace run one at a time.
KeyFree(w) == hibernator[w] = "none" /\ \A s \in Sessions : WorkspaceOf(s) = w => step[s] # "thaw"

\* A permit is good for the lease it was issued with.
Mine(s) == LET l == lease[WorkspaceOf(s)] IN l.session = s /\ l.gen = permitGen[s]
MineActive(s) == Mine(s) /\ Active(WorkspaceOf(s))

Transition(w, to) == [lease EXCEPT ![w].state = to, ![w].aged = FALSE]

\* What a lease that was given back says of its holder is not read again.
Released(w) == [lease EXCEPT ![w] = [NoLease EXCEPT !.gen = lease[w].gen]]

-------------------------------------------------------------------------------
(* Acquiring: available, beforeDeliver.  Mutants: what each property must  *)
(* notice.                                                                 *)

Leased    == {w \in Workspaces : Active(w)}
Restoring == {w \in Workspaces : Active(w) /\ lease[w].materializing}
OnBooks   == {w \in Workspaces : residency[w] # "hibernated"}

\* A retained checkout being restored again is counted on both sides.
Spent == Cardinality(OnBooks) + Cardinality(Restoring)

Admissible(w) ==
    /\ ~Active(w)
    /\ Cardinality(Leased) < ExecutionLimit
    /\ residency[w] # "resident" => Cardinality(Restoring) < RestoreLimit

AvailableOnDisk(w) ==
    Admissible(w) /\ (residency[w] # "resident" => Cardinality(OnBooks) < ResidentLimit)

Available(w) == Admissible(w) /\ (residency[w] # "resident" => Spent < ResidentLimit)

\* A checkout being detached or restored is not handed out.
Open(w) == state[w] \notin {"hibernating", "thawing"}

\* What a delivery looks at before it asks for the lease.
Enters(s) ==
    /\ up /\ step[s] = "idle" /\ Issued < MaxLeases
    /\ Open(WorkspaceOf(s)) /\ \A t \in Residents(s) \ {s} : ~IsLive(t)

TakeLease(s) ==
    LET w == WorkspaceOf(s)
    IN  /\ lease' = [lease EXCEPT ![w] =
              [state |-> "reserved", session |-> s, gen |-> lease[w].gen + 1,
               materializing |-> residency[w] # "resident", pid |-> FALSE, aged |-> FALSE]]
        /\ permit' = [permit EXCEPT ![s] = "held"]
        /\ permitGen' = [permitGen EXCEPT ![s] = lease[w].gen + 1]
        /\ step' = [step EXCEPT ![s] = "claim"]
        /\ UNCHANGED <<residency, checkout, writers, hibernator, world>>

Acquire(s) == Enters(s) /\ Available(WorkspaceOf(s)) /\ TakeLease(s)

\* workspace_resident_capacity: the hibernation of another checkout is awaited.
AwaitRelief(s) ==
    /\ Enters(s) /\ Admissible(WorkspaceOf(s)) /\ ~Available(WorkspaceOf(s))
    /\ step' = [step EXCEPT ![s] = "relief"]
    /\ UNCHANGED <<registry, checkout, permits, writers, hibernator, world>>

\* Then the lease is asked for once more; the checkout is not looked at again.
Relieved(s) ==
    /\ step[s] = "relief" /\ Issued < MaxLeases
    /\ Available(WorkspaceOf(s)) /\ TakeLease(s)

ReliefFails(s) ==
    /\ step[s] = "relief" /\ ~(Available(WorkspaceOf(s)) /\ Issued < MaxLeases)
    /\ step' = [step EXCEPT ![s] = "idle"]
    /\ UNCHANGED <<registry, checkout, permits, writers, hibernator, world>>

\* A delivery that failed before its turn gives the lease back; a checkout that
\* could not be validated stays on the books as retained.
GiveUp(s, retained) ==
    LET w == WorkspaceOf(s)
    IN  /\ lease' = Released(w)
        /\ residency' = [residency EXCEPT ![w] = IF retained THEN "retained" ELSE @]
        /\ permit' = [permit EXCEPT ![s] = "none"]
        /\ step' = [step EXCEPT ![s] = "idle"]

\* claimPersistent: warm children of other sessions on this checkout are closed.
ClaimPersistent(s) ==
    LET others == Residents(s) \ {s}
    IN  /\ step[s] = "claim" /\ MineActive(s)
        /\ IF \E t \in others : child[t] = "busy" \/ background[t]
           THEN GiveUp(s, FALSE) /\ UNCHANGED child
           ELSE /\ child' = [t \in Sessions |-> IF t \in others /\ child[t] = "idle"
                                                THEN "none" ELSE child[t]]
                /\ step' = [step EXCEPT ![s] = "wake"]
                /\ UNCHANGED <<registry, permit>>
        /\ UNCHANGED <<checkout, permitGen, busy, background, hibernator, world>>

AwakeByState(w) == state[w] = "awake"
Awake(w) == state[w] = "awake" /\ disk[w]

\* ensureAwake, under the workspace's key: the tree is there, or there in another
\* state than the branch's (degraded), or it is restored.
EnsureAwake(s) ==
    LET w == WorkspaceOf(s)
    IN  /\ step[s] = "wake" /\ KeyFree(w) /\ MineActive(s)
        /\ \/ Awake(w) /\ step' = [step EXCEPT ![s] = "verify"] /\ UNCHANGED state
           \/ /\ ~Awake(w) /\ disk[w]
              /\ step' = [step EXCEPT ![s] = "verify"]
              /\ state' = [state EXCEPT ![w] = "awake"]
           \/ /\ step' = [step EXCEPT ![s] = "thaw"]
              /\ state' = [state EXCEPT ![w] = "thawing"]
        /\ UNCHANGED <<registry, disk, permits, writers, hibernator, world>>

\* git.thaw has come back.
Thaw(s) ==
    LET w == WorkspaceOf(s)
    IN  /\ step[s] = "thaw" /\ MineActive(s)
        /\ \/ /\ step' = [step EXCEPT ![s] = "verify"]
              /\ state' = [state EXCEPT ![w] = "awake"]
              /\ disk' = [disk EXCEPT ![w] = TRUE]
              /\ UNCHANGED <<registry, permit>>
           \/ /\ state' = [state EXCEPT ![w] = "hibernated"]
              /\ GiveUp(s, disk[w])
              /\ UNCHANGED disk
        /\ UNCHANGED <<permitGen, writers, hibernator, world>>

\* The checkout is validated (resident) or refused.
Verify(s) ==
    LET w == WorkspaceOf(s)
    IN  /\ step[s] = "verify" /\ MineActive(s)
        /\ \/ /\ lease' = [Transition(w, "reserved") EXCEPT ![w].materializing = FALSE]
              /\ residency' = [residency EXCEPT ![w] = "resident"]
              /\ step' = [step EXCEPT ![s] = "ready"]
              /\ UNCHANGED permit
           \/ GiveUp(s, disk[w])
        /\ UNCHANGED <<checkout, permitGen, writers, hibernator, world>>

-------------------------------------------------------------------------------
(* The turn.                                                               *)

\* bindTurn, assertPermit.
TurnBegins(s) ==
    /\ step[s] = "ready" /\ MineActive(s)
    /\ step' = [step EXCEPT ![s] = "begun"]
    /\ busy' = [busy EXCEPT ![s] = TRUE]
    /\ UNCHANGED <<registry, checkout, permits, background, child, hibernator, world>>

\* starting, just before the process is started.
Starting(s) ==
    /\ step[s] = "begun" /\ MineActive(s)
    /\ lease' = Transition(WorkspaceOf(s), "starting")
    /\ step' = [step EXCEPT ![s] = "starting"]
    /\ UNCHANGED <<residency, checkout, permits, writers, hibernator, world>>

\* The process runs; its pid is known at once, or reported later (a stream).
Launch(s) ==
    LET w == WorkspaceOf(s)
    IN  /\ step[s] = "starting" /\ MineActive(s)
        /\ lease' \in {lease, [Transition(w, "running") EXCEPT ![w].pid = TRUE]}
        /\ child' = [child EXCEPT ![s] = "busy"]
        /\ step' = [step EXCEPT ![s] = "launched"]
        /\ UNCHANGED <<residency, checkout, permits, busy, background, hibernator, world>>

\* spawned, of a stream.
Spawned(s) ==
    LET w == WorkspaceOf(s)
    IN  /\ child[s] = "busy" /\ permit[s] # "none" /\ MineActive(s) /\ ~lease[w].pid
        /\ lease' = [Transition(w, "running") EXCEPT ![w].pid = TRUE]
        /\ UNCHANGED <<residency, checkout, step, permits, writers, hibernator, world>>

\* complete: refused before a writer was started ...
Reject(s) ==
    /\ step[s] \in {"ready", "begun"} /\ MineActive(s)
    /\ GiveUp(s, FALSE)
    /\ busy' = [busy EXCEPT ![s] = FALSE]
    /\ UNCHANGED <<checkout, permitGen, background, child, hibernator, world>>

\* ... or as it was being started, which may have left one ...
SpawnFails(s) ==
    /\ step[s] = "starting" /\ MineActive(s)
    /\ lease' = Transition(WorkspaceOf(s), "uncertain")
    /\ step' = [step EXCEPT ![s] = "idle"]
    /\ busy' = [busy EXCEPT ![s] = FALSE]
    /\ UNCHANGED <<residency, checkout, permits, background, child, hibernator, world>>

\* ... or returned after one was: accepted, or with its response lost.
Return(s) ==
    LET w == WorkspaceOf(s)
    IN  /\ step[s] = "launched"
        /\ \/ lease' = IF MineActive(s) /\ lease[w].state = "starting"
                       THEN Transition(w, "running") ELSE lease
           \/ MineActive(s) /\ lease' = Transition(w, "uncertain")
        /\ step' = [step EXCEPT ![s] = "idle"]
        /\ UNCHANGED <<residency, checkout, permits, writers, hibernator, world>>

TurnEnds(s) ==
    /\ child[s] = "busy"
    /\ busy' = [busy EXCEPT ![s] = FALSE]
    /\ \/ /\ child' = [child EXCEPT ![s] = "idle"]
          /\ background' \in {background, [background EXCEPT ![s] = TRUE]}
       \/ /\ child' = [child EXCEPT ![s] = "none"]
          /\ UNCHANGED background
    /\ UNCHANGED <<registry, checkout, step, permits, hibernator, world>>

BackgroundEnds(s) ==
    /\ background[s]
    /\ background' = [background EXCEPT ![s] = FALSE]
    /\ UNCHANGED <<registry, checkout, step, permits, busy, child, hibernator, world>>

\* settled: the scheduler is done with the turn.
Settled(s) ==
    /\ permit[s] = "held" /\ step[s] \in {"idle", "launched"} /\ child[s] # "busy"
    /\ permit' = [permit EXCEPT ![s] = "terminal"]
    /\ UNCHANGED <<registry, checkout, step, permitGen, writers, hibernator, world>>

QuietTurn(s) == ~busy[s] /\ child[s] # "busy"
Quiet(s) == ~IsLive(s)

\* drain: the writer has stopped; its warm child is parked or closed.
Drain(s) ==
    /\ permit[s] = "terminal" /\ Quiet(s) /\ MineActive(s)
    /\ lease' = Released(WorkspaceOf(s))
    /\ permit' = [permit EXCEPT ![s] = "none"]
    /\ child' \in {child, [child EXCEPT ![s] = "none"]}
    /\ UNCHANGED <<residency, checkout, step, permitGen, busy, background, hibernator, world>>

-------------------------------------------------------------------------------
(* Leases nobody will release.                                             *)

PidDead(w) == lease[w].pid /\ child[lease[w].session] = "none"

ReapableByPid(w) == lease[w].state = "uncertain" /\ ~LiveOn(w) /\ PidDead(w)
Reapable(w) == lease[w].state = "uncertain" /\ ~LiveOn(w) /\ (PidDead(w) \/ lease[w].aged)

\* reapStaleUncertainLeases.
Reap(w) ==
    /\ up /\ Reapable(w)
    /\ lease' = Released(w)
    /\ UNCHANGED <<residency, checkout, step, permits, writers, hibernator, world>>

LeaseAges(w) ==
    /\ lease[w].state = "uncertain" /\ ~lease[w].aged
    /\ lease' = [lease EXCEPT ![w].aged = TRUE]
    /\ UNCHANGED <<residency, checkout, step, permits, writers, hibernator, world>>

\* escalate: the user wants the writer stopped.  The background is stopped and
\* drain releases; a lease no delivery owns is released once its pid is dead.
Escalate(s) ==
    /\ up /\ MineActive(s)
    /\ \/ /\ permit[s] = "terminal" /\ background[s]
          /\ background' = [background EXCEPT ![s] = FALSE]
          /\ child' = [child EXCEPT ![s] = "none"]
          /\ UNCHANGED lease
       \/ /\ permit[s] = "none" /\ ~IsLive(s)
          /\ child' = [child EXCEPT ![s] = IF lease[WorkspaceOf(s)].pid \/ @ = "idle"
                                           THEN "none" ELSE @]
          /\ lease' = Released(WorkspaceOf(s))
          /\ UNCHANGED background
    /\ UNCHANGED <<residency, checkout, step, permits, busy, hibernator, world>>

-------------------------------------------------------------------------------
(* Hibernation, under the workspace's key: hibernateUnlocked.              *)

At(w, to) == hibernator' = [hibernator EXCEPT ![w] = to]

HibernateChecks(w) ==
    /\ up /\ KeyFree(w) /\ state[w] = "awake"
    /\ ~Active(w)
    /\ At(w, "checked")
    /\ UNCHANGED <<registry, checkout, step, permits, writers, world>>

HibernatePrepares(w) ==
    /\ hibernator[w] = "checked"
    /\ state' = [state EXCEPT ![w] = "hibernating"]
    /\ At(w, "prepared")
    /\ UNCHANGED <<registry, disk, step, permits, writers, world>>

\* claimWorkspace, exclusive: every warm child on the checkout is closed.
HibernateCloses(w) ==
    /\ hibernator[w] = "prepared" /\ ~LiveOn(w)
    /\ child' = [s \in Sessions |-> IF WorkspaceOf(s) = w /\ child[s] = "idle"
                                    THEN "none" ELSE child[s]]
    /\ At(w, "closed")
    /\ UNCHANGED <<registry, checkout, step, permits, busy, background, world>>

\* The last blocker check.
HibernateConfirms(w) ==
    /\ hibernator[w] = "closed" /\ ~Active(w)
    /\ At(w, "confirmed")
    /\ UNCHANGED <<registry, checkout, step, permits, writers, world>>

\* hibernate_became_active, a busy child, a failed detach.
HibernateAborts(w) ==
    /\ \/ hibernator[w] = "prepared" /\ LiveOn(w)
       \/ hibernator[w] = "closed" /\ Active(w)
       \/ hibernator[w] = "confirmed"
    /\ state' = [state EXCEPT ![w] = IF disk[w] THEN "awake" ELSE "hibernated"]
    /\ At(w, "none")
    /\ UNCHANGED <<registry, disk, step, permits, writers, world>>

HibernateDetaches(w) ==
    /\ hibernator[w] = "confirmed"
    /\ disk' = [disk EXCEPT ![w] = FALSE]
    /\ state' = [state EXCEPT ![w] = "hibernated"]
    /\ residency' = [residency EXCEPT ![w] = IF Active(w) THEN @ ELSE "hibernated"]
    /\ At(w, "none")
    /\ UNCHANGED <<lease, step, permits, writers, world>>

\* A checkout that is not under lease is removed by hand; reclaim notices.
Vanish(w) ==
    /\ disk[w] /\ ~Active(w)
    /\ disk' = [disk EXCEPT ![w] = FALSE]
    /\ UNCHANGED <<registry, state, step, permits, writers, hibernator, world>>

Reclaim(w) ==
    /\ up /\ residency[w] # "hibernated" /\ ~disk[w] /\ ~Active(w)
    /\ residency' = [residency EXCEPT ![w] = "hibernated"]
    /\ UNCHANGED <<lease, checkout, step, permits, writers, hibernator, world>>

-------------------------------------------------------------------------------
(* Restarts.                                                               *)

\* The trees git is restoring, or removing.
InHand == {w \in Workspaces : hibernator[w] = "confirmed"
                              \/ \E s \in Sessions : WorkspaceOf(s) = w /\ step[s] = "thaw"}

\* A busy child may outlive the host; so may its background, and git.
Crash ==
    /\ up /\ crashes < MaxCrashes
    /\ up' = FALSE /\ crashes' = crashes + 1
    /\ step' = [s \in Sessions |-> "idle"]
    /\ permit' = [s \in Sessions |-> "none"]
    /\ \E survivors \in SUBSET {s \in Sessions : Writing(s)} :
          child' = [s \in Sessions |-> IF s \in survivors \/ child[s] = "orphan"
                                       THEN "orphan" ELSE "none"]
    /\ busy' = [s \in Sessions |-> FALSE]
    /\ background' = [s \in Sessions |-> FALSE]
    /\ hibernator' = [w \in Workspaces |-> "none"]
    /\ \E completed \in SUBSET InHand :
          disk' = [w \in Workspaces |->
                     IF w \in completed THEN hibernator[w] # "confirmed" ELSE disk[w]]
    /\ UNCHANGED <<registry, state, permitGen>>

OrphanDies(s) ==
    /\ child[s] = "orphan"
    /\ child' = [child EXCEPT ![s] = "none"]
    /\ UNCHANGED <<registry, checkout, step, permits, busy, background, hibernator, world>>

\* registry.recover, which leaves updatedAt alone, and reconcileStartup.
Start ==
    /\ ~up /\ up' = TRUE
    /\ lease' = [w \in Workspaces |-> IF Active(w) THEN [lease[w] EXCEPT !.state = "uncertain"]
                                      ELSE lease[w]]
    /\ state' = [w \in Workspaces |->
          IF state[w] = "awake" THEN "awake" ELSE IF disk[w] THEN "awake" ELSE "hibernated"]
    /\ UNCHANGED <<residency, disk, step, permits, writers, hibernator, crashes>>

-------------------------------------------------------------------------------
\* A host without leases, with the checkouts an earlier one left.
Init ==
    /\ lease = [w \in Workspaces |-> NoLease]
    /\ residency \in [Workspaces -> Residencies] /\ Cardinality(OnBooks) <= ResidentLimit
    /\ disk \in [Workspaces -> BOOLEAN]
    /\ state = [w \in Workspaces |-> IF disk[w] THEN "awake" ELSE "hibernated"]
    /\ step = [s \in Sessions |-> "idle"]
    /\ permit = [s \in Sessions |-> "none"]
    /\ permitGen = [s \in Sessions |-> 0]
    /\ busy = [s \in Sessions |-> FALSE]
    /\ background = [s \in Sessions |-> FALSE]
    /\ child = [s \in Sessions |-> "none"]
    /\ hibernator = [w \in Workspaces |-> "none"]
    /\ up = TRUE /\ crashes = 0

Relief(s) == Relieved(s) \/ ReliefFails(s)

Delivery(s) ==
    \/ ClaimPersistent(s) \/ EnsureAwake(s) \/ Thaw(s) \/ Verify(s)
    \/ TurnBegins(s) \/ Starting(s) \/ Launch(s) \/ Reject(s) \/ SpawnFails(s) \/ Return(s)

Turn(s) == Spawned(s) \/ TurnEnds(s) \/ BackgroundEnds(s) \/ Settled(s) \/ Drain(s)

Hibernation(w) ==
    \/ HibernatePrepares(w) \/ HibernateCloses(w) \/ HibernateConfirms(w)
    \/ HibernateAborts(w) \/ HibernateDetaches(w)

Next ==
    \/ \E s \in Sessions : \/ Acquire(s) \/ AwaitRelief(s) \/ Relief(s)
                          \/ Delivery(s) \/ Turn(s) \/ Escalate(s) \/ OrphanDies(s)
    \/ \E w \in Workspaces :
          \/ HibernateChecks(w) \/ Hibernation(w)
          \/ Reap(w) \/ LeaseAges(w) \/ Vanish(w) \/ Reclaim(w)
    \/ Crash \/ Start

Spec == Init /\ [][Next]_vars

\* Deliveries and hibernations run to their end, turns and background work end
\* (the watchdog), the settle timer runs every second, a supervisor restarts
\* the host.  Orphans need not die.
Fairness ==
    /\ WF_vars(Start)
    /\ \A s \in Sessions : WF_vars(Relief(s)) /\ WF_vars(Delivery(s)) /\ WF_vars(Turn(s))
    /\ \A w \in Workspaces : WF_vars(Hibernation(w)) /\ WF_vars(Reap(w)) /\ WF_vars(LeaseAges(w))

FairSpec == Spec /\ Fairness

-------------------------------------------------------------------------------
(* Properties.                                                             *)

\* Leases, steps and processes are well formed.
TypeOK ==
    /\ lease \in [Workspaces -> Lease]
    /\ residency \in [Workspaces -> Residencies]
    /\ state \in [Workspaces -> {"awake", "hibernating", "thawing", "hibernated"}]
    /\ disk \in [Workspaces -> BOOLEAN]
    /\ step \in [Sessions -> Steps]
    /\ permit \in [Sessions -> {"none", "held", "terminal"}]
    /\ permitGen \in [Sessions -> Nat]
    /\ busy \in [Sessions -> BOOLEAN]
    /\ background \in [Sessions -> BOOLEAN]
    /\ child \in [Sessions -> {"none", "idle", "busy", "orphan"}]
    /\ hibernator \in [Workspaces -> Keepers]
    /\ up \in BOOLEAN /\ crashes \in Nat

\* Whoever writes a checkout under this host, a turn or its background, holds
\* the lease of it, so no two sessions write one checkout: through shared
\* checkouts, lost responses, the stale sweep, escalation and restarts.
WriterHoldsLease ==
    \A s \in Sessions : Writing(s) => Active(WorkspaceOf(s)) /\ lease[WorkspaceOf(s)].session = s

Unwoken(w) == \E s \in Sessions : WorkspaceOf(s) = w /\ Mine(s) /\ step[s] \in {"claim", "wake"}

\* A checkout is never removed under its writer, nor a turn started in one that
\* is not there.
WriterHasCheckout == \A s \in Sessions : Writing(s) => disk[WorkspaceOf(s)]

\* No checkout is removed under a lease, but for that of a delivery which has not
\* woken it yet: a lease taken after a relief may find a hibernation past its
\* last check.
DetachUnleased ==
    [][\A w \in Workspaces : disk[w] /\ ~disk'[w] => ~Active(w) \/ Unwoken(w)]_vars

\* Checkouts on the books and those being restored stay within the budget,
\* whatever is released, retained or reclaimed in between, as do the leases.
BudgetHeld ==
    /\ Spent <= ResidentLimit
    /\ Cardinality(Restoring) <= RestoreLimit
    /\ Cardinality(Leased) <= ExecutionLimit

\* No lease is held for ever, so no delivery waits for ever for one: a lost
\* response, a crash or a vanished writer is reaped or drained.
LeaseEnds == \A w \in Workspaces : Active(w) ~> ~Active(w)

===============================================================================
