----------------------------- MODULE WorkspaceProofs -----------------------------
(***************************************************************************)
(* Who may write a checkout, for any sessions, checkouts and limits: the   *)
(* type correctness of Workspace.tla, WriterHoldsLease, WriterHasCheckout, *)
(* DetachUnleased and BudgetHeld.                                          *)
(*                                                                         *)
(* The invariant adds to these what the awaits between a check and its     *)
(* effect rest on: a delivery that has not launched yet writes nothing; a  *)
(* delivery past ensureAwake that still has its lease has its checkout; a  *)
(* restore excludes a hibernation; a hibernation past its last check keeps *)
(* the checkout closed to all but a lease not woken yet; and every active  *)
(* lease is on the books, as a checkout or as one to come.                 *)
(***************************************************************************)
EXTENDS Workspace, FiniteSetTheorems, TLAPS

Launching == {"claim", "wake", "thaw", "verify", "ready", "begun", "starting"}
Awakened  == {"verify", "ready", "begun", "starting"}
Detaching == {"prepared", "closed", "confirmed"}

\* A delivery takes the lease at once or after a relief; waiting moves its step only.
Taking(s)  == Acquire(s) \/ Relieved(s)
Waiting(s) == AwaitRelief(s) \/ ReliefFails(s)

Booked(w) == residency[w] # "hibernated"

LaunchingSilent == \A s \in Sessions : step[s] \in Launching => ~Writing(s)

AwakenedHasCheckout ==
    \A s \in Sessions : step[s] \in Awakened /\ MineActive(s) => disk[WorkspaceOf(s)]

DetachingClosed ==
    \A w \in Workspaces :
        /\ hibernator[w] \in Detaching => state[w] = "hibernating"
        /\ hibernator[w] = "confirmed" /\ Active(w) => Unwoken(w)

ThawAlone == \A s \in Sessions : step[s] = "thaw" => hibernator[WorkspaceOf(s)] = "none"

DownQuiet == ~up => \A w \in Workspaces : hibernator[w] = "none"

LeaseCounted == \A w \in Workspaces : Active(w) => Booked(w) \/ lease[w].materializing

\* The writers part and the books part do not depend on each other.
WriterInv ==
    /\ TypeOK
    /\ WriterHoldsLease /\ LaunchingSilent
    /\ AwakenedHasCheckout /\ WriterHasCheckout
    /\ DetachingClosed /\ ThawAlone /\ DownQuiet

BooksInv == LeaseCounted /\ BudgetHeld

WorkspaceInv == WriterInv /\ BooksInv

-------------------------------------------------------------------------------
(* Leases.                                                                 *)

\* A lease keeps its holder, its generation and its place in the books when it
\* changes state, and loses its place when it is given back.
LEMMA TransitionFacts ==
    ASSUME lease \in [Workspaces -> Lease], NEW w \in Workspaces,
           NEW to \in ActiveStates \cup {"released"}
    PROVE  /\ Transition(w, to) \in [Workspaces -> Lease]
           /\ Transition(w, to)[w].state = to
           /\ Transition(w, to)[w].session = lease[w].session
           /\ Transition(w, to)[w].gen = lease[w].gen
           /\ Transition(w, to)[w].materializing = lease[w].materializing
           /\ \A v \in Workspaces \ {w} : Transition(w, to)[v] = lease[v]
  <1> DEFINE l == [lease[w] EXCEPT !.state = to, !.aged = FALSE]
  <1>1. /\ l \in Lease /\ l.state = to /\ l.session = lease[w].session /\ l.gen = lease[w].gen
        /\ l.materializing = lease[w].materializing
    BY DEF Lease
  <1>2. Transition(w, to) = [lease EXCEPT ![w] = l]
    BY DEF Transition
  <1> HIDE DEF l
  <1> QED BY <1>1, <1>2

\* A lease that is counted no more, and one whose writer's pid is recorded.
LEMMA Uncounted ==
    ASSUME NEW l \in Lease
    PROVE  LET m == [l EXCEPT !.materializing = FALSE]
           IN  /\ m \in Lease /\ m.state = l.state /\ m.session = l.session
               /\ m.gen = l.gen /\ ~m.materializing
  BY DEF Lease

LEMMA PidRecorded ==
    ASSUME NEW l \in Lease
    PROVE  LET m == [l EXCEPT !.pid = TRUE]
           IN  /\ m \in Lease /\ m.state = l.state /\ m.session = l.session
               /\ m.gen = l.gen /\ m.materializing = l.materializing
  BY DEF Lease

LEMMA ReleasedFacts ==
    ASSUME lease \in [Workspaces -> Lease], NEW w \in Workspaces
    PROVE  /\ Released(w) \in [Workspaces -> Lease]
           /\ Released(w)[w].state = "released"
           /\ ~Released(w)[w].materializing
           /\ \A v \in Workspaces \ {w} : Released(w)[v] = lease[v]
  <1> DEFINE l == [NoLease EXCEPT !.gen = lease[w].gen]
  <1>1. l \in Lease /\ l.state = "released" /\ ~l.materializing
    BY DEF NoLease, Lease
  <1>2. Released(w) = [lease EXCEPT ![w] = l]
    BY DEF Released
  <1> HIDE DEF l
  <1> QED BY <1>1, <1>2

\* A checkout found valid: the lease stays, and its checkout is counted now.
LEMMA VerifyLease ==
    ASSUME lease \in [Workspaces -> Lease], NEW s \in Sessions,
           Verify(s), ~GiveUp(s, disk[WorkspaceOf(s)])
    PROVE  LET w == WorkspaceOf(s)
           IN  /\ lease' \in [Workspaces -> Lease]
               /\ lease'[w].state = "reserved" /\ lease'[w].session = lease[w].session
               /\ lease'[w].gen = lease[w].gen /\ ~lease'[w].materializing
               /\ \A v \in Workspaces \ {w} : lease'[v] = lease[v]
  <1> DEFINE w == WorkspaceOf(s)
             t == Transition(w, "reserved")
             l == [t[w] EXCEPT !.materializing = FALSE]
  <1>0. w \in Workspaces
    BY WorkspaceAssumption
  <1>1. /\ t \in [Workspaces -> Lease] /\ t[w].state = "reserved"
        /\ t[w].session = lease[w].session /\ t[w].gen = lease[w].gen
        /\ \A v \in Workspaces \ {w} : t[v] = lease[v]
    BY <1>0, TransitionFacts DEF ActiveStates
  <1>2. lease' = [t EXCEPT ![w] = l]
    BY DEF Verify
  <1> HIDE DEF t
  <1>3. /\ l \in Lease /\ l.state = t[w].state /\ l.session = t[w].session
        /\ l.gen = t[w].gen /\ ~l.materializing
    BY <1>0, <1>1, Uncounted
  <1> HIDE DEF l, w
  <1>4. /\ lease' \in [Workspaces -> Lease]
        /\ lease'[w].state = "reserved" /\ lease'[w].session = lease[w].session
        /\ lease'[w].gen = lease[w].gen /\ ~lease'[w].materializing
        /\ \A v \in Workspaces \ {w} : lease'[v] = lease[v]
    BY <1>0, <1>1, <1>2, <1>3
  <1> QED BY <1>4 DEF w

\* From the start of its writer to the answer, a delivery moves its own lease
\* only, from one active state to another.
LEMMA HeldLease ==
    ASSUME lease \in [Workspaces -> Lease], NEW s \in Sessions,
           Starting(s) \/ Launch(s) \/ Spawned(s) \/ SpawnFails(s) \/ Return(s)
    PROVE  LET w == WorkspaceOf(s)
           IN  /\ lease' \in [Workspaces -> Lease]
               /\ lease'[w].session = lease[w].session /\ lease'[w].gen = lease[w].gen
               /\ lease'[w].materializing = lease[w].materializing
               /\ \A v \in Workspaces \ {w} : lease'[v] = lease[v]
               /\ lease' = lease \/ (MineActive(s) /\ lease'[w].state \in ActiveStates)
  <1> DEFINE w == WorkspaceOf(s)
             t == Transition(w, "running")
             l == [t[w] EXCEPT !.pid = TRUE]
             Moved(to) == MineActive(s) /\ lease' = Transition(w, to)
             WithPid == MineActive(s) /\ lease' = [t EXCEPT ![w] = l]
             Good == /\ lease' \in [Workspaces -> Lease]
                     /\ lease'[w].session = lease[w].session /\ lease'[w].gen = lease[w].gen
                     /\ lease'[w].materializing = lease[w].materializing
                     /\ \A v \in Workspaces \ {w} : lease'[v] = lease[v]
                     /\ lease' = lease \/ (MineActive(s) /\ lease'[w].state \in ActiveStates)
  <1>0. w \in Workspaces /\ {"starting", "running", "uncertain"} \subseteq ActiveStates
    BY WorkspaceAssumption DEF ActiveStates
  <1>1. lease' = lease \/ (\E to \in {"starting", "running", "uncertain"} : Moved(to)) \/ WithPid
    <2>1. CASE Starting(s)
      BY <2>1 DEF Starting
    <2>2. CASE Launch(s)
      BY <2>2 DEF Launch
    <2>3. CASE Spawned(s)
      BY <2>3 DEF Spawned
    <2>4. CASE SpawnFails(s)
      BY <2>4 DEF SpawnFails
    <2>5. CASE Return(s)
      BY <2>5 DEF Return
    <2> QED BY <2>1, <2>2, <2>3, <2>4, <2>5
  <1>2. ASSUME NEW to \in {"starting", "running", "uncertain"}, Moved(to)
        PROVE  Good
    <2> HIDE DEF w
    <2> QED BY <1>0, <1>2, TransitionFacts
  <1>3. ASSUME WithPid PROVE Good
    <2>1. /\ t \in [Workspaces -> Lease] /\ t[w].state = "running"
          /\ t[w].session = lease[w].session /\ t[w].gen = lease[w].gen
          /\ t[w].materializing = lease[w].materializing
          /\ \A v \in Workspaces \ {w} : t[v] = lease[v]
      BY <1>0, TransitionFacts
    <2> HIDE DEF t
    <2>2. /\ l \in Lease /\ l.state = t[w].state /\ l.session = t[w].session
          /\ l.gen = t[w].gen /\ l.materializing = t[w].materializing
      BY <1>0, <2>1, PidRecorded
    <2>3. MineActive(s) /\ lease' = [t EXCEPT ![w] = l]
      BY <1>3
    <2> HIDE DEF l, w
    <2>4. lease' \in [Workspaces -> Lease] /\ lease'[w] = l
          /\ \A v \in Workspaces \ {w} : lease'[v] = t[v]
      BY <1>0, <2>1, <2>2, <2>3
    <2>5. l.state \in ActiveStates
      BY <1>0, <2>1, <2>2
    <2>6. /\ lease'[w].session = lease[w].session /\ lease'[w].gen = lease[w].gen
          /\ lease'[w].materializing = lease[w].materializing
          /\ lease'[w].state \in ActiveStates
      BY <2>1, <2>2, <2>4, <2>5
    <2>7. \A v \in Workspaces \ {w} : lease'[v] = lease[v]
      BY <2>1, <2>4
    <2>8. MineActive(s)
      BY <2>3
    <2> QED BY <2>4, <2>6, <2>7, <2>8
  <1>4. ASSUME lease' = lease PROVE Good
    BY <1>0, <1>4
  <1>5. Good
    <2>1. CASE \E to \in {"starting", "running", "uncertain"} : Moved(to)
      BY <1>2, <2>1
    <2> QED BY <1>1, <1>3, <1>4, <2>1
  <1> QED BY <1>5

\* A lease is taken of a free workspace, while there is room for it.
LEMMA TakingFacts ==
    ASSUME TypeOK, NEW s \in Sessions, Taking(s)
    PROVE  LET w == WorkspaceOf(s)
           IN  /\ step[s] \in {"idle", "relief"} /\ step' = [step EXCEPT ![s] = "claim"]
               /\ Available(w) /\ ~Active(w)
               /\ lease' \in [Workspaces -> Lease]
               /\ lease'[w].state = "reserved" /\ lease'[w].session = s
               /\ lease'[w].gen = permitGen'[s]
               /\ lease'[w].materializing = (residency[w] # "resident")
               /\ \A v \in Workspaces \ {w} : lease'[v] = lease[v]
               /\ permit' = [permit EXCEPT ![s] = "held"]
               /\ permitGen' \in [Sessions -> Nat]
               /\ \A t \in Sessions \ {s} : permitGen'[t] = permitGen[t]
               /\ UNCHANGED <<residency, checkout, writers, hibernator, world>>
  <1> DEFINE w == WorkspaceOf(s)
             l == [state |-> "reserved", session |-> s, gen |-> lease[w].gen + 1,
                   materializing |-> residency[w] # "resident", pid |-> FALSE, aged |-> FALSE]
  <1>0. w \in Workspaces /\ lease \in [Workspaces -> Lease]
    BY WorkspaceAssumption DEF TypeOK
  <1>1. TakeLease(s) /\ Available(w) /\ step[s] \in {"idle", "relief"}
    BY DEF Taking, Acquire, Relieved, Enters
  <1>2. lease[w] \in Lease
    BY <1>0
  <1>3. lease[w].gen + 1 \in Nat
    BY <1>2 DEF Lease
  <1>4. l \in Lease /\ l.state = "reserved" /\ l.session = s /\ l.gen = lease[w].gen + 1
        /\ l.materializing = (residency[w] # "resident")
    BY <1>3 DEF Lease, ActiveStates
  <1>5. /\ lease' = [lease EXCEPT ![w] = l]
        /\ permitGen' = [permitGen EXCEPT ![s] = lease[w].gen + 1]
        /\ step' = [step EXCEPT ![s] = "claim"]
        /\ permit' = [permit EXCEPT ![s] = "held"]
        /\ UNCHANGED <<residency, checkout, writers, hibernator, world>>
    BY <1>1 DEF TakeLease
  <1>6. ~Active(w)
    BY <1>1 DEF Available, Admissible
  <1> HIDE DEF l
  <1>7. /\ lease' \in [Workspaces -> Lease] /\ lease'[w] = l
        /\ \A v \in Workspaces \ {w} : lease'[v] = lease[v]
    BY <1>0, <1>4, <1>5
  <1>8. /\ permitGen' \in [Sessions -> Nat] /\ permitGen'[s] = lease[w].gen + 1
        /\ \A t \in Sessions \ {s} : permitGen'[t] = permitGen[t]
    BY <1>3, <1>5 DEF TypeOK
  <1> HIDE DEF w
  <1>9. /\ step[s] \in {"idle", "relief"} /\ step' = [step EXCEPT ![s] = "claim"]
        /\ Available(w) /\ ~Active(w)
        /\ lease' \in [Workspaces -> Lease]
        /\ lease'[w].state = "reserved" /\ lease'[w].session = s
        /\ lease'[w].gen = permitGen'[s]
        /\ lease'[w].materializing = (residency[w] # "resident")
        /\ \A v \in Workspaces \ {w} : lease'[v] = lease[v]
        /\ permit' = [permit EXCEPT ![s] = "held"]
        /\ permitGen' \in [Sessions -> Nat]
        /\ \A t \in Sessions \ {s} : permitGen'[t] = permitGen[t]
        /\ UNCHANGED <<residency, checkout, writers, hibernator, world>>
    BY <1>1, <1>4, <1>5, <1>6, <1>7, <1>8
  <1> QED BY <1>9 DEF w

-------------------------------------------------------------------------------
(* Types.                                                                  *)

\* A delivery that gives up leaves well-typed leases and permits.
LEMMA GiveUpTyped ==
    ASSUME TypeOK, NEW s \in Sessions, NEW retained \in BOOLEAN, GiveUp(s, retained)
    PROVE  /\ lease' \in [Workspaces -> Lease]
           /\ residency' \in [Workspaces -> Residencies]
           /\ permit' \in [Sessions -> {"none", "held", "terminal"}]
           /\ step' \in [Sessions -> Steps]
  <1>1. WorkspaceOf(s) \in Workspaces
    BY WorkspaceAssumption
  <1>2. lease' \in [Workspaces -> Lease]
    BY <1>1, ReleasedFacts DEF GiveUp, TypeOK
  <1>3. /\ residency' \in [Workspaces -> Residencies]
        /\ permit' \in [Sessions -> {"none", "held", "terminal"}]
        /\ step' \in [Sessions -> Steps]
    BY <1>1 DEF GiveUp, TypeOK, Residencies, Steps
  <1> QED BY <1>2, <1>3

\* So does one whose restore has come back, or failed.
LEMMA ThawTyped ==
    ASSUME TypeOK, NEW s \in Sessions, Thaw(s)
    PROVE  TypeOK'
  <1> DEFINE w == WorkspaceOf(s)
  <1>1. w \in Workspaces /\ disk[w] \in BOOLEAN
    BY WorkspaceAssumption DEF TypeOK
  <1>2. UNCHANGED <<permitGen, writers, hibernator, world>>
    BY DEF Thaw
  <1>3. CASE GiveUp(s, disk[w])
    <2>1. \E l \in {"awake", "hibernated"} : state' = [state EXCEPT ![w] = l]
      BY DEF Thaw
    <2>2. disk' = disk \/ disk' = [disk EXCEPT ![w] = TRUE]
      BY DEF Thaw
    <2>3. /\ state' \in [Workspaces -> {"awake", "hibernating", "thawing", "hibernated"}]
          /\ disk' \in [Workspaces -> BOOLEAN]
      BY <2>1, <2>2 DEF TypeOK
    <2>4. /\ lease' \in [Workspaces -> Lease] /\ residency' \in [Workspaces -> Residencies]
          /\ permit' \in [Sessions -> {"none", "held", "terminal"}] /\ step' \in [Sessions -> Steps]
      BY <1>1, <1>3, GiveUpTyped
    <2> QED BY <1>2, <2>3, <2>4 DEF TypeOK, writers, world
  <1>4. CASE ~GiveUp(s, disk[w])
    <2>1. /\ step' = [step EXCEPT ![s] = "verify"]
          /\ state' = [state EXCEPT ![w] = "awake"]
          /\ disk' = [disk EXCEPT ![w] = TRUE]
          /\ UNCHANGED <<lease, residency, permit>>
      BY <1>4 DEF Thaw, registry
    <2> QED BY <1>1, <1>2, <2>1 DEF TypeOK, writers, world, Steps
  <1> QED BY <1>3, <1>4

LEMMA TypeStep ==
    ASSUME TypeOK, [Next]_vars
    PROVE  TypeOK'
  <1>0. /\ lease \in [Workspaces -> Lease]
        /\ \A s \in Sessions : WorkspaceOf(s) \in Workspaces
        /\ ActiveStates = {"reserved", "starting", "running", "uncertain"}
        /\ \A w \in Workspaces : lease[w] \in Lease
    BY WorkspaceAssumption DEF TypeOK, ActiveStates
  <1>1. ASSUME NEW s \in Sessions, Taking(s) \/ Waiting(s)
        PROVE  TypeOK'
    <2>1. CASE Taking(s)
      BY <2>1, TakingFacts DEF TypeOK, checkout, writers, world, Steps
    <2>2. CASE Waiting(s)
      BY <2>2 DEF Waiting, AwaitRelief, ReliefFails, TypeOK, registry, checkout, permits,
              writers, world, Steps
    <2> QED BY <1>1, <2>1, <2>2
  <1>2. ASSUME NEW s \in Sessions, Delivery(s)
        PROVE  TypeOK'
    <2>1. CASE ClaimPersistent(s)
      <3>1. CASE GiveUp(s, FALSE) /\ UNCHANGED child
        BY <2>1, <3>1, GiveUpTyped DEF ClaimPersistent, TypeOK, checkout, world
      <3>2. CASE ~(GiveUp(s, FALSE) /\ UNCHANGED child)
        <4>1. /\ child' = [t \in Sessions |-> IF t \in Residents(s) \ {s} /\ child[t] = "idle"
                                             THEN "none" ELSE child[t]]
              /\ step' = [step EXCEPT ![s] = "wake"]
              /\ UNCHANGED <<lease, residency, permit>>
          BY <2>1, <3>2 DEF ClaimPersistent, registry
        <4>2. child' \in [Sessions -> {"none", "idle", "busy", "orphan"}]
          BY <4>1 DEF TypeOK
        <4> QED BY <2>1, <4>1, <4>2 DEF ClaimPersistent, TypeOK, checkout, world, Steps
      <3> QED BY <3>1, <3>2
    <2>2. CASE EnsureAwake(s)
      <3>1. state' = state \/ state' = [state EXCEPT ![WorkspaceOf(s)] = "awake"]
                          \/ state' = [state EXCEPT ![WorkspaceOf(s)] = "thawing"]
        BY <2>2 DEF EnsureAwake
      <3>2. step' = [step EXCEPT ![s] = "verify"] \/ step' = [step EXCEPT ![s] = "thaw"]
        BY <2>2 DEF EnsureAwake
      <3>3. /\ state' \in [Workspaces -> {"awake", "hibernating", "thawing", "hibernated"}]
            /\ step' \in [Sessions -> Steps]
        BY <3>1, <3>2 DEF TypeOK, Steps
      <3>4. UNCHANGED <<registry, disk, permits, writers, hibernator, world>>
        BY <2>2 DEF EnsureAwake
      <3> QED BY <3>3, <3>4 DEF TypeOK, registry, permits, writers, world
    <2>3. CASE Verify(s)
      <3>1. disk[WorkspaceOf(s)] \in BOOLEAN
        BY <1>0 DEF TypeOK
      <3>2. CASE GiveUp(s, disk[WorkspaceOf(s)])
        BY <2>3, <3>1, <3>2, GiveUpTyped DEF Verify, TypeOK, checkout, writers, world
      <3>3. CASE ~GiveUp(s, disk[WorkspaceOf(s)])
        <4>1. lease' \in [Workspaces -> Lease]
          BY <1>0, <2>3, <3>3, VerifyLease
        <4>2. /\ residency' = [residency EXCEPT ![WorkspaceOf(s)] = "resident"]
              /\ step' = [step EXCEPT ![s] = "ready"]
              /\ UNCHANGED <<permit, checkout, permitGen, writers, hibernator, world>>
          BY <2>3, <3>3 DEF Verify
        <4> QED BY <4>1, <4>2 DEF TypeOK, checkout, writers, world, Steps, Residencies
      <3> QED BY <3>2, <3>3
    <2>4. CASE TurnBegins(s)
      BY <2>4 DEF TurnBegins, TypeOK, registry, checkout, permits, world, Steps
    <2>5. CASE Starting(s) \/ Launch(s) \/ SpawnFails(s)
      <3>1. lease' \in [Workspaces -> Lease]
        BY <1>0, <2>5, HeldLease
      <3> QED BY <2>5, <3>1 DEF Starting, Launch, SpawnFails, TypeOK, checkout, permits,
                  writers, world, Steps
    <2>6. CASE Reject(s)
      BY <2>6, GiveUpTyped DEF Reject, TypeOK, checkout, world
    <2>7. CASE Return(s)
      <3>1. lease' \in [Workspaces -> Lease]
        BY <2>7, <1>0, HeldLease
      <3> QED BY <2>7, <3>1 DEF Return, TypeOK, checkout, permits, writers, world, Steps
    <2> QED BY <1>2, <2>1, <2>2, <2>3, <2>4, <2>5, <2>6, <2>7, ThawTyped DEF Delivery
  <1>3. ASSUME NEW s \in Sessions, Turn(s)
        PROVE  TypeOK'
    <2>1. CASE TurnEnds(s)
      BY <2>1 DEF TurnEnds, TypeOK, registry, checkout, permits, world
    <2>2. CASE BackgroundEnds(s)
      BY <2>2 DEF BackgroundEnds, TypeOK, registry, checkout, permits, world
    <2>3. CASE Settled(s)
      BY <2>3 DEF Settled, TypeOK, registry, checkout, writers, world
    <2>4. CASE Drain(s)
      <3>1. lease' \in [Workspaces -> Lease]
        BY <2>4, <1>0, ReleasedFacts DEF Drain
      <3> QED BY <2>4, <3>1 DEF Drain, TypeOK, checkout, world
    <2>5. CASE Spawned(s)
      <3>1. lease' \in [Workspaces -> Lease]
        BY <1>0, <2>5, HeldLease
      <3> QED BY <2>5, <3>1 DEF Spawned, TypeOK, checkout, permits, writers, world
    <2> QED BY <1>3, <2>1, <2>2, <2>3, <2>4, <2>5 DEF Turn
  <1>4. ASSUME NEW s \in Sessions, Escalate(s)
        PROVE  TypeOK'
    <2>1. lease' \in [Workspaces -> Lease]
      BY <1>4, <1>0, ReleasedFacts DEF Escalate
    <2>2. child' \in [Sessions -> {"none", "idle", "busy", "orphan"}]
          /\ background' \in [Sessions -> BOOLEAN]
      BY <1>4 DEF Escalate, TypeOK
    <2> QED BY <1>4, <2>1, <2>2 DEF Escalate, TypeOK, checkout, permits, world
  <1>5. ASSUME NEW s \in Sessions, OrphanDies(s)
        PROVE  TypeOK'
    BY <1>5 DEF OrphanDies, TypeOK, registry, checkout, permits, world
  <1>6. ASSUME NEW w \in Workspaces, HibernateChecks(w) \/ Hibernation(w)
        PROVE  TypeOK'
    <2>1. CASE HibernateCloses(w)
      <3>1. child' \in [Sessions -> {"none", "idle", "busy", "orphan"}]
        BY <2>1 DEF HibernateCloses, TypeOK
      <3> QED BY <2>1, <3>1 DEF HibernateCloses, At, TypeOK, Keepers, registry, checkout, permits, world
    <2>2. CASE HibernateChecks(w) \/ HibernatePrepares(w) \/ HibernateConfirms(w)
      BY <2>2 DEF HibernateChecks, HibernatePrepares, HibernateConfirms, At,
                  TypeOK, Keepers, registry, checkout, permits, writers, world
    <2>3. CASE HibernateAborts(w)
      BY <2>3 DEF HibernateAborts, At, TypeOK, Keepers, Keepers, registry, permits, writers, world
    <2>4. CASE HibernateDetaches(w)
      <3>1. residency' \in [Workspaces -> Residencies]
        BY <2>4 DEF HibernateDetaches, TypeOK, Active, Residencies
      <3> QED BY <2>4, <3>1 DEF HibernateDetaches, At, TypeOK, Keepers, permits, writers, world
    <2> QED BY <1>6, <2>1, <2>2, <2>3, <2>4 DEF Hibernation
  <1>7. ASSUME NEW w \in Workspaces, Reap(w) \/ LeaseAges(w)
        PROVE  TypeOK'
    <2>1. CASE Reap(w)
      <3>1. lease' \in [Workspaces -> Lease]
        BY <2>1, <1>0, ReleasedFacts DEF Reap
      <3> QED BY <2>1, <3>1 DEF Reap, TypeOK, checkout, permits, writers, world
    <2>2. CASE LeaseAges(w)
      <3>1. [lease[w] EXCEPT !.aged = TRUE] \in Lease
        BY <1>0 DEF Lease
      <3>2. lease' \in [Workspaces -> Lease]
        BY <2>2, <1>0, <3>1 DEF LeaseAges
      <3> QED BY <2>2, <3>2 DEF LeaseAges, TypeOK, checkout, permits, writers, world
    <2> QED BY <1>7, <2>1, <2>2
  <1>8. ASSUME NEW w \in Workspaces, Vanish(w) \/ Reclaim(w)
        PROVE  TypeOK'
    <2>1. CASE Vanish(w)
      BY <2>1 DEF Vanish, TypeOK, registry, checkout, permits, writers, world
    <2>2. CASE Reclaim(w)
      BY <2>2 DEF Reclaim, TypeOK, Residencies, registry, checkout, permits, writers, world
    <2> QED BY <1>8, <2>1, <2>2
  <1>9. CASE Crash
    <2>1. child' \in [Sessions -> {"none", "idle", "busy", "orphan"}]
      BY <1>9 DEF Crash
    <2>2. /\ up' = FALSE /\ crashes' = crashes + 1
          /\ step' = [s \in Sessions |-> "idle"] /\ permit' = [s \in Sessions |-> "none"]
          /\ busy' = [s \in Sessions |-> FALSE] /\ background' = [s \in Sessions |-> FALSE]
          /\ hibernator' = [w \in Workspaces |-> "none"]
          /\ UNCHANGED <<lease, residency, state, permitGen>>
      BY <1>9 DEF Crash, registry
    <2>3. busy' \in [Sessions -> BOOLEAN] /\ background' \in [Sessions -> BOOLEAN]
      BY <2>2, Zenon
    <2>4. crashes' \in Nat
      BY <2>2 DEF TypeOK
    <2>5. up' \in BOOLEAN
      BY <2>2
    <2>6. disk' \in [Workspaces -> BOOLEAN]
      <3>1. PICK done \in SUBSET InHand :
              disk' = [w \in Workspaces |-> IF w \in done THEN hibernator[w] # "confirmed"
                                            ELSE disk[w]]
        BY <1>9 DEF Crash
      <3> QED BY <3>1 DEF TypeOK
    <2> QED BY <2>1, <2>2, <2>3, <2>4, <2>5, <2>6 DEF TypeOK, Steps, Keepers
  <1>10. CASE Start
    <2>1. \A w \in Workspaces : [lease[w] EXCEPT !.state = "uncertain"] \in Lease
      BY <1>0 DEF Lease
    <2>2. lease' \in [Workspaces -> Lease]
      BY <1>10, <1>0, <2>1 DEF Start
    <2> QED BY <1>10, <2>2 DEF Start, TypeOK, permits, writers
  <1>11. CASE UNCHANGED vars
    BY <1>11 DEF vars, TypeOK
  <1> QED
    BY <1>1, <1>2, <1>3, <1>4, <1>5, <1>6, <1>7, <1>8, <1>9, <1>10, <1>11
    DEF Next, Relief, Taking, Waiting

-------------------------------------------------------------------------------
(* Writers hold the lease.                                                 *)

\* What is used of a state: nobody writes a checkout that is free, nor beside
\* the holder of its lease.
LEMMA LoneWriter ==
    ASSUME WriterInv
    PROVE  /\ \A s \in Sessions : WorkspaceOf(s) \in Workspaces
           /\ \A s \in Sessions : ~Active(WorkspaceOf(s)) => ~Writing(s)
           /\ \A s, t \in Sessions :
                 WorkspaceOf(s) = WorkspaceOf(t) /\ MineActive(s) /\ s # t => ~Writing(t)
  BY WorkspaceAssumption DEF WriterInv, WriterHoldsLease, MineActive, Mine

\* A step that starts no writer, and takes no lease from one.
LEMMA WritersShrink ==
    ASSUME WriterInv,
           \A s \in Sessions : (child'[s] = "busy" \/ background'[s]) =>
              /\ Writing(s)
              /\ lease'[WorkspaceOf(s)].state \in ActiveStates
              /\ lease'[WorkspaceOf(s)].session = lease[WorkspaceOf(s)].session
    PROVE  WriterHoldsLease'
  BY DEF WriterInv, WriterHoldsLease, Writing, Active

\* A lease given back while nobody writes its checkout.
LEMMA ReleaseKeeps ==
    ASSUME WriterInv, NEW w \in Workspaces, lease' = Released(w),
           \A s \in Sessions : WorkspaceOf(s) = w => ~(child'[s] = "busy" \/ background'[s]),
           \A s \in Sessions : (child'[s] = "busy" \/ background'[s]) => Writing(s)
    PROVE  WriterHoldsLease'
  <1>1. \A v \in Workspaces \ {w} : lease'[v] = lease[v]
    BY ReleasedFacts DEF WriterInv, TypeOK
  <1>2. \A s \in Sessions : Writing(s) => lease[WorkspaceOf(s)].state \in ActiveStates
    BY DEF WriterInv, WriterHoldsLease, Active
  <1>3. \A s \in Sessions : WorkspaceOf(s) \in Workspaces
    BY LoneWriter
  <1> QED BY <1>1, <1>2, <1>3, WritersShrink

\* A step that leaves leases and writers alone.
LEMMA WritersSame ==
    ASSUME WriterInv, UNCHANGED lease,
           \A s \in Sessions : (child'[s] = "busy" \/ background'[s]) => Writing(s)
    PROVE  WriterHoldsLease'
  BY WritersShrink DEF WriterInv, WriterHoldsLease, Active

\* A lease moved to another active state.
LEMMA TransitionKeeps ==
    ASSUME WriterInv, NEW s \in Sessions, MineActive(s), NEW to \in ActiveStates,
           lease'[WorkspaceOf(s)].state = to,
           lease'[WorkspaceOf(s)].session = lease[WorkspaceOf(s)].session,
           \A v \in Workspaces \ {WorkspaceOf(s)} : lease'[v] = lease[v],
           \A t \in Sessions : (child'[t] = "busy" \/ background'[t]) => Writing(t) \/ t = s
    PROVE  WriterHoldsLease'
  BY WorkspaceAssumption
     DEF WriterInv, WriterHoldsLease, Writing, Active, MineActive, Mine

LEMMA WriterStep ==
    ASSUME WriterInv, [Next]_vars
    PROVE  WriterHoldsLease'
  <1>0. /\ TypeOK /\ lease \in [Workspaces -> Lease]
        /\ \A s \in Sessions : WorkspaceOf(s) \in Workspaces
        /\ \A s \in Sessions : ~Active(WorkspaceOf(s)) => ~Writing(s)
        /\ \A s, t \in Sessions :
              WorkspaceOf(s) = WorkspaceOf(t) /\ MineActive(s) /\ s # t => ~Writing(t)
        /\ \A s \in Sessions : step[s] \in Launching => ~Writing(s)
        /\ child \in [Sessions -> {"none", "idle", "busy", "orphan"}]
        /\ background \in [Sessions -> BOOLEAN]
    BY LoneWriter DEF WriterInv, TypeOK, LaunchingSilent
  <1>1. ASSUME NEW s \in Sessions, Taking(s) \/ Waiting(s)
        PROVE  WriterHoldsLease'
    <2>1. CASE Taking(s)
      <3>1. \A t \in Sessions : Writing(t) => WorkspaceOf(t) # WorkspaceOf(s)
        BY <1>0, <2>1, TakingFacts
      <3>2. \A v \in Workspaces \ {WorkspaceOf(s)} : lease'[v] = lease[v]
        BY <1>0, <2>1, TakingFacts
      <3>3. UNCHANGED <<child, background>>
        BY <1>0, <2>1, TakingFacts DEF writers
      <3> QED BY <1>0, <3>1, <3>2, <3>3, WritersShrink
              DEF Writing, WriterInv, WriterHoldsLease, Active
    <2>2. CASE Waiting(s)
      BY <2>2, WritersSame DEF Waiting, AwaitRelief, ReliefFails, registry, writers, Writing
    <2> QED BY <1>1, <2>1, <2>2
  <1>2. ASSUME NEW s \in Sessions, NEW retained, GiveUp(s, retained), MineActive(s),
               step[s] \in Launching, UNCHANGED <<child, background>>
        PROVE  WriterHoldsLease'
    BY <1>0, <1>2, ReleaseKeeps DEF GiveUp, Writing
  <1>13. ASSUME NEW s \in Sessions,
                Starting(s) \/ Launch(s) \/ Spawned(s) \/ SpawnFails(s) \/ Return(s)
         PROVE  WriterHoldsLease'
    <2>1. UNCHANGED background /\ (child' = child \/ (Launch(s) /\ child' = [child EXCEPT ![s] = "busy"]))
      BY <1>13 DEF Starting, Launch, Spawned, SpawnFails, Return, writers
    <2>2. \A t \in Sessions : (child'[t] = "busy" \/ background'[t]) =>
             Writing(t) \/ (Launch(s) /\ t = s)
      BY <1>0, <2>1 DEF Writing
    <2>3. /\ lease'[WorkspaceOf(s)].session = lease[WorkspaceOf(s)].session
          /\ \A v \in Workspaces \ {WorkspaceOf(s)} : lease'[v] = lease[v]
          /\ lease' = lease \/ (MineActive(s) /\ lease'[WorkspaceOf(s)].state \in ActiveStates)
      BY <1>0, <1>13, HeldLease
    <2>4. Launch(s) => MineActive(s)
      BY DEF Launch
    <2>5. CASE MineActive(s) /\ lease'[WorkspaceOf(s)].state \in ActiveStates
      BY <2>2, <2>3, <2>5, TransitionKeeps
    <2>6. CASE lease' = lease /\ Launch(s)
      BY <2>3, <2>4, <2>5, <2>6 DEF MineActive, Active
    <2>7. CASE lease' = lease /\ ~Launch(s)
      BY <2>2, <2>7, WritersSame
    <2> QED BY <2>3, <2>5, <2>6, <2>7
  <1>3. ASSUME NEW s \in Sessions, Delivery(s)
        PROVE  WriterHoldsLease'
    <2>1. CASE ClaimPersistent(s)
      <3>1. /\ MineActive(s) /\ step[s] \in Launching /\ UNCHANGED background
        BY <2>1 DEF ClaimPersistent, Launching
      <3>2. CASE GiveUp(s, FALSE) /\ UNCHANGED child
        BY <3>1, <3>2, <1>2
      <3>3. CASE ~(GiveUp(s, FALSE) /\ UNCHANGED child)
        <4>1. /\ child' = [t \in Sessions |-> IF t \in Residents(s) \ {s} /\ child[t] = "idle"
                                             THEN "none" ELSE child[t]]
              /\ UNCHANGED lease
          BY <2>1, <3>3 DEF ClaimPersistent, registry
        <4> QED BY <3>1, <4>1, WritersSame DEF Writing
      <3> QED BY <3>2, <3>3
    <2>2. CASE EnsureAwake(s)
      BY <2>2, WritersSame DEF EnsureAwake, registry, writers, Writing
    <2>8. CASE Thaw(s)
      <3>1. MineActive(s) /\ step[s] \in Launching /\ UNCHANGED <<child, background>>
        BY <2>8 DEF Thaw, Launching, writers
      <3>2. CASE GiveUp(s, disk[WorkspaceOf(s)])
        BY <3>1, <3>2, <1>2
      <3>3. CASE ~GiveUp(s, disk[WorkspaceOf(s)])
        BY <2>8, <3>1, <3>3, WritersSame DEF Thaw, registry, Writing
      <3> QED BY <3>2, <3>3
    <2>3. CASE Verify(s)
      <3>1. MineActive(s) /\ step[s] \in Launching /\ UNCHANGED <<child, background>>
        BY <2>3 DEF Verify, Launching, writers
      <3>2. CASE GiveUp(s, disk[WorkspaceOf(s)])
        BY <3>1, <3>2, <1>2
      <3>3. CASE ~GiveUp(s, disk[WorkspaceOf(s)])
        <4>1. /\ lease'[WorkspaceOf(s)].state = "reserved"
              /\ lease'[WorkspaceOf(s)].session = lease[WorkspaceOf(s)].session
              /\ \A v \in Workspaces \ {WorkspaceOf(s)} : lease'[v] = lease[v]
          BY <1>0, <2>3, <3>3, VerifyLease
        <4> QED BY <3>1, <4>1, TransitionKeeps DEF Writing, ActiveStates
      <3> QED BY <3>2, <3>3
    <2>4. CASE TurnBegins(s)
      BY <2>4, WritersSame DEF TurnBegins, registry, Writing
    <2>5. CASE Starting(s) \/ Launch(s) \/ SpawnFails(s) \/ Return(s)
      BY <2>5, <1>13
    <2>6. CASE Reject(s)
      <3>1. MineActive(s) /\ step[s] \in Launching /\ UNCHANGED <<child, background>>
        BY <2>6 DEF Reject, Launching
      <3> QED BY <2>6, <3>1, <1>2 DEF Reject
    <2> QED BY <1>3, <2>1, <2>2, <2>3, <2>4, <2>5, <2>6, <2>8 DEF Delivery
  <1>4. ASSUME NEW s \in Sessions, Turn(s)
        PROVE  WriterHoldsLease'
    <2>1. CASE TurnEnds(s)
      <3>1. \A t \in Sessions : (child'[t] = "busy" \/ background'[t]) => Writing(t)
        BY <1>0, <2>1 DEF TurnEnds, Writing
      <3> QED BY <2>1, <3>1, WritersSame DEF TurnEnds, registry
    <2>2. CASE BackgroundEnds(s)
      <3>1. \A t \in Sessions : (child'[t] = "busy" \/ background'[t]) => Writing(t)
        BY <1>0, <2>2 DEF BackgroundEnds, Writing
      <3> QED BY <2>2, <3>1, WritersSame DEF BackgroundEnds, registry
    <2>3. CASE Settled(s)
      BY <2>3, WritersSame DEF Settled, registry, writers, Writing
    <2>4. CASE Drain(s)
      <3>1. /\ lease' = Released(WorkspaceOf(s)) /\ MineActive(s) /\ ~Writing(s)
            /\ \A t \in Sessions : (child'[t] = "busy" \/ background'[t]) => Writing(t)
        BY <1>0, <2>4 DEF Drain, Quiet, IsLive, Writing
      <3> QED BY <1>0, <3>1, ReleaseKeeps
    <2> QED BY <1>4, <1>13, <2>1, <2>2, <2>3, <2>4 DEF Turn
  <1>5. ASSUME NEW s \in Sessions, Escalate(s)
        PROVE  WriterHoldsLease'
    <2>1. \A t \in Sessions : (child'[t] = "busy" \/ background'[t]) => Writing(t)
      BY <1>0, <1>5 DEF Escalate, Writing
    <2>2. CASE UNCHANGED lease
      BY <2>1, <2>2, WritersSame
    <2>3. CASE lease' = Released(WorkspaceOf(s)) /\ ~IsLive(s)
      <3>1. MineActive(s) /\ ~Writing(s)
        BY <1>5, <2>3 DEF Escalate, IsLive, Writing
      <3> QED BY <1>0, <2>1, <2>3, <3>1, ReleaseKeeps
    <2> QED BY <1>5, <2>2, <2>3 DEF Escalate
  <1>6. ASSUME NEW s \in Sessions, OrphanDies(s)
        PROVE  WriterHoldsLease'
    <2>1. \A t \in Sessions : (child'[t] = "busy" \/ background'[t]) => Writing(t)
      BY <1>0, <1>6 DEF OrphanDies, Writing
    <2> QED BY <1>6, <2>1, WritersSame DEF OrphanDies, registry
  <1>7. ASSUME NEW w \in Workspaces, HibernateChecks(w) \/ Hibernation(w)
        PROVE  WriterHoldsLease'
    <2>1. UNCHANGED lease /\ UNCHANGED background
      BY <1>7 DEF HibernateChecks, Hibernation, HibernatePrepares, HibernateCloses,
                  HibernateConfirms, HibernateAborts, HibernateDetaches, registry, writers
    <2>2. \A t \in Sessions : child'[t] = "busy" => child[t] = "busy"
      BY <1>7 DEF HibernateChecks, Hibernation, HibernatePrepares, HibernateCloses,
                  HibernateConfirms, HibernateAborts, HibernateDetaches, writers
    <2> QED BY <2>1, <2>2, WritersSame DEF Writing
  <1>8. ASSUME NEW w \in Workspaces, Reap(w)
        PROVE  WriterHoldsLease'
    <2>1. \A s \in Sessions : WorkspaceOf(s) = w => ~Writing(s)
      BY <1>8 DEF Reap, Reapable, LiveOn, IsLive, Writing
    <2> QED BY <1>8, <2>1, ReleaseKeeps DEF Reap, writers, Writing
  <1>9. ASSUME NEW w \in Workspaces, LeaseAges(w)
        PROVE  WriterHoldsLease'
    <2>1. UNCHANGED <<child, background>>
      BY <1>9 DEF LeaseAges, writers
    <2>2. \A v \in Workspaces : lease'[v].state = lease[v].state
                                /\ lease'[v].session = lease[v].session
      BY <1>0, <1>9 DEF LeaseAges, Lease
    <2> QED BY <1>0, <2>1, <2>2, WritersShrink DEF Writing, Active
  <1>10. ASSUME NEW w \in Workspaces, Vanish(w) \/ Reclaim(w)
         PROVE  WriterHoldsLease'
    BY <1>10, WritersSame DEF Vanish, Reclaim, registry, writers, Writing
  <1>11. CASE Crash
    <2>1. \A t \in Sessions : ~(child'[t] = "busy" \/ background'[t])
      BY <1>11 DEF Crash
    <2> QED BY <2>1, WritersShrink
  <1>12. CASE Start
    <2>1. UNCHANGED <<child, background>>
      BY <1>12 DEF Start, writers
    <2>2. \A v \in Workspaces : Active(v) => /\ lease'[v].state = "uncertain"
                                             /\ lease'[v].session = lease[v].session
      BY <1>0, <1>12 DEF Start, Lease
    <2> QED BY <1>0, <2>1, <2>2, WritersShrink DEF Writing, ActiveStates
  <1>14. CASE UNCHANGED vars
    BY <1>14, WritersSame DEF vars, registry, writers, Writing
  <1> QED
    BY <1>1, <1>3, <1>4, <1>5, <1>6, <1>7, <1>8, <1>9, <1>10, <1>11, <1>12, <1>14
    DEF Next, Relief, Taking, Waiting

\* Only a launch starts a writer.
LEMMA WritersFrom ==
    ASSUME TypeOK, [Next]_vars, NEW s \in Sessions, child'[s] = "busy" \/ background'[s]
    PROVE  Writing(s) \/ Launch(s)
  <1>0. /\ child \in [Sessions -> {"none", "idle", "busy", "orphan"}]
        /\ background \in [Sessions -> BOOLEAN]
    BY DEF TypeOK
  <1>1. ASSUME NEW t \in Sessions, Taking(t) \/ Waiting(t)
        PROVE  Writing(s)
    BY <1>1 DEF Taking, Acquire, Relieved, TakeLease, Waiting, AwaitRelief, ReliefFails,
            writers, Writing
  <1>2. ASSUME NEW t \in Sessions, Delivery(t), ~Launch(t)
        PROVE  Writing(s)
    <2>1. CASE ClaimPersistent(t)
      BY <2>1 DEF ClaimPersistent, Writing
    <2>2. CASE EnsureAwake(t) \/ Thaw(t) \/ Verify(t) \/ TurnBegins(t) \/ Starting(t)
      BY <2>2 DEF EnsureAwake, Thaw, Verify, TurnBegins, Starting, writers, Writing
    <2>3. CASE Reject(t) \/ SpawnFails(t) \/ Return(t)
      BY <2>3 DEF Reject, SpawnFails, Return, writers, Writing
    <2> QED BY <1>2, <2>1, <2>2, <2>3 DEF Delivery
  <1>3. ASSUME NEW t \in Sessions, Launch(t), t # s
        PROVE  Writing(s)
    BY <1>0, <1>3 DEF Launch, Writing
  <1>4. ASSUME NEW t \in Sessions, Turn(t)
        PROVE  Writing(s)
    BY <1>0, <1>4 DEF Turn, Spawned, TurnEnds, BackgroundEnds, Settled, Drain, writers, Writing
  <1>5. ASSUME NEW t \in Sessions, Escalate(t) \/ OrphanDies(t)
        PROVE  Writing(s)
    BY <1>0, <1>5 DEF Escalate, OrphanDies, Writing
  <1>6. ASSUME NEW w \in Workspaces, HibernateChecks(w) \/ Hibernation(w)
        PROVE  Writing(s)
    BY <1>0, <1>6 DEF HibernateChecks, Hibernation, HibernatePrepares, HibernateCloses,
            HibernateConfirms, HibernateAborts, HibernateDetaches, writers, Writing
  <1>7. ASSUME NEW w \in Workspaces, Reap(w) \/ LeaseAges(w) \/ Vanish(w) \/ Reclaim(w)
        PROVE  Writing(s)
    BY <1>7 DEF Reap, LeaseAges, Vanish, Reclaim, writers, Writing
  <1>8. CASE Crash
    BY <1>8 DEF Crash
  <1>9. CASE Start \/ UNCHANGED vars
    BY <1>9 DEF Start, vars, writers, Writing
  <1> QED BY <1>1, <1>2, <1>3, <1>4, <1>5, <1>6, <1>7, <1>8, <1>9
      DEF Next, Relief, Taking, Waiting

\* Where the step of a delivery comes from.
LEMMA StepsFrom ==
    ASSUME TypeOK, [Next]_vars, NEW s \in Sessions
    PROVE  \/ step'[s] = step[s]
           \/ Waiting(s) /\ {step[s], step'[s]} = {"idle", "relief"}
           \/ Taking(s) /\ step'[s] = "claim"
           \/ Delivery(s) /\ (step[s] \in Launching \/ step'[s] = "idle")
           \/ Crash /\ step'[s] = "idle"
  <1>0. step \in [Sessions -> Steps]
    BY DEF TypeOK
  <1> DEFINE Good == \/ step'[s] = step[s]
                     \/ Waiting(s) /\ {step[s], step'[s]} = {"idle", "relief"}
                     \/ Taking(s) /\ step'[s] = "claim"
                     \/ Delivery(s) /\ (step[s] \in Launching \/ step'[s] = "idle")
                     \/ Crash /\ step'[s] = "idle"
  <1>1. ASSUME NEW t \in Sessions, Taking(t)
        PROVE  Good
    BY <1>0, <1>1, TakingFacts
  <1>2. ASSUME NEW t \in Sessions, Waiting(t)
        PROVE  Good
    BY <1>0, <1>2 DEF Waiting, AwaitRelief, ReliefFails, Enters
  <1>3. ASSUME NEW t \in Sessions, Delivery(t), t # s
        PROVE  step'[s] = step[s]
    BY <1>0, <1>3 DEF Delivery, ClaimPersistent, EnsureAwake, Thaw, Verify, TurnBegins,
            Starting, Launch, Reject, SpawnFails, Return, GiveUp
  <1>4. ASSUME Delivery(s)
        PROVE  step[s] \in Launching \/ step'[s] = "idle"
    BY <1>0, <1>4 DEF Delivery, ClaimPersistent, EnsureAwake, Thaw, Verify, TurnBegins,
            Starting, Launch, Reject, SpawnFails, Return, Launching
  <1>5. ASSUME NEW t \in Sessions, Turn(t) \/ Escalate(t) \/ OrphanDies(t)
        PROVE  step'[s] = step[s]
    BY <1>5 DEF Turn, Spawned, TurnEnds, BackgroundEnds, Settled, Drain, Escalate, OrphanDies
  <1>6. ASSUME NEW w \in Workspaces, HibernateChecks(w) \/ Hibernation(w)
        PROVE  step'[s] = step[s]
    BY <1>6 DEF HibernateChecks, Hibernation, HibernatePrepares, HibernateCloses,
            HibernateConfirms, HibernateAborts, HibernateDetaches
  <1>7. ASSUME NEW w \in Workspaces, Reap(w) \/ LeaseAges(w) \/ Vanish(w) \/ Reclaim(w)
        PROVE  step'[s] = step[s]
    BY <1>7 DEF Reap, LeaseAges, Vanish, Reclaim
  <1>8. CASE Crash
    BY <1>8 DEF Crash
  <1>9. CASE Start \/ UNCHANGED vars
    BY <1>9 DEF Start, vars
  <1> QED BY <1>1, <1>2, <1>3, <1>4, <1>5, <1>6, <1>7, <1>8, <1>9
          DEF Next, Relief, Taking, Waiting

LEMMA LaunchingSilentStep ==
    ASSUME WriterInv, [Next]_vars
    PROVE  LaunchingSilent'
  <1> SUFFICES ASSUME NEW s \in Sessions, step'[s] \in Launching,
                      child'[s] = "busy" \/ background'[s]
               PROVE  FALSE
    BY DEF LaunchingSilent, Writing
  <1>1. TypeOK
    BY DEF WriterInv
  <1>2. CASE Launch(s)
    BY <1>1, <1>2 DEF Launch, Launching, TypeOK
  <1>3. CASE Writing(s)
    <2>1. step[s] \notin Launching
      BY <1>3 DEF WriterInv, LaunchingSilent
    <2>2. Taking(s)
      BY <1>1, <2>1, StepsFrom DEF Launching
    <2>3. ~Active(WorkspaceOf(s))
      BY <1>1, <2>2, TakingFacts
    <2> QED BY <1>3, <2>3, LoneWriter
  <1> QED BY <1>1, <1>2, <1>3, WritersFrom

-------------------------------------------------------------------------------
(* Checkouts stay under their leases.                                      *)

\* Only an acquisition makes a lease active or changes its holder.
LEMMA LeasesFrom ==
    ASSUME TypeOK, [Next]_vars, NEW w \in Workspaces,
           \A s \in Sessions : Taking(s) => WorkspaceOf(s) # w,
           lease'[w].state \in ActiveStates
    PROVE  /\ Active(w) /\ lease'[w].session = lease[w].session /\ lease'[w].gen = lease[w].gen
           /\ lease'[w].materializing => lease[w].materializing
           /\ lease[w].materializing => lease'[w].materializing \/ Booked(w)'
  <1>0. /\ lease \in [Workspaces -> Lease]
        /\ \A s \in Sessions : WorkspaceOf(s) \in Workspaces
        /\ Active(w) <=> lease[w].state \in ActiveStates
        /\ "released" \notin ActiveStates
        /\ {"reserved", "running", "uncertain"} \subseteq ActiveStates /\ TypeOK
    BY WorkspaceAssumption DEF TypeOK, Active, ActiveStates
  <1> DEFINE Kept == /\ Active(w) /\ lease'[w].session = lease[w].session
                     /\ lease'[w].gen = lease[w].gen
                     /\ lease'[w].materializing => lease[w].materializing
                     /\ lease[w].materializing => lease'[w].materializing \/ Booked(w)'
  <1>1. CASE lease' = lease
    BY <1>0, <1>1
  <1>2. ASSUME NEW v \in Workspaces, lease' = Released(v)
        PROVE  Kept
    BY <1>0, <1>2, ReleasedFacts
  <1>3. ASSUME NEW s \in Sessions, Taking(s) \/ Waiting(s)
        PROVE  Kept
    <2>1. CASE Taking(s)
      BY <1>0, <2>1, TakingFacts
    <2>2. CASE Waiting(s)
      BY <1>1, <2>2 DEF Waiting, AwaitRelief, ReliefFails, registry
    <2> QED BY <1>3, <2>1, <2>2
  <1>11. ASSUME NEW s \in Sessions,
                Starting(s) \/ Launch(s) \/ Spawned(s) \/ SpawnFails(s) \/ Return(s)
         PROVE  Kept
    <2>1. /\ lease'[WorkspaceOf(s)].session = lease[WorkspaceOf(s)].session
          /\ lease'[WorkspaceOf(s)].gen = lease[WorkspaceOf(s)].gen
          /\ lease'[WorkspaceOf(s)].materializing = lease[WorkspaceOf(s)].materializing
          /\ \A v \in Workspaces \ {WorkspaceOf(s)} : lease'[v] = lease[v]
          /\ lease' = lease \/ MineActive(s)
      BY <1>0, <1>11, HeldLease
    <2>2. CASE MineActive(s)
      BY <1>0, <2>1, <2>2 DEF MineActive, Active
    <2> QED BY <1>1, <2>1, <2>2
  <1>4. ASSUME NEW s \in Sessions, Delivery(s)
        PROVE  Kept
    <2>1. CASE \E retained : GiveUp(s, retained)
      BY <1>0, <1>2, <2>1 DEF GiveUp
    <2>2. CASE Verify(s) /\ ~GiveUp(s, disk[WorkspaceOf(s)])
      <3>1. Active(WorkspaceOf(s)) /\ Booked(WorkspaceOf(s))'
        BY <1>0, <2>2 DEF Verify, MineActive, TypeOK, Booked
      <3> QED BY <1>0, <2>2, <3>1, VerifyLease DEF Active
    <2> QED BY <1>1, <1>4, <1>11, <2>1, <2>2
            DEF Delivery, ClaimPersistent, EnsureAwake, Thaw, Verify, TurnBegins, Reject, registry
  <1>5. ASSUME NEW s \in Sessions, Turn(s) \/ Escalate(s) \/ OrphanDies(s)
        PROVE  Kept
    <2>1. lease' = lease \/ lease' = Released(WorkspaceOf(s)) \/ Spawned(s)
      BY <1>5 DEF Turn, TurnEnds, BackgroundEnds, Settled, Drain, Escalate, OrphanDies, registry
    <2> QED BY <1>0, <1>1, <1>2, <1>11, <2>1
  <1>6. ASSUME NEW v \in Workspaces, HibernateChecks(v) \/ Hibernation(v) \/ Vanish(v)
                                     \/ Reclaim(v)
        PROVE  Kept
    BY <1>1, <1>6 DEF HibernateChecks, Hibernation, HibernatePrepares, HibernateCloses,
            HibernateConfirms, HibernateAborts, HibernateDetaches, Vanish, Reclaim, registry
  <1>7. ASSUME NEW v \in Workspaces, Reap(v)
        PROVE  Kept
    BY <1>2, <1>7 DEF Reap
  <1>8. ASSUME NEW v \in Workspaces, LeaseAges(v)
        PROVE  Kept
    BY <1>0, <1>8 DEF LeaseAges, Lease
  <1>9. CASE Start
    BY <1>0, <1>9 DEF Start, Lease
  <1>10. CASE Crash \/ UNCHANGED vars
    BY <1>1, <1>10 DEF Crash, vars, registry
  <1> QED BY <1>3, <1>4, <1>5, <1>6, <1>7, <1>8, <1>9, <1>10
      DEF Next, Relief, Taking, Waiting

\* The permit of a session is for the lease it took last.
LEMMA PermitsFrom ==
    ASSUME TypeOK, [Next]_vars, NEW s \in Sessions, ~Taking(s)
    PROVE  permitGen'[s] = permitGen[s]
  <1>1. CASE \E t \in Sessions : Taking(t)
    BY <1>1, TakingFacts
  <1>2. CASE \E t \in Sessions : Waiting(t) \/ Delivery(t)
    BY <1>2 DEF Waiting, AwaitRelief, ReliefFails, Delivery, ClaimPersistent, EnsureAwake, Thaw,
            Verify, TurnBegins, Starting, Launch, Reject, SpawnFails, Return, permits
  <1>3. CASE \E t \in Sessions : Turn(t) \/ Escalate(t) \/ OrphanDies(t)
    BY <1>3 DEF Turn, Spawned, TurnEnds, BackgroundEnds, Settled, Drain, Escalate, OrphanDies,
            permits
  <1>4. CASE \E w \in Workspaces : HibernateChecks(w) \/ Hibernation(w) \/ Reap(w)
                                  \/ LeaseAges(w) \/ Vanish(w) \/ Reclaim(w)
    BY <1>4 DEF HibernateChecks, Hibernation, HibernatePrepares, HibernateCloses,
            HibernateConfirms, HibernateAborts, HibernateDetaches, Reap, LeaseAges, Vanish,
            Reclaim, permits
  <1>5. CASE Crash \/ Start \/ UNCHANGED vars
    BY <1>5 DEF Crash, Start, vars, permits
  <1> QED BY <1>1, <1>2, <1>3, <1>4, <1>5 DEF Next, Relief, Taking, Waiting

\* A delivery that has its lease after a step had it before, or took it.
LEMMA MineFrom ==
    ASSUME TypeOK, [Next]_vars, NEW s \in Sessions, MineActive(s)'
    PROVE  MineActive(s) \/ Taking(s)
  <1> DEFINE w == WorkspaceOf(s)
  <1>0. /\ w \in Workspaces
        /\ lease'[w].session = s /\ lease'[w].gen = permitGen'[s]
        /\ lease'[w].state \in ActiveStates
    BY WorkspaceAssumption DEF MineActive, Mine, Active
  <1>1. CASE \E t \in Sessions : Taking(t) /\ WorkspaceOf(t) = w
    <2>1. PICK t \in Sessions : Taking(t) /\ WorkspaceOf(t) = w
      BY <1>1
    <2>2. lease'[w].session = t
      BY <2>1, TakingFacts
    <2> QED BY <1>0, <2>1, <2>2
  <1>2. CASE \A t \in Sessions : Taking(t) => WorkspaceOf(t) # w
    <2>1. Active(w) /\ lease[w].session = s /\ lease[w].gen = permitGen'[s]
      BY <1>0, <1>2, LeasesFrom
    <2>2. permitGen'[s] = permitGen[s]
      BY <1>2, PermitsFrom
    <2> QED BY <2>1, <2>2 DEF MineActive, Mine
  <1> QED BY <1>1, <1>2

\* A checkout goes by a detachment, which a restart may complete, or by hand;
\* neither happens under a lease whose delivery has woken it.
LEMMA DiskKept ==
    ASSUME WriterInv, [Next]_vars, NEW w \in Workspaces, disk[w], Active(w), ~Unwoken(w)
    PROVE  disk'[w]
  <1>0. /\ disk \in [Workspaces -> BOOLEAN]
        /\ \A s \in Sessions : WorkspaceOf(s) \in Workspaces
        /\ TypeOK /\ hibernator[w] # "confirmed"
    BY LoneWriter DEF WriterInv, TypeOK, DetachingClosed
  <1>1. ASSUME NEW s \in Sessions, Delivery(s)
        PROVE  disk'[w]
    <2>1. CASE Thaw(s)
      BY <1>0, <2>1 DEF Thaw
    <2>2. CASE ~Thaw(s)
      BY <1>1, <2>2 DEF Delivery, ClaimPersistent, EnsureAwake, Verify, TurnBegins, Starting,
              Launch, Reject, SpawnFails, Return, checkout
    <2> QED BY <2>1, <2>2
  <1>2. ASSUME NEW v \in Workspaces, HibernateDetaches(v)
        PROVE  disk'[w]
    BY <1>0, <1>2 DEF HibernateDetaches
  <1>3. ASSUME NEW v \in Workspaces, Vanish(v)
        PROVE  disk'[w]
    BY <1>0, <1>3 DEF Vanish
  <1>4. CASE \E s \in Sessions : Taking(s) \/ Waiting(s) \/ Turn(s) \/ Escalate(s) \/ OrphanDies(s)
    BY <1>4 DEF Taking, Acquire, Relieved, TakeLease, Waiting, AwaitRelief, ReliefFails,
            Turn, Spawned, TurnEnds, BackgroundEnds, Settled, Drain, Escalate, OrphanDies, checkout
  <1>5. CASE \E v \in Workspaces : HibernateChecks(v) \/ (Hibernation(v) /\ ~HibernateDetaches(v))
    BY <1>5 DEF HibernateChecks, Hibernation, HibernatePrepares, HibernateCloses,
            HibernateConfirms, HibernateAborts, checkout
  <1>6. CASE \E v \in Workspaces : Reap(v) \/ LeaseAges(v) \/ Reclaim(v)
    BY <1>6 DEF Reap, LeaseAges, Reclaim, checkout
  <1>7. CASE Crash
    <2>1. PICK done \in SUBSET InHand :
            disk' = [v \in Workspaces |-> IF v \in done THEN hibernator[v] # "confirmed"
                                          ELSE disk[v]]
      BY <1>7 DEF Crash
    <2> QED BY <1>0, <2>1
  <1>8. CASE Start \/ UNCHANGED vars
    BY <1>8 DEF Start, vars
  <1> QED BY <1>1, <1>2, <1>3, <1>4, <1>5, <1>6, <1>7, <1>8 DEF Next, Relief, Taking, Waiting

\* The lease a delivery has not woken its checkout under is no writer's, nor that
\* of a delivery that has.
LEMMA WokenLease ==
    ASSUME WriterInv, NEW s \in Sessions,
           Writing(s) \/ (MineActive(s) /\ step[s] \in Awakened)
    PROVE  ~Unwoken(WorkspaceOf(s))
  <1>1. lease[WorkspaceOf(s)].session = s
    BY DEF WriterInv, WriterHoldsLease, MineActive, Mine
  <1>2. step[s] \notin {"claim", "wake"}
    BY DEF WriterInv, LaunchingSilent, Launching, Awakened
  <1> QED BY <1>1, <1>2 DEF Unwoken, Mine

LEMMA CheckoutStep ==
    ASSUME WriterInv, [Next]_vars
    PROVE  AwakenedHasCheckout' /\ WriterHasCheckout'
  <1>0. /\ TypeOK
        /\ \A s \in Sessions : WorkspaceOf(s) \in Workspaces
        /\ \A s \in Sessions : step[s] \in Awakened /\ MineActive(s) => disk[WorkspaceOf(s)]
        /\ \A s \in Sessions : Writing(s) => disk[WorkspaceOf(s)] /\ Active(WorkspaceOf(s))
    BY LoneWriter DEF WriterInv, AwakenedHasCheckout, WriterHasCheckout, WriterHoldsLease
  <1>1. AwakenedHasCheckout'
    <2> SUFFICES ASSUME NEW s \in Sessions, step'[s] \in Awakened, MineActive(s)'
                 PROVE  disk'[WorkspaceOf(s)]
      BY DEF AwakenedHasCheckout
    <2>1. ~Taking(s)
      BY <1>0, TakingFacts DEF Awakened, TypeOK
    <2>2. MineActive(s)
      BY <1>0, <2>1, MineFrom
    <2>3. CASE step[s] \in Awakened
      BY <1>0, <2>2, <2>3, WokenLease, DiskKept DEF MineActive
    <2>4. CASE step[s] \notin Awakened
      <3>1. Delivery(s) /\ step \in [Sessions -> Steps]
        BY <1>0, <2>1, <2>4, StepsFrom DEF Awakened, TypeOK
      <3>2. CASE EnsureAwake(s)
        BY <1>0, <3>1, <3>2 DEF EnsureAwake, Awakened, Awake
      <3>3. CASE Thaw(s)
        <4>1. ~GiveUp(s, disk[WorkspaceOf(s)])
          BY <3>1 DEF GiveUp, Awakened
        <4>2. disk' = [disk EXCEPT ![WorkspaceOf(s)] = TRUE]
          BY <3>3, <4>1 DEF Thaw
        <4> QED BY <1>0, <4>2 DEF TypeOK
      <3>4. CASE ~EnsureAwake(s) /\ ~Thaw(s)
        BY <2>4, <3>1, <3>4 DEF Delivery, ClaimPersistent, Verify, TurnBegins, Starting, Launch,
                Reject, SpawnFails, Return, GiveUp, Awakened
      <3> QED BY <3>2, <3>3, <3>4
    <2> QED BY <2>3, <2>4
  <1>2. WriterHasCheckout'
    <2> SUFFICES ASSUME NEW s \in Sessions, child'[s] = "busy" \/ background'[s]
                 PROVE  disk'[WorkspaceOf(s)]
      BY DEF WriterHasCheckout, Writing
    <2>1. CASE Writing(s)
      BY <1>0, <2>1, WokenLease, DiskKept
    <2>2. CASE Launch(s)
      BY <1>0, <2>2 DEF Launch, Awakened, checkout
    <2> QED BY <1>0, <2>1, <2>2, WritersFrom
  <1> QED BY <1>1, <1>2

\* A hibernation that has closed the checkout keeps it closed.
LEMMA DetachingStep ==
    ASSUME WriterInv, [Next]_vars
    PROVE  DetachingClosed' /\ ThawAlone' /\ DownQuiet'
  <1>0. /\ TypeOK
        /\ \A s \in Sessions : WorkspaceOf(s) \in Workspaces
        /\ hibernator \in [Workspaces -> Keepers]
        /\ state \in [Workspaces -> {"awake", "hibernating", "thawing", "hibernated"}]
        /\ up \in BOOLEAN
        /\ \A w \in Workspaces : hibernator[w] \in Detaching => state[w] = "hibernating"
        /\ \A w \in Workspaces : hibernator[w] = "confirmed" /\ Active(w) => Unwoken(w)
        /\ \A s \in Sessions : step[s] = "thaw" => hibernator[WorkspaceOf(s)] = "none"
        /\ ~up => \A w \in Workspaces : hibernator[w] = "none"
    BY LoneWriter DEF WriterInv, TypeOK, DetachingClosed, ThawAlone, DownQuiet
  <1> DEFINE Good ==
        /\ \A w \in Workspaces : hibernator'[w] \in Detaching => state'[w] = "hibernating"
        /\ \A w \in Workspaces : hibernator'[w] = "confirmed" =>
              hibernator[w] = "confirmed" \/ (~Active(w) /\ UNCHANGED lease)
        /\ ~up' => \A w \in Workspaces : hibernator'[w] = "none"
  <1>1. ASSUME NEW s \in Sessions, EnsureAwake(s) \/ Thaw(s)
        PROVE  Good
    <2>1. hibernator[WorkspaceOf(s)] = "none" /\ UNCHANGED <<hibernator, up>>
      BY <1>0, <1>1 DEF EnsureAwake, Thaw, KeyFree, world
    <2>2. \A w \in Workspaces \ {WorkspaceOf(s)} : state'[w] = state[w]
      BY <1>0, <1>1 DEF EnsureAwake, Thaw
    <2> QED BY <1>0, <2>1, <2>2 DEF Detaching
  <1>2. ASSUME NEW w \in Workspaces, HibernateChecks(w) \/ Hibernation(w)
        PROVE  Good
    <2>1. up' = up /\ up
      BY <1>0, <1>2 DEF HibernateChecks, Hibernation, HibernatePrepares, HibernateCloses,
              HibernateConfirms, HibernateAborts, HibernateDetaches, world
    <2>2. CASE HibernateChecks(w)
      BY <1>0, <2>1, <2>2 DEF HibernateChecks, At, Detaching, checkout
    <2>3. CASE HibernatePrepares(w)
      BY <1>0, <2>1, <2>3 DEF HibernatePrepares, At, Detaching
    <2>4. CASE HibernateCloses(w)
      BY <1>0, <2>1, <2>4 DEF HibernateCloses, At, Detaching, checkout
    <2>5. CASE HibernateConfirms(w)
      BY <1>0, <2>1, <2>5 DEF HibernateConfirms, At, Detaching, checkout, registry
    <2>6. CASE HibernateAborts(w) \/ HibernateDetaches(w)
      BY <1>0, <2>1, <2>6 DEF HibernateAborts, HibernateDetaches, At, Detaching
    <2> QED BY <1>2, <2>2, <2>3, <2>4, <2>5, <2>6 DEF Hibernation
  <1>3. ASSUME Crash PROVE Good
    BY <1>0, <1>3 DEF Crash, Detaching
  <1>4. ASSUME Start PROVE Good
    BY <1>0, <1>4 DEF Start, Detaching
  <1>5. ASSUME UNCHANGED <<hibernator, state, up>> PROVE Good
    BY <1>0, <1>5
  <1>6. ASSUME NEW s \in Sessions,
               Taking(s) \/ Waiting(s) \/ Turn(s) \/ Escalate(s) \/ OrphanDies(s)
                 \/ (Delivery(s) /\ ~EnsureAwake(s) /\ ~Thaw(s))
        PROVE  UNCHANGED <<hibernator, state, up>>
    BY <1>6 DEF Taking, Acquire, Relieved, TakeLease, Waiting, AwaitRelief, ReliefFails,
            Turn, Spawned, TurnEnds, BackgroundEnds, Settled, Drain, Escalate, OrphanDies,
            Delivery, ClaimPersistent, Verify, TurnBegins, Starting, Launch, Reject, SpawnFails,
            Return, checkout, world
  <1>7. ASSUME NEW w \in Workspaces, Reap(w) \/ LeaseAges(w) \/ Vanish(w) \/ Reclaim(w)
        PROVE  UNCHANGED <<hibernator, state, up>>
    BY <1>7 DEF Reap, LeaseAges, Vanish, Reclaim, checkout, world
  <1>8. Good
    BY <1>1, <1>2, <1>3, <1>4, <1>5, <1>6, <1>7 DEF Next, Relief, Taking, Waiting, vars
  <1>9. ASSUME NEW w \in Workspaces, hibernator'[w] = "confirmed", Active(w)'
        PROVE  Unwoken(w)'
    <2>1. lease'[w].state \in ActiveStates
      BY <1>9 DEF Active
    <2>2. CASE \E s \in Sessions : Taking(s) /\ WorkspaceOf(s) = w
      <3>1. PICK s \in Sessions : Taking(s) /\ WorkspaceOf(s) = w
        BY <2>2
      <3>2. lease'[w].session = s /\ lease'[w].gen = permitGen'[s] /\ step'[s] = "claim"
        BY <1>0, <3>1, TakingFacts DEF TypeOK
      <3> QED BY <3>1, <3>2 DEF Unwoken, Mine
    <2>3. CASE \A s \in Sessions : Taking(s) => WorkspaceOf(s) # w
      <3>1. /\ Active(w)
            /\ lease'[w].session = lease[w].session /\ lease'[w].gen = lease[w].gen
        BY <1>0, <2>1, <2>3, LeasesFrom
      <3>2. hibernator[w] = "confirmed" /\ Unwoken(w)
        BY <1>0, <1>8, <1>9, <3>1
      <3>3. PICK s \in Sessions : WorkspaceOf(s) = w /\ Mine(s) /\ step[s] \in {"claim", "wake"}
        BY <3>2 DEF Unwoken
      <3>4. permitGen'[s] = permitGen[s]
        BY <1>0, <2>3, <3>3, PermitsFrom
      <3>5. step'[s] \in {"claim", "wake"}
        <4>1. CASE Delivery(s) /\ ~UNCHANGED lease
          <5>1. lease' = Released(w)
            BY <1>0, <3>2, <3>3, <4>1 DEF Delivery, ClaimPersistent, EnsureAwake, Thaw, Verify,
                    TurnBegins, Starting, Launch, Reject, SpawnFails, Return, GiveUp, KeyFree, registry
          <5> QED BY <1>0, <2>1, <5>1, ReleasedFacts DEF TypeOK, ActiveStates
        <4>2. CASE Delivery(s) /\ UNCHANGED lease
          <5>1. ~EnsureAwake(s)
            BY <3>2, <3>3 DEF EnsureAwake, KeyFree
          <5>2. ClaimPersistent(s)
            BY <3>3, <4>2, <5>1 DEF Delivery, Thaw, Verify, TurnBegins, Starting, Launch, Reject,
                    SpawnFails, Return
          <5>3. ~GiveUp(s, FALSE)
            <6>1. lease[w].state # "released"
              BY <3>1 DEF Active, ActiveStates
            <6> QED BY <1>0, <3>3, <4>2, <6>1, ReleasedFacts DEF GiveUp, TypeOK
          <5>4. step' = [step EXCEPT ![s] = "wake"]
            BY <5>2, <5>3 DEF ClaimPersistent
          <5> QED BY <1>0, <5>4 DEF TypeOK
        <4>3. ~Crash
          BY <1>0, <1>9 DEF Crash
        <4> QED BY <1>0, <2>3, <3>3, <4>1, <4>2, <4>3, StepsFrom
      <3> QED BY <3>1, <3>3, <3>4, <3>5 DEF Unwoken, Mine
    <2> QED BY <2>2, <2>3
  <1>10. ASSUME NEW s \in Sessions, step'[s] = "thaw"
         PROVE  hibernator'[WorkspaceOf(s)] = "none"
    <2> DEFINE w == WorkspaceOf(s)
    <2>1. CASE step[s] = "thaw"
      <3>1. hibernator[w] = "none"
        BY <1>0, <2>1
      <3>2. ~HibernateChecks(w) /\ ~Hibernation(w)
        BY <1>0, <2>1, <3>1 DEF HibernateChecks, KeyFree, Hibernation, HibernatePrepares,
                HibernateCloses, HibernateConfirms, HibernateAborts, HibernateDetaches
      <3>3. ASSUME NEW v \in Workspaces, HibernateChecks(v) \/ Hibernation(v), v # w
            PROVE  hibernator'[w] = hibernator[w]
        BY <1>0, <3>3 DEF HibernateChecks, Hibernation, HibernatePrepares,
                HibernateCloses, HibernateConfirms, HibernateAborts, HibernateDetaches, At
      <3>4. CASE ~\E v \in Workspaces : HibernateChecks(v) \/ Hibernation(v)
        <4>1. CASE Crash
          BY <1>0, <4>1 DEF Crash
        <4>2. CASE Start \/ UNCHANGED vars
          BY <3>1, <4>2 DEF Start, vars
        <4>3. CASE \E t \in Sessions : EnsureAwake(t) \/ Thaw(t)
          BY <3>1, <4>3 DEF EnsureAwake, Thaw
        <4> QED BY <3>1, <3>4, <4>1, <4>2, <4>3, <1>6, <1>7 DEF Next, Relief, Taking, Waiting
      <3> QED BY <1>0, <3>1, <3>2, <3>3, <3>4
    <2>2. CASE step[s] # "thaw"
      <3>1. Delivery(s) /\ step \in [Sessions -> Steps]
        BY <1>0, <1>10, <2>2, StepsFrom DEF TypeOK
      <3>2. EnsureAwake(s)
        BY <1>10, <2>2, <3>1 DEF Delivery, ClaimPersistent, Thaw, Verify, TurnBegins, Starting,
                Launch, Reject, SpawnFails, Return, GiveUp
      <3> QED BY <3>2 DEF EnsureAwake, KeyFree
    <2> QED BY <2>1, <2>2
  <1> QED BY <1>8, <1>9, <1>10 DEF DetachingClosed, ThawAlone, DownQuiet

LEMMA WriterInvStep ==
    ASSUME WriterInv, [Next]_vars
    PROVE  WriterInv'
  BY TypeStep, WriterStep, LaunchingSilentStep, CheckoutStep, DetachingStep DEF WriterInv

-------------------------------------------------------------------------------
(* The budget of checkouts.                                                *)

LEMMA SpentIs ==
    /\ IsFiniteSet(OnBooks) /\ IsFiniteSet(Restoring) /\ IsFiniteSet(Leased)
    /\ Cardinality(OnBooks) \in Nat /\ Cardinality(Restoring) \in Nat
    /\ Cardinality(Leased) \in Nat
  <1>1. /\ OnBooks \in SUBSET Workspaces /\ Restoring \in SUBSET Workspaces
        /\ Leased \in SUBSET Workspaces
    BY DEF OnBooks, Restoring, Leased
  <1>2. IsFiniteSet(OnBooks) /\ IsFiniteSet(Restoring) /\ IsFiniteSet(Leased)
    BY <1>1, WorkspaceAssumption, FS_Subset
  <1> QED BY <1>2, FS_CardinalityType

\* A finite set that loses members, or gains one at most.
LEMMA Fewer ==
    ASSUME NEW S, NEW T, IsFiniteSet(S), T \subseteq S
    PROVE  IsFiniteSet(T) /\ Cardinality(T) \in Nat /\ Cardinality(T) <= Cardinality(S)
  BY FS_Subset, FS_CardinalityType

LEMMA OneMore ==
    ASSUME NEW S, NEW T, NEW w, IsFiniteSet(S), T \subseteq S \cup {w}
    PROVE  IsFiniteSet(T) /\ Cardinality(T) \in Nat /\ Cardinality(T) <= Cardinality(S) + 1
  <1>1. /\ IsFiniteSet(S \cup {w})
        /\ \/ Cardinality(S \cup {w}) = Cardinality(S)
           \/ Cardinality(S \cup {w}) = Cardinality(S) + 1
    BY FS_AddElement
  <1>2. Cardinality(S) \in Nat
    BY FS_CardinalityType
  <1>3. IsFiniteSet(T) /\ Cardinality(T) \in Nat /\ Cardinality(T) <= Cardinality(S \cup {w})
    BY <1>1, Fewer
  <1> QED BY <1>1, <1>2, <1>3

LEMMA OneFewer ==
    ASSUME NEW S, NEW T, NEW w \in S, IsFiniteSet(S), T \subseteq S \ {w}
    PROVE  IsFiniteSet(T) /\ Cardinality(T) \in Nat /\ Cardinality(T) <= Cardinality(S) - 1
  <1>1. IsFiniteSet(S \ {w}) /\ Cardinality(S \ {w}) = Cardinality(S) - 1
    BY FS_RemoveElement
  <1>2. IsFiniteSet(T) /\ Cardinality(T) \in Nat /\ Cardinality(T) <= Cardinality(S \ {w})
    BY <1>1, Fewer
  <1> QED BY <1>1, <1>2

\* Nothing new on the books, nothing new to be restored, no new lease.
LEMMA ShrinkKeeps ==
    ASSUME BudgetHeld, OnBooks' \subseteq OnBooks, Restoring' \subseteq Restoring,
           Leased' \subseteq Leased
    PROVE  BudgetHeld'
  <1>1. /\ Cardinality(OnBooks') \in Nat /\ Cardinality(OnBooks') <= Cardinality(OnBooks)
        /\ Cardinality(Restoring') \in Nat /\ Cardinality(Restoring') <= Cardinality(Restoring)
        /\ Cardinality(Leased') \in Nat /\ Cardinality(Leased') <= Cardinality(Leased)
    BY SpentIs, Fewer
  <1>2. Spent' = Cardinality(OnBooks') + Cardinality(Restoring')
    BY DEF Spent
  <1> QED BY <1>1, <1>2, SpentIs, WorkspaceAssumption DEF BudgetHeld, Spent

\* A checkout to come has come, or is kept on the books by a delivery that failed.
LEMMA ComeKeeps ==
    ASSUME BudgetHeld, NEW w \in Restoring, OnBooks' \subseteq OnBooks \cup {w},
           Restoring' \subseteq Restoring \ {w}, Leased' \subseteq Leased
    PROVE  BudgetHeld'
  <1>1. Cardinality(OnBooks') \in Nat /\ Cardinality(OnBooks') <= Cardinality(OnBooks) + 1
    BY SpentIs, OneMore
  <1>2. Cardinality(Restoring') \in Nat /\ Cardinality(Restoring') <= Cardinality(Restoring) - 1
    BY SpentIs, OneFewer
  <1>3. Cardinality(Leased') \in Nat /\ Cardinality(Leased') <= Cardinality(Leased)
    BY SpentIs, Fewer
  <1>4. Spent' = Cardinality(OnBooks') + Cardinality(Restoring')
    BY DEF Spent
  <1> QED BY <1>1, <1>2, <1>3, <1>4, SpentIs, WorkspaceAssumption DEF BudgetHeld, Spent

\* A lease is granted while there is room for it, and for the checkout it needs.
LEMMA RoomKeeps ==
    ASSUME BudgetHeld, NEW w, Cardinality(Leased) < ExecutionLimit,
           OnBooks' \subseteq OnBooks, Leased' \subseteq Leased \cup {w},
           \/ Restoring' \subseteq Restoring
           \/ /\ Restoring' \subseteq Restoring \cup {w}
              /\ Spent < ResidentLimit /\ Cardinality(Restoring) < RestoreLimit
    PROVE  BudgetHeld'
  <1>1. Cardinality(OnBooks') \in Nat /\ Cardinality(OnBooks') <= Cardinality(OnBooks)
    BY SpentIs, Fewer
  <1>2. Cardinality(Leased') \in Nat /\ Cardinality(Leased') <= Cardinality(Leased) + 1
    BY SpentIs, OneMore
  <1>3. Spent' = Cardinality(OnBooks') + Cardinality(Restoring')
    BY DEF Spent
  <1>4. CASE Restoring' \subseteq Restoring
    <2>1. Cardinality(Restoring') \in Nat /\ Cardinality(Restoring') <= Cardinality(Restoring)
      BY <1>4, SpentIs, Fewer
    <2> QED BY <1>1, <1>2, <1>3, <2>1, SpentIs, WorkspaceAssumption DEF BudgetHeld, Spent
  <1>5. CASE /\ Restoring' \subseteq Restoring \cup {w}
             /\ Spent < ResidentLimit /\ Cardinality(Restoring) < RestoreLimit
    <2>1. Cardinality(Restoring') \in Nat /\ Cardinality(Restoring') <= Cardinality(Restoring) + 1
      BY <1>5, SpentIs, OneMore
    <2> QED BY <1>1, <1>2, <1>3, <1>5, <2>1, SpentIs, WorkspaceAssumption DEF BudgetHeld, Spent
  <1> QED BY <1>4, <1>5

\* A checkout comes on the books with the lease that asked for it, in the step
\* that ends its wait.
LEMMA ResidentFrom ==
    ASSUME TypeOK, [Next]_vars, NEW w \in Workspaces, Booked(w)'
    PROVE  \/ Booked(w)
           \/ /\ Active(w) /\ ~(lease'[w].state \in ActiveStates /\ lease'[w].materializing)
              /\ \A v \in Workspaces \ {w} : Booked(v)' = Booked(v)
              /\ \A s \in Sessions : ~Taking(s)
  <1>0. /\ residency \in [Workspaces -> Residencies] /\ lease \in [Workspaces -> Lease]
        /\ \A s \in Sessions : WorkspaceOf(s) \in Workspaces
        /\ "released" \notin ActiveStates /\ TypeOK
    BY WorkspaceAssumption DEF TypeOK, ActiveStates
  <1> DEFINE Good ==
        \/ Booked(w)
        \/ /\ Active(w) /\ ~(lease'[w].state \in ActiveStates /\ lease'[w].materializing)
           /\ \A v \in Workspaces \ {w} : Booked(v)' = Booked(v)
  <1>1. ASSUME NEW s \in Sessions, Delivery(s)
        PROVE  Good
    <2>1. ASSUME NEW retained, GiveUp(s, retained), MineActive(s)
          PROVE  Good
      <3>1. lease'[WorkspaceOf(s)].state \notin ActiveStates
        BY <1>0, <2>1, ReleasedFacts DEF GiveUp
      <3> QED BY <1>0, <2>1, <3>1 DEF GiveUp, MineActive, Booked
    <2>2. CASE ClaimPersistent(s)
      BY <2>1, <2>2 DEF ClaimPersistent, registry, Booked
    <2>3. CASE Thaw(s)
      BY <2>1, <2>3 DEF Thaw, registry, Booked
    <2>4. CASE Verify(s)
      <3>1. CASE GiveUp(s, disk[WorkspaceOf(s)])
        BY <2>1, <2>4, <3>1 DEF Verify
      <3>2. CASE ~GiveUp(s, disk[WorkspaceOf(s)])
        <4>1. ~lease'[WorkspaceOf(s)].materializing
          BY <1>0, <2>4, <3>2, VerifyLease
        <4> QED BY <1>0, <2>4, <3>2, <4>1 DEF Verify, MineActive, Booked
      <3> QED BY <3>1, <3>2
    <2>5. CASE Reject(s)
      BY <2>1, <2>5 DEF Reject
    <2>6. CASE \/ EnsureAwake(s) \/ TurnBegins(s) \/ Starting(s) \/ Launch(s)
               \/ SpawnFails(s) \/ Return(s)
      BY <2>6 DEF EnsureAwake, TurnBegins, Starting, Launch, SpawnFails, Return, registry, Booked
    <2> QED BY <1>1, <2>2, <2>3, <2>4, <2>5, <2>6 DEF Delivery
  <1>2. CASE \E s \in Sessions : Turn(s) \/ Escalate(s) \/ OrphanDies(s)
    BY <1>0, <1>2 DEF Turn, Spawned, TurnEnds, BackgroundEnds, Settled, Drain, Escalate,
            OrphanDies, registry, Booked
  <1>3. CASE \E v \in Workspaces : HibernateChecks(v) \/ Hibernation(v)
    BY <1>0, <1>3 DEF HibernateChecks, Hibernation, HibernatePrepares, HibernateCloses,
            HibernateConfirms, HibernateAborts, HibernateDetaches, registry, Booked
  <1>4. CASE \E v \in Workspaces : Reap(v) \/ LeaseAges(v) \/ Vanish(v) \/ Reclaim(v)
    BY <1>0, <1>4 DEF Reap, LeaseAges, Vanish, Reclaim, registry, Booked
  <1>5. CASE Crash \/ Start \/ UNCHANGED vars
    BY <1>5 DEF Crash, Start, vars, registry, Booked
  <1>6. CASE \E s \in Sessions : Taking(s) \/ Waiting(s)
    BY <1>0, <1>6, TakingFacts DEF Waiting, AwaitRelief, ReliefFails, registry, Booked
  <1>7. Booked(w) \/ \A s \in Sessions : ~Taking(s)
    BY <1>0, TakingFacts DEF Booked
  <1> QED BY <1>1, <1>2, <1>3, <1>4, <1>5, <1>6, <1>7 DEF Next, Relief, Taking, Waiting

\* A resident checkout under lease stays on the books.
LEMMA ResidentKept ==
    ASSUME TypeOK, [Next]_vars, NEW w \in Workspaces, Booked(w), Active(w)
    PROVE  Booked(w)'
  <1>0. /\ residency \in [Workspaces -> Residencies]
        /\ \A s \in Sessions : WorkspaceOf(s) \in Workspaces
    BY WorkspaceAssumption DEF TypeOK
  <1>1. ASSUME NEW s \in Sessions, Delivery(s)
        PROVE  Booked(w)'
    <2>1. UNCHANGED residency \/ \E r \in {"retained", "resident"} :
             residency' = [residency EXCEPT ![WorkspaceOf(s)] = r]
      <3>1. ASSUME NEW retained \in BOOLEAN, GiveUp(s, retained)
            PROVE  UNCHANGED residency
                     \/ residency' = [residency EXCEPT ![WorkspaceOf(s)] = "retained"]
        BY <1>0, <3>1 DEF GiveUp
      <3>2. disk[WorkspaceOf(s)] \in BOOLEAN
        BY <1>0 DEF TypeOK
      <3> QED BY <1>1, <3>1, <3>2 DEF Delivery, ClaimPersistent, EnsureAwake, Thaw, Verify,
                  TurnBegins, Starting, Launch, Reject, SpawnFails, Return, registry
    <2> QED BY <1>0, <2>1 DEF Booked
  <1>2. ASSUME NEW v \in Workspaces, HibernateDetaches(v)
        PROVE  Booked(w)'
    BY <1>0, <1>2 DEF HibernateDetaches, Booked
  <1>3. ASSUME NEW v \in Workspaces, Reclaim(v)
        PROVE  Booked(w)'
    BY <1>0, <1>3 DEF Reclaim, Booked
  <1>4. CASE \E s \in Sessions : Taking(s) \/ Waiting(s) \/ Turn(s) \/ Escalate(s) \/ OrphanDies(s)
    BY <1>4 DEF Taking, Acquire, Relieved, TakeLease, Waiting, AwaitRelief, ReliefFails,
            Turn, Spawned, TurnEnds, BackgroundEnds, Settled, Drain, Escalate, OrphanDies,
            registry, Booked
  <1>5. CASE \E v \in Workspaces : HibernateChecks(v) \/ (Hibernation(v) /\ ~HibernateDetaches(v))
                                  \/ Reap(v) \/ LeaseAges(v) \/ Vanish(v)
    BY <1>5 DEF HibernateChecks, Hibernation, HibernatePrepares, HibernateCloses,
            HibernateConfirms, HibernateAborts, Reap, LeaseAges, Vanish, registry, Booked
  <1>6. CASE Crash \/ Start \/ UNCHANGED vars
    BY <1>6 DEF Crash, Start, vars, registry, Booked
  <1> QED BY <1>1, <1>2, <1>3, <1>4, <1>5, <1>6 DEF Next, Relief, Taking, Waiting

LEMMA BooksStep ==
    ASSUME TypeOK, BooksInv, [Next]_vars
    PROVE  BooksInv'
  <1>0. /\ \A w \in Workspaces : Active(w) => Booked(w) \/ lease[w].materializing
        /\ BudgetHeld
        /\ lease \in [Workspaces -> Lease] /\ residency \in [Workspaces -> Residencies]
        /\ \A s \in Sessions : WorkspaceOf(s) \in Workspaces
    BY WorkspaceAssumption DEF BooksInv, LeaseCounted, TypeOK
  <1>1. ASSUME NEW s \in Sessions, Taking(s)
        PROVE  BooksInv'
    <2> DEFINE w == WorkspaceOf(s)
    <2>1. /\ \A v \in Workspaces \ {w} : lease'[v] = lease[v]
          /\ lease'[w].materializing = (residency[w] # "resident")
          /\ UNCHANGED residency
          /\ Available(w)
      BY <1>1, TakingFacts
    <2>2. LeaseCounted'
      BY <1>0, <2>1 DEF LeaseCounted, Active, Booked
    <2>3. /\ OnBooks' \subseteq OnBooks /\ Leased' \subseteq Leased \cup {w}
          /\ Restoring' \subseteq Restoring \cup {w}
          /\ residency[w] = "resident" => Restoring' \subseteq Restoring
      BY <1>0, <2>1 DEF OnBooks, Leased, Restoring, Active
    <2>4. /\ Cardinality(Leased) < ExecutionLimit
          /\ residency[w] # "resident" => /\ Spent < ResidentLimit
                                          /\ Cardinality(Restoring) < RestoreLimit
      BY <2>1 DEF Available, Admissible
    <2> HIDE DEF w
    <2>5. BudgetHeld'
      BY <1>0, <2>3, <2>4, RoomKeeps
    <2> QED BY <2>2, <2>5 DEF BooksInv
  <1>2. CASE \A s \in Sessions : ~Taking(s)
    <2>1. \A w \in Workspaces : lease'[w].state \in ActiveStates =>
             /\ Active(w)
             /\ lease'[w].materializing => lease[w].materializing
             /\ lease[w].materializing => lease'[w].materializing \/ Booked(w)'
      BY <1>2, LeasesFrom
    <2>2. LeaseCounted'
      BY <1>0, <2>1, ResidentKept DEF LeaseCounted, Active
    <2>3. Restoring' \subseteq Restoring /\ Leased' \subseteq Leased
      BY <2>1 DEF Restoring, Leased, Active
    <2>4. CASE OnBooks' \subseteq OnBooks
      BY <1>0, <2>2, <2>3, <2>4, ShrinkKeeps DEF BooksInv
    <2>5. CASE ~(OnBooks' \subseteq OnBooks)
      <3>1. PICK w \in Workspaces : Booked(w)' /\ ~Booked(w)
        BY <2>5 DEF OnBooks, Booked
      <3>2. /\ Active(w) /\ ~(lease'[w].state \in ActiveStates /\ lease'[w].materializing)
            /\ \A v \in Workspaces \ {w} : Booked(v)' = Booked(v)
        BY <3>1, ResidentFrom
      <3>3. w \in Restoring
        BY <1>0, <3>1, <3>2 DEF Restoring
      <3>4. OnBooks' \subseteq OnBooks \cup {w}
        BY <3>2 DEF OnBooks, Booked
      <3>5. Restoring' \subseteq Restoring \ {w}
        BY <2>3, <3>2 DEF Restoring, Active
      <3> QED BY <1>0, <2>2, <2>3, <3>3, <3>4, <3>5, ComeKeeps DEF BooksInv
    <2> QED BY <2>4, <2>5
  <1> QED BY <1>1, <1>2

-------------------------------------------------------------------------------
(* The theorems.                                                           *)

LEMMA InitHolds == ASSUME Init PROVE WorkspaceInv
  <1>1. TypeOK
    <2>1. NoLease \in Lease
      BY DEF NoLease, Lease
    <2>2. lease \in [Workspaces -> Lease]
      BY <2>1 DEF Init
    <2>3. /\ residency \in [Workspaces -> Residencies] /\ disk \in [Workspaces -> BOOLEAN]
          /\ busy \in [Sessions -> BOOLEAN] /\ background \in [Sessions -> BOOLEAN]
      BY Zenon DEF Init
    <2> QED BY <2>2, <2>3 DEF Init, TypeOK, Steps, Keepers, Residencies
  <1>2. /\ \A w \in Workspaces : ~Active(w)
        /\ \A s \in Sessions : ~Writing(s)
        /\ \A s \in Sessions : WorkspaceOf(s) \in Workspaces
    BY WorkspaceAssumption DEF Init, NoLease, Active, ActiveStates, Writing
  <1>3. WriterInv
    BY <1>1, <1>2 DEF Init, WriterInv, WriterHoldsLease, LaunchingSilent, AwakenedHasCheckout,
            WriterHasCheckout, DetachingClosed, ThawAlone, DownQuiet, Awakened, Detaching
  <1>4. BudgetHeld
    <2>1. Restoring = {} /\ Leased = {}
      BY <1>2 DEF Restoring, Leased
    <2>2. Cardinality(Restoring) = 0 /\ Cardinality(Leased) = 0
      BY <2>1, FS_EmptySet
    <2>3. Cardinality(OnBooks) <= ResidentLimit
      BY DEF Init
    <2> QED BY <2>2, <2>3, SpentIs, WorkspaceAssumption DEF BudgetHeld, Spent
  <1> QED BY <1>2, <1>3, <1>4 DEF WorkspaceInv, BooksInv, LeaseCounted

LEMMA InvHolds == Spec => []WorkspaceInv
  <1>1. WorkspaceInv /\ [Next]_vars => WorkspaceInv'
    BY WriterInvStep, BooksStep DEF WorkspaceInv, WriterInv
  <1> QED BY InitHolds, <1>1, PTL DEF Spec

\* Every variable has its type, whatever the sessions, checkouts and limits.
THEOREM WorkspaceTyped == Spec => []TypeOK
  <1>1. WorkspaceInv => TypeOK
    BY DEF WorkspaceInv, WriterInv
  <1> QED BY <1>1, InvHolds, PTL

\* A turn or a background task of this host writes a checkout only under the
\* lease of it, so one checkout never has two writers (admission.js).
THEOREM WorkspaceWriterHoldsLease == Spec => []WriterHoldsLease
  <1>1. WorkspaceInv => WriterHoldsLease
    BY DEF WorkspaceInv, WriterInv
  <1> QED BY <1>1, InvHolds, PTL

\* What is written is there: no turn starts in a checkout that hibernation or a
\* hand removed, and none is removed under a writer (hibernation.js).
THEOREM WorkspaceWriterHasCheckout == Spec => []WriterHasCheckout
  <1>1. WorkspaceInv => WriterHasCheckout
    BY DEF WorkspaceInv, WriterInv
  <1> QED BY <1>1, InvHolds, PTL

\* A checkout is removed under no active lease but one whose delivery has yet to
\* wake it, in whatever window between the checks of an acquisition, a relief and
\* a hibernation (hibernation.js, admission.js).
THEOREM WorkspaceDetachUnleased == Spec => DetachUnleased
  <1>1. WorkspaceInv /\ [Next]_vars
          => [\A w \in Workspaces : disk[w] /\ ~disk'[w] => ~Active(w) \/ Unwoken(w)]_vars
    BY DiskKept DEF WorkspaceInv
  <1> QED BY <1>1, InvHolds, PTL DEF Spec, DetachUnleased

\* The checkouts on the books and those being restored never exceed residentLimit,
\* nor restores and leases their own limits (registry.js available).
THEOREM WorkspaceBudgetHeld == Spec => []BudgetHeld
  <1>1. WorkspaceInv => BudgetHeld
    BY DEF WorkspaceInv, BooksInv
  <1> QED BY <1>1, InvHolds, PTL

===============================================================================
