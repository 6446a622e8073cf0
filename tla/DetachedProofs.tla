----------------------------- MODULE DetachedProofs -----------------------------
(***************************************************************************)
(* A detached job, for any number of wrapper shells and restarts: the type *)
(* correctness of DetachedJobs.tla, RunsOnce, OneResult, VerdictTrue and   *)
(* VerdictFinal.                                                           *)
(*                                                                         *)
(* The strengthening is OneClaim, that at most one shell has passed the    *)
(* exclusive `started`, and MarkerTrue, that the marker and the exit are   *)
(* written behind it, each once; so what a call of the host has read of    *)
(* the marker stays true while the call goes on.                           *)
(***************************************************************************)
EXTENDS DetachedJobs, FiniteSetTheorems, TLAPS

Claimants == {w \in Wrappers : stage[w] \in {"claimed", "named", "body", "exited", "moved"}}
             \cup runs

OneClaim ==
    /\ \A v, w \in Claimants : v = w
    /\ Claimants # {} => started
    /\ \A w \in Wrappers : stage[w] \in {"body", "exited", "moved"} => w \in runs

MarkerTrue ==
    /\ exit # "no" => /\ runs # {}
                      /\ \A w \in Wrappers : stage[w] \notin {"claimed", "named", "body"}
    /\ \A w \in Wrappers : stage[w] \in {"exited", "moved"} => exit # "no"
    /\ done # "no" => /\ done = exit
                      /\ \A w \in Wrappers : stage[w] # "exited"

VerdictRead ==
    /\ \A c \in Calls : seen[c].done \in {"no", done}
    /\ op = "completed" => done = "ok"
    /\ op = "failed" => done = "bad"

JobInv == TypeOK /\ OneClaim /\ MarkerTrue /\ VerdictRead /\ OneResult

-------------------------------------------------------------------------------
(* The wrappers.                                                           *)

\* The steps of the shells, and their deaths.
ShellStep(w) == Claim(w) \/ NamePid(w) \/ RunBody(w) \/ BodyExits(w) \/ MarkDone(w) \/ Exit(w)

LEMMA ShellTyped ==
    ASSUME TypeOK, NEW w \in Wrappers, ShellStep(w)
    PROVE  /\ started' \in BOOLEAN /\ pidFile' \in Wrappers \cup {NoWrapper}
           /\ done' \in {"no"} \cup Exits /\ exit' \in {"no"} \cup Exits
           /\ stage' \in [Wrappers -> {"unborn", "spawned", "claimed", "named", "body", "exited",
                                       "moved", "gone"}]
           /\ runs' \subseteq Wrappers
           /\ \A v \in Wrappers \ {w} : stage'[v] = stage[v]
  BY DEF TypeOK, ShellStep, Step, Claim, NamePid, RunBody, BodyExits, MarkDone, Exit, marks, Exits

\* A shell that finds `started` gives up, so nobody passes it twice.
LEMMA ShellKept ==
    ASSUME TypeOK, OneClaim, MarkerTrue, NEW w \in Wrappers, ShellStep(w)
    PROVE  OneClaim' /\ MarkerTrue' /\ (done # "no" => done' = done)
  <1>1. /\ stage \in [Wrappers -> {"unborn", "spawned", "claimed", "named", "body", "exited",
                                   "moved", "gone"}]
        /\ runs \subseteq Wrappers /\ exit \in {"no"} \cup Exits
    BY DEF TypeOK
  <1>2. \A v \in Wrappers \ {w} : stage'[v] = stage[v]
    BY ShellTyped
  <1>3. CASE Claim(w)
    <2>1. stage[w] = "spawned" /\ stage'[w] = (IF started THEN "gone" ELSE "claimed")
          /\ started' /\ UNCHANGED <<done, runs, exit>>
      BY <1>1, <1>3 DEF Claim, Step
    <2>2. CASE started
      <3>1. Claimants' \subseteq Claimants
        BY <1>2, <2>1, <2>2 DEF Claimants
      <3> QED BY <1>2, <2>1, <2>2, <3>1 DEF OneClaim, MarkerTrue
    <2>3. CASE ~started
      <3>1. Claimants = {}
        BY <2>3 DEF OneClaim
      <3>2. Claimants' \subseteq {w} /\ runs = {}
        BY <1>2, <2>1, <3>1 DEF Claimants
      <3>3. exit = "no" /\ done = "no"
        BY <3>2 DEF MarkerTrue
      <3> QED BY <1>2, <2>1, <2>3, <3>2, <3>3 DEF OneClaim, MarkerTrue
    <2> QED BY <2>2, <2>3
  <1>4. CASE NamePid(w)
    <2>1. stage[w] = "claimed" /\ stage'[w] = "named" /\ UNCHANGED <<started, done, runs, exit>>
      BY <1>1, <1>4 DEF NamePid, Step
    <2>2. Claimants' = Claimants
      BY <1>1, <1>2, <2>1 DEF Claimants
    <2> QED BY <1>2, <2>1, <2>2 DEF OneClaim, MarkerTrue
  <1>5. CASE RunBody(w)
    <2>1. stage[w] = "named" /\ stage'[w] = "body" /\ runs' = runs \cup {w}
          /\ UNCHANGED <<started, done, exit>>
      BY <1>1, <1>5 DEF RunBody, Step, marks
    <2>2. Claimants' = Claimants /\ w \in Claimants
      BY <1>1, <1>2, <2>1 DEF Claimants
    <2>3. exit = "no"
      BY <2>1 DEF MarkerTrue
    <2> QED BY <1>2, <2>1, <2>2, <2>3 DEF OneClaim, MarkerTrue
  <1>6. CASE BodyExits(w)
    <2>1. stage[w] = "body" /\ stage'[w] = "exited" /\ exit' \in Exits
          /\ UNCHANGED <<started, done, runs>>
      BY <1>1, <1>6 DEF BodyExits, Step, marks
    <2>2. Claimants' = Claimants /\ w \in Claimants /\ w \in runs
      BY <1>1, <1>2, <2>1 DEF Claimants, OneClaim
    <2>3. exit = "no" /\ done = "no"
      BY <2>1 DEF MarkerTrue
    <2>4. \A v \in Wrappers \ {w} : stage[v] \notin {"claimed", "named", "body", "exited", "moved"}
      BY <2>2 DEF OneClaim, Claimants
    <2>5. exit' # "no"
      BY <2>1 DEF Exits
    <2> QED BY <1>2, <2>1, <2>2, <2>3, <2>4, <2>5 DEF OneClaim, MarkerTrue
  <1>7. CASE MarkDone(w)
    <2>1. stage[w] = "exited" /\ stage'[w] = "moved" /\ done' = exit
          /\ UNCHANGED <<started, runs, exit>>
      BY <1>1, <1>7 DEF MarkDone, Step
    <2>2. Claimants' = Claimants /\ w \in Claimants
      BY <1>1, <1>2, <2>1 DEF Claimants
    <2>3. exit # "no" /\ done = "no"
      BY <2>1 DEF MarkerTrue
    <2>4. \A v \in Wrappers \ {w} : stage[v] # "exited"
      BY <2>2 DEF OneClaim, Claimants
    <2> QED BY <1>2, <2>1, <2>2, <2>3, <2>4 DEF OneClaim, MarkerTrue
  <1>8. CASE Exit(w)
    <2>1. stage[w] = "moved" /\ stage'[w] = "gone" /\ UNCHANGED <<started, done, runs, exit>>
      BY <1>1, <1>8 DEF Exit, Step, marks
    <2>2. Claimants' \subseteq Claimants
      BY <1>2, <2>1 DEF Claimants
    <2> QED BY <1>2, <2>1, <2>2 DEF OneClaim, MarkerTrue
  <1> QED BY <1>3, <1>4, <1>5, <1>6, <1>7, <1>8 DEF ShellStep

\* A shell that is spawned or gone claims nothing.
LEMMA QuietShells ==
    ASSUME OneClaim, MarkerTrue, UNCHANGED <<started, done, runs, exit>>,
           \A w \in Wrappers : stage'[w] \in {stage[w], "spawned", "gone"}
    PROVE  OneClaim' /\ MarkerTrue'
  <1>1. Claimants' \subseteq Claimants
    BY DEF Claimants
  <1> QED BY <1>1 DEF OneClaim, MarkerTrue

-------------------------------------------------------------------------------
(* The calls of the host.                                                  *)

LEMMA SightFacts ==
    ASSUME NEW s \in BOOLEAN, NEW l \in BOOLEAN
    PROVE  Sight(s, l) \in Sightings /\ Sight(s, l).done = "no"
  BY DEF Sight, Sightings

LEMMA PidFacts ==
    ASSUME NEW s \in Sightings, NEW p \in Wrappers \cup {NoWrapper}
    PROVE  [s EXCEPT !.pid = p] \in Sightings /\ [s EXCEPT !.pid = p].done = s.done
  BY DEF Sightings

LEMMA DoneFacts ==
    ASSUME NEW s \in Sightings, NEW d \in {"no"} \cup Exits
    PROVE  [s EXCEPT !.done = d] \in Sightings /\ [s EXCEPT !.done = d].done = d
  BY DEF Sightings

LEMMA RunningFacts ==
    ASSUME NEW s \in Sightings, NEW r \in BOOLEAN
    PROVE  [s EXCEPT !.running = r] \in Sightings /\ [s EXCEPT !.running = r].done = s.done
  BY DEF Sightings

\* What a call of status() or launch() leaves.
HostKept ==
    /\ meta' \in BOOLEAN
    /\ stage' \in [Wrappers -> {"unborn", "spawned", "claimed", "named", "body", "exited",
                                "moved", "gone"}]
    /\ \A w \in Wrappers : stage'[w] \in {stage[w], "spawned", "gone"}
    /\ pc' \in [Calls -> {"idle", "look", "pid", "done", "alive", "launch", "spawn", "settle",
                          "kill"}]
    /\ seen' \in [Calls -> Sightings]
    /\ \A c \in Calls : seen'[c].done \in {"no", done}
    /\ thread' \in Calls \cup {"none"}
    /\ up' \in BOOLEAN /\ crashes' \in Nat

\* A call reads on.
LEMMA ReadKept ==
    ASSUME TypeOK, VerdictRead, NEW c \in Calls, NEW s \in Sightings, s.done \in {"no", done},
           seen' = [seen EXCEPT ![c] = s]
    PROVE  seen' \in [Calls -> Sightings] /\ \A d \in Calls : seen'[d].done \in {"no", done}
  <1>1. seen \in [Calls -> Sightings]
    BY DEF TypeOK
  <1>2. seen' \in [Calls -> Sightings] /\ seen'[c] = s /\ \A d \in Calls \ {c} : seen'[d] = seen[d]
    BY <1>1
  <1> QED BY <1>2 DEF VerdictRead

LEMMA HostStep ==
    ASSUME TypeOK, VerdictRead,
           \/ StartDetached \/ Reconcile \/ CancelForSession \/ Kill \/ Crash \/ Start
           \/ \E c \in Calls : Call(c)
           \/ \E w \in Wrappers : Dies(w)
           \/ UNCHANGED vars
    PROVE  HostKept
  <1>1. /\ meta \in BOOLEAN /\ started \in BOOLEAN /\ pidFile \in Wrappers \cup {NoWrapper}
        /\ done \in {"no"} \cup Exits
        /\ stage \in [Wrappers -> {"unborn", "spawned", "claimed", "named", "body", "exited",
                                   "moved", "gone"}]
        /\ pc \in [Calls -> {"idle", "look", "pid", "done", "alive", "launch", "spawn",
                             "settle", "kill"}]
        /\ seen \in [Calls -> Sightings]
        /\ \A c \in Calls : seen[c] \in Sightings /\ seen[c].launched \in BOOLEAN
        /\ \A c \in Calls : seen[c].done \in {"no", done}
        /\ thread \in Calls \cup {"none"}
        /\ up \in BOOLEAN /\ crashes \in Nat
        /\ {"start", "tick", "cancel"} = Calls
    BY DEF TypeOK, VerdictRead, Calls, Sightings
  <1>2. CASE UNCHANGED vars
    BY <1>1, <1>2 DEF HostKept, vars
  <1>3. CASE StartDetached \/ Reconcile \/ CancelForSession
    <2>1. \E c \in Calls : Go(c, "look")
      BY <1>1, <1>3 DEF StartDetached, Reconcile, CancelForSession
    <2>2. pc' \in [Calls -> {"idle", "look", "pid", "done", "alive", "launch", "spawn",
                             "settle", "kill"}]
      BY <1>1, <2>1 DEF Go
    <2>3. UNCHANGED <<meta, stage, seen, thread, up, crashes>>
      BY <1>3 DEF StartDetached, Reconcile, CancelForSession, process, world, operation
    <2> QED BY <1>1, <2>2, <2>3 DEF HostKept
  <1>4. CASE Kill
    <2>1. seen' = [seen EXCEPT !["cancel"] = Sight(FALSE, FALSE)]
          /\ pc' = [pc EXCEPT !["cancel"] = "idle"]
          /\ UNCHANGED <<meta, thread, up, crashes>>
      BY <1>4 DEF Kill, Go, Read, world
    <2>2. stage' \in [Wrappers -> {"unborn", "spawned", "claimed", "named", "body", "exited",
                                   "moved", "gone"}]
          /\ \A w \in Wrappers : stage'[w] \in {stage[w], "gone"}
      BY <1>1, <1>4 DEF Kill
    <2>3. seen' \in [Calls -> Sightings] /\ \A d \in Calls : seen'[d].done \in {"no", done}
      BY <1>1, <2>1, SightFacts, ReadKept
    <2> QED BY <1>1, <2>1, <2>2, <2>3 DEF HostKept
  <1>5. CASE \E w \in Wrappers : Dies(w)
    BY <1>1, <1>5 DEF HostKept, Dies, world
  <1>6. CASE Crash
    <2>1. seen' = [c \in Calls |-> Sight(FALSE, FALSE)] /\ pc' = [c \in Calls |-> "idle"]
          /\ thread' = "none" /\ up' = FALSE /\ crashes' = crashes + 1
          /\ meta' = meta /\ stage' = stage
      BY <1>6 DEF Crash, process
    <2>2. Sight(FALSE, FALSE) \in Sightings /\ Sight(FALSE, FALSE).done = "no"
      BY SightFacts
    <2>3. crashes' \in Nat
      BY <1>1, <2>1
    <2> QED BY <1>1, <2>1, <2>2, <2>3 DEF HostKept
  <1>7. CASE Start
    BY <1>1, <1>7 DEF HostKept, Start, process
  <1>8. ASSUME NEW c \in Calls, Call(c)
        PROVE  HostKept
    <2>1. /\ UNCHANGED <<up, crashes>>
          /\ \E to \in {"idle", "look", "pid", "done", "alive", "launch", "spawn", "settle",
                        "kill"} : Go(c, to)
          /\ thread' \in {thread, c, "none"}
          /\ meta' \in {meta, TRUE}
          /\ ~Spawn(c) => stage' = stage
      BY <1>8 DEF Call, Look, ReadPid, ReadDone, ReadAlive, WriteMeta, Spawn, Settle, world, process
    <2>2. pc' \in [Calls -> {"idle", "look", "pid", "done", "alive", "launch", "spawn",
                             "settle", "kill"}]
      BY <1>1, <2>1 DEF Go
    <2>3. /\ stage' \in [Wrappers -> {"unborn", "spawned", "claimed", "named", "body", "exited",
                                      "moved", "gone"}]
          /\ \A w \in Wrappers : stage'[w] \in {stage[w], "spawned", "gone"}
      BY <1>1, <2>1 DEF Spawn
    <2>4. /\ seen' \in [Calls -> Sightings]
          /\ \A d \in Calls : seen'[d].done \in {"no", done}
      <3>1. CASE Look(c)
        <4>1. \E s, l \in BOOLEAN : seen' = [seen EXCEPT ![c] = Sight(s, l)]
          <5>1. seen' = [seen EXCEPT ![c] = Sight(meta /\ started, seen[c].launched)]
            BY <3>1 DEF Look, Read
          <5>2. (meta /\ started) \in BOOLEAN
            OBVIOUS
          <5> QED BY <1>1, <5>1, <5>2, Zenon
        <4> QED BY <4>1, SightFacts, ReadKept
      <3>2. CASE ReadPid(c)
        <4> DEFINE new == [seen[c] EXCEPT !.pid = pidFile]
        <4>1. seen' = [seen EXCEPT ![c] = new]
          BY <3>2 DEF ReadPid, Read
        <4>2. new \in Sightings /\ new.done \in {"no", done}
          BY <1>1, PidFacts
        <4> HIDE DEF new
        <4> QED BY <4>1, <4>2, ReadKept
      <3>3. CASE ReadDone(c)
        <4> DEFINE new == [seen[c] EXCEPT !.done = done]
        <4>1. seen' = [seen EXCEPT ![c] = new]
          BY <3>3 DEF ReadDone, Read
        <4>2. new \in Sightings /\ new.done \in {"no", done}
          BY <1>1, DoneFacts
        <4> HIDE DEF new
        <4> QED BY <4>1, <4>2, ReadKept
      <3>4. CASE ReadAlive(c)
        <4> DEFINE r == seen[c].done = "no" /\ seen[c].started /\ Alive(seen[c].pid)
        <4>1. \/ seen' = [seen EXCEPT ![c] = [seen[c] EXCEPT !.running = r]]
              \/ seen' = [seen EXCEPT ![c] = Sight(FALSE, FALSE)]
          BY <3>4 DEF ReadAlive, Read
        <4>2. r \in BOOLEAN
          OBVIOUS
        <4> HIDE DEF r
        <4> DEFINE new == [seen[c] EXCEPT !.running = r]
        <4>3. new \in Sightings /\ new.done \in {"no", done}
          BY <1>1, <4>2, RunningFacts
        <4>4. Sight(FALSE, FALSE) \in Sightings /\ Sight(FALSE, FALSE).done = "no"
          BY SightFacts
        <4> HIDE DEF new
        <4>5. \E s \in Sightings : s.done \in {"no", done} /\ seen' = [seen EXCEPT ![c] = s]
          BY <4>1, <4>3, <4>4 DEF new
        <4> QED BY <4>5, ReadKept
      <3>5. CASE WriteMeta(c)
        BY <1>1, <3>5 DEF WriteMeta
      <3>6. CASE Spawn(c)
        BY <3>6, SightFacts, ReadKept DEF Spawn, Read
      <3>7. CASE Settle(c)
        BY <3>7, SightFacts, ReadKept DEF Settle, Read
      <3> QED BY <1>8, <3>1, <3>2, <3>3, <3>4, <3>5, <3>6, <3>7 DEF Call
    <2> QED BY <1>1, <2>1, <2>2, <2>3, <2>4 DEF HostKept
  <1> QED BY <1>2, <1>3, <1>4, <1>5, <1>6, <1>7, <1>8


-------------------------------------------------------------------------------
(* The verdict.                                                            *)

\* What a step does to the operation: a first verdict and its result, a
\* cancellation, or no verdict at all.
VerdictKept ==
    /\ op' \in {"none", "admitted", "running"} \cup Terminal
    /\ results' \in Nat
    /\ OneResult'
    /\ op \in Terminal => op' = op
    /\ op' = "completed" => op = "completed" \/ done = "ok"
    /\ op' = "failed" => op = "failed" \/ done = "bad"

LEMMA CompleteKept ==
    ASSUME TypeOK, OneResult, NEW verdict \in Terminal \ {"cancelled"}, Complete(verdict),
           verdict = "completed" => done = "ok", verdict = "failed" => done = "bad"
    PROVE  VerdictKept
  <1>1. op \in {"none", "admitted", "running"} \cup Terminal /\ results \in Nat
    BY DEF TypeOK
  <1>2. CASE Open
    <2>1. op \notin Terminal /\ results = 0 /\ op' = verdict /\ results' = results + 1
      BY <1>2 DEF Open, Terminal, OneResult, Complete
    <2> QED BY <2>1 DEF VerdictKept, OneResult
  <1>3. CASE ~Open
    BY <1>1, <1>3 DEF Complete, operation, VerdictKept, OneResult
  <1> QED BY <1>2, <1>3

LEMMA VerdictStep ==
    ASSUME TypeOK, OneResult, VerdictRead, [Next]_vars
    PROVE  VerdictKept
  <1>1. /\ op \in {"none", "admitted", "running"} \cup Terminal /\ results \in Nat
        /\ \A c \in Calls : seen[c].done \in {"no", done} /\ done \in {"no"} \cup Exits
    BY DEF TypeOK, VerdictRead
  <1>2. CASE UNCHANGED operation
    BY <1>1, <1>2 DEF operation, VerdictKept, OneResult
  <1>3. CASE StartDetached \/ CancelForSession
    BY <1>1, <1>3 DEF StartDetached, CancelForSession, Open, Terminal, VerdictKept, OneResult
  <1>4. ASSUME NEW c \in Calls, Settle(c)
        PROVE  VerdictKept
    <2>1. CASE SettleDone(c)
      <3>1. /\ done # "no" /\ seen[c].done = done
            /\ Complete(IF done = "ok" THEN "completed" ELSE "failed")
        BY <1>1, <2>1 DEF SettleDone
      <3>2. done = "ok" \/ done = "bad"
        BY <1>1, <3>1 DEF Exits
      <3> QED BY <3>1, <3>2, CompleteKept DEF Terminal
    <2>2. CASE SettleRunning(c)
      BY <1>1, <2>2 DEF SettleRunning, Open, Terminal, VerdictKept, OneResult
    <2>3. CASE SettleInterrupted(c)
      BY <2>3, CompleteKept DEF SettleInterrupted, Terminal
    <2>4. CASE SettleLater(c)
      BY <1>2, <2>4 DEF SettleLater
    <2> QED BY <1>4, <2>1, <2>2, <2>3, <2>4 DEF Settle
  <1>5. ASSUME NEW c \in Calls,
               Look(c) \/ ReadPid(c) \/ ReadDone(c) \/ ReadAlive(c) \/ WriteMeta(c) \/ Spawn(c)
        PROVE  UNCHANGED operation
    BY <1>5 DEF Look, ReadPid, ReadDone, ReadAlive, WriteMeta, Spawn, operation
  <1>6. CASE \/ UNCHANGED vars \/ Reconcile \/ Kill \/ Crash \/ Start
             \/ \E w \in Wrappers : Wrapper(w) \/ Dies(w)
    BY <1>2, <1>6 DEF vars, Reconcile, Kill, Crash, Start, Wrapper, Dies, operation
  <1> QED BY <1>2, <1>3, <1>4, <1>5, <1>6 DEF Next, Call

-------------------------------------------------------------------------------
(* The theorems.                                                           *)

LEMMA JobInit == Init => JobInv
  <1> SUFFICES ASSUME Init PROVE JobInv
    OBVIOUS
  <1>1. Sight(FALSE, FALSE) \in Sightings /\ Sight(FALSE, FALSE).done = "no"
    BY SightFacts
  <1>2. TypeOK
    BY <1>1 DEF Init, TypeOK
  <1>3. OneClaim /\ MarkerTrue
    BY DEF Init, OneClaim, MarkerTrue, Claimants
  <1>4. VerdictRead /\ OneResult
    BY <1>1 DEF Init, VerdictRead, OneResult, Terminal
  <1> QED BY <1>2, <1>3, <1>4 DEF JobInv

LEMMA JobNext == JobInv /\ [Next]_vars => JobInv'
  <1> SUFFICES ASSUME JobInv, [Next]_vars PROVE JobInv'
    OBVIOUS
  <1>1. VerdictKept
    BY VerdictStep DEF JobInv
  <1>2. CASE \E w \in Wrappers : Wrapper(w)
    <2>1. PICK w \in Wrappers : Wrapper(w)
      BY <1>2
    <2>2. ShellStep(w) /\ UNCHANGED <<op, results, meta, pc, seen, thread, up, crashes>>
      BY <2>1 DEF Wrapper, ShellStep, operation, world
    <2>3. OneClaim' /\ MarkerTrue' /\ (done # "no" => done' = done)
      BY <2>2, ShellKept DEF JobInv
    <2>4. TypeOK'
      BY <2>2, ShellTyped DEF JobInv, TypeOK
    <2>5. VerdictRead' /\ OneResult'
      BY <2>2, <2>3 DEF JobInv, VerdictRead, OneResult
    <2> QED BY <2>3, <2>4, <2>5 DEF JobInv
  <1>3. CASE ~\E w \in Wrappers : Wrapper(w)
    <2>1. HostKept
      BY <1>3, HostStep DEF JobInv, Next
    <2>2. UNCHANGED <<started, pidFile, done, runs, exit>>
      BY <1>3 DEF Next, vars, StartDetached, Reconcile, CancelForSession, Kill, Crash, Start, Call,
            Look, ReadPid, ReadDone, ReadAlive, WriteMeta, Spawn, Settle, Dies, marks, process
    <2>3. TypeOK'
      BY <1>1, <2>1, <2>2 DEF JobInv, TypeOK, HostKept, VerdictKept
    <2>4. OneClaim' /\ MarkerTrue'
      BY <2>1, <2>2, QuietShells DEF JobInv, HostKept
    <2>5. VerdictRead' /\ OneResult'
      BY <1>1, <2>1, <2>2 DEF JobInv, HostKept, VerdictKept, VerdictRead
    <2> QED BY <2>3, <2>4, <2>5 DEF JobInv
  <1> QED BY <1>2, <1>3

\* The inductive invariant.
THEOREM JobSafe == Spec => []JobInv
  BY JobInit, JobNext, PTL DEF Spec

\* Files, processes and calls stay well formed.
THEOREM JobTyped == Spec => []TypeOK
  <1>1. JobInv => TypeOK
    BY DEF JobInv
  <1> QED BY <1>1, JobSafe, PTL

\* The command runs at most once, however many shells were spawned for it.
THEOREM JobRunsOnce == Spec => []RunsOnce
  <1>1. JobInv => RunsOnce
    <2> SUFFICES ASSUME JobInv PROVE RunsOnce
      OBVIOUS
    <2>1. CASE runs = {}
      BY <2>1, FS_EmptySet DEF RunsOnce
    <2>2. CASE runs # {}
      <3>1. PICK w : runs = {w}
        BY <2>2 DEF JobInv, OneClaim, Claimants
      <3>2. Cardinality({w}) = 1
        BY FS_Singleton
      <3> QED BY <3>1, <3>2 DEF RunsOnce
    <2> QED BY <2>1, <2>2
  <1> QED BY <1>1, JobSafe, PTL

\* The owner is told the verdict once.
THEOREM JobOneResult == Spec => []OneResult
  <1>1. JobInv => OneResult
    BY DEF JobInv
  <1> QED BY <1>1, JobSafe, PTL

\* The verdict is that of the command's own exit.
THEOREM JobVerdictTrue == Spec => []VerdictTrue
  <1>1. JobInv => VerdictTrue
    BY DEF JobInv, VerdictRead, MarkerTrue, VerdictTrue
  <1> QED BY <1>1, JobSafe, PTL

\* No later step overwrites it.
THEOREM JobVerdictFinal == Spec => VerdictFinal
  <1>1. JobInv /\ [Next]_vars => [(op \in Terminal => op' = op)]_vars
    BY VerdictStep DEF JobInv, VerdictKept
  <1> QED BY <1>1, JobSafe, PTL DEF Spec, VerdictFinal

===============================================================================
