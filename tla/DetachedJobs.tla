------------------------------ MODULE DetachedJobs ------------------------------
(***************************************************************************)
(* A detached shell job: the process of src/src/detached.js that outlives  *)
(* the host, and the operation of src/src/orchestration/runtime.js that    *)
(* follows it through the files it leaves.                                 *)
(*                                                                         *)
(* A wrapper shell claims the job with an exclusive `started`, writes its  *)
(* pid, runs the command, and moves a done marker into place.  The host    *)
(* knows only these files and whether a pid lives; it reads them one after *)
(* the other, while the wrapper runs on.  Two calls of the host may follow *)
(* the same job: the one that admitted it and the reconciliation.  A call  *)
(* of status() or launch() is one stretch of the host's thread, which      *)
(* `thread` stands for; wrappers are other processes and step in between.  *)
(***************************************************************************)
EXTENDS Naturals, FiniteSets

CONSTANTS
    Wrappers,    \* bound: wrapper shells ever spawned for the job
    NoWrapper,   \* no such process
    MaxCrashes   \* bound: host restarts

ASSUME DetachedAssumption ==
    /\ NoWrapper \notin Wrappers
    /\ MaxCrashes \in Nat

VARIABLES
    op,        \* status of the operation
    results,   \* results in the outbox
    meta,      \* meta.json is written
    started,   \* `started` exists
    pidFile,   \* the wrapper whose pid the file holds
    done,      \* the done marker and its exit code
    stage,     \* how far each wrapper has come
    runs,      \* wrappers that ran the command
    exit,      \* what the command ended with
    pc, seen,  \* the host's calls: where each is, and what status() told it
    thread,    \* the call status() or launch() runs for
    up, crashes

vars == <<op, results, meta, started, pidFile, done, stage, runs, exit, pc, seen, thread, up, crashes>>
operation == <<op, results>>
marks == <<started, pidFile, done>>
process == <<stage, runs, exit>>
world == <<up, crashes>>

-------------------------------------------------------------------------------
Calls == {"start", "tick", "cancel"}
Terminal == {"completed", "failed", "interrupted", "cancelled"}
Open == op \in {"admitted", "running"}
Exits == {"ok", "bad"}

\* What a call has read; whether it has been through launch().
Sight(s, l) == [started |-> s, pid |-> NoWrapper, done |-> "no", running |-> FALSE, launched |-> l]
Sightings == [started : BOOLEAN, pid : Wrappers \cup {NoWrapper},
              done : {"no"} \cup Exits, running : BOOLEAN, launched : BOOLEAN]

Alive(w) == w # NoWrapper /\ stage[w] \notin {"unborn", "gone"}
Free == up /\ thread = "none"
Read(c, field) == seen' = [seen EXCEPT ![c] = field]
Go(c, to) == pc' = [pc EXCEPT ![c] = to]

-------------------------------------------------------------------------------
(* The wrapper.  Mutants: what each property must notice.                  *)

Step(w, from, to) == stage[w] = from /\ stage' = [stage EXCEPT ![w] = to]

\* set -C; : > started
ClaimShared(w) ==
    /\ Step(w, "spawned", "claimed")
    /\ started' = TRUE
    /\ UNCHANGED <<pidFile, done, runs, exit>>

Claim(w) ==
    /\ Step(w, "spawned", IF started THEN "gone" ELSE "claimed")
    /\ started' = TRUE
    /\ UNCHANGED <<pidFile, done, runs, exit>>

NamePid(w) ==
    /\ Step(w, "claimed", "named")
    /\ pidFile' = w
    /\ UNCHANGED <<started, done, runs, exit>>

RunBody(w) ==
    /\ Step(w, "named", "body")
    /\ runs' = runs \cup {w}
    /\ UNCHANGED <<marks, exit>>

BodyExits(w) ==
    /\ Step(w, "body", "exited")
    /\ exit' \in Exits
    /\ UNCHANGED <<marks, runs>>

MarkDoneLate(w) ==
    /\ Step(w, "exited", "moved")
    /\ done' = "ok"
    /\ UNCHANGED <<started, pidFile, runs, exit>>

\* __mc_code is the exit of the command; the marker is written aside and moved
\* into place.
MarkDone(w) ==
    /\ Step(w, "exited", "moved")
    /\ done' = exit
    /\ UNCHANGED <<started, pidFile, runs, exit>>

Exit(w) ==
    /\ Step(w, "moved", "gone")
    /\ UNCHANGED <<marks, runs, exit>>

Wrapper(w) ==
    /\ Claim(w) \/ NamePid(w) \/ RunBody(w) \/ BodyExits(w) \/ MarkDone(w) \/ Exit(w)
    /\ UNCHANGED <<operation, meta, pc, seen, thread, world>>

\* Killed from outside, or lost with the machine.
Dies(w) ==
    /\ Alive(w) /\ stage[w] # "spawned"
    /\ stage' = [stage EXCEPT ![w] = "gone"]
    /\ UNCHANGED <<operation, meta, marks, runs, exit, pc, seen, thread, world>>

-------------------------------------------------------------------------------
(* The host's calls.                                                       *)

\* startDetached: admit, or find what the same request admitted.
StartDetached ==
    /\ Free /\ pc["start"] = "idle"
    /\ op = "none" \/ Open
    /\ op' = IF op = "none" THEN "admitted" ELSE op
    /\ Go("start", "look")
    /\ UNCHANGED <<results, meta, marks, process, seen, thread, world>>

\* reconcileDetached, in every tick and at start, lists what is open.
ListedRunning == op = "running"
Listed == Open

Reconcile ==
    /\ Free /\ pc["tick"] = "idle"
    /\ Listed
    /\ Go("tick", "look")
    /\ UNCHANGED <<operation, meta, marks, process, seen, thread, world>>

\* cancelForSession: the owner is deleted.  The operation is cancelled first,
\* its process afterwards.
CancelForSession ==
    /\ Free /\ pc["cancel"] = "idle"
    /\ Open
    /\ op' = "cancelled"
    /\ Go("cancel", "look")
    /\ UNCHANGED <<results, meta, marks, process, seen, thread, world>>

\* status(): meta and started; then the pid, the marker, and whether the pid
\* lives.
Look(c) ==
    /\ Free /\ pc[c] = "look"
    /\ IF meta THEN Go(c, "pid") /\ thread' = c
       ELSE Go(c, IF c = "cancel" THEN "idle" ELSE "launch") /\ UNCHANGED thread
    /\ Read(c, Sight(meta /\ started, seen[c].launched))
    /\ UNCHANGED <<operation, meta, marks, process, world>>

ReadPid(c) ==
    /\ pc[c] = "pid" /\ Go(c, "done")
    /\ Read(c, [seen[c] EXCEPT !.pid = pidFile])
    /\ UNCHANGED <<operation, meta, marks, process, thread, world>>

ReadDone(c) ==
    /\ pc[c] = "done" /\ Go(c, "alive")
    /\ Read(c, [seen[c] EXCEPT !.done = done])
    /\ UNCHANGED <<operation, meta, marks, process, thread, world>>

ReadAlive(c) ==
    LET s == seen[c]
        running == s.done = "no" /\ s.started /\ Alive(s.pid)
    IN  /\ pc[c] = "alive" /\ thread' = "none"
        /\ \/ /\ s.started \/ s.launched \/ c = "cancel"
              /\ Read(c, [s EXCEPT !.running = running])
              /\ Go(c, IF c = "cancel" THEN "kill" ELSE "settle")
           \/ /\ ~s.started /\ ~s.launched /\ c # "cancel"
              /\ Read(c, Sight(FALSE, FALSE))
              /\ Go(c, "launch")
        /\ UNCHANGED <<operation, meta, marks, process, world>>

\* launch(): the job is described on disk, and spawned unless it was started.
WriteMeta(c) ==
    /\ Free /\ pc[c] = "launch"
    /\ meta' = TRUE /\ thread' = c
    /\ Go(c, "spawn")
    /\ UNCHANGED <<operation, marks, process, seen, world>>

Spawn(c) ==
    /\ pc[c] = "spawn"
    /\ \/ /\ ~started /\ done = "no"
          /\ \E w \in Wrappers : stage[w] = "unborn" /\ stage' = [stage EXCEPT ![w] = "spawned"]
       \/ /\ started \/ done # "no" \/ \A w \in Wrappers : stage[w] # "unborn"
          /\ UNCHANGED stage
    /\ Read(c, Sight(FALSE, TRUE)) /\ Go(c, "look") /\ thread' = "none"
    /\ UNCHANGED <<operation, meta, marks, runs, exit, world>>

\* completeDetached and markRunning: an operation that has its verdict keeps it.
CompleteAgain(verdict) ==
    /\ op' = verdict /\ results' = results + 1

Complete(verdict) ==
    IF Open THEN op' = verdict /\ results' = results + 1 ELSE UNCHANGED operation

SettleDone(c) ==
    /\ seen[c].done # "no"
    /\ Complete(IF seen[c].done = "ok" THEN "completed" ELSE "failed")

SettleRunning(c) ==
    /\ seen[c].running
    /\ op' = IF Open THEN "running" ELSE op
    /\ UNCHANGED results

SettleInterrupted(c) ==
    /\ seen[c].done = "no" /\ seen[c].started /\ ~seen[c].running
    /\ Complete("interrupted")

\* The shell that was spawned has not come to claim the job yet.
SettleLater(c) ==
    /\ seen[c].done = "no" /\ ~seen[c].started
    /\ UNCHANGED operation

Settle(c) ==
    /\ Free /\ pc[c] = "settle"
    /\ SettleDone(c) \/ SettleRunning(c) \/ SettleInterrupted(c) \/ SettleLater(c)
    /\ Go(c, "idle") /\ Read(c, Sight(FALSE, FALSE))
    /\ UNCHANGED <<meta, marks, process, thread, world>>

\* cancel(): the process group is signalled.
Kill ==
    /\ Free /\ pc["cancel"] = "kill"
    /\ stage' = [w \in Wrappers |-> IF seen["cancel"].running /\ w = seen["cancel"].pid
                                    THEN "gone" ELSE stage[w]]
    /\ Go("cancel", "idle") /\ Read("cancel", Sight(FALSE, FALSE))
    /\ UNCHANGED <<operation, meta, marks, runs, exit, thread, world>>

Call(c) ==
    \/ Look(c) \/ ReadPid(c) \/ ReadDone(c) \/ ReadAlive(c)
    \/ WriteMeta(c) \/ Spawn(c) \/ Settle(c)

-------------------------------------------------------------------------------
\* The host goes down; the wrappers are session leaders and go on.
Crash ==
    /\ up /\ crashes < MaxCrashes
    /\ up' = FALSE /\ crashes' = crashes + 1
    /\ pc' = [c \in Calls |-> "idle"]
    /\ seen' = [c \in Calls |-> Sight(FALSE, FALSE)]
    /\ thread' = "none"
    /\ UNCHANGED <<operation, meta, marks, process>>

Start ==
    /\ ~up /\ up' = TRUE
    /\ UNCHANGED <<operation, meta, marks, process, pc, seen, thread, crashes>>

Init ==
    /\ op = "none" /\ results = 0
    /\ meta = FALSE /\ started = FALSE /\ pidFile = NoWrapper /\ done = "no"
    /\ stage = [w \in Wrappers |-> "unborn"] /\ runs = {} /\ exit = "no"
    /\ pc = [c \in Calls |-> "idle"]
    /\ seen = [c \in Calls |-> Sight(FALSE, FALSE)]
    /\ thread = "none" /\ up = TRUE /\ crashes = 0

Next ==
    \/ StartDetached \/ Reconcile \/ CancelForSession \/ Kill
    \/ \E c \in Calls : Call(c)
    \/ \E w \in Wrappers : Wrapper(w) \/ Dies(w)
    \/ Crash \/ Start

Spec == Init /\ [][Next]_vars

\* The host's calls go on and its timer ticks, a supervisor restarts it, and
\* shells and the command run to their end.
Fairness ==
    /\ WF_vars(Start) /\ WF_vars(Reconcile)
    /\ \A c \in Calls : WF_vars(Call(c))
    /\ \A w \in Wrappers : WF_vars(Wrapper(w))

FairSpec == Spec /\ Fairness

-------------------------------------------------------------------------------
(* Properties.                                                             *)

\* The files, the processes and the calls are well formed.
TypeOK ==
    /\ op \in {"none", "admitted", "running"} \cup Terminal
    /\ results \in Nat
    /\ meta \in BOOLEAN /\ started \in BOOLEAN
    /\ pidFile \in Wrappers \cup {NoWrapper}
    /\ done \in {"no"} \cup Exits /\ exit \in {"no"} \cup Exits
    /\ stage \in [Wrappers -> {"unborn", "spawned", "claimed", "named", "body", "exited",
                           "moved", "gone"}]
    /\ runs \subseteq Wrappers
    /\ pc \in [Calls -> {"idle", "look", "pid", "done", "alive", "launch", "spawn", "settle", "kill"}]
    /\ seen \in [Calls -> Sightings]
    /\ thread \in Calls \cup {"none"}
    /\ up \in BOOLEAN /\ crashes \in Nat

\* The command runs at most once, through calls that launch it side by side and
\* restarts between the description, the spawn and the claim.
RunsOnce == Cardinality(runs) <= 1

\* The owner is told at most once, of the verdict the operation bears; a
\* cancelled operation tells nothing.
OneResult == results = IF op \in Terminal \ {"cancelled"} THEN 1 ELSE 0

\* A job is reported by its own exit: as completed only if its command ended
\* well, as failed only if it did not.
VerdictTrue ==
    /\ op = "completed" => exit = "ok"
    /\ op = "failed" => exit = "bad"

\* The verdict of a job is final, whatever its files say later.
VerdictFinal == [][(op \in Terminal => op' = op)]_vars

\* A job that was admitted gets a verdict: through restarts, a killed wrapper,
\* and calls that found nothing started yet.
JobSettles == Open ~> ~Open

===============================================================================
