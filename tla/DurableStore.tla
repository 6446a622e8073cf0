------------------------------ MODULE DurableStore ------------------------------
(***************************************************************************)
(* The durable state behind every other module: src/src/orchestration/     *)
(* sqlite-store.js, and the JSON file of store.js it was migrated from and *)
(* is exported to.                                                         *)
(*                                                                         *)
(* A process keeps a frozen copy of the state and runs one mutation at a   *)
(* time: the mutator drafts on the copy, the changed rows are written in   *)
(* one transaction if the revision is still the draft's, and the copy is   *)
(* replaced, or read again when anything failed.  Calls may fail before    *)
(* the commit and after it, processes crash between any two steps, and two *)
(* of them may have the file open.                                         *)
(***************************************************************************)
EXTENDS Naturals, Sequences

CONSTANTS
    Procs,       \* processes that open the store
    Keys,        \* rows of all tables
    Calls,       \* mutations, each idempotent
    Touches(_),  \* the rows a mutation changes
    Imported,    \* mutations made through the JSON file, before the migration
    Absent,      \* there is no such file
    MaxFaults,   \* bound: file and database errors
    MaxCrashes   \* bound: processes lost

ASSUME StoreAssumption ==
    /\ \A m \in Calls : Touches(m) # {} /\ Touches(m) \subseteq Keys
    /\ Imported \subseteq Calls
    /\ Absent \notin [rev : Nat, rows : [Keys -> SUBSET Calls]]
    /\ MaxFaults \in Nat /\ MaxCrashes \in Nat

VARIABLES
    db,      \* what the database file holds
    legacy,  \* what the JSON file holds
    mode,    \* process: down, creating, up
    temp,    \* the database it is importing
    state,   \* its copy
    draft,   \* the copy its current mutation started from
    work,    \* its current call: idle, drafting, committed, rolledback
    queue,   \* its calls to come, the current one first
    answer,  \* what the caller of each mutation has been told
    faults, crashes

vars == <<db, legacy, mode, temp, state, draft, work, queue, answer, faults, crashes>>
files == <<db, legacy>>
bounds == <<faults, crashes>>

-------------------------------------------------------------------------------
Snapshots == [rev : Nat, rows : [Keys -> SUBSET Calls]]
Empty == [rev |-> 0, rows |-> [k \in Keys |-> {}]]
With(rows, M) == [k \in Keys |-> rows[k] \cup {m \in M : k \in Touches(m)}]

\* The mutations a snapshot shows in full; those it shows at all.
Holds(s) == {m \in Calls : \A k \in Touches(m) : m \in s.rows[k]}
Shows(s) == {m \in Calls : \E k \in Touches(m) : m \in s.rows[k]}

Applied(s, m) == [rev |-> s.rev + 1, rows |-> With(s.rows, {m})]

Current(p) == Head(queue[p])
Fault(n) == faults + n <= MaxFaults /\ faults' = faults + n

-------------------------------------------------------------------------------
(* Opening.                                                                *)

Open(p) ==
    /\ mode[p] = "down" /\ db # Absent
    /\ mode' = [mode EXCEPT ![p] = "up"]
    /\ state' = [state EXCEPT ![p] = db]
    /\ UNCHANGED <<files, temp, draft, work, queue, answer, bounds>>

\* createDatabaseFile fills a private file from the JSON file, if there is one,
\* and moves it into place; the first process to come does it alone.
Import == IF legacy = Absent THEN Empty ELSE legacy

CreateDatabaseFile(p) ==
    /\ \A q \in Procs : mode[q] = "down"
    /\ db = Absent
    /\ mode' = [mode EXCEPT ![p] = "creating"]
    /\ temp' = [temp EXCEPT ![p] = Import]
    /\ UNCHANGED <<files, state, draft, work, queue, answer, bounds>>

Publish(p) ==
    /\ mode[p] = "creating"
    /\ db' = temp[p]
    /\ mode' = [mode EXCEPT ![p] = "up"]
    /\ state' = [state EXCEPT ![p] = temp[p]]
    /\ UNCHANGED <<legacy, temp, draft, work, queue, answer, bounds>>

-------------------------------------------------------------------------------
(* Mutations.  Mutants: what each property must notice.                    *)

Mutate(p, m) ==
    /\ mode[p] = "up"
    /\ answer[m] \in {"none", "failed"}
    /\ answer' = [answer EXCEPT ![m] = "pending"]
    /\ queue' = [queue EXCEPT ![p] = Append(@, m)]
    /\ UNCHANGED <<files, mode, temp, state, draft, work, bounds>>

Begin(p) ==
    /\ work[p] = "idle" /\ queue[p] # <<>>
    /\ work' = [work EXCEPT ![p] = "drafting"]
    /\ draft' = [draft EXCEPT ![p] = state[p]]
    /\ UNCHANGED <<files, mode, temp, state, queue, answer, bounds>>

PoisonedTail(p, told) ==
    /\ queue' = [queue EXCEPT ![p] = Tail(@)]
    /\ work' = [work EXCEPT ![p] = IF told = "ok" THEN "idle" ELSE "poisoned"]
    /\ answer' = [answer EXCEPT ![Current(p)] = told]

\* A failed mutation does not poison the calls behind it.
Finish(p, told) ==
    /\ queue' = [queue EXCEPT ![p] = Tail(@)]
    /\ work' = [work EXCEPT ![p] = "idle"]
    /\ answer' = [answer EXCEPT ![Current(p)] = told]

\* The draft came out as it went in: nothing is written.
Noop(p) ==
    /\ work[p] = "drafting"
    /\ Current(p) \in Holds(draft[p])
    /\ Finish(p, "ok")
    /\ UNCHANGED <<files, mode, temp, state, draft, bounds>>

MutatorThrows(p) ==
    /\ work[p] = "drafting"
    /\ Fault(1)
    /\ Finish(p, "failed")
    /\ UNCHANGED <<files, mode, temp, state, draft, crashes>>

AnyRevision(p) == TRUE
SameRevision(p) == db.rev = draft[p].rev

\* The rows the mutation changed are written as drafted, the others kept.
Written(p) ==
    LET m == Current(p)
    IN  [rev |-> draft[p].rev + 1,
         rows |-> [k \in Keys |-> IF k \in Touches(m) THEN draft[p].rows[k] \cup {m}
                                  ELSE db.rows[k]]]

Commit(p) ==
    /\ work[p] = "drafting" /\ Current(p) \notin Holds(draft[p])
    /\ SameRevision(p)
    /\ db' = Written(p)
    /\ work' = [work EXCEPT ![p] = "committed"]
    /\ UNCHANGED <<legacy, mode, temp, state, draft, queue, answer, bounds>>

\* Another process committed first; or the transaction failed.
RollBack(p) ==
    /\ work[p] = "drafting" /\ Current(p) \notin Holds(draft[p])
    /\ (~SameRevision(p) /\ Fault(0)) \/ Fault(1)
    /\ work' = [work EXCEPT ![p] = "rolledback"]
    /\ UNCHANGED <<files, mode, temp, state, draft, queue, answer, crashes>>

Return(p) ==
    /\ work[p] = "committed"
    /\ state' = [state EXCEPT ![p] = Applied(draft[p], Current(p))]
    /\ Finish(p, "ok")
    /\ UNCHANGED <<files, mode, temp, draft, bounds>>

KeptDraft(p) == Applied(draft[p], Current(p))

\* What failed is read again, whether or not it had landed.
Reloaded(p) == db

\* The checkpoint after a commit fails, or the commit did: the copy is read
\* again.  When that fails too, the copy stays behind.
Throw(p) ==
    /\ \/ work[p] = "committed" /\ Fault(1) /\ state' = [state EXCEPT ![p] = Reloaded(p)]
       \/ work[p] = "committed" /\ Fault(2) /\ UNCHANGED state
       \/ work[p] = "rolledback" /\ Fault(0) /\ state' = [state EXCEPT ![p] = Reloaded(p)]
       \/ work[p] = "rolledback" /\ Fault(1) /\ UNCHANGED state
    /\ Finish(p, "failed")
    /\ UNCHANGED <<files, mode, temp, draft, crashes>>

-------------------------------------------------------------------------------
(* Stopping.                                                               *)

\* exportLegacy: a rollback source for a binary that reads JSON.
ExportLegacy(p) ==
    /\ mode[p] = "up" /\ work[p] \in {"idle", "drafting"}
    /\ legacy' = db
    /\ state' = [state EXCEPT ![p] = db]
    /\ UNCHANGED <<db, mode, temp, draft, work, queue, answer, bounds>>

Close(p) ==
    /\ mode[p] = "up" /\ queue[p] = <<>>
    /\ mode' = [mode EXCEPT ![p] = "down"]
    /\ UNCHANGED <<files, temp, state, draft, work, queue, answer, bounds>>

Crash(p) ==
    /\ mode[p] # "down" /\ crashes < MaxCrashes
    /\ crashes' = crashes + 1
    /\ mode' = [mode EXCEPT ![p] = "down"]
    /\ work' = [work EXCEPT ![p] = "idle"]
    /\ answer' = [m \in Calls |-> IF \E i \in 1 .. Len(queue[p]) : queue[p][i] = m
                                  THEN "none" ELSE answer[m]]
    /\ queue' = [queue EXCEPT ![p] = <<>>]
    /\ UNCHANGED <<files, temp, state, draft, faults>>

Init ==
    /\ db = Absent
    /\ legacy = IF Imported = {} THEN Absent ELSE [rev |-> 1, rows |-> With(Empty.rows, Imported)]
    /\ mode = [p \in Procs |-> "down"]
    /\ temp = [p \in Procs |-> Empty]
    /\ state = [p \in Procs |-> Empty]
    /\ draft = [p \in Procs |-> Empty]
    /\ work = [p \in Procs |-> "idle"]
    /\ queue = [p \in Procs |-> <<>>]
    /\ answer = [m \in Calls |-> IF m \in Imported THEN "ok" ELSE "none"]
    /\ faults = 0 /\ crashes = 0

Work(p) ==
    \/ Begin(p) \/ Noop(p) \/ MutatorThrows(p)
    \/ Commit(p) \/ RollBack(p) \/ Return(p) \/ Throw(p)

Next ==
    \E p \in Procs :
       \/ Open(p) \/ CreateDatabaseFile(p) \/ Publish(p)
       \/ \E m \in Calls : Mutate(p, m)
       \/ Work(p)
       \/ ExportLegacy(p) \/ Close(p) \/ Crash(p)

Spec == Init /\ [][Next]_vars

\* The promise queue of a process that is up goes on.
FairSpec == Spec /\ \A p \in Procs : WF_vars(Work(p))

-------------------------------------------------------------------------------
(* Properties.                                                             *)

\* Files, copies and calls are well formed.
TypeOK ==
    /\ db \in Snapshots \cup {Absent} /\ legacy \in Snapshots \cup {Absent}
    /\ mode \in [Procs -> {"down", "creating", "up"}]
    /\ temp \in [Procs -> Snapshots]
    /\ state \in [Procs -> Snapshots]
    /\ draft \in [Procs -> Snapshots]
    /\ work \in [Procs -> {"idle", "drafting", "committed", "rolledback"}]
    /\ queue \in [Procs -> Seq(Calls)]
    /\ answer \in [Calls -> {"none", "pending", "ok", "failed"}]
    /\ faults \in Nat /\ crashes \in Nat

\* "a process crash cannot leave only one side visible": the rows of a mutation
\* appear together, in both files and in every copy.
AllOrNothing ==
    /\ db # Absent => Shows(db) = Holds(db)
    /\ legacy # Absent => Shows(legacy) = Holds(legacy)
    /\ \A p \in Procs : Shows(state[p]) = Holds(state[p])

\* A process never shows a reader what was not committed: its copy is a past or
\* present content of the database, through commits that failed or landed
\* unseen, and through the commits of another process.
ReadsCommitted ==
    \A p \in Procs : mode[p] = "up" =>
        /\ state[p].rev <= db.rev
        /\ state[p].rev = db.rev => state[p].rows = db.rows
        /\ \A k \in Keys : state[p].rows[k] \subseteq db.rows[k]

\* Nothing that was committed is undone, by a crash, by the migration or by a
\* second process, and a confirmed mutation was committed: the store is atomic.
Contents == IF db # Absent THEN db ELSE Import
Atomic == INSTANCE AtomicStore WITH applied <- Holds(Contents)
ImplementsAtomic == Atomic!Spec

\* Every call is answered while its process lives, also behind calls that
\* failed.
CallsAnswered == \A m \in Calls : answer[m] = "pending" ~> answer[m] # "pending"

===============================================================================
