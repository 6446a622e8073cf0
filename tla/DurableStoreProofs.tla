-------------------------- MODULE DurableStoreProofs --------------------------
(***************************************************************************)
(* The store of DurableStore.tla is atomic, for any processes, rows and    *)
(* mutations, and however often it fails or crashes: its type correctness, *)
(* AllOrNothing, ReadsCommitted, and the refinement of AtomicStore.        *)
(*                                                                         *)
(* The strengthening is StoreInv: every copy a process goes by, its state, *)
(* its draft, and the outcome of a commit it has not returned from, is a   *)
(* past content of the database; so equal revisions mean equal rows, and   *)
(* the rows a commit writes are those of the database plus its mutation.   *)
(***************************************************************************)
EXTENDS DurableStore, SequenceTheorems, TLAPS

-------------------------------------------------------------------------------
(* Snapshots.                                                              *)

\* A mutation applied to a snapshot counts one revision and adds to its rows.
LEMMA AppliedFacts ==
    ASSUME NEW s \in Snapshots, NEW m \in Calls
    PROVE  /\ Applied(s, m) \in Snapshots
           /\ Applied(s, m).rev = s.rev + 1
           /\ \A k \in Keys : Applied(s, m).rows[k] =
                 IF k \in Touches(m) THEN s.rows[k] \cup {m} ELSE s.rows[k]
  <1> DEFINE w == With(s.rows, {m})
  <1>1. s.rows \in [Keys -> SUBSET Calls] /\ s.rev + 1 \in Nat
    BY DEF Snapshots
  <1>2. w \in [Keys -> SUBSET Calls]
    BY <1>1 DEF With
  <1>3. \A k \in Keys : w[k] = IF k \in Touches(m) THEN s.rows[k] \cup {m} ELSE s.rows[k]
    BY DEF With
  <1>4. Applied(s, m) = [rev |-> s.rev + 1, rows |-> w]
    BY DEF Applied
  <1> HIDE DEF w
  <1> QED BY <1>1, <1>2, <1>3, <1>4 DEF Snapshots

\* It shows the mutations it showed and the new one, and holds likewise.
LEMMA AppliedHolds ==
    ASSUME NEW s \in Snapshots, NEW m \in Calls
    PROVE  /\ Holds(Applied(s, m)) = Holds(s) \cup {m}
           /\ Shows(Applied(s, m)) = Shows(s) \cup {m}
  <1>1. \A n \in Calls : Touches(n) # {} /\ Touches(n) \subseteq Keys
    BY StoreAssumption
  <1>2. \A k \in Keys : Applied(s, m).rows[k] =
           IF k \in Touches(m) THEN s.rows[k] \cup {m} ELSE s.rows[k]
    BY AppliedFacts
  <1>3. \A n \in Calls : \A k \in Touches(n) :
           n \in Applied(s, m).rows[k] <=> n \in s.rows[k] \/ n = m
    BY <1>1, <1>2
  <1> QED BY <1>1, <1>3 DEF Holds, Shows

-------------------------------------------------------------------------------
(* The strengthening.                                                      *)

PastOf(d, s) ==
    /\ s.rev <= d.rev
    /\ s.rev = d.rev => s.rows = d.rows
    /\ \A k \in Keys : s.rows[k] \subseteq d.rows[k]

Whole(s) == Shows(s) = Holds(s)

QueuesPending ==
    /\ \A p \in Procs : \A i \in 1 .. Len(queue[p]) : answer[queue[p][i]] = "pending"
    /\ \A p, q \in Procs : \A i \in 1 .. Len(queue[p]), j \in 1 .. Len(queue[q]) :
          queue[p][i] = queue[q][j] => p = q /\ i = j
    /\ \A p \in Procs : queue[p] # <<>> => mode[p] = "up"
    /\ \A p \in Procs : work[p] # "idle" => queue[p] # <<>>

CopiesPast ==
    \A p \in Procs :
        /\ mode[p] = "up" => db # Absent /\ PastOf(db, state[p])
        /\ work[p] = "drafting" => PastOf(db, draft[p])
        /\ work[p] = "committed" => PastOf(db, Applied(draft[p], Current(p)))

CreatorAlone ==
    \A p \in Procs : mode[p] = "creating" =>
        /\ db = Absent /\ temp[p] = Import
        /\ \A q \in Procs \ {p} : mode[q] = "down"

AllWhole ==
    /\ db # Absent => Whole(db)
    /\ legacy # Absent => Whole(legacy)
    /\ \A p \in Procs : Whole(state[p]) /\ Whole(draft[p]) /\ Whole(temp[p])

StoreInv == TypeOK /\ QueuesPending /\ CopiesPast /\ CreatorAlone /\ AllWhole

-------------------------------------------------------------------------------
\* A commit leaves what was past in the past.
LEMMA PastGrows ==
    ASSUME NEW d \in Snapshots, NEW s \in Snapshots, NEW m \in Calls, PastOf(d, s)
    PROVE  PastOf(Applied(d, m), s)
  <1> DEFINE e == Applied(d, m)
  <1>a. /\ e.rev = d.rev + 1
        /\ \A k \in Keys : e.rows[k] = IF k \in Touches(m) THEN d.rows[k] \cup {m} ELSE d.rows[k]
    BY AppliedFacts
  <1> HIDE DEF e
  <1>1. \A k \in Keys : d.rows[k] \subseteq e.rows[k]
    BY <1>a
  <1>2. s.rev \in Nat /\ d.rev \in Nat
    BY DEF Snapshots
  <1>3. s.rev <= d.rev /\ \A k \in Keys : s.rows[k] \subseteq d.rows[k]
    BY DEF PastOf
  <1>4. s.rev <= e.rev /\ s.rev # e.rev
    BY <1>a, <1>2, <1>3
  <1>5. PastOf(e, s)
    BY <1>1, <1>3, <1>4 DEF PastOf
  <1> QED BY <1>5 DEF e

LEMMA PastSelf == ASSUME NEW d \in Snapshots PROVE PastOf(d, d)
  BY DEF PastOf, Snapshots

\* A past content does not hold more than the present one.
LEMMA PastHolds ==
    ASSUME NEW d \in Snapshots, NEW s \in Snapshots, PastOf(d, s)
    PROVE  Holds(s) \subseteq Holds(d)
  BY StoreAssumption DEF PastOf, Holds

LEMMA EmptyFacts == Empty \in Snapshots /\ Whole(Empty) /\ Holds(Empty) = {}
  <1>1. Empty \in Snapshots
    BY DEF Empty, Snapshots
  <1>2. \A m \in Calls : Touches(m) # {} /\ Touches(m) \subseteq Keys
    BY StoreAssumption
  <1>3. \A k \in Keys : Empty.rows[k] = {}
    BY DEF Empty
  <1> QED BY <1>1, <1>2, <1>3 DEF Whole, Holds, Shows

\* The call a process is working on is one of its own, and pending.
LEMMA CurrentFacts ==
    ASSUME TypeOK, QueuesPending, NEW p \in Procs, work[p] # "idle"
    PROVE  /\ Current(p) \in Calls
           /\ Len(queue[p]) \in Nat \ {0}
           /\ Current(p) = queue[p][1]
           /\ answer[Current(p)] = "pending"
           /\ mode[p] = "up"
  <1>1. queue[p] \in Seq(Calls) /\ queue[p] # <<>> /\ mode[p] = "up"
    BY DEF TypeOK, QueuesPending
  <1>2. Len(queue[p]) \in Nat \ {0} /\ Current(p) = queue[p][1] /\ Current(p) \in Calls
    BY <1>1 DEF Current
  <1>3. answer[queue[p][1]] = "pending"
    BY <1>2 DEF QueuesPending
  <1> QED BY <1>1, <1>2, <1>3

\* What a commit writes is the database and its mutation.
LEMMA CommitFacts ==
    ASSUME TypeOK, QueuesPending, CopiesPast, NEW p \in Procs, Commit(p)
    PROVE  /\ db \in Snapshots /\ draft[p].rev = db.rev /\ draft[p].rows = db.rows
           /\ db' = Applied(db, Current(p))
  <1>1. work[p] = "drafting" /\ db' = Written(p) /\ db.rev = draft[p].rev
    BY DEF Commit, SameRevision
  <1>2. Current(p) \in Calls /\ mode[p] = "up"
    BY <1>1, CurrentFacts
  <1>3. db # Absent /\ PastOf(db, draft[p])
    BY <1>1, <1>2 DEF CopiesPast
  <1>4. db \in Snapshots /\ draft[p] \in Snapshots
    BY <1>3 DEF TypeOK
  <1>5. draft[p].rows = db.rows
    BY <1>1, <1>3 DEF PastOf
  <1>6. Written(p).rows = [k \in Keys |-> IF k \in Touches(Current(p))
                              THEN db.rows[k] \cup {Current(p)} ELSE db.rows[k]]
    BY <1>5 DEF Written
  <1>7. With(db.rows, {Current(p)}) = [k \in Keys |-> IF k \in Touches(Current(p))
                              THEN db.rows[k] \cup {Current(p)} ELSE db.rows[k]]
    <2>1. \A k \in Keys : db.rows[k] \cup {m \in {Current(p)} : k \in Touches(m)}
                          = IF k \in Touches(Current(p))
                            THEN db.rows[k] \cup {Current(p)} ELSE db.rows[k]
      OBVIOUS
    <2> QED BY <2>1 DEF With
  <1>8. Written(p) = [rev |-> db.rev + 1, rows |-> Written(p).rows]
    BY <1>1 DEF Written
  <1>9. Applied(db, Current(p)) = [rev |-> db.rev + 1, rows |-> With(db.rows, {Current(p)})]
    BY DEF Applied
  <1>10. Written(p) = Applied(db, Current(p))
    BY <1>6, <1>7, <1>8, <1>9
  <1> QED BY <1>1, <1>4, <1>5, <1>10

-------------------------------------------------------------------------------
(* Each conjunct is kept.                                                  *)

\* Settling the current call leaves the queues in order.
LEMMA FinishQueues ==
    ASSUME TypeOK, QueuesPending, NEW p \in Procs, work[p] # "idle",
           NEW told \in {"ok", "failed"}, Finish(p, told), mode' = mode
    PROVE  /\ QueuesPending'
           /\ queue' \in [Procs -> Seq(Calls)]
           /\ answer' \in [Calls -> {"none", "pending", "ok", "failed"}]
           /\ work' \in [Procs -> {"idle", "drafting", "committed", "rolledback"}]
  <1>1. /\ Current(p) \in Calls /\ Len(queue[p]) \in Nat \ {0}
        /\ Current(p) = queue[p][1]
    BY CurrentFacts
  <1>2. /\ queue \in [Procs -> Seq(Calls)]
        /\ answer \in [Calls -> {"none", "pending", "ok", "failed"}]
        /\ work \in [Procs -> {"idle", "drafting", "committed", "rolledback"}]
    BY DEF TypeOK
  <1>3. /\ queue' = [queue EXCEPT ![p] = Tail(queue[p])]
        /\ work' = [work EXCEPT ![p] = "idle"]
        /\ answer' = [answer EXCEPT ![Current(p)] = told]
    BY DEF Finish
  <1>4. /\ Tail(queue[p]) \in Seq(Calls)
        /\ Len(Tail(queue[p])) = Len(queue[p]) - 1
        /\ \A i \in 1 .. Len(Tail(queue[p])) : Tail(queue[p])[i] = queue[p][i + 1]
    BY <1>1, <1>2
  <1>5. \A q \in Procs : \A i \in 1 .. Len(queue'[q]) :
           \E j \in 1 .. Len(queue[q]) :
              /\ queue'[q][i] = queue[q][j]
              /\ j = IF q = p THEN i + 1 ELSE i
    <2> SUFFICES ASSUME NEW q \in Procs, NEW i \in 1 .. Len(queue'[q])
                 PROVE  \E j \in 1 .. Len(queue[q]) :
                           /\ queue'[q][i] = queue[q][j]
                           /\ j = IF q = p THEN i + 1 ELSE i
      OBVIOUS
    <2>1. CASE q = p
      <3>1. queue'[q] = Tail(queue[p])
        BY <1>2, <1>3, <2>1
      <3>2. i + 1 \in 1 .. Len(queue[q]) /\ queue'[q][i] = queue[q][i + 1]
        BY <1>1, <1>4, <2>1, <3>1
      <3> QED BY <2>1, <3>2
    <2>2. CASE q # p
      BY <1>2, <1>3, <2>2
    <2> QED BY <2>1, <2>2
  <1>6. \A q \in Procs : Len(queue[q]) \in Nat
    BY <1>2
  <1>7. \A q \in Procs : \A i \in 1 .. Len(queue'[q]) : answer'[queue'[q][i]] = "pending"
    <2> SUFFICES ASSUME NEW q \in Procs, NEW i \in 1 .. Len(queue'[q])
                 PROVE  answer'[queue'[q][i]] = "pending"
      OBVIOUS
    <2>1. PICK j \in 1 .. Len(queue[q]) : /\ queue'[q][i] = queue[q][j]
                                          /\ j = IF q = p THEN i + 1 ELSE i
      BY <1>5
    <2>2. Len(queue'[q]) \in Nat /\ i \in Nat \ {0}
      BY <1>2, <1>3, <1>4
    <2>3. ~(q = p /\ j = 1)
      BY <2>1, <2>2
    <2>4. answer[queue[q][j]] = "pending" /\ (queue[q][j] = queue[p][1] => q = p /\ j = 1)
      BY <1>1 DEF QueuesPending
    <2>5. queue[q][j] \in Calls
      BY <1>2
    <2> QED BY <1>1, <1>2, <1>3, <2>1, <2>3, <2>4, <2>5
  <1>8. \A q, r \in Procs : \A i \in 1 .. Len(queue'[q]), j \in 1 .. Len(queue'[r]) :
           queue'[q][i] = queue'[r][j] => q = r /\ i = j
    <2> SUFFICES ASSUME NEW q \in Procs, NEW r \in Procs, NEW i \in 1 .. Len(queue'[q]),
                        NEW j \in 1 .. Len(queue'[r]), queue'[q][i] = queue'[r][j]
                 PROVE  q = r /\ i = j
      OBVIOUS
    <2>1. PICK a \in 1 .. Len(queue[q]) : /\ queue'[q][i] = queue[q][a]
                                          /\ a = IF q = p THEN i + 1 ELSE i
      BY <1>5
    <2>2. PICK b \in 1 .. Len(queue[r]) : /\ queue'[r][j] = queue[r][b]
                                          /\ b = IF r = p THEN j + 1 ELSE j
      BY <1>5
    <2>5. queue[q][a] = queue[r][b]
      BY <2>1, <2>2
    <2>6. \A x, y \in Procs : \A k \in 1 .. Len(queue[x]), l \in 1 .. Len(queue[y]) :
             queue[x][k] = queue[y][l] => x = y /\ k = l
      BY DEF QueuesPending
    <2>7. \A k \in 1 .. Len(queue[q]), l \in 1 .. Len(queue[r]) :
             queue[q][k] = queue[r][l] => q = r /\ k = l
      BY ONLY <2>6, q \in Procs, r \in Procs, ZenonT(60)
    <2>8. \A l \in 1 .. Len(queue[r]) : queue[q][a] = queue[r][l] => q = r /\ a = l
      BY ONLY <2>7, a \in 1 .. Len(queue[q]), ZenonT(60)
    <2>3. q = r /\ a = b
      BY ONLY <2>5, <2>8, b \in 1 .. Len(queue[r]), ZenonT(60)
    <2>4. Len(queue'[q]) \in Nat /\ Len(queue'[r]) \in Nat
      BY <1>2, <1>3, <1>4
    <2> QED BY <2>1, <2>2, <2>3, <2>4
  <1>9. \A q \in Procs : (queue'[q] # <<>> => mode'[q] = "up") /\ (work'[q] # "idle" => queue'[q] # <<>>)
    BY <1>1, <1>2, <1>3 DEF QueuesPending
  <1>10. queue' \in [Procs -> Seq(Calls)]
    BY <1>2, <1>3, <1>4
  <1>11. /\ answer' \in [Calls -> {"none", "pending", "ok", "failed"}]
         /\ work' \in [Procs -> {"idle", "drafting", "committed", "rolledback"}]
    BY <1>2, <1>3
  <1> QED BY <1>7, <1>8, <1>9, <1>10, <1>11 DEF QueuesPending

StepOf(p) ==
    \/ Open(p) \/ CreateDatabaseFile(p) \/ Publish(p)
    \/ \E m \in Calls : Mutate(p, m)
    \/ Work(p)
    \/ ExportLegacy(p) \/ Close(p) \/ Crash(p)

\* The queues are kept in order.
LEMMA QueuesKept ==
    ASSUME TypeOK, QueuesPending, NEW p \in Procs,
           StepOf(p)
    PROVE  /\ QueuesPending'
           /\ queue' \in [Procs -> Seq(Calls)]
           /\ answer' \in [Calls -> {"none", "pending", "ok", "failed"}]
           /\ work' \in [Procs -> {"idle", "drafting", "committed", "rolledback"}]
           /\ mode' \in [Procs -> {"down", "creating", "up"}]
  <1>1. /\ queue \in [Procs -> Seq(Calls)]
        /\ answer \in [Calls -> {"none", "pending", "ok", "failed"}]
        /\ work \in [Procs -> {"idle", "drafting", "committed", "rolledback"}]
        /\ mode \in [Procs -> {"down", "creating", "up"}]
        /\ \A q \in Procs : Len(queue[q]) \in Nat
    BY DEF TypeOK
  <1>2. CASE Open(p) \/ CreateDatabaseFile(p) \/ Publish(p)
    <2>1. mode[p] # "up" /\ UNCHANGED <<queue, answer, work>>
      BY <1>2 DEF Open, CreateDatabaseFile, Publish
    <2>2. mode' \in [Procs -> {"down", "creating", "up"}] /\ \A q \in Procs : mode[q] = "up" => mode'[q] = "up"
      BY <1>1, <1>2, <2>1 DEF Open, CreateDatabaseFile, Publish
    <2> QED BY <1>1, <2>1, <2>2 DEF QueuesPending
  <1>3. CASE ExportLegacy(p)
    BY <1>1, <1>3 DEF ExportLegacy, QueuesPending
  <1>4. CASE Close(p)
    BY <1>1, <1>4 DEF Close, QueuesPending
  <1>5. CASE Begin(p) \/ Commit(p) \/ RollBack(p)
    <2>1. UNCHANGED <<mode, queue, answer>> /\ queue[p] # <<>>
      BY <1>5 DEF Begin, Commit, RollBack, QueuesPending
    <2>2. /\ work' \in [Procs -> {"idle", "drafting", "committed", "rolledback"}]
          /\ \A q \in Procs \ {p} : work'[q] = work[q]
      BY <1>1, <1>5 DEF Begin, Commit, RollBack
    <2> QED BY <1>1, <2>1, <2>2 DEF QueuesPending
  <1>6. CASE Noop(p) \/ MutatorThrows(p) \/ Return(p) \/ Throw(p)
    <2>1. /\ work[p] # "idle" /\ mode' = mode
          /\ Finish(p, "ok") \/ Finish(p, "failed")
      BY <1>6 DEF Noop, MutatorThrows, Return, Throw
    <2> QED BY <1>1, <2>1, FinishQueues
  <1>7. CASE \E m \in Calls : Mutate(p, m)
    <2>1. PICK m \in Calls : Mutate(p, m)
      BY <1>7
    <2>2. /\ mode[p] = "up" /\ answer[m] # "pending"
          /\ answer' = [answer EXCEPT ![m] = "pending"]
          /\ queue' = [queue EXCEPT ![p] = Append(queue[p], m)]
          /\ mode' = mode /\ work' = work
      BY <1>1, <2>1 DEF Mutate
    <2>3. /\ Append(queue[p], m) \in Seq(Calls)
          /\ Len(Append(queue[p], m)) = Len(queue[p]) + 1
          /\ \A i \in 1 .. Len(queue[p]) : Append(queue[p], m)[i] = queue[p][i]
          /\ Append(queue[p], m)[Len(queue[p]) + 1] = m
      BY <1>1
    <2>4. \A q \in Procs, i \in Nat : i \in 1 .. Len(queue'[q]) =>
             \/ q = p /\ i = Len(queue[p]) + 1 /\ queue'[q][i] = m
             \/ i \in 1 .. Len(queue[q]) /\ queue'[q][i] = queue[q][i]
      BY <1>1, <2>2, <2>3
    <2>5. \A q \in Procs : \A i \in 1 .. Len(queue[q]) : queue[q][i] # m /\ queue[q][i] \in Calls
      BY <1>1, <2>2 DEF QueuesPending
    <2>6. \A q \in Procs : \A i \in 1 .. Len(queue'[q]) : answer'[queue'[q][i]] = "pending"
      BY <1>1, <2>2, <2>4, <2>5 DEF QueuesPending
    <2>7. \A q, r \in Procs : \A i \in 1 .. Len(queue'[q]), j \in 1 .. Len(queue'[r]) :
             queue'[q][i] = queue'[r][j] => q = r /\ i = j
      <3> SUFFICES ASSUME NEW q \in Procs, NEW r \in Procs, NEW i \in 1 .. Len(queue'[q]),
                          NEW j \in 1 .. Len(queue'[r]), queue'[q][i] = queue'[r][j]
                   PROVE  q = r /\ i = j
        OBVIOUS
      <3>1. \/ q = p /\ i = Len(queue[p]) + 1 /\ queue'[q][i] = m
            \/ i \in 1 .. Len(queue[q]) /\ queue'[q][i] = queue[q][i]
        BY <2>4
      <3>2. \/ r = p /\ j = Len(queue[p]) + 1 /\ queue'[r][j] = m
            \/ j \in 1 .. Len(queue[r]) /\ queue'[r][j] = queue[r][j]
        BY <2>4
      <3>3. \A x, y \in Procs : \A k \in 1 .. Len(queue[x]), l \in 1 .. Len(queue[y]) :
               queue[x][k] = queue[y][l] => x = y /\ k = l
        BY DEF QueuesPending
      <3>4. CASE queue'[q][i] = m
        <4>1. q = p /\ i = Len(queue[p]) + 1
          BY <2>5, <3>1, <3>4
        <4>2. r = p /\ j = Len(queue[p]) + 1
          BY <2>5, <3>2, <3>4
        <4> QED BY <4>1, <4>2
      <3>5. CASE queue'[q][i] # m
        <4>1. i \in 1 .. Len(queue[q]) /\ queue'[q][i] = queue[q][i]
          BY <3>1, <3>5
        <4>2. j \in 1 .. Len(queue[r]) /\ queue'[r][j] = queue[r][j]
          BY <3>2, <3>5
        <4>3. queue[q][i] = queue[r][j]
          BY <4>1, <4>2
        <4>4. \A l \in 1 .. Len(queue[r]) : queue[q][i] = queue[r][l] => q = r /\ i = l
          BY <3>3, <4>1
        <4> QED BY <4>2, <4>3, <4>4
      <3> QED BY <3>4, <3>5
    <2>8. \A q \in Procs : (queue'[q] # <<>> => mode'[q] = "up") /\ (work'[q] # "idle" => queue'[q] # <<>>)
      BY <1>1, <2>2, <2>3, SMTT(20) DEF QueuesPending
    <2>9. queue' \in [Procs -> Seq(Calls)] /\ answer' \in [Calls -> {"none", "pending", "ok", "failed"}]
      BY <1>1, <2>2, <2>3
    <2> QED BY <1>1, <2>2, <2>6, <2>7, <2>8, <2>9 DEF QueuesPending
  <1>8. CASE Crash(p)
    <2>1. /\ queue' = [queue EXCEPT ![p] = <<>>]
          /\ mode' = [mode EXCEPT ![p] = "down"]
          /\ work' = [work EXCEPT ![p] = "idle"]
          /\ answer' = [m \in Calls |-> IF \E i \in 1 .. Len(queue[p]) : queue[p][i] = m
                                        THEN "none" ELSE answer[m]]
      BY <1>8 DEF Crash
    <2>2. <<>> \in Seq(Calls) /\ Len(<<>>) = 0
      OBVIOUS
    <2>3. \A q \in Procs : \A i \in 1 .. Len(queue'[q]) :
             q # p /\ i \in 1 .. Len(queue[q]) /\ queue'[q][i] = queue[q][i]
      BY <1>1, <2>1, <2>2
    <2>4. \A q \in Procs : \A i \in 1 .. Len(queue'[q]) : answer'[queue'[q][i]] = "pending"
      <3> SUFFICES ASSUME NEW q \in Procs, NEW i \in 1 .. Len(queue'[q])
                   PROVE  answer'[queue'[q][i]] = "pending"
        OBVIOUS
      <3>1. q # p /\ i \in 1 .. Len(queue[q]) /\ queue'[q][i] = queue[q][i]
        BY <2>3
      <3>2. ~\E j \in 1 .. Len(queue[p]) : queue[p][j] = queue[q][i]
        BY <3>1 DEF QueuesPending
      <3>3. queue[q][i] \in Calls /\ answer[queue[q][i]] = "pending"
        BY <1>1, <3>1 DEF QueuesPending
      <3> QED BY <2>1, <3>1, <3>2, <3>3
    <2>5. \A q, r \in Procs : \A i \in 1 .. Len(queue'[q]), j \in 1 .. Len(queue'[r]) :
             queue'[q][i] = queue'[r][j] => q = r /\ i = j
      BY <2>3 DEF QueuesPending
    <2>6. \A q \in Procs : (queue'[q] # <<>> => mode'[q] = "up") /\ (work'[q] # "idle" => queue'[q] # <<>>)
      BY <1>1, <2>1 DEF QueuesPending
    <2>7. /\ queue' \in [Procs -> Seq(Calls)]
          /\ answer' \in [Calls -> {"none", "pending", "ok", "failed"}]
          /\ work' \in [Procs -> {"idle", "drafting", "committed", "rolledback"}]
          /\ mode' \in [Procs -> {"down", "creating", "up"}]
      BY <1>1, <2>1, <2>2
    <2> QED BY <2>4, <2>5, <2>6, <2>7 DEF QueuesPending
  <1> QED BY <1>2, <1>3, <1>4, <1>5, <1>6, <1>7, <1>8 DEF StepOf, Work

\* A step of the store, as seen by the files: a commit, a publication, an
\* export, or none of them.
LEMMA FilesStep ==
    ASSUME StoreInv, NEW p \in Procs,
           StepOf(p)
    PROVE  \/ UNCHANGED files
           \/ db # Absent /\ mode[p] = "up" /\ legacy' = db /\ db' = db
           \/ mode[p] = "creating" /\ db = Absent /\ db' = Import /\ legacy' = legacy
           \/ /\ Commit(p) /\ legacy' = legacy
              /\ db \in Snapshots /\ Current(p) \in Calls /\ answer[Current(p)] = "pending"
              /\ db' = Applied(db, Current(p))
  <1>1. CASE Publish(p)
    BY <1>1 DEF Publish, StoreInv, CreatorAlone
  <1>2. CASE Commit(p)
    <2>1. work[p] # "idle" /\ legacy' = legacy
      BY <1>2 DEF Commit
    <2> QED BY <1>2, <2>1, CommitFacts, CurrentFacts DEF StoreInv
  <1>3. CASE ExportLegacy(p)
    BY <1>3 DEF ExportLegacy, StoreInv, CopiesPast
  <1>4. CASE Open(p) \/ CreateDatabaseFile(p) \/ Close(p) \/ Crash(p) \/ \E m \in Calls : Mutate(p, m)
    BY <1>4 DEF Open, CreateDatabaseFile, Close, Crash, Mutate, files
  <1>5. CASE Begin(p) \/ Noop(p) \/ MutatorThrows(p) \/ RollBack(p) \/ Return(p) \/ Throw(p)
    BY <1>5 DEF Begin, Noop, MutatorThrows, RollBack, Return, Throw, files
  <1> QED BY <1>1, <1>2, <1>3, <1>4, <1>5 DEF StepOf, Work

\* What is in the past of the database stays there.
LEMMA PastKept ==
    ASSUME NEW d, NEW e, NEW m \in Calls, d \in Snapshots, e = d \/ e = Applied(d, m),
           NEW s \in Snapshots, PastOf(d, s)
    PROVE  e \in Snapshots /\ PastOf(e, s)
  BY PastGrows, AppliedFacts

\* A step of one process leaves what another one goes by alone.
LEMMA OthersKeep ==
    ASSUME TypeOK, NEW p \in Procs, NEW q \in Procs, q # p, StepOf(p)
    PROVE  /\ mode'[q] = mode[q] /\ temp'[q] = temp[q] /\ state'[q] = state[q]
           /\ draft'[q] = draft[q] /\ work'[q] = work[q] /\ queue'[q] = queue[q]
  <1>1. /\ mode \in [Procs -> {"down", "creating", "up"}]
        /\ temp \in [Procs -> Snapshots] /\ state \in [Procs -> Snapshots]
        /\ draft \in [Procs -> Snapshots] /\ queue \in [Procs -> Seq(Calls)]
        /\ work \in [Procs -> {"idle", "drafting", "committed", "rolledback"}]
    BY DEF TypeOK
  <1>2. CASE Open(p)
    BY <1>1, <1>2 DEF Open
  <1>3. CASE CreateDatabaseFile(p)
    BY <1>1, <1>3 DEF CreateDatabaseFile
  <1>4. CASE Publish(p)
    BY <1>1, <1>4 DEF Publish
  <1>5. CASE \E m \in Calls : Mutate(p, m)
    BY <1>1, <1>5 DEF Mutate
  <1>6. CASE Begin(p) \/ Commit(p) \/ RollBack(p)
    BY <1>1, <1>6 DEF Begin, Commit, RollBack
  <1>7. CASE Noop(p) \/ MutatorThrows(p) \/ Return(p)
    BY <1>1, <1>7 DEF Noop, MutatorThrows, Return, Finish
  <1>8. CASE Throw(p)
    BY <1>1, <1>8 DEF Throw, Finish
  <1>9. CASE ExportLegacy(p) \/ Close(p)
    BY <1>1, <1>9 DEF ExportLegacy, Close
  <1>10. CASE Crash(p)
    BY <1>1, <1>10 DEF Crash
  <1> QED BY <1>2, <1>3, <1>4, <1>5, <1>6, <1>7, <1>8, <1>9, <1>10 DEF StepOf, Work

\* What the stepping process goes by afterwards: what it went by, a reading of
\* the files, or the outcome of its commit.
LEMMA OwnCopies ==
    ASSUME StoreInv, NEW p \in Procs, StepOf(p)
    PROVE  /\ \/ state'[p] = state[p]
              \/ db # Absent /\ db' = db /\ state'[p] = db
              \/ mode[p] = "creating" /\ db' = Import /\ state'[p] = Import
              \/ /\ work[p] = "committed" /\ db' = db
                 /\ state'[p] = Applied(draft[p], Current(p))
           /\ draft'[p] = draft[p] \/ (mode[p] = "up" /\ db' = db /\ draft'[p] = state[p])
           /\ temp'[p] = temp[p] \/ temp'[p] = Import
  <1>1. /\ mode \in [Procs -> {"down", "creating", "up"}]
        /\ temp \in [Procs -> Snapshots] /\ state \in [Procs -> Snapshots]
        /\ draft \in [Procs -> Snapshots]
    BY DEF StoreInv, TypeOK
  <1>2. CASE Open(p)
    BY <1>1, <1>2 DEF Open, files
  <1>3. CASE CreateDatabaseFile(p)
    BY <1>1, <1>3 DEF CreateDatabaseFile
  <1>4. CASE Publish(p)
    BY <1>1, <1>4 DEF Publish, StoreInv, CreatorAlone
  <1>5. CASE \E m \in Calls : Mutate(p, m)
    BY <1>1, <1>5 DEF Mutate
  <1>6. CASE Commit(p) \/ RollBack(p) \/ Noop(p) \/ MutatorThrows(p) \/ Close(p) \/ Crash(p)
    BY <1>1, <1>6 DEF Commit, RollBack, Noop, MutatorThrows, Close, Crash
  <1>7. CASE Begin(p)
    <2>1. mode[p] = "up"
      BY <1>7 DEF Begin, StoreInv, QueuesPending
    <2> QED BY <1>1, <1>7, <2>1 DEF Begin, files
  <1>8. CASE Return(p)
    BY <1>1, <1>8 DEF Return, files
  <1>9. CASE Throw(p)
    <2>1. work[p] # "idle"
      BY <1>9 DEF Throw
    <2>2. mode[p] = "up"
      BY <2>1, CurrentFacts DEF StoreInv
    <2>3. db # Absent
      BY <2>2 DEF StoreInv, CopiesPast
    <2> QED BY <1>1, <1>9, <2>3 DEF Throw, Reloaded, files
  <1>10. CASE ExportLegacy(p)
    BY <1>1, <1>10 DEF ExportLegacy, StoreInv, CopiesPast
  <1> QED BY <1>2, <1>3, <1>4, <1>5, <1>6, <1>7, <1>8, <1>9, <1>10 DEF StepOf, Work

\* Every copy stays a past content of the database.
LEMMA CopiesKept ==
    ASSUME StoreInv, NEW p \in Procs, StepOf(p)
    PROVE  CopiesPast'
  <1>1. /\ mode \in [Procs -> {"down", "creating", "up"}]
        /\ temp \in [Procs -> Snapshots] /\ state \in [Procs -> Snapshots]
        /\ draft \in [Procs -> Snapshots] /\ queue \in [Procs -> Seq(Calls)]
        /\ work \in [Procs -> {"idle", "drafting", "committed", "rolledback"}]
        /\ db \in Snapshots \cup {Absent} /\ Absent \notin Snapshots
        /\ TypeOK /\ QueuesPending /\ CopiesPast
    BY StoreAssumption DEF StoreInv, TypeOK, Snapshots
  <1>2. \A q \in Procs : mode[q] # "up" => work[q] = "idle" /\ queue[q] = <<>>
    BY <1>1 DEF QueuesPending
  <1>3. \A q \in Procs : work[q] # "idle" => Current(q) \in Calls /\ mode[q] = "up"
    BY <1>1, CurrentFacts
  <1>4. \A q \in Procs : mode[q] = "up" =>
           \/ db' = db
           \/ \E m \in Calls : db' = Applied(db, m)
    BY FilesStep DEF StoreInv, CreatorAlone, CopiesPast, files
  <1>5. ASSUME NEW q \in Procs, mode[q] = "up", NEW s \in Snapshots, PastOf(db, s)
        PROVE  db' # Absent /\ PastOf(db', s)
    <2>1. db \in Snapshots
      BY <1>1, <1>5 DEF CopiesPast
    <2>2. CASE db' = db
      BY <1>1, <1>5, <2>1, <2>2
    <2>3. CASE \E m \in Calls : db' = Applied(db, m)
      <3>1. PICK m \in Calls : db' = Applied(db, m)
        BY <2>3
      <3>2. db' \in Snapshots /\ PastOf(db', s)
        BY <1>5, <2>1, <3>1, PastKept
      <3> QED BY <1>1, <3>2
    <2> QED BY <1>4, <1>5, <2>2, <2>3
  <1> DEFINE Keeps(q) == /\ mode'[q] = "up" => db' # Absent /\ PastOf(db', state'[q])
                         /\ work'[q] = "drafting" => PastOf(db', draft'[q])
                         /\ work'[q] = "committed" => PastOf(db', Applied(draft'[q], Head(queue'[q])))
  <1>6. ASSUME NEW q \in Procs, work[q] = "committed"
        PROVE  PastOf(db, Applied(draft[q], Head(queue[q]))) /\ Applied(draft[q], Head(queue[q])) \in Snapshots
    BY <1>1, <1>3, <1>6, AppliedFacts DEF CopiesPast, Current
  <1>7. ASSUME NEW q \in Procs, mode'[q] = mode[q], state'[q] = state[q], draft'[q] = draft[q],
               work'[q] = work[q], queue'[q] = queue[q]
        PROVE  Keeps(q)
    <2>1. CASE mode[q] = "up"
      <3>1. PastOf(db, state[q]) /\ (work[q] = "drafting" => PastOf(db, draft[q]))
        BY <1>1, <2>1 DEF CopiesPast
      <3>2. db' # Absent /\ PastOf(db', state[q])
        BY <1>1, <1>5, <2>1, <3>1
      <3>3. work[q] = "drafting" => PastOf(db', draft[q])
        BY <1>1, <1>5, <2>1, <3>1
      <3>4. work[q] = "committed" => PastOf(db', Applied(draft[q], Head(queue[q])))
        BY <1>5, <1>6, <2>1
      <3> QED BY <1>7, <3>2, <3>3, <3>4
    <2>2. CASE mode[q] # "up"
      BY <1>2, <1>7, <2>2
    <2> QED BY <2>1, <2>2
  <1>8. \A q \in Procs \ {p} : Keeps(q)
    BY <1>1, <1>7, OthersKeep
  <1>9. Keeps(p)
    <2>1. CASE Open(p)
      <3>1. db' = db /\ db \in Snapshots /\ state'[p] = db /\ work'[p] = "idle"
        BY <1>1, <1>2, <2>1 DEF Open, files
      <3> QED BY <1>1, <3>1, PastSelf
    <2>2. CASE CreateDatabaseFile(p)
      <3>1. mode'[p] = "creating" /\ work'[p] = "idle"
        BY <1>1, <1>2, <2>2 DEF CreateDatabaseFile
      <3> QED BY <3>1
    <2>3. CASE Publish(p)
      <3>1. db' = temp[p] /\ state'[p] = temp[p] /\ work'[p] = "idle" /\ temp[p] \in Snapshots
        BY <1>1, <1>2, <2>3 DEF Publish
      <3> QED BY <1>1, <3>1, PastSelf
    <2>4. CASE \E m \in Calls : Mutate(p, m)
      <3>1. PICK m \in Calls : Mutate(p, m)
        BY <2>4
      <3>2. /\ mode[p] = "up" /\ mode'[p] = mode[p] /\ state'[p] = state[p]
            /\ draft'[p] = draft[p] /\ work'[p] = work[p] /\ db' = db
            /\ queue'[p] = Append(queue[p], m)
        BY <1>1, <3>1 DEF Mutate, files
      <3>3. work[p] = "committed" => Head(queue'[p]) = Head(queue[p])
        BY <1>1, <3>2 DEF QueuesPending
      <3> QED BY <1>1, <1>6, <3>2, <3>3 DEF CopiesPast
    <2>5. CASE Begin(p)
      <3>1. /\ mode[p] = "up" /\ db' = db /\ state'[p] = state[p]
            /\ draft'[p] = state[p] /\ work'[p] = "drafting"
        BY <1>1, <2>5 DEF Begin, files, QueuesPending
      <3> QED BY <1>1, <3>1 DEF CopiesPast
    <2>6. CASE Commit(p)
      <3>1. /\ work[p] = "drafting" /\ work'[p] = "committed" /\ state'[p] = state[p]
            /\ draft'[p] = draft[p] /\ queue'[p] = queue[p] /\ Head(queue[p]) = Current(p)
        BY <1>1, <2>6 DEF Commit, Current
      <3>2. /\ db \in Snapshots /\ draft[p].rev = db.rev /\ draft[p].rows = db.rows
            /\ db' = Applied(db, Current(p)) /\ Current(p) \in Calls /\ mode[p] = "up"
        BY <1>1, <1>3, <2>6, <3>1, CommitFacts
      <3>3. Applied(draft[p], Current(p)) = db'
        BY <3>2 DEF Applied
      <3>4. db' \in Snapshots /\ PastOf(db', db')
        BY <3>2, AppliedFacts, PastSelf
      <3>5. PastOf(db', state[p])
        BY <1>1, <1>5, <3>2 DEF CopiesPast
      <3> QED BY <1>1, <3>1, <3>3, <3>4, <3>5
    <2>7. CASE RollBack(p)
      <3>1. /\ work[p] = "drafting" /\ work'[p] = "rolledback" /\ state'[p] = state[p] /\ db' = db
        BY <1>1, <2>7 DEF RollBack, files
      <3> QED BY <1>1, <1>3, <3>1 DEF CopiesPast
    <2>8. CASE Noop(p) \/ MutatorThrows(p)
      <3>1. work[p] = "drafting" /\ work'[p] = "idle" /\ state'[p] = state[p] /\ db' = db
        BY <1>1, <2>8 DEF Noop, MutatorThrows, Finish, files
      <3> QED BY <1>1, <1>3, <3>1 DEF CopiesPast
    <2>9. CASE Return(p)
      <3>1. /\ work[p] = "committed" /\ work'[p] = "idle" /\ db' = db
            /\ state'[p] = Applied(draft[p], Current(p))
        BY <1>1, <2>9 DEF Return, Finish, files
      <3> QED BY <1>1, <1>3, <3>1 DEF CopiesPast
    <2>10. CASE Throw(p)
      <3>1. /\ work[p] # "idle" /\ work'[p] = "idle" /\ db' = db
            /\ state'[p] = state[p] \/ state'[p] = db
        BY <1>1, <2>10 DEF Throw, Finish, Reloaded, files
      <3>2. db # Absent /\ PastOf(db, state[p]) /\ PastOf(db, db)
        BY <1>1, <1>3, <3>1, PastSelf DEF CopiesPast
      <3> QED BY <3>1, <3>2
    <2>11. CASE ExportLegacy(p)
      <3>1. /\ mode[p] = "up" /\ db' = db /\ state'[p] = db /\ draft'[p] = draft[p]
            /\ work'[p] = work[p] /\ queue'[p] = queue[p]
        BY <1>1, <2>11 DEF ExportLegacy
      <3>2. db # Absent /\ PastOf(db, db)
        BY <1>1, <3>1, PastSelf DEF CopiesPast
      <3> QED BY <1>1, <1>6, <3>1, <3>2 DEF CopiesPast
    <2>12. CASE Close(p) \/ Crash(p)
      <3>1. mode'[p] = "down" /\ work'[p] = "idle"
        BY <1>1, <2>12 DEF Close, Crash, QueuesPending
      <3> QED BY <3>1
    <2> QED BY <2>1, <2>2, <2>3, <2>4, <2>5, <2>6, <2>7, <2>8, <2>9, <2>10, <2>11, <2>12
            DEF StepOf, Work
  <1>10. \A q \in Procs : Keeps(q)
    BY <1>8, <1>9
  <1> QED BY <1>10 DEF CopiesPast, Current


\* Only one process creates the file, and nothing is running beside it.
LEMMA CreatorKept ==
    ASSUME StoreInv, NEW p \in Procs, StepOf(p)
    PROVE  CreatorAlone'
  <1>1. /\ mode \in [Procs -> {"down", "creating", "up"}]
        /\ temp \in [Procs -> Snapshots]
        /\ TypeOK /\ QueuesPending /\ CopiesPast /\ CreatorAlone
    BY DEF StoreInv, TypeOK
  <1>2. mode[p] # "up" => work[p] = "idle" /\ queue[p] = <<>>
    BY <1>1 DEF QueuesPending
  <1>3. CASE CreateDatabaseFile(p)
    <2>1. /\ \A q \in Procs : mode[q] = "down"
          /\ db = Absent /\ db' = db /\ legacy' = legacy
          /\ mode' = [mode EXCEPT ![p] = "creating"]
          /\ temp' = [temp EXCEPT ![p] = Import]
      BY <1>3 DEF CreateDatabaseFile, files
    <2>2. Import' = Import
      BY <2>1 DEF Import
    <2>3. /\ \A q \in Procs \ {p} : mode'[q] = "down"
          /\ temp'[p] = Import
      BY <1>1, <2>1
    <2> QED BY <1>1, <2>1, <2>2, <2>3 DEF CreatorAlone
  <1>4. CASE ~CreateDatabaseFile(p)
    <2>1. mode'[p] # "creating"
      BY <1>1, <1>2, <1>4 DEF StepOf, Work, Open, Publish, Mutate, Begin, Noop, MutatorThrows,
            Commit, RollBack, Return, Throw, ExportLegacy, Close, Crash
    <2>2. ASSUME NEW q \in Procs, q # p, mode[q] = "creating" PROVE FALSE
      <3>1. mode[p] = "down" /\ db = Absent
        BY <1>1, <2>2 DEF CreatorAlone
      <3> QED BY <1>2, <1>4, <3>1 DEF StepOf, Work, Open, Publish, Mutate, Begin, Noop,
            MutatorThrows, Commit, RollBack, Return, Throw, ExportLegacy, Close, Crash
    <2>3. \A q \in Procs \ {p} : mode'[q] # "creating"
      BY <1>1, <2>2, OthersKeep
    <2> QED BY <2>1, <2>3 DEF CreatorAlone
  <1> QED BY <1>3, <1>4

\* The files show whole mutations, and so does what is read from them.
LEMMA WholeKept ==
    ASSUME StoreInv, NEW p \in Procs, StepOf(p)
    PROVE  AllWhole'
  <1>1. /\ TypeOK /\ QueuesPending /\ CopiesPast /\ AllWhole
        /\ \A q \in Procs : state[q] \in Snapshots /\ draft[q] \in Snapshots
        /\ Whole(Import)
    BY EmptyFacts DEF StoreInv, TypeOK, AllWhole, Import
  <1>2. \A s \in Snapshots, m \in Calls : Whole(s) => Whole(Applied(s, m))
    BY AppliedHolds DEF Whole
  <1>3. (db' # Absent => Whole(db')) /\ (legacy' # Absent => Whole(legacy'))
    <2>1. CASE Commit(p) /\ legacy' = legacy /\ db \in Snapshots /\ Current(p) \in Calls
               /\ db' = Applied(db, Current(p))
      <3>1. db # Absent
        BY <2>1, StoreAssumption DEF Snapshots
      <3>2. Whole(db) /\ (legacy' # Absent => Whole(legacy'))
        BY <1>1, <2>1, <3>1 DEF AllWhole
      <3>3. Whole(Applied(db, Current(p)))
        BY <1>2, <2>1, <3>2
      <3> QED BY <2>1, <3>2, <3>3
    <2>2. CASE \/ UNCHANGED files
               \/ db # Absent /\ mode[p] = "up" /\ legacy' = db /\ db' = db
               \/ mode[p] = "creating" /\ db = Absent /\ db' = Import /\ legacy' = legacy
      BY <1>1, <2>2 DEF AllWhole, files
    <2> QED BY <2>1, <2>2, FilesStep
  <1>4. ASSUME NEW q \in Procs
        PROVE  Whole(state'[q]) /\ Whole(draft'[q]) /\ Whole(temp'[q])
    <2>1. Whole(state[q]) /\ Whole(draft[q]) /\ Whole(temp[q])
      BY <1>1 DEF AllWhole
    <2>2. CASE q # p
      BY <2>1, <2>2, <1>1, OthersKeep
    <2>3. CASE q = p
      <3>1. db # Absent => Whole(db)
        BY <1>1 DEF AllWhole
      <3>2. work[p] = "committed" => Current(p) \in Calls
        BY <1>1, CurrentFacts
      <3>3. work[p] = "committed" => Whole(Applied(draft[p], Current(p)))
        BY <1>1, <1>2, <2>1, <2>3, <3>2
      <3> QED BY <1>1, <2>1, <2>3, <3>1, <3>3, OwnCopies
    <2> QED BY <2>2, <2>3
  <1> QED BY <1>3, <1>4 DEF AllWhole

\* Everything keeps its type.
LEMMA TypedKept ==
    ASSUME StoreInv, NEW p \in Procs, StepOf(p)
    PROVE  TypeOK'
  <1>1. /\ mode \in [Procs -> {"down", "creating", "up"}]
        /\ temp \in [Procs -> Snapshots] /\ state \in [Procs -> Snapshots]
        /\ draft \in [Procs -> Snapshots]
        /\ db \in Snapshots \cup {Absent} /\ legacy \in Snapshots \cup {Absent}
        /\ faults \in Nat /\ crashes \in Nat
        /\ TypeOK /\ QueuesPending /\ CopiesPast
    BY DEF StoreInv, TypeOK
  <1>2. Import \in Snapshots
    BY <1>1, EmptyFacts DEF Import
  <1>3. db' \in Snapshots \cup {Absent} /\ legacy' \in Snapshots \cup {Absent}
    BY <1>1, <1>2, FilesStep, AppliedFacts DEF files
  <1>4. ASSUME NEW q \in Procs
        PROVE  state'[q] \in Snapshots /\ draft'[q] \in Snapshots /\ temp'[q] \in Snapshots
    <2>1. CASE q # p
      BY <1>1, <2>1, OthersKeep
    <2>2. CASE q = p
      <3>1. work[p] = "committed" => Applied(draft[p], Current(p)) \in Snapshots
        BY <1>1, CurrentFacts, AppliedFacts
      <3> QED BY <1>1, <1>2, <2>2, <3>1, OwnCopies
    <2> QED BY <2>1, <2>2
  <1>5. /\ DOMAIN state' = Procs /\ state' = [q \in Procs |-> state'[q]]
        /\ DOMAIN draft' = Procs /\ draft' = [q \in Procs |-> draft'[q]]
        /\ DOMAIN temp' = Procs /\ temp' = [q \in Procs |-> temp'[q]]
    BY <1>1 DEF StepOf, Work, Open, CreateDatabaseFile, Publish, Mutate, Begin, Noop,
          MutatorThrows, Commit, RollBack, Return, Throw, ExportLegacy, Close, Crash
  <1>6. faults' \in Nat /\ crashes' \in Nat
    BY <1>1 DEF StepOf, Work, Open, CreateDatabaseFile, Publish, Mutate, Begin, Noop, Fault,
          MutatorThrows, Commit, RollBack, Return, Throw, ExportLegacy, Close, Crash, bounds
  <1>7. /\ state' \in [Procs -> Snapshots] /\ draft' \in [Procs -> Snapshots]
        /\ temp' \in [Procs -> Snapshots]
    BY <1>4, <1>5
  <1> QED BY <1>1, <1>3, <1>6, <1>7, QueuesKept DEF TypeOK

-------------------------------------------------------------------------------
(* The induction.                                                          *)

\* The store starts with nothing, or with what the JSON file holds in full.
LEMMA InitInv == Init => StoreInv
  <1> SUFFICES ASSUME Init PROVE StoreInv
    OBVIOUS
  <1>1. /\ Imported \subseteq Calls
        /\ \A m \in Calls : Touches(m) # {} /\ Touches(m) \subseteq Keys
    BY StoreAssumption
  <1>2. Empty \in Snapshots /\ Whole(Empty)
    BY EmptyFacts
  <1> DEFINE file == [rev |-> 1, rows |-> With(Empty.rows, Imported)]
  <1>3. file \in Snapshots /\ Whole(file)
    <2>1. \A k \in Keys : With(Empty.rows, Imported)[k] = {m \in Imported : k \in Touches(m)}
      BY DEF With, Empty
    <2>2. With(Empty.rows, Imported) \in [Keys -> SUBSET Calls]
      BY <1>1 DEF With, Empty
    <2>3. file.rows = With(Empty.rows, Imported)
      OBVIOUS
    <2>4. file \in Snapshots
      BY <2>2 DEF Snapshots
    <2>5. Holds(file) = Imported /\ Shows(file) = Imported
      <3> HIDE DEF file
      <3> QED BY <1>1, <2>1, <2>3 DEF Holds, Shows
    <2> QED BY <2>4, <2>5 DEF Whole
  <1>4. legacy = Absent \/ legacy = file
    BY DEF Init
  <1> HIDE DEF file
  <1>5. TypeOK
    BY <1>1, <1>2, <1>3, <1>4 DEF Init, TypeOK
  <1>6. QueuesPending /\ CopiesPast /\ CreatorAlone
    BY DEF Init, QueuesPending, CopiesPast, CreatorAlone
  <1>7. AllWhole
    BY <1>2, <1>3, <1>4 DEF Init, AllWhole
  <1> QED BY <1>5, <1>6, <1>7 DEF StoreInv

LEMMA NextInv == StoreInv /\ [Next]_vars => StoreInv'
  <1> SUFFICES ASSUME StoreInv, [Next]_vars PROVE StoreInv'
    OBVIOUS
  <1>1. CASE Next
    <2>1. PICK p \in Procs : StepOf(p)
      BY <1>1 DEF Next, StepOf
    <2> QED BY <2>1, QueuesKept, CopiesKept, CreatorKept, WholeKept, TypedKept DEF StoreInv
  <1>2. CASE UNCHANGED vars
    BY <1>2 DEF StoreInv, TypeOK, QueuesPending, CopiesPast, CreatorAlone, AllWhole,
          vars, files, bounds, Current, Import
  <1> QED BY <1>1, <1>2

\* The inductive invariant.
THEOREM StoreSafe == Spec => []StoreInv
  <1> QED BY InitInv, NextInv, PTL DEF Spec

\* Files, copies and calls are well formed, whatever fails.
THEOREM StoreTyped == Spec => []TypeOK
  <1>1. StoreInv => TypeOK
    BY DEF StoreInv
  <1> QED BY <1>1, StoreSafe, PTL

\* No file and no copy ever shows a part of a mutation.
THEOREM StoreAllOrNothing == Spec => []AllOrNothing
  <1>1. StoreInv => AllOrNothing
    BY DEF StoreInv, AllWhole, Whole, AllOrNothing
  <1> QED BY <1>1, StoreSafe, PTL

\* A process shows its readers only what has been committed.
THEOREM StoreReadsCommitted == Spec => []ReadsCommitted
  <1>1. StoreInv => ReadsCommitted
    BY DEF StoreInv, CopiesPast, PastOf, ReadsCommitted
  <1> QED BY <1>1, StoreSafe, PTL

-------------------------------------------------------------------------------
(* The refinement.                                                         *)

AtomicNow == Holds(Contents)

\* Nothing but a commit changes what the store holds.
LEMMA ContentsStep ==
    ASSUME StoreInv, NEW p \in Procs, StepOf(p)
    PROVE  \/ ~Commit(p) /\ AtomicNow' = AtomicNow
           \/ /\ Commit(p) /\ Current(p) \in Calls /\ answer[Current(p)] = "pending"
              /\ AtomicNow' = AtomicNow \cup {Current(p)}
  <1>1. CASE Commit(p)
    <2>1. work[p] # "idle" /\ TypeOK /\ QueuesPending /\ CopiesPast
      BY <1>1 DEF Commit, StoreInv
    <2>2. /\ db \in Snapshots /\ Current(p) \in Calls /\ answer[Current(p)] = "pending"
          /\ db' = Applied(db, Current(p))
      BY <1>1, <2>1, CommitFacts, CurrentFacts
    <2>3. db # Absent /\ db' # Absent
      BY <2>2, AppliedFacts, StoreAssumption DEF Snapshots
    <2>4. AtomicNow = Holds(db) /\ AtomicNow' = Holds(db')
      BY <2>3 DEF AtomicNow, Contents, Holds
    <2>5. Holds(db') = Holds(db) \cup {Current(p)}
      BY <2>2, AppliedHolds
    <2> QED BY <1>1, <2>2, <2>4, <2>5
  <1>2. CASE ~Commit(p)
    <2>1. CASE UNCHANGED files
      BY <1>2, <2>1 DEF AtomicNow, Contents, Import, Holds, files
    <2>2. CASE db # Absent /\ legacy' = db /\ db' = db
      BY <1>2, <2>2 DEF AtomicNow, Contents, Holds
    <2>3. CASE db = Absent /\ db' = Import /\ legacy' = legacy
      <3>1. Import' = Import /\ Contents = Import /\ Contents' = Import
        BY <2>3 DEF Contents, Import
      <3> QED BY <1>2, <3>1 DEF AtomicNow, Holds
    <2> QED BY <1>2, <2>1, <2>2, <2>3, FilesStep
  <1> QED BY <1>1, <1>2


\* What the JSON file brings along.
LEMMA ImportFacts == Init => Holds(Import) = Imported
  <1> SUFFICES ASSUME Init PROVE Holds(Import) = Imported
    OBVIOUS
  <1>1. /\ Imported \subseteq Calls
        /\ \A m \in Calls : Touches(m) # {} /\ Touches(m) \subseteq Keys
    BY StoreAssumption
  <1> DEFINE file == [rev |-> 1, rows |-> With(Empty.rows, Imported)]
  <1>2. CASE Imported = {}
    BY <1>2, EmptyFacts DEF Init, Import
  <1>3. CASE Imported # {}
    <2>1. legacy = file
      BY <1>3 DEF Init
    <2>2. file.rows = With(Empty.rows, Imported)
      OBVIOUS
    <2>3. \A k \in Keys : file.rows[k] = {m \in Imported : k \in Touches(m)}
      BY <2>2 DEF With, Empty
    <2>4. file \in [rev : Nat, rows : [Keys -> SUBSET Calls]]
      <3>1. With(Empty.rows, Imported) \in [Keys -> SUBSET Calls]
        BY <1>1 DEF With, Empty
      <3> QED BY <3>1
    <2>5. file # Absent
      BY <2>4, StoreAssumption
    <2> HIDE DEF file
    <2>6. Import = file
      BY <2>1, <2>5 DEF Import
    <2> QED BY <1>1, <2>3, <2>6 DEF Holds
  <1> QED BY <1>2, <1>3

LEMMA AtomicInit == Init => Atomic!Init
  <1> SUFFICES ASSUME Init PROVE Atomic!Init
    OBVIOUS
  <1>1. Holds(Contents) = Imported /\ Imported \subseteq Calls
    BY ImportFacts, StoreAssumption DEF Contents, Init
  <1>2. answer = [m \in Calls |-> IF m \in Imported THEN "ok" ELSE "none"]
    BY DEF Init
  <1> QED BY <1>1, <1>2 DEF Atomic!Init

\* Every step of a process is a step of the atomic store, or none.
LEMMA AtomicStep ==
    ASSUME StoreInv, NEW p \in Procs, StepOf(p)
    PROVE  [Atomic!Next]_(Atomic!vars)
  <1>1. /\ TypeOK /\ QueuesPending /\ CopiesPast
        /\ answer \in [Calls -> {"none", "pending", "ok", "failed"}]
        /\ queue \in [Procs -> Seq(Calls)]
    BY DEF StoreInv, TypeOK
  <1>2. \/ ~Commit(p) /\ Holds(Contents)' = Holds(Contents)
        \/ /\ Commit(p) /\ Current(p) \in Calls /\ answer[Current(p)] = "pending"
           /\ Holds(Contents)' = Holds(Contents) \cup {Current(p)}
    BY ContentsStep DEF AtomicNow
  <1>3. work[p] # "idle" => Current(p) \in Calls /\ answer[Current(p)] = "pending" /\ mode[p] = "up"
    BY <1>1, CurrentFacts
  <1>4. CASE Commit(p)
    <2>1. answer' = answer
      BY <1>4 DEF Commit
    <2>2. Atomic!Apply(Current(p))
      BY <1>2, <1>3, <1>4, <2>1 DEF Atomic!Apply, Commit
    <2> QED BY <1>2, <1>4, <2>2 DEF Atomic!Next
  <1>5. CASE ~Commit(p)
    <2>0. Holds(Contents)' = Holds(Contents)
      BY <1>2, <1>5
    <2>1. CASE \E m \in Calls : Mutate(p, m)
      <3>1. PICK m \in Calls : Mutate(p, m)
        BY <2>1
      <3>2. Atomic!Submit(m)
        BY <2>0, <3>1 DEF Mutate, Atomic!Submit
      <3> QED BY <3>2 DEF Atomic!Next
    <2>2. CASE Noop(p)
      <3>1. /\ work[p] = "drafting" /\ Current(p) \in Holds(draft[p])
            /\ answer' = [answer EXCEPT ![Current(p)] = "ok"]
        BY <2>2 DEF Noop, Finish
      <3>2. Current(p) \in Holds(Contents)
        <4>1. db # Absent /\ PastOf(db, draft[p])
          BY <1>1, <1>3, <3>1 DEF CopiesPast
        <4>2. db \in Snapshots /\ draft[p] \in Snapshots
          BY <1>1, <4>1 DEF TypeOK
        <4>3. Holds(draft[p]) \subseteq Holds(db)
          BY <4>1, <4>2, PastHolds
        <4> QED BY <3>1, <4>1, <4>3 DEF Contents
      <3>3. Atomic!Confirm(Current(p))
        BY <1>3, <2>0, <3>1, <3>2 DEF Atomic!Confirm
      <3> QED BY <1>3, <3>1, <3>3 DEF Atomic!Next
    <2>3. CASE Return(p)
      <3>1. /\ work[p] = "committed"
            /\ answer' = [answer EXCEPT ![Current(p)] = "ok"]
        BY <2>3 DEF Return, Finish
      <3>2. Current(p) \in Holds(Contents)
        <4>1. db # Absent /\ PastOf(db, Applied(draft[p], Current(p)))
          BY <1>1, <1>3, <3>1 DEF CopiesPast
        <4>2. db \in Snapshots /\ draft[p] \in Snapshots /\ Current(p) \in Calls
          BY <1>1, <1>3, <3>1, <4>1 DEF TypeOK
        <4>3. Applied(draft[p], Current(p)) \in Snapshots
          BY <4>2, AppliedFacts
        <4>4. Holds(Applied(draft[p], Current(p))) \subseteq Holds(db)
          BY <4>1, <4>2, <4>3, PastHolds
        <4>5. Current(p) \in Holds(Applied(draft[p], Current(p)))
          BY <4>2, AppliedHolds
        <4> QED BY <4>1, <4>4, <4>5 DEF Contents
      <3>3. Atomic!Confirm(Current(p))
        BY <1>3, <2>0, <3>1, <3>2 DEF Atomic!Confirm
      <3> QED BY <1>3, <3>1, <3>3 DEF Atomic!Next
    <2>4. CASE MutatorThrows(p) \/ Throw(p)
      <3>1. work[p] # "idle" /\ answer' = [answer EXCEPT ![Current(p)] = "failed"]
        BY <2>4 DEF MutatorThrows, Throw, Finish
      <3>2. Atomic!Refuse(Current(p))
        BY <1>3, <2>0, <3>1 DEF Atomic!Refuse
      <3> QED BY <1>3, <3>1, <3>2 DEF Atomic!Next
    <2>5. CASE Crash(p)
      <3> DEFINE S == {m \in Calls : \E i \in 1 .. Len(queue[p]) : queue[p][i] = m}
      <3>1. \A m \in S : answer[m] = "pending"
        BY <1>1 DEF QueuesPending
      <3>2. answer' = [m \in Calls |-> IF m \in S THEN "none" ELSE answer[m]]
        BY <2>5 DEF Crash
      <3>3. S \in SUBSET Calls
        OBVIOUS
      <3> HIDE DEF S
      <3>4. Atomic!Lose(S)
        BY <2>0, <3>1, <3>2 DEF Atomic!Lose
      <3> QED BY <3>3, <3>4 DEF Atomic!Next
    <2>6. CASE \/ Open(p) \/ CreateDatabaseFile(p) \/ Publish(p) \/ Begin(p) \/ RollBack(p)
               \/ ExportLegacy(p) \/ Close(p)
      <3>1. answer' = answer
        BY <2>6 DEF Open, CreateDatabaseFile, Publish, Begin, RollBack, ExportLegacy, Close
      <3> QED BY <2>0, <3>1 DEF Atomic!vars
    <2> QED BY <1>5, <2>1, <2>2, <2>3, <2>4, <2>5, <2>6 DEF StepOf, Work
  <1> QED BY <1>4, <1>5

\* The database file, its migration and its export, two processes and their
\* failures: a store whose mutations happen at once, on request, and for good,
\* and whose confirmations are true.
THEOREM StoreImplementsAtomic == Spec => ImplementsAtomic
  <1>1. Init => Atomic!Init
    BY AtomicInit
  <1>2. StoreInv /\ [Next]_vars => [Atomic!Next]_(Atomic!vars)
    <2> SUFFICES ASSUME StoreInv, [Next]_vars PROVE [Atomic!Next]_(Atomic!vars)
      OBVIOUS
    <2>1. CASE Next
      <3>1. PICK p \in Procs : StepOf(p)
        BY <2>1 DEF Next, StepOf
      <3> QED BY <3>1, AtomicStep
    <2>2. CASE UNCHANGED vars
      BY <2>2 DEF vars, files, Atomic!vars, Contents, Import, Holds
    <2> QED BY <2>1, <2>2
  <1> QED BY <1>1, <1>2, StoreSafe, PTL DEF Spec, ImplementsAtomic, Atomic!Spec

===============================================================================
