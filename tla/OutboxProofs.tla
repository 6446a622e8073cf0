----------------------------- MODULE OutboxProofs -----------------------------
(***************************************************************************)
(* Proofs about Outbox, for any number of ids, sessions, tokens and        *)
(* attempts.                                                               *)
(*                                                                         *)
(* The inductive invariant is stated over a snapshot (its, gs, n) rather   *)
(* than over the variables, because a mutation is a composition: lapsed    *)
(* leases are returned first, and the settlement or the claim applies to   *)
(* the result.  Lemma RelaxKeeps covers every update that only closes,     *)
(* returns or re-times items; admission and claiming are proved apart.     *)
(*                                                                         *)
(* The refinement of SessionLine rests on it: a step that admits nothing   *)
(* carries every session and sequence number, so the line of a session     *)
(* loses exactly the items that ended, and the rest keep their places.     *)
(***************************************************************************)
EXTENDS OutboxRefinement, FiniteSetTheorems, SequenceTheorems, TLAPS

Typed(its, gs, n) ==
    /\ its \in [Ids -> Item]
    /\ n \in Nat \ {0}
    /\ gs \in SUBSET (Ids \X Tokens)

\* Sequence numbers are handed out once, below the next one.
Sequenced(its, n) ==
    /\ \A i \in Ids : its[i].state # "absent" => its[i].sequence < n
    /\ \A i, j \in Ids :
          its[i].state # "absent" /\ its[j].state # "absent" /\ i # j
          => its[i].sequence # its[j].sequence

Budget(its) ==
    \A i \in Ids :
        /\ its[i].state = "pending" => its[i].attempts < MaxAttempts
        /\ its[i].state = "leased"  => its[i].attempts \in 1 .. MaxAttempts

\* Exactly the leased items carry a token.
Tokened(its) ==
    \A i \in Ids : its[i].state = "leased" <=> its[i].token \in Tokens

Exclusive(its, gs) ==
    \A i \in Ids : its[i].state = "leased" =>
        /\ \A j \in Ids \ {i} : its[j].token # its[i].token
        /\ \A g \in gs : g[2] = its[i].token => g[1] = i

SInv(its, gs, n) ==
    /\ Typed(its, gs, n)
    /\ Sequenced(its, n)
    /\ Budget(its)
    /\ Tokened(its)
    /\ Exclusive(its, gs)

IInv == SInv(items, grants, nextSequence)

-------------------------------------------------------------------------------
\* What every mutation except Admit and Claim does to one item: re-time it,
\* close it, or return it to the queue with an attempt to spare.
Relaxed(old, new) ==
    /\ new \in Item
    /\ new.session = old.session
    /\ new.sequence = old.sequence
    /\ \/ /\ new.state = old.state
          /\ new.token = old.token
          /\ new.attempts = old.attempts
       \/ /\ old.state \in {"pending", "leased"}
          /\ new.state \in TerminalStates
          /\ new.state = "delivered" => old.state = "leased"
          /\ new.token = None
       \/ /\ old.state = "leased"
          /\ new.state = "pending"
          /\ new.token = None
          /\ new.attempts < MaxAttempts

Relaxes(its, its2) ==
    /\ its2 \in [Ids -> Item]
    /\ \A i \in Ids : Relaxed(its[i], its2[i])

\* Such an update keeps the invariant, and forgetting grants does too.
LEMMA RelaxKeeps ==
    ASSUME NEW its, NEW its2, NEW gs, NEW gs2 \in SUBSET gs, NEW n,
           SInv(its, gs, n), Relaxes(its, its2)
    PROVE  SInv(its2, gs2, n)
<1> USE OutboxAssumption
<1>1. Typed(its2, gs2, n)
  BY DEF SInv, Typed, Relaxes
<1>2. Sequenced(its2, n)
  BY DEF SInv, Typed, Sequenced, Relaxes, Relaxed, TerminalStates
<1>4. Budget(its2)
  BY DEF SInv, Typed, Budget, Relaxes, Relaxed, TerminalStates
<1>5. Tokened(its2)
  BY DEF SInv, Typed, Tokened, Relaxes, Relaxed, TerminalStates
<1>6. Exclusive(its2, gs2)
  <2> SUFFICES ASSUME NEW i \in Ids, its2[i].state = "leased"
               PROVE  /\ \A j \in Ids \ {i} : its2[j].token # its2[i].token
                      /\ \A g \in gs2 : g[2] = its2[i].token => g[1] = i
    BY DEF Exclusive
  <2>1. its[i].state = "leased" /\ its2[i].token = its[i].token
    BY DEF Relaxes, Relaxed, TerminalStates
  <2>2. its[i].token \in Tokens
    BY <2>1 DEF SInv, Tokened
  <2>3. \A j \in Ids : its2[j].token \in {its[j].token, None}
    BY DEF Relaxes, Relaxed
  <2> QED
    BY <2>1, <2>2, <2>3 DEF SInv, Exclusive
<1> QED
  BY <1>1, <1>2, <1>4, <1>5, <1>6 DEF SInv

LEMMA ReleaseType ==
    ASSUME NEW item \in Item, NEW state \in States
    PROVE  /\ Release(item, state) \in Item
           /\ Release(item, state).state = state
           /\ Release(item, state).token = None
           /\ Release(item, state).session = item.session
           /\ Release(item, state).sequence = item.sequence
           /\ Release(item, state).body = item.body
           /\ Release(item, state).attempts = item.attempts
  BY DEF Release, Item

LEMMA LeasedType ==
    ASSUME NEW item \in Item, NEW token \in Tokens
    PROVE  /\ Leased(item, token) \in Item
           /\ Leased(item, token).state = "leased"
           /\ Leased(item, token).token = token
           /\ Leased(item, token).session = item.session
           /\ Leased(item, token).sequence = item.sequence
           /\ Leased(item, token).body = item.body
           /\ Leased(item, token).attempts = item.attempts + 1
<1> DEFINE a == [item EXCEPT !.state = "leased"]
           b == [a EXCEPT !.token = token]
           c == [b EXCEPT !.attempts = item.attempts + 1]
           d == [c EXCEPT !.available = FALSE]
<1>1. /\ a \in Item /\ a.state = "leased" /\ a.session = item.session
      /\ a.sequence = item.sequence /\ a.body = item.body /\ a.attempts = item.attempts
  BY DEF Item, States
<1>2. /\ b \in Item /\ b.state = a.state /\ b.token = token /\ b.session = a.session
      /\ b.sequence = a.sequence /\ b.body = a.body /\ b.attempts = a.attempts
  <2> HIDE DEF a
  <2> QED
    BY <1>1 DEF Item
<1>3. /\ c \in Item /\ c.state = b.state /\ c.token = b.token /\ c.session = b.session
      /\ c.sequence = b.sequence /\ c.body = b.body /\ c.attempts = item.attempts + 1
  <2> HIDE DEF b
  <2> QED
    BY <1>2 DEF Item
<1>4. /\ d \in Item /\ d.state = c.state /\ d.token = c.token /\ d.session = c.session
      /\ d.sequence = c.sequence /\ d.body = c.body /\ d.attempts = c.attempts
  <2> HIDE DEF c
  <2> QED
    BY <1>3 DEF Item
<1>5. Leased(item, token) = d
  BY Zenon DEF Leased
<1> HIDE DEF a, b, c, d
<1> QED
  BY <1>1, <1>2, <1>3, <1>4, <1>5

\* Returning the lapsed leases is such an update.
LEMMA RecoverRelaxes ==
    ASSUME NEW its, NEW gs, NEW n, SInv(its, gs, n)
    PROVE  Relaxes(its, RecoverExpired(its))
<1> USE OutboxAssumption
<1>1. its \in [Ids -> Item]
  BY DEF SInv, Typed
<1> SUFFICES ASSUME NEW i \in Ids
             PROVE  Relaxed(its[i], RecoverExpired(its)[i])
  <2>1. \A i \in Ids : Relaxed(its[i], RecoverExpired(its)[i])
    OBVIOUS
  <2>2. RecoverExpired(its) \in [Ids -> Item]
    BY <2>1 DEF RecoverExpired, Relaxed
  <2> QED
    BY <2>1, <2>2 DEF Relaxes
<1>2. CASE its[i].state = "leased" /\ its[i].expired
  <2>1. RecoverExpired(its)[i] = Retried(its[i])
    BY <1>2 DEF RecoverExpired
  <2>2. CASE its[i].attempts < MaxAttempts
    BY <1>1, <1>2, <2>1, <2>2, ReleaseType DEF Retried, Relaxed, States, TerminalStates
  <2>3. CASE ~(its[i].attempts < MaxAttempts)
    BY <1>1, <1>2, <2>1, <2>3, ReleaseType DEF Retried, Relaxed, States, TerminalStates
  <2> QED
    BY <2>2, <2>3
<1>3. CASE ~(its[i].state = "leased" /\ its[i].expired)
  BY <1>1, <1>3 DEF RecoverExpired, Relaxed
<1> QED
  BY <1>2, <1>3

LEMMA RecoverKeeps ==
    ASSUME NEW its, NEW gs, NEW n, SInv(its, gs, n)
    PROVE  SInv(RecoverExpired(its), gs, n)
  BY RecoverRelaxes, RelaxKeeps

\* Changing one item of a snapshot in a relaxed way.
LEMMA RelaxOne ==
    ASSUME NEW its, NEW gs, NEW n, SInv(its, gs, n),
           NEW i \in Ids, NEW new, Relaxed(its[i], new)
    PROVE  SInv([its EXCEPT ![i] = new], gs, n)
<1>1. its \in [Ids -> Item]
  BY DEF SInv, Typed
<1>2. Relaxes(its, [its EXCEPT ![i] = new])
  BY <1>1 DEF Relaxes, Relaxed
<1> QED
  BY <1>2, RelaxKeeps

\* Ack, fail and defer: settle what the token still holds, after recovery.
LEMMA SettleKeeps ==
    ASSUME NEW its, NEW gs, NEW n, SInv(its, gs, n), NEW g \in gs, NEW new, NEW its2,
           Holds(RecoverExpired(its), g[1], g[2]) => Relaxed(RecoverExpired(its)[g[1]], new),
           its2 = IF Holds(RecoverExpired(its), g[1], g[2])
                  THEN [RecoverExpired(its) EXCEPT ![g[1]] = new]
                  ELSE RecoverExpired(its)
    PROVE  SInv(its2, gs, n)
<1> DEFINE recovered == RecoverExpired(its)
<1>1. SInv(recovered, gs, n)
  BY RecoverKeeps
<1>2. g[1] \in Ids
  BY DEF SInv, Typed
<1>3. CASE Holds(recovered, g[1], g[2])
  <2>1. SInv([recovered EXCEPT ![g[1]] = new], gs, n)
    BY <1>1, <1>2, <1>3, RelaxOne
  <2> QED
    BY <1>3, <2>1
<1>4. CASE ~Holds(recovered, g[1], g[2])
  BY <1>1, <1>4
<1> QED
  BY <1>3, <1>4

-------------------------------------------------------------------------------
\* Leasing some ready items with fresh tokens keeps the invariant.
LEMMA LeaseKeeps ==
    ASSUME NEW its, NEW gs, NEW n, SInv(its, gs, n),
           NEW chosen \in SUBSET {i \in Ids : its[i].state = "pending"},
           NEW lease \in [chosen -> Tokens],
           \A i, j \in chosen : lease[i] = lease[j] => i = j,
           \A i \in chosen :
               /\ \A j \in Ids : its[j].token # lease[i]
               /\ \A g \in gs : g[2] # lease[i],
           NEW its2,
           its2 = [i \in Ids |->
                     IF i \in chosen
                     THEN Leased(its[i], lease[i]) ELSE its[i]],
           NEW gs2, gs2 = gs \cup {<<i, lease[i]>> : i \in chosen}
    PROVE  SInv(its2, gs2, n)
<1> USE OutboxAssumption
<1>1. its \in [Ids -> Item]
  BY DEF SInv, Typed
<1>2. \A i \in chosen : /\ its[i].state = "pending"
                         /\ its2[i] = Leased(its[i], lease[i])
  OBVIOUS
<1>3. \A i \in Ids \ chosen : its2[i] = its[i]
  OBVIOUS
<1>11. \A g \in gs2 : g \in gs \/ \E i \in chosen : g = <<i, lease[i]>>
  OBVIOUS
<1>4. \A i \in chosen : /\ its2[i] \in Item
                         /\ its2[i].state = "leased"
                         /\ its2[i].token = lease[i]
                         /\ its2[i].session = its[i].session
                         /\ its2[i].sequence = its[i].sequence
                         /\ its2[i].attempts = its[i].attempts + 1
  BY <1>1, <1>2, LeasedType
<1>5. Typed(its2, gs2, n)
  <2>1. its2 \in [Ids -> Item]
    BY <1>1, <1>3, <1>4
  <2>2. gs2 \in SUBSET (Ids \X Tokens)
    BY DEF SInv, Typed
  <2> QED
    BY <2>1, <2>2 DEF SInv, Typed
<1>6. Sequenced(its2, n)
  <2>1. \A i \in Ids : /\ its2[i].sequence = its[i].sequence
                       /\ its2[i].state # "absent" => its[i].state # "absent"
    BY <1>2, <1>3, <1>4
  <2> QED
    BY <2>1 DEF SInv, Sequenced
<1>8. Budget(its2)
  <2> SUFFICES ASSUME NEW i \in Ids
               PROVE  /\ its2[i].state = "pending" => its2[i].attempts < MaxAttempts
                      /\ its2[i].state = "leased" => its2[i].attempts \in 1 .. MaxAttempts
    BY DEF Budget
  <2>1. CASE i \in chosen
    <3>1. its[i].attempts \in Nat /\ its[i].attempts < MaxAttempts
      BY <1>1, <1>2, <2>1 DEF Item, SInv, Budget
    <3>2. its2[i].state = "leased" /\ its2[i].attempts = its[i].attempts + 1
      BY <1>4, <2>1
    <3>3. its[i].attempts + 1 \in 1 .. MaxAttempts
      BY <3>1
    <3> QED
      BY <3>2, <3>3
  <2>2. CASE i \notin chosen
    BY <1>3, <2>2 DEF SInv, Budget
  <2> QED
    BY <2>1, <2>2
<1>9. Tokened(its2)
  <2>1. \A i \in chosen : its2[i].state = "leased" /\ its2[i].token \in Tokens
    BY <1>4
  <2>2. \A i \in Ids \ chosen : its2[i].state = "leased" <=> its2[i].token \in Tokens
    BY <1>3 DEF SInv, Tokened
  <2> QED
    BY <2>1, <2>2 DEF Tokened
<1>10. Exclusive(its2, gs2)
  <2> SUFFICES ASSUME NEW i \in Ids, its2[i].state = "leased"
               PROVE  /\ \A j \in Ids \ {i} : its2[j].token # its2[i].token
                      /\ \A g \in gs2 : g[2] = its2[i].token => g[1] = i
    BY DEF Exclusive
  <2>1. CASE i \in chosen
    <3>1. ASSUME NEW j \in Ids \ {i} PROVE its2[j].token # its2[i].token
      <4>1. its2[i].token = lease[i]
        BY <1>4, <2>1
      <4>2. CASE j \in chosen
        <5>1. lease[j] # lease[i]
          BY <2>1, <4>2, Zenon
        <5>2. its2[j].token = lease[j]
          BY <1>4, <4>2, Zenon
        <5> QED
          BY <4>1, <5>1, <5>2, Zenon
      <4>3. CASE j \notin chosen
        BY <1>3, <2>1, <4>1, <4>3
      <4> QED
        BY <4>2, <4>3
    <3>2. ASSUME NEW g \in gs2, g[2] = its2[i].token PROVE g[1] = i
      <4>1. g[2] = lease[i]
        BY <1>4, <2>1, <3>2, Zenon
      <4>2. g \notin gs
        BY <2>1, <4>1, Zenon
      <4>3. PICK j \in chosen : g = <<j, lease[j]>>
        BY <1>11, <4>2, Zenon
      <4>4. lease[j] = lease[i]
        BY <4>1, <4>3
      <4>5. j = i
        BY <2>1, <4>4, Zenon
      <4> QED
        BY <4>3, <4>5
    <3> QED
      BY <3>1, <3>2
  <2>2. CASE i \notin chosen
    <3>1. its2[i] = its[i] /\ its[i].token \in Tokens
      BY <1>3, <2>2 DEF SInv, Tokened
    <3>2. ASSUME NEW j \in Ids \ {i} PROVE its2[j].token # its2[i].token
      <4>1. CASE j \in chosen
        <5>1. its2[j].token = lease[j]
          BY <1>4, <4>1, Zenon
        <5>2. its[i].token # lease[j]
          BY <4>1, Zenon
        <5> QED
          BY <3>1, <5>1, <5>2, Zenon
      <4>2. CASE j \notin chosen
        BY <1>3, <3>1, <4>2 DEF SInv, Exclusive
      <4> QED
        BY <4>1, <4>2
    <3>3. \A g \in gs2 : g[2] = its2[i].token => g[1] = i
      <4>1. \A j \in chosen : lease[j] # its[i].token
        OBVIOUS
      <4>2. its[i].state = "leased"
        BY <3>1
      <4>3. \A g \in gs : g[2] = its[i].token => g[1] = i
        BY <4>2 DEF SInv, Exclusive
      <4> QED
        BY <1>11, <3>1, <4>1, <4>3
    <3> QED
      BY <3>2, <3>3
  <2> QED
    BY <2>1, <2>2
<1> QED
  BY <1>5, <1>6, <1>8, <1>9, <1>10 DEF SInv

\* A new item goes behind everything admitted so far.
LEMMA AdmitKeeps ==
    ASSUME NEW its, NEW gs, NEW n, SInv(its, gs, n),
           NEW i \in Ids, its[i].state = "absent",
           NEW new \in Item,
           new.state = "pending", new.sequence = n, new.attempts = 0, new.token = None
    PROVE  SInv([its EXCEPT ![i] = new], gs, n + 1)
<1> USE OutboxAssumption
<1> DEFINE its2 == [its EXCEPT ![i] = new]
<1>1. its \in [Ids -> Item] /\ n \in Nat \ {0}
  BY DEF SInv, Typed
<1>2. its2 \in [Ids -> Item] /\ its2[i] = new /\ \A j \in Ids \ {i} : its2[j] = its[j]
  BY <1>1
<1>3. \A j \in Ids : its[j].state # "absent" => its[j].sequence < n
  BY DEF SInv, Sequenced
<1> HIDE DEF its2
<1>4. Typed(its2, gs, n + 1)
  BY <1>1, <1>2 DEF SInv, Typed
<1>5. Sequenced(its2, n + 1)
  <2>1. \A j \in Ids : its2[j].sequence \in Nat
    BY <1>2 DEF Item
  <2>2. \A j \in Ids \ {i} : its2[j].state # "absent" => its2[j].sequence < n
    BY <1>2, <1>3
  <2>3. its2[i].sequence = n
    BY <1>2
  <2>4. \A j, k \in Ids \ {i} :
           its2[j].state # "absent" /\ its2[k].state # "absent" /\ j # k
           => its2[j].sequence # its2[k].sequence
    BY <1>2 DEF SInv, Sequenced
  <2> QED
    BY <1>1, <2>1, <2>2, <2>3, <2>4 DEF Sequenced
<1>7. Budget(its2)
  BY <1>2 DEF SInv, Budget
<1>8. Tokened(its2)
  BY <1>2 DEF SInv, Tokened
<1>9. Exclusive(its2, gs)
  <2>1. \A j \in Ids : its2[j].token \in {its[j].token, None}
    BY <1>2
  <2>2. \A j \in Ids : its2[j].state = "leased" => its2[j] = its[j]
    BY <1>2
  <2>3. \A j \in Ids : its2[j].state = "leased" => its2[j].token \in Tokens
    BY <1>8 DEF Tokened
  <2> QED
    BY <2>1, <2>2, <2>3 DEF SInv, Exclusive
<1> QED
  BY <1>4, <1>5, <1>7, <1>8, <1>9 DEF SInv, its2

-------------------------------------------------------------------------------
LEMMA InitInv == Init => IInv
<1> SUFFICES ASSUME Init PROVE IInv
  OBVIOUS
<1> USE OutboxAssumption
<1>1. NoItem \in Item
  BY DEF NoItem, Item, States
<1>2. NoItem.state = "absent" /\ NoItem.token = None
  BY DEF NoItem
<1>3. items \in [Ids -> Item] /\ \A i \in Ids : items[i] = NoItem
  BY <1>1 DEF Init
<1> QED
  BY <1>2, <1>3 DEF Init, IInv, SInv, Typed, Sequenced, Budget, Tokened, Exclusive

LEMMA NewItemType ==
    ASSUME NEW s \in Sessions, NEW b \in Bodies, NEW n \in Nat, NEW available \in BOOLEAN
    PROVE  /\ NewItem(s, b, n, available) \in Item
           /\ NewItem(s, b, n, available).state = "pending"
           /\ NewItem(s, b, n, available).sequence = n
           /\ NewItem(s, b, n, available).attempts = 0
           /\ NewItem(s, b, n, available).token = None
  BY DEF NewItem, NoItem, Item, States

\* The three settlements are relaxed updates of an item in lease.
LEMMA SettlementsRelax ==
    ASSUME NEW item \in Item, item.state = "leased", item.attempts \in 1 .. MaxAttempts
    PROVE  /\ Relaxed(item, Release(item, "delivered"))
           /\ Relaxed(item, Retried(item))
           /\ Relaxed(item, Release(item, "dead-letter"))
           /\ Relaxed(item, [Release(item, "pending") EXCEPT
                               !.attempts = IF @ > 0 THEN @ - 1 ELSE 0])
<1> USE OutboxAssumption
<1>1. /\ Relaxed(item, Release(item, "delivered"))
      /\ Relaxed(item, Release(item, "dead-letter"))
  BY ReleaseType DEF Relaxed, States, TerminalStates
<1>2. Relaxed(item, Retried(item))
  <2>1. CASE item.attempts < MaxAttempts
    BY <2>1, ReleaseType DEF Retried, Relaxed, States, TerminalStates
  <2>2. CASE ~(item.attempts < MaxAttempts)
    BY <2>2, ReleaseType DEF Retried, Relaxed, States, TerminalStates
  <2> QED
    BY <2>1, <2>2
<1>3. Relaxed(item, [Release(item, "pending") EXCEPT
                        !.attempts = IF @ > 0 THEN @ - 1 ELSE 0])
  <2> DEFINE r == Release(item, "pending")
  <2>1. /\ r \in Item /\ r.state = "pending" /\ r.token = None
        /\ r.session = item.session /\ r.sequence = item.sequence
        /\ r.attempts = item.attempts
    BY ReleaseType DEF States
  <2> HIDE DEF r
  <2> DEFINE d == [r EXCEPT !.attempts = IF r.attempts > 0 THEN r.attempts - 1 ELSE 0]
  <2>2. /\ d \in Item /\ d.state = "pending" /\ d.token = None
        /\ d.session = item.session /\ d.sequence = item.sequence
        /\ d.attempts < MaxAttempts
    BY <2>1 DEF Item
  <2>3. Relaxed(item, d)
    BY <2>2 DEF Relaxed
  <2> QED
    BY <2>3 DEF r
<1> QED
  BY <1>1, <1>2, <1>3

LEMMA NextInv == IInv /\ [Next]_vars => IInv'
<1> SUFFICES ASSUME IInv, [Next]_vars PROVE IInv'
  OBVIOUS
<1> USE OutboxAssumption
<1>1. SInv(items, grants, nextSequence)
  BY DEF IInv
<1>2. items \in [Ids -> Item] /\ nextSequence \in Nat \ {0} /\ grants \in SUBSET (Ids \X Tokens)
  BY <1>1 DEF SInv, Typed
<1> SUFFICES SInv(items', grants', nextSequence')
  BY DEF IInv
<1>17. \A i \in Ids : LET old == RecoverExpired(items)[i] IN
          /\ old \in Item
          /\ old.state = "leased" => old.attempts \in 1 .. MaxAttempts
  <2>1. SInv(RecoverExpired(items), grants, nextSequence)
    BY <1>1, RecoverKeeps
  <2> QED
    BY <2>1 DEF SInv, Typed, Budget
<1>3. ASSUME NEW i \in Ids, NEW s \in Sessions, NEW b \in Bodies, Admit(i, s, b)
      PROVE  SInv(items', grants', nextSequence')
  <2>1. PICK available \in BOOLEAN :
           items' = [items EXCEPT ![i] = NewItem(s, b, nextSequence, available)]
    BY <1>3 DEF Admit
  <2> DEFINE new == NewItem(s, b, nextSequence, available)
  <2>2. /\ new \in Item /\ new.state = "pending" /\ new.sequence = nextSequence
        /\ new.attempts = 0 /\ new.token = None
    BY <1>2, NewItemType
  <2> HIDE DEF new
  <2>3. items[i].state = "absent"
    BY <1>3 DEF Admit
  <2>4. SInv([items EXCEPT ![i] = new], grants, nextSequence + 1)
    BY <1>1, <2>2, <2>3, AdmitKeeps
  <2>5. items' = [items EXCEPT ![i] = new]
    BY <2>1 DEF new
  <2> QED
    BY <1>3, <2>4, <2>5 DEF Admit
<1>4. ASSUME NEW offered \in SUBSET Ids, Claim(offered)
      PROVE  SInv(items', grants', nextSequence')
  <2> DEFINE recovered == RecoverExpired(items)
             chosen == ClaimCandidates(recovered, offered)
  <2>1. PICK lease \in [chosen -> FreshTokens(items)] :
           /\ \A i, j \in chosen : lease[i] = lease[j] => i = j
           /\ items' = [i \in Ids |-> IF i \in chosen THEN Leased(recovered[i], lease[i])
                                     ELSE recovered[i]]
           /\ grants' = grants \cup {<<i, lease[i]>> : i \in chosen}
    BY <1>4, Zenon DEF Claim
  <2>2. SInv(recovered, grants, nextSequence)
    BY <1>1, RecoverKeeps
  <2>3. chosen \in SUBSET {i \in Ids : recovered[i].state = "pending"}
    BY DEF ClaimCandidates, GroupHeads, Eligible
  <2>4. \A j \in Ids : recovered[j].token \in {items[j].token, None}
    BY <1>1, RecoverRelaxes DEF Relaxes, Relaxed
  <2>5. \A i \in chosen : /\ lease[i] \in Tokens
                          /\ \A j \in Ids : recovered[j].token # lease[i]
                          /\ \A g \in grants : g[2] # lease[i]
    BY <2>4 DEF FreshTokens
  <2>6. lease \in [chosen -> Tokens]
    BY DEF FreshTokens
  <2> HIDE DEF recovered, chosen
  <2>7. SInv(items', grants', nextSequence)
    BY <2>1, <2>2, <2>3, <2>5, <2>6, LeaseKeeps, SMTT(20)
  <2> QED
    BY <1>4, <2>7 DEF Claim
<1>5. ASSUME NEW g \in grants, Acknowledge(g)
      PROVE  SInv(items', grants', nextSequence')
  <2> DEFINE old == RecoverExpired(items)[g[1]]
             new == Release(old, "delivered")
  <2>1. /\ items' = IF Holds(RecoverExpired(items), g[1], g[2])
                    THEN [RecoverExpired(items) EXCEPT ![g[1]] = new]
                    ELSE RecoverExpired(items)
        /\ UNCHANGED <<nextSequence, grants>>
    BY <1>5 DEF Acknowledge, Settle
  <2>2. Holds(RecoverExpired(items), g[1], g[2]) => Relaxed(old, new)
    BY <1>2, <1>17, SettlementsRelax DEF Holds
  <2> HIDE DEF new
  <2>3. SInv(items', grants, nextSequence)
    BY <1>1, <2>1, <2>2, SettleKeeps
  <2> QED
    BY <2>1, <2>3
<1>6. ASSUME NEW g \in grants, NEW retryable \in BOOLEAN, Fail(g, retryable)
      PROVE  SInv(items', grants', nextSequence')
  <2> DEFINE old == RecoverExpired(items)[g[1]]
             new == IF retryable THEN Retried(old) ELSE Release(old, "dead-letter")
  <2>1. /\ items' = IF Holds(RecoverExpired(items), g[1], g[2])
                    THEN [RecoverExpired(items) EXCEPT ![g[1]] = new]
                    ELSE RecoverExpired(items)
        /\ UNCHANGED <<nextSequence, grants>>
    BY <1>6 DEF Fail, Settle
  <2>2. Holds(RecoverExpired(items), g[1], g[2]) => Relaxed(old, new)
    BY <1>2, <1>17, SettlementsRelax DEF Holds
  <2> HIDE DEF new
  <2>3. SInv(items', grants, nextSequence)
    BY <1>1, <2>1, <2>2, SettleKeeps
  <2> QED
    BY <2>1, <2>3
<1>7. ASSUME NEW g \in grants, Defer(g)
      PROVE  SInv(items', grants', nextSequence')
  <2> DEFINE old == RecoverExpired(items)[g[1]]
             new == [Release(old, "pending") EXCEPT
                      !.attempts = IF @ > 0 THEN @ - 1 ELSE 0]
  <2>1. /\ items' = IF Holds(RecoverExpired(items), g[1], g[2])
                    THEN [RecoverExpired(items) EXCEPT ![g[1]] = new]
                    ELSE RecoverExpired(items)
        /\ UNCHANGED <<nextSequence, grants>>
    BY <1>7 DEF Defer, Settle
  <2>2. Holds(RecoverExpired(items), g[1], g[2]) => Relaxed(old, new)
    BY <1>2, <1>17, SettlementsRelax DEF Holds
  <2> HIDE DEF new
  <2>3. SInv(items', grants, nextSequence)
    BY <1>1, <2>1, <2>2, SettleKeeps
  <2> QED
    BY <2>1, <2>3
<1>8. CASE RecoverExpiredLeases
  BY <1>1, <1>8, RecoverKeeps DEF RecoverExpiredLeases
<1>9. ASSUME NEW i \in Ids, CancelQueued(i)
      PROVE  SInv(items', grants', nextSequence')
  <2>1. Relaxed(items[i], Release(items[i], "cancelled"))
    BY <1>2, <1>9, ReleaseType DEF CancelQueued, Relaxed, States, TerminalStates
  <2> QED
    BY <1>1, <1>9, <2>1, RelaxOne DEF CancelQueued
<1>10. ASSUME NEW s \in Sessions,
              NEW owned \in SUBSET {i \in Ids : Open(items, i) /\ items[i].session # s},
              CancelForSession(s, owned)
       PROVE  SInv(items', grants', nextSequence')
  <2>1. \A i \in Ids : Open(items, i) => Relaxed(items[i], Release(items[i], "cancelled"))
    BY <1>2, ReleaseType DEF Open, Relaxed, States, TerminalStates
  <2>2. \A i \in Ids :
            \/ items'[i] = Release(items[i], "cancelled") /\ Open(items, i)
            \/ items'[i] = items[i]
    BY <1>10 DEF CancelForSession
  <2>3. \A i \in Ids : Relaxed(items[i], items[i])
    BY <1>2 DEF Relaxed
  <2>4. \A i \in Ids : Relaxed(items[i], items'[i])
    BY <2>1, <2>2, <2>3
  <2>5. items' \in [Ids -> Item]
    BY <1>10, <2>4 DEF CancelForSession, Relaxed
  <2>6. SInv(items', grants, nextSequence)
    BY <1>1, <2>4, <2>5, RelaxKeeps DEF Relaxes
  <2> QED
    BY <1>10, <2>6 DEF CancelForSession
<1>11. ASSUME NEW i \in Ids, LeaseLapses(i)
       PROVE  SInv(items', grants', nextSequence')
  <2>1. Relaxed(items[i], [items[i] EXCEPT !.expired = TRUE])
    BY <1>2 DEF Relaxed, Item
  <2> QED
    BY <1>1, <1>11, <2>1, RelaxOne DEF LeaseLapses
<1>12. ASSUME NEW i \in Ids, BecomesAvailable(i)
       PROVE  SInv(items', grants', nextSequence')
  <2>1. Relaxed(items[i], [items[i] EXCEPT !.available = TRUE])
    BY <1>2 DEF Relaxed, Item
  <2> QED
    BY <1>1, <1>12, <2>1, RelaxOne DEF BecomesAvailable
<1>13. ASSUME NEW gs \in SUBSET grants, grants' = gs, UNCHANGED <<items, nextSequence>>
       PROVE  SInv(items', grants', nextSequence')
  <2>1. Relaxes(items, items)
    BY <1>2 DEF Relaxes, Relaxed
  <2> QED
    BY <1>1, <1>13, <2>1, RelaxKeeps
<1>14. ASSUME NEW g \in grants, DeliveryEnds(g)
       PROVE  SInv(items', grants', nextSequence')
  BY <1>13, <1>14 DEF DeliveryEnds
<1>15. CASE Crash
  BY <1>13, <1>15 DEF Crash
<1>16. CASE UNCHANGED vars
  BY <1>1, <1>16 DEF vars
<1> QED
  BY <1>3, <1>4, <1>5, <1>6, <1>7, <1>8, <1>9, <1>10, <1>11, <1>12, <1>14, <1>15, <1>16
     DEF Next

-------------------------------------------------------------------------------
LEMMA SpecInv == Spec => []IInv
  BY InitInv, NextInv, PTL DEF Spec

\* The variables keep their types in every reachable state.
THEOREM TypeCorrect == Spec => []TypeOK
<1>1. IInv => TypeOK
  BY DEF IInv, SInv, Typed, TypeOK
<1> QED
  BY <1>1, SpecInv, PTL

\* No history of claims, lapsed leases, failures, defers and crashes pushes an
\* item past its retry budget or leaves a waiting one without an attempt.
THEOREM BudgetExact == Spec => []RetryBudget
<1>1. IInv => RetryBudget
  BY DEF IInv, SInv, Budget, RetryBudget
<1> QED
  BY <1>1, SpecInv, PTL

\* A lease is settled by its own delivery only: no other item and no earlier
\* grant carries its token.
THEOREM OneHolder == Spec => []LeaseExclusive
<1>1. IInv => LeaseExclusive
  BY DEF IInv, SInv, Exclusive, LeaseExclusive
<1> QED
  BY <1>1, SpecInv, PTL

-------------------------------------------------------------------------------
\* Recovering lapsed leases delivers nothing and leaves live leases alone.
LEMMA RecoverDelivers ==
    ASSUME IInv, NEW i \in Ids
    PROVE  /\ RecoverExpired(items)[i].state = "delivered" => items[i].state = "delivered"
           /\ RecoverExpired(items)[i].state = "leased"
              => RecoverExpired(items)[i] = items[i] /\ ~items[i].expired
<1>1. items \in [Ids -> Item]
  BY DEF IInv, SInv, Typed
<1>2. Retried(items[i]).state \in {"pending", "dead-letter"}
  BY <1>1, ReleaseType DEF Retried, States, TerminalStates
<1>3. RecoverExpired(items)[i] = IF items[i].state = "leased" /\ items[i].expired
                                 THEN Retried(items[i]) ELSE items[i]
  BY DEF RecoverExpired
<1> QED
  BY <1>1, <1>2, <1>3 DEF Item

\* What a settlement can leave behind: the recovered item, or, for the holder of
\* a live lease, the settled one.
LEMMA SettleDelivers ==
    ASSUME IInv, NEW g \in grants, NEW new,
           items' = IF Holds(RecoverExpired(items), g[1], g[2])
                    THEN [RecoverExpired(items) EXCEPT ![g[1]] = new]
                    ELSE RecoverExpired(items),
           NEW i \in Ids, items[i].state # "delivered", items'[i].state = "delivered"
    PROVE  /\ g[1] = i /\ new.state = "delivered"
           /\ items[i].state = "leased" /\ ~items[i].expired
           /\ <<i, items[i].token>> \in grants
<1>1. grants \in SUBSET (Ids \X Tokens)
  BY DEF IInv, SInv, Typed
<1>2. g[1] \in Ids /\ g = <<g[1], g[2]>>
  BY <1>1
<1>3. RecoverExpired(items)[i].state # "delivered"
  BY RecoverDelivers
<1>4. Holds(RecoverExpired(items), g[1], g[2])
  BY <1>3
<1>5. items' = [RecoverExpired(items) EXCEPT ![g[1]] = new]
  BY <1>4
<1>6. RecoverExpired(items) = [j \in Ids |-> RecoverExpired(items)[j]]
  BY DEF RecoverExpired
<1>7. g[1] = i /\ new.state = "delivered"
  BY <1>2, <1>3, <1>5, <1>6
<1>8. RecoverExpired(items)[i].state = "leased" /\ RecoverExpired(items)[i].token = g[2]
  BY <1>4, <1>7 DEF Holds
<1>9. items[i].state = "leased" /\ ~items[i].expired /\ items[i].token = g[2]
  BY <1>8, RecoverDelivers
<1> QED
  BY <1>2, <1>7, <1>9

LEMMA NextDelivers ==
    ASSUME IInv, [Next]_vars,
           NEW i \in Ids, items[i].state # "delivered", items'[i].state = "delivered"
    PROVE  /\ items[i].state = "leased" /\ ~items[i].expired
           /\ <<i, items[i].token>> \in grants
<1> USE OutboxAssumption
<1>1. items \in [Ids -> Item] /\ nextSequence \in Nat
  BY DEF IInv, SInv, Typed
<1>13. RecoverExpired(items) \in [Ids -> Item] /\ \A g \in grants : g[1] \in Ids
  <2>1. SInv(RecoverExpired(items), grants, nextSequence)
    BY RecoverKeeps DEF IInv
  <2> QED
    BY <2>1 DEF SInv, Typed
<1>14. ASSUME NEW g \in grants, NEW new, new.state # "delivered",
              items' = IF Holds(RecoverExpired(items), g[1], g[2])
                       THEN [RecoverExpired(items) EXCEPT ![g[1]] = new]
                       ELSE RecoverExpired(items)
       PROVE  FALSE
  BY <1>14, SettleDelivers, ZenonT(30)
<1>2. ASSUME NEW j \in Ids, NEW s \in Sessions, NEW b \in Bodies, Admit(j, s, b)
      PROVE  FALSE
  <2>1. PICK available \in BOOLEAN :
           items' = [items EXCEPT ![j] = NewItem(s, b, nextSequence, available)]
    BY <1>2 DEF Admit
  <2>2. NewItem(s, b, nextSequence, available).state = "pending"
    BY <1>1, NewItemType
  <2> QED
    BY <1>1, <2>1, <2>2
<1>3. ASSUME NEW offered \in SUBSET Ids, Claim(offered) PROVE FALSE
  <2> DEFINE recovered == RecoverExpired(items)
             chosen == ClaimCandidates(recovered, offered)
  <2>1. PICK lease \in [chosen -> FreshTokens(items)] :
           items' = [j \in Ids |-> IF j \in chosen THEN Leased(recovered[j], lease[j])
                                     ELSE recovered[j]]
    BY <1>3, Zenon DEF Claim
  <2>2. recovered[i].state # "delivered"
    BY RecoverDelivers
  <2>3. i \in chosen
    BY <2>1, <2>2
  <2>4. recovered \in [Ids -> Item]
    BY <1>13
  <2>5. lease[i] \in Tokens
    BY <2>3 DEF FreshTokens
  <2>6. Leased(recovered[i], lease[i]).state = "leased"
    BY <2>4, <2>5, LeasedType
  <2> QED
    BY <2>1, <2>3, <2>6
<1>4. CASE \E g \in grants : Acknowledge(g)
  <2>1. PICK g \in grants : Acknowledge(g)
    BY <1>4
  <2>2. items' = IF Holds(RecoverExpired(items), g[1], g[2])
                 THEN [RecoverExpired(items) EXCEPT
                         ![g[1]] = Release(RecoverExpired(items)[g[1]], "delivered")]
                 ELSE RecoverExpired(items)
    BY <2>1 DEF Acknowledge, Settle
  <2> QED
    BY <2>2, SettleDelivers, Zenon
<1>5. ASSUME NEW g \in grants, NEW retryable \in BOOLEAN, Fail(g, retryable)
      PROVE  FALSE
  <2> DEFINE old == RecoverExpired(items)[g[1]]
             new == IF retryable THEN Retried(old) ELSE Release(old, "dead-letter")
  <2>1. items' = IF Holds(RecoverExpired(items), g[1], g[2])
                 THEN [RecoverExpired(items) EXCEPT ![g[1]] = new]
                 ELSE RecoverExpired(items)
    BY <1>5 DEF Fail, Settle
  <2>2. old \in Item
    BY <1>13
  <2>3. new.state # "delivered"
    BY <2>2, ReleaseType DEF Retried, States, TerminalStates
  <2> HIDE DEF new
  <2> QED
    BY <1>14, <2>1, <2>3, Zenon
<1>6. ASSUME NEW g \in grants, Defer(g) PROVE FALSE
  <2> DEFINE old == RecoverExpired(items)[g[1]]
             new == [Release(old, "pending") EXCEPT
                      !.attempts = IF @ > 0 THEN @ - 1 ELSE 0]
  <2>1. items' = IF Holds(RecoverExpired(items), g[1], g[2])
                 THEN [RecoverExpired(items) EXCEPT ![g[1]] = new]
                 ELSE RecoverExpired(items)
    BY <1>6 DEF Defer, Settle
  <2>2. new.state = "pending"
    BY DEF Release
  <2> HIDE DEF new
  <2>3. new.state # "delivered"
    BY <2>2
  <2> QED
    BY <1>14, <2>1, <2>3, Zenon
<1>7. ASSUME RecoverExpiredLeases PROVE FALSE
  BY <1>7, RecoverDelivers DEF RecoverExpiredLeases
<1>8. ASSUME NEW j \in Ids, CancelQueued(j) PROVE FALSE
  BY <1>1, <1>8 DEF CancelQueued, Release
<1>9. ASSUME NEW s \in Sessions,
             NEW owned \in SUBSET {j \in Ids : Open(items, j) /\ items[j].session # s},
             CancelForSession(s, owned)
      PROVE  FALSE
  <2>1. \A j \in Ids : Release(items[j], "cancelled").state = "cancelled"
    BY <1>1, ReleaseType DEF States, TerminalStates
  <2> QED
    BY <1>9, <2>1 DEF CancelForSession
<1>10. ASSUME NEW j \in Ids, LeaseLapses(j) PROVE FALSE
  BY <1>1, <1>10 DEF LeaseLapses, Item
<1>11. ASSUME NEW j \in Ids, BecomesAvailable(j) PROVE FALSE
  BY <1>1, <1>11 DEF BecomesAvailable, Item
<1>12. ASSUME UNCHANGED items PROVE FALSE
  BY <1>12
<1> QED
  BY <1>2, <1>3, <1>4, <1>5, <1>6, <1>7, <1>8, <1>9, <1>10, <1>11, <1>12
     DEF Next, vars, DeliveryEnds, Crash

\* Only the delivery that holds a live lease delivers an item; an answer that
\* comes after the lease time or after a restart changes nothing.
THEOREM HolderDelivers == Spec => DeliveredByHolder
<1>1. IInv /\ [Next]_vars =>
        [\A i \in Ids :
          items[i].state # "delivered" /\ items'[i].state = "delivered"
          => /\ items[i].state = "leased" /\ ~items[i].expired
             /\ <<i, items[i].token>> \in grants]_vars
  BY NextDelivers
<1> QED
  BY <1>1, SpecInv, PTL DEF Spec, DeliveredByHolder

-------------------------------------------------------------------------------
(* An id is admitted once: what was admitted under it stays, and its end.  *)

SameEntry(old, new) ==
    /\ new.session = old.session
    /\ new.body = old.body
    /\ new.sequence = old.sequence
    /\ old.state \in TerminalStates => new.state = old.state

LEMMA RetriedEntry ==
    ASSUME NEW item \in Item, item.state = "leased"
    PROVE  SameEntry(item, Retried(item))
  BY ReleaseType DEF Retried, SameEntry, States, TerminalStates

LEMMA RecoveredEntry ==
    ASSUME items \in [Ids -> Item], NEW i \in Ids
    PROVE  SameEntry(items[i], RecoverExpired(items)[i])
  BY RetriedEntry DEF RecoverExpired, SameEntry

\* A settlement replaces the recovered item only while it is leased.
LEMMA SettledEntry ==
    ASSUME IInv, NEW g \in grants, NEW new, NEW i \in Ids,
           RecoverExpired(items)[g[1]].state = "leased" =>
               SameEntry(RecoverExpired(items)[g[1]], new),
           items' = IF Holds(RecoverExpired(items), g[1], g[2])
                    THEN [RecoverExpired(items) EXCEPT ![g[1]] = new]
                    ELSE RecoverExpired(items)
    PROVE  SameEntry(items[i], items'[i])
<1>1. items \in [Ids -> Item] /\ SInv(RecoverExpired(items), grants, nextSequence)
  BY RecoverKeeps DEF IInv, SInv, Typed
<1>2. RecoverExpired(items) \in [Ids -> Item] /\ g[1] \in Ids
  BY <1>1 DEF SInv, Typed
<1>3. SameEntry(items[i], RecoverExpired(items)[i])
  BY <1>1, RecoveredEntry
<1>4. CASE Holds(RecoverExpired(items), g[1], g[2]) /\ i = g[1]
  <2>1. items'[i] = new /\ RecoverExpired(items)[i].state = "leased"
    BY <1>2, <1>4 DEF Holds
  <2>2. items[i].state \notin TerminalStates
    BY <1>3, <2>1 DEF SameEntry, TerminalStates
  <2> QED
    BY <1>3, <1>4, <2>1, <2>2 DEF SameEntry
<1>5. CASE ~(Holds(RecoverExpired(items), g[1], g[2]) /\ i = g[1])
  <2>1. items'[i] = RecoverExpired(items)[i]
    BY <1>2, <1>5
  <2> QED
    BY <1>3, <2>1
<1> QED
  BY <1>4, <1>5

LEMMA NextEntry ==
    ASSUME IInv, [Next]_vars, NEW i \in Ids, items[i].state # "absent"
    PROVE  SameEntry(items[i], items'[i])
<1> USE OutboxAssumption
<1>1. /\ items \in [Ids -> Item] /\ items[i] \in Item /\ nextSequence \in Nat
      /\ RecoverExpired(items) \in [Ids -> Item] /\ \A g \in grants : g[1] \in Ids
  <2>1. SInv(RecoverExpired(items), grants, nextSequence)
    BY RecoverKeeps DEF IInv
  <2> QED
    BY <2>1 DEF IInv, SInv, Typed
<1>2. ASSUME NEW j \in Ids, NEW s \in Sessions, NEW b \in Bodies, Admit(j, s, b)
      PROVE  SameEntry(items[i], items'[i])
  <2>1. j # i /\ items'[i] = items[i]
    BY <1>1, <1>2 DEF Admit
  <2> QED
    BY <2>1 DEF SameEntry
<1>3. ASSUME NEW offered \in SUBSET Ids, Claim(offered)
      PROVE  SameEntry(items[i], items'[i])
  <2> DEFINE recovered == RecoverExpired(items)
             chosen == ClaimCandidates(recovered, offered)
  <2>1. PICK lease \in [chosen -> FreshTokens(items)] :
           items' = [j \in Ids |-> IF j \in chosen THEN Leased(recovered[j], lease[j])
                                     ELSE recovered[j]]
    BY <1>3, Zenon DEF Claim
  <2>2. SameEntry(items[i], recovered[i]) /\ recovered[i] \in Item
    BY <1>1, RecoveredEntry
  <2>3. CASE i \in chosen
    <3>1. recovered[i].state = "pending" /\ lease[i] \in Tokens
      BY <2>3 DEF ClaimCandidates, GroupHeads, Eligible, FreshTokens
    <3>2. /\ Leased(recovered[i], lease[i]).session = recovered[i].session
          /\ Leased(recovered[i], lease[i]).body = recovered[i].body
          /\ Leased(recovered[i], lease[i]).sequence = recovered[i].sequence
      BY <2>2, <3>1, LeasedType
    <3> HIDE DEF recovered, chosen
    <3>3. items'[i] = Leased(recovered[i], lease[i])
      BY <2>1, <2>3
    <3> QED
      BY <2>2, <3>1, <3>2, <3>3 DEF SameEntry, TerminalStates
  <2>4. CASE i \notin chosen
    <3> HIDE DEF recovered, chosen
    <3>1. items'[i] = recovered[i]
      BY <2>1, <2>4
    <3> QED
      BY <2>2, <3>1
  <2> QED
    BY <2>3, <2>4
<1>4. ASSUME NEW g \in grants, Acknowledge(g) PROVE SameEntry(items[i], items'[i])
  <2> DEFINE old == RecoverExpired(items)[g[1]]
             new == Release(old, "delivered")
  <2>1. items' = IF Holds(RecoverExpired(items), g[1], g[2])
                 THEN [RecoverExpired(items) EXCEPT ![g[1]] = new]
                 ELSE RecoverExpired(items)
    BY <1>4 DEF Acknowledge, Settle
  <2>2. old.state = "leased" => SameEntry(old, new)
    BY <1>1, ReleaseType DEF SameEntry, States, TerminalStates
  <2> HIDE DEF new
  <2> QED
    BY <2>1, <2>2, SettledEntry
<1>5. ASSUME NEW g \in grants, NEW retryable \in BOOLEAN, Fail(g, retryable)
      PROVE  SameEntry(items[i], items'[i])
  <2> DEFINE old == RecoverExpired(items)[g[1]]
             new == IF retryable THEN Retried(old) ELSE Release(old, "dead-letter")
  <2>1. items' = IF Holds(RecoverExpired(items), g[1], g[2])
                 THEN [RecoverExpired(items) EXCEPT ![g[1]] = new]
                 ELSE RecoverExpired(items)
    BY <1>5 DEF Fail, Settle
  <2>2. old.state = "leased" => SameEntry(old, new)
    BY <1>1, RetriedEntry, ReleaseType DEF SameEntry, States, TerminalStates
  <2> HIDE DEF new
  <2> QED
    BY <2>1, <2>2, SettledEntry
<1>6. ASSUME NEW g \in grants, Defer(g) PROVE SameEntry(items[i], items'[i])
  <2> DEFINE old == RecoverExpired(items)[g[1]]
             new == [Release(old, "pending") EXCEPT
                      !.attempts = IF @ > 0 THEN @ - 1 ELSE 0]
  <2>1. items' = IF Holds(RecoverExpired(items), g[1], g[2])
                 THEN [RecoverExpired(items) EXCEPT ![g[1]] = new]
                 ELSE RecoverExpired(items)
    BY <1>6 DEF Defer, Settle
  <2>2. new.session = old.session /\ new.body = old.body /\ new.sequence = old.sequence
    <3> DEFINE r == Release(old, "pending")
    <3>1. /\ r \in Item /\ r.session = old.session /\ r.body = old.body
          /\ r.sequence = old.sequence
      BY <1>1, ReleaseType DEF States
    <3> HIDE DEF r
    <3>2. \A k : /\ [r EXCEPT !.attempts = k].session = r.session
                 /\ [r EXCEPT !.attempts = k].body = r.body
                 /\ [r EXCEPT !.attempts = k].sequence = r.sequence
      BY <3>1 DEF Item
    <3>3. PICK k : new = [r EXCEPT !.attempts = k]
      BY DEF r
    <3> HIDE DEF new
    <3> QED
      BY <3>1, <3>2, <3>3
  <2>3. old.state = "leased" => SameEntry(old, new)
    BY <2>2 DEF SameEntry, TerminalStates
  <2> HIDE DEF new
  <2> QED
    BY <2>1, <2>3, SettledEntry
<1>7. ASSUME RecoverExpiredLeases PROVE SameEntry(items[i], items'[i])
  BY <1>1, <1>7, RecoveredEntry DEF RecoverExpiredLeases
<1>8. ASSUME NEW j \in Ids, CancelQueued(j) PROVE SameEntry(items[i], items'[i])
  <2>1. items' = [items EXCEPT ![j] = Release(items[j], "cancelled")]
        /\ items[j].state = "pending"
    BY <1>8 DEF CancelQueued
  <2> QED
    BY <1>1, <2>1, ReleaseType DEF SameEntry, States, TerminalStates
<1>9. ASSUME NEW s \in Sessions,
             NEW owned \in SUBSET {j \in Ids : Open(items, j) /\ items[j].session # s},
             CancelForSession(s, owned)
      PROVE  SameEntry(items[i], items'[i])
  <2>1. \/ items'[i] = items[i]
        \/ Open(items, i) /\ items'[i] = Release(items[i], "cancelled")
    BY <1>9 DEF CancelForSession
  <2> QED
    BY <1>1, <2>1, ReleaseType DEF Open, SameEntry, States, TerminalStates
<1>10. ASSUME NEW j \in Ids, LeaseLapses(j) \/ BecomesAvailable(j)
       PROVE  SameEntry(items[i], items'[i])
  BY <1>1, <1>10, SMTT(20) DEF LeaseLapses, BecomesAvailable, Item, SameEntry
<1>11. ASSUME UNCHANGED items PROVE SameEntry(items[i], items'[i])
  BY <1>11 DEF SameEntry
<1> QED
  BY <1>2, <1>3, <1>4, <1>5, <1>6, <1>7, <1>8, <1>9, <1>10, <1>11
     DEF Next, vars, DeliveryEnds, Crash

\* Whatever is retried under an id that exists, the entry keeps its session, its
\* body and its place, and one that ended is not revived.
THEOREM EntryAdmittedOnce == Spec => AdmittedOnce
<1>1. IInv /\ [Next]_vars =>
        [\A i \in Ids : items[i].state # "absent" =>
          /\ items'[i].session = items[i].session
          /\ items'[i].body = items[i].body
          /\ items'[i].sequence = items[i].sequence
          /\ items[i].state \in TerminalStates => items'[i].state = items[i].state]_vars
  BY NextEntry DEF SameEntry
<1> QED
  BY <1>1, SpecInv, PTL DEF Spec, AdmittedOnce

-------------------------------------------------------------------------------
(* The outbox implements SessionLine.  First lists: what Listed returns, and   *)
(* that an increasing list of a set is unique, so that the line of a session  *)
(* can be found from what happened to it.                                     *)

\* q lists the members of S by increasing w.
Lists(S, w, q) ==
    /\ q \in Seq(S)
    /\ \A x \in S : \E k \in 1 .. Len(q) : q[k] = x
    /\ \A j, k \in 1 .. Len(q) : j < k => w[q[j]] < w[q[k]]

\* The members of S before x.
Below(S, w, x) == {y \in S : w[y] < w[x]}

\* The ranks of the members of a finite set are its numbers from 0 on.
LEMMA Ranks ==
    ASSUME NEW S, IsFiniteSet(S), NEW w, \A x \in S : w[x] \in Nat,
           \A x, y \in S : w[x] = w[y] => x = y
    PROVE  /\ Cardinality(S) \in Nat
           /\ \A x, y \in S : w[x] < w[y] <=>
                 Cardinality(Below(S, w, x)) < Cardinality(Below(S, w, y))
           /\ \A x \in S : Cardinality(Below(S, w, x)) \in 0 .. Cardinality(S) - 1
           /\ \A n \in 1 .. Cardinality(S) :
                 \E x \in S : Cardinality(Below(S, w, x)) = n - 1
<1> DEFINE rank == [x \in S |-> Cardinality(Below(S, w, x))]
           n == Cardinality(S)
<1>1. n \in Nat
  BY FS_CardinalityType
<1>2. \A x \in S : /\ IsFiniteSet(Below(S, w, x)) /\ rank[x] \in Nat
                   /\ rank[x] = Cardinality(Below(S, w, x))
  <2> TAKE x \in S
  <2>1. Below(S, w, x) \in SUBSET S
    BY DEF Below
  <2> QED
    BY <2>1, FS_Subset, FS_CardinalityType
<1>3. ASSUME NEW x \in S, NEW y \in S, w[x] < w[y]  PROVE rank[x] < rank[y]
  <2>1. Below(S, w, x) \in SUBSET Below(S, w, y)
    BY <1>3 DEF Below
  <2>2. x \in Below(S, w, y) /\ x \notin Below(S, w, x)
    BY <1>3 DEF Below
  <2>3. /\ Cardinality(Below(S, w, x)) <= Cardinality(Below(S, w, y))
        /\ Cardinality(Below(S, w, x)) # Cardinality(Below(S, w, y))
    BY <1>2, <2>1, <2>2, FS_Subset
  <2> HIDE DEF rank
  <2> QED
    BY <1>2, <2>3
<1>4. \A x \in S : rank[x] \in 0 .. n - 1
  <2> TAKE x \in S
  <2>1. Below(S, w, x) \in SUBSET S /\ x \notin Below(S, w, x)
    BY DEF Below
  <2>2. Cardinality(Below(S, w, x)) <= n /\ Cardinality(Below(S, w, x)) # n
    BY <2>1, FS_Subset
  <2> HIDE DEF rank, n
  <2> QED
    BY <1>1, <1>2, <2>2
<1>5. rank \in Injection(S, 0 .. n - 1)
  <2>1. rank \in [S -> 0 .. n - 1]
    BY <1>4
  <2>2. \A x, y \in S : rank[x] = rank[y] => x = y
    <3> HIDE DEF rank
    <3> QED
      BY <1>2, <1>3
  <2> HIDE DEF rank
  <2> QED
    BY <2>1, <2>2 DEF Injection, IsInjective
<1>6. IsFiniteSet(0 .. n - 1) /\ Cardinality(0 .. n - 1) = n
  <2> HIDE DEF n
  <2> QED
    BY <1>1, FS_Interval
<1>7. rank \in Surjection(S, 0 .. n - 1)
  <2> HIDE DEF rank
  <2> QED
    BY <1>5, <1>6, FS_Injection
<1>8. \A x, y \in S : w[x] < w[y] <=> rank[x] < rank[y]
  <2> HIDE DEF rank
  <2> QED
    BY <1>2, <1>3
<1>9. \A k \in 1 .. n : \E x \in S : rank[x] = k - 1
  <2> HIDE DEF rank, n
  <2> QED
    BY <1>1, <1>7 DEF Surjection
<1> HIDE DEF rank, n
<1>10. n = Cardinality(S)
  BY DEF n
<1> QED
  BY <1>1, <1>2, <1>4, <1>8, <1>9, <1>10

\* So Listed lists a finite set.
LEMMA ListedLists ==
    ASSUME NEW S, IsFiniteSet(S), NEW w, \A x \in S : w[x] \in Nat,
           \A x, y \in S : w[x] = w[y] => x = y
    PROVE  Lists(S, w, Listed(S, w))
<1> DEFINE n == Cardinality(S)
           rank(x) == Cardinality(Below(S, w, x))
           q == Listed(S, w)
<1>1. /\ n \in Nat
      /\ \A x, y \in S : w[x] < w[y] <=> rank(x) < rank(y)
      /\ \A x \in S : rank(x) \in 0 .. n - 1
      /\ \A k \in 1 .. n : \E x \in S : rank(x) = k - 1
  BY Ranks
<1>2. q = [k \in 1 .. n |-> CHOOSE x \in S : rank(x) = k - 1]
  BY DEF Listed, Below
<1> HIDE DEF n, rank, q
<1>3. \A k \in 1 .. n : q[k] \in S /\ rank(q[k]) = k - 1
  BY <1>1, <1>2
<1>4. q \in Seq(S) /\ Len(q) = n
  BY <1>1, <1>2, <1>3
<1>5. \A j, k \in 1 .. n : j < k => w[q[j]] < w[q[k]]
  BY <1>1, <1>3
<1>6. ASSUME NEW x \in S  PROVE \E k \in 1 .. n : q[k] = x
  <2>1. rank(x) + 1 \in 1 .. n /\ rank(q[rank(x) + 1]) = rank(x)
    BY <1>1, <1>3
  <2>2. ~(w[x] < w[q[rank(x) + 1]]) /\ ~(w[q[rank(x) + 1]] < w[x])
    BY <1>1, <1>3, <2>1
  <2> QED
    BY <1>3, <2>1, <2>2
<1>7. Lists(S, w, q)
  BY <1>4, <1>5, <1>6 DEF Lists
<1> QED
  BY <1>7 DEF q

\* And nothing else does.
LEMMA OnlyListed ==
    ASSUME NEW S, NEW w, \A x \in S : w[x] \in Nat, NEW q, Lists(S, w, q)
    PROVE  /\ IsFiniteSet(S) /\ Len(q) = Cardinality(S)
           /\ \A x, y \in S : w[x] = w[y] => x = y
           /\ q = Listed(S, w)
<1> DEFINE n == Len(q)
<1>1. /\ n \in Nat /\ q \in [1 .. n -> S]
      /\ \A x \in S : \E k \in 1 .. n : q[k] = x
      /\ \A j, k \in 1 .. n : j < k => w[q[j]] < w[q[k]]
  BY DEF Lists
<1> HIDE DEF n
<1>2. \A j, k \in 1 .. n : w[q[j]] = w[q[k]] => j = k
  BY <1>1
<1>3. \A x, y \in S : w[x] = w[y] => x = y
  BY <1>1, <1>2
<1>4. q \in Bijection(1 .. n, S)
  BY <1>1, <1>2 DEF Bijection, Injection, Surjection, IsInjective
<1>5. IsFiniteSet(S) /\ Cardinality(S) = n
  BY <1>1, <1>4, FS_NatBijection, FS_CountingElements DEF ExistsBijection
<1>6. ASSUME NEW k \in 1 .. n  PROVE Cardinality(Below(S, w, q[k])) = k - 1
  <2> DEFINE p == [j \in 1 .. k - 1 |-> q[j]]
  <2>1. p \in Bijection(1 .. k - 1, Below(S, w, q[k]))
    <3>1. p \in [1 .. k - 1 -> Below(S, w, q[k])]
      BY <1>1 DEF Below
    <3>2. \A i, j \in 1 .. k - 1 : p[i] = p[j] => i = j
      BY <1>1, <1>2
    <3>3. \A y \in Below(S, w, q[k]) : \E j \in 1 .. k - 1 : p[j] = y
      BY <1>1 DEF Below
    <3> HIDE DEF p
    <3> QED
      BY <3>1, <3>2, <3>3 DEF Bijection, Injection, Surjection, IsInjective
  <2> HIDE DEF p
  <2> QED
    BY <2>1, FS_CountingElements DEF ExistsBijection
<1>7. ASSUME NEW k \in 1 .. n
      PROVE  q[k] = CHOOSE x \in S : Cardinality(Below(S, w, x)) = k - 1
  <2>1. \A x \in S : Cardinality(Below(S, w, x)) = k - 1 => x = q[k]
    BY <1>1, <1>6
  <2> QED
    BY <1>1, <1>6, <2>1
<1>8. q = Listed(S, w)
  BY <1>1, <1>5, <1>7 DEF Listed, Below
<1> QED
  BY <1>3, <1>5, <1>8 DEF n

\* What happens to a list when a member joins or leaves.
LEMMA AppendLists ==
    ASSUME NEW S, NEW w, NEW q, Lists(S, w, q), NEW x, \A y \in S : w[y] < w[x]
    PROVE  Lists(S \cup {x}, w, Append(q, x))
<1> DEFINE T == S \cup {x}
           p == Append(q, x)
<1>1. q \in Seq(T) /\ x \in T /\ Len(q) \in Nat
  BY DEF Lists
<1>2. /\ p \in Seq(T) /\ Len(p) = Len(q) + 1
      /\ \A k \in 1 .. Len(q) : p[k] = q[k]
      /\ p[Len(q) + 1] = x
  BY <1>1, AppendProperties
<1>3. \A k \in 1 .. Len(q) : q[k] \in S
  BY DEF Lists
<1>4. \A y \in T : \E k \in 1 .. Len(p) : p[k] = y
  BY <1>1, <1>2 DEF Lists
<1> HIDE DEF p
<1>5. ASSUME NEW j \in 1 .. Len(p), NEW k \in 1 .. Len(p), j < k
      PROVE  w[p[j]] < w[p[k]]
  <2>1. j \in 1 .. Len(q)
    BY <1>1, <1>2, <1>5
  <2>2. k \in 1 .. Len(q) \/ k = Len(q) + 1
    BY <1>1, <1>2
  <2> QED
    BY <1>2, <1>3, <1>5, <2>1, <2>2 DEF Lists
<1>6. Lists(T, w, p)
  BY <1>2, <1>4, <1>5 DEF Lists
<1> QED
  BY <1>6 DEF p

\* The members of a list, and what is left of it without some of them.
LEMMA MembersLists ==
    ASSUME NEW S, NEW w, NEW q, Lists(S, w, q)
    PROVE  Line!Members(q) = S
<1>1. \A k \in 1 .. Len(q) : q[k] \in S
  <2>1. q \in Seq(S)
    BY Zenon DEF Lists
  <2> QED
    BY <2>1
<1>2. \A x \in S : \E k \in 1 .. Len(q) : q[k] = x
  BY Zenon DEF Lists
<1> QED
  BY <1>1, <1>2, Zenon DEF Line!Members

LEMMA WithoutLists ==
    ASSUME NEW S, NEW w, NEW q, Lists(S, w, q), NEW T
    PROVE  Lists(S \ T, w, Line!Without(q, T))
<1> DEFINE left == {k \in 1 .. Len(q) : q[k] \notin T}
           v == [k \in left |-> k]
           order == Listed(left, v)
           p == [n \in 1 .. Cardinality(left) |-> q[order[n]]]
<1>1. /\ q \in Seq(S) /\ Len(q) \in Nat
      /\ \A k \in 1 .. Len(q) : q[k] \in S
      /\ \A j, k \in 1 .. Len(q) : j < k => w[q[j]] < w[q[k]]
  <2>1. q \in Seq(S) /\ \A j, k \in 1 .. Len(q) : j < k => w[q[j]] < w[q[k]]
    BY Zenon DEF Lists
  <2>2. Len(q) \in Nat /\ \A k \in 1 .. Len(q) : q[k] \in S
    BY <2>1
  <2> QED
    BY <2>1, <2>2, Zenon
<1>2. IsFiniteSet(left) /\ left \in SUBSET (1 .. Len(q))
  <2>1. left \in SUBSET (1 .. Len(q))
    OBVIOUS
  <2>2. IsFiniteSet(1 .. Len(q))
    BY <1>1, FS_Interval
  <2> HIDE DEF left
  <2> QED
    BY <2>1, <2>2, FS_Subset
<1>3. /\ \A k \in left : v[k] \in Nat /\ v[k] = k
      /\ \A j, k \in left : v[j] = v[k] => j = k
  BY <1>2
<1>4. Lists(left, v, order)
  <2> HIDE DEF left, v
  <2> QED
    BY <1>2, <1>3, ListedLists
<1>5. Len(order) = Cardinality(left)
  <2> HIDE DEF left, v, order
  <2> QED
    BY <1>3, <1>4, OnlyListed
<1>6. Line!Without(q, T) = p
  BY DEF Line!Without, Line!Listed, Listed, Line!Cardinality, Cardinality
<1>7. \A k \in 1 .. Len(q) : k \in left <=> q[k] \notin T
  OBVIOUS
<1> HIDE DEF left, v, order, p
<1>8. /\ order \in Seq(left) /\ Len(order) \in Nat
      /\ \A n \in 1 .. Len(order) : order[n] \in left
      /\ \A k \in left : \E n \in 1 .. Len(order) : order[n] = k
      /\ \A m, n \in 1 .. Len(order) : m < n => order[m] < order[n]
  <2>1. /\ order \in Seq(left)
        /\ \A k \in left : \E n \in 1 .. Len(order) : order[n] = k
        /\ \A m, n \in 1 .. Len(order) : m < n => v[order[m]] < v[order[n]]
    BY <1>4 DEF Lists
  <2>2. Len(order) \in Nat /\ \A n \in 1 .. Len(order) : order[n] \in left
    BY <2>1
  <2> QED
    BY <1>3, <2>1, <2>2
<1>9. \A n \in 1 .. Len(order) : q[order[n]] \in S \ T
  BY <1>1, <1>2, <1>7, <1>8
<1>10. p \in Seq(S \ T) /\ Len(p) = Len(order) /\ \A n \in 1 .. Len(p) : p[n] = q[order[n]]
  BY <1>5, <1>8, <1>9 DEF p
<1>11. \A x \in S \ T : \E n \in 1 .. Len(p) : p[n] = x
  <2> TAKE x \in S \ T
  <2>1. PICK k \in 1 .. Len(q) : q[k] = x
    BY DEF Lists
  <2> QED
    BY <1>7, <1>8, <1>10, <2>1
<1>12. \A m, n \in 1 .. Len(p) : m < n => w[p[m]] < w[p[n]]
  <2> TAKE m, n \in 1 .. Len(p)
  <2> HAVE m < n
  <2>1. /\ order[m] < order[n]
        /\ order[m] \in 1 .. Len(q) /\ order[n] \in 1 .. Len(q)
    BY <1>2, <1>8, <1>10
  <2> QED
    BY <1>1, <1>10, <2>1
<1> QED
  BY <1>6, <1>10, <1>11, <1>12 DEF Lists

-------------------------------------------------------------------------------
(* The lines of a snapshot of the items, and of the next one.                 *)

\* Every admitted item belongs to a session.
Placed(its) == \A i \in Ids : its[i].state # "absent" => its[i].session \in Sessions

\* What the lines are ordered by, and the set they list.
Sequences(its) == [i \in Ids |-> its[i].sequence]

Opened(its, s) == InState(its, s, {"pending", "leased"})

\* What is admitted stays where it was admitted.
Carried(its, its2) ==
    \A i \in Ids : its[i].state # "absent" =>
        /\ its2[i].state # "absent"
        /\ its2[i].session = its[i].session
        /\ its2[i].sequence = its[i].sequence

\* Admitted items can be listed by the number they were given.
LEMMA AdmittedLists ==
    ASSUME NEW its, NEW gs, NEW n, SInv(its, gs, n),
           NEW S \in SUBSET {i \in Ids : its[i].state # "absent"}
    PROVE  Lists(S, Sequences(its), BySequence(its, S))
<1> DEFINE w == [i \in S |-> its[i].sequence]
<1>1. its \in [Ids -> Item] /\ n \in Nat
  BY DEF SInv, Typed
<1>2. \A i \in S : /\ i \in Ids /\ its[i].sequence \in Nat /\ its[i].sequence \in 0 .. n
                   /\ w[i] = its[i].sequence
                   /\ w[i] = Sequences(its)[i]
  <2> TAKE i \in S
  <2>1. i \in Ids /\ its[i].state # "absent" /\ its[i].sequence \in Nat
    BY <1>1 DEF Item
  <2>2. its[i].sequence < n
    BY <2>1 DEF SInv, Sequenced
  <2> QED
    BY <1>1, <2>1, <2>2 DEF Sequences
<1>3. \A i, j \in S : w[i] = w[j] => i = j
  BY <1>2 DEF SInv, Sequenced
<1>4. w \in [S -> 0 .. n]
  BY <1>2
<1> HIDE DEF w
<1>5. IsFiniteSet(S)
  <2>1. w \in Injection(S, 0 .. n)
    BY <1>3, <1>4 DEF Injection, IsInjective
  <2>2. IsFiniteSet(0 .. n)
    BY <1>1, FS_Interval
  <2> QED
    BY <2>1, <2>2, FS_Injection
<1>6. Lists(S, w, Listed(S, w))
  <2>1. \A i \in S : w[i] \in Nat
    BY <1>2
  <2> QED
    BY <1>3, <1>5, <2>1, ListedLists
<1>7. BySequence(its, S) = Listed(S, w)
  BY DEF BySequence, w
<1> DEFINE q == Listed(S, w)
<1>8. /\ q \in Seq(S)
      /\ \A x \in S : \E k \in 1 .. Len(q) : q[k] = x
      /\ \A j, k \in 1 .. Len(q) : j < k => w[q[j]] < w[q[k]]
  BY <1>6 DEF Lists
<1> HIDE DEF q
<1>9. \A k \in 1 .. Len(q) : w[q[k]] = Sequences(its)[q[k]]
  BY <1>2, <1>8
<1>10. Lists(S, Sequences(its), q)
  BY <1>8, <1>9 DEF Lists
<1> QED
  BY <1>7, <1>10 DEF q

\* There is one such list.
LEMMA OnlyBySequence ==
    ASSUME NEW its \in [Ids -> Item], NEW S \in SUBSET Ids, NEW q,
           Lists(S, Sequences(its), q)
    PROVE  BySequence(its, S) = q
<1> DEFINE w == [i \in S |-> its[i].sequence]
<1>1. \A i \in S : w[i] \in Nat /\ w[i] = Sequences(its)[i]
  BY DEF Item, Sequences
<1> HIDE DEF w
<1>2. /\ q \in Seq(S)
      /\ \A x \in S : \E k \in 1 .. Len(q) : q[k] = x
      /\ \A j, k \in 1 .. Len(q) : j < k => Sequences(its)[q[j]] < Sequences(its)[q[k]]
  BY DEF Lists
<1>3. \A k \in 1 .. Len(q) : w[q[k]] = Sequences(its)[q[k]]
  BY <1>1, <1>2
<1>4. Lists(S, w, q)
  BY <1>2, <1>3 DEF Lists
<1>5. q = Listed(S, w)
  BY <1>1, <1>4, OnlyListed
<1> QED
  BY <1>5 DEF BySequence, w

\* A step that carries what is admitted keeps every list of it.
LEMMA CarriedLists ==
    ASSUME NEW its, NEW its2, Carried(its, its2),
           NEW S \in SUBSET {i \in Ids : its[i].state # "absent"}, NEW q,
           Lists(S, Sequences(its), q)
    PROVE  Lists(S, Sequences(its2), q)
<1>1. /\ q \in Seq(S)
      /\ \A x \in S : \E k \in 1 .. Len(q) : q[k] = x
      /\ \A j, k \in 1 .. Len(q) : j < k => Sequences(its)[q[j]] < Sequences(its)[q[k]]
  BY DEF Lists
<1>2. \A k \in 1 .. Len(q) : Sequences(its2)[q[k]] = Sequences(its)[q[k]]
  BY <1>1 DEF Carried, Sequences
<1> QED
  BY <1>1, <1>2 DEF Lists

\* How the line of some items changes with the items.
LEMMA CarriedLine ==
    ASSUME NEW its, NEW its2 \in [Ids -> Item], NEW gs, NEW n, SInv(its, gs, n),
           Carried(its, its2),
           NEW S \in SUBSET {i \in Ids : its[i].state # "absent"}
    PROVE  /\ BySequence(its2, S) = BySequence(its, S)
           /\ \A x \in Ids : (\A y \in S : its[y].sequence < its2[x].sequence) =>
                 BySequence(its2, S \cup {x}) = Append(BySequence(its, S), x)
           /\ \A T : BySequence(its2, S \ T) = Line!Without(BySequence(its, S), T)
           /\ Line!Members(BySequence(its, S)) = S
<1> DEFINE q == BySequence(its, S)
           w == Sequences(its)
           w2 == Sequences(its2)
<1>1. Lists(S, w, q)
  BY AdmittedLists
<1>2. Lists(S, w2, q)
  BY <1>1, CarriedLists
<1>3. its \in [Ids -> Item] /\ S \in SUBSET Ids
  BY DEF SInv, Typed
<1>4. BySequence(its2, S) = q
  BY <1>2, <1>3, OnlyBySequence
<1>5. /\ \A y \in S : w[y] = its[y].sequence /\ w[y] \in Nat
      /\ \A y \in Ids : w2[y] = its2[y].sequence
      /\ \A y \in S : w2[y] = w[y]
  BY <1>3 DEF Sequences, Item, Carried
<1> HIDE DEF q, w, w2
<1>7. ASSUME NEW x \in Ids, \A y \in S : its[y].sequence < its2[x].sequence
      PROVE  BySequence(its2, S \cup {x}) = Append(q, x)
  <2>1. \A y \in S : w2[y] < w2[x]
    BY <1>5, <1>7
  <2>2. Lists(S \cup {x}, w2, Append(q, x))
    BY <1>2, <2>1, AppendLists
  <2>3. S \cup {x} \in SUBSET Ids
    BY <1>3
  <2> QED
    BY <2>2, <2>3, OnlyBySequence DEF w2
<1>8. ASSUME NEW T PROVE BySequence(its2, S \ T) = Line!Without(q, T)
  <2>1. Lists(S \ T, w2, Line!Without(q, T))
    BY <1>2, WithoutLists
  <2>2. S \ T \in SUBSET Ids
    BY <1>3
  <2> QED
    BY <2>1, <2>2, OnlyBySequence DEF w2
<1>9. Line!Members(q) = S
  BY <1>1, MembersLists
<1>10. q = BySequence(its, S)
  BY DEF q
<1> QED
  BY <1>4, <1>7, <1>8, <1>9, <1>10

\* The items that go from one state to another.
Turned(its, its2, old, new) ==
    {i \in Ids : its[i].state = old /\ its2[i].state = new}

Started(its, its2) == Turned(its, its2, "pending", "leased")

\* What the line of a session is after a step that admits nothing and closes S.
LEMMA ClosedLine ==
    ASSUME NEW its, NEW gs, NEW n, SInv(its, gs, n), NEW its2 \in [Ids -> Item],
           Carried(its, its2), NEW S,
           \A i \in Ids : Open(its2, i) <=> Open(its, i) /\ i \notin S
    PROVE  LineIn(its2) = [s \in Sessions |-> Line!Without(LineIn(its)[s], S)]
<1>1. \A s \in Sessions : Opened(its, s) \in SUBSET {i \in Ids : its[i].state # "absent"}
  BY DEF Opened, InState
<1>2. \A s \in Sessions : LineIn(its)[s] = BySequence(its, Opened(its, s))
  BY DEF LineIn, Opened
<1>3. LineIn(its2) = [s \in Sessions |-> BySequence(its2, Opened(its2, s))]
  BY DEF LineIn, Opened
<1>4. \A s \in Sessions : BySequence(its2, Opened(its, s) \ S) = Line!Without(LineIn(its)[s], S)
  <2> TAKE s \in Sessions
  <2>1. \A T : BySequence(its2, Opened(its, s) \ T)
               = Line!Without(BySequence(its, Opened(its, s)), T)
    BY <1>1, CarriedLine
  <2> QED
    BY <1>2, <2>1
<1>5. ASSUME NEW s \in Sessions PROVE Opened(its2, s) = Opened(its, s) \ S
  <2>1. \A i \in Ids : Open(its, i) => its2[i].session = its[i].session
    BY DEF Carried, Open
  <2>2. \A i \in Ids : its2[i].session = s /\ Open(its2, i)
                        <=> its[i].session = s /\ Open(its, i) /\ i \notin S
    BY <2>1
  <2> QED
    BY <2>2 DEF Opened, InState, Open
<1> QED
  BY <1>3, <1>4, <1>5

\* The lines hold exactly the open items, each session its own.
LEMMA LineHolds ==
    ASSUME NEW its, NEW gs, NEW n, SInv(its, gs, n), Placed(its)
    PROVE  /\ UNION {Line!Members(LineIn(its)[s]) : s \in Sessions} = {i \in Ids : Open(its, i)}
           /\ \A s \in Sessions : Line!Members(LineIn(its)[s]) = Opened(its, s)
<1>1. \A s \in Sessions : Opened(its, s) \in SUBSET {i \in Ids : its[i].state # "absent"}
  BY DEF Opened, InState
<1>2. ASSUME NEW s \in Sessions PROVE Line!Members(LineIn(its)[s]) = Opened(its, s)
  <2>1. its \in [Ids -> Item] /\ Carried(its, its)
    BY DEF SInv, Typed, Carried
  <2>2. Line!Members(BySequence(its, Opened(its, s))) = Opened(its, s)
    BY <1>1, <2>1, CarriedLine
  <2> QED
    BY <2>2 DEF LineIn, Opened
<1>3. ASSUME NEW i \in Ids, Open(its, i)
      PROVE  its[i].session \in Sessions /\ i \in Opened(its, its[i].session)
  BY <1>3 DEF Placed, Opened, InState, Open
<1>4. \A s \in Sessions : Opened(its, s) \in SUBSET {i \in Ids : Open(its, i)}
  BY DEF Opened, InState, Open
<1>5. \A i \in Ids : Open(its, i) => \E s \in Sessions : i \in Line!Members(LineIn(its)[s])
  BY <1>2, <1>3
<1>6. \A s \in Sessions : Line!Members(LineIn(its)[s]) \in SUBSET {i \in Ids : Open(its, i)}
  BY <1>2, <1>4
<1> QED
  BY <1>2, <1>5, <1>6, Zenon

\* Items are leased, one of a session at most, or leases end without a delivery.
Serves(its, its2) ==
    /\ Carried(its, its2)
    /\ \A i \in Ids :
          \/ its2[i].state = its[i].state
          \/ its[i].state = "pending" /\ its2[i].state = "leased"
          \/ its[i].state = "leased" /\ its2[i].state \in {"pending", "dead-letter"}
    /\ \A i, j \in Started(its, its2) : its[i].session = its[j].session => i = j

\* A step that leases, returns or buries items serves some of the line.
LEMMA ServesServe ==
    ASSUME NEW its, NEW gs, NEW n, SInv(its, gs, n), Placed(its),
           NEW its2 \in [Ids -> Item], Serves(its, its2),
           NEW quit, quit = Turned(its, its2, "leased", "dead-letter"),
           NEW back, back = Turned(its, its2, "leased", "pending"),
           NEW start, start = Started(its, its2)
    PROVE  /\ quit \in SUBSET ServingIn(its)
           /\ back \in SUBSET ServingIn(its)
           /\ start \in SUBSET {i \in Ids : Open(its, i) /\ i \notin ServingIn(its)}
           /\ ServingIn(its2) = (ServingIn(its) \ (quit \cup back)) \cup start
           /\ GoneIn(its2) = GoneIn(its) \cup quit
           /\ DeliveredIn(its2) = DeliveredIn(its)
           /\ \A s \in Sessions : \A i, j \in start \cap Line!Members(LineIn(its)[s]) : i = j
           /\ LineIn(its2) = [s \in Sessions |-> Line!Without(LineIn(its)[s], quit)]
<1>1. \A i \in Ids : \/ its2[i].state = its[i].state
                     \/ its[i].state = "pending" /\ its2[i].state = "leased"
                     \/ its[i].state = "leased" /\ its2[i].state \in {"pending", "dead-letter"}
  BY DEF Serves
<1>2. quit \in SUBSET ServingIn(its) /\ back \in SUBSET ServingIn(its)
  BY DEF Turned, ServingIn
<1>3. start \in SUBSET {i \in Ids : Open(its, i) /\ i \notin ServingIn(its)}
  BY DEF Started, Turned, ServingIn, Open
<1>4. ServingIn(its2) = (ServingIn(its) \ (quit \cup back)) \cup start
  BY <1>1 DEF Started, Turned, ServingIn
<1>5. GoneIn(its2) = GoneIn(its) \cup quit
  BY <1>1 DEF Turned, GoneIn
<1>6. DeliveredIn(its2) = DeliveredIn(its)
  BY <1>1 DEF DeliveredIn
<1>7. \A s \in Sessions : \A i, j \in start \cap Line!Members(LineIn(its)[s]) : i = j
  <2> TAKE s \in Sessions
  <2>1. \A i \in Line!Members(LineIn(its)[s]) : its[i].session = s
    BY LineHolds DEF Opened, InState
  <2> QED
    BY <2>1 DEF Serves
<1>8. \A i \in Ids : Open(its2, i) <=> Open(its, i) /\ i \notin quit
  BY <1>1 DEF Turned, Open
<1>9. LineIn(its2) = [s \in Sessions |-> Line!Without(LineIn(its)[s], quit)]
  BY <1>8, ClosedLine DEF Serves
<1> QED
  BY <1>2, <1>3, <1>4, <1>5, <1>6, <1>7, <1>9

\* x is delivered, and leases of other items end.
Delivers(its, its2, x) ==
    /\ Carried(its, its2)
    /\ its[x].state = "leased" /\ its2[x].state = "delivered"
    /\ \A i \in Ids \ {x} :
          \/ its2[i].state = its[i].state
          \/ its[i].state = "leased" /\ its2[i].state \in {"pending", "dead-letter"}

\* An acknowledgement delivers out of service, whatever other leases lapsed.
LEMMA DeliversDeliver ==
    ASSUME NEW its, NEW gs, NEW n, SInv(its, gs, n),
           NEW its2 \in [Ids -> Item], NEW x \in Ids, Delivers(its, its2, x),
           NEW quit, quit = Turned(its, its2, "leased", "dead-letter"),
           NEW back, back = Turned(its, its2, "leased", "pending"),
           NEW closed, closed = {x} \cup quit
    PROVE  /\ x \in ServingIn(its)
           /\ quit \in SUBSET (ServingIn(its) \ {x})
           /\ back \in SUBSET (ServingIn(its) \ {x})
           /\ DeliveredIn(its2) = DeliveredIn(its) \cup {x}
           /\ GoneIn(its2) = GoneIn(its) \cup quit
           /\ ServingIn(its2) = ServingIn(its) \ ({x} \cup quit \cup back)
           /\ LineIn(its2) = [s \in Sessions |-> Line!Without(LineIn(its)[s], closed)]
<1>1. /\ its[x].state = "leased" /\ its2[x].state = "delivered"
      /\ \A i \in Ids \ {x} :
            \/ its2[i].state = its[i].state
            \/ its[i].state = "leased" /\ its2[i].state \in {"pending", "dead-letter"}
  BY DEF Delivers
<1>2. /\ x \in ServingIn(its)
      /\ quit \in SUBSET (ServingIn(its) \ {x})
      /\ back \in SUBSET (ServingIn(its) \ {x})
  BY <1>1 DEF Turned, ServingIn
<1>3. DeliveredIn(its2) = DeliveredIn(its) \cup {x}
  BY <1>1 DEF DeliveredIn
<1>4. GoneIn(its2) = GoneIn(its) \cup quit
  BY <1>1 DEF Turned, GoneIn
<1>5. ServingIn(its2) = ServingIn(its) \ ({x} \cup quit \cup back)
  BY <1>1 DEF Turned, ServingIn
<1>6. \A i \in Ids : Open(its2, i) <=> Open(its, i) /\ i \notin closed
  BY <1>1 DEF Turned, Open
<1>7. Carried(its, its2)
  BY DEF Delivers
<1>8. LineIn(its2) = [s \in Sessions |-> Line!Without(LineIn(its)[s], closed)]
  BY <1>6, <1>7, ClosedLine
<1> QED
  BY <1>2, <1>3, <1>4, <1>5, <1>8

\* The items of S are cancelled.
Withdraws(its, its2, S) ==
    /\ Carried(its, its2)
    /\ S \in SUBSET {i \in Ids : its[i].state \in {"pending", "leased"}}
    /\ \A i \in Ids : its2[i].state = IF i \in S THEN "cancelled" ELSE its[i].state

\* A cancellation withdraws items from their lines.
LEMMA WithdrawsWithdraw ==
    ASSUME NEW its, NEW gs, NEW n, SInv(its, gs, n),
           NEW its2 \in [Ids -> Item], NEW S, Withdraws(its, its2, S)
    PROVE  /\ S \in SUBSET {i \in Ids : Open(its, i)}
           /\ GoneIn(its2) = GoneIn(its) \cup S
           /\ ServingIn(its2) = ServingIn(its) \ S
           /\ DeliveredIn(its2) = DeliveredIn(its)
           /\ LineIn(its2) = [s \in Sessions |-> Line!Without(LineIn(its)[s], S)]
<1>1. /\ S \in SUBSET Ids
      /\ \A i \in S : its[i].state \in {"pending", "leased"} /\ its2[i].state = "cancelled"
      /\ \A i \in Ids \ S : its2[i].state = its[i].state
  BY DEF Withdraws
<1>2. S \in SUBSET {i \in Ids : Open(its, i)}
  BY <1>1 DEF Open
<1>3. GoneIn(its2) = GoneIn(its) \cup S
  BY <1>1 DEF GoneIn
<1>4. ServingIn(its2) = ServingIn(its) \ S
  BY <1>1 DEF ServingIn
<1>5. DeliveredIn(its2) = DeliveredIn(its)
  BY <1>1 DEF DeliveredIn
<1>6. \A i \in Ids : Open(its2, i) <=> Open(its, i) /\ i \notin S
  BY <1>1 DEF Open
<1>7. LineIn(its2) = [s \in Sessions |-> Line!Without(LineIn(its)[s], S)]
  BY <1>6, ClosedLine DEF Withdraws
<1> QED
  BY <1>2, <1>3, <1>4, <1>5, <1>7

\* i is admitted to s, behind everything admitted before.
Joins(its, its2, i, s) ==
    /\ its[i].state = "absent"
    /\ its2[i].state = "pending" /\ its2[i].session = s
    /\ \A j \in Ids : its[j].state # "absent" => its[j].sequence < its2[i].sequence
    /\ \A j \in Ids \ {i} : its2[j] = its[j]

\* An admission joins the line of its session.
LEMMA JoinsJoin ==
    ASSUME NEW its, NEW gs, NEW n, SInv(its, gs, n),
           NEW its2 \in [Ids -> Item], NEW s \in Sessions, NEW i \in Ids,
           Joins(its, its2, i, s)
    PROVE  /\ ServingIn(its2) = ServingIn(its)
           /\ GoneIn(its2) = GoneIn(its)
           /\ DeliveredIn(its2) = DeliveredIn(its)
           /\ ~Open(its, i) /\ i \notin DeliveredIn(its) \cup GoneIn(its)
           /\ LineIn(its2) = [LineIn(its) EXCEPT ![s] = Append(@, i)]
<1>1. /\ its[i].state = "absent"
      /\ its2[i].state = "pending" /\ its2[i].session = s
      /\ \A j \in Ids : its[j].state # "absent" => its[j].sequence < its2[i].sequence
      /\ \A j \in Ids \ {i} : its2[j] = its[j]
  BY DEF Joins
<1>2. Carried(its, its2)
  BY <1>1 DEF Carried
<1>3. \A r \in Sessions : Opened(its, r) \in SUBSET {j \in Ids : its[j].state # "absent"}
  BY DEF Opened, InState
<1>4. \A r \in Sessions : LineIn(its)[r] = BySequence(its, Opened(its, r))
  BY DEF LineIn, Opened
<1>5. /\ LineIn(its2) = [r \in Sessions |-> BySequence(its2, Opened(its2, r))]
      /\ LineIn(its) = [r \in Sessions |-> LineIn(its)[r]]
  BY DEF LineIn, Opened
<1>6. \A r \in Sessions : BySequence(its2, Opened(its, r)) = LineIn(its)[r]
  BY <1>2, <1>3, <1>4, CarriedLine
<1>7. /\ \A r \in Sessions \ {s} : Opened(its2, r) = Opened(its, r)
      /\ Opened(its2, s) = Opened(its, s) \cup {i}
  BY <1>1 DEF Opened, InState
<1>8. BySequence(its2, Opened(its, s) \cup {i}) = Append(LineIn(its)[s], i)
  <2> DEFINE S == Opened(its, s)
  <2>1. \A y \in S : its[y].sequence < its2[i].sequence
    BY <1>1, <1>3
  <2>2. S \in SUBSET {j \in Ids : its[j].state # "absent"}
    BY <1>3
  <2>3. LineIn(its)[s] = BySequence(its, S)
    BY <1>4
  <2> HIDE DEF S
  <2>4. \A x \in Ids : (\A y \in S : its[y].sequence < its2[x].sequence) =>
           BySequence(its2, S \cup {x}) = Append(BySequence(its, S), x)
    BY <1>2, <2>2, CarriedLine
  <2>5. BySequence(its2, S \cup {i}) = Append(LineIn(its)[s], i)
    BY <2>1, <2>3, <2>4
  <2> QED
    BY <2>5 DEF S
<1>9. /\ ServingIn(its2) = ServingIn(its) /\ GoneIn(its2) = GoneIn(its)
      /\ DeliveredIn(its2) = DeliveredIn(its)
      /\ ~Open(its, i) /\ i \notin DeliveredIn(its) \cup GoneIn(its)
  BY <1>1 DEF ServingIn, GoneIn, DeliveredIn, Open
<1>10. LineIn(its2) = [LineIn(its) EXCEPT ![s] = Append(@, i)]
  <2>1. \A r \in Sessions \ {s} : BySequence(its2, Opened(its2, r)) = LineIn(its)[r]
    BY <1>6, <1>7
  <2>2. BySequence(its2, Opened(its2, s)) = Append(LineIn(its)[s], i)
    BY <1>7, <1>8
  <2> QED
    BY <1>5, <2>1, <2>2
<1> QED
  BY <1>9, <1>10

-------------------------------------------------------------------------------
(* Each action of the outbox is one of these steps.                           *)

\* The inductive invariant of the refinement.
LineInv == IInv /\ Placed(items)

\* The states a step that neither admits nor claims nor settles goes through.
Returned(old, new) == new = old \/ (old = "leased" /\ new \in {"pending", "dead-letter"})

LEMMA RecoveredState ==
    ASSUME items \in [Ids -> Item], NEW i \in Ids
    PROVE  Returned(items[i].state, RecoverExpired(items)[i].state)
  BY ReleaseType DEF RecoverExpired, Retried, Returned, States, TerminalStates

\* A settlement returns leases and gives the one it holds its new item.
LEMMA SettledStates ==
    ASSUME IInv, NEW g \in grants, NEW new, NEW i \in Ids,
           items' = IF Holds(RecoverExpired(items), g[1], g[2])
                    THEN [RecoverExpired(items) EXCEPT ![g[1]] = new]
                    ELSE RecoverExpired(items)
    PROVE  \/ /\ ~(i = g[1] /\ Holds(RecoverExpired(items), g[1], g[2]))
              /\ Returned(items[i].state, items'[i].state)
           \/ /\ i = g[1] /\ Holds(RecoverExpired(items), g[1], g[2])
              /\ items[i].state = "leased" /\ items'[i] = new
<1>1. items \in [Ids -> Item] /\ SInv(RecoverExpired(items), grants, nextSequence)
  BY RecoverKeeps DEF IInv, SInv, Typed
<1>2. RecoverExpired(items) \in [Ids -> Item] /\ g[1] \in Ids
  BY <1>1 DEF SInv, Typed
<1>3. Returned(items[i].state, RecoverExpired(items)[i].state)
  BY <1>1, RecoveredState
<1>4. CASE Holds(RecoverExpired(items), g[1], g[2]) /\ i = g[1]
  <2>1. items'[i] = new /\ RecoverExpired(items)[i].state = "leased"
    BY <1>2, <1>4 DEF Holds
  <2>2. items[i].state = "leased"
    BY <1>3, <2>1 DEF Returned
  <2> QED
    BY <1>4, <2>1, <2>2
<1>5. CASE ~(Holds(RecoverExpired(items), g[1], g[2]) /\ i = g[1])
  <2>1. items'[i] = RecoverExpired(items)[i]
    BY <1>2, <1>5
  <2> QED
    BY <1>3, <1>5, <2>1
<1> QED
  BY <1>4, <1>5

\* The open items are the ones in line.
LEMMA InLineOpen ==
    ASSUME LineInv
    PROVE  Line!InLine = {i \in Ids : Open(items, i)}
  BY LineHolds DEF LineInv, IInv, Line!InLine

\* The kinds of step, as steps of the line.
LEMMA ServeLine ==
    ASSUME LineInv, IInv', Serves(items, items')
    PROVE  Line!Next
<1> DEFINE quit == Turned(items, items', "leased", "dead-letter")
           back == Turned(items, items', "leased", "pending")
           start == Started(items, items')
<1>1. SInv(items, grants, nextSequence) /\ Placed(items) /\ items' \in [Ids -> Item]
  BY DEF LineInv, IInv, SInv, Typed
<1>2. /\ quit \in SUBSET ServingIn(items)
      /\ back \in SUBSET ServingIn(items)
      /\ start \in SUBSET {i \in Ids : Open(items, i) /\ i \notin ServingIn(items)}
      /\ ServingIn(items') = (ServingIn(items) \ (quit \cup back)) \cup start
      /\ GoneIn(items') = GoneIn(items) \cup quit
      /\ DeliveredIn(items') = DeliveredIn(items)
      /\ \A s \in Sessions : \A i, j \in start \cap Line!Members(LineIn(items)[s]) : i = j
      /\ LineIn(items') = [s \in Sessions |-> Line!Without(LineIn(items)[s], quit)]
  BY <1>1, ServesServe
<1> HIDE DEF quit, back, start
<1>3. Line!Serve(quit, back, start)
  BY <1>2 DEF Line!Serve
<1>4. start \in SUBSET Line!Waiting
  BY <1>2, InLineOpen DEF Line!Waiting
<1> QED
  BY <1>2, <1>3, <1>4 DEF Line!Next

LEMMA DeliverLine ==
    ASSUME LineInv, IInv', NEW x \in Ids, Delivers(items, items', x)
    PROVE  Line!Next
<1> DEFINE quit == Turned(items, items', "leased", "dead-letter")
           back == Turned(items, items', "leased", "pending")
<1>1. SInv(items, grants, nextSequence) /\ items' \in [Ids -> Item]
  BY DEF LineInv, IInv, SInv, Typed
<1>2. /\ x \in ServingIn(items)
      /\ quit \in SUBSET (ServingIn(items) \ {x})
      /\ back \in SUBSET (ServingIn(items) \ {x})
      /\ DeliveredIn(items') = DeliveredIn(items) \cup {x}
      /\ GoneIn(items') = GoneIn(items) \cup quit
      /\ ServingIn(items') = ServingIn(items) \ ({x} \cup quit \cup back)
      /\ LineIn(items') = [s \in Sessions |-> Line!Without(LineIn(items)[s], {x} \cup quit)]
  BY <1>1, DeliversDeliver
<1> HIDE DEF quit, back
<1>3. Line!Deliver(x, quit, back)
  BY <1>2 DEF Line!Deliver
<1> QED
  BY <1>2, <1>3 DEF Line!Next

LEMMA WithdrawLine ==
    ASSUME LineInv, IInv', NEW S, Withdraws(items, items', S)
    PROVE  Line!Next
<1>1. SInv(items, grants, nextSequence) /\ items' \in [Ids -> Item]
  BY DEF LineInv, IInv, SInv, Typed
<1>2. /\ S \in SUBSET {i \in Ids : Open(items, i)}
      /\ GoneIn(items') = GoneIn(items) \cup S
      /\ ServingIn(items') = ServingIn(items) \ S
      /\ DeliveredIn(items') = DeliveredIn(items)
      /\ LineIn(items') = [s \in Sessions |-> Line!Without(LineIn(items)[s], S)]
  BY <1>1, WithdrawsWithdraw
<1>3. S \in SUBSET Line!InLine
  BY <1>2, InLineOpen
<1>4. Line!Withdraw(S)
  BY <1>2, <1>3 DEF Line!Withdraw
<1> QED
  BY <1>3, <1>4 DEF Line!Next

LEMMA JoinLine ==
    ASSUME LineInv, IInv', NEW i \in Ids, NEW s \in Sessions, Joins(items, items', i, s)
    PROVE  Line!Next
<1>1. SInv(items, grants, nextSequence) /\ items' \in [Ids -> Item]
  BY DEF LineInv, IInv, SInv, Typed
<1>2. /\ ServingIn(items') = ServingIn(items)
      /\ GoneIn(items') = GoneIn(items)
      /\ DeliveredIn(items') = DeliveredIn(items)
      /\ ~Open(items, i) /\ i \notin DeliveredIn(items) \cup GoneIn(items)
      /\ LineIn(items') = [LineIn(items) EXCEPT ![s] = Append(@, i)]
  BY <1>1, JoinsJoin
<1>3. i \notin Line!InLine
  BY <1>2, InLineOpen
<1>4. Line!Join(s, i)
  BY <1>2, <1>3 DEF Line!Join
<1> QED
  BY <1>4 DEF Line!Next

\* At the start every line is empty.
LEMMA InitLine == Init => Line!Init /\ Placed(items)
<1> SUFFICES ASSUME Init PROVE Line!Init /\ Placed(items)
  OBVIOUS
<1>1. \A i \in Ids : items[i].state = "absent"
  BY DEF Init, NoItem
<1>2. \A s \in Sessions : Opened(items, s) = {}
  BY <1>1 DEF Opened, InState
<1>3. BySequence(items, {}) = <<>>
  <2>1. SInv(items, grants, nextSequence)
    BY InitInv DEF IInv
  <2>2. Lists({}, Sequences(items), BySequence(items, {}))
    BY <2>1, AdmittedLists
  <2>3. BySequence(items, {}) \in Seq({})
    BY <2>2 DEF Lists
  <2> DEFINE q == BySequence(items, {})
  <2> HIDE DEF q
  <2>4. q \in Seq({}) => q = <<>>
    OBVIOUS
  <2> QED
    BY <2>3, <2>4 DEF q
<1>4. LineIn(items) = [s \in Sessions |-> <<>>]
  BY <1>2, <1>3 DEF LineIn, Opened
<1>5. ServingIn(items) = {} /\ DeliveredIn(items) = {} /\ GoneIn(items) = {}
  BY <1>1 DEF ServingIn, DeliveredIn, GoneIn
<1> QED
  BY <1>1, <1>4, <1>5 DEF Line!Init, Placed

\* Every action is a step of the line.
LEMMA NextLine ==
    ASSUME LineInv, [Next]_vars
    PROVE  Line!Next /\ Placed(items')
<1> USE OutboxAssumption
<1>1. /\ items \in [Ids -> Item] /\ nextSequence \in Nat
      /\ RecoverExpired(items) \in [Ids -> Item] /\ \A g \in grants : g[1] \in Ids
      /\ IInv /\ Placed(items)
      /\ \A i \in Ids : RecoverExpired(items)[i] \in Item
  <2>1. SInv(RecoverExpired(items), grants, nextSequence)
    BY RecoverKeeps DEF LineInv, IInv
  <2> QED
    BY <2>1 DEF LineInv, IInv, SInv, Typed
<1>2. IInv' /\ items' \in [Ids -> Item]
  <2>1. IInv'
    BY <1>1, NextInv
  <2> QED
    BY <2>1 DEF IInv, SInv, Typed
<1>3. \A i \in Ids : items[i].state # "absent" =>
        items'[i].session = items[i].session /\ items'[i].sequence = items[i].sequence
  BY <1>1, NextEntry DEF SameEntry
<1>4. ASSUME \A i \in Ids : items[i].state = "absent" <=> items'[i].state = "absent"
      PROVE  Carried(items, items') /\ Placed(items')
  BY <1>1, <1>3, <1>4 DEF Carried, Placed
<1>5. ASSUME \A i \in Ids : \/ Returned(items[i].state, items'[i].state)
                            \/ items[i].state = "pending" /\ items'[i].state = "leased",
             \A i, j \in Started(items, items') : items[i].session = items[j].session => i = j
      PROVE  Line!Next /\ Placed(items')
  <2>1. \A i \in Ids : \/ items'[i].state = items[i].state
                       \/ items[i].state = "pending" /\ items'[i].state = "leased"
                       \/ items[i].state = "leased" /\ items'[i].state \in {"pending", "dead-letter"}
    BY <1>5 DEF Returned
  <2>2. Carried(items, items') /\ Placed(items')
    BY <1>4, <2>1
  <2>3. Serves(items, items')
    BY <1>5, <2>1, <2>2 DEF Serves
  <2> QED
    BY <1>2, <2>2, <2>3, ServeLine
<1>18. ASSUME \A i \in Ids : Returned(items[i].state, items'[i].state)
       PROVE  Line!Next /\ Placed(items')
  <2>1. Started(items, items') = {}
    BY <1>18 DEF Started, Turned, Returned
  <2> QED
    BY <1>5, <1>18, <2>1
<1>6. ASSUME NEW g \in grants, NEW new, new.state = "pending" \/ new.state = "dead-letter",
             items' = IF Holds(RecoverExpired(items), g[1], g[2])
                      THEN [RecoverExpired(items) EXCEPT ![g[1]] = new]
                      ELSE RecoverExpired(items)
      PROVE  Line!Next /\ Placed(items')
  <2>1. ASSUME NEW i \in Ids PROVE Returned(items[i].state, items'[i].state)
    <3>1. \/ Returned(items[i].state, items'[i].state)
          \/ items[i].state = "leased" /\ items'[i] = new
      BY <1>1, <1>6, SettledStates, ZenonT(30)
    <3> QED
      BY <1>6, <3>1 DEF Returned
  <2> QED
    BY <1>18, <2>1
<1>7. ASSUME NEW S \in SUBSET {i \in Ids : Open(items, i)},
             items' = [i \in Ids |-> IF i \in S THEN Release(items[i], "cancelled") ELSE items[i]]
      PROVE  Line!Next /\ Placed(items')
  <2>1. \A i \in Ids : items'[i].state = IF i \in S THEN "cancelled" ELSE items[i].state
    BY <1>1, <1>7, ReleaseType DEF States, TerminalStates
  <2>2. S \in SUBSET {i \in Ids : items[i].state \in {"pending", "leased"}}
    BY DEF Open
  <2>3. Carried(items, items') /\ Placed(items')
    BY <1>4, <2>1, <2>2
  <2>4. Withdraws(items, items', S)
    BY <2>1, <2>2, <2>3 DEF Withdraws
  <2> QED
    BY <1>2, <2>3, <2>4, WithdrawLine
<1>8. ASSUME NEW j \in Ids, NEW s \in Sessions, NEW b \in Bodies, Admit(j, s, b)
      PROVE  Line!Next /\ Placed(items')
  <2>1. PICK available \in BOOLEAN :
           items' = [items EXCEPT ![j] = NewItem(s, b, nextSequence, available)]
    BY <1>8 DEF Admit
  <2> DEFINE new == NewItem(s, b, nextSequence, available)
  <2>2. /\ new.state = "pending" /\ new.sequence = nextSequence /\ new.session = s
    BY <1>1, NewItemType DEF NewItem, NoItem
  <2> HIDE DEF new
  <2>3. /\ items'[j] = new /\ items[j].state = "absent"
        /\ \A i \in Ids \ {j} : items'[i] = items[i]
    BY <1>1, <1>8, <2>1 DEF Admit, new
  <2>4. \A i \in Ids : items[i].state # "absent" => items[i].sequence < nextSequence
    BY <1>1 DEF IInv, SInv, Sequenced
  <2>5. Joins(items, items', j, s)
    BY <2>2, <2>3, <2>4 DEF Joins
  <2>6. Placed(items')
    BY <1>1, <2>2, <2>3 DEF Placed
  <2> QED
    BY <1>2, <2>5, <2>6, JoinLine
<1>9. ASSUME NEW offered \in SUBSET Ids, Claim(offered)
      PROVE  Line!Next /\ Placed(items')
  <2> DEFINE recovered == RecoverExpired(items)
             chosen == ClaimCandidates(recovered, offered)
  <2>1. PICK lease \in [chosen -> FreshTokens(items)] :
           items' = [i \in Ids |-> IF i \in chosen THEN Leased(recovered[i], lease[i])
                                     ELSE recovered[i]]
    BY <1>9, Zenon DEF Claim
  <2>2. ASSUME NEW i \in chosen
        PROVE  /\ i \in offered /\ items[i].state = "pending" /\ recovered[i] = items[i]
               /\ items'[i].state = "leased"
    <3>1. i \in offered /\ recovered[i].state = "pending" /\ lease[i] \in Tokens
      BY DEF ClaimCandidates, GroupHeads, Eligible, FreshTokens
    <3>2. recovered[i].available
      BY DEF ClaimCandidates, GroupHeads, Eligible
    <3>3. recovered[i] = items[i]
      BY <1>1, <3>1, <3>2 DEF RecoverExpired, Retried, Release, Item
    <3>4. Leased(recovered[i], lease[i]).state = "leased"
      BY <1>1, <3>1, LeasedType
    <3> HIDE DEF recovered, chosen
    <3>5. items'[i] = Leased(recovered[i], lease[i])
      BY <2>1, <3>1
    <3> QED
      BY <3>1, <3>3, <3>4, <3>5
  <2>3. ASSUME NEW i \in Ids, i \notin chosen PROVE Returned(items[i].state, items'[i].state)
    <3>1. Returned(items[i].state, recovered[i].state)
      BY <1>1, RecoveredState
    <3> HIDE DEF recovered, chosen
    <3>2. items'[i] = recovered[i]
      BY <2>1, <2>3
    <3> QED
      BY <3>1, <3>2
  <2>4. \A i, j \in offered : recovered[i].session = recovered[j].session => i = j
    BY <1>9 DEF Claim, Offers
  <2>5. \A i \in Started(items, items') : i \in chosen
    BY <2>3 DEF Started, Turned, Returned
  <2> HIDE DEF recovered, chosen
  <2>6. \A i, j \in Started(items, items') : items[i].session = items[j].session => i = j
    BY <2>2, <2>4, <2>5
  <2>7. \A i \in Ids : \/ Returned(items[i].state, items'[i].state)
                       \/ items[i].state = "pending" /\ items'[i].state = "leased"
    BY <2>2, <2>3
  <2> QED
    BY <1>5, <2>6, <2>7
<1>10. ASSUME NEW g \in grants, Acknowledge(g) PROVE Line!Next /\ Placed(items')
  <2> DEFINE old == RecoverExpired(items)[g[1]]
             new == Release(old, "delivered")
  <2>1. items' = IF Holds(RecoverExpired(items), g[1], g[2])
                 THEN [RecoverExpired(items) EXCEPT ![g[1]] = new]
                 ELSE RecoverExpired(items)
    BY <1>10 DEF Acknowledge, Settle
  <2>2. new.state = "delivered"
    BY <1>1, ReleaseType DEF States, TerminalStates
  <2> HIDE DEF new
  <2>3. CASE Holds(RecoverExpired(items), g[1], g[2])
    <3> DEFINE x == g[1]
    <3>1. x \in Ids
      BY <1>1
    <3>2. /\ items[x].state = "leased" /\ items'[x].state = "delivered"
          /\ \A i \in Ids \ {x} : Returned(items[i].state, items'[i].state)
      BY <1>1, <2>1, <2>2, <2>3, SettledStates, ZenonT(30)
    <3> HIDE DEF x
    <3>3. Carried(items, items') /\ Placed(items')
      BY <1>4, <3>1, <3>2 DEF Returned
    <3>4. Delivers(items, items', x)
      BY <3>2, <3>3 DEF Delivers, Returned
    <3> QED
      BY <1>2, <3>1, <3>3, <3>4, DeliverLine
  <2>4. CASE ~Holds(RecoverExpired(items), g[1], g[2])
    <3>1. \A i \in Ids : Returned(items[i].state, items'[i].state)
      BY <1>1, <2>1, <2>4, SettledStates
    <3> QED
      BY <1>18, <3>1
  <2> QED
    BY <2>3, <2>4
<1>11. ASSUME NEW g \in grants, NEW retryable \in BOOLEAN, Fail(g, retryable)
       PROVE  Line!Next /\ Placed(items')
  <2> DEFINE old == RecoverExpired(items)[g[1]]
             new == IF retryable THEN Retried(old) ELSE Release(old, "dead-letter")
  <2>1. items' = IF Holds(RecoverExpired(items), g[1], g[2])
                 THEN [RecoverExpired(items) EXCEPT ![g[1]] = new]
                 ELSE RecoverExpired(items)
    BY <1>11 DEF Fail, Settle
  <2>2. new.state = "pending" \/ new.state = "dead-letter"
    BY <1>1, ReleaseType DEF Retried, States, TerminalStates
  <2> HIDE DEF new
  <2> QED
    BY <1>6, <2>1, <2>2, Zenon
<1>12. ASSUME NEW g \in grants, Defer(g) PROVE Line!Next /\ Placed(items')
  <2> DEFINE old == RecoverExpired(items)[g[1]]
             new == [Release(old, "pending") EXCEPT
                      !.attempts = IF @ > 0 THEN @ - 1 ELSE 0]
  <2>1. items' = IF Holds(RecoverExpired(items), g[1], g[2])
                 THEN [RecoverExpired(items) EXCEPT ![g[1]] = new]
                 ELSE RecoverExpired(items)
    BY <1>12 DEF Defer, Settle
  <2>2. new.state = "pending"
    BY DEF Release
  <2> HIDE DEF new
  <2> QED
    BY <1>6, <2>1, <2>2, Zenon
<1>13. ASSUME RecoverExpiredLeases PROVE Line!Next /\ Placed(items')
  BY <1>1, <1>13, <1>18, RecoveredState DEF RecoverExpiredLeases
<1>14. ASSUME NEW j \in Ids, CancelQueued(j) PROVE Line!Next /\ Placed(items')
  <2>1. items' = [items EXCEPT ![j] = Release(items[j], "cancelled")]
        /\ items[j].state = "pending"
    BY <1>14 DEF CancelQueued
  <2>2. /\ items' = [i \in Ids |-> IF i \in {j} THEN Release(items[i], "cancelled") ELSE items[i]]
        /\ {j} \in SUBSET {i \in Ids : Open(items, i)}
    BY <1>1, <2>1 DEF Open
  <2> QED
    BY <1>7, <2>2
<1>15. ASSUME NEW s \in Sessions,
              NEW owned \in SUBSET {j \in Ids : Open(items, j) /\ items[j].session # s},
              CancelForSession(s, owned)
       PROVE  Line!Next /\ Placed(items')
  <2> DEFINE S == {i \in Ids : Open(items, i) /\ (items[i].session = s \/ i \in owned)}
  <2>1. items' = [i \in Ids |-> IF i \in S THEN Release(items[i], "cancelled") ELSE items[i]]
    BY <1>15 DEF CancelForSession
  <2>2. S \in SUBSET {i \in Ids : Open(items, i)}
    OBVIOUS
  <2> HIDE DEF S
  <2> QED
    BY <1>7, <2>1, <2>2
<1>16. ASSUME NEW j \in Ids, LeaseLapses(j) \/ BecomesAvailable(j)
       PROVE  Line!Next /\ Placed(items')
  <2>1. \A i \in Ids : items'[i].state = items[i].state
    BY <1>1, <1>16 DEF LeaseLapses, BecomesAvailable, Item
  <2> QED
    BY <1>18, <2>1 DEF Returned
<1>17. ASSUME UNCHANGED items PROVE Line!Next /\ Placed(items')
  BY <1>17, <1>18 DEF Returned
<1> QED
  BY <1>8, <1>9, <1>10, <1>11, <1>12, <1>13, <1>14, <1>15, <1>16, <1>17
     DEF Next, vars, DeliveryEnds, Crash

\* Leases, retries, crashes, late answers and cancellations add up to a line:
\* whatever overtakes it and however often its delivery fails, a message keeps the
\* place it was admitted at, joins once and leaves once, is delivered only out of
\* service, and a claim adds at most one service to a session.
THEOREM OutboxImplementsLine == Spec => ImplementsLine
<1>1. Init => Line!Init /\ LineInv
  BY InitLine, InitInv DEF LineInv
<1>2. LineInv /\ [Next]_vars => LineInv' /\ [Line!Next]_(Line!vars)
  <2> SUFFICES ASSUME LineInv, [Next]_vars PROVE LineInv' /\ Line!Next
    OBVIOUS
  <2>1. IInv' /\ Line!Next /\ Placed(items')
    BY NextLine, NextInv DEF LineInv
  <2> QED
    BY <2>1 DEF LineInv
<1> QED
  BY <1>1, <1>2, PTL DEF Spec, ImplementsLine, Line!Spec

===============================================================================
