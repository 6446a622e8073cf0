-------------------------------- MODULE Outbox --------------------------------
(***************************************************************************)
(* The durable outbox of src/src/outbox.js: the leased, at-least-once work *)
(* queue every chat delivery goes through.                                 *)
(*                                                                         *)
(* One action is one store mutation.  The store serialises mutations and   *)
(* commits each one atomically (orchestration/store.js), so no mutation    *)
(* ever sees a half-written predecessor; what does interleave is the code  *)
(* BETWEEN two mutations: a delivery that was handed a lease token and     *)
(* answers late, twice, or never.                                          *)
(*                                                                         *)
(* The wall clock is abstracted to the two facts the code asks of it:      *)
(* `available` (availableAt <= now) and `expired` (leasedUntil <= now).    *)
(* Both are raised by the environment, in any order.                       *)
(*                                                                         *)
(* Which item of a session is worth a lease is the scheduler's choice      *)
(* (selectSessionItem, passed to every claim in orchestration/runtime.js): *)
(* an answer, a priority item or a direct run may overtake, a session that *)
(* waits or failed may be passed over for ever.  Here the choice is free,  *)
(* so nothing below depends on it; SessionDelivery.tla has the scheduler.  *)
(***************************************************************************)
EXTENDS Naturals, FiniteSets

CONSTANTS
    Ids,          \* outbox ids a caller may use
    Sessions,     \* chat sessions
    Bodies,       \* payloads, up to equality of payloadHash
    Tokens,       \* lease tokens; a fresh one is drawn for every lease
    None,         \* null
    MaxAttempts,  \* maxAttempts of createOutbox
    ClaimLimit,   \* claimLimit of one worker tick
    GroupOf(_)    \* sessionGroup: sessions that may not be claimed together

ASSUME OutboxAssumption ==
    /\ MaxAttempts \in Nat \ {0}
    /\ ClaimLimit \in Nat \ {0}
    /\ None \notin Sessions \cup Bodies \cup Tokens

VARIABLES
    items,         \* draft.outbox
    nextSequence,  \* draft.nextOutboxSequence
    grants         \* <<id, token>> pairs held by deliveries of this process

vars == <<items, nextSequence, grants>>

-------------------------------------------------------------------------------
TerminalStates == {"delivered", "dead-letter", "cancelled"}
States == {"absent", "pending", "leased"} \cup TerminalStates

Item == [state     : States,
         session   : Sessions \cup {None},
         body      : Bodies \cup {None},
         sequence  : Nat,
         attempts  : Nat,
         available : BOOLEAN,
         expired   : BOOLEAN,
         token     : Tokens \cup {None}]

NoItem == [state |-> "absent", session |-> None, body |-> None, sequence |-> 0,
           attempts |-> 0, available |-> FALSE, expired |-> FALSE,
           token |-> None]

NewItem(s, b, sequence, available) ==
    [NoItem EXCEPT !.state = "pending", !.session = s, !.body = b,
                   !.sequence = sequence, !.available = available]

Open(its, i) == its[i].state \in {"pending", "leased"}

Leased(item, token) ==
    [item EXCEPT !.state = "leased", !.token = token, !.attempts = @ + 1,
                 !.available = FALSE]

Release(item, state) ==
    [item EXCEPT !.state = state, !.token = None, !.expired = FALSE,
                 !.available = FALSE]

\* Mutants, here and below: what each property must notice.
RetriedOnceMore(item) ==
    Release(item, IF item.attempts <= MaxAttempts THEN "pending" ELSE "dead-letter")

RetriedAtTail(item) ==
    [Release(item, IF item.attempts < MaxAttempts THEN "pending" ELSE "dead-letter")
        EXCEPT !.sequence = nextSequence]

\* Back to the queue with a backoff while the budget lasts, dead otherwise.
Retried(item) ==
    Release(item, IF item.attempts < MaxAttempts THEN "pending" ELSE "dead-letter")

NeverRecovered(its) == its

\* Every mutation of a leased item first returns all lapsed leases.
RecoverExpired(its) ==
    [i \in Ids |-> IF its[i].state = "leased" /\ its[i].expired
                   THEN Retried(its[i]) ELSE its[i]]

HoldsAnyLease(its, i, t) == its[i].state = "leased"

Holds(its, i, t) == its[i].state = "leased" /\ its[i].token = t

\* What the scheduler may offer to a claim: of each session one open item, or none.
Offers(its) ==
    {offered \in SUBSET {i \in Ids : Open(its, i)} :
        \A i, j \in offered : its[i].session = its[j].session => i = j}

Eligible(its, offered) ==
    {i \in offered : its[i].state = "pending" /\ its[i].available}

\* One candidate per session group, the oldest ones first, at most ClaimLimit.
GroupHeads(its, offered) ==
    {i \in Eligible(its, offered) :
        \A j \in Eligible(its, offered) :
            GroupOf(its[j].session) = GroupOf(its[i].session)
            => its[i].sequence <= its[j].sequence}

ClaimCandidates(its, offered) ==
    {i \in GroupHeads(its, offered) :
        Cardinality({j \in GroupHeads(its, offered) : its[j].sequence < its[i].sequence})
            < ClaimLimit}

\* Tokens are 192 random bits: a new one differs from every one in use.
FreshTokens(its) ==
    Tokens \ ({its[i].token : i \in Ids} \cup {g[2] : g \in grants})

-------------------------------------------------------------------------------
Init ==
    /\ items = [i \in Ids |-> NoItem]
    /\ nextSequence = 1
    /\ grants = {}

AdmitAgain(i, s, b) ==
    /\ ~Open(items, i)
    /\ items' = [items EXCEPT ![i] = NewItem(s, b, nextSequence, TRUE)]
    /\ nextSequence' = nextSequence + 1
    /\ UNCHANGED grants

\* A new id joins the queue, at once or with a later availableAt.
Admit(i, s, b) ==
    /\ items[i].state = "absent"
    /\ \E available \in BOOLEAN :
          items' = [items EXCEPT ![i] = NewItem(s, b, nextSequence, available)]
    /\ nextSequence' = nextSequence + 1
    /\ UNCHANGED grants

\* One tick of the worker: lapsed leases come back, then what is offered is leased.
Claim(offered) ==
    LET recovered == RecoverExpired(items)
        chosen    == ClaimCandidates(recovered, offered)
    IN  /\ offered \in Offers(recovered)
        /\ chosen # {} \/ recovered # items
        /\ \E lease \in [chosen -> FreshTokens(items)] :
              /\ \A i, j \in chosen : lease[i] = lease[j] => i = j
              /\ items' = [i \in Ids |->
                    IF i \in chosen
                    THEN Leased(recovered[i], lease[i]) ELSE recovered[i]]
              /\ grants' = grants \cup {<<i, lease[i]>> : i \in chosen}
        /\ UNCHANGED nextSequence

\* Shared shape of ack, fail and defer: recover lapsed leases, then settle the
\* item if the caller still holds it; "lease_lost" keeps only the recovery.
Settle(g, settled(_)) ==
    LET recovered == RecoverExpired(items)
        i         == g[1]
    IN  /\ g \in grants
        /\ items' = IF Holds(recovered, i, g[2])
                    THEN [recovered EXCEPT ![i] = settled(recovered[i])]
                    ELSE recovered
        /\ UNCHANGED <<nextSequence, grants>>

Acknowledge(g) ==
    LET delivered(item) == Release(item, "delivered")
    IN  Settle(g, delivered)

Fail(g, retryable) ==
    LET failed(item) == IF retryable THEN Retried(item)
                        ELSE Release(item, "dead-letter")
    IN  Settle(g, failed)

\* Expected contention gives the attempt back.
Defer(g) ==
    LET deferred(item) == [Release(item, "pending") EXCEPT
                              !.attempts = IF @ > 0 THEN @ - 1 ELSE 0]
    IN  Settle(g, deferred)

RecoverExpiredLeases ==
    /\ items' = RecoverExpired(items)
    /\ items' # items
    /\ UNCHANGED <<nextSequence, grants>>

\* The scheduler's cancelQueued: only an item that is not leased.
CancelQueued(i) ==
    /\ items[i].state = "pending"
    /\ items' = [items EXCEPT ![i] = Release(@, "cancelled")]
    /\ UNCHANGED <<nextSequence, grants>>

\* Deleting a session cancels its open items, and those of the operations it
\* owns in other sessions, leases included.
CancelForSession(s, owned) ==
    /\ \E i \in Ids : Open(items, i) /\ (items[i].session = s \/ i \in owned)
    /\ items' = [i \in Ids |->
            IF Open(items, i) /\ (items[i].session = s \/ i \in owned)
            THEN Release(items[i], "cancelled") ELSE items[i]]
    /\ UNCHANGED <<nextSequence, grants>>

-------------------------------------------------------------------------------
(* The environment: time passes, a delivery ends, the process restarts.    *)

LeaseLapses(i) ==
    /\ items[i].state = "leased" /\ ~items[i].expired
    /\ items' = [items EXCEPT ![i].expired = TRUE]
    /\ UNCHANGED <<nextSequence, grants>>

BecomesAvailable(i) ==
    /\ items[i].state = "pending" /\ ~items[i].available
    /\ items' = [items EXCEPT ![i].available = TRUE]
    /\ UNCHANGED <<nextSequence, grants>>

DeliveryEnds(g) ==
    /\ g \in grants
    /\ grants' = grants \ {g}
    /\ UNCHANGED <<items, nextSequence>>

Crash ==
    /\ grants # {}
    /\ grants' = {}
    /\ UNCHANGED <<items, nextSequence>>

-------------------------------------------------------------------------------
Next ==
    \/ \E i \in Ids, s \in Sessions, b \in Bodies : Admit(i, s, b)
    \/ \E offered \in SUBSET Ids : Claim(offered)
    \/ \E g \in grants : Acknowledge(g)
    \/ \E g \in grants, retryable \in BOOLEAN : Fail(g, retryable)
    \/ \E g \in grants : Defer(g)
    \/ RecoverExpiredLeases
    \/ \E i \in Ids : CancelQueued(i)
    \/ \E s \in Sessions :
          \E owned \in SUBSET {i \in Ids : Open(items, i) /\ items[i].session # s} :
              CancelForSession(s, owned)
    \/ \E i \in Ids : LeaseLapses(i)
    \/ \E i \in Ids : BecomesAvailable(i)
    \/ \E g \in grants : DeliveryEnds(g)
    \/ Crash

Spec == Init /\ [][Next]_vars

-------------------------------------------------------------------------------
(* Properties.                                                             *)

\* Every item is a record of the queue, whatever its history.
TypeOK ==
    /\ items \in [Ids -> Item]
    /\ nextSequence \in Nat \ {0}
    /\ grants \in SUBSET (Ids \X Tokens)

\* The retry budget is exact.  An item waiting for another attempt has one
\* left, a leased one is within the budget, and a defer, which gives its attempt
\* back, can neither exhaust the budget nor refill it past the cap
\* (recoverExpiredDraft, claim, fail, defer).
RetryBudget ==
    \A i \in Ids :
        /\ items[i].state = "pending" => items[i].attempts < MaxAttempts
        /\ items[i].state = "leased"  => items[i].attempts \in 1 .. MaxAttempts

\* A token opens one lease only: no grant, however old, matches the lease of a
\* later attempt or of another item, so a late answer never settles work that
\* was handed to somebody else (leaseTokenHash comparison in ack/fail/defer).
LeaseExclusive ==
    \A i \in Ids : items[i].state = "leased" =>
        /\ \A j \in Ids \ {i} : items[j].token # items[i].token
        /\ \A g \in grants : g[2] = items[i].token => g[1] = i

\* An item becomes "delivered" only from a lease that has not lapsed and whose
\* token some delivery of this process still holds; in particular an answer
\* arriving after the lease time, or after a restart, delivers nothing.
DeliveredByHolder ==
    [][\A i \in Ids :
          items[i].state # "delivered" /\ items'[i].state = "delivered"
          => /\ items[i].state = "leased" /\ ~items[i].expired
             /\ <<i, items[i].token>> \in grants]_vars

\* Admission is idempotent: whatever is retried under an id that exists, the
\* item keeps its session, body and place in the queue, and an item that
\* reached a terminal state is never revived (admitOutboxItem, outbox.js:114-120).
AdmittedOnce ==
    [][\A i \in Ids : items[i].state # "absent" =>
          /\ items'[i].session = items[i].session
          /\ items'[i].body = items[i].body
          /\ items'[i].sequence = items[i].sequence
          /\ items[i].state \in TerminalStates => items'[i].state = items[i].state]_vars

\* Fairness the code's scheduling gives: the one-second tick returns lapsed
\* leases even when nothing is offered, a lapsed lease and a backoff are clock
\* readings, and every delivery promise settles or its process restarts.  Nobody
\* owes an item an offer.
Fairness ==
    /\ WF_vars(Claim({}))
    /\ \A i \in Ids : WF_vars(LeaseLapses(i)) /\ WF_vars(BecomesAvailable(i))
    /\ WF_vars(\E g \in grants : DeliveryEnds(g))

FairSpec == Spec /\ Fairness

SomeDefer == \E g \in grants : Defer(g)

\* The queue itself loses no message: an item the scheduler keeps offering, unless
\* its session is deferred for ever, ends delivered, dead-lettered or cancelled,
\* even if every answer is lost (recoverExpiredDraft, claim, fail).
EverythingSettles ==
    (<>[][~SomeDefer]_vars) =>
        \A i \in Ids :
            WF_vars(Claim({i})) =>
                (items[i].state = "pending" ~> items[i].state \in TerminalStates)
===============================================================================
