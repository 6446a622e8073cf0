------------------------------ MODULE AccountProofs ------------------------------
(***************************************************************************)
(* What a login can count on, for any number of credentials, probes and    *)
(* faults: the type correctness of AccountRefresh.tla, LoginSurvives,      *)
(* NeverSpentTwice, ProbesBounded and ServesCurrent.                       *)
(*                                                                         *)
(* The credentials part of the invariant follows a login through a check:  *)
(* the slot never holds a spent login; a spent login in the account's file *)
(* has its successor in the slot; a check that may overwrite or clear the  *)
(* slot has seen that nothing is lost by it; and only a rotation under way *)
(* makes the file out of date.  The policy part says that the refresher's  *)
(* record, in memory and on disk alike, counts every turn of the newest    *)
(* credential that had one.                                                *)
(***************************************************************************)
EXTENDS AccountRefresh, TLAPS

Rotating == {"asking", "probing", "closing"}

OneRun == \A c, d \in Checks : run[c].step # "idle" /\ run[d].step # "idle" => c = d

Issued ==
    /\ spent \subseteq 1..issued
    /\ account <= issued /\ slot <= issued
    /\ \A c \in Checks : run[c].step # "idle" => run[c].mine \in 1..account

\* A CLI is left behind only by a server that died.
Behind ==
    /\ orphans \subseteq 1..issued
    /\ orphans # {} \/ raced => Cut

SlotLive == Blind \/ slot \notin spent
AccountLive == Blind \/ account \notin spent \/ slot > account

RunSafe(c) ==
    /\ run[c].step = "reading" => Blind \/ run[c].mine \notin spent \/ slot > run[c].mine
    /\ run[c].step = "seeding" => Blind \/ (account \notin spent /\ run[c].mine \notin spent)
    /\ run[c].step \in {"asking", "probing"} => slot >= run[c].mine
    /\ run[c].step = "clearing" => Blind \/ account \notin spent

Current == Cut \/ account \notin spent \/ \E c \in Checks : run[c].step \in Rotating

LeftBound == \A k \in Limits : left[k] <= Budget[k]

LoginInv ==
    /\ TypeOK /\ LeftBound /\ OneRun /\ Issued /\ Behind
    /\ SlotLive /\ AccountLive /\ Current
    /\ \A c \in Checks : RunSafe(c)

SameCount(h, g) == h.window = g.window /\ h.probes = g.probes /\ h.post = g.post

\* A record counts every turn of the newest credential that had one.
Counts(h) ==
    /\ \A c \in Creds : probed[c] > 0 => c <= h.window
    /\ h.window # 0 => probed[h.window] > 0 /\ probed[h.window] <= h.probes
    /\ h.probes <= MaxProbes + 1
    /\ h.probes > MaxProbes => h.post = h.window

NewestProbed ==
    \A c \in Creds : probed[c] > 0 =>
        /\ c <= account
        /\ \A k \in Checks : run[k].step # "idle" => c <= run[k].mine

ProbeInv ==
    /\ NewestProbed
    /\ Forgot \/ (ProbesBounded /\ Counts(health) /\ SameCount(health, disk))

AccountInv == LoginInv /\ ProbeInv

-------------------------------------------------------------------------------
\* What the steps of a check do to a variable, as facts about its primed value.

Runs == [Checks -> [step : Steps, mine : 0..MaxCreds]]

\* No fault is given back.
LeftFalls ==
    /\ left' \in [Limits -> Nat]
    /\ \A k \in Limits : left'[k] <= left[k]

\* Check c goes to a step and keeps the login it read.
Moves(c, step) ==
    /\ run' \in Runs
    /\ run'[c].step = step /\ run'[c].mine = run[c].mine
    /\ \A d \in Checks \ {c} : run'[d] = run[d]

\* Check c ends.
Ends(c) ==
    /\ run' \in Runs
    /\ run'[c].step = "idle"
    /\ \A d \in Checks \ {c} : run'[d] = run[d]

\* No turn is spent and none is written down.
Quiet ==
    /\ probed' = probed
    /\ health' \in Health /\ disk' \in Health
    /\ SameCount(health', health)
    /\ SameCount(disk', disk) \/ SameCount(disk', health)

LEMMA SpendFalls ==
    ASSUME left \in [Limits -> Nat], NEW kind \in Faults, Spend(kind)
    PROVE  LeftFalls /\ left'[kind] < left[kind]
<1>1. kind \in Limits /\ "any" \in Limits /\ kind # "any"  BY DEF Limits, Faults
<1>2. left[kind] > 0 /\ left["any"] > 0
      /\ left' = [left EXCEPT ![kind] = left[kind] - 1, !["any"] = left["any"] - 1]
  BY <1>1 DEF Spend
<1> QED  BY <1>1, <1>2 DEF LeftFalls

LEMMA SameFalls ==
    ASSUME left \in [Limits -> Nat], UNCHANGED left
    PROVE  LeftFalls
BY DEF LeftFalls

LEMMA ToMoves ==
    ASSUME run \in Runs, NEW c \in Checks, NEW step \in Steps, To(c, step)
    PROVE  Moves(c, step)
BY DEF To, Moves, Runs

LEMMA DoneEnds ==
    ASSUME run \in Runs, NEW c \in Checks, Done(c)
    PROVE  Ends(c)
BY RefreshAssumption DEF Done, Ends, Runs, Idle, Steps

\* While one check runs the other does not.
LEMMA OthersIdle ==
    ASSUME OneRun, NEW c \in Checks, run[c].step # "idle"
    PROVE  \A d \in Checks \ {c} : run[d].step = "idle"
BY DEF OneRun

LEMMA MovesOneRun ==
    ASSUME OneRun, NEW c \in Checks, run[c].step # "idle", NEW step, Moves(c, step)
    PROVE  OneRun'
<1>1. \A d \in Checks \ {c} : run'[d].step = "idle"  BY OthersIdle DEF Moves
<1> QED  BY <1>1 DEF OneRun

LEMMA EndsOneRun ==
    ASSUME OneRun, NEW c \in Checks, run[c].step # "idle", Ends(c)
    PROVE  OneRun' /\ \A d \in Checks : run'[d].step = "idle"
<1>1. \A d \in Checks \ {c} : run'[d].step = "idle"  BY OthersIdle DEF Ends
<1> QED  BY <1>1 DEF OneRun, Ends

LEMMA CutStays ==
    ASSUME TypeOK, LeftFalls, UNCHANGED behind
    PROVE  /\ Blind => Blind'
           /\ Cut => Cut'
           /\ Forgot => Forgot'
           /\ orphans' = orphans /\ raced' = raced /\ raced' \in BOOLEAN
<1>1. {"read", "crash", "forget", "write"} \subseteq Limits  BY DEF Limits, Faults
<1>2. Budget \in [Limits -> Nat] /\ left \in [Limits -> Nat]  BY RefreshAssumption DEF TypeOK
<1>3. orphans' = orphans /\ raced' = raced /\ raced \in BOOLEAN  BY DEF behind, TypeOK
<1>4. \A k \in {"read", "crash", "forget", "write"} :
        left[k] < Budget[k] => left'[k] < Budget[k]
  BY <1>1, <1>2 DEF LeftFalls
<1> QED  BY <1>3, <1>4 DEF Blind, Unread, Cut, Forgot

\* A fault that this behaviour counts: it had all of them, now it has fewer.
LEMMA FaultCuts ==
    ASSUME TypeOK, NEW kind \in {"read", "crash", "forget", "write"}, Spend(kind),
           LeftBound
    PROVE  /\ Cut'
           /\ kind = "read" => Blind'
           /\ kind = "forget" => Forgot'
<1>1. kind \in Faults /\ kind \in Limits  BY DEF Limits, Faults
<1>2. left'[kind] < left[kind]  BY <1>1, SpendFalls DEF TypeOK
<1>3. Budget[kind] \in Nat /\ left[kind] \in Nat /\ left'[kind] \in Nat
  BY <1>1, SpendFalls, RefreshAssumption DEF TypeOK, LeftFalls
<1> QED  BY <1>1, <1>2, <1>3 DEF Blind, Unread, Cut, Forgot, LeftBound

LEMMA BehindKept ==
    ASSUME TypeOK, LeftFalls, UNCHANGED behind, Behind, issued' \in Nat, issued \in Nat,
           issued' >= issued
    PROVE  Behind'
<1>1. orphans' = orphans /\ raced' = raced /\ (Cut => Cut')  BY CutStays
<1> QED  BY <1>1 DEF Behind

-------------------------------------------------------------------------------
\* The refresher's updates of its record.

Reasons == Classes \cup {"none"}

LEMMA ParkTyped ==
    ASSUME NEW class \in Reasons, NEW cred \in 0..MaxCreds
    PROVE  [class |-> class, cred |-> cred] \in Park /\ NoPark \in Park
BY RefreshAssumption DEF Park, NoPark, Reasons

LEMMA ExplainedKeeps ==
    ASSUME NEW h \in Health, NEW cred \in 0..MaxCreds, NEW class \in Reasons
    PROVE  Explained(h, cred, class) \in Health /\ SameCount(Explained(h, cred, class), h)
BY ParkTyped DEF Explained, SameCount, Health

LEMMA FailedKeeps ==
    ASSUME NEW h \in Health, NEW cred \in 0..MaxCreds, NEW class \in Reasons
    PROVE  Failed(h, cred, class) \in Health /\ SameCount(Failed(h, cred, class), h)
<1> DEFINE why == Reason(h, cred, class)
<1>1. why \in Reasons  BY DEF Reason, Health, Park, Reasons, Classes
<1>2. [class |-> why, cred |-> cred] \in Park  BY <1>1, ParkTyped
<1> HIDE DEF why
<1>3. PICK p \in Park :
        Failed(h, cred, class) = [h EXCEPT !.failures = h.failures + 1, !.parked = p]
  BY <1>2 DEF Failed, why, Health
<1>4. h.failures + 1 \in Nat  BY DEF Health
<1>5. PICK n \in Nat : Failed(h, cred, class) = [h EXCEPT !.failures = n, !.parked = p]
  BY <1>3, <1>4
<1> QED  BY <1>5 DEF Health, SameCount

LEMMA SucceededKeeps ==
    ASSUME NEW h \in Health
    PROVE  Succeeded(h) \in Health /\ SameCount(Succeeded(h), h)
<1>1. NoPark \in Park  BY RefreshAssumption DEF NoPark, Park
<1> QED  BY <1>1 DEF Succeeded, SameCount, Health

LEMMA ParkedKeeps ==
    ASSUME NEW h \in Health, NEW p \in Park
    PROVE  [h EXCEPT !.parked = p] \in Health /\ SameCount([h EXCEPT !.parked = p], h)
BY DEF SameCount, Health

LEMMA ReservedTyped ==
    ASSUME NEW h \in Health, NEW cred \in 0..MaxCreds
    PROVE  /\ Reserved(h, cred) \in Health
           /\ Reserved(h, cred).window = cred
           /\ Reserved(h, cred).probes = Spent(h, cred) + 1
           /\ Reserved(h, cred).post = IF Extra(h, cred) THEN cred ELSE h.post
<1>1. Spent(h, cred) \in Nat  BY RefreshAssumption DEF Spent, Health
<1> DEFINE n == Spent(h, cred) + 1
           q == IF Extra(h, cred) THEN cred ELSE h.post
<1>2. n \in Nat /\ q \in 0..MaxCreds  BY <1>1 DEF Health
<1>3. Reserved(h, cred) = [h EXCEPT !.window = cred, !.probes = n, !.post = q]
  BY DEF Reserved, Health
<1> HIDE DEF n, q
<1>4. [h EXCEPT !.window = cred, !.probes = n, !.post = q] \in Health
  BY <1>2 DEF Health
<1>5. /\ Reserved(h, cred).window = cred
      /\ Reserved(h, cred).probes = n /\ Reserved(h, cred).post = q
  BY <1>3 DEF Health
<1> QED  BY <1>3, <1>4, <1>5 DEF n, q

\* A record written down, or not, without a turn in it.
LEMMA PersistQuiet ==
    ASSUME TypeOK, NEW h \in Health, SameCount(h, health),
           Persist(h), UNCHANGED probed
    PROVE  Quiet /\ LeftFalls
<1>1. CASE disk' = h /\ UNCHANGED left
  BY <1>1, SameFalls DEF Persist, Quiet, TypeOK, SameCount
<1>2. CASE Spend("health") /\ UNCHANGED disk
  <2>1. LeftFalls  BY <1>2, SpendFalls DEF Faults, TypeOK
  <2> QED  BY <1>2, <2>1 DEF Persist, Quiet, TypeOK, SameCount
<1> QED  BY <1>1, <1>2 DEF Persist

LEMMA UnrotatedQuiet ==
    ASSUME TypeOK, NEW c \in Checks, NEW class \in Reasons,
           Unrotated(c, class), UNCHANGED probed
    PROVE  Quiet /\ LeftFalls
<1> DEFINE mine == run[c].mine
           told == Explained(health, mine, class)
<1>1. mine \in 0..MaxCreds /\ health \in Health  BY DEF TypeOK
<1>2. told \in Health /\ SameCount(told, health)  BY <1>1, ExplainedKeeps
<1>3. Failed(told, mine, class) \in Health /\ SameCount(Failed(told, mine, class), told)
  BY <1>1, <1>2, FailedKeeps
<1>4. SameCount(Failed(told, mine, class), health)  BY <1>2, <1>3 DEF SameCount
<1>5. \/ Persist(Failed(told, mine, class))
      \/ UNCHANGED <<health, disk, left>>
      \/ Persist(told)
  BY DEF Unrotated
<1> HIDE DEF mine, told
<1>6. CASE Persist(Failed(told, mine, class))  BY <1>6, <1>3, <1>4, PersistQuiet
<1>7. CASE UNCHANGED <<health, disk, left>>
  BY <1>7, SameFalls DEF Quiet, SameCount, TypeOK
<1>8. CASE Persist(told)  BY <1>8, <1>2, PersistQuiet
<1> QED  BY <1>5, <1>6, <1>7, <1>8

\* Without a turn the count stands, as long as no login is replaced by one older
\* than the login it counts.
LEMMA QuietCounts ==
    ASSUME ProbeInv, Quiet, NewestProbed', Forgot => Forgot'
    PROVE  ProbeInv'
<1>1. CASE Forgot  BY <1>1 DEF ProbeInv
<1>2. CASE ~Forgot
  <2>1. ProbesBounded /\ Counts(health) /\ SameCount(health, disk)  BY <1>2 DEF ProbeInv
  <2>2. Counts(health)' /\ SameCount(health, disk)'
    BY <2>1 DEF Quiet, SameCount, Counts
  <2>3. ProbesBounded'  BY <1>2, <2>1 DEF Quiet, ProbesBounded
  <2> QED  BY <2>2, <2>3 DEF ProbeInv
<1> QED  BY <1>1, <1>2

-------------------------------------------------------------------------------
\* Every step preserves the invariant, one lemma for each action.

LEMMA AccountFacts ==
    ASSUME AccountInv
    PROVE  /\ account \in 1..MaxCreds /\ slot \in 0..MaxCreds /\ issued \in 1..MaxCreds
           /\ account \in Nat /\ slot \in Nat /\ issued \in Nat
           /\ spent \subseteq 1..issued /\ account <= issued /\ slot <= issued
           /\ run \in Runs /\ left \in [Limits -> Nat]
           /\ \A c \in Checks : run[c].step # "idle" => run[c].mine \in 1..account
BY RefreshAssumption DEF AccountInv, LoginInv, TypeOK, Issued, Runs, Creds

LEMMA LeftBoundKept ==
    ASSUME AccountInv, LeftFalls
    PROVE  LeftBound'
BY RefreshAssumption DEF AccountInv, LoginInv, TypeOK, LeftFalls, LeftBound

\* A step that leaves the orphans and what is known of them alone.
LEMMA Aside ==
    ASSUME AccountInv, LeftFalls, UNCHANGED behind, issued' \in {issued, issued + 1}
    PROVE  /\ LeftBound' /\ Behind' /\ orphans' \subseteq Creds /\ raced' \in BOOLEAN
           /\ (Blind => Blind') /\ (Cut => Cut') /\ (Forgot => Forgot')
<1>1. TypeOK /\ Behind /\ issued \in Nat  BY AccountFacts DEF AccountInv, LoginInv
<1>2. LeftBound'  BY LeftBoundKept
<1>3. /\ (Blind => Blind') /\ (Cut => Cut') /\ (Forgot => Forgot')
      /\ orphans' = orphans /\ raced' \in BOOLEAN
  BY <1>1, CutStays
<1>4. Behind'  BY <1>1, BehindKept
<1> QED  BY <1>1, <1>2, <1>3, <1>4 DEF TypeOK

\* A turn of the CLI begins or ends, the logins as they are.
LEMMA TurnKeepsLogin ==
    ASSUME AccountInv, NEW c \in Checks, run[c].step \in {"asking", "probing"},
           NEW step \in {"probing", "closing"}, Moves(c, step),
           UNCHANGED <<behind, credentials, request>>, LeftFalls,
           health' \in Health, disk' \in Health, probed' \in [Creds -> Nat]
    PROVE  LoginInv'
<1>1. TypeOK /\ OneRun /\ Issued /\ SlotLive /\ AccountLive /\ RunSafe(c)
  BY DEF AccountInv, LoginInv
<1>2. UNCHANGED <<account, slot, issued, spent, age, reader, served>> /\ UNCHANGED behind
  BY DEF credentials, request
<1>3. /\ LeftBound' /\ Behind' /\ orphans' \subseteq Creds /\ raced' \in BOOLEAN
      /\ (Blind => Blind') /\ (Cut => Cut') /\ (Forgot => Forgot')
  BY <1>2, Aside
<1>4. TypeOK'  BY <1>1, <1>2, <1>3 DEF TypeOK, Moves, Runs, LeftFalls
<1>5. OneRun'  BY <1>1, MovesOneRun
<1>6. \A d \in Checks \ {c} : run[d].step = "idle" /\ run'[d] = run[d]
  BY <1>1, OthersIdle DEF Moves
<1>7. Issued'  BY <1>1, <1>2, <1>6 DEF Issued, Moves
<1>8. SlotLive' /\ AccountLive'  BY <1>1, <1>2, <1>3 DEF SlotLive, AccountLive
<1>9. Current'  BY DEF Current, Moves, Rotating
<1>10. RunSafe(c)'  BY <1>1, <1>2 DEF RunSafe, Moves
<1>11. \A d \in Checks \ {c} : RunSafe(d)'  BY <1>6 DEF RunSafe
<1> QED  BY <1>3, <1>4, <1>5, <1>7, <1>8, <1>9, <1>10, <1>11 DEF LoginInv

\* A check goes on or ends and the account keeps its login.
LEMMA NewestKept ==
    ASSUME AccountInv, NEW c \in Checks, run[c].step # "idle",
           (\E step \in Steps : Moves(c, step)) \/ Ends(c),
           UNCHANGED probed, account' >= account \/ account' >= run[c].mine,
           account' \in Nat
    PROVE  NewestProbed'
<1>1. OneRun /\ NewestProbed /\ run[c].mine \in Nat /\ account \in Nat
  BY AccountFacts DEF AccountInv, LoginInv, ProbeInv, Creds
<1>2. \A d \in Checks \ {c} : run'[d].step = "idle"
  BY <1>1, OthersIdle DEF Moves, Ends
<1>3. run'[c].step = "idle" \/ run'[c].mine = run[c].mine  BY DEF Moves, Ends
<1>4. SUFFICES ASSUME NEW d \in Creds, probed[d] > 0
               PROVE  d <= account' /\ \A k \in Checks : run'[k].step # "idle" => d <= run'[k].mine
  BY DEF NewestProbed
<1>5. d <= account /\ d <= run[c].mine /\ d \in Nat  BY <1>1, <1>4 DEF NewestProbed, Creds
<1>6. d <= account'  BY <1>1, <1>5
<1> QED  BY <1>2, <1>3, <1>5, <1>6

LEMMA TurnStep ==
    ASSUME AccountInv, NEW c \in Checks, run[c].step \in {"asking", "probing"},
           To(c, "closing"), UNCHANGED <<behind, credentials, request>>, LeftFalls, Quiet
    PROVE  AccountInv'
<1>1. Moves(c, "closing")  BY AccountFacts, ToMoves DEF Steps
<1>2. health' \in Health /\ disk' \in Health /\ probed' \in [Creds -> Nat]
  BY DEF Quiet, AccountInv, LoginInv, TypeOK
<1>3. LoginInv'  BY <1>1, <1>2, TurnKeepsLogin
<1>4. account' = account /\ account \in Nat /\ account >= account
  BY AccountFacts DEF credentials
<1>5. NewestProbed'  BY <1>1, <1>4, NewestKept DEF Quiet, Steps
<1>6. Forgot => Forgot'  BY Aside DEF credentials
<1>7. ProbeInv'  BY <1>5, <1>6, QuietCounts DEF AccountInv
<1> QED  BY <1>3, <1>7 DEF AccountInv

\* An attempt that failed is recorded, on the disk too or not.
LEMMA EndsBadlyQuiet ==
    ASSUME TypeOK, NEW c \in Checks, NEW told \in Health, SameCount(told, health),
           NEW class \in Reasons, EndsBadly(c, told, class), UNCHANGED probed
    PROVE  Quiet
<1> DEFINE mine == run[c].mine
<1>1. mine \in 0..MaxCreds /\ disk \in Health  BY DEF TypeOK
<1>2. Failed(told, mine, class) \in Health /\ SameCount(Failed(told, mine, class), told)
  BY <1>1, FailedKeeps
<1>3. health' \in {told, Failed(told, mine, class)} /\ disk' \in {health', disk}
  BY DEF EndsBadly
<1> HIDE DEF mine
<1>4. health' \in Health /\ SameCount(health', health)
  BY <1>2, <1>3 DEF SameCount
<1> QED  BY <1>1, <1>3, <1>4 DEF Quiet, SameCount

LEMMA RefreshedStep ==
    ASSUME AccountInv, NEW c \in Checks, Refreshed(c)
    PROVE  AccountInv'
<1>1. TypeOK  BY DEF AccountInv, LoginInv
<1>2. Succeeded(health) \in Health /\ SameCount(Succeeded(health), health)
  BY <1>1, SucceededKeeps DEF TypeOK
<1>3. Quiet /\ LeftFalls  BY <1>1, <1>2, PersistQuiet DEF Refreshed
<1> QED  BY <1>3, TurnStep DEF Refreshed

LEMMA OverlookedStep ==
    ASSUME AccountInv, NEW c \in Checks, Overlooked(c)
    PROVE  AccountInv'
<1>1. TypeOK /\ health \in Health /\ SameCount(health, health) /\ "none" \in Reasons
  BY DEF AccountInv, LoginInv, TypeOK, SameCount, Reasons
<1>2. Quiet  BY <1>1, EndsBadlyQuiet DEF Overlooked
<1>3. LeftFalls  BY <1>1, SpendFalls DEF Overlooked, Faults, TypeOK
<1> QED  BY <1>2, <1>3, TurnStep DEF Overlooked

LEMMA LoggedOutStep ==
    ASSUME AccountInv, NEW c \in Checks, LoggedOut(c)
    PROVE  AccountInv'
<1> DEFINE p == [class |-> "needs-login", cred |-> run[c].mine]
<1>1. TypeOK  BY DEF AccountInv, LoginInv
<1>2. p \in Park  BY <1>1, ParkTyped DEF TypeOK, Reasons, Classes
<1>3. health' = [health EXCEPT !.parked = p] /\ disk' \in {health', disk} /\ UNCHANGED probed
  BY DEF LoggedOut
<1> HIDE DEF p
<1>4. health' \in Health /\ SameCount(health', health)
  BY <1>1, <1>2, <1>3, ParkedKeeps DEF TypeOK
<1>5. Quiet  BY <1>1, <1>3, <1>4 DEF Quiet, SameCount, TypeOK
<1>6. LeftFalls  BY <1>1, SpendFalls DEF LoggedOut, Faults, TypeOK
<1> QED  BY <1>5, <1>6, TurnStep DEF LoggedOut

LEMMA NotReservedStep ==
    ASSUME AccountInv, NEW c \in Checks, NotReserved(c)
    PROVE  AccountInv'
<1>1. TypeOK  BY DEF AccountInv, LoginInv
<1>2. UNCHANGED <<health, disk, probed>>  BY DEF NotReserved, records
<1>3. Quiet  BY <1>1, <1>2 DEF Quiet, SameCount, TypeOK
<1>4. LeftFalls  BY <1>1, SpendFalls DEF NotReserved, Faults, TypeOK
<1> QED  BY <1>3, <1>4, TurnStep DEF NotReserved, ProbeDue

LEMMA NoProbeStep ==
    ASSUME AccountInv, NEW c \in Checks, NoProbe(c)
    PROVE  AccountInv'
<1>1. TypeOK /\ health \in Health /\ SameCount(health, health)
  BY DEF AccountInv, LoginInv, TypeOK, SameCount
<1>2. Quiet /\ LeftFalls
  <2>1. CASE Unrotated(c, "none")
    BY <1>1, <2>1, UnrotatedQuiet DEF NoProbe, Reasons
  <2>2. ASSUME NEW class \in {"network", "rejected"}, Spend("outage"),
               EndsBadly(c, health, class)
        PROVE  Quiet /\ LeftFalls
    <3>1. LeftFalls  BY <1>1, <2>2, SpendFalls DEF Faults, TypeOK
    <3>2. class \in Reasons /\ UNCHANGED probed  BY DEF Reasons, Classes, NoProbe
    <3> QED  BY <1>1, <2>2, <3>1, <3>2, EndsBadlyQuiet
  <2> QED  BY <2>1, <2>2 DEF NoProbe
<1> QED  BY <1>2, TurnStep DEF NoProbe

LEMMA ProbeFailsStep ==
    ASSUME AccountInv, NEW c \in Checks, ProbeFails(c)
    PROVE  AccountInv'
<1>1. TypeOK /\ health \in Health /\ slot \in 0..MaxCreds /\ UNCHANGED probed
  BY DEF AccountInv, LoginInv, TypeOK, ProbeFails
<1>2. Quiet /\ LeftFalls
  <2>1. CASE Unrotated(c, "none") \/ Unrotated(c, "rejected")
    BY <1>1, <2>1, UnrotatedQuiet DEF Reasons, Classes
  <2>2. ASSUME NEW class \in {"network", "unknown", "rejected"},
               NEW said \in {"network", "unknown", "rejected"}, Spend("outage"),
               EndsBadly(c, Explained(health, slot, class), said)
        PROVE  Quiet /\ LeftFalls
    <3>1. LeftFalls  BY <1>1, <2>2, SpendFalls DEF Faults, TypeOK
    <3>2. class \in Reasons /\ said \in Reasons  BY DEF Reasons, Classes
    <3>3. /\ Explained(health, slot, class) \in Health
          /\ SameCount(Explained(health, slot, class), health)
      BY <1>1, <3>2, ExplainedKeeps
    <3> QED  BY <1>1, <2>2, <3>1, <3>2, <3>3, EndsBadlyQuiet
  <2> QED  BY <2>1, <2>2 DEF ProbeFails
<1> QED  BY <1>2, TurnStep DEF ProbeFails


\* The turn is counted in the record before it is taken, within its bound.
LEMMA ProbeCounted ==
    ASSUME AccountInv, NEW c \in Checks, run[c].step # "idle", NEW s \in Creds,
           s = run[c].mine, AllowsProbe(health, s),
           NEW h \in Health, h.window = s, h.probes = Spent(health, s) + 1,
           h.post = IF Extra(health, s) THEN s ELSE health.post,
           probed' = [probed EXCEPT ![s] = @ + 1], SameCount(health', h), ~Forgot
    PROVE  Counts(health)' /\ ProbesBounded'
<1>1. /\ health \in Health /\ probed \in [Creds -> Nat]
      /\ Counts(health) /\ ProbesBounded /\ MaxProbes \in Nat \ {0} /\ MaxCreds \in Nat
  BY RefreshAssumption DEF AccountInv, LoginInv, ProbeInv, TypeOK
<1>2. /\ health.window \in 0..MaxCreds /\ health.probes \in Nat
      /\ health.post \in 0..MaxCreds /\ s \in Nat /\ s # 0
  BY <1>1 DEF Health, Creds
<1>3. \A d \in Creds : probed[d] > 0 => d <= s
  BY <1>2 DEF AccountInv, ProbeInv, NewestProbed
<1>4. Recovers(health, s) => Extra(health, s)  BY DEF Recovers
<1>5. Extra(health, s) => health.post # s  BY DEF Extra
<1>6. Spent(health, s) < MaxProbes \/ Extra(health, s)  BY DEF AllowsProbe
<1>7. Spent(health, s) \in 0..MaxProbes /\ probed[s] <= Spent(health, s)
  <2>1. CASE health.window = s
    <3>1. probed[s] > 0 /\ probed[s] <= health.probes
      BY <1>1, <1>2, <2>1 DEF Counts
    <3>2. Extra(health, s) => health.probes <= MaxProbes
      BY <1>1, <1>2, <1>5, <2>1 DEF Counts
    <3>3. Spent(health, s) = IF Recovers(health, s) THEN MaxProbes ELSE health.probes
      BY <2>1 DEF Spent
    <3>4. probed[s] \in Nat  BY <1>1
    <3> QED  BY <1>1, <1>2, <1>4, <1>6, <3>1, <3>2, <3>3, <3>4
  <2>2. CASE health.window # s
    <3>1. probed[s] = 0
      <4>1. SUFFICES ASSUME probed[s] > 0  PROVE FALSE  BY <1>1
      <4>2. s <= health.window  BY <1>1, <4>1 DEF Counts
      <4>3. health.window \in Creds /\ health.window # 0  BY <1>1, <1>2, <4>2 DEF Creds
      <4>4. probed[health.window] > 0  BY <1>1, <4>3 DEF Counts
      <4>5. health.window <= s  BY <1>3, <4>3, <4>4
      <4> QED  BY <1>2, <2>2, <4>2, <4>5
    <3>2. Spent(health, s) = IF Recovers(health, s) THEN MaxProbes ELSE 0
      BY <2>2 DEF Spent
    <3> QED  BY <1>1, <3>1, <3>2
  <2> QED  BY <2>1, <2>2
<1>8. h.probes <= MaxProbes + 1 /\ (h.probes > MaxProbes => h.post = s)
  BY <1>1, <1>6, <1>7
<1>9. probed'[s] = probed[s] + 1 /\ \A d \in Creds \ {s} : probed'[d] = probed[d]
  BY <1>1
<1>10. probed[s] \in Nat  BY <1>1
<1>11. /\ health'.window = s /\ health'.probes = Spent(health, s) + 1
       /\ health'.post = h.post
  BY DEF SameCount
<1>12. probed'[s] > 0 /\ probed'[s] <= health'.probes /\ health'.probes <= MaxProbes + 1
  BY <1>1, <1>7, <1>9, <1>10, <1>11
<1>13. \A d \in Creds : probed'[d] > 0 => d <= s  BY <1>2, <1>3, <1>9
<1>14. Counts(health)'  BY <1>8, <1>11, <1>12, <1>13 DEF Counts
<1>15. ProbesBounded'
  BY <1>1, <1>7, <1>9, <1>10 DEF ProbesBounded
<1> QED  BY <1>14, <1>15

LEMMA ProbeStep ==
    ASSUME AccountInv, NEW c \in Checks, Probe(c)
    PROVE  AccountInv'
<1> DEFINE r == Reserved(health, slot)
<1>1. /\ run[c].step = "asking" /\ slot = run[c].mine /\ AllowsProbe(health, slot)
      /\ To(c, "probing") /\ UNCHANGED <<behind, credentials, request, left>>
      /\ probed' = [probed EXCEPT ![slot] = @ + 1]
      /\ health' = [r EXCEPT !.parked = NoPark] /\ disk' \in {health', r}
  BY DEF Probe, ProbeDue
<1>2. TypeOK /\ NewestProbed /\ OneRun  BY DEF AccountInv, LoginInv, ProbeInv
<1>3. slot \in Creds /\ slot <= account /\ slot \in 0..MaxCreds
  BY <1>1, AccountFacts DEF Creds
<1>4. /\ r \in Health /\ r.window = slot /\ r.probes = Spent(health, slot) + 1
      /\ r.post = IF Extra(health, slot) THEN slot ELSE health.post
  BY <1>2, <1>3, ReservedTyped DEF TypeOK
<1>5. NoPark \in Park  BY RefreshAssumption DEF NoPark, Park
<1> HIDE DEF r
<1>6. health' \in Health /\ SameCount(health', r)  BY <1>1, <1>4, <1>5, ParkedKeeps
<1>7. disk' \in Health /\ SameCount(health', disk')
  BY <1>1, <1>4, <1>6 DEF SameCount
<1>8. probed' \in [Creds -> Nat]
  <2>1. probed \in [Creds -> Nat] /\ probed[slot] + 1 \in Nat  BY <1>2, <1>3 DEF TypeOK
  <2> QED  BY <1>1, <1>3, <2>1
<1>9. Moves(c, "probing")  BY <1>1, AccountFacts, ToMoves DEF Steps
<1>10. LeftFalls  BY <1>1, <1>2, SameFalls DEF TypeOK
<1>11. LoginInv'  BY <1>1, <1>6, <1>7, <1>8, <1>9, <1>10, TurnKeepsLogin
<1>12. Forgot' \/ (Counts(health)' /\ ProbesBounded')
  <2>1. CASE Forgot  BY <1>1, <2>1 DEF Forgot
  <2>2. CASE ~Forgot  BY <1>1, <1>3, <1>4, <1>6, <2>2, ProbeCounted
  <2> QED  BY <2>1, <2>2
<1>13. NewestProbed'
  <2>1. \A d \in Checks \ {c} : run'[d].step = "idle"
    BY <1>1, <1>2, <1>9, OthersIdle DEF Moves
  <2>2. run'[c].mine = slot /\ account' = account
    BY <1>1, <1>9 DEF Moves, credentials
  <2>3. \A d \in Creds : probed'[d] > 0 => d <= account /\ d <= slot
    BY <1>1, <1>2, <1>3 DEF NewestProbed, TypeOK, Creds
  <2> QED  BY <2>1, <2>2, <2>3 DEF NewestProbed
<1> QED  BY <1>7, <1>11, <1>12, <1>13 DEF AccountInv, ProbeInv


\* The slot's login goes into the account's file, or the write fails.
LEMMA AdoptFacts ==
    ASSUME AccountInv, NEW c \in Checks, Adopt(c)
    PROVE  /\ LeftFalls
           /\ \/ account' = slot /\ Moves(c, "clearing")
              \/ account' = account /\ Ends(c) /\ Cut'
<1>1. TypeOK /\ LeftBound /\ run \in Runs /\ left \in [Limits -> Nat]
  BY AccountFacts DEF AccountInv, LoginInv
<1>2. CASE account' = slot /\ To(c, "clearing") /\ UNCHANGED left
  BY <1>1, <1>2, ToMoves, SameFalls DEF Steps
<1>3. CASE Spend("write") /\ Done(c) /\ UNCHANGED account
  BY <1>1, <1>3, DoneEnds, SpendFalls, FaultCuts DEF Faults
<1> QED  BY <1>2, <1>3 DEF Adopt

\* A check adopts what it found, the records as they are.
LEMMA AdoptStep ==
    ASSUME AccountInv, NEW c \in Checks, run[c].step \in {"reading", "closing"},
           slot > run[c].mine, Adopt(c),
           UNCHANGED <<behind, slot, issued, spent, age, records, request>>
    PROVE  AccountInv'
<1>1. TypeOK /\ OneRun /\ Issued /\ SlotLive /\ AccountLive /\ Current
  BY DEF AccountInv, LoginInv
<1>2. UNCHANGED <<slot, issued, spent, age, reader, served, health, disk, probed>>
  BY DEF records, request
<1>3. LeftFalls /\ (\/ account' = slot /\ Moves(c, "clearing")
                    \/ account' = account /\ Ends(c) /\ Cut')
  BY AdoptFacts
<1>4. run[c].mine \in 1..account /\ slot \in Nat /\ account \in Nat /\ slot <= issued
  BY AccountFacts
<1>5. Quiet  BY <1>1, <1>2 DEF Quiet, SameCount, TypeOK
<1>6. /\ LeftBound' /\ Behind' /\ orphans' \subseteq Creds /\ raced' \in BOOLEAN
      /\ (Blind => Blind') /\ (Cut => Cut') /\ (Forgot => Forgot')
  BY <1>2, <1>3, Aside
<1>7. NewestProbed'  BY <1>2, <1>3, <1>4, NewestKept DEF Steps
<1>8. ProbeInv'  BY <1>5, <1>6, <1>7, QuietCounts DEF AccountInv
<1>9. LoginInv'
  <2>1. CASE account' = slot /\ Moves(c, "clearing")
    <3>1. TypeOK'
      BY <1>1, <1>2, <1>3, <1>4, <1>6, <2>1 DEF TypeOK, Moves, Runs, LeftFalls, Creds
    <3>2. OneRun'  BY <1>1, <2>1, MovesOneRun
    <3>3. \A d \in Checks \ {c} : run[d].step = "idle" /\ run'[d] = run[d]
      BY <1>1, <2>1, OthersIdle DEF Moves
    <3>4. Issued'  BY <1>1, <1>2, <1>4, <2>1, <3>3 DEF Issued, Moves
    <3>5. Blind' \/ account' \notin spent'  BY <1>1, <1>2, <1>6, <2>1 DEF SlotLive
    <3>6. SlotLive' /\ AccountLive'
      BY <1>1, <1>2, <1>6, <3>5 DEF SlotLive, AccountLive
    <3>7. Current'  BY <1>6, <3>5 DEF Current, Cut, Blind, Behind
    <3>8. RunSafe(c)'  BY <2>1, <3>5 DEF RunSafe, Moves
    <3>9. \A d \in Checks \ {c} : RunSafe(d)'  BY <3>3 DEF RunSafe
    <3> QED  BY <1>6, <3>1, <3>2, <3>4, <3>6, <3>7, <3>8, <3>9 DEF LoginInv
  <2>2. CASE account' = account /\ Ends(c) /\ Cut'
    <3>1. TypeOK'  BY <1>1, <1>2, <1>3, <1>6, <2>2 DEF TypeOK, Ends, Runs, LeftFalls
    <3>2. OneRun' /\ \A d \in Checks : run'[d].step = "idle"  BY <1>1, <2>2, EndsOneRun
    <3>3. Issued'  BY <1>1, <1>2, <2>2, <3>2 DEF Issued
    <3>4. SlotLive' /\ AccountLive'
      BY <1>1, <1>2, <1>6, <2>2 DEF SlotLive, AccountLive
    <3>5. \A d \in Checks : RunSafe(d)'  BY <3>2 DEF RunSafe
    <3> QED  BY <1>6, <2>2, <3>1, <3>2, <3>3, <3>4, <3>5 DEF LoginInv, Current
  <2> QED  BY <1>3, <2>1, <2>2
<1> QED  BY <1>8, <1>9 DEF AccountInv

\* A check goes on, the slot and the logins as they are, and nothing is lost by
\* what it may do next.
LEMMA GoOnStep ==
    ASSUME AccountInv, NEW c \in Checks, run[c].step \in {"reading", "closing"},
           NEW step \in {"seeding", "clearing"}, To(c, step), UNCHANGED account,
           UNCHANGED <<behind, slot, issued, spent, age, records, request>>, LeftFalls,
           Blind' \/ (account \notin spent /\ run[c].mine \notin spent)
                   \/ (account \notin spent /\ step = "clearing")
    PROVE  AccountInv'
<1>1. TypeOK /\ OneRun /\ Issued /\ SlotLive /\ AccountLive /\ Current
  BY DEF AccountInv, LoginInv
<1>2. UNCHANGED <<slot, issued, spent, age, reader, served, health, disk, probed, account>>
  BY DEF records, request
<1>3. Moves(c, step)  BY AccountFacts, ToMoves DEF Steps
<1>4. account \in Nat /\ account >= account  BY AccountFacts
<1>5. Quiet  BY <1>1, <1>2 DEF Quiet, SameCount, TypeOK
<1>6. /\ LeftBound' /\ Behind' /\ orphans' \subseteq Creds /\ raced' \in BOOLEAN
      /\ (Blind => Blind') /\ (Cut => Cut') /\ (Forgot => Forgot')
  BY <1>2, Aside
<1>7. NewestProbed'
  BY <1>2, <1>3, <1>4, NewestKept DEF Steps
<1>8. ProbeInv'  BY <1>5, <1>6, <1>7, QuietCounts DEF AccountInv
<1>9. TypeOK'  BY <1>1, <1>2, <1>3, <1>6 DEF TypeOK, Moves, Runs, LeftFalls
<1>10. OneRun'  BY <1>1, <1>3, MovesOneRun
<1>11. \A d \in Checks \ {c} : run[d].step = "idle" /\ run'[d] = run[d]
  BY <1>1, <1>3, OthersIdle DEF Moves
<1>12. Issued'  BY <1>1, <1>2, <1>3, <1>11 DEF Issued, Moves
<1>13. SlotLive' /\ AccountLive'
  BY <1>1, <1>2, <1>6 DEF SlotLive, AccountLive
<1>14. Current'  BY <1>2, <1>6 DEF Current, Cut, Blind, Behind
<1>15. RunSafe(c)'  BY <1>2, <1>3 DEF RunSafe, Moves
<1>16. \A d \in Checks \ {c} : RunSafe(d)'  BY <1>11 DEF RunSafe
<1> QED
  BY <1>6, <1>8, <1>9, <1>10, <1>12, <1>13, <1>14, <1>15, <1>16 DEF AccountInv, LoginInv

LEMMA ReadLeftStep ==
    ASSUME AccountInv, NEW c \in Checks, ReadLeft(c)
    PROVE  AccountInv'
<1>1. /\ run[c].step = "reading"
      /\ UNCHANGED <<behind, slot, issued, spent, age, records, request>>
  BY DEF ReadLeft
<1>2. TypeOK /\ LeftBound /\ left \in [Limits -> Nat]
  BY AccountFacts DEF AccountInv, LoginInv
<1>3. CASE slot > run[c].mine /\ Adopt(c)  BY <1>1, <1>3, AdoptStep
<1>4. CASE slot <= run[c].mine /\ To(c, "seeding") /\ UNCHANGED <<account, left>>
  <2>1. run[c].mine \in 1..account /\ slot \in Nat /\ account \in Nat
    BY <1>1, AccountFacts
  <2>2. RunSafe(c) /\ AccountLive  BY DEF AccountInv, LoginInv
  <2>3. LeftFalls /\ (Blind => Blind')  BY <1>1, <1>2, <1>4, SameFalls, CutStays
  <2>4. Blind \/ (account \notin spent /\ run[c].mine \notin spent)
    BY <1>1, <1>4, <2>1, <2>2 DEF RunSafe, AccountLive
  <2> QED  BY <1>1, <1>4, <2>3, <2>4, GoOnStep
<1>5. CASE slot > 0 /\ Spend("read") /\ To(c, "seeding") /\ UNCHANGED account
  <2>1. LeftFalls /\ Blind'  BY <1>2, <1>5, SpendFalls, FaultCuts DEF Faults
  <2> QED  BY <1>1, <1>5, <2>1, GoOnStep
<1> QED  BY <1>3, <1>4, <1>5 DEF ReadLeft

LEMMA ReadBackStep ==
    ASSUME AccountInv, NEW c \in Checks, ReadBack(c)
    PROVE  AccountInv'
<1>1. /\ run[c].step = "closing"
      /\ UNCHANGED <<behind, slot, issued, spent, age, records, request>>
  BY DEF ReadBack
<1>2. TypeOK /\ LeftBound /\ left \in [Limits -> Nat]
  BY AccountFacts DEF AccountInv, LoginInv
<1>3. CASE slot > run[c].mine /\ Adopt(c)  BY <1>1, <1>3, AdoptStep
<1>4. CASE slot <= run[c].mine /\ To(c, "clearing") /\ UNCHANGED <<account, left>>
  <2>1. run[c].mine \in 1..account /\ slot \in Nat /\ account \in Nat
    BY <1>1, AccountFacts
  <2>2. LeftFalls /\ (Blind => Blind')  BY <1>1, <1>2, <1>4, SameFalls, CutStays
  <2>3. Blind \/ account \notin spent
    BY <1>4, <2>1 DEF AccountLive, AccountInv, LoginInv
  <2> QED  BY <1>1, <1>4, <2>2, <2>3, GoOnStep
<1>5. CASE Spend("read") /\ To(c, "clearing") /\ UNCHANGED account
  <2>1. LeftFalls /\ Blind'  BY <1>2, <1>5, SpendFalls, FaultCuts DEF Faults
  <2> QED  BY <1>1, <1>5, <2>1, GoOnStep
<1> QED  BY <1>3, <1>4, <1>5 DEF ReadBack


LEMMA SeedStep ==
    ASSUME AccountInv, NEW c \in Checks, Seed(c)
    PROVE  AccountInv'
<1> DEFINE mine == run[c].mine
<1>1. /\ run[c].step = "seeding"
      /\ UNCHANGED <<account, issued, spent, age, probed, reader, served>> /\ UNCHANGED behind
  BY DEF Seed, request
<1>2. TypeOK /\ LeftBound /\ OneRun /\ Issued /\ SlotLive /\ AccountLive /\ Current
      /\ RunSafe(c)
  BY DEF AccountInv, LoginInv
<1>3. mine \in 1..account /\ account \in Nat /\ account <= issued /\ mine <= issued
      /\ account \in 1..MaxCreds /\ issued \in Nat
  BY <1>1, AccountFacts
<1>4. CASE Spend("write") /\ Done(c) /\ UNCHANGED <<slot, health, disk>>
  <2>1. LeftFalls /\ Cut' /\ Ends(c)
    BY <1>2, <1>4, AccountFacts, SpendFalls, FaultCuts, DoneEnds DEF Faults
  <2>2. Quiet  BY <1>1, <1>2, <1>4 DEF Quiet, SameCount, TypeOK
  <2>3. /\ LeftBound' /\ Behind' /\ orphans' \subseteq Creds /\ raced' \in BOOLEAN
        /\ (Blind => Blind') /\ (Cut => Cut') /\ (Forgot => Forgot')
    BY <1>1, <2>1, Aside
  <2>4. NewestProbed'  BY <1>1, <1>3, <2>1, NewestKept
  <2>5. ProbeInv'  BY <2>2, <2>3, <2>4, QuietCounts DEF AccountInv
  <2>6. TypeOK'  BY <1>1, <1>2, <1>4, <2>1, <2>3 DEF TypeOK, Ends, Runs, LeftFalls
  <2>7. OneRun' /\ \A d \in Checks : run'[d].step = "idle"  BY <1>1, <1>2, <2>1, EndsOneRun
  <2>8. Issued' /\ SlotLive' /\ AccountLive'
    BY <1>1, <1>2, <1>4, <2>3, <2>7 DEF Issued, SlotLive, AccountLive
  <2>9. \A d \in Checks : RunSafe(d)'  BY <2>7 DEF RunSafe
  <2> QED
    BY <2>1, <2>3, <2>5, <2>6, <2>7, <2>8, <2>9 DEF AccountInv, LoginInv, Current
<1>5. CASE ~(Spend("write") /\ Done(c) /\ UNCHANGED <<slot, health, disk>>)
  <2>1. /\ slot' = mine
        /\ \/ (To(c, "asking") \/ To(c, "closing")) /\ UNCHANGED <<health, disk, left>>
           \/ Persist([health EXCEPT !.parked = NoPark]) /\ To(c, "asking")
           \/ Spend("outage") /\ To(c, "closing") /\ UNCHANGED <<health, disk>>
    BY <1>5 DEF Seed
  <2>2. PICK step \in {"asking", "closing"} : To(c, step)  BY <2>1
  <2>3. Moves(c, step)  BY <2>2, AccountFacts, ToMoves DEF Steps
  <2>4. Quiet /\ LeftFalls
    <3>1. CASE UNCHANGED <<health, disk, left>>
      BY <1>1, <1>2, <3>1, SameFalls DEF Quiet, SameCount, TypeOK
    <3>2. CASE Persist([health EXCEPT !.parked = NoPark])
      <4>1. NoPark \in Park  BY RefreshAssumption DEF NoPark, Park
      <4> DEFINE h == [health EXCEPT !.parked = NoPark]
      <4>2. h \in Health /\ SameCount(h, health)  BY <1>2, <4>1, ParkedKeeps DEF TypeOK
      <4> QED  BY <1>1, <1>2, <3>2, <4>2, PersistQuiet
    <3>3. CASE Spend("outage") /\ UNCHANGED <<health, disk>>
      <4>1. LeftFalls  BY <1>2, <3>3, SpendFalls DEF Faults, TypeOK
      <4> QED  BY <1>1, <1>2, <3>3, <4>1 DEF Quiet, SameCount, TypeOK
    <3> QED  BY <2>1, <3>1, <3>2, <3>3
  <2>5. /\ LeftBound' /\ Behind' /\ orphans' \subseteq Creds /\ raced' \in BOOLEAN
        /\ (Blind => Blind') /\ (Cut => Cut') /\ (Forgot => Forgot')
    BY <1>1, <2>4, Aside
  <2>6. NewestProbed'  BY <1>1, <1>3, <2>3, NewestKept DEF Steps
  <2>7. ProbeInv'  BY <2>4, <2>5, <2>6, QuietCounts DEF AccountInv
  <2>8. TypeOK'
    <3>1. slot' \in 0..MaxCreds  BY <1>3, <2>1, RefreshAssumption
    <3> QED  BY <1>1, <1>2, <2>3, <2>4, <2>5, <3>1 DEF TypeOK, Moves, Runs, LeftFalls, Quiet
  <2>9. OneRun'  BY <1>1, <1>2, <2>3, MovesOneRun
  <2>10. \A d \in Checks \ {c} : run[d].step = "idle" /\ run'[d] = run[d]
    BY <1>1, <1>2, <2>3, OthersIdle DEF Moves
  <2>11. Issued'  BY <1>1, <1>2, <1>3, <2>1, <2>3, <2>10 DEF Issued, Moves
  <2>12. Blind' \/ (account \notin spent /\ mine \notin spent)
    BY <1>1, <1>2, <2>5 DEF RunSafe
  <2>13. SlotLive' /\ AccountLive'  BY <1>1, <2>1, <2>12 DEF SlotLive, AccountLive
  <2>14. Current'  BY <2>2, <2>3 DEF Current, Moves, Rotating
  <2>15. RunSafe(c)'  BY <1>3, <2>1, <2>3 DEF RunSafe, Moves
  <2>16. \A d \in Checks \ {c} : RunSafe(d)'  BY <2>10 DEF RunSafe
  <2> QED
    BY <2>5, <2>7, <2>8, <2>9, <2>11, <2>13, <2>14, <2>15, <2>16 DEF AccountInv, LoginInv
<1> QED  BY <1>4, <1>5

\* The rotation leaves the login of the account's file spent and the next one,
\* the newest of all, in the slot.
LEMMA CliRotatesStep ==
    ASSUME AccountInv, NEW c \in Checks, CliRotates(c)
    PROVE  AccountInv'
<1>1. /\ run[c].step \in {"asking", "probing"} /\ slot = run[c].mine
      /\ issued < MaxCreds /\ slot' = issued + 1 /\ issued' = issued + 1
      /\ spent' = spent \cup {slot}
      /\ orphans' = orphans \ {slot}
      /\ UNCHANGED <<raced, account, age, run, health, disk, probed, reader, served, left>>
  BY DEF CliRotates, records, request
<1>2. TypeOK /\ LeftBound /\ OneRun /\ Issued /\ SlotLive /\ AccountLive /\ Current
      /\ NewestProbed /\ Behind
  BY DEF AccountInv, LoginInv, ProbeInv
<1>3. /\ slot \in 1..account /\ account \in Nat /\ issued \in Nat /\ slot \in Nat
      /\ account <= issued /\ issued' \in 1..MaxCreds /\ spent \subseteq 1..issued
      /\ MaxCreds \in Nat
  BY <1>1, AccountFacts, RefreshAssumption
<1>4. spent' \subseteq 1..issued'
  <2>1. \A d \in spent \cup {slot} : d \in 1..(issued + 1)  BY <1>3
  <2> QED  BY <1>1, <2>1
<1>5. Quiet  BY <1>1, <1>2 DEF Quiet, SameCount, TypeOK
<1>6. ProbeInv'  BY <1>1, <1>2, <1>5, QuietCounts DEF AccountInv, NewestProbed, Forgot
<1>7. TypeOK'
  <2>1. slot' \in 0..MaxCreds /\ issued' \in Creds /\ spent' \subseteq Creds
    BY <1>1, <1>3, <1>4 DEF Creds
  <2>2. orphans' \subseteq Creds  BY <1>1, <1>2 DEF TypeOK
  <2> QED  BY <1>1, <1>2, <2>1, <2>2 DEF TypeOK
<1>8. LeftBound' /\ OneRun' /\ (Blind <=> Blind') /\ (Cut <=> Cut')
  BY <1>1, <1>2 DEF LeftBound, OneRun, Blind, Unread, Cut
<1>9. \A d \in Checks \ {c} : run[d].step = "idle"  BY <1>1, <1>2, OthersIdle
<1>10. Issued'
  <2>1. account' <= issued' /\ slot' <= issued'  BY <1>1, <1>3
  <2> QED  BY <1>1, <1>2, <1>4, <2>1 DEF Issued
<1>11. SlotLive' /\ AccountLive'
  <2>1. issued + 1 \notin spent /\ issued + 1 # slot  BY <1>3
  <2> QED  BY <1>1, <1>3, <2>1 DEF SlotLive, AccountLive
<1>12. Current'  BY <1>1 DEF Current, Rotating
<1>13. RunSafe(c)'  BY <1>1, <1>3 DEF RunSafe
<1>14. \A d \in Checks \ {c} : RunSafe(d)'  BY <1>1, <1>9 DEF RunSafe
<1>15. Behind'
  <2>1. orphans' \subseteq 1..issued'  BY <1>1, <1>2, <1>3 DEF Behind
  <2> QED  BY <1>1, <1>2, <1>8, <2>1 DEF Behind
<1> QED
  BY <1>2, <1>6, <1>7, <1>8, <1>10, <1>11, <1>12, <1>13, <1>14, <1>15 DEF AccountInv, LoginInv

\* The same exchange by a CLI left behind, whatever a check is doing.
LEMMA OrphanRotatesStep ==
    ASSUME AccountInv, NEW cred \in Creds, OrphanRotates(cred)
    PROVE  AccountInv'
<1>1. /\ cred \in orphans /\ issued < MaxCreds /\ slot' = issued + 1 /\ issued' = issued + 1
      /\ spent' = spent \cup {cred} /\ orphans' = orphans \ {cred}
      /\ raced' = (raced \/ \E c \in Checks : run[c].step \in {"seeding", "clearing"})
      /\ UNCHANGED <<account, age, run, health, disk, probed, reader, served, left>>
  BY DEF OrphanRotates, records, request
<1>2. TypeOK /\ LeftBound /\ OneRun /\ Issued /\ SlotLive /\ AccountLive
      /\ NewestProbed /\ Behind
  BY DEF AccountInv, LoginInv, ProbeInv
<1>3. /\ cred \in 1..issued /\ account \in Nat /\ issued \in Nat /\ slot \in Nat
      /\ account <= issued /\ issued' \in 1..MaxCreds /\ spent \subseteq 1..issued
      /\ MaxCreds \in Nat
  BY <1>1, <1>2, AccountFacts, RefreshAssumption DEF Behind
<1>4. spent' \subseteq 1..issued'
  <2>1. \A d \in spent \cup {cred} : d \in 1..(issued + 1)  BY <1>3
  <2> QED  BY <1>1, <2>1
<1>5. Quiet  BY <1>1, <1>2 DEF Quiet, SameCount, TypeOK
<1>6. ProbeInv'  BY <1>1, <1>2, <1>5, QuietCounts DEF AccountInv, NewestProbed, Forgot
<1>7. raced \in BOOLEAN /\ raced' \in BOOLEAN /\ (raced => raced')  BY <1>1, <1>2 DEF TypeOK
<1>8. TypeOK'
  <2>1. slot' \in 0..MaxCreds /\ issued' \in Creds /\ spent' \subseteq Creds
    BY <1>1, <1>3, <1>4 DEF Creds
  <2>2. orphans' \subseteq Creds  BY <1>1, <1>2 DEF TypeOK
  <2> QED  BY <1>1, <1>2, <1>7, <2>1, <2>2 DEF TypeOK
<1>9. LeftBound' /\ OneRun' /\ (Blind => Blind') /\ (Cut <=> Cut')
  BY <1>1, <1>2, <1>7 DEF LeftBound, OneRun, Blind, Unread, Cut
<1>10. Issued'
  <2>1. account' <= issued' /\ slot' <= issued'  BY <1>1, <1>3
  <2> QED  BY <1>1, <1>2, <1>4, <2>1 DEF Issued
<1>11. SlotLive' /\ AccountLive'
  <2>1. issued + 1 \notin spent /\ issued + 1 # cred  BY <1>3
  <2> QED  BY <1>1, <1>3, <2>1 DEF SlotLive, AccountLive
<1>12. Cut'  BY <1>1, <1>2, <1>9 DEF Behind
<1>13. Behind' /\ Current'
  <2>1. orphans' \subseteq 1..issued'  BY <1>1, <1>2, <1>3 DEF Behind
  <2> QED  BY <1>12, <2>1 DEF Behind, Current
<1>14. ASSUME NEW c \in Checks  PROVE RunSafe(c)'
  <2>1. run[c].step # "idle" => run[c].mine \in 1..account  BY AccountFacts
  <2>2. run[c].step \in {"seeding", "clearing"} => Blind'
    BY <1>1, <1>7 DEF Blind
  <2> QED  BY <1>1, <1>3, <2>1, <2>2 DEF RunSafe
<1> QED
  BY <1>6, <1>8, <1>9, <1>10, <1>11, <1>13, <1>14 DEF AccountInv, LoginInv

LEMMA ClearStep ==
    ASSUME AccountInv, NEW c \in Checks, Clear(c)
    PROVE  AccountInv'
<1>1. /\ run[c].step = "clearing" /\ slot' = 0 /\ Done(c)
      /\ UNCHANGED <<account, issued, spent, age, health, disk, probed, reader, served, left>>
      /\ UNCHANGED behind
  BY DEF Clear, records, request
<1>2. TypeOK /\ LeftBound /\ OneRun /\ Issued /\ RunSafe(c)
  BY DEF AccountInv, LoginInv
<1>3. Ends(c) /\ account \in Nat /\ account >= account /\ spent \subseteq 1..issued
      /\ issued \in Nat
  BY <1>1, AccountFacts, DoneEnds
<1>4. Quiet /\ LeftFalls  BY <1>1, <1>2, SameFalls DEF Quiet, SameCount, TypeOK
<1>5. NewestProbed'  BY <1>1, <1>3, NewestKept
<1>6. /\ LeftBound' /\ Behind' /\ orphans' \subseteq Creds /\ raced' \in BOOLEAN
      /\ (Blind => Blind') /\ (Cut => Cut') /\ (Forgot => Forgot')
  BY <1>1, <1>4, Aside
<1>7. ProbeInv'  BY <1>4, <1>5, <1>6, QuietCounts DEF AccountInv
<1>8. TypeOK'
  <2>1. slot' \in 0..MaxCreds  BY <1>1, RefreshAssumption
  <2> QED  BY <1>1, <1>2, <1>3, <1>6, <2>1 DEF TypeOK, Ends, Runs
<1>9. OneRun' /\ \A d \in Checks : run'[d].step = "idle"  BY <1>1, <1>2, <1>3, EndsOneRun
<1>10. Issued'  BY <1>1, <1>2, <1>3, <1>9 DEF Issued
<1>11. Blind' \/ account' \notin spent'  BY <1>1, <1>2, <1>6 DEF RunSafe
<1>12. SlotLive'  BY <1>1, <1>3 DEF SlotLive
<1>13. AccountLive' /\ Current'  BY <1>6, <1>11 DEF AccountLive, Current, Cut, Blind, Behind
<1>14. \A d \in Checks : RunSafe(d)'  BY <1>9 DEF RunSafe
<1> QED
  BY <1>6, <1>7, <1>8, <1>9, <1>10, <1>12, <1>13, <1>14 DEF AccountInv, LoginInv

\* A check begins from the login the account holds now.
LEMMA BeginStep ==
    ASSUME AccountInv, NEW c \in Checks, Begin(c)
    PROVE  AccountInv'
<1>1. /\ Free /\ run' = [run EXCEPT ![c] = [step |-> "reading", mine |-> account]]
      /\ CheckHeard(c)
      /\ UNCHANGED <<account, slot, issued, spent, age, health, disk, probed, served, left>>
      /\ UNCHANGED behind
  BY DEF Begin, credentials, records
<1>2. TypeOK /\ LeftBound /\ Issued /\ SlotLive /\ AccountLive /\ Current /\ NewestProbed
  BY DEF AccountInv, LoginInv, ProbeInv
<1>3. account \in 1..MaxCreds /\ account \in Nat /\ run \in Runs  BY AccountFacts
<1>4. run' \in Runs /\ run'[c].step = "reading" /\ run'[c].mine = account
      /\ \A d \in Checks \ {c} : run'[d].step = "idle"
  BY <1>1, <1>3 DEF Runs, Steps, Free
<1>5. Quiet  BY <1>1, <1>2 DEF Quiet, SameCount, TypeOK
<1>6. NewestProbed'  BY <1>1, <1>2, <1>4 DEF NewestProbed
<1>7. /\ LeftBound' /\ Behind' /\ orphans' \subseteq Creds /\ raced' \in BOOLEAN
      /\ (Blind => Blind') /\ (Cut => Cut') /\ (Forgot => Forgot')
  BY <1>1, <1>2, SameFalls, Aside DEF TypeOK
<1>8. TypeOK'
  <2>1. reader' \in [step : {"idle", "asked", "waiting", "served"}, before : 0..MaxCreds]
    BY <1>1, <1>2 DEF CheckHeard, TypeOK
  <2> QED  BY <1>1, <1>2, <1>4, <1>7, <2>1 DEF TypeOK, Runs
<1>9. OneRun' /\ ProbeInv'
  BY <1>1, <1>2, <1>4, <1>5, <1>6, <1>7, QuietCounts DEF OneRun, AccountInv
<1>10. Issued'  BY <1>1, <1>2, <1>3, <1>4 DEF Issued
<1>11. SlotLive' /\ AccountLive'  BY <1>1, <1>2, <1>7 DEF SlotLive, AccountLive
<1>12. Cut \/ account \notin spent  BY <1>1, <1>2 DEF Current, Free, Rotating
<1>13. Current'  BY <1>1, <1>7, <1>12 DEF Current
<1>14. RunSafe(c)'  BY <1>1, <1>2, <1>4, <1>7 DEF RunSafe, AccountLive
<1>15. \A d \in Checks \ {c} : RunSafe(d)'  BY <1>4 DEF RunSafe
<1> QED
  BY <1>7, <1>8, <1>9, <1>10, <1>11, <1>13, <1>14, <1>15 DEF AccountInv, LoginInv


Requests == [step : {"idle", "asked", "waiting", "served"}, before : 0..MaxCreds]

\* A request, or time, changes nothing the invariant speaks of.
LEMMA AsideStep ==
    ASSUME AccountInv, UNCHANGED <<behind, account, slot, issued, spent, run, records, left>>,
           age' \in [Creds -> Fresh..Expired], reader' \in Requests, served' \in 0..MaxCreds
    PROVE  AccountInv'
<1>1. UNCHANGED <<health, disk, probed, orphans, raced>>  BY DEF records, behind
<1>2. TypeOK'  BY <1>1 DEF AccountInv, LoginInv, TypeOK, Requests
<1>3. (Blind <=> Blind') /\ (Cut <=> Cut')
  BY <1>1 DEF Blind, Unread, Cut
<1>4. OneRun' /\ Issued' /\ Behind' /\ LeftBound'
  BY <1>1, <1>3 DEF AccountInv, LoginInv, OneRun, Issued, LeftBound, Behind
<1>5. SlotLive' /\ AccountLive' /\ Current' /\ \A c \in Checks : RunSafe(c)'
  BY <1>1, <1>3 DEF AccountInv, LoginInv, SlotLive, AccountLive, Current, RunSafe
<1>6. ProbeInv'
  BY <1>1 DEF AccountInv, ProbeInv, ProbesBounded, NewestProbed, Counts, SameCount, Forgot
<1> QED  BY <1>2, <1>4, <1>5, <1>6 DEF AccountInv, LoginInv

LEMMA RequestStep ==
    ASSUME AccountInv, Declined \/ Read \/ ReadAgain \/ Use
    PROVE  AccountInv'
<1>1. TypeOK  BY DEF AccountInv, LoginInv
<1>2. account \in 0..MaxCreds /\ 0 \in 0..MaxCreds
  BY AccountFacts, RefreshAssumption
<1>3. UNCHANGED <<behind, account, slot, issued, spent, age, run, records, left>>
  BY DEF Declined, Read, ReadAgain, ReadAtOnce, Use, credentials
<1>4. NoRequest \in Requests /\ reader \in Requests /\ [step |-> "asked", before |-> account] \in Requests
  BY <1>1, <1>2 DEF NoRequest, Requests, TypeOK
<1>5. served \in 0..MaxCreds  BY <1>1 DEF TypeOK
<1>6. \A step \in {"waiting", "served"} : [reader EXCEPT !.step = step] \in Requests
  BY <1>4 DEF Requests
<1>7. reader' \in Requests /\ served' \in 0..MaxCreds
  BY <1>2, <1>4, <1>5, <1>6 DEF Declined, Read, ReadAgain, ReadAtOnce, Use, Answer
<1>8. age' \in [Creds -> Fresh..Expired]  BY <1>1, <1>3 DEF TypeOK
<1> QED  BY <1>3, <1>7, <1>8, AsideStep

LEMMA AgesStep ==
    ASSUME AccountInv, NEW c \in Creds, Ages(c)
    PROVE  AccountInv'
<1>1. age \in [Creds -> Fresh..Expired] /\ reader \in Requests /\ served \in 0..MaxCreds
  BY DEF AccountInv, LoginInv, TypeOK, Requests
<1>2. /\ age[c] # Expired /\ age' = [age EXCEPT ![c] = age[c] + 1]
      /\ UNCHANGED <<behind, account, slot, issued, spent, run, records, reader, served, left>>
  BY DEF Ages, request
<1>3. age[c] + 1 \in Fresh..Expired  BY <1>1, <1>2 DEF Fresh, Expired
<1>4. age' \in [Creds -> Fresh..Expired]  BY <1>1, <1>2, <1>3
<1> QED  BY <1>1, <1>2, <1>4, AsideStep

LEMMA LoginStep ==
    ASSUME AccountInv, Login
    PROVE  AccountInv'
<1>1. /\ issued < MaxCreds /\ issued' = issued + 1 /\ account' = issued + 1
      /\ Spend("login")
      /\ UNCHANGED <<slot, spent, age, run, health, disk, probed, reader, served>>
      /\ UNCHANGED behind
  BY DEF Login, records, request
<1>2. TypeOK /\ LeftBound /\ OneRun /\ Issued /\ SlotLive /\ NewestProbed
      /\ \A c \in Checks : RunSafe(c)
  BY DEF AccountInv, LoginInv, ProbeInv
<1>3. /\ account \in Nat /\ issued \in Nat /\ slot \in Nat /\ account <= issued
      /\ spent \subseteq 1..issued /\ issued + 1 \in 1..MaxCreds
  BY <1>1, AccountFacts, RefreshAssumption
<1>4. LeftFalls  BY <1>1, <1>2, SpendFalls DEF Faults, TypeOK
<1>5. /\ LeftBound' /\ Behind' /\ orphans' \subseteq Creds /\ raced' \in BOOLEAN
      /\ (Blind => Blind') /\ (Cut => Cut') /\ (Forgot => Forgot')
  BY <1>1, <1>4, Aside
<1>6. account' \notin spent'  BY <1>1, <1>3
<1>7. TypeOK'  BY <1>1, <1>2, <1>3, <1>4, <1>5 DEF TypeOK, LeftFalls, Creds
<1>8. OneRun' /\ SlotLive' /\ AccountLive' /\ Current'
  BY <1>1, <1>2, <1>5, <1>6 DEF OneRun, SlotLive, AccountLive, Current
<1>9. Issued'
  <2>1. account' <= issued' /\ slot' <= issued' /\ spent' \subseteq 1..issued'
    BY <1>1, <1>2, <1>3 DEF Issued
  <2>2. \A c \in Checks : run'[c].step # "idle" => run'[c].mine \in 1..account'
    BY <1>1, <1>2, <1>3 DEF Issued
  <2> QED  BY <2>1, <2>2 DEF Issued
<1>10. \A c \in Checks : RunSafe(c)'  BY <1>1, <1>2, <1>5, <1>6 DEF RunSafe
<1>11. Quiet  BY <1>1, <1>2 DEF Quiet, SameCount, TypeOK
<1>12. \A d \in Creds : d <= account => d <= account'
  BY <1>1, <1>3, RefreshAssumption DEF Creds
<1>13. NewestProbed'  BY <1>1, <1>2, <1>12 DEF NewestProbed
<1>14. ProbeInv'  BY <1>5, <1>11, <1>13, QuietCounts DEF AccountInv
<1> QED
  BY <1>5, <1>7, <1>8, <1>9, <1>10, <1>14 DEF AccountInv, LoginInv

\* What the refresher reads back at the start counts what it had counted.
LEMMA CrashStep ==
    ASSUME AccountInv, Crash
    PROVE  AccountInv'
<1>1. /\ run' = [c \in Checks |-> Idle] /\ reader' = NoRequest /\ served' = 0
      /\ orphans' \in {orphans, orphans \cup (Running \ spent)}
      /\ UNCHANGED <<account, slot, issued, spent, age, disk, probed, raced>>
  BY DEF Crash, credentials
<1>2. TypeOK /\ LeftBound /\ Issued /\ Behind /\ SlotLive /\ AccountLive /\ NewestProbed
  BY DEF AccountInv, LoginInv, ProbeInv
<1>3. PICK kind \in {"crash", "forget"} :
        /\ Spend(kind)
        /\ kind = "crash" => health' = disk
        /\ kind = "forget" => health' = Healthy
  BY DEF Crash
<1>4. LeftFalls /\ Cut' /\ LeftBound' /\ (kind = "forget" => Forgot')
  BY <1>2, <1>3, SpendFalls, FaultCuts, LeftBoundKept DEF Faults, TypeOK
<1>5. (Blind => Blind') /\ (Forgot => Forgot')
  <2>1. {"read", "forget"} \subseteq Limits  BY DEF Limits, Faults
  <2>2. \A k \in {"read", "forget"} : left[k] < Budget[k] => left'[k] < Budget[k]
    BY <1>2, <1>4, <2>1, RefreshAssumption DEF LeftFalls, TypeOK
  <2> QED  BY <1>1, <2>2 DEF Blind, Unread, Forgot
<1>6. run' \in Runs /\ \A c \in Checks : run'[c].step = "idle"
  BY <1>1, RefreshAssumption DEF Runs, Idle, Steps
<1>7. NoRequest \in Requests /\ 0 \in 0..MaxCreds
  BY RefreshAssumption DEF NoRequest, Requests
<1>8. health' \in Health
  <2>1. NoPark \in Park /\ 0 \in 0..MaxCreds  BY RefreshAssumption DEF NoPark, Park
  <2>2. Healthy \in Health  BY <2>1 DEF Healthy, Health
  <2> QED  BY <1>2, <1>3, <2>2 DEF TypeOK
<1>9. Running \subseteq 1..issued /\ issued \in Nat
  <2>1. \A c \in Checks : run[c].step # "idle" => run[c].mine \in 1..issued
    BY AccountFacts
  <2> QED  BY <2>1, AccountFacts DEF Running
<1>10. orphans' \subseteq 1..issued  BY <1>1, <1>2, <1>9 DEF Behind
<1>11. TypeOK'
  <2>1. orphans' \subseteq Creds
    <3>1. issued \in 1..MaxCreds /\ MaxCreds \in Nat  BY AccountFacts, RefreshAssumption
    <3> QED  BY <1>10, <3>1 DEF Creds
  <2> QED  BY <1>1, <1>2, <1>4, <1>6, <1>7, <1>8, <2>1 DEF TypeOK, Runs, Requests, LeftFalls
<1>12. OneRun' /\ Issued' /\ Behind' /\ SlotLive' /\ AccountLive' /\ Current'
  BY <1>1, <1>2, <1>4, <1>5, <1>6, <1>10
  DEF OneRun, Issued, Behind, SlotLive, AccountLive, Current
<1>13. \A c \in Checks : RunSafe(c)'  BY <1>6 DEF RunSafe
<1>14. NewestProbed'  BY <1>1, <1>2, <1>6 DEF NewestProbed
<1>15. ProbeInv'
  <2>1. CASE Forgot \/ kind = "forget"  BY <1>4, <1>5, <1>14, <2>1 DEF ProbeInv
  <2>2. CASE ~Forgot /\ kind = "crash"
    <3>1. Counts(health) /\ SameCount(health, disk) /\ ProbesBounded
      BY <2>2 DEF AccountInv, ProbeInv
    <3>2. health' = disk /\ disk' = disk /\ probed' = probed  BY <1>1, <1>3, <2>2
    <3>3. Counts(health)' /\ SameCount(health, disk)'
      BY <3>1, <3>2 DEF Counts, SameCount
    <3>4. ProbesBounded'  BY <2>2, <3>1, <3>2 DEF ProbesBounded
    <3> QED  BY <1>14, <3>3, <3>4 DEF ProbeInv
  <2> QED  BY <2>1, <2>2
<1> QED  BY <1>4, <1>11, <1>12, <1>13, <1>15 DEF AccountInv, LoginInv

-------------------------------------------------------------------------------
LEMMA AccountInit == Init => AccountInv
<1> SUFFICES ASSUME Init  PROVE AccountInv
  OBVIOUS
<1>1. /\ account = 1 /\ slot = 0 /\ issued = 1 /\ spent = {}
      /\ age = [c \in Creds |-> Fresh] /\ run = [c \in Checks |-> Idle]
      /\ health = Healthy /\ disk = Healthy /\ probed = [c \in Creds |-> 0]
      /\ reader = NoRequest /\ served = 0 /\ left = Budget
      /\ orphans = {} /\ raced = FALSE
  BY DEF Init
<1>2. MaxCreds \in Nat \ {0} /\ MaxProbes \in Nat \ {0} /\ Budget \in [Limits -> Nat]
  BY RefreshAssumption
<1>3. NoPark \in Park /\ 0 \in 0..MaxCreds /\ 0 \in Nat  BY <1>2 DEF NoPark, Park
<1>4. Healthy \in Health /\ Healthy.window = 0 /\ Healthy.probes = 0 /\ Healthy.post = 0
  BY <1>3 DEF Healthy, Health
<1>5. run \in Runs /\ \A c \in Checks : run[c].step = "idle"
  BY <1>1, <1>3 DEF Runs, Idle, Steps
<1>6. NoRequest \in Requests  BY <1>3 DEF NoRequest, Requests
<1>7. age \in [Creds -> Fresh..Expired]  BY <1>1 DEF Fresh, Expired
<1>8. probed \in [Creds -> Nat]  BY <1>1
<1>9. TypeOK
  <2>1. account \in Creds /\ slot \in 0..MaxCreds /\ issued \in Creds /\ served \in 0..MaxCreds
        /\ spent \subseteq Creds
    BY <1>1, <1>2 DEF Creds
  <2>2. health \in Health /\ disk \in Health /\ reader \in Requests /\ left \in [Limits -> Nat]
    BY <1>1, <1>2, <1>4, <1>6
  <2> QED  BY <1>1, <1>5, <1>7, <1>8, <2>1, <2>2 DEF TypeOK, Runs, Requests
<1>10. OneRun /\ Issued /\ Behind /\ SlotLive /\ AccountLive /\ Current /\ LeftBound
  BY <1>1, <1>2, <1>5 DEF OneRun, Issued, Behind, SlotLive, AccountLive, Current, LeftBound
<1>11. \A c \in Checks : RunSafe(c)  BY <1>5 DEF RunSafe
<1>12. \A d \in Creds : probed[d] = 0  BY <1>1
<1>13. ProbeInv
  BY <1>1, <1>2, <1>4, <1>12
  DEF ProbeInv, ProbesBounded, NewestProbed, Counts, SameCount
<1> QED  BY <1>9, <1>10, <1>11, <1>13 DEF AccountInv, LoginInv

LEMMA AccountStep == AccountInv /\ [Next]_vars => AccountInv'
<1> SUFFICES ASSUME AccountInv, [Next]_vars  PROVE AccountInv'
  OBVIOUS
<1>1. ASSUME NEW c \in Checks, Begin(c)  PROVE AccountInv'  BY <1>1, BeginStep
<1>2. ASSUME NEW c \in Checks, Works(c)  PROVE AccountInv'
  BY <1>2, ReadLeftStep, SeedStep, RefreshedStep, OverlookedStep, LoggedOutStep, ProbeStep, NotReservedStep,
     NoProbeStep, ProbeFailsStep, ReadBackStep, ClearStep DEF Works
<1>3. ASSUME NEW c \in Checks, CliRotates(c)  PROVE AccountInv'  BY <1>3, CliRotatesStep
<1>4. CASE Declined \/ Read \/ ReadAgain \/ Use  BY <1>4, RequestStep
<1>5. ASSUME NEW c \in Creds, Ages(c) \/ OrphanRotates(c)  PROVE AccountInv'
  BY <1>5, AgesStep, OrphanRotatesStep
<1>6. CASE Login  BY <1>6, LoginStep
<1>7. CASE Crash  BY <1>7, CrashStep
<1>8. CASE UNCHANGED vars
  <2>1. age' = age /\ reader' = reader /\ served' = served
        /\ UNCHANGED <<behind, account, slot, issued, spent, run, records, left>>
    BY <1>8 DEF vars, credentials, records, request
  <2>2. age' \in [Creds -> Fresh..Expired] /\ reader' \in Requests /\ served' \in 0..MaxCreds
    BY <2>1 DEF AccountInv, LoginInv, TypeOK, Requests
  <2> QED  BY <2>1, <2>2, AsideStep
<1> QED  BY <1>1, <1>2, <1>3, <1>4, <1>5, <1>6, <1>7, <1>8 DEF Next

LEMMA AccountHolds == Spec => []AccountInv
BY AccountInit, AccountStep, PTL DEF Spec

\* Every variable of the account keeps its type.
THEOREM AccountTyped == Spec => []TypeOK
<1>1. AccountInv => TypeOK  BY DEF AccountInv, LoginInv
<1> QED  BY <1>1, AccountHolds, PTL

\* Whatever dies between the exchange of a refresh token and the copy back, the
\* server alone or its CLI too, a login that can still be refreshed is in the
\* account's file or in its slot, unless a check could not see what it overwrote.
THEOREM AccountLoginSurvives == Spec => []LoginSurvives
<1>1. AccountInv => LoginSurvives
  <2> SUFFICES ASSUME AccountInv  PROVE LoginSurvives
    OBVIOUS
  <2>1. account \in Nat /\ slot \in Nat  BY AccountFacts
  <2>2. SlotLive /\ AccountLive  BY DEF AccountInv, LoginInv
  <2> QED  BY <2>1, <2>2 DEF LoginSurvives, SlotLive, AccountLive
<1> QED  BY <1>1, AccountHolds, PTL

\* The CLI never runs on a refresh token that was already exchanged, by it or by a
\* CLI an earlier server left behind, with the same exception.
THEOREM AccountNeverSpentTwice == Spec => []NeverSpentTwice
<1>1. AccountInv => NeverSpentTwice
  <2> SUFFICES ASSUME AccountInv, NEW c \in Checks, run[c].step \in {"asking", "probing"}
               PROVE  Blind \/ (slot # 0 /\ slot \notin spent)
    BY DEF NeverSpentTwice
  <2>1. run[c].mine \in 1..account /\ slot \in Nat /\ account \in Nat  BY AccountFacts
  <2>2. SlotLive /\ slot >= run[c].mine  BY DEF AccountInv, LoginInv, RunSafe
  <2> QED  BY <2>1, <2>2 DEF SlotLive
<1> QED  BY <1>1, AccountHolds, PTL

\* One credential costs at most its ordinary turns and one after its expiry,
\* across restarts that read the record back and lost writes.
THEOREM AccountProbesBounded == Spec => []ProbesBounded
<1>1. AccountInv => ProbesBounded  BY DEF AccountInv, ProbeInv, ProbesBounded
<1> QED  BY <1>1, AccountHolds, PTL

\* A request is given a token a rotation has replaced only if a rotation was cut
\* off before its login was adopted.
THEOREM AccountServesCurrent == Spec => ServesCurrent
<1>1. AccountInv /\ [Next]_vars
        => [served = 0 /\ served' # 0 => served' \notin spent \/ Cut]_vars
  <2> SUFFICES ASSUME AccountInv, Next, served = 0, served' # 0
               PROVE  served' \notin spent \/ Cut
    OBVIOUS
  <2>1. served' = account /\ Free
    <3>1. ASSUME NEW c \in Checks, Begin(c) \/ Works(c) \/ CliRotates(c)  PROVE FALSE
      BY <3>1 DEF Begin, Works, CliRotates, ReadLeft, Seed, Refreshed, Overlooked, LoggedOut, Probe,
                  NotReserved, NoProbe, ProbeFails, ReadBack, Clear, request
    <3>2. CASE Declined  BY <3>2 DEF Declined
    <3>3. CASE Read  BY <3>3 DEF Read, Answer
    <3>4. CASE ReadAgain  BY <3>4 DEF ReadAgain, ReadAtOnce, Answer
    <3>5. CASE Use  BY <3>5 DEF Use
    <3>6. ASSUME NEW c \in Creds, Ages(c) \/ OrphanRotates(c)  PROVE FALSE
      BY <3>6 DEF Ages, OrphanRotates, request
    <3>7. CASE Login \/ Crash  BY <3>7 DEF Login, Crash, request
    <3> QED  BY <3>1, <3>2, <3>3, <3>4, <3>5, <3>6, <3>7 DEF Next
  <2>2. Cut \/ account \notin spent
    BY <2>1 DEF Free, AccountInv, LoginInv, Current, Rotating
  <2> QED  BY <2>1, <2>2
<1> QED  BY <1>1, AccountHolds, PTL DEF Spec, ServesCurrent

===============================================================================
