----------------------------- MODULE AccountRefresh -----------------------------
(***************************************************************************)
(* How one official Claude account keeps its login alive                   *)
(* (claude-auth/accounts-refresh.js, oauth-refresh.js,                     *)
(* account-credentials.js; native/core/src/claude_refresh.rs).             *)
(*                                                                         *)
(* A refresh token can be used once: the exchange returns the next one and *)
(* kills it.  The claude CLI makes the exchange, in a credential slot of   *)
(* its own; the supervisor copies the account's login into the slot, runs  *)
(* the CLI, copies what it finds back and clears the slot.  So for a while *)
(* the slot holds the only live login, and the server may die, a write     *)
(* fail or a user log in again at any point of that.  A server that dies   *)
(* leaves its CLI behind, which may still exchange the token it was        *)
(* started on.                                                             *)
(*                                                                         *)
(* Credentials are numbered in the order they were issued, which is the    *)
(* order of their expiry; 0 stands for none.  `probed` counts CLI turns    *)
(* and `raced` remembers an exchange by a CLI left behind that a check     *)
(* could not see; no action reads them.                                    *)
(***************************************************************************)
EXTENDS Naturals

CONSTANTS
    MaxCreds,     \* credentials ever issued
    MaxProbes,    \* CLI turns one credential may cost before it expires
    ParkAfter,    \* failures in a row that stop the ladder
    Budget        \* how many faults of each kind, and of any, a behaviour may hold

Faults == {"crash", "forget", "login", "outage", "write", "health", "read"}
Limits == Faults \cup {"any"}

ASSUME RefreshAssumption ==
    /\ MaxCreds \in Nat \ {0} /\ MaxProbes \in Nat \ {0} /\ ParkAfter \in Nat \ {0}
    /\ Budget \in [Limits -> Nat]

VARIABLES
    account,   \* the login in the account's file
    slot,      \* the login in the account's CLI slot, 0 if cleared
    issued,    \* how many credentials the provider has issued
    spent,     \* those whose refresh token was exchanged
    age,       \* how near its expiry a credential is
    run,       \* what a check is doing, and the login it read
    orphans,   \* logins whose exchange a CLI left behind may still make
    raced,     \* one was made between a check's look at the slot and its write
    health,    \* what the refresher knows of the credential
    disk,      \* what it has written down of that
    reader,    \* where a request for the access token is, and the token it saw
    served,    \* the token it was given, until it is used
    probed, left

credentials == <<account, slot, issued, spent, age>>
records == <<health, disk, probed>>
request == <<reader, served>>
behind == <<orphans, raced>>
vars == <<credentials, run, behind, records, request, left>>

Checks == {"tick", "miss"}
Creds == 1..MaxCreds
Steps == {"idle", "reading", "seeding", "asking", "probing", "closing", "clearing"}
Classes == {"network", "unknown", "rejected", "needs-login"}

\* More than the buffer to go; inside it; inside the CLI's own window; lapsed.
Fresh == 0
Due == 1
Close == 2
Expired == 3

NoPark == [class |-> "none", cred |-> 0]
Healthy == [window |-> 0, probes |-> 0, post |-> 0, failed |-> NoPark,
            failures |-> 0, parked |-> NoPark]
Idle == [step |-> "idle", mine |-> 0]
NoRequest == [step |-> "idle", before |-> 0]

Init ==
    /\ account = 1 /\ slot = 0 /\ issued = 1 /\ spent = {}
    /\ age = [c \in Creds |-> Fresh]
    /\ run = [c \in Checks |-> Idle]
    /\ orphans = {} /\ raced = FALSE
    /\ health = Healthy /\ disk = Healthy /\ probed = [c \in Creds |-> 0]
    /\ reader = NoRequest /\ served = 0
    /\ left = Budget

Spend(kind) ==
    /\ left[kind] > 0 /\ left["any"] > 0
    /\ left' = [left EXCEPT ![kind] = @ - 1, !["any"] = @ - 1]

\* exclusive(): one holder of the account at a time.
Free == \A c \in Checks : run[c].step = "idle"

To(c, step) == run' = [run EXCEPT ![c].step = step]
Done(c) == run' = [run EXCEPT ![c] = Idle]

-------------------------------------------------------------------------------
\* The retry policy: what one credential may cost.

Known(h, cred) ==
    IF h.parked # NoPark THEN h.parked.class
    ELSE IF h.failed.cred = cred THEN h.failed.class ELSE "none"

Terminal(h, cred) == Known(h, cred) \in {"rejected", "needs-login"}

Extra(h, cred) == age[cred] = Expired /\ h.post # cred
Recovers(h, cred) == h.parked # NoPark /\ ~Terminal(h, cred) /\ Extra(h, cred)

\* A parked credential comes back without its ordinary turns.
Spent(h, cred) ==
    IF Recovers(h, cred) THEN MaxProbes
    ELSE IF h.window = cred THEN h.probes ELSE 0

AllowsProbe(h, cred) ==
    /\ ~Terminal(h, cred)
    /\ h.parked = NoPark \/ Recovers(h, cred)
    /\ Spent(h, cred) < MaxProbes \/ Extra(h, cred)

Reserved(h, cred) ==
    [h EXCEPT !.window = cred, !.probes = Spent(h, cred) + 1,
              !.post = IF Extra(h, cred) THEN cred ELSE @]

\* A probe that failed while the token lives leaves its reason, no more.
Explained(h, cred, class) ==
    IF class = "none" THEN h ELSE [h EXCEPT !.failed = [class |-> class, cred |-> cred]]

\* Why an attempt failed: what `auth status` said if it failed too (`class`), and
\* the turn, or the last turn of this credential if there was none.
Reason(h, cred, class) ==
    LET said == {class} \cup IF h.failed.cred = cred THEN {h.failed.class} ELSE {}
    IN  IF "rejected" \in said THEN "rejected"
        ELSE IF "network" \in said THEN "network" ELSE "unknown"

NeverCounted(h, cred, class) ==
    LET why  == Reason(h, cred, class)
        park == why = "rejected" \/ (Spent(h, cred) >= MaxProbes /\ why # "network")
    IN  [h EXCEPT !.parked = IF park THEN [class |-> why, cred |-> cred] ELSE @]

\* A failed attempt on a lapsed token: stop for good, or wait and try again.
Failed(h, cred, class) ==
    LET why  == Reason(h, cred, class)
        park == \/ why = "rejected"
                \/ h.failures + 1 >= ParkAfter
                \/ Spent(h, cred) >= MaxProbes /\ why # "network"
    IN  [h EXCEPT !.failures = @ + 1,
                  !.parked = IF park THEN [class |-> why, cred |-> cred] ELSE @]

Succeeded(h) == [h EXCEPT !.failed = NoPark, !.failures = 0, !.parked = NoPark]

\* Health is written down at once; a write that fails is survived.
Persist(h) ==
    /\ health' = h
    /\ \/ disk' = h /\ UNCHANGED left
       \/ Spend("health") /\ UNCHANGED disk

-------------------------------------------------------------------------------
\* One check of the account.

AwaitsCheck(c) == c = "miss" => reader.step = "asked"
CheckHeard(c) == reader' = IF c = "miss" THEN [reader EXCEPT !.step = "waiting"] ELSE reader

GatesOpen ==
    /\ age[account] # Fresh
    /\ \/ health.parked = NoPark
       \/ account > health.parked.cred
       \/ Recovers(health, account)

Begin(c) ==
    /\ Free
    /\ AwaitsCheck(c)
    /\ GatesOpen
    /\ run' = [run EXCEPT ![c] = [step |-> "reading", mine |-> account]]
    /\ CheckHeard(c)
    /\ UNCHANGED <<behind, credentials, records, served, left>>

\* Parked, cooling down or too soon after the last check: the request is told so.
\* The delays themselves are left out, a check may begin at any moment.
Declined ==
    /\ Free
    /\ reader.step = "asked"
    /\ reader' = [reader EXCEPT !.step = "waiting"]
    /\ UNCHANGED <<behind, credentials, run, records, served, left>>

\* The slot's login into the account file; a write that fails ends the check
\* and leaves the slot as it is.
Adopt(c) ==
    \/ account' = slot /\ To(c, "clearing") /\ UNCHANGED left
    \/ Spend("write") /\ Done(c) /\ UNCHANGED account

LeftAlone(c) ==
    /\ run[c].step = "reading"
    /\ To(c, "seeding")
    /\ UNCHANGED <<behind, credentials, records, request, left>>

\* A rotation of an earlier run that was never read back is adopted.
ReadLeft(c) ==
    /\ run[c].step = "reading"
    /\ \/ slot > run[c].mine /\ Adopt(c)
       \/ slot <= run[c].mine /\ To(c, "seeding") /\ UNCHANGED <<account, left>>
       \/ slot > 0 /\ Spend("read") /\ To(c, "seeding") /\ UNCHANGED account
    /\ UNCHANGED <<behind, slot, issued, spent, age, records, request>>

\* The account's login into the slot; then the refresher looks at its park.
Seed(c) ==
    LET mine == run[c].mine
        anew == health.parked.cred # mine
    IN  /\ run[c].step = "seeding"
        /\ \/ /\ slot' = mine
              /\ IF health.parked = NoPark THEN To(c, "asking") /\ UNCHANGED <<health, disk, left>>
                 ELSE IF anew THEN Persist([health EXCEPT !.parked = NoPark]) /\ To(c, "asking")
                 ELSE /\ To(c, IF Recovers(health, mine) THEN "asking" ELSE "closing")
                      /\ UNCHANGED <<health, disk, left>>
           \/ Spend("write") /\ Done(c) /\ UNCHANGED <<slot, health, disk>>
           \* the refresher itself cannot read the slot
           \/ Spend("outage") /\ slot' = mine /\ To(c, "closing") /\ UNCHANGED <<health, disk>>
        /\ UNCHANGED <<behind, account, issued, spent, age, probed, request>>

\* The CLI exchanges the refresh token in its slot and writes the next one there.
CliRotates(c) ==
    /\ run[c].step \in {"asking", "probing"}
    /\ slot = run[c].mine
    /\ slot \notin spent
    /\ age[slot] \in {Close, Expired}
    /\ issued < MaxCreds
    /\ slot' = issued + 1
    /\ issued' = issued + 1
    /\ spent' = spent \cup {slot}
    /\ orphans' = orphans \ {slot}
    /\ UNCHANGED <<raced, account, age, run, records, request, left>>

\* A CLI outlives the server that ran it, and its timeout: it is nobody's child now.
OrphanRotates(cred) ==
    /\ cred \in orphans
    /\ age[cred] \in {Close, Expired}
    /\ issued < MaxCreds
    /\ slot' = issued + 1
    /\ issued' = issued + 1
    /\ spent' = spent \cup {cred}
    /\ raced' = (raced \/ \E c \in Checks : run[c].step \in {"seeding", "clearing"})
    /\ orphans' = orphans \ {cred}
    /\ UNCHANGED <<account, age, run, records, request, left>>

\* The exit code proves nothing: only a newer login in the slot is a success.
Refreshed(c) ==
    /\ run[c].step \in {"asking", "probing"}
    /\ slot > run[c].mine
    /\ Persist(Succeeded(health))
    /\ To(c, "closing")
    /\ UNCHANGED <<behind, credentials, probed, request>>

\* The ladder ends without a new login; what it learns may not reach the disk.
EndsBadly(c, told, class) ==
    /\ health' = IF age[run[c].mine] = Expired THEN Failed(told, run[c].mine, class) ELSE told
    /\ disk' \in {health', disk}

Unrotated(c, class) ==
    LET mine == run[c].mine
        told == Explained(health, mine, class)
    IN  IF age[mine] = Expired THEN Persist(Failed(told, mine, class))
        ELSE IF class = "none" THEN UNCHANGED <<health, disk, left>>
        ELSE Persist(told)

\* `auth status` came back: the CLI knows no login, or a turn is due.
LoggedOut(c) ==
    /\ run[c].step = "asking"
    /\ slot = run[c].mine
    /\ Spend("outage")
    /\ health' = [health EXCEPT !.parked = [class |-> "needs-login", cred |-> run[c].mine]]
    /\ disk' \in {health', disk}
    /\ To(c, "closing")
    /\ UNCHANGED <<behind, credentials, probed, request>>

ProbeDue(c) ==
    /\ run[c].step = "asking"
    /\ slot = run[c].mine
    /\ age[slot] \in {Close, Expired}
    /\ AllowsProbe(health, slot)

ProbeUnwritten(c) ==
    /\ ProbeDue(c)
    /\ health' = [Reserved(health, slot) EXCEPT !.parked = NoPark]
    /\ probed' = [probed EXCEPT ![slot] = @ + 1]
    /\ To(c, "probing")
    /\ UNCHANGED <<behind, credentials, disk, request, left>>

\* The turn is written down before it is taken, the end of a park after that.
Probe(c) ==
    /\ ProbeDue(c)
    /\ health' = [Reserved(health, slot) EXCEPT !.parked = NoPark]
    /\ disk' \in {health', Reserved(health, slot)}
    /\ probed' = [probed EXCEPT ![slot] = @ + 1]
    /\ To(c, "probing")
    /\ UNCHANGED <<behind, credentials, request, left>>

NotReserved(c) ==
    /\ ProbeDue(c)
    /\ Spend("health")
    /\ To(c, "closing")
    /\ UNCHANGED <<behind, credentials, records, request>>

NoProbe(c) ==
    /\ run[c].step = "asking"
    /\ slot = run[c].mine
    /\ ~ProbeDue(c)
    /\ \/ Unrotated(c, "none")
       \/ \E class \in {"network", "rejected"} : Spend("outage") /\ EndsBadly(c, health, class)
    /\ To(c, "closing")
    /\ UNCHANGED <<behind, credentials, probed, request>>

\* The turn ends and the login is the old one: the token still serves, the
\* provider is out of reach, or it refuses.
ProbeFails(c) ==
    /\ run[c].step = "probing"
    /\ slot = run[c].mine
    /\ \/ age[slot] # Expired /\ Unrotated(c, "none")
       \/ slot \in spent /\ Unrotated(c, "rejected")
       \/ \E class, said \in {"network", "unknown", "rejected"} :
             Spend("outage") /\ EndsBadly(c, Explained(health, slot, class), said)
    /\ To(c, "closing")
    /\ UNCHANGED <<behind, credentials, probed, request>>

\* The refresher cannot read the new login, and takes the attempt for a failed one.
Overlooked(c) ==
    /\ run[c].step \in {"asking", "probing"}
    /\ slot > run[c].mine
    /\ Spend("outage")
    /\ EndsBadly(c, health, "none")
    /\ To(c, "closing")
    /\ UNCHANGED <<behind, credentials, probed, request>>

ClosedByExit(c) ==
    /\ run[c].step = "closing"
    /\ To(c, "clearing")
    /\ UNCHANGED <<behind, credentials, records, request, left>>

\* What the slot holds now: a rotation is adopted, the old login is cleared.
\* A slot that cannot be read counts as empty.
ReadBack(c) ==
    /\ run[c].step = "closing"
    /\ \/ slot > run[c].mine /\ Adopt(c)
       \/ slot <= run[c].mine /\ To(c, "clearing") /\ UNCHANGED <<account, left>>
       \/ Spend("read") /\ To(c, "clearing") /\ UNCHANGED account
    /\ UNCHANGED <<behind, slot, issued, spent, age, records, request>>

Clear(c) ==
    /\ run[c].step = "clearing"
    /\ slot' = 0
    /\ Done(c)
    /\ UNCHANGED <<behind, account, issued, spent, age, records, request, left>>

-------------------------------------------------------------------------------
\* A request for the access token.

Answer(token) == reader' = [reader EXCEPT !.step = "served"] /\ served' = token

\* The stored token, unless it is about to lapse: then a check is asked for.
\* Even a fresh token is read behind the account's lock.
Read ==
    /\ reader.step = "idle"
    /\ Free
    /\ IF age[account] \in {Fresh, Due}
       THEN Answer(account)
       ELSE reader' = [step |-> "asked", before |-> account] /\ UNCHANGED served
    /\ UNCHANGED <<behind, credentials, run, records, left>>

ReadAtOnce ==
    /\ reader.step = "waiting"
    /\ IF account # reader.before THEN Answer(account)
       ELSE \/ age[account] # Expired /\ Answer(account)
            \/ reader' = NoRequest /\ UNCHANGED served
    /\ UNCHANGED <<behind, credentials, run, records, left>>

\* After the delegated check, or after giving up on it: the new token, or the
\* old one if it has some time left.  This read waits for the lock too.
ReadAgain == Free /\ ReadAtOnce

Use ==
    /\ reader.step = "served"
    /\ reader' = NoRequest /\ served' = 0
    /\ UNCHANGED <<behind, credentials, run, records, left>>

-------------------------------------------------------------------------------
\* The world: time, the user, the end of the process.

\* An older credential never expires after a newer one.  Time stops when the
\* last credential the bound allows is issued.
Ages(c) ==
    /\ c <= issued /\ issued < MaxCreds
    /\ age[c] # Expired
    /\ \A d \in 1..(c - 1) : age[d] > age[c]
    /\ age' = [age EXCEPT ![c] = @ + 1]
    /\ UNCHANGED <<behind, account, slot, issued, spent, run, records, request, left>>

\* The user logs in again: a new family, written without the lock.
Login ==
    /\ issued < MaxCreds
    /\ issued' = issued + 1
    /\ account' = issued + 1
    /\ Spend("login")
    /\ UNCHANGED <<behind, slot, spent, age, run, records, request>>

\* The logins CLIs are running on.
Running == {run[c].mine : c \in {d \in Checks : run[d].step \in {"asking", "probing"}}}

\* The server dies and starts again.  The CLI it ran may die too, or live on.  What
\* was written of the account's health is read back, or taken for nothing.
Crash ==
    /\ run' = [c \in Checks |-> Idle]
    /\ \/ Spend("crash") /\ health' = disk
       \/ Spend("forget") /\ health' = Healthy
    /\ orphans' \in {orphans, orphans \cup (Running \ spent)}
    /\ reader' = NoRequest /\ served' = 0
    /\ UNCHANGED <<credentials, raced, disk, probed>>

-------------------------------------------------------------------------------
Works(c) ==
    \/ ReadLeft(c) \/ Seed(c)
    \/ Refreshed(c) \/ Overlooked(c) \/ LoggedOut(c) \/ Probe(c) \/ NotReserved(c) \/ NoProbe(c) \/ ProbeFails(c)
    \/ ReadBack(c) \/ Clear(c)

Next ==
    \/ \E c \in Checks : Begin(c) \/ Works(c) \/ CliRotates(c)
    \/ Declined
    \/ Read \/ ReadAgain \/ Use
    \/ \E c \in Creds : Ages(c) \/ OrphanRotates(c)
    \/ Login \/ Crash

Spec == Init /\ [][Next]_vars

\* The timer ticks, the CLI exits within its timeout and exchanges
\* the token when it can; promises settle.  Nobody owes a login or a request.
Fairness ==
    /\ WF_vars(\E c \in Checks : Begin(c))
    /\ \A c \in Checks : WF_vars(Works(c)) /\ WF_vars(CliRotates(c))

FairSpec == Spec /\ Fairness

-------------------------------------------------------------------------------
\* Every variable has its type.
Park == [class : Classes \cup {"none"}, cred : 0..MaxCreds]
Health == [window : 0..MaxCreds, probes : Nat, post : 0..MaxCreds, failed : Park,
           failures : Nat, parked : Park]

TypeOK ==
    /\ account \in Creds /\ slot \in 0..MaxCreds /\ issued \in Creds
    /\ spent \subseteq Creds
    /\ age \in [Creds -> Fresh..Expired]
    /\ run \in [Checks -> [step : Steps, mine : 0..MaxCreds]]
    /\ orphans \subseteq Creds /\ raced \in BOOLEAN
    /\ health \in Health /\ disk \in Health
    /\ probed \in [Creds -> Nat]
    /\ reader \in [step : {"idle", "asked", "waiting", "served"}, before : 0..MaxCreds]
    /\ served \in 0..MaxCreds
    /\ left \in [Limits -> Nat]

\* A slot that could not be read was taken for an empty one.
Unread == left["read"] < Budget["read"]

\* A check could not see what was in the slot it wrote or cleared.
Blind == Unread \/ raced

\* Whatever dies between the exchange and the copy back, a login that can still
\* be refreshed exists, in the account's file or in its slot, as long as the slot
\* can be read (accounts-refresh.js, "it is the only copy of the new token").  One
\* exchange is beyond that: by a CLI a dead server left behind, after a check of the
\* next one has looked at the slot and before it writes or clears it.
LoginSurvives == Blind \/ account \notin spent \/ (slot # 0 /\ slot \notin spent)

\* The CLI is never run on a refresh token that was already exchanged: the
\* second exchange would be refused and a healthy account reported dead
\* (account-credentials.js, "the loser is told invalid_grant").  The same exchange
\* is beyond it.
NeverSpentTwice ==
    \A c \in Checks :
        run[c].step \in {"asking", "probing"} => Blind \/ (slot # 0 /\ slot \notin spent)

\* One credential costs at most its ordinary turns and one after its expiry,
\* across restarts that read back what was written (oauth-refresh.js, "a restart
\* cannot spend the same credential's budget again").
Forgot == left["forget"] < Budget["forget"]
ProbesBounded == Forgot \/ \A c \in Creds : probed[c] <= MaxProbes + 1

Cut == Unread \/ \E kind \in {"crash", "forget", "write"} : left[kind] < Budget[kind]

\* A request is not given the token a running rotation has already replaced;
\* only a rotation cut off before it was adopted leaves such a token in the file
\* (account-credentials.js, "every read still joins the account's lock").
ServesCurrent ==
    [][served = 0 /\ served' # 0 => served' \notin spent \/ Cut]_vars

\* The login in the account's file is never replaced by an older one: that
\* "would overwrite a healthy login with a dead one" (accounts-refresh.js,
\* checkAccount).
LoginKept == [][account' >= account]_vars

\* A lapsed login does not stay as it is: it is renewed, or the account is
\* parked and the user told to log in (oauth-refresh.js attempt), until the bound
\* on credentials is used up.
LapseSettles ==
    age[account] = Expired
        ~> (age[account] # Expired \/ health.parked.cred = account \/ issued = MaxCreds)

===============================================================================
