----------------------------- MODULE Timekeeping -----------------------------
(***************************************************************************)
(* What happens because time passes.  Of the server: scheduled actions     *)
(* (server.ts), alerts with a cooldown (alerts.ts) and warnings before a   *)
(* key expires (expiry-scanner.ts).  Exported for embedding: maintenance   *)
(* windows (maintenance-window.ts), sessions of clients with a time to     *)
(* live (session-manager.ts) and connections billed by the interval        *)
(* (connection-billing.ts).  None calls another: a behaviour is the life   *)
(* of one of them, `mgr`, and `s` is its state.  `seen` belongs to the     *)
(* observer.                                                               *)
(***************************************************************************)
EXTENDS Integers, Sequences, FiniteSets, SequencesExt, FiniteSetsExt, Functions

CONSTANTS Ids,              \* keys
          PerKey,           \* schedules of a key (20)
          Window,           \* in which denials count (5 minutes)
          Thresholds,       \* of the expiry scanner, the largest first
          MaxActive,        \* active sessions
          Grace,            \* time not billed
          MaxOps, MaxClock  \* bounds: of calls and of time, by manager

VARIABLES mgr, s, seen, now, ops

vars == <<mgr, s, seen, now, ops>>

Call(m) == /\ mgr = m /\ ops < MaxOps[m] /\ ops' = ops + 1
           /\ UNCHANGED <<mgr, now>>
Event(m) == mgr = m /\ UNCHANGED <<mgr, now, ops>>       \* a timer

Never == -100
With(f, k, v) == [j \in DOMAIN f \cup {k} |-> IF j = k THEN v ELSE f[j]]
Without(f, K) == [k \in DOMAIN f \ K |-> f[k]]
Got(f, k, d) == IF k \in DOMAIN f THEN f[k] ELSE d
-----------------------------------------------------------------------------
(* Scheduled actions on keys.  A rotation copies the record under a new    *)
(* key and leaves the schedules with the old one.  seen.made[n]: what      *)
(* became of schedule n.                                                   *)

Actions == {"revoke", "suspend", "topup"}
FreshKey == [active |-> TRUE, suspended |-> FALSE, credits |-> 0]
SchedulesInit == /\ mgr = "schedules" /\ s = [keys |-> <<FreshKey>>, list |-> <<>>]
                 /\ seen = [made |-> <<>>, ran |-> Never, base |-> <<0>>]

(* Slip: one schedule too many.                                            *)
HasRoomLate(k) == Len(SelectSeq(s.list, LAMBDA x : x.key = k)) <= PerKey

HasRoom(k) == Len(SelectSeq(s.list, LAMBDA x : x.key = k)) < PerKey
CreateSchedule(k, action, at) ==
    /\ Call("schedules") /\ k \in DOMAIN s.keys /\ at > now /\ HasRoom(k)
    /\ s' = [s EXCEPT !.list = Append(@, [id |-> Len(seen.made) + 1, key |-> k,
                                          action |-> action, at |-> at])]
    /\ seen' = [seen EXCEPT !.made = Append(@, [key |-> k, action |-> action, at |-> at,
                                                state |-> "waits", done |-> Never])]
CancelSchedule(i) ==
    /\ Call("schedules") /\ i \in DOMAIN s.list
    /\ s' = [s EXCEPT !.list = SelectSeq(@, LAMBDA x : x.id # s.list[i].id)]
    /\ seen' = [seen EXCEPT !.made[s.list[i].id].state = "cancelled"]

(* Slip: what is due before the timer comes again is executed at once.     *)
DueSoon(x) == x.at <= now + 1

DueNow(x) == x.at <= now
(* Slip: only an active key is topped up.                                  *)
AppliedToActive(r, action) ==
    CASE action = "revoke" -> [r EXCEPT !.active = FALSE]
      [] action = "suspend" -> [r EXCEPT !.suspended = TRUE]
      [] action = "topup" -> [r EXCEPT !.credits = @ + IF r.active THEN 1 ELSE 0]

(* Whatever the state of the key.                                          *)
Applied(r, action) ==
    CASE action = "revoke" -> [r EXCEPT !.active = FALSE]
      [] action = "suspend" -> [r EXCEPT !.suspended = TRUE]
      [] action = "topup" -> [r EXCEPT !.credits = @ + 1]
ExecuteScheduledActions ==
    /\ Event("schedules") /\ seen.ran # now
    /\ LET due == SelectSeq(s.list, DueNow)
           ids == {due[i].id : i \in DOMAIN due}
       IN  /\ s' = [keys |-> FoldLeft(LAMBDA f, x : [f EXCEPT ![x.key] = Applied(@, x.action)], s.keys, due),
                    list |-> SelectSeq(s.list, LAMBDA x : ~DueNow(x))]
           /\ seen' = [seen EXCEPT !.ran = now,
                         !.made = [n \in DOMAIN @ |-> IF n \in ids THEN [@[n] EXCEPT !.state = "done", !.done = now]
                                                      ELSE @[n]]]
ResumeKey(k) == /\ Call("schedules") /\ k \in DOMAIN s.keys /\ s.keys[k].active /\ s.keys[k].suspended
                /\ s' = [s EXCEPT !.keys[k].suspended = FALSE] /\ UNCHANGED seen
RotateKey(k) == /\ Call("schedules") /\ k \in DOMAIN s.keys /\ s.keys[k].active
                /\ s' = [s EXCEPT !.keys = Append([@ EXCEPT ![k].active = FALSE], s.keys[k])]
                /\ seen' = [seen EXCEPT !.base = Append(@, s.keys[k].credits)]
-----------------------------------------------------------------------------
(* AlertEngine, asked after every tool call of a live key.  The cooldown   *)
(* belongs to the type and the key, not to the rule.  Left out: the quota  *)
(* warning, which is the spending threshold of other counters.             *)

Rule(type, threshold, cool) == [type |-> type, threshold |-> threshold, cool |-> cool]
RuleSets == {<<Rule("low", 2, 1), Rule("low", 1, 2)>>,
             <<Rule("spent", 50, 2), Rule("spike", 2, 1), Rule("expiry", 1, 1)>>}
Expires == 3                            \* when keys do
AlertsInit == \E rules \in RuleSets :
    /\ mgr = "alerts"
    /\ s = [rules |-> rules, cool |-> <<>>, pending |-> <<>>, denials |-> [k \in Ids |-> <<>>],
            left |-> [k \in Ids |-> 3], spent |-> [k \in Ids |-> 0]]
    /\ seen = [fired |-> <<>>, told |-> <<>>, due |-> {}]

Holds(r, st, k, limited) ==
    CASE r.type = "low" -> st.left[k] <= r.threshold
      [] r.type = "spent" -> 100 * st.spent[k] >= r.threshold * (st.left[k] + st.spent[k])
      [] r.type = "spike" -> limited /\ Len(st.denials[k]) >= r.threshold
      [] r.type = "expiry" -> Expires - now \in 1 .. r.threshold

(* Slip: an alert silences every other about the key.                      *)
CoolingAll(cool, r, k) == \E p \in DOMAIN cool : p[2] = k /\ now - cool[p] < r.cool

Cooling(cool, r, k) == now - Got(cool, <<r.type, k>>, Never) < r.cool
CheckAlerts(st, k, limited) ==
    FoldLeft(LAMBDA x, r :
                IF Cooling(x.cool, r, k) \/ ~Holds(r, st, k, limited) THEN x
                ELSE [cool |-> With(x.cool, <<r.type, k>>, now),
                      fired |-> Append(x.fired, [key |-> k, type |-> r.type, at |-> now, cool |-> r.cool])],
             [cool |-> st.cool, fired |-> <<>>], st.rules)
ToolCall(k, limited) ==
    /\ Call("alerts") /\ now < Expires
    /\ LET st == IF limited
                 THEN [s EXCEPT !.denials[k] = SelectSeq(Append(@, now), LAMBDA t : t > now - Window)]
                 ELSE IF s.left[k] = 0 THEN s
                 ELSE [s EXCEPT !.left[k] = @ - 1, !.spent[k] = @ + 1]
           x == CheckAlerts(st, k, limited)
       IN  /\ s' = [st EXCEPT !.cool = x.cool, !.pending = @ \o x.fired]
           /\ seen' = [seen EXCEPT !.fired = @ \o x.fired,
                         !.due = {[key |-> k, type |-> r.type, at |-> now, cool |-> r.cool] :
                                     r \in {q \in ToSet(st.rules) : Holds(q, st, k, limited)}}]
SetRules(rules) == Call("alerts") /\ s' = [s EXCEPT !.rules = rules] /\ UNCHANGED seen
(* Slip: what was told is told again.                                      *)
KeptPending == s.pending

LeftPending == <<>>
ConsumeAlerts == /\ Call("alerts") /\ s' = [s EXCEPT !.pending = LeftPending]
                 /\ seen' = [seen EXCEPT !.told = @ \o s.pending]
-----------------------------------------------------------------------------
(* ExpiryScanner.  A scan warns of the largest threshold a key has reached *)
(* and was not yet warned of; what it remembers is keyed by the key and    *)
(* the threshold, whatever the expiry was then.                            *)

ScannerInit == /\ mgr = "scanner"
               /\ s = [keys |-> [k \in Ids |-> [active |-> TRUE, expires |-> 0]], notified |-> <<>>]
               /\ seen = [warned |-> <<>>, scanned |-> Never, silent |-> {}]

Remaining(k) == s.keys[k].expires - now
Watched == {k \in Ids : s.keys[k].active /\ s.keys[k].expires # 0 /\ Remaining(k) > 0}
Reached(k) == SelectSeq(Thresholds, LAMBDA t : Remaining(k) <= t)
(* Slip: what was notified is notified again.                              *)
UntoldAgain(k) == Reached(k)

Untold(k) == SelectSeq(Reached(k), LAMBDA t : <<k, t>> \notin DOMAIN s.notified)
(* Slip: the smallest threshold decides how long is remembered.            *)
CutoffLow == now - 2 * Thresholds[Len(Thresholds)]

Cutoff == now - 2 * Thresholds[1]
Scan ==
    /\ Event("scanner") /\ seen.scanned # now
    /\ LET warn == SetToSeq({k \in Watched : Untold(k) # <<>>})
           told == {<<warn[i], Untold(warn[i])[1]>> : i \in DOMAIN warn}
           marked == [p \in DOMAIN s.notified \cup told |-> IF p \in told THEN now ELSE s.notified[p]]
           known(k) == {seen.warned[i].threshold : i \in {j \in DOMAIN seen.warned : seen.warned[j].key = k}}
       IN  /\ s' = [s EXCEPT !.notified = Without(marked, {p \in DOMAIN marked : marked[p] < Cutoff})]
           /\ seen' = [scanned |-> now,
                 warned |-> seen.warned \o [i \in DOMAIN warn |->
                    [key |-> warn[i], threshold |-> Untold(warn[i])[1], at |-> now,
                     expires |-> s.keys[warn[i]].expires]],
                 silent |-> {k \in Watched \ ToSet(warn) : ToSet(Reached(k)) \ known(k) # {}}]
SetExpiry(k, at) == Call("scanner") /\ s' = [s EXCEPT !.keys[k].expires = at] /\ UNCHANGED seen
RevokeWatched(k) == Call("scanner") /\ s' = [s EXCEPT !.keys[k].active = FALSE] /\ UNCHANGED seen
-----------------------------------------------------------------------------
(* MaintenanceWindowManager.  A window changes its status when somebody    *)
(* looks.  seen[n]: how window n was closed by hand.                       *)

WindowsInit == \E auto \in BOOLEAN : mgr = "windows" /\ s = [auto |-> auto, by |-> <<>>] /\ seen = <<>>

(* Slip: the end belongs to the window.                                    *)
CoversEnd(w) == now >= w.from /\ now <= w.to

Covers(w) == now >= w.from /\ now < w.to
Open(w) == w.status \in {"scheduled", "active"}
(* Slip: a window that nobody saw open stays scheduled.                    *)
EndedIfActive(w) == w.status = "active" /\ now >= w.to

Ended(w) == Open(w) /\ now >= w.to
UpdateWindowStatus(w) ==
    IF w.status = "scheduled" /\ Covers(w) THEN [w EXCEPT !.status = "active"]
    ELSE IF s.auto /\ Ended(w) THEN [w EXCEPT !.status = "completed", !.done = w.to] ELSE w
ScheduleWindow(from, length, block) ==
    /\ Call("windows")
    /\ LET w == [from |-> from, to |-> from + length, block |-> block, status |-> "scheduled", done |-> Never]
       IN  s' = [s EXCEPT !.by = Append(@, IF Covers(w) THEN [w EXCEPT !.status = "active"] ELSE w)]
    /\ seen' = Append(seen, "open")
CloseWindow(n, status) ==
    /\ Call("windows") /\ n \in DOMAIN s.by /\ Open(s.by[n])
    /\ s' = [s EXCEPT !.by[n].status = status, !.by[n].done = now]
    /\ seen' = [seen EXCEPT ![n] = status]
GetStatus == /\ Event("windows")
             /\ s' = [s EXCEPT !.by = [n \in DOMAIN @ |-> UpdateWindowStatus(@[n])]] /\ UNCHANGED seen
GetWindow(n) == /\ Event("windows") /\ n \in DOMAIN s.by
                /\ s' = [s EXCEPT !.by[n] = UpdateWindowStatus(@)] /\ UNCHANGED seen
IsBlocked == \E n \in DOMAIN s.by :
    LET w == UpdateWindowStatus(s.by[n]) IN w.status = "active" /\ w.block
-----------------------------------------------------------------------------
(* SessionManager.  A session expires when somebody looks at it.  seen[n]: *)
(* when session n was removed, and by which age.                           *)

SessionsInit == /\ mgr = "sessions" /\ s = [by |-> <<>>, index |-> <<>>, next |-> 1] /\ seen = <<>>

(* Slip: a session is looked at without its expiry.                        *)
LookedBlindly(x) == x

Looked(x) == IF x.status = "active" /\ x.expires # Never /\ now > x.expires
             THEN [x EXCEPT !.status = "expired", !.end = x.expires] ELSE x
CreateSession(k, ttl) ==
    /\ Call("sessions") /\ Cardinality({n \in DOMAIN s.by : s.by[n].status = "active"}) < MaxActive
    /\ s' = [by |-> With(s.by, s.next, [key |-> k, status |-> "active", end |-> Never, calls |-> <<>>,
                                        expires |-> IF ttl = 0 THEN Never ELSE now + ttl]),
             index |-> With(s.index, k, Got(s.index, k, {}) \cup {s.next}), next |-> s.next + 1]
    /\ UNCHANGED seen
EndSession(n) == /\ Call("sessions") /\ n \in DOMAIN s.by /\ s.by[n].status = "active"
                 /\ s' = [s EXCEPT !.by[n].status = "ended", !.by[n].end = now] /\ UNCHANGED seen
LookAtSession(n) == /\ Event("sessions") /\ n \in DOMAIN s.by
                    /\ s' = [s EXCEPT !.by[n] = Looked(@)] /\ UNCHANGED seen
ListSessions == /\ Event("sessions")
                /\ s' = [s EXCEPT !.by = [n \in DOMAIN @ |-> Looked(@[n])]] /\ UNCHANGED seen
RecordCall(n) ==
    /\ Call("sessions") /\ n \in DOMAIN s.by
    /\ LET x == Looked(s.by[n]) IN
       s' = [s EXCEPT !.by[n] = IF x.status = "active" THEN [x EXCEPT !.calls = Append(@, now)] ELSE x]
    /\ UNCHANGED seen
(* Slip: the index keeps what was removed.                                 *)
UnindexedNot(K) == s.index

Unindexed(K) == LET left == [k \in DOMAIN s.index |-> s.index[k] \ K] IN
                Without(left, {k \in DOMAIN left : left[k] = {}})
Cleanup(age) ==
    /\ Call("sessions")
    /\ LET K == {n \in DOMAIN s.by : s.by[n].status # "active" /\ s.by[n].end < now - age} IN
       /\ s' = [s EXCEPT !.by = Without(@, K), !.index = Unindexed(K)]
       /\ seen' = [n \in DOMAIN seen \cup K |-> IF n \in K THEN [was |-> s.by[n], cut |-> now - age] ELSE seen[n]]
-----------------------------------------------------------------------------
(* ConnectionBillingManager, with a tick for an interval.  The program     *)
(* deducts what a bill says: at once after a single bill, after the loop   *)
(* when all are billed, so that each connection of a key is measured       *)
(* against the same balance.  Time in a pause is billed after it.          *)

Price == 1
ConnectionsInit == \E c \in {<<0, 0>>, <<2, 3>>} :
    /\ mgr = "connections"
    /\ s = [by |-> <<>>, next |-> 1, on |-> TRUE, idle |-> c[1], longest |-> c[2],
            total |-> 0, seconds |-> 0, balance |-> [k \in Ids |-> 3]]
    /\ seen = [ended |-> <<>>, shared |-> {}]

StartSession(k) ==
    /\ Call("connections")
    /\ s' = [s EXCEPT !.by = With(@, s.next, [key |-> k, start |-> now, active |-> now, paused |-> FALSE,
                                              credits |-> 0, intervals |-> 0, billed |-> Never]),
                      !.next = @ + 1]
    /\ UNCHANGED seen
EndConnection(n) ==
    /\ Call("connections") /\ n \in DOMAIN s.by
    /\ s' = [s EXCEPT !.by = Without(@, {n}), !.seconds = @ + now - s.by[n].start]
    /\ seen' = [seen EXCEPT !.ended = Append(@, [was |-> s.by[n], at |-> now])]
RecordActivity(n) == /\ Call("connections") /\ n \in DOMAIN s.by
                     /\ s' = [s EXCEPT !.by[n].active = now] /\ UNCHANGED seen
PauseSession(n, paused) == /\ Call("connections") /\ n \in DOMAIN s.by
                           /\ s' = [s EXCEPT !.by[n].paused = paused] /\ UNCHANGED seen
SetEnabled(on) == Call("connections") /\ s' = [s EXCEPT !.on = on] /\ UNCHANGED seen

(* Slip: the time of grace is billed once it is over.                      *)
ExpectedAll(c) == now - c.start

Expected(c) == now - c.start - Grace
MustEnd(c) == (s.idle > 0 /\ now - c.active >= s.idle) \/ (s.longest > 0 /\ now - c.start >= s.longest)
(* Slip: a balance short of one interval will do.                          *)
ChargeOverdrawn(c, available) ==
    IF MustEnd(c) \/ c.paused \/ ~s.on \/ now - c.start < Grace THEN 0
    ELSE LET n == Expected(c) - c.intervals IN IF n <= 0 \/ available + 1 < n * Price THEN 0 ELSE n

(* The intervals that Bill charges.                                        *)
Charge(c, available) ==
    IF MustEnd(c) \/ c.paused \/ ~s.on \/ now - c.start < Grace THEN 0
    ELSE LET n == Expected(c) - c.intervals IN IF n <= 0 \/ available < n * Price THEN 0 ELSE n
(* Slip: one interval is taken as billed, whatever was charged.            *)
BilledOne(c, n) == [c EXCEPT !.credits = @ + n * Price, !.intervals = @ + 1, !.billed = now]

Billed(c, n) == [c EXCEPT !.credits = @ + n * Price, !.intervals = Expected(c), !.billed = now]
BillAll(K) ==
    /\ Event("connections") /\ K # {} /\ K \subseteq DOMAIN s.by
    /\ LET n == [c \in K |-> Charge(s.by[c], s.balance[s.by[c].key])]
           of(k) == {c \in K : s.by[c].key = k /\ n[c] > 0}
           sum(J) == FoldSet(LAMBDA c, x : x + n[c] * Price, 0, J)
       IN  /\ \E c \in K : n[c] > 0
           /\ s' = [s EXCEPT !.by = [c \in DOMAIN @ |-> IF c \in K /\ n[c] > 0 THEN Billed(@[c], n[c]) ELSE @[c]],
                             !.total = @ + sum(K),
                             !.balance = [k \in Ids |-> @[k] - sum(of(k))]]
           /\ seen' = [seen EXCEPT !.shared = @ \cup {k \in Ids : Cardinality(of(k)) > 1}]
-----------------------------------------------------------------------------
Tick == /\ now < MaxClock[mgr] /\ now' = now + 1 /\ UNCHANGED <<mgr, s, seen, ops>>

Init == /\ now = 0 /\ ops = 0
        /\ \/ SchedulesInit \/ AlertsInit \/ ScannerInit
           \/ WindowsInit \/ SessionsInit \/ ConnectionsInit

SchedulesNext ==
    /\ mgr = "schedules"
    /\ \/ ExecuteScheduledActions
       \/ \E k \in DOMAIN s.keys : \/ ResumeKey(k) \/ RotateKey(k)
                                   \/ \E a \in Actions, at \in 1 .. MaxClock[mgr] : CreateSchedule(k, a, at)
       \/ \E i \in DOMAIN s.list : CancelSchedule(i)
AlertsNext == \/ ConsumeAlerts
              \/ \E rules \in RuleSets : SetRules(rules)
              \/ \E k \in Ids, limited \in BOOLEAN : ToolCall(k, limited)
ScannerNext == \/ Scan
               \/ mgr = "scanner" /\ \E k \in Ids : \/ RevokeWatched(k)
                                                   \/ \E at \in {0} \cup (now + 1 .. MaxClock[mgr]) : SetExpiry(k, at)
WindowsNext == \/ GetStatus
               \/ \E from \in 0 .. 2, length \in 1 .. 2, block \in BOOLEAN : ScheduleWindow(from, length, block)
               \/ \E n \in 1 .. MaxOps["windows"] :
                     GetWindow(n) \/ CloseWindow(n, "cancelled") \/ CloseWindow(n, "completed")
SessionsNext == \/ ListSessions
                \/ \E k \in Ids, ttl \in {0, 1} : CreateSession(k, ttl)
                \/ \E n \in 1 .. MaxOps["sessions"] : LookAtSession(n) \/ EndSession(n) \/ RecordCall(n)
                \/ \E age \in {0, 1} : Cleanup(age)
ConnectionsNext ==
    /\ mgr = "connections"
    /\ \/ \E k \in Ids : StartSession(k)
       \/ \E on \in BOOLEAN : SetEnabled(on)
       \/ \E n \in DOMAIN s.by : \/ EndConnection(n) \/ RecordActivity(n) \/ BillAll({n})
                                 \/ \E paused \in BOOLEAN : PauseSession(n, paused)
       \/ BillAll(DOMAIN s.by)
Next == \/ SchedulesNext \/ AlertsNext \/ ScannerNext
        \/ WindowsNext \/ SessionsNext \/ ConnectionsNext \/ Tick
-----------------------------------------------------------------------------
(* An action waits, was cancelled, or took place once: not before its time *)
(* and not later than the next run of the timer.  A key holds what it had  *)
(* and what its schedules gave it, and is dead after a scheduled           *)
(* revocation; no key has more than its share of schedules.                *)
SchedulesHonoured == mgr = "schedules" =>
    LET waits == {n \in DOMAIN seen.made : seen.made[n].state = "waits"}
        done(k, a) == {n \in DOMAIN seen.made : /\ seen.made[n].key = k /\ seen.made[n].action = a
                                                /\ seen.made[n].state = "done"}
    IN  /\ {s.list[i].id : i \in DOMAIN s.list} = waits /\ Len(s.list) = Cardinality(waits)
        /\ \A n \in waits : seen.made[n].at > seen.ran
        /\ \A n \in DOMAIN seen.made : seen.made[n].state = "done" => seen.made[n].done >= seen.made[n].at
        /\ \A k \in DOMAIN s.keys :
             /\ s.keys[k].credits = seen.base[k] + Cardinality(done(k, "topup"))
             /\ done(k, "revoke") # {} => ~s.keys[k].active
             /\ Cardinality({n \in waits : seen.made[n].key = k}) <= PerKey

(* Every alert is told once.  Two of one type about a key are a cooldown   *)
(* apart, and nothing that held at a call stays unsaid for longer.         *)
AlertsHonoured == mgr = "alerts" =>
    LET same(a, b) == a.key = b.key /\ a.type = b.type
    IN  /\ seen.fired = seen.told \o s.pending
        /\ \A i, j \in DOMAIN seen.fired : i < j /\ same(seen.fired[i], seen.fired[j]) =>
             seen.fired[j].at - seen.fired[i].at >= seen.fired[j].cool
        /\ \A d \in seen.due : \E i \in DOMAIN seen.fired :
             same(seen.fired[i], d) /\ d.at - seen.fired[i].at < d.cool

(* A key is warned of a threshold once for an expiry, while it lives and   *)
(* after every larger threshold; a scan that finds a key within a          *)
(* threshold it was never warned of warns it of one.                       *)
ScannerHonoured == mgr = "scanner" =>
    LET w == seen.warned IN
    /\ seen.silent = {}
    /\ \A i \in DOMAIN w : /\ w[i].expires - w[i].at \in 1 .. w[i].threshold
                           /\ \A t \in ToSet(Thresholds) : t > w[i].threshold =>
                                \E j \in 1 .. i - 1 : w[j].key = w[i].key /\ w[j].threshold = t
    /\ \A i, j \in DOMAIN w : i < j /\ w[i].key = w[j].key =>
         /\ w[i].at < w[j].at
         /\ w[i].threshold = w[j].threshold => w[i].expires # w[j].expires

(* Traffic is blocked exactly while a blocking window that nobody closed   *)
(* covers the moment, whoever looked before; without completion by itself, *)
(* also until somebody closes a window that was seen open.                 *)
WindowsHonoured == mgr = "windows" =>
    LET covering == {n \in DOMAIN s.by : seen[n] = "open" /\ s.by[n].from <= now /\ now < s.by[n].to}
    IN  /\ (\E n \in covering : s.by[n].block) => IsBlocked
        /\ IsBlocked => \E n \in DOMAIN s.by : /\ s.by[n].block /\ seen[n] = "open" /\ s.by[n].from <= now
                                               /\ n \in covering \/ (~s.auto /\ s.by[n].status = "active")
        /\ \A n \in DOMAIN s.by :
             IF seen[n] # "open" THEN s.by[n].status = seen[n]
             ELSE LET w == UpdateWindowStatus(s.by[n]) IN
                  /\ w.status = "completed" => s.auto /\ w.done = w.to
                  /\ s.auto => (w.status = "completed" <=> now >= w.to)

(* No call is recorded in a session after its end or its expiry, an        *)
(* expired session ended when it expired, the index of keys is exact, and  *)
(* only what ended before the cut is removed.                              *)
SessionsTimed == mgr = "sessions" =>
    /\ \A n \in DOMAIN s.by : LET x == s.by[n] IN
         /\ x.expires # Never => \A i \in DOMAIN x.calls : x.calls[i] <= x.expires
         /\ x.status # "active" => \A i \in DOMAIN x.calls : x.calls[i] <= x.end
         /\ x.status = "expired" => x.end = x.expires
    /\ \A k \in Ids : Got(s.index, k, {}) = {n \in DOMAIN s.by : s.by[n].key = k}
    /\ \A k \in DOMAIN s.index : s.index[k] # {}
    /\ \A n \in DOMAIN seen : seen[n].was.status # "active" /\ seen[n].was.end < seen[n].cut

(* A connection has paid for each whole interval up to its last bill, less *)
(* the grace, and for none twice; the total is what all have paid, and no  *)
(* balance is overdrawn but by several connections billed together.        *)
ConnectionsHonoured == mgr = "connections" =>
    LET ended == {seen.ended[i].was : i \in DOMAIN seen.ended}
        paid(k) == FoldSet(LAMBDA n, x : x + s.by[n].credits, 0, {n \in DOMAIN s.by : s.by[n].key = k})
                   + FoldLeft(LAMBDA x, e : x + IF e.was.key = k THEN e.was.credits ELSE 0, 0, seen.ended)
    IN  /\ \A c \in ended \cup {s.by[n] : n \in DOMAIN s.by} :
             /\ c.credits = Price * c.intervals
             /\ c.intervals = IF c.billed = Never THEN 0 ELSE c.billed - c.start - Grace
        /\ s.total = FoldSet(LAMBDA k, x : x + paid(k), 0, Ids)
        /\ \A k \in Ids : /\ s.balance[k] = 3 - paid(k)
                          /\ k \notin seen.shared => s.balance[k] >= 0
        /\ s.seconds = FoldLeft(LAMBDA x, e : x + e.at - e.was.start, 0, seen.ended)
=============================================================================
