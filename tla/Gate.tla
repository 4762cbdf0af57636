-------------------------------- MODULE Gate --------------------------------
(***************************************************************************)
(* The gate (gate.ts) over the key store, the quota tracker, the rate      *)
(* limiter and the teams: a call is evaluated and charged in one           *)
(* synchronous step, forwarded to the wrapped server, and settled in a     *)
(* later step that may refund it.  Administrators, the clock and a crash   *)
(* of the process act in between.                                          *)
(***************************************************************************)
EXTENDS Teams

(* The sliding window of rate-limiter.ts: the calls recorded under one key *)
(* (an API key, or a key and a tool).  A window is a set of entries        *)
(* <<time, serial>>; the serial tells apart the calls of one instant.      *)
CONSTANT WindowLength      \* windowMs

ASSUME WindowLengthAssumption == WindowLength \in Nat \ {0}

(* The entries check() and getCurrentCount() keep: newer than the cutoff. *)
InWindow(w, t) == {e \in w : e[1] > t - WindowLength}

(* Slip: comparing before adding the new calls. *)
RateAllowsOneMore(w, t, n, limit) ==
    limit = 0 \/ Cardinality(InWindow(w, t)) <= limit

(* check and checkCustom: a limit of zero is no limit. *)
RateAllows(w, t, n, limit) ==
    limit = 0 \/ Cardinality(InWindow(w, t)) + n <= limit

(* record and recordCustom; with no limit nothing is recorded.  Dropping    *)
(* the expired entries, which check and the cleanup timer do, is InWindow's *)
(* work here: no reader sees an expired entry.                              *)
Recorded(w, t, serials, limit) ==
    IF limit = 0 THEN w ELSE w \cup {<<t, s>> : s \in serials}

-----------------------------------------------------------------------------
CONSTANTS
    Tools,             \* tool names
    Price,             \* Price[t]: credits a call of tool t costs
    ToolRate,          \* ToolRate[t]: calls of t per window per key, 0: no limit
    RateLimit,         \* calls per window per key, 0: no limit
    GlobalQuota,       \* the quota of keys that have none
    RefundOnFailure,   \* refund a call the wrapped server answers with an error
    ShadowModes,       \* values a configuration reload may give shadowMode
    Grants,            \* amounts of initial credits, top-ups and transfers
    Limits,            \* spending limits an administrator sets
    KeyQuotas,         \* quotas an administrator sets on a key
    Topups,            \* auto-topup settings an administrator sets
    Expiries,          \* expiry times an administrator sets
    Origins,           \* callers: is the IP allowed, which tools are open to it
    AdminOps,          \* bound: which optional operations administrators use
    Calls,             \* bound: the calls of one behaviour, numbered 1 .. Calls
    MaxNow, MaxDay,    \* bounds: clock readings and UTC days
    MaxLife,           \* bound: restarts
    MaxBalance         \* bound: balance up to which administrators add credits

CallIds == 1 .. Calls

ASSUME GateAssumption ==
    /\ Price \in [Tools -> Nat]
    /\ ToolRate \in [Tools -> Nat]
    /\ RateLimit \in Nat
    /\ GlobalQuota \in Quota
    /\ RefundOnFailure \in BOOLEAN
    /\ ShadowModes \subseteq BOOLEAN
    /\ Grants \subseteq Nat \ {0}
    /\ Limits \subseteq Nat
    /\ KeyQuotas \subseteq Quota
    /\ Topups \subseteq Topup
    /\ Expiries \subseteq Nat
    /\ Origins \subseteq [ipOk : BOOLEAN, open : SUBSET Tools]
    /\ Calls \in Nat /\ MaxBalance \in Nat
    /\ MaxNow \in Nat /\ MaxDay \in Nat /\ MaxLife \in Nat

VARIABLES
    known,       \* keys created so far
    rec,         \* rec[k]: the record of key k
    win,         \* win[k]: the rate window of key k
    toolWin,     \* toolWin[k][t]: the rate window of key k for tool t
    calls,       \* calls[i]: what became of call i
    shadow,      \* config.shadowMode: is it on, and was it ever (history)
    now,         \* the clock the windows and expiries read
    day,         \* the UTC day
    life,        \* number of restarts of the process
    ledger       \* history: what moved on each key, see LedgerEntry

gateVars == <<known, rec, win, toolWin, calls, shadow, now, day, life, ledger>>
vars == <<team, teamOf, known, rec, win, toolWin, calls, shadow, now, day, life, ledger>>

(* A call: its decision as the caller saw it, the key and tool, when it    *)
(* was admitted, the team then charged, and what a failure gave back.  The *)
(* calls of one batch share its first id as their group.                   *)
Call == [st : {"forwarded", "succeeded", "failed", "lost"},
         key : Keys, tool : Tools, charged : Nat, at : Nat, day : Nat,
         life : Nat, group : CallIds, team : TeamIds \cup {NoTeam},
         refunded : Nat]

NoCall == [st |-> "new"]

(* History of a key: credits granted, net of transfers; credits charged;   *)
(* credits refunded; auto-topups of the current UTC day.                   *)
LedgerEntry == [granted : Int, charged : Nat, refunded : Nat, topups : Nat]

BlankLedger == [granted |-> 0, charged |-> 0, refunded |-> 0, topups |-> 0]

UnusedKey == [NewKey(0, 0) EXCEPT !.active = FALSE]

Init ==
    /\ TeamsInit
    /\ known = {}
    /\ rec = [k \in Keys |-> UnusedKey]
    /\ win = [k \in Keys |-> {}]
    /\ toolWin = [k \in Keys |-> [t \in Tools |-> {}]]
    /\ calls = [i \in CallIds |-> NoCall]
    /\ shadow = [on |-> FALSE, ever |-> FALSE]
    /\ now = 0 /\ day = 0 /\ life = 0
    /\ ledger = [k \in Keys |-> BlankLedger]

-----------------------------------------------------------------------------
(* Evaluation. *)

(* The checks in order, up to the one on quotas, for need[t] calls of tool *)
(* t at c credits.  The caller's origin o is the outcome of the IP,        *)
(* country, ACL and token checks, which read no state of this module.  A   *)
(* whole batch counts as one call of the key's window.                     *)
Live(k) == k \in known /\ Usable(rec[k], now) /\ ~rec[k].suspended

ToolAllows(k, need, t) == RateAllows(toolWin[k][t], now, need[t], ToolRate[t])

(* Slip: the balance is left to deductCredits to check. *)
ReachesQuotaUnfunded(k, need, c, o) ==
    /\ Live(k)
    /\ o.ipOk
    /\ \A t \in Tools : need[t] > 0 => t \in o.open /\ ToolAllows(k, need, t)
    /\ RateAllows(win[k], now, 1, RateLimit)
    /\ WithinLimit(rec[k].totalSpent, c, rec[k].spendingLimit)

ReachesQuota(k, need, c, o) ==
    /\ Live(k)
    /\ o.ipOk
    /\ \A t \in Tools : need[t] > 0 => t \in o.open /\ ToolAllows(k, need, t)
    /\ RateAllows(win[k], now, 1, RateLimit)
    /\ rec[k].credits >= c
    /\ WithinLimit(rec[k].totalSpent, c, rec[k].spendingLimit)

Passes(k, need, n, c, o) ==
    /\ ReachesQuota(k, need, c, o)
    /\ QuotaAllows(EffectiveQuota(rec[k], GlobalQuota),
                   ResetIfNeeded(rec[k].used, day), n, c)
    /\ TeamAllows(k, c, day)

(* Step 9 of evaluate and step 10 of evaluateBatch: deduct, record in the  *)
(* windows, the quota and the team, save, top up.                          *)
Counted(k, n, c) ==
    [Deduct(rec[k], now, c) EXCEPT !.used = QuotaRecord(@, day, n, c)]

(* History: credits deductCredits takes, and an auto-topup adds. *)
Taken(k, c) == IF Usable(rec[k], now) /\ rec[k].credits >= c THEN c ELSE 0

Added(r) == IF TopupFires(r, now, day) THEN r.autoTopup.amount ELSE 0

Entered(e, taken, r) ==
    [granted |-> e.granted + Added(r), charged |-> e.charged + taken,
     refunded |-> e.refunded,
     topups |-> IF TopupFires(r, now, day) THEN e.topups + 1 ELSE e.topups]

Charge(k, i, need, n, c) ==
    /\ rec' = [rec EXCEPT ![k] = AutoTopup(Counted(k, n, c), now, day)]
    /\ ledger' = [ledger EXCEPT ![k] = Entered(@, Taken(k, c), Counted(k, n, c))]
    /\ win' = [win EXCEPT ![k] = Recorded(@, now, {i}, RateLimit)]
    /\ toolWin' = [toolWin EXCEPT ![k] = [t \in Tools |->
         Recorded(@[t], now, i .. (i + need[t] - 1), ToolRate[t])]]
    /\ TeamRecordUsage(k, c, day)

(* The wrapped server is sent a call the caller was told costs c credits. *)
Forward(k, t, i, c) ==
    [st |-> "forwarded", key |-> k, tool |-> t, charged |-> c, at |-> now,
     day |-> day, life |-> life, group |-> i, team |-> teamOf[k],
     refunded |-> 0]

(* The next call number, and a batch's next two. *)
Fresh(i) == calls[i] = NoCall /\ (i > 1 => calls[i - 1] # NoCall)

NeedOf(t, u) == [x \in Tools |-> IF x = t /\ x = u THEN 2
                                 ELSE IF x \in {t, u} THEN 1 ELSE 0]

One(t) == [x \in Tools |-> IF x = t THEN 1 ELSE 0]

Evaluate(k, t, o) ==
    /\ Passes(k, One(t), 1, Price[t], o)
    /\ \E i \in CallIds :
         /\ Fresh(i)
         /\ Charge(k, i, One(t), 1, Price[t])
         /\ calls' = [calls EXCEPT ![i] = Forward(k, t, i, Price[t])]
    /\ UNCHANGED <<known, shadow, now, day, life>>

(* A refused call leaves at most reset counters; in shadow mode it is      *)
(* forwarded all the same, and charged nothing.                            *)
Touched(k, need, c, o) ==
    IF ReachesQuota(k, need, c, o)
    THEN [rec EXCEPT ![k].used = ResetIfNeeded(@, day)] ELSE rec

EvaluateRefused(k, t, o) ==
    /\ ~Passes(k, One(t), 1, Price[t], o)
    /\ rec' = Touched(k, One(t), Price[t], o)
    /\ IF shadow.on
       THEN \E i \in CallIds : /\ Fresh(i)
                               /\ calls' = [calls EXCEPT ![i] = Forward(k, t, i, 0)]
       ELSE UNCHANGED calls
    /\ UNCHANGED <<teamVars, known, win, toolWin, shadow, now, day, life, ledger>>

(* A batch; its size is bounded to two calls here. *)
Pair(k, t, u, i, c, d) ==
    [calls EXCEPT ![i] = Forward(k, t, i, c), ![i + 1] = Forward(k, u, i, d)]

EvaluateBatch(k, t, u, o) ==
    LET c == Price[t] + Price[u]
    IN  /\ Passes(k, NeedOf(t, u), 2, c, o)
        /\ \E i \in CallIds :
             /\ Fresh(i) /\ i < Calls
             /\ Charge(k, i, NeedOf(t, u), 2, c)
             /\ calls' = Pair(k, t, u, i, Price[t], Price[u])
        /\ UNCHANGED <<known, shadow, now, day, life>>

(* A refused batch.  In shadow mode a key that is not live, or an IP not   *)
(* allowed, is charged nothing; any other refusal is ignored: the credits  *)
(* of the calls whose tool is open are deducted if they suffice, all is    *)
(* recorded, and the caller is told the price of each call.                *)
BatchTotal(k, t, u, o) ==
    LET price(x, n) == IF /\ x \in o.open
                          /\ RateAllows(toolWin[k][x], now, n, ToolRate[x])
                       THEN Price[x] ELSE 0
    IN  price(t, 1) + price(u, IF u = t THEN 2 ELSE 1)

EvaluateBatchRefused(k, t, u, o) ==
    /\ ~Passes(k, NeedOf(t, u), 2, Price[t] + Price[u], o)
    /\ \/ /\ ~shadow.on
          /\ rec' = Touched(k, NeedOf(t, u), Price[t] + Price[u], o)
          /\ UNCHANGED <<teamVars, win, toolWin, ledger, calls>>
       \/ /\ shadow.on /\ ~(Live(k) /\ o.ipOk)
          /\ \E i \in CallIds :
               Fresh(i) /\ i < Calls /\ calls' = Pair(k, t, u, i, 0, 0)
          /\ UNCHANGED <<teamVars, rec, win, toolWin, ledger>>
       \/ /\ shadow.on /\ Live(k) /\ o.ipOk
          /\ \E i \in CallIds :
               /\ Fresh(i) /\ i < Calls
               /\ Charge(k, i, NeedOf(t, u), 2, BatchTotal(k, t, u, o))
               /\ calls' = Pair(k, t, u, i, Price[t], Price[u])
    /\ UNCHANGED <<known, shadow, now, day, life>>

-----------------------------------------------------------------------------
(* Settlement: the calls of a group are answered, or the forward rejects   *)
(* (a timeout, the wrapped server's exit) and nothing is refunded.         *)

Group(i) == {j \in CallIds : calls[j] # NoCall /\ calls[j].group = i}

Pending(i) == i \in CallIds /\ Group(i) # {} /\ calls[i].st = "forwarded"

Refundable(i, bad) == i \in bad /\ RefundOnFailure /\ calls[i].charged > 0

RefundCall(r, i, bad) ==
    IF Refundable(i, bad) THEN Refund(r, now, calls[i].charged) ELSE r

(* History: what a refund to record r gives back for call i. *)
Given(r, i, bad) ==
    IF Refundable(i, bad) /\ Usable(r, now) THEN calls[i].charged ELSE 0

Failed(r, i, bad) == [calls[i] EXCEPT !.st = "failed", !.refunded = Given(r, i, bad)]

Settle(i, bad) ==
    LET k == calls[i].key
        first == RefundCall(rec[k], i, bad)
        pair == i + 1 \in Group(i)
    IN  /\ Pending(i)
        /\ bad \subseteq Group(i)
        /\ calls' = [j \in CallIds |->
             IF j \in bad THEN Failed(rec[k], j, bad)
             ELSE IF j \in Group(i) THEN [calls[j] EXCEPT !.st = "succeeded"]
             ELSE calls[j]]
        /\ rec' = [rec EXCEPT ![k] =
             IF pair THEN RefundCall(first, i + 1, bad) ELSE first]
        /\ ledger' = [ledger EXCEPT ![k].refunded =
             @ + Given(rec[k], i, bad) + IF pair THEN Given(rec[k], i + 1, bad) ELSE 0]
        /\ UNCHANGED <<teamVars, known, win, toolWin, shadow, now, day, life>>

Lose(i) ==
    /\ Pending(i)
    /\ calls' = [j \in CallIds |->
         IF j \in Group(i) THEN [calls[j] EXCEPT !.st = "lost"] ELSE calls[j]]
    /\ UNCHANGED <<teamVars, known, rec, win, toolWin, shadow, now, day, life, ledger>>

-----------------------------------------------------------------------------
(* The administrator. *)

Rest == <<teamVars, win, toolWin, calls, shadow, now, day, life>>

Granted(k, c) == [ledger EXCEPT ![k].granted = @ + c]

CreateKey(k, c) ==
    /\ k \notin known
    /\ known' = known \cup {k}
    /\ rec' = [rec EXCEPT ![k] = NewKey(c, day)]
    /\ ledger' = Granted(k, c)
    /\ UNCHANGED Rest

CloneKey(src, k, c) ==
    /\ src \in known /\ rec[src].active /\ k \notin known
    /\ known' = known \cup {k}
    /\ rec' = [rec EXCEPT ![k] = Clone(rec[src], c, day)]
    /\ ledger' = Granted(k, c)
    /\ UNCHANGED Rest

TopUp(k, c) ==
    /\ k \in known /\ Usable(rec[k], now)
    /\ rec[k].credits + c <= MaxBalance
    /\ rec' = [rec EXCEPT ![k] = AddCredits(@, now, c)]
    /\ ledger' = Granted(k, c)
    /\ UNCHANGED <<Rest, known>>

Transfer(a, b, c) ==
    /\ {a, b} \subseteq known /\ a # b
    /\ Usable(rec[a], now) /\ Usable(rec[b], now)
    /\ rec[a].credits >= c /\ rec[b].credits + c <= MaxBalance
    /\ rec' = [rec EXCEPT ![a].credits = @ - c, ![b].credits = @ + c]
    /\ ledger' = [ledger EXCEPT ![a].granted = @ - c, ![b].granted = @ + c]
    /\ UNCHANGED <<Rest, known>>

(* rotateKey: the record moves to a fresh key string; the index of teams   *)
(* still names the old one.                                                *)
Rotate(old, new) ==
    /\ old \in known /\ rec[old].active /\ new \notin known
    /\ known' = known \cup {new}
    /\ rec' = [rec EXCEPT ![new] = rec[old], ![old].active = FALSE]
    /\ ledger' = [ledger EXCEPT ![new] = ledger[old]]
    /\ UNCHANGED Rest

(* An administrator rewrites fields of one record. *)
Edit(k, r) ==
    /\ k \in known
    /\ rec' = [rec EXCEPT ![k] = r]
    /\ UNCHANGED <<Rest, known, ledger>>

Revoke(k) == Edit(k, [rec[k] EXCEPT !.active = FALSE])

Suspend(k) == rec[k].active /\ ~rec[k].suspended
              /\ Edit(k, [rec[k] EXCEPT !.suspended = TRUE])

Resume(k) == rec[k].active /\ rec[k].suspended
             /\ Edit(k, [rec[k] EXCEPT !.suspended = FALSE])

SetExpiry(k, e) == Edit(k, [rec[k] EXCEPT !.expiresAt = e])

SetQuota(k, q) == Usable(rec[k], now) /\ Edit(k, [rec[k] EXCEPT !.quota = q])

SetSpendingLimit(k, l) == Usable(rec[k], now)
                          /\ Edit(k, [rec[k] EXCEPT !.spendingLimit = l])

SetAutoTopup(k, p) == Usable(rec[k], now)
                      /\ Edit(k, [rec[k] EXCEPT !.autoTopup = p])

UpdateConfig(s) ==
    /\ shadow' = [on |-> s, ever |-> s \/ shadow.ever]
    /\ UNCHANGED <<teamVars, known, rec, win, toolWin, calls, now, day, life, ledger>>

(* Operations on teams. *)
TeamAdmin ==
    /\ \/ \E t \in TeamIds, b \in Budgets, q \in TeamQuotas :
             CreateTeam(t, b, q, day) \/ UpdateTeam(t, b, q)
       \/ \E t \in TeamIds : DeleteTeam(t)
       \/ \E t \in TeamIds, k \in Keys :
             \/ k \in known /\ Usable(rec[k], now) /\ AssignKey(t, k)
             \/ RemoveKey(t, k)
    /\ UNCHANGED gateVars

-----------------------------------------------------------------------------
(* The clock, and a crash of the process.  Keys are saved to disk at every *)
(* change; windows, teams and the calls in flight are not.                 *)

Tick == /\ now < MaxNow
        /\ now' = now + 1
        /\ UNCHANGED <<teamVars, known, rec, win, toolWin, calls, shadow, day, life, ledger>>

NextDay == /\ day < MaxDay
           /\ day' = day + 1
           /\ ledger' = [k \in Keys |-> [ledger[k] EXCEPT !.topups = 0]]
           /\ UNCHANGED <<teamVars, known, rec, win, toolWin, calls, shadow, now, life>>

Restart ==
    /\ life < MaxLife
    /\ life' = life + 1
    /\ calls' = [i \in CallIds |->
         IF calls[i] # NoCall /\ calls[i].st = "forwarded"
         THEN [calls[i] EXCEPT !.st = "lost"] ELSE calls[i]]
    /\ win' = [k \in Keys |-> {}]
    /\ toolWin' = [k \in Keys |-> [t \in Tools |-> {}]]
    /\ team' = [t \in TeamIds |-> BlankTeam]
    /\ teamOf' = [k \in Keys |-> NoTeam]
    /\ shadow' = [shadow EXCEPT !.on = FALSE]
    /\ UNCHANGED <<known, now, day>>

Crash == Restart /\ UNCHANGED <<rec, ledger>>

(* The process dies between the save inside deductCredits and the one that *)
(* follows the quota record: the charge is on disk, the rest is not.       *)
CrashInEvaluate(k, t) ==
    /\ Passes(k, One(t), 1, Price[t],
              [ipOk |-> TRUE, open |-> Tools])
    /\ Restart
    /\ rec' = [rec EXCEPT ![k] = Deduct(@, now, Price[t])]
    /\ ledger' = [ledger EXCEPT ![k].charged = @ + Price[t]]

-----------------------------------------------------------------------------
Operations ==
    \/ \E k \in Keys, t \in Tools, o \in Origins :
          \/ Evaluate(k, t, o)
          \/ EvaluateRefused(k, t, o)
          \/ \E u \in Tools : \/ EvaluateBatch(k, t, u, o)
                              \/ EvaluateBatchRefused(k, t, u, o)
    \/ \E i \in CallIds : Lose(i) \/ \E bad \in SUBSET CallIds : Settle(i, bad)

Administration ==
    \/ \E k \in Keys, c \in Grants :
          \/ CreateKey(k, c)
          \/ "topup" \in AdminOps /\ TopUp(k, c)
    \/ "clone" \in AdminOps /\ \E a, b \in Keys, c \in Grants : CloneKey(a, b, c)
    \/ "transfer" \in AdminOps /\ \E a, b \in Keys, c \in Grants : Transfer(a, b, c)
    \/ "rotate" \in AdminOps /\ \E a, b \in Keys : Rotate(a, b)
    \/ "suspend" \in AdminOps /\ \E k \in Keys : Suspend(k) \/ Resume(k)
    \/ \E k \in Keys : Revoke(k)
    \/ \E k \in Keys, e \in Expiries : SetExpiry(k, e)
    \/ \E k \in Keys, q \in KeyQuotas : SetQuota(k, q)
    \/ \E k \in Keys, l \in Limits : SetSpendingLimit(k, l)
    \/ \E k \in Keys, p \in Topups : SetAutoTopup(k, p)
    \/ \E s \in ShadowModes : UpdateConfig(s)
    \/ TeamAdmin

Next == \/ Operations
        \/ Administration
        \/ Tick \/ NextDay \/ Crash
        \/ \E k \in Keys, t \in Tools : CrashInEvaluate(k, t)

Spec == Init /\ [][Next]_vars

-----------------------------------------------------------------------------
(* Properties. *)

(* Every variable stays in its domain; balances and counters never go      *)
(* below zero, though no subtraction of the code checks that it cannot.    *)
TypeOK ==
    /\ team \in [TeamIds -> TeamRecord]
    /\ teamOf \in [Keys -> TeamIds \cup {NoTeam}]
    /\ known \subseteq Keys
    /\ rec \in [Keys -> KeyRecord]
    /\ win \in [Keys -> SUBSET (Nat \X Nat)]
    /\ toolWin \in [Keys -> [Tools -> SUBSET (Nat \X Nat)]]
    /\ calls \in [CallIds -> Call \cup {NoCall}]
    /\ shadow \in [on : BOOLEAN, ever : BOOLEAN]
    /\ now \in Nat /\ day \in Nat /\ life \in Nat
    /\ ledger \in [Keys -> LedgerEntry]

(* No credit appears or vanishes: a balance is what was granted to the key *)
(* and refunded to it, less what it was charged, through batches, refunds, *)
(* auto-topups, transfers, rotations and crashes.                          *)
CreditsConserved ==
    \A k \in Keys :
        rec[k].credits = ledger[k].granted + ledger[k].refunded - ledger[k].charged

(* totalSpent, which the spending limit reads, is the net of charges and   *)
(* refunds: the clamp at zero in refund never hides a difference.          *)
SpentIsNet ==
    \A k \in Keys : rec[k].totalSpent = ledger[k].charged - ledger[k].refunded

(* Even when configuration reloads enter and leave shadow mode, totalSpent *)
(* never understates the net of charges and refunds, so a spending limit   *)
(* is never reached too late.                                              *)
SpentCovers ==
    \A k \in Keys : rec[k].totalSpent >= ledger[k].charged - ledger[k].refunded

Made(k) == {i \in CallIds : calls[i] # NoCall /\ calls[i].key = k}

(* What the calls of S were told they cost, credit by credit.              *)
Units(S) == UNION {{i} \X (1 .. calls[i].charged) : i \in S}
Charged(S) == Cardinality(Units(S))

(* What callers were told they paid was deducted: no decision reports a    *)
(* charge that did not happen.                                             *)
ToldIsCharged == \A k \in Keys : Charged(Made(k)) <= ledger[k].charged

(* As long as shadow mode was never on, totalSpent is the net of charges   *)
(* and refunds, and what callers were told they paid was deducted.         *)
BillsAreTrue == ~shadow.ever => SpentIsNet /\ ToldIsCharged

(* The calls of this process lifetime still inside the window, a batch     *)
(* counted once, stay within the rate limit; likewise each tool's calls.   *)
Recent(k) == {i \in Made(k) : calls[i].life = life /\ calls[i].at > now - WindowLength}

RateHonoured ==
    \A k \in Keys :
        /\ WithinLimit(Cardinality({calls[i].group : i \in Recent(k)}), 0, RateLimit)
        /\ \A t \in Tools :
             WithinLimit(Cardinality({i \in Recent(k) : calls[i].tool = t}), 0, ToolRate[t])

(* A key never has more calls standing on one UTC day than the daily call  *)
(* limit, unless a call of an earlier day was refunded to it: counters     *)
(* reset lazily, by whichever method comes first, yet no admission slips   *)
(* through around midnight or a crash.                                     *)
Standing(k) == {i \in Made(k) : calls[i].day = day /\ calls[i].st # "failed"}

DailyQuotaHonoured ==
    \A k \in Keys :
        (\A i \in Made(k) : calls[i].st = "failed" => calls[i].day = day)
            => WithinLimit(Cardinality(Standing(k)), 0, GlobalQuota.dailyCalls)

(* What the members of an active team were charged under it never exceeds  *)
(* its budget, however keys join and leave while calls are in flight.      *)
Joint(t) == {i \in CallIds : calls[i] # NoCall /\ calls[i].team = t /\ calls[i].life = life}

TeamBudgetHonoured ==
    \A t \in TeamIds : team[t].active => WithinLimit(Charged(Joint(t)), 0, team[t].budget)

(* A key is topped up automatically at most maxDaily times on one UTC day, *)
(* whichever of the lazily reset counters the day finds.                   *)
TopupsCapped ==
    \A k \in Keys : WithinLimit(ledger[k].topups, 0, rec[k].autoTopup.maxDaily)

(* Whatever the order of charges, refunds, midnight, crashes and changes   *)
(* of membership, no allowance of top-ups and, as long as shadow mode was  *)
(* never on, no rate window, daily quota or team budget is passed.         *)
LimitsHonoured ==
    /\ TopupsCapped
    /\ ~shadow.ever => RateHonoured /\ DailyQuotaHonoured /\ TeamBudgetHonoured

(* README.md, refund on failure: credits are deducted before the call and  *)
(* refunded if it fails, so refunds never exceed charges.                  *)
RefundsWithinCharges == \A k \in Keys : ledger[k].refunded <= ledger[k].charged

=============================================================================
