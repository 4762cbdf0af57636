---------------------------- MODULE CallPipeline ----------------------------
(***************************************************************************)
(* tools/call through PayGateServer.handleMcp (server.ts): spend caps, the *)
(* plugins that may be awaited, the concurrency limiter, content checks,   *)
(* the response cache, the circuit breaker, and the race of the forwarded  *)
(* call with its timeout.  The code between two awaits is one action.  The *)
(* gate is reduced to the balance of a key; module Gate has it whole.      *)
(***************************************************************************)
EXTENDS Integers, FiniteSets

(* The circuit breaker in front of the backend (circuit-breaker.ts), a     *)
(* record [state, fails, openedAt].                                        *)
CONSTANTS Threshold, Cooldown

ASSUME BreakerAssumption == Threshold \in Nat \ {0} /\ Cooldown \in Nat \ {0}

Closed == [state |-> "closed", fails |-> 0, openedAt |-> -1]

(* Slip: the cooldown counts one instant short. *)
CooledEarly(b, now) == b.state = "open" /\ now - b.openedAt >= Cooldown - 1

Cooled(b, now) == b.state = "open" /\ now - b.openedAt >= Cooldown

(* allowRequest and status() both move a cooled breaker to half_open; a    *)
(* half_open breaker admits every request.                                 *)
Thaw(b, now) == IF Cooled(b, now) THEN [b EXCEPT !.state = "half_open"] ELSE b

Admits(b, now) == Thaw(b, now).state # "open"

(* Slip: a success leaves the count of failures standing. *)
SuccessKeepsCount(b) == CASE b.state = "half_open" -> Closed
                          [] OTHER                 -> b

Success(b) == CASE b.state = "half_open" -> Closed
                [] b.state = "closed"    -> [b EXCEPT !.fails = 0]
                [] OTHER                 -> b

Failure(b, now) ==
    LET opens == \/ b.state = "half_open"
                 \/ b.state = "closed" /\ b.fails + 1 >= Threshold
    IN  [state    |-> IF opens THEN "open" ELSE b.state,
         fails    |-> b.fails + 1,
         openedAt |-> IF opens THEN now ELSE b.openedAt]

-----------------------------------------------------------------------------
(* Spend caps (spend-caps.ts): one daily counter of the whole server, an   *)
(* hourly bucket per key, and the moment a key was suspended for a breach. *)
(* A counter is a record [period, calls, credits], reset when it is read   *)
(* in a later period.  Zero is no cap.                                     *)
CONSTANTS DayLength, HourLength,        \* in ticks of the clock
          DailyCallCap, DailyCreditCap, HourlyCallCap,
          BreachSuspends,               \* breachAction = 'suspend'
          ResumeAfter                   \* autoResumeAfterSeconds, 0 is never

ASSUME CapsAssumption ==
    /\ {DayLength, HourLength} \subseteq Nat \ {0}
    /\ {DailyCallCap, DailyCreditCap, HourlyCallCap, ResumeAfter} \subseteq Nat

Today(now) == now \div DayLength
Hour(now)  == now \div HourLength

Counter(p) == [period |-> p, calls |-> 0, credits |-> 0]

(* Slip: the counters of yesterday stay. *)
CurrentStale(c, p) == c

Current(c, p) == IF c.period = p THEN c ELSE Counter(p)

Within(n, cap) == cap = 0 \/ n <= cap

ServerCapAllows(day, price) ==
    Within(day.calls + 1, DailyCallCap) /\ Within(day.credits + price, DailyCreditCap)

(* Slip: the call itself is not counted in. *)
HourlyCapAllowsOneMore(hour) == Within(hour.calls, HourlyCallCap)

HourlyCapAllows(hour) == Within(hour.calls + 1, HourlyCallCap)

Record(c, price) == [c EXCEPT !.calls = @ + 1, !.credits = @ + price]

NotSuspended == -1

(* isAutoSuspended: forgets a suspension that has run out. *)
SuspensionAt(since, now) ==
    IF since # NotSuspended /\ ResumeAfter > 0 /\ now - since >= ResumeAfter
    THEN NotSuspended ELSE since

-----------------------------------------------------------------------------
CONSTANTS Calls, Keys, Tool, KeyOf,  \* KeyOf[c]: the key of call c; they call one tool
          ArgsOf, CacheKey,        \* its arguments, and the cache key of arguments
          Price, Surcharges,       \* credits per call, and for its output
          Initial,                 \* balance of every key
          MaxPerKey, MaxPerTool,   \* concurrency limits, 0 is none
          Ttl,                     \* cacheTtlSeconds, 0 is no cache
          MaxEntries,              \* entries of the cache
          HasTimeout, RefundOnFailure,
          Last,                    \* bound: the clock stops here
          None

ASSUME PipelineAssumption ==
    /\ IsFiniteSet(Calls) /\ None \notin Calls
    /\ Tool \notin Keys /\ KeyOf \in [Calls -> Keys]
    /\ {Price, Initial, MaxPerKey, MaxPerTool, Ttl, MaxEntries, Last} \subseteq Nat
    /\ Surcharges \subseteq Nat

VARIABLES now,
          st,        \* st[c]: new, plugins, sent, late (timed out, still running), done
          out,       \* out[c]: what the caller of c was told
          bal, spent,\* credits and totalSpent of a key
          took,      \* took[c]: credits call c took and did not give back
          brk,       \* the circuit breaker
          slots,     \* byKey and byTool of the concurrency limiter
          holding,   \* calls with concurrencyAcquired
          cache,     \* cache[x]: the entry under a cache key, or None
          from,      \* from[c]: the call whose response c was served
          day, hour, suspended,    \* SpendCapManager
          okAt,      \* okAt[c]: when c was answered well, -1 before
          tripped,   \* when a failure last opened the breaker
          streak     \* failures recorded since a success or a reset

vars == <<now, st, out, bal, spent, took, brk, slots, holding, cache, from,
          day, hour, suspended, okAt, tripped, streak>>
money == <<bal, spent, took>>
caps == <<day, hour, suspended, okAt>>
seen == <<tripped, streak>>

CacheKeys == {CacheKey[a] : a \in {ArgsOf[c] : c \in Calls}}
Entries == {x \in CacheKeys : cache[x] # None}

Init ==
    /\ now = 0
    /\ st = [c \in Calls |-> "new"] /\ out = [c \in Calls |-> "none"]
    /\ bal = [k \in Keys |-> Initial] /\ spent = [k \in Keys |-> 0]
    /\ took = [c \in Calls |-> 0]
    /\ brk = Closed
    /\ slots = [x \in Keys \cup {Tool} |-> 0] /\ holding = {}
    /\ cache = [x \in CacheKeys |-> None] /\ from = [c \in Calls |-> None]
    /\ day = Counter(0) /\ hour = [k \in Keys |-> Counter(0)]
    /\ suspended = [k \in Keys |-> NotSuspended]
    /\ okAt = [c \in Calls |-> -1]
    /\ tripped = -1 /\ streak = 0

(* The checks of the spend caps, in their order: a suspended key, the      *)
(* server's day, the key's hour; a breach of the hour may suspend.         *)
Arrive(c) ==
    LET k == KeyOf[c]
        since == SuspensionAt(suspended[k], now)
        today == Current(day, Today(now))
        this == Current(hour[k], Hour(now))
        stop == out' = [out EXCEPT ![c] = "capped"] /\ st' = [st EXCEPT ![c] = "done"]
    IN  /\ st[c] = "new"
        /\ \/ /\ since # NotSuspended
              /\ stop /\ UNCHANGED <<day, hour, suspended>>
           \/ /\ since = NotSuspended
              /\ day' = today
              /\ \/ /\ ~ServerCapAllows(today, Price)
                    /\ stop /\ suspended' = [suspended EXCEPT ![k] = since]
                    /\ UNCHANGED hour
                 \/ /\ ServerCapAllows(today, Price) /\ ~HourlyCapAllows(this)
                    /\ stop /\ hour' = [hour EXCEPT ![k] = this]
                    /\ suspended' = [suspended EXCEPT ![k] = IF BreachSuspends THEN now ELSE since]
                 \/ /\ ServerCapAllows(today, Price) /\ HourlyCapAllows(this)
                    /\ st' = [st EXCEPT ![c] = "plugins"]
                    /\ hour' = [hour EXCEPT ![k] = this]
                    /\ suspended' = [suspended EXCEPT ![k] = since]
                    /\ UNCHANGED out
        /\ UNCHANGED <<now, money, brk, slots, holding, cache, from, okAt, seen>>

-----------------------------------------------------------------------------
(* The ends of a call: told, and its slot given back by the finally.       *)
Tell(c, what) == out' = [out EXCEPT ![c] = what]

(* Slip: a call that timed out keeps its slot until the backend answers. *)
ReleaseUnlessLate(c) ==
    IF c \in holding /\ st'[c] # "late"
    THEN /\ slots' = [slots EXCEPT ![KeyOf[c]] = IF @ <= 1 THEN 0 ELSE @ - 1,
                                   ![Tool] = IF @ <= 1 THEN 0 ELSE @ - 1]
         /\ holding' = holding \ {c}
    ELSE UNCHANGED <<slots, holding>>

Release(c) ==
    IF c \in holding
    THEN /\ slots' = [slots EXCEPT ![KeyOf[c]] = IF @ <= 1 THEN 0 ELSE @ - 1,
                                   ![Tool] = IF @ <= 1 THEN 0 ELSE @ - 1]
         /\ holding' = holding \ {c}
    ELSE UNCHANGED <<slots, holding>>

(* A success is counted by the spend caps at the price of the tool, cached *)
(* answers too.                                                            *)
Count(c) ==
    /\ day' = Record(Current(day, Today(now)), Price)
    /\ hour' = [hour EXCEPT ![KeyOf[c]] = Record(Current(@, Hour(now)), Price)]
    /\ UNCHANGED suspended

(* The limiter refuses, or takes the slot and goes on.                     *)
Full(c) ==
    \/ MaxPerKey > 0 /\ slots[KeyOf[c]] >= MaxPerKey
    \/ MaxPerTool > 0 /\ slots[Tool] >= MaxPerTool

Busy(c) ==
    /\ st[c] = "plugins" /\ Full(c)
    /\ st' = [st EXCEPT ![c] = "done"] /\ Tell(c, "busy")
    /\ UNCHANGED <<now, money, brk, slots, holding, cache, from, caps, seen>>

(* A guardrail, the schema or the usage plan rejects the call.             *)
Block(c) ==
    /\ st[c] = "plugins" /\ ~Full(c)
    /\ st' = [st EXCEPT ![c] = "done"] /\ Tell(c, "blocked")
    /\ UNCHANGED <<now, money, brk, slots, holding, cache, from, caps, seen>>

(* Slip: entries are served whatever their age. *)
FreshForever(x) == cache[x] # None

Fresh(x) == cache[x] # None /\ now - cache[x].at <= Ttl

(* ResponseCache.get drops a stale entry; a hit refreshes lastAccessedAt.  *)
Hit(c) ==
    LET x == CacheKey[ArgsOf[c]]
    IN  /\ st[c] = "plugins" /\ ~Full(c) /\ Ttl > 0 /\ Fresh(x)
        /\ from' = [from EXCEPT ![c] = cache[x].by]
        /\ cache' = [cache EXCEPT ![x].used = now]
        /\ st' = [st EXCEPT ![c] = "done"] /\ Tell(c, "cached")
        /\ okAt' = [okAt EXCEPT ![c] = now]
        /\ Count(c)
        /\ UNCHANGED <<now, money, brk, slots, holding, seen>>

DropStale(c) ==
    LET x == CacheKey[ArgsOf[c]]
    IN  cache' = IF Ttl > 0 /\ cache[x] # None /\ ~Fresh(x) THEN [cache EXCEPT ![x] = None] ELSE cache

Missed(c) == st[c] = "plugins" /\ ~Full(c) /\ ~(Ttl > 0 /\ Fresh(CacheKey[ArgsOf[c]]))

Broken(c) ==
    /\ Missed(c) /\ ~Admits(brk, now)
    /\ st' = [st EXCEPT ![c] = "done"] /\ Tell(c, "broken")
    /\ DropStale(c)
    /\ UNCHANGED <<now, money, brk, slots, holding, from, caps, seen>>

(* The gate refuses for want of credits: the breaker counts a success.     *)
Deny(c) ==
    /\ Missed(c) /\ Admits(brk, now)
    /\ bal[KeyOf[c]] < Price
    /\ brk' = Success(Thaw(brk, now)) /\ streak' = 0
    /\ st' = [st EXCEPT ![c] = "done"] /\ Tell(c, "denied")
    /\ DropStale(c)
    /\ UNCHANGED <<now, money, slots, holding, from, caps, tripped>>

Take(c, n) ==
    /\ bal' = [bal EXCEPT ![KeyOf[c]] = @ - n]
    /\ took' = [took EXCEPT ![c] = @ + n]

Send(c) ==
    /\ Missed(c) /\ Admits(brk, now)
    /\ bal[KeyOf[c]] >= Price
    /\ Take(c, Price) /\ spent' = [spent EXCEPT ![KeyOf[c]] = @ + Price]
    /\ brk' = Thaw(brk, now)
    /\ IF MaxPerKey + MaxPerTool > 0
       THEN holding' = holding \cup {c} /\ slots' = [slots EXCEPT ![KeyOf[c]] = @ + 1, ![Tool] = @ + 1]
       ELSE UNCHANGED <<slots, holding>>
    /\ st' = [st EXCEPT ![c] = "sent"]
    /\ DropStale(c)
    /\ UNCHANGED <<now, out, from, caps, seen>>

-----------------------------------------------------------------------------
(* ResponseCache.set: the least recently used entry makes room.            *)
Store(c) ==
    LET x == CacheKey[ArgsOf[c]]
        entry == [by |-> c, at |-> now, used |-> now]
        oldest == {y \in Entries : \A z \in Entries : cache[y].used <= cache[z].used}
    IN  IF Ttl = 0 THEN UNCHANGED cache
        ELSE IF cache[x] # None \/ Cardinality(Entries) < MaxEntries
             THEN cache' = [cache EXCEPT ![x] = entry]
             ELSE \E y \in oldest : cache' = [cache EXCEPT ![y] = None, ![x] = entry]

(* Slip: the surcharge is taken even when the balance does not cover it. *)
SurchargeTakenWhole(c, s) == s

(* The surcharge for the output, or what is left of the balance.           *)
SurchargeTaken(c, s) == IF bal[KeyOf[c]] >= s THEN s ELSE bal[KeyOf[c]]

(* deductCredits adds the surcharge to totalSpent and the handler adds it  *)
(* once more.  A guardrail on the output makes the answer an error, when   *)
(* it is charged and cached already.                                       *)
Succeed(c, s, blocked) ==
    LET taken == SurchargeTaken(c, s)
    IN  /\ st[c] = "sent"
        /\ brk' = Success(brk) /\ streak' = 0
        /\ Store(c)
        /\ Take(c, taken) /\ spent' = [spent EXCEPT ![KeyOf[c]] = @ + 2 * taken]
        /\ from' = [from EXCEPT ![c] = c]
        /\ okAt' = [okAt EXCEPT ![c] = now]
        /\ st' = [st EXCEPT ![c] = "done"]
        /\ IF blocked THEN Tell(c, "censored") /\ UNCHANGED <<day, hour, suspended>>
           ELSE Tell(c, "ok") /\ Count(c)
        /\ Release(c)
        /\ UNCHANGED <<now, tripped>>

(* The proxy refunds a call the backend answered with an error.            *)
GiveBack(c) ==
    IF RefundOnFailure
    THEN /\ bal' = [bal EXCEPT ![KeyOf[c]] = @ + took[c]]
         /\ spent' = [spent EXCEPT ![KeyOf[c]] = @ - took[c]]
         /\ took' = [took EXCEPT ![c] = 0]
    ELSE UNCHANGED money

CountFailure ==
    /\ brk' = Failure(brk, now) /\ streak' = streak + 1
    /\ tripped' = IF brk'.state = "open" /\ brk.state # "open" THEN now ELSE tripped

(* Only an internal error (-32603) is a failure to the breaker.            *)
Fail(c, internal) ==
    /\ st[c] = "sent"
    /\ GiveBack(c)
    /\ IF internal THEN CountFailure ELSE UNCHANGED <<brk, seen>>
    /\ st' = [st EXCEPT ![c] = "done"] /\ Tell(c, "error")
    /\ Release(c)
    /\ UNCHANGED <<now, cache, from, caps>>

(* The stdio proxy rejects: the exception passes everything but finally.   *)
Throw(c) ==
    /\ st[c] = "sent"
    /\ st' = [st EXCEPT ![c] = "done"] /\ Tell(c, "thrown")
    /\ Release(c)
    /\ UNCHANGED <<now, money, brk, cache, from, caps, seen>>

(* Slip: the timer counts only once the backend has nothing else to do. *)
TimeoutWhenIdle(c) ==
    /\ HasTimeout /\ st[c] = "sent" /\ \A d \in Calls \ {c} : st[d] \notin {"sent", "late"}
    /\ CountFailure
    /\ st' = [st EXCEPT ![c] = "late"] /\ Tell(c, "timeout")
    /\ Release(c)
    /\ UNCHANGED <<now, money, cache, from, caps>>

(* The timer wins the race; the backend goes on with the call.             *)
Timeout(c) ==
    /\ HasTimeout /\ st[c] = "sent"
    /\ CountFailure
    /\ st' = [st EXCEPT ![c] = "late"] /\ Tell(c, "timeout")
    /\ Release(c)
    /\ UNCHANGED <<now, money, cache, from, caps>>

(* The backend answers a call nobody waits for; only the proxy's refund    *)
(* of an error is left.                                                    *)
LateAnswer(c, error) ==
    /\ st[c] = "late"
    /\ IF error THEN GiveBack(c) ELSE UNCHANGED money
    /\ st' = [st EXCEPT ![c] = "done"]
    /\ UNCHANGED <<now, out, brk, slots, holding, cache, from, caps, seen>>

(* The administrator: breaker reset and status, cache clear, suspension    *)
(* lifted.                                                                 *)
ResetBreaker ==
    /\ brk # Closed
    /\ brk' = Closed /\ streak' = 0
    /\ UNCHANGED <<now, st, out, money, slots, holding, cache, from, caps, tripped>>

ReadBreaker ==
    /\ Cooled(brk, now)
    /\ brk' = Thaw(brk, now)
    /\ UNCHANGED <<now, st, out, money, slots, holding, cache, from, caps, seen>>

ClearCache ==
    /\ Entries # {}
    /\ cache' = [x \in CacheKeys |-> None]
    /\ UNCHANGED <<now, st, out, money, brk, slots, holding, from, caps, seen>>

LiftSuspension(k) ==
    /\ suspended[k] # NotSuspended
    /\ suspended' = [suspended EXCEPT ![k] = NotSuspended]
    /\ UNCHANGED <<now, st, out, money, brk, slots, holding, cache, from, day, hour, okAt, seen>>

Tick ==
    /\ now < Last /\ now' = now + 1
    /\ UNCHANGED <<st, out, money, brk, slots, holding, cache, from, caps, seen>>

Next ==
    \/ \E c \in Calls :
          \/ Arrive(c) \/ Busy(c) \/ Block(c) \/ Hit(c) \/ Broken(c) \/ Deny(c) \/ Send(c)
          \/ \E s \in Surcharges, blocked \in BOOLEAN : Succeed(c, s, blocked)
          \/ \E internal \in BOOLEAN : Fail(c, internal)
          \/ \E error \in BOOLEAN : LateAnswer(c, error)
          \/ Throw(c) \/ Timeout(c)
    \/ ResetBreaker \/ ReadBreaker \/ ClearCache \/ Tick
    \/ \E k \in Keys : LiftSuspension(k)

Spec == Init /\ [][Next]_vars

(* Node fires the timer of a call in the end; nothing obliges a backend to *)
(* answer.                                                                 *)
FairSpec == Spec /\ \A c \in Calls : WF_vars(Timeout(c))
-----------------------------------------------------------------------------
Of(k) == {c \in Calls : KeyOf[c] = k}

(* The credits calls took, one by one, and so their sum; no call can take  *)
(* more than a key had.                                                    *)
TakenBy(S) == {x \in S \X (1..Initial) : x[2] <= took[x[1]]}
Took(S) == Cardinality(TakenBy(S))

(* A slot is held by exactly the calls whose callers wait on the backend,  *)
(* under every way a call may end, and the limits are never passed.        *)
SlotsHonoured ==
    /\ holding = IF MaxPerKey + MaxPerTool > 0 THEN {c \in Calls : st[c] = "sent"} ELSE {}
    /\ \A k \in Keys : slots[k] = Cardinality(holding \cap Of(k))
    /\ slots[Tool] = Cardinality(holding)
    /\ \A k \in Keys : MaxPerKey > 0 => slots[k] <= MaxPerKey
    /\ MaxPerTool > 0 => slots[Tool] <= MaxPerTool

(* What left a balance is what its calls took, totalSpent never says less, *)
(* and a call that was refused before the backend, served from the cache   *)
(* or refunded took nothing.                                               *)
TakenAsTold ==
    /\ \A k \in Keys : bal[k] >= 0 /\ bal[k] = Initial - Took(Of(k)) /\ spent[k] >= Took(Of(k))
    /\ \A c \in Calls :
          /\ out[c] \in {"capped", "busy", "blocked", "cached", "broken", "denied"} => took[c] = 0
          /\ out[c] = "error" /\ RefundOnFailure => took[c] = 0
          /\ out[c] = "ok" => took[c] >= Price

(* After the failure that opened the breaker no call reaches the backend   *)
(* for the whole cooldown, unless the breaker was reset.                   *)
OpenShedsLoad ==
    [][\A c \in Calls : /\ st[c] = "plugins" /\ st'[c] = "sent"
                        /\ brk.state # "closed"
                        => now - tripped >= Cooldown]_vars

(* A closed breaker opens exactly when Threshold failures came in a row,   *)
(* whatever calls of before a trip or a reset report late.                 *)
OpensOnStreak ==
    [][brk.state = "closed" /\ brk'.fails # brk.fails
          => (brk'.state = "open" <=> streak' >= Threshold)]_vars

(* The breaker opens exactly on a streak of failures, and once open it     *)
(* keeps calls from the backend for its cooldown.                          *)
BreakerHonoured == OpenShedsLoad /\ OpensOnStreak

(* The cache serves a response no older than its time to live, of a call   *)
(* the backend answered.                                                   *)
HitsAreFresh ==
    [][\A c \in Calls : out[c] = "none" /\ out'[c] = "cached"
          => okAt[from'[c]] # -1 /\ now - okAt[from'[c]] <= Ttl]_vars

(* A call passes the spend caps exactly when the successes of its own day, *)
(* and those of its key in its own hour, cached ones too, leave room, and  *)
(* the key is not suspended: whatever midnights went by and whoever lifted *)
(* or outlived a suspension.                                               *)
Counted(S) == {c \in S : out[c] \in {"ok", "cached"}}
OkToday == {c \in Counted(Calls) : Today(okAt[c]) = Today(now)}
OkThisHour(k) == {c \in Counted(Of(k)) : Hour(okAt[c]) = Hour(now)}

HasRoom(k) ==
    /\ Within(Cardinality(OkToday) + 1, DailyCallCap)
    /\ Within(Price * (Cardinality(OkToday) + 1), DailyCreditCap)
    /\ Within(Cardinality(OkThisHour(k)) + 1, HourlyCallCap)
    /\ \/ suspended[k] = NotSuspended
       \/ ResumeAfter > 0 /\ now - suspended[k] >= ResumeAfter

CapsExact ==
    [][\A c \in Calls : st[c] = "new" /\ st'[c] # "new"
          => (st'[c] = "plugins" <=> HasRoom(KeyOf[c]))]_vars

(* A call that the server times is settled in the end, whatever the        *)
(* backend does.                                                           *)
Settles == \A c \in Calls : st[c] = "sent" ~> out[c] # "none"

-----------------------------------------------------------------------------
(* README.md, refund on failure: callers are not charged for operations    *)
(* that failed.                                                            *)
TimedOutNotCharged == \A c \in Calls : st[c] = "done" /\ out[c] = "timeout" => took[c] = 0
=============================================================================
