------------------------------ MODULE Limiters ------------------------------
(***************************************************************************)
(* The managers that limit how much a key may use: quotas by calendar      *)
(* period (quota-manager.ts), budgets with a burn rate (budget-policy.ts), *)
(* token buckets (token-bucket.ts), sliding windows (sliding-window.ts),   *)
(* windows per tool (tool-rate-limiter.ts) and profiles of limits          *)
(* (rate-limit-profile.ts).  Each keeps its own tables and none calls      *)
(* another, so a behaviour is the life of one of them, `mgr`, and `s` is   *)
(* its state.  `seen` belongs to the observer: what callers were told.     *)
(* Left out: namespaces (a second table of the same kind), statistics,     *)
(* descriptions, and the default profile, which is an assignment to all.   *)
(* A burst multiplier of a bucket is part of Cap.                          *)
(***************************************************************************)
EXTENDS Integers, Sequences, FiniteSets, SequencesExt, FiniteSetsExt, Functions

CONSTANTS Keys, Tools, Amounts,
          All,                   \* the key "*", and any tool
          MaxRules, MaxRecords,  \* rules or policies, records of usage
          MaxKeys, MaxTracked,   \* keys, and pairs of a key and a tool, that are tracked
          Cap, Rate, Interval,   \* capacity, refillRate and refillIntervalMs of a bucket
          Admit, Sub, Subs,      \* maxRequests, length and number of sub-windows
          Spans,                 \* windows of a profile: their lengths by name
          MaxOps, MaxClock       \* bounds

VARIABLES mgr, s, seen, now, ops

vars == <<mgr, s, seen, now, ops>>

Call(m) == /\ mgr = m /\ ops < MaxOps /\ ops' = ops + 1
           /\ UNCHANGED <<mgr, now>>

SumOver(S, f(_)) == MapThenSumSet(f, S)
Without(f, K) == [k \in DOMAIN f \ K |-> f[k]]
With(f, k, v) == [j \in DOMAIN f \cup {k} |-> IF j = k THEN v ELSE f[j]]

(* A full table drops the entry that was used longest ago, of several any, *)
(* before it takes a new one.                                              *)
Stalest(f, used(_)) == {k \in DOMAIN f : \A j \in DOMAIN f : used(k) <= used(j)}
Evicted(f, k, most, used(_)) ==
    IF k \notin DOMAIN f /\ Cardinality(DOMAIN f) >= most
    THEN {{j} : j \in Stalest(f, used)} ELSE {{}}
-----------------------------------------------------------------------------
(* QuotaManager.  A usage record belongs to a rule and a period, and the   *)
(* table of records is in the order of their making.  `seen` is the log of *)
(* what was let through: when, how much and under which denying rules; it  *)
(* forgets a rule that is changed or reset or whose record is dropped.     *)
QuotaInit == mgr = "quota" /\ seen = <<>> /\ s = [rules |-> <<>>, usage |-> <<>>]

Periods == {"daily", "monthly"}
StartAt(p, t) == IF p = "daily" THEN 2 * (t \div 2) ELSE 0
PeriodStart(p) == StartAt(p, now)
RuleIds == {i \in DOMAIN s.rules : s.rules[i].live}
Ceiling(r) == r.limit * (100 + r.burst)
Forgotten(log, R) ==
    SelectSeq([j \in DOMAIN log |-> [log[j] EXCEPT !.rules = @ \ R]], LAMBDA e : e.rules # {})

CreateRule(r) == /\ Call("quota") /\ Cardinality(RuleIds) < MaxRules
                 /\ Len(s.rules) < 2   \* bound
                 /\ s' = [s EXCEPT !.rules = Append(@, r)] /\ UNCHANGED seen

UpdateRule(i, limit, action) ==
    /\ Call("quota") /\ i \in RuleIds
    /\ s' = [s EXCEPT !.rules[i].limit = limit, !.rules[i].action = action]
    /\ seen' = Forgotten(seen, {i})

DeleteRule(i) == /\ Call("quota") /\ i \in RuleIds
                 /\ s' = [s EXCEPT !.rules[i].live = FALSE] /\ UNCHANGED seen

Applicable(k, t) == {i \in RuleIds : s.rules[i].key \in {k, All} /\ s.rules[i].tool \in {t, All}}
Current(u, i) == u.rule = i /\ u.start = PeriodStart(s.rules[i].period)
Used(i) == SumOver({j \in DOMAIN s.usage : Current(s.usage[j], i)}, LAMBDA j : s.usage[j].used)

Exceeds(i, n) == 100 * (Used(i) + n) > Ceiling(s.rules[i])

(* The record of rule i after n more, a new one if it has none; a full     *)
(* table loses its first record before.                                    *)
Crowded(usage) == Len(usage) >= MaxRecords
Recorded(usage, i, n) ==
    LET kept == IF Crowded(usage) THEN Tail(usage) ELSE usage
    IN  IF \E j \in DOMAIN kept : Current(kept[j], i)
        THEN [j \in DOMAIN kept |-> IF Current(kept[j], i) THEN [kept[j] EXCEPT !.used = @ + n]
                                                           ELSE kept[j]]
        ELSE Append(kept, [rule |-> i, start |-> PeriodStart(s.rules[i].period), used |-> n])

(* Slip: only the first rule that applies is recorded. *)
RecordedForFirst(rules) == {Min(rules)}

RecordedFor(rules) == rules

(* check: the first rule that denies records the attempt and ends it;      *)
(* otherwise every rule that applies records.                              *)
CheckQuota(k, t, n) ==
    /\ Call("quota")
    /\ LET rules == Applicable(k, t)
           denying == {i \in rules : s.rules[i].action = "deny"}
           exceeded == {i \in denying : Exceeds(i, n)}
           recording == IF exceeded # {} THEN {Min(exceeded)} ELSE RecordedFor(rules)
           usage == FoldLeft(LAMBDA u, i : Recorded(u, i, n), s.usage, SetToSortSeq(recording, <))
           dropped == {s.usage[j].rule : j \in 1..(Len(s.usage) + Cardinality(recording) - MaxRecords)
                                              \cap DOMAIN s.usage}
           log == IF exceeded # {} THEN seen
                  ELSE Append(seen, [rules |-> denying, n |-> n, at |-> now])
       IN  /\ rules # {}
           /\ s' = [s EXCEPT !.usage = usage]
           /\ seen' = Forgotten(log, dropped)

ResetUsage(i) ==
    /\ Call("quota") /\ i \in RuleIds
    /\ s' = [s EXCEPT !.usage = SelectSeq(@, LAMBDA u : ~Current(u, i))]
    /\ seen' = Forgotten(seen, {i})
-----------------------------------------------------------------------------
(* BudgetPolicyEngine.  A zero is no budget; `seen` is the log of what was *)
(* let through.                                                            *)
BudgetInit == mgr = "budget" /\ seen = <<>> /\ s = <<>>

DayOf(t) == t \div 2
MonthOf(t) == t \div 4
NextDay == 2 * DayOf(now) + 2
NextMonth == 4 * MonthOf(now) + 4

CreatePolicy(k, daily, monthly, action) ==
    /\ Call("budget") /\ Len(s) < MaxRules
    /\ s' = Append(s, [key |-> k, daily |-> daily, monthly |-> monthly, action |-> action,
                       live |-> TRUE, window |-> <<>>, throttled |-> FALSE, until |-> 0,
                       day |-> [spent |-> 0, resetAt |-> NextDay],
                       month |-> [spent |-> 0, resetAt |-> NextMonth]])
    /\ UNCHANGED seen

DeletePolicy(p) == /\ Call("budget") /\ p \in DOMAIN s /\ s[p].live
                   /\ s' = [s EXCEPT ![p].live = FALSE] /\ UNCHANGED seen

(* Slip: the clock of the period is not moved on. *)
RolledLate(period, next) == IF now >= period.resetAt THEN [period EXCEPT !.spent = 0] ELSE period

Rolled(period, next) == IF now >= period.resetAt THEN [spent |-> 0, resetAt |-> next] ELSE period

(* A window of one tick, a threshold of Max(Amounts) and a cooldown of one.*)
BurnRate(p) == SumOver(DOMAIN p.window, LAMBDA i : p.window[i].credits)
Spent(p, c) ==
    [p EXCEPT !.day = [Rolled(@, NextDay) EXCEPT !.spent = @ + c],
              !.month = [Rolled(@, NextMonth) EXCEPT !.spent = @ + c],
              !.window = SelectSeq(Append(@, [time |-> now, credits |-> c]),
                                   LAMBDA e : e.time >= now - 1)]
OverBudget(p) == \/ p.daily > 0 /\ p.day.spent > p.daily
                 \/ p.monthly > 0 /\ p.month.spent > p.monthly
Burning(p) == BurnRate(p) > Max(Amounts)
Refuses(p) == OverBudget(p) \/ (Burning(p) /\ p.action = "deny")
Throttled(p) ==
    LET q == IF Burning(p) /\ p.action = "throttle" /\ ~p.throttled
             THEN [p EXCEPT !.throttled = TRUE, !.until = now + 1] ELSE p
    IN  [q EXCEPT !.throttled = @ /\ now <= q.until]

(* recordSpend: the policies one by one, until one refuses. *)
RecordSpend(k, c) ==
    /\ Call("budget")
    /\ LET policies == {p \in DOMAIN s : s[p].live /\ s[p].key \in {k, All}}
           refusing == {p \in policies : Refuses(Spent(s[p], c))}
           last == IF refusing = {} THEN Len(s) ELSE Min(refusing)
       IN  /\ policies # {}
           /\ s' = [p \in DOMAIN s |->
                IF p \notin policies \/ p > last THEN s[p]
                ELSE IF p \in refusing THEN Spent(s[p], c) ELSE Throttled(Spent(s[p], c))]
           /\ seen' = IF refusing # {} THEN seen
                      ELSE Append(seen, [policies |-> policies, credits |-> c, at |-> now])
-----------------------------------------------------------------------------
(* RateLimitTokenBucket.  The observer keeps for each bucket when and with *)
(* what it began, what was taken, and the last promise of a retry.         *)
BucketInit == mgr = "bucket" /\ s = <<>> /\ seen = <<>>

NoPromise == [at |-> MaxClock + 1, tokens |-> 0]
NewBucket == [tokens |-> Cap, lastRefill |-> now, lastAccess |-> now]
NewView == [since |-> now, given |-> Cap, taken |-> 0, promise |-> NoPromise]

(* Slip: the time of the last refill is left as it was. *)
RefilledAgain(b) == LET n == (now - b.lastRefill) \div Interval
                    IN  [b EXCEPT !.tokens = Min({@ + n * Rate, Cap})]

Refilled(b) == LET n == (now - b.lastRefill) \div Interval
               IN  [b EXCEPT !.tokens = Min({@ + n * Rate, Cap}), !.lastRefill = @ + n * Interval]

(* Slip: the intervals to wait for are rounded down. *)
IntervalsNeededLess(deficit) == deficit \div Rate

IntervalsNeeded(deficit) == (deficit + Rate - 1) \div Rate

(* The buckets after bucket b of k, with view v of it. *)
Stored(k, b, v, gone) == /\ s' = With(Without(s, gone), k, b)
                         /\ seen' = With(Without(seen, gone), k, v)
BucketOf(k) == IF k \in DOMAIN s THEN s[k] ELSE NewBucket
ViewOf(k) == IF k \in DOMAIN s THEN seen[k] ELSE NewView

Consume(k, n) ==
    /\ Call("bucket")
    /\ \E gone \in Evicted(s, k, MaxKeys, LAMBDA j : s[j].lastAccess) :
         LET b == Refilled(BucketOf(k))
         IN  IF b.tokens >= n
             THEN Stored(k, [b EXCEPT !.tokens = @ - n, !.lastAccess = now],
                         [ViewOf(k) EXCEPT !.taken = @ + n, !.promise = NoPromise], gone)
             ELSE Stored(k, [b EXCEPT !.lastAccess = now],
                         [ViewOf(k) EXCEPT !.promise =
                            [at |-> now + IntervalsNeeded(n - b.tokens) * Interval, tokens |-> n]],
                         gone)

ResetBucket(k) ==
    /\ Call("bucket") /\ k \in DOMAIN s
    /\ Stored(k, [s[k] EXCEPT !.tokens = Cap, !.lastRefill = now],
              [seen[k] EXCEPT !.given = Cap, !.taken = 0, !.since = now], {})

RemoveBucket(k) ==
    /\ Call("bucket") /\ k \in DOMAIN s
    /\ s' = Without(s, {k}) /\ seen' = Without(seen, {k})

(* setCapacity takes tokens away once; the next refill goes up to the      *)
(* capacity of the limiter.                                                *)
SetCapacity(k, n) ==
    /\ Call("bucket")
    /\ \E gone \in Evicted(s, k, MaxKeys, LAMBDA j : s[j].lastAccess) :
         Stored(k, [Refilled(BucketOf(k)) EXCEPT !.tokens = Min({@, n})],
                [ViewOf(k) EXCEPT !.promise = NoPromise], gone)
-----------------------------------------------------------------------------
(* RateLimitSlidingWindow: the counts of a key by the start of their       *)
(* sub-window.  The observer keeps when the calls were let through.        *)
SlidingInit == mgr = "sliding" /\ s = <<>> /\ seen = <<>>

Cutoff == now - Sub * Subs
Kept(c) == [a \in {b \in DOMAIN c : b + Sub > Cutoff} |-> c[a]]
(* A sub-window that is partly over counts by its part, rounded up. *)
CountAt(c, a) == IF a < Cutoff THEN (c[a] * (a + Sub - Cutoff) + Sub - 1) \div Sub ELSE c[a]
CountRequests(c) == SumOver(DOMAIN c, LAMBDA a : CountAt(c, a))
SubWindow == Sub * (now \div Sub)

(* Slip: a second request of a sub-window is not counted. *)
AddedOnce(c) == With(c, SubWindow, 1)

Added(c) == With(c, SubWindow, 1 + IF SubWindow \in DOMAIN c THEN c[SubWindow] ELSE 0)

CheckWindow(k) ==
    /\ Call("sliding")
    /\ \E gone \in Evicted(s, k, MaxKeys, LAMBDA j : s[j].lastAccess) :
         LET c == IF k \in DOMAIN s THEN Kept(s[k].counts) ELSE <<>>
             log == IF k \in DOMAIN s THEN seen[k] ELSE <<>>
         IN  IF CountRequests(c) >= Admit
             THEN /\ s' = With(Without(s, gone), k, [s[k] EXCEPT !.counts = c])
                  /\ seen' = With(Without(seen, gone), k, log)
             ELSE /\ s' = With(Without(s, gone), k, [counts |-> Added(c), lastAccess |-> now])
                  /\ seen' = With(Without(seen, gone), k, Append(log, now))

ResetWindow(k) == /\ Call("sliding") /\ k \in DOMAIN s
                  /\ s' = Without(s, {k}) /\ seen' = Without(seen, {k})
-----------------------------------------------------------------------------
(* ToolRateLimiter: rules for tools, one of them for All, and the times of *)
(* the calls of a key to a tool.  The observer forgets when rules change.  *)
ToolsInit == mgr = "tools" /\ seen = <<>> /\ s = [rules |-> <<>>, windows |-> <<>>]

UpsertRule(t, max, win, active) ==
    /\ Call("tools")
    /\ s' = [s EXCEPT !.rules = With(@, t, [max |-> max, win |-> win, active |-> active])]
    /\ seen' = <<>>
RemoveRule(t) == /\ Call("tools") /\ t \in DOMAIN s.rules
                 /\ s' = [s EXCEPT !.rules = Without(@, {t})] /\ seen' = <<>>

(* The rule of the tool, else the one for all, else the default. *)
ResolveRule(t) ==
    LET active == {r \in {t, All} \cap DOMAIN s.rules : s.rules[r].active}
    IN  IF t \in active THEN s.rules[t]
        ELSE IF All \in active THEN s.rules[All] ELSE [max |-> 2, win |-> 1, active |-> TRUE]

(* Slip: a call at the edge of the window is forgotten early. *)
RecentShort(times, win) == SelectSeq(times, LAMBDA x : x > now - win + 1)

Recent(times, win) == SelectSeq(times, LAMBDA x : x > now - win)

LastCall(w) == IF w = <<>> THEN 0 ELSE w[Len(w)]
CheckTool(k, t) ==
    /\ Call("tools")
    /\ \E gone \in Evicted(s.windows, <<k, t>>, MaxTracked, LAMBDA j : LastCall(s.windows[j])) :
         LET rule == ResolveRule(t)
             Of(f) == IF <<k, t>> \in DOMAIN f THEN f[<<k, t>>] ELSE <<>>
             w == Recent(Of(s.windows), rule.win)
         IN  IF Len(w) >= rule.max
             THEN /\ s' = [s EXCEPT !.windows = With(Without(@, gone), <<k, t>>, w)]
                  /\ seen' = Without(seen, gone)
             ELSE /\ s' = [s EXCEPT !.windows = With(Without(@, gone), <<k, t>>, Append(w, now))]
                  /\ seen' = With(Without(seen, gone), <<k, t>>, Append(Of(seen), now))

ResetTool(W) == /\ Call("tools") /\ W \cap DOMAIN s.windows # {}
                /\ s' = [s EXCEPT !.windows = Without(@, W)] /\ seen' = Without(seen, W)
-----------------------------------------------------------------------------
(* RateLimitProfileManager: profiles with a limit for each span, zero for  *)
(* none, and counters that start with the first call of a key.  `admitted` *)
(* and `high` are the observer's, as above.                                *)
ProfilesInit == mgr = "profiles" /\ seen = 0
                /\ s = [profiles |-> <<>>, assigned |-> <<>>, counters |-> <<>>]

SetProfile(p, limits) ==      \* createProfile and updateLimits
    /\ Call("profiles")
    /\ s' = [s EXCEPT !.profiles = With(@, p, [limits |-> limits, on |-> TRUE])] /\ UNCHANGED seen
EnableProfile(p, on) ==
    /\ Call("profiles") /\ p \in DOMAIN s.profiles
    /\ s' = [s EXCEPT !.profiles[p].on = on] /\ UNCHANGED seen
RemoveProfile(p) ==
    /\ Call("profiles") /\ p \in DOMAIN s.profiles
    /\ s' = [s EXCEPT !.profiles = Without(@, {p}),
                      !.assigned = Without(@, {k \in DOMAIN @ : @[k] = p})] /\ UNCHANGED seen
AssignProfile(k, p) ==
    /\ Call("profiles") /\ p \in DOMAIN s.profiles
    /\ s' = [s EXCEPT !.assigned = With(@, k, p)] /\ UNCHANGED seen
UnassignProfile(k) ==
    /\ Call("profiles") /\ k \in DOMAIN s.assigned
    /\ s' = [s EXCEPT !.assigned = Without(@, {k})] /\ UNCHANGED seen

NewCounter == [w \in DOMAIN Spans |-> [count |-> 0, start |-> now, admitted |-> 0, high |-> 0]]
Fresh(c) == [w \in DOMAIN Spans |-> IF now - c[w].start >= Spans[w] THEN NewCounter[w] ELSE c[w]]
Reached(c, limits) == \E w \in DOMAIN Spans : limits[w] > 0 /\ c[w].count >= limits[w]

(* Slip: only the span that is shortest counts the call. *)
CountedSpansShort(c) == {w \in DOMAIN Spans : \A v \in DOMAIN Spans : Spans[w] <= Spans[v]}

CountedSpans(c) == DOMAIN Spans

CheckProfile(k) ==
    /\ Call("profiles") /\ k \in DOMAIN s.assigned /\ s.profiles[s.assigned[k]].on
    /\ LET limits == s.profiles[s.assigned[k]].limits
           c == Fresh(IF k \in DOMAIN s.counters THEN s.counters[k] ELSE NewCounter)
           Counted(w) == [c[w] EXCEPT !.count = IF w \in CountedSpans(c) THEN @ + 1 ELSE @,
                                      !.admitted = @ + IF limits[w] > 0 THEN 1 ELSE 0,
                                      !.high = Max({@, limits[w]})]
       IN  s' = [s EXCEPT !.counters = With(@, k,
                   IF Reached(c, limits) THEN c ELSE [w \in DOMAIN Spans |-> Counted(w)])]
    /\ UNCHANGED seen

ResetCounters(k) ==
    /\ Call("profiles") /\ k \in DOMAIN s.counters
    /\ s' = [s EXCEPT !.counters = Without(@, {k})] /\ UNCHANGED seen
-----------------------------------------------------------------------------
Tick == /\ now < MaxClock /\ now' = now + 1 /\ UNCHANGED <<mgr, s, seen, ops>>

Init == /\ now = 0 /\ ops = 0
        /\ \/ QuotaInit \/ BudgetInit \/ BucketInit
           \/ SlidingInit \/ ToolsInit \/ ProfilesInit

QuotaNext ==
    \/ \E k \in Keys \cup {All}, t \in Tools \cup {All}, p \in Periods :
         CreateRule([key |-> k, tool |-> t, period |-> p, limit |-> 2, action |-> "deny",
                     burst |-> IF p = "daily" THEN 50 ELSE 0, live |-> TRUE])
    \/ \E i \in 1..2 : \/ DeleteRule(i) \/ ResetUsage(i)
                       \/ UpdateRule(i, 1, "deny") \/ UpdateRule(i, 2, "warn")
    \/ \E k \in Keys, t \in Tools, n \in Amounts : CheckQuota(k, t, n)
BudgetNext ==
    \/ \E k \in Keys \cup {All}, b \in {<<2, 0>>, <<0, 3>>, <<2, 3>>}, a \in {"deny", "throttle"} :
         CreatePolicy(k, b[1], b[2], a)
    \/ \E p \in 1..MaxRules : DeletePolicy(p)
    \/ \E k \in Keys, c \in Amounts : RecordSpend(k, c)
BucketNext == \E k \in Keys : \/ ResetBucket(k) \/ RemoveBucket(k)
                              \/ \E n \in Amounts : Consume(k, n) \/ SetCapacity(k, n)
SlidingNext == \E k \in Keys : CheckWindow(k) \/ ResetWindow(k)
ToolsNext ==
    \/ \E t \in Tools \cup {All} : \/ RemoveRule(t)
                                   \/ \E w \in {1, 2} : UpsertRule(t, 1, w, TRUE)
                                   \/ UpsertRule(t, 1, 1, FALSE)
    \/ \E k \in Keys : \/ ResetTool({k} \X Tools)
                       \/ \E t \in Tools : CheckTool(k, t) \/ ResetTool({<<k, t>>})
ProfilesNext ==
    \/ \E p \in Tools : \/ RemoveProfile(p) \/ \E on \in BOOLEAN : EnableProfile(p, on)
                        \/ \E l \in [DOMAIN Spans -> {0, 1, 2}] : SetProfile(p, l)
                        \/ \E k \in Keys : AssignProfile(k, p)
    \/ \E k \in Keys : UnassignProfile(k) \/ CheckProfile(k) \/ ResetCounters(k)
Next == \/ QuotaNext \/ BudgetNext \/ BucketNext
        \/ SlidingNext \/ ToolsNext \/ ProfilesNext \/ Tick

Spec == Init /\ [][Next]_vars
-----------------------------------------------------------------------------
(* A rule that denies lets through no more in its period than its limit,  *)
(* burst included, whichever rules apply together, as long as nobody       *)
(* changes it or drops its record.                                         *)
QuotaHonoured == mgr = "quota" => \A i \in RuleIds :
    LET p == s.rules[i].period
        I == {j \in DOMAIN seen : i \in seen[j].rules /\ StartAt(p, seen[j].at) = PeriodStart(p)}
    IN  100 * SumOver(I, LAMBDA j : seen[j].n) <= Ceiling(s.rules[i])

(* What is let through in a day or a month is within the budget of every   *)
(* policy that applied, whatever the policies after it said.               *)
BudgetHonoured == mgr = "budget" => \A p \in DOMAIN s :
    LET Let(period(_)) == SumOver({j \in DOMAIN seen : p \in seen[j].policies
                                                     /\ period(seen[j].at) = period(now)},
                                  LAMBDA j : seen[j].credits)
    IN  /\ s[p].daily > 0 => Let(DayOf) <= s[p].daily
        /\ s[p].monthly > 0 => Let(MonthOf) <= s[p].monthly

(* A bucket gives what it began with and one refill for each interval, and *)
(* who waits as long as it was told to finds the tokens it asked for.      *)
BucketHonoured == mgr = "bucket" => \A k \in DOMAIN s :
    /\ seen[k].taken + s[k].tokens <= seen[k].given + Rate * ((now - seen[k].since) \div Interval)
    /\ now >= seen[k].promise.at /\ seen[k].promise.tokens <= Cap
         => Refilled(s[k]).tokens >= seen[k].promise.tokens

(* The sub-windows that fit into a window admit no more than the limit.    *)
SlidingHonoured == mgr = "sliding" => \A k \in DOMAIN seen :
    Len(SelectSeq(seen[k], LAMBDA x : x > SubWindow - Sub * (Subs - 1) - 1)) <= Admit

(* Under the rules in force a key calls a tool no more often in any window *)
(* than its rule says.                                                     *)
ToolsHonoured == mgr = "tools" => \A kt \in DOMAIN seen :
    LET rule == ResolveRule(kt[2])
    IN  Len(SelectSeq(seen[kt], LAMBDA x : x > now - rule.win)) <= rule.max

(* Whatever profiles a key goes through, a span admits no more calls under *)
(* limits than the largest of them.                                        *)
ProfilesHonoured == mgr = "profiles" => \A k \in DOMAIN s.counters : \A w \in DOMAIN Spans :
    s.counters[k][w].admitted <= s.counters[k][w].high
=============================================================================
