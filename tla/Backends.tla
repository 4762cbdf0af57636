------------------------------ MODULE Backends ------------------------------
(***************************************************************************)
(* What decides whether, how often and where a request is sent: rates that *)
(* follow behaviour (adaptive-rate-limiter.ts), canaries                   *)
(* (canary-router.ts), retries (retry-policy.ts), queues by tier           *)
(* (request-priority-router.ts), health of targets (health-monitor.ts) and *)
(* of services (service-discovery.ts), and servers composed of others      *)
(* (virtual-server.ts).  The server configures the first three and never   *)
(* asks them; the others are exported.  None calls another: a behaviour is *)
(* the life of one of them, `mgr`, and `s` is its state.  `seen` belongs   *)
(* to the observer.  Rates are in thousandths.                             *)
(***************************************************************************)
EXTENDS Integers, Sequences, FiniteSets, SequencesExt, FiniteSetsExt, Functions

CONSTANTS Ids,              \* keys
          Servers,          \* targets, upstream servers
          Limit,            \* keys, targets or services a table may hold
          Window,           \* evaluation window, window of the retry budget
          Sample,           \* calls before a rate is adjusted (5) or the budget counts (10)
          Threshold,        \* errorRateThreshold, in percent
          MaxOps, MaxClock  \* bounds: of calls and of time, by manager

VARIABLES mgr, s, seen, now, ops

vars == <<mgr, s, seen, now, ops>>

Call(m) == /\ mgr = m /\ ops < MaxOps[m] /\ ops' = ops + 1
           /\ UNCHANGED <<mgr, now>>
(* What timers and answers do is no call.                                  *)
Event(m) == mgr = m /\ UNCHANGED <<mgr, now, ops>>

Without(f, K) == [k \in DOMAIN f \ K |-> f[k]]
With(f, k, v) == [j \in DOMAIN f \cup {k} |-> IF j = k THEN v ELSE f[j]]
Recent(q) == SelectSeq(q, LAMBDA t : t > now - Window)
Since(q, P(_)) ==        \* how many at the end of q satisfy P
    Len(q) - Max({0} \cup {i \in DOMAIN q : ~P(q[i])})
-----------------------------------------------------------------------------
(* AdaptiveRateLimiter.  `order` is the order in which keys were met.      *)

Never == -100
AdaptiveInit == /\ mgr = "adaptive" /\ seen = <<>>
                /\ \E c \in {<<250, 0>>, <<950, 2>>} :
                      s = [on |-> TRUE, low |-> c[1], high |-> 2000, cool |-> c[2],
                           by |-> <<>>, order |-> <<>>]

NewBehavior == [calls |-> <<>>, errors |-> <<>>, denied |-> 0, mult |-> 1000, at |-> Never]

(* Slip: room is made only beyond the limit.                               *)
EvictedLate(m) == IF Len(m.order) <= Limit THEN m
                  ELSE [m EXCEPT !.by = Without(@, {m.order[1]}), !.order = Tail(@)]

Evicted(m) == IF Len(m.order) < Limit THEN m
              ELSE [m EXCEPT !.by = Without(@, {m.order[1]}), !.order = Tail(@)]
Met(m, k) == IF k \in DOMAIN m.by THEN m
             ELSE LET e == Evicted(m) IN
                  [e EXCEPT !.by = With(@, k, NewBehavior), !.order = Append(@, k)]

Noted(k, what) ==
    LET old == [j \in DOMAIN seen \cap (DOMAIN Met(s, k).by) |-> seen[j]]
        mine == IF k \in DOMAIN old THEN old[k] ELSE [calls |-> <<>>, errors |-> <<>>,
                                                       denied |-> 0, changes |-> <<>>]
    IN  With(old, k, CASE what = "call" -> [mine EXCEPT !.calls = Append(@, now)]
                       [] what = "error" -> [mine EXCEPT !.errors = Append(@, now)]
                       [] what = "denied" -> [mine EXCEPT !.denied = @ + 1])
RecordCall(k) == /\ Call("adaptive") /\ s.on
                 /\ s' = [Met(s, k) EXCEPT !.by[k].calls = Append(@, now)]
                 /\ seen' = Noted(k, "call")
RecordError(k) == /\ Call("adaptive") /\ s.on
                  /\ s' = [Met(s, k) EXCEPT !.by[k].errors = Append(@, now)]
                  /\ seen' = Noted(k, "error")
RecordDenied(k) == /\ Call("adaptive") /\ s.on
                   /\ s' = [Met(s, k) EXCEPT !.by[k].denied = @ + 1]
                   /\ seen' = Noted(k, "denied")

(* Errors tighten the rate, a clean record without a single denial, ever,  *)
(* raises it.  The credits spent decide nothing.                           *)
Target(b) ==
    LET c == Len(b.calls)  e == Len(b.errors) IN
    IF 100 * e > Threshold * c THEN 1000 - (500 * e) \div c
    ELSE IF 100 * e < 5 * c /\ b.denied = 0 THEN 1000 + (300 * (c - e)) \div c
    ELSE 1000

(* Slip: the lower bound is forgotten.                                     *)
ClampedAbove(x) == Min({s.high, x})

Clamped(x) == Max({s.low, Min({s.high, x})})

(* Slip: a change does not begin a cooldown.                               *)
AdjustedAtOnce(b, m) == [b EXCEPT !.mult = m]

Adjusted(b, m) == [b EXCEPT !.mult = m, !.at = now]
Evaluated(b) ==
    IF now - b.at < s.cool THEN b
    ELSE LET p == [b EXCEPT !.calls = Recent(@), !.errors = Recent(@)]
             m == Clamped(Target(p))
         IN  IF Len(p.calls) < Sample \/ (m - b.mult < 50 /\ b.mult - m < 50) THEN p
             ELSE Adjusted(p, m)
Evaluate(K) ==
    /\ Call("adaptive") /\ s.on /\ K \subseteq DOMAIN s.by
    /\ LET after == [k \in DOMAIN s.by |-> IF k \in K THEN Evaluated(s.by[k]) ELSE s.by[k]]
       IN  /\ s' = [s EXCEPT !.by = after]
           /\ seen' = [k \in DOMAIN seen |->
                 IF after[k].mult = s.by[k].mult THEN seen[k]
                 ELSE [seen[k] EXCEPT !.changes = Append(@,
                        [at |-> now, cool |-> s.cool, low |-> s.low, high |-> s.high,
                         calls |-> Len(Recent(seen[k].calls)), denied |-> seen[k].denied,
                         errors |-> Len(Recent(seen[k].errors))])]]
ResetKey(k) == /\ Call("adaptive") /\ k \in DOMAIN s.by
               /\ s' = [s EXCEPT !.by = Without(@, {k}),
                                 !.order = SelectSeq(@, LAMBDA j : j # k)]
               /\ seen' = Without(seen, {k})
(* New bounds apply from the next adjustment on.                           *)
ConfigureRates(on, low, high, cool) ==
    /\ Call("adaptive")
    /\ s' = [s EXCEPT !.on = on, !.low = low, !.high = high, !.cool = cool]
    /\ UNCHANGED seen
GetMultiplier(k) == IF s.on /\ k \in DOMAIN s.by THEN s.by[k].mult ELSE 1000
-----------------------------------------------------------------------------
(* CanaryRouter.  seen: every decision with the weight it was made with,   *)
(* and the enabling it followed.                                           *)

Backends == {"primary", "canary"}
Nobody == [b \in Backends |-> 0]
CanaryInit == /\ mgr = "canary" /\ seen = [routed |-> <<>>, times |-> 0]
              /\ s = [on |-> FALSE, weight |-> 0, calls |-> Nobody, errors |-> Nobody]

Percentage(w) == Min({100, Max({0, w})})

(* Slip: the counts of the last canary go on.                              *)
EnabledOn(w) == [s EXCEPT !.on = TRUE, !.weight = Percentage(w)]

Enabled(w) == [on |-> TRUE, weight |-> Percentage(w), calls |-> Nobody, errors |-> Nobody]
EnableCanary(w) == /\ Call("canary") /\ s' = Enabled(w)
                   /\ seen' = [seen EXCEPT !.times = @ + 1]
DisableCanary == /\ Call("canary") /\ s' = [s EXCEPT !.on = FALSE, !.weight = 0]
                 /\ UNCHANGED seen
SetWeight(w) == /\ Call("canary") /\ s.on /\ s' = [s EXCEPT !.weight = Percentage(w)]
                /\ UNCHANGED seen

(* Slip: a roll may equal the weight.                                      *)
ChosenLoosely(b, roll) == b = IF roll <= s.weight THEN "canary" ELSE "primary"

Chosen(b, roll) == b = IF roll < s.weight THEN "canary" ELSE "primary"
RouteCanary(b) ==
    /\ Call("canary") /\ \E roll \in {0, 50, 99} : Chosen(b, roll)
    /\ s' = [s EXCEPT !.calls[b] = @ + 1]
    /\ seen' = [seen EXCEPT !.routed = Append(@, [to |-> b, weight |-> s.weight, in |-> seen.times,
                                                  failed |-> FALSE])]
(* A request may fail after its canary was replaced.                       *)
CanaryError(n) ==
    /\ Event("canary") /\ n \in DOMAIN seen.routed /\ ~seen.routed[n].failed
    /\ s' = [s EXCEPT !.errors[seen.routed[n].to] = @ + 1]
    /\ seen' = [seen EXCEPT !.routed[n].failed = TRUE]
-----------------------------------------------------------------------------
(* RetryPolicy.  Executions are awaited beside each other; the policy is   *)
(* configured meanwhile.  seen: every start and every retry.               *)

RetryInit == /\ mgr = "retry" /\ seen = <<>>
             /\ s = [max |-> 2, budget |-> 50, traffic |-> <<>>, retries |-> <<>>, runs |-> <<>>,
                     attempts |-> 0, recovered |-> 0, exhausted |-> 0]

ConfigureRetries(max, budget) ==
    Call("retry") /\ s' = [s EXCEPT !.max = max, !.budget = budget] /\ UNCHANGED seen
Execute ==
    /\ Call("retry")
    /\ s' = [s EXCEPT !.traffic = Append(@, now),
                      !.runs = Append(@, [state |-> "running", attempt |-> 0, on |-> s.max > 0,
                                          wake |-> 0, allowed |-> s.max])]
    /\ seen' = Append(seen, [what |-> "start", at |-> now, budget |-> s.budget])

(* Slip: the retries of the window are not counted.                        *)
WithinBudgetAlways == s.budget > 0

WithinBudget ==
    LET traffic == Len(Recent(s.traffic))  retries == Len(Recent(s.retries)) IN
    s.budget >= 100 \/ traffic < Sample \/ 100 * retries < s.budget * traffic
Pruned == IF s.budget >= 100 THEN s
          ELSE [s EXCEPT !.traffic = Recent(@), !.retries = Recent(@)]
(* 1, 2, 4 ticks but no more than 2; with jitter less, as short as none.   *)
Backoff(attempt) == {0, Min({2 ^ attempt, 2})}

Exhausts(n, base) == [base EXCEPT !.runs[n].state = "exhausted", !.exhausted = @ + 1]
Succeed(n) ==
    /\ s.runs[n].state = "running"
    /\ s' = [s EXCEPT !.runs[n].state = "ok",
                      !.recovered = @ + IF s.runs[n].attempt > 0 THEN 1 ELSE 0]
    /\ UNCHANGED seen
Fail(n, retryable) ==
    /\ s.runs[n].state = "running"
    /\ IF ~retryable \/ ~s.runs[n].on
       THEN s' = [s EXCEPT !.runs[n].state = "failed"] /\ UNCHANGED seen
       ELSE IF s.runs[n].attempt >= s.max THEN s' = Exhausts(n, s) /\ UNCHANGED seen
       ELSE IF ~WithinBudget THEN s' = Exhausts(n, Pruned) /\ UNCHANGED seen
       ELSE /\ \E d \in Backoff(s.runs[n].attempt) :
                  s' = [Pruned EXCEPT !.attempts = @ + 1, !.retries = Append(@, now),
                                      !.runs[n].state = "sleeping", !.runs[n].wake = now + d]
            /\ seen' = Append(seen, [what |-> "retry", at |-> now, budget |-> s.budget])
(* Slip: the number of attempts allowed is read once.                      *)
AgainAsPromised(r) == r.attempt <= r.allowed

(* It is read anew after the wait.                                         *)
Again(r) == r.attempt <= s.max
Wake(n) ==
    LET r == [s.runs[n] EXCEPT !.attempt = @ + 1] IN
    /\ r.state = "sleeping" /\ now >= r.wake
    /\ s' = IF Again(r) THEN [s EXCEPT !.runs[n] = [r EXCEPT !.state = "running", !.wake = 0,
                                                               !.allowed = s.max]]
            ELSE Exhausts(n, s)
    /\ UNCHANGED seen
RetryStep(n) == /\ Event("retry") /\ n \in DOMAIN s.runs
                /\ \/ Succeed(n) \/ Wake(n)
                   \/ \E retryable \in BOOLEAN : Fail(n, retryable)
-----------------------------------------------------------------------------
(* RequestPriorityRouter, with two of its four tiers.  seen[n]: what       *)
(* became of request n, and whether one with a better claim was waiting.   *)

Tiers == {0, 2}
Normal == 2
TiersInit == /\ mgr = "tiers" /\ seen = <<>>
             /\ s = [of |-> <<>>, depth |-> <<>>, q |-> [t \in Tiers |-> <<>>],
                     processed |-> [t \in Tiers |-> 0], rejected |-> 0]

TierOf(k) == IF k \in DOMAIN s.of THEN s.of[k] ELSE Normal
SetKeyTier(k, t) == Call("tiers") /\ s' = [s EXCEPT !.of = With(@, k, t)] /\ UNCHANGED seen
RemoveKeyTier(k) == Call("tiers") /\ s' = [s EXCEPT !.of = Without(@, {k})] /\ UNCHANGED seen
SetTierMaxDepth(t, n) ==
    Call("tiers") /\ s' = [s EXCEPT !.depth = With(@, t, n)] /\ UNCHANGED seen

(* Slip: a full queue takes one more.                                      *)
FullLate(t) == Len(s.q[t]) > IF t \in DOMAIN s.depth THEN s.depth[t] ELSE Limit

Full(t) == Len(s.q[t]) >= IF t \in DOMAIN s.depth THEN s.depth[t] ELSE Limit
Enqueue(t) ==
    /\ Call("tiers")
    /\ IF Full(t) THEN s' = [s EXCEPT !.rejected = @ + 1] /\ UNCHANGED seen
       ELSE /\ s' = [s EXCEPT !.q[t] = Append(@, Len(seen) + 1)]
            /\ seen' = Append(seen, [tier |-> t, state |-> "waits", fair |-> TRUE,
                                     among |-> Len(s.q[t]) + 1])

(* Slip: the tiers are asked in the wrong order.                           *)
NextTierLast(q) == Max({t \in Tiers : q[t] # <<>>})

NextTier(q) == Min({t \in Tiers : q[t] # <<>>})
Waiting(log) == {n \in DOMAIN log : log[n].state = "waits"}
Ahead(log, m, n) == log[m].tier < log[n].tier \/ (log[m].tier = log[n].tier /\ m < n)
Dequeued(x) ==
    IF \A t \in Tiers : x.s.q[t] = <<>> THEN x
    ELSE LET t == NextTier(x.s.q)  n == x.s.q[t][1] IN
         [s |-> [x.s EXCEPT !.q[t] = Tail(@), !.processed[t] = @ + 1],
          seen |-> [x.seen EXCEPT ![n].state = "out",
                                  ![n].fair = \A m \in Waiting(x.seen) : ~Ahead(x.seen, m, n)]]
Dequeue(n) ==
    /\ Call("tiers")
    /\ LET x == FoldLeft(LAMBDA y, i : Dequeued(y), [s |-> s, seen |-> seen], [i \in 1 .. n |-> i])
       IN  s' = x.s /\ seen' = x.seen
Gone(I) == [n \in DOMAIN seen |-> IF n \in I THEN [seen[n] EXCEPT !.state = "gone"] ELSE seen[n]]
ClearTier(t) == /\ Call("tiers") /\ s' = [s EXCEPT !.q[t] = <<>>]
                /\ seen' = Gone(ToSet(s.q[t]))
CancelRequest(n) ==
    /\ Call("tiers") /\ \E t \in Tiers : n \in ToSet(s.q[t])
    /\ s' = [s EXCEPT !.q = [t \in Tiers |-> SelectSeq(s.q[t], LAMBDA m : m # n)]]
    /\ seen' = Gone({n})
-----------------------------------------------------------------------------
(* HealthMonitor.  A target has two thresholds, and `every`, its interval; *)
(* changing them leaves its state alone.  seen[id]: its checks.            *)

HealthInit == mgr = "health" /\ s = <<>> /\ seen = <<>>

NewTarget(bad, every) ==
    [worst |-> bad, best |-> 2, every |-> every, active |-> TRUE,
     status |-> "unknown", good |-> 0, bad |-> 0, last |-> Never]
UpsertTarget(id, bad, every, active) ==
    /\ Call("health") /\ (id \in DOMAIN s \/ Cardinality(DOMAIN s) < Limit)
    /\ s' = IF id \in DOMAIN s
            THEN [s EXCEPT ![id].worst = bad, ![id].every = every, ![id].active = active]
            ELSE With(s, id, [NewTarget(bad, every) EXCEPT !.active = active])
    /\ seen' = IF id \in DOMAIN s THEN seen ELSE With(seen, id, <<>>)
RemoveTarget(id) == /\ Call("health") /\ s' = Without(s, {id}) /\ seen' = Without(seen, {id})

(* Slip: one success makes a target healthy.                               *)
StatusAtOnce(t) == IF t.bad >= t.worst THEN "unhealthy"
                   ELSE IF t.bad > 0 THEN "degraded" ELSE "healthy"

Status(t) == IF t.bad >= t.worst THEN "unhealthy"
             ELSE IF t.bad > 0 THEN "degraded"
             ELSE IF t.good >= t.best THEN "healthy" ELSE t.status
Counted(t, ok) == [t EXCEPT !.good = IF ok THEN @ + 1 ELSE 0, !.bad = IF ok THEN 0 ELSE @ + 1,
                            !.last = now]
RecordCheck(id, ok) ==
    /\ Call("health") /\ id \in DOMAIN s
    /\ LET t == Counted(s[id], ok) IN s' = [s EXCEPT ![id] = [t EXCEPT !.status = Status(t)]]
    /\ seen' = [seen EXCEPT ![id] = Append(@, [ok |-> ok, at |-> now])]

OverallHealth ==
    LET is(x) == \E id \in DOMAIN s : s[id].status = x IN
    IF DOMAIN s = {} THEN "unknown" ELSE IF is("unhealthy") THEN "unhealthy"
    ELSE IF is("degraded") THEN "degraded" ELSE IF is("unknown") THEN "unknown" ELSE "healthy"
(* Slip: what was never checked is not due.                                *)
DueLater == {id \in DOMAIN s : s[id].active /\ s[id].last # Never /\ now - s[id].last >= s[id].every}

Due == {id \in DOMAIN s : s[id].active /\ (s[id].last = Never \/ now - s[id].last >= s[id].every)}
-----------------------------------------------------------------------------
(* ServiceDiscovery: services of two names, with the history of their      *)
(* statuses.  seen[id]: every check.                                       *)

Worst == 2
DiscoveryInit == mgr = "discovery" /\ s = [by |-> <<>>, next |-> 1, checks |-> 0] /\ seen = <<>>

RegisterService(name, weight) ==
    /\ Call("discovery") /\ Cardinality(DOMAIN s.by) < Limit
    /\ s' = [s EXCEPT !.next = @ + 1, !.by = With(@, s.next, [name |-> name, weight |-> weight,
                                    status |-> "unknown", bad |-> 0, history |-> <<>>])]
    /\ seen' = Append(seen, <<>>)
DeregisterService(id) == /\ Call("discovery") /\ id \in DOMAIN s.by
                         /\ s' = [s EXCEPT !.by = Without(@, {id})] /\ UNCHANGED seen

(* Slip: the history keeps its oldest entries.                             *)
KeptOldest(history) == IF Len(history) > Limit THEN SubSeq(history, 1, Limit) ELSE history

KeptOf(history) == IF Len(history) > Limit THEN Tail(history) ELSE history
Checked(v, ok) ==
    LET bad == IF ok THEN 0 ELSE v.bad + 1
        status == IF bad >= Worst THEN "unhealthy" ELSE IF bad > 0 THEN "degraded" ELSE "healthy"
    IN  [v EXCEPT !.bad = bad, !.status = status, !.history = KeptOf(Append(@, status))]
CheckHealth(K, up) ==
    /\ Call("discovery") /\ K \subseteq DOMAIN s.by /\ K # {}
    /\ s' = [s EXCEPT !.checks = @ + Cardinality(K),
                      !.by = [id \in DOMAIN s.by |-> IF id \in K THEN Checked(s.by[id], id \in up)
                                                     ELSE s.by[id]]]
    /\ seen' = [id \in DOMAIN seen |-> IF id \in K THEN Append(seen[id], id \in up) ELSE seen[id]]

HealthyServices(name) == {id \in DOMAIN s.by : s.by[id].status = "healthy" /\ s.by[id].name = name}
(* The pick of a roll among the healthy, heaviest first.                   *)
Line(S) == SetToSortSeq(S, LAMBDA a, b : s.by[a].weight > s.by[b].weight
                                          \/ (s.by[a].weight = s.by[b].weight /\ a < b))
PickService(name, roll) ==
    LET q == Line(HealthyServices(name))
        upTo(i) == FoldLeft(LAMBDA n, id : n + s.by[id].weight, 0, SubSeq(q, 1, i))
    IN  q[Min({i \in DOMAIN q : roll <= upTo(i)} \cup {Len(q)})]
Uptime(id) == Cardinality({i \in DOMAIN s.by[id].history : s.by[id].history[i] = "healthy"})
-----------------------------------------------------------------------------
(* VirtualServerComposer.  A discovery asks the upstreams enabled when it  *)
(* began and ends when all have answered; upstreams are added, removed and *)
(* switched meanwhile.  `asked` is who was asked, in order, `got` their    *)
(* answers, a set of tools or a failure.                                   *)

Shared == "shared"                      \* a tool without a prefix
Down == {"down"}
Offers(u) == {{u}, {u, Shared}}
NoDiscovery == [asked |-> <<>>, got |-> <<>>]
VirtualInit ==
    \E partial \in BOOLEAN, first \in Servers :
        /\ mgr = "virtual"
        /\ s = [partial |-> partial, order |-> <<first>>, on |-> [u \in {first} |-> TRUE],
                healthy |-> [u \in {first} |-> FALSE], tools |-> <<>>, at |-> Never, busy |-> FALSE,
                disc |-> NoDiscovery, calls |-> <<>>, requests |-> [u \in Servers |-> 0], errors |-> 0]
        /\ seen = [torn |-> FALSE, heard |-> [u \in Servers |-> FALSE]]

Enabling == SelectSeq(s.order, LAMBDA u : s.on[u])
Begun == [s EXCEPT !.busy = TRUE, !.tools = <<>>, !.disc = [asked |-> Enabling, got |-> <<>>]]
(* Slip: a second discovery begins beside the first.                       *)
MayDiscoverAgain == TRUE

MayDiscover == ~s.busy
Stale == s.at = Never \/ now - s.at > Window \/ s.tools = <<>>

(* One answer after the other is taken in; the health of an upstream that  *)
(* was removed is undefined, which throws and leaves the discovery in      *)
(* progress for ever.  A failure throws unless the server is content with  *)
(* some of the upstreams.                                                  *)
TakenIn(x, u, got) ==
    IF x.end # "none" THEN x
    ELSE IF u \notin DOMAIN x.s.healthy THEN [x EXCEPT !.end = "torn"]
    ELSE IF got = Down
         THEN [x EXCEPT !.s.healthy[u] = FALSE, !.end = IF x.s.partial THEN "none" ELSE "failed"]
    ELSE [x EXCEPT !.s.healthy[u] = TRUE,
                   !.s.tools = [n \in DOMAIN @ \cup got |-> IF n \in got THEN u ELSE @[n]]]
Finished(st, got) ==
    LET x == FoldLeft(LAMBDA y, u : TakenIn(y, u, got[u]),
                      [s |-> [st EXCEPT !.disc = NoDiscovery], end |-> "none"], st.disc.asked)
    IN  CASE x.end = "torn" -> x.s
          [] x.end = "failed" -> [x.s EXCEPT !.busy = FALSE]
          [] OTHER -> [x.s EXCEPT !.busy = FALSE, !.at = now]
Heard(before, st, got) ==
    [seen EXCEPT !.torn = @ \/ st.busy,
                 !.heard = [u \in Servers |-> IF u \in ToSet(before.disc.asked) /\ u \in DOMAIN st.healthy
                                             /\ (got[u] = Down <=> ~st.healthy[u])
                                          THEN got[u] # Down ELSE @[u]]]
Discover == IF Enabling = <<>> THEN s' = Finished(Begun, <<>>) ELSE s' = Begun
DiscoverTools == /\ Call("virtual") /\ MayDiscover /\ Discover /\ UNCHANGED seen
GetTools == /\ Call("virtual") /\ Stale /\ MayDiscover /\ Discover /\ UNCHANGED seen
UpstreamAnswers(u) ==
    /\ Event("virtual") /\ u \in ToSet(s.disc.asked) \ DOMAIN s.disc.got
    /\ \E a \in Offers(u) \cup {Down} :
          LET got == With(s.disc.got, u, a) IN
          IF DOMAIN got # ToSet(s.disc.asked)
          THEN s' = [s EXCEPT !.disc.got = got] /\ UNCHANGED seen
          ELSE s' = Finished(s, got) /\ seen' = Heard(s, s', got)

RouteToolCall(n) ==
    /\ Call("virtual") /\ n \in DOMAIN s.tools
    /\ s.tools[n] \in DOMAIN s.on /\ s.on[s.tools[n]]
    /\ s' = [s EXCEPT !.requests[s.tools[n]] = @ + 1,
                      !.calls = Append(@, [to |-> s.tools[n], state |-> "sent"])]
    /\ UNCHANGED seen
(* Slip: the health of an upstream that left comes back with its failure.  *)
FailedBack(u) == With(s.healthy, u, FALSE)

FailedOf(u) == IF u \in DOMAIN s.healthy THEN [s.healthy EXCEPT ![u] = FALSE] ELSE s.healthy
RoutedAnswer(i, ok) ==
    /\ Event("virtual") /\ i \in DOMAIN s.calls /\ s.calls[i].state = "sent"
    /\ LET u == s.calls[i].to IN
       IF ok THEN s' = [s EXCEPT !.calls[i].state = "ok"] /\ UNCHANGED seen
       ELSE /\ s' = [s EXCEPT !.calls[i].state = "error", !.errors = @ + 1, !.healthy = FailedOf(u)]
            /\ seen' = IF u \in DOMAIN s.healthy THEN [seen EXCEPT !.heard[u] = FALSE] ELSE seen

AddUpstream(u, on) ==
    /\ Call("virtual")
    /\ s' = [s EXCEPT !.order = IF u \in DOMAIN s.on THEN @ ELSE Append(@, u),
                      !.on = With(@, u, on), !.healthy = With(@, u, FALSE), !.at = Never]
    /\ seen' = [seen EXCEPT !.heard[u] = FALSE]
(* Slip: the tools of the upstream stay.                                   *)
ToolsAfterAll(u) == s.tools

ToolsAfter(u) == Without(s.tools, {n \in DOMAIN s.tools : s.tools[n] = u})
RemoveUpstream(u) ==
    /\ Call("virtual") /\ u \in DOMAIN s.on
    /\ s' = [s EXCEPT !.order = SelectSeq(@, LAMBDA v : v # u), !.on = Without(@, {u}),
                      !.healthy = Without(@, {u}), !.tools = ToolsAfter(u)]
    /\ seen' = [seen EXCEPT !.heard[u] = FALSE]
SetUpstreamEnabled(u, on) ==
    /\ Call("virtual") /\ u \in DOMAIN s.on
    /\ s' = [s EXCEPT !.on[u] = on, !.at = Never] /\ UNCHANGED seen
-----------------------------------------------------------------------------
Tick == /\ mgr \in DOMAIN MaxClock /\ now < MaxClock[mgr] /\ now' = now + 1
        /\ UNCHANGED <<mgr, s, seen, ops>>

Init == /\ now = 0 /\ ops = 0
        /\ \/ AdaptiveInit \/ CanaryInit \/ RetryInit \/ TiersInit
           \/ HealthInit \/ DiscoveryInit \/ VirtualInit

AdaptiveNext == /\ mgr = "adaptive"
                /\ \/ \E k \in Ids : \/ RecordCall(k) \/ RecordError(k) \/ RecordDenied(k)
                                     \/ Evaluate({k}) \/ ResetKey(k)
                   \/ Evaluate(DOMAIN s.by)
                   \/ ConfigureRates(FALSE, 250, 2000, 2) \/ ConfigureRates(TRUE, 950, 1100, 0)
CanaryNext == \/ \E w \in {0, 50, 150} : EnableCanary(w) \/ SetWeight(w)
              \/ DisableCanary
              \/ \E b \in Backends : RouteCanary(b)
              \/ \E n \in 1 .. MaxOps["canary"] : CanaryError(n)
(* Bound: no more executions than make the budget count.                   *)
RetryNext == \/ mgr = "retry" /\ Len(s.runs) < Sample /\ Execute
             \/ ConfigureRetries(0, 50) \/ ConfigureRetries(1, 50) \/ ConfigureRetries(2, 100)
             \/ \E n \in 1 .. MaxOps["retry"] : RetryStep(n)
TiersNext == \/ \E k \in Ids : \/ RemoveKeyTier(k)
                               \/ \E t \in Tiers : SetKeyTier(k, t)
             \/ mgr = "tiers" /\ \E k \in Ids : Enqueue(TierOf(k))
             \/ \E t \in Tiers : \/ Enqueue(t) \/ ClearTier(t)
                                 \/ \E n \in {1, 3} : SetTierMaxDepth(t, n)
             \/ \E n \in 1 .. 2 : Dequeue(n)
             \/ mgr = "tiers" /\ \E n \in DOMAIN seen : CancelRequest(n)
HealthNext == \E id \in Servers :
    \/ \E bad \in {1, 2}, every \in {1, 2}, active \in BOOLEAN : UpsertTarget(id, bad, every, active)
    \/ RemoveTarget(id)
    \/ \E ok \in BOOLEAN : RecordCheck(id, ok)
DiscoveryNext == /\ mgr = "discovery"
                 /\ \/ \E name \in Ids, w \in {1, 3} : RegisterService(name, w)
                    \/ \E id \in DOMAIN s.by : \/ DeregisterService(id)
                                               \/ \E up \in {{}, {id}} : CheckHealth({id}, up)
                    \/ \E up \in SUBSET DOMAIN s.by : CheckHealth(DOMAIN s.by, up)
VirtualNext == /\ mgr = "virtual"
               /\ \/ DiscoverTools \/ GetTools
                  \/ \E n \in DOMAIN s.tools : RouteToolCall(n)
                  \/ \E i \in DOMAIN s.calls, ok \in BOOLEAN : RoutedAnswer(i, ok)
                  \/ \E u \in Servers : \/ UpstreamAnswers(u) \/ RemoveUpstream(u)
                                    \/ \E on \in BOOLEAN : AddUpstream(u, on) \/ SetUpstreamEnabled(u, on)
Next == \/ AdaptiveNext \/ CanaryNext \/ RetryNext \/ TiersNext
        \/ HealthNext \/ DiscoveryNext \/ VirtualNext \/ Tick
-----------------------------------------------------------------------------
(* A rate moves at most once in a cooldown, stays between the bounds it    *)
(* was set under, falls only for a key with too many errors in the window  *)
(* and rises only for one never denied; no more keys are tracked than may  *)
(* be, and a switched-off limiter changes nothing.                         *)
AdaptiveHonoured == mgr = "adaptive" =>
    /\ Cardinality(DOMAIN s.by) <= Limit /\ ToSet(s.order) = DOMAIN s.by
    /\ DOMAIN seen = DOMAIN s.by
    /\ \A k \in Ids : ~s.on => GetMultiplier(k) = 1000
    /\ \A k \in DOMAIN seen :
         LET c == seen[k].changes  m == s.by[k].mult IN
         /\ \A i \in 2 .. Len(c) : c[i].at - c[i - 1].at >= c[i].cool
         /\ c = <<>> => m = 1000
         /\ c # <<>> => LET l == c[Len(c)] IN
              /\ m \in l.low .. l.high /\ l.calls >= Sample
              /\ m < 1000 => 100 * l.errors > Threshold * l.calls
              /\ m > 1000 => l.denied = 0 /\ 100 * l.errors <= Threshold * l.calls

(* The counts are those since the canary was enabled, weights of 0 and 100 *)
(* are strict, and a disabled canary gets nothing.                         *)
CanaryHonoured == mgr = "canary" =>
    /\ \A n \in DOMAIN seen.routed :
         IF seen.routed[n].to = "canary" THEN seen.routed[n].weight > 0
                                         ELSE seen.routed[n].weight < 100
    /\ \A b \in Backends :
         LET mine == {n \in DOMAIN seen.routed : seen.routed[n].to = b} IN
         /\ s.calls[b] = Cardinality({n \in mine : seen.routed[n].in = seen.times})
         /\ s.errors[b] <= Cardinality({n \in mine : seen.routed[n].failed})
    /\ s.weight \in 0 .. 100 /\ (~s.on => s.weight = 0)

(* No execution tries more often than the policy allowed when it last      *)
(* tried, none retries over the budget of the window, and every execution  *)
(* is counted where it ended.                                              *)
RetriesHonoured == mgr = "retry" =>
    LET count(P(_)) == Cardinality({n \in DOMAIN s.runs : P(s.runs[n])})
        near(i) == {j \in 1 .. i - 1 : seen[j].at > seen[i].at - Window}
        kind(J, w) == Cardinality({j \in J : seen[j].what = w})
    IN  /\ \A n \in DOMAIN s.runs : s.runs[n].state = "running" => s.runs[n].attempt <= s.runs[n].allowed
        /\ \A n \in DOMAIN s.runs : s.runs[n].attempt > 0 => s.runs[n].on
        /\ \A i \in DOMAIN seen : seen[i].what = "retry" =>
             \/ seen[i].budget >= 100 \/ kind(near(i), "start") < Sample
             \/ 100 * kind(near(i), "retry") < seen[i].budget * kind(near(i), "start")
        /\ s.recovered = count(LAMBDA r : r.state = "ok" /\ r.attempt > 0)
        /\ s.exhausted = count(LAMBDA r : r.state = "exhausted")
        /\ s.attempts = kind(DOMAIN seen, "retry")

(* A request waits in its tier or has left it, one of each tier in the     *)
(* order it came; none leaves while a better one waits, and no queue grows *)
(* over its depth.                                                         *)
TiersHonoured == mgr = "tiers" =>
    /\ \A t \in Tiers :
         /\ ToSet(s.q[t]) = {n \in Waiting(seen) : seen[n].tier = t}
         /\ \A i \in 1 .. Len(s.q[t]) - 1 : s.q[t][i] < s.q[t][i + 1]
         /\ s.processed[t] = Cardinality({n \in DOMAIN seen : seen[n].tier = t /\ seen[n].state = "out"})
    /\ \A n \in DOMAIN seen : seen[n].fair /\ seen[n].among <= Max({Limit, 3})
    /\ \A t \in Tiers : t \notin DOMAIN s.depth => Len(s.q[t]) <= Limit

(* A healthy target passed its last checks, as many as it needs since its  *)
(* last failure; one that is unknown never failed; the system is healthy   *)
(* only if every target is; what is active and late is due.                *)
HealthHonoured == mgr = "health" =>
    /\ \A id \in DOMAIN s :
         LET t == s[id]  bad == Since(seen[id], LAMBDA c : ~c.ok)  good == Since(seen[id], LAMBDA c : c.ok)
             failed == \E i \in DOMAIN seen[id] : ~seen[id][i].ok IN
         /\ t.bad = bad /\ t.good = good
         /\ t.status = "healthy" => bad = 0 /\ good >= t.best
         /\ t.status \in {"unhealthy", "degraded"} => failed /\ good < t.best
         /\ t.status = "unknown" => ~failed
         /\ t.active /\ (seen[id] = <<>> \/ now - seen[id][Len(seen[id])].at >= t.every) => id \in Due
    /\ OverallHealth = "healthy" => s # <<>> /\ \A id \in DOMAIN s : s[id].status = "healthy"
    /\ (\E id \in DOMAIN s : s[id].status = "unhealthy") => OverallHealth # "healthy"
    /\ Cardinality(DOMAIN s) <= Limit

(* A service is healthy if its last check was, and unhealthy after as many *)
(* failures in a row; a pick is a healthy service of the name; the uptime  *)
(* counts the latest checks.                                               *)
DiscoveryHonoured == mgr = "discovery" =>
    /\ \A id \in DOMAIN s.by :
         LET c == seen[id]  n == Len(s.by[id].history) IN
         /\ n = Min({Len(c), Limit})
         /\ Uptime(id) = Cardinality({i \in Len(c) - n + 1 .. Len(c) : c[i]})
         /\ s.by[id].status = "healthy" <=> (c # <<>> /\ c[Len(c)])
         /\ s.by[id].status = "unhealthy" <=> Since(c, LAMBDA x : ~x) >= Worst
    /\ \A name \in Ids, roll \in 0 .. 6 : HealthyServices(name) # {} =>
         LET p == PickService(name, roll) IN s.by[p].name = name /\ seen[p][Len(seen[p])]
    /\ s.checks = FoldSet(LAMBDA id, n : n + Len(seen[id]), 0, DOMAIN seen)

(* Every tool leads to an upstream that is configured, an upstream is      *)
(* healthy if the last thing heard of it was good, calls and errors are    *)
(* counted once, and a discovery that is in progress waits for an answer,  *)
(* unless an upstream was removed under it.                                *)
VirtualHonoured == mgr = "virtual" =>
    /\ \A n \in DOMAIN s.tools : s.tools[n] \in DOMAIN s.on
    /\ DOMAIN s.on = DOMAIN s.healthy /\ DOMAIN s.on = ToSet(s.order)
    /\ \A u \in DOMAIN s.on : s.healthy[u] = seen.heard[u]
    /\ FoldSet(LAMBDA u, n : n + s.requests[u], 0, Servers) = Len(s.calls)
    /\ s.errors = Cardinality({i \in DOMAIN s.calls : s.calls[i].state = "error"})
    /\ s.busy <=> (s.disc.asked # <<>> \/ seen.torn)
=============================================================================
