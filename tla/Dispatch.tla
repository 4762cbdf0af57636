------------------------------ MODULE Dispatch ------------------------------
(***************************************************************************)
(* What stands between a request and its execution: coalescing of equal    *)
(* requests (dedup.ts), queueing by priority (priority-queue.ts), slots    *)
(* with a queue per key (request-throttle.ts), buffering while a backend   *)
(* is away (request-buffer.ts), choice of a backend (load-balancer.ts) and *)
(* fingerprints of requests seen before (request-dedup-engine.ts).  None   *)
(* calls another: a behaviour is the life of one of them, `mgr`, and `s`   *)
(* is its state.  `seen` belongs to the observer.                          *)
(***************************************************************************)
EXTENDS Integers, Sequences, FiniteSets, SequencesExt, FiniteSetsExt, Functions

CONSTANTS Ids,                \* keys: of requests, of callers, names of backends
          Limit,              \* entries, waiting requests or backends a table may hold
          Ttl,                \* ttlMs of an entry
          Wait,               \* maxWaitMs by tier, 1 (high) to Len(Wait)
          Promotion,          \* promotionIntervalMs
          Slots,              \* maxConcurrent
          Errors,             \* errorThreshold
          MaxOps, MaxClock    \* bounds

VARIABLES mgr, s, seen, now, ops

vars == <<mgr, s, seen, now, ops>>

Call(m) == /\ mgr = m /\ ops < MaxOps /\ ops' = ops + 1
           /\ UNCHANGED <<mgr, now>>
(* What timers and awaited functions do is no call. *)
Event(m) == mgr = m /\ UNCHANGED <<mgr, now, ops>>

Without(f, K) == [k \in DOMAIN f \ K |-> f[k]]
With(f, k, v) == [j \in DOMAIN f \cup {k} |-> IF j = k THEN v ELSE f[j]]
Positions(q, test(_)) == {i \in DOMAIN q : test(q[i])}
-----------------------------------------------------------------------------
(* RequestDeduplicator (dedup.ts).  A call repeats a cached result, waits  *)
(* for the flight of an equal one, leads a flight, or runs alone while the *)
(* manager is disabled.                                                    *)
DedupInit == /\ mgr = "dedup" /\ seen = <<>>
             /\ s = [on |-> TRUE, cache |-> <<>>, flights |-> <<>>, order |-> <<>>, calls |-> <<>>]

Cached(i) == i \in DOMAIN s.cache /\ now - s.cache[i].at < Ttl
Entry(i, role, state, by) == [id |-> i, role |-> role, state |-> state, by |-> by]

(* Slip: the flight is not registered until it has landed. *)
TakenOffLate(flights, i, n) == flights

TakenOff(flights, i, n) == With(flights, i, n)

Execute(i) ==
    /\ Call("dedup")
    /\ LET n == Len(s.calls) + 1
           Enter(e) == [s EXCEPT !.calls = Append(@, e)]
       IN  \/ ~s.on /\ s' = Enter(Entry(i, "alone", "pending", n))
           \/ s.on /\ Cached(i) /\ s' = Enter(Entry(i, "repeats", "ok", s.cache[i].by))
           \/ /\ s.on /\ ~Cached(i) /\ i \in DOMAIN s.flights
              /\ s' = Enter(Entry(i, "waits", "pending", s.flights[i]))
           \/ /\ s.on /\ ~Cached(i) /\ i \notin DOMAIN s.flights
              /\ s' = [Enter(Entry(i, "leads", "pending", n))
                         EXCEPT !.flights = TakenOff(@, i, n)]
    /\ UNCHANGED seen

(* Slip: one entry more than the limit is kept. *)
CrowdedLate(cache) == Cardinality(DOMAIN cache) > Limit

Crowded(cache) == Cardinality(DOMAIN cache) >= Limit

(* Entries make room in the order of their insertion.  A key that came     *)
(* back after its entry expired is in that order twice.                    *)
Evict(c) == FoldLeft(LAMBDA e, i : IF Crowded(e.cache)
                                   THEN [cache |-> Without(e.cache, {i}), order |-> Tail(e.order)]
                                   ELSE e, c, c.order)
Stored(i, n) ==
    LET c == Evict([cache |-> s.cache, order |-> s.order])
    IN  [c EXCEPT !.cache = With(@, i, [by |-> n, at |-> now]), !.order = Append(@, i)]

(* The function of a flight settles, and with it all who wait for it; only *)
(* a success is cached.                                                    *)
Settled(n, state) ==
    [m \in DOMAIN s.calls |->
        IF s.calls[m].by = n /\ s.calls[m].state = "pending"
        THEN [s.calls[m] EXCEPT !.state = state] ELSE s.calls[m]]
Land(n, state) ==
    /\ Event("dedup") /\ n \in DOMAIN s.calls
    /\ s.calls[n].state = "pending" /\ s.calls[n].role \in {"leads", "alone"}
    /\ LET i == s.calls[n].id
           leads == s.calls[n].role = "leads"
           kept == IF leads /\ state = "ok" THEN Stored(i, n) ELSE s
       IN  s' = [s EXCEPT !.calls = Settled(n, state), !.cache = kept.cache, !.order = kept.order,
                          !.flights = IF leads THEN Without(@, {i}) ELSE @]
    /\ UNCHANGED seen

EnableDedup(on) == Call("dedup") /\ s' = [s EXCEPT !.on = on] /\ UNCHANGED seen
ClearDedup == Call("dedup") /\ s' = [s EXCEPT !.cache = <<>>, !.order = <<>>] /\ UNCHANGED seen
PruneDedup ==      \* stats prunes
    /\ Call("dedup")
    /\ LET old == {i \in DOMAIN s.cache : s.cache[i].at < now - Ttl}
       IN  s' = [s EXCEPT !.cache = Without(@, old),
                          !.order = SelectSeq(@, LAMBDA i : i \in DOMAIN s.cache \ old)]
    /\ UNCHANGED seen
-----------------------------------------------------------------------------
(* PriorityQueue: the waiting requests in the order of their tiers, and    *)
(* when the promotion timer is due, 0 without one.  seen[n] is what        *)
(* request n was told.                                                     *)
QueueInit == /\ mgr = "queue" /\ seen = <<>>
             /\ s = [on |-> TRUE, q |-> <<>>, tiers |-> <<>>, promoteAt |-> Promotion]

Normal == 2
TierOf(k) == IF k \in DOMAIN s.tiers THEN s.tiers[k] ELSE Normal
SetKeyPriority(k, t) ==
    Call("queue") /\ s' = [s EXCEPT !.tiers = With(@, k, t)] /\ UNCHANGED seen
RemoveKeyPriority(k) ==
    Call("queue") /\ s' = [s EXCEPT !.tiers = Without(@, {k})] /\ UNCHANGED seen

(* Slip: a request goes before those of its own tier. *)
InsertIndexAmongEquals(q, t) == Min(Positions(q, LAMBDA e : e.tier >= t) \cup {Len(q) + 1})

InsertIndex(q, t) == Min(Positions(q, LAMBDA e : e.tier > t) \cup {Len(q) + 1})

(* Tier 0, critical, does not wait, and neither does anybody while the     *)
(* queue is disabled.                                                      *)
Enqueue(k) ==
    /\ Call("queue") /\ s.on /\ TierOf(k) > 0 /\ Len(s.q) < Limit
    /\ LET t == TierOf(k)
           e == [n |-> Len(seen) + 1, tier |-> t, from |-> t, at |-> now, until |-> now + Wait[t]]
       IN  s' = [s EXCEPT !.q = InsertAt(@, InsertIndex(@, t), e)]
    /\ seen' = Append(seen, "waiting")

Told(Q, what) == [n \in DOMAIN seen |-> IF n \in Q THEN what ELSE seen[n]]
Dequeue(n) ==      \* dequeue and dequeueN
    /\ Call("queue") /\ s.q # <<>>
    /\ LET m == Min({n, Len(s.q)})
       IN  /\ s' = [s EXCEPT !.q = SubSeq(@, m + 1, Len(@))]
           /\ seen' = Told({s.q[i].n : i \in 1..m}, "go")

(* Slip: the timer takes the request at the head. *)
TimedOutHead(q, n) == Tail(q)

TimedOut(q, n) == SelectSeq(q, LAMBDA e : e.n # n)

WaitEnds(n) ==
    /\ Event("queue") /\ \E i \in DOMAIN s.q : s.q[i].n = n /\ now >= s.q[i].until
    /\ s' = [s EXCEPT !.q = TimedOut(@, n)]
    /\ seen' = Told({n}, "timed out")

(* Slip: the queue is not sorted again. *)
ByTierLeft(q) == q

ByTier(q) == SortSeq(q, LAMBDA a, b : a.tier < b.tier)

Promote ==
    /\ Event("queue") /\ s.promoteAt > 0 /\ now >= s.promoteAt
    /\ LET Up(e) == [e EXCEPT !.tier = IF now - e.at > Promotion /\ @ > 1 THEN @ - 1 ELSE @]
       IN  s' = [s EXCEPT !.q = ByTier([i \in DOMAIN @ |-> Up(@[i])]),
                          !.promoteAt = now + Promotion]
    /\ UNCHANGED seen

EnableQueue(on) ==
    /\ Call("queue")
    /\ s' = [s EXCEPT !.on = on, !.promoteAt = IF ~on THEN 0
                               ELSE IF @ = 0 THEN now + Promotion ELSE @]
    /\ UNCHANGED seen

DestroyQueue == /\ Call("queue")
                /\ s' = [s EXCEPT !.q = <<>>, !.promoteAt = 0]
                /\ seen' = Told({s.q[i].n : i \in DOMAIN s.q}, "destroyed")
-----------------------------------------------------------------------------
(* RequestThrottleQueue: tickets of a key that run and that wait.  Ids are *)
(* given in order.  The slot of a key is dropped when it is empty, so the  *)
(* eviction of empty slots finds none, and maxKeys is no bound.            *)
ThrottleInit == mgr = "throttle" /\ seen = 1 /\ s = <<>>

SlotOf(k) == IF k \in DOMAIN s THEN s[k] ELSE [active |-> {}, queue |-> <<>>]

(* Slip: queued requests are left to wait for the next arrival. *)
PromotedNot(slot) == slot

Promoted(slot) == IF slot.queue = <<>> THEN slot
                  ELSE [active |-> slot.active \cup {Head(slot.queue)}, queue |-> Tail(slot.queue)]

TryAcquire(k) ==
    /\ Call("throttle")
    /\ LET slot == SlotOf(k)
       IN  \/ /\ Cardinality(slot.active) < Slots
              /\ s' = With(s, k, [slot EXCEPT !.active = @ \cup {seen}])
           \/ /\ Cardinality(slot.active) >= Slots /\ Len(slot.queue) < Limit
              /\ s' = With(s, k, [slot EXCEPT !.queue = Append(@, seen)])
    /\ seen' = seen + 1

ReleaseTicket(k, n) ==
    /\ Call("throttle") /\ k \in DOMAIN s /\ n \in s[k].active
    /\ LET slot == Promoted([s[k] EXCEPT !.active = @ \ {n}])
       IN  s' = IF slot.active = {} /\ slot.queue = <<>> THEN Without(s, {k}) ELSE With(s, k, slot)
    /\ UNCHANGED seen

CancelQueued(k, n) ==
    /\ Call("throttle") /\ k \in DOMAIN s /\ Contains(s[k].queue, n)
    /\ s' = [s EXCEPT ![k].queue = Remove(@, n)] /\ UNCHANGED seen
ClearQueue(k) ==
    /\ Call("throttle") /\ k \in DOMAIN s
    /\ s' = [s EXCEPT ![k].queue = <<>>] /\ UNCHANGED seen
-----------------------------------------------------------------------------
(* RequestBufferQueue.  The observer keeps what became of each request,    *)
(* and the last batch that was handed out until the next request comes.    *)
BufferInit == /\ mgr = "buffer" /\ s = [on |-> FALSE, q |-> <<>>]
              /\ seen = [fate |-> <<>>, batch |-> <<>>]

Buffering(on) == Call("buffer") /\ s' = [s EXCEPT !.on = on] /\ UNCHANGED seen

(* Slip: a request is alive in the moment of its expiry. *)
AliveStill(e) == e.exp = 0 \/ e.exp >= now

Alive(e) == e.exp = 0 \/ e.exp > now

Live(q) == SelectSeq(q, Alive)
Marked(f, Q, what) == [n \in DOMAIN f |-> IF n \in Q THEN what ELSE f[n]]
Numbers(q) == {q[i].n : i \in DOMAIN q}
(* The fates when the expired are pruned and then those of Q get `what`. *)
Fates(Q, what) ==
    Marked(Marked(seen.fate, Numbers(s.q) \ Numbers(Live(s.q)), "expired"), Q, what)

EnqueueBuffered(prio, ttl) ==
    /\ Call("buffer") /\ s.on
    /\ LET q == Live(s.q)
           n == Len(seen.fate) + 1
           e == [n |-> n, prio |-> prio, exp |-> IF ttl > 0 THEN now + ttl ELSE 0]
       IN  IF Len(q) >= Limit
           THEN s' = [s EXCEPT !.q = q] /\ seen' = [seen EXCEPT !.fate = Fates({}, "")]
           ELSE /\ s' = [s EXCEPT !.q = Append(q, e)]
                /\ seen' = [fate |-> Append(Fates({}, ""), "buffered"), batch |-> <<>>]

(* Slip: the oldest leave the queue, whoever was handed out. *)
RemainingOldest(q, batch) == SubSeq(q, Len(batch) + 1, Len(q))

Remaining(q, batch) == SelectSeq(q, LAMBDA e : e.n \notin Numbers(batch))

(* Higher priority first, then the older one (priorityDrain). *)
Ranked(q) == SortSeq(q, LAMBDA a, b : a.prio > b.prio \/ (a.prio = b.prio /\ a.n < b.n))

Drain(count, on) ==      \* drainBatch, and drain, which stops the buffering
    /\ Call("buffer")
    /\ LET q == Live(s.q)
           batch == SubSeq(Ranked(q), 1, Min({count, Len(q)}))
       IN  /\ s' = [on |-> on, q |-> Remaining(q, batch)]
           /\ seen' = [fate |-> Fates(Numbers(batch), "drained"),
                       batch |-> [i \in DOMAIN batch |-> [e |-> batch[i], at |-> now]]]
RemoveBuffered(n) ==
    /\ Call("buffer") /\ n \in Numbers(s.q)
    /\ s' = [s EXCEPT !.q = SelectSeq(@, LAMBDA e : e.n # n)]
    /\ seen' = [seen EXCEPT !.fate[n] = "removed"]
DiscardAll == /\ Call("buffer") /\ s' = [s EXCEPT !.q = <<>>]
              /\ seen' = [seen EXCEPT !.fate = Marked(@, Numbers(s.q), "removed")]
PeekBuffered == /\ Call("buffer") /\ s' = [s EXCEPT !.q = Live(@)]
                /\ seen' = [seen EXCEPT !.fate = Fates({}, "")]
-----------------------------------------------------------------------------
(* LoadBalancer.  The observer keeps the picks since the set of healthy    *)
(* backends last changed, how many connections are open by name, and the   *)
(* names that once lost a backend with open connections.                   *)
Strategies == {"round-robin", "least-connections", "random"}
BalancerInit == /\ mgr = "balancer" /\ s = [backs |-> <<>>, next |-> 0, strategy |-> "round-robin"]
                /\ seen = [picks |-> <<>>, open |-> [i \in Ids |-> 0], orphaned |-> {}]

Back(i) == Positions(s.backs, LAMBDA b : b.name = i)
Healthy == SelectSeq(s.backs, LAMBDA b : b.healthy)

AddBackend(i) ==
    /\ Event("balancer") /\ Back(i) = {} /\ Len(s.backs) < Limit   \* not counted in ops
    /\ s' = [s EXCEPT !.backs = Append(@, [name |-> i, healthy |-> TRUE, conns |-> 0, errors |-> 0])]
    /\ seen' = [seen EXCEPT !.picks = <<>>]
RemoveBackend(i) ==
    /\ Call("balancer") /\ Back(i) # {}
    /\ s' = [s EXCEPT !.backs = SelectSeq(@, LAMBDA b : b.name # i)]
    /\ seen' = [seen EXCEPT !.picks = <<>>,
                            !.orphaned = IF seen.open[i] > 0 THEN @ \cup {i} ELSE @]
SetStrategy(x) ==
    /\ Call("balancer") /\ s' = [s EXCEPT !.strategy = x] /\ seen' = [seen EXCEPT !.picks = <<>>]

(* Slip: the index is not brought back into the list that has shrunk. *)
TurnStuck(next, len) == Min({next, len - 1})

Turn(next, len) == next % len

(* pick, and the connect of the caller with the backend it was given; a    *)
(* weighted choice is a random one.                                        *)
Pick(i) ==
    /\ Call("balancer") /\ Healthy # <<>>
    /\ LET turn == Turn(s.next, Len(Healthy))
           least == {j \in DOMAIN Healthy :
                       \A h \in DOMAIN Healthy : Healthy[j].conns <= Healthy[h].conns}
       IN  /\ CASE s.strategy = "round-robin" -> i = Healthy[turn + 1].name
                [] s.strategy = "least-connections" -> i = Healthy[Min(least)].name
                [] OTHER -> \E j \in DOMAIN Healthy : i = Healthy[j].name
           /\ s' = [s EXCEPT !.next = IF s.strategy = "round-robin" THEN turn + 1 ELSE @,
                             !.backs = [j \in DOMAIN @ |-> IF @[j].name = i
                                        THEN [@[j] EXCEPT !.conns = @ + 1] ELSE @[j]]]
    /\ seen' = [seen EXCEPT !.picks = IF s.strategy = "round-robin" THEN Append(@, i) ELSE @,
                            !.open[i] = @ + 1]

(* Slip: recordRequest counts the connection down as well. *)
FewerByTwo(b) == [b EXCEPT !.conns = IF @ > 1 THEN @ - 2 ELSE 0]

Fewer(b) == [b EXCEPT !.conns = IF @ > 0 THEN @ - 1 ELSE 0]

Failed(b) == [b EXCEPT !.errors = @ + 1, !.healthy = @ /\ b.errors + 1 < Errors]

(* The caller records the outcome and disconnects; both fail, and change   *)
(* nothing, when the backend is gone.                                      *)
Finish(i, error) ==
    /\ Call("balancer") /\ seen.open[i] > 0
    /\ LET Done(b) == IF b.name # i THEN b ELSE IF error THEN Fewer(Failed(b)) ELSE Fewer(b)
           backs == [j \in DOMAIN s.backs |-> Done(s.backs[j])]
       IN  /\ s' = [s EXCEPT !.backs = backs]
           /\ seen' = [seen EXCEPT !.open[i] = @ - 1,
                                   !.picks = IF \E j \in Back(i) : s.backs[j].healthy # backs[j].healthy
                                             THEN <<>> ELSE @]

SetHealth(i, healthy) ==
    /\ Call("balancer") /\ Back(i) # {}
    /\ s' = [s EXCEPT !.backs = [j \in DOMAIN @ |-> IF @[j].name # i THEN @[j]
               ELSE [@[j] EXCEPT !.healthy = healthy, !.errors = IF healthy THEN 0 ELSE @]]]
    /\ seen' = [seen EXCEPT !.picks = <<>>]
-----------------------------------------------------------------------------
(* RequestDeduplicator (request-dedup-engine.ts): seen[i] is when i was    *)
(* recorded last, for those no call has dropped.                           *)
FingerprintInit == mgr = "fingerprints" /\ seen = <<>> /\ s = <<>>

Known(f) == {i \in DOMAIN f : f[i].exp > now}
Stalest(f) == {i \in DOMAIN f : \A j \in DOMAIN f : f[i].first <= f[j].first}

(* Slip: a repetition does not prolong the record. *)
RepeatedShort(r) == [r EXCEPT !.count = @ + 1]

Repeated(r) == [r EXCEPT !.count = @ + 1, !.exp = now + Ttl]

RecordFingerprint(i) ==
    /\ Call("fingerprints")
    /\ IF i \in Known(s)
       THEN s' = [s EXCEPT ![i] = Repeated(@)] /\ seen' = With(seen, i, now)
       ELSE LET kept == IF Cardinality(DOMAIN s) >= Limit THEN Without(s, DOMAIN s \ Known(s)) ELSE s
            IN  \E gone \in IF Cardinality(DOMAIN kept) >= Limit
                            THEN {{j} : j \in Stalest(kept)} ELSE {{}} :
                  /\ s' = With(Without(kept, gone), i, [first |-> now, count |-> 1, exp |-> now + Ttl])
                  /\ seen' = With(Without(seen, gone), i, now)
CheckFingerprint ==      \* isDuplicate and check prune whatever is asked
    /\ Call("fingerprints") /\ s' = Without(s, DOMAIN s \ Known(s)) /\ UNCHANGED seen
DropFingerprints(I) ==   \* expire, and clearKey
    /\ Call("fingerprints") /\ s' = Without(s, I) /\ seen' = Without(seen, I)
-----------------------------------------------------------------------------
Tick == /\ now < MaxClock /\ now' = now + 1 /\ UNCHANGED <<mgr, s, seen, ops>>

Init == /\ now = 0 /\ ops = 0
        /\ \/ DedupInit \/ QueueInit \/ ThrottleInit
           \/ BufferInit \/ BalancerInit \/ FingerprintInit

DedupNext == \/ \E i \in Ids : Execute(i)
             \/ \E n \in 1..MaxOps, state \in {"ok", "error"} : Land(n, state)
             \/ \E on \in BOOLEAN : EnableDedup(on)
             \/ ClearDedup \/ PruneDedup
QueueNext == \/ \E k \in Ids : \/ Enqueue(k) \/ RemoveKeyPriority(k)
                               \/ \E t \in 0..Len(Wait) : SetKeyPriority(k, t)
             \/ \E n \in 1..MaxOps : WaitEnds(n)
             \/ \E n \in {1, 2} : Dequeue(n)
             \/ \E on \in BOOLEAN : EnableQueue(on)
             \/ Promote \/ DestroyQueue
ThrottleNext == \E k \in Ids : \/ TryAcquire(k) \/ ClearQueue(k)
                               \/ \E n \in 1..MaxOps : ReleaseTicket(k, n) \/ CancelQueued(k, n)
BufferNext == \/ \E on \in BOOLEAN : Buffering(on)
              \/ \E p \in {0, 1}, ttl \in {0, Ttl} : EnqueueBuffered(p, ttl)
              \/ Drain(1, s.on) \/ Drain(Limit, FALSE) \/ DiscardAll \/ PeekBuffered
              \/ \E n \in 1..MaxOps : RemoveBuffered(n)
BalancerNext == \/ \E i \in Ids : \/ AddBackend(i) \/ RemoveBackend(i) \/ Pick(i)
                                  \/ \E x \in BOOLEAN : Finish(i, x) \/ SetHealth(i, x)
                \/ \E x \in Strategies : SetStrategy(x)
FingerprintNext == \/ \E i \in Ids : RecordFingerprint(i)
                   \/ \E I \in SUBSET Ids \ {{}} : DropFingerprints(I)
                   \/ CheckFingerprint
Next == \/ DedupNext \/ QueueNext \/ ThrottleNext
        \/ BufferNext \/ BalancerNext \/ FingerprintNext \/ Tick

Spec == Init /\ [][Next]_vars
-----------------------------------------------------------------------------
(* Equal requests never run twice at a time, nobody waits for a call that  *)
(* is over, a shared result is that of an equal call that succeeded, and   *)
(* the order of insertion knows every entry, without which the eviction    *)
(* could not keep the cache in its bound.                                  *)
DedupHonoured == mgr = "dedup" =>
    LET Running(n, role) == s.calls[n].role = role /\ s.calls[n].state = "pending"
    IN  /\ \A m, n \in DOMAIN s.calls :
              Running(m, "leads") /\ Running(n, "leads") /\ s.calls[m].id = s.calls[n].id => m = n
        /\ \A n \in DOMAIN s.calls : Running(n, "waits") => Running(s.calls[n].by, "leads")
        /\ \A n \in DOMAIN s.calls : s.calls[n].state = "ok" =>
              s.calls[s.calls[n].by].state = "ok" /\ s.calls[s.calls[n].by].id = s.calls[n].id
        /\ \A i \in DOMAIN s.cache : s.calls[s.cache[i].by].state = "ok"
        /\ DOMAIN s.cache \subseteq ToSet(s.order) /\ Cardinality(DOMAIN s.cache) <= Limit

(* The queue is in the order of tiers through promotions, timeouts and     *)
(* changes of priorities, nobody overtakes an older request of the tier it *)
(* came in with, and who waits is in the queue, exactly once.              *)
QueueHonoured == mgr = "queue" =>
    /\ \A i, j \in DOMAIN s.q : i < j =>
          /\ s.q[i].tier <= s.q[j].tier
          /\ s.q[i].from = s.q[j].from => s.q[i].n < s.q[j].n
    /\ Numbers(s.q) = {n \in DOMAIN seen : seen[n] = "waiting"}
    /\ Cardinality(Numbers(s.q)) = Len(s.q)

(* A key runs no more requests than it has slots, none waits while a slot  *)
(* is free, and none is overtaken.                                         *)
ThrottleHonoured == mgr = "throttle" => \A k \in DOMAIN s :
    /\ s[k].active # {} /\ Cardinality(s[k].active) <= Slots
    /\ s[k].queue # <<>> => Cardinality(s[k].active) = Slots
    /\ \A a \in s[k].active, i \in DOMAIN s[k].queue : a < s[k].queue[i]

(* A request is in the buffer until it is handed out, expires or is        *)
(* removed; what is handed out has not expired and comes before what       *)
(* stays.                                                                  *)
BufferHonoured == mgr = "buffer" =>
    LET b == seen.batch
    IN  /\ Numbers(s.q) = {n \in DOMAIN seen.fate : seen.fate[n] = "buffered"}
        /\ Len(s.q) <= Limit
        /\ \A i \in DOMAIN b : b[i].e.exp = 0 \/ b[i].at < b[i].e.exp
        /\ \A i \in DOMAIN b, j \in DOMAIN s.q :
              \/ b[i].e.prio > s.q[j].prio
              \/ b[i].e.prio = s.q[j].prio /\ b[i].e.n < s.q[j].n

(* Round robin gives every healthy backend its turn, whatever happened to  *)
(* the list before; a backend that failed too often is not healthy; and    *)
(* the connections of a backend are those its callers hold, unless one     *)
(* with its name was removed under them.                                   *)
BalancerHonoured == mgr = "balancer" =>
    /\ \A i, j \in DOMAIN seen.picks :
          i < j /\ j < i + Len(Healthy) => seen.picks[i] # seen.picks[j]
    /\ \A j \in DOMAIN s.backs :
          LET b == s.backs[j]
          IN  /\ b.errors >= Errors => ~b.healthy
              /\ b.conns <= seen.open[b.name]
              /\ b.name \notin seen.orphaned => b.conns = seen.open[b.name]

(* A fingerprint is known for its time to live after it was last recorded. *)
FingerprintsHonoured == mgr = "fingerprints" =>
    /\ \A i \in DOMAIN seen : now < seen[i] + Ttl => i \in Known(s)
    /\ Cardinality(DOMAIN s) <= Limit
=============================================================================
