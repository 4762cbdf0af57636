--------------------------- MODULE WebhookManagers ---------------------------
(***************************************************************************)
(* What stands around the delivery of webhooks: the retry queue for        *)
(* embedders (webhook-retry.ts), batches (webhook-batch.ts), a circuit     *)
(* breaker and a rate limit per endpoint (webhook-circuit-breaker.ts,      *)
(* webhook-rate-limiter.ts), the replay of dead letters                    *)
(* (webhook-replay.ts), the log of deliveries (webhook-delivery-log.ts),   *)
(* the router of events (webhook-router.ts) and notifications              *)
(* (notification-manager.ts).  None calls another: a behaviour is the life *)
(* of one of them, `mgr`, and `s` is its state.  `seen` belongs to the     *)
(* observer.  Left out: statistics, templates, tests of prefixes.          *)
(***************************************************************************)
EXTENDS Integers, Sequences, FiniteSets, SequencesExt, FiniteSetsExt

CONSTANTS Urls, Workers,
          MaxEntries,            \* entries, dead letters or events a table holds
          MaxUrls,               \* endpoints a table holds
          MaxAttempts, BaseDelay, MaxDelay,
          BatchSize,
          Threshold, ResetTimeout, HalfOpenSuccesses,
          MaxPerWindow, Window,
          MaxRetries, MaxAge,
          Throttle,
          MaxOps,                \* bound on the calls of each manager
          MaxIds, MaxClock       \* bounds

VARIABLES mgr, s, seen, now, ops

vars == <<mgr, s, seen, now, ops>>

Call(m) == /\ mgr = m /\ ops < MaxOps[m] /\ ops' = ops + 1
           /\ UNCHANGED <<mgr, now>>
Event(m) == mgr = m /\ UNCHANGED <<mgr, now, ops>>   \* a worker, a timer, an answer

Without(f, K) == [k \in DOMAIN f \ K |-> f[k]]
With(f, k, v) == [j \in DOMAIN f \cup {k} |-> IF j = k THEN v ELSE f[j]]
Got(f, k, d) == IF k \in DOMAIN f THEN f[k] ELSE d
-----------------------------------------------------------------------------
(* WebhookRetryManager with workers that take an entry, deliver it and     *)
(* report.  An entry that is taken stays pending.  seen.wins[n] counts the *)
(* deliveries of n, seen.shared holds what two workers had at once.        *)
RetryInit == /\ mgr = "retry" /\ s = [entries |-> <<>>, nextId |-> 1]
             /\ seen = [holds |-> [w \in Workers |-> 0], wins |-> <<>>, shared |-> {}]

(* Slip: a delivered entry is due again. *)
DueAlways(e) == e.next <= now

Due(e) == e.status = "pending" /\ e.next <= now

Backoff(n) == Min({BaseDelay * 2 ^ (n - 1), MaxDelay})

(* Slip: one attempt too many. *)
FailedLate(e) ==
    LET n == e.tries + 1
    IN  IF n > e.max THEN [e EXCEPT !.tries = n, !.status = "dead"]
        ELSE [e EXCEPT !.tries = n, !.next = now + Backoff(n)]

(* Whatever its status was.                                                *)
Failed(e) ==
    LET n == e.tries + 1
    IN  IF n >= e.max THEN [e EXCEPT !.tries = n, !.status = "dead"]
        ELSE [e EXCEPT !.tries = n, !.next = now + Backoff(n)]

Enqueue ==
    /\ Call("retry") /\ Cardinality(DOMAIN s.entries) < MaxEntries
    /\ s' = [entries |-> With(s.entries, s.nextId,
                              [status |-> "pending", tries |-> 0, max |-> MaxAttempts, next |-> now]),
             nextId |-> s.nextId + 1]
    /\ seen' = [seen EXCEPT !.wins = With(@, s.nextId, 0)]
Dequeue(w) ==      \* the one that is due for longest
    /\ Call("retry") /\ seen.holds[w] = 0
    /\ LET due == {n \in DOMAIN s.entries : Due(s.entries[n])}
           first == {n \in due : \A m \in due : s.entries[n].next <= s.entries[m].next}
       IN  /\ due # {}
           /\ seen' = [seen EXCEPT !.holds[w] = Min(first),
                                   !.shared = @ \cup ({Min(first)} \cap {seen.holds[v] : v \in Workers})]
    /\ UNCHANGED s
Report(w, ok) ==      \* markDelivered, markFailed; they throw when the entry is gone
    /\ Event("retry") /\ seen.holds[w] # 0
    /\ LET n == seen.holds[w]
           there == n \in DOMAIN s.entries
       IN  /\ s' = IF ~there THEN s
                   ELSE [s EXCEPT !.entries[n] = IF ok THEN [@ EXCEPT !.status = "delivered", !.tries = @ + 1]
                                                       ELSE Failed(@)]
           /\ seen' = [seen EXCEPT !.holds[w] = 0, !.wins[n] = IF ok THEN @ + 1 ELSE @]
RemoveEntry(n) == /\ Call("retry") /\ n \in DOMAIN s.entries
                  /\ s' = [s EXCEPT !.entries = Without(@, {n})] /\ UNCHANGED seen
PurgeDead == /\ Call("retry") /\ UNCHANGED seen
             /\ s' = [s EXCEPT !.entries = Without(@, {n \in DOMAIN @ : @[n].status = "dead"})]
RetryDead(n) ==
    /\ Call("retry") /\ n \in DOMAIN s.entries /\ s.entries[n].status = "dead"
    /\ s' = [s EXCEPT !.entries[n] = [@ EXCEPT !.status = "pending", !.next = now,
                                               !.max = s.entries[n].tries + MaxAttempts]]
    /\ UNCHANGED seen
-----------------------------------------------------------------------------
(* WebhookBatchProcessor: queues by endpoint.  The observer keeps all      *)
(* events of an endpoint, and what left its queue, batch by batch.         *)
BatchInit == /\ mgr = "batch" /\ s = [queue |-> <<>>, nextId |-> 1]
             /\ seen = [given |-> [u \in Urls |-> <<>>], out |-> [u \in Urls |-> <<>>]]

Queued(u) == Got(s.queue, u, <<>>)

(* Slip: the last event of a batch stays queued. *)
LeftOne(q) == SubSeq(q, Min({BatchSize, Len(q)}), Len(q))

Left(q) == SubSeq(q, BatchSize + 1, Len(q))

Taken(q) == SubSeq(q, 1, Min({BatchSize, Len(q)}))
QueueOf(u, q) == IF q = <<>> THEN Without(s.queue, {u}) ELSE With(s.queue, u, q)

AddToBatch(u) ==
    /\ Call("batch")
    /\ FoldSet(LAMBDA v, n : n + Len(Queued(v)), 0, Urls) < MaxEntries
    /\ LET q == Append(Queued(u), s.nextId)
           full == Len(q) >= BatchSize
       IN  /\ s' = [queue |-> QueueOf(u, IF full THEN Left(q) ELSE q), nextId |-> s.nextId + 1]
           /\ seen' = [given |-> [seen.given EXCEPT ![u] = Append(@, s.nextId)],
                       out |-> [seen.out EXCEPT ![u] = IF full THEN Append(@, Taken(q)) ELSE @]]
FlushUrl(u) ==
    /\ Call("batch") /\ Queued(u) # <<>>
    /\ s' = [s EXCEPT !.queue = QueueOf(u, Left(Queued(u)))]
    /\ seen' = [seen EXCEPT !.out[u] = Append(@, Taken(Queued(u)))]
FlushAll ==      \* the timer; a queue is shorter than a batch, so one empties it
    /\ Event("batch") /\ DOMAIN s.queue # {}
    /\ LET rest == {u \in DOMAIN s.queue : Left(s.queue[u]) # <<>>}
       IN  s' = [s EXCEPT !.queue = [u \in rest |-> Left(@[u])]]
    /\ seen' = [seen EXCEPT !.out = [u \in Urls |->
                  IF Queued(u) = <<>> THEN @[u] ELSE Append(@[u], Taken(Queued(u)))]]
DiscardQueue(u) ==
    /\ Call("batch") /\ Queued(u) # <<>>
    /\ s' = [s EXCEPT !.queue = Without(@, {u})]
    /\ seen' = [seen EXCEPT !.out[u] = Append(@, Queued(u))]
-----------------------------------------------------------------------------
(* WebhookCircuitBreaker.  Outcomes come late: a delivery that was let     *)
(* through may end in any state of the circuit.  The observer keeps until  *)
(* when a circuit that opened is to stay so, the failures in a row, the    *)
(* successes since it was half open, and whether an answer or a closing    *)
(* was wrong by these.                                                     *)
CircuitInit == /\ mgr = "circuit" /\ s = <<>>
               /\ seen = [until |-> <<>>, streak |-> <<>>, good |-> <<>>, wrong |-> FALSE]

Circuit == [state |-> "closed", bad |-> 0, good |-> 0, opened |-> 0, okAt |-> 0, badAt |-> 0]

(* Slip: the moment at which the time is over does not count. *)
LookedLate(c) == IF c.state = "open" /\ now - c.opened > ResetTimeout
                 THEN [c EXCEPT !.state = "half_open", !.good = 0] ELSE c

(* maybeTransitionToHalfOpen; whoever looks at a circuit calls it.         *)
Looked(c) == IF c.state = "open" /\ now - c.opened >= ResetTimeout
             THEN [c EXCEPT !.state = "half_open", !.good = 0] ELSE c

(* The endpoint to evict is the one whose last success, or last failure    *)
(* if it never had one, is longest ago.  Of equals any may go.             *)
LastUse(c) == IF c.okAt > 0 THEN c.okAt ELSE c.badAt
Crowd(f, u) == u \notin DOMAIN f /\ Cardinality(DOMAIN f) >= MaxUrls
Evictable(u) == IF ~Crowd(s, u) THEN {{}}
                ELSE {{v} : v \in {x \in DOMAIN s : \A y \in DOMAIN s : LastUse(s[x]) <= LastUse(s[y])}}

Forgotten(K) == [seen EXCEPT !.until = Without(@, K), !.streak = Without(@, K), !.good = Without(@, K)]

CanSend(u) ==
    /\ Call("circuit") /\ u \in DOMAIN s
    /\ s' = [s EXCEPT ![u] = Looked(@)]
    /\ seen' = [seen EXCEPT !.wrong = @ \/ (s'[u].state = "open" <=> now >= Got(seen.until, u, 0)),
                            !.good = IF s'[u].state # s[u].state THEN With(@, u, 0) ELSE @]

(* Slip: a failure while half open only counts. *)
WithFailureOnce(d) ==
    LET c == [d EXCEPT !.bad = @ + 1, !.badAt = now]
    IN  IF c.state = "closed" /\ c.bad >= Threshold THEN [c EXCEPT !.state = "open", !.opened = now] ELSE c

WithFailure(d) ==
    LET c == [d EXCEPT !.bad = @ + 1, !.badAt = now]
    IN  IF c.state = "half_open" THEN [c EXCEPT !.state = "open", !.opened = now, !.good = 0]
        ELSE IF c.state = "closed" /\ c.bad >= Threshold THEN [c EXCEPT !.state = "open", !.opened = now] ELSE c

WithSuccess(d) ==
    LET c == [d EXCEPT !.bad = 0, !.okAt = now, !.good = IF d.state = "half_open" THEN @ + 1 ELSE @]
    IN  IF c.state = "half_open" /\ c.good >= HalfOpenSuccesses
        THEN [c EXCEPT !.state = "closed", !.opened = 0, !.good = 0] ELSE c

RecordFailure(u) ==
    /\ Call("circuit")
    /\ \E gone \in Evictable(u) :
          LET f == Forgotten(gone)
              c == WithFailure(Got(s, u, Circuit))
          IN  /\ s' = With(Without(s, gone), u, c)
              /\ seen' = [f EXCEPT !.streak = With(@, u, Got(@, u, 0) + 1), !.good = With(@, u, 0),
                                   !.until = IF Got(s, u, Circuit).state # "open" /\
                                                \/ Got(s, u, Circuit).state = "half_open"
                                                \/ Got(f.streak, u, 0) + 1 >= Threshold
                                             THEN With(@, u, now + ResetTimeout) ELSE @]
RecordSuccess(u) ==
    /\ Call("circuit")
    /\ \E gone \in Evictable(u) :
          LET f == Forgotten(gone)
              c == WithSuccess(Got(s, u, Circuit))
              n == Got(f.good, u, 0) + 1
          IN  /\ s' = With(Without(s, gone), u, c)
              /\ seen' = [f EXCEPT !.streak = With(@, u, 0), !.good = With(@, u, n),
                                   !.wrong = @ \/ (Got(s, u, Circuit).state = "half_open" /\ c.state = "closed"
                                                   /\ n < HalfOpenSuccesses)]
ResetCircuit(u) ==
    /\ Call("circuit") /\ u \in DOMAIN s
    /\ s' = [s EXCEPT ![u] = [@ EXCEPT !.state = "closed", !.bad = 0, !.good = 0, !.opened = 0]]
    /\ seen' = Forgotten({u})
RemoveCircuit(u) == Call("circuit") /\ u \in DOMAIN s /\ s' = Without(s, {u}) /\ seen' = Forgotten({u})
-----------------------------------------------------------------------------
(* WebhookRateLimiter: windows of fixed length, and limits of endpoints    *)
(* that an administrator set.  The observer keeps when deliveries were let *)
(* through since the endpoint was reset or evicted, and the largest limit  *)
(* in force since.                                                         *)
RateInit == mgr = "rate" /\ s = [win |-> <<>>, over |-> <<>>] /\ seen = [hits |-> <<>>, top |-> [u \in Urls |-> MaxPerWindow]]

MaxFor(u) == Got(s.over, u, MaxPerWindow)

(* Slip: the count is reset and the window is not. *)
ResetCount(w) == IF now - w.start >= Window THEN [w EXCEPT !.n = 0] ELSE w

Reset(w) == IF now - w.start >= Window THEN [n |-> 0, start |-> now] ELSE w

RecordDelivery(u) ==
    /\ Call("rate")
    /\ \E gone \in IF ~Crowd(s.win, u) THEN {{}}
                   ELSE {{v} : v \in {x \in DOMAIN s.win : \A y \in DOMAIN s.win : s.win[x].start <= s.win[y].start}} :
          LET w == Reset(Got(s.win, u, [n |-> 0, start |-> now]))
              ok == w.n < MaxFor(u)
              hits == Without(seen.hits, gone)
          IN  /\ s' = [s EXCEPT !.win = With(Without(@, gone), u, IF ok THEN [w EXCEPT !.n = @ + 1] ELSE w)]
              /\ seen' = [seen EXCEPT !.hits = IF ok THEN With(hits, u, Append(Got(hits, u, <<>>), now)) ELSE hits]
LookAtRate(u) ==      \* getRetryAfter, getStatus
    /\ Call("rate") /\ u \in DOMAIN s.win
    /\ s' = [s EXCEPT !.win[u] = Reset(@)] /\ UNCHANGED seen
SetOverride(u, n) == /\ Call("rate") /\ s' = [s EXCEPT !.over = With(@, u, n)]
                     /\ seen' = [seen EXCEPT !.top[u] = Max({@, n})]
RemoveOverride(u) == Call("rate") /\ u \in DOMAIN s.over /\ s' = [s EXCEPT !.over = Without(@, {u})] /\ UNCHANGED seen
ResetUrl(u) == /\ Call("rate") /\ u \in DOMAIN s.win
               /\ s' = [s EXCEPT !.win[u] = [n |-> 0, start |-> now]]
               /\ seen' = [seen EXCEPT !.hits = Without(@, {u})]
RemoveUrl(u) == /\ Call("rate") /\ u \in DOMAIN s.win
                /\ s' = [s EXCEPT !.win = Without(@, {u})]
                /\ seen' = [seen EXCEPT !.hits = Without(@, {u})]
-----------------------------------------------------------------------------
(* WebhookReplayManager.  sendRequest is awaited: single replays may run   *)
(* beside each other and beside one replayAll, which goes on with the ids  *)
(* it listed, one after the other.  An entry that was purged lives on in   *)
(* the replays that have it, where nobody sees it.  The observer counts    *)
(* the answers and successes of an entry, keeps the last answer, and what  *)
(* was replayed twice at a time.                                           *)
ReplayInit == /\ mgr = "replay"
              /\ s = [dlq |-> <<>>, nextId |-> 1, single |-> <<>>, bulk |-> <<>>, busy |-> 0]
              /\ seen = [ends |-> <<>>, oks |-> <<>>, last |-> <<>>, twice |-> {}]

InFlight(st, n) == Got(st.single, n, 0) + IF st.busy = n THEN 1 ELSE 0
Replayable(dlq, n) == n \in DOMAIN dlq /\ dlq[n].status \notin {"succeeded", "exhausted"}

RecordDeadLetter ==
    /\ Call("replay")
    /\ LET kept == {n \in DOMAIN s.dlq : s.dlq[n].at >= now - MaxAge}
           young == IF Cardinality(kept) >= MaxEntries THEN kept \ {Min(kept)} ELSE kept
       IN  s' = [s EXCEPT !.dlq = With(Without(@, DOMAIN @ \ young), s.nextId,
                                       [status |-> "pending", tries |-> 0, at |-> now]),
                          !.nextId = @ + 1]
    /\ seen' = [seen EXCEPT !.ends = Append(@, 0), !.oks = Append(@, 0), !.last = Append(@, FALSE)]

Begun(dlq, n) == [dlq EXCEPT ![n] = [@ EXCEPT !.status = "retrying", !.tries = @ + 1]]

Replay(n) ==
    /\ Call("replay") /\ Replayable(s.dlq, n)
    /\ s' = [s EXCEPT !.dlq = Begun(@, n), !.single = With(@, n, Got(@, n, 0) + 1)]
    /\ seen' = [seen EXCEPT !.twice = IF InFlight(s, n) > 0 THEN @ \cup {n} ELSE @]

(* Slip: a last failure leaves the entry pending. *)
AnsweredPending(e, ok) == [e EXCEPT !.status = IF ok THEN "succeeded" ELSE "pending"]

Answered(e, ok) == [e EXCEPT !.status = IF ok THEN "succeeded"
                                        ELSE IF e.tries >= MaxRetries THEN "exhausted" ELSE "pending"]

AfterAnswer(n, ok) == IF n \in DOMAIN s.dlq THEN [s.dlq EXCEPT ![n] = Answered(@, ok)] ELSE s.dlq
Noted(n, ok, two) == [seen EXCEPT !.ends[n] = @ + 1, !.last[n] = ok, !.twice = @ \cup two,
                                    !.oks[n] = IF ok THEN @ + 1 ELSE @]

ReplayEnds(n, ok) ==      \* an answer, an error or the timeout of the request
    /\ Event("replay") /\ Got(s.single, n, 0) > 0
    /\ s' = [s EXCEPT !.dlq = AfterAnswer(n, ok), !.single[n] = @ - 1]
    /\ seen' = Noted(n, ok, {})

(* Slip: what succeeded meanwhile is sent again. *)
NextOfAny(dlq, ids) == SelectSeq(ids, LAMBDA n : n \in DOMAIN dlq)

(* replayAll passes over what cannot be replayed by now.                   *)
NextOf(dlq, ids) == SelectSeq(ids, LAMBDA n : Replayable(dlq, n))

(* The state after replayAll goes on with ids.                             *)
Onward(dlq, ids) ==
    LET left == NextOf(dlq, ids)
    IN  IF left = <<>> THEN [s EXCEPT !.dlq = dlq, !.bulk = <<>>, !.busy = 0]
        ELSE [s EXCEPT !.dlq = Begun(dlq, left[1]),
                       !.bulk = SubSeq(ids, 1 + CHOOSE i \in 0..Len(ids) - 1 : ids[i + 1] = left[1], Len(ids)),
                       !.busy = left[1]]
Doubled(st) == IF st.busy # 0 /\ Got(st.single, st.busy, 0) > 0 THEN {st.busy} ELSE {}

ReplayAll ==
    /\ Call("replay") /\ s.busy = 0
    /\ LET pending == {n \in DOMAIN s.dlq : s.dlq[n].status = "pending"}
       IN  /\ pending # {}
           /\ s' = Onward(s.dlq, SetToSortSeq(pending, <))
    /\ seen' = [seen EXCEPT !.twice = @ \cup Doubled(s')]
ReplayAllGoesOn(ok) ==
    /\ Event("replay") /\ s.busy # 0
    /\ s' = Onward(AfterAnswer(s.busy, ok), Tail(s.bulk))
    /\ seen' = Noted(s.busy, ok, Doubled(s'))
Purge(K) == /\ Call("replay") /\ K \cap DOMAIN s.dlq # {}
            /\ s' = [s EXCEPT !.dlq = Without(@, K)] /\ UNCHANGED seen
PurgeByStatus(st) == Purge({n \in DOMAIN s.dlq : s.dlq[n].status = st})
-----------------------------------------------------------------------------
(* WebhookDeliveryLog: the list of entries, and the map by which they are  *)
(* found.  seen[n] has the attempts for n and whether the last succeeded.  *)
LogInit == mgr = "log" /\ s = [list |-> <<>>, map |-> <<>>] /\ seen = <<>>

(* Slip: what leaves the list stays in the map. *)
UnlistedKept(map, gone) == map

Unlisted(map, gone) == Without(map, gone)

RecordEntry(status) ==
    /\ Call("log")
    /\ LET n == Len(seen) + 1
           list == Append(s.list, n)
           over == Max({0, Len(list) - MaxEntries})
       IN  /\ s' = [list |-> SubSeq(list, over + 1, Len(list)),
                    map |-> Unlisted(With(s.map, n, [status |-> status, tries |-> 1]), {list[i] : i \in 1..over})]
           /\ seen' = Append(seen, [tries |-> 1, ok |-> status = "success"])
RecordRetry(n, status) ==      \* "retrying" when neither error nor code is known
    /\ Call("log") /\ n \in DOMAIN s.map
    /\ s' = [s EXCEPT !.map[n] = [status |-> status, tries |-> @.tries + 1]]
    /\ seen' = [seen EXCEPT ![n] = [tries |-> @.tries + 1, ok |-> status = "success"]]
MarkRetrying(n) ==
    /\ Call("log") /\ n \in DOMAIN s.map
    /\ s' = [s EXCEPT !.map[n].status = "retrying"] /\ UNCHANGED seen
-----------------------------------------------------------------------------
(* WebhookRouter: rules in their order, and an emitter per endpoint with   *)
(* the events it has not delivered (how it delivers: WebhookEmitter); main *)
(* is the emitter of the default endpoint.  A rule matches all events, or  *)
(* those of usage.  The observer counts what each endpoint should get,     *)
(* what it got and what was dropped when no rule named it; moved holds the *)
(* endpoints that rules left since the last deletion.                      *)
RouterInit == /\ mgr = "router" /\ s = [rules |-> <<>>, nextId |-> 1, emit |-> <<>>, up |-> TRUE]
              /\ seen = [due |-> [u \in Urls |-> 0], got |-> [u \in Urls |-> 0],
                         dropped |-> [u \in Urls |-> 0], moved |-> {}]

Named(rules) == {rules[i].url : i \in DOMAIN rules}
WithEmitter(emit, u) == IF u \in DOMAIN emit THEN emit ELSE With(emit, u, 0)

(* Slip: an emitter is kept for active rules only. *)
UsedByActive(rules) == {rules[i].url : i \in {j \in DOMAIN rules : rules[j].on}}

Used(rules) == Named(rules)

AddRule(n, u, all) ==      \* a new rule, or one in the place of n
    /\ Call("router") /\ n \in 1..s.nextId
    /\ s' = [s EXCEPT !.rules = Append(SelectSeq(@, LAMBDA r : r.id # n),
                                       [id |-> n, url |-> u, all |-> all, on |-> TRUE]),
                      !.nextId = Max({@, n + 1}), !.emit = WithEmitter(@, u)]
    /\ seen' = [seen EXCEPT !.moved = @ \cup (Named(s.rules) \ Named(s'.rules))]

(* Slip: the new endpoint gets no emitter. *)
UpdatedEmitters(emit, u) == emit

Emitters(emit, u) == WithEmitter(emit, u)

UpdateRule(i, u, on) ==
    /\ Call("router") /\ i \in DOMAIN s.rules
    /\ s' = [s EXCEPT !.rules[i] = [@ EXCEPT !.url = u, !.on = on],
                      !.emit = IF u = s.rules[i].url THEN @ ELSE Emitters(@, u)]
    /\ seen' = [seen EXCEPT !.moved = @ \cup (Named(s.rules) \ Named(s'.rules))]
Dropped(K) == [u \in Urls |-> seen.dropped[u] + IF u \in K THEN Got(s.emit, u, 0) ELSE 0]
DeleteRule(i) ==
    /\ Call("router") /\ i \in DOMAIN s.rules
    /\ LET rules == RemoveAt(s.rules, i)
       IN  /\ s' = [s EXCEPT !.rules = rules, !.emit = Without(@, DOMAIN @ \ Used(rules))]
           /\ seen' = [seen EXCEPT !.moved = {}, !.dropped = Dropped(Urls \ Named(rules))]
Matching(u, kind) == {i \in DOMAIN s.rules : /\ s.rules[i].on /\ s.rules[i].url = u
                                             /\ s.rules[i].all \/ kind = "usage"}
RouteEvent(kind) ==      \* emit, emitAdmin: once for every rule that matches
    /\ Call("router")
    /\ s' = [s EXCEPT !.emit = [u \in DOMAIN @ |-> @[u] + Cardinality(Matching(u, kind))]]
    /\ seen' = [seen EXCEPT !.due = [u \in Urls |-> @[u] + Cardinality(Matching(u, kind))]]
EmitterDelivers(u) ==
    /\ Event("router") /\ Got(s.emit, u, 0) > 0
    /\ s' = [s EXCEPT !.emit[u] = @ - 1] /\ seen' = [seen EXCEPT !.got[u] = @ + 1]
DestroyRouter ==      \* the rules stay
    /\ Call("router") /\ s.up
    /\ s' = [s EXCEPT !.emit = <<>>, !.up = FALSE]
    /\ seen' = [seen EXCEPT !.moved = {}, !.dropped = Dropped(Urls)]
-----------------------------------------------------------------------------
(* NotificationManager: two rules with lists of channels, tried in the     *)
(* order of their priority; a channel is known by its name, and may be     *)
(* removed and added again.  seen.at has the last notice sent for a rule,  *)
(* channel and key.                                                        *)
NoticeInit == /\ mgr = "notices" /\ seen = [at |-> <<>>, wrong |-> FALSE]
              /\ \E u, v, w \in Urls :
                    s = [chan |-> [c \in Urls |-> TRUE], last |-> <<>>,
                         rules |-> <<[to |-> <<u, v>>, on |-> TRUE], [to |-> <<w>>, on |-> TRUE]>>]

AddChannel(u) == Call("notices") /\ u \notin DOMAIN s.chan /\ s' = [s EXCEPT !.chan = With(@, u, TRUE)] /\ UNCHANGED seen
RemoveChannel(u) == Call("notices") /\ u \in DOMAIN s.chan /\ s' = [s EXCEPT !.chan = Without(@, {u})] /\ UNCHANGED seen
SetChannelEnabled(u, on) == Call("notices") /\ u \in DOMAIN s.chan /\ s' = [s EXCEPT !.chan[u] = on] /\ UNCHANGED seen
SetRuleEnabled(r, on) == Call("notices") /\ s' = [s EXCEPT !.rules[r].on = on] /\ UNCHANGED seen

(* Slip: a notice that is held back counts as the last. *)
StampedAlways(last, c, ok) == With(last, c, now)

Stamped(last, c, ok) == IF ok THEN With(last, c, now) ELSE last

Throttled(last, c) == c \in DOMAIN last /\ now - last[c] < Throttle

(* One channel of one rule after the other, for the key the event is about. *)
Targets(k) == LET of(r) == IF s.rules[r].on THEN [i \in DOMAIN s.rules[r].to |-> <<r, s.rules[r].to[i], k>>] ELSE <<>>
              IN  of(1) \o of(2)
Step(st, c) ==
    IF ~Got(s.chan, c[2], FALSE) THEN st
    ELSE LET ok == ~Throttled(st.last, c)
         IN  [last |-> Stamped(st.last, c, ok), sent |-> IF ok THEN Append(st.sent, c) ELSE st.sent]

Notify(k) ==
    /\ Call("notices")
    /\ LET end == FoldLeft(Step, [last |-> s.last, sent |-> <<>>], Targets(k))
           to == ToSet(end.sent)
       IN  /\ s' = [s EXCEPT !.last = end.last]
           /\ seen' = [at |-> [c \in DOMAIN seen.at \cup to |-> IF c \in to THEN now ELSE seen.at[c]],
                       wrong |-> \/ seen.wrong \/ Len(end.sent) # Cardinality(to)
                                 \/ \E c \in ToSet(Targets(k)) : Got(s.chan, c[2], FALSE) /\
                                       (c \in to <=> c \in DOMAIN seen.at /\ now - seen.at[c] < Throttle)]
-----------------------------------------------------------------------------
Tick == /\ now < MaxClock /\ now' = now + 1 /\ UNCHANGED <<mgr, s, seen, ops>>

Init == /\ now = 1 /\ ops = 0
        /\ \/ RetryInit \/ BatchInit \/ CircuitInit \/ RateInit
           \/ ReplayInit \/ LogInit \/ RouterInit \/ NoticeInit

RetryNext == \/ Enqueue \/ PurgeDead
             \/ \E w \in Workers : Dequeue(w) \/ \E ok \in BOOLEAN : Report(w, ok)
             \/ \E n \in 1..MaxIds : RemoveEntry(n) \/ RetryDead(n)
BatchNext == \/ \E u \in Urls : AddToBatch(u) \/ FlushUrl(u) \/ DiscardQueue(u)
             \/ FlushAll
CircuitNext == \E u \in Urls : \/ CanSend(u) \/ RecordFailure(u) \/ RecordSuccess(u)
                               \/ ResetCircuit(u) \/ RemoveCircuit(u)
RateNext == \E u \in Urls : \/ RecordDelivery(u) \/ LookAtRate(u) \/ RemoveOverride(u) \/ ResetUrl(u) \/ RemoveUrl(u)
                            \/ \E n \in 1..2 : SetOverride(u, n)
ReplayNext == \/ RecordDeadLetter \/ ReplayAll
              \/ \E n \in 1..MaxIds : \/ Replay(n) \/ Purge({n})
                                      \/ \E ok \in BOOLEAN : ReplayEnds(n, ok)
              \/ \E ok \in BOOLEAN : ReplayAllGoesOn(ok)
              \/ \E st \in {"pending", "retrying", "succeeded", "exhausted"} : PurgeByStatus(st)
LogNext == \/ \E status \in {"success", "failed", "pending"} : RecordEntry(status)
           \/ \E n \in 1..MaxIds : \/ MarkRetrying(n)
                                   \/ \E status \in {"success", "failed", "retrying"} : RecordRetry(n, status)
RouterNext == \/ \E u \in Urls, on \in BOOLEAN, n \in 1..MaxIds :
                    UpdateRule(n, u, on) \/ \E all \in BOOLEAN : AddRule(n, u, all)
              \/ \E n \in 1..MaxIds : DeleteRule(n)
              \/ \E kind \in {"usage", "admin"} : RouteEvent(kind)
              \/ (\E u \in Urls : EmitterDelivers(u)) \/ DestroyRouter
NoticeNext == \/ \E u \in Urls : \/ AddChannel(u) \/ RemoveChannel(u)
                                  \/ \E on \in BOOLEAN : SetChannelEnabled(u, on)
              \/ \E r \in 1..2, on \in BOOLEAN : SetRuleEnabled(r, on)
              \/ \E k \in 1..2 : Notify(k)
Next == \/ RetryNext \/ BatchNext \/ CircuitNext \/ RateNext
        \/ ReplayNext \/ LogNext \/ RouterNext \/ NoticeNext \/ Tick

Spec == Init /\ [][Next]_vars
-----------------------------------------------------------------------------
(* Unless two workers had an entry at once it is delivered once, and stays *)
(* so; workers together pass the attempts of an entry by as many as there  *)
(* are beside the first, and an entry waits while it has attempts left.    *)
RetryHonoured == mgr = "retry" => \A n \in DOMAIN s.entries :
    LET e == s.entries[n]
    IN  /\ n \notin seen.shared => seen.wins[n] = IF e.status = "delivered" THEN 1 ELSE 0
        /\ e.tries + Cardinality({w \in Workers : seen.holds[w] = n}) < e.max + Cardinality(Workers)
        /\ e.status = "pending" => e.tries < e.max
        /\ e.status = "dead" => e.tries >= e.max

(* Every event leaves its queue once and in its turn, in batches that are  *)
(* not too large, and no full batch waits.                                 *)
BatchHonoured == mgr = "batch" => \A u \in Urls :
    /\ seen.given[u] = FlattenSeq(seen.out[u]) \o Queued(u)
    /\ Len(Queued(u)) < BatchSize /\ \A i \in DOMAIN seen.out[u] : Len(seen.out[u][i]) <= BatchSize

(* A circuit lets nothing through for its time after it opened, lets       *)
(* through after it, closes after enough successes, and is open or half    *)
(* open once there were enough failures in a row.                          *)
CircuitHonoured == mgr = "circuit" =>
    /\ ~seen.wrong /\ Cardinality(DOMAIN s) <= MaxUrls
    /\ \A u \in DOMAIN s : s[u].state = "closed" => Got(seen.streak, u, 0) < Threshold

(* In its window an endpoint gets no more than its limit, and in any span  *)
(* of that length no more than twice as much.                              *)
RateHonoured == mgr = "rate" => \A u \in DOMAIN seen.hits :
    LET hits == seen.hits[u]
        since(t) == Cardinality({i \in DOMAIN hits : hits[i] >= t})
    IN  /\ u \in DOMAIN s.win /\ since(s.win[u].start) = s.win[u].n
        /\ s.win[u].n <= seen.top[u] /\ since(now - Window + 1) <= 2 * seen.top[u]

(* Every attempt of a dead letter ends and is counted; its state is what   *)
(* the last answer said; and unless it was replayed twice at a time it has *)
(* no more attempts than allowed and is delivered once.                    *)
ReplayHonoured == mgr = "replay" => \A n \in DOMAIN s.dlq :
    LET e == s.dlq[n]
    IN  /\ e.tries = seen.ends[n] + InFlight(s, n)
        /\ e.status = "retrying" => InFlight(s, n) > 0
        /\ InFlight(s, n) = 0 => (e.status = "succeeded" <=> seen.last[n])
        /\ e.status = "pending" => e.tries < MaxRetries
        /\ e.status = "exhausted" => e.tries >= MaxRetries
        /\ n \notin seen.twice => e.tries <= MaxRetries /\ (e.status = "succeeded" <=> seen.oks[n] = 1)

(* The log finds the newest entries, those it lists and no others, and     *)
(* calls none a success whose last attempt was not.                        *)
LogHonoured == mgr = "log" =>
    /\ ToSet(s.list) = DOMAIN s.map /\ Len(s.list) = Min({MaxEntries, Len(seen)})
    /\ \A i \in DOMAIN s.list : s.list[i] = Len(seen) - Len(s.list) + i
    /\ \A n \in DOMAIN s.map : /\ s.map[n].tries = seen[n].tries
                               /\ s.map[n].status = "success" => seen[n].ok

(* While the router is up every endpoint gets, once for each active rule   *)
(* that matches, the events of their time, unless no rule names it when a  *)
(* rule is deleted; only the endpoints that rules left since then have an  *)
(* emitter without a rule.                                                 *)
RouterHonoured == mgr = "router" /\ s.up =>
    /\ \A u \in Urls : seen.due[u] = seen.got[u] + seen.dropped[u] + Got(s.emit, u, 0)
    /\ Named(s.rules) \subseteq DOMAIN s.emit /\ DOMAIN s.emit \ Named(s.rules) \subseteq seen.moved

(* A channel that is there gets a notice, for each rule and key, exactly   *)
(* when the last was sent long enough ago, also after it was removed and   *)
(* added again.                                                            *)
NoticesHonoured == mgr = "notices" => ~seen.wrong
=============================================================================
