------------------------------ MODULE UsageLog ------------------------------
(***************************************************************************)
(* What the server remembers of its keys and of the calls made with them:  *)
(* the records of the store, the events of the usage meter, the entries of *)
(* the request log and the audit log.  The reports of module Reports read  *)
(* these four.  A call is one action here: how calls interleave is the     *)
(* subject of CallPipeline.  Names, masks and times of an event are a key  *)
(* and the hour.                                                           *)
(***************************************************************************)
EXTENDS Integers, Sequences, SequencesExt, FiniteSetsExt

CONSTANTS Keys,            \* the keys an administrator creates
          Tools,
          Namespaces,      \* "default" is one
          Groups,
          Price,           \* Price[t]: toolPricing of tool t
          GroupPrice,      \* GroupPrice[g][t]: toolPricing of group g
          Output,          \* Output[t]: the surcharge on an answer of t
          DailyCalls,      \* DailyCalls[k]: dailyCallLimit of a quota, 0 without
          Fund,            \* credits a key gets at once
          Past,            \* Past[k]: calls of k before the first start
          RefundOnFailure, \* refundOnFailure
          MaxEvents,       \* maxEvents of the meter
          MaxLog,          \* maxRequestLogEntries
          Day,             \* hours of a day
          MaxOps           \* bound on what happens

VARIABLES recs,   \* the records, by key
          group,  \* groups.keyToGroup and the active groups
          meter,  \* UsageMeter.events
          log,    \* requestLog
          audit,  \* counts of the audit log, by type and key
          hour,   \* the time
          facts,  \* every call since the start
          before, \* the records at the start
          ops

vars == <<recs, group, meter, log, audit, hour, facts, before, ops>>

NoGroup == "none"

Record(credits, ns, g, expires) ==
    [credits |-> credits, spent |-> 0, calls |-> 0, active |-> TRUE, suspended |-> FALSE,
     used |-> FALSE, ns |-> ns, group |-> g, born |-> hour, expires |-> expires,
     day |-> hour \div Day, dayCalls |-> 0]

(* A key of an earlier start, loaded with what it had spent.               *)
Init == /\ \E k \in Keys :
               recs = [x \in {k} |-> [credits |-> Fund, spent |-> 2 * Past[k], calls |-> Past[k],
                                      active |-> TRUE, suspended |-> FALSE, used |-> TRUE, ns |-> "default",
                                      group |-> NoGroup, born |-> 0, expires |-> 0,
                                      day |-> 0, dayCalls |-> 1]]
        /\ group = [of |-> [k \in Keys |-> NoGroup], alive |-> Groups]
        /\ meter = <<>> /\ log = <<>> /\ facts = <<>>
        /\ audit = [e \in {"created", "revoked", "suspended", "resumed", "cloned"} |->
                        [k \in Keys |-> 0]]
        /\ hour = 0 /\ ops = 0
        /\ before = recs

Op == ops < MaxOps /\ ops' = ops + 1

Expired(r) == r.expires # 0 /\ hour >= r.expires
Usable(k) == recs[k].active /\ ~Expired(recs[k])         \* store.getKey finds it
Noted(e, k) == [audit EXCEPT ![e][k] = @ + 1]
Told == <<meter, log, facts, before, hour>>

---------------------------------------------------------------------------
(* The administrator.                                                      *)

CreateKey(k, n, lives) ==
    /\ Op /\ k \notin DOMAIN recs
    /\ recs' = [x \in DOMAIN recs \cup {k} |->
                    IF x = k THEN Record(Fund, n, NoGroup, IF lives = 0 THEN 0 ELSE hour + lives)
                             ELSE recs[x]]
    /\ audit' = Noted("created", k)
    /\ UNCHANGED <<group, Told>>

(* The clone's record names the group of its source; the table of the      *)
(* groups does not learn of it.                                            *)
CloneKey(k, source) ==
    /\ Op /\ k \notin DOMAIN recs /\ source \in DOMAIN recs /\ recs[source].active
    /\ LET r == recs[source] IN
       recs' = [x \in DOMAIN recs \cup {k} |->
                    IF x = k THEN Record(r.credits, r.ns, r.group, r.expires) ELSE recs[x]]
    /\ audit' = Noted("cloned", k)
    /\ UNCHANGED <<group, Told>>

TopUp(k) == /\ Op /\ Usable(k)
            /\ recs' = [recs EXCEPT ![k].credits = @ + Fund]
            /\ UNCHANGED <<group, audit, Told>>

(* Slip: revoking lifts the suspension.                                     *)
RevokeAndResume(k) == /\ Op
                      /\ recs' = [recs EXCEPT ![k].active = FALSE, ![k].suspended = FALSE]
                      /\ audit' = Noted("revoked", k)
                      /\ UNCHANGED <<group, Told>>
(* A revoked key may be revoked again, which the audit log counts again.   *)
Revoke(k) == /\ Op
             /\ recs' = [recs EXCEPT ![k].active = FALSE]
             /\ audit' = Noted("revoked", k)
             /\ UNCHANGED <<group, Told>>

Suspend(k) == /\ Op /\ recs[k].active /\ ~recs[k].suspended
              /\ recs' = [recs EXCEPT ![k].suspended = TRUE]
              /\ audit' = Noted("suspended", k)
              /\ UNCHANGED <<group, Told>>

Resume(k) == /\ Op /\ recs[k].active /\ recs[k].suspended
             /\ recs' = [recs EXCEPT ![k].suspended = FALSE]
             /\ audit' = Noted("resumed", k)
             /\ UNCHANGED <<group, Told>>

(* Slip: the record is not told.                                           *)
AssignInTable(k, g) == /\ Op /\ Usable(k) /\ g \in group.alive
                       /\ group' = [group EXCEPT !.of[k] = g]
                       /\ UNCHANGED <<recs, audit, Told>>
Assign(k, g) == /\ Op /\ Usable(k) /\ g \in group.alive
                /\ group' = [group EXCEPT !.of[k] = g]
                /\ recs' = [recs EXCEPT ![k].group = g]
                /\ UNCHANGED <<audit, Told>>

(* The record is cleared only if the store still finds the key.            *)
Unassign(k) == /\ Op /\ group.of[k] # NoGroup
               /\ group' = [group EXCEPT !.of[k] = NoGroup]
               /\ recs' = IF Usable(k) THEN [recs EXCEPT ![k].group = NoGroup] ELSE recs
               /\ UNCHANGED <<audit, Told>>

(* The records of the members keep the group's name.                       *)
DeleteGroup(g) == /\ Op /\ g \in group.alive
                  /\ group' = [of |-> [k \in Keys |-> IF group.of[k] = g THEN NoGroup
                                                      ELSE group.of[k]],
                               alive |-> group.alive \ {g}]
                  /\ UNCHANGED <<recs, audit, Told>>

---------------------------------------------------------------------------
(* A call of tool t with key k.                                            *)

(* getToolPrice with a key asks its group first; without one, as the       *)
(* request log does, it is the price of the tool.                          *)
PriceFor(k, t) == IF group.of[k] = NoGroup THEN Price[t] ELSE GroupPrice[group.of[k]][t]

(* Slip: yesterday's count goes on.                                        *)
TodayOn(r) == [r EXCEPT !.day = hour \div Day]
Today(r) == IF r.day = hour \div Day THEN r ELSE [r EXCEPT !.day = hour \div Day, !.dayCalls = 0]

Reason(k, t, limited) ==
    LET r == recs[k] IN
    IF Expired(r) THEN "api_key_expired"
    ELSE IF ~r.active THEN "invalid_api_key"
    ELSE IF r.suspended THEN "key_suspended"
    ELSE IF limited THEN "rate_limited"
    ELSE IF r.credits < PriceFor(k, t) THEN "insufficient_credits"
    ELSE IF DailyCalls[k] > 0 /\ Today(r).dayCalls >= DailyCalls[k] THEN "quota_exceeded"
    ELSE "none"

(* What the gate does to the record: the quota's counters are reset when   *)
(* they are looked at, an allowed call is charged, a refund undoes it.     *)
Looked(k, reason) == IF reason \in {"quota_exceeded", "none"} THEN Today(recs[k]) ELSE recs[k]
Charged(r, n) == [r EXCEPT !.credits = @ - n, !.spent = @ + n, !.calls = @ + 1, !.used = TRUE,
                           !.dayCalls = @ + 1]
(* Slip: what was spent stays spent.                                       *)
RefundedSpent(r, n) == [r EXCEPT !.credits = @ + n, !.calls = Max({0, @ - 1}),
                                 !.dayCalls = Max({0, @ - 1})]
Refunded(r, n) == [r EXCEPT !.credits = @ + n, !.spent = Max({0, @ - n}),
                            !.calls = Max({0, @ - 1}), !.dayCalls = Max({0, @ - 1})]
(* The surcharge on an answer takes what is left of the credits at most.   *)
(* deductCredits adds it to totalSpent and counts a call; the handler adds *)
(* it to totalSpent once more.                                             *)
Extra(r, t) == Min({Output[t], r.credits})
Surcharged(r, n) == IF n = 0 THEN r
                    ELSE [r EXCEPT !.credits = @ - n, !.spent = @ + 2 * n, !.calls = @ + 1]

(* Slip: the newest events are dropped.                                    *)
MeteredOldest(m, e) == LET all == Append(m, e) IN
    IF Len(all) > MaxEvents THEN SubSeq(all, 1, Len(all) - MaxEvents \div 4 - 1) ELSE all
(* The meter drops a quarter of its events when it overflows, the log its  *)
(* oldest entry.                                                           *)
Metered(m, e) == LET all == Append(m, e) IN
    IF Len(all) > MaxEvents THEN SubSeq(all, MaxEvents \div 4 + 1, Len(all)) ELSE all
(* Slip: an entry too many.                                                *)
LoggedOneMore(e) == LET all == Append(log, e) IN
    IF Len(all) > MaxLog + 1 THEN SubSeq(all, Len(all) - MaxLog + 1, Len(all)) ELSE all
Logged(e) == LET all == Append(log, e) IN
    IF Len(all) > MaxLog THEN SubSeq(all, Len(all) - MaxLog + 1, Len(all)) ELSE all

(* recordEvent: a key the store does not find has no name and no namespace.*)
Event(k, t, credits, allowed, reason) ==
    LET known == reason \notin {"api_key_expired", "invalid_api_key"} IN
    [id |-> Len(facts) + 1, key |-> k, name |-> IF known THEN k ELSE "unknown", tool |-> t,
     ns |-> IF known THEN recs[k].ns ELSE "undefined", credits |-> credits,
     allowed |-> allowed, reason |-> reason, hour |-> hour]

(* Slip: an error is listed at the price of the tool.                      *)
EntryPriced(k, t, error, reason, ms) ==
    [id |-> Len(facts) + 1, key |-> k, tool |-> t, allowed |-> ~error,
     credits |-> Price[t], reason |-> IF error THEN reason ELSE "none", ms |-> ms, hour |-> hour]
(* The entry of the request log: an error is a denial for nothing, and     *)
(* everything else is listed at the price of the tool.                     *)
Entry(k, t, error, reason, ms) ==
    [id |-> Len(facts) + 1, key |-> k, tool |-> t, allowed |-> ~error,
     credits |-> IF error THEN 0 ELSE Price[t], reason |-> IF error THEN reason ELSE "none",
     ms |-> ms, hour |-> hour]

(* A call that reaches the gate.  It is denied there, answered, or fails   *)
(* in the backend.                                                         *)
Call(k, t, limited, fails) ==
    /\ Op
    /\ LET reason == Reason(k, t, limited)
           price  == PriceFor(k, t)
           back   == fails /\ RefundOnFailure /\ price > 0
           paid   == Charged(Looked(k, reason), price)
           extra  == IF fails THEN 0 ELSE Extra(paid, t)
           event  == Event(k, t, price, TRUE, "none")
       IN  IF reason # "none"
           THEN /\ ~fails
                /\ recs' = [recs EXCEPT ![k] = Looked(k, reason)]
                /\ meter' = Metered(meter, Event(k, t, 0, FALSE, reason))
                /\ log' = Logged(Entry(k, t, TRUE, reason, 0))
                /\ facts' = Append(facts, [key |-> k, tool |-> t, how |-> "denied", paid |-> 0,
                                           extra |-> 0])
           ELSE /\ recs' = [recs EXCEPT ![k] = IF back THEN Refunded(paid, price)
                                               ELSE Surcharged(paid, extra)]
                /\ meter' = IF back
                            THEN Metered(Metered(meter, event),
                                         [event EXCEPT !.credits = -price, !.reason = "refund"])
                            ELSE Metered(meter, event)
                /\ log' = Logged(Entry(k, t, fails, "failed", 1))
                /\ facts' = Append(facts, [key |-> k, tool |-> t,
                                           how |-> IF ~fails THEN "served"
                                                   ELSE IF back THEN "refunded" ELSE "failed",
                                           paid |-> price, extra |-> extra])
    /\ UNCHANGED <<group, audit, hour, before>>

(* A call answered from the cache, or refused by the open circuit: the     *)
(* gate is not asked, the log tells of it.                                 *)
CallAside(k, t, cached) ==
    /\ Op
    /\ log' = Logged(Entry(k, t, ~cached, "circuit_breaker_open", 0))
    /\ facts' = Append(facts, [key |-> k, tool |-> t, how |-> IF cached THEN "cached" ELSE "broken",
                               paid |-> 0, extra |-> 0])
    /\ UNCHANGED <<recs, group, meter, audit, hour, before>>

(* The records and the groups are kept in files, the rest in memory.       *)
Restart == /\ Op /\ Len(facts) > 0
           /\ meter' = <<>> /\ log' = <<>> /\ facts' = <<>>
           /\ audit' = [e \in DOMAIN audit |-> [k \in Keys |-> 0]]
           /\ before' = recs
           /\ UNCHANGED <<recs, group, hour>>

Tick(d) == /\ Op /\ hour' = hour + d
           /\ UNCHANGED <<recs, group, meter, log, audit, facts, before>>

Next == \/ \E k \in Keys :
              \/ \E n \in Namespaces, lives \in {0, 1} : CreateKey(k, n, lives)
              \/ \E source \in Keys : CloneKey(k, source)
        \/ \E k \in DOMAIN recs :
              \/ TopUp(k) \/ Revoke(k) \/ Suspend(k) \/ Resume(k) \/ Unassign(k)
              \/ \E g \in Groups : Assign(k, g)
              \/ \E t \in Tools : \/ \E limited, fails \in BOOLEAN : Call(k, t, limited, fails)
                                  \/ \E cached \in BOOLEAN : CallAside(k, t, cached)
        \/ \E g \in Groups : DeleteGroup(g)
        \/ Restart
        \/ \E d \in {1, Day} : Tick(d)
=============================================================================
