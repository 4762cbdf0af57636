------------------------------ MODULE KeyLife ------------------------------
(***************************************************************************)
(* The managers of the life of keys: their states (key-lifecycle.ts),      *)
(* scheduled rotation (key-rotation.ts), rotation by age                   *)
(* (key-rotation-policy.ts), grace periods (grace-period.ts), deprecation  *)
(* (key-deprecation.ts), parents and children (key-hierarchy.ts),          *)
(* migrations between tiers (key-migration.ts) and groups                  *)
(* (key-group-manager.ts).  None calls another: a behaviour is the life of *)
(* one of them, `mgr`, and `s` is its state.  `seen` belongs to the        *)
(* observer.  Left out: destroy, names, tags, notes and histories for      *)
(* reports.                                                                *)
(***************************************************************************)
EXTENDS Integers, Sequences, FiniteSets, SequencesExt, FiniteSetsExt, Functions

CONSTANTS Keys,
          Limit,              \* keys, periods or members a table may hold
          MaxHistory,         \* maxHistoryPerKey
          Interval, Grace,    \* of a rotation, and of the grace after it
          MaxExtensions,
          MaxDepth, Amounts,  \* depth of a hierarchy; credits
          MaxOps, MaxClock    \* bounds

VARIABLES mgr, s, seen, now, ops

vars == <<mgr, s, seen, now, ops>>

Call(m) == /\ mgr = m /\ ops < MaxOps /\ ops' = ops + 1
           /\ UNCHANGED <<mgr, now>>

Without(f, K) == [k \in DOMAIN f \ K |-> f[k]]
With(f, k, v) == [j \in DOMAIN f \cup {k} |-> IF j = k THEN v ELSE f[j]]
-----------------------------------------------------------------------------
(* KeyLifecycleManager.  An expiry of 0 is none.  seen[k] is what the last *)
(* isValid said of k: when, and what the expiry was.                       *)
LifecycleInit == mgr = "lifecycle" /\ seen = <<>> /\ s = [keys |-> <<>>, events |-> <<>>, expired |-> 0]

Transitions == {<<"created", "active">>, <<"created", "revoked">>, <<"active", "suspended">>,
                <<"active", "expired">>, <<"active", "revoked">>, <<"suspended", "active">>,
                <<"suspended", "revoked">>}

(* Slip: a key lives through the moment of its expiry. *)
LapsedLate(r) == r.state = "active" /\ r.exp > 0 /\ now > r.exp

Lapsed(r) == r.state = "active" /\ r.exp > 0 /\ now >= r.exp

(* Whoever looks at a key expires it; this event is not trimmed.           *)
Looked(st, K) ==
    LET over == {k \in K \cap DOMAIN st.keys : Lapsed(st.keys[k])}
    IN  [keys |-> [k \in DOMAIN st.keys |->
                      IF k \in over THEN [st.keys[k] EXCEPT !.state = "expired"] ELSE st.keys[k]],
         events |-> [k \in DOMAIN st.events |->
                      IF k \in over THEN Append(st.events[k], <<"active", "expired">>) ELSE st.events[k]],
         expired |-> st.expired + Cardinality(over)]

(* Slip: the newest events are trimmed. *)
TrimmedNew(ev) == SubSeq(ev, 1, Min({MaxHistory, Len(ev)}))

Trimmed(ev) == IF Len(ev) > MaxHistory THEN SubSeq(ev, Len(ev) - MaxHistory + 1, Len(ev)) ELSE ev

Moved(st, k, to) ==
    LET step == <<st.keys[k].state, to>>
    IN  IF step \notin Transitions THEN st
        ELSE [st EXCEPT !.keys[k].state = to, !.events[k] = Trimmed(Append(@, step))]

CreateKey(k, life, autoActivate) ==
    /\ Call("lifecycle") /\ k \notin DOMAIN s.keys /\ Cardinality(DOMAIN s.keys) < Limit
    /\ LET r == [state |-> "created", exp |-> IF life = 0 THEN 0 ELSE now + life]
           st == [s EXCEPT !.keys = With(@, k, r), !.events = With(@, k, <<>>)]
       IN  s' = IF autoActivate THEN Moved(Looked(st, {k}), k, "active") ELSE st
    /\ seen' = Without(seen, {k})
Transition(k, to) ==      \* activate, suspend, revoke; reactivate of a suspended key
    /\ Call("lifecycle") /\ k \in DOMAIN s.keys
    /\ s' = Moved(Looked(s, {k}), k, to) /\ UNCHANGED seen
IsValid(k) ==
    /\ Call("lifecycle") /\ k \in DOMAIN s.keys
    /\ s' = Looked(s, {k})
    /\ seen' = With(seen, k, [valid |-> s'.keys[k].state = "active", at |-> now, exp |-> s.keys[k].exp])
LookAtKeys == Call("lifecycle") /\ s' = Looked(s, Keys) /\ UNCHANGED seen   \* expireKeys, listKeys, stats
DeleteKey(k) ==
    /\ Call("lifecycle") /\ k \in DOMAIN s.keys /\ s.keys[k].state \in {"revoked", "created"}
    /\ s' = [s EXCEPT !.keys = Without(@, {k}), !.events = Without(@, {k})]
    /\ seen' = Without(seen, {k})
-----------------------------------------------------------------------------
(* KeyRotationScheduler with one policy; prev is the key a grace is for.   *)
(* The observer keeps when the graces were last swept, the keys that were  *)
(* reported as over, all keys that had a schedule and those that had more  *)
(* than one.                                                               *)
NoKey == "none"
RotationInit == /\ mgr = "rotation" /\ seen = [swept |-> 0, over |-> {}, had |-> {}, again |-> {}]
                /\ \E grace \in {0, Grace} :
                      s = [policy |-> TRUE, active |-> TRUE, grace |-> grace, sched |-> <<>>]

Schedule(prev, grace) == [next |-> now + Interval, prev |-> IF grace > 0 THEN prev ELSE NoKey,
                          ends |-> IF grace > 0 THEN now + grace ELSE 0]
Had(k) == [seen EXCEPT !.had = @ \cup {k}, !.again = @ \cup ({k} \cap seen.had)]

UpsertPolicy(active, grace) ==
    /\ Call("rotation") /\ s' = [s EXCEPT !.policy = TRUE, !.active = active, !.grace = grace]
    /\ UNCHANGED seen
RemovePolicy == Call("rotation") /\ s.policy /\ s' = [s EXCEPT !.policy = FALSE] /\ UNCHANGED seen
ScheduleKey(k) ==
    /\ Call("rotation") /\ s.policy /\ s.active
    /\ s' = [s EXCEPT !.sched = With(@, k, Schedule(NoKey, 0))]
    /\ seen' = Had(k)
UnscheduleKey(k) ==
    /\ Call("rotation") /\ k \in DOMAIN s.sched
    /\ s' = [s EXCEPT !.sched = Without(@, {k})] /\ UNCHANGED seen

(* Slip: the schedule of the old key stays. *)
HandedOverTwice(sched, k, new) == With(sched, new, Schedule(k, s.grace))

HandedOver(sched, k, new) == With(Without(sched, {k}), new, Schedule(k, s.grace))

(* A policy that is not active still rotates the keys it has.              *)
Rotate(k, new) ==
    /\ Call("rotation") /\ k \in DOMAIN s.sched /\ s.policy
    /\ s' = [s EXCEPT !.sched = HandedOver(@, k, new)]
    /\ seen' = Had(new)

(* Slip: a grace that ends at this moment is left. *)
GraceOverLate(r) == r.prev # NoKey /\ r.ends < now

GraceOver(r) == r.prev # NoKey /\ r.ends <= now

ExpireGracePeriods ==
    /\ Call("rotation")
    /\ LET over == {k \in DOMAIN s.sched : GraceOver(s.sched[k])}
       IN  /\ s' = [s EXCEPT !.sched = [k \in DOMAIN @ |->
                      IF k \in over THEN [@[k] EXCEPT !.prev = NoKey, !.ends = 0] ELSE @[k]]]
           /\ seen' = [seen EXCEPT !.swept = now, !.over = @ \cup {s.sched[k].prev : k \in over}]

ValidInRotation(k) == k \in DOMAIN s.sched \/ \E j \in DOMAIN s.sched : s.sched[j].prev = k
-----------------------------------------------------------------------------
(* APIKeyRotationPolicy with one policy; seen[k] is when k was rotated     *)
(* last.                                                                   *)
AgesInit == mgr = "ages" /\ seen = <<>> /\ s = [policy |-> TRUE, keys |-> <<>>]

PolicyOfAges(on) == Call("ages") /\ s' = [s EXCEPT !.policy = on] /\ UNCHANGED seen
RegisterKey(k) ==
    /\ Call("ages") /\ s.policy /\ Cardinality(DOMAIN s.keys) < Limit
    /\ s' = [s EXCEPT !.keys = With(@, k, [next |-> now + Interval, count |-> 0, status |-> "current"])]
    /\ seen' = With(seen, k, now)
UnregisterKey(k) ==
    /\ Call("ages") /\ s' = [s EXCEPT !.keys = Without(@, {k})] /\ seen' = Without(seen, {k})

(* Slip: the status waits for somebody to look. *)
RotatedOnly(r) == [r EXCEPT !.count = @ + 1, !.next = now + Interval]

Rotated(r) == [r EXCEPT !.count = @ + 1, !.next = now + Interval, !.status = "current"]

RecordRotation(k, new) ==
    /\ Call("ages") /\ k \in DOMAIN s.keys /\ s.policy
    /\ s' = [s EXCEPT !.keys = With(Without(@, {k}), new, Rotated(s.keys[k]))]
    /\ seen' = With(Without(seen, {k}), new, now)

Aged(r) == [r EXCEPT !.status = IF now < r.next THEN "current"
                                ELSE IF Grace > 0 /\ now >= r.next + Grace THEN "overdue" ELSE "due"]
LookAtAges(K) ==      \* getKey, getKeysDueForRotation, getKeysUpcomingRotation, getStats
    /\ Call("ages") /\ s.policy
    /\ s' = [s EXCEPT !.keys = [k \in DOMAIN @ |-> IF k \in K THEN Aged(@[k]) ELSE @[k]]]
    /\ UNCHANGED seen
-----------------------------------------------------------------------------
(* GracePeriodManager: the periods in the order of their start, and the    *)
(* one each key is known by.  `seen` holds the periods that were reported  *)
(* as over.                                                                *)
GraceInit == mgr = "grace" /\ seen = {} /\ s = [policy |-> TRUE, periods |-> <<>>, of |-> <<>>]

Active(n) == s.periods[n].state = "active"
LiveCount == Cardinality({n \in DOMAIN s.periods : Active(n) /\ now < s.periods[n].exp})

(* Slip: a key may start a period while its last one is active. *)
MayStartTwice(k) == s.policy /\ LiveCount < Limit

MayStart(k) == /\ s.policy /\ LiveCount < Limit
               /\ k \in DOMAIN s.of => ~Active(s.of[k])

DefineGracePolicy(on) == Call("grace") /\ s' = [s EXCEPT !.policy = on] /\ UNCHANGED seen
StartGracePeriod(k) ==
    /\ Call("grace") /\ MayStart(k)
    /\ LET p == [key |-> k, at |-> now, exp |-> now + Grace, ext |-> 0, state |-> "active", ended |-> 0]
       IN  s' = [s EXCEPT !.periods = Append(@, p), !.of = With(@, k, Len(s.periods) + 1)]
    /\ UNCHANGED seen
CheckGrace(k) ==
    /\ Call("grace") /\ k \in DOMAIN s.of
    /\ LET n == s.of[k]
           p == s.periods[n]
           over == ~Active(n) \/ now >= p.exp
       IN  /\ s' = IF Active(n) /\ over
                   THEN [s EXCEPT !.periods[n].state = "expired", !.periods[n].ended = now] ELSE s
           /\ seen' = IF over THEN seen \cup {n} ELSE seen

(* Slip: a period that is over may be extended. *)
MayExtendAny(p) == p.ext < MaxExtensions

MayExtend(p) == p.ext < MaxExtensions /\ p.state = "active"

(* Without a length of its own an extension is as long as the policy says, *)
(* or as the period was when the policy is gone.  A period nobody checked  *)
(* since its end may be extended.                                          *)
ExtendGrace(k, more) ==
    /\ Call("grace") /\ k \in DOMAIN s.of
    /\ LET n == s.of[k]
           p == s.periods[n]
           d == IF more > 0 THEN more ELSE IF s.policy THEN Grace ELSE p.exp - p.at
       IN  /\ MayExtend(p)
           /\ s' = [s EXCEPT !.periods[n] = [p EXCEPT !.exp = @ + d, !.ext = @ + 1]]
    /\ UNCHANGED seen
CancelGrace(k) ==
    /\ Call("grace") /\ k \in DOMAIN s.of /\ Active(s.of[k])
    /\ s' = [s EXCEPT !.periods[s.of[k]].state = "cancelled", !.periods[s.of[k]].ended = now]
    /\ seen' = seen \cup {s.of[k]}
-----------------------------------------------------------------------------
(* APIKeyDeprecation.  The observer keeps, of a key, its first sunset date *)
(* and when it was last looked at.                                         *)
DeprecationInit == mgr = "deprecation" /\ seen = <<>> /\ s = <<>>

Deprecate(k, d) ==
    /\ Call("deprecation") /\ k \notin DOMAIN s /\ Cardinality(DOMAIN s) < Limit
    /\ s' = With(s, k, [status |-> "deprecated", sunset |-> now + d])
    /\ seen' = With(seen, k, [first |-> now + d, look |-> now, ended |-> FALSE])
CancelDeprecation(k) ==
    /\ Call("deprecation") /\ k \in DOMAIN s /\ s' = Without(s, {k}) /\ seen' = Without(seen, {k})
ExpireKey(k) == /\ Call("deprecation") /\ k \in DOMAIN s
                /\ s' = [s EXCEPT ![k].status = "expired"] /\ seen' = [seen EXCEPT ![k].ended = TRUE]
ExtendSunset(k, d) ==
    /\ Call("deprecation") /\ k \in DOMAIN s
    /\ s' = [s EXCEPT ![k].sunset = now + d]
    /\ seen' = [seen EXCEPT ![k].first = Min({@, now + d})]

(* Slip: an expired key goes back to sunset. *)
SunsetOf(r) == IF now >= r.sunset THEN "sunset" ELSE r.status

UpdatedStatus(r) == IF r.status # "expired" /\ now >= r.sunset THEN "sunset" ELSE r.status

(* A sunset that is extended after it was reached stays a sunset.          *)
LookAtDeprecated(K) ==
    /\ Call("deprecation")
    /\ s' = [k \in DOMAIN s |-> IF k \in K THEN [s[k] EXCEPT !.status = UpdatedStatus(s[k])] ELSE s[k]]
    /\ seen' = [k \in DOMAIN seen |-> IF k \in K THEN [seen[k] EXCEPT !.look = now] ELSE seen[k]]
-----------------------------------------------------------------------------
(* KeyHierarchyManager: relations by child, and the index of children.     *)
(* The observer keeps the children whose ceiling was set below their use,  *)
(* and the last export with them.                                          *)
HierarchyInit == /\ mgr = "hierarchy" /\ s = [rel |-> <<>>, kids |-> <<>>]
                 /\ seen = [low |-> {}, saved |-> <<>>]

Reach(next(_), k) ==      \* all that is reached from k in one step or more
    LET step[n \in 0..Cardinality(Keys)] ==
            IF n = 0 THEN {k} ELSE UNION {next(j) : j \in step[n - 1]}
    IN  UNION {step[n] : n \in 1..Cardinality(Keys)}
Parents(k) == IF k \in DOMAIN s.rel THEN {s.rel[k].parent} ELSE {}
Kids(k) == IF k \in DOMAIN s.kids THEN s.kids[k] ELSE {}
Ancestors(k) == Reach(Parents, k)
Depth(k) == Cardinality(Ancestors(k))

(* Slip: a descendant may become the parent. *)
MayAdoptAny(c, p) == /\ c # p /\ c \notin DOMAIN s.rel /\ Depth(p) + 1 <= MaxDepth
                     /\ Cardinality(Kids(p)) < Limit

(* The depth of the parent is compared, whatever hangs below the child.    *)
MayAdopt(c, p) == /\ c # p /\ c \notin DOMAIN s.rel /\ Depth(p) + 1 <= MaxDepth
                  /\ Cardinality(Kids(p)) < Limit /\ c \notin Ancestors(p)

CreateRelation(c, p, ceiling) ==
    /\ Call("hierarchy") /\ MayAdopt(c, p)
    /\ s' = [rel |-> With(s.rel, c, [parent |-> p, ceil |-> ceiling, used |-> 0]),
             kids |-> With(s.kids, p, Kids(p) \cup {c})]
    /\ UNCHANGED seen

(* Slip: the keys below a removed child keep their relations. *)
GoneWithAlone(c) == {c}

GoneWith(c) == {c} \cup Reach(Kids, c)

RemoveRelation(c) ==
    /\ Call("hierarchy") /\ c \in DOMAIN s.rel
    /\ LET gone == GoneWith(c)
           left(p) == s.kids[p] \ gone
       IN  s' = [rel |-> Without(s.rel, gone),
                 kids |-> [p \in {q \in DOMAIN s.kids \ gone : left(q) # {}} |-> left(p)]]
    /\ seen' = [seen EXCEPT !.low = @ \cap DOMAIN s'.rel]

(* Slip: the ceiling is compared with what was used before. *)
OverCeilingLate(r, n) == r.ceil > 0 /\ r.used >= r.ceil

OverCeiling(r, n) == r.ceil > 0 /\ r.used + n > r.ceil

RecordUsage(c, n) ==
    /\ Call("hierarchy") /\ c \in DOMAIN s.rel /\ ~OverCeiling(s.rel[c], n)
    /\ s' = [s EXCEPT !.rel[c].used = @ + n] /\ UNCHANGED seen
RefundUsage(c, n) ==
    /\ Call("hierarchy") /\ c \in DOMAIN s.rel
    /\ s' = [s EXCEPT !.rel[c].used = Max({0, @ - n})] /\ UNCHANGED seen
SetCreditCeiling(c, n) ==
    /\ Call("hierarchy") /\ c \in DOMAIN s.rel
    /\ s' = [s EXCEPT !.rel[c].ceil = n]
    /\ seen' = [seen EXCEPT !.low = IF n > 0 /\ s.rel[c].used > n THEN @ \cup {c} ELSE @]
ExportRelations == /\ Call("hierarchy") /\ UNCHANGED s
                   /\ seen' = [seen EXCEPT !.saved = <<[rel |-> s.rel, low |-> seen.low]>>]

(* Slip: the index keeps what it had. *)
IndexOfAndBefore(rel) ==
    [p \in {rel[c].parent : c \in DOMAIN rel} \cup DOMAIN s.kids |->
        Kids(p) \cup {c \in DOMAIN rel : rel[c].parent = p}]

IndexOf(rel) == [p \in {rel[c].parent : c \in DOMAIN rel} |-> {c \in DOMAIN rel : rel[c].parent = p}]

ImportRelations ==      \* of what was exported
    /\ Call("hierarchy") /\ seen.saved # <<>>
    /\ LET rel == seen.saved[1].rel IN s' = [rel |-> rel, kids |-> IndexOf(rel)]
    /\ seen' = [seen EXCEPT !.low = seen.saved[1].low]
-----------------------------------------------------------------------------
(* KeyMigrationManager.  The handler of the embedding program succeeds for *)
(* some keys, fails for others.  seen[n][k] counts its calls.              *)
MigrationInit == mgr = "migration" /\ seen = <<>> /\ s = <<>>

Planned(n) == n \in DOMAIN s /\ s[n].status = "planned"
PlanMigration(K) ==
    /\ Call("migration") /\ Cardinality({n \in DOMAIN s : s[n].status # "removed"}) < Limit
    /\ s' = Append(s, [keys |-> K, status |-> "planned", done |-> {}, failed |-> {}])
    /\ seen' = Append(seen, [k \in Keys |-> [up |-> 0, back |-> 0]])
ExecuteMigration(n, ok) ==
    /\ Call("migration") /\ Planned(n) /\ ok \subseteq s[n].keys
    /\ LET failed == s[n].keys \ ok
       IN  s' = [s EXCEPT ![n] = [@ EXCEPT !.done = ok, !.failed = failed,
                                           !.status = IF failed = {} THEN "completed" ELSE "failed"]]
    /\ seen' = [seen EXCEPT ![n] = [k \in Keys |-> IF k \in ok THEN [@[k] EXCEPT !.up = @ + 1] ELSE @[k]]]

(* Slip: every key of the plan is rolled back. *)
ToRollBackAll(m) == m.keys

ToRollBack(m) == m.done

(* Slip: what was rolled back may be rolled back again. *)
MayRollBackAgain(m) == m.status \in {"completed", "failed", "rolled_back"}

MayRollBack(m) == m.status \in {"completed", "failed"}

RollbackMigration(n) ==
    /\ Call("migration") /\ n \in DOMAIN s /\ MayRollBack(s[n])
    /\ s' = [s EXCEPT ![n].status = "rolled_back"]
    /\ seen' = [seen EXCEPT ![n] = [k \in Keys |->
                  IF k \in ToRollBack(s[n]) THEN [@[k] EXCEPT !.back = @ + 1] ELSE @[k]]]
RemoveMigration(n) == /\ Call("migration") /\ n \in DOMAIN s /\ s[n].status # "removed"
                      /\ s' = [s EXCEPT ![n].status = "removed"] /\ UNCHANGED seen
-----------------------------------------------------------------------------
(* KeyGroupManager: the members of each group and the groups of each key.  *)
GroupsInit == mgr = "groups" /\ seen = 0 /\ s = [members |-> <<>>, of |-> <<>>]

(* Slip: keys are not told that their group is gone. *)
UnlinkedNot(of, K, g) == of

Unlinked(of, K, g) ==
    LET left(k) == IF k \in K THEN of[k] \ {g} ELSE of[k]
    IN  [k \in {j \in DOMAIN of : left(j) # {}} |-> left(k)]

CreateGroup == /\ Call("groups") /\ Cardinality(DOMAIN s.members) < Limit
               /\ s' = [s EXCEPT !.members = With(@, seen + 1, {})] /\ seen' = seen + 1
DeleteGroup(g) ==
    /\ Call("groups") /\ g \in DOMAIN s.members
    /\ s' = [members |-> Without(s.members, {g}), of |-> Unlinked(s.of, s.members[g], g)]
    /\ UNCHANGED seen
AddKeyToGroup(g, k) ==
    /\ Call("groups") /\ g \in DOMAIN s.members
    /\ k \notin s.members[g] /\ Cardinality(s.members[g]) < Limit
    /\ s' = [members |-> [s.members EXCEPT ![g] = @ \cup {k}],
             of |-> With(s.of, k, {g} \cup IF k \in DOMAIN s.of THEN s.of[k] ELSE {})]
    /\ UNCHANGED seen
RemoveKeyFromGroup(g, k) ==
    /\ Call("groups") /\ g \in DOMAIN s.members /\ k \in s.members[g]
    /\ s' = [members |-> [s.members EXCEPT ![g] = @ \ {k}], of |-> Unlinked(s.of, {k}, g)]
    /\ UNCHANGED seen
-----------------------------------------------------------------------------
Tick == /\ now < MaxClock /\ now' = now + 1 /\ UNCHANGED <<mgr, s, seen, ops>>

Init == /\ now = 0 /\ ops = 0
        /\ \/ LifecycleInit \/ RotationInit \/ AgesInit \/ GraceInit
           \/ DeprecationInit \/ HierarchyInit \/ MigrationInit \/ GroupsInit

LifecycleNext == \/ \E k \in Keys : \/ IsValid(k) \/ DeleteKey(k)
                                    \/ \E life \in 0..2, on \in BOOLEAN : CreateKey(k, life, on)
                                    \/ \E to \in {"active", "suspended", "revoked"} : Transition(k, to)
                 \/ LookAtKeys
RotationNext == \/ \E k \in Keys : \/ ScheduleKey(k) \/ UnscheduleKey(k)
                                   \/ \E new \in Keys : Rotate(k, new)
                \/ \E active \in BOOLEAN, grace \in {0, Grace} : UpsertPolicy(active, grace)
                \/ RemovePolicy \/ ExpireGracePeriods
AgesNext == \/ \E k \in Keys : \/ RegisterKey(k) \/ UnregisterKey(k) \/ LookAtAges({k})
                               \/ \E new \in Keys : RecordRotation(k, new)
            \/ \E on \in BOOLEAN : PolicyOfAges(on)
            \/ LookAtAges(Keys)
GraceNext == \/ \E k \in Keys : \/ StartGracePeriod(k) \/ CheckGrace(k) \/ CancelGrace(k)
                                \/ \E more \in {0, 1} : ExtendGrace(k, more)
             \/ \E on \in BOOLEAN : DefineGracePolicy(on)
DeprecationNext == \/ \E k \in Keys : \/ CancelDeprecation(k) \/ ExpireKey(k) \/ LookAtDeprecated({k})
                                      \/ \E d \in 1..2 : Deprecate(k, d) \/ ExtendSunset(k, d)
                   \/ LookAtDeprecated(Keys)
HierarchyNext == \/ \E c \in Keys : \/ \E p \in Keys, n \in Amounts \cup {0} : CreateRelation(c, p, n)
                                    \/ \E n \in Amounts : RecordUsage(c, n) \/ RefundUsage(c, n)
                                    \/ \E n \in Amounts \cup {0} : SetCreditCeiling(c, n)
                                    \/ RemoveRelation(c)
                 \/ ExportRelations \/ ImportRelations
MigrationNext == \/ \E K \in SUBSET Keys \ {{}} : PlanMigration(K)
                 \/ \E n \in 1..MaxOps : \/ RollbackMigration(n) \/ RemoveMigration(n)
                                         \/ \E ok \in SUBSET Keys : ExecuteMigration(n, ok)
GroupsNext == \/ CreateGroup
              \/ \E g \in 1..MaxOps : \/ DeleteGroup(g)
                                      \/ \E k \in Keys : AddKeyToGroup(g, k) \/ RemoveKeyFromGroup(g, k)
Next == \/ LifecycleNext \/ RotationNext \/ AgesNext \/ GraceNext
        \/ DeprecationNext \/ HierarchyNext \/ MigrationNext \/ GroupsNext \/ Tick

Spec == Init /\ [][Next]_vars
-----------------------------------------------------------------------------
(* A key's events are the way to its state, by legal transitions only and  *)
(* within one of the limit; a key that is called valid is in its time; and *)
(* what expired stays so.                                                  *)
LifecycleHonoured == mgr = "lifecycle" =>
    /\ \A k \in DOMAIN s.keys :
          LET ev == s.events[k]
          IN  /\ s.keys[k].state = IF ev = <<>> THEN "created" ELSE ev[Len(ev)][2]
              /\ \A i \in DOMAIN ev : /\ ev[i] \in Transitions
                                      /\ i > 1 => ev[i][1] = ev[i - 1][2]
              /\ Len(ev) <= MaxHistory + 1
              /\ s.keys[k].state = "expired" => now >= s.keys[k].exp
    /\ s.expired = Cardinality({k \in DOMAIN s.keys : s.keys[k].state = "expired"})
    /\ \A k \in DOMAIN seen : seen[k].valid => seen[k].exp = 0 \/ seen[k].at < seen[k].exp

(* A grace outlives no sweep after its end, and a key whose grace was      *)
(* reported as over is not valid unless it had another schedule.           *)
RotationHonoured == mgr = "rotation" =>
    /\ \A k \in DOMAIN s.sched : s.sched[k].prev # NoKey => s.sched[k].ends > seen.swept
    /\ \A k \in seen.over : ValidInRotation(k) => k \in seen.again

(* A key that is reported as due, or overdue, was not rotated for as long, *)
(* under whatever names it went.                                           *)
AgesHonoured == mgr = "ages" =>
    /\ DOMAIN seen = DOMAIN s.keys /\ Cardinality(DOMAIN s.keys) <= Limit
    /\ \A k \in DOMAIN s.keys :
          /\ s.keys[k].status # "current" => now >= seen[k] + Interval
          /\ s.keys[k].status = "overdue" => now >= seen[k] + Interval + Grace

(* A key has one active period at most, and it is the one the key is known *)
(* by, so that it can end; a period is over once it is reported so, and    *)
(* none expires before its time.                                           *)
GraceHonoured == mgr = "grace" =>
    /\ \A n \in DOMAIN s.periods : Active(n) => s.of[s.periods[n].key] = n
    /\ \A n \in seen : ~Active(n)
    /\ \A n \in DOMAIN s.periods :
          LET p == s.periods[n]
          IN  p.ext <= MaxExtensions /\ (p.state = "expired" => p.ended >= p.exp)

(* A key is a sunset only after a date that was announced for it, is not   *)
(* told to be deprecated after its date, and stays expired.                *)
DeprecationHonoured == mgr = "deprecation" => \A k \in DOMAIN s :
    /\ s[k].status = "sunset" => seen[k].first <= now
    /\ s[k].status = "deprecated" => seen[k].look < s[k].sunset
    /\ seen[k].ended => s[k].status = "expired"

(* Nobody is an ancestor of itself, the index says what the relations say, *)
(* and a child uses no more than its ceiling unless that was lowered.      *)
HierarchyHonoured == mgr = "hierarchy" =>
    /\ \A k \in Keys : k \notin Ancestors(k)
    /\ \A p, c \in Keys : c \in Kids(p) <=> p \in Parents(c)
    /\ \A p \in DOMAIN s.kids : s.kids[p] # {}
    /\ \A c \in DOMAIN s.rel \ seen.low : s.rel[c].ceil > 0 => s.rel[c].used <= s.rel[c].ceil

(* A key is migrated once by a migration, rolled back once and only if it  *)
(* was migrated, and a migration is complete when every key was.           *)
MigrationHonoured == mgr = "migration" => \A n \in DOMAIN s : \A k \in Keys :
    /\ seen[n][k].up <= 1 /\ seen[n][k].back <= seen[n][k].up
    /\ s[n].status = "completed" /\ k \in s[n].keys => seen[n][k].up = 1
    /\ s[n].status = "rolled_back" => seen[n][k].back = seen[n][k].up

(* A key is a member of exactly the groups it knows of.                    *)
GroupsHonoured == mgr = "groups" =>
    /\ \A g \in DOMAIN s.members, k \in Keys :
          k \in s.members[g] <=> k \in DOMAIN s.of /\ g \in s.of[k]
    /\ \A k \in DOMAIN s.of : s.of[k] \subseteq DOMAIN s.members
=============================================================================
