------------------------------ MODULE Policies ------------------------------
(***************************************************************************)
(* What an administrator lays down about calls: the graph of tools that    *)
(* depend on each other (tool-deps.ts), configuration profiles             *)
(* (config-profiles.ts), approvals (approval-workflows.ts), usage plans    *)
(* (usage-plans.ts) and tenants (tenant-isolation.ts), each with its       *)
(* endpoint in server.ts.  None calls another: a behaviour is the life of  *)
(* one of them, `mgr`, and `s` is its state.  `seen` belongs to the        *)
(* observer.  Left out: names, metadata, groups of tools, limits that      *)
(* change at run time, clear, and what reports count.                      *)
(***************************************************************************)
EXTENDS Integers, Sequences, FiniteSets, SequencesExt, FiniteSetsExt, Functions

CONSTANTS Keys, Tools,
          Limit,          \* tools, profiles, requests, plans, tenants
          FlowLimit, KeysPerTenant,
          Expiry,         \* of a workflow, and of a request for approval
          MaxOps, MaxClock  \* bounds

VARIABLES mgr, s, seen, now, ops

vars == <<mgr, s, seen, now, ops>>

Call(m) == /\ mgr = m /\ ops < MaxOps[m] /\ ops' = ops + 1
           /\ UNCHANGED <<mgr, now>>

Without(f, K) == [k \in DOMAIN f \ K |-> f[k]]
With(f, k, v) == [j \in DOMAIN f \cup {k} |-> IF j = k THEN v ELSE f[j]]
-----------------------------------------------------------------------------
(* ToolDependencyGraph.  `flows` are the workflows in the order of their   *)
(* start.  The observer keeps every execution that was reported of a       *)
(* workflow, whether the graph still knows it or not.                      *)
Workflows == 1..2
GraphInit == mgr = "graph" /\ seen = {} /\ s = [deps |-> <<>>, flows |-> <<>>]

Register(t, D, hard) ==
    /\ Call("graph") /\ (Cardinality(DOMAIN s.deps) < Limit \/ t \in DOMAIN s.deps)
    /\ s' = [s EXCEPT !.deps = With(@, t, [on |-> D, hard |-> hard])] /\ UNCHANGED seen

Unlinked(deps, t) == [u \in DOMAIN deps \ {t} |-> [deps[u] EXCEPT !.on = @ \ {t}]]

Unregister(t) ==
    Call("graph") /\ s' = [s EXCEPT !.deps = Unlinked(@, t)] /\ UNCHANGED seen

Records(w) == UNION {ToSet(f.recs) : f \in {g \in ToSet(s.flows) : g.id = w}}
Succeeded(w) == {r.tool : r \in {q \in Records(w) : q.ok}}
Failed(w) == {r.tool : r \in {q \in Records(w) : ~q.ok}}

(* Slip: one success makes up for a failure. *)
BlockedForgiving(d, w) == d.on \ Succeeded(w) # {}

(* A failure counts for ever; a soft dependency may have failed.           *)
Blocked(d, w) == \/ d.on \ (Succeeded(w) \cup Failed(w)) # {}
                 \/ d.hard /\ d.on \cap Failed(w) # {}

CheckTool(t, w) == t \in DOMAIN s.deps => ~Blocked(s.deps[t], w)

(* Slip: a workflow is forgotten on the last moment of its life. *)
LivesShort(f) == f.recs[Len(f.recs)].at > now - Expiry

Lives(f) == f.recs[Len(f.recs)].at >= now - Expiry

RecordExecution(t, w, ok) ==
    LET live == SelectSeq(s.flows, Lives)
        rec == [tool |-> t, ok |-> ok, at |-> now]
        known == \E i \in DOMAIN live : live[i].id = w
        room == IF ~known /\ Len(live) >= FlowLimit THEN Tail(live) ELSE live
    IN  /\ Call("graph")
        /\ s' = [s EXCEPT !.flows =
              IF known THEN [i \in DOMAIN live |->
                 IF live[i].id = w THEN [live[i] EXCEPT !.recs = Append(@, rec)] ELSE live[i]]
              ELSE Append(room, [id |-> w, recs |-> <<rec>>])]
        /\ seen' = seen \cup {[flow |-> w, tool |-> t, ok |-> ok, at |-> now]}

Nodes == DOMAIN s.deps \cup UNION {s.deps[t].on : t \in DOMAIN s.deps}
After(t) == {u \in DOMAIN s.deps : t \in s.deps[u].on}    \* the edges of t

(* Slip: a tool is ready as soon as one of its dependencies is done. *)
ReadyEarly(deg, t) == {u \in After(t) : deg[u] > 0}

Ready(deg, t) == {u \in After(t) : deg[u] = 1}

(* Kahn's algorithm as the loop runs it; queue, degrees, order so far.     *)
RECURSIVE Sorted(_, _, _)
Sorted(queue, deg, order) ==
    IF queue = <<>> THEN order
    ELSE LET t == Head(queue)
         IN  Sorted(Tail(queue) \o SetToSeq(Ready(deg, t)),
                    [u \in DOMAIN deg |-> IF u \in After(t) THEN deg[u] - 1 ELSE deg[u]],
                    Append(order, t))
Degree == [t \in Nodes |-> IF t \in DOMAIN s.deps THEN Cardinality(s.deps[t].on) ELSE 0]
TopologicalSort == Sorted(SetToSeq({t \in Nodes : Degree[t] = 0}), Degree, <<>>)

(* Slip: only direct dependents. *)
DependentsDirect(t) == After(t)

RECURSIVE Spread(_, _)
Spread(found, fresh) ==
    IF fresh = {} THEN found
    ELSE LET more == UNION {After(t) : t \in fresh} \ found IN Spread(found \cup more, more)
Dependents(t) == Spread({}, {t})

(* All that a tool needs, directly or not. *)
RECURSIVE Needed(_, _)
Needed(found, fresh) ==
    LET more == UNION {s.deps[t].on : t \in fresh \cap DOMAIN s.deps} \ found
    IN  IF more = {} THEN found ELSE Needed(found \cup more, more)
Prerequisites(t) == Needed({}, {t})
-----------------------------------------------------------------------------
(* ConfigProfileManager.  Profiles are numbered; 0 is none.  The observer  *)
(* keeps the last export.                                                  *)
Names == {"p", "q"}
Configs == {[x |-> 1], [x |-> 2], [y |-> 3]}
ProfilesInit == /\ mgr = "profiles" /\ seen = [list |-> <<>>, active |-> 0]
                /\ s = [all |-> <<>>, active |-> 0, prev |-> 0, made |-> 0]

Named(all, n) == {i \in DOMAIN all : all[i].name = n}

(* Slip: the profile that was active keeps its flag. *)
ActivatedTwice(st, i) ==
    [st EXCEPT !.all[i].active = TRUE, !.active = i, !.prev = IF st.active = 0 THEN @ ELSE st.active]

Activated(st, i) ==
    [st EXCEPT !.all = [j \in DOMAIN @ |->
                          [@[j] EXCEPT !.active = j = i \/ (j # st.active /\ @)]],
               !.active = i, !.prev = IF st.active = 0 THEN @ ELSE st.active]

(* A save updates the profile with the name, or makes one if there is room *)
Room(st, n) == Named(st.all, n) # {} \/ Cardinality(DOMAIN st.all) < Limit
Saved(st, n, cfg, parent, activate) ==
    LET old == Named(st.all, n)
        id == IF old = {} THEN st.made + 1 ELSE CHOOSE i \in old : TRUE
        p == [name |-> n, cfg |-> cfg, parent |-> parent,
              active |-> old # {} /\ st.all[id].active]
        kept == [st EXCEPT !.all = With(@, id, p), !.made = IF old = {} THEN id ELSE @]
    IN  IF activate THEN Activated(kept, id) ELSE kept

SaveProfile(n, cfg, parent, activate) ==
    /\ Call("profiles") /\ parent \in DOMAIN s.all \cup {0} /\ Room(s, n)
    /\ s' = Saved(s, n, cfg, parent, activate) /\ UNCHANGED seen

(* Slip: who extends a profile that is gone still names it. *)
OrphansKept(all, i) == Without(all, {i})

Orphans(all, i) == [j \in DOMAIN all \ {i} |->
                       [all[j] EXCEPT !.parent = IF @ = i THEN 0 ELSE @]]

DeleteProfile(i) ==
    /\ Call("profiles") /\ i \in DOMAIN s.all
    /\ s' = [s EXCEPT !.all = Orphans(@, i), !.active = IF @ = i THEN 0 ELSE @]
    /\ UNCHANGED seen
ActivateProfile(i) ==
    Call("profiles") /\ i \in DOMAIN s.all /\ s' = Activated(s, i) /\ UNCHANGED seen
Rollback == /\ Call("profiles") /\ s.prev \in DOMAIN s.all
            /\ s' = Activated(s, s.prev) /\ UNCHANGED seen
ExportProfiles ==
    /\ Call("profiles") /\ UNCHANGED s
    /\ seen' = [list |-> [i \in 1..Cardinality(DOMAIN s.all) |->
                            LET id == SetToSortSeq(DOMAIN s.all, <)[i]
                            IN  [id |-> id, name |-> s.all[id].name, cfg |-> s.all[id].cfg,
                                 active |-> s.all[id].active]],
                active |-> s.active]

(* Slip: what is replaced stays active. *)
ClearedFlagless(st) == [st EXCEPT !.all = <<>>]

Cleared(st) == [st EXCEPT !.all = <<>>, !.active = 0]

(* Each profile is saved without its parent; the first that has no room    *)
(* ends the import, and what was saved before it stays.                    *)
Importable(st, list) == LET full == {n \in DOMAIN list :
                              /\ Named(st.all, list[n].name) = {}
                              /\ Cardinality(DOMAIN st.all) +
                                 Cardinality({m \in 1..n : Named(st.all, list[m].name) = {}}) > Limit}
                        IN  SubSeq(list, 1, IF full = {} THEN Len(list) ELSE Min(full) - 1)
ImportProfiles(replace) ==
    LET base == IF replace THEN Cleared(s) ELSE s
    IN  /\ Call("profiles") /\ UNCHANGED seen
        /\ s' = FoldLeft(LAMBDA st, p : Saved(st, p.name, p.cfg, 0, p.active /\ p.id = seen.active),
                         base, Importable(base, seen.list))

(* The chain from a profile up, until a circle closes.                     *)
RECURSIVE Chain(_)
Chain(c) ==
    LET p == s.all[c[Len(c)]].parent
    IN  IF p = 0 \/ p \in ToSet(c) THEN c ELSE Chain(Append(c, p))

(* Slip: what is inherited wins. *)
OverlaidUpwards(cfgs) ==
    FoldLeft(LAMBDA got, cfg : [k \in DOMAIN got \cup DOMAIN cfg |->
                                  IF k \in DOMAIN cfg THEN cfg[k] ELSE got[k]], <<>>, cfgs)

Overlaid(cfgs) ==
    FoldRight(LAMBDA cfg, got : [k \in DOMAIN got \cup DOMAIN cfg |->
                                  IF k \in DOMAIN cfg THEN cfg[k] ELSE got[k]], cfgs, <<>>)

ResolveConfig(i) == LET c == Chain(<<i>>) IN Overlaid([n \in DOMAIN c |-> s.all[c[n]].cfg])
-----------------------------------------------------------------------------
(* ApprovalWorkflowManager.  A rule is the set of calls it matches, by     *)
(* cost, tool or key; requests are numbered.  The observer keeps what each *)
(* request was told first, and how often a check was answered "wait".      *)
Calls == Keys \X {"cheap", "dear"}
RuleSets == {{c \in Calls : c[2] = "dear"}} \cup {{c \in Calls : c[1] = k} : k \in Keys}
ApprovalInit == mgr = "approvals" /\ seen = [told |-> <<>>, held |-> 0]
                /\ s = [rules |-> <<>>, reqs |-> <<>>]

NewRule(matches) ==
    /\ Call("approvals") /\ Len(s.rules) < Limit
    /\ s' = [s EXCEPT !.rules = Append(@, [on |-> TRUE, matches |-> matches])]
    /\ UNCHANGED seen
ChangeRule(i, on, matches) ==
    /\ Call("approvals") /\ i \in DOMAIN s.rules
    /\ s' = [s EXCEPT !.rules[i] = [on |-> on, matches |-> matches]] /\ UNCHANGED seen
DeleteRule(i) ==
    /\ Call("approvals") /\ i \in DOMAIN s.rules
    /\ s' = [s EXCEPT !.rules = RemoveAt(@, i)] /\ UNCHANGED seen

Matched(c) == \E i \in DOMAIN s.rules : s.rules[i].on /\ c \in s.rules[i].matches
Pending == {n \in DOMAIN s.reqs : s.reqs[n].status = "pending"}

(* Slip: a request that could be the last but one finds no room. *)
HasRoomAtLimit == Cardinality(Pending) <= Limit

HasRoom == Cardinality(Pending) < Limit

(* An approval is for one request: the next call of the same key makes     *)
(* another.  Requests that are over but were not swept take their room.    *)
CheckApproval(c) ==
    /\ Call("approvals") /\ Matched(c) /\ HasRoom
    /\ s' = [s EXCEPT !.reqs = Append(@, [call |-> c, status |-> "pending", exp |-> now + Expiry])]
    /\ seen' = [seen EXCEPT !.held = @ + 1]

(* Slip: who decides late decides. *)
TooLateNot(r) == FALSE

TooLate(r) == r.exp < now

First(st, n, status) == IF n \in DOMAIN st.told THEN st
                        ELSE [st EXCEPT !.told = With(@, n, [status |-> status, at |-> now])]
Decide(n, verdict) ==
    LET status == IF TooLate(s.reqs[n]) THEN "expired" ELSE verdict
    IN  /\ Call("approvals") /\ n \in Pending
        /\ s' = [s EXCEPT !.reqs[n].status = status] /\ seen' = First(seen, n, status)

(* Slip: every request that is old expires, whatever was decided. *)
SweptAll == {n \in DOMAIN s.reqs : TooLate(s.reqs[n])}

Swept == {n \in Pending : TooLate(s.reqs[n])}

ExpirePending ==
    /\ Call("approvals")
    /\ LET over == Swept
       IN  /\ s' = [s EXCEPT !.reqs = [n \in DOMAIN @ |->
                       IF n \in over THEN [@[n] EXCEPT !.status = "expired"] ELSE @[n]]]
           /\ seen' = [seen EXCEPT !.told = [n \in DOMAIN @ \cup over |->
                       IF n \in DOMAIN @ THEN @[n] ELSE [status |-> "expired", at |-> now]]]
-----------------------------------------------------------------------------
(* UsagePlanManager: plans with the tools they deny, and the plan of each  *)
(* key.  The observer keeps the last export.                               *)
PlanNames == {"free", "pro"}
PlansInit == mgr = "plans" /\ seen = [plans |-> <<>>, of |-> <<>>]
             /\ s = [plans |-> <<>>, of |-> <<>>]

CreatePlan(n, denied) ==
    /\ Call("plans") /\ n \notin DOMAIN s.plans /\ Cardinality(DOMAIN s.plans) < Limit
    /\ s' = [s EXCEPT !.plans = With(@, n, denied)] /\ UNCHANGED seen
UpdatePlan(n, denied) ==
    /\ Call("plans") /\ n \in DOMAIN s.plans
    /\ s' = [s EXCEPT !.plans[n] = denied] /\ UNCHANGED seen

(* Slip: a plan may go while keys are on it. *)
UnusedAlways(n) == n \in DOMAIN s.plans

Unused(n) == n \in DOMAIN s.plans /\ \A k \in DOMAIN s.of : s.of[k] # n

DeletePlan(n) ==
    /\ Call("plans") /\ Unused(n)
    /\ s' = [s EXCEPT !.plans = Without(@, {n})] /\ UNCHANGED seen
AssignPlan(k, n) == /\ Call("plans") /\ n \in DOMAIN s.plans
                    /\ s' = [s EXCEPT !.of = With(@, k, n)] /\ UNCHANGED seen
UnassignPlan(k) == Call("plans") /\ s' = [s EXCEPT !.of = Without(@, {k})] /\ UNCHANGED seen
ExportPlans == Call("plans") /\ seen' = s /\ UNCHANGED s

TakenOver(plans, of) == Restrict(of, {k \in DOMAIN of : of[k] \in DOMAIN plans})

(* Plans that exist are updated; of the others as many are made as fit, in *)
(* the order of the export.                                                *)
ImportPlans ==
    /\ Call("plans") /\ UNCHANGED seen
    /\ \E made \in SUBSET (DOMAIN seen.plans \ DOMAIN s.plans) :
          LET old == DOMAIN seen.plans \cap DOMAIN s.plans
              plans == [n \in DOMAIN s.plans \cup made |->
                           IF n \in old \cup made THEN seen.plans[n] ELSE s.plans[n]]
              of == TakenOver(plans, seen.of)
          IN  /\ Cardinality(made) = Min({Limit - Cardinality(DOMAIN s.plans),
                                          Cardinality(DOMAIN seen.plans \ DOMAIN s.plans)})
              /\ s' = [plans |-> plans, of |-> [k \in DOMAIN s.of \cup DOMAIN of |->
                          IF k \in DOMAIN of THEN of[k] ELSE s.of[k]]]

AllowedByPlan(k, t) == k \in DOMAIN s.of /\ s.of[k] \in DOMAIN s.plans => t \notin s.plans[s.of[k]]
-----------------------------------------------------------------------------
(* TenantManager.  `of` is keyToTenant, `keys` tenantKeys.  The observer   *)
(* adds up what each tenant was given and what it consumed, and keeps to   *)
(* whom each key was bound last.                                           *)
TenantIds == {"acme", "beta"}
TenantsInit == /\ mgr = "tenants" /\ s = [all |-> <<>>, of |-> <<>>, keys |-> <<>>]
               /\ seen = [given |-> <<>>, spent |-> <<>>, bound |-> <<>>]

CreateTenant(t, credits) ==
    /\ Call("tenants") /\ t \notin DOMAIN s.all /\ Cardinality(DOMAIN s.all) < Limit
    /\ s' = [s EXCEPT !.all = With(@, t, [active |-> TRUE, credits |-> credits, given |-> credits,
                                          spent |-> 0, count |-> 0]),
                      !.keys = With(@, t, {})]
    /\ seen' = [seen EXCEPT !.given = With(@, t, credits), !.spent = With(@, t, 0)]
SetTenantStatus(t, active) ==
    /\ Call("tenants") /\ t \in DOMAIN s.all
    /\ s' = [s EXCEPT !.all[t].active = active] /\ UNCHANGED seen

(* Slip: the keys of a tenant that is deleted stay bound to it. *)
UnboundNone(of, K) == of

UnboundWith(of, K) == Without(of, K)

DeleteTenant(t) ==
    /\ Call("tenants") /\ t \in DOMAIN s.all
    /\ s' = [all |-> Without(s.all, {t}), keys |-> Without(s.keys, {t}),
             of |-> UnboundWith(s.of, s.keys[t])]
    /\ seen' = [seen EXCEPT !.bound = Without(@, {k \in DOMAIN @ : @[k] = t})]

(* Slip: a key may move to another tenant without leaving the first. *)
MayBindAny(t, k) == t \in DOMAIN s.all /\ Cardinality(s.keys[t]) < KeysPerTenant

(* A key that is bound already is refused by a tenant that is full.        *)
MayBind(t, k) == /\ t \in DOMAIN s.all /\ (k \in DOMAIN s.of => s.of[k] = t)
                 /\ Cardinality(s.keys[t]) < KeysPerTenant

BindKey(t, k) ==
    /\ Call("tenants") /\ MayBind(t, k)
    /\ s' = [s EXCEPT !.keys[t] = @ \cup {k}, !.of = With(@, k, t),
                      !.all[t].count = Cardinality(s.keys[t] \cup {k})]
    /\ seen' = [seen EXCEPT !.bound = With(@, k, t)]
UnbindKey(k) ==
    /\ Call("tenants") /\ k \in DOMAIN s.of
    /\ LET t == s.of[k]
       IN  s' = [s EXCEPT !.of = Without(@, {k}), !.keys[t] = @ \ {k},
                          !.all[t].count = Cardinality(s.keys[t] \ {k})]
    /\ seen' = [seen EXCEPT !.bound = Without(@, {k})]
AddTenantCredits(t, n) ==
    /\ Call("tenants") /\ t \in DOMAIN s.all
    /\ s' = [s EXCEPT !.all[t].credits = @ + n, !.all[t].given = @ + n]
    /\ seen' = [seen EXCEPT !.given[t] = @ + n]

(* Slip: a pool is used up to one credit below nothing. *)
SufficesAlmost(t, n) == s.all[t].credits >= n - 1

Suffices(t, n) == s.all[t].credits >= n

ConsumeTenantCredits(t, n) ==
    /\ Call("tenants") /\ t \in DOMAIN s.all /\ Suffices(t, n)
    /\ s' = [s EXCEPT !.all[t].credits = @ - n, !.all[t].spent = @ + n]
    /\ seen' = [seen EXCEPT !.spent[t] = @ + n]

Access(k) == k \in DOMAIN s.of => s.of[k] \in DOMAIN s.all /\ s.all[s.of[k]].active
-----------------------------------------------------------------------------
Tick == mgr \in {"graph", "approvals"} /\ now < MaxClock /\ now' = now + 1 /\ UNCHANGED <<mgr, s, seen, ops>>

Init == /\ now = 0 /\ ops = 0
        /\ GraphInit \/ ProfilesInit \/ ApprovalInit \/ PlansInit \/ TenantsInit

GraphNext ==
    \/ \E t \in Tools :
          \/ Unregister(t)
          \/ \E D \in SUBSET Tools, hard \in BOOLEAN : Register(t, D, hard)
          \/ \E w \in Workflows, ok \in BOOLEAN : RecordExecution(t, w, ok)
ProfilesNext == mgr = "profiles" /\
    \/ Rollback \/ ExportProfiles \/ \E replace \in BOOLEAN : ImportProfiles(replace)
    \/ \E i \in DOMAIN s.all : DeleteProfile(i) \/ ActivateProfile(i)
    \/ \E n \in Names, cfg \in Configs, parent \in DOMAIN s.all \cup {0}, activate \in BOOLEAN :
          SaveProfile(n, cfg, parent, activate)
ApprovalNext == mgr = "approvals" /\
    \/ ExpirePending \/ \E c \in Calls : CheckApproval(c)
    \/ \E n \in DOMAIN s.reqs, verdict \in {"approved", "denied"} : Decide(n, verdict)
    \/ \E i \in DOMAIN s.rules : DeleteRule(i)
    \/ \E m \in RuleSets : NewRule(m) \/ \E i \in DOMAIN s.rules, on \in BOOLEAN : ChangeRule(i, on, m)
PlansNext ==
    \/ ExportPlans \/ ImportPlans \/ \E k \in Keys : UnassignPlan(k)
    \/ \E n \in PlanNames :
          \/ DeletePlan(n) \/ \E k \in Keys : AssignPlan(k, n)
          \/ \E denied \in SUBSET {CHOOSE t \in Tools : TRUE} : CreatePlan(n, denied) \/ UpdatePlan(n, denied)
TenantsNext ==
    \/ \E k \in Keys : UnbindKey(k)
    \/ \E t \in TenantIds :
          \/ DeleteTenant(t) \/ \E k \in Keys : BindKey(t, k)
          \/ \E active \in BOOLEAN : SetTenantStatus(t, active)
          \/ \E n \in 1..2 : CreateTenant(t, n) \/ AddTenantCredits(t, n) \/ ConsumeTenantCredits(t, n)
Next == Tick \/ GraphNext \/ ProfilesNext \/ ApprovalNext \/ PlansNext \/ TenantsNext
-----------------------------------------------------------------------------
(* The sorted tools come after all they depend on, and those left out are  *)
(* the tools of circles and what depends on them; who depends on a tool    *)
(* names it among what it needs; a tool is let run only when the same      *)
(* workflow ran what it needs, and is held back only when it did not, or   *)
(* when the workflow rested too long or had to make room for another.      *)
GraphHonoured == mgr = "graph" =>
    LET order == TopologicalSort
        on(t) == IF t \in DOMAIN s.deps THEN s.deps[t].on ELSE {}
        stuck == UNION {C \in SUBSET Nodes : \A t \in C : on(t) \cap C # {}}
        ran(w, ok) == {e.tool : e \in {f \in seen : f.flow = w /\ f.ok = ok}}
        unbroken == /\ Cardinality({e.flow : e \in seen}) <= FlowLimit
                    /\ \A e, f \in seen : e.at < f.at =>
                          \E g \in seen : e.at < g.at /\ g.at <= e.at + Expiry
        hard(t) == t \in DOMAIN s.deps /\ s.deps[t].hard
    IN  /\ IsInjective(order) /\ ToSet(order) = Nodes \ stuck
        /\ \A i \in DOMAIN order : on(order[i]) \subseteq ToSet(SubSeq(order, 1, i - 1))
        /\ \A t, u \in Nodes : u \in Dependents(t) <=> t \in Prerequisites(u)
        /\ \A t \in Tools, w \in Workflows :
             LET needs == on(t) \ ran(w, TRUE)
                 broke == IF hard(t) THEN on(t) \cap ran(w, FALSE) ELSE {}
             IN  /\ CheckTool(t, w) => needs \subseteq ran(w, FALSE) \ broke
                 /\ CheckTool(t, w) /\ unbroken => broke = {}
                 /\ unbroken /\ needs = {} /\ broke = {} => CheckTool(t, w)

(* At most one profile has the flag, and it is the active one; parents     *)
(* exist, names are unique, and a profile reads like its parent wherever   *)
(* it says nothing itself, also around a circle.                           *)
ProfilesHonoured == mgr = "profiles" =>
    /\ {i \in DOMAIN s.all : s.all[i].active} = {s.active} \ {0}
    /\ \A i, j \in DOMAIN s.all : s.all[i].name = s.all[j].name => i = j
    /\ Cardinality(DOMAIN s.all) <= Limit
    /\ \A i \in DOMAIN s.all :
          LET p == s.all[i]
              base == IF p.parent = 0 THEN <<>> ELSE ResolveConfig(p.parent)
          IN  /\ p.parent \in DOMAIN s.all \cup {0}
              /\ ResolveConfig(i) = [k \in DOMAIN p.cfg \cup DOMAIN base |->
                                       IF k \in DOMAIN p.cfg THEN p.cfg[k] ELSE base[k]]

(* A request is decided once and in time, or expires after its time, and   *)
(* no answer to it changes; every call that was held has its own request,  *)
(* and no more wait than the limit says.                                   *)
ApprovalsHonoured == mgr = "approvals" =>
    /\ Len(s.reqs) = seen.held /\ Cardinality(Pending) <= Limit
    /\ Pending = DOMAIN s.reqs \ DOMAIN seen.told
    /\ \A n \in DOMAIN seen.told :
          /\ s.reqs[n].status = seen.told[n].status
          /\ seen.told[n].status = "expired" <=> seen.told[n].at > s.reqs[n].exp

(* The plan of a key exists, through deletions and imports: otherwise the  *)
(* key would be free of every restriction without anybody having said so.  *)
PlansHonoured == mgr = "plans" =>
    /\ \A k \in DOMAIN s.of : s.of[k] \in DOMAIN s.plans
    /\ Cardinality(DOMAIN s.plans) <= Limit

(* The two indexes of keys agree with each other, with the count and with  *)
(* what was bound last; a key's calls depend on its own tenant alone; a    *)
(* pool is what was given less what was consumed, and never below nothing. *)
TenantsHonoured == mgr = "tenants" =>
    /\ s.of = seen.bound
    /\ \A t \in DOMAIN s.all : LET r == s.all[t] IN
          /\ s.keys[t] = {k \in DOMAIN s.of : s.of[k] = t}
          /\ r.count = Cardinality(s.keys[t]) /\ r.count <= KeysPerTenant
          /\ r.credits = seen.given[t] - seen.spent[t] /\ r.credits >= 0
    /\ \A k \in Keys : Access(k) <=> (k \in DOMAIN seen.bound => s.all[seen.bound[k]].active)
=============================================================================
