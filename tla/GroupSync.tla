------------------------------ MODULE GroupSync ------------------------------
(***************************************************************************)
(* Key groups (groups.ts) of several instances that share them through     *)
(* Redis (redis-sync.ts).  A change is made locally and then written by a  *)
(* chain of commands, each sent when the one before was answered; an event *)
(* or the interval makes an instance load everything again.                *)
(***************************************************************************)
EXTENDS Integers, Sequences, FiniteSets, TLC

CONSTANTS Instances, Groups, Keys, None,
          Scopes               \* what a behaviour may do, see scope

VARIABLES scope,  \* writers: instances whose admins change groups; interval: whether
                  \* the periodic load runs; create, assign, remove, delete: how often
          loc,    \* loc[i]: groups (none, active, deleted) and assign of KeyGroupManager
          rds,    \* ids (pg:groups), recs (pg:group:<id>), assign (pg:group_assignments)
          q, r,   \* commands not executed, replies not read, per instance and in order
          ev,     \* events on the subscription of an instance
          left,   \* what is left of scope
          want    \* want[k]: the group the last admin change gave k

vars == <<scope, loc, rds, q, r, ev, left, want>>

Nobody == [k \in Keys |-> None]
NoGroups == [g \in Groups |-> "none"]

Init ==
    /\ loc = [i \in Instances |-> [groups |-> NoGroups, assign |-> Nobody]]
    /\ rds = [ids |-> {}, recs |-> NoGroups, assign |-> Nobody]
    /\ q = [i \in Instances |-> <<>>] /\ r = [i \in Instances |-> <<>>]
    /\ ev = [i \in Instances |-> 0]
    /\ scope \in Scopes /\ left = scope /\ want = Nobody

Cmd(op) == [op |-> op]
Send(i, cmds) == q' = [q EXCEPT ![i] = @ \o cmds]
Spend(op) == left[op] > 0 /\ left' = [left EXCEPT ![op] = @ - 1]
Exists(i, g) == loc[i].groups[g] = "active"

CreateGroup(i, g) ==
    /\ Spend("create") /\ loc[i].groups[g] = "none" /\ rds.recs[g] = "none"
    /\ loc' = [loc EXCEPT ![i].groups[g] = "active"]
    /\ Send(i, <<[op |-> "saveGroup", g |-> g]>>)
    /\ UNCHANGED <<scope, rds, r, ev, want>>

AssignKey(i, k, g) ==
    /\ Spend("assign") /\ Exists(i, g)
    /\ loc' = [loc EXCEPT ![i].assign[k] = g] /\ want' = [want EXCEPT ![k] = g]
    /\ Send(i, <<Cmd("delAssign")>>)
    /\ UNCHANGED <<scope, rds, r, ev>>

RemoveKey(i, k) ==
    /\ Spend("remove") /\ loc[i].assign[k] # None
    /\ loc' = [loc EXCEPT ![i].assign[k] = None] /\ want' = [want EXCEPT ![k] = None]
    /\ Send(i, <<Cmd("delAssign")>>)
    /\ UNCHANGED <<scope, rds, r, ev>>

(* The record stays, inactive; the group and the assignments are written   *)
(* by two chains at once.                                                  *)
DeleteGroup(i, g) ==
    /\ Spend("delete") /\ Exists(i, g)
    /\ loc' = [loc EXCEPT ![i] =
                 [groups |-> [@.groups EXCEPT ![g] = "deleted"],
                  assign |-> [k \in Keys |-> IF @.assign[k] = g THEN None ELSE @.assign[k]]]]
    /\ want' = [k \in Keys |-> IF want[k] = g THEN None ELSE want[k]]
    /\ Send(i, <<[op |-> "delGroup", g |-> g], Cmd("delAssign")>>)
    /\ UNCHANGED <<scope, rds, r, ev>>

(* loadGroupsFromRedis, by the interval or for an event. *)
StartLoad(i, why) ==
    /\ \/ /\ why = "event" /\ ev[i] > 0 /\ ev' = [ev EXCEPT ![i] = @ - 1]
       \/ /\ why = "interval" /\ scope.interval /\ q[i] = <<>> /\ r[i] = <<>> /\ UNCHANGED ev
    /\ Send(i, <<Cmd("smembers")>>)
    /\ UNCHANGED <<scope, loc, rds, r, left, want>>
-----------------------------------------------------------------------------
Merged(new, old) == [k \in Keys |-> IF new[k] # None THEN new[k] ELSE old[k]]

(* What a command does to Redis. *)
Written(c) ==
    CASE c.op = "saveGroup" -> [rds EXCEPT !.ids = @ \cup {c.g}, !.recs[c.g] = "active"]
      [] c.op = "delGroup"  -> [rds EXCEPT !.recs[c.g] = "none"]
      [] c.op = "srem"      -> [rds EXCEPT !.ids = @ \ {c.g}]
      [] c.op = "delAssign" -> [rds EXCEPT !.assign = Nobody]
      [] c.op = "setAssign" -> [rds EXCEPT !.assign = Merged(c.assign, @)]
      [] c.op = "push"      -> [ids |-> {g \in Groups : c.groups[g] # "none"} \cup rds.ids,
                                recs |-> [g \in Groups |-> IF c.groups[g] # "none"
                                                             THEN c.groups[g] ELSE rds.recs[g]],
                                assign |-> Merged(c.assign, rds.assign)]
      [] OTHER -> rds

(* What it answers; a chain keeps what it has read in its next command. *)
Read(c) ==
    CASE c.op = "smembers"  -> c @@ [ids |-> rds.ids]
      [] c.op = "getGroups" -> [op |-> c.op, groups |-> [g \in Groups |->
                                  IF g \in c.ids THEN rds.recs[g] ELSE "none"]]
      [] c.op = "getAssign" -> c @@ [assign |-> rds.assign]
      [] OTHER -> c

Exec(i) ==
    /\ q[i] # <<>> /\ q' = [q EXCEPT ![i] = Tail(@)]
    /\ LET c == Head(q[i])
       IN  IF c.op = "publish"
             THEN ev' = [j \in Instances |-> ev[j] + IF j = i THEN 0 ELSE 1] /\ UNCHANGED <<rds, r>>
             ELSE rds' = Written(c) /\ r' = [r EXCEPT ![i] = Append(@, Read(c))] /\ UNCHANGED ev
    /\ UNCHANGED <<scope, loc, left, want>>

(* Slip: an instance that finds no group in Redis does nothing. *)
IgnoreEmpty(i) == <<>>

(* pushGroupsToRedis, when Redis has no group and this instance has one. *)
PushIfEmpty(i) ==
    IF \E g \in Groups : Exists(i, g)
      THEN <<[op |-> "push", groups |-> loc[i].groups, assign |-> loc[i].assign]>> ELSE <<>>

(* The command a chain sends after an answer; none at its end. *)
Following(i, a) ==
    CASE a.op \in {"saveGroup", "srem", "setAssign"} -> <<Cmd("publish")>>
      [] a.op = "delGroup" -> <<[op |-> "srem", g |-> a.g]>>
      [] a.op = "delAssign" -> IF loc[i].assign = Nobody THEN <<Cmd("publish")>>
                               ELSE <<[op |-> "setAssign", assign |-> loc[i].assign]>>
      [] a.op = "smembers" /\ a.ids = {} -> PushIfEmpty(i)
      [] a.op = "smembers" /\ a.ids # {} -> <<[op |-> "getGroups", ids |-> a.ids]>>
      [] a.op = "getGroups" -> <<[op |-> "getAssign", groups |-> a.groups]>>
      [] OTHER -> <<>>

(* Slip: assignments that were loaded do not replace the local ones. *)
LoadMerges(i, a) == [groups |-> a.groups, assign |-> Merged(loc[i].assign, a.assign)]

(* Slip: a load takes the groups and leaves the assignments. *)
LoadGroupsOnly(i, a) == [groups |-> a.groups, assign |-> loc[i].assign]

(* load: everything local is replaced. *)
Load(i, a) == [groups |-> a.groups, assign |-> a.assign]

Handle(i) ==
    /\ r[i] # <<>> /\ r' = [r EXCEPT ![i] = Tail(@)]
    /\ Send(i, Following(i, Head(r[i])))
    /\ loc' = IF Head(r[i]).op = "getAssign"
                THEN [loc EXCEPT ![i] = Load(i, Head(r[i]))] ELSE loc
    /\ UNCHANGED <<scope, rds, ev, left, want>>

Admin(i) == \/ \E g \in Groups : CreateGroup(i, g) \/ DeleteGroup(i, g)
            \/ \E k \in Keys : RemoveKey(i, k) \/ \E g \in Groups : AssignKey(i, k, g)
System(i) == Exec(i) \/ Handle(i) \/ \E why \in {"event", "interval"} : StartLoad(i, why)
Next == (\E i \in scope.writers : Admin(i)) \/ (\E i \in Instances : System(i))

Spec == Init /\ [][Next]_vars
Fairness == \A i \in Instances :
              WF_vars(Exec(i)) /\ WF_vars(Handle(i))
              /\ WF_vars(StartLoad(i, "event")) /\ WF_vars(StartLoad(i, "interval"))
FairSpec == Spec /\ Fairness
-----------------------------------------------------------------------------
Effective(i, k) ==
    LET g == loc[i].assign[k] IN IF g # None /\ Exists(i, g) THEN g ELSE None

(* Once admins stop, every instance comes to have the same groups and to   *)
(* apply the same one to a key, whatever order loads, events and chains    *)
(* took.                                                                   *)
Agree ==
    scope.interval => <>[](\A i, j \in Instances :
                              /\ \A g \in Groups : Exists(i, g) <=> Exists(j, g)
                              /\ \A k \in Keys : Effective(i, k) = Effective(j, k))

(* What the last admin change of a key asked for comes to hold on every    *)
(* instance, when one instance assigns and removes and no periodic load    *)
(* can come between a change and the chain that writes it.  A deletion may *)
(* be undone, by an instance that finds Redis empty and pushes its groups. *)
ChangeSpreads ==
    Cardinality(scope.writers) = 1 /\ ~scope.interval /\ scope.delete = 0
        => <>[](\A i \in Instances, k \in Keys : Effective(i, k) = want[k])
=============================================================================
