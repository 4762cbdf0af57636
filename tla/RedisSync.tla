------------------------------ MODULE RedisSync ------------------------------
(***************************************************************************)
(* RedisSync (redis-sync.ts): instances of the server share one API key    *)
(* through Redis.  Each reads and charges its own copy at once; the same   *)
(* change goes to Redis as a command, and the reply, a published event or  *)
(* the periodic refresh change the copies again.  Connections are FIFO     *)
(* (module RedisClient); an instance has one for commands, one for events. *)
(***************************************************************************)
EXTENDS Integers, Sequences, SequencesExt, FiniteSets, FiniteSetsExt

CONSTANTS Instances,
          Initial, Price, TopUpAmount,   \* credits
          Budgets                        \* bound: what may happen, and how often

Ops == {"call", "refund", "topUp", "autoTopup", "save", "suspend", "revoke",
        "rotate", "refresh", "outage", "lost"}

VARIABLES loc,      \* loc[i]: the record in the KeyStore of i
          rds,      \* credits and active in the hash pg:key:<key>
          q,        \* q[i]: commands of i that Redis has not executed
          r,        \* r[i]: replies that i has not read
          ev,       \* ev[i]: events on the subscription of i
          listens,  \* instances whose subscription is up
          budget,   \* budget[op]: how often op may happen in this behaviour
          left,     \* what is left of it
          tally     \* credits taken by admitted calls and added by top-ups

vars == <<loc, rds, q, r, ev, listens, budget, left, tally>>

Init ==
    /\ loc = [i \in Instances |-> [credits |-> Initial, active |-> TRUE, suspended |-> FALSE]]
    /\ rds = [credits |-> Initial, active |-> TRUE]
    /\ q = [i \in Instances |-> <<>>] /\ r = [i \in Instances |-> <<>>]
    /\ ev = [i \in Instances |-> <<>>]
    /\ listens = Instances
    /\ budget \in Budgets /\ left = budget
    /\ tally = [taken |-> 0, added |-> 0]

Spend(op) == left[op] > 0 /\ left' = [left EXCEPT ![op] = @ - 1]
Send(i, cmd) == q' = [q EXCEPT ![i] = Append(@, cmd)]
SaveOf(rec) == [op |-> "save", credits |-> rec.credits, active |-> rec.active]
Publish(e) == [op |-> "publish", event |-> e]
Admits(i) == loc[i].active /\ ~loc[i].suspended /\ loc[i].credits >= Price

(* gate.evaluate: the local copy decides and is charged; onCreditsDeducted *)
(* sends atomicDeduct, whose answer nobody waits for.                      *)
Call(i) ==
    /\ Spend("call") /\ Admits(i)
    /\ loc' = [loc EXCEPT ![i].credits = @ - Price]
    /\ tally' = [tally EXCEPT !.taken = @ + Price]
    /\ Send(i, [op |-> "deduct"])
    /\ UNCHANGED <<rds, r, ev, listens, budget>>

(* gate.refund gives credits back to the copy; Redis is not told. *)
Refund(i) ==
    /\ Spend("refund") /\ tally.taken >= Price
    /\ loc' = [loc EXCEPT ![i].credits = @ + Price]
    /\ tally' = [tally EXCEPT !.taken = @ - Price]
    /\ UNCHANGED <<rds, q, r, ev, listens, budget>>

(* handleTopUp: only atomicTopup. *)
TopUp(i) ==
    /\ Spend("topUp")
    /\ Send(i, [op |-> "topup"])
    /\ UNCHANGED <<loc, rds, r, ev, listens, budget, tally>>

(* The gate's auto-topup adds to the copy, then atomicTopup. *)
AutoTopup(i) ==
    /\ Spend("autoTopup") /\ loc[i].active
    /\ loc' = [loc EXCEPT ![i].credits = @ + TopUpAmount]
    /\ Send(i, [op |-> "topup"])
    /\ UNCHANGED <<rds, r, ev, listens, budget, tally>>

(* Any admin change of another field ends in syncKeyMutation: the whole    *)
(* record is written as it is in the copy now.                             *)
AdminSave(i) ==
    /\ Spend("save") /\ loc[i].active
    /\ Send(i, SaveOf(loc[i]))
    /\ UNCHANGED <<loc, rds, r, ev, listens, budget, tally>>

Suspend(i) ==
    /\ Spend("suspend") /\ loc[i].active
    /\ loc' = [loc EXCEPT ![i].suspended = ~@]
    /\ Send(i, SaveOf(loc[i]))
    /\ UNCHANGED <<rds, r, ev, listens, budget, tally>>

Revoke(i) ==
    /\ Spend("revoke")
    /\ loc' = [loc EXCEPT ![i].active = FALSE]
    /\ Send(i, [op |-> "revoke"])
    /\ UNCHANGED <<rds, r, ev, listens, budget, tally>>

(* The key was rotated away: its hash is left as it is. *)
Rotate(i) ==
    /\ Spend("rotate") /\ loc[i].active
    /\ loc' = [loc EXCEPT ![i].active = FALSE]
    /\ Send(i, Publish([type |-> "key_revoked"]))
    /\ UNCHANGED <<rds, r, ev, listens, budget, tally>>

(* loadFromRedis, every syncMs; a refresh that is still under way is       *)
(* waited for, which bounds the queue.                                     *)
Refresh(i) ==
    /\ budget["refresh"] > 0
    /\ \A n \in DOMAIN q[i] : q[i][n].op # "get"
    /\ \A n \in DOMAIN r[i] : r[i][n].op # "get"
    /\ Send(i, [op |-> "get"])
    /\ UNCHANGED <<loc, rds, r, ev, listens, budget, left, tally>>
-----------------------------------------------------------------------------
(* Redis executes one command of i; scripts are atomic. *)
Answer(i, reply) == r' = [r EXCEPT ![i] = Append(@, reply)]

(* Slip: the charge is written as a balance, not as a difference. *)
RedisDeductSets(i) == [rds EXCEPT !.credits = loc[i].credits]

RedisDeduct(i) == [rds EXCEPT !.credits = @ - Price]

Exec(i) ==
    /\ q[i] # <<>> /\ q' = [q EXCEPT ![i] = Tail(@)]
    /\ LET c == Head(q[i])
           can == rds.active /\ rds.credits >= Price
       IN  \/ /\ c.op = "deduct"
              /\ rds' = IF can THEN RedisDeduct(i) ELSE rds
              /\ Answer(i, [op |-> "deduct", ok |-> can]) /\ UNCHANGED ev
           \/ /\ c.op = "topup"
              /\ rds' = IF rds.active THEN [rds EXCEPT !.credits = @ + TopUpAmount] ELSE rds
              /\ Answer(i, [op |-> "topup", ok |-> rds.active]) /\ UNCHANGED ev
           \/ /\ c.op = "save"
              /\ rds' = [credits |-> c.credits, active |-> c.active]
              /\ Answer(i, [op |-> "save"]) /\ UNCHANGED ev
           \/ /\ c.op = "revoke"
              /\ rds' = [rds EXCEPT !.active = FALSE]
              /\ Answer(i, [op |-> "revoke"]) /\ UNCHANGED ev
           \/ /\ c.op = "get"
              /\ Answer(i, [op |-> "get", rec |-> rds]) /\ UNCHANGED <<rds, ev>>
           \/ /\ c.op = "publish"
              /\ ev' = [j \in Instances |->
                          IF j # i /\ j \in listens THEN Append(ev[j], c.event) ELSE ev[j]]
              /\ UNCHANGED <<rds, r>>
    /\ tally' = IF Head(q[i]).op = "topup" /\ rds.active
                  THEN [tally EXCEPT !.added = @ + TopUpAmount] ELSE tally
    /\ UNCHANGED <<loc, listens, budget, left>>

CreditsChanged(n) == Publish([type |-> "credits_changed", credits |-> n])

(* Slip: a refresh that comes back is not written to the copy. *)
LoadedKeeps(i, rec) == loc

(* loadFromRedis and refreshSingleKey set a record made of the hash, which *)
(* has no field for a suspension.                                          *)
Loaded(i, rec) ==
    [loc EXCEPT ![i] = [credits |-> rec.credits, active |-> rec.active, suspended |-> FALSE]]

(* i reads a reply.  atomicDeduct and atomicTopup then change the copy.    *)
Handle(i) ==
    /\ r[i] # <<>> /\ r' = [r EXCEPT ![i] = Tail(@)]
    /\ LET a == Head(r[i])
           charged == loc[i].credits - Price
           topped == loc[i].credits + TopUpAmount
       IN  \/ /\ a.op = "deduct" /\ a.ok
              /\ loc' = [loc EXCEPT ![i].credits = charged] /\ Send(i, CreditsChanged(charged))
           \/ /\ a.op = "topup" /\ a.ok
              /\ loc' = [loc EXCEPT ![i].credits = topped] /\ Send(i, CreditsChanged(topped))
           \/ /\ a.op \in {"deduct", "topup"} /\ ~a.ok /\ UNCHANGED <<loc, q>>
           \/ /\ a.op = "save"
              /\ Send(i, Publish([type |-> "key_updated"])) /\ UNCHANGED loc
           \/ /\ a.op = "revoke"
              /\ Send(i, Publish([type |-> "key_revoked"])) /\ UNCHANGED loc
           \/ /\ a.op = "get"
              /\ loc' = Loaded(i, a.rec) /\ UNCHANGED q
    /\ UNCHANGED <<rds, ev, listens, budget, left, tally>>

(* handlePubSubMessage *)
Event(i) ==
    /\ ev[i] # <<>> /\ ev' = [ev EXCEPT ![i] = Tail(@)]
    /\ LET e == Head(ev[i])
       IN  \/ /\ e.type = "credits_changed"
              /\ loc' = [loc EXCEPT ![i].credits = e.credits] /\ UNCHANGED q
           \/ /\ e.type = "key_revoked"
              /\ loc' = [loc EXCEPT ![i].active = FALSE] /\ UNCHANGED q
           \/ /\ e.type = "key_updated"
              /\ Send(i, [op |-> "get"]) /\ UNCHANGED loc
    /\ UNCHANGED <<rds, r, listens, budget, left, tally>>

(* The command connection of i fails: what it waited for is rejected, and  *)
(* atomicDeduct and atomicTopup fall back to the copy.                     *)
FallBack(rec, c) ==
    CASE c.op = "deduct" /\ rec.active /\ rec.credits >= Price
            -> [rec EXCEPT !.credits = @ - Price]
      [] c.op = "topup" /\ rec.active -> [rec EXCEPT !.credits = @ + TopUpAmount]
      [] OTHER -> rec

Outage(i) ==
    /\ Spend("outage") /\ q[i] \o r[i] # <<>>
    /\ loc' = [loc EXCEPT ![i] = FoldLeft(FallBack, @, r[i] \o q[i])]
    /\ q' = [q EXCEPT ![i] = <<>>] /\ r' = [r EXCEPT ![i] = <<>>]
    /\ UNCHANGED <<rds, ev, listens, budget, tally>>

(* The subscription of i closes; RedisSubscriber does not connect again. *)
SubscriberLost(i) ==
    /\ Spend("lost") /\ i \in listens
    /\ listens' = listens \ {i} /\ ev' = [ev EXCEPT ![i] = <<>>]
    /\ UNCHANGED <<loc, rds, q, r, budget, tally>>

Operation(i) == Call(i) \/ Refund(i) \/ TopUp(i) \/ AutoTopup(i) \/ AdminSave(i)
                \/ Suspend(i) \/ Revoke(i) \/ Rotate(i)
Failure(i) == Outage(i) \/ SubscriberLost(i)
Next == \E i \in Instances :
            Operation(i) \/ Refresh(i) \/ Exec(i) \/ Handle(i) \/ Event(i) \/ Failure(i)

Spec == Init /\ [][Next]_vars

(* Redis executes what it gets, the event loop reads it, the interval runs. *)
Fairness == \A i \in Instances :
                WF_vars(Exec(i)) /\ WF_vars(Handle(i)) /\ WF_vars(Event(i)) /\ WF_vars(Refresh(i))
FairSpec == Spec /\ Fairness
-----------------------------------------------------------------------------
Quiet == \A i \in Instances : q[i] = <<>> /\ r[i] = <<>> /\ ev[i] = <<>>

(* Whatever the instances do and whichever connections fail, once changes  *)
(* end every copy comes to agree with Redis and stays so: the periodic     *)
(* loadFromRedis repairs what a lost event, a reply applied late or a      *)
(* local fallback left behind.                                             *)
Converges ==
    budget["refresh"] > 0 =>
        <>[](\A i \in Instances : loc[i].credits = rds.credits /\ loc[i].active = rds.active)

(* When nothing is under way, Redis holds the initial credits, plus the    *)
(* top-ups, less the calls: DEDUCT_LUA, TOPUP_LUA and the order of replies *)
(* and events neither lose nor repeat a change of the fleet.  A refund, a  *)
(* save of the whole record, a revocation and a broken command connection  *)
(* do not keep the balance.                                                *)
FleetBalance ==
    Quiet /\ (\A op \in {"refund", "save", "suspend", "revoke", "outage"} : left[op] = budget[op])
        => rds.credits = Initial + tally.added - tally.taken

(* The fleet admits no more calls than the credits it was given pay for.   *)
NoDoubleSpend == tally.taken <= Initial + tally.added

(* A revoked or rotated key is dead for good: no instance that knows it to *)
(* be inactive takes it for active again.                                  *)
Permanent == [][\A i \in Instances : ~loc[i].active => ~loc'[i].active]_vars
=============================================================================
