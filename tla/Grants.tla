------------------------------- MODULE Grants --------------------------------
(***************************************************************************)
(* The prepaid credit grants of one key (credit-grants.ts): grants with a  *)
(* priority and an expiry, spent in that order, refunded one by one,       *)
(* rolled over into new grants, voided.  Grants are numbered in the order  *)
(* of the list.  A grant is looked at for expiry only when credits are     *)
(* deducted, a balance is asked for or an export made.                     *)
(***************************************************************************)
EXTENDS Integers, Sequences, Totals

CONSTANTS Amounts, Priorities,
          Lives,                      \* how long a grant lives; 0 is for ever
          Shares,                     \* percentages of a rollover
          MaxGrants, MaxOps, MaxClock \* bounds

VARIABLES now,
          grants,        \* sequence of [balance, used, priority, expiresAt, active]
          stats,         \* [allocated, consumed, expired] of the manager's statistics
          rolled,        \* credits that rollovers moved into new grants
          ops

vars == <<now, grants, stats, rolled, ops>>

Grant(amount, priority, life) ==
    [balance |-> amount, used |-> 0, priority |-> priority,
     expiresAt |-> IF life = 0 THEN 0 ELSE now + life, active |-> TRUE]

Init == /\ now = 0 /\ grants = <<>>
        /\ stats = [allocated |-> 0, consumed |-> 0, expired |-> 0]
        /\ rolled = 0 /\ ops = 0

Ids == DOMAIN grants
Op == ops < MaxOps /\ ops' = ops + 1
Balances(list) == [i \in DOMAIN list |-> list[i].balance]
Useds(list) == [i \in DOMAIN list |-> list[i].used]

Create(amount, priority, life) ==
    /\ Op /\ Len(grants) < MaxGrants
    /\ grants' = Append(grants, Grant(amount, priority, life))
    /\ stats' = [stats EXCEPT !.allocated = @ + amount]
    /\ UNCHANGED <<now, rolled>>

(* expireGrants. *)
Over(g) == g.active /\ g.expiresAt # 0 /\ g.expiresAt <= now

Swept == [i \in Ids |-> IF Over(grants[i]) THEN [grants[i] EXCEPT !.active = FALSE, !.balance = 0]
                        ELSE grants[i]]
Lost == Total(Balances(grants), {i \in Ids : Over(grants[i])})

(* Slip: the order looks at the expiry alone. *)
SpentFirstByExpiry(list, i, j) ==
    LET e == list[i].expiresAt  f == list[j].expiresAt
    IN  \/ e # 0 /\ (f = 0 \/ e < f)
        \/ e = f /\ i < j

(* The comparator of deduct: priority, then the sooner expiry, then no     *)
(* expiry last; the sort is stable.                                        *)
SpentFirst(list, i, j) ==
    LET e == list[i].expiresAt  f == list[j].expiresAt
    IN  \/ list[i].priority < list[j].priority
        \/ /\ list[i].priority = list[j].priority
           /\ \/ e # 0 /\ (f = 0 \/ e < f)
              \/ e = f /\ i < j

(* deduct: n credits from the open grants in order, each giving what it    *)
(* has until the amount is met.                                            *)
Open == {i \in Ids : Swept[i].active /\ Swept[i].balance > 0}
Sorted == {p \in Open \X Open : SpentFirst(Swept, p[1], p[2])}
Part(i, n) == Portion(Swept[i].balance, Total(Balances(Swept), Earlier(Sorted, Open, i)), n)

Deducted(n) ==
    [i \in Ids |-> IF i \notin Open THEN Swept[i]
                   ELSE [Swept[i] EXCEPT !.balance = @ - Part(i, n), !.used = @ + Part(i, n)]]

Available == Total(Balances(Swept), Open)

(* All or nothing; the sweep stays either way. *)
Deduct(n) ==
    /\ Op
    /\ \/ /\ Available >= n
          /\ grants' = Deducted(n)
          /\ stats' = [stats EXCEPT !.consumed = @ + n, !.expired = @ + Lost]
       \/ /\ Available < n
          /\ grants' = Swept
          /\ stats' = [stats EXCEPT !.expired = @ + Lost]
    /\ UNCHANGED <<now, rolled>>

(* Slip: as much comes back as is asked for. *)
RefundableAll(g, n) == n

Refundable(g, n) == IF n <= g.used THEN n ELSE g.used

(* refund, to a grant that may have expired by now. *)
Refund(i, n) ==
    LET back == Refundable(grants[i], n)
    IN  /\ Op /\ back > 0
        /\ grants' = [grants EXCEPT ![i].balance = @ + back, ![i].used = @ - back]
        /\ stats' = [stats EXCEPT !.consumed = @ - back]
        /\ UNCHANGED <<now, rolled>>

(* Slip: what the percentage leaves behind is not counted as lost. *)
LeftBehindForgotten(balance, part) == 0

LeftBehind(balance, part) == balance - part

(* rollover: part of what is left goes into a new grant, the rest is lost. *)
(* Neither expiry nor the state of the source is looked at.                *)
Rollover(i, share, priority, life) ==
    LET part == (grants[i].balance * share) \div 100
    IN  /\ Op /\ grants[i].balance > 0 /\ Len(grants) < MaxGrants
        /\ grants' = Append([grants EXCEPT ![i].balance = 0, ![i].active = FALSE],
                            Grant(part, priority, life))
        /\ stats' = [stats EXCEPT !.allocated = @ + part,
                                  !.expired = @ + LeftBehind(grants[i].balance, part)]
        /\ rolled' = rolled + part
        /\ UNCHANGED now

Void(i) ==
    /\ Op /\ grants[i].active
    /\ grants' = [grants EXCEPT ![i].balance = 0, ![i].active = FALSE]
    /\ stats' = [stats EXCEPT !.expired = @ + grants[i].balance]
    /\ UNCHANGED <<now, rolled>>

(* getBalance, getSummary and expireAll sweep. *)
Sweep ==
    /\ \E i \in Ids : Over(grants[i])
    /\ grants' = Swept
    /\ stats' = [stats EXCEPT !.expired = @ + Lost]
    /\ UNCHANGED <<now, rolled, ops>>

Tick == now < MaxClock /\ now' = now + 1 /\ UNCHANGED <<grants, stats, rolled, ops>>

Next == \/ \E n \in Amounts, p \in Priorities, l \in Lives : Create(n, p, l)
        \/ \E n \in Amounts : Deduct(n)
        \/ \E i \in Ids, n \in Amounts : Refund(i, n)
        \/ \E i \in Ids, s \in Shares, p \in Priorities, l \in Lives : Rollover(i, s, p, l)
        \/ \E i \in Ids : Void(i)
        \/ Sweep \/ Tick

Spec == Init /\ [][Next]_vars
-----------------------------------------------------------------------------
(* Every credit granted is consumed, expired, rolled over or still there:  *)
(* the statistics add up however deductions, refunds, rollovers, expiries  *)
(* and voids alternate.                                                    *)
GrantsAddUp ==
    stats.allocated = stats.consumed + stats.expired + rolled + Total(Balances(grants), Ids)

(* What the statistics call consumed is what the grants gave and have not  *)
(* been given back.                                                        *)
ConsumedIsUsed == stats.consumed = Total(Useds(grants), Ids) /\ \A i \in Ids : grants[i].used >= 0

(* A deduction takes nothing from a grant past its expiry, and touches one *)
(* only when every open grant with a lower priority number is empty.       *)
SpendsInOrder ==
    [][\A i \in Ids : grants'[i].used > grants[i].used
         => /\ grants[i].active
            /\ grants[i].expiresAt = 0 \/ grants[i].expiresAt > now
            /\ \A j \in Ids : Swept[j].active /\ grants[j].priority < grants[i].priority
                 => grants'[j].balance = 0]_vars
=============================================================================
