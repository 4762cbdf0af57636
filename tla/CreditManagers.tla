--------------------------- MODULE CreditManagers ---------------------------
(***************************************************************************)
(* The credit managers a program can embed: pools (credit-pool.ts), holds  *)
(* (credit-reservation.ts), grants that expire (credit-expiration.ts),     *)
(* transfers that can be reversed (credit-transfer.ts), batches            *)
(* (batch-credits.ts) and quotas that roll over (quota-rollover.ts).  Each *)
(* keeps its own tables and none calls another, so a behaviour is the life *)
(* of one of them, `mgr`, and `s` is its state.  A call that throws or     *)
(* returns without an effect is no step.                                   *)
(***************************************************************************)
EXTENDS Integers, Sequences, FiniteSets, SequencesExt, FiniteSetsExt, Functions, Totals

CONSTANTS Keys, Amounts,
          Limit,              \* members of a pool, holds of a key, grants, history, batch
          Shares, Caps,       \* rolloverPercent and maxRollover of a quota
          MaxOps, MaxClock    \* bounds

VARIABLES mgr, s,
          seen,               \* what callers were told, see the properties
          now, ops

vars == <<mgr, s, seen, now, ops>>

Managers == {"pool", "reservation", "expiration", "transfer", "batch", "rollover"}
Zero == [k \in Keys |-> 0]
Whole(f) == FoldFunction(+, 0, f)
SumOver(S, f(_)) == MapThenSumSet(f, S)
Positive(n) == IF n > 0 THEN n ELSE 0
Plus(f, k, n) == [f EXCEPT ![k] = @ + n]

(* A new quota, as createQuota makes it. *)
QuotaOf(c, p, m, auto) == [limit |-> c, share |-> p, cap |-> m, auto |-> auto,
                           end |-> now + 1, used |-> 0, rollover |-> 0]

(* A call of manager m that has an effect. *)
Call(m) == /\ mgr = m /\ ops < MaxOps /\ ops' = ops + 1
           /\ UNCHANGED <<mgr, now>>

PoolInit == mgr = "pool" /\ s = [pools |-> <<>>, index |-> [k \in Keys |-> {}]] /\ seen = <<>>
ReservationInit == /\ mgr = "reservation" /\ seen = Zero
                   /\ s = [bal |-> [k \in Keys |-> 3], res |-> <<>>]
ExpirationInit == /\ mgr = "expiration" /\ seen = 0
                  /\ s = [grants |-> <<>>, granted |-> 0, consumed |-> 0, lapsed |-> 0]
TransferInit == /\ mgr = "transfer" /\ seen = [given |-> 3, undone |-> <<>>]
                /\ \E overdraft \in BOOLEAN, k \in Keys :
                      s = [bal |-> [j \in {k} |-> 3], hist |-> <<>>, nextId |-> 1,
                           allowOverdraft |-> overdraft]
BatchInit == mgr = "batch" /\ s = Zero /\ seen = Zero
RolloverInit == /\ mgr = "rollover" /\ seen = [closed |-> 0, high |-> Max(Amounts), consumed |-> 0]
                /\ \E p \in Shares, m \in Caps, auto \in BOOLEAN :
                      s = QuotaOf(Max(Amounts), p, m, auto)
Init == /\ now = 0 /\ ops = 0
        /\ \/ PoolInit \/ ReservationInit \/ ExpirationInit
           \/ TransferInit \/ BatchInit \/ RolloverInit
-----------------------------------------------------------------------------
(* CreditPoolManager.  Pools are numbered; a deleted pool has no members   *)
(* and is gone from the index.                                             *)
Gone == [total |-> 0, used |-> 0, members |-> {}, live |-> FALSE]
Live == {p \in DOMAIN s.pools : s.pools[p].live}

CreatePool(c) ==
    /\ Call("pool") /\ Cardinality(Live) < Limit /\ Len(s.pools) < 2    \* bound
    /\ s' = [s EXCEPT !.pools = Append(@, [total |-> c, used |-> 0, members |-> {}, live |-> TRUE])]
    /\ seen' = Append(seen, 0)

(* Slip: the keys keep the pool they were members of. *)
UnindexedLate(p) == s.index

Unindexed(p) == [k \in Keys |-> s.index[k] \ {p}]

DeletePool(p) ==
    /\ Call("pool") /\ p \in Live
    /\ s' = [s EXCEPT !.pools[p] = Gone, !.index = Unindexed(p)]
    /\ UNCHANGED seen

AddToPool(p, c) ==
    /\ Call("pool") /\ p \in Live
    /\ s' = [s EXCEPT !.pools[p].total = @ + c]
    /\ UNCHANGED seen

AddMember(p, k) ==
    /\ Call("pool") /\ p \in Live
    /\ k \notin s.pools[p].members /\ Cardinality(s.pools[p].members) < Limit
    /\ s' = [s EXCEPT !.pools[p].members = @ \cup {k}, !.index[k] = @ \cup {p}]
    /\ UNCHANGED seen

RemoveMember(p, k) ==
    /\ Call("pool") /\ p \in Live /\ k \in s.pools[p].members
    /\ s' = [s EXCEPT !.pools[p].members = @ \ {k}, !.index[k] = @ \ {p}]
    /\ UNCHANGED seen

PoolConsume(p, k, c) ==
    /\ Call("pool") /\ p \in Live /\ k \in s.pools[p].members
    /\ c <= s.pools[p].total - s.pools[p].used
    /\ s' = [s EXCEPT !.pools[p].used = @ + c]
    /\ seen' = Plus(seen, p, c)
-----------------------------------------------------------------------------
(* CreditReservationManager.                                               *)
Held(k) == {i \in DOMAIN s.res : s.res[i].key = k /\ s.res[i].status = "held"}
Amount == [i \in DOMAIN s.res |-> s.res[i].amount]
HeldBalance(k) == Total(Amount, Held(k))

(* Slip: what is held already is not looked at. *)
AvailableBalanceWhole(k) == s.bal[k]

AvailableBalance(k) == s.bal[k] - HeldBalance(k)

ReserveCredits(k, c, ttl) ==
    /\ Call("reservation") /\ Cardinality(Held(k)) < Limit /\ AvailableBalance(k) >= c
    /\ s' = [s EXCEPT !.res = Append(@, [key |-> k, amount |-> c, status |-> "held",
                                         expiresAt |-> now + ttl])]
    /\ UNCHANGED seen

(* settle takes the actual amount, less or more than what was held. *)
SettleHold(i, actual) ==
    /\ Call("reservation") /\ i \in DOMAIN s.res /\ s.res[i].status = "held"
    /\ s' = [s EXCEPT !.bal = Plus(@, s.res[i].key, -actual), !.res[i].status = "settled"]
    /\ seen' = Plus(seen, s.res[i].key, Positive(actual - s.res[i].amount))

ReleaseHold(i) ==
    /\ Call("reservation") /\ i \in DOMAIN s.res /\ s.res[i].status = "held"
    /\ s' = [s EXCEPT !.res[i].status = "released"]
    /\ UNCHANGED seen

SetBalance(k, c) ==
    /\ Call("reservation")
    /\ s' = [s EXCEPT !.bal[k] = c]
    /\ seen' = Plus(seen, k, Positive(s.bal[k] - c))

(* The timer of expireReservations, which a program may also call. *)
ExpireReservations ==
    /\ mgr = "reservation"
    /\ LET due == {i \in DOMAIN s.res : s.res[i].status = "held" /\ s.res[i].expiresAt <= now}
       IN  /\ due # {}
           /\ s' = [s EXCEPT !.res = [i \in DOMAIN @ |->
                      IF i \in due THEN [@[i] EXCEPT !.status = "expired"] ELSE @[i]]]
    /\ UNCHANGED <<mgr, seen, now, ops>>
-----------------------------------------------------------------------------
(* CreditExpirationManager, for one key.  pruneExpired marks grants that   *)
(* are over and never removes one.                                         *)

(* Slip: a grant is good at the instant it expires. *)
OverLate(g) == ~g.expired /\ g.expiresAt < now

Over(g) == ~g.expired /\ g.expiresAt <= now

Emptied(g) == [g EXCEPT !.left = 0, !.expired = TRUE]
LeftOf(x) == [i \in DOMAIN x.grants |-> x.grants[i].left]
LeftIn(x, I) == Total(LeftOf(x), I)
OverIn(x) == {i \in DOMAIN x.grants : Over(x.grants[i])}
Pruned(x) ==
    [x EXCEPT !.grants = [i \in DOMAIN @ |-> IF i \in OverIn(x) THEN Emptied(@[i]) ELSE @[i]],
              !.lapsed = @ + LeftIn(x, OverIn(x))]

GrantFor(c, life) ==
    /\ Call("expiration") /\ Len(s.grants) < Limit
    /\ s' = [s EXCEPT !.grants = Append(@, [left |-> c, expiresAt |-> now + life, expired |-> FALSE]),
                      !.granted = @ + c]
    /\ UNCHANGED seen

(* consume takes from the grants in the order of their expiry. *)
Active(x) == {i \in DOMAIN x.grants : ~x.grants[i].expired /\ x.grants[i].left > 0}
Before(x, i) == {j \in Active(x) : \/ x.grants[j].expiresAt < x.grants[i].expiresAt
                                   \/ x.grants[j].expiresAt = x.grants[i].expiresAt /\ j < i}
Taken(x, c) == [i \in Active(x) |-> Portion(x.grants[i].left, LeftIn(x, Before(x, i)), c)]
Less(gs, A, taken) ==
    [i \in DOMAIN gs |-> IF i \in A THEN [gs[i] EXCEPT !.left = @ - taken[i]] ELSE gs[i]]

ConsumeGrants(c) ==
    /\ Call("expiration")
    /\ LET x == Pruned(s)
           taken == Taken(x, c)
           n == Total(taken, Active(x))
       IN  /\ s' = [x EXCEPT !.consumed = @ + n, !.grants = Less(@, Active(x), taken)]
           /\ seen' = seen + n

(* getBalance and getGrants prune; so does a grant refused at the limit. *)
LookAtGrants == /\ Call("expiration") /\ OverIn(s) # {} /\ s' = Pruned(s) /\ UNCHANGED seen

ExpireAll ==
    /\ Call("expiration")
    /\ Active(s) # {}
    /\ s' = [s EXCEPT !.grants = [i \in DOMAIN @ |->
                                    IF i \in Active(s) THEN Emptied(@[i]) ELSE @[i]],
                      !.lapsed = @ + LeftIn(s, Active(s))]
    /\ UNCHANGED seen
-----------------------------------------------------------------------------
(* CreditTransferManager.                                                  *)
AddCredits(k, c) ==
    /\ Call("transfer")
    /\ s' = [s EXCEPT !.bal = [j \in DOMAIN @ \cup {k} |->
                 (IF j \in DOMAIN @ THEN @[j] ELSE 0) + IF j = k THEN c ELSE 0]]
    /\ seen' = [seen EXCEPT !.given = @ + c]

ResetBalance(k, c) ==
    /\ Call("transfer") /\ k \in DOMAIN s.bal
    /\ s' = [s EXCEPT !.bal[k] = c]
    /\ seen' = [seen EXCEPT !.given = @ + c - s.bal[k]]

CanTransfer(a, b, c) == /\ a # b /\ {a, b} \subseteq DOMAIN s.bal
                        /\ s.allowOverdraft \/ s.bal[a] >= c

Recent(q) == IF Len(q) > Limit THEN SubSeq(q, Len(q) - Limit + 1, Len(q)) ELSE q
Moved(a, b, c, hist) ==
    [s EXCEPT !.bal[a] = @ - c, !.bal[b] = @ + c, !.nextId = @ + 1,
              !.hist = Recent(Append(hist, [id |-> s.nextId, from |-> a, to |-> b, amount |-> c,
                                          reversed |-> FALSE]))]

Transfer(a, b, c) ==
    /\ Call("transfer") /\ CanTransfer(a, b, c)
    /\ s' = Moved(a, b, c, s.hist)
    /\ UNCHANGED seen

(* Slip: the original is not marked. *)
MarkedNot(i) == s.hist

Marked(i) == [s.hist EXCEPT ![i].reversed = TRUE]

ReverseTransfer(i) ==
    /\ Call("transfer") /\ i \in DOMAIN s.hist /\ ~s.hist[i].reversed
    /\ CanTransfer(s.hist[i].to, s.hist[i].from, s.hist[i].amount)
    /\ s' = Moved(s.hist[i].to, s.hist[i].from, s.hist[i].amount, Marked(i))
    /\ seen' = [seen EXCEPT !.undone = Append(@, s.hist[i].id)]
-----------------------------------------------------------------------------
(* BatchCreditManager: an operation moves `amount` from one key to         *)
(* another; a topup or a refund comes from nowhere and a deduction goes    *)
(* there, an adjustment is one or the other.                               *)
Nowhere == "nowhere"
Op == {o \in [from : Keys \cup {Nowhere}, to : Keys \cup {Nowhere}, amount : Amounts] :
         o.from # o.to}

Valid(bal, o) == o.from = Nowhere \/ bal[o.from] >= o.amount
Effect(bal, o) == [k \in Keys |-> bal[k] + (IF k = o.to THEN o.amount ELSE 0)
                                         - (IF k = o.from THEN o.amount ELSE 0)]

SeedBalance(k, c) ==
    /\ Call("batch") /\ s' = [s EXCEPT ![k] = c] /\ seen' = [seen EXCEPT ![k] = c]

(* The operations in their order: the balances, and which succeeded. *)
Executed(bal, os) ==
    FoldLeft(LAMBDA x, o : IF Valid(x.bal, o)
                           THEN [bal |-> Effect(x.bal, o), ok |-> Append(x.ok, TRUE)]
                           ELSE [bal |-> x.bal, ok |-> Append(x.ok, FALSE)],
             [bal |-> bal, ok |-> <<>>], os)

(* Slip: what was done before the failure stays. *)
RolledBackNot(before, after) == after

RolledBack(before, after) == before

(* execute: an atomic batch is validated against the balances before it,   *)
(* and rolled back if an operation fails all the same.                     *)
Execute(os, atomic) ==
    /\ Call("batch")
    /\ LET x == Executed(s, os)
           failed == \E i \in DOMAIN os : ~x.ok[i]
           refused == atomic /\ \E i \in DOMAIN os : ~Valid(s, os[i])
           told == IF refused \/ (atomic /\ failed) THEN {}
                   ELSE {i \in DOMAIN os : x.ok[i]}
       IN  /\ s' = IF refused THEN s ELSE IF atomic /\ failed THEN RolledBack(s, x.bal) ELSE x.bal
           /\ seen' = [k \in Keys |-> seen[k]
                         + SumOver({i \in told : os[i].to = k}, LAMBDA i : os[i].amount)
                         - SumOver({i \in told : os[i].from = k}, LAMBDA i : os[i].amount)]
-----------------------------------------------------------------------------
(* QuotaRolloverManager, for one key with a daily quota.                   *)

(* Slip: what was rolled over before is not used up first. *)
UnusedFresh(x) == x.limit + x.rollover

Unused(x) == x.limit + x.rollover - x.used

RolledOver(x) == IF Unused(x) > 0 THEN Min({(Unused(x) * x.share) \div 100, x.cap}) ELSE 0
Advanced(x) == [x EXCEPT !.end = @ + 1, !.used = 0, !.rollover = RolledOver(x)]
Closing == [seen EXCEPT !.closed = @ + seen.high, !.high = s.limit]

AdvancePeriod ==
    /\ Call("rollover") /\ s' = Advanced(s) /\ seen' = Closing

(* consume and getStatus advance one period if the current one is over. *)
Overdue == s.auto /\ now >= s.end

LookAtQuota == Call("rollover") /\ Overdue /\ s' = Advanced(s) /\ seen' = Closing

ConsumeQuota(c) ==
    /\ Call("rollover")
    /\ LET x == IF Overdue THEN Advanced(s) ELSE s
           y == IF Overdue THEN Closing ELSE seen
           ok == c <= x.limit + x.rollover - x.used
       IN  /\ s' = IF ok THEN [x EXCEPT !.used = @ + c] ELSE x
           /\ seen' = IF ok THEN [y EXCEPT !.consumed = @ + c] ELSE y

UpdateLimit(c) ==
    /\ Call("rollover")
    /\ s' = [s EXCEPT !.limit = c]
    /\ seen' = [seen EXCEPT !.high = Max({@, c})]

RecreateQuota(c, p, m) ==     \* removeQuota, then createQuota
    /\ Call("rollover") /\ s' = QuotaOf(c, p, m, s.auto)
    /\ seen' = [Closing EXCEPT !.high = c]

UpdateRollover(p, c) ==
    /\ Call("rollover") /\ s' = [s EXCEPT !.share = p, !.cap = c] /\ UNCHANGED seen
-----------------------------------------------------------------------------
Tick == /\ mgr \in {"reservation", "expiration", "rollover"} /\ now < MaxClock
        /\ now' = now + 1 /\ UNCHANGED <<mgr, s, seen, ops>>

PoolNext ==
    \/ \E c \in Amounts : CreatePool(c)
    \/ \E p \in 1..2 : \/ DeletePool(p)
                       \/ \E c \in Amounts : AddToPool(p, c)
                       \/ \E k \in Keys : \/ AddMember(p, k) \/ RemoveMember(p, k)
                                          \/ \E c \in Amounts : PoolConsume(p, k, c)
ReservationNext ==
    \/ \E k \in Keys, c \in Amounts : SetBalance(k, c) \/ \E t \in 1..2 : ReserveCredits(k, c, t)
    \/ \E i \in 1..MaxOps : \/ ReleaseHold(i)
                            \/ \E c \in Amounts \cup {0} : SettleHold(i, c)
    \/ ExpireReservations
ExpirationNext ==
    \/ \E c \in Amounts : ConsumeGrants(c) \/ \E l \in 1..2 : GrantFor(c, l)
    \/ LookAtGrants \/ ExpireAll
TransferNext ==
    \/ \E k \in Keys, c \in Amounts : AddCredits(k, c) \/ ResetBalance(k, c)
    \/ \E a, b \in Keys, c \in Amounts : Transfer(a, b, c)
    \/ \E i \in 1..Limit : ReverseTransfer(i)
BatchNext ==
    \/ \E k \in Keys, c \in Amounts : SeedBalance(k, c)
    \/ \E os \in SeqOf(Op, Limit) \ {<<>>}, atomic \in BOOLEAN : Execute(os, atomic)
RolloverNext ==
    \/ AdvancePeriod \/ LookAtQuota
    \/ \E c \in Amounts : \/ ConsumeQuota(c) \/ UpdateLimit(c)
                         \/ \E p \in Shares, m \in Caps : RecreateQuota(c, p, m)
    \/ \E p \in Shares, c \in Caps : UpdateRollover(p, c)
Next == \/ PoolNext \/ ReservationNext \/ ExpirationNext
        \/ TransferNext \/ BatchNext \/ RolloverNext \/ Tick

Spec == Init /\ [][Next]_vars
-----------------------------------------------------------------------------
(* A pool gives its members what it has and no more, and what it says it   *)
(* gave; the index from keys to pools and the members of the pools agree   *)
(* through additions, removals and deletions.                              *)
PoolsAgree == mgr = "pool" =>
    /\ \A p \in Live : s.pools[p].used = seen[p] /\ s.pools[p].used <= s.pools[p].total
    /\ \A k \in Keys, p \in DOMAIN s.pools : p \in s.index[k] <=> k \in s.pools[p].members

(* The holds of a key are covered by its balance, except for what          *)
(* settlements took beyond their holds and administrators took away.       *)
HoldsCovered == mgr = "reservation" => \A k \in Keys : AvailableBalance(k) + seen[k] >= 0

(* Whatever expires, is swept late or consumed across grants, every credit *)
(* granted is left, consumed or expired, and nothing is consumed of a      *)
(* grant that is over.                                                     *)
GrantsBalance == mgr = "expiration" =>
    /\ s.granted = s.consumed + s.lapsed + LeftIn(s, DOMAIN s.grants)
    /\ s.consumed = seen
ExpiredUnspent == [][mgr = "expiration" /\ seen' # seen => \A i \in DOMAIN s.grants :
    s'.grants[i].left < s.grants[i].left => s.grants[i].expiresAt > now \/ s'.grants[i].expired]_vars

(* Transfers and reversals neither make nor lose credits, overdraw nobody  *)
(* unless allowed, and undo a transfer once, whatever the history forgot.  *)
TransfersBalance == mgr = "transfer" =>
    /\ Whole(s.bal) = seen.given
    /\ s.allowOverdraft \/ \A k \in DOMAIN s.bal : s.bal[k] >= 0
    /\ IsInjective(seen.undone)

(* A balance is the sum of the operations reported as successful: nothing  *)
(* of an atomic batch that failed remains, and nobody falls below zero.    *)
BatchesBalance == mgr = "batch" => s = seen /\ \A k \in Keys : s[k] >= 0

(* Rolling over moves allowance and never makes any: all periods together  *)
(* admit no more than the sum of their limits.                             *)
RolloverMintsNothing == mgr = "rollover" => seen.consumed <= seen.closed + seen.high
=============================================================================
