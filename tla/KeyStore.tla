------------------------------ MODULE KeyStore ------------------------------
(***************************************************************************)
(* The API key record of store.ts and the rewrites of one record that the  *)
(* store, the quota tracker (quota.ts) and the gate (gate.ts) perform.     *)
(* Each operator takes a record and returns the record the method leaves.  *)
(* Names, tags, masking and timestamps that no decision reads are left     *)
(* out; a day is the number of a UTC day, an expiry is a clock value.      *)
(***************************************************************************)
EXTENDS Integers

CONSTANT DaysPerMonth      \* the days of a month, for the monthly counters

ASSUME DaysPerMonthAssumption == DaysPerMonth \in Nat \ {0}

(* UTC month of a UTC day. *)
MonthOf(d) == d \div DaysPerMonth

(* A quota; `on` is FALSE for a key with no quota of its own.  A limit of  *)
(* zero is no limit.                                                       *)
Quota == [on : BOOLEAN, dailyCalls : Nat, monthlyCalls : Nat,
          dailyCredits : Nat, monthlyCredits : Nat]

NoQuota == [on |-> FALSE, dailyCalls |-> 0, monthlyCalls |-> 0,
            dailyCredits |-> 0, monthlyCredits |-> 0]

(* Auto-topup settings; threshold 0 is a key with none: no balance is      *)
(* below it.                                                               *)
Topup == [threshold : Nat, amount : Nat, maxDaily : Nat]

NoTopup == [threshold |-> 0, amount |-> 0, maxDaily |-> 0]

(* The counters of one subject against a quota: a key here, a team too.    *)
Usage == [dailyCalls : Nat, monthlyCalls : Nat, dailyCredits : Nat,
          monthlyCredits : Nat, day : Nat, month : Nat]

KeyRecord ==
    [active : BOOLEAN, suspended : BOOLEAN, expiresAt : Nat,
     credits : Nat, totalSpent : Nat, totalCalls : Nat, spendingLimit : Nat,
     quota : Quota, used : Usage,
     autoTopup : Topup, topupCount : Nat, topupDay : Nat]

FreshUsage(d) == [dailyCalls |-> 0, monthlyCalls |-> 0, dailyCredits |-> 0,
                  monthlyCredits |-> 0, day |-> d, month |-> MonthOf(d)]

(* createKey: a new key, its counters dated today. *)
NewKey(credits, d) ==
    [active |-> TRUE, suspended |-> FALSE, expiresAt |-> 0,
     credits |-> credits, totalSpent |-> 0, totalCalls |-> 0,
     spendingLimit |-> 0, quota |-> NoQuota, used |-> FreshUsage(d),
     autoTopup |-> NoTopup, topupCount |-> 0, topupDay |-> d]

(* Slip: a clone that inherits the balance as well. *)
CloneWithBalance(r, credits, d) == [r EXCEPT !.credits = r.credits + credits]

(* cloneKey: the settings of the source, with fresh counters. *)
Clone(r, credits, d) ==
    [NewKey(credits, d) EXCEPT !.expiresAt = r.expiresAt,
        !.spendingLimit = r.spendingLimit, !.quota = r.quota,
        !.autoTopup = r.autoTopup]

(* isExpired and getKey: a record is usable while active and not expired;  *)
(* expiresAt 0 is never.  Suspension is the gate's own check.              *)
IsExpired(r, t) == r.expiresAt # 0 /\ t >= r.expiresAt
Usable(r, t) == r.active /\ ~IsExpired(r, t)

(* Slip: what is spent is not counted. *)
DeductUncounted(r, t, c) ==
    IF Usable(r, t) /\ r.credits >= c THEN [r EXCEPT !.credits = @ - c] ELSE r

(* deductCredits; a caller that ignores its refusal leaves r unchanged. *)
Deduct(r, t, c) ==
    IF Usable(r, t) /\ r.credits >= c
    THEN [r EXCEPT !.credits = r.credits - c, !.totalSpent = r.totalSpent + c,
                   !.totalCalls = r.totalCalls + 1]
    ELSE r

(* addCredits, which refuses an unusable key and an amount of zero. *)
AddCredits(r, t, c) ==
    IF Usable(r, t) THEN [r EXCEPT !.credits = @ + c] ELSE r

-----------------------------------------------------------------------------
(* The quota tracker. *)

(* resetIfNeeded: counters of a past day or month restart at zero. *)
ResetIfNeeded(u, d) ==
    [dailyCalls     |-> IF u.day = d THEN u.dailyCalls ELSE 0,
     dailyCredits   |-> IF u.day = d THEN u.dailyCredits ELSE 0,
     monthlyCalls   |-> IF u.month = MonthOf(d) THEN u.monthlyCalls ELSE 0,
     monthlyCredits |-> IF u.month = MonthOf(d) THEN u.monthlyCredits ELSE 0,
     day            |-> d,
     month          |-> MonthOf(d)]

(* check and checkBatch on counters already reset: n more calls for c      *)
(* credits stay within every limit of q that is set.                       *)
WithinLimit(used, more, limit) == limit = 0 \/ used + more <= limit

QuotaAllows(q, u, n, c) ==
    /\ WithinLimit(u.dailyCalls, n, q.dailyCalls)
    /\ WithinLimit(u.monthlyCalls, n, q.monthlyCalls)
    /\ WithinLimit(u.dailyCredits, c, q.dailyCredits)
    /\ WithinLimit(u.monthlyCredits, c, q.monthlyCredits)

(* The key's own quota replaces the global one. *)
EffectiveQuota(r, globalQuota) == IF r.quota.on THEN r.quota ELSE globalQuota

CountUsage(v, n, c) ==
    [dailyCalls |-> v.dailyCalls + n, monthlyCalls |-> v.monthlyCalls + n,
     dailyCredits |-> v.dailyCredits + c, monthlyCredits |-> v.monthlyCredits + c,
     day |-> v.day, month |-> v.month]

(* Slip: a batch recorded as one call. *)
QuotaRecordOnce(u, d, n, c) == CountUsage(ResetIfNeeded(u, d), 1, c)

(* record and recordBatch: n admitted calls for c credits. *)
QuotaRecord(u, d, n, c) == CountUsage(ResetIfNeeded(u, d), n, c)

(* Slip: no clamp at zero. *)
LessUnclamped(x, y) == x - y

(* unrecord: undo one call, with no reset first. *)
Less(x, y) == IF x >= y THEN x - y ELSE 0

QuotaUnrecord(u, c) ==
    [dailyCalls |-> Less(u.dailyCalls, 1), monthlyCalls |-> Less(u.monthlyCalls, 1),
     dailyCredits |-> Less(u.dailyCredits, c),
     monthlyCredits |-> Less(u.monthlyCredits, c), day |-> u.day, month |-> u.month]

-----------------------------------------------------------------------------
(* The gate's own rewrites of a record. *)

(* checkAutoTopup: below the threshold and within the day's allowance, add *)
(* the amount; a new day restarts the count.                               *)
TopupsToday(r, d) == IF r.topupDay = d THEN r.topupCount ELSE 0

TopupFires(r, t, d) ==
    /\ Usable(r, t)
    /\ r.credits < r.autoTopup.threshold
    /\ r.autoTopup.maxDaily = 0 \/ TopupsToday(r, d) < r.autoTopup.maxDaily

(* Slip: the new count is not dated. *)
AutoTopupUndated(r, t, d) ==
    IF TopupFires(r, t, d)
    THEN [r EXCEPT !.credits = @ + r.autoTopup.amount,
                   !.topupCount = TopupsToday(r, d) + 1]
    ELSE r

AutoTopup(r, t, d) ==
    IF TopupFires(r, t, d)
    THEN [r EXCEPT !.credits = @ + r.autoTopup.amount,
                   !.topupCount = TopupsToday(r, d) + 1, !.topupDay = d]
    ELSE r

(* Slip: the credits come back and totalSpent stays. *)
RefundKeepsSpent(r, t, c) ==
    IF Usable(r, t)
    THEN [AddCredits(r, t, c) EXCEPT !.used = QuotaUnrecord(@, c)] ELSE r

(* refund: give the credits back and roll the totals and the quota back;   *)
(* nothing at all for a key that is no longer usable.                      *)
Refund(r, t, c) ==
    IF Usable(r, t)
    THEN [AddCredits(r, t, c) EXCEPT
            !.totalSpent = Less(@, c), !.totalCalls = Less(@, 1),
            !.used = QuotaUnrecord(@, c)]
    ELSE r
=============================================================================
