------------------------------ MODULE Billing -------------------------------
(***************************************************************************)
(* The books a program can embed beside the gate: shares of what tools     *)
(* earn (revenue-share.ts), subscriptions with their invoices              *)
(* (billing-cycles.ts), a ledger to reconcile balances with                *)
(* (credit-ledger-reconciler.ts) and prices that follow demand             *)
(* (dynamic-pricing.ts).  None calls another: a behaviour is the life of   *)
(* one of them, `mgr`, and `s` is its state.  A call that is refused       *)
(* without an effect is no step.  `seen` belongs to the observer.          *)
(***************************************************************************)
EXTENDS Integers, Sequences, FiniteSets, SequencesExt, FiniteSetsExt, Functions

CONSTANTS Keys, Amounts,
          MaxRules,          \* of shares
          MaxUsage,          \* usage records of a key
          MaxInvoices, MaxKeys, MaxEntries,
          Cycle,             \* length of a billing cycle
          Window,            \* in which calls make demand
          MaxOps, MaxClock   \* bounds: of calls and of time, by manager

VARIABLES mgr, s, seen, now, ops

vars == <<mgr, s, seen, now, ops>>

Call(m) == /\ mgr = m /\ ops < MaxOps[m] /\ ops' = ops + 1
           /\ UNCHANGED <<mgr, now>>

Without(f, K) == [k \in DOMAIN f \ K |-> f[k]]
With(f, k, v) == [j \in DOMAIN f \cup {k} |-> IF j = k THEN v ELSE f[j]]
Got(f, k, d) == IF k \in DOMAIN f THEN f[k] ELSE d
SumSeq(q, f(_)) == FoldLeft(LAMBDA acc, x : acc + f(x), 0, q)
Last2(q, n) == SubSeq(q, IF Len(q) > n THEN Len(q) - n + 1 ELSE 1, Len(q))   \* the last n
Place(q, id) == CHOOSE i \in DOMAIN q : q[i].id = id
IdsOf(q) == {q[i].id : i \in DOMAIN q}
-----------------------------------------------------------------------------
(* RevenueShareTracker.  A rule gives one developer a share of one tool or *)
(* of all; rules are asked in the order of their Map.  Keys stand for the  *)
(* developers and for the tools.                                           *)

AllTools == "all"
SharesInit == /\ mgr = "shares"
              /\ s = [rules |-> <<>>, totals |-> <<>>, settlements |-> <<>>,
                      credits |-> 0, developers |-> 0, platform |-> 0]
              /\ seen = [due |-> [d \in Keys |-> 0], calls |-> [d \in Keys |-> 0]]

UpsertRule(r) ==
    /\ Call("shares")
    /\ IF r.id \in IdsOf(s.rules) THEN s' = [s EXCEPT !.rules[Place(s.rules, r.id)] = r]
       ELSE Len(s.rules) < MaxRules /\ s' = [s EXCEPT !.rules = Append(@, r)]
    /\ UNCHANGED seen
RemoveRule(id) == /\ Call("shares") /\ id \in IdsOf(s.rules)
                  /\ s' = [s EXCEPT !.rules = SelectSeq(@, LAMBDA r : r.id # id)] /\ UNCHANGED seen

(* findRule: the first active one; none is an empty sequence.              *)
FindRule(tool) == SelectSeq(s.rules, LAMBDA r : r.active /\ r.tool \in {AllTools, tool})

(* Slip: both shares are rounded down.                                     *)
SharesFloored(n, percent) == [developer |-> (n * percent) \div 100, platform |-> (n * (100 - percent)) \div 100]

Shares(n, percent) == LET d == (n * percent) \div 100 IN [developer |-> d, platform |-> n - d]
NoTotals == [earned |-> 0, settled |-> 0, calls |-> 0]
RecordRevenue(tool, n) ==
    /\ Call("shares")
    /\ LET found == FindRule(tool)
       IN  IF found = <<>> \/ n < found[1].least
           THEN /\ s' = [s EXCEPT !.credits = @ + n, !.platform = @ + n] /\ UNCHANGED seen
           ELSE LET r == found[1]
                    share == Shares(n, r.percent)
                    old == Got(s.totals, r.developer, NoTotals)
                IN  /\ s' = [s EXCEPT !.credits = @ + n, !.developers = @ + share.developer,
                                      !.platform = @ + share.platform,
                                      !.totals = With(@, r.developer, [old EXCEPT !.earned = @ + share.developer,
                                                                                  !.calls = @ + 1])]
                    /\ seen' = [seen EXCEPT !.due[r.developer] = @ + (n * r.percent) \div 100,
                                            !.calls[r.developer] = @ + 1]
(* Slip: what was settled before is settled again.                         *)
OwedAgain(t) == t.earned

Owed(t) == t.earned - t.settled
Settle(d) ==
    /\ Call("shares") /\ d \in DOMAIN s.totals /\ Owed(s.totals[d]) > 0
    /\ s' = [s EXCEPT !.totals[d].settled = s.totals[d].earned,
                      !.settlements = Append(@, [developer |-> d, credits |-> Owed(s.totals[d])])]
    /\ UNCHANGED seen
ResetShares == /\ Call("shares") /\ s' = [s EXCEPT !.credits = 0, !.developers = 0, !.platform = 0]
               /\ UNCHANGED seen
-----------------------------------------------------------------------------
(* BillingCycleManager, one key.  A period includes both of its ends.      *)
(* seen.log: all usage; seen.billed: credits of the invoices that were     *)
(* made final; seen.paid, seen.moved: which were paid, and whether the     *)
(* subscription was made anew.                                             *)

CyclesInit == /\ mgr = "cycles"
              /\ s = [sub |-> <<>>, usage |-> <<>>, invoices |-> <<>>, next |-> 1, total |-> 0]
              /\ seen = [log |-> <<>>, billed |-> 0, paid |-> {}, moved |-> FALSE, evicted |-> FALSE]

(* A subscription starts on a day, also one that has passed or is to come. *)
CreateSubscription(start) ==
    /\ Call("cycles")
    /\ s' = [s EXCEPT !.sub = <<[start |-> start, end |-> start + Cycle, active |-> TRUE]>>]
    /\ seen' = [seen EXCEPT !.moved = @ \/ s.invoices # <<>>]
SetActive(on) == /\ Call("cycles") /\ s.sub # <<>> /\ s.sub[1].active # on
                 /\ s' = [s EXCEPT !.sub[1].active = on] /\ UNCHANGED seen
CancelSubscription == /\ Call("cycles") /\ s.sub # <<>> /\ s' = [s EXCEPT !.sub = <<>>] /\ UNCHANGED seen
RecordUsage(n) == /\ Call("cycles")
                  /\ s' = [s EXCEPT !.usage = Last2(Append(@, [at |-> now, credits |-> n]), MaxUsage)]
                  /\ seen' = [seen EXCEPT !.log = Append(@, [at |-> now, credits |-> n]),
                                          !.evicted = @ \/ Len(s.usage) = MaxUsage]

(* Slip: one cycle on, however many have passed.                           *)
AdvancedOnce(sub) == IF now < sub.end THEN sub ELSE [sub EXCEPT !.start = sub.end, !.end = sub.end + Cycle]

(* advanceCycle *)
Advanced(sub) ==
    LET n == IF now < sub.end THEN 0 ELSE (now - sub.end) \div Cycle + 1
    IN  [sub EXCEPT !.start = @ + n * Cycle, !.end = @ + n * Cycle]
(* Slip: usage before the cycle is in its invoice.                         *)
InPeriodOpen(u, sub) == u.at <= sub.end

(* getUsage; a start of 0 would be no bound, and days are not numbered 0.  *)
InPeriod(u, sub) == u.at >= sub.start /\ u.at <= sub.end
GenerateInvoice ==
    /\ Call("cycles") /\ s.sub # <<>>
    /\ LET sub == Advanced(s.sub[1])
           bill == SumSeq(SelectSeq(s.usage, LAMBDA u : InPeriod(u, sub)), LAMBDA u : u.credits)
       IN  s' = [s EXCEPT !.sub = <<sub>>, !.next = @ + 1,
                          !.invoices = Last2(Append(@, [id |-> s.next, status |-> "draft", start |-> sub.start,
                                                        end |-> sub.end, credits |-> bill, at |-> now]),
                                             MaxInvoices)]
    /\ UNCHANGED seen
(* Slip: an invoice is final again after it was voided.                    *)
MayFinalizeAgain(i) == s.invoices[i].status \in {"draft", "voided", "finalized"}

MayFinalize(i) == s.invoices[i].status = "draft"
FinalizeInvoice(i) == /\ Call("cycles") /\ i \in DOMAIN s.invoices /\ MayFinalize(i)
                      /\ s' = [s EXCEPT !.invoices[i].status = "finalized", !.total = @ + s.invoices[i].credits]
                      /\ seen' = [seen EXCEPT !.billed = @ + IF s.invoices[i].status = "draft"
                                                             THEN s.invoices[i].credits ELSE 0]
MarkPaid(i) == /\ Call("cycles") /\ i \in DOMAIN s.invoices /\ s.invoices[i].status = "finalized"
               /\ s' = [s EXCEPT !.invoices[i].status = "paid"]
               /\ seen' = [seen EXCEPT !.paid = @ \cup {s.invoices[i].id}]
(* Slip: a paid invoice can be voided.                                     *)
MayVoidAny(i) == s.invoices[i].status # "voided"

MayVoid(i) == s.invoices[i].status \notin {"paid", "voided"}
VoidInvoice(i) == /\ Call("cycles") /\ i \in DOMAIN s.invoices /\ MayVoid(i)
                  /\ s' = [s EXCEPT !.invoices[i].status = "voided"] /\ UNCHANGED seen
-----------------------------------------------------------------------------
(* CreditLedgerReconciler.  seen.sum: what was entered for a key since its *)
(* ledger was made; seen.refused: entries that did not fit, which the      *)
(* counters include.                                                       *)

LedgerInit == /\ mgr = "ledger"
              /\ s = [ledgers |-> <<>>, counted |-> 0, checks |-> 0, gaps |-> 0]
              /\ seen = [sum |-> <<>>, entered |-> 0, refused |-> 0, lies |-> 0]

(* Slip: an entry says what the balance was before it.                     *)
EnteredBefore(l, n) == [balance |-> l.balance + n,
                        entries |-> Last2(Append(l.entries, [amount |-> n, after |-> l.balance]), MaxEntries)]

Entered(l, n) == [balance |-> l.balance + n,
                  entries |-> Last2(Append(l.entries, [amount |-> n, after |-> l.balance + n]), MaxEntries)]
(* recordGrant and recordRefund with n > 0, recordDebit with n < 0, and    *)
(* recordAdjustment with either.                                           *)
RecordEntry(k, n) ==
    /\ Call("ledger")
    /\ LET refused == k \notin DOMAIN s.ledgers /\ Cardinality(DOMAIN s.ledgers) >= MaxKeys
           old == Got(s.ledgers, k, [balance |-> 0, entries |-> <<>>])
       IN  /\ s' = [s EXCEPT !.counted = @ + 1,
                             !.ledgers = IF refused THEN @ ELSE With(@, k, Entered(old, n))]
           /\ seen' = IF refused THEN [seen EXCEPT !.refused = @ + 1]
                      ELSE [seen EXCEPT !.entered = @ + 1, !.sum = With(@, k, Got(@, k, 0) + n)]
RemoveLedger(k) == /\ Call("ledger") /\ k \in DOMAIN s.ledgers
                   /\ s' = [s EXCEPT !.ledgers = Without(@, {k})]
                   /\ seen' = [seen EXCEPT !.sum = Without(@, {k})]
Reconcile(k, reported) ==
    /\ Call("ledger")
    /\ LET balance == Got(s.ledgers, k, [balance |-> 0]).balance
       IN  s' = [s EXCEPT !.checks = @ + 1, !.gaps = @ + IF balance = reported THEN 0 ELSE 1]
    /\ seen' = [seen EXCEPT !.lies = @ + IF Got(seen.sum, k, 0) = reported THEN 0 ELSE 1]
-----------------------------------------------------------------------------
(* DynamicPricingEngine, one tool of base price 16.  Demand starts to tell *)
(* at its threshold of 1 call and trebles a price at twice as many; a      *)
(* discount halves it from the second call of a key on; an override sets   *)
(* it to 32 for one key.  Prices stay whole numbers within these bounds,   *)
(* so the rounding is left out, and so are prices by the hour and by a     *)
(* function.  seen: all calls.                                             *)

Base == 16
OverridePrice == 32
Threshold == 1
Kinds == {"demand", "volume", "override"}
Overridden == CHOOSE k \in Keys : TRUE
PricesInit == /\ mgr = "prices"
              /\ s = [rules |-> <<>>, next |-> 1, times |-> <<>>, volume |-> [k \in Keys |-> 0]]
              /\ seen = <<>>

(* Slip: calls go out of the window one tick too soon.                     *)
RecentShort == SelectSeq(s.times, LAMBDA t : t > now - Window)

(* pruneTimestamps *)
Recent == SelectSeq(s.times, LAMBDA t : t >= now - Window)
AddRule(kind, priority) ==
    /\ Call("prices")
    /\ s' = [s EXCEPT !.next = @ + 1,
                      !.rules = Append(@, [id |-> s.next, kind |-> kind, priority |-> priority, on |-> TRUE])]
    /\ UNCHANGED seen
RemovePricingRule(i) == /\ Call("prices") /\ i \in DOMAIN s.rules
                        /\ s' = [s EXCEPT !.rules = RemoveAt(@, i)] /\ UNCHANGED seen
SetRuleEnabled(i, on) == /\ Call("prices") /\ i \in DOMAIN s.rules /\ s.rules[i].on # on
                         /\ s' = [s EXCEPT !.rules[i].on = on] /\ UNCHANGED seen
RecordDemand(k) ==
    /\ Call("prices")
    /\ s' = [s EXCEPT !.times = SelectSeq(Append(@, now), LAMBDA t : t >= now - Window), !.volume[k] = @ + 1]
    /\ seen' = Append(seen, [key |-> k, at |-> now])

(* Slip: demand counts without an end.                                     *)
SurgeUncapped(price, calls) == IF calls < Threshold THEN price ELSE price + (price * 2 * (calls - Threshold)) \div Threshold

(* applyDemand *)
Surge(price, calls) ==
    IF calls < Threshold THEN price
    ELSE price + (price * 2 * Min({calls - Threshold, Threshold})) \div Threshold
ApplyRule(rule, price, k) ==
    CASE rule.kind = "demand" -> Surge(price, Len(Recent))
      [] rule.kind = "volume" -> IF s.volume[k] >= 2 THEN price \div 2 ELSE price
      [] rule.kind = "override" -> IF k = Overridden THEN OverridePrice ELSE price
(* Slip: the lowest priority first.                                        *)
InOrderUp(rules) == LET sorted(i, j) == rules[i].priority < rules[j].priority
                                        \/ (rules[i].priority = rules[j].priority /\ i < j)
                    IN  SetToSortSeq({i \in DOMAIN rules : rules[i].on}, sorted)

(* Enabled rules, the highest priority first, older before newer.          *)
InOrder(rules) == LET sorted(i, j) == rules[i].priority > rules[j].priority
                                      \/ (rules[i].priority = rules[j].priority /\ i < j)
                  IN  SetToSortSeq({i \in DOMAIN rules : rules[i].on}, sorted)
GetPrice(k) == FoldLeft(LAMBDA price, i : ApplyRule(s.rules[i], price, k), Base, InOrder(s.rules))
-----------------------------------------------------------------------------
Tick == /\ now < MaxClock[mgr] /\ now' = now + 1 /\ UNCHANGED <<mgr, s, seen, ops>>

Init == now = 1 /\ ops = 0 /\ (SharesInit \/ CyclesInit \/ LedgerInit \/ PricesInit)

RuleSet == {r \in [id : 1 .. 3, developer : Keys, tool : {Overridden, AllTools}, percent : {50},
                    least : {0, 2}, active : BOOLEAN] :
               /\ r.tool = AllTools \/ (r.least = 0 /\ r.active)
               /\ r.active \/ r.least = 0}
SharesNext == \/ ResetShares
              \/ mgr = "shares" /\ \E r \in RuleSet : UpsertRule(r)
              \/ \E id \in 1 .. 3 : RemoveRule(id)
              \/ \E k \in Keys : Settle(k) \/ \E n \in Amounts : RecordRevenue(k, n)
CyclesNext == \/ CancelSubscription \/ GenerateInvoice
              \/ \E start \in 1 .. 3 : CreateSubscription(start)
              \/ \E on \in BOOLEAN : SetActive(on)
              \/ \E n \in Amounts : RecordUsage(n)
              \/ mgr = "cycles" /\ \E i \in DOMAIN s.invoices : FinalizeInvoice(i) \/ MarkPaid(i) \/ VoidInvoice(i)
LedgerNext == \E k \in Keys : \/ RemoveLedger(k)
                             \/ \E n \in Amounts : RecordEntry(k, n) \/ RecordEntry(k, -n) \/ Reconcile(k, n)
PricesNext == \/ \E kind \in Kinds, priority \in 0 .. 1 : AddRule(kind, priority)
              \/ mgr = "prices" /\ \E i \in DOMAIN s.rules :
                    RemovePricingRule(i) \/ \E on \in BOOLEAN : SetRuleEnabled(i, on)
              \/ \E k \in Keys : RecordDemand(k)
Next == SharesNext \/ CyclesNext \/ LedgerNext \/ PricesNext \/ Tick
-----------------------------------------------------------------------------
(* Whatever rules come and go between calls, each credit is the            *)
(* developer's or the platform's; a developer has earned what the rules    *)
(* gave at the time, and what was settled was owed and is settled once     *)
(* (record, settle).                                                       *)
SharesHonoured == mgr = "shares" =>
    /\ s.credits = s.developers + s.platform
    /\ \A d \in Keys :
          LET t == Got(s.totals, d, NoTotals)
              paid == SumSeq(SelectSeq(s.settlements, LAMBDA x : x.developer = d), LAMBDA x : x.credits)
          IN  /\ t.earned = seen.due[d] /\ t.calls = seen.calls[d]
              /\ t.settled = paid /\ paid <= t.earned

(* Invoices of one subscription are of the same period or of periods that  *)
(* at most touch; each is made in its period or before, and bills the      *)
(* usage of that period up to its making (less what was evicted); what is  *)
(* paid stays paid, and the total is that of all that were made final      *)
(* (generateInvoice, advanceCycle, finalizeInvoice).                       *)
CyclesHonoured == mgr = "cycles" =>
    /\ \A i, j \in DOMAIN s.invoices :
          ~seen.moved /\ i < j => \/ s.invoices[i].start = s.invoices[j].start
                                 \/ s.invoices[i].end <= s.invoices[j].start
    /\ \A i \in DOMAIN s.invoices :
          LET v == s.invoices[i]
              used == SumSeq(SelectSeq(seen.log, LAMBDA u : v.start <= u.at /\ u.at <= v.end /\ u.at < v.at),
                             LAMBDA u : u.credits)
              most == SumSeq(SelectSeq(seen.log, LAMBDA u : v.start <= u.at /\ u.at <= v.end /\ u.at <= v.at),
                             LAMBDA u : u.credits)
          IN  /\ v.at < v.end /\ v.end = v.start + Cycle
              /\ v.credits <= most /\ (seen.evicted \/ used <= v.credits)
              /\ v.id \in seen.paid => v.status = "paid"
    /\ s.total = seen.billed

(* A ledger's balance is the sum of what was entered since it was made,    *)
(* and its entries, also after the oldest are gone, lead up to it; a gap   *)
(* is found exactly when there is one; the counters exceed the entries by  *)
(* those that were refused (addEntry, reconcile).                          *)
LedgerHonoured == mgr = "ledger" =>
    /\ \A k \in DOMAIN s.ledgers :
          LET l == s.ledgers[k]
          IN  /\ l.balance = seen.sum[k] /\ Last(l.entries).after = l.balance
              /\ \A i \in 2 .. Len(l.entries) : l.entries[i].after = l.entries[i - 1].after + l.entries[i].amount
    /\ DOMAIN s.ledgers = DOMAIN seen.sum /\ Cardinality(DOMAIN s.ledgers) <= MaxKeys
    /\ s.gaps = seen.lies /\ s.counted = seen.entered + seen.refused

(* Whatever rules are in force, demand is the calls of the window and      *)
(* volume all calls of a key; a price lies between the discounts and the   *)
(* surges that may apply; and the override of the lowest priority has the  *)
(* last word for its key (getPrice).                                       *)
On(kind) == {i \in DOMAIN s.rules : s.rules[i].on /\ s.rules[i].kind = kind}
PricesHonoured == mgr = "prices" =>
    /\ Len(Recent) = Len(SelectSeq(seen, LAMBDA c : now - c.at <= Window))
    /\ \A k \in Keys :
          LET price == GetPrice(k)
              most == IF k = Overridden /\ On("override") # {} THEN OverridePrice ELSE Base
              lastOverride == {i \in On("override") : \A j \in On("demand") \cup On("volume") :
                                  s.rules[i].priority < s.rules[j].priority}
          IN  /\ s.volume[k] = Len(SelectSeq(seen, LAMBDA c : c.key = k))
              /\ price <= most * 3 ^ Cardinality(On("demand"))
              /\ price * 2 ^ Cardinality(On("volume")) >= Base
              /\ On("demand") = {} => price <= most
              /\ lastOverride # {} /\ k = Overridden => price = OverridePrice
=============================================================================
