------------------------------ MODULE MCCredits ------------------------------
(***************************************************************************)
(* Credits, for TLC, with the managers of Limiters and of Billing.  A      *)
(* behaviour runs one of the five modules, its part.                       *)
(***************************************************************************)
EXTENDS Credits, TLC

CONSTANTS k1, k2, t1, t2, All

VARIABLE part

L == INSTANCE Limiters WITH
    Tools <- {t1, t2}, Amounts <- {1, 2}, MaxRules <- 2, MaxRecords <- 3,
    MaxKeys <- 1, MaxTracked <- 2, Cap <- 3, Rate <- 2, Interval <- 2,
    Admit <- 2, Sub <- 2, Subs <- 2, Spans <- ("minute" :> 2 @@ "hour" :> 4),
    MaxOps <- 4, MaxClock <- 4, now <- time, ops <- calls

B == INSTANCE Billing WITH
    Keys <- {"a", "b"}, Amounts <- {1, 3}, MaxRules <- 2, MaxUsage <- 2, MaxInvoices <- 2,
    MaxKeys <- 1, MaxEntries <- 2, Cycle <- 2, Window <- 1,
    MaxOps <- [shares |-> 4, cycles |-> 5, ledger |-> 5, prices |-> 4],
    MaxClock <- [shares |-> 1, cycles |-> 5, ledger |-> 1, prices |-> 2],
    now <- time, ops <- calls

rVars == <<now, keys, holds, nextId, charged, reported, taken, turnedAway,
           requests, charges, events>>
gVars == <<clock, grants, stats, rolled, ops>>

mVars == <<mgr, s, seen, time, calls>>

MCInit == /\ part \in {"reservations", "grants", "managers", "limiters", "billing"}
          /\ R!Init /\ G!Init
          /\ part # "reservations" => DOMAIN keys = Keys
          /\ \/ part = "managers" /\ M!Init
             \/ part = "limiters" /\ L!Init
             \/ part = "billing" /\ B!Init
             \/ /\ part \in {"reservations", "grants"} /\ mgr = "none"
                /\ s = 0 /\ seen = 0 /\ time = 0 /\ calls = 0
MCNext == \/ part = "reservations" /\ R!Next /\ UNCHANGED <<part, gVars, mVars>>
          \/ part = "grants" /\ G!Next /\ UNCHANGED <<part, rVars, mVars>>
          \/ part = "managers" /\ M!Next /\ UNCHANGED <<part, rVars, gVars>>
          \/ part = "limiters" /\ L!Next /\ UNCHANGED <<part, rVars, gVars>>
          \/ part = "billing" /\ B!Next /\ UNCHANGED <<part, rVars, gVars>>
MCSpec == MCInit /\ [][MCNext]_<<part, rVars, gVars, mVars>>

(* Pools, transfers, batches and quotas that roll over keep their books:   *)
(* each balance is what the calls said they did, none is overdrawn, and    *)
(* members and pools agree about each other; and so do the shares of what  *)
(* tools earn, invoices, ledgers and prices.                               *)
ManagersAddUp == /\ M!PoolsAgree /\ M!TransfersBalance
                 /\ M!BatchesBalance /\ M!RolloverMintsNothing
                 /\ B!SharesHonoured /\ B!CyclesHonoured
                 /\ B!LedgerHonoured /\ B!PricesHonoured

(* The limiters keep to their limits: a quota in its period, a budget in   *)
(* its day and month, a bucket between refills, a window of sub-windows,   *)
(* a tool under the rule in force, a profile in each of its spans.         *)
LimitersHonoured == /\ L!QuotaHonoured /\ L!BudgetHonoured /\ L!BucketHonoured
                    /\ L!SlidingHonoured /\ L!ToolsHonoured /\ L!ProfilesHonoured
=============================================================================
