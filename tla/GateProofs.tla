----------------------------- MODULE GateProofs -----------------------------
(***************************************************************************)
(* Proofs about the gate, for every set of keys, tools, teams, prices and  *)
(* limits: every variable keeps its type, credits are conserved, and       *)
(* totalSpent never falls below the net of charges and refunds; then, as   *)
(* long as shadow mode was never on, what a caller was told a call cost    *)
(* was deducted, and a refund takes off totalSpent exactly what it gives   *)
(* back; and last, that the limits are kept.                               *)
(***************************************************************************)
EXTENDS Gate, FiniteSetTheorems, TLAPS

USE DaysPerMonthAssumption

(* The rewrites of one record keep its type; the balance and totalSpent    *)
(* move together.                                                          *)

(* A UTC day lies in a UTC month. *)
LEMMA MonthNat == ASSUME NEW d \in Nat PROVE MonthOf(d) \in Nat
BY DEF MonthOf

(* The constant records and a fresh record are well formed. *)
LEMMA FreshTypes ==
    ASSUME NEW d \in Nat, NEW c \in Nat
    PROVE  /\ FreshUsage(d) \in Usage
           /\ NoQuota \in Quota
           /\ NoTopup \in Topup
           /\ NewKey(c, d) \in KeyRecord
           /\ NewKey(c, d).credits = c
           /\ NewKey(c, d).totalSpent = 0
<1>1. FreshUsage(d) \in Usage
  BY MonthNat DEF FreshUsage, Usage
<1>2. NoQuota \in Quota /\ NoTopup \in Topup
  BY DEF NoQuota, Quota, NoTopup, Topup
<1> QED
  BY <1>1, <1>2 DEF NewKey, KeyRecord

(* Counting, resetting and uncounting usage keeps its type. *)
LEMMA UsageTypes ==
    ASSUME NEW u \in Usage, NEW d \in Nat, NEW n \in Nat, NEW c \in Nat
    PROVE  /\ ResetIfNeeded(u, d) \in Usage
           /\ QuotaRecord(u, d, n, c) \in Usage
           /\ QuotaUnrecord(u, c) \in Usage
<1>1. ResetIfNeeded(u, d) \in Usage
  BY MonthNat DEF ResetIfNeeded, Usage
<1>2. \A v \in Usage : CountUsage(v, n, c) \in Usage
  BY DEF CountUsage, Usage
<1>3. QuotaRecord(u, d, n, c) \in Usage
  BY <1>1, <1>2 DEF QuotaRecord
<1>4. QuotaUnrecord(u, c) \in Usage
  BY DEF QuotaUnrecord, Usage, Less
<1> QED
  BY <1>1, <1>3, <1>4

(* The fields of a record. *)
LEMMA FieldTypes ==
    ASSUME NEW r \in KeyRecord
    PROVE  /\ r.credits \in Nat /\ r.totalSpent \in Nat /\ r.totalCalls \in Nat
           /\ r.topupCount \in Nat /\ r.autoTopup \in Topup /\ r.used \in Usage
           /\ r.autoTopup.amount \in Nat
BY DEF KeyRecord, Topup

(* The difference clamped at zero, as refund uses it. *)
LEMMA LessFacts ==
    ASSUME NEW x \in Nat, NEW y \in Nat
    PROVE  Less(x, y) \in Nat /\ Less(x, y) + y >= x
BY DEF Less

(* deductCredits moves credits from the balance to totalSpent. *)
LEMMA DeductFacts ==
    ASSUME NEW r \in KeyRecord, NEW t \in Nat, NEW c \in Nat
    PROVE  LET taken == IF Usable(r, t) /\ r.credits >= c THEN c ELSE 0
           IN  /\ Deduct(r, t, c) \in KeyRecord
               /\ Deduct(r, t, c).credits = r.credits - taken
               /\ Deduct(r, t, c).totalSpent = r.totalSpent + taken
<1>1. CASE Usable(r, t) /\ r.credits >= c
  <2> DEFINE x == r.credits - c
             y == r.totalSpent + c
             z == r.totalCalls + 1
  <2>1. /\ r.credits \in Nat /\ r.totalSpent \in Nat
        /\ x \in Nat /\ y \in Nat /\ z \in Nat
    BY <1>1, FieldTypes
  <2>2. Deduct(r, t, c) = [r EXCEPT !.credits = x, !.totalSpent = y, !.totalCalls = z]
    BY <1>1 DEF Deduct
  <2> HIDE DEF x, y, z
  <2>3. /\ Deduct(r, t, c) \in KeyRecord /\ Deduct(r, t, c).credits = x
        /\ Deduct(r, t, c).totalSpent = y
    BY <2>1, <2>2 DEF KeyRecord
  <2> QED
    BY <1>1, <2>3 DEF x, y
<1>2. CASE ~(Usable(r, t) /\ r.credits >= c)
  BY <1>2, FieldTypes DEF Deduct
<1> QED
  BY <1>1, <1>2

(* addCredits only adds. *)
LEMMA AddCreditsFacts ==
    ASSUME NEW r \in KeyRecord, NEW t \in Nat, NEW c \in Nat
    PROVE  /\ AddCredits(r, t, c) \in KeyRecord
           /\ AddCredits(r, t, c).credits >= r.credits
           /\ AddCredits(r, t, c).totalSpent = r.totalSpent
           /\ AddCredits(r, t, c).totalCalls = r.totalCalls
           /\ AddCredits(r, t, c).used = r.used
BY DEF AddCredits, KeyRecord

(* An auto-topup only adds credits. *)
LEMMA AutoTopupFacts ==
    ASSUME NEW r \in KeyRecord, NEW t \in Nat, NEW d \in Nat
    PROVE  /\ AutoTopup(r, t, d) \in KeyRecord
           /\ AutoTopup(r, t, d).credits =
                r.credits + IF TopupFires(r, t, d) THEN r.autoTopup.amount ELSE 0
           /\ AutoTopup(r, t, d).totalSpent = r.totalSpent
<1>1. CASE ~TopupFires(r, t, d)
  BY <1>1, FieldTypes DEF AutoTopup
<1>2. CASE TopupFires(r, t, d)
  <2> DEFINE x == r.credits + r.autoTopup.amount
             y == TopupsToday(r, d) + 1
  <2>1. x \in Nat /\ y \in Nat /\ x >= r.credits
    BY FieldTypes DEF TopupsToday
  <2>2. AutoTopup(r, t, d) = [r EXCEPT !.credits = x, !.topupCount = y, !.topupDay = d]
    BY <1>2 DEF AutoTopup
  <2> HIDE DEF x, y
  <2>3. /\ AutoTopup(r, t, d) \in KeyRecord /\ AutoTopup(r, t, d).credits = x
        /\ AutoTopup(r, t, d).totalSpent = r.totalSpent
    BY <2>1, <2>2 DEF KeyRecord
  <2> QED
    BY <1>2, <2>3 DEF x
<1> QED
  BY <1>1, <1>2

(* A refund takes no more off totalSpent than it gives back. *)
LEMMA RefundFacts ==
    ASSUME NEW r \in KeyRecord, NEW t \in Nat, NEW c \in Nat
    PROVE  /\ Refund(r, t, c) \in KeyRecord
           /\ Usable(Refund(r, t, c), t) = Usable(r, t)
           /\ Refund(r, t, c).credits = r.credits + IF Usable(r, t) THEN c ELSE 0
           /\ Refund(r, t, c).totalSpent + (IF Usable(r, t) THEN c ELSE 0)
                >= r.totalSpent
           /\ r.totalSpent >= c \/ ~Usable(r, t) =>
                Refund(r, t, c).totalSpent = r.totalSpent - IF Usable(r, t) THEN c ELSE 0
<1>1. CASE ~Usable(r, t)
  BY <1>1, FieldTypes DEF Refund
<1>2. CASE Usable(r, t)
  <2> DEFINE a == AddCredits(r, t, c)
             s == Less(a.totalSpent, c)
             n == Less(a.totalCalls, 1)
             u == QuotaUnrecord(a.used, c)
  <2>1. /\ a \in KeyRecord /\ a.credits = r.credits + c
        /\ a.totalSpent = r.totalSpent /\ r.credits \in Nat /\ r.totalSpent \in Nat
    BY <1>2 DEF AddCredits, KeyRecord
  <2>2. a.totalSpent \in Nat /\ a.totalCalls \in Nat /\ a.used \in Usage
    BY <2>1 DEF KeyRecord
  <2>3. /\ s \in Nat /\ s + c >= r.totalSpent /\ n \in Nat /\ u \in Usage
        /\ r.totalSpent >= c => s = r.totalSpent - c
    BY <2>1, <2>2, LessFacts, UsageTypes DEF Less
  <2>4. Refund(r, t, c) = [a EXCEPT !.totalSpent = s, !.totalCalls = n, !.used = u]
    BY <1>2 DEF Refund
  <2> HIDE DEF a, s, n, u
  <2>5. /\ Refund(r, t, c) \in KeyRecord
        /\ Refund(r, t, c).credits = a.credits
        /\ Refund(r, t, c).totalSpent = s
        /\ Refund(r, t, c).active = a.active
        /\ Refund(r, t, c).expiresAt = a.expiresAt
    BY <2>1, <2>3, <2>4 DEF KeyRecord
  <2>6. a.active = r.active /\ a.expiresAt = r.expiresAt
    BY <1>2 DEF a, AddCredits, KeyRecord
  <2> QED
    BY <1>2, <2>1, <2>3, <2>5, <2>6 DEF Usable, IsExpired
<1> QED
  BY <1>1, <1>2

-----------------------------------------------------------------------------
(* The inductive invariant.  A balance is a Nat in every state only        *)
(* because deductions are guarded; SpentCovers needs the balance equation  *)
(* to relate the clamp in refund to the ledger; and creating a key needs   *)
(* to know that nothing moved under a key string that is still unused.     *)
Core == TypeOK /\ CreditsConserved /\ SpentCovers

UnusedIdle ==
    \A k \in Keys \ known :
        ~rec[k].active /\ rec[k].credits = 0 /\ ledger[k] = BlankLedger

IInv == Core /\ UnusedIdle

(* The initial state satisfies the invariant. *)
LEMMA InitInv == Init => IInv
<1> SUFFICES ASSUME Init PROVE IInv
  OBVIOUS
<1> USE TeamsAssumption, WindowLengthAssumption, GateAssumption
<1>1. /\ BlankTeam \in TeamRecord
      /\ UnusedKey \in KeyRecord /\ UnusedKey.credits = 0 /\ UnusedKey.totalSpent = 0
      /\ ~UnusedKey.active
  <2>1. /\ FreshUsage(0) \in Usage /\ NoQuota \in Quota /\ NewKey(0, 0) \in KeyRecord
        /\ NewKey(0, 0).credits = 0 /\ NewKey(0, 0).totalSpent = 0
    BY FreshTypes
  <2>2. BlankTeam \in TeamRecord
    BY <2>1 DEF BlankTeam, TeamRecord
  <2> QED
    BY <2>1, <2>2 DEF UnusedKey, KeyRecord
<1>2. TypeOK
  <2>1. team \in [TeamIds -> TeamRecord] /\ teamOf \in [Keys -> TeamIds \cup {NoTeam}]
    BY <1>1 DEF Init, TeamsInit
  <2>2. known \subseteq Keys /\ rec \in [Keys -> KeyRecord]
    BY <1>1 DEF Init
  <2>3. /\ win \in [Keys -> SUBSET (Nat \X Nat)]
        /\ toolWin \in [Keys -> [Tools -> SUBSET (Nat \X Nat)]]
    BY DEF Init
  <2>4. calls \in [CallIds -> Call \cup {NoCall}]
    BY DEF Init
  <2>5. ledger \in [Keys -> LedgerEntry]
    BY DEF Init, LedgerEntry, BlankLedger
  <2> QED
    BY <2>1, <2>2, <2>3, <2>4, <2>5 DEF Init, TypeOK
<1>3. CreditsConserved /\ SpentCovers
  BY <1>1 DEF Init, CreditsConserved, SpentCovers, BlankLedger
<1>4. UnusedIdle
  BY <1>1 DEF Init, UnusedIdle
<1> QED
  BY <1>2, <1>3, <1>4 DEF Core, IInv

(* Recording calls in a window keeps its type. *)
LEMMA RecordedType ==
    ASSUME NEW w \in SUBSET (Nat \X Nat), NEW t \in Nat,
           NEW S \in SUBSET Nat, NEW l
    PROVE  Recorded(w, t, S, l) \in SUBSET (Nat \X Nat)
BY DEF Recorded

(* What an admission for c credits leaves of the variables it writes.      *)
ChargeInv(k, c) ==
    /\ rec'[k].totalSpent = rec[k].totalSpent + Taken(k, c)
    /\ ledger'[k].charged = ledger[k].charged + Taken(k, c)
    /\ ledger'[k].refunded = ledger[k].refunded
    /\ Taken(k, c) \in Nat
    /\ team' \in [TeamIds -> TeamRecord]
    /\ teamOf' \in [Keys -> TeamIds \cup {NoTeam}]
    /\ rec' \in [Keys -> KeyRecord]
    /\ win' \in [Keys -> SUBSET (Nat \X Nat)]
    /\ toolWin' \in [Keys -> [Tools -> SUBSET (Nat \X Nat)]]
    /\ ledger' \in [Keys -> LedgerEntry]
    /\ CreditsConserved' /\ SpentCovers'

(* Charging a key, which every admission does, keeps credits conserved.    *)
LEMMA ChargeLemma ==
    ASSUME Core, NEW k \in Keys, NEW i \in CallIds, NEW need \in [Tools -> Nat],
           NEW n \in Nat, NEW c \in Nat, Charge(k, i, need, n, c)
    PROVE  ChargeInv(k, c)
<1> DEFINE q == QuotaRecord(rec[k].used, day, n, c)
           paid == Deduct(rec[k], now, c)
           counted == Counted(k, n, c)
           after == AutoTopup(counted, now, day)
           taken == Taken(k, c)
           added == Added(counted)
<1> USE DEF Core
<1>1. /\ rec[k] \in KeyRecord /\ day \in Nat /\ now \in Nat
      /\ rec[k].credits \in Nat /\ rec[k].totalSpent \in Nat
  BY FieldTypes DEF TypeOK
<1>2. /\ paid \in KeyRecord /\ taken \in Nat
      /\ paid.credits = rec[k].credits - taken
      /\ paid.totalSpent = rec[k].totalSpent + taken
      /\ paid.credits \in Nat /\ paid.totalSpent \in Nat /\ paid.used \in Usage
  BY <1>1, DeductFacts, FieldTypes DEF Taken
<1>3. QuotaRecord(paid.used, day, n, c) \in Usage
  BY <1>1, <1>2, UsageTypes
<1>4. /\ counted \in KeyRecord /\ counted.credits = paid.credits
      /\ counted.totalSpent = paid.totalSpent
  <2> HIDE DEF paid
  <2>1. counted = [paid EXCEPT !.used = QuotaRecord(paid.used, day, n, c)]
    BY DEF Counted, paid
  <2> QED
    BY <1>2, <1>3, <2>1 DEF KeyRecord
<1>5. /\ after \in KeyRecord /\ added \in Nat
      /\ after.credits = counted.credits + added
      /\ after.totalSpent = counted.totalSpent
      /\ after.credits \in Nat /\ after.totalSpent \in Nat
  <2> HIDE DEF counted
  <2>1. counted.autoTopup.amount \in Nat
    BY <1>4, FieldTypes
  <2> QED
    BY <1>1, <1>4, <2>1, AutoTopupFacts, FieldTypes DEF Added
<1> HIDE DEF paid, counted, after, taken, added
<1>6. rec' = [rec EXCEPT ![k] = after]
  BY DEF Charge, after, counted
<1>7. /\ ledger[k].charged \in Nat /\ ledger[k].granted \in Int
      /\ ledger[k].refunded \in Nat /\ ledger[k].topups \in Nat
  BY DEF TypeOK, LedgerEntry
<1>8. ledger' \in [Keys -> LedgerEntry]
      /\ ledger'[k].charged = ledger[k].charged + taken
      /\ ledger'[k].granted = ledger[k].granted + added
      /\ ledger'[k].refunded = ledger[k].refunded
      /\ \A x \in Keys \ {k} : ledger'[x] = ledger[x]
  <2> DEFINE e == Entered(ledger[k], taken, counted)
             a == ledger[k].charged + taken
             b == ledger[k].granted + added
             tops == IF TopupFires(counted, now, day) THEN ledger[k].topups + 1
                     ELSE ledger[k].topups
  <2>1. a \in Nat /\ b \in Int /\ tops \in Nat
    BY <1>2, <1>5, <1>7
  <2>2. ledger' = [ledger EXCEPT ![k] = e] /\ ledger \in [Keys -> LedgerEntry]
    BY DEF Charge, TypeOK, taken, counted
  <2>3. e = [granted |-> b, charged |-> a, refunded |-> ledger[k].refunded,
             topups |-> tops]
    BY DEF Entered, added
  <2> HIDE DEF e, a, b, tops
  <2>4. /\ e \in LedgerEntry /\ e.charged = a /\ e.granted = b
        /\ e.refunded = ledger[k].refunded
    BY <1>7, <2>1, <2>3 DEF LedgerEntry
  <2>5. ledger' \in [Keys -> LedgerEntry] /\ ledger'[k] = e
        /\ \A x \in Keys \ {k} : ledger'[x] = ledger[x]
    BY <2>2, <2>4
  <2> QED
    BY <2>4, <2>5 DEF a, b
<1>9. rec' \in [Keys -> KeyRecord] /\ rec'[k] = after
       /\ \A x \in Keys \ {k} : rec'[x] = rec[x]
  BY <1>5, <1>6 DEF TypeOK
<1>10. CreditsConserved'
  <2>1. \A x \in Keys \ {k} : rec'[x].credits =
            ledger'[x].granted + ledger'[x].refunded - ledger'[x].charged
    BY <1>8, <1>9 DEF CreditsConserved
  <2>2. rec[k].credits = ledger[k].granted + ledger[k].refunded - ledger[k].charged
    BY DEF CreditsConserved
  <2>3. rec'[k].credits = ledger'[k].granted + ledger'[k].refunded - ledger'[k].charged
    BY <1>1, <1>2, <1>4, <1>5, <1>7, <1>8, <1>9, <2>2
  <2> QED
    BY <2>1, <2>3 DEF CreditsConserved
<1>11. SpentCovers'
  <2>1. \A x \in Keys \ {k} :
            rec'[x].totalSpent >= ledger'[x].charged - ledger'[x].refunded
    BY <1>8, <1>9 DEF SpentCovers
  <2>2. rec[k].totalSpent >= ledger[k].charged - ledger[k].refunded
    BY DEF SpentCovers
  <2>3. rec'[k].totalSpent >= ledger'[k].charged - ledger'[k].refunded
    BY <1>1, <1>2, <1>4, <1>5, <1>7, <1>8, <1>9, <2>2
  <2> QED
    BY <2>1, <2>3 DEF SpentCovers
<1>12. win' \in [Keys -> SUBSET (Nat \X Nat)]
  <2>1. Recorded(win[k], now, {i}, RateLimit) \in SUBSET (Nat \X Nat)
    BY <1>1, RecordedType DEF TypeOK, CallIds
  <2> QED
    BY <2>1 DEF Charge, TypeOK
<1>13. toolWin' \in [Keys -> [Tools -> SUBSET (Nat \X Nat)]]
  <2>1. \A t \in Tools : Recorded(toolWin[k][t], now, i .. (i + need[t] - 1), ToolRate[t])
                           \in SUBSET (Nat \X Nat)
    <3> TAKE t \in Tools
    <3>1. i .. (i + need[t] - 1) \in SUBSET Nat
      BY DEF CallIds
    <3>2. toolWin[k][t] \in SUBSET (Nat \X Nat)
      BY DEF TypeOK
    <3> QED
      BY <1>1, <3>1, <3>2, RecordedType
  <2> QED
    BY <2>1 DEF Charge, TypeOK
<1>14. team' \in [TeamIds -> TeamRecord] /\ teamOf' \in [Keys -> TeamIds \cup {NoTeam}]
  <2>1. CASE ~InTeam(k)
    BY <2>1 DEF Charge, TeamRecordUsage, TypeOK
  <2>2. CASE InTeam(k)
    <3> DEFINE m == team[teamOf[k]]
               spent == m.totalSpent + c
               u == QuotaRecord(m.used, day, 1, c)
    <3>1. teamOf[k] \in TeamIds /\ m \in TeamRecord
      BY <2>2 DEF InTeam, TypeOK
    <3>2. m.totalSpent \in Nat /\ m.used \in Usage
      BY <3>1 DEF TeamRecord
    <3>3. spent \in Nat
      BY <3>2
    <3>4. u \in Usage
      BY <1>1, <3>2, UsageTypes
    <3>5. CountTeamUsage(m, c, day) = [m EXCEPT !.totalSpent = spent, !.used = u]
      BY DEF CountTeamUsage
    <3>6. team' = [team EXCEPT ![teamOf[k]] = CountTeamUsage(m, c, day)]
      BY <2>2 DEF Charge, TeamRecordUsage
    <3> HIDE DEF spent, u, m
    <3>7. CountTeamUsage(m, c, day) \in TeamRecord
      BY <3>1, <3>3, <3>4, <3>5 DEF TeamRecord
    <3> QED
      BY <3>1, <3>6, <3>7 DEF Charge, TeamRecordUsage, TypeOK
  <2> QED
    BY <2>1, <2>2
<1>15. /\ rec'[k].totalSpent = rec[k].totalSpent + taken
       /\ ledger'[k].charged = ledger[k].charged + taken /\ taken \in Nat
  BY <1>2, <1>4, <1>5, <1>8, <1>9
<1> QED
  BY <1>8, <1>9, <1>10, <1>11, <1>12, <1>13, <1>14, <1>15 DEF ChargeInv, taken

(* The call a forward records is well formed. *)
LEMMA ForwardType ==
    ASSUME Core, NEW k \in Keys, NEW t \in Tools, NEW i \in CallIds, NEW c \in Nat
    PROVE  Forward(k, t, i, c) \in Call
BY DEF Core, TypeOK, Forward, Call

(* A call admitted keeps the invariant. *)
LEMMA EvaluateStep ==
    ASSUME Core, NEW k \in Keys, NEW t \in Tools, NEW o \in Origins,
           Evaluate(k, t, o)
    PROVE  Core'
<1>1. Price[t] \in Nat /\ One(t) \in [Tools -> Nat]
  BY GateAssumption DEF One
<1>2. PICK i \in CallIds : /\ Charge(k, i, One(t), 1, Price[t])
                           /\ calls' = [calls EXCEPT ![i] = Forward(k, t, i, Price[t])]
  BY DEF Evaluate
<1>3. ChargeInv(k, Price[t])
  BY <1>1, <1>2, ChargeLemma
<1>4. Forward(k, t, i, Price[t]) \in Call
  BY <1>1, ForwardType
<1>5. calls' \in [CallIds -> Call \cup {NoCall}]
  BY <1>2, <1>4 DEF Core, TypeOK
<1> QED
  BY <1>3, <1>5 DEF ChargeInv, Evaluate, Core, TypeOK

(* A batch of two, its calls recorded. *)
LEMMA PairType ==
    ASSUME Core, NEW k \in Keys, NEW t \in Tools, NEW u \in Tools,
           NEW i \in CallIds, i < Calls, NEW c \in Nat, NEW d \in Nat
    PROVE  Pair(k, t, u, i, c, d) \in [CallIds -> Call \cup {NoCall}]
BY ForwardType DEF Pair, Core, TypeOK

(* A batch admitted keeps the invariant. *)
LEMMA EvaluateBatchStep ==
    ASSUME Core, NEW k \in Keys, NEW t \in Tools, NEW u \in Tools, NEW o \in Origins,
           EvaluateBatch(k, t, u, o)
    PROVE  Core'
<1>1. /\ Price[t] \in Nat /\ Price[u] \in Nat /\ Price[t] + Price[u] \in Nat
      /\ NeedOf(t, u) \in [Tools -> Nat]
  BY GateAssumption DEF NeedOf
<1>2. PICK i \in CallIds : /\ i < Calls
                           /\ Charge(k, i, NeedOf(t, u), 2, Price[t] + Price[u])
                           /\ calls' = Pair(k, t, u, i, Price[t], Price[u])
  BY DEF EvaluateBatch
<1>3. ChargeInv(k, Price[t] + Price[u])
  BY <1>1, <1>2, ChargeLemma
<1>4. calls' \in [CallIds -> Call \cup {NoCall}]
  BY <1>1, <1>2, PairType
<1> QED
  BY <1>3, <1>4 DEF ChargeInv, EvaluateBatch, Core, TypeOK

(* Refused calls at most reset the counters of one record. *)
LEMMA TouchedFacts ==
    ASSUME Core, NEW k \in Keys, NEW need, NEW c, NEW o
    PROVE  /\ Touched(k, need, c, o) \in [Keys -> KeyRecord]
           /\ \A x \in Keys : /\ Touched(k, need, c, o)[x].credits = rec[x].credits
                              /\ Touched(k, need, c, o)[x].totalSpent = rec[x].totalSpent
<1> DEFINE u == ResetIfNeeded(rec[k].used, day)
<1>1. rec \in [Keys -> KeyRecord] /\ rec[k] \in KeyRecord /\ day \in Nat
  BY DEF Core, TypeOK
<1>2. u \in Usage
  BY <1>1, UsageTypes, FieldTypes
<1>3. Touched(k, need, c, o) = rec
      \/ Touched(k, need, c, o) = [rec EXCEPT ![k] = [rec[k] EXCEPT !.used = u]]
  BY <1>1 DEF Touched
<1> HIDE DEF u
<1>4. [rec[k] EXCEPT !.used = u] \in KeyRecord
      /\ [rec[k] EXCEPT !.used = u].credits = rec[k].credits
      /\ [rec[k] EXCEPT !.used = u].totalSpent = rec[k].totalSpent
  BY <1>1, <1>2 DEF KeyRecord
<1> QED
  BY <1>1, <1>3, <1>4

(* A call refused keeps the invariant, in shadow mode too. *)
LEMMA EvaluateRefusedStep ==
    ASSUME Core, NEW k \in Keys, NEW t \in Tools, NEW o \in Origins,
           EvaluateRefused(k, t, o)
    PROVE  Core'
<1>1. rec' = Touched(k, One(t), Price[t], o)
  BY DEF EvaluateRefused
<1>2. calls' \in [CallIds -> Call \cup {NoCall}]
  <2>1. CASE calls' = calls
    BY <2>1 DEF Core, TypeOK
  <2>2. CASE \E i \in CallIds : calls' = [calls EXCEPT ![i] = Forward(k, t, i, 0)]
    BY <2>2, ForwardType DEF Core, TypeOK
  <2> QED
    BY <2>1, <2>2 DEF EvaluateRefused
<1>3. UNCHANGED <<teamVars, known, win, toolWin, shadow, now, day, life, ledger>>
  BY DEF EvaluateRefused
<1>4. TypeOK'
  BY <1>1, <1>2, <1>3, TouchedFacts DEF Core, TypeOK, teamVars
<1>5. CreditsConserved' /\ SpentCovers'
  BY <1>1, <1>3, TouchedFacts DEF Core, CreditsConserved, SpentCovers
<1> QED
  BY <1>4, <1>5 DEF Core

(* The price of a batch that is let through in shadow mode is a Nat. *)
LEMMA BatchTotalType ==
    ASSUME NEW k, NEW t \in Tools, NEW u \in Tools, NEW o
    PROVE  BatchTotal(k, t, u, o) \in Nat
BY GateAssumption DEF BatchTotal

(* A batch refused keeps the invariant, in shadow mode too. *)
LEMMA EvaluateBatchRefusedStep ==
    ASSUME Core, NEW k \in Keys, NEW t \in Tools, NEW u \in Tools, NEW o \in Origins,
           EvaluateBatchRefused(k, t, u, o)
    PROVE  Core'
<1> DEFINE need == NeedOf(t, u)
<1>1. Price[t] \in Nat /\ Price[u] \in Nat /\ need \in [Tools -> Nat]
  BY GateAssumption DEF NeedOf
<1>2. UNCHANGED <<known, shadow, now, day, life>>
  BY DEF EvaluateBatchRefused
<1>3. CASE /\ rec' = Touched(k, need, Price[t] + Price[u], o)
           /\ UNCHANGED <<teamVars, win, toolWin, ledger, calls>>
  <2>1. TypeOK'
    BY <1>2, <1>3, TouchedFacts DEF Core, TypeOK, teamVars
  <2>2. CreditsConserved' /\ SpentCovers'
    BY <1>3, TouchedFacts DEF Core, CreditsConserved, SpentCovers
  <2> QED
    BY <2>1, <2>2 DEF Core
<1>4. CASE /\ \E i \in CallIds : i < Calls /\ calls' = Pair(k, t, u, i, 0, 0)
           /\ UNCHANGED <<teamVars, rec, win, toolWin, ledger>>
  <2>1. calls' \in [CallIds -> Call \cup {NoCall}]
    BY <1>4, PairType
  <2>2. TypeOK'
    BY <1>2, <1>4, <2>1 DEF Core, TypeOK, teamVars
  <2>3. CreditsConserved' /\ SpentCovers'
    BY <1>4 DEF Core, CreditsConserved, SpentCovers
  <2> QED
    BY <2>2, <2>3 DEF Core
<1>5. CASE \E i \in CallIds : /\ i < Calls
                              /\ Charge(k, i, need, 2, BatchTotal(k, t, u, o))
                              /\ calls' = Pair(k, t, u, i, Price[t], Price[u])
  <2>1. PICK i \in CallIds : /\ i < Calls
                             /\ Charge(k, i, need, 2, BatchTotal(k, t, u, o))
                             /\ calls' = Pair(k, t, u, i, Price[t], Price[u])
    BY <1>5
  <2>2. ChargeInv(k, BatchTotal(k, t, u, o))
    BY <1>1, <2>1, BatchTotalType, ChargeLemma
  <2>3. calls' \in [CallIds -> Call \cup {NoCall}]
    BY <1>1, <2>1, PairType
  <2> QED
    BY <1>2, <2>2, <2>3 DEF ChargeInv, Core, TypeOK
<1> QED
  BY <1>3, <1>4, <1>5 DEF EvaluateBatchRefused

(* A refund of one call of a group gives back what the ledger enters; old  *)
(* is the record the settlement starts from.                               *)
LEMMA RefundCallFacts ==
    ASSUME Core, NEW old, NEW r \in KeyRecord, NEW i \in CallIds, calls[i] # NoCall,
           NEW bad, Usable(r, now) = Usable(old, now)
    PROVE  /\ RefundCall(r, i, bad) \in KeyRecord
           /\ Usable(RefundCall(r, i, bad), now) = Usable(r, now)
           /\ Given(old, i, bad) \in Nat
           /\ RefundCall(r, i, bad).credits = r.credits + Given(old, i, bad)
           /\ RefundCall(r, i, bad).totalSpent + Given(old, i, bad) >= r.totalSpent
<1>1. calls[i].charged \in Nat /\ now \in Nat
  BY DEF Core, TypeOK, Call
<1>2. r.credits \in Nat /\ r.totalSpent \in Nat
  BY FieldTypes
<1>3. CASE Refundable(i, bad)
  BY <1>1, <1>2, <1>3, RefundFacts DEF RefundCall, Given
<1>4. CASE ~Refundable(i, bad)
  BY <1>2, <1>4 DEF RefundCall, Given
<1> QED
  BY <1>3, <1>4

(* It takes the same off totalSpent, if totalSpent is as much.             *)
LEMMA RefundCallExact ==
    ASSUME Core, NEW old, NEW r \in KeyRecord, NEW i \in CallIds, calls[i] # NoCall,
           NEW bad, Usable(r, now) = Usable(old, now), r.totalSpent >= Given(old, i, bad)
    PROVE  RefundCall(r, i, bad).totalSpent = r.totalSpent - Given(old, i, bad)
<1>1. calls[i].charged \in Nat /\ now \in Nat
  BY DEF Core, TypeOK, Call
<1>2. r.credits \in Nat /\ r.totalSpent \in Nat
  BY FieldTypes
<1>3. CASE Refundable(i, bad)
  BY <1>1, <1>2, <1>3, RefundFacts DEF RefundCall, Given
<1>4. CASE ~Refundable(i, bad)
  BY <1>2, <1>4 DEF RefundCall, Given
<1> QED
  BY <1>3, <1>4

(* Settling a call or a batch refunds what failed and keeps the invariant. *)
LEMMA SettleStep ==
    ASSUME Core, NEW i \in CallIds, NEW bad \in SUBSET CallIds, Settle(i, bad)
    PROVE  Core'
<1> DEFINE k == calls[i].key
           pair == i + 1 \in Group(i)
           first == RefundCall(rec[k], i, bad)
           after == IF pair THEN RefundCall(first, i + 1, bad) ELSE first
           given == Given(rec[k], i, bad) + IF pair THEN Given(rec[k], i + 1, bad) ELSE 0
           total == ledger[k].refunded + given
<1>1. calls[i] # NoCall /\ calls[i] \in Call /\ k \in Keys
  <2>1. calls[i].st = "forwarded" /\ i \in CallIds
    BY DEF Settle, Pending
  <2>2. calls[i] # NoCall
    BY <2>1 DEF NoCall
  <2> QED
    BY <2>2 DEF Core, TypeOK, Call
<1>2. rec[k] \in KeyRecord /\ rec[k].credits \in Nat /\ rec[k].totalSpent \in Nat
  BY <1>1, FieldTypes DEF Core, TypeOK
<1>3. /\ first \in KeyRecord /\ Usable(first, now) = Usable(rec[k], now)
      /\ Given(rec[k], i, bad) \in Nat
      /\ first.credits = rec[k].credits + Given(rec[k], i, bad)
      /\ first.totalSpent + Given(rec[k], i, bad) >= rec[k].totalSpent
  BY <1>1, <1>2, RefundCallFacts
<1>4. first.credits \in Nat /\ first.totalSpent \in Nat
  BY <1>3, FieldTypes
<1>5. /\ after \in KeyRecord /\ given \in Nat
      /\ after.credits = rec[k].credits + given
      /\ after.totalSpent + given >= rec[k].totalSpent
      /\ after.credits \in Nat /\ after.totalSpent \in Nat
  <2>1. CASE pair
    <3>1. i + 1 \in CallIds /\ calls[i + 1] # NoCall
      BY <2>1 DEF Group
    <3> HIDE DEF first
    <3>2. /\ RefundCall(first, i + 1, bad) \in KeyRecord
          /\ Given(rec[k], i + 1, bad) \in Nat
          /\ RefundCall(first, i + 1, bad).credits
               = first.credits + Given(rec[k], i + 1, bad)
          /\ RefundCall(first, i + 1, bad).totalSpent + Given(rec[k], i + 1, bad)
               >= first.totalSpent
      BY <1>3, <3>1, RefundCallFacts
    <3>3. RefundCall(first, i + 1, bad).totalSpent \in Nat
      BY <3>2, FieldTypes
    <3> HIDE DEF k
    <3> QED
      BY <1>2, <1>3, <1>4, <2>1, <3>2, <3>3
  <2>2. CASE ~pair
    BY <1>2, <1>3, <1>4, <2>2
  <2> QED
    BY <2>1, <2>2
<1>6. calls' \in [CallIds -> Call \cup {NoCall}]
  <2>1. \A j \in Group(i) : calls[j] \in Call /\ calls[j].charged \in Nat
    BY DEF Group, Core, TypeOK, Call
  <2>2. \A j \in Group(i) : Given(rec[k], j, bad) \in Nat
    BY <2>1 DEF Given
  <2>3. \A j \in Group(i) : Failed(rec[k], j, bad) \in Call
    BY <2>1, <2>2 DEF Failed, Call
  <2>4. \A j \in Group(i) : [calls[j] EXCEPT !.st = "succeeded"] \in Call
    BY <2>1 DEF Call
  <2>5. bad \subseteq Group(i) /\ Group(i) \subseteq CallIds
    BY DEF Settle, Group
  <2>6. calls' = [j \in CallIds |->
             IF j \in bad THEN Failed(rec[k], j, bad)
             ELSE IF j \in Group(i) THEN [calls[j] EXCEPT !.st = "succeeded"]
             ELSE calls[j]]
    BY DEF Settle
  <2> QED
    BY <2>3, <2>4, <2>5, <2>6 DEF Core, TypeOK
<1>7. /\ ledger[k].refunded \in Nat /\ ledger[k].charged \in Nat
      /\ ledger[k].granted \in Int /\ ledger[k] \in LedgerEntry
  BY <1>1 DEF Core, TypeOK, LedgerEntry
<1>8. rec' = [rec EXCEPT ![k] = after]
      /\ ledger' = [ledger EXCEPT ![k] = [ledger[k] EXCEPT !.refunded = total]]
      /\ UNCHANGED <<teamVars, known, win, toolWin, shadow, now, day, life>>
  <2>1. /\ rec' = [rec EXCEPT ![k] = after]
        /\ UNCHANGED <<teamVars, known, win, toolWin, shadow, now, day, life>>
    BY DEF Settle
  <2>2. ledger' = [ledger EXCEPT ![k].refunded =
          @ + Given(rec[k], i, bad) + IF pair THEN Given(rec[k], i + 1, bad) ELSE 0]
    BY DEF Settle
  <2>3. (IF pair THEN Given(rec[k], i + 1, bad) ELSE 0) \in Nat
    <3>1. CASE pair
      <4>1. i + 1 \in CallIds /\ calls[i + 1] # NoCall
        BY <3>1 DEF Group
      <4> QED
        BY <1>2, <4>1, RefundCallFacts
    <3> QED
      BY <3>1
  <2> DEFINE g1 == Given(rec[k], i, bad)
             g2 == IF pair THEN Given(rec[k], i + 1, bad) ELSE 0
  <2>4. ledger' = [ledger EXCEPT ![k] =
          [ledger[k] EXCEPT !.refunded = ledger[k].refunded + g1 + g2]]
    BY <1>1, <2>2 DEF Core, TypeOK
  <2>5. g1 \in Nat /\ g2 \in Nat
    BY <1>3, <2>3
  <2>6. total = ledger[k].refunded + (g1 + g2)
    OBVIOUS
  <2> HIDE DEF g1, g2, total, k
  <2>7. total = ledger[k].refunded + g1 + g2
    BY <1>7, <2>5, <2>6
  <2> QED
    BY <2>1, <2>4, <2>7
<1> HIDE DEF after, first
<1>9. total \in Nat /\ total = ledger[k].refunded + given
  BY <1>5, <1>7
<1> HIDE DEF given, total
<1>10. /\ ledger' \in [Keys -> LedgerEntry]
       /\ ledger'[k].refunded = ledger[k].refunded + given
       /\ ledger'[k].charged = ledger[k].charged /\ ledger'[k].granted = ledger[k].granted
       /\ \A x \in Keys \ {k} : ledger'[x] = ledger[x]
  <2> DEFINE e == [ledger[k] EXCEPT !.refunded = total]
  <2>1. /\ e \in LedgerEntry /\ e.refunded = total
        /\ e.charged = ledger[k].charged /\ e.granted = ledger[k].granted
    BY <1>7, <1>9 DEF LedgerEntry
  <2>2. ledger \in [Keys -> LedgerEntry] /\ ledger' = [ledger EXCEPT ![k] = e]
    BY <1>1, <1>8 DEF Core, TypeOK
  <2> HIDE DEF e
  <2> QED
    BY <1>1, <1>9, <2>1, <2>2
<1>11. rec' \in [Keys -> KeyRecord] /\ rec'[k] = after
       /\ \A x \in Keys \ {k} : rec'[x] = rec[x]
  BY <1>1, <1>5, <1>8 DEF Core, TypeOK
<1>12. TypeOK'
  BY <1>6, <1>8, <1>10, <1>11 DEF Core, TypeOK, teamVars
<1>13. CreditsConserved'
  <2>1. rec[k].credits = ledger[k].granted + ledger[k].refunded - ledger[k].charged
    BY <1>1 DEF Core, CreditsConserved
  <2>2. rec'[k].credits = ledger'[k].granted + ledger'[k].refunded - ledger'[k].charged
    BY <1>2, <1>5, <1>7, <1>10, <1>11, <2>1
  <2> QED
    BY <1>10, <1>11, <2>2 DEF Core, CreditsConserved
<1>14. SpentCovers'
  <2>1. rec[k].totalSpent >= ledger[k].charged - ledger[k].refunded
    BY <1>1 DEF Core, SpentCovers
  <2>2. rec'[k].totalSpent >= ledger'[k].charged - ledger'[k].refunded
    BY <1>2, <1>5, <1>7, <1>10, <1>11, <2>1
  <2> QED
    BY <1>10, <1>11, <2>2 DEF Core, SpentCovers
<1> QED
  BY <1>12, <1>13, <1>14 DEF Core

(* A rejected forward only relabels calls. *)
LEMMA LoseStep == ASSUME Core, NEW i \in CallIds, Lose(i) PROVE Core'
<1>1. calls' \in [CallIds -> Call \cup {NoCall}]
  <2>1. \A j \in Group(i) : j \in CallIds /\ [calls[j] EXCEPT !.st = "lost"] \in Call
    BY DEF Group, Core, TypeOK, Call
  <2> QED
    BY <2>1 DEF Lose, Core, TypeOK
<1>2. UNCHANGED <<teamVars, known, rec, win, toolWin, shadow, now, day, life, ledger>>
  BY DEF Lose
<1> QED
  BY <1>1, <1>2 DEF Core, TypeOK, CreditsConserved, SpentCovers, teamVars

-----------------------------------------------------------------------------
(* The administrator. *)

(* Rewriting fields of one record other than the money keeps the invariant. *)
LEMMA EditStep ==
    ASSUME Core, NEW k \in Keys, NEW r \in KeyRecord, Edit(k, r),
           r.credits = rec[k].credits, r.totalSpent = rec[k].totalSpent
    PROVE  Core'
BY DEF Edit, Rest, Core, TypeOK, CreditsConserved, SpentCovers, teamVars

(* Entering d more granted credits on the ledger of a key. *)
LEMMA GrantedFacts ==
    ASSUME Core, NEW k \in Keys, NEW c \in Int, ledger' = Granted(k, c)
    PROVE  /\ ledger' \in [Keys -> LedgerEntry]
           /\ ledger'[k].granted = ledger[k].granted + c
           /\ ledger'[k].charged = ledger[k].charged
           /\ ledger'[k].refunded = ledger[k].refunded
           /\ ledger[k].granted \in Int /\ ledger[k].charged \in Nat
           /\ ledger[k].refunded \in Nat
           /\ \A x \in Keys \ {k} : ledger'[x] = ledger[x]
<1> DEFINE e == [ledger[k] EXCEPT !.granted = ledger[k].granted + c]
<1>1. ledger \in [Keys -> LedgerEntry] /\ ledger[k] \in LedgerEntry
  BY DEF Core, TypeOK
<1>2. /\ e \in LedgerEntry /\ e.granted = ledger[k].granted + c
      /\ e.charged = ledger[k].charged /\ e.refunded = ledger[k].refunded
      /\ ledger[k].granted \in Int /\ ledger[k].charged \in Nat
      /\ ledger[k].refunded \in Nat
  BY <1>1 DEF LedgerEntry
<1>3. ledger' = [ledger EXCEPT ![k] = e]
  BY <1>1 DEF Granted
<1> HIDE DEF e
<1> QED
  BY <1>1, <1>2, <1>3

(* A key string put to first use starts with what it is granted.           *)
LEMMA GrantStep ==
    ASSUME IInv, NEW k \in Keys \ known, NEW r \in KeyRecord, NEW c \in Nat,
           r.credits = c, r.totalSpent = 0,
           known' = known \cup {k}, rec' = [rec EXCEPT ![k] = r],
           ledger' = Granted(k, c), UNCHANGED Rest
    PROVE  IInv'
<1> USE DEF IInv
<1>1. rec' \in [Keys -> KeyRecord] /\ rec'[k] = r /\ \A x \in Keys \ {k} : rec'[x] = rec[x]
  BY DEF Core, TypeOK
<1>2. ledger[k].granted = 0 /\ ledger[k].refunded = 0 /\ ledger[k].charged = 0
  BY DEF UnusedIdle, BlankLedger
<1>3. TypeOK'
  BY <1>1, GrantedFacts DEF Core, TypeOK, Rest, teamVars
<1>4. CreditsConserved' /\ SpentCovers'
  BY <1>1, <1>2, GrantedFacts DEF Core, CreditsConserved, SpentCovers
<1>5. UnusedIdle'
  BY <1>1, GrantedFacts DEF UnusedIdle, BlankLedger
<1> QED
  BY <1>3, <1>4, <1>5 DEF Core

(* Creating a key keeps the invariant. *)
LEMMA CreateKeyStep ==
    ASSUME IInv, NEW k \in Keys, NEW c \in Grants, CreateKey(k, c) PROVE IInv'
<1>1. c \in Nat /\ day \in Nat
  BY GateAssumption DEF IInv, Core, TypeOK
<1> QED
  BY <1>1, FreshTypes, GrantStep DEF CreateKey

(* Cloning a key copies settings, never credits: the invariant is kept. *)
LEMMA CloneKeyStep ==
    ASSUME IInv, NEW a \in Keys, NEW k \in Keys, NEW c \in Grants, CloneKey(a, k, c)
    PROVE  IInv'
<1>1. c \in Nat /\ day \in Nat /\ rec[a] \in KeyRecord
  BY GateAssumption DEF IInv, Core, TypeOK
<1> DEFINE n == NewKey(c, day)
<1>2. n \in KeyRecord /\ n.credits = c /\ n.totalSpent = 0
  BY <1>1, FreshTypes
<1> HIDE DEF n
<1>3. Clone(rec[a], c, day) = [n EXCEPT !.expiresAt = rec[a].expiresAt,
        !.spendingLimit = rec[a].spendingLimit, !.quota = rec[a].quota,
        !.autoTopup = rec[a].autoTopup]
  BY DEF Clone, n
<1>4. /\ Clone(rec[a], c, day) \in KeyRecord /\ Clone(rec[a], c, day).credits = c
      /\ Clone(rec[a], c, day).totalSpent = 0
  BY <1>1, <1>2, <1>3 DEF KeyRecord
<1> QED
  BY <1>1, <1>4, GrantStep DEF CloneKey

(* A top-up adds to the balance what it enters on the ledger. *)
LEMMA TopUpStep ==
    ASSUME Core, NEW k \in Keys, NEW c \in Grants, TopUp(k, c) PROVE Core'
<1> DEFINE r == AddCredits(rec[k], now, c)
<1>1. c \in Nat /\ now \in Nat /\ rec[k] \in KeyRecord /\ rec[k].credits \in Nat
  BY GateAssumption, FieldTypes DEF Core, TypeOK
<1>2. r \in KeyRecord /\ r.credits = rec[k].credits + c /\ r.totalSpent = rec[k].totalSpent
  BY <1>1, AddCreditsFacts DEF AddCredits, TopUp, KeyRecord
<1>3. rec' = [rec EXCEPT ![k] = r]
  BY DEF TopUp
<1> HIDE DEF r
<1>4. rec' \in [Keys -> KeyRecord] /\ rec'[k] = r /\ \A x \in Keys \ {k} : rec'[x] = rec[x]
  BY <1>2, <1>3 DEF Core, TypeOK
<1>5. ledger' = Granted(k, c) /\ UNCHANGED <<Rest, known>>
  BY DEF TopUp
<1>6. TypeOK'
  BY <1>1, <1>4, <1>5, GrantedFacts DEF Core, TypeOK, Rest, teamVars
<1>7. CreditsConserved' /\ SpentCovers'
  BY <1>1, <1>2, <1>4, <1>5, GrantedFacts DEF Core, CreditsConserved, SpentCovers
<1> QED
  BY <1>6, <1>7 DEF Core

(* A transfer takes from one balance what it gives to the other. *)
LEMMA TransferStep ==
    ASSUME Core, NEW a \in Keys, NEW b \in Keys, NEW c \in Grants, Transfer(a, b, c)
    PROVE  Core'
<1> DEFINE ra == [rec[a] EXCEPT !.credits = rec[a].credits - c]
           rb == [rec[b] EXCEPT !.credits = rec[b].credits + c]
           ea == [ledger[a] EXCEPT !.granted = ledger[a].granted - c]
           eb == [ledger[b] EXCEPT !.granted = ledger[b].granted + c]
<1>1. /\ c \in Nat /\ a # b /\ rec[a].credits >= c
      /\ rec \in [Keys -> KeyRecord] /\ ledger \in [Keys -> LedgerEntry]
      /\ rec[a] \in KeyRecord /\ rec[b] \in KeyRecord
      /\ ledger[a] \in LedgerEntry /\ ledger[b] \in LedgerEntry
  BY GateAssumption DEF Core, TypeOK, Transfer
<1>2. /\ rec[a].credits \in Nat /\ rec[b].credits \in Nat
      /\ rec[a].credits - c \in Nat /\ rec[b].credits + c \in Nat
  BY <1>1, FieldTypes
<1>3. /\ ledger[a].granted \in Int /\ ledger[a].charged \in Nat /\ ledger[a].refunded \in Nat
      /\ ledger[b].granted \in Int /\ ledger[b].charged \in Nat /\ ledger[b].refunded \in Nat
  BY <1>1 DEF LedgerEntry
<1>4. /\ ra \in KeyRecord /\ ra.credits = rec[a].credits - c
      /\ ra.totalSpent = rec[a].totalSpent
      /\ rb \in KeyRecord /\ rb.credits = rec[b].credits + c
      /\ rb.totalSpent = rec[b].totalSpent
  BY <1>1, <1>2 DEF KeyRecord
<1>5. /\ ea \in LedgerEntry /\ ea.granted = ledger[a].granted - c
      /\ ea.charged = ledger[a].charged /\ ea.refunded = ledger[a].refunded
      /\ eb \in LedgerEntry /\ eb.granted = ledger[b].granted + c
      /\ eb.charged = ledger[b].charged /\ eb.refunded = ledger[b].refunded
  BY <1>1, <1>3 DEF LedgerEntry
<1>6. /\ rec' = [rec EXCEPT ![a] = ra, ![b] = rb]
      /\ ledger' = [ledger EXCEPT ![a] = ea, ![b] = eb]
      /\ UNCHANGED <<Rest, known>>
  BY <1>1 DEF Transfer
<1> HIDE DEF ra, rb, ea, eb
<1>7. /\ rec' \in [Keys -> KeyRecord] /\ rec'[a] = ra /\ rec'[b] = rb
      /\ ledger' \in [Keys -> LedgerEntry] /\ ledger'[a] = ea /\ ledger'[b] = eb
      /\ \A x \in Keys \ {a, b} : rec'[x] = rec[x] /\ ledger'[x] = ledger[x]
  BY <1>1, <1>4, <1>5, <1>6
<1>8. TypeOK'
  BY <1>6, <1>7 DEF Core, TypeOK, Rest, teamVars
<1>9. CreditsConserved'
  <2>1. /\ rec[a].credits = ledger[a].granted + ledger[a].refunded - ledger[a].charged
        /\ rec[b].credits = ledger[b].granted + ledger[b].refunded - ledger[b].charged
    BY DEF Core, CreditsConserved
  <2>2. /\ ra.credits = ea.granted + ea.refunded - ea.charged
        /\ rb.credits = eb.granted + eb.refunded - eb.charged
    BY <1>1, <1>2, <1>3, <1>4, <1>5, <2>1
  <2>3. \A x \in Keys \ {a, b} : rec'[x].credits =
            ledger'[x].granted + ledger'[x].refunded - ledger'[x].charged
    BY <1>7 DEF Core, CreditsConserved
  <2> QED
    BY <1>7, <2>2, <2>3 DEF CreditsConserved
<1>10. SpentCovers'
  BY <1>4, <1>5, <1>7 DEF Core, SpentCovers
<1> QED
  BY <1>8, <1>9, <1>10 DEF Core

(* A rotation carries balance and totals to the new key string. *)
LEMMA RotateStep ==
    ASSUME IInv, NEW old \in Keys, NEW new \in Keys, Rotate(old, new) PROVE IInv'
<1> DEFINE gone == [rec[old] EXCEPT !.active = FALSE]
<1>1. /\ rec \in [Keys -> KeyRecord] /\ ledger \in [Keys -> LedgerEntry]
      /\ rec[old] \in KeyRecord /\ ledger[old] \in LedgerEntry
      /\ old \in known /\ new \notin known /\ known' = known \cup {new}
      /\ UNCHANGED Rest
  BY DEF IInv, Core, TypeOK, Rotate
<1>2. /\ gone \in KeyRecord /\ gone.credits = rec[old].credits
      /\ gone.totalSpent = rec[old].totalSpent
  BY <1>1 DEF KeyRecord
<1>3. /\ rec' = [rec EXCEPT ![new] = rec[old], ![old] = gone]
      /\ ledger' = [ledger EXCEPT ![new] = ledger[old]]
  BY <1>1 DEF Rotate
<1> HIDE DEF gone
<1>4. /\ rec' \in [Keys -> KeyRecord] /\ rec'[new] = rec[old] /\ rec'[old] = gone
      /\ ledger' \in [Keys -> LedgerEntry] /\ ledger'[new] = ledger[old]
      /\ \A x \in Keys \ {old, new} : rec'[x] = rec[x]
      /\ \A x \in Keys \ {new} : ledger'[x] = ledger[x]
  BY <1>1, <1>2, <1>3
<1>5. TypeOK'
  BY <1>1, <1>4 DEF IInv, Core, TypeOK, Rest, teamVars
<1>6. CreditsConserved' /\ SpentCovers'
  BY <1>1, <1>2, <1>4 DEF IInv, Core, CreditsConserved, SpentCovers
<1>7. UnusedIdle'
  BY <1>1, <1>4 DEF IInv, UnusedIdle
<1> QED
  BY <1>5, <1>6, <1>7 DEF Core, IInv

(* Team operations leave every key alone and keep the teams well formed. *)
LEMMA TeamAdminStep == ASSUME Core, TeamAdmin PROVE Core'
<1>1. /\ team \in [TeamIds -> TeamRecord] /\ teamOf \in [Keys -> TeamIds \cup {NoTeam}]
      /\ day \in Nat
  BY DEF Core, TypeOK
<1>2. team' \in [TeamIds -> TeamRecord] /\ teamOf' \in [Keys -> TeamIds \cup {NoTeam}]
  <2>1. CASE \E t \in TeamIds, b \in Budgets, q \in TeamQuotas : CreateTeam(t, b, q, day)
    <3>1. PICK t \in TeamIds, b \in Budgets, q \in TeamQuotas : CreateTeam(t, b, q, day)
      BY <2>1
    <3>2. b \in Nat /\ q \in Quota /\ FreshUsage(day) \in Usage
      BY <1>1, TeamsAssumption, FreshTypes
    <3> QED
      BY <1>1, <3>1, <3>2 DEF CreateTeam, TeamRecord
  <2>2. CASE \E t \in TeamIds, b \in Budgets, q \in TeamQuotas : UpdateTeam(t, b, q)
    <3>1. PICK t \in TeamIds, b \in Budgets, q \in TeamQuotas : UpdateTeam(t, b, q)
      BY <2>2
    <3>2. b \in Nat /\ q \in Quota /\ team[t] \in TeamRecord
      BY <1>1, TeamsAssumption
    <3>3. team' = [team EXCEPT ![t] = [team[t] EXCEPT !.budget = b, !.quota = q]]
      BY <1>1, <3>1 DEF UpdateTeam
    <3>4. [team[t] EXCEPT !.budget = b, !.quota = q] \in TeamRecord
      BY <3>2 DEF TeamRecord
    <3> QED
      BY <1>1, <3>1, <3>3, <3>4 DEF UpdateTeam
  <2>3. CASE \E t \in TeamIds : DeleteTeam(t)
    <3>1. PICK t \in TeamIds : DeleteTeam(t)
      BY <2>3
    <3>2. team' = [team EXCEPT ![t] = [team[t] EXCEPT !.active = FALSE]]
      BY <1>1, <3>1 DEF DeleteTeam
    <3>3. team[t] \in TeamRecord
      BY <1>1
    <3>4. [team[t] EXCEPT !.active = FALSE] \in TeamRecord
      BY <3>3 DEF TeamRecord
    <3>5. teamOf' \in [Keys -> TeamIds \cup {NoTeam}]
      BY <1>1, <3>1 DEF DeleteTeam
    <3> QED
      BY <1>1, <3>2, <3>4, <3>5
  <2>4. CASE \E t \in TeamIds, k \in Keys : AssignKey(t, k) \/ RemoveKey(t, k)
    BY <1>1, <2>4 DEF AssignKey, RemoveKey
  <2> QED
    BY <2>1, <2>2, <2>3, <2>4 DEF TeamAdmin
<1>3. UNCHANGED gateVars
  BY DEF TeamAdmin
<1> QED
  BY <1>2, <1>3 DEF Core, TypeOK, gateVars, CreditsConserved, SpentCovers

-----------------------------------------------------------------------------
(* The clock and the crash. *)

(* Midnight only forgets how often keys were topped up. *)
LEMMA NextDayStep == ASSUME Core, NextDay PROVE Core'
<1>1. \A k \in Keys : ledger[k] \in LedgerEntry
  BY DEF Core, TypeOK
<1>2. \A k \in Keys : /\ [ledger[k] EXCEPT !.topups = 0] \in LedgerEntry
                      /\ [ledger[k] EXCEPT !.topups = 0].granted = ledger[k].granted
                      /\ [ledger[k] EXCEPT !.topups = 0].charged = ledger[k].charged
                      /\ [ledger[k] EXCEPT !.topups = 0].refunded = ledger[k].refunded
  BY <1>1 DEF LedgerEntry
<1>3. /\ ledger' = [k \in Keys |-> [ledger[k] EXCEPT !.topups = 0]]
      /\ day' = day + 1
      /\ UNCHANGED <<teamVars, known, rec, win, toolWin, calls, shadow, now, life>>
  BY DEF NextDay
<1>4. /\ ledger' \in [Keys -> LedgerEntry]
      /\ \A k \in Keys : /\ ledger'[k].granted = ledger[k].granted
                         /\ ledger'[k].charged = ledger[k].charged
                         /\ ledger'[k].refunded = ledger[k].refunded
  BY <1>2, <1>3
<1>5. TypeOK'
  BY <1>3, <1>4 DEF Core, TypeOK, teamVars
<1>6. CreditsConserved' /\ SpentCovers'
  BY <1>3, <1>4 DEF Core, CreditsConserved, SpentCovers
<1> QED
  BY <1>5, <1>6 DEF Core

(* What a restart leaves of the variables it clears. *)
RestartInv ==
    /\ team' \in [TeamIds -> TeamRecord]
    /\ teamOf' \in [Keys -> TeamIds \cup {NoTeam}]
    /\ win' \in [Keys -> SUBSET (Nat \X Nat)]
    /\ toolWin' \in [Keys -> [Tools -> SUBSET (Nat \X Nat)]]
    /\ calls' \in [CallIds -> Call \cup {NoCall}]
    /\ known' = known /\ shadow' \in [on : BOOLEAN, ever : BOOLEAN]
    /\ now' \in Nat /\ day' \in Nat /\ life' \in Nat

(* A restart forgets windows, teams and calls in flight. *)
LEMMA RestartFacts == ASSUME Core, Restart PROVE RestartInv
<1>1. BlankTeam \in TeamRecord
  BY FreshTypes DEF BlankTeam, TeamRecord
<1>2. calls' \in [CallIds -> Call \cup {NoCall}]
  <2>1. \A i \in CallIds : calls[i] # NoCall => [calls[i] EXCEPT !.st = "lost"] \in Call
    BY DEF Core, TypeOK, Call
  <2> QED
    BY <2>1 DEF Restart, Core, TypeOK
<1>3. /\ team' \in [TeamIds -> TeamRecord]
      /\ teamOf' \in [Keys -> TeamIds \cup {NoTeam}]
      /\ win' \in [Keys -> SUBSET (Nat \X Nat)]
      /\ toolWin' \in [Keys -> [Tools -> SUBSET (Nat \X Nat)]]
  BY <1>1 DEF Restart
<1>4. known' = known /\ shadow' \in [on : BOOLEAN, ever : BOOLEAN]
  BY DEF Restart, Core, TypeOK
<1>5. now' \in Nat /\ day' \in Nat /\ life' \in Nat
  BY DEF Restart, Core, TypeOK
<1> QED
  BY <1>2, <1>3, <1>4, <1>5 DEF RestartInv

(* Dying in the middle of an evaluation leaves a charge without a call:    *)
(* balance, totalSpent and ledger still agree.                             *)
LEMMA CrashInEvaluateStep ==
    ASSUME Core, NEW k \in Keys, NEW t \in Tools, CrashInEvaluate(k, t)
    PROVE  Core'
<1> DEFINE c == Price[t]
           r == Deduct(rec[k], now, c)
           e == [ledger[k] EXCEPT !.charged = ledger[k].charged + c]
<1>1. /\ c \in Nat /\ now \in Nat /\ rec[k] \in KeyRecord /\ ledger[k] \in LedgerEntry
      /\ rec \in [Keys -> KeyRecord] /\ ledger \in [Keys -> LedgerEntry]
  BY GateAssumption DEF Core, TypeOK
<1>2. /\ rec[k].credits \in Nat /\ rec[k].totalSpent \in Nat
      /\ Usable(rec[k], now) /\ rec[k].credits >= c
  BY <1>1, FieldTypes DEF CrashInEvaluate, Passes, ReachesQuota, Live
<1>3. r \in KeyRecord /\ r.credits = rec[k].credits - c /\ r.totalSpent = rec[k].totalSpent + c
  BY <1>1, <1>2, DeductFacts DEF Deduct, KeyRecord
<1>4. /\ e \in LedgerEntry /\ e.charged = ledger[k].charged + c
      /\ e.granted = ledger[k].granted /\ e.refunded = ledger[k].refunded
      /\ ledger[k].granted \in Int /\ ledger[k].charged \in Nat
      /\ ledger[k].refunded \in Nat
  BY <1>1 DEF LedgerEntry
<1>5. rec' = [rec EXCEPT ![k] = r] /\ ledger' = [ledger EXCEPT ![k] = e]
  BY <1>1 DEF CrashInEvaluate
<1> HIDE DEF r, e
<1>6. /\ rec' \in [Keys -> KeyRecord] /\ rec'[k] = r
      /\ ledger' \in [Keys -> LedgerEntry] /\ ledger'[k] = e
      /\ \A x \in Keys \ {k} : rec'[x] = rec[x] /\ ledger'[x] = ledger[x]
  BY <1>1, <1>3, <1>4, <1>5
<1>7. TypeOK'
  BY <1>6, RestartFacts DEF CrashInEvaluate, RestartInv, Core, TypeOK
<1> HIDE DEF c
<1>8. CreditsConserved' /\ SpentCovers'
  BY <1>1, <1>2, <1>3, <1>4, <1>6 DEF Core, CreditsConserved, SpentCovers
<1> QED
  BY <1>7, <1>8 DEF Core

-----------------------------------------------------------------------------
(* Unused key strings stay untouched: what a step writes of the records    *)
(* and the ledger, it writes for a key that is known.                      *)

Unmoved(x) == rec'[x] = rec[x] /\ ledger'[x] = ledger[x]

(* An admission moves only the key it charges. *)
LEMMA ChargeElsewhere ==
    ASSUME Core, NEW k \in Keys, NEW i, NEW need, NEW n, NEW c,
           Charge(k, i, need, n, c), NEW x \in Keys, x # k
    PROVE  Unmoved(x)
BY DEF Charge, Unmoved, Core, TypeOK

(* A refusal writes only to a live key. *)
LEMMA TouchedElsewhere ==
    ASSUME Core, NEW k \in Keys, NEW need, NEW c, NEW o,
           NEW x \in Keys, x \notin known
    PROVE  Touched(k, need, c, o)[x] = rec[x]
<1>1. CASE x = k
  BY <1>1 DEF Touched, ReachesQuota, Live
<1>2. CASE x # k
  BY <1>2 DEF Touched, Core, TypeOK
<1> QED
  BY <1>1, <1>2

(* A refund to a key string never used changes nothing. *)
LEMMA SettleElsewhere ==
    ASSUME IInv, NEW i \in CallIds, NEW bad \in SUBSET CallIds, Settle(i, bad),
           NEW x \in Keys \ known
    PROVE  Unmoved(x)
<1> DEFINE k == calls[i].key
           pair == i + 1 \in Group(i)
           first == RefundCall(rec[k], i, bad)
           after == IF pair THEN RefundCall(first, i + 1, bad) ELSE first
           g1 == Given(rec[k], i, bad)
           g2 == IF pair THEN Given(rec[k], i + 1, bad) ELSE 0
<1>1. /\ rec' = [rec EXCEPT ![k] = after]
      /\ ledger' = [ledger EXCEPT ![k].refunded = @ + g1 + g2]
      /\ rec \in [Keys -> KeyRecord] /\ ledger \in [Keys -> LedgerEntry]
  BY DEF Settle, IInv, Core, TypeOK
<1>2. CASE x # k
  BY <1>1, <1>2 DEF Unmoved
<1>3. CASE x = k
  <2>1. ~Usable(rec[x], now)
    BY DEF IInv, UnusedIdle, Usable
  <2>2. after = rec[x]
    BY <1>3, <2>1 DEF RefundCall, Refund
  <2>3. g1 = 0 /\ g2 = 0
    BY <1>3, <2>1 DEF Given
  <2>4. ledger[x] \in LedgerEntry /\ ledger[x].refunded \in Nat
    BY <1>1 DEF LedgerEntry
  <2> HIDE DEF after, g1, g2
  <2> DEFINE same == ledger[x].refunded + g1 + g2
  <2>5. ledger'[x] = [ledger[x] EXCEPT !.refunded = same]
    BY <1>1, <1>3
  <2>6. same = ledger[x].refunded
    BY <2>3, <2>4
  <2> HIDE DEF same
  <2>7. ledger'[x] = ledger[x]
    BY <2>4, <2>5, <2>6 DEF LedgerEntry
  <2> QED
    BY <1>1, <1>3, <2>2, <2>7 DEF Unmoved
<1> QED
  BY <1>2, <1>3

(* A step that puts no key string to use and moves no unused one. *)
LEMMA IdleKept ==
    ASSUME IInv, Core', known' = known, \A x \in Keys \ known : Unmoved(x)
    PROVE  IInv'
BY DEF IInv, UnusedIdle, Unmoved

-----------------------------------------------------------------------------
(* Every operation keeps the invariant. *)
LEMMA OperationsStep == ASSUME IInv, Operations PROVE IInv'
<1> USE DEF IInv
<1>1. ASSUME NEW k \in Keys, NEW t \in Tools, NEW o \in Origins, Evaluate(k, t, o)
      PROVE  IInv'
  <2>1. Core' /\ known' = known /\ k \in known
    BY <1>1, EvaluateStep DEF Evaluate, Passes, ReachesQuota, Live
  <2>2. \A x \in Keys \ known : Unmoved(x)
    BY <1>1, <2>1, ChargeElsewhere DEF Evaluate
  <2> QED
    BY <2>1, <2>2, IdleKept
<1>2. ASSUME NEW k \in Keys, NEW t \in Tools, NEW o \in Origins, EvaluateRefused(k, t, o)
      PROVE  IInv'
  <2>1. Core' /\ known' = known
    BY <1>2, EvaluateRefusedStep DEF EvaluateRefused
  <2>2. \A x \in Keys \ known : Unmoved(x)
    BY <1>2, TouchedElsewhere DEF EvaluateRefused, Unmoved
  <2> QED
    BY <2>1, <2>2, IdleKept
<1>3. ASSUME NEW k \in Keys, NEW t \in Tools, NEW u \in Tools, NEW o \in Origins,
             EvaluateBatch(k, t, u, o)
      PROVE  IInv'
  <2>1. Core' /\ known' = known /\ k \in known
    BY <1>3, EvaluateBatchStep DEF EvaluateBatch, Passes, ReachesQuota, Live
  <2>2. \A x \in Keys \ known : Unmoved(x)
    BY <1>3, <2>1, ChargeElsewhere DEF EvaluateBatch
  <2> QED
    BY <2>1, <2>2, IdleKept
<1>4. ASSUME NEW k \in Keys, NEW t \in Tools, NEW u \in Tools, NEW o \in Origins,
             EvaluateBatchRefused(k, t, u, o)
      PROVE  IInv'
  <2>1. Core' /\ known' = known
    BY <1>4, EvaluateBatchRefusedStep DEF EvaluateBatchRefused
  <2>2. CASE /\ rec' = Touched(k, NeedOf(t, u), Price[t] + Price[u], o)
             /\ ledger' = ledger
    BY <2>1, <2>2, TouchedElsewhere, IdleKept DEF Unmoved
  <2>3. CASE rec' = rec /\ ledger' = ledger
    BY <2>1, <2>3, IdleKept DEF Unmoved
  <2>4. CASE k \in known /\ \E i \in CallIds :
               Charge(k, i, NeedOf(t, u), 2, BatchTotal(k, t, u, o))
    <3>1. \A x \in Keys \ known : Unmoved(x)
      BY <2>4, ChargeElsewhere
    <3> QED
      BY <2>1, <3>1, IdleKept
  <2> QED
    BY <1>4, <2>2, <2>3, <2>4 DEF EvaluateBatchRefused, Live
<1>5. ASSUME NEW i \in CallIds, NEW bad \in SUBSET CallIds, Settle(i, bad)
      PROVE  IInv'
  <2>1. Core' /\ known' = known
    BY <1>5, SettleStep DEF Settle
  <2>2. \A x \in Keys \ known : Unmoved(x)
    BY <1>5, SettleElsewhere
  <2> QED
    BY <2>1, <2>2, IdleKept
<1>6. ASSUME NEW i \in CallIds, Lose(i) PROVE IInv'
  <2>1. Core' /\ known' = known /\ \A x \in Keys \ known : Unmoved(x)
    BY <1>6, LoseStep DEF Lose, Unmoved
  <2> QED
    BY <2>1, IdleKept
<1> QED
  BY <1>1, <1>2, <1>3, <1>4, <1>5, <1>6 DEF Operations

(* An edit of a known key that leaves its money alone. *)
LEMMA EditIdle ==
    ASSUME IInv, NEW k \in Keys, NEW r \in KeyRecord, Edit(k, r),
           r.credits = rec[k].credits, r.totalSpent = rec[k].totalSpent
    PROVE  IInv'
<1>1. Core' /\ known' = known
  BY EditStep DEF Edit, IInv
<1>2. \A x \in Keys \ known : Unmoved(x)
  BY DEF Edit, Unmoved, IInv, Core, TypeOK
<1> QED
  BY <1>1, <1>2, IdleKept

(* Everything an administrator does keeps the invariant. *)
LEMMA AdministrationStep == ASSUME IInv, Administration PROVE IInv'
<1>1. \A k \in Keys : rec[k] \in KeyRecord
  BY DEF IInv, Core, TypeOK
<1>2. ASSUME NEW k \in Keys, NEW c \in Grants, CreateKey(k, c) PROVE IInv'
  BY <1>2, CreateKeyStep
<1>3. ASSUME NEW k \in Keys, NEW c \in Grants, TopUp(k, c) PROVE IInv'
  <2>1. Core' /\ known' = known
    BY <1>3, TopUpStep DEF TopUp, IInv
  <2>2. \A x \in Keys \ known : Unmoved(x)
    BY <1>3 DEF TopUp, Granted, Unmoved, IInv, Core, TypeOK
  <2> QED
    BY <2>1, <2>2, IdleKept
<1>4. ASSUME NEW a \in Keys, NEW b \in Keys, NEW c \in Grants, CloneKey(a, b, c) PROVE IInv'
  BY <1>4, CloneKeyStep
<1>5. ASSUME NEW a \in Keys, NEW b \in Keys, NEW c \in Grants, Transfer(a, b, c) PROVE IInv'
  <2>1. Core' /\ known' = known
    BY <1>5, TransferStep DEF Transfer, IInv
  <2>2. \A x \in Keys \ known : Unmoved(x)
    BY <1>5 DEF Transfer, Unmoved, IInv, Core, TypeOK
  <2> QED
    BY <2>1, <2>2, IdleKept
<1>6. ASSUME NEW a \in Keys, NEW b \in Keys, Rotate(a, b) PROVE IInv'
  BY <1>6, RotateStep
<1>7. ASSUME NEW k \in Keys, Suspend(k) \/ Resume(k) \/ Revoke(k) PROVE IInv'
  <2>1. \A r : r = [rec[k] EXCEPT !.suspended = TRUE] =>
          r \in KeyRecord /\ r.credits = rec[k].credits /\ r.totalSpent = rec[k].totalSpent
    BY <1>1 DEF KeyRecord
  <2>2. \A r : r = [rec[k] EXCEPT !.suspended = FALSE] =>
          r \in KeyRecord /\ r.credits = rec[k].credits /\ r.totalSpent = rec[k].totalSpent
    BY <1>1 DEF KeyRecord
  <2>3. \A r : r = [rec[k] EXCEPT !.active = FALSE] =>
          r \in KeyRecord /\ r.credits = rec[k].credits /\ r.totalSpent = rec[k].totalSpent
    BY <1>1 DEF KeyRecord
  <2> QED
    BY <1>7, <2>1, <2>2, <2>3, EditIdle DEF Suspend, Resume, Revoke
<1>8. ASSUME NEW k \in Keys, NEW e \in Expiries, SetExpiry(k, e) PROVE IInv'
  <2> DEFINE r == [rec[k] EXCEPT !.expiresAt = e]
  <2>1. r \in KeyRecord /\ r.credits = rec[k].credits /\ r.totalSpent = rec[k].totalSpent
    BY <1>1, GateAssumption DEF KeyRecord
  <2> QED
    BY <1>8, <2>1, EditIdle DEF SetExpiry
<1>9. ASSUME NEW k \in Keys, NEW q \in KeyQuotas, SetQuota(k, q) PROVE IInv'
  <2> DEFINE r == [rec[k] EXCEPT !.quota = q]
  <2>1. r \in KeyRecord /\ r.credits = rec[k].credits /\ r.totalSpent = rec[k].totalSpent
    BY <1>1, GateAssumption DEF KeyRecord
  <2> QED
    BY <1>9, <2>1, EditIdle DEF SetQuota
<1>10. ASSUME NEW k \in Keys, NEW l \in Limits, SetSpendingLimit(k, l) PROVE IInv'
  <2> DEFINE r == [rec[k] EXCEPT !.spendingLimit = l]
  <2>1. r \in KeyRecord /\ r.credits = rec[k].credits /\ r.totalSpent = rec[k].totalSpent
    BY <1>1, GateAssumption DEF KeyRecord
  <2> QED
    BY <1>10, <2>1, EditIdle DEF SetSpendingLimit
<1>11. ASSUME NEW k \in Keys, NEW p \in Topups, SetAutoTopup(k, p) PROVE IInv'
  <2> DEFINE r == [rec[k] EXCEPT !.autoTopup = p]
  <2>1. r \in KeyRecord /\ r.credits = rec[k].credits /\ r.totalSpent = rec[k].totalSpent
    BY <1>1, GateAssumption DEF KeyRecord
  <2> QED
    BY <1>11, <2>1, EditIdle DEF SetAutoTopup
<1>12. ASSUME NEW s \in ShadowModes, UpdateConfig(s) PROVE IInv'
  <2>1. shadow' \in [on : BOOLEAN, ever : BOOLEAN]
    BY <1>12, GateAssumption DEF UpdateConfig, IInv, Core, TypeOK
  <2> QED
    BY <1>12, <2>1 DEF UpdateConfig, IInv, Core, TypeOK, CreditsConserved, SpentCovers,
                       UnusedIdle, teamVars
<1>13. ASSUME TeamAdmin PROVE IInv'
  <2>1. Core' /\ known' = known /\ \A x \in Keys : Unmoved(x)
    BY <1>13, TeamAdminStep DEF TeamAdmin, gateVars, Unmoved, IInv
  <2> QED
    BY <2>1, IdleKept
<1> QED
  BY <1>2, <1>3, <1>4, <1>5, <1>6, <1>7, <1>8, <1>9, <1>10, <1>11, <1>12, <1>13
     DEF Administration

(* The clock and a crash keep the invariant. *)
LEMMA EnvironmentStep ==
    ASSUME IInv,
           Tick \/ NextDay \/ Crash \/ \E k \in Keys, t \in Tools : CrashInEvaluate(k, t)
    PROVE  IInv'
<1>1. CASE Tick
  BY <1>1 DEF Tick, IInv, Core, TypeOK, CreditsConserved, SpentCovers, UnusedIdle, teamVars
<1>2. CASE NextDay
  <2>1. Core' /\ known' = known
    BY <1>2, NextDayStep DEF NextDay, IInv
  <2>2. \A x \in Keys \ known : Unmoved(x)
    BY <1>2 DEF NextDay, Unmoved, IInv, UnusedIdle, BlankLedger
  <2> QED
    BY <2>1, <2>2, IdleKept
<1>3. CASE Crash
  <2>1. RestartInv /\ rec' = rec /\ ledger' = ledger
    BY <1>3, RestartFacts DEF Crash, IInv
  <2> QED
    BY <2>1 DEF RestartInv, IInv, Core, TypeOK, CreditsConserved, SpentCovers, UnusedIdle
<1>4. ASSUME NEW k \in Keys, NEW t \in Tools, CrashInEvaluate(k, t) PROVE IInv'
  <2>1. Core' /\ known' = known /\ k \in known
    BY <1>4, CrashInEvaluateStep
       DEF CrashInEvaluate, Restart, Passes, ReachesQuota, Live, IInv
  <2>2. \A x \in Keys \ known : Unmoved(x)
    BY <1>4, <2>1 DEF CrashInEvaluate, Unmoved, IInv, Core, TypeOK
  <2> QED
    BY <2>1, <2>2, IdleKept
<1> QED
  BY <1>1, <1>2, <1>3, <1>4

-----------------------------------------------------------------------------
(* The invariant holds in every state of the specification.                *)
THEOREM Invariant == Spec => []IInv
<1>1. Init => IInv
  BY InitInv
<1>2. IInv /\ [Next]_vars => IInv'
  <2> SUFFICES ASSUME IInv, [Next]_vars PROVE IInv'
    OBVIOUS
  <2>1. CASE Next
    BY <2>1, OperationsStep, AdministrationStep, EnvironmentStep DEF Next
  <2>2. CASE UNCHANGED vars
    BY <2>2 DEF vars, IInv, Core, TypeOK, CreditsConserved, SpentCovers, UnusedIdle
  <2> QED
    BY <2>1, <2>2
<1> QED
  BY <1>1, <1>2, PTL DEF Spec

(* Every variable keeps its type: no balance, total or counter of the      *)
(* store, the quota tracker or the teams ever goes below zero.             *)
THEOREM TypeCorrect == Spec => []TypeOK
<1>1. IInv => TypeOK
  BY DEF IInv, Core
<1> QED
  BY <1>1, Invariant, PTL

(* No credit appears or vanishes in any admission, batch, refund,          *)
(* auto-topup, transfer, rotation, reload of shadow mode or crash.         *)
THEOREM CreditsAreConserved == Spec => []CreditsConserved
<1>1. IInv => CreditsConserved
  BY DEF IInv, Core
<1> QED
  BY <1>1, Invariant, PTL

(* totalSpent, which the spending limit reads, never understates what the  *)
(* key was charged and not refunded.                                       *)
THEOREM SpentIsCovered == Spec => []SpentCovers
<1>1. IInv => SpentCovers
  BY DEF IInv, Core
<1> QED
  BY <1>1, Invariant, PTL

-----------------------------------------------------------------------------
(* Summing what calls were charged. *)

(* The credits of the calls of S, read in the table f of calls.            *)
UnitsIn(f, S) == UNION {{i} \X (1 .. f[i].charged) : i \in S}

Priced(f, S) == S \subseteq CallIds /\ \A i \in S : f[i].charged \in Nat

Bill(f, S) == Cardinality(UnitsIn(f, S))

(* Charged is the bill in the current table.                               *)
LEMMA ChargedIsBill == ASSUME NEW S PROVE Charged(S) = Bill(calls, S)
BY DEF Charged, Bill, Units, UnitsIn

(* Only finitely many credits are charged to finitely many calls.          *)
LEMMA UnitsFinite ==
    ASSUME NEW f, NEW S, Priced(f, S)
    PROVE  IsFiniteSet(UnitsIn(f, S)) /\ Bill(f, S) \in Nat
<1> DEFINE part == [i \in S |-> {i} \X (1 .. f[i].charged)]
           parts == {{i} \X (1 .. f[i].charged) : i \in S}
<1>1. IsFiniteSet(S)
  <2>1. IsFiniteSet(CallIds)
    BY GateAssumption, FS_Interval DEF CallIds
  <2> QED
    BY <2>1, FS_Subset DEF Priced
<1>2. part \in Surjection(S, parts)
  BY DEF Surjection
<1>3. IsFiniteSet(parts)
  BY <1>1, <1>2, FS_Surjection
<1>4. \A i \in S : IsFiniteSet({i} \X (1 .. f[i].charged))
  <2> TAKE i \in S
  <2>1. IsFiniteSet({i})
    BY FS_Singleton
  <2>2. IsFiniteSet(1 .. f[i].charged)
    BY FS_Interval DEF Priced
  <2> QED
    BY <2>1, <2>2, FS_Product
<1>5. \A P \in parts : IsFiniteSet(P)
  BY <1>4
<1>6. IsFiniteSet(UNION parts)
  <2> HIDE DEF parts
  <2> QED
    BY <1>3, <1>5, FS_UNION
<1> QED
  BY <1>6, FS_CardinalityType DEF UnitsIn, Bill

(* One call is billed what it was charged.                                 *)
LEMMA BillOne ==
    ASSUME NEW f, NEW i, f[i].charged \in Nat
    PROVE  Bill(f, {i}) = f[i].charged
<1> DEFINE n == f[i].charged
<1>1. UnitsIn(f, {i}) = {i} \X (1 .. n) /\ n \in Nat
  BY DEF UnitsIn
<1> HIDE DEF n
<1>2. IsFiniteSet({i}) /\ Cardinality({i}) = 1
  BY FS_Singleton
<1>3. IsFiniteSet(1 .. n) /\ Cardinality(1 .. n) = n
  BY <1>1, FS_Interval
<1>4. Cardinality({i} \X (1 .. n)) = 1 * n
  BY <1>2, <1>3, FS_Product
<1>5. Cardinality({i} \X (1 .. n)) = n
  BY <1>1, <1>4
<1>6. Bill(f, {i}) = n
  BY <1>1, <1>5 DEF Bill
<1> QED
  BY <1>6 DEF n

(* No call, no bill.                                                       *)
LEMMA BillNone == ASSUME NEW f PROVE Bill(f, {}) = 0
BY FS_EmptySet DEF Bill, UnitsIn

(* The bills of disjoint sets of calls add up.                             *)
LEMMA BillUnion ==
    ASSUME NEW f, NEW S, NEW T, Priced(f, S), Priced(f, T), S \cap T = {}
    PROVE  /\ Bill(f, S \cup T) = Bill(f, S) + Bill(f, T)
           /\ Bill(f, S) \in Nat /\ Bill(f, T) \in Nat
<1>1. UnitsIn(f, S \cup T) = UnitsIn(f, S) \cup UnitsIn(f, T)
  BY DEF UnitsIn
<1>2. UnitsIn(f, S) \cap UnitsIn(f, T) = {}
  BY DEF UnitsIn
<1>3. /\ IsFiniteSet(UnitsIn(f, S)) /\ IsFiniteSet(UnitsIn(f, T))
      /\ Bill(f, S) \in Nat /\ Bill(f, T) \in Nat
  BY UnitsFinite
<1> DEFINE A == UnitsIn(f, S)
           B == UnitsIn(f, T)
<1>4. Cardinality(A \cup B) = Cardinality(A) + Cardinality(B) - Cardinality(A \cap B)
  BY <1>3, FS_Union
<1>5. Cardinality(A \cap B) = 0
  BY <1>2, FS_EmptySet
<1>6. Bill(f, S \cup T) = Bill(f, S) + Bill(f, T) - 0
  BY <1>1, <1>4, <1>5 DEF Bill
<1> QED
  BY <1>3, <1>6

(* Fewer calls are billed no more.                                         *)
LEMMA BillSubset ==
    ASSUME NEW f, NEW S, NEW T, Priced(f, S), T \subseteq S
    PROVE  /\ Bill(f, T) <= Bill(f, S)
           /\ Bill(f, S) \in Nat /\ Bill(f, T) \in Nat
           /\ Bill(f, S \ T) + Bill(f, T) = Bill(f, S)
           /\ Bill(f, S \ T) \in Nat
<1>1. Priced(f, S \ T) /\ Priced(f, T) /\ (S \ T) \cap T = {} /\ (S \ T) \cup T = S
  BY DEF Priced
<1>2. /\ Bill(f, (S \ T) \cup T) = Bill(f, S \ T) + Bill(f, T)
      /\ Bill(f, S \ T) \in Nat /\ Bill(f, T) \in Nat
  BY <1>1, BillUnion
<1>3. Bill(f, S) \in Nat
  BY UnitsFinite
<1> QED
  BY <1>1, <1>2, <1>3

(* Two tables that charge the calls of S alike bill them alike.            *)
LEMMA BillSame ==
    ASSUME NEW f, NEW g, NEW S, \A i \in S : g[i].charged = f[i].charged
    PROVE  Bill(g, S) = Bill(f, S)
<1>1. UnitsIn(g, S) = UnitsIn(f, S)
  BY DEF UnitsIn
<1> QED
  BY <1>1 DEF Bill

-----------------------------------------------------------------------------
(* The table of calls: numbers are handed out in order, and the second     *)
(* call of a batch carries the first one's number and shares its fate      *)
(* until it is settled.                                                    *)

Leads(i) == calls[i].group = i

Follows(i) ==
    /\ i > 1 /\ calls[i].group = i - 1 /\ Leads(i - 1)
    /\ calls[i - 1].key = calls[i].key /\ calls[i - 1].at = calls[i].at
    /\ calls[i - 1].life = calls[i].life
    /\ calls[i - 1].st = "forwarded" => calls[i].st = "forwarded"

CallOK(i) ==
    calls[i] # NoCall =>
        /\ calls[i].day <= day /\ calls[i].life <= life
        /\ i > 1 => calls[i - 1] # NoCall
        /\ Leads(i) \/ Follows(i)

CallsInv == \A i \in CallIds : CallOK(i)

(* What a step that admits nothing may do to call i: settle or lose it.    *)
SameCall(i) ==
    /\ calls'[i] # NoCall
    /\ calls'[i].key = calls[i].key /\ calls'[i].tool = calls[i].tool
    /\ calls'[i].charged = calls[i].charged /\ calls'[i].at = calls[i].at
    /\ calls'[i].day = calls[i].day /\ calls'[i].life = calls[i].life
    /\ calls'[i].group = calls[i].group /\ calls'[i].team = calls[i].team
    /\ calls[i].st = "failed" => calls'[i].st = "failed"

Together(i) ==
    Follows(i) /\ calls'[i - 1].st = "forwarded" => calls'[i].st = "forwarded"

Ended ==
    /\ day' \in Nat /\ day' >= day /\ life' \in Nat /\ life' >= life
    /\ \A i \in CallIds : IF calls[i] = NoCall THEN calls'[i] = NoCall
                           ELSE SameCall(i) /\ Together(i)

(* What a step that admits the calls of S does: they were not made before, *)
(* and the first of them leads.                                            *)
Admitted(k, S, i) ==
    /\ \A j \in CallIds \ S : calls'[j] = calls[j]
    /\ day' = day /\ life' = life
    /\ S \in {{i}, {i, i + 1}} /\ S \subseteq CallIds
    /\ Fresh(i)
    /\ \A j \in S :
         /\ calls[j] = NoCall /\ calls'[j] # NoCall
         /\ calls'[j].st = "forwarded" /\ calls'[j].key = k /\ calls'[j].at = now
         /\ calls'[j].day = day /\ calls'[j].life = life /\ calls'[j].group = i
         /\ calls'[j].charged \in Nat /\ calls'[j].team = teamOf[k]

(* A call that was made is not the record of a call not made.              *)
LEMMA CallFacts ==
    ASSUME Core, NEW i \in CallIds, calls[i] # NoCall
    PROVE  /\ calls[i] \in Call /\ calls[i].group \in CallIds /\ calls[i].charged \in Nat
           /\ calls[i].key \in Keys /\ calls[i].tool \in Tools /\ calls[i].at \in Nat
           /\ calls[i].day \in Nat /\ calls[i].life \in Nat
           /\ i \in Nat /\ i - 1 \in Int /\ i >= 1
           /\ day \in Nat /\ life \in Nat /\ now \in Nat
<1>1. calls[i] \in Call /\ day \in Nat /\ life \in Nat /\ now \in Nat
  BY DEF Core, TypeOK
<1>2. i \in Nat /\ i >= 1
  BY DEF CallIds
<1> QED
  BY <1>1, <1>2 DEF Call

(* No calls, nothing to check.                                             *)
LEMMA InitCalls == Init => CallsInv
BY DEF Init, CallsInv, CallOK

(* Settling and losing calls keeps the table in order.                     *)
LEMMA EndedCalls == ASSUME Core, CallsInv, Ended PROVE CallsInv'
<1> SUFFICES ASSUME NEW i \in CallIds, calls'[i] # NoCall PROVE CallOK(i)'
  BY DEF CallsInv, CallOK
<1>1. calls[i] # NoCall /\ CallOK(i) /\ SameCall(i) /\ Together(i)
  BY DEF Ended, CallsInv
<1>2. /\ day' \in Nat /\ day' >= day /\ life' \in Nat /\ life' >= life
      /\ i \in Nat /\ i >= 1
      /\ calls[i].day \in Nat /\ calls[i].life \in Nat /\ day \in Nat /\ life \in Nat
  BY <1>1, CallFacts DEF Ended
<1>3. calls'[i].day <= day' /\ calls'[i].life <= life'
  BY <1>1, <1>2 DEF CallOK, SameCall
<1>4. i > 1 => i - 1 \in CallIds /\ calls[i - 1] # NoCall /\ SameCall(i - 1)
  <2> SUFFICES ASSUME i > 1 PROVE i - 1 \in CallIds /\ calls[i - 1] # NoCall /\ SameCall(i - 1)
    OBVIOUS
  <2>1. i - 1 \in CallIds
    BY GateAssumption DEF CallIds
  <2> QED
    BY <1>1, <2>1 DEF CallOK, Ended
<1>5. Leads(i) => Leads(i)'
  BY <1>1 DEF Leads, SameCall
<1>6. Follows(i) => Follows(i)'
  BY <1>1, <1>4 DEF Follows, Leads, SameCall, Together
<1>7. i > 1 => calls'[i - 1] # NoCall
  BY <1>4 DEF SameCall
<1> QED
  BY <1>1, <1>3, <1>5, <1>6, <1>7 DEF CallOK

(* Admitting a call or a batch keeps the table in order.                   *)
LEMMA AdmittedCalls ==
    ASSUME Core, CallsInv, NEW k \in Keys, NEW S, NEW i \in CallIds, Admitted(k, S, i)
    PROVE  CallsInv'
<1> SUFFICES ASSUME NEW j \in CallIds, calls'[j] # NoCall PROVE CallOK(j)'
  BY DEF CallsInv, CallOK
<1>1. /\ i \in Nat /\ i >= 1 /\ j \in Nat /\ j >= 1
      /\ day \in Nat /\ life \in Nat /\ now \in Nat /\ day' = day /\ life' = life
  BY DEF CallIds, Core, TypeOK, Admitted
<1>2. j > 1 => j - 1 \in CallIds
  BY GateAssumption DEF CallIds
<1>3. CASE j \in S
  <2>1. j = i \/ j = i + 1
    BY <1>3 DEF Admitted
  <2>2. CASE j = i
    <3>1. j > 1 => calls[j - 1] # NoCall
      BY <2>2 DEF Admitted, Fresh
    <3>2. j > 1 => j - 1 \notin S
      BY <1>1, <2>2 DEF Admitted
    <3>3. j > 1 => calls'[j - 1] # NoCall
      BY <1>2, <3>1, <3>2 DEF Admitted
    <3>4. Leads(j)'
      BY <1>3, <2>2 DEF Leads, Admitted
    <3> QED
      BY <1>1, <1>3, <3>3, <3>4 DEF CallOK, Admitted
  <2>3. CASE j = i + 1
    <3>1. j - 1 = i /\ j > 1 /\ i \in S
      BY <1>1, <1>3, <2>3 DEF Admitted
    <3>2. Follows(j)'
      BY <1>3, <3>1 DEF Follows, Leads, Admitted
    <3> QED
      BY <1>1, <1>3, <3>1, <3>2 DEF CallOK, Admitted
  <2> QED
    BY <2>1, <2>2, <2>3
<1>4. CASE j \notin S
  <2>1. calls'[j] = calls[j] /\ CallOK(j) /\ calls[j] # NoCall
    BY <1>4 DEF Admitted, CallsInv
  <2>2. j > 1 => calls[j - 1] # NoCall /\ j - 1 \notin S
    BY <1>2, <2>1 DEF CallOK, Admitted
  <2>3. j > 1 => calls'[j - 1] = calls[j - 1]
    BY <1>2, <2>2 DEF Admitted
  <2>4. Leads(j) => Leads(j)'
    BY <2>1 DEF Leads
  <2>5. Follows(j) => Follows(j)'
    BY <2>1, <2>3 DEF Follows, Leads
  <2> QED
    BY <1>1, <2>1, <2>2, <2>3, <2>4, <2>5 DEF CallOK
<1> QED
  BY <1>3, <1>4

(* The calls of group i are i and, in a batch, i + 1, and share a key.     *)
LEMMA GroupFacts ==
    ASSUME Core, CallsInv, NEW i \in CallIds, NEW j \in Group(i)
    PROVE  /\ j \in CallIds /\ calls[j] # NoCall
           /\ j = i \/ j = i + 1
           /\ i \in Group(i) /\ calls[j].key = calls[i].key
           /\ calls[i].st = "forwarded" => calls[j].st = "forwarded"
<1>1. j \in CallIds /\ calls[j] # NoCall /\ calls[j].group = i
  BY DEF Group
<1>2. j \in Nat /\ i \in Nat
  BY <1>1 DEF CallIds
<1>3. CASE Leads(j)
  BY <1>1, <1>3 DEF Leads
<1>4. CASE Follows(j)
  <2>1. i = j - 1 /\ calls[i] # NoCall /\ calls[i].group = i
    BY <1>1, <1>4 DEF Follows, Leads, CallsInv, CallOK
  <2> QED
    BY <1>1, <1>2, <1>4, <2>1 DEF Follows, Group
<1> QED
  BY <1>1, <1>3, <1>4 DEF CallsInv, CallOK

(* The first call of a batch is in a group if and only if the second is.   *)
LEMMA Inside ==
    ASSUME Core, CallsInv, NEW i \in CallIds, NEW j \in Group(i), Follows(j)
    PROVE  j - 1 = i /\ i \in Group(i) /\ calls[i] \in Call
<1>1. j - 1 = i /\ i \in Group(i)
  BY GroupFacts DEF Group, Follows
<1> QED
  BY <1>1 DEF Group, Core, TypeOK

(* A call outside a group follows no call of the group.                    *)
LEMMA Outside ==
    ASSUME CallsInv, NEW i \in CallIds, NEW j \in CallIds \ Group(i),
           calls[j] # NoCall, Follows(j)
    PROVE  j - 1 \in CallIds /\ j - 1 \notin Group(i)
<1>1. j - 1 \in CallIds
  BY GateAssumption DEF Follows, CallIds
<1>2. calls[j].group # i
  BY DEF Group
<1> QED
  BY <1>1, <1>2 DEF Follows, Leads, Group

(* Settling a group ends it whole.                                         *)
LEMMA SettleEnds ==
    ASSUME Core, CallsInv, NEW i \in CallIds, NEW bad \in SUBSET CallIds, Settle(i, bad)
    PROVE  Ended
<1>1. /\ Pending(i) /\ bad \subseteq Group(i)
      /\ calls' = [j \in CallIds |->
             IF j \in bad THEN Failed(rec[calls[i].key], j, bad)
             ELSE IF j \in Group(i) THEN [calls[j] EXCEPT !.st = "succeeded"]
             ELSE calls[j]]
      /\ day' = day /\ life' = life /\ day \in Nat /\ life \in Nat
  BY DEF Settle, Core, TypeOK
<1>2. \A j \in CallIds : calls[j] = NoCall => calls'[j] = NoCall
  BY <1>1 DEF Group
<1>3. ASSUME NEW j \in CallIds, calls[j] # NoCall
      PROVE  SameCall(j) /\ Together(j)
  <2>1. calls[j] \in Call
    BY <1>3 DEF Core, TypeOK
  <2>2. CASE j \in bad
    <3>1. calls'[j] = Failed(rec[calls[i].key], j, bad)
      BY <1>1, <2>2
    <3>2. SameCall(j)
      BY <2>1, <3>1 DEF SameCall, Failed, Call, NoCall
    <3>3. j \in Group(i)
      BY <1>1, <2>2
    <3>4. ~(Follows(j) /\ calls'[j - 1].st = "forwarded")
      <4> SUFFICES ASSUME Follows(j) PROVE calls'[j - 1].st # "forwarded"
        OBVIOUS
      <4>1. j - 1 = i /\ i \in Group(i) /\ calls[i] \in Call
        BY <3>3, Inside
      <4> QED
        BY <1>1, <4>1 DEF Failed, Call
    <3> QED
      BY <3>2, <3>4 DEF Together
  <2>3. CASE j \in Group(i) \ bad
    <3>1. calls'[j] = [calls[j] EXCEPT !.st = "succeeded"]
      BY <1>1, <2>3
    <3>2. calls[j].st = "forwarded"
      BY <1>1, <2>3, GroupFacts DEF Pending
    <3>3. SameCall(j)
      BY <2>1, <3>1, <3>2 DEF SameCall, Call, NoCall
    <3>4. ~(Follows(j) /\ calls'[j - 1].st = "forwarded")
      <4> SUFFICES ASSUME Follows(j) PROVE calls'[j - 1].st # "forwarded"
        OBVIOUS
      <4>1. j - 1 = i /\ i \in Group(i) /\ calls[i] \in Call
        BY <2>3, Inside
      <4> QED
        BY <1>1, <4>1 DEF Failed, Call
    <3> QED
      BY <3>3, <3>4 DEF Together
  <2>4. CASE j \notin Group(i)
    <3>1. calls'[j] = calls[j]
      BY <1>1, <2>4
    <3>2. Follows(j) => j - 1 \in CallIds /\ j - 1 \notin Group(i)
      BY <1>3, <2>4, Outside
    <3>3. Follows(j) => calls'[j - 1] = calls[j - 1]
      BY <1>1, <3>2
    <3> QED
      BY <1>3, <3>1, <3>3 DEF SameCall, Together, Follows
  <2> QED
    BY <2>2, <2>3, <2>4
<1> QED
  BY <1>1, <1>2, <1>3 DEF Ended

(* Losing a group ends it whole.                                           *)
LEMMA LoseEnds ==
    ASSUME Core, CallsInv, NEW i \in CallIds, Lose(i) PROVE Ended
<1>1. /\ Pending(i)
      /\ calls' = [j \in CallIds |->
             IF j \in Group(i) THEN [calls[j] EXCEPT !.st = "lost"] ELSE calls[j]]
      /\ day' = day /\ life' = life /\ day \in Nat /\ life \in Nat
  BY DEF Lose, Core, TypeOK
<1>2. \A j \in CallIds : calls[j] = NoCall => calls'[j] = NoCall
  BY <1>1 DEF Group
<1>3. ASSUME NEW j \in CallIds, calls[j] # NoCall
      PROVE  SameCall(j) /\ Together(j)
  <2>1. calls[j] \in Call
    BY <1>3 DEF Core, TypeOK
  <2>2. CASE j \in Group(i)
    <3>1. calls'[j] = [calls[j] EXCEPT !.st = "lost"]
      BY <1>1, <2>2
    <3>2. calls[j].st = "forwarded"
      BY <1>1, <2>2, GroupFacts DEF Pending
    <3>3. SameCall(j)
      BY <2>1, <3>1, <3>2 DEF SameCall, Call, NoCall
    <3>4. ~(Follows(j) /\ calls'[j - 1].st = "forwarded")
      <4> SUFFICES ASSUME Follows(j) PROVE calls'[j - 1].st # "forwarded"
        OBVIOUS
      <4>1. j - 1 = i /\ i \in Group(i) /\ calls[i] \in Call
        BY <2>2, Inside
      <4> QED
        BY <1>1, <4>1 DEF Call
    <3> QED
      BY <3>3, <3>4 DEF Together
  <2>3. CASE j \notin Group(i)
    <3>1. calls'[j] = calls[j]
      BY <1>1, <2>3
    <3>2. Follows(j) => j - 1 \in CallIds /\ j - 1 \notin Group(i)
      BY <1>3, <2>3, Outside
    <3>3. Follows(j) => calls'[j - 1] = calls[j - 1]
      BY <1>1, <3>2
    <3> QED
      BY <1>3, <3>1, <3>3 DEF SameCall, Together, Follows
  <2> QED
    BY <2>2, <2>3
<1> QED
  BY <1>1, <1>2, <1>3 DEF Ended

(* A restart loses every call in flight, and a step that admits and        *)
(* settles nothing changes no call.                                        *)
LEMMA RestartEnds == ASSUME Core, Restart PROVE Ended
<1>1. /\ calls' = [i \in CallIds |->
             IF calls[i] # NoCall /\ calls[i].st = "forwarded"
             THEN [calls[i] EXCEPT !.st = "lost"] ELSE calls[i]]
      /\ day' = day /\ life' = life + 1 /\ day \in Nat /\ life \in Nat
  BY DEF Restart, Core, TypeOK
<1>2. \A j \in CallIds : calls[j] = NoCall => calls'[j] = NoCall
  BY <1>1
<1>3. ASSUME NEW j \in CallIds, calls[j] # NoCall
      PROVE  SameCall(j) /\ Together(j)
  <2>1. calls[j] \in Call
    BY <1>3 DEF Core, TypeOK
  <2>2. SameCall(j)
    BY <1>1, <1>3, <2>1 DEF SameCall, Call, NoCall
  <2>3. ~(Follows(j) /\ calls'[j - 1].st = "forwarded")
    <3> SUFFICES ASSUME Follows(j) PROVE calls'[j - 1].st # "forwarded"
      OBVIOUS
    <3>1. j - 1 \in CallIds /\ calls[j - 1].key = calls[j].key
      BY GateAssumption DEF Follows, CallIds
    <3>2. calls[j - 1] \in Call \cup {NoCall}
      BY <3>1 DEF Core, TypeOK
    <3> QED
      BY <1>1, <3>1, <3>2 DEF Call, NoCall
  <2> QED
    BY <2>2, <2>3 DEF Together
<1> QED
  BY <1>1, <1>2, <1>3 DEF Ended

(* A step that leaves the calls alone ends none.                           *)
LEMMA QuietEnds ==
    ASSUME Core, calls' = calls, day' \in Nat, day' >= day, life' = life PROVE Ended
BY DEF Ended, SameCall, Together, Follows, Core, TypeOK

(* A call admitted, and a batch.                                           *)
LEMMA OneAdmitted ==
    ASSUME Core, NEW k \in Keys, NEW t \in Tools, NEW i \in CallIds, NEW c \in Nat,
           Fresh(i), calls' = [calls EXCEPT ![i] = Forward(k, t, i, c)],
           day' = day, life' = life
    PROVE  Admitted(k, {i}, i) /\ calls'[i] = Forward(k, t, i, c)
<1>1. calls'[i] = Forward(k, t, i, c) /\ calls'[i] # NoCall
  BY DEF Core, TypeOK, Forward, NoCall
<1>2. \A j \in CallIds \ {i} : calls'[j] = calls[j]
  BY DEF Core, TypeOK
<1> QED
  BY <1>1, <1>2 DEF Admitted, Forward, Fresh

(* A batch admits two calls, the second following the first.               *)
LEMMA PairAdmitted ==
    ASSUME Core, CallsInv, NEW k \in Keys, NEW t \in Tools, NEW u \in Tools,
           NEW i \in CallIds, NEW c \in Nat, NEW d \in Nat,
           Fresh(i), i < Calls, calls' = Pair(k, t, u, i, c, d),
           day' = day, life' = life
    PROVE  /\ Admitted(k, {i, i + 1}, i)
           /\ calls'[i] = Forward(k, t, i, c) /\ calls'[i + 1] = Forward(k, u, i, d)
<1>1. i + 1 \in CallIds /\ i + 1 # i /\ i + 1 > 1
  BY GateAssumption DEF CallIds
<1>2. calls'[i] = Forward(k, t, i, c) /\ calls'[i + 1] = Forward(k, u, i, d)
  BY <1>1 DEF Core, TypeOK, Pair
<1>3. calls'[i] # NoCall /\ calls'[i + 1] # NoCall
  BY <1>2 DEF Forward, NoCall
<1>4. \A j \in CallIds \ {i, i + 1} : calls'[j] = calls[j]
  BY <1>1 DEF Core, TypeOK, Pair
<1>5. calls[i + 1] = NoCall
  <2>1. (i + 1) - 1 = i
    BY DEF CallIds
  <2> QED
    BY <1>1, <2>1 DEF CallsInv, CallOK, Fresh
<1> QED
  BY <1>1, <1>2, <1>3, <1>4, <1>5 DEF Admitted, Forward, Fresh

-----------------------------------------------------------------------------
(* The inductive invariant.  A refund never runs into the clamp at zero    *)
(* because the calls a key was charged for and not refunded cost no more   *)
(* than its totalSpent.                                                    *)

(* The calls of key k that were not refunded.                              *)
Owed(k) == {i \in Made(k) : calls[i].st # "failed"}

Owned == \A i \in CallIds : calls[i] # NoCall => calls[i].key \in known

Backed == \A k \in Keys : Charged(Owed(k)) <= rec[k].totalSpent

BillsInv ==
    /\ shadow.on => shadow.ever
    /\ ~shadow.ever => SpentIsNet /\ ToldIsCharged /\ Owned /\ Backed

BInv == IInv /\ CallsInv /\ BillsInv

(* The bills of a key's calls are numbers.                                 *)
LEMMA MadePriced ==
    ASSUME Core, NEW k PROVE Priced(calls, Made(k)) /\ Owed(k) \subseteq Made(k)
BY DEF Priced, Made, Owed, Core, TypeOK, Call

(* The same of the next state.                                             *)
LEMMA MadePricedNext ==
    ASSUME Core', NEW k
    PROVE  Priced(calls', Made(k)') /\ Owed(k)' \subseteq Made(k)'
BY DEF Priced, Made, Owed, Core, TypeOK, Call

(* The money of every key, in numbers.                                     *)
LEMMA MoneyTypes ==
    ASSUME Core, NEW k \in Keys
    PROVE  /\ rec[k].totalSpent \in Nat /\ ledger[k].charged \in Nat
           /\ ledger[k].refunded \in Nat
BY FieldTypes DEF Core, TypeOK, LedgerEntry

(* The same of the next state.                                             *)
LEMMA MoneyTypesNext ==
    ASSUME Core', NEW k \in Keys
    PROVE  /\ rec'[k].totalSpent \in Nat /\ ledger'[k].charged \in Nat
           /\ ledger'[k].refunded \in Nat
BY FieldTypes DEF Core, TypeOK, LedgerEntry

(* At first nothing was charged.                                           *)
LEMMA InitBills == Init => BInv
<1> SUFFICES ASSUME Init PROVE BInv
  OBVIOUS
<1>1. IInv /\ CallsInv
  BY InitInv, InitCalls
<1>2. \A k \in Keys : Made(k) = {} /\ Owed(k) = {}
  BY DEF Init, Made, Owed
<1>3. Charged({}) = 0
  BY ChargedIsBill, BillNone
<1>4. \A k \in Keys : rec[k].totalSpent = 0 /\ ledger[k] = BlankLedger
  BY FreshTypes DEF Init, UnusedKey, NewKey
<1>5. SpentIsNet
  BY <1>4 DEF SpentIsNet, BlankLedger
<1>6. ToldIsCharged /\ Backed
  <2> SUFFICES ASSUME NEW k \in Keys
               PROVE  /\ Charged(Made(k)) <= ledger[k].charged
                      /\ Charged(Owed(k)) <= rec[k].totalSpent
    BY DEF ToldIsCharged, Backed
  <2>1. Charged(Made(k)) = 0 /\ Charged(Owed(k)) = 0
    BY <1>2, <1>3
  <2>2. ledger[k].charged = 0 /\ rec[k].totalSpent = 0
    BY <1>4 DEF BlankLedger
  <2> QED
    BY <2>1, <2>2
<1> QED
  BY <1>1, <1>5, <1>6 DEF BInv, BillsInv, Init, Owned

(* A key whose calls only end, and whose totalSpent and charges grow       *)
(* together, stays in balance.                                             *)
LEMMA EndedMade ==
    ASSUME Core, Core', Ended, NEW k \in Keys
    PROVE  /\ Charged(Made(k))' = Charged(Made(k))
           /\ Owed(k)' \subseteq Owed(k)
           /\ Charged(Owed(k))' <= Charged(Owed(k))
           /\ Charged(Owed(k)) \in Nat /\ Charged(Owed(k))' \in Nat
<1>1. /\ Made(k)' = Made(k) /\ Owed(k)' \subseteq Owed(k)
      /\ \A i \in Made(k) : calls'[i].charged = calls[i].charged
  BY DEF Ended, SameCall, Made, Owed
<1>2. Charged(Made(k))' = Bill(calls', Made(k)')
  BY DEF Charged, Bill, Units, UnitsIn
<1>3. Charged(Owed(k))' = Bill(calls', Owed(k)')
  BY DEF Charged, Bill, Units, UnitsIn
<1>4. Bill(calls', Made(k)) = Bill(calls, Made(k))
  BY <1>1, BillSame
<1>5. Bill(calls', Owed(k)') = Bill(calls, Owed(k)')
  BY <1>1, BillSame, MadePriced
<1>6. Bill(calls, Owed(k)') <= Bill(calls, Owed(k))
  BY <1>1, MadePriced, BillSubset DEF Priced
<1>7. Bill(calls, Owed(k)') \in Nat /\ Bill(calls, Owed(k)) \in Nat
  BY <1>1, MadePriced, UnitsFinite DEF Priced
<1> QED
  BY <1>1, <1>2, <1>3, <1>4, <1>5, <1>6, <1>7, ChargedIsBill

(* A step that ends calls and deducts as much as totalSpent says.          *)
LEMMA EndedBills ==
    ASSUME BInv, IInv', Ended,
           shadow'.on => shadow'.ever, shadow.ever => shadow'.ever,
           known \subseteq known',
           ~shadow'.ever => \A k \in Keys : \E d \in Nat :
               /\ rec'[k].totalSpent = rec[k].totalSpent + d
               /\ ledger'[k].charged = ledger[k].charged + d
               /\ ledger'[k].refunded = ledger[k].refunded
    PROVE  BInv'
<1>1. CallsInv'
  BY EndedCalls DEF BInv, IInv
<1>2. ASSUME ~shadow'.ever PROVE SpentIsNet' /\ ToldIsCharged' /\ Owned' /\ Backed'
  <2>1. SpentIsNet /\ ToldIsCharged /\ Owned /\ Backed
    BY <1>2 DEF BInv, BillsInv
  <2>2. ASSUME NEW k \in Keys
        PROVE  /\ rec'[k].totalSpent = ledger'[k].charged - ledger'[k].refunded
               /\ Charged(Made(k))' <= ledger'[k].charged
               /\ Charged(Owed(k))' <= rec'[k].totalSpent
    <3>1. PICK d \in Nat : /\ rec'[k].totalSpent = rec[k].totalSpent + d
                           /\ ledger'[k].charged = ledger[k].charged + d
                           /\ ledger'[k].refunded = ledger[k].refunded
      BY <1>2
    <3>2. /\ rec[k].totalSpent \in Nat /\ ledger[k].charged \in Nat
          /\ ledger[k].refunded \in Nat
      BY MoneyTypes DEF BInv, IInv
    <3>3. rec[k].totalSpent = ledger[k].charged - ledger[k].refunded
      BY <2>1 DEF SpentIsNet
    <3>4. Charged(Made(k)) <= ledger[k].charged /\ Charged(Owed(k)) <= rec[k].totalSpent
      BY <2>1 DEF ToldIsCharged, Backed
    <3>5. /\ Charged(Made(k))' = Charged(Made(k))
          /\ Charged(Owed(k))' <= Charged(Owed(k))
          /\ Charged(Owed(k)) \in Nat /\ Charged(Owed(k))' \in Nat
      BY EndedMade DEF BInv, IInv
    <3>6. Charged(Made(k)) \in Nat
      BY MadePriced, UnitsFinite, ChargedIsBill DEF BInv, IInv
    <3> QED
      BY <3>1, <3>2, <3>3, <3>4, <3>5, <3>6
  <2>3. Owned'
    BY <2>1 DEF Owned, Ended, SameCall
  <2> QED
    BY <2>2, <2>3 DEF SpentIsNet, ToldIsCharged, Backed
<1> QED
  BY <1>1, <1>2 DEF BInv, BillsInv

(* A call or a batch that is charged what its callers are told.            *)
Sold(k, S, c) ==
    /\ k \in known /\ known' = known
    /\ Bill(calls', S) = c
    /\ rec'[k].totalSpent = rec[k].totalSpent + c
    /\ ledger'[k].charged = ledger[k].charged + c
    /\ ledger'[k].refunded = ledger[k].refunded
    /\ \A x \in Keys \ {k} : Unmoved(x)

(* An admission whose calls were deducted for.                             *)
LEMMA AdmittedBills ==
    ASSUME BInv, IInv', NEW k \in Keys, NEW S, NEW i \in CallIds, Admitted(k, S, i),
           shadow' = shadow, NEW c \in Nat, ~shadow.ever => Sold(k, S, c)
    PROVE  BInv'
<1>1. CallsInv'
  BY AdmittedCalls DEF BInv, IInv
<1>2. ASSUME ~shadow.ever PROVE SpentIsNet' /\ ToldIsCharged' /\ Owned' /\ Backed'
  <2>1. SpentIsNet /\ ToldIsCharged /\ Owned /\ Backed /\ Sold(k, S, c)
    BY <1>2 DEF BInv, BillsInv
  <2>2. \A j \in CallIds : /\ j \in S => calls'[j].key = k /\ calls'[j] # NoCall
                           /\ j \notin S => calls'[j] = calls[j]
    BY DEF Admitted
  <2>3. \A x \in Keys \ {k} : Made(x)' = Made(x) /\ Owed(x)' = Owed(x)
    <3> TAKE x \in Keys \ {k}
    <3>1. \A j \in S : calls[j] = NoCall
      BY DEF Admitted
    <3> QED
      BY <2>2, <3>1 DEF Made, Owed
  <2>4. /\ Made(k)' = Made(k) \cup S /\ Made(k) \cap S = {}
        /\ Owed(k)' = Owed(k) \cup S /\ Owed(k) \cap S = {}
    <3>1. \A j \in S : calls[j] = NoCall /\ calls'[j].st = "forwarded" /\ j \in CallIds
      BY DEF Admitted
    <3> QED
      BY <2>2, <3>1 DEF Made, Owed
  <2>5. \A T \in SUBSET CallIds : T \cap S = {} =>
          /\ Bill(calls', T) = Bill(calls, T)
          /\ \A j \in T : calls'[j] = calls[j]
    <3> TAKE T \in SUBSET CallIds
    <3>1. T \cap S = {} => \A j \in T : calls'[j] = calls[j]
      BY <2>2
    <3> QED
      BY <3>1, BillSame
  <2>6. /\ Priced(calls', S)
        /\ Priced(calls, Made(k)) /\ Priced(calls, Owed(k))
    BY MadePriced DEF BInv, IInv, Admitted, Priced
  <2>7. Priced(calls', Made(k)) /\ Priced(calls', Owed(k))
    BY <2>4, <2>5, <2>6 DEF Priced
  <2>8. /\ Charged(Made(k))' = Bill(calls', Made(k) \cup S)
        /\ Charged(Owed(k))' = Bill(calls', Owed(k) \cup S)
    BY <2>4 DEF Charged, Bill, Units, UnitsIn
  <2>9. /\ Bill(calls', Made(k) \cup S) = Bill(calls', Made(k)) + c
        /\ Bill(calls', Owed(k) \cup S) = Bill(calls', Owed(k)) + c
        /\ Bill(calls', Made(k)) \in Nat /\ Bill(calls', Owed(k)) \in Nat
    BY <2>1, <2>4, <2>6, <2>7, BillUnion DEF Sold
  <2>10. /\ Bill(calls', Made(k)) = Charged(Made(k))
         /\ Bill(calls', Owed(k)) = Charged(Owed(k))
    BY <2>4, <2>5, <2>6, ChargedIsBill DEF Priced
  <2>11. /\ rec'[k].totalSpent = ledger'[k].charged - ledger'[k].refunded
         /\ Charged(Made(k))' <= ledger'[k].charged
         /\ Charged(Owed(k))' <= rec'[k].totalSpent
    <3>1. rec[k].totalSpent = ledger[k].charged - ledger[k].refunded
      BY <2>1 DEF SpentIsNet
    <3>2. Charged(Made(k)) <= ledger[k].charged /\ Charged(Owed(k)) <= rec[k].totalSpent
      BY <2>1 DEF ToldIsCharged, Backed
    <3>3. /\ rec[k].totalSpent \in Nat /\ ledger[k].charged \in Nat
          /\ ledger[k].refunded \in Nat
      BY MoneyTypes DEF BInv, IInv
    <3>4. /\ rec'[k].totalSpent = rec[k].totalSpent + c
          /\ ledger'[k].charged = ledger[k].charged + c
          /\ ledger'[k].refunded = ledger[k].refunded
      BY <2>1 DEF Sold
    <3> QED
      BY <2>8, <2>9, <2>10, <3>1, <3>2, <3>3, <3>4
  <2>12. ASSUME NEW x \in Keys \ {k}
         PROVE  /\ rec'[x].totalSpent = ledger'[x].charged - ledger'[x].refunded
                /\ Charged(Made(x))' <= ledger'[x].charged
                /\ Charged(Owed(x))' <= rec'[x].totalSpent
    <3>1. Made(x) \cap S = {} /\ Owed(x) \cap S = {} /\ Made(x) \subseteq CallIds
          /\ Owed(x) \subseteq CallIds
      BY DEF Admitted, Made, Owed
    <3>2. /\ Charged(Made(x))' = Bill(calls', Made(x))
          /\ Charged(Owed(x))' = Bill(calls', Owed(x))
      BY <2>3 DEF Charged, Bill, Units, UnitsIn
    <3>3. /\ Charged(Made(x))' = Charged(Made(x))
          /\ Charged(Owed(x))' = Charged(Owed(x))
      BY <2>5, <3>1, <3>2, ChargedIsBill
    <3>4. Unmoved(x)
      BY <2>1 DEF Sold
    <3> QED
      BY <2>1, <3>3, <3>4 DEF SpentIsNet, ToldIsCharged, Backed, Unmoved
  <2>13. Owned'
    BY <2>1, <2>2 DEF Owned, Sold
  <2>14. SpentIsNet'
    BY <2>11, <2>12 DEF SpentIsNet
  <2>15. ToldIsCharged' /\ Backed'
    BY <2>11, <2>12 DEF ToldIsCharged, Backed
  <2> QED
    BY <2>13, <2>14, <2>15
<1> QED
  BY <1>1, <1>2 DEF BInv, BillsInv

(* What a settlement gives back is billed to calls that fail in it, and is *)
(* taken off totalSpent and entered in the ledger alike.                   *)
Back(i, bad) ==
    Given(rec[calls[i].key], i, bad)
      + IF i + 1 \in Group(i) THEN Given(rec[calls[i].key], i + 1, bad) ELSE 0

(* A refund gives back no more than the failed calls cost.                 *)
LEMMA BackBilled ==
    ASSUME Core, CallsInv, NEW i \in CallIds, NEW bad \in SUBSET CallIds,
           Pending(i), bad \subseteq Group(i)
    PROVE  /\ bad \subseteq Owed(calls[i].key) /\ Priced(calls, bad)
           /\ Back(i, bad) \in Nat /\ Back(i, bad) <= Bill(calls, bad)
           /\ Given(rec[calls[i].key], i, bad) \in Nat
           /\ i + 1 \in Group(i) => Given(rec[calls[i].key], i + 1, bad) \in Nat
<1> DEFINE k == calls[i].key
           one == bad \cap {i}
           two == bad \cap {i + 1}
           g1 == Given(rec[k], i, bad)
           g2 == IF i + 1 \in Group(i) THEN Given(rec[k], i + 1, bad) ELSE 0
<1>1. i \in Group(i) /\ calls[i].st = "forwarded" /\ Group(i) \subseteq CallIds
  BY GroupFacts DEF Pending, Group
<1>2. \A j \in Group(i) : /\ j \in CallIds /\ calls[j] # NoCall /\ calls[j].charged \in Nat
                          /\ calls[j].key = k /\ calls[j].st = "forwarded"
                          /\ j \in {i, i + 1}
  BY <1>1, GroupFacts, CallFacts
<1>3. bad \subseteq Owed(k) /\ Priced(calls, bad)
  BY <1>2 DEF Owed, Made, Priced
<1>4. bad = one \cup two /\ one \cap two = {} /\ Priced(calls, one) /\ Priced(calls, two)
  <2>1. i + 1 # i
    BY DEF CallIds
  <2> QED
    BY <1>2, <1>3, <2>1 DEF Priced
<1>5. g1 \in Nat /\ g1 <= Bill(calls, one)
  <2>1. CASE i \in bad
    <3>1. one = {i} /\ calls[i].charged \in Nat
      BY <1>1, <1>2, <2>1
    <3>2. Bill(calls, one) = calls[i].charged
      BY <3>1, BillOne
    <3> QED
      BY <3>1, <3>2 DEF Given
  <2>2. CASE i \notin bad
    <3>1. Bill(calls, one) \in Nat
      BY <1>4, UnitsFinite
    <3> QED
      BY <2>2, <3>1 DEF Given, Refundable
  <2> QED
    BY <2>1, <2>2
<1>6. g2 \in Nat /\ g2 <= Bill(calls, two)
  <2>1. CASE i + 1 \in bad
    <3>1. two = {i + 1} /\ calls[i + 1].charged \in Nat
      BY <1>1, <1>2, <2>1
    <3>2. Bill(calls, two) = calls[i + 1].charged
      BY <3>1, BillOne
    <3> QED
      BY <3>1, <3>2 DEF Given
  <2>2. CASE i + 1 \notin bad
    <3>1. Bill(calls, two) \in Nat
      BY <1>4, UnitsFinite
    <3> QED
      BY <2>2, <3>1 DEF Given, Refundable
  <2> QED
    BY <2>1, <2>2
<1>7. /\ Bill(calls, bad) = Bill(calls, one) + Bill(calls, two)
      /\ Bill(calls, one) \in Nat /\ Bill(calls, two) \in Nat
  BY <1>4, BillUnion
<1>8. Back(i, bad) = g1 + g2
  BY DEF Back
<1>9. g1 = Given(rec[k], i, bad) /\ (i + 1 \in Group(i) => g2 = Given(rec[k], i + 1, bad))
  OBVIOUS
<1> HIDE DEF one, two, g1, g2
<1>10. Back(i, bad) \in Nat /\ Back(i, bad) <= Bill(calls, bad)
  BY <1>5, <1>6, <1>7, <1>8
<1> QED
  BY <1>3, <1>5, <1>6, <1>9, <1>10

(* A settlement moves totalSpent and the ledger alike.                     *)
LEMMA SettleMoney ==
    ASSUME Core, CallsInv, NEW i \in CallIds, NEW bad \in SUBSET CallIds, Settle(i, bad),
           rec[calls[i].key].totalSpent >= Back(i, bad)
    PROVE  /\ calls[i].key \in Keys
           /\ rec'[calls[i].key].totalSpent = rec[calls[i].key].totalSpent - Back(i, bad)
           /\ ledger'[calls[i].key].refunded = ledger[calls[i].key].refunded + Back(i, bad)
           /\ ledger'[calls[i].key].charged = ledger[calls[i].key].charged
           /\ \A x \in Keys \ {calls[i].key} : Unmoved(x)
<1> DEFINE k == calls[i].key
           g1 == Given(rec[k], i, bad)
           pair == i + 1 \in Group(i)
           g2 == IF pair THEN Given(rec[k], i + 1, bad) ELSE 0
           first == RefundCall(rec[k], i, bad)
           after == IF pair THEN RefundCall(first, i + 1, bad) ELSE first
<1>1. Pending(i) /\ bad \subseteq Group(i)
  BY DEF Settle
<1>2. /\ i \in Group(i) /\ calls[i] # NoCall /\ k \in Keys
      /\ g1 \in Nat /\ g2 \in Nat /\ Back(i, bad) = g1 + g2
  <2>1. i \in Group(i) /\ calls[i] # NoCall
    BY <1>1, GroupFacts DEF Pending, Group
  <2>2. k \in Keys
    BY <2>1, CallFacts
  <2>3. g1 \in Nat /\ (pair => Given(rec[k], i + 1, bad) \in Nat)
    BY <1>1, BackBilled
  <2>4. g2 \in Nat
    BY <2>3
  <2> QED
    BY <2>1, <2>2, <2>3, <2>4 DEF Back
<1>3. rec[k] \in KeyRecord /\ rec[k].totalSpent \in Nat /\ ledger[k] \in LedgerEntry
      /\ ledger[k].refunded \in Nat
  BY <1>2, FieldTypes DEF Core, TypeOK, LedgerEntry
<1>4. /\ first \in KeyRecord /\ Usable(first, now) = Usable(rec[k], now)
      /\ first.totalSpent = rec[k].totalSpent - g1
  <2>1. rec[k].totalSpent >= g1
    BY <1>2, <1>3
  <2> QED
    BY <1>2, <1>3, <2>1, RefundCallFacts, RefundCallExact
<1> HIDE DEF first
<1>5. after.totalSpent = rec[k].totalSpent - (g1 + g2)
  <2>1. CASE pair
    <3>1. i + 1 \in CallIds /\ calls[i + 1] # NoCall /\ g2 = Given(rec[k], i + 1, bad)
      BY <2>1 DEF Group
    <3>2. first.totalSpent >= Given(rec[k], i + 1, bad)
      BY <1>2, <1>3, <1>4, <3>1
    <3>3. RefundCall(first, i + 1, bad).totalSpent
            = first.totalSpent - Given(rec[k], i + 1, bad)
      BY <1>4, <3>1, <3>2, RefundCallExact
    <3>4. after.totalSpent = first.totalSpent - g2
      BY <2>1, <3>1, <3>3
    <3> HIDE DEF after, g1, g2
    <3> QED
      BY <1>2, <1>3, <1>4, <3>4
  <2>2. CASE ~pair
    <3>1. g2 = 0 /\ after = first
      BY <2>2
    <3> QED
      BY <1>2, <1>3, <1>4, <3>1
  <2> QED
    BY <2>1, <2>2
<1>6. /\ rec' = [rec EXCEPT ![k] = after]
      /\ ledger' = [ledger EXCEPT ![k].refunded = @ + g1 + g2]
      /\ rec \in [Keys -> KeyRecord] /\ ledger \in [Keys -> LedgerEntry]
  BY DEF Settle, first, Core, TypeOK
<1> HIDE DEF g1, g2, after
<1>7. /\ rec'[k] = after /\ ledger'[k] = [ledger[k] EXCEPT !.refunded = @ + g1 + g2]
      /\ \A x \in Keys \ {k} : rec'[x] = rec[x] /\ ledger'[x] = ledger[x]
  BY <1>2, <1>6
<1>8. ledger'[k].refunded = ledger[k].refunded + g1 + g2
      /\ ledger'[k].charged = ledger[k].charged
  BY <1>3, <1>7 DEF LedgerEntry
<1> QED
  BY <1>2, <1>3, <1>5, <1>7, <1>8 DEF Unmoved

(* Settlement keeps the books: what is refunded was still owed.            *)
LEMMA SettleBills ==
    ASSUME BInv, IInv', NEW i \in CallIds, NEW bad \in SUBSET CallIds, Settle(i, bad),
           NEW k \in Keys, k = calls[i].key
    PROVE  BInv'
<1>1. Ended /\ CallsInv'
  BY SettleEnds, EndedCalls DEF BInv, IInv
<1>2. shadow' = shadow /\ known' = known /\ Pending(i) /\ bad \subseteq Group(i)
  BY DEF Settle
<1>3. ASSUME ~shadow.ever PROVE SpentIsNet' /\ ToldIsCharged' /\ Owned' /\ Backed'
  <2>1. SpentIsNet /\ ToldIsCharged /\ Owned /\ Backed
    BY <1>3 DEF BInv, BillsInv
  <2>2. /\ bad \subseteq Owed(k) /\ Priced(calls, bad)
        /\ Back(i, bad) \in Nat /\ Back(i, bad) <= Bill(calls, bad)
    BY <1>2, BackBilled DEF BInv, IInv
  <2>3. /\ Bill(calls, Owed(k) \ bad) + Bill(calls, bad) = Charged(Owed(k))
        /\ Bill(calls, Owed(k) \ bad) \in Nat /\ Bill(calls, bad) \in Nat
        /\ Charged(Owed(k)) \in Nat
    <3>1. Priced(calls, Owed(k))
      BY MadePriced DEF Priced, BInv, IInv
    <3> QED
      BY <2>2, <3>1, BillSubset, ChargedIsBill
  <2>4. Charged(Owed(k)) <= rec[k].totalSpent /\ rec[k].totalSpent \in Nat
    BY <2>1, MoneyTypes DEF Backed, BInv, IInv
  <2>5. rec[k].totalSpent >= Back(i, bad)
    BY <2>2, <2>3, <2>4
  <2>6. /\ rec'[k].totalSpent = rec[k].totalSpent - Back(i, bad)
        /\ ledger'[k].refunded = ledger[k].refunded + Back(i, bad)
        /\ ledger'[k].charged = ledger[k].charged
        /\ \A x \in Keys \ {k} : Unmoved(x)
    BY <2>5, SettleMoney DEF BInv, IInv
  <2>7. Charged(Owed(k))' <= Bill(calls, Owed(k) \ bad) /\ Charged(Owed(k))' \in Nat
    <3>1. Owed(k)' \subseteq Owed(k) \ bad
      <4>1. \A j \in bad : calls'[j].st = "failed"
        <5>1. \A j \in bad : calls'[j] = Failed(rec[k], j, bad) /\ calls[j] \in Call
          BY <1>2 DEF Settle, Group, BInv, IInv, Core, TypeOK
        <5> QED
          BY <5>1 DEF Failed, Call
      <4>2. Owed(k)' \subseteq Owed(k)
        BY <1>1, EndedMade DEF BInv, IInv
      <4> QED
        BY <4>1, <4>2 DEF Owed
    <3>2. \A j \in Owed(k)' : calls'[j].charged = calls[j].charged
      BY <1>1, <3>1 DEF Ended, SameCall, Owed, Made
    <3>3. Charged(Owed(k))' = Bill(calls', Owed(k)')
      BY DEF Charged, Bill, Units, UnitsIn
    <3>4. Bill(calls', Owed(k)') = Bill(calls, Owed(k)')
      BY <3>2, BillSame
    <3>5. Priced(calls, Owed(k) \ bad)
      BY MadePriced DEF Priced, BInv, IInv
    <3> DEFINE before == Owed(k) \ bad
               after == Owed(k)'
    <3> HIDE DEF before, after
    <3>6. Bill(calls, after) <= Bill(calls, before) /\ Bill(calls, after) \in Nat
      <4>1. Priced(calls, before) /\ after \subseteq before
        BY <3>1, <3>5 DEF before, after
      <4> QED
        BY <4>1, BillSubset
    <3> QED
      BY <3>3, <3>4, <3>6 DEF before, after
  <2>8. ASSUME NEW x \in Keys
        PROVE  /\ rec'[x].totalSpent = ledger'[x].charged - ledger'[x].refunded
               /\ Charged(Made(x))' <= ledger'[x].charged
               /\ Charged(Owed(x))' <= rec'[x].totalSpent
    <3>1. rec[x].totalSpent = ledger[x].charged - ledger[x].refunded
      BY <2>1 DEF SpentIsNet
    <3>2. Charged(Made(x)) <= ledger[x].charged /\ Charged(Owed(x)) <= rec[x].totalSpent
      BY <2>1 DEF ToldIsCharged, Backed
    <3>3. /\ Charged(Made(x))' = Charged(Made(x))
          /\ Charged(Owed(x))' <= Charged(Owed(x))
          /\ Charged(Owed(x)) \in Nat /\ Charged(Owed(x))' \in Nat
      BY <1>1, EndedMade DEF BInv, IInv
    <3>4. /\ rec[x].totalSpent \in Nat /\ ledger[x].charged \in Nat
          /\ ledger[x].refunded \in Nat
      BY MoneyTypes DEF BInv, IInv
    <3>5. CASE x # k
      BY <2>6, <3>1, <3>2, <3>3, <3>4, <3>5 DEF Unmoved
    <3>6. CASE x = k
      <4>1. rec'[x].totalSpent = ledger'[x].charged - ledger'[x].refunded
        BY <2>2, <2>6, <3>1, <3>4, <3>6
      <4>2. Charged(Made(x))' <= ledger'[x].charged
        BY <2>6, <3>2, <3>3, <3>6
      <4>3. Charged(Owed(x))' <= rec'[x].totalSpent
        BY <2>2, <2>3, <2>4, <2>6, <2>7, <3>4, <3>6
      <4> QED
        BY <4>1, <4>2, <4>3
    <3> QED
      BY <3>5, <3>6
  <2>9. Owned'
    BY <1>1, <1>2, <2>1 DEF Owned, Ended, SameCall
  <2> QED
    BY <2>8, <2>9 DEF SpentIsNet, ToldIsCharged, Backed
<1> QED
  BY <1>1, <1>2, <1>3 DEF BInv, BillsInv

(* A rotation carries totals and ledger to a key string no call was made   *)
(* with.                                                                   *)
LEMMA RotateBills ==
    ASSUME BInv, IInv', NEW old \in Keys, NEW new \in Keys, Rotate(old, new)
    PROVE  BInv'
<1>1. /\ old \in known /\ new \notin known /\ known' = known \cup {new}
      /\ calls' = calls /\ shadow' = shadow /\ day' = day /\ life' = life /\ day \in Nat
  BY DEF Rotate, Rest, BInv, IInv, Core, TypeOK
<1>2. Ended
  BY <1>1, QuietEnds DEF BInv, IInv
<1>3. CallsInv'
  BY <1>2, EndedCalls DEF BInv, IInv
<1>4. /\ rec'[new].totalSpent = rec[old].totalSpent
      /\ rec'[old].totalSpent = rec[old].totalSpent
      /\ ledger'[new] = ledger[old] /\ ledger'[old] = ledger[old]
      /\ \A x \in Keys \ {old, new} : Unmoved(x)
  <2>1. rec \in [Keys -> KeyRecord] /\ ledger \in [Keys -> LedgerEntry]
    BY DEF BInv, IInv, Core, TypeOK
  <2>2. [rec[old] EXCEPT !.active = FALSE].totalSpent = rec[old].totalSpent
    BY <2>1 DEF KeyRecord
  <2> DEFINE gone == [rec[old] EXCEPT !.active = FALSE]
  <2> HIDE DEF gone
  <2>3. rec' = [rec EXCEPT ![new] = rec[old], ![old] = gone]
        /\ ledger' = [ledger EXCEPT ![new] = ledger[old]] /\ old # new
    BY <1>1 DEF Rotate, gone
  <2>4. /\ rec'[new] = rec[old] /\ rec'[old] = gone
        /\ ledger'[new] = ledger[old] /\ ledger'[old] = ledger[old]
        /\ \A x \in Keys \ {old, new} : rec'[x] = rec[x] /\ ledger'[x] = ledger[x]
    BY <2>1, <2>3
  <2> QED
    BY <2>2, <2>4 DEF gone, Unmoved
<1>5. ASSUME ~shadow.ever PROVE SpentIsNet' /\ ToldIsCharged' /\ Owned' /\ Backed'
  <2>1. SpentIsNet /\ ToldIsCharged /\ Owned /\ Backed
    BY <1>5 DEF BInv, BillsInv
  <2>2. SpentIsNet'
    <3> SUFFICES ASSUME NEW x \in Keys
                 PROVE  rec'[x].totalSpent = ledger'[x].charged - ledger'[x].refunded
      BY DEF SpentIsNet
    <3>1. CASE x = new
      BY <1>4, <2>1, <3>1 DEF SpentIsNet
    <3>2. CASE x # new
      BY <1>4, <2>1, <3>2 DEF SpentIsNet, Unmoved
    <3> QED
      BY <3>1, <3>2
  <2>3. ToldIsCharged' /\ Backed'
    <3> SUFFICES ASSUME NEW x \in Keys
                 PROVE  /\ Charged(Made(x))' <= ledger'[x].charged
                        /\ Charged(Owed(x))' <= rec'[x].totalSpent
      BY DEF ToldIsCharged, Backed
    <3>1. Charged(Made(x))' = Charged(Made(x)) /\ Charged(Owed(x))' = Charged(Owed(x))
      BY <1>1 DEF Charged, Units, Made, Owed
    <3>2. CASE x = new
      <4>1. Made(x) = {} /\ Owed(x) = {}
        BY <1>1, <2>1, <3>2 DEF Made, Owed, Owned
      <4>2. Charged(Made(x))' = 0 /\ Charged(Owed(x))' = 0
        BY <3>1, <4>1, ChargedIsBill, BillNone
      <4>3. ledger'[x].charged \in Nat /\ rec'[x].totalSpent \in Nat
        BY MoneyTypesNext DEF BInv, IInv
      <4> QED
        BY <4>2, <4>3
    <3>3. CASE x # new
      BY <1>4, <2>1, <3>1, <3>3 DEF ToldIsCharged, Backed, Unmoved
    <3> QED
      BY <3>2, <3>3
  <2>4. Owned'
    BY <1>1, <2>1 DEF Owned
  <2> QED
    BY <2>2, <2>3, <2>4
<1> QED
  BY <1>1, <1>3, <1>5 DEF BInv, BillsInv

-----------------------------------------------------------------------------
(* Every step keeps the invariant. *)

(* A step that calls nothing and moves no totals.                          *)
LEMMA QuietBills ==
    ASSUME BInv, IInv', calls' = calls, day' \in Nat, day' >= day, life' = life,
           shadow'.on => shadow'.ever, shadow.ever => shadow'.ever, known \subseteq known',
           ~shadow'.ever => \A k \in Keys :
               /\ rec'[k].totalSpent = rec[k].totalSpent
               /\ ledger'[k].charged = ledger[k].charged
               /\ ledger'[k].refunded = ledger[k].refunded
    PROVE  BInv'
<1>1. Ended
  BY QuietEnds DEF BInv, IInv
<1>2. ~shadow'.ever => \A k \in Keys :
          /\ rec'[k].totalSpent = rec[k].totalSpent + 0
          /\ ledger'[k].charged = ledger[k].charged + 0
          /\ ledger'[k].refunded = ledger[k].refunded
  BY MoneyTypes DEF BInv, IInv
<1> QED
  BY <1>1, <1>2, EndedBills

(* What an admission that passed the checks takes is what it costs.        *)
LEMMA PassesPays ==
    ASSUME Core, NEW k \in Keys, NEW need, NEW n, NEW c \in Nat, NEW o, Passes(k, need, n, c, o)
    PROVE  Taken(k, c) = c /\ k \in known
BY DEF Passes, ReachesQuota, Live, Taken

(* A batch is billed the prices of its two calls.                          *)
LEMMA PairBilled ==
    ASSUME NEW f, NEW i \in CallIds, i + 1 \in CallIds,
           f[i].charged \in Nat, f[i + 1].charged \in Nat
    PROVE  Bill(f, {i, i + 1}) = f[i].charged + f[i + 1].charged
<1>1. i + 1 # i
  BY DEF CallIds
<1>2. Priced(f, {i}) /\ Priced(f, {i + 1}) /\ {i} \cap {i + 1} = {}
  BY <1>1 DEF Priced
<1>3. Bill(f, {i} \cup {i + 1}) = Bill(f, {i}) + Bill(f, {i + 1})
  BY <1>2, BillUnion
<1>4. {i} \cup {i + 1} = {i, i + 1}
  OBVIOUS
<1> QED
  BY <1>3, <1>4, BillOne

(* A call admitted on its own keeps the books.                             *)
LEMMA EvaluateBills ==
    ASSUME BInv, IInv', NEW k \in Keys, NEW t \in Tools, NEW o \in Origins, Evaluate(k, t, o)
    PROVE  BInv'
<1> DEFINE c == Price[t]
<1>1. c \in Nat /\ One(t) \in [Tools -> Nat]
  BY GateAssumption DEF One
<1>2. PICK i \in CallIds : /\ Fresh(i) /\ Charge(k, i, One(t), 1, c)
                           /\ calls' = [calls EXCEPT ![i] = Forward(k, t, i, c)]
  BY DEF Evaluate
<1>3. /\ Passes(k, One(t), 1, c, o)
      /\ known' = known /\ shadow' = shadow /\ day' = day /\ life' = life
  BY DEF Evaluate
<1> HIDE DEF c
<1>4. Admitted(k, {i}, i) /\ calls'[i].charged = c
  <2>1. /\ Core /\ c \in Nat /\ Fresh(i) /\ calls' = [calls EXCEPT ![i] = Forward(k, t, i, c)]
        /\ day' = day /\ life' = life
    BY <1>1, <1>2, <1>3 DEF BInv, IInv
  <2>2. Admitted(k, {i}, i) /\ calls'[i] = Forward(k, t, i, c)
    BY <2>1, OneAdmitted
  <2> QED
    BY <2>2 DEF Forward
<1>5. ChargeInv(k, c) /\ Taken(k, c) = c /\ k \in known
  BY <1>1, <1>2, <1>3, ChargeLemma, PassesPays DEF BInv, IInv
<1>6. \A x \in Keys \ {k} : Unmoved(x)
  BY <1>2, ChargeElsewhere DEF BInv, IInv
<1>7. Bill(calls', {i}) = c
  BY <1>1, <1>4, BillOne
<1>8. Sold(k, {i}, c)
  BY <1>3, <1>5, <1>6, <1>7 DEF Sold, ChargeInv
<1> QED
  BY <1>1, <1>3, <1>4, <1>8, AdmittedBills

(* A batch keeps the books: its total is the sum of its calls.             *)
LEMMA EvaluateBatchBills ==
    ASSUME BInv, IInv', NEW k \in Keys, NEW t \in Tools, NEW u \in Tools, NEW o \in Origins,
           EvaluateBatch(k, t, u, o)
    PROVE  BInv'
<1> DEFINE c == Price[t] + Price[u]
<1>1. /\ c \in Nat /\ NeedOf(t, u) \in [Tools -> Nat]
      /\ Price[t] \in Nat /\ Price[u] \in Nat
  BY GateAssumption DEF NeedOf
<1>2. PICK i \in CallIds : /\ Fresh(i) /\ i < Calls /\ Charge(k, i, NeedOf(t, u), 2, c)
                           /\ calls' = Pair(k, t, u, i, Price[t], Price[u])
  BY DEF EvaluateBatch
<1>3. /\ Passes(k, NeedOf(t, u), 2, c, o)
      /\ known' = known /\ shadow' = shadow /\ day' = day /\ life' = life
  BY DEF EvaluateBatch
<1>4. /\ Admitted(k, {i, i + 1}, i)
      /\ calls'[i].charged = Price[t] /\ calls'[i + 1].charged = Price[u]
  <2>1. /\ Core /\ CallsInv /\ Fresh(i) /\ i < Calls
        /\ calls' = Pair(k, t, u, i, Price[t], Price[u]) /\ day' = day /\ life' = life
    BY <1>2, <1>3 DEF BInv, IInv
  <2>2. /\ Admitted(k, {i, i + 1}, i) /\ calls'[i] = Forward(k, t, i, Price[t])
        /\ calls'[i + 1] = Forward(k, u, i, Price[u])
    BY <1>1, <2>1, PairAdmitted
  <2> QED
    BY <2>2 DEF Forward
<1>5. i + 1 \in CallIds
  BY <1>4 DEF Admitted
<1>6. Bill(calls', {i, i + 1}) = c
  BY <1>1, <1>4, <1>5, PairBilled
<1> HIDE DEF c
<1>7. ChargeInv(k, c) /\ Taken(k, c) = c /\ k \in known
  BY <1>1, <1>2, <1>3, ChargeLemma, PassesPays DEF BInv, IInv
<1>8. \A x \in Keys \ {k} : Unmoved(x)
  BY <1>2, ChargeElsewhere DEF BInv, IInv
<1>9. Sold(k, {i, i + 1}, c)
  BY <1>3, <1>6, <1>7, <1>8 DEF Sold, ChargeInv
<1> QED
  BY <1>1, <1>3, <1>4, <1>9, AdmittedBills

(* Refusals, forwarded or not in shadow mode, keep the books.              *)
LEMMA RefusedBills ==
    ASSUME BInv, IInv', NEW k \in Keys, NEW t \in Tools, NEW u \in Tools, NEW o \in Origins,
           EvaluateRefused(k, t, o) \/ EvaluateBatchRefused(k, t, u, o)
    PROVE  BInv'
<1>1. /\ known' = known /\ shadow' = shadow /\ day' = day /\ life' = life /\ day \in Nat
      /\ shadow.on => shadow.ever
  BY DEF EvaluateRefused, EvaluateBatchRefused, BInv, BillsInv, IInv, Core, TypeOK
<1>2. Price[t] \in Nat /\ Price[u] \in Nat
  BY GateAssumption
<1>3. CASE calls' = calls
  <2>1. ~shadow.ever =>
          ledger' = ledger /\ \E need, c : rec' = Touched(k, need, c, o)
    BY <1>1 DEF EvaluateRefused, EvaluateBatchRefused
  <2>2. ~shadow.ever => \A x \in Keys : rec'[x].totalSpent = rec[x].totalSpent
    BY <2>1, TouchedFacts DEF BInv, IInv
  <2> QED
    BY <1>1, <1>3, <2>1, <2>2, QuietBills
<1>4. CASE calls' # calls
  <2>1. shadow.on
    BY <1>4 DEF EvaluateRefused, EvaluateBatchRefused
  <2>2. CASE EvaluateRefused(k, t, o)
    <3>1. PICK i \in CallIds : Fresh(i) /\ calls' = [calls EXCEPT ![i] = Forward(k, t, i, 0)]
      BY <2>1, <2>2 DEF EvaluateRefused
    <3>2. Admitted(k, {i}, i)
      BY <1>1, <3>1, OneAdmitted DEF BInv, IInv
    <3> QED
      BY <1>1, <2>1, <3>2, AdmittedBills
  <2>3. CASE EvaluateBatchRefused(k, t, u, o)
    <3>1. PICK i \in CallIds, c \in Nat, d \in Nat :
            Fresh(i) /\ i < Calls /\ calls' = Pair(k, t, u, i, c, d)
      BY <1>2, <2>1, <2>3 DEF EvaluateBatchRefused
    <3>2. Admitted(k, {i, i + 1}, i)
      BY <1>1, <3>1, PairAdmitted DEF BInv, IInv
    <3> QED
      BY <1>1, <2>1, <3>2, AdmittedBills
  <2> QED
    BY <2>2, <2>3
<1> QED
  BY <1>3, <1>4

(* Every operation of the gate keeps the books.                            *)
LEMMA OperationsBills == ASSUME BInv, Operations PROVE BInv'
<1>1. IInv'
  BY OperationsStep DEF BInv
<1>2. ASSUME NEW i \in CallIds, NEW bad \in SUBSET CallIds, Settle(i, bad) PROVE BInv'
  <2>1. calls[i].key \in Keys
    BY <1>2, GroupFacts, CallFacts DEF Settle, Pending, Group, BInv, IInv
  <2> QED
    BY <1>1, <1>2, <2>1, SettleBills
<1>3. ASSUME NEW i \in CallIds, Lose(i) PROVE BInv'
  <2>1. Ended
    BY <1>3, LoseEnds DEF BInv, IInv
  <2>2. UNCHANGED <<known, rec, shadow, ledger>>
    BY <1>3 DEF Lose
  <2>3. \A k \in Keys : /\ rec'[k].totalSpent = rec[k].totalSpent + 0
                         /\ ledger'[k].charged = ledger[k].charged + 0
                         /\ ledger'[k].refunded = ledger[k].refunded
    BY <2>2, MoneyTypes DEF BInv, IInv
  <2>4. shadow'.on => shadow'.ever
    BY <2>2 DEF BInv, BillsInv
  <2> QED
    BY <1>1, <2>1, <2>2, <2>3, <2>4, EndedBills
<1> QED
  BY <1>1, <1>2, <1>3, EvaluateBills, EvaluateBatchBills, RefusedBills DEF Operations

(* A step of the administrator, other than a rotation and a reload.        *)
LEMMA AdminBills ==
    ASSUME BInv, IInv', calls' = calls, shadow' = shadow, day' = day, life' = life,
           known \subseteq known',
           ~shadow.ever => \A k \in Keys :
               /\ rec'[k].totalSpent = rec[k].totalSpent
               /\ ledger'[k].charged = ledger[k].charged
               /\ ledger'[k].refunded = ledger[k].refunded
    PROVE  BInv'
<1>1. day \in Nat /\ (shadow.on => shadow.ever)
  BY DEF BInv, BillsInv, IInv, Core, TypeOK
<1> QED
  BY <1>1, QuietBills

(* A key string put to first use had spent nothing before.                 *)
LEMMA UnusedSpent ==
    ASSUME BInv, ~shadow.ever, NEW k \in Keys \ known
    PROVE  rec[k].totalSpent = 0
<1>1. rec[k].totalSpent = ledger[k].charged - ledger[k].refunded
  BY DEF BInv, BillsInv, SpentIsNet
<1>2. ledger[k] = BlankLedger
  BY DEF BInv, IInv, UnusedIdle
<1> QED
  BY <1>1, <1>2 DEF BlankLedger

(* A key string put to first use keeps the books.                          *)
LEMMA NewKeyBills ==
    ASSUME BInv, IInv', NEW k \in Keys \ known, NEW r, r.totalSpent = 0, NEW c \in Nat,
           known' = known \cup {k}, rec' = [rec EXCEPT ![k] = r],
           ledger' = Granted(k, c), UNCHANGED Rest
    PROVE  BInv'
<1>1. /\ rec'[k].totalSpent = 0 /\ \A x \in Keys \ {k} : rec'[x] = rec[x]
      /\ calls' = calls /\ shadow' = shadow /\ day' = day /\ life' = life
  BY DEF BInv, IInv, Core, TypeOK, Rest
<1>2. \A x \in Keys : /\ ledger'[x].charged = ledger[x].charged
                      /\ ledger'[x].refunded = ledger[x].refunded
  BY GrantedFacts DEF BInv, IInv
<1> QED
  BY <1>1, <1>2, UnusedSpent, AdminBills

(* Rewriting settings of a record keeps the books.                         *)
LEMMA EditBills ==
    ASSUME BInv, IInv', NEW k \in Keys, NEW r, Edit(k, r), r.totalSpent = rec[k].totalSpent
    PROVE  BInv'
<1>1. /\ \A x \in Keys : rec'[x].totalSpent = rec[x].totalSpent
      /\ ledger' = ledger /\ known' = known
      /\ calls' = calls /\ shadow' = shadow /\ day' = day /\ life' = life
  BY DEF Edit, Rest, BInv, IInv, Core, TypeOK
<1> QED
  BY <1>1, AdminBills

(* Every step of the administrator keeps the books.                        *)
LEMMA AdministrationBills == ASSUME BInv, Administration PROVE BInv'
<1>1. IInv'
  BY AdministrationStep DEF BInv
<1>2. /\ rec \in [Keys -> KeyRecord] /\ ledger \in [Keys -> LedgerEntry] /\ day \in Nat
      /\ now \in Nat
  BY DEF BInv, IInv, Core, TypeOK
<1>3. \A k \in Keys : rec[k] \in KeyRecord
  BY <1>2
<1>4. \A c \in Grants : c \in Nat
  BY GateAssumption
<1>5. ASSUME NEW k \in Keys, NEW c \in Grants, CreateKey(k, c) PROVE BInv'
  BY <1>1, <1>2, <1>4, <1>5, FreshTypes, NewKeyBills DEF CreateKey
<1>6. ASSUME NEW k \in Keys, NEW c \in Grants, TopUp(k, c) PROVE BInv'
  <2>1. \A x \in Keys : rec'[x].totalSpent = rec[x].totalSpent
    <3>1. AddCredits(rec[k], now, c).totalSpent = rec[k].totalSpent
      BY <1>2, <1>3, <1>4, AddCreditsFacts
    <3>2. rec' = [rec EXCEPT ![k] = AddCredits(rec[k], now, c)]
      BY <1>2, <1>6 DEF TopUp
    <3> QED
      BY <1>2, <3>1, <3>2
  <2>2. \A x \in Keys : /\ ledger'[x].charged = ledger[x].charged
                        /\ ledger'[x].refunded = ledger[x].refunded
    BY <1>4, <1>6, GrantedFacts DEF TopUp, BInv, IInv
  <2> QED
    BY <1>1, <1>6, <2>1, <2>2, AdminBills DEF TopUp, Rest
<1>7. ASSUME NEW a \in Keys, NEW b \in Keys, NEW c \in Grants, CloneKey(a, b, c)
      PROVE  BInv'
  <2>1. Clone(rec[a], c, day).totalSpent = 0
    BY DEF Clone, NewKey
  <2> QED
    BY <1>1, <1>4, <1>7, <2>1, NewKeyBills DEF CloneKey
<1>8. ASSUME NEW a \in Keys, NEW b \in Keys, NEW c \in Grants, Transfer(a, b, c)
      PROVE  BInv'
  <2>1. \A x \in Keys : rec'[x].totalSpent = rec[x].totalSpent
    BY <1>2, <1>8 DEF Transfer, KeyRecord
  <2>2. \A x \in Keys : /\ ledger'[x].charged = ledger[x].charged
                        /\ ledger'[x].refunded = ledger[x].refunded
    BY <1>2, <1>8 DEF Transfer, LedgerEntry
  <2> QED
    BY <1>1, <1>8, <2>1, <2>2, AdminBills DEF Transfer, Rest
<1>9. ASSUME NEW a \in Keys, NEW b \in Keys, Rotate(a, b) PROVE BInv'
  BY <1>1, <1>9, RotateBills
<1>10. ASSUME NEW k \in Keys, Suspend(k) \/ Resume(k) \/ Revoke(k) PROVE BInv'
  <2>1. \A r : \/ r = [rec[k] EXCEPT !.suspended = TRUE]
              \/ r = [rec[k] EXCEPT !.suspended = FALSE]
              \/ r = [rec[k] EXCEPT !.active = FALSE] => r.totalSpent = rec[k].totalSpent
    BY <1>3 DEF KeyRecord
  <2> QED
    BY <1>1, <1>10, <2>1, EditBills DEF Suspend, Resume, Revoke
<1>11. ASSUME NEW k \in Keys, NEW e \in Expiries, SetExpiry(k, e) PROVE BInv'
  <2>1. [rec[k] EXCEPT !.expiresAt = e].totalSpent = rec[k].totalSpent
    BY <1>3 DEF KeyRecord
  <2> QED
    BY <1>1, <1>11, <2>1, EditBills DEF SetExpiry
<1>12. ASSUME NEW k \in Keys, NEW q \in KeyQuotas, SetQuota(k, q) PROVE BInv'
  <2>1. [rec[k] EXCEPT !.quota = q].totalSpent = rec[k].totalSpent
    BY <1>3 DEF KeyRecord
  <2> QED
    BY <1>1, <1>12, <2>1, EditBills DEF SetQuota
<1>13. ASSUME NEW k \in Keys, NEW l \in Limits, SetSpendingLimit(k, l) PROVE BInv'
  <2>1. [rec[k] EXCEPT !.spendingLimit = l].totalSpent = rec[k].totalSpent
    BY <1>3 DEF KeyRecord
  <2> QED
    BY <1>1, <1>13, <2>1, EditBills DEF SetSpendingLimit
<1>14. ASSUME NEW k \in Keys, NEW p \in Topups, SetAutoTopup(k, p) PROVE BInv'
  <2>1. [rec[k] EXCEPT !.autoTopup = p].totalSpent = rec[k].totalSpent
    BY <1>3 DEF KeyRecord
  <2> QED
    BY <1>1, <1>14, <2>1, EditBills DEF SetAutoTopup
<1>15. ASSUME NEW s \in ShadowModes, UpdateConfig(s) PROVE BInv'
  <2>1. shadow'.on => shadow'.ever
    BY <1>15 DEF UpdateConfig
  <2>2. shadow.ever => shadow'.ever
    BY <1>15 DEF UpdateConfig
  <2> QED
    BY <1>1, <1>2, <1>15, <2>1, <2>2, QuietBills DEF UpdateConfig
<1>16. ASSUME TeamAdmin PROVE BInv'
  BY <1>1, <1>16, AdminBills DEF TeamAdmin, gateVars
<1> QED
  BY <1>5, <1>6, <1>7, <1>8, <1>9, <1>10, <1>11, <1>12, <1>13, <1>14, <1>15, <1>16
     DEF Administration

(* The clock, a crash, and a crash after the deduction keep the books.     *)
LEMMA EnvironmentBills ==
    ASSUME BInv,
           Tick \/ NextDay \/ Crash \/ \E k \in Keys, t \in Tools : CrashInEvaluate(k, t)
    PROVE  BInv'
<1>1. IInv'
  BY EnvironmentStep DEF BInv
<1>2. day \in Nat /\ (shadow.on => shadow.ever) /\ ledger \in [Keys -> LedgerEntry]
      /\ rec \in [Keys -> KeyRecord] /\ shadow \in [on : BOOLEAN, ever : BOOLEAN]
  BY DEF BInv, BillsInv, IInv, Core, TypeOK
<1>3. CASE Tick
  BY <1>1, <1>3, AdminBills DEF Tick
<1>4. CASE NextDay
  <2>1. day' \in Nat /\ day' >= day
    BY <1>2, <1>4 DEF NextDay
  <2>2. \A k \in Keys : /\ ledger'[k].charged = ledger[k].charged
                        /\ ledger'[k].refunded = ledger[k].refunded
    BY <1>2, <1>4 DEF NextDay, LedgerEntry
  <2> QED
    BY <1>1, <1>2, <1>4, <2>1, <2>2, QuietBills DEF NextDay
<1>5. ASSUME Restart
      PROVE  /\ Ended /\ known' = known /\ shadow'.ever = shadow.ever
             /\ shadow'.on => shadow'.ever
  BY <1>2, <1>5, RestartEnds DEF Restart, BInv, IInv
<1>6. CASE Crash
  <2>1. \A k \in Keys : /\ rec'[k].totalSpent = rec[k].totalSpent + 0
                        /\ ledger'[k].charged = ledger[k].charged + 0
                        /\ ledger'[k].refunded = ledger[k].refunded
    BY <1>6, MoneyTypes DEF Crash, BInv, IInv
  <2>2. Restart
    BY <1>6 DEF Crash
  <2> QED
    BY <1>1, <1>5, <2>1, <2>2, EndedBills
<1>7. ASSUME NEW k \in Keys, NEW t \in Tools, CrashInEvaluate(k, t) PROVE BInv'
  <2> DEFINE c == Price[t]
  <2>1. c \in Nat
    BY GateAssumption
  <2>2. Taken(k, c) = c /\ Usable(rec[k], now) /\ rec[k].credits >= c
    BY <1>7, <2>1, PassesPays
       DEF CrashInEvaluate, Passes, ReachesQuota, Live, BInv, IInv
  <2>3. Deduct(rec[k], now, c).totalSpent = rec[k].totalSpent + c
    BY <1>2, <2>2 DEF Deduct, KeyRecord
  <2>4. /\ rec' = [rec EXCEPT ![k] = Deduct(@, now, c)]
        /\ ledger' = [ledger EXCEPT ![k].charged = @ + c]
    BY <1>7 DEF CrashInEvaluate
  <2>5. /\ rec'[k].totalSpent = rec[k].totalSpent + c
        /\ ledger'[k].charged = ledger[k].charged + c
        /\ ledger'[k].refunded = ledger[k].refunded
        /\ \A x \in Keys \ {k} : rec'[x] = rec[x] /\ ledger'[x] = ledger[x]
    BY <1>2, <2>3, <2>4 DEF LedgerEntry
  <2>6. \A x \in Keys : \E d \in Nat :
            /\ rec'[x].totalSpent = rec[x].totalSpent + d
            /\ ledger'[x].charged = ledger[x].charged + d
            /\ ledger'[x].refunded = ledger[x].refunded
    <3> TAKE x \in Keys
    <3>1. CASE x = k
      BY <2>1, <2>5, <3>1
    <3>2. CASE x # k
      <4>1. rec'[x].totalSpent = rec[x].totalSpent + 0 
            /\ ledger'[x].charged = ledger[x].charged + 0
            /\ ledger'[x].refunded = ledger[x].refunded
        BY <2>5, <3>2, MoneyTypes DEF BInv, IInv
      <4> QED
        BY <4>1
    <3> QED
      BY <3>1, <3>2
  <2>7. Restart
    BY <1>7 DEF CrashInEvaluate
  <2> QED
    BY <1>1, <1>5, <2>6, <2>7, EndedBills
<1> QED
  BY <1>3, <1>4, <1>6, <1>7

(* The invariant of calls and bills holds in every reachable state.        *)
THEOREM BillsInvariant == Spec => []BInv
<1>1. Init => BInv
  BY InitBills
<1>2. BInv /\ [Next]_vars => BInv'
  <2> SUFFICES ASSUME BInv, [Next]_vars PROVE BInv'
    OBVIOUS
  <2>1. CASE Next
    BY <2>1, OperationsBills, AdministrationBills, EnvironmentBills DEF Next
  <2>2. CASE UNCHANGED vars
    <3>1. IInv'
      BY <2>2 DEF vars, BInv, IInv, Core, TypeOK, CreditsConserved, SpentCovers, UnusedIdle
    <3> QED
      BY <2>2, <3>1, AdminBills DEF vars
  <2> QED
    BY <2>1, <2>2
<1> QED
  BY <1>1, <1>2, PTL DEF Spec

(* As long as no reload ever switched shadow mode on, totalSpent is the    *)
(* net of charges and refunds, and what callers were told they paid was    *)
(* deducted: through batches, refunds to keys revoked or expired meanwhile,*)
(* rotations, restarts and a crash in the middle of a charge.              *)
THEOREM BillsTrue == Spec => []BillsAreTrue
<1>1. BInv => BillsAreTrue
  BY DEF BInv, BillsInv, BillsAreTrue
<1> QED
  BY <1>1, BillsInvariant, PTL

-----------------------------------------------------------------------------
(* The limits of the gate: the daily allowance of top-ups and, as long as  *)
(* shadow mode was never on, rate windows, daily quotas and team budgets   *)
(* are never passed, for every set of keys, tools, teams, prices and       *)
(* limits, under settings that stay what they were.                        *)
(* The settings an administrator chooses from.  A limit lowered below what *)
(* was already used is passed at once, so: auto-topups share one daily     *)
(* allowance, teams share one budget, and a quota of a key's own allows no *)
(* more calls a day than the global one.                                   *)
SteadySettings ==
    /\ \A p, q \in Topups : p.maxDaily = q.maxDaily
    /\ \A b, c \in Budgets : b = c
    /\ GlobalQuota.dailyCalls > 0 => \A q \in KeyQuotas :
           q.on => q.dailyCalls \in 1 .. GlobalQuota.dailyCalls

-----------------------------------------------------------------------------
(* The inductive invariant, part by part. *)

(* The settings of a record are among those an administrator chooses; its  *)
(* counters are not dated in the future; and its count of auto-topups is   *)
(* the ledger's.                                                           *)
RecordOK(r, e, d) ==
    /\ r.autoTopup \in Topups \cup {NoTopup}
    /\ r.topupDay <= d
    /\ e.topups = TopupsToday(r, d)
    /\ \A p \in Topups : WithinLimit(e.topups, 0, p.maxDaily)
    /\ r.quota \in KeyQuotas \cup {NoQuota}
    /\ r.used.day <= d

RecordsInv == \A k \in Keys : RecordOK(rec[k], ledger[k], day)

(* A window holds an entry of its own for each call it has to count: the   *)
(* window of a key one for each group, that of a tool one for each call.   *)
Current(k) == {i \in Made(k) : calls[i].life = life}

Serial(i) == IF Leads(i) \/ calls[i - 1].tool # calls[i].tool THEN calls[i].group ELSE i

Entries(k) == {<<calls[i].at, calls[i].group>> : i \in Current(k)}

ToolEntries(k, t) ==
    {<<calls[i].at, Serial(i)>> : i \in {j \in Current(k) : calls[j].tool = t}}

WindowOK(w, t, limit, entries) ==
    /\ IsFiniteSet(w)
    /\ limit > 0 => Cardinality(InWindow(w, t)) <= limit /\ entries \subseteq w

RateInv ==
    \A k \in Keys :
        /\ WindowOK(win[k], now, RateLimit, Entries(k))
        /\ \A t \in Tools : WindowOK(toolWin[k][t], now, ToolRate[t], ToolEntries(k, t))

(* The counter of the day covers the calls that stand on that day.         *)
Today(k) == ResetIfNeeded(rec[k].used, day).dailyCalls

Clean(k) == \A i \in Made(k) : calls[i].st = "failed" => calls[i].day = day

QuotaInv ==
    \A k \in Keys : Clean(k) =>
        /\ Cardinality(Standing(k)) <= Today(k)
        /\ WithinLimit(Cardinality(Standing(k)), 0, GlobalQuota.dailyCalls)

(* A team's total covers what its members were charged under it, and no    *)
(* call is charged under a team that does not exist.                       *)
TeamOK(t) ==
    IF team[t].exists
    THEN /\ team[t].budget \in Budgets
         /\ Charged(Joint(t)) <= team[t].totalSpent
         /\ WithinLimit(team[t].totalSpent, 0, team[t].budget)
    ELSE Joint(t) = {} /\ ~team[t].active

TeamInv ==
    /\ \A k \in Keys : InTeam(k) => team[teamOf[k]].exists
    /\ \A t \in TeamIds : TeamOK(t)

LInv ==
    /\ BInv /\ RecordsInv
    /\ ~shadow.ever => RateInv /\ QuotaInv /\ TeamInv

-----------------------------------------------------------------------------
(* Records. *)

(* The fields RecordOK reads.                                              *)
LEMMA RecordTypes ==
    ASSUME NEW r \in KeyRecord
    PROVE  /\ r.topupDay \in Nat /\ r.topupCount \in Nat /\ r.used.day \in Nat
           /\ r.used \in Usage /\ r.used.dailyCalls \in Nat
           /\ r.autoTopup \in Topup /\ r.autoTopup.maxDaily \in Nat
           /\ r.quota \in Quota /\ r.quota.dailyCalls \in Nat
BY DEF KeyRecord, Usage, Topup, Quota

(* Rewriting other fields, or dating the counters today, keeps a record.   *)
SameSettings(r, s, d) ==
    /\ s.autoTopup = r.autoTopup /\ s.topupDay = r.topupDay /\ s.topupCount = r.topupCount
    /\ s.quota = r.quota /\ s.used.day \in {r.used.day, d}

(* A record whose settings stay is still in order.                         *)
LEMMA RecordKept ==
    ASSUME NEW r \in KeyRecord, NEW s, NEW e, NEW f, NEW d \in Nat,
           RecordOK(r, e, d), SameSettings(r, s, d), f.topups = e.topups
    PROVE  RecordOK(s, f, d)
BY RecordTypes DEF RecordOK, SameSettings, TopupsToday

(* What the operations leave of the settings of a record.                  *)
LEMMA DeductKeeps ==
    ASSUME NEW r \in KeyRecord, NEW t, NEW c, NEW d
    PROVE  SameSettings(r, Deduct(r, t, c), d) /\ Deduct(r, t, c).used = r.used
BY DEF SameSettings, Deduct, KeyRecord

(* Counters dated today leave the settings.                                *)
LEMMA ResetKeeps ==
    ASSUME NEW r \in KeyRecord, NEW d, NEW u, u.day = d
    PROVE  SameSettings(r, [r EXCEPT !.used = u], d) /\ [r EXCEPT !.used = u].used = u
BY DEF SameSettings, KeyRecord

(* Adding credits leaves the settings and the counters.                    *)
LEMMA AddKeeps ==
    ASSUME NEW r \in KeyRecord, NEW t, NEW c, NEW d
    PROVE  SameSettings(r, AddCredits(r, t, c), d) /\ AddCredits(r, t, c).used = r.used
BY DEF SameSettings, AddCredits, KeyRecord

(* A refund takes at most one call off the counters.                       *)
LEMMA RefundKeeps ==
    ASSUME NEW r \in KeyRecord, NEW t \in Nat, NEW c \in Nat, NEW d
    PROVE  /\ SameSettings(r, Refund(r, t, c), d)
           /\ Refund(r, t, c).used.day = r.used.day
           /\ Refund(r, t, c).used.dailyCalls \in {r.used.dailyCalls, Less(r.used.dailyCalls, 1)}
<1>1. CASE ~Usable(r, t)
  BY <1>1 DEF Refund, SameSettings
<1>2. CASE Usable(r, t)
  <2> DEFINE a == AddCredits(r, t, c)
             spent == Less(a.totalSpent, c)
             made == Less(a.totalCalls, 1)
             u == QuotaUnrecord(a.used, c)
  <2>1. Refund(r, t, c) = [a EXCEPT !.totalSpent = spent, !.totalCalls = made, !.used = u]
    BY <1>2 DEF Refund
  <2>2. a \in KeyRecord /\ SameSettings(r, a, d) /\ a.used = r.used
    BY AddCreditsFacts, AddKeeps
  <2>3. u.day = r.used.day /\ u.dailyCalls = Less(r.used.dailyCalls, 1)
    BY <2>2 DEF QuotaUnrecord
  <2> HIDE DEF a, spent, made, u
  <2>4. /\ Refund(r, t, c).used = u /\ Refund(r, t, c).autoTopup = a.autoTopup
        /\ Refund(r, t, c).topupDay = a.topupDay /\ Refund(r, t, c).topupCount = a.topupCount
        /\ Refund(r, t, c).quota = a.quota
    BY <2>1, <2>2 DEF KeyRecord
  <2> QED
    BY <2>2, <2>3, <2>4 DEF SameSettings
<1> QED
  BY <1>1, <1>2

(* A record topped up automatically stays within its allowance.            *)
LEMMA TopupKeeps ==
    ASSUME SteadySettings, NEW r \in KeyRecord, NEW e, NEW f, NEW t, NEW d \in Nat,
           RecordOK(r, e, d),
           f.topups = IF TopupFires(r, t, d) THEN e.topups + 1 ELSE e.topups
    PROVE  /\ RecordOK(AutoTopup(r, t, d), f, d)
           /\ AutoTopup(r, t, d).used = r.used
<1>1. CASE ~TopupFires(r, t, d)
  <2>1. AutoTopup(r, t, d) = r /\ f.topups = e.topups
    BY <1>1 DEF AutoTopup
  <2> QED
    BY <2>1, RecordKept DEF SameSettings
<1>2. CASE TopupFires(r, t, d)
  <2> DEFINE more == TopupsToday(r, d) + 1
             sum == r.credits + r.autoTopup.amount
  <2>1. AutoTopup(r, t, d) = [r EXCEPT !.credits = sum, !.topupCount = more, !.topupDay = d]
    BY <1>2 DEF AutoTopup
  <2>2. TopupsToday(r, d) \in Nat /\ r.credits \in Nat
    BY RecordTypes, FieldTypes DEF TopupsToday
  <2>3. r.autoTopup \in Topups
    BY <1>2, <2>2 DEF RecordOK, TopupFires, NoTopup
  <2>4. \A p \in Topups : p.maxDaily = 0 \/ TopupsToday(r, d) < p.maxDaily
    BY <1>2, <2>3 DEF SteadySettings, TopupFires
  <2>5. \A p \in Topups : p.maxDaily \in Nat
    BY GateAssumption DEF Topup
  <2>6. f.topups = more /\ more \in Nat
    BY <1>2, <2>2 DEF RecordOK
  <2>7. \A p \in Topups : WithinLimit(more, 0, p.maxDaily)
    BY <2>2, <2>4, <2>5 DEF WithinLimit
  <2> HIDE DEF more, sum
  <2> DEFINE s == AutoTopup(r, t, d)
  <2>8. /\ s.autoTopup = r.autoTopup /\ s.topupDay = d /\ s.topupCount = more
        /\ s.quota = r.quota /\ s.used = r.used
    BY <2>1 DEF KeyRecord
  <2> HIDE DEF s
  <2>9. RecordOK(s, f, d)
    BY <2>3, <2>6, <2>7, <2>8 DEF RecordOK, TopupsToday
  <2> QED
    BY <2>8, <2>9 DEF s
<1> QED
  BY <1>1, <1>2

(* An admission keeps the record of its key, and counts its calls.         *)
LEMMA ChargeRecord ==
    ASSUME SteadySettings, Core, NEW k \in Keys, NEW i, NEW need, NEW n \in Nat, NEW c \in Nat,
           Charge(k, i, need, n, c), RecordOK(rec[k], ledger[k], day)
    PROVE  /\ RecordOK(rec'[k], ledger'[k], day)
           /\ rec'[k].used = QuotaRecord(rec[k].used, day, n, c)
<1> DEFINE paid == Deduct(rec[k], now, c)
           u == QuotaRecord(paid.used, day, n, c)
           r == Counted(k, n, c)
           f == ledger'[k]
<1>1. rec[k] \in KeyRecord /\ day \in Nat /\ now \in Nat /\ ledger[k] \in LedgerEntry
  BY DEF Core, TypeOK
<1>2. paid \in KeyRecord /\ paid.used = rec[k].used /\ SameSettings(rec[k], paid, day)
  <2>1. paid \in KeyRecord
    BY <1>1, DeductFacts
  <2>2. paid.used = rec[k].used /\ SameSettings(rec[k], paid, day)
    BY <1>1, DeductKeeps
  <2> QED
    BY <2>1, <2>2
<1>3. u \in Usage /\ u.day = day
  BY <1>1, <1>2, UsageTypes, FieldTypes DEF QuotaRecord, CountUsage, ResetIfNeeded
<1>4. r = [paid EXCEPT !.used = u]
  BY DEF Counted
<1> HIDE DEF paid, u
<1>5. r \in KeyRecord /\ r.used = u /\ SameSettings(paid, r, day)
  BY <1>2, <1>3, <1>4, ResetKeeps DEF KeyRecord
<1>6. SameSettings(rec[k], r, day)
  BY <1>2, <1>5 DEF SameSettings
<1>7. RecordOK(r, ledger[k], day)
  BY <1>1, <1>6, RecordKept
<1>8. /\ rec' = [rec EXCEPT ![k] = AutoTopup(r, now, day)]
      /\ ledger' = [ledger EXCEPT ![k] = Entered(@, Taken(k, c), r)]
  BY DEF Charge
<1> HIDE DEF r
<1>9. rec'[k] = AutoTopup(r, now, day)
  BY <1>8 DEF Core, TypeOK
<1>10. f.topups = IF TopupFires(r, now, day) THEN ledger[k].topups + 1 ELSE ledger[k].topups
  BY <1>8 DEF Entered, Core, TypeOK
<1>11. RecordOK(rec'[k], f, day) /\ rec'[k].used = r.used
  <2> HIDE DEF f
  <2> QED
    BY <1>1, <1>5, <1>7, <1>9, <1>10, TopupKeeps
<1>12. u = QuotaRecord(rec[k].used, day, n, c)
  BY <1>2 DEF u
<1> QED
  BY <1>5, <1>11, <1>12

(* A step that rewrites records but not their settings keeps RecordsInv.   *)
LEMMA KeepRecords ==
    ASSUME Core, RecordsInv, day' = day,
           \A x \in Keys : SameSettings(rec[x], rec'[x], day)
                           /\ ledger'[x].topups = ledger[x].topups
    PROVE  RecordsInv'
<1> SUFFICES ASSUME NEW x \in Keys PROVE RecordOK(rec'[x], ledger'[x], day')
  BY DEF RecordsInv
<1>1. rec[x] \in KeyRecord /\ day \in Nat /\ RecordOK(rec[x], ledger[x], day)
  BY DEF Core, TypeOK, RecordsInv
<1>2. RecordOK(rec'[x], ledger'[x], day)
  BY <1>1, RecordKept
<1> QED
  BY <1>2

(* A step that rewrites one record.                                        *)
LEMMA KeepRecord ==
    ASSUME Core, RecordsInv, day' = day, NEW k \in Keys, RecordOK(rec'[k], ledger'[k], day),
           \A x \in Keys \ {k} : Unmoved(x)
    PROVE  RecordsInv'
<1> SUFFICES ASSUME NEW x \in Keys PROVE RecordOK(rec'[x], ledger'[x], day')
  BY DEF RecordsInv
<1>1. CASE x = k
  BY <1>1
<1>2. CASE x # k
  BY <1>2 DEF Unmoved, RecordsInv
<1> QED
  BY <1>1, <1>2

(* A fresh record has an allowance to use up.                              *)
LEMMA FreshRecord ==
    ASSUME NEW r, NEW e, NEW d \in Nat,
           r.autoTopup \in Topups \cup {NoTopup}, r.quota \in KeyQuotas \cup {NoQuota},
           r.topupCount = 0, r.topupDay = d, r.used = FreshUsage(d), e.topups = 0
    PROVE  RecordOK(r, e, d)
<1>1. \A p \in Topups : p.maxDaily \in Nat
  BY GateAssumption DEF Topup
<1>2. \A p \in Topups : WithinLimit(0, 0, p.maxDaily)
  BY <1>1 DEF WithinLimit
<1> QED
  BY <1>2 DEF RecordOK, TopupsToday, FreshUsage

(* Records at first, and key strings put to first use.                     *)
LEMMA InitRecords == Init => RecordsInv
<1> SUFFICES ASSUME Init, NEW k \in Keys PROVE RecordOK(rec[k], ledger[k], day)
  BY DEF RecordsInv
<1>1. rec[k] = UnusedKey /\ ledger[k] = BlankLedger /\ day = 0
  BY DEF Init
<1>2. /\ UnusedKey.autoTopup = NoTopup /\ UnusedKey.quota = NoQuota /\ UnusedKey.topupCount = 0
      /\ UnusedKey.topupDay = 0 /\ UnusedKey.used = FreshUsage(0)
  BY DEF UnusedKey, NewKey
<1>3. BlankLedger.topups = 0
  BY DEF BlankLedger
<1> QED
  BY <1>1, <1>2, <1>3, FreshRecord

(* A key string put to first use.                                          *)
LEMMA NewKeyRecord ==
    ASSUME IInv, RecordsInv, NEW k \in Keys \ known, NEW r, NEW c \in Nat,
           rec' = [rec EXCEPT ![k] = r], ledger' = Granted(k, c), day' = day,
           r.autoTopup \in Topups \cup {NoTopup}, r.quota \in KeyQuotas \cup {NoQuota},
           r.topupCount = 0, r.topupDay = day, r.used = FreshUsage(day)
    PROVE  RecordsInv'
<1>1. rec'[k] = r /\ \A x \in Keys \ {k} : Unmoved(x)
  BY DEF Granted, Unmoved, IInv, Core, TypeOK
<1>2. ledger'[k].topups = 0
  BY DEF Granted, IInv, UnusedIdle, BlankLedger, Core, TypeOK, LedgerEntry
<1>3. RecordOK(rec'[k], ledger'[k], day)
  BY <1>1, <1>2, FreshRecord DEF IInv, Core, TypeOK
<1> QED
  BY <1>1, <1>3, KeepRecord DEF IInv

(* An edit to a record in order.                                           *)
LEMMA EditRecord ==
    ASSUME IInv, RecordsInv, NEW k \in Keys, NEW r, Edit(k, r), RecordOK(r, ledger[k], day)
    PROVE  RecordsInv'
<1>1. rec'[k] = r /\ ledger' = ledger /\ day' = day /\ \A x \in Keys \ {k} : Unmoved(x)
  BY DEF Edit, Rest, Unmoved, IInv, Core, TypeOK
<1> QED
  BY <1>1, KeepRecord DEF IInv

(* Refusals only date counters.                                            *)
LEMMA TouchedRecords ==
    ASSUME Core, NEW k \in Keys, NEW need, NEW c, NEW o, NEW x \in Keys
    PROVE  /\ SameSettings(rec[x], Touched(k, need, c, o)[x], day)
           /\ \/ Touched(k, need, c, o)[x].used = rec[x].used
              \/ Touched(k, need, c, o)[x].used = ResetIfNeeded(rec[x].used, day)
<1> DEFINE u == ResetIfNeeded(rec[k].used, day)
           r == Touched(k, need, c, o)
<1>1. rec \in [Keys -> KeyRecord] /\ rec[x] \in KeyRecord /\ rec[k] \in KeyRecord
  BY DEF Core, TypeOK
<1>2. r = rec \/ r = [rec EXCEPT ![k] = [rec[k] EXCEPT !.used = u]]
  BY <1>1 DEF Touched
<1>3. u.day = day
  BY DEF ResetIfNeeded
<1> HIDE DEF u, r
<1>4. SameSettings(rec[k], [rec[k] EXCEPT !.used = u], day)
      /\ [rec[k] EXCEPT !.used = u].used = u
  BY <1>1, <1>3, ResetKeeps
<1>5. r[x] = rec[x] \/ (x = k /\ r[x] = [rec[k] EXCEPT !.used = u])
  BY <1>1, <1>2
<1>6. SameSettings(rec[x], rec[x], day)
  BY DEF SameSettings
<1>7. /\ SameSettings(rec[x], r[x], day)
      /\ r[x].used = rec[x].used \/ r[x].used = ResetIfNeeded(rec[x].used, day)
  BY <1>4, <1>5, <1>6 DEF u
<1> QED
  BY <1>7 DEF r

(* A settlement undoes at most one count for each call that fails.         *)
LEMMA RefundCallKeeps ==
    ASSUME Core, NEW r \in KeyRecord, NEW i \in CallIds, calls[i] # NoCall, NEW bad
    PROVE  /\ RefundCall(r, i, bad) \in KeyRecord
           /\ SameSettings(r, RefundCall(r, i, bad), day)
           /\ RefundCall(r, i, bad).used.day = r.used.day
           /\ RefundCall(r, i, bad).used.dailyCalls + (IF i \in bad THEN 1 ELSE 0)
                >= r.used.dailyCalls
<1>1. calls[i].charged \in Nat /\ now \in Nat
  BY DEF Core, TypeOK, Call
<1>2. r.used.dailyCalls \in Nat
  BY RecordTypes
<1>3. CASE Refundable(i, bad)
  <2>1. RefundCall(r, i, bad) = Refund(r, now, calls[i].charged) /\ i \in bad
    BY <1>3 DEF RefundCall, Refundable
  <2>2. /\ Refund(r, now, calls[i].charged) \in KeyRecord
        /\ SameSettings(r, Refund(r, now, calls[i].charged), day)
        /\ Refund(r, now, calls[i].charged).used.day = r.used.day
    BY <1>1, RefundFacts, RefundKeeps
  <2>3. Refund(r, now, calls[i].charged).used.dailyCalls
          \in {r.used.dailyCalls, Less(r.used.dailyCalls, 1)}
    BY <1>1, RefundKeeps
  <2>4. Less(r.used.dailyCalls, 1) \in Nat /\ Less(r.used.dailyCalls, 1) + 1 >= r.used.dailyCalls
    BY <1>2, LessFacts
  <2>5. Refund(r, now, calls[i].charged).used.dailyCalls + 1 >= r.used.dailyCalls
    BY <1>2, <2>3, <2>4
  <2> QED
    BY <2>1, <2>2, <2>5
<1>4. CASE ~Refundable(i, bad)
  <2>1. RefundCall(r, i, bad) = r
    BY <1>4 DEF RefundCall
  <2>2. SameSettings(r, r, day)
    BY DEF SameSettings
  <2> QED
    BY <1>2, <2>1, <2>2
<1> QED
  BY <1>3, <1>4

(* What a settlement leaves of the record it refunds to.                   *)
LEMMA SettleRecord ==
    ASSUME Core, CallsInv, NEW i \in CallIds, NEW bad \in SUBSET CallIds, Settle(i, bad),
           NEW k \in Keys, k = calls[i].key
    PROVE  /\ SameSettings(rec[k], rec'[k], day)
           /\ rec'[k].used.day = rec[k].used.day
           /\ rec'[k].used.dailyCalls + Cardinality(bad) >= rec[k].used.dailyCalls
           /\ IsFiniteSet(bad) /\ Cardinality(bad) \in Nat
<1> DEFINE first == RefundCall(rec[k], i, bad)
           pair == i + 1 \in Group(i)
           after == IF pair THEN RefundCall(first, i + 1, bad) ELSE first
           one == IF i \in bad THEN 1 ELSE 0
           two == IF i + 1 \in bad THEN 1 ELSE 0
<1>1. Pending(i) /\ bad \subseteq Group(i) /\ rec' = [rec EXCEPT ![k] = after]
  BY DEF Settle
<1>2. calls[i] # NoCall /\ \A j \in Group(i) : j \in {i, i + 1}
  BY <1>1, GroupFacts DEF Pending, Group
<1>3. rec \in [Keys -> KeyRecord] /\ rec[k] \in KeyRecord
  BY DEF Core, TypeOK
<1>4. /\ first \in KeyRecord /\ SameSettings(rec[k], first, day)
      /\ first.used.day = rec[k].used.day
      /\ first.used.dailyCalls + one >= rec[k].used.dailyCalls
  BY <1>2, <1>3, RefundCallKeeps
<1>5. IsFiniteSet(bad) /\ Cardinality(bad) \in Nat /\ Cardinality(bad) = one + two
  <2>1. i + 1 # i
    BY DEF CallIds
  <2>2. IsFiniteSet({}) /\ Cardinality({}) = 0
    BY FS_EmptySet
  <2>3. IsFiniteSet({i}) /\ Cardinality({i}) = 1 /\ IsFiniteSet({i + 1}) /\ Cardinality({i + 1}) = 1
    BY FS_Singleton
  <2> DEFINE low == IF i \in bad THEN {i} ELSE {}
             high == IF i + 1 \in bad THEN {i + 1} ELSE {}
  <2>6. IsFiniteSet(low) /\ Cardinality(low) = one /\ one \in Nat
    BY <2>2, <2>3
  <2>7. IsFiniteSet(high) /\ Cardinality(high) = two /\ two \in Nat
    BY <2>2, <2>3
  <2>8. bad = low \cup high /\ low \cap high = {}
    BY <1>1, <1>2, <2>1
  <2> HIDE DEF low, high, one, two
  <2>9. IsFiniteSet(low \cup high)
        /\ Cardinality(low \cup high) = Cardinality(low) + Cardinality(high) - Cardinality(low \cap high)
    BY <2>6, <2>7, FS_Union
  <2>10. Cardinality(bad) = one + two - 0
    BY <2>2, <2>6, <2>7, <2>8, <2>9
  <2> QED
    BY <2>6, <2>7, <2>8, <2>9, <2>10
<1>6. first.used.dailyCalls \in Nat /\ rec[k].used.dailyCalls \in Nat
  BY <1>3, <1>4, RecordTypes
<1>7. two = 1 => pair
  BY <1>1
<1> HIDE DEF first
<1>8. /\ SameSettings(rec[k], after, day) /\ after.used.day = rec[k].used.day
      /\ after.used.dailyCalls + (one + two) >= rec[k].used.dailyCalls
  <2>1. CASE pair
    <3>1. i + 1 \in CallIds /\ calls[i + 1] # NoCall
      BY <2>1 DEF Group
    <3> DEFINE s == RefundCall(first, i + 1, bad)
    <3>2. /\ s \in KeyRecord /\ SameSettings(first, s, day) /\ s.used.day = first.used.day
          /\ s.used.dailyCalls + two >= first.used.dailyCalls
      BY <1>4, <3>1, RefundCallKeeps
    <3>3. s.used.dailyCalls \in Nat /\ after = s
      BY <2>1, <3>2, RecordTypes
    <3>4. SameSettings(rec[k], s, day)
      BY <1>4, <3>2 DEF SameSettings
    <3>5. one \in Nat /\ two \in Nat
      OBVIOUS
    <3> HIDE DEF s, one, two
    <3>6. s.used.dailyCalls + (one + two) >= rec[k].used.dailyCalls
      BY <1>4, <1>6, <3>2, <3>3, <3>5
    <3> QED
      BY <1>4, <3>2, <3>3, <3>4, <3>6
  <2>2. CASE ~pair
    <3>1. after = first /\ two = 0 /\ one \in Nat
      BY <1>7, <2>2
    <3> HIDE DEF one, two
    <3> QED
      BY <1>4, <1>6, <3>1
  <2> QED
    BY <2>1, <2>2
<1>9. rec'[k] = after
  BY <1>1, <1>3
<1> HIDE DEF after, one, two
<1> QED
  BY <1>5, <1>8, <1>9

(* Every operation keeps the records, shadow mode or not.                  *)
LEMMA OperationsRecords ==
    ASSUME SteadySettings, BInv, RecordsInv, Operations PROVE RecordsInv'
<1>1. Core /\ CallsInv /\ \A k \in Keys : RecordOK(rec[k], ledger[k], day)
  BY DEF BInv, IInv, RecordsInv
<1>2. \A t \in Tools : Price[t] \in Nat
  BY GateAssumption
<1>3. ASSUME NEW k \in Keys, NEW i, NEW need, NEW n \in Nat, NEW c \in Nat,
             Charge(k, i, need, n, c), day' = day
      PROVE  RecordsInv'
  <2>1. RecordOK(rec'[k], ledger'[k], day)
    BY <1>1, <1>3, ChargeRecord
  <2>2. \A x \in Keys \ {k} : Unmoved(x)
    BY <1>1, <1>3, ChargeElsewhere
  <2> QED
    BY <1>1, <1>3, <2>1, <2>2, KeepRecord
<1>4. ASSUME NEW k \in Keys, NEW need, NEW c, NEW o,
             rec' = Touched(k, need, c, o), ledger' = ledger, day' = day
      PROVE  RecordsInv'
  <2>1. \A x \in Keys : SameSettings(rec[x], rec'[x], day)
    BY <1>1, <1>4, TouchedRecords
  <2> QED
    BY <1>1, <1>4, <2>1, KeepRecords
<1>5. ASSUME rec' = rec, ledger' = ledger, day' = day PROVE RecordsInv'
  BY <1>5 DEF RecordsInv
<1>6. ASSUME NEW k \in Keys, NEW t \in Tools, NEW o \in Origins, Evaluate(k, t, o)
      PROVE  RecordsInv'
  <2>1. PICK i \in CallIds : Charge(k, i, One(t), 1, Price[t])
    BY <1>6 DEF Evaluate
  <2>2. day' = day
    BY <1>6 DEF Evaluate
  <2> QED
    BY <1>2, <1>3, <2>1, <2>2
<1>7. ASSUME NEW k \in Keys, NEW t \in Tools, NEW o \in Origins, EvaluateRefused(k, t, o)
      PROVE  RecordsInv'
  BY <1>4, <1>7 DEF EvaluateRefused
<1>8. ASSUME NEW k \in Keys, NEW t \in Tools, NEW u \in Tools, NEW o \in Origins,
             EvaluateBatch(k, t, u, o)
      PROVE  RecordsInv'
  <2>1. PICK i \in CallIds : Charge(k, i, NeedOf(t, u), 2, Price[t] + Price[u])
    BY <1>8 DEF EvaluateBatch
  <2>2. day' = day /\ Price[t] + Price[u] \in Nat
    BY <1>2, <1>8 DEF EvaluateBatch
  <2> QED
    BY <1>3, <2>1, <2>2
<1>9. ASSUME NEW k \in Keys, NEW t \in Tools, NEW u \in Tools, NEW o \in Origins,
             EvaluateBatchRefused(k, t, u, o)
      PROVE  RecordsInv'
  <2>1. day' = day /\ BatchTotal(k, t, u, o) \in Nat
    BY <1>9, BatchTotalType DEF EvaluateBatchRefused
  <2>2. CASE rec' = Touched(k, NeedOf(t, u), Price[t] + Price[u], o) /\ ledger' = ledger
    BY <1>4, <2>1, <2>2
  <2>3. CASE rec' = rec /\ ledger' = ledger
    BY <1>5, <2>1, <2>3
  <2>4. CASE \E i \in CallIds : Charge(k, i, NeedOf(t, u), 2, BatchTotal(k, t, u, o))
    BY <1>3, <2>1, <2>4
  <2> QED
    BY <1>9, <2>2, <2>3, <2>4 DEF EvaluateBatchRefused
<1>10. ASSUME NEW i \in CallIds, NEW bad \in SUBSET CallIds, Settle(i, bad)
       PROVE  RecordsInv'
  <2>1. PICK k \in Keys : k = calls[i].key
    BY <1>1, <1>10, GroupFacts, CallFacts DEF Settle, Pending, Group
  <2>2. SameSettings(rec[k], rec'[k], day) /\ day' = day
    BY <1>1, <1>10, <2>1, SettleRecord DEF Settle
  <2>3. /\ \A x \in Keys \ {k} : rec'[x] = rec[x]
        /\ \A x \in Keys : ledger'[x].topups = ledger[x].topups
    BY <1>1, <1>10, <2>1 DEF Settle, Core, TypeOK, LedgerEntry
  <2>4. \A x \in Keys \ {k} : SameSettings(rec[x], rec'[x], day)
    BY <2>3 DEF SameSettings
  <2> QED
    BY <1>1, <2>2, <2>3, <2>4, KeepRecords
<1>11. ASSUME NEW i \in CallIds, Lose(i) PROVE RecordsInv'
  BY <1>5, <1>11 DEF Lose
<1> QED
  BY <1>6, <1>7, <1>8, <1>9, <1>10, <1>11 DEF Operations

(* What the steps of the administrator leave: the counters of every key in *)
(* use, the calls, the windows and, other than its own operations, teams.  *)
UsedKept == \A x \in known : rec'[x].used = rec[x].used

(* An edit that leaves settings and counters.                              *)
LEMMA EditKeeps ==
    ASSUME IInv, RecordsInv, NEW k \in Keys, NEW r, Edit(k, r),
           SameSettings(rec[k], r, day), r.used = rec[k].used
    PROVE  RecordsInv' /\ UsedKept
<1>1. rec[k] \in KeyRecord /\ day \in Nat /\ rec \in [Keys -> KeyRecord] /\ known \subseteq Keys
  BY DEF IInv, Core, TypeOK
<1>2. RecordOK(r, ledger[k], day)
  BY <1>1, RecordKept DEF RecordsInv
<1>3. rec' = [rec EXCEPT ![k] = r]
  BY DEF Edit
<1> QED
  BY <1>1, <1>2, <1>3, EditRecord DEF UsedKept

(* Every step of the administrator keeps the records.                      *)
LEMMA AdministrationRecords ==
    ASSUME SteadySettings, IInv, RecordsInv, Administration PROVE RecordsInv' /\ UsedKept
<1>1. /\ Core /\ rec \in [Keys -> KeyRecord] /\ ledger \in [Keys -> LedgerEntry]
      /\ day \in Nat /\ now \in Nat /\ known \subseteq Keys
  BY DEF IInv, Core, TypeOK
<1>2. \A k \in Keys : rec[k] \in KeyRecord /\ RecordOK(rec[k], ledger[k], day)
  BY <1>1 DEF RecordsInv
<1>3. \A c \in Grants : c \in Nat
  BY GateAssumption
<1>4. ASSUME NEW k \in Keys, NEW c \in Grants, CreateKey(k, c) PROVE RecordsInv' /\ UsedKept
  <2> DEFINE r == NewKey(c, day)
  <2>1. /\ r.autoTopup = NoTopup /\ r.quota = NoQuota /\ r.topupCount = 0
        /\ r.topupDay = day /\ r.used = FreshUsage(day)
    BY DEF NewKey
  <2>2. /\ k \notin known /\ rec' = [rec EXCEPT ![k] = r] /\ ledger' = Granted(k, c)
        /\ day' = day
    BY <1>4 DEF CreateKey, Rest
  <2> HIDE DEF r
  <2>3. RecordsInv'
    BY <1>3, <2>1, <2>2, NewKeyRecord
  <2>4. UsedKept
    BY <1>1, <2>2 DEF UsedKept
  <2> QED
    BY <2>3, <2>4
<1>5. ASSUME NEW a \in Keys, NEW k \in Keys, NEW c \in Grants, CloneKey(a, k, c)
      PROVE  RecordsInv' /\ UsedKept
  <2> DEFINE r == Clone(rec[a], c, day)
  <2>1. /\ r.autoTopup = rec[a].autoTopup /\ r.quota = rec[a].quota /\ r.topupCount = 0
        /\ r.topupDay = day /\ r.used = FreshUsage(day)
    BY DEF Clone, NewKey
  <2>2. /\ k \notin known /\ rec' = [rec EXCEPT ![k] = r] /\ ledger' = Granted(k, c)
        /\ day' = day
    BY <1>5 DEF CloneKey, Rest
  <2>3. r.autoTopup \in Topups \cup {NoTopup} /\ r.quota \in KeyQuotas \cup {NoQuota}
    BY <1>2, <2>1 DEF RecordOK
  <2> HIDE DEF r
  <2>4. RecordsInv'
    BY <1>3, <2>1, <2>2, <2>3, NewKeyRecord
  <2>5. UsedKept
    BY <1>1, <2>2 DEF UsedKept
  <2> QED
    BY <2>4, <2>5
<1>6. ASSUME NEW k \in Keys, NEW c \in Grants, TopUp(k, c) PROVE RecordsInv' /\ UsedKept
  <2>1. /\ SameSettings(rec[k], AddCredits(rec[k], now, c), day)
        /\ AddCredits(rec[k], now, c).used = rec[k].used
    BY <1>2, AddKeeps
  <2>2. rec' = [rec EXCEPT ![k] = AddCredits(rec[k], now, c)]
    BY <1>1, <1>6 DEF TopUp
  <2>3. rec'[k] = AddCredits(rec[k], now, c) /\ \A x \in Keys \ {k} : rec'[x] = rec[x]
    BY <1>1, <2>2
  <2>4. day' = day /\ \A x \in Keys : ledger'[x].topups = ledger[x].topups
    BY <1>1, <1>6 DEF TopUp, Granted, Rest, LedgerEntry
  <2>5. \A x \in Keys : SameSettings(rec[x], rec'[x], day) /\ rec'[x].used = rec[x].used
    BY <2>1, <2>3 DEF SameSettings
  <2> QED
    BY <1>1, <2>4, <2>5, KeepRecords DEF UsedKept
<1>7. ASSUME NEW a \in Keys, NEW b \in Keys, NEW c \in Grants, Transfer(a, b, c)
      PROVE  RecordsInv' /\ UsedKept
  <2>1. day' = day /\ \A x \in Keys : ledger'[x].topups = ledger[x].topups
    BY <1>1, <1>7 DEF Transfer, Rest, LedgerEntry
  <2>2. \A x \in Keys : SameSettings(rec[x], rec'[x], day) /\ rec'[x].used = rec[x].used
    BY <1>1, <1>7 DEF Transfer, SameSettings, KeyRecord
  <2> QED
    BY <1>1, <2>1, <2>2, KeepRecords DEF UsedKept
<1>8. ASSUME NEW old \in Keys, NEW new \in Keys, Rotate(old, new)
      PROVE  RecordsInv' /\ UsedKept
  <2>1. /\ rec' = [rec EXCEPT ![new] = rec[old], ![old].active = FALSE]
        /\ ledger' = [ledger EXCEPT ![new] = ledger[old]]
        /\ old \in known /\ new \notin known /\ day' = day
    BY <1>8 DEF Rotate, Rest
  <2>2. /\ rec'[new] = rec[old] /\ ledger'[new] = ledger[old] /\ ledger'[old] = ledger[old]
        /\ rec'[old] = [rec[old] EXCEPT !.active = FALSE]
        /\ \A x \in Keys \ {old, new} : Unmoved(x)
    BY <1>1, <2>1 DEF Unmoved
  <2>3. SameSettings(rec[old], rec'[old], day) /\ rec'[old].used = rec[old].used
    BY <1>2, <2>2 DEF SameSettings, KeyRecord
  <2>4. RecordOK(rec'[old], ledger'[old], day)
    BY <1>1, <1>2, <2>2, <2>3, RecordKept
  <2>5. ASSUME NEW x \in Keys PROVE RecordOK(rec'[x], ledger'[x], day)
    <3>1. CASE x = old
      BY <2>4, <3>1
    <3>2. CASE x = new
      BY <1>2, <2>2, <3>2
    <3>3. CASE x \in Keys \ {old, new}
      BY <1>2, <2>2, <3>3 DEF Unmoved
    <3> QED
      BY <3>1, <3>2, <3>3
  <2>6. UsedKept
    BY <1>1, <2>1, <2>2, <2>3 DEF UsedKept, Unmoved
  <2> QED
    BY <2>1, <2>5, <2>6 DEF RecordsInv
<1>9. ASSUME NEW k \in Keys, Suspend(k) \/ Resume(k) \/ Revoke(k)
      PROVE  RecordsInv' /\ UsedKept
  <2>1. \A r : \/ r = [rec[k] EXCEPT !.suspended = TRUE]
              \/ r = [rec[k] EXCEPT !.suspended = FALSE]
              \/ r = [rec[k] EXCEPT !.active = FALSE]
              => SameSettings(rec[k], r, day) /\ r.used = rec[k].used
    BY <1>2 DEF KeyRecord, SameSettings
  <2> QED
    BY <1>9, <2>1, EditKeeps DEF Suspend, Resume, Revoke
<1>10. ASSUME NEW k \in Keys, NEW e \in Expiries, SetExpiry(k, e) PROVE RecordsInv' /\ UsedKept
  <2> DEFINE r == [rec[k] EXCEPT !.expiresAt = e]
  <2>1. SameSettings(rec[k], r, day) /\ r.used = rec[k].used
    BY <1>2 DEF KeyRecord, SameSettings
  <2> QED
    BY <1>10, <2>1, EditKeeps DEF SetExpiry
<1>11. ASSUME NEW k \in Keys, NEW l \in Limits, SetSpendingLimit(k, l)
       PROVE  RecordsInv' /\ UsedKept
  <2> DEFINE r == [rec[k] EXCEPT !.spendingLimit = l]
  <2>1. SameSettings(rec[k], r, day) /\ r.used = rec[k].used
    BY <1>2 DEF KeyRecord, SameSettings
  <2> QED
    BY <1>11, <2>1, EditKeeps DEF SetSpendingLimit
<1>12. ASSUME NEW k \in Keys, NEW q \in KeyQuotas, SetQuota(k, q) PROVE RecordsInv' /\ UsedKept
  <2> DEFINE r == [rec[k] EXCEPT !.quota = q]
  <2>1. /\ r.autoTopup = rec[k].autoTopup /\ r.topupDay = rec[k].topupDay
        /\ r.topupCount = rec[k].topupCount /\ r.used = rec[k].used /\ r.quota = q
    BY <1>2 DEF KeyRecord
  <2>2. Edit(k, r)
    BY <1>12 DEF SetQuota
  <2>3. rec' = [rec EXCEPT ![k] = r]
    BY <2>2 DEF Edit
  <2> HIDE DEF r
  <2>4. RecordOK(r, ledger[k], day)
    BY <1>2, <2>1 DEF RecordOK, TopupsToday
  <2> QED
    BY <1>1, <2>1, <2>2, <2>3, <2>4, EditRecord DEF UsedKept
<1>13. ASSUME NEW k \in Keys, NEW p \in Topups, SetAutoTopup(k, p)
       PROVE  RecordsInv' /\ UsedKept
  <2> DEFINE r == [rec[k] EXCEPT !.autoTopup = p]
  <2>1. /\ r.autoTopup = p /\ r.topupDay = rec[k].topupDay
        /\ r.topupCount = rec[k].topupCount /\ r.used = rec[k].used /\ r.quota = rec[k].quota
    BY <1>2 DEF KeyRecord
  <2>2. Edit(k, r)
    BY <1>13 DEF SetAutoTopup
  <2>3. rec' = [rec EXCEPT ![k] = r]
    BY <2>2 DEF Edit
  <2> HIDE DEF r
  <2>4. RecordOK(r, ledger[k], day)
    BY <1>2, <2>1 DEF RecordOK, TopupsToday
  <2> QED
    BY <1>1, <2>1, <2>2, <2>3, <2>4, EditRecord DEF UsedKept
<1>14. ASSUME rec' = rec, ledger' = ledger, day' = day PROVE RecordsInv' /\ UsedKept
  BY <1>14 DEF RecordsInv, UsedKept
<1>15. ASSUME \E s \in ShadowModes : UpdateConfig(s) PROVE RecordsInv' /\ UsedKept
  BY <1>14, <1>15 DEF UpdateConfig
<1>16. ASSUME TeamAdmin PROVE RecordsInv' /\ UsedKept
  BY <1>14, <1>16 DEF TeamAdmin, gateVars
<1> QED
  BY <1>4, <1>5, <1>6, <1>7, <1>8, <1>9, <1>10, <1>11, <1>12, <1>13, <1>15, <1>16
     DEF Administration

(* A new day finds no top-up of its own; a crash at most a deduction.      *)
LEMMA EnvironmentRecords ==
    ASSUME IInv, RecordsInv,
           Tick \/ NextDay \/ Crash \/ \E k \in Keys, t \in Tools : CrashInEvaluate(k, t)
    PROVE  RecordsInv' /\ UsedKept
<1>1. /\ Core /\ rec \in [Keys -> KeyRecord] /\ ledger \in [Keys -> LedgerEntry]
      /\ day \in Nat /\ now \in Nat /\ known \subseteq Keys
  BY DEF IInv, Core, TypeOK
<1>2. \A k \in Keys : rec[k] \in KeyRecord /\ RecordOK(rec[k], ledger[k], day)
  BY <1>1 DEF RecordsInv
<1>3. CASE Tick \/ Crash
  BY <1>3 DEF Tick, Crash, Restart, RecordsInv, UsedKept
<1>4. CASE NextDay
  <2>1. /\ day' = day + 1 /\ rec' = rec
        /\ \A k \in Keys : ledger'[k].topups = 0
    BY <1>1, <1>4 DEF NextDay, LedgerEntry
  <2>2. ASSUME NEW k \in Keys PROVE RecordOK(rec[k], ledger'[k], day + 1)
    <3>1. rec[k].topupDay \in Nat /\ rec[k].used.day \in Nat
      BY <1>2, RecordTypes
    <3>2. rec[k].topupDay <= day + 1 /\ rec[k].used.day <= day + 1
      BY <1>1, <1>2, <3>1 DEF RecordOK
    <3>3. TopupsToday(rec[k], day + 1) = 0
      BY <1>1, <1>2, <3>1 DEF RecordOK, TopupsToday
    <3>4. \A p \in Topups : WithinLimit(0, 0, p.maxDaily)
      BY GateAssumption DEF Topup, WithinLimit
    <3> QED
      BY <1>2, <2>1, <3>2, <3>3, <3>4 DEF RecordOK
  <2> QED
    BY <2>1, <2>2 DEF RecordsInv, UsedKept
<1>5. ASSUME NEW k \in Keys, NEW t \in Tools, CrashInEvaluate(k, t) PROVE RecordsInv' /\ UsedKept
  <2> DEFINE r == Deduct(rec[k], now, Price[t])
  <2>1. /\ rec' = [rec EXCEPT ![k] = r] /\ day' = day
        /\ ledger' = [ledger EXCEPT ![k].charged = @ + Price[t]]
    BY <1>5 DEF CrashInEvaluate, Restart
  <2>2. SameSettings(rec[k], r, day) /\ r.used = rec[k].used
    BY <1>2, DeductKeeps
  <2> HIDE DEF r
  <2>3. rec'[k] = r /\ \A x \in Keys \ {k} : rec'[x] = rec[x]
    BY <1>1, <2>1
  <2>4. \A x \in Keys : SameSettings(rec[x], rec'[x], day) /\ rec'[x].used = rec[x].used
    BY <2>2, <2>3 DEF SameSettings
  <2>5. \A x \in Keys : ledger'[x].topups = ledger[x].topups
    BY <1>1, <2>1 DEF LedgerEntry
  <2> QED
    BY <1>1, <2>1, <2>4, <2>5, KeepRecords DEF UsedKept
<1> QED
  BY <1>3, <1>4, <1>5

-----------------------------------------------------------------------------
(* Windows. *)

(* Time passing, and calls leaving the window, keep a window.              *)
LEMMA WindowTime ==
    ASSUME NEW w \in SUBSET (Nat \X Nat), NEW t \in Nat, NEW u \in Nat, u >= t,
           NEW l \in Nat, NEW E, NEW F \in SUBSET E, WindowOK(w, t, l, E)
    PROVE  WindowOK(w, u, l, F)
<1>1. IsFiniteSet(w) /\ (l > 0 => Cardinality(InWindow(w, t)) <= l /\ E \subseteq w)
  BY DEF WindowOK
<1>2. InWindow(w, t) \subseteq w /\ InWindow(w, u) \subseteq InWindow(w, t)
  <2>1. \A e \in w : e[1] \in Nat
    OBVIOUS
  <2> QED
    BY <2>1, WindowLengthAssumption DEF InWindow
<1>3. IsFiniteSet(InWindow(w, t))
  BY <1>1, <1>2, FS_Subset
<1>4. /\ Cardinality(InWindow(w, t)) \in Nat /\ Cardinality(InWindow(w, u)) \in Nat
      /\ Cardinality(InWindow(w, u)) <= Cardinality(InWindow(w, t))
  <2>1. IsFiniteSet(InWindow(w, u)) /\ Cardinality(InWindow(w, u)) <= Cardinality(InWindow(w, t))
    BY <1>2, <1>3, FS_Subset
  <2> QED
    BY <1>3, <2>1, FS_CardinalityType
<1>5. ASSUME l > 0 PROVE Cardinality(InWindow(w, u)) <= l /\ F \subseteq w
  BY <1>1, <1>4, <1>5
<1> QED
  BY <1>1, <1>5 DEF WindowOK

(* An empty window counts no call.                                         *)
LEMMA WindowEmpty ==
    ASSUME NEW t, NEW l \in Nat PROVE WindowOK({}, t, l, {})
<1>1. InWindow({}, t) = {}
  BY DEF InWindow
<1> QED
  BY <1>1, FS_EmptySet DEF WindowOK

(* A window that allows n calls more takes up to n entries of this instant.*)
LEMMA WindowRecord ==
    ASSUME NEW w \in SUBSET (Nat \X Nat), NEW t \in Nat, NEW l \in Nat, NEW n \in Nat,
           NEW S, IsFiniteSet(S), Cardinality(S) <= n,
           NEW E, NEW F \in SUBSET (E \cup {<<t, s>> : s \in S}),
           WindowOK(w, t, l, E), n > 0 => RateAllows(w, t, n, l)
    PROVE  WindowOK(Recorded(w, t, S, l), t, l, F)
<1>1. IsFiniteSet(w) /\ (l > 0 => Cardinality(InWindow(w, t)) <= l /\ E \subseteq w)
  BY DEF WindowOK
<1>2. CASE l = 0
  BY <1>1, <1>2 DEF WindowOK, Recorded
<1>3. CASE l > 0
  <2> DEFINE N == {<<t, s>> : s \in S}
             I == InWindow(w, t)
             v == Recorded(w, t, S, l)
  <2>1. v = w \cup N
    BY <1>3 DEF Recorded
  <2>2. N = {t} \X S
    OBVIOUS
  <2>3. IsFiniteSet({t}) /\ Cardinality({t}) = 1
    BY FS_Singleton
  <2>4. Cardinality(S) \in Nat
    BY FS_CardinalityType
  <2>5. I \subseteq w /\ InWindow(v, t) \subseteq I \cup N
    BY <2>1 DEF InWindow
  <2> HIDE DEF N, I, v
  <2>6. IsFiniteSet(N) /\ Cardinality(N) = Cardinality(S)
    <3> DEFINE P == {t} \X S
    <3>1. IsFiniteSet(P) /\ Cardinality(P) = Cardinality({t}) * Cardinality(S)
      BY <2>3, FS_Product
    <3>2. P = N
      BY <2>2
    <3> HIDE DEF P
    <3> QED
      BY <2>3, <2>4, <3>1, <3>2
  <2>7. IsFiniteSet(I) /\ Cardinality(I) \in Nat
    BY <1>1, <2>5, FS_Subset, FS_CardinalityType
  <2>8. /\ IsFiniteSet(I \cup N) /\ Cardinality(I \cup N) \in Nat
        /\ Cardinality(I \cup N) <= Cardinality(I) + Cardinality(S)
    <3>1. /\ IsFiniteSet(I \cup N)
          /\ Cardinality(I \cup N) = Cardinality(I) + Cardinality(N) - Cardinality(I \cap N)
      BY <2>6, <2>7, FS_Union
    <3>2. Cardinality(I \cap N) \in Nat
      BY <2>7, FS_Intersection, FS_CardinalityType
    <3> DEFINE a == Cardinality(I)
               b == Cardinality(S)
               c == Cardinality(I \cap N)
               d == Cardinality(I \cup N)
    <3>3. a \in Nat /\ b \in Nat /\ c \in Nat /\ d = a + b - c /\ d \in Nat
      BY <2>4, <2>6, <2>7, <3>1, <3>2, FS_CardinalityType
    <3> HIDE DEF a, b, c, d
    <3>4. d \in Nat /\ d <= a + b
      BY <3>3
    <3> QED
      BY <3>1, <3>4 DEF a, b, d
  <2>9. Cardinality(InWindow(v, t)) \in Nat
        /\ Cardinality(InWindow(v, t)) <= Cardinality(I \cup N)
    BY <2>5, <2>8, FS_Subset, FS_CardinalityType
  <2>10. Cardinality(I) + n <= l
    <3>1. CASE n > 0
      BY <1>3, <3>1 DEF RateAllows, I
    <3>2. CASE n = 0
      BY <1>1, <1>3, <2>7, <3>2 DEF I
    <3> QED
      BY <3>1, <3>2
  <2>11. Cardinality(InWindow(v, t)) <= l
    BY <2>4, <2>7, <2>8, <2>9, <2>10
  <2>12. IsFiniteSet(v)
    BY <1>1, <2>1, <2>6, FS_Union
  <2>13. F \subseteq v
    BY <1>1, <1>3, <2>1 DEF N
  <2> QED
    BY <2>11, <2>12, <2>13 DEF WindowOK, v
<1> QED
  BY <1>2, <1>3

(* What the calls of a step add to the entries the windows must have.      *)
LEMMA SerialFollows ==
    ASSUME Core, CallsInv, NEW i \in CallIds, calls[i] # NoCall
    PROVE  \/ Leads(i) /\ Serial(i) = i
           \/ /\ ~Leads(i) /\ i > 1 /\ i - 1 \in CallIds /\ calls[i - 1] # NoCall
              /\ calls[i].group = i - 1
              /\ Serial(i) = IF calls[i - 1].tool # calls[i].tool THEN i - 1 ELSE i
BY CallFacts DEF CallsInv, CallOK, Follows, Leads, Serial, CallIds

(* The calls the windows count when calls only end.                        *)
LEMMA EndedEntries ==
    ASSUME Core, CallsInv, Ended, life' = life, NEW k \in Keys, NEW t \in Tools
    PROVE  Entries(k)' \subseteq Entries(k) /\ ToolEntries(k, t)' \subseteq ToolEntries(k, t)
<1>1. ASSUME NEW i \in CallIds, calls'[i] # NoCall PROVE calls[i] # NoCall /\ SameCall(i)
  BY <1>1 DEF Ended
<1>2. ASSUME NEW i \in CallIds, calls'[i] # NoCall PROVE Serial(i)' = Serial(i)
  <2>1. calls[i] # NoCall /\ calls'[i].group = calls[i].group /\ calls'[i].tool = calls[i].tool
    BY <1>1, <1>2 DEF SameCall
  <2>2. CASE Leads(i)
    BY <2>1, <2>2 DEF Serial, Leads
  <2>3. CASE ~Leads(i)
    <3>1. i - 1 \in CallIds /\ calls[i - 1] # NoCall
      BY <2>1, <2>3, SerialFollows
    <3>2. calls'[i - 1].tool = calls[i - 1].tool
      BY <3>1 DEF Ended, SameCall
    <3> QED
      BY <2>1, <3>2 DEF Serial, Leads
  <2> QED
    BY <2>2, <2>3
<1>3. Current(k)' \subseteq Current(k)
  BY <1>1 DEF Current, Made, SameCall
<1>4. ASSUME NEW i \in Current(k)'
      PROVE  /\ i \in CallIds /\ calls'[i] # NoCall /\ calls'[i].at = calls[i].at
             /\ calls'[i].group = calls[i].group /\ calls'[i].tool = calls[i].tool
             /\ Serial(i)' = Serial(i)
  BY <1>1, <1>2, <1>4 DEF Current, Made, SameCall
<1> QED
  BY <1>3, <1>4 DEF Entries, ToolEntries

(* A step that admits no call keeps the windows, as time passes.           *)
LEMMA EndedRates ==
    ASSUME Core, CallsInv, RateInv, Ended, life' = life, now' \in Nat, now' >= now,
           win' = win, toolWin' = toolWin
    PROVE  RateInv'
<1> SUFFICES ASSUME NEW k \in Keys
             PROVE  /\ WindowOK(win[k], now', RateLimit, Entries(k)')
                    /\ \A t \in Tools :
                         WindowOK(toolWin[k][t], now', ToolRate[t], ToolEntries(k, t)')
  BY DEF RateInv
<1>1. /\ win[k] \in SUBSET (Nat \X Nat) /\ now \in Nat
      /\ \A t \in Tools : toolWin[k][t] \in SUBSET (Nat \X Nat)
  BY DEF Core, TypeOK
<1>2. RateLimit \in Nat /\ \A t \in Tools : ToolRate[t] \in Nat
  BY GateAssumption
<1>3. WindowOK(win[k], now', RateLimit, Entries(k)')
  <2>1. Entries(k)' \in SUBSET Entries(k)
    <3>1. CASE Tools = {}
      <4>1. Current(k)' = {}
        BY <3>1, CallFacts DEF Current, Made, Ended, SameCall
      <4> QED
        BY <4>1 DEF Entries
    <3>2. CASE Tools # {}
      BY <3>2, EndedEntries
    <3> QED
      BY <3>1, <3>2
  <2>2. WindowOK(win[k], now, RateLimit, Entries(k))
    BY DEF RateInv
  <2> QED
    BY <1>1, <1>2, <2>1, <2>2, WindowTime
<1>4. ASSUME NEW t \in Tools
      PROVE  WindowOK(toolWin[k][t], now', ToolRate[t], ToolEntries(k, t)')
  <2>1. ToolEntries(k, t)' \in SUBSET ToolEntries(k, t)
    BY EndedEntries
  <2>2. WindowOK(toolWin[k][t], now, ToolRate[t], ToolEntries(k, t))
    BY DEF RateInv
  <2> QED
    BY <1>1, <1>2, <2>1, <2>2, WindowTime
<1> QED
  BY <1>3, <1>4

(* A restart empties the windows, and no call is counted any more.         *)
LEMMA RestartRates == ASSUME Core, CallsInv, Restart PROVE RateInv'
<1>1. Ended /\ life \in Nat /\ life' = life + 1
  BY RestartEnds DEF Restart, Core, TypeOK
<1>2. ASSUME NEW k PROVE Current(k)' = {}
  <2>1. ASSUME NEW i \in CallIds, calls'[i] # NoCall PROVE calls'[i].life # life'
    <3>1. calls[i] # NoCall /\ calls'[i].life = calls[i].life
      BY <1>1, <2>1 DEF Ended, SameCall
    <3>2. calls[i].life \in Nat /\ calls[i].life <= life
      BY <3>1, CallFacts DEF CallsInv, CallOK
    <3> QED
      BY <1>1, <3>1, <3>2
  <2> QED
    BY <2>1 DEF Current, Made
<1>3. /\ win' = [k \in Keys |-> {}] /\ toolWin' = [k \in Keys |-> [t \in Tools |-> {}]]
  BY DEF Restart
<1>4. RateLimit \in Nat /\ \A t \in Tools : ToolRate[t] \in Nat
  BY GateAssumption
<1>5. \A k : Entries(k)' = {} /\ \A t : ToolEntries(k, t)' = {}
  BY <1>2 DEF Entries, ToolEntries
<1>6. \A k \in Keys : win'[k] = {} /\ \A t \in Tools : toolWin'[k][t] = {}
  BY <1>3
<1> QED
  BY <1>4, <1>5, <1>6, WindowEmpty DEF RateInv

(* What an admission records: the new calls of a tool have the serials     *)
(* recorded in its window.                                                 *)
Numbered(S, i, need) ==
    \A j \in S : /\ need[calls'[j].tool] \in Nat
                 /\ Serial(j)' \in i .. (i + need[calls'[j].tool] - 1)

(* An admission adds just the entries it records.                          *)
LEMMA AdmittedEntries ==
    ASSUME Core, CallsInv, NEW k \in Keys, NEW S, NEW i \in CallIds, Admitted(k, S, i),
           NEW need, Numbered(S, i, need), NEW x \in Keys
    PROVE  /\ Entries(x)' \subseteq Entries(x) \cup (IF x = k THEN {<<now, s>> : s \in {i}} ELSE {})
           /\ \A t \in Tools : ToolEntries(x, t)' \subseteq ToolEntries(x, t) \cup
                (IF x = k THEN {<<now, s>> : s \in i .. (i + need[t] - 1)} ELSE {})
<1>1. ASSUME NEW j \in CallIds, calls'[j] # NoCall
      PROVE  \/ /\ j \in S /\ calls'[j].key = k /\ calls'[j].at = now /\ calls'[j].group = i
             \/ j \notin S /\ calls[j] # NoCall /\ calls'[j] = calls[j] /\ Serial(j)' = Serial(j)
  <2>1. CASE j \in S
    BY <2>1 DEF Admitted
  <2>2. CASE j \notin S
    <3>1. calls[j] # NoCall /\ calls'[j] = calls[j]
      BY <1>1, <2>2 DEF Admitted
    <3>2. CASE Leads(j)
      BY <2>2, <3>1, <3>2 DEF Serial, Leads
    <3>3. CASE ~Leads(j)
      <4>1. j - 1 \in CallIds /\ calls[j - 1] # NoCall
        BY <3>1, <3>3, SerialFollows
      <4>2. calls'[j - 1] = calls[j - 1]
        BY <4>1 DEF Admitted
      <4> QED
        BY <2>2, <3>1, <4>2 DEF Serial, Leads
    <3> QED
      BY <3>2, <3>3
  <2> QED
    BY <2>1, <2>2
<1>2. life' = life
  BY DEF Admitted
<1>3. ASSUME NEW j \in Current(x)'
      PROVE  \/ j \in S /\ x = k /\ calls'[j].at = now /\ calls'[j].group = i
             \/ j \in Current(x) /\ calls'[j] = calls[j] /\ Serial(j)' = Serial(j)
  BY <1>1, <1>2, <1>3 DEF Current, Made
<1>4. Entries(x)' \subseteq Entries(x) \cup (IF x = k THEN {<<now, s>> : s \in {i}} ELSE {})
  <2> SUFFICES ASSUME NEW j \in Current(x)'
               PROVE  <<calls'[j].at, calls'[j].group>> \in
                        Entries(x) \cup (IF x = k THEN {<<now, s>> : s \in {i}} ELSE {})
    BY DEF Entries
  <2> QED
    BY <1>3 DEF Entries
<1>5. ASSUME NEW t \in Tools
      PROVE  ToolEntries(x, t)' \subseteq ToolEntries(x, t) \cup
               (IF x = k THEN {<<now, s>> : s \in i .. (i + need[t] - 1)} ELSE {})
  <2> SUFFICES ASSUME NEW j \in Current(x)', calls'[j].tool = t
               PROVE  <<calls'[j].at, Serial(j)'>> \in ToolEntries(x, t) \cup
                        (IF x = k THEN {<<now, s>> : s \in i .. (i + need[t] - 1)} ELSE {})
    BY DEF ToolEntries
  <2>1. CASE j \in S /\ x = k /\ calls'[j].at = now
    <3>1. Serial(j)' \in i .. (i + need[t] - 1)
      BY <2>1 DEF Numbered
    <3> QED
      BY <2>1, <3>1
  <2>2. CASE j \in Current(x) /\ calls'[j] = calls[j] /\ Serial(j)' = Serial(j)
    BY <2>2 DEF ToolEntries
  <2> QED
    BY <1>3, <2>1, <2>2
<1> QED
  BY <1>4, <1>5

(* An admission that the windows allow keeps them within their limits.     *)
LEMMA AdmittedRates ==
    ASSUME Core, CallsInv, RateInv, NEW k \in Keys, NEW S, NEW i \in CallIds,
           Admitted(k, S, i), NEW need \in [Tools -> Nat], Numbered(S, i, need),
           now' = now,
           RateAllows(win[k], now, 1, RateLimit),
           \A t \in Tools : need[t] > 0 => ToolAllows(k, need, t),
           win' = [win EXCEPT ![k] = Recorded(@, now, {i}, RateLimit)],
           toolWin' = [toolWin EXCEPT ![k] = [t \in Tools |->
               Recorded(@[t], now, i .. (i + need[t] - 1), ToolRate[t])]]
    PROVE  RateInv'
<1> SUFFICES ASSUME NEW x \in Keys
             PROVE  /\ WindowOK(win'[x], now, RateLimit, Entries(x)')
                    /\ \A t \in Tools :
                         WindowOK(toolWin'[x][t], now, ToolRate[t], ToolEntries(x, t)')
  BY DEF RateInv
<1>1. /\ win \in [Keys -> SUBSET (Nat \X Nat)]
      /\ toolWin \in [Keys -> [Tools -> SUBSET (Nat \X Nat)]]
      /\ now \in Nat /\ i \in Nat
  BY DEF Core, TypeOK, CallIds
<1>2. /\ win[x] \in SUBSET (Nat \X Nat)
      /\ \A t \in Tools : toolWin[x][t] \in SUBSET (Nat \X Nat)
  BY <1>1
<1>3. RateLimit \in Nat /\ \A t \in Tools : ToolRate[t] \in Nat /\ need[t] \in Nat
  BY GateAssumption
<1>4. /\ WindowOK(win[x], now, RateLimit, Entries(x))
      /\ \A t \in Tools : WindowOK(toolWin[x][t], now, ToolRate[t], ToolEntries(x, t))
  BY DEF RateInv
<1>5. CASE x # k
  <2>1. Entries(x)' \in SUBSET Entries(x)
        /\ \A t \in Tools : ToolEntries(x, t)' \in SUBSET ToolEntries(x, t)
    BY <1>5, AdmittedEntries
  <2>2. win'[x] = win[x] /\ toolWin'[x] = toolWin[x]
    BY <1>1, <1>5
  <2>3. WindowOK(win[x], now, RateLimit, Entries(x)')
    <3>1. Entries(x)' \in SUBSET Entries(x) /\ WindowOK(win[x], now, RateLimit, Entries(x))
      BY <1>4, <2>1
    <3>2. win[x] \in SUBSET (Nat \X Nat) /\ now \in Nat /\ now >= now /\ RateLimit \in Nat
      BY <1>1, <1>2, <1>3
    <3> QED
      BY <3>1, <3>2, WindowTime
  <2>4. ASSUME NEW t \in Tools PROVE WindowOK(toolWin[x][t], now, ToolRate[t], ToolEntries(x, t)')
    <3>1. ToolEntries(x, t)' \in SUBSET ToolEntries(x, t)
      BY <2>1
    <3> QED
      BY <1>1, <1>2, <1>3, <1>4, <3>1, WindowTime
  <2> QED
    BY <2>2, <2>3, <2>4
<1>6. CASE x = k
  <2>1. /\ Entries(x)' \in SUBSET (Entries(x) \cup {<<now, s>> : s \in {i}})
        /\ \A t \in Tools : ToolEntries(x, t)' \in
             SUBSET (ToolEntries(x, t) \cup {<<now, s>> : s \in i .. (i + need[t] - 1)})
    BY <1>6, AdmittedEntries
  <2>2. /\ win'[x] = Recorded(win[x], now, {i}, RateLimit)
        /\ \A t \in Tools : toolWin'[x][t] =
             Recorded(toolWin[x][t], now, i .. (i + need[t] - 1), ToolRate[t])
    BY <1>1, <1>6
  <2>3. WindowOK(Recorded(win[x], now, {i}, RateLimit), now, RateLimit, Entries(x)')
    <3>1. IsFiniteSet({i}) /\ Cardinality({i}) <= 1
      <4>1. IsFiniteSet({i}) /\ Cardinality({i}) = 1
        BY FS_Singleton
      <4> QED
        BY <4>1
    <3>2. RateAllows(win[x], now, 1, RateLimit)
      BY <1>6
    <3> QED
      BY <1>1, <1>2, <1>3, <1>4, <2>1, <3>1, <3>2, WindowRecord
  <2>4. ASSUME NEW t \in Tools
        PROVE  WindowOK(Recorded(toolWin[x][t], now, i .. (i + need[t] - 1), ToolRate[t]),
                        now, ToolRate[t], ToolEntries(x, t)')
    <3> DEFINE new == i .. (i + need[t] - 1)
    <3>1. need[t] \in Nat /\ ToolRate[t] \in Nat
      BY <1>3
    <3>2. IsFiniteSet(new) /\ Cardinality(new) <= need[t]
      <4>1. i \in Int /\ i + need[t] - 1 \in Int
        BY <1>1, <3>1
      <4>2. IsFiniteSet(new)
            /\ Cardinality(new) = IF i > i + need[t] - 1 THEN 0 ELSE (i + need[t] - 1) - i + 1
        BY <4>1, FS_Interval
      <4> QED
        BY <1>1, <3>1, <4>2
    <3>3. need[t] > 0 => RateAllows(toolWin[x][t], now, need[t], ToolRate[t])
      BY <1>6 DEF ToolAllows
    <3>4. ToolEntries(x, t)' \in SUBSET (ToolEntries(x, t) \cup {<<now, s>> : s \in new})
      BY <2>1
    <3> HIDE DEF new
    <3>5. WindowOK(Recorded(toolWin[x][t], now, new, ToolRate[t]), now, ToolRate[t],
                   ToolEntries(x, t)')
      BY <1>1, <1>2, <1>4, <3>1, <3>2, <3>3, <3>4, WindowRecord
    <3> QED
      BY <3>5 DEF new
  <2> QED
    BY <2>2, <2>3, <2>4
<1> QED
  BY <1>5, <1>6

(* What RateInv says of the calls themselves.                              *)
LEMMA RatesHold == ASSUME Core, CallsInv, RateInv PROVE RateHonoured
<1> SUFFICES ASSUME NEW k \in Keys
             PROVE  /\ WithinLimit(Cardinality({calls[i].group : i \in Recent(k)}), 0, RateLimit)
                    /\ \A t \in Tools : WithinLimit(
                         Cardinality({i \in Recent(k) : calls[i].tool = t}), 0, ToolRate[t])
  BY DEF RateHonoured
<1>1. RateLimit \in Nat /\ \A t \in Tools : ToolRate[t] \in Nat
  BY GateAssumption
<1>2. \A i \in Recent(k) : /\ i \in Current(k) /\ i \in CallIds /\ calls[i] # NoCall
                           /\ calls[i].at > now - WindowLength
  BY DEF Recent, Current, Made
<1>3. ASSUME RateLimit > 0
      PROVE  WithinLimit(Cardinality({calls[i].group : i \in Recent(k)}), 0, RateLimit)
  <2> DEFINE I == InWindow(win[k], now)
             G == {calls[i].group : i \in Recent(k)}
             P == {e[2] : e \in I}
             f == [e \in I |-> e[2]]
  <2>1. IsFiniteSet(win[k]) /\ Cardinality(I) <= RateLimit /\ Entries(k) \subseteq win[k]
    BY <1>3 DEF RateInv, WindowOK
  <2>2. IsFiniteSet(I) /\ Cardinality(I) \in Nat
    BY <2>1, FS_Subset, FS_CardinalityType DEF InWindow
  <2>3. f \in Surjection(I, P)
    BY DEF Surjection
  <2>4. G \subseteq P
    <3> SUFFICES ASSUME NEW i \in Recent(k) PROVE \E e \in I : e[2] = calls[i].group
      OBVIOUS
    <3>1. <<calls[i].at, calls[i].group>> \in win[k]
      BY <1>2, <2>1 DEF Entries
    <3>2. <<calls[i].at, calls[i].group>> \in I
      BY <1>2, <3>1 DEF InWindow
    <3> QED
      BY <3>2
  <2> HIDE DEF I, G, P, f
  <2>5. IsFiniteSet(P) /\ Cardinality(P) <= Cardinality(I)
    BY <2>2, <2>3, FS_Surjection
  <2>6. Cardinality(G) <= Cardinality(P) /\ Cardinality(G) \in Nat /\ Cardinality(P) \in Nat
    BY <2>4, <2>5, FS_Subset, FS_CardinalityType
  <2>7. Cardinality(G) + 0 <= RateLimit
    BY <1>1, <2>1, <2>2, <2>5, <2>6
  <2> QED
    BY <2>7 DEF WithinLimit, G
<1>4. ASSUME NEW t \in Tools, ToolRate[t] > 0
      PROVE  WithinLimit(Cardinality({i \in Recent(k) : calls[i].tool = t}), 0, ToolRate[t])
  <2> DEFINE I == InWindow(toolWin[k][t], now)
             C == {i \in Recent(k) : calls[i].tool = t}
             f == [i \in C |-> <<calls[i].at, Serial(i)>>]
  <2>1. /\ IsFiniteSet(toolWin[k][t]) /\ Cardinality(I) <= ToolRate[t]
        /\ ToolEntries(k, t) \subseteq toolWin[k][t]
    BY <1>4 DEF RateInv, WindowOK
  <2>2. IsFiniteSet(I) /\ Cardinality(I) \in Nat
    BY <2>1, FS_Subset, FS_CardinalityType DEF InWindow
  <2>3. ASSUME NEW i \in C PROVE f[i] \in I
    <3>1. <<calls[i].at, Serial(i)>> \in toolWin[k][t]
      BY <1>2, <2>1 DEF ToolEntries
    <3> QED
      BY <1>2, <3>1 DEF InWindow
  <2>4. ASSUME NEW i \in C, NEW j \in C, f[i] = f[j] PROVE i = j
    <3>1. Serial(i) = Serial(j)
      BY <2>4
    <3>2. /\ i \in CallIds /\ j \in CallIds /\ calls[i] # NoCall /\ calls[j] # NoCall
          /\ calls[i].tool = t /\ calls[j].tool = t
      BY <1>2
    <3>3. i \in Int /\ j \in Int
      BY <3>2 DEF CallIds
    <3>4. Serial(i) = i \/ (Serial(i) = i - 1 /\ calls[i - 1].tool # t)
      BY <3>2, SerialFollows
    <3>5. Serial(j) = j \/ (Serial(j) = j - 1 /\ calls[j - 1].tool # t)
      BY <3>2, SerialFollows
    <3> QED
      BY <3>1, <3>2, <3>3, <3>4, <3>5
  <2>5. f \in Injection(C, I)
    <3>1. f \in [C -> I]
      BY <2>3
    <3>2. IsInjective(f)
      BY <2>4 DEF IsInjective
    <3> QED
      BY <3>1, <3>2 DEF Injection
  <2> HIDE DEF I, C, f
  <2>6. Cardinality(C) <= Cardinality(I) /\ Cardinality(C) \in Nat
    BY <2>2, <2>5, FS_Injection, FS_CardinalityType
  <2>7. Cardinality(C) + 0 <= ToolRate[t]
    BY <1>1, <2>1, <2>2, <2>6
  <2> QED
    BY <2>7 DEF WithinLimit, C
<1>5. ASSUME NEW l \in Nat, NEW n, l = 0 PROVE WithinLimit(n, 0, l)
  BY <1>5 DEF WithinLimit
<1> QED
  BY <1>1, <1>3, <1>4, <1>5

(* A call admitted on its own is recorded under its number.                *)
LEMMA OneNumbered ==
    ASSUME NEW k, NEW t \in Tools, NEW i \in CallIds, NEW c,
           calls'[i] = Forward(k, t, i, c)
    PROVE  Numbered({i}, i, One(t)) /\ One(t) \in [Tools -> Nat]
<1>1. Serial(i)' = i /\ calls'[i].tool = t
  BY DEF Forward, Serial, Leads
<1>2. One(t)[t] = 1 /\ i \in Int
  BY DEF One, CallIds
<1>3. i \in i .. (i + 1 - 1)
  BY <1>2
<1> QED
  BY <1>1, <1>2, <1>3 DEF Numbered, One

(* The calls of a batch are recorded under numbers of their own per tool.  *)
LEMMA PairNumbered ==
    ASSUME NEW k, NEW t \in Tools, NEW u \in Tools, NEW i \in CallIds, NEW c, NEW d,
           calls'[i] = Forward(k, t, i, c), calls'[i + 1] = Forward(k, u, i, d)
    PROVE  Numbered({i, i + 1}, i, NeedOf(t, u)) /\ NeedOf(t, u) \in [Tools -> Nat]
<1>1. Serial(i)' = i /\ calls'[i].tool = t /\ calls'[i + 1].tool = u /\ i \in Int
  BY DEF Forward, Serial, Leads, CallIds
<1>2. Serial(i + 1)' = IF t # u THEN i ELSE i + 1
  <2>1. calls'[i + 1].group = i /\ i + 1 # i /\ (i + 1) - 1 = i
    BY <1>1 DEF Forward
  <2>2. Serial(i + 1)' = IF calls'[i].tool # calls'[i + 1].tool THEN i ELSE i + 1
    BY <2>1 DEF Serial, Leads
  <2> QED
    BY <1>1, <2>2
<1>3. NeedOf(t, u) \in [Tools -> Nat]
  BY DEF NeedOf
<1>4. CASE t = u
  <2>1. NeedOf(t, u)[t] = 2
    BY <1>4 DEF NeedOf
  <2>2. i \in i .. (i + 2 - 1) /\ i + 1 \in i .. (i + 2 - 1)
    BY <1>1
  <2> QED
    BY <1>1, <1>2, <1>3, <1>4, <2>1, <2>2 DEF Numbered
<1>5. CASE t # u
  <2>1. NeedOf(t, u)[t] = 1 /\ NeedOf(t, u)[u] = 1
    BY <1>5 DEF NeedOf
  <2>2. i \in i .. (i + 1 - 1)
    BY <1>1
  <2> QED
    BY <1>1, <1>2, <1>3, <1>5, <2>1, <2>2 DEF Numbered
<1> QED
  BY <1>4, <1>5

-----------------------------------------------------------------------------
(* The quota of the day. *)

(* The count of the day, whether reset yet or not.                         *)
LEMMA TodayType ==
    ASSUME Core, NEW k \in Keys
    PROVE  Today(k) \in Nat /\ Today(k) = IF rec[k].used.day = day THEN rec[k].used.dailyCalls ELSE 0
<1>1. rec[k] \in KeyRecord
  BY DEF Core, TypeOK
<1>2. Today(k) = IF rec[k].used.day = day THEN rec[k].used.dailyCalls ELSE 0
  BY DEF Today, ResetIfNeeded
<1> QED
  BY <1>1, <1>2, RecordTypes

(* The same of the next state.                                             *)
LEMMA TodayTypeNext ==
    ASSUME Core', NEW k \in Keys
    PROVE  /\ Today(k)' \in Nat
           /\ Today(k)' = IF rec'[k].used.day = day' THEN rec'[k].used.dailyCalls ELSE 0
<1>1. rec'[k] \in KeyRecord
  BY DEF Core, TypeOK
<1>2. Today(k)' = IF rec'[k].used.day = day' THEN rec'[k].used.dailyCalls ELSE 0
  BY DEF Today, ResetIfNeeded
<1> QED
  BY <1>1, <1>2, RecordTypes

(* The calls that stand can be counted.                                    *)
LEMMA StandingFinite ==
    ASSUME NEW k
    PROVE  /\ IsFiniteSet(Standing(k)) /\ Cardinality(Standing(k)) \in Nat
           /\ IsFiniteSet(Standing(k)') /\ Cardinality(Standing(k)') \in Nat
<1>1. IsFiniteSet(CallIds)
  BY GateAssumption, FS_Interval DEF CallIds
<1>2. Standing(k) \subseteq CallIds /\ Standing(k)' \subseteq CallIds
  BY DEF Standing, Made
<1>3. IsFiniteSet(Standing(k)) /\ IsFiniteSet(Standing(k)')
  BY <1>1, <1>2, FS_Subset
<1> QED
  BY <1>3, FS_CardinalityType

(* What QuotaInv says of one key.                                          *)
QuotaOK(k) ==
    /\ Cardinality(Standing(k)) <= Today(k)
    /\ WithinLimit(Cardinality(Standing(k)), 0, GlobalQuota.dailyCalls)

(* Fewer calls standing and no less counted keep a quota.                  *)
LEMMA FewerStanding ==
    ASSUME Core, Core', NEW k \in Keys, QuotaOK(k),
           Standing(k)' \subseteq Standing(k), Today(k)' >= Today(k)
    PROVE  QuotaOK(k)'
<1>1. GlobalQuota.dailyCalls \in Nat
  BY GateAssumption DEF Quota
<1>2. /\ Cardinality(Standing(k)) \in Nat /\ Cardinality(Standing(k)') \in Nat
      /\ IsFiniteSet(Standing(k))
  BY StandingFinite
<1>3. Cardinality(Standing(k)') <= Cardinality(Standing(k))
  BY <1>2, FS_Subset
<1>4. Today(k) \in Nat /\ Today(k)' \in Nat
  BY TodayType, TodayTypeNext
<1> QED
  BY <1>1, <1>2, <1>3, <1>4 DEF QuotaOK, WithinLimit

(* No call standing keeps any quota.                                       *)
LEMMA NoneStanding ==
    ASSUME Core', NEW k \in Keys, Standing(k)' = {} PROVE QuotaOK(k)'
<1>1. Cardinality({}) = 0
  BY FS_EmptySet
<1>2. Today(k)' \in Nat
  BY TodayTypeNext
<1>3. GlobalQuota.dailyCalls \in Nat
  BY GateAssumption DEF Quota
<1> QED
  BY <1>1, <1>2, <1>3 DEF QuotaOK, WithinLimit

(* The calls standing when calls only end within the day.                  *)
LEMMA EndedStanding ==
    ASSUME Core, Ended, day' = day, NEW k \in Keys
    PROVE  Standing(k)' \subseteq Standing(k) /\ (Clean(k)' => Clean(k))
<1>1. \A i \in CallIds : calls'[i] # NoCall => calls[i] # NoCall /\ SameCall(i)
  BY DEF Ended
<1>2. \A i \in CallIds : calls[i] # NoCall => calls'[i] # NoCall /\ SameCall(i)
  BY DEF Ended, SameCall
<1> QED
  BY <1>1, <1>2 DEF Standing, Clean, Made, SameCall

(* A step that admits and settles no call keeps the quotas.                *)
LEMMA EndedQuotas ==
    ASSUME Core, Core', QuotaInv, Owned, Ended, day' = day,
           \A x \in known : Today(x)' >= Today(x)
    PROVE  QuotaInv'
<1> SUFFICES ASSUME NEW k \in Keys, Clean(k)' PROVE QuotaOK(k)'
  BY DEF QuotaInv, QuotaOK
<1>1. Standing(k)' \subseteq Standing(k) /\ Clean(k)
  BY EndedStanding
<1>2. QuotaOK(k)
  BY <1>1 DEF QuotaInv, QuotaOK
<1>3. CASE k \in known
  BY <1>1, <1>2, <1>3, FewerStanding
<1>4. CASE k \notin known
  <2>1. Standing(k) = {}
    BY <1>4 DEF Standing, Made, Owned
  <2> QED
    BY <1>1, <2>1, NoneStanding
<1> QED
  BY <1>3, <1>4

(* No call stands on a day that only begins.                               *)
LEMMA NextDayQuotas == ASSUME Core, Core', CallsInv, NextDay PROVE QuotaInv'
<1>1. day' = day + 1 /\ calls' = calls
  BY DEF NextDay
<1>2. ASSUME NEW i \in CallIds, calls[i] # NoCall PROVE calls[i].day # day'
  <2>1. calls[i].day \in Nat /\ calls[i].day <= day /\ day \in Nat
    BY <1>2, CallFacts DEF CallsInv, CallOK
  <2> QED
    BY <1>1, <2>1
<1>3. \A k : Standing(k)' = {}
  BY <1>1, <1>2 DEF Standing, Made
<1>4. \A k \in Keys : QuotaOK(k)'
  BY <1>3, NoneStanding
<1> QED
  BY <1>4 DEF QuotaInv, QuotaOK

(* A settlement takes back no more of the day's count than calls that no   *)
(* longer stand.                                                           *)
LEMMA SettleQuotas ==
    ASSUME Core, Core', CallsInv, QuotaInv, NEW i \in CallIds, NEW bad \in SUBSET CallIds,
           Settle(i, bad), NEW k \in Keys, k = calls[i].key
    PROVE  QuotaInv'
<1> SUFFICES ASSUME NEW x \in Keys, Clean(x)' PROVE QuotaOK(x)'
  BY DEF QuotaInv, QuotaOK
<1>1. Ended /\ day' = day /\ Pending(i) /\ bad \subseteq Group(i)
  BY SettleEnds DEF Settle
<1>2. Standing(x)' \subseteq Standing(x) /\ Clean(x)
  BY <1>1, EndedStanding
<1>3. QuotaOK(x)
  BY <1>2 DEF QuotaInv, QuotaOK
<1>4. CASE x # k
  <2>1. rec'[x] = rec[x]
    BY <1>4 DEF Settle, Core, TypeOK
  <2>2. Today(x)' = Today(x) /\ Today(x) \in Nat
    BY <1>1, <2>1, TodayType DEF Today
  <2> QED
    BY <1>2, <1>3, <2>2, FewerStanding
<1>5. CASE x = k
  <2> DEFINE st == Standing(x)
             b == Cardinality(bad)
             s == Cardinality(Standing(x))
             n == Cardinality(Standing(x)')
  <2>1. /\ rec'[x].used.day = rec[x].used.day
        /\ rec'[x].used.dailyCalls + b >= rec[x].used.dailyCalls
        /\ IsFiniteSet(bad) /\ b \in Nat
    BY <1>5, SettleRecord
  <2>2. ASSUME NEW j \in bad PROVE j \in st /\ j \notin Standing(x)'
    <3>1. j \in Group(i) /\ calls[j] # NoCall /\ calls[j].key = x /\ calls[j].st = "forwarded"
      BY <1>1, <1>5, <2>2, GroupFacts DEF Pending
    <3>2. calls'[j] = Failed(rec[calls[i].key], j, bad)
      BY <2>2 DEF Settle
    <3>3. calls'[j].st = "failed" /\ calls'[j].day = calls[j].day
      BY <3>1, <3>2, CallFacts DEF Failed, Call
    <3>4. calls'[j] # NoCall /\ calls'[j].key = x
      BY <1>1, <3>1 DEF Ended, SameCall
    <3>5. j \in Made(x)'
      BY <3>4 DEF Made
    <3>6. calls'[j].day = day'
      BY <3>3, <3>5 DEF Clean
    <3> QED
      BY <1>1, <3>1, <3>3, <3>6 DEF Standing, Made
  <2>3. IsFiniteSet(st) /\ s \in Nat /\ n \in Nat /\ IsFiniteSet(Standing(x)')
    BY StandingFinite
  <2>4. n + b <= s
    <3>1. bad \subseteq st /\ Standing(x)' \subseteq st \ bad /\ st \cap bad = bad
      BY <1>2, <2>2
    <3>2. IsFiniteSet(st \ bad) /\ Cardinality(st \ bad) = s - b
      BY <2>3, <3>1, FS_Difference
    <3>3. n <= Cardinality(st \ bad)
      BY <3>1, <3>2, FS_Subset
    <3> HIDE DEF b, s, n
    <3> QED
      BY <2>1, <2>3, <3>2, <3>3
  <2>5. /\ Today(x) \in Nat /\ Today(x)' \in Nat
        /\ Today(x) = IF rec[x].used.day = day THEN rec[x].used.dailyCalls ELSE 0
        /\ Today(x)' = IF rec[x].used.day = day THEN rec'[x].used.dailyCalls ELSE 0
    BY <1>1, <2>1, TodayType, TodayTypeNext
  <2>6. rec[x].used.dailyCalls \in Nat /\ rec'[x].used.dailyCalls \in Nat
    BY RecordTypes DEF Core, TypeOK
  <2>7. GlobalQuota.dailyCalls \in Nat
    BY GateAssumption DEF Quota
  <2>8. s <= Today(x) /\ WithinLimit(s, 0, GlobalQuota.dailyCalls)
    BY <1>3 DEF QuotaOK
  <2> HIDE DEF b, s, n, st
  <2>9. n <= Today(x)'
    <3>1. Today(x)' + b >= Today(x) \/ Today(x) = 0
      BY <2>1, <2>5, <2>6
    <3>2. CASE Today(x)' + b >= Today(x)
      BY <2>1, <2>3, <2>4, <2>5, <2>8, <3>2
    <3>3. CASE Today(x) = 0
      BY <2>1, <2>3, <2>4, <2>5, <2>8, <3>3
    <3> QED
      BY <3>1, <3>2, <3>3
  <2>10. WithinLimit(n, 0, GlobalQuota.dailyCalls)
    BY <2>1, <2>3, <2>4, <2>7, <2>8 DEF WithinLimit
  <2> QED
    BY <2>9, <2>10 DEF QuotaOK, n
<1> QED
  BY <1>4, <1>5

(* An admission counts the calls it adds, and the quota had room for them. *)
LEMMA AdmittedQuotas ==
    ASSUME SteadySettings, Core, Core', CallsInv, QuotaInv, NEW k \in Keys, NEW S,
           NEW i \in CallIds, Admitted(k, S, i), NEW n \in Nat, Cardinality(S) = n,
           NEW c \in Nat, RecordOK(rec[k], ledger[k], day),
           QuotaAllows(EffectiveQuota(rec[k], GlobalQuota), ResetIfNeeded(rec[k].used, day), n, c),
           rec'[k].used = QuotaRecord(rec[k].used, day, n, c),
           \A x \in Keys \ {k} : rec'[x] = rec[x]
    PROVE  QuotaInv'
<1> SUFFICES ASSUME NEW x \in Keys, Clean(x)' PROVE QuotaOK(x)'
  BY DEF QuotaInv, QuotaOK
<1>1. day' = day /\ S \subseteq CallIds /\ \A j \in CallIds \ S : calls'[j] = calls[j]
  BY DEF Admitted
<1>2. \A j \in S : /\ calls[j] = NoCall /\ calls'[j] # NoCall /\ calls'[j].st = "forwarded"
                   /\ calls'[j].key = k /\ calls'[j].day = day
  BY DEF Admitted
<1>3. Clean(x)
  BY <1>1, <1>2 DEF Clean, Made
<1>4. QuotaOK(x)
  BY <1>3 DEF QuotaInv, QuotaOK
<1>5. CASE x # k
  <2>1. Standing(x)' \subseteq Standing(x)
    BY <1>1, <1>2, <1>5 DEF Standing, Made
  <2>2. Today(x)' = Today(x) /\ Today(x) \in Nat
    BY <1>1, <1>5, TodayType DEF Today
  <2> QED
    BY <1>4, <2>1, <2>2, FewerStanding
<1>6. CASE x = k
  <2> DEFINE s == Cardinality(Standing(x))
             m == Cardinality(Standing(x)')
  <2>1. Standing(x)' = Standing(x) \cup S /\ Standing(x) \cap S = {}
    BY <1>1, <1>2, <1>6 DEF Standing, Made
  <2>2. IsFiniteSet(S) /\ IsFiniteSet(Standing(x)) /\ s \in Nat /\ m \in Nat
    <3>1. IsFiniteSet(S)
      BY <2>1, StandingFinite, FS_Subset
    <3> QED
      BY <3>1, StandingFinite
  <2>3. m = s + n
    <3>1. Cardinality({}) = 0
      BY FS_EmptySet
    <3>2. Cardinality(Standing(x) \cup S)
            = Cardinality(Standing(x)) + Cardinality(S) - Cardinality(Standing(x) \cap S)
      BY <2>2, FS_Union
    <3>3. m = s + n - 0
      BY <2>1, <3>1, <3>2
    <3> HIDE DEF s, m
    <3> QED
      BY <2>2, <3>3
  <2>4. Today(x) \in Nat /\ Today(x)' = Today(x) + n
    <3>1. rec'[x].used.day = day /\ rec'[x].used.dailyCalls = Today(x) + n
      BY <1>6 DEF QuotaRecord, CountUsage, ResetIfNeeded, Today
    <3> QED
      BY <1>1, <3>1, TodayType, TodayTypeNext
  <2>5. WithinLimit(Today(x), n, EffectiveQuota(rec[x], GlobalQuota).dailyCalls)
    BY <1>6 DEF QuotaAllows, Today
  <2>6. WithinLimit(Today(x), n, GlobalQuota.dailyCalls)
    <3>1. GlobalQuota.dailyCalls \in Nat
      BY GateAssumption DEF Quota
    <3>2. CASE ~rec[x].quota.on \/ GlobalQuota.dailyCalls = 0
      BY <2>5, <3>2 DEF EffectiveQuota, WithinLimit
    <3>3. CASE rec[x].quota.on /\ GlobalQuota.dailyCalls > 0
      <4>1. rec[x].quota \in KeyQuotas
        BY <1>6, <3>3 DEF RecordOK, NoQuota
      <4>2. rec[x].quota.dailyCalls \in 1 .. GlobalQuota.dailyCalls
        BY <3>3, <4>1 DEF SteadySettings
      <4> QED
        BY <2>4, <2>5, <3>1, <3>3, <4>2 DEF EffectiveQuota, WithinLimit
    <3> QED
      BY <3>1, <3>2, <3>3
  <2>7. s <= Today(x)
    BY <1>4 DEF QuotaOK
  <2>8. GlobalQuota.dailyCalls \in Nat
    BY GateAssumption DEF Quota
  <2> HIDE DEF s, m
  <2>9. m <= Today(x)' /\ WithinLimit(m, 0, GlobalQuota.dailyCalls)
    BY <2>2, <2>3, <2>4, <2>6, <2>7, <2>8 DEF WithinLimit
  <2> QED
    BY <2>9 DEF QuotaOK, m
<1> QED
  BY <1>5, <1>6

-----------------------------------------------------------------------------
(* The budgets of teams. *)

(* A team's numbers, and what its members were charged.                    *)
LEMMA TeamTypes ==
    ASSUME Core, NEW t \in TeamIds
    PROVE  /\ team[t] \in TeamRecord /\ team[t].totalSpent \in Nat /\ team[t].budget \in Nat
           /\ Priced(calls, Joint(t)) /\ Charged(Joint(t)) \in Nat
           /\ Charged(Joint(t)) = Bill(calls, Joint(t))
<1>1. team[t] \in TeamRecord /\ team[t].totalSpent \in Nat /\ team[t].budget \in Nat
  BY DEF Core, TypeOK, TeamRecord
<1>2. Priced(calls, Joint(t))
  BY CallFacts DEF Priced, Joint
<1>3. Bill(calls, Joint(t)) \in Nat
  BY <1>2, UnitsFinite
<1> QED
  BY <1>1, <1>2, <1>3, ChargedIsBill

(* What members were charged, in the next state.                           *)
LEMMA ChargedNext == ASSUME NEW t PROVE Charged(Joint(t))' = Bill(calls', Joint(t)')
BY DEF Charged, Units, Bill, UnitsIn

(* A step that admits no call keeps what a team's members were charged.    *)
LEMMA EndedJoint ==
    ASSUME Core, Ended, life' = life, NEW t \in TeamIds
    PROVE  Joint(t)' = Joint(t) /\ Charged(Joint(t))' = Charged(Joint(t))
<1>1. \A i \in CallIds : /\ calls'[i] # NoCall => calls[i] # NoCall
                         /\ calls[i] # NoCall => calls'[i] # NoCall /\ SameCall(i)
  BY DEF Ended, SameCall
<1>2. Joint(t)' = Joint(t)
  BY <1>1 DEF Joint, SameCall
<1>3. \A i \in Joint(t) : calls'[i].charged = calls[i].charged
  BY <1>1 DEF Joint, SameCall
<1> QED
  BY <1>2, <1>3, ChargedNext, ChargedIsBill, BillSame

(* A step that admits no call keeps the budgets.                           *)
LEMMA EndedTeams ==
    ASSUME Core, TeamInv, Ended, life' = life, team' = team, teamOf' = teamOf
    PROVE  TeamInv'
<1>1. \A k \in Keys : InTeam(k)' => team'[teamOf'[k]].exists
  BY DEF TeamInv, InTeam
<1>2. ASSUME NEW t \in TeamIds PROVE TeamOK(t)'
  BY EndedJoint DEF TeamInv, TeamOK
<1> QED
  BY <1>1, <1>2 DEF TeamInv

(* An admission a team's budget has room for keeps the budget.             *)
LEMMA AdmittedTeams ==
    ASSUME Core, Core', TeamInv, NEW k \in Keys, NEW S, NEW i \in CallIds, Admitted(k, S, i),
           NEW c \in Nat, Bill(calls', S) = c, NEW d \in Nat,
           TeamAllows(k, c, d), TeamRecordUsage(k, c, d)
    PROVE  TeamInv'
<1>1. team \in [TeamIds -> TeamRecord] /\ teamOf' = teamOf
      /\ teamOf[k] \in TeamIds \cup {NoTeam} /\ NoTeam \notin TeamIds
  BY TeamsAssumption DEF Core, TypeOK, TeamRecordUsage
<1>2. life' = life /\ S \subseteq CallIds
      /\ (\A j \in CallIds \ S : calls'[j] = calls[j])
      /\ \A j \in S : /\ calls[j] = NoCall /\ calls'[j] # NoCall /\ calls'[j].life = life
                      /\ calls'[j].team = teamOf[k] /\ calls'[j].charged \in Nat
  BY DEF Admitted
<1>3. \A t \in TeamIds :
        /\ team'[t].exists = team[t].exists /\ team'[t].active = team[t].active
        /\ team'[t].budget = team[t].budget
        /\ team'[t].totalSpent = team[t].totalSpent + IF t = teamOf[k] THEN c ELSE 0
  <2> TAKE t \in TeamIds
  <2>1. team[t].totalSpent \in Nat
    BY TeamTypes
  <2>2. CASE t = teamOf[k]
    <3>1. team'[t] = CountTeamUsage(team[t], c, d)
      BY <1>1, <2>2 DEF TeamRecordUsage, InTeam
    <3> QED
      BY <1>1, <2>2, <3>1 DEF CountTeamUsage, TeamRecord
  <2>3. CASE t # teamOf[k]
    <3>1. team'[t] = team[t]
      BY <1>1, <2>3 DEF TeamRecordUsage
    <3> QED
      BY <2>1, <2>3, <3>1
  <2> QED
    BY <2>2, <2>3
<1>4. ASSUME NEW t \in TeamIds, t # teamOf[k] PROVE TeamOK(t)'
  <2>1. Joint(t)' = Joint(t)
    BY <1>2, <1>4 DEF Joint
  <2>2. \A j \in Joint(t) : calls'[j].charged = calls[j].charged
    BY <1>2 DEF Joint
  <2>3. Charged(Joint(t))' = Charged(Joint(t))
    BY <2>1, <2>2, ChargedNext, ChargedIsBill, BillSame
  <2>4. team'[t].totalSpent = team[t].totalSpent
    BY <1>3, <1>4, TeamTypes
  <2>5. TeamOK(t)
    BY DEF TeamInv
  <2> QED
    BY <1>3, <2>1, <2>3, <2>4, <2>5 DEF TeamOK
<1>5. ASSUME NEW t \in TeamIds, t = teamOf[k] PROVE TeamOK(t)'
  <2>1. InTeam(k) /\ team[t].exists
    BY <1>1, <1>5 DEF InTeam, TeamInv
  <2>2. TeamOK(t) /\ WithinLimit(team[t].totalSpent, c, team[t].budget)
    BY <1>5, <2>1 DEF TeamInv, TeamAllows
  <2>3. /\ team[t].budget \in Budgets /\ Charged(Joint(t)) <= team[t].totalSpent
        /\ Charged(Joint(t)) \in Nat /\ team[t].totalSpent \in Nat /\ team[t].budget \in Nat
        /\ Priced(calls, Joint(t)) /\ Charged(Joint(t)) = Bill(calls, Joint(t))
    BY <2>1, <2>2, TeamTypes DEF TeamOK
  <2>4. Joint(t)' = Joint(t) \cup S /\ Joint(t) \cap S = {}
    BY <1>2, <1>5 DEF Joint
  <2>5. \A j \in Joint(t) : calls'[j].charged = calls[j].charged
    BY <1>2, <2>4 DEF Joint
  <2>6. Bill(calls', Joint(t)) = Bill(calls, Joint(t))
    BY <2>5, BillSame
  <2>7. Priced(calls', Joint(t)) /\ Priced(calls', S)
    BY <1>2, <2>3, <2>5 DEF Priced
  <2>8. Bill(calls', Joint(t) \cup S) = Bill(calls', Joint(t)) + Bill(calls', S)
    BY <2>4, <2>7, BillUnion
  <2>9. Charged(Joint(t))' = Charged(Joint(t)) + c
    BY <2>3, <2>4, <2>6, <2>8, ChargedNext
  <2>10. team'[t].totalSpent = team[t].totalSpent + c
    BY <1>3, <1>5
  <2>11. Charged(Joint(t))' <= team'[t].totalSpent
         /\ WithinLimit(team'[t].totalSpent, 0, team'[t].budget)
    BY <1>3, <2>2, <2>3, <2>9, <2>10 DEF WithinLimit
  <2> QED
    BY <1>3, <2>1, <2>3, <2>11 DEF TeamOK
<1>6. ASSUME NEW x \in Keys, InTeam(x)' PROVE team'[teamOf'[x]].exists
  <2>1. InTeam(x) /\ teamOf[x] \in TeamIds
    BY <1>1, <1>6 DEF InTeam, Core, TypeOK
  <2>2. team[teamOf[x]].exists
    BY <2>1 DEF TeamInv
  <2> QED
    BY <1>1, <1>3, <2>1, <2>2
<1> QED
  BY <1>4, <1>5, <1>6 DEF TeamInv

(* A restart leaves no team, and no call charged under one.                *)
LEMMA RestartTeams == ASSUME Core, CallsInv, Restart PROVE TeamInv'
<1>1. Ended /\ life \in Nat /\ life' = life + 1
  BY RestartEnds DEF Restart, Core, TypeOK
<1>2. ASSUME NEW i \in CallIds, calls'[i] # NoCall PROVE calls'[i].life # life'
  <2>1. calls[i] # NoCall /\ calls'[i].life = calls[i].life
    BY <1>1, <1>2 DEF Ended, SameCall
  <2>2. calls[i].life \in Nat /\ calls[i].life <= life
    BY <2>1, CallFacts DEF CallsInv, CallOK
  <2> QED
    BY <1>1, <2>1, <2>2
<1>3. \A t : Joint(t)' = {}
  BY <1>2 DEF Joint
<1>4. team' = [t \in TeamIds |-> BlankTeam] /\ teamOf' = [k \in Keys |-> NoTeam]
  BY DEF Restart
<1>5. ~BlankTeam.exists /\ ~BlankTeam.active
  BY DEF BlankTeam
<1>6. \A t \in TeamIds : TeamOK(t)'
  BY <1>3, <1>4, <1>5 DEF TeamOK
<1>7. \A k \in Keys : ~InTeam(k)'
  BY <1>4 DEF InTeam
<1> QED
  BY <1>6, <1>7 DEF TeamInv

(* Teams come, change and go, and keys with them.                          *)
LEMMA AdministeredTeams ==
    ASSUME SteadySettings, Core, TeamInv, TeamAdmin PROVE TeamInv'
<1>1. calls' = calls /\ life' = life /\ day' = day
  BY DEF TeamAdmin, gateVars
<1>2. /\ team \in [TeamIds -> TeamRecord] /\ teamOf \in [Keys -> TeamIds \cup {NoTeam}]
      /\ NoTeam \notin TeamIds /\ Budgets \subseteq Nat
  BY TeamsAssumption DEF Core, TypeOK
<1>3. \A t : Joint(t)' = Joint(t) /\ Charged(Joint(t))' = Charged(Joint(t))
  BY <1>1 DEF Joint, Charged, Units
<1>4. \A t \in TeamIds : TeamOK(t)
  BY DEF TeamInv
<1>5. \A k \in Keys : InTeam(k) => teamOf[k] \in TeamIds /\ team[teamOf[k]].exists
  BY <1>2 DEF TeamInv, InTeam
<1>6. ASSUME NEW t \in TeamIds, team'[t] = team[t] PROVE TeamOK(t)'
  BY <1>3, <1>4, <1>6 DEF TeamOK
<1>7. ASSUME NEW t \in TeamIds, NEW b \in Budgets, NEW q, CreateTeam(t, b, q, day)
      PROVE  TeamInv'
  <2>1. /\ ~team[t].exists /\ teamOf' = teamOf
        /\ \A s \in TeamIds \ {t} : team'[s] = team[s]
        /\ team'[t].exists /\ team'[t].budget = b /\ team'[t].totalSpent = 0
    BY <1>2, <1>7 DEF CreateTeam
  <2>2. Charged(Joint(t))' = 0
    <3>1. Joint(t) = {}
      BY <1>4, <2>1 DEF TeamOK
    <3>2. Charged({}) = 0
      BY ChargedIsBill, BillNone
    <3> QED
      BY <1>3, <3>1, <3>2
  <2>3. WithinLimit(0, 0, b)
    BY <1>2 DEF WithinLimit
  <2>4. TeamOK(t)'
    BY <2>1, <2>2, <2>3 DEF TeamOK
  <2>5. \A k \in Keys : InTeam(k)' => team'[teamOf'[k]].exists
    BY <1>5, <2>1 DEF InTeam
  <2> QED
    BY <1>6, <2>1, <2>4, <2>5 DEF TeamInv
<1>8. ASSUME NEW t \in TeamIds, NEW b \in Budgets, NEW q, UpdateTeam(t, b, q)
      PROVE  TeamInv'
  <2>1. /\ team[t].active /\ teamOf' = teamOf
        /\ \A s \in TeamIds \ {t} : team'[s] = team[s]
        /\ team'[t].exists = team[t].exists /\ team'[t].active = team[t].active
        /\ team'[t].budget = b /\ team'[t].totalSpent = team[t].totalSpent
    BY <1>2, <1>8 DEF UpdateTeam, TeamRecord
  <2>2. team[t].exists /\ team[t].budget = b
    BY <1>4, <2>1 DEF TeamOK, SteadySettings
  <2>3. TeamOK(t)'
    BY <1>3, <1>4, <2>1, <2>2 DEF TeamOK
  <2>4. \A k \in Keys : InTeam(k)' => team'[teamOf'[k]].exists
    BY <1>5, <2>1 DEF InTeam
  <2> QED
    BY <1>6, <2>1, <2>3, <2>4 DEF TeamInv
<1>9. ASSUME NEW t \in TeamIds, DeleteTeam(t) PROVE TeamInv'
  <2>1. /\ team[t].active
        /\ \A s \in TeamIds \ {t} : team'[s] = team[s]
        /\ team'[t].exists = team[t].exists
        /\ team'[t].budget = team[t].budget /\ team'[t].totalSpent = team[t].totalSpent
    BY <1>2, <1>9 DEF DeleteTeam, TeamRecord
  <2>2. TeamOK(t)'
    BY <1>3, <1>4, <2>1 DEF TeamOK
  <2>3. \A k \in Keys : teamOf'[k] = teamOf[k] \/ teamOf'[k] = NoTeam
    BY <1>9 DEF DeleteTeam
  <2>4. \A k \in Keys : InTeam(k)' => team'[teamOf'[k]].exists
    BY <1>5, <2>1, <2>3 DEF InTeam
  <2> QED
    BY <1>6, <2>1, <2>2, <2>4 DEF TeamInv
<1>10. ASSUME NEW t \in TeamIds, NEW k \in Keys, AssignKey(t, k) \/ RemoveKey(t, k)
       PROVE  TeamInv'
  <2>1. team' = team
    BY <1>10 DEF AssignKey, RemoveKey
  <2>2. AssignKey(t, k) => team[t].exists
    BY <1>4 DEF TeamOK, AssignKey
  <2>3. \A x \in Keys : \/ teamOf'[x] = teamOf[x] \/ teamOf'[x] = NoTeam
                        \/ teamOf'[x] = t /\ team[t].exists
    BY <1>2, <1>10, <2>2 DEF AssignKey, RemoveKey
  <2>4. \A x \in Keys : InTeam(x)' => team'[teamOf'[x]].exists
    BY <1>5, <2>1, <2>3 DEF InTeam
  <2> QED
    BY <1>6, <2>1, <2>4 DEF TeamInv
<1> QED
  BY <1>7, <1>8, <1>9, <1>10 DEF TeamAdmin

-----------------------------------------------------------------------------
(* The steps. *)

(* The limits that bind as long as shadow mode was never on.               *)
Bound == RateInv /\ QuotaInv /\ TeamInv

(* At first nothing is counted.                                            *)
LEMMA InitLimits == Init => RecordsInv /\ Bound
<1> SUFFICES ASSUME Init PROVE RecordsInv /\ Bound
  OBVIOUS
<1>1. RecordsInv
  BY InitRecords
<1>2. \A i \in CallIds : calls[i] = NoCall
  BY DEF Init
<1>3. \A k : Made(k) = {} /\ Current(k) = {} /\ Standing(k) = {}
  BY <1>2 DEF Made, Current, Standing
<1>4. RateInv
  <2>1. \A k : Entries(k) = {} /\ \A t : ToolEntries(k, t) = {}
    BY <1>3 DEF Entries, ToolEntries
  <2>2. \A k \in Keys : win[k] = {} /\ \A t \in Tools : toolWin[k][t] = {}
    BY DEF Init
  <2>3. RateLimit \in Nat /\ \A t \in Tools : ToolRate[t] \in Nat
    BY GateAssumption
  <2> QED
    BY <2>1, <2>2, <2>3, WindowEmpty DEF RateInv
<1>5. QuotaInv
  <2>1. Cardinality({}) = 0 /\ GlobalQuota.dailyCalls \in Nat
    BY FS_EmptySet, GateAssumption DEF Quota
  <2>2. Core
    BY InitInv DEF IInv
  <2>3. \A k \in Keys : Today(k) \in Nat
    BY <2>2, TodayType
  <2> QED
    BY <1>3, <2>1, <2>3 DEF QuotaInv, WithinLimit
<1>6. TeamInv
  <2>1. /\ team = [t \in TeamIds |-> BlankTeam] /\ teamOf = [k \in Keys |-> NoTeam]
        /\ ~BlankTeam.exists /\ ~BlankTeam.active
    BY DEF Init, TeamsInit, BlankTeam
  <2>2. \A t : Joint(t) = {}
    BY <1>2 DEF Joint
  <2> QED
    BY <2>1, <2>2 DEF TeamInv, TeamOK, InTeam
<1> QED
  BY <1>1, <1>4, <1>5, <1>6 DEF Bound

(* Calls admitted because every check passed.                              *)
LEMMA SoldBound ==
    ASSUME SteadySettings, Core, Core', CallsInv, RecordsInv, Bound,
           NEW k \in Keys, NEW S, NEW i \in CallIds, Admitted(k, S, i),
           NEW need \in [Tools -> Nat], Numbered(S, i, need), NEW n \in Nat, NEW c \in Nat,
           NEW o, Passes(k, need, n, c, o), Cardinality(S) = n, Bill(calls', S) = c,
           Charge(k, i, need, n, c), now' = now
    PROVE  Bound'
<1>1. RecordOK(rec[k], ledger[k], day) /\ day \in Nat
  BY DEF RecordsInv, Core, TypeOK
<1>2. RateInv'
  <2>1. /\ RateAllows(win[k], now, 1, RateLimit)
        /\ \A t \in Tools : need[t] > 0 => ToolAllows(k, need, t)
    BY DEF Passes, ReachesQuota
  <2>2. /\ win' = [win EXCEPT ![k] = Recorded(@, now, {i}, RateLimit)]
        /\ toolWin' = [toolWin EXCEPT ![k] = [t \in Tools |->
             Recorded(@[t], now, i .. (i + need[t] - 1), ToolRate[t])]]
    BY DEF Charge
  <2> QED
    BY <2>1, <2>2, AdmittedRates DEF Bound
<1>3. QuotaInv'
  <2>1. QuotaAllows(EffectiveQuota(rec[k], GlobalQuota), ResetIfNeeded(rec[k].used, day), n, c)
    BY DEF Passes
  <2>2. rec'[k].used = QuotaRecord(rec[k].used, day, n, c)
    BY <1>1, ChargeRecord
  <2>3. \A x \in Keys \ {k} : rec'[x] = rec[x]
    BY ChargeElsewhere DEF Unmoved
  <2> QED
    BY <1>1, <2>1, <2>2, <2>3, AdmittedQuotas DEF Bound
<1>4. TeamInv'
  <2>1. TeamAllows(k, c, day) /\ TeamRecordUsage(k, c, day)
    BY DEF Passes, Charge
  <2> QED
    BY <1>1, <2>1, AdmittedTeams DEF Bound
<1> QED
  BY <1>2, <1>3, <1>4 DEF Bound

(* Steps of a day that admit no call and take nothing off a counter.       *)
LEMMA EndedBound ==
    ASSUME Core, Core', CallsInv, Owned, Bound, Ended, day' = day, life' = life,
           now' >= now, win' = win, toolWin' = toolWin, team' = team, teamOf' = teamOf,
           \A x \in known : Today(x)' >= Today(x)
    PROVE  Bound'
<1>1. now' \in Nat
  BY DEF Core, TypeOK
<1>2. RateInv'
  BY <1>1, EndedRates DEF Bound
<1>3. QuotaInv'
  BY EndedQuotas DEF Bound
<1>4. TeamInv'
  BY EndedTeams DEF Bound
<1> QED
  BY <1>2, <1>3, <1>4 DEF Bound

(* Steps that leave the calls and the counters of keys in use alone.       *)
LEMMA QuietBound ==
    ASSUME Core, Core', CallsInv, Owned, Bound, calls' = calls, day' = day, life' = life,
           now' >= now, win' = win, toolWin' = toolWin, team' = team, teamOf' = teamOf,
           UsedKept
    PROVE  Bound'
<1>1. day \in Nat /\ known \subseteq Keys
  BY DEF Core, TypeOK
<1>2. Ended
  BY <1>1, QuietEnds
<1>3. ASSUME NEW x \in known PROVE Today(x)' >= Today(x)
  <2>1. Today(x)' = Today(x)
    BY <1>3 DEF UsedKept, Today
  <2> QED
    BY <1>1, <2>1, TodayType
<1> QED
  BY <1>2, <1>3, EndedBound

(* A refusal admits no call unless shadow mode is on.                      *)
LEMMA RefusedBound ==
    ASSUME BInv, BInv', Bound, ~shadow.ever,
           NEW k \in Keys, NEW t \in Tools, NEW u \in Tools, NEW o \in Origins,
           EvaluateRefused(k, t, o) \/ EvaluateBatchRefused(k, t, u, o)
    PROVE  Bound'
<1>1. Core /\ Core' /\ CallsInv /\ Owned /\ ~shadow.on
  BY DEF BInv, BillsInv, IInv
<1>2. /\ calls' = calls /\ day' = day /\ life' = life /\ now' = now
      /\ win' = win /\ toolWin' = toolWin /\ team' = team /\ teamOf' = teamOf
      /\ \E need, c : rec' = Touched(k, need, c, o)
  BY <1>1 DEF EvaluateRefused, EvaluateBatchRefused, teamVars
<1>3. Ended /\ now \in Nat
  BY <1>1, <1>2, QuietEnds DEF Core, TypeOK
<1>4. ASSUME NEW x \in known PROVE Today(x)' >= Today(x)
  <2>1. x \in Keys
    BY <1>1 DEF Core, TypeOK
  <2>2. \/ rec'[x].used = rec[x].used
        \/ rec'[x].used = ResetIfNeeded(rec[x].used, day)
    BY <1>1, <1>2, <2>1, TouchedRecords
  <2>3. Today(x)' = Today(x)
    BY <1>2, <2>2 DEF Today, ResetIfNeeded
  <2> QED
    BY <1>1, <2>1, <2>3, TodayType
<1> QED
  BY <1>1, <1>2, <1>3, <1>4, EndedBound

(* Every operation of the gate stays within the limits.                    *)
LEMMA OperationsBound ==
    ASSUME SteadySettings, BInv, BInv', RecordsInv, Bound, ~shadow.ever, Operations
    PROVE  Bound'
<1>1. Core /\ Core' /\ CallsInv /\ Owned
  BY DEF BInv, BillsInv, IInv
<1>2. \A t \in Tools : Price[t] \in Nat
  BY GateAssumption
<1>3. now \in Nat
  BY <1>1 DEF Core, TypeOK
<1>4. ASSUME NEW k \in Keys, NEW t \in Tools, NEW o \in Origins, Evaluate(k, t, o)
      PROVE  Bound'
  <2>1. PICK i \in CallIds : /\ Fresh(i) /\ Charge(k, i, One(t), 1, Price[t])
                             /\ calls' = [calls EXCEPT ![i] = Forward(k, t, i, Price[t])]
    BY <1>4 DEF Evaluate
  <2>2. /\ Passes(k, One(t), 1, Price[t], o)
        /\ day' = day /\ life' = life /\ now' = now /\ Price[t] \in Nat
    BY <1>2, <1>4 DEF Evaluate
  <2>3. Admitted(k, {i}, i) /\ calls'[i] = Forward(k, t, i, Price[t])
    BY <1>1, <2>1, <2>2, OneAdmitted
  <2>4. Numbered({i}, i, One(t)) /\ One(t) \in [Tools -> Nat]
    BY <2>3, OneNumbered
  <2>5. calls'[i].charged = Price[t]
    BY <2>3 DEF Forward
  <2>6. Bill(calls', {i}) = Price[t] /\ Cardinality({i}) = 1
    BY <2>2, <2>5, BillOne, FS_Singleton
  <2> QED
    BY <1>1, <2>1, <2>2, <2>3, <2>4, <2>6, SoldBound
<1>5. ASSUME NEW k \in Keys, NEW t \in Tools, NEW u \in Tools, NEW o \in Origins,
             EvaluateBatch(k, t, u, o)
      PROVE  Bound'
  <2> DEFINE c == Price[t] + Price[u]
  <2>1. PICK i \in CallIds : /\ Fresh(i) /\ i < Calls /\ Charge(k, i, NeedOf(t, u), 2, c)
                             /\ calls' = Pair(k, t, u, i, Price[t], Price[u])
    BY <1>5 DEF EvaluateBatch
  <2>2. /\ Passes(k, NeedOf(t, u), 2, c, o)
        /\ day' = day /\ life' = life /\ now' = now
    BY <1>5 DEF EvaluateBatch
  <2>3. Price[t] \in Nat /\ Price[u] \in Nat /\ c \in Nat
    BY <1>2
  <2>4. /\ Admitted(k, {i, i + 1}, i)
        /\ calls'[i] = Forward(k, t, i, Price[t]) /\ calls'[i + 1] = Forward(k, u, i, Price[u])
    <3>1. /\ Core /\ CallsInv /\ Fresh(i) /\ i < Calls
          /\ calls' = Pair(k, t, u, i, Price[t], Price[u]) /\ day' = day /\ life' = life
      BY <1>1, <2>1, <2>2
    <3>2. PICK p \in Nat, q \in Nat : p = Price[t] /\ q = Price[u]
      BY <2>3
    <3>3. calls' = Pair(k, t, u, i, p, q)
      BY <3>1, <3>2
    <3>4. /\ Admitted(k, {i, i + 1}, i)
          /\ calls'[i] = Forward(k, t, i, p) /\ calls'[i + 1] = Forward(k, u, i, q)
      BY <3>1, <3>3, PairAdmitted
    <3> QED
      BY <3>2, <3>4
  <2>5. Numbered({i, i + 1}, i, NeedOf(t, u)) /\ NeedOf(t, u) \in [Tools -> Nat]
    BY <2>4, PairNumbered
  <2>6. calls'[i].charged = Price[t] /\ calls'[i + 1].charged = Price[u]
    BY <2>4 DEF Forward
  <2>7. i + 1 \in CallIds /\ i + 1 # i
    BY <2>1, GateAssumption DEF CallIds
  <2>8. Bill(calls', {i, i + 1}) = c
    BY <2>3, <2>6, <2>7, PairBilled
  <2>9. Cardinality({i, i + 1}) = 2
    <3>1. IsFiniteSet({i}) /\ Cardinality({i}) = 1
      BY FS_Singleton
    <3>2. Cardinality({i} \cup {i + 1}) = Cardinality({i}) + 1
      BY <2>7, <3>1, FS_AddElement
    <3>3. {i} \cup {i + 1} = {i, i + 1}
      OBVIOUS
    <3> QED
      BY <3>1, <3>2, <3>3
  <2> HIDE DEF c
  <2> QED
    BY <1>1, <2>1, <2>2, <2>3, <2>4, <2>5, <2>8, <2>9, SoldBound
<1>6. ASSUME NEW k \in Keys, NEW t \in Tools, NEW u \in Tools, NEW o \in Origins,
             EvaluateRefused(k, t, o) \/ EvaluateBatchRefused(k, t, u, o)
      PROVE  Bound'
  BY <1>6, RefusedBound
<1>7. ASSUME NEW i \in CallIds, NEW bad \in SUBSET CallIds, Settle(i, bad)
      PROVE  Bound'
  <2>1. PICK k \in Keys : k = calls[i].key
    BY <1>1, <1>7, GroupFacts, CallFacts DEF Settle, Pending, Group
  <2>2. /\ Ended /\ life' = life /\ now' = now /\ win' = win /\ toolWin' = toolWin
        /\ team' = team /\ teamOf' = teamOf
    BY <1>1, <1>7, SettleEnds DEF Settle, teamVars
  <2>3. RateInv'
    BY <1>1, <1>3, <2>2, EndedRates DEF Bound
  <2>4. QuotaInv'
    BY <1>1, <1>7, <2>1, SettleQuotas DEF Bound
  <2>5. TeamInv'
    BY <1>1, <2>2, EndedTeams DEF Bound
  <2> QED
    BY <2>3, <2>4, <2>5 DEF Bound
<1>8. ASSUME NEW i \in CallIds, Lose(i) PROVE Bound'
  <2>1. /\ Ended /\ day' = day /\ life' = life /\ now' = now /\ win' = win /\ toolWin' = toolWin
        /\ team' = team /\ teamOf' = teamOf /\ rec' = rec
    BY <1>1, <1>8, LoseEnds DEF Lose, teamVars
  <2>2. ASSUME NEW x \in known PROVE Today(x)' >= Today(x)
    <3>1. Today(x)' = Today(x) /\ x \in Keys
      BY <1>1, <2>1, <2>2 DEF Today, Core, TypeOK
    <3> QED
      BY <1>1, <3>1, TodayType
  <2> QED
    BY <1>1, <1>3, <2>1, <2>2, EndedBound
<1> QED
  BY <1>4, <1>5, <1>6, <1>7, <1>8 DEF Operations

(* Every step of the administrator leaves the limits unpassed.             *)
LEMMA AdministrationBound ==
    ASSUME SteadySettings, BInv, BInv', RecordsInv, Bound, ~shadow.ever, Administration
    PROVE  Bound'
<1>1. Core /\ Core' /\ CallsInv /\ Owned /\ IInv
  BY DEF BInv, BillsInv, IInv
<1>2. UsedKept /\ now \in Nat
  BY <1>1, AdministrationRecords DEF Core, TypeOK
<1>3. CASE UNCHANGED Rest
  BY <1>1, <1>2, <1>3, QuietBound DEF Rest, teamVars
<1>4. CASE \E s \in ShadowModes : UpdateConfig(s)
  BY <1>1, <1>2, <1>4, QuietBound DEF UpdateConfig, teamVars
<1>5. CASE TeamAdmin
  <2>1. /\ calls' = calls /\ day' = day /\ life' = life /\ now' = now /\ rec' = rec
        /\ win' = win /\ toolWin' = toolWin
    BY <1>5 DEF TeamAdmin, gateVars
  <2>2. Ended /\ day \in Nat
    BY <1>1, <2>1, QuietEnds DEF Core, TypeOK
  <2>3. RateInv'
    BY <1>1, <1>2, <2>1, <2>2, EndedRates DEF Bound
  <2>4. ASSUME NEW x \in known PROVE Today(x)' >= Today(x)
    <3>1. Today(x)' = Today(x) /\ x \in Keys
      BY <1>1, <2>1, <2>4 DEF Today, Core, TypeOK
    <3> QED
      BY <1>1, <3>1, TodayType
  <2>5. QuotaInv'
    BY <1>1, <2>1, <2>2, <2>4, EndedQuotas DEF Bound
  <2>6. TeamInv'
    BY <1>1, <1>5, AdministeredTeams DEF Bound
  <2> QED
    BY <2>3, <2>5, <2>6 DEF Bound
<1>6. UNCHANGED Rest \/ (\E s \in ShadowModes : UpdateConfig(s)) \/ TeamAdmin
  BY DEF Administration, CreateKey, TopUp, CloneKey, Transfer, Rotate, Suspend, Resume, Revoke,
         SetExpiry, SetQuota, SetSpendingLimit, SetAutoTopup, Edit
<1> QED
  BY <1>3, <1>4, <1>5, <1>6

(* The clock, midnight and a crash leave the limits unpassed.              *)
LEMMA EnvironmentBound ==
    ASSUME BInv, BInv', RecordsInv, Bound, ~shadow.ever,
           Tick \/ NextDay \/ Crash \/ \E k \in Keys, t \in Tools : CrashInEvaluate(k, t)
    PROVE  Bound'
<1>1. /\ Core /\ Core' /\ CallsInv /\ Owned /\ IInv
      /\ now \in Nat /\ day \in Nat /\ known \subseteq Keys
  BY DEF BInv, BillsInv, IInv, Core, TypeOK
<1>2. UsedKept
  BY <1>1, EnvironmentRecords
<1>3. CASE Tick
  <2>1. now' >= now
    BY <1>1, <1>3 DEF Tick
  <2> QED
    BY <1>1, <1>2, <1>3, <2>1, QuietBound DEF Tick, teamVars
<1>4. CASE NextDay
  <2>1. /\ calls' = calls /\ life' = life /\ now' = now /\ win' = win /\ toolWin' = toolWin
        /\ team' = team /\ teamOf' = teamOf /\ day' = day + 1
    BY <1>4 DEF NextDay, teamVars
  <2>2. Ended
    BY <1>1, <2>1, QuietEnds
  <2>3. RateInv'
    BY <1>1, <2>1, <2>2, EndedRates DEF Bound
  <2>4. QuotaInv'
    BY <1>1, <1>4, NextDayQuotas
  <2>5. TeamInv'
    BY <1>1, <2>1, <2>2, EndedTeams DEF Bound
  <2> QED
    BY <2>3, <2>4, <2>5 DEF Bound
<1>5. ASSUME Restart PROVE Bound'
  <2>1. day' = day /\ Ended
    BY <1>1, <1>5, RestartEnds DEF Restart
  <2>2. ASSUME NEW x \in known PROVE Today(x)' >= Today(x)
    <3>1. Today(x)' = Today(x) /\ x \in Keys
      BY <1>1, <1>2, <2>1, <2>2 DEF Today, UsedKept
    <3> QED
      BY <1>1, <3>1, TodayType
  <2>3. QuotaInv'
    BY <1>1, <2>1, <2>2, EndedQuotas DEF Bound
  <2>4. RateInv' /\ TeamInv'
    BY <1>1, <1>5, RestartRates, RestartTeams
  <2> QED
    BY <2>3, <2>4 DEF Bound
<1> QED
  BY <1>3, <1>4, <1>5 DEF Crash, CrashInEvaluate

-----------------------------------------------------------------------------
(* The inductive invariant of the limits.                                  *)
THEOREM LimitsInvariant == ASSUME SteadySettings PROVE Spec => []LInv
<1>1. Init => LInv
  BY InitBills, InitLimits DEF LInv, Bound
<1>2. LInv /\ [Next]_vars => LInv'
  <2> SUFFICES ASSUME LInv, [Next]_vars PROVE LInv'
    OBVIOUS
  <2>1. BInv /\ IInv /\ RecordsInv /\ (~shadow.ever => Bound)
    BY DEF LInv, Bound, BInv
  <2>2. CASE Next
    <3>1. CASE Operations
      <4>1. BInv' /\ RecordsInv' /\ shadow' = shadow
        <5>1. ASSUME NEW k, NEW t, NEW u, NEW o,
                     \/ Evaluate(k, t, o) \/ EvaluateRefused(k, t, o)
                     \/ EvaluateBatch(k, t, u, o) \/ EvaluateBatchRefused(k, t, u, o)
              PROVE  shadow' = shadow
          BY <5>1 DEF Evaluate, EvaluateRefused, EvaluateBatch, EvaluateBatchRefused
        <5>2. ASSUME NEW i, NEW bad, Lose(i) \/ Settle(i, bad) PROVE shadow' = shadow
          BY <5>2 DEF Lose, Settle
        <5>3. shadow' = shadow
          BY <3>1, <5>1, <5>2 DEF Operations
        <5> QED
          BY <2>1, <3>1, <5>3, OperationsBills, OperationsRecords
      <4>2. ~shadow.ever => Bound'
        BY <2>1, <3>1, <4>1, OperationsBound
      <4> QED
        BY <4>1, <4>2 DEF LInv, Bound
    <3>2. CASE Administration
      <4>1. BInv' /\ RecordsInv' /\ (shadow.ever => shadow'.ever)
        <5>1. shadow' = shadow \/ \E s \in ShadowModes : UpdateConfig(s)
          BY <3>2 DEF Administration, CreateKey, TopUp, CloneKey, Transfer, Rotate, Suspend,
                      Resume, Revoke, SetExpiry, SetQuota, SetSpendingLimit, SetAutoTopup,
                      Edit, TeamAdmin, gateVars, Rest
        <5>2. ASSUME NEW s \in ShadowModes, UpdateConfig(s) PROVE shadow.ever => shadow'.ever
          BY <5>2 DEF UpdateConfig
        <5>3. shadow.ever => shadow'.ever
          BY <5>1, <5>2
        <5> QED
          BY <2>1, <3>2, <5>3, AdministrationBills, AdministrationRecords
      <4>2. ~shadow.ever => Bound'
        BY <2>1, <3>2, <4>1, AdministrationBound
      <4> QED
        BY <4>1, <4>2 DEF LInv, Bound
    <3>3. CASE Tick \/ NextDay \/ Crash \/ \E k \in Keys, t \in Tools : CrashInEvaluate(k, t)
      <4>1. BInv' /\ RecordsInv' /\ shadow'.ever = shadow.ever
        <5>1. shadow'.ever = shadow.ever
          BY <2>1, <3>3 DEF Tick, NextDay, Crash, CrashInEvaluate, Restart, IInv, Core, TypeOK
        <5> QED
          BY <2>1, <3>3, <5>1, EnvironmentBills, EnvironmentRecords
      <4>2. ~shadow.ever => Bound'
        BY <2>1, <3>3, <4>1, EnvironmentBound
      <4> QED
        BY <4>1, <4>2 DEF LInv, Bound
    <3> QED
      BY <2>2, <3>1, <3>2, <3>3 DEF Next
  <2>3. CASE UNCHANGED vars
    <3>1. /\ calls' = calls /\ day' = day /\ life' = life /\ now' = now /\ win' = win
          /\ toolWin' = toolWin /\ team' = team /\ teamOf' = teamOf /\ known' = known
          /\ rec' = rec /\ ledger' = ledger /\ shadow' = shadow
      BY <2>3 DEF vars
    <3>2. IInv'
      BY <2>1, <3>1 DEF IInv, Core, TypeOK, CreditsConserved, SpentCovers, UnusedIdle
    <3>3. BInv'
      BY <2>1, <3>1, <3>2, AdminBills
    <3>4. RecordsInv' /\ UsedKept
      BY <2>1, <3>1 DEF RecordsInv, UsedKept
    <3>5. ~shadow.ever => Bound'
      <4>1. Core /\ Core' /\ CallsInv /\ now \in Nat /\ (~shadow.ever => Owned)
        BY <2>1, <3>2 DEF BInv, BillsInv, IInv, Core, TypeOK
      <4>2. now' >= now
        BY <3>1, <4>1
      <4> QED
        BY <2>1, <3>1, <3>4, <4>1, <4>2, QuietBound
    <3> QED
      BY <3>1, <3>3, <3>4, <3>5 DEF LInv, Bound
  <2> QED
    BY <2>2, <2>3
<1> QED
  BY <1>1, <1>2, PTL DEF Spec

(* No allowance of top-ups and, as long as shadow mode was never on, no    *)
(* rate window, daily quota or team budget is ever passed, whatever the    *)
(* order of charges, refunds, midnight, crashes and changes of membership, *)
(* when no administrator lowers a limit below what was already used.       *)
THEOREM LimitsAreHonoured == ASSUME SteadySettings PROVE Spec => []LimitsHonoured
<1>1. LInv => LimitsHonoured
  <2> SUFFICES ASSUME LInv PROVE LimitsHonoured
    OBVIOUS
  <2>1. Core /\ CallsInv /\ RecordsInv /\ (~shadow.ever => Bound)
    BY DEF LInv, BInv, IInv, Bound
  <2>2. TopupsCapped
    <3> SUFFICES ASSUME NEW k \in Keys
                 PROVE  WithinLimit(ledger[k].topups, 0, rec[k].autoTopup.maxDaily)
      BY DEF TopupsCapped
    <3>1. /\ rec[k].autoTopup \in Topups \cup {NoTopup}
          /\ \A p \in Topups : WithinLimit(ledger[k].topups, 0, p.maxDaily)
      BY <2>1 DEF RecordsInv, RecordOK
    <3> QED
      BY <3>1 DEF WithinLimit, NoTopup
  <2>3. ASSUME ~shadow.ever
        PROVE  RateHonoured /\ DailyQuotaHonoured /\ TeamBudgetHonoured
    <3>1. RateInv /\ QuotaInv /\ TeamInv
      BY <2>1, <2>3 DEF Bound
    <3>2. RateHonoured
      BY <2>1, <3>1, RatesHold
    <3>3. DailyQuotaHonoured
      BY <3>1 DEF QuotaInv, DailyQuotaHonoured, Clean
    <3>4. ASSUME NEW t \in TeamIds, team[t].active
          PROVE  WithinLimit(Charged(Joint(t)), 0, team[t].budget)
      <4>1. TeamOK(t) /\ team[t].exists
        BY <3>1, <3>4 DEF TeamInv, TeamOK
      <4>2. /\ team[t].totalSpent \in Nat /\ team[t].budget \in Nat
            /\ Charged(Joint(t)) \in Nat
        BY <2>1, TeamTypes
      <4> QED
        BY <4>1, <4>2 DEF TeamOK, WithinLimit
    <3> QED
      BY <3>2, <3>3, <3>4 DEF TeamBudgetHonoured
  <2> QED
    BY <2>2, <2>3 DEF LimitsHonoured
<1> QED
  BY <1>1, LimitsInvariant, PTL

=============================================================================
