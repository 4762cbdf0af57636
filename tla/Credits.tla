------------------------------- MODULE Credits -------------------------------
(***************************************************************************)
(* Credits that are held or granted, side by side: the reservations of the *)
(* server (Reservations, R), the prepaid grants of a key (Grants, G) and   *)
(* the managers a program can embed (CreditManagers, M).  They share no    *)
(* state.  What they promise is stated here, and proved for any keys,      *)
(* amounts, prices, lives and limits.                                      *)
(***************************************************************************)
EXTENDS Integers, Sequences, Totals

CONSTANTS Keys, Amounts,
          InitialCredits, Price, TopUpAmount, Ttls, MaxPerKey,   \* of Reservations
          Priorities, Lives, Percents,                           \* of Grants
          Limit, Portions, Caps,                                 \* of CreditManagers
          MaxRequests, MaxCharges, MaxEvents, MaxGrants, MaxOps, \* bounds
          MaxHoldClock, MaxGrantClock, MaxTime

ASSUME CreditsAssumption ==
    /\ Amounts \cup Ttls \cup Lives \cup {InitialCredits, Price, TopUpAmount} \subseteq Nat
    /\ Priorities \subseteq Int /\ Percents \subseteq 0 .. 100

VARIABLES now, keys, holds, nextId, charged, reported, taken, turnedAway,
          requests, charges, events,
          clock, grants, stats, rolled, ops,
          mgr, s, seen, time, calls

R == INSTANCE Reservations WITH MaxClock <- MaxHoldClock

G == INSTANCE Grants WITH
    Shares <- Percents, MaxClock <- MaxGrantClock, now <- clock

M == INSTANCE CreditManagers WITH
    Shares <- Portions, MaxClock <- MaxTime, now <- time, ops <- calls

(* What Reservations promises: no credit is promised to two holds, a       *)
(* commit falls short only by what calls and administrators took, and a    *)
(* hold that has lapsed turns nobody away; the embeddable manager's holds  *)
(* are covered in the same way.                                            *)
HoldsHonoured == /\ R!HoldsAreCovered /\ R!ShortOnlyByCalls /\ R!NoneTurnedAway
                 /\ M!HoldsCovered

(* What Grants promises: every credit allocated is in a grant, used, or    *)
(* expired, and the statistics say which; grants are spent in order, and   *)
(* nothing is spent of one that has expired, in either manager of grants.  *)
GrantsAddUp == G!GrantsAddUp /\ G!ConsumedIsUsed /\ M!GrantsBalance
SpendsInOrder == G!SpendsInOrder /\ M!ExpiredUnspent

-----------------------------------------------------------------------------
(* The invariant of the reservations: beside the holds that run, the       *)
(* balance has what commits reported and did not find, but for what calls  *)
(* took.                                                                   *)
KeyRecords == [credits : Nat, active : BOOLEAN, suspended : BOOLEAN]
HoldRecords == [key : Keys, credits : Nat, expiresAt : Nat]
HoldTable(hs) == IsFiniteSet(DOMAIN hs) /\ hs \in [DOMAIN hs -> HoldRecords]

CreditsOf(hs) == [id \in DOMAIN hs |-> hs[id].credits]
Running(hs, t, k) == {id \in DOMAIN hs : hs[id].key = k /\ hs[id].expiresAt > t}
Live(hs, t, k) == Total(CreditsOf(hs), Running(hs, t, k))

HoldTypes ==
    /\ now \in Nat /\ nextId \in Nat \ {0}
    /\ DOMAIN keys \subseteq Keys /\ keys \in [DOMAIN keys -> KeyRecords]
    /\ HoldTable(holds) /\ DOMAIN holds \subseteq 1 .. nextId - 1
    /\ charged \in [Keys -> Nat] /\ reported \in [Keys -> Nat] /\ taken \in [Keys -> Nat]

Short(k) == /\ taken[k] <= reported[k]
            /\ reported[k] - taken[k] <= charged[k]

Covered(k) == Live(holds, now, k) + reported[k] - taken[k] <= keys[k].credits + charged[k]

HoldInv == /\ HoldTypes /\ turnedAway = FALSE
           /\ \A k \in Keys : Short(k)
           /\ \A k \in DOMAIN keys : Covered(k)

(* The operators of Reservations are those whose lemmas are used here.     *)
LEMMA SameCountR == \A S : R!Cardinality(S) = Cardinality(S)
BY DEF R!Cardinality, Cardinality

LEMMA SameTotalR == \A f, S : R!Total(f, S) = Total(f, S)
<1> TAKE f, S
<1>1. R!Units(f, S) = Units(f, S)
  BY DEF R!Units, Units
<1> QED
  BY <1>1, SameCountR DEF R!Total, Total

(* The credits of the holds that run have a sum.                           *)
LEMMA LiveType ==
    ASSUME NEW hs, HoldTable(hs), NEW t, NEW k
    PROVE  Live(hs, t, k) \in Nat /\ Countable(CreditsOf(hs), Running(hs, t, k))
<1>1. Running(hs, t, k) \subseteq DOMAIN hs
  BY DEF Running
<1>2. IsFiniteSet(Running(hs, t, k))
  BY <1>1, FS_Subset DEF HoldTable
<1>3. Countable(CreditsOf(hs), Running(hs, t, k))
  BY <1>1, <1>2 DEF Countable, CreditsOf, HoldTable, HoldRecords
<1> QED
  BY <1>3, TotalType DEF Live

(* Fewer holds that run hold no more.                                      *)
LEMMA LiveShrinks ==
    ASSUME NEW hs, HoldTable(hs), NEW t, NEW new, NEW u, NEW k,
           Running(new, u, k) \subseteq Running(hs, t, k),
           \A id \in Running(new, u, k) : new[id] = hs[id]
    PROVE  /\ Live(new, u, k) <= Live(hs, t, k)
           /\ Live(new, u, k) \in Nat /\ Live(hs, t, k) \in Nat
<1> DEFINE A == Running(hs, t, k)
           B == Running(new, u, k)
<1>1. Countable(CreditsOf(hs), A)
  BY LiveType
<1>2. Total(CreditsOf(new), B) = Total(CreditsOf(hs), B)
  <2>1. \A id \in B : CreditsOf(new)[id] = CreditsOf(hs)[id]
    BY DEF CreditsOf, Running
  <2> HIDE DEF B
  <2> QED
    BY <2>1, TotalSame
<1>3. /\ Total(CreditsOf(hs), A) = Total(CreditsOf(hs), B) + Total(CreditsOf(hs), A \ B)
      /\ Total(CreditsOf(hs), B) \in Nat /\ Total(CreditsOf(hs), A \ B) \in Nat
  <2>1. B \subseteq A
    OBVIOUS
  <2> HIDE DEF A, B
  <2> QED
    BY <1>1, <2>1, TotalSplit
<1> HIDE DEF A, B
<1> QED
  BY <1>2, <1>3 DEF Live, A, B

(* A new hold adds what it holds to its key and nothing to another.        *)
LEMMA LiveAdded ==
    ASSUME NEW hs, HoldTable(hs), NEW t, NEW k, NEW x, x \notin DOMAIN hs,
           NEW r \in HoldRecords
    PROVE  /\ HoldTable(R!With(hs, x, r))
           /\ Live(hs, t, k) \in Nat /\ Live(R!With(hs, x, r), t, k) \in Nat
           /\ Live(R!With(hs, x, r), t, k)
                <= Live(hs, t, k) + (IF r.key = k THEN r.credits ELSE 0)
<1> DEFINE new == R!With(hs, x, r)
           A == Running(hs, t, k)
           B == Running(new, t, k)
           f == CreditsOf(new)
<1>1. DOMAIN new = DOMAIN hs \cup {x} /\ new[x] = r /\ \A id \in DOMAIN hs : new[id] = hs[id]
  BY DEF R!With
<1>2. HoldTable(new)
  <2>1. IsFiniteSet(DOMAIN hs \cup {x})
    BY FS_AddElement DEF HoldTable
  <2> QED
    BY <1>1, <2>1 DEF HoldTable, R!With
<1> HIDE DEF new
<1>3. A \subseteq DOMAIN hs /\ B \ {x} = A /\ x \notin A /\ (x \in B => r.key = k)
  BY <1>1 DEF Running
<1>4. Total(f, A) = Live(hs, t, k)
  <2>1. \A id \in A : f[id] = CreditsOf(hs)[id]
    BY <1>1, <1>3 DEF CreditsOf
  <2> HIDE DEF A, f
  <2> QED
    BY <2>1, TotalSame DEF Live, A
<1>5. Countable(f, B) /\ Live(hs, t, k) \in Nat /\ Live(new, t, k) \in Nat
  BY <1>2, LiveType
<1>6. f[x] = r.credits /\ r.credits \in Nat
  BY <1>1 DEF CreditsOf, HoldRecords
<1> HIDE DEF A, B, f
<1>7. Total(f, B) <= Total(f, A) + (IF r.key = k THEN r.credits ELSE 0)
  <2>1. CASE x \in B
    <3>1. {x} \subseteq B /\ B \ {x} = A /\ r.key = k
      BY <1>3, <2>1
    <3>2. Total(f, B) = Total(f, {x}) + Total(f, B \ {x})
      BY ONLY <1>5, <3>1, TotalSplit
    <3>3. Total(f, {x}) = r.credits
      BY <1>6, TotalOne
    <3>4. Total(f, B) = r.credits + Total(f, A)
      BY <3>1, <3>2, <3>3
    <3> QED
      BY ONLY <1>4, <1>5, <1>6, <3>1, <3>4
  <2>2. CASE x \notin B
    <3>1. B = A
      BY <1>3, <2>2
    <3> QED
      BY <1>4, <1>5, <1>6, <3>1
  <2> QED
    BY <2>1, <2>2
<1> QED
  BY <1>2, <1>4, <1>5, <1>7 DEF Live, new, A, B, f

(* Without one of the holds that run, its credits are no longer held.      *)
LEMMA LiveRemoved ==
    ASSUME NEW hs, HoldTable(hs), NEW t, NEW k, NEW x \in Running(hs, t, k)
    PROVE  /\ Live(R!Restrict(hs, DOMAIN hs \ {x}), t, k) = Live(hs, t, k) - hs[x].credits
           /\ Live(hs, t, k) \in Nat
           /\ hs[x].credits \in Nat /\ hs[x].credits <= Live(hs, t, k)
<1> DEFINE new == R!Restrict(hs, DOMAIN hs \ {x})
           A == Running(hs, t, k)
           B == Running(new, t, k)
           f == CreditsOf(hs)
<1>1. DOMAIN new = DOMAIN hs \ {x} /\ \A id \in DOMAIN new : new[id] = hs[id]
  BY DEF R!Restrict
<1> HIDE DEF new
<1>2. B = A \ {x} /\ x \in A /\ x \in DOMAIN hs
  BY <1>1 DEF Running
<1>3. Countable(f, A) /\ Live(hs, t, k) \in Nat
  BY LiveType
<1>4. f[x] = hs[x].credits /\ hs[x].credits \in Nat
  BY <1>2 DEF CreditsOf, HoldTable, HoldRecords
<1>5. Total(CreditsOf(new), B) = Total(f, B)
  <2>1. \A id \in B : CreditsOf(new)[id] = f[id]
    BY <1>1, <1>2 DEF CreditsOf, Running
  <2> HIDE DEF B, f
  <2> QED
    BY <2>1, TotalSame
<1> HIDE DEF A, B, f
<1>6. Total(f, A) = Total(f, {x}) + Total(f, A \ {x})
  <2>1. {x} \subseteq A
    BY <1>2
  <2> QED
    BY ONLY <1>3, <2>1, TotalSplit
<1>7. Total(f, {x}) = hs[x].credits
  BY <1>4, TotalOne
<1>8. Total(f, A \ {x}) \in Nat
  <2>1. {x} \subseteq A
    BY <1>2
  <2> QED
    BY ONLY <1>3, <2>1, TotalSplit
<1>9. Live(new, t, k) = Total(f, A \ {x}) /\ Live(hs, t, k) = Total(f, A)
  BY <1>2, <1>5 DEF Live, A, B, f
<1> QED
  BY <1>3, <1>4, <1>6, <1>7, <1>8, <1>9 DEF new

(* The sweep leaves the holds that run, which are those that count.        *)
LEMMA SweptHolds ==
    ASSUME HoldTypes
    PROVE  /\ HoldTable(R!Swept) /\ DOMAIN R!Swept \subseteq DOMAIN holds
           /\ \A k : /\ Running(R!Swept, now, k) = Running(holds, now, k)
                     /\ R!HoldsOf(k, R!Swept) = Running(holds, now, k)
                     /\ Live(R!Swept, now, k) = Live(holds, now, k)
                     /\ R!SumOf(Running(holds, now, k)) = Live(holds, now, k)
<1>1. /\ DOMAIN R!Swept = {id \in DOMAIN holds : ~R!Lapsed(id)}
      /\ \A id \in DOMAIN R!Swept : R!Swept[id] = holds[id]
  BY DEF R!Swept, R!Restrict
<1>2. \A id \in DOMAIN holds : ~R!Lapsed(id) <=> holds[id].expiresAt > now
  BY DEF HoldTypes, HoldTable, HoldRecords, R!Lapsed
<1>3. HoldTable(R!Swept)
  <2>1. DOMAIN R!Swept \subseteq DOMAIN holds
    BY <1>1
  <2>2. IsFiniteSet(DOMAIN R!Swept)
    BY <2>1, FS_Subset DEF HoldTypes, HoldTable
  <2>3. R!Swept \in [DOMAIN R!Swept -> HoldRecords]
    BY <1>1 DEF HoldTypes, HoldTable, R!Swept, R!Restrict
  <2> QED
    BY <2>2, <2>3 DEF HoldTable
<1>4. ASSUME NEW k
      PROVE  /\ Running(R!Swept, now, k) = Running(holds, now, k)
             /\ R!HoldsOf(k, R!Swept) = Running(holds, now, k)
  BY <1>1, <1>2 DEF Running, R!HoldsOf
<1>5. ASSUME NEW k PROVE Live(R!Swept, now, k) = Live(holds, now, k)
  <2> DEFINE A == Running(holds, now, k)
  <2>1. \A id \in A : CreditsOf(R!Swept)[id] = CreditsOf(holds)[id]
    BY <1>1, <1>4 DEF CreditsOf, Running
  <2> HIDE DEF A
  <2>2. Total(CreditsOf(R!Swept), A) = Total(CreditsOf(holds), A)
    BY <2>1, TotalSame
  <2> QED
    BY <1>4, <2>2 DEF Live, A
<1>6. ASSUME NEW k PROVE R!SumOf(Running(holds, now, k)) = Live(holds, now, k)
  BY SameTotalR DEF R!SumOf, Live, CreditsOf
<1> QED
  BY <1>1, <1>3, <1>4, <1>5, <1>6

(* What fits is what the documents promise to accept.                      *)
LEMMA FitsDeserves ==
    ASSUME HoldTypes, NEW k, NEW n
    PROVE  R!Fits(k, n) <=> R!Deserves(k, n)
<1>1. R!HoldsOf(k, R!Swept) = {id \in R!HoldsOf(k, holds) : holds[id].expiresAt > now}
  BY SweptHolds DEF Running, R!HoldsOf
<1> QED
  BY <1>1 DEF R!Fits, R!Deserves

(* What is covered stays covered while no more is held, the balance and    *)
(* what calls took have no less between them, and the commits stand.       *)
LEMMA CoverKept ==
    ASSUME HoldInv, NEW k \in DOMAIN keys, k \in DOMAIN keys',
           keys'[k].credits \in Nat, charged'[k] \in Nat,
           keys'[k].credits + charged'[k] >= keys[k].credits + charged[k],
           UNCHANGED <<reported, taken>>,
           Live(holds', now', k) <= Live(holds, now, k), Live(holds', now', k) \in Nat
    PROVE  Covered(k)'
<1>1. Covered(k)
  BY DEF HoldInv
<1>2. k \in Keys /\ HoldTable(holds) /\ Live(holds, now, k) \in Nat
  BY LiveType DEF HoldInv, HoldTypes
<1>3. /\ reported[k] \in Nat /\ taken[k] \in Nat /\ charged[k] \in Nat
      /\ keys[k].credits \in Nat
  BY <1>2 DEF HoldInv, HoldTypes, KeyRecords
<1>4. reported'[k] = reported[k] /\ taken'[k] = taken[k]
  OBVIOUS
<1> QED
  BY <1>1, <1>2, <1>3, <1>4 DEF Covered

(* The steps that only drop holds or move the clock.                       *)
LEMMA DropHolds ==
    ASSUME HoldInv, UNCHANGED <<keys, charged, reported, taken, turnedAway>>,
           now' \in Nat, nextId' \in Nat \ {0},
           HoldTable(holds'), DOMAIN holds' \subseteq 1 .. nextId' - 1,
           \A k \in Keys : /\ Running(holds', now', k) \subseteq Running(holds, now, k)
                           /\ \A id \in Running(holds', now', k) : holds'[id] = holds[id]
    PROVE  HoldInv'
<1>1. HoldTypes'
  BY DEF HoldInv, HoldTypes
<1>2. \A k \in Keys : Short(k)'
  BY DEF HoldInv, Short
<1>3. ASSUME NEW k \in DOMAIN keys PROVE Covered(k)'
  <2>1. k \in Keys /\ HoldTable(holds)
    BY DEF HoldInv, HoldTypes
  <2>2. /\ Live(holds', now', k) <= Live(holds, now, k)
        /\ Live(holds', now', k) \in Nat
    BY <2>1, LiveShrinks
  <2>3. k \in DOMAIN keys' /\ keys'[k].credits \in Nat /\ charged'[k] \in Nat
    BY <2>1 DEF HoldInv, HoldTypes, KeyRecords
  <2>4. keys'[k].credits + charged'[k] >= keys[k].credits + charged[k]
    BY <2>3
  <2> QED
    BY <2>2, <2>3, <2>4, CoverKept
<1> QED
  BY <1>1, <1>2, <1>3 DEF HoldInv

(* A reservation keeps the invariant: what it holds, the balance had       *)
(* beside the holds that run.                                              *)
LEMMA ReserveStep ==
    ASSUME HoldInv, NEW k \in Keys, NEW n \in Amounts, NEW ttl \in Ttls, R!Reserve(k, n, ttl)
    PROVE  HoldInv'
<1>1. n \in Nat /\ ttl \in Nat /\ k \in DOMAIN keys
  BY CreditsAssumption DEF R!Reserve
<1>2. UNCHANGED <<now, keys, charged, reported, taken>>
  BY DEF R!Reserve
<1>3. HoldTypes
  BY DEF HoldInv
<1>4. CASE R!Fits(k, n)
  <2> DEFINE r == [key |-> k, credits |-> n, expiresAt |-> now + ttl]
  <2>1. /\ holds' = R!With(R!Swept, nextId, r) /\ nextId' = nextId + 1
        /\ turnedAway' = turnedAway
    BY <1>4 DEF R!Reserve
  <2>2. r \in HoldRecords /\ r.key = k /\ r.credits = n
    BY <1>1, <1>3 DEF HoldRecords, HoldTypes
  <2> HIDE DEF r
  <2>3. nextId \notin DOMAIN R!Swept /\ nextId \in Nat \ {0}
    BY <1>3, SweptHolds DEF HoldTypes
  <2>4. HoldTable(R!Swept)
    BY <1>3, SweptHolds
  <2>5. ASSUME NEW j
        PROVE  /\ HoldTable(holds')
               /\ Live(R!Swept, now, j) \in Nat /\ Live(holds', now, j) \in Nat
               /\ Live(holds', now, j) <= Live(R!Swept, now, j) + (IF k = j THEN n ELSE 0)
    BY ONLY <2>1, <2>2, <2>3, <2>4, LiveAdded
  <2>6. HoldTypes'
    <3>1. DOMAIN holds' = DOMAIN R!Swept \cup {nextId}
      BY <2>1 DEF R!With
    <3>2. DOMAIN R!Swept \subseteq 1 .. nextId - 1
      BY <1>3, SweptHolds DEF HoldTypes
    <3>3. DOMAIN holds' \subseteq 1 .. nextId' - 1
      BY <2>1, <2>3, <3>1, <3>2
    <3> QED
      BY <1>2, <1>3, <2>1, <2>3, <2>5, <3>3 DEF HoldTypes
  <2>7. \A j \in Keys : Short(j)'
    BY <1>2 DEF HoldInv, Short
  <2>8. ASSUME NEW j \in DOMAIN keys PROVE Covered(j)'
    <3>1. j \in Keys /\ Live(R!Swept, now, j) = Live(holds, now, j)
      BY <1>3, SweptHolds DEF HoldTypes
    <3>2. j \in DOMAIN keys' /\ keys'[j].credits \in Nat /\ charged'[j] \in Nat
      BY <1>2, <1>3, <3>1 DEF HoldTypes, KeyRecords
    <3>3. Live(holds', now', j) \in Nat /\ Live(holds, now, j) \in Nat
      BY <1>2, <2>5, <3>1
    <3>4. CASE k = j
      <4>1. n <= keys[k].credits - Live(holds, now, k)
        BY <1>3, <1>4, SweptHolds DEF R!Fits
      <4>2. Live(holds', now', j) <= Live(holds, now, j) + n
        BY <1>2, <2>5, <3>1, <3>4
      <4>3. /\ reported[j] \in Nat /\ taken[j] \in Nat /\ charged[j] \in Nat
            /\ keys[j].credits \in Nat
        BY <1>2, <1>3, <3>1, <3>2 DEF HoldTypes
      <4>4. reported[j] - taken[j] <= charged[j]
        BY <3>1 DEF HoldInv, Short
      <4>5. Live(holds', now', j) + reported[j] - taken[j] <= keys[j].credits + charged[j]
        BY ONLY <1>1, <3>3, <3>4, <4>1, <4>2, <4>3, <4>4
      <4> QED
        BY <1>2, <4>5 DEF Covered
    <3>5. CASE k # j
      <4>1. Live(holds', now', j) <= Live(holds, now, j)
        BY <1>2, <2>5, <3>1, <3>3, <3>5
      <4>2. keys'[j].credits + charged'[j] >= keys[j].credits + charged[j]
        BY <1>2, <3>2
      <4>3. UNCHANGED <<reported, taken>>
        BY <1>2
      <4> QED
        BY ONLY HoldInv, j \in DOMAIN keys, <3>2, <3>3, <4>1, <4>2, <4>3, CoverKept
    <3> QED
      BY <3>4, <3>5
  <2> QED
    BY <1>2, <2>1, <2>6, <2>7, <2>8 DEF HoldInv
<1>5. CASE ~R!Fits(k, n)
  <2>1. holds' = R!Swept /\ nextId' = nextId /\ turnedAway' = turnedAway
    <3>1. ~R!Deserves(k, n) /\ turnedAway = FALSE
      BY <1>3, <1>5, FitsDeserves DEF HoldInv
    <3>2. /\ holds' = R!Swept /\ nextId' = nextId
          /\ turnedAway' = (turnedAway \/ R!Deserves(k, n))
      BY <1>5 DEF R!Reserve
    <3> QED
      BY ONLY <3>1, <3>2
  <2>2. HoldTable(holds') /\ DOMAIN holds' \subseteq DOMAIN holds
    BY <1>3, <2>1, SweptHolds
  <2>3. \A j \in Keys : /\ Running(holds', now', j) \subseteq Running(holds, now, j)
                        /\ \A id \in Running(holds', now', j) : holds'[id] = holds[id]
    BY <1>2, <1>3, <2>1, SweptHolds DEF Running, R!Swept, R!Restrict
  <2>4. now' \in Nat /\ nextId' \in Nat \ {0} /\ DOMAIN holds' \subseteq 1 .. nextId' - 1
    BY <1>2, <1>3, <2>1, <2>2 DEF HoldTypes
  <2>5. UNCHANGED <<keys, charged, reported, taken, turnedAway>>
    BY <1>2, <2>1
  <2> QED
    BY <2>2, <2>3, <2>4, <2>5, DropHolds
<1> QED
  BY <1>4, <1>5

(* A commit moves what it found from the holds and the balance to the      *)
(* deducted, and what it did not find from the holds to the short.         *)
LEMMA CommitStep ==
    ASSUME HoldInv, NEW id \in DOMAIN holds, R!Commit(id)
    PROVE  HoldInv'
<1> DEFINE less(a, b) == IF a <= b THEN a ELSE b
<1>0. PICK k, n, d : /\ k = holds[id].key /\ n = holds[id].credits
                     /\ d = less(n, keys[k].credits)
  OBVIOUS
<1>1. HoldTypes
  BY DEF HoldInv
<1>2. k \in Keys /\ n \in Nat /\ HoldTable(holds)
  BY <1>0, <1>1 DEF HoldTypes, HoldTable, HoldRecords
<1>3. holds' = R!Restrict(holds, DOMAIN holds \ {id})
  BY DEF R!Commit, R!Remaining
<1>4. UNCHANGED <<now, nextId, charged, turnedAway>>
  BY DEF R!Commit
<1>5. /\ DOMAIN holds' = DOMAIN holds \ {id}
      /\ \A h \in DOMAIN holds' : holds'[h] = holds[h]
  BY <1>3 DEF R!Restrict
<1>6. HoldTable(holds') /\ DOMAIN holds' \subseteq 1 .. nextId' - 1
  <2>1. IsFiniteSet(DOMAIN holds \ {id})
    BY <1>2, FS_RemoveElement DEF HoldTable
  <2>2. holds' \in [DOMAIN holds' -> HoldRecords]
    BY <1>2, <1>3, <1>5 DEF HoldTable, R!Restrict
  <2> QED
    BY <1>1, <1>4, <1>5, <2>1, <2>2 DEF HoldTable, HoldTypes
<1>7. \A j \in Keys : /\ Running(holds', now', j) \subseteq Running(holds, now, j)
                      /\ \A h \in Running(holds', now', j) : holds'[h] = holds[h]
  BY <1>4, <1>5 DEF Running
<1>8. CASE UNCHANGED <<keys, reported, taken>>
  <2>1. now' \in Nat /\ nextId' \in Nat \ {0}
    BY <1>1, <1>4 DEF HoldTypes
  <2> QED
    BY <1>4, <1>6, <1>7, <1>8, <2>1, DropHolds
<1>9. CASE /\ ~R!Lapsed(id) /\ k \in DOMAIN keys
           /\ keys' = [keys EXCEPT ![k].credits = @ - d]
           /\ reported' = [reported EXCEPT ![k] = @ + n]
           /\ taken' = [taken EXCEPT ![k] = @ + d]
  <2> DEFINE L == Live(holds, now, k)
             c == keys[k].credits
  <2>1. c \in Nat /\ d \in Nat /\ d <= n /\ c - d \in Nat
    BY <1>0, <1>1, <1>2, <1>9 DEF HoldTypes, KeyRecords
  <2>2. id \in Running(holds, now, k)
    BY <1>0, <1>1, <1>2, <1>9 DEF Running, R!Lapsed, HoldTypes, HoldTable, HoldRecords
  <2>3. Live(holds', now', k) = L - n /\ L \in Nat /\ n <= L
    BY <1>0, <1>2, <1>3, <1>4, <2>2, LiveRemoved
  <2>4. /\ reported[k] \in Nat /\ taken[k] \in Nat /\ charged[k] \in Nat
        /\ reported'[k] = reported[k] + n /\ taken'[k] = taken[k] + d
        /\ charged'[k] = charged[k]
        /\ keys'[k].credits = c - d
    BY <1>1, <1>2, <1>4, <1>9 DEF HoldTypes, KeyRecords
  <2>5. \A j \in DOMAIN keys : j # k => keys'[j] = keys[j]
    BY <1>9
  <2>6. \A j \in Keys : j # k =>
          reported'[j] = reported[j] /\ taken'[j] = taken[j] /\ charged'[j] = charged[j]
    BY <1>1, <1>4, <1>9 DEF HoldTypes
  <2>7. HoldTypes'
    <3>1. DOMAIN keys' = DOMAIN keys /\ keys' \in [DOMAIN keys' -> KeyRecords]
      BY <1>1, <1>9, <2>1 DEF HoldTypes, KeyRecords
    <3>2. reported' \in [Keys -> Nat] /\ taken' \in [Keys -> Nat] /\ charged' \in [Keys -> Nat]
      BY <1>1, <1>2, <1>4, <1>9, <2>1 DEF HoldTypes
    <3> QED
      BY <1>1, <1>4, <1>6, <3>1, <3>2 DEF HoldTypes
  <2>8. Short(k) /\ Covered(k)
    BY <1>2, <1>9 DEF HoldInv
  <2>9. d = IF n <= c THEN n ELSE c
    BY <1>0
  <2> HIDE DEF c, L
  <2>10. Short(k)' /\ Covered(k)'
    <3>1. L + reported[k] - taken[k] <= c + charged[k]
      BY <2>8 DEF Covered, L, c
    <3>2. taken[k] <= reported[k] /\ reported[k] - taken[k] <= charged[k]
      BY <2>8 DEF Short
    <3>3. /\ taken[k] + d <= reported[k] + n
          /\ reported[k] + n - (taken[k] + d) <= charged[k]
          /\ L - n + (reported[k] + n) - (taken[k] + d) <= c - d + charged[k]
      BY ONLY <1>2, <2>1, <2>3, <2>4, <2>9, <3>1, <3>2
    <3>4. Short(k)'
      BY ONLY <1>2, <2>1, <2>4, <3>3 DEF Short
    <3>5. Covered(k)'
      BY ONLY <1>2, <2>1, <2>3, <2>4, <3>3 DEF Covered
    <3> QED
      BY <3>4, <3>5
  <2>11. \A j \in Keys : j # k => Short(j)'
    BY <2>6 DEF HoldInv, Short
  <2>12. ASSUME NEW j \in DOMAIN keys, j # k PROVE Covered(j)'
    <3>1. j \in Keys
      BY <1>1 DEF HoldTypes
    <3>2. /\ Live(holds', now', j) <= Live(holds, now, j)
          /\ Live(holds', now', j) \in Nat /\ Live(holds, now, j) \in Nat
      BY <1>2, <1>7, <3>1, LiveShrinks
    <3>3. /\ keys'[j] = keys[j] /\ reported'[j] = reported[j] /\ taken'[j] = taken[j]
          /\ charged'[j] = charged[j]
      BY <2>5, <2>6, <2>12, <3>1
    <3>4. /\ reported[j] \in Nat /\ taken[j] \in Nat /\ charged[j] \in Nat
          /\ keys[j].credits \in Nat
      BY <1>1, <3>1 DEF HoldTypes, KeyRecords
    <3>5. Covered(j)
      BY DEF HoldInv
    <3> QED
      BY ONLY <3>2, <3>3, <3>4, <3>5 DEF Covered
  <2>13. DOMAIN keys' = DOMAIN keys
    BY <1>9
  <2> QED
    BY <1>4, <2>7, <2>10, <2>11, <2>12, <2>13 DEF HoldInv
<1> QED
  <2>1. d = IF n <= keys[k].credits THEN n ELSE keys[k].credits
    BY <1>0
  <2> QED
    BY <1>0, <1>8, <1>9, <2>1 DEF R!Commit

(* A release, the sweep of the listing, a restart and the clock.           *)
LEMMA DropSteps ==
    ASSUME HoldInv, (\E id \in DOMAIN holds : R!Release(id)) \/ R!List \/ R!Restart \/ R!Tick
    PROVE  HoldInv'
<1>1. HoldTypes
  BY DEF HoldInv
<1>2. UNCHANGED <<keys, charged, reported, taken, turnedAway>>
  BY DEF R!Release, R!List, R!Restart, R!Tick
<1>3. now' \in Nat /\ nextId' \in Nat \ {0} /\ now' >= now
  <2>1. now' = now \/ now' = now + 1
    BY DEF R!Release, R!List, R!Restart, R!Tick
  <2>2. nextId' = nextId \/ nextId' = 1
    BY DEF R!Release, R!List, R!Restart, R!Tick
  <2> QED
    BY <1>1, <2>1, <2>2 DEF HoldTypes
<1> DEFINE Dropped ==
             /\ DOMAIN holds' \subseteq DOMAIN holds
             /\ \A id \in DOMAIN holds' : holds'[id] = holds[id]
             /\ IsFiniteSet(DOMAIN holds') /\ holds' \in [DOMAIN holds' -> HoldRecords]
             /\ DOMAIN holds' \subseteq 1 .. nextId' - 1
<1>4. Dropped
  <2>1. CASE R!Restart
    <3>1. holds' = <<>> /\ DOMAIN holds' = {}
      BY <2>1 DEF R!Restart
    <3> QED
      BY <3>1, FS_EmptySet
  <2>2. ASSUME NEW S \in SUBSET (DOMAIN holds), holds' = R!Restrict(holds, S),
               UNCHANGED nextId
        PROVE  Dropped
    <3>1. DOMAIN holds' = S /\ \A id \in S : holds'[id] = holds[id]
      BY <2>2 DEF R!Restrict
    <3>2. IsFiniteSet(S)
      BY <1>1, FS_Subset DEF HoldTypes, HoldTable
    <3>3. holds' \in [S -> HoldRecords]
      BY <1>1, <2>2 DEF R!Restrict, HoldTypes, HoldTable
    <3> QED
      BY <1>1, <2>2, <3>1, <3>2, <3>3 DEF HoldTypes
  <2>3. CASE \E id \in DOMAIN holds : R!Release(id)
    BY <2>2, <2>3 DEF R!Release
  <2>4. CASE R!List
    BY <2>2, <2>4 DEF R!List, R!Swept
  <2>5. CASE R!Tick
    BY <1>1, <2>5 DEF R!Tick, HoldTypes, HoldTable
  <2> QED
    BY <2>1, <2>3, <2>4, <2>5
<1>5. \A k \in Keys : /\ Running(holds', now', k) \subseteq Running(holds, now, k)
                      /\ \A id \in Running(holds', now', k) : holds'[id] = holds[id]
  BY <1>1, <1>3, <1>4 DEF Running, HoldTypes, HoldTable, HoldRecords
<1> QED
  BY <1>2, <1>3, <1>4, <1>5, DropHolds DEF HoldTable

(* A step that changes one record, where the balance and what calls took   *)
(* have no less between them than before.                                  *)
LEMMA RecordStep ==
    ASSUME HoldInv, NEW k \in DOMAIN keys, NEW record \in KeyRecords,
           keys' = [keys EXCEPT ![k] = record],
           charged' \in [Keys -> Nat], \A j \in Keys : charged'[j] >= charged[j],
           record.credits + charged'[k] >= keys[k].credits + charged[k],
           UNCHANGED <<now, holds, nextId, reported, taken, turnedAway>>
    PROVE  HoldInv'
<1>1. HoldTypes
  BY DEF HoldInv
<1>2. HoldTypes'
  BY <1>1 DEF HoldTypes, KeyRecords
<1>3. ASSUME NEW j \in Keys PROVE Short(j)'
  <2>1. charged[j] \in Nat /\ charged'[j] \in Nat /\ reported[j] \in Nat /\ taken[j] \in Nat
    BY <1>1 DEF HoldTypes
  <2> QED
    BY <2>1 DEF HoldInv, Short
<1>4. ASSUME NEW j \in DOMAIN keys PROVE Covered(j)'
  <2>1. j \in Keys /\ j \in DOMAIN keys'
    BY <1>1 DEF HoldTypes
  <2>2. Live(holds', now', j) <= Live(holds, now, j) /\ Live(holds', now', j) \in Nat
    BY <1>1, LiveType DEF HoldTypes
  <2>3. keys'[j].credits \in Nat /\ charged'[j] \in Nat
    BY <1>2, <2>1 DEF HoldTypes, KeyRecords
  <2>4. keys'[j].credits + charged'[j] >= keys[j].credits + charged[j]
    BY <1>1, <2>1, <2>3 DEF HoldTypes, KeyRecords
  <2> QED
    BY <2>1, <2>2, <2>3, <2>4, CoverKept
<1> QED
  BY <1>2, <1>3, <1>4 DEF HoldInv

(* The rest of the server: charges and administrators.                     *)
LEMMA ServerStep ==
    ASSUME HoldInv, NEW k \in Keys,
           R!Charge(k) \/ R!TopUp(k) \/ R!Suspend(k) \/ R!RevokeKey(k)
    PROVE  HoldInv'
<1>1. HoldTypes /\ k \in DOMAIN keys
  BY DEF HoldInv, R!Charge, R!TopUp, R!Suspend, R!RevokeKey
<1>2. keys[k] \in KeyRecords /\ charged[k] \in Nat /\ charged \in [Keys -> Nat]
  BY <1>1 DEF HoldTypes
<1>3. Price \in Nat /\ TopUpAmount \in Nat
  BY CreditsAssumption
<1>4. UNCHANGED <<now, holds, nextId, reported, taken, turnedAway>>
  BY DEF R!Charge, R!TopUp, R!Suspend, R!RevokeKey, R!Changed
<1>5. CASE R!Charge(k)
  <2> DEFINE record == [keys[k] EXCEPT !.credits = @ - Price]
  <2>1. keys[k].credits >= Price
    BY <1>5 DEF R!Charge
  <2>2. record \in KeyRecords /\ record.credits = keys[k].credits - Price
    BY <1>2, <1>3, <2>1 DEF KeyRecords
  <2>3. keys' = [keys EXCEPT ![k] = record]
    BY <1>5 DEF R!Charge
  <2>4. /\ charged' \in [Keys -> Nat] /\ charged'[k] = charged[k] + Price
        /\ \A j \in Keys : charged'[j] >= charged[j]
    BY <1>2, <1>3, <1>5 DEF R!Charge
  <2>5. record.credits + charged'[k] >= keys[k].credits + charged[k]
    BY <1>2, <1>3, <2>2, <2>4 DEF KeyRecords
  <2> HIDE DEF record
  <2> QED
    BY <1>1, <1>4, <2>2, <2>3, <2>4, <2>5, RecordStep
<1>6. ASSUME NEW record \in KeyRecords, R!Changed(k, record),
             record.credits >= keys[k].credits
      PROVE  HoldInv'
  <2>1. keys' = [keys EXCEPT ![k] = record] /\ charged' = charged
    BY <1>6 DEF R!Changed
  <2>2. charged' \in [Keys -> Nat] /\ \A j \in Keys : charged'[j] >= charged[j]
    BY <1>2, <2>1
  <2>3. record.credits + charged'[k] >= keys[k].credits + charged[k]
    BY <1>2, <1>6, <2>1 DEF KeyRecords
  <2> QED
    BY <1>1, <1>4, <1>6, <2>1, <2>2, <2>3, RecordStep
<1>7. CASE R!TopUp(k)
  BY <1>2, <1>3, <1>6, <1>7 DEF R!TopUp, KeyRecords
<1>8. CASE R!Suspend(k)
  <2> DEFINE record == [keys[k] EXCEPT !.suspended = TRUE]
  <2>1. record \in KeyRecords /\ record.credits = keys[k].credits
    BY <1>2 DEF KeyRecords
  <2>2. record.credits >= keys[k].credits
    BY <1>2, <2>1 DEF KeyRecords
  <2> HIDE DEF record
  <2> QED
    BY <1>6, <1>8, <2>1, <2>2 DEF R!Suspend, record
<1>9. CASE R!RevokeKey(k)
  <2> DEFINE record == [keys[k] EXCEPT !.active = FALSE]
  <2>1. record \in KeyRecords /\ record.credits = keys[k].credits
    BY <1>2 DEF KeyRecords
  <2>2. record.credits >= keys[k].credits
    BY <1>2, <2>1 DEF KeyRecords
  <2> HIDE DEF record
  <2> QED
    BY <1>6, <1>9, <2>1, <2>2 DEF R!RevokeKey, record
<1> QED
  BY <1>5, <1>7, <1>8, <1>9

(* A rotation: no hold names the new key, and no commit did.               *)
LEMMA RotateStep ==
    ASSUME HoldInv, NEW k \in Keys, NEW new \in Keys, R!Rotate(k, new)
    PROVE  HoldInv'
<1>1. HoldTypes
  BY DEF HoldInv
<1>2. /\ k \in DOMAIN keys /\ new \notin DOMAIN keys
      /\ charged[new] + reported[new] = 0 /\ R!HoldsOf(new, holds) = {}
      /\ keys' = R!With(R!Restrict(keys, DOMAIN keys \ {k}), new, keys[k])
      /\ UNCHANGED <<now, holds, nextId, charged, reported, taken, turnedAway>>
  BY DEF R!Rotate
<1>3. /\ DOMAIN keys' = (DOMAIN keys \ {k}) \cup {new}
      /\ keys'[new] = keys[k]
      /\ \A j \in DOMAIN keys \ {k} : keys'[j] = keys[j]
  BY <1>2 DEF R!With, R!Restrict
<1>4. HoldTypes'
  <2>1. keys' \in [DOMAIN keys' -> KeyRecords]
    BY <1>1, <1>2, <1>3 DEF HoldTypes, R!With
  <2> QED
    BY <1>1, <1>2, <1>3, <2>1 DEF HoldTypes
<1>5. \A j \in Keys : Short(j)'
  BY <1>2 DEF HoldInv, Short
<1>6. ASSUME NEW j \in DOMAIN keys \ {k} PROVE Covered(j)'
  <2>1. Covered(j)
    BY DEF HoldInv
  <2> QED
    BY <1>2, <1>3, <2>1 DEF Covered
<1>7. Covered(new)'
  <2>1. Running(holds, now, new) = {}
    BY <1>2 DEF Running, R!HoldsOf
  <2>2. Live(holds, now, new) = 0
    BY <2>1, TotalNone DEF Live
  <2>3. /\ reported[new] = 0 /\ taken[new] \in Nat /\ charged[new] \in Nat
        /\ keys[k].credits \in Nat
    BY <1>1, <1>2 DEF HoldTypes, KeyRecords
  <2>4. Live(holds, now, new) + reported[new] - taken[new] <= keys[k].credits + charged[new]
    BY ONLY <2>2, <2>3
  <2> QED
    BY <1>2, <1>3, <2>4 DEF Covered
<1> QED
  BY <1>2, <1>3, <1>4, <1>5, <1>6, <1>7 DEF HoldInv

(* The initial states satisfy the invariant. *)
LEMMA InitHolds == R!Init => HoldInv
<1> SUFFICES ASSUME R!Init PROVE HoldInv
  OBVIOUS
<1>1. /\ now = 0 /\ nextId = 1 /\ turnedAway = FALSE
      /\ charged = [k \in Keys |-> 0] /\ reported = [k \in Keys |-> 0]
      /\ taken = [k \in Keys |-> 0]
  BY DEF R!Init, R!Zero
<1>2. holds = <<>> /\ DOMAIN holds = {}
  BY DEF R!Init
<1>3. /\ DOMAIN keys \subseteq Keys /\ keys \in [DOMAIN keys -> KeyRecords]
      /\ \A k \in DOMAIN keys : keys[k].credits \in Nat
  BY CreditsAssumption DEF R!Init, KeyRecords
<1>4. HoldTable(holds)
  BY <1>2, FS_EmptySet DEF HoldTable
<1>5. HoldTypes
  BY <1>1, <1>2, <1>3, <1>4 DEF HoldTypes
<1>6. \A k \in Keys : Short(k)
  BY <1>1 DEF Short
<1>7. ASSUME NEW k \in DOMAIN keys PROVE Covered(k)
  <2>1. Running(holds, now, k) = {}
    BY <1>2 DEF Running
  <2>2. Live(holds, now, k) = 0
    BY <2>1, TotalNone DEF Live
  <2> QED
    BY <1>1, <1>3, <2>2 DEF Covered
<1> QED
  BY <1>1, <1>5, <1>6, <1>7 DEF HoldInv

(* Every step keeps the invariant. *)
LEMMA StepHolds == HoldInv /\ [R!Next]_(R!vars) => HoldInv'
<1> SUFFICES ASSUME HoldInv, [R!Next]_(R!vars) PROVE HoldInv'
  OBVIOUS
<1>1. CASE R!Next
  BY <1>1, ReserveStep, CommitStep, DropSteps, ServerStep, RotateStep DEF R!Next
<1>2. CASE UNCHANGED R!vars
  <2>1. UNCHANGED <<now, keys, holds, nextId, charged, reported, taken, turnedAway>>
    BY <1>2 DEF R!vars
  <2> QED
    BY <2>1 DEF HoldInv, HoldTypes, HoldTable, Short, Covered, Live, Running, CreditsOf
<1> QED
  BY <1>1, <1>2

(* The invariant says what Reservations promises.                          *)
LEMMA HoldsKept ==
    HoldInv => R!HoldsAreCovered /\ R!ShortOnlyByCalls /\ R!NoneTurnedAway
<1> SUFFICES ASSUME HoldInv
             PROVE  R!HoldsAreCovered /\ R!ShortOnlyByCalls /\ R!NoneTurnedAway
  OBVIOUS
<1>1. HoldTypes
  BY DEF HoldInv
<1>2. ASSUME NEW k \in DOMAIN keys
      PROVE  R!SumOf({id \in R!HoldsOf(k, holds) : ~R!Lapsed(id)}) <= keys[k].credits + charged[k]
  <2>1. k \in Keys
    BY <1>1 DEF HoldTypes
  <2>2. {id \in R!HoldsOf(k, holds) : ~R!Lapsed(id)} = Running(holds, now, k)
    BY <1>1 DEF R!HoldsOf, R!Lapsed, Running, HoldTypes, HoldTable, HoldRecords
  <2>3. R!SumOf(Running(holds, now, k)) = Live(holds, now, k)
    BY <1>1, SweptHolds
  <2>4. Covered(k) /\ Short(k)
    BY <2>1 DEF HoldInv
  <2>5. /\ reported[k] \in Nat /\ taken[k] \in Nat /\ charged[k] \in Nat
        /\ keys[k].credits \in Nat /\ Live(holds, now, k) \in Nat
    BY <1>1, <2>1, LiveType DEF HoldTypes, KeyRecords
  <2>6. Live(holds, now, k) <= keys[k].credits + charged[k]
    BY ONLY <2>4, <2>5 DEF Covered, Short
  <2> QED
    BY <2>2, <2>3, <2>6
<1>3. R!ShortOnlyByCalls
  BY DEF HoldInv, Short, R!ShortOnlyByCalls
<1>4. R!NoneTurnedAway
  BY DEF HoldInv, R!NoneTurnedAway
<1> QED
  BY <1>2, <1>3, <1>4 DEF R!HoldsAreCovered

-----------------------------------------------------------------------------
(* The invariant of the grants: the books say what the grants say.         *)
GrantRecords == [balance : Nat, used : Nat, priority : Int, expiresAt : Nat, active : BOOLEAN]
Lists == Seq(GrantRecords)

Left(list) == Total(G!Balances(list), DOMAIN list)
Spent(list) == Total(G!Useds(list), DOMAIN list)

Books == [allocated : Int, consumed : Int, expired : Int]

GrantTypes == clock \in Nat /\ grants \in Lists /\ stats \in Books /\ rolled \in Int

GrantInv ==
    /\ GrantTypes
    /\ stats.allocated = stats.consumed + stats.expired + rolled + Left(grants)
    /\ stats.consumed = Spent(grants)

(* The operators of Grants are those whose lemmas are used here.           *)
LEMMA SameTotalG == \A f, S : G!Total(f, S) = Total(f, S)
<1> TAKE f, S
<1>1. G!Units(f, S) = Units(f, S)
  BY DEF G!Units, Units
<1>2. \A T : G!Cardinality(T) = Cardinality(T)
  BY DEF G!Cardinality, Cardinality
<1> QED
  BY <1>1, <1>2 DEF G!Total, Total

(* What a list of grants has left and has spent are sums.                  *)
LEMMA ListTotals ==
    ASSUME NEW list \in Lists
    PROVE  /\ Countable(G!Balances(list), DOMAIN list) /\ Countable(G!Useds(list), DOMAIN list)
           /\ Left(list) \in Nat /\ Spent(list) \in Nat
<1>1. IsFiniteSet(DOMAIN list)
  BY FS_Interval DEF Lists
<1>2. \A i \in DOMAIN list : list[i] \in GrantRecords
  BY DEF Lists
<1>3. Countable(G!Balances(list), DOMAIN list) /\ Countable(G!Useds(list), DOMAIN list)
  BY <1>1, <1>2 DEF Countable, G!Balances, G!Useds, GrantRecords
<1> QED
  BY <1>3, TotalType DEF Left, Spent

(* A grant at the end of the list adds what it has.                        *)
LEMMA ListAppended ==
    ASSUME NEW list \in Lists, NEW g \in GrantRecords
    PROVE  /\ Append(list, g) \in Lists
           /\ Left(Append(list, g)) = Left(list) + g.balance
           /\ Spent(Append(list, g)) = Spent(list) + g.used
<1> DEFINE new == Append(list, g)
           n == Len(list) + 1
           D == DOMAIN list
<1>1. /\ new \in Lists /\ DOMAIN new = D \cup {n} /\ n \notin D
      /\ new[n] = g /\ \A i \in D : new[i] = list[i]
  BY DEF Lists
<1>2. /\ Countable(G!Balances(list), D) /\ Countable(G!Useds(list), D)
      /\ Countable(G!Balances(new), D \cup {n}) /\ Countable(G!Useds(new), D \cup {n})
  BY <1>1, ListTotals
<1> HIDE DEF new, n
<1>3. /\ \A i \in D : G!Balances(new)[i] = G!Balances(list)[i]
      /\ \A i \in D : G!Useds(new)[i] = G!Useds(list)[i]
      /\ G!Balances(new)[n] = g.balance /\ G!Useds(new)[n] = g.used
      /\ g.balance \in Nat /\ g.used \in Nat
  BY <1>1 DEF G!Balances, G!Useds, GrantRecords
<1> HIDE DEF D
<1>4. ASSUME NEW f, NEW h, Countable(f, D), Countable(h, D \cup {n}), \A i \in D : h[i] = f[i]
      PROVE  Total(h, D \cup {n}) = Total(f, D) + h[n]
  <2>1. Countable(h, D) /\ h[n] \in Nat
    BY <1>4 DEF Countable
  <2>2. Total(h, {n}) = h[n] /\ Countable(h, {n}) /\ D \cap {n} = {}
    BY <1>1, <2>1, TotalOne
  <2>3. Total(h, D \cup {n}) = Total(h, D) + Total(h, {n})
    BY <2>1, <2>2, TotalUnion
  <2>4. Total(h, D) = Total(f, D)
    BY <1>4, TotalSame
  <2> QED
    BY <2>2, <2>3, <2>4
<1>5. Left(new) = Left(list) + g.balance
  BY <1>1, <1>2, <1>3, <1>4 DEF Left, D
<1>6. Spent(new) = Spent(list) + g.used
  BY <1>1, <1>2, <1>3, <1>4 DEF Spent, D
<1> QED
  BY <1>1, <1>5, <1>6 DEF new

(* Another grant in the place of one.                                      *)
LEMMA ListChanged ==
    ASSUME NEW list \in Lists, NEW i \in DOMAIN list, NEW g \in GrantRecords
    PROVE  /\ [list EXCEPT ![i] = g] \in Lists
           /\ Left([list EXCEPT ![i] = g]) = Left(list) - list[i].balance + g.balance
           /\ Spent([list EXCEPT ![i] = g]) = Spent(list) - list[i].used + g.used
           /\ list[i].balance \in Nat /\ list[i].used \in Nat
<1> DEFINE new == [list EXCEPT ![i] = g]
           D == DOMAIN list
<1>1. /\ new \in Lists /\ DOMAIN new = D
      /\ new[i] = g /\ \A j \in D \ {i} : new[j] = list[j]
  BY DEF Lists
<1>2. list[i] \in GrantRecords
  BY DEF Lists
<1>3. /\ Countable(G!Balances(list), D) /\ Countable(G!Useds(list), D)
      /\ Countable(G!Balances(new), D) /\ Countable(G!Useds(new), D)
  BY <1>1, ListTotals
<1> HIDE DEF new
<1>4. /\ Differ(G!Balances(list), G!Balances(new), D, i)
      /\ Differ(G!Useds(list), G!Useds(new), D, i)
  BY <1>1 DEF Differ, G!Balances, G!Useds
<1>5. /\ G!Balances(list)[i] = list[i].balance /\ G!Balances(new)[i] = g.balance
      /\ G!Useds(list)[i] = list[i].used /\ G!Useds(new)[i] = g.used
  BY <1>1 DEF G!Balances, G!Useds
<1> HIDE DEF D
<1>6. Total(G!Balances(new), D) = Total(G!Balances(list), D) - list[i].balance + g.balance
  BY ONLY <1>3, <1>4, <1>5, TotalDiffer
<1>7. Total(G!Useds(new), D) = Total(G!Useds(list), D) - list[i].used + g.used
  BY ONLY <1>3, <1>4, <1>5, TotalDiffer
<1> QED
  BY <1>1, <1>2, <1>6, <1>7 DEF Left, Spent, D, new, GrantRecords

(* The sweep takes what is left of the grants that are over.               *)
LEMMA SweptGrants ==
    ASSUME grants \in Lists
    PROVE  /\ G!Swept \in Lists /\ DOMAIN G!Swept = DOMAIN grants
           /\ Left(G!Swept) = Left(grants) - G!Lost /\ G!Lost \in Nat
           /\ Spent(G!Swept) = Spent(grants)
<1> DEFINE D == DOMAIN grants
           O == {i \in D : G!Over(grants[i])}
           f == G!Balances(grants)
           h == G!Balances(G!Swept)
<1>1. G!Swept \in Lists /\ DOMAIN G!Swept = D
  <2>1. \A i \in D : grants[i] \in GrantRecords
    BY DEF Lists
  <2>2. G!Swept \in [D -> GrantRecords]
    BY <2>1 DEF G!Swept, G!Ids, GrantRecords
  <2>3. D = 1 .. Len(grants) /\ Len(grants) \in Nat
    BY DEF Lists
  <2> QED
    BY <2>2, <2>3 DEF Lists
<1>2. /\ \A i \in O : h[i] = 0
      /\ \A i \in D \ O : h[i] = f[i]
      /\ \A i \in D : G!Useds(G!Swept)[i] = G!Useds(grants)[i]
  <2>1. \A i \in D : /\ G!Swept[i].used = grants[i].used
                    /\ G!Swept[i].balance = IF i \in O THEN 0 ELSE grants[i].balance
    <3>1. \A i \in D : grants[i] \in GrantRecords
      BY DEF Lists
    <3> QED
      BY <3>1 DEF G!Swept, G!Ids, GrantRecords
  <2>2. O \subseteq D
    OBVIOUS
  <2> HIDE DEF O
  <2> QED
    BY <1>1, <2>1, <2>2 DEF G!Balances, G!Useds
<1>3. Countable(f, D) /\ Countable(h, D)
  BY <1>1, ListTotals
<1>4. O \subseteq D /\ G!Lost = Total(f, O)
  BY SameTotalG DEF G!Lost, G!Ids
<1>5. Left(G!Swept) = Total(h, D) /\ Left(grants) = Total(f, D)
  BY <1>1 DEF Left
<1> HIDE DEF f, h, O
<1>6. Total(h, O) = 0
  BY <1>2, TotalZero
<1>7. Countable(h, O) /\ \A i \in D \ O : h[i] = f[i]
  BY <1>2, <1>3, <1>4, FS_Subset DEF Countable
<1>8. /\ Total(h, D) = Total(f, D) - Total(f, O) + Total(h, O)
      /\ Total(f, O) \in Nat /\ Total(f, D) \in Nat
  <2>1. O \subseteq D
    BY <1>4
  <2>2. Total(h, D) = Total(f, D) - Total(f, O) + Total(h, O)
    BY ONLY <1>3, <2>1, <1>7, TotalChange
  <2>3. Total(f, O) \in Nat /\ Total(f, D) \in Nat
    BY ONLY <1>3, <2>1, <1>7, TotalChange
  <2> QED
    BY <2>2, <2>3
<1>9. Spent(G!Swept) = Spent(grants)
  BY <1>1, <1>2, TotalSame DEF Spent
<1> QED
  BY <1>1, <1>4, <1>5, <1>6, <1>8, <1>9

(* The comparator of deduct is an order.                                   *)
LEMMA SortedIsOrder ==
    ASSUME grants \in Lists
    PROVE  Order(G!Sorted, G!Open)
<1> DEFINE first(i, j) == G!SpentFirst(G!Swept, i, j)
<1>1. \A i \in G!Open : /\ i \in Nat /\ G!Swept[i].priority \in Int
                        /\ G!Swept[i].expiresAt \in Nat
  <2>1. G!Swept \in Lists /\ DOMAIN G!Swept = DOMAIN grants
    BY SweptGrants
  <2>2. \A i \in DOMAIN grants : i \in Nat /\ G!Swept[i] \in GrantRecords
    BY <2>1 DEF Lists
  <2> QED
    BY <2>2 DEF G!Open, G!Ids, GrantRecords
<1>2. \A i, j \in G!Open : <<i, j>> \in G!Sorted <=> first(i, j)
  BY DEF G!Sorted
<1>3. \A i \in G!Open : ~first(i, i)
  BY <1>1 DEF G!SpentFirst
<1>4. \A i, j \in G!Open : i = j \/ first(i, j) \/ first(j, i)
  BY <1>1 DEF G!SpentFirst
<1>5. \A i, j, k \in G!Open : first(i, j) /\ first(j, k) => first(i, k)
  BY <1>1 DEF G!SpentFirst
<1> HIDE DEF first
<1> QED
  BY <1>2, <1>3, <1>4, <1>5 DEF Order

(* A deduction takes n from the open grants, and what each gives it has.   *)
LEMMA DeductedGrants ==
    ASSUME grants \in Lists, NEW n \in Nat, n <= G!Available
    PROVE  /\ G!Deducted(n) \in Lists
           /\ Left(G!Deducted(n)) = Left(G!Swept) - n
           /\ Spent(G!Deducted(n)) = Spent(G!Swept) + n
<1> DEFINE D == DOMAIN grants
           O == G!Open
           b == G!Balances(G!Swept)
           u == G!Useds(G!Swept)
           take == [i \in D |-> IF i \in O THEN G!Part(i, n) ELSE 0]
           new == G!Deducted(n)
<1>1. G!Swept \in Lists /\ DOMAIN G!Swept = D
  BY SweptGrants
<1>2. /\ \A i \in D : G!Swept[i] \in GrantRecords
      /\ O \subseteq D
  BY <1>1 DEF Lists, G!Open, G!Ids
<1>3. Countable(b, D) /\ Countable(u, D)
  BY <1>1, ListTotals
<1>4. \A i \in D : b[i] = G!Swept[i].balance /\ u[i] = G!Swept[i].used
  BY <1>1 DEF G!Balances, G!Useds
<1>5. Countable(b, O) /\ IsFiniteSet(O)
  BY <1>2, <1>3, FS_Subset DEF Countable
<1>6. Order(G!Sorted, O)
  BY SortedIsOrder
<1>7. n <= Total(b, O)
  BY SameTotalG DEF G!Available
<1>8. \A i \in O : take[i] = Portion(b[i], Total(b, Earlier(G!Sorted, O, i)), n)
  <2> TAKE i \in O
  <2>1. take[i] = G!Part(i, n)
    BY <1>2
  <2>2. G!Part(i, n) = Portion(G!Swept[i].balance, Total(b, Earlier(G!Sorted, O, i)), n)
    BY SameTotalG DEF G!Part, G!Portion, Portion, G!Earlier, Earlier
  <2> QED
    BY <1>2, <1>4, <2>1, <2>2
<1>9. \A i \in D \ O : take[i] = 0
  OBVIOUS
<1>10. \A i \in D : /\ new[i].balance = G!Swept[i].balance - take[i]
                    /\ new[i].used = G!Swept[i].used + take[i]
                    /\ new[i] = [G!Swept[i] EXCEPT !.balance = G!Swept[i].balance - take[i],
                                                   !.used = G!Swept[i].used + take[i]]
  <2> SUFFICES ASSUME NEW i \in D
               PROVE  /\ new[i].balance = G!Swept[i].balance - take[i]
                      /\ new[i].used = G!Swept[i].used + take[i]
                      /\ new[i] = [G!Swept[i] EXCEPT !.balance = G!Swept[i].balance - take[i],
                                                     !.used = G!Swept[i].used + take[i]]
    OBVIOUS
  <2>1. PICK g, x, y : /\ g = G!Swept[i]
                       /\ x = G!Swept[i].balance - take[i] /\ y = G!Swept[i].used + take[i]
    OBVIOUS
  <2>2. g \in GrantRecords
    BY <1>2, <2>1
  <2>3. new[i] = [g EXCEPT !.balance = x, !.used = y]
    <3>1. CASE i \in O
      <4>1. take[i] = G!Part(i, n)
        BY <3>1
      <4>2. new[i] = [g EXCEPT !.balance = @ - G!Part(i, n), !.used = @ + G!Part(i, n)]
        BY <2>1, <3>1 DEF G!Deducted, G!Ids
      <4> QED
        BY <2>1, <4>1, <4>2
    <3>2. CASE i \notin O
      <4>1. take[i] = 0 /\ new[i] = g
        BY <2>1, <3>2 DEF G!Deducted, G!Ids
      <4>2. x = g.balance /\ y = g.used
        BY <2>1, <2>2, <4>1 DEF GrantRecords
      <4> QED
        BY ONLY <2>2, <4>1, <4>2 DEF GrantRecords
    <3> QED
      BY <3>1, <3>2
  <2>4. new[i].balance = x /\ new[i].used = y
    BY ONLY <2>2, <2>3 DEF GrantRecords
  <2> QED
    BY <2>1, <2>3, <2>4
<1>11. DOMAIN new = D /\ new = [i \in D |-> new[i]]
  BY DEF G!Deducted, G!Ids
<1> HIDE DEF b, u, take, new, O
<1>12. Total(take, O) = n /\ Countable(take, O)
  BY ONLY n \in Nat, <1>5, <1>6, <1>7, <1>8, TotalPortions
<1>13. \A i \in D : take[i] \in Nat /\ take[i] <= b[i]
  <2>1. \A i \in O : take[i] \in Nat
    BY <1>12 DEF Countable
  <2>2. \A i \in O : Countable(b, Earlier(G!Sorted, O, i))
    BY <1>5, FS_Subset DEF Countable, Earlier
  <2>3. \A i \in O : Total(b, Earlier(G!Sorted, O, i)) \in Nat /\ b[i] \in Nat
    BY <1>5, <2>2, TotalType DEF Countable
  <2>4. \A i \in O : take[i] <= b[i]
    BY <1>8, <2>3 DEF Portion
  <2>5. \A i \in D \ O : take[i] = 0 /\ b[i] \in Nat
    BY <1>3, <1>9 DEF Countable
  <2> QED
    BY <2>1, <2>4, <2>5
<1>14. Countable(take, D)
  BY <1>3, <1>13 DEF Countable
<1>15. Total(take, D) = n
  <2>1. Total(take, D) = Total(take, O) + Total(take, D \ O)
    BY ONLY <1>2, <1>14, TotalSplit
  <2>2. Total(take, D \ O) = 0
    BY ONLY <1>9, TotalZero
  <2> QED
    BY <1>12, <2>1, <2>2
<1>16. new \in Lists
  <2>1. \A i \in D : b[i] - take[i] \in Nat /\ u[i] + take[i] \in Nat
    BY <1>3, <1>13 DEF Countable
  <2>2. ASSUME NEW i \in D PROVE new[i] \in GrantRecords
    <3>1. PICK x, y : x = b[i] - take[i] /\ y = u[i] + take[i]
      OBVIOUS
    <3>2. x \in Nat /\ y \in Nat /\ G!Swept[i] \in GrantRecords
      BY <1>2, <2>1, <3>1
    <3>3. new[i] = [G!Swept[i] EXCEPT !.balance = x, !.used = y]
      BY <1>4, <1>10, <3>1
    <3> QED
      BY ONLY <3>2, <3>3 DEF GrantRecords
  <2>3. new \in [D -> GrantRecords]
    BY <1>11, <2>2
  <2>4. D = 1 .. Len(grants) /\ Len(grants) \in Nat
    BY DEF Lists
  <2> QED
    BY <2>3, <2>4 DEF Lists
<1>17. /\ Countable(G!Balances(new), D) /\ Countable(G!Useds(new), D)
       /\ Left(new) = Total(G!Balances(new), D) /\ Spent(new) = Total(G!Useds(new), D)
       /\ Left(G!Swept) = Total(b, D) /\ Spent(G!Swept) = Total(u, D)
  BY <1>1, <1>11, <1>16, ListTotals DEF Left, Spent, b, u
<1>18. \A i \in D : b[i] = G!Balances(new)[i] + take[i]
  <2>1. \A i \in D : G!Balances(new)[i] = b[i] - take[i]
    BY <1>4, <1>10, <1>11 DEF G!Balances
  <2> QED
    BY <1>3, <1>13, <2>1 DEF Countable
<1>19. \A i \in D : G!Useds(new)[i] = u[i] + take[i]
  BY <1>4, <1>10, <1>11 DEF G!Useds
<1> HIDE DEF D
<1>20. Total(b, D) = Total(G!Balances(new), D) + Total(take, D)
  BY ONLY <1>14, <1>17, <1>18, TotalPlus
<1>21. Total(G!Useds(new), D) = Total(u, D) + Total(take, D)
  BY ONLY <1>3, <1>14, <1>19, TotalPlus
<1>22. Total(G!Balances(new), D) \in Nat
  BY <1>17, TotalType
<1>23. Left(new) = Left(G!Swept) - n
  BY <1>15, <1>17, <1>20, <1>22
<1>24. Spent(new) = Spent(G!Swept) + n
  BY <1>15, <1>17, <1>21
<1> QED
  BY <1>16, <1>23, <1>24 DEF new

(* Every call of the manager keeps the invariant. *)
LEMMA CreateStep ==
    ASSUME GrantInv, NEW n \in Amounts, NEW p \in Priorities, NEW l \in Lives, G!Create(n, p, l)
    PROVE  GrantInv'
<1> DEFINE g == G!Grant(n, p, l)
<1>1. grants \in Lists /\ stats \in Books /\ rolled \in Int /\ clock \in Nat
  BY DEF GrantInv, GrantTypes
<1>2. g \in GrantRecords /\ g.balance = n /\ g.used = 0 /\ n \in Nat
  BY <1>1, CreditsAssumption DEF G!Grant, GrantRecords
<1>3. /\ grants' = Append(grants, g) /\ UNCHANGED <<clock, rolled>>
      /\ stats' = [stats EXCEPT !.allocated = @ + n]
  BY DEF G!Create
<1> HIDE DEF g
<1>4. /\ grants' \in Lists /\ Left(grants') = Left(grants) + n
      /\ Spent(grants') = Spent(grants) + 0 /\ Left(grants) \in Nat /\ Spent(grants) \in Nat
  BY <1>1, <1>2, <1>3, ListAppended, ListTotals
<1>5. /\ stats' \in Books /\ stats'.allocated = stats.allocated + n
      /\ stats'.consumed = stats.consumed /\ stats'.expired = stats.expired
  BY <1>1, <1>2, <1>3 DEF Books
<1> QED
  BY <1>1, <1>2, <1>3, <1>4, <1>5 DEF GrantInv, GrantTypes, Books

LEMMA DeductStep ==
    ASSUME GrantInv, NEW n \in Amounts, G!Deduct(n)
    PROVE  GrantInv'
<1>1. grants \in Lists /\ stats \in Books /\ rolled \in Int /\ clock \in Nat /\ n \in Nat
  BY CreditsAssumption DEF GrantInv, GrantTypes
<1>2. /\ G!Swept \in Lists /\ Left(G!Swept) = Left(grants) - G!Lost /\ G!Lost \in Nat
      /\ Spent(G!Swept) = Spent(grants) /\ Left(grants) \in Nat /\ Spent(grants) \in Nat
  BY <1>1, SweptGrants, ListTotals
<1>3. UNCHANGED <<clock, rolled>>
  BY DEF G!Deduct
<1>4. CASE /\ G!Available >= n /\ grants' = G!Deducted(n)
           /\ stats' = [stats EXCEPT !.consumed = @ + n, !.expired = @ + G!Lost]
  <2>1. G!Available \in Nat
    <3>1. G!Open \subseteq DOMAIN G!Swept
      BY <1>1, SweptGrants DEF G!Open, G!Ids
    <3>2. Countable(G!Balances(G!Swept), DOMAIN G!Swept)
      BY <1>2, ListTotals
    <3> QED
      BY <3>1, <3>2, TotalSplit, SameTotalG DEF G!Available
  <2>2. n <= G!Available
    BY <1>1, <1>4, <2>1
  <2>3. /\ grants' \in Lists /\ Left(grants') = Left(G!Swept) - n
        /\ Spent(grants') = Spent(G!Swept) + n
    BY <1>1, <1>4, <2>2, DeductedGrants
  <2>4. /\ stats' \in Books /\ stats'.allocated = stats.allocated
        /\ stats'.consumed = stats.consumed + n /\ stats'.expired = stats.expired + G!Lost
    <3>1. stats' = [allocated |-> stats.allocated, consumed |-> stats.consumed + n,
                    expired |-> stats.expired + G!Lost]
      BY <1>1, <1>2, <1>4 DEF Books
    <3> QED
      BY <1>1, <1>2, <3>1 DEF Books
  <2> QED
    BY <1>1, <1>2, <1>3, <2>3, <2>4 DEF GrantInv, GrantTypes, Books
<1>5. CASE grants' = G!Swept /\ stats' = [stats EXCEPT !.expired = @ + G!Lost]
  <2>1. /\ stats' \in Books /\ stats'.allocated = stats.allocated
        /\ stats'.consumed = stats.consumed /\ stats'.expired = stats.expired + G!Lost
    BY <1>1, <1>2, <1>5 DEF Books
  <2> QED
    BY <1>1, <1>2, <1>3, <1>5, <2>1 DEF GrantInv, GrantTypes, Books
<1> QED
  BY <1>4, <1>5 DEF G!Deduct

LEMMA SweepStep ==
    ASSUME GrantInv, G!Sweep
    PROVE  GrantInv'
<1>1. grants \in Lists /\ stats \in Books /\ rolled \in Int /\ clock \in Nat
  BY DEF GrantInv, GrantTypes
<1>2. /\ G!Swept \in Lists /\ Left(G!Swept) = Left(grants) - G!Lost /\ G!Lost \in Nat
      /\ Spent(G!Swept) = Spent(grants) /\ Left(grants) \in Nat /\ Spent(grants) \in Nat
  BY <1>1, SweptGrants, ListTotals
<1>3. /\ grants' = G!Swept /\ stats' = [stats EXCEPT !.expired = @ + G!Lost]
      /\ UNCHANGED <<clock, rolled>>
  BY DEF G!Sweep
<1>4. /\ stats' \in Books /\ stats'.allocated = stats.allocated
      /\ stats'.consumed = stats.consumed /\ stats'.expired = stats.expired + G!Lost
  BY <1>1, <1>2, <1>3 DEF Books
<1> QED
  BY <1>1, <1>2, <1>3, <1>4 DEF GrantInv, GrantTypes, Books

LEMMA RefundStep ==
    ASSUME GrantInv, NEW i \in DOMAIN grants, NEW n \in Amounts, G!Refund(i, n)
    PROVE  GrantInv'
<1>1. /\ grants \in Lists /\ stats \in Books /\ rolled \in Int /\ clock \in Nat /\ n \in Nat
      /\ grants[i] \in GrantRecords
  BY CreditsAssumption DEF GrantInv, GrantTypes, Lists
<1>2. PICK b : b = G!Refundable(grants[i], n)
  OBVIOUS
<1>3. b \in Nat /\ b <= grants[i].used
  BY <1>1, <1>2 DEF G!Refundable, GrantRecords
<1>4. PICK g : g = [grants[i] EXCEPT !.balance = @ + b, !.used = @ - b]
  OBVIOUS
<1>5. /\ g \in GrantRecords /\ g.balance = grants[i].balance + b
      /\ g.used = grants[i].used - b
  <2>1. PICK x, y : x = grants[i].balance + b /\ y = grants[i].used - b
    OBVIOUS
  <2>2. x \in Nat /\ y \in Nat
    BY <1>1, <1>3, <2>1 DEF GrantRecords
  <2>3. g = [grants[i] EXCEPT !.balance = x, !.used = y]
    BY <1>4, <2>1
  <2> QED
    BY ONLY <1>1, <2>1, <2>2, <2>3 DEF GrantRecords
<1>6. /\ grants' = [grants EXCEPT ![i] = g] /\ stats' = [stats EXCEPT !.consumed = @ - b]
      /\ UNCHANGED <<clock, rolled>>
  BY <1>1, <1>2, <1>4 DEF G!Refund, Lists, GrantRecords
<1>7. /\ grants' \in Lists
      /\ Left(grants') = Left(grants) - grants[i].balance + g.balance
      /\ Spent(grants') = Spent(grants) - grants[i].used + g.used
      /\ grants[i].balance \in Nat /\ grants[i].used \in Nat
      /\ Left(grants) \in Nat /\ Spent(grants) \in Nat
  BY <1>1, <1>5, <1>6, ListChanged, ListTotals
<1>8. /\ stats' \in Books /\ stats'.allocated = stats.allocated
      /\ stats'.consumed = stats.consumed - b /\ stats'.expired = stats.expired
  BY <1>1, <1>3, <1>6 DEF Books
<1> QED
  BY <1>1, <1>3, <1>5, <1>6, <1>7, <1>8 DEF GrantInv, GrantTypes, Books

(* What leaves a grant that is rolled over or voided. *)
LEMMA GrantEmptied ==
    ASSUME grants \in Lists, NEW i \in DOMAIN grants
    PROVE  LET new == [grants EXCEPT ![i].balance = 0, ![i].active = FALSE]
           IN  /\ new \in Lists /\ Left(new) = Left(grants) - grants[i].balance
               /\ Spent(new) = Spent(grants) /\ grants[i].balance \in Nat
               /\ Left(grants) \in Nat /\ Spent(grants) \in Nat
<1> DEFINE g == [grants[i] EXCEPT !.balance = 0, !.active = FALSE]
           new == [grants EXCEPT ![i].balance = 0, ![i].active = FALSE]
<1>1. grants[i] \in GrantRecords
  BY DEF Lists
<1>2. g \in GrantRecords /\ g.balance = 0 /\ g.used = grants[i].used
  BY <1>1 DEF GrantRecords
<1>3. new = [grants EXCEPT ![i] = g]
  BY <1>1 DEF Lists, GrantRecords
<1> HIDE DEF g, new
<1>4. /\ new \in Lists /\ Left(new) = Left(grants) - grants[i].balance + g.balance
      /\ Spent(new) = Spent(grants) - grants[i].used + g.used
      /\ grants[i].balance \in Nat /\ grants[i].used \in Nat
      /\ Left(grants) \in Nat /\ Spent(grants) \in Nat
  BY <1>2, <1>3, ListChanged, ListTotals
<1> QED
  BY <1>2, <1>4 DEF new

LEMMA RolloverStep ==
    ASSUME GrantInv, NEW i \in DOMAIN grants, NEW share \in Percents,
           NEW p \in Priorities, NEW l \in Lives, G!Rollover(i, share, p, l)
    PROVE  GrantInv'
<1>1. grants \in Lists /\ stats \in Books /\ rolled \in Int /\ clock \in Nat
  BY DEF GrantInv, GrantTypes
<1>2. PICK part : part = (grants[i].balance * share) \div 100
  OBVIOUS
<1>3. PICK old : old = [grants EXCEPT ![i].balance = 0, ![i].active = FALSE]
  OBVIOUS
<1>4. /\ old \in Lists /\ Left(old) = Left(grants) - grants[i].balance
      /\ Spent(old) = Spent(grants) /\ grants[i].balance \in Nat
      /\ Left(grants) \in Nat /\ Spent(grants) \in Nat
  BY <1>1, <1>3, GrantEmptied
<1>5. part \in Nat
  <2>1. share \in Nat
    BY CreditsAssumption
  <2>2. \A a, b \in Nat : (a * b) \div 100 \in Nat
    <3> TAKE a, b \in Nat
    <3>1. a * b \in Nat
      OBVIOUS
    <3>2. \A c \in Nat : c \div 100 \in Nat
      OBVIOUS
    <3> QED
      BY <3>1, <3>2
  <2> QED
    BY <1>2, <1>4, <2>1, <2>2
<1>6. PICK g : g = G!Grant(part, p, l)
  OBVIOUS
<1>7. g \in GrantRecords /\ g.balance = part /\ g.used = 0
  BY <1>1, <1>5, <1>6, CreditsAssumption DEF G!Grant, GrantRecords
<1>8. /\ grants' = Append(old, g) /\ rolled' = rolled + part /\ UNCHANGED clock
      /\ stats' = [stats EXCEPT !.allocated = @ + part,
                                !.expired = @ + (grants[i].balance - part)]
  BY <1>2, <1>3, <1>6 DEF G!Rollover, G!LeftBehind
<1>9. /\ grants' \in Lists /\ Left(grants') = Left(old) + part
      /\ Spent(grants') = Spent(old) + 0 /\ Left(old) \in Nat /\ Spent(old) \in Nat
  BY <1>4, <1>7, <1>8, ListAppended, ListTotals
<1>10. /\ stats' \in Books /\ stats'.allocated = stats.allocated + part
       /\ stats'.consumed = stats.consumed
       /\ stats'.expired = stats.expired + (grants[i].balance - part)
  <2>1. stats' = [allocated |-> stats.allocated + part, consumed |-> stats.consumed,
                  expired |-> stats.expired + (grants[i].balance - part)]
    BY <1>1, <1>4, <1>5, <1>8 DEF Books
  <2> QED
    BY <1>1, <1>4, <1>5, <2>1 DEF Books
<1>11. /\ stats.allocated \in Int /\ stats.consumed \in Int /\ stats.expired \in Int
       /\ stats.allocated = stats.consumed + stats.expired + rolled + Left(grants)
       /\ stats.consumed = Spent(grants)
  BY <1>1 DEF GrantInv, Books
<1>12. /\ stats'.allocated = stats'.consumed + stats'.expired + rolled' + Left(grants')
       /\ stats'.consumed = Spent(grants')
  <2>1. Left(grants') = Left(grants) - grants[i].balance + part
    BY ONLY <1>4, <1>5, <1>9
  <2>2. Spent(grants') = Spent(grants)
    BY ONLY <1>4, <1>9
  <2>3. rolled' = rolled + part
    BY <1>8
  <2>4. /\ stats.allocated \in Int /\ stats.consumed \in Int /\ stats.expired \in Int
        /\ rolled \in Int /\ Left(grants) \in Int /\ grants[i].balance \in Int
    BY <1>1, <1>4, <1>11
  <2>5. stats'.allocated = stats'.consumed + stats'.expired + rolled' + Left(grants')
    <3>1. stats.allocated + part
            = stats.consumed + (stats.expired + (grants[i].balance - part))
              + (rolled + part) + (Left(grants) - grants[i].balance + part)
      <4>1. PICK a, c, e, r, f, b :
              /\ a = stats.allocated /\ c = stats.consumed /\ e = stats.expired
              /\ r = rolled /\ f = Left(grants) /\ b = grants[i].balance
        OBVIOUS
      <4>2. a \in Int /\ c \in Int /\ e \in Int /\ r \in Int /\ f \in Int /\ b \in Int
        BY ONLY <4>1, <2>4
      <4>3. a = c + e + r + f
        BY ONLY <4>1, <4>2, <2>4, <1>11
      <4>4. a + part = c + (e + (b - part)) + (r + part) + (f - b + part)
        BY ONLY <4>2, <4>3, <1>5
      <4> QED
        BY ONLY <4>1, <4>2, <2>4, <4>4
    <3> QED
      BY ONLY <3>1, <1>10, <2>1, <2>3
  <2> QED
    BY <1>10, <1>11, <2>2, <2>5
<1> QED
  BY <1>1, <1>5, <1>8, <1>9, <1>10, <1>12 DEF GrantInv, GrantTypes

LEMMA VoidStep ==
    ASSUME GrantInv, NEW i \in DOMAIN grants, G!Void(i)
    PROVE  GrantInv'
<1>1. grants \in Lists /\ stats \in Books /\ rolled \in Int /\ clock \in Nat
  BY DEF GrantInv, GrantTypes
<1>2. /\ grants' = [grants EXCEPT ![i].balance = 0, ![i].active = FALSE]
      /\ stats' = [stats EXCEPT !.expired = @ + grants[i].balance]
      /\ UNCHANGED <<clock, rolled>>
  BY DEF G!Void
<1>3. /\ grants' \in Lists /\ Left(grants') = Left(grants) - grants[i].balance
      /\ Spent(grants') = Spent(grants) /\ grants[i].balance \in Nat
      /\ Left(grants) \in Nat /\ Spent(grants) \in Nat
  BY <1>1, <1>2, GrantEmptied
<1>4. /\ stats' \in Books /\ stats'.allocated = stats.allocated
      /\ stats'.consumed = stats.consumed
      /\ stats'.expired = stats.expired + grants[i].balance
  BY <1>1, <1>2, <1>3 DEF Books
<1> QED
  BY <1>1, <1>2, <1>3, <1>4 DEF GrantInv, GrantTypes, Books

LEMMA InitGrants == G!Init => GrantInv
<1> SUFFICES ASSUME G!Init PROVE GrantInv
  OBVIOUS
<1>1. grants = <<>> /\ DOMAIN grants = {} /\ clock = 0 /\ rolled = 0
  BY DEF G!Init
<1>2. Left(grants) = 0 /\ Spent(grants) = 0
  BY <1>1, TotalNone DEF Left, Spent
<1>3. stats \in Books /\ stats.allocated = 0 /\ stats.consumed = 0 /\ stats.expired = 0
  BY DEF G!Init, Books
<1>4. grants \in Lists
  BY <1>1 DEF Lists
<1> QED
  BY <1>1, <1>2, <1>3, <1>4 DEF GrantInv, GrantTypes

(* Every step keeps the invariant. *)
LEMMA StepGrants == GrantInv /\ [G!Next]_(G!vars) => GrantInv'
<1> SUFFICES ASSUME GrantInv, [G!Next]_(G!vars) PROVE GrantInv'
  OBVIOUS
<1>1. CASE G!Tick \/ UNCHANGED G!vars
  <2>1. UNCHANGED <<grants, stats, rolled>> /\ clock' \in Nat
    BY <1>1 DEF G!Tick, G!vars, GrantInv, GrantTypes
  <2> QED
    BY <2>1 DEF GrantInv, GrantTypes
<1> QED
  BY <1>1, CreateStep, DeductStep, RefundStep, RolloverStep, VoidStep, SweepStep
     DEF G!Next, G!Ids

(* The invariant says what Grants promises. *)
LEMMA GrantsKept == GrantInv => G!GrantsAddUp /\ G!ConsumedIsUsed
<1> SUFFICES ASSUME GrantInv PROVE G!GrantsAddUp /\ G!ConsumedIsUsed
  OBVIOUS
<1>1. G!GrantsAddUp
  <2>1. G!Total(G!Balances(grants), G!Ids) = Left(grants)
    BY SameTotalG DEF Left, G!Ids
  <2> QED
    BY <2>1 DEF GrantInv, G!GrantsAddUp
<1>2. \A i \in DOMAIN grants : grants[i].used >= 0
  <2>1. \A i \in DOMAIN grants : grants[i] \in GrantRecords
    BY DEF GrantInv, GrantTypes, Lists
  <2> QED
    BY <2>1 DEF GrantRecords
<1> QED
  BY <1>1, <1>2, SameTotalG DEF GrantInv, Spent, G!ConsumedIsUsed, G!Ids

(* A grant gives more only in a deduction that there are credits for.      *)
LEMMA UsedByDeduct ==
    ASSUME GrantInv, G!Next, NEW i \in DOMAIN grants, grants'[i].used > grants[i].used
    PROVE  \E n \in Amounts : n <= G!Available /\ grants' = G!Deducted(n)
<1>1. grants \in Lists /\ \A j \in DOMAIN grants : grants[j] \in GrantRecords
  BY DEF GrantInv, GrantTypes, Lists
<1>2. grants[i].used \in Nat /\ grants'[i].used # grants[i].used
  BY <1>1 DEF GrantRecords
<1>3. grants' # grants
  BY <1>2
<1>4. \A j \in DOMAIN grants : G!Swept[j].used = grants[j].used
  BY <1>1 DEF G!Swept, G!Ids, GrantRecords
<1>5. grants' # G!Swept
  BY <1>2, <1>4
<1>6. ASSUME NEW j \in DOMAIN grants,
             \/ grants'[i] = [grants EXCEPT ![j].balance = 0, ![j].active = FALSE][i]
      PROVE  FALSE
  <2>1. grants'[i].used = grants[i].used
    BY <1>1, <1>6 DEF GrantRecords, Lists
  <2> QED
    BY <1>2, <2>1
<1>7. ASSUME NEW g, grants' = Append(grants, g) PROVE FALSE
  <2>1. grants'[i] = grants[i]
    BY <1>1, <1>7 DEF Lists
  <2> QED
    BY <1>2, <2>1
<1>8. ~ \E n \in Amounts, p \in Priorities, l \in Lives : G!Create(n, p, l)
  BY <1>7 DEF G!Create
<1>9. ASSUME NEW j \in DOMAIN grants, NEW n \in Amounts, G!Refund(j, n) PROVE FALSE
  <2>1. PICK b : b = G!Refundable(grants[j], n)
    OBVIOUS
  <2>2. b \in Nat
    BY <1>1, <2>1, CreditsAssumption DEF G!Refundable, GrantRecords
  <2>3. grants' = [grants EXCEPT ![j].balance = @ + b, ![j].used = @ - b]
    BY <1>9, <2>1 DEF G!Refund
  <2>4. grants'[i].used = IF i = j THEN grants[i].used - b ELSE grants[i].used
    <3>1. CASE i = j
      <4>1. grants'[i] = [grants[i] EXCEPT !.balance = @ + b, !.used = @ - b]
        BY <1>1, <2>3, <3>1 DEF Lists, GrantRecords
      <4>2. grants'[i].used = grants[i].used - b
        BY ONLY <1>1, <4>1, <2>2 DEF GrantRecords
      <4> QED
        BY <3>1, <4>2
    <3>2. CASE i # j
      BY <2>3, <3>2
    <3> QED
      BY <3>1, <3>2
  <2> QED
    BY <1>2, <2>2, <2>4
<1>10. ASSUME NEW j \in DOMAIN grants, NEW share \in Percents, NEW p \in Priorities,
              NEW l \in Lives, G!Rollover(j, share, p, l)
       PROVE  FALSE
  <2> DEFINE old == [grants EXCEPT ![j].balance = 0, ![j].active = FALSE]
  <2>1. PICK g : grants' = Append(old, g)
    BY <1>10 DEF G!Rollover
  <2>2. old \in Lists /\ DOMAIN old = DOMAIN grants
    BY <1>1, GrantEmptied
  <2>3. grants'[i] = old[i]
    <3> HIDE DEF old
    <3> QED
      BY <2>1, <2>2 DEF Lists
  <2> QED
    BY <1>6, <2>3
<1>11. ASSUME NEW j \in DOMAIN grants, G!Void(j) PROVE FALSE
  BY <1>6, <1>11 DEF G!Void
<1>12. ~ G!Sweep /\ ~ G!Tick
  BY <1>3, <1>5 DEF G!Sweep, G!Tick
<1>13. PICK n \in Amounts : G!Deduct(n)
  BY <1>8, <1>9, <1>10, <1>11, <1>12 DEF G!Next, G!Ids
<1>14. grants' = G!Deducted(n) /\ G!Available >= n
  BY <1>5, <1>13 DEF G!Deduct
<1>15. G!Available \in Nat /\ n \in Nat
  <2>1. G!Open \subseteq DOMAIN G!Swept
    BY <1>1, SweptGrants DEF G!Open, G!Ids
  <2>2. Countable(G!Balances(G!Swept), DOMAIN G!Swept)
    BY <1>1, SweptGrants, ListTotals
  <2> QED
    BY <2>1, <2>2, TotalSplit, SameTotalG, CreditsAssumption DEF G!Available
<1> QED
  BY <1>14, <1>15

(* A grant that gives something is open, and whoever comes before it has   *)
(* been emptied.                                                           *)
LEMMA GivesInOrder ==
    ASSUME GrantInv, NEW n \in Nat, n <= G!Available, grants' = G!Deducted(n),
           NEW i \in DOMAIN grants, grants'[i].used > grants[i].used
    PROVE  /\ grants[i].active
           /\ grants[i].expiresAt = 0 \/ grants[i].expiresAt > clock
           /\ \A j \in DOMAIN grants :
                 G!Swept[j].active /\ grants[j].priority < grants[i].priority
                   => grants'[j].balance = 0
<1> DEFINE b == G!Balances(G!Swept)
           O == G!Open
           gone(j) == Total(b, Earlier(G!Sorted, O, j))
<1>1. /\ grants \in Lists /\ clock \in Nat
      /\ \A j \in DOMAIN grants : grants[j] \in GrantRecords
  BY DEF GrantInv, GrantTypes, Lists
<1>2. /\ G!Swept \in Lists /\ DOMAIN G!Swept = DOMAIN grants
      /\ \A j \in DOMAIN grants : G!Swept[j] \in GrantRecords
  BY <1>1, SweptGrants DEF Lists
<1>3. \A j \in DOMAIN grants :
          /\ G!Swept[j].used = grants[j].used /\ G!Swept[j].priority = grants[j].priority
          /\ G!Swept[j].active => grants[j].active /\ ~ G!Over(grants[j])
  BY <1>1 DEF G!Swept, G!Ids, GrantRecords
<1>4. \A j \in DOMAIN grants \ O : grants'[j] = G!Swept[j]
  BY DEF G!Deducted, G!Ids
<1>5. i \in O
  <2>1. grants'[i].used # grants[i].used
    BY <1>1 DEF GrantRecords
  <2> QED
    BY <1>3, <1>4, <2>1
<1>6. grants[i].active /\ ~ G!Over(grants[i])
  BY <1>3, <1>5 DEF G!Open, G!Ids
<1>7. grants[i].expiresAt = 0 \/ grants[i].expiresAt > clock
  BY <1>1, <1>6 DEF G!Over, GrantRecords
<1>8. /\ O \subseteq DOMAIN grants /\ Countable(b, O) /\ Order(G!Sorted, O)
      /\ \A j \in O : b[j] = G!Swept[j].balance /\ b[j] \in Nat /\ b[j] > 0
  <2>1. O \subseteq DOMAIN grants /\ \A j \in O : G!Swept[j].balance > 0
    BY DEF G!Open, G!Ids
  <2>2. Countable(b, DOMAIN grants)
    BY <1>2, ListTotals
  <2>3. Countable(b, O)
    <3> HIDE DEF b, O
    <3> QED
      BY ONLY <2>1, <2>2, TotalSplit
  <2>4. \A j \in O : b[j] = G!Swept[j].balance
    BY <1>2, <2>1 DEF G!Balances
  <2> QED
    BY <1>1, <2>1, <2>3, <2>4, SortedIsOrder DEF Countable
<1>9. \A j \in O : G!Part(j, n) = Portion(b[j], gone(j), n)
  BY <1>8, SameTotalG DEF G!Part, G!Portion, Portion, G!Earlier, Earlier
<1>10. ASSUME NEW j \in O
       PROVE  /\ grants'[j].balance = b[j] - G!Part(j, n)
              /\ grants'[j].used = grants[j].used + G!Part(j, n)
  <2>1. PICK p : p = G!Part(j, n)
    OBVIOUS
  <2>2. grants'[j] = [G!Swept[j] EXCEPT !.balance = @ - p, !.used = @ + p]
    BY <1>8, <2>1 DEF G!Deducted, G!Ids
  <2>3. G!Swept[j] \in GrantRecords
    BY <1>2, <1>8
  <2>4. grants'[j].balance = G!Swept[j].balance - p /\ grants'[j].used = G!Swept[j].used + p
    BY ONLY <2>2, <2>3 DEF GrantRecords
  <2> QED
    BY <1>3, <1>8, <2>1, <2>4
<1> HIDE DEF b, O
<1>11. \A j \in O : gone(j) \in Nat
  <2> TAKE j \in O
  <2>1. Earlier(G!Sorted, O, j) \subseteq O
    BY DEF Earlier
  <2> QED
    BY ONLY <1>8, <2>1, TotalSplit
<1>12. gone(i) < n
  <2>1. G!Part(i, n) # 0
    <3>1. grants'[i].used # grants[i].used /\ grants[i].used \in Nat
      BY <1>1 DEF GrantRecords
    <3>2. grants'[i].used = grants[i].used + G!Part(i, n)
      BY <1>5, <1>10
    <3> QED
      BY <3>1, <3>2
  <2>2. Portion(b[i], gone(i), n) # 0
    BY <1>5, <1>9, <2>1
  <2>3. gone(i) \in Nat
    BY <1>5, <1>11
  <2> HIDE DEF gone
  <2> QED
    BY <2>2, <2>3 DEF Portion
<1>13. ASSUME NEW j \in DOMAIN grants, G!Swept[j].active,
              grants[j].priority < grants[i].priority
       PROVE  grants'[j].balance = 0
  <2>1. CASE j \notin O
    <3>1. ~ (G!Swept[j].balance > 0) /\ G!Swept[j].balance \in Nat
      BY <1>2, <1>13, <2>1 DEF O, G!Open, G!Ids, GrantRecords
    <3> QED
      BY <1>4, <2>1, <3>1 DEF O
  <2>2. CASE j \in O
    <3>1. <<j, i>> \in G!Sorted
      <4>1. G!SpentFirst(G!Swept, j, i)
        BY <1>3, <1>13 DEF G!SpentFirst
      <4> QED
        BY <1>5, <2>2, <4>1 DEF G!Sorted, O
    <3>2. gone(j) + b[j] <= gone(i)
      BY <1>5, <1>8, <2>2, <3>1, TotalEarlier
    <3>3. gone(j) \in Nat /\ gone(i) \in Nat /\ b[j] \in Nat
      BY <1>5, <1>8, <1>11, <2>2
    <3>4. Portion(b[j], gone(j), n) = b[j]
      <4> HIDE DEF gone
      <4> QED
        BY <1>12, <3>2, <3>3 DEF Portion
    <3>5. grants'[j].balance = b[j] - b[j]
      BY <1>9, <1>10, <2>2, <3>4
    <3> QED
      BY <3>3, <3>5
  <2> QED
    BY <2>1, <2>2
<1> QED
  BY <1>6, <1>7, <1>13

(* Every step spends in order. *)
LEMMA StepInOrder ==
    ASSUME GrantInv, [G!Next]_(G!vars), NEW i \in G!Ids, grants'[i].used > grants[i].used
    PROVE  /\ grants[i].active
           /\ grants[i].expiresAt = 0 \/ grants[i].expiresAt > clock
           /\ \A j \in G!Ids : G!Swept[j].active /\ grants[j].priority < grants[i].priority
                => grants'[j].balance = 0
<1>1. i \in DOMAIN grants
  BY DEF G!Ids
<1>2. CASE G!Next
  <2>1. PICK n \in Amounts : n <= G!Available /\ grants' = G!Deducted(n)
    BY <1>1, <1>2, UsedByDeduct
  <2>2. n \in Nat
    BY CreditsAssumption
  <2> QED
    BY <1>1, <2>1, <2>2, GivesInOrder DEF G!Ids
<1>3. CASE UNCHANGED G!vars
  <2>1. grants' = grants /\ grants[i] \in GrantRecords
    BY <1>1, <1>3 DEF G!vars, GrantInv, GrantTypes, Lists
  <2>2. grants[i].used \in Nat
    BY <2>1 DEF GrantRecords
  <2> QED
    BY <2>1, <2>2
<1> QED
  BY <1>2, <1>3

-----------------------------------------------------------------------------
(* The invariant of the embeddable manager of reservations: a balance,     *)
(* with what was taken from under it, covers the holds.                    *)
Statuses == {"held", "settled", "released", "expired"}
Entries == [key : Keys, amount : Nat, status : Statuses, expiresAt : Nat]

HeldIn(res, k) == {i \in DOMAIN res : res[i].key = k /\ res[i].status = "held"}
AmountsOf(res) == [i \in DOMAIN res |-> res[i].amount]
HeldSum(res, k) == Total(AmountsOf(res), HeldIn(res, k))

Balances == [bal : [Keys -> Int], res : Seq(Entries)]
Backed(k) == s.bal[k] - HeldSum(s.res, k) + seen[k] >= 0

ManagerHolds == /\ s \in Balances /\ seen \in [Keys -> Nat]
                /\ \A k \in Keys : Backed(k)

(* The operators of CreditManagers are those whose lemmas are used here.   *)
LEMMA SameTotalM == \A f, S : M!Total(f, S) = Total(f, S)
<1> TAKE f, S
<1>1. M!Units(f, S) = Units(f, S)
  BY DEF M!Units, Units
<1>2. \A T : M!Cardinality(T) = Cardinality(T)
  BY DEF M!Cardinality, Cardinality
<1> QED
  BY <1>1, <1>2 DEF M!Total, Total

(* What a key holds is a sum. *)
LEMMA HeldType ==
    ASSUME NEW res \in Seq(Entries), NEW k
    PROVE  /\ Countable(AmountsOf(res), HeldIn(res, k)) /\ HeldSum(res, k) \in Nat
           /\ HeldIn(res, k) \subseteq DOMAIN res
<1>1. IsFiniteSet(DOMAIN res) /\ HeldIn(res, k) \subseteq DOMAIN res
  BY FS_Interval DEF HeldIn
<1>2. IsFiniteSet(HeldIn(res, k))
  BY <1>1, FS_Subset
<1>3. \A i \in DOMAIN res : res[i] \in Entries
  OBVIOUS
<1>4. \A i \in HeldIn(res, k) : AmountsOf(res)[i] \in Nat
  BY <1>1, <1>3 DEF AmountsOf, Entries
<1> QED
  BY <1>1, <1>2, <1>4, TotalType DEF Countable, HeldSum

(* A new hold adds its amount to what its key holds.                       *)
LEMMA HeldAdded ==
    ASSUME NEW res \in Seq(Entries), NEW r \in Entries, r.status = "held", NEW k
    PROVE  /\ Append(res, r) \in Seq(Entries)
           /\ HeldSum(Append(res, r), k)
                = HeldSum(res, k) + (IF r.key = k THEN r.amount ELSE 0)
<1> DEFINE new == Append(res, r)
           n == Len(res) + 1
           A == HeldIn(res, k)
           B == HeldIn(new, k)
           f == AmountsOf(new)
<1>1. /\ new \in Seq(Entries) /\ DOMAIN new = DOMAIN res \cup {n} /\ n \notin DOMAIN res
      /\ new[n] = r /\ \A i \in DOMAIN res : new[i] = res[i]
  OBVIOUS
<1> HIDE DEF new, n
<1>2. A \subseteq DOMAIN res /\ n \notin A /\ B = IF r.key = k THEN A \cup {n} ELSE A
  BY <1>1 DEF HeldIn
<1>3. Countable(f, B) /\ HeldSum(res, k) \in Nat
  BY <1>1, HeldType
<1>4. f[n] = r.amount /\ r.amount \in Nat
  BY <1>1 DEF AmountsOf, Entries
<1>5. Total(f, A) = HeldSum(res, k)
  <2>1. \A i \in A : f[i] = AmountsOf(res)[i]
    BY <1>1, <1>2 DEF AmountsOf
  <2> HIDE DEF A, f
  <2> QED
    BY <2>1, TotalSame DEF HeldSum, A
<1> HIDE DEF A, B, f
<1>6. Total(f, B) = Total(f, A) + (IF r.key = k THEN r.amount ELSE 0)
  <2>1. CASE r.key = k
    <3>1. B = A \cup {n} /\ A \subseteq B /\ B \ A = {n}
      BY <1>2, <2>1
    <3>2. Total(f, B) = Total(f, A) + Total(f, B \ A)
      BY ONLY <1>3, <3>1, TotalSplit
    <3>3. Total(f, {n}) = r.amount
      BY <1>4, TotalOne
    <3> QED
      BY <2>1, <3>1, <3>2, <3>3
  <2>2. CASE r.key # k
    BY <1>2, <1>3, <1>5, <2>2
  <2> QED
    BY <2>1, <2>2
<1> QED
  BY <1>1, <1>5, <1>6 DEF HeldSum, new, B, f

(* Holds that end give their amounts back.                                 *)
Ended(res, new, S) == /\ S \subseteq DOMAIN res /\ DOMAIN new = DOMAIN res
                      /\ \A i \in S : new[i].status # "held"
                      /\ \A i \in DOMAIN res \ S : new[i] = res[i]

LEMMA HeldDropped ==
    ASSUME NEW res \in Seq(Entries), NEW new \in Seq(Entries), NEW S, Ended(res, new, S), NEW k
    PROVE  /\ HeldSum(res, k) = HeldSum(new, k) + Total(AmountsOf(res), HeldIn(res, k) \cap S)
           /\ Total(AmountsOf(res), HeldIn(res, k) \cap S) \in Nat
           /\ HeldSum(new, k) \in Nat
<1> DEFINE A == HeldIn(res, k)
           B == HeldIn(new, k)
           C == A \cap S
           f == AmountsOf(res)
<1>1. B = A \ C /\ C \subseteq A
  BY DEF HeldIn, Ended
<1>2. Countable(f, A) /\ HeldSum(new, k) \in Nat
  BY HeldType
<1>3. Total(AmountsOf(new), B) = Total(f, B)
  <2>1. \A i \in B : AmountsOf(new)[i] = f[i]
    BY <1>1 DEF AmountsOf, HeldIn, Ended
  <2> HIDE DEF B, f
  <2> QED
    BY <2>1, TotalSame
<1>4. HeldSum(res, k) = Total(f, A) /\ HeldSum(new, k) = Total(AmountsOf(new), B)
  BY DEF HeldSum
<1> HIDE DEF A, B, C, f
<1>5. Total(f, A) = Total(f, C) + Total(f, A \ C)
  BY ONLY <1>1, <1>2, TotalSplit
<1>6. Total(f, C) \in Nat
  BY ONLY <1>1, <1>2, TotalSplit
<1>7. Total(f, A \ C) \in Nat
  BY ONLY <1>1, <1>2, TotalSplit
<1>8. HeldSum(res, k) = HeldSum(new, k) + Total(f, C)
  BY <1>1, <1>3, <1>4, <1>5, <1>6, <1>7
<1> QED
  BY <1>2, <1>6, <1>8 DEF A, C, f

(* What a call of this manager needs to know of the state.                 *)
LEMMA HoldersKnow ==
    ASSUME ManagerHolds, NEW k \in Keys
    PROVE  /\ s.res \in Seq(Entries) /\ s.bal \in [Keys -> Int] /\ s.bal[k] \in Int
           /\ seen[k] \in Nat /\ HeldSum(s.res, k) \in Nat
           /\ M!HeldBalance(k) = HeldSum(s.res, k)
           /\ M!AvailableBalance(k) = s.bal[k] - HeldSum(s.res, k)
           /\ s.bal[k] - HeldSum(s.res, k) + seen[k] >= 0
<1>1. s.res \in Seq(Entries) /\ s.bal \in [Keys -> Int] /\ s.bal[k] \in Int /\ seen[k] \in Nat
  BY DEF ManagerHolds, Balances
<1>2. HeldSum(s.res, k) \in Nat
  BY <1>1, HeldType
<1>3. M!HeldBalance(k) = HeldSum(s.res, k)
  BY SameTotalM DEF M!HeldBalance, M!Amount, M!Held, HeldSum, HeldIn, AmountsOf
<1> QED
  BY <1>1, <1>2, <1>3 DEF ManagerHolds, Backed, M!AvailableBalance

(* Every call of this manager keeps its balances backed.                   *)
LEMMA ReserveCreditsStep ==
    ASSUME ManagerHolds, time \in Nat, NEW k \in Keys, NEW c \in Amounts, NEW t \in 1 .. 2,
           M!ReserveCredits(k, c, t)
    PROVE  ManagerHolds'
<1>1. PICK r : r = [key |-> k, amount |-> c, status |-> "held", expiresAt |-> time + t]
  OBVIOUS
<1>2. c \in Nat
  BY CreditsAssumption
<1>3. r \in Entries /\ r.key = k /\ r.amount = c /\ r.status = "held"
  BY <1>1, <1>2 DEF Entries, Statuses
<1>4. s' = [s EXCEPT !.res = Append(@, r)] /\ seen' = seen /\ M!AvailableBalance(k) >= c
  BY <1>1 DEF M!ReserveCredits
<1>5. s \in Balances
  BY DEF ManagerHolds
<1>6. s'.res = Append(s.res, r) /\ s'.bal = s.bal
  BY <1>4, <1>5 DEF Balances
<1>7. s.res \in Seq(Entries)
  BY <1>5 DEF Balances
<1>8. s'.res \in Seq(Entries)
  BY <1>3, <1>6, <1>7, HeldAdded
<1>9. s' \in Balances
  BY <1>4, <1>5, <1>6, <1>8 DEF Balances
<1>10. ASSUME NEW j \in Keys PROVE Backed(j)'
  <2>1. HeldSum(s'.res, j) = HeldSum(s.res, j) + (IF k = j THEN c ELSE 0)
    BY <1>3, <1>6, <1>7, HeldAdded
  <2>2. /\ s.bal[j] \in Int /\ seen[j] \in Nat /\ HeldSum(s.res, j) \in Nat
        /\ s.bal[j] - HeldSum(s.res, j) + seen[j] >= 0
        /\ M!AvailableBalance(j) = s.bal[j] - HeldSum(s.res, j)
    BY HoldersKnow
  <2>3. CASE k = j
    BY ONLY <1>2, <1>4, <1>6, <2>1, <2>2, <2>3 DEF Backed
  <2>4. CASE k # j
    BY ONLY <1>4, <1>6, <2>1, <2>2, <2>4 DEF Backed
  <2> QED
    BY <2>3, <2>4
<1> QED
  BY <1>4, <1>9, <1>10 DEF ManagerHolds

LEMMA SettleHoldStep ==
    ASSUME ManagerHolds, NEW i, NEW c \in Amounts \cup {0}, M!SettleHold(i, c)
    PROVE  ManagerHolds'
<1>1. s \in Balances /\ s.res \in Seq(Entries) /\ s.bal \in [Keys -> Int]
  BY DEF ManagerHolds, Balances
<1>2. i \in DOMAIN s.res /\ s.res[i].status = "held" /\ s.res[i] \in Entries
  BY <1>1 DEF M!SettleHold
<1>3. PICK k, n, e : /\ k = s.res[i].key /\ n = s.res[i].amount
                     /\ e = M!Positive(c - s.res[i].amount)
  OBVIOUS
<1>4. k \in Keys /\ n \in Nat /\ c \in Nat /\ e \in Nat /\ e >= c - n
  BY <1>2, <1>3, CreditsAssumption DEF Entries, M!Positive
<1>5. /\ s' = [s EXCEPT !.bal = M!Plus(s.bal, k, -c),
                        !.res = [s.res EXCEPT ![i] = [s.res[i] EXCEPT !.status = "settled"]]]
      /\ seen' = M!Plus(seen, k, e)
  BY ONLY <1>1, <1>2, <1>3, M!SettleHold(i, c) DEF M!SettleHold, Balances
<1>6. /\ s'.bal = [s.bal EXCEPT ![k] = s.bal[k] - c]
      /\ s'.res = [s.res EXCEPT ![i] = [s.res[i] EXCEPT !.status = "settled"]]
      /\ seen' = [seen EXCEPT ![k] = seen[k] + e]
  <2>1. M!Plus(s.bal, k, -c) = [s.bal EXCEPT ![k] = s.bal[k] - c]
    <3>1. s.bal[k] \in Int /\ s.bal[k] + (-c) = s.bal[k] - c
      BY <1>1, <1>4
    <3> QED
      BY <3>1 DEF M!Plus
  <2>2. M!Plus(seen, k, e) = [seen EXCEPT ![k] = seen[k] + e]
    BY DEF M!Plus
  <2> QED
    BY ONLY <1>1, <1>5, <2>1, <2>2 DEF Balances
<1>7. [s.res[i] EXCEPT !.status = "settled"] \in Entries
  BY <1>2 DEF Entries, Statuses
<1>8. /\ s'.res \in Seq(Entries) /\ DOMAIN s'.res = DOMAIN s.res
      /\ s'.res[i].status = "settled" /\ \A j \in DOMAIN s.res \ {i} : s'.res[j] = s.res[j]
  BY <1>1, <1>2, <1>6, <1>7 DEF Entries
<1>9. s'.bal \in [Keys -> Int]
  BY <1>1, <1>4, <1>6
<1>10. s' \in Balances
  BY ONLY <1>1, <1>5, <1>8, <1>9 DEF Balances
<1>11. ASSUME NEW j \in Keys PROVE Backed(j)'
  <2>0. PICK S, C : S = {i} /\ C = HeldIn(s.res, j) \cap S
    OBVIOUS
  <2>1. /\ HeldSum(s.res, j) = HeldSum(s'.res, j) + Total(AmountsOf(s.res), C)
        /\ HeldSum(s'.res, j) \in Nat
    <3>1. Ended(s.res, s'.res, S)
      BY <1>2, <1>8, <2>0 DEF Ended
    <3>2. s.res \in Seq(Entries) /\ s'.res \in Seq(Entries)
      BY <1>1, <1>8
    <3> QED
      BY ONLY <2>0, <3>1, <3>2, HeldDropped
  <2>2. /\ s.bal[j] \in Int /\ seen[j] \in Nat /\ HeldSum(s.res, j) \in Nat
        /\ s.bal[j] - HeldSum(s.res, j) + seen[j] >= 0
    BY HoldersKnow
  <2>3. CASE k = j
    <3>1. C = {i} /\ AmountsOf(s.res)[i] = n
      BY <1>2, <1>3, <2>0, <2>3 DEF HeldIn, AmountsOf
    <3>2. Total(AmountsOf(s.res), C) = n
      BY <1>4, <3>1, TotalOne
    <3>3. s'.bal[j] = s.bal[j] - c /\ seen'[j] = seen[j] + e
      BY <1>1, <1>4, <1>6, <2>3 DEF ManagerHolds
    <3> QED
      BY ONLY <1>4, <2>1, <2>2, <3>2, <3>3 DEF Backed
  <2>4. CASE k # j
    <3>1. C = {}
      BY <1>3, <2>0, <2>4 DEF HeldIn
    <3>2. Total(AmountsOf(s.res), C) = 0
      BY <3>1, TotalNone
    <3>3. s'.bal[j] = s.bal[j] /\ seen'[j] = seen[j]
      BY <1>1, <1>4, <1>6, <2>4 DEF ManagerHolds
    <3> QED
      BY ONLY <2>1, <2>2, <3>2, <3>3 DEF Backed
  <2> QED
    BY <2>3, <2>4
<1>12. seen' \in [Keys -> Nat]
  BY <1>4, <1>6 DEF ManagerHolds
<1> QED
  BY <1>10, <1>11, <1>12 DEF ManagerHolds

(* Holds that are released or expire leave the balances alone.             *)
LEMMA HoldsEnd ==
    ASSUME ManagerHolds, NEW S \in SUBSET (DOMAIN s.res), NEW st \in Statuses \ {"held"},
           s' = [s EXCEPT !.res = [i \in DOMAIN @ |->
                    IF i \in S THEN [@[i] EXCEPT !.status = st] ELSE @[i]]],
           seen' = seen
    PROVE  ManagerHolds'
<1>1. s \in Balances /\ s.res \in Seq(Entries) /\ seen \in [Keys -> Nat]
  BY DEF ManagerHolds, Balances
<1>2. /\ s'.bal = s.bal
      /\ s'.res = [i \in DOMAIN s.res |->
                     IF i \in S THEN [s.res[i] EXCEPT !.status = st] ELSE s.res[i]]
  BY <1>1 DEF Balances
<1>3. ASSUME NEW i \in DOMAIN s.res
      PROVE  /\ s'.res[i] \in Entries
             /\ i \in S => s'.res[i].status = st
             /\ i \notin S => s'.res[i] = s.res[i]
  <2>1. s.res[i] \in Entries
    BY <1>1
  <2> QED
    BY <1>2, <2>1 DEF Entries
<1>4. s'.res \in Seq(Entries) /\ DOMAIN s'.res = DOMAIN s.res
  <2>1. DOMAIN s'.res = 1 .. Len(s.res) /\ Len(s.res) \in Nat /\ DOMAIN s.res = 1 .. Len(s.res)
    BY <1>1, <1>2
  <2>2. s'.res \in [1 .. Len(s.res) -> Entries]
    <3>1. DOMAIN s.res = 1 .. Len(s.res) /\ \A i \in 1 .. Len(s.res) : s'.res[i] \in Entries
      BY <1>3, <2>1
    <3> HIDE DEF Entries
    <3> QED
      BY ONLY <1>2, <3>1
  <2> QED
    BY <2>1, <2>2
<1>5. s' \in Balances
  BY <1>1, <1>2, <1>4 DEF Balances
<1>6. ASSUME NEW j \in Keys PROVE Backed(j)'
  <2>1. PICK x : x = Total(AmountsOf(s.res), HeldIn(s.res, j) \cap S)
    OBVIOUS
  <2>2. HeldSum(s.res, j) = HeldSum(s'.res, j) + x /\ x \in Nat /\ HeldSum(s'.res, j) \in Nat
    <3>1. Ended(s.res, s'.res, S)
      BY <1>3, <1>4 DEF Ended
    <3> QED
      BY ONLY <1>1, <1>4, <2>1, <3>1, HeldDropped
  <2>3. /\ s.bal[j] \in Int /\ seen[j] \in Nat /\ HeldSum(s.res, j) \in Nat
        /\ s.bal[j] - HeldSum(s.res, j) + seen[j] >= 0
    BY HoldersKnow
  <2>4. s'.bal[j] = s.bal[j] /\ seen'[j] = seen[j]
    BY <1>2
  <2> QED
    BY ONLY <2>2, <2>3, <2>4 DEF Backed
<1> QED
  BY <1>1, <1>5, <1>6 DEF ManagerHolds

LEMMA SetBalanceStep ==
    ASSUME ManagerHolds, NEW k \in Keys, NEW c \in Amounts, M!SetBalance(k, c)
    PROVE  ManagerHolds'
<1>1. s \in Balances /\ s.bal \in [Keys -> Int] /\ seen \in [Keys -> Nat] /\ c \in Nat
  BY CreditsAssumption DEF ManagerHolds, Balances
<1>2. PICK e : e = M!Positive(s.bal[k] - c)
  OBVIOUS
<1>3. e \in Nat /\ e >= s.bal[k] - c
  BY <1>1, <1>2 DEF M!Positive
<1>4. s' = [s EXCEPT !.bal[k] = c] /\ seen' = [seen EXCEPT ![k] = @ + e]
  BY <1>2 DEF M!SetBalance, M!Plus
<1>5. s'.res = s.res /\ s'.bal = [s.bal EXCEPT ![k] = c]
  BY <1>1, <1>4 DEF Balances
<1>6. s' \in Balances /\ seen' \in [Keys -> Nat]
  <2>1. s'.bal \in [Keys -> Int]
    BY <1>1, <1>5
  <2>2. s' \in Balances
    BY ONLY <1>1, <1>4, <1>5, <2>1 DEF Balances
  <2>3. seen[k] + e \in Nat
    BY <1>1, <1>3
  <2> QED
    BY ONLY <1>1, <1>4, <2>2, <2>3
<1>7. ASSUME NEW j \in Keys PROVE Backed(j)'
  <2>1. /\ s.bal[j] \in Int /\ seen[j] \in Nat /\ HeldSum(s.res, j) \in Nat
        /\ s.bal[j] - HeldSum(s.res, j) + seen[j] >= 0
    BY HoldersKnow
  <2>2. CASE j = k
    <3>1. s'.bal[j] = c /\ seen'[j] = seen[j] + e
      BY <1>1, <1>4, <1>5, <2>2
    <3> QED
      BY ONLY <1>1, <1>3, <1>5, <2>1, <2>2, <3>1 DEF Backed
  <2>3. CASE j # k
    <3>1. s'.bal[j] = s.bal[j] /\ seen'[j] = seen[j]
      BY <1>1, <1>4, <1>5, <2>3
    <3> QED
      BY ONLY <1>5, <2>1, <3>1 DEF Backed
  <2> QED
    BY <2>2, <2>3
<1> QED
  BY <1>6, <1>7 DEF ManagerHolds

LEMMA ReservationStep ==
    ASSUME ManagerHolds, time \in Nat, M!ReservationNext
    PROVE  ManagerHolds'
<1>1. s \in Balances /\ s.res \in Seq(Entries)
  BY DEF ManagerHolds, Balances
<1>2. ASSUME NEW i \in 1 .. MaxOps, M!ReleaseHold(i) PROVE ManagerHolds'
  <2>1. /\ i \in DOMAIN s.res /\ seen' = seen
        /\ s' = [s EXCEPT !.res[i].status = "released"]
    BY <1>2 DEF M!ReleaseHold
  <2>2. [s.res EXCEPT ![i].status = "released"]
          = [x \in DOMAIN s.res |->
                IF x \in {i} THEN [s.res[x] EXCEPT !.status = "released"] ELSE s.res[x]]
    BY <1>1, <2>1
  <2>3. s' = [s EXCEPT !.res = [x \in DOMAIN @ |->
                IF x \in {i} THEN [@[x] EXCEPT !.status = "released"] ELSE @[x]]]
    BY <1>1, <2>1, <2>2 DEF Balances
  <2>4. {i} \in SUBSET (DOMAIN s.res) /\ "released" \in Statuses \ {"held"}
    BY <2>1 DEF Statuses
  <2> QED
    BY ONLY ManagerHolds, <2>1, <2>3, <2>4, HoldsEnd
<1>3. CASE M!ExpireReservations
  <2>1. PICK S : S = {i \in DOMAIN s.res : s.res[i].status = "held" /\ s.res[i].expiresAt <= time}
    OBVIOUS
  <2>2. /\ s' = [s EXCEPT !.res = [i \in DOMAIN @ |->
                    IF i \in S THEN [@[i] EXCEPT !.status = "expired"] ELSE @[i]]]
        /\ seen' = seen
    BY <1>3, <2>1 DEF M!ExpireReservations
  <2>3. S \in SUBSET (DOMAIN s.res) /\ "expired" \in Statuses \ {"held"}
    BY <2>1 DEF Statuses
  <2> QED
    BY ONLY ManagerHolds, <2>2, <2>3, HoldsEnd
<1> QED
  BY <1>2, <1>3, ReserveCreditsStep, SettleHoldStep, SetBalanceStep DEF M!ReservationNext

-----------------------------------------------------------------------------
(* The invariant of the embeddable manager of grants that expire: what was *)
(* granted is consumed, expired or left, and what was consumed was told.   *)
Lots == [left : Nat, expiresAt : Nat, expired : BOOLEAN]
LotBooks == [grants : Seq(Lots), granted : Int, consumed : Int, lapsed : Int]

LeftsOf(gs) == [i \in DOMAIN gs |-> gs[i].left]
LeftSum(gs, S) == Total(LeftsOf(gs), S)

Even(x) == x.granted = x.consumed + x.lapsed + LeftSum(x.grants, DOMAIN x.grants)
Book(x) == x \in LotBooks /\ Even(x)

ManagerGrants == Book(s) /\ seen \in Int /\ s.consumed = seen

LEMMA SameLeft == \A x, S : M!LeftIn(x, S) = LeftSum(x.grants, S)
BY SameTotalM DEF M!LeftIn, M!LeftOf, LeftSum, LeftsOf

(* What is left of some grants is a sum.                                   *)
LEMMA LeftType ==
    ASSUME NEW gs \in Seq(Lots), NEW S \in SUBSET (DOMAIN gs)
    PROVE  Countable(LeftsOf(gs), S) /\ LeftSum(gs, S) \in Nat
<1>1. IsFiniteSet(DOMAIN gs)
  BY FS_Interval
<1>2. IsFiniteSet(S)
  BY <1>1, FS_Subset
<1>3. \A i \in DOMAIN gs : gs[i] \in Lots
  OBVIOUS
<1>4. \A i \in S : LeftsOf(gs)[i] \in Nat
  BY <1>3 DEF LeftsOf, Lots
<1> QED
  BY <1>2, <1>4, TotalType DEF Countable, LeftSum

(* Grants that are emptied lapse.                                          *)
EmptiedIn(x, S) ==
    [x EXCEPT !.grants = [i \in DOMAIN @ |-> IF i \in S THEN M!Emptied(@[i]) ELSE @[i]],
              !.lapsed = @ + LeftSum(x.grants, S)]

IsEmptied(x, y, S) ==
    /\ y.consumed = x.consumed /\ DOMAIN y.grants = DOMAIN x.grants
    /\ \A i \in DOMAIN x.grants :
          y.grants[i] = IF i \in S THEN M!Emptied(x.grants[i]) ELSE x.grants[i]

LEMMA EmptiedLapses ==
    ASSUME NEW x, Book(x), NEW S, S \subseteq DOMAIN x.grants, NEW y, y = EmptiedIn(x, S)
    PROVE  Book(y) /\ IsEmptied(x, y, S)
<1>n. PICK n : n = LeftSum(x.grants, S)
  OBVIOUS
<1>1. /\ x \in LotBooks /\ x.grants \in Seq(Lots) /\ x.granted \in Int
      /\ x.consumed \in Int /\ x.lapsed \in Int
  BY DEF Book, LotBooks
<1>2. n \in Nat
  BY <1>1, <1>n, LeftType
<1>3. PICK gs : gs = [i \in DOMAIN x.grants |->
                         IF i \in S THEN M!Emptied(x.grants[i]) ELSE x.grants[i]]
  OBVIOUS
<1>y. y = [grants |-> gs, granted |-> x.granted, consumed |-> x.consumed, lapsed |-> x.lapsed + n]
  BY <1>1, <1>n, <1>3 DEF LotBooks, EmptiedIn
<1>z. /\ y.grants = gs /\ y.granted = x.granted
      /\ y.consumed = x.consumed /\ y.lapsed = x.lapsed + n
  BY ONLY <1>y
<1>4. ASSUME NEW i \in DOMAIN x.grants
      PROVE  /\ y.grants[i] \in Lots
             /\ i \in S => y.grants[i].left = 0
             /\ i \notin S => y.grants[i] = x.grants[i]
  <2>1. x.grants[i] \in Lots /\ 0 \in Nat
    BY <1>1
  <2>2. y.grants[i] = IF i \in S THEN M!Emptied(x.grants[i]) ELSE x.grants[i]
    BY ONLY <1>3, <1>z, i \in DOMAIN x.grants
  <2>3. CASE i \in S
    BY ONLY <2>1, <2>2, <2>3 DEF Lots, M!Emptied
  <2>4. CASE i \notin S
    BY <2>1, <2>2, <2>4
  <2> QED
    BY <2>3, <2>4
<1>5. y.grants \in Seq(Lots) /\ DOMAIN y.grants = DOMAIN x.grants
  <2>1. DOMAIN x.grants = 1 .. Len(x.grants) /\ Len(x.grants) \in Nat
    BY <1>1
  <2>2. \A i \in 1 .. Len(x.grants) : y.grants[i] \in Lots
    BY <1>4, <2>1
  <2>3. y.grants \in [1 .. Len(x.grants) -> Lots]
    BY ONLY <1>3, <1>z, <2>1, <2>2
  <2> QED
    BY ONLY <2>1, <2>3
<1>6. y \in LotBooks
  <2>1. gs \in Seq(Lots) /\ x.lapsed + n \in Int
    BY <1>1, <1>2, <1>5, <1>z
  <2> QED
    BY ONLY <1>1, <1>y, <2>1 DEF LotBooks
<1> DEFINE D == DOMAIN x.grants
           f == LeftsOf(x.grants)
           g == LeftsOf(y.grants)
<1>7. Countable(f, D) /\ Countable(g, S) /\ S \subseteq D
  BY <1>1, <1>5, LeftType
<1>8. \A i \in D \ S : g[i] = f[i]
  BY <1>4, <1>5 DEF LeftsOf
<1>9. \A i \in S : g[i] = 0
  BY <1>4, <1>5 DEF LeftsOf
<1>10. LeftSum(x.grants, D) = Total(f, D) /\ LeftSum(y.grants, D) = Total(g, D) /\ n = Total(f, S)
  BY <1>n DEF LeftSum
<1> HIDE DEF D, f, g
<1>11. Total(g, S) = 0
  BY <1>9, TotalZero
<1>12. Total(g, D) = Total(f, D) - Total(f, S) + Total(g, S) /\ Total(f, D) \in Nat
  BY ONLY <1>7, <1>8, TotalChange
<1>13. LeftSum(y.grants, D) = LeftSum(x.grants, D) - n /\ LeftSum(x.grants, D) \in Nat
  BY <1>2, <1>10, <1>11, <1>12
<1>14. Even(y)
  <2>1. Even(x)
    BY DEF Book
  <2> QED
    BY ONLY <1>1, <1>2, <1>z, <1>5, <1>13, <2>1 DEF Even, D
<1> QED
  BY <1>3, <1>z, <1>5, <1>6, <1>14 DEF Book, IsEmptied

(* Pruning keeps the books.                                                *)
LEMMA PrunedKeeps ==
    ASSUME NEW x, Book(x), NEW y, y = M!Pruned(x)
    PROVE  Book(y) /\ IsEmptied(x, y, M!OverIn(x))
<1>1. PICK S : S = M!OverIn(x)
  OBVIOUS
<1>2. S \subseteq DOMAIN x.grants
  BY <1>1 DEF M!OverIn
<1>3. y = EmptiedIn(x, S)
  BY <1>1, SameLeft DEF M!Pruned, EmptiedIn
<1> QED
  BY ONLY Book(x), <1>1, <1>2, <1>3, EmptiedLapses

(* What a call takes of a grant is there.                                  *)
LEMMA PortionBounds ==
    ASSUME NEW there \in Nat, NEW gone \in Nat, NEW n \in Nat
    PROVE  Portion(there, gone, n) \in Nat /\ Portion(there, gone, n) <= there
BY DEF Portion

(* Taking from some grants moves what is taken from left to consumed.      *)
Takable(x, A, take) ==
    A \subseteq DOMAIN x.grants /\ \A i \in A : take[i] \in Nat /\ take[i] <= x.grants[i].left

SpentFrom(x, A, take) ==
    [x EXCEPT !.consumed = @ + Total(take, A), !.grants = M!Less(x.grants, A, take)]

LEMMA TakenIsConsumed ==
    ASSUME NEW x, Book(x), NEW A, NEW take, Takable(x, A, take), NEW n, n = Total(take, A),
           NEW y, y = SpentFrom(x, A, take)
    PROVE  /\ Book(y) /\ n \in Nat /\ y.consumed = x.consumed + n
           /\ \A i \in DOMAIN x.grants \ A : y.grants[i] = x.grants[i]
<1>1. /\ x \in LotBooks /\ x.grants \in Seq(Lots) /\ x.granted \in Int
      /\ x.consumed \in Int /\ x.lapsed \in Int
  BY DEF Book, LotBooks
<1> DEFINE D == DOMAIN x.grants
           f == LeftsOf(x.grants)
           g == LeftsOf(y.grants)
<1>2. Countable(f, D) /\ A \subseteq D /\ IsFiniteSet(A)
  <2>1. A \subseteq DOMAIN x.grants
    BY DEF Takable
  <2>2. Countable(f, A) /\ Countable(f, D)
    BY <1>1, <2>1, LeftType
  <2> QED
    BY <2>1, <2>2 DEF Countable
<1>3. Countable(take, A)
  BY <1>2 DEF Countable, Takable
<1>4. n \in Nat
  BY <1>3, TotalType
<1>5. PICK gs : gs = M!Less(x.grants, A, take)
  OBVIOUS
<1>y. y = [grants |-> gs, granted |-> x.granted, consumed |-> x.consumed + n, lapsed |-> x.lapsed]
  BY <1>1, <1>5 DEF LotBooks, SpentFrom
<1>z. /\ y.grants = gs /\ y.granted = x.granted
      /\ y.consumed = x.consumed + n /\ y.lapsed = x.lapsed
  BY ONLY <1>y
<1>6. ASSUME NEW i \in DOMAIN x.grants
      PROVE  /\ y.grants[i] \in Lots /\ x.grants[i].left \in Nat
             /\ i \in A => y.grants[i].left = x.grants[i].left - take[i]
             /\ i \notin A => y.grants[i] = x.grants[i]
  <2>0. x.grants[i] \in Lots
    BY <1>1
  <2>1. x.grants[i] \in Lots /\ x.grants[i].left \in Nat
    BY ONLY <2>0 DEF Lots
  <2>2. CASE i \in A
    <3>0. take[i] \in Nat /\ take[i] <= x.grants[i].left
      BY <2>2 DEF Takable
    <3>1. x.grants[i].left - take[i] \in Nat
      BY ONLY <2>1, <3>0
    <3>2. y.grants[i] = [x.grants[i] EXCEPT !.left = x.grants[i].left - take[i]]
      BY <1>5, <1>z, <2>2 DEF M!Less
    <3> QED
      BY ONLY <2>1, <2>2, <3>1, <3>2 DEF Lots
  <2>3. CASE i \notin A
    BY <1>5, <1>z, <2>1, <2>3 DEF M!Less
  <2> QED
    BY <2>2, <2>3
<1>7. y.grants \in Seq(Lots) /\ DOMAIN y.grants = DOMAIN x.grants
  <2>1. DOMAIN x.grants = 1 .. Len(x.grants) /\ Len(x.grants) \in Nat
    BY <1>1
  <2>2. \A i \in 1 .. Len(x.grants) : y.grants[i] \in Lots
    BY <1>6, <2>1
  <2>3. y.grants \in [1 .. Len(x.grants) -> Lots]
    BY ONLY <1>5, <1>z, <2>1, <2>2 DEF M!Less
  <2> QED
    BY ONLY <2>1, <2>3
<1>8. y \in LotBooks
  <2>1. gs \in Seq(Lots) /\ x.consumed + n \in Int
    BY <1>1, <1>4, <1>7, <1>z
  <2> QED
    BY ONLY <1>1, <1>y, <2>1 DEF LotBooks
<1>9. \A i \in D \ A : g[i] = f[i]
  BY <1>6, <1>7 DEF LeftsOf
<1>10. \A i \in A : f[i] = g[i] + take[i]
  <2> TAKE i \in A
  <2>0. i \in DOMAIN x.grants /\ take[i] \in Nat
    BY DEF Takable
  <2>1. g[i] = f[i] - take[i] /\ f[i] \in Nat /\ take[i] \in Nat
    BY <1>6, <1>7, <2>0 DEF LeftsOf
  <2> QED
    BY <2>1
<1>11. Countable(g, A)
  BY <1>2, <1>7, LeftType
<1>12. LeftSum(x.grants, D) = Total(f, D) /\ LeftSum(y.grants, D) = Total(g, D)
  BY DEF LeftSum
<1> HIDE DEF D, f, g
<1>13. Total(f, A) = Total(g, A) + Total(take, A) /\ Total(g, A) \in Nat
  BY ONLY <1>3, <1>10, <1>11, TotalPlus
<1>14. /\ Total(g, D) = Total(f, D) - Total(f, A) + Total(g, A)
       /\ Total(f, D) \in Nat /\ Total(f, A) \in Nat
  <2>1. Countable(f, D) /\ Countable(g, A) /\ A \subseteq D
    BY <1>2, <1>11
  <2> QED
    BY ONLY <1>9, <2>1, TotalChange
<1>15. LeftSum(y.grants, D) = LeftSum(x.grants, D) - n /\ LeftSum(x.grants, D) \in Nat
  BY <1>4, <1>12, <1>13, <1>14
<1>16. Even(y)
  <2>1. Even(x)
    BY DEF Book
  <2> QED
    BY ONLY <1>1, <1>4, <1>z, <1>7, <1>15, <2>1 DEF Even, D
<1> QED
  BY <1>4, <1>z, <1>6, <1>8, <1>16 DEF Book

(* Every call of this manager keeps its books.                             *)
LEMMA GrantForStep ==
    ASSUME ManagerGrants, time \in Nat, NEW c \in Amounts, NEW l \in 1 .. 2, M!GrantFor(c, l)
    PROVE  ManagerGrants'
<1>1. /\ s \in LotBooks /\ s.grants \in Seq(Lots) /\ s.granted \in Int
      /\ s.consumed \in Int /\ s.lapsed \in Int /\ c \in Nat
  BY CreditsAssumption DEF ManagerGrants, Book, LotBooks
<1>2. PICK r : r = [left |-> c, expiresAt |-> time + l, expired |-> FALSE]
  OBVIOUS
<1>3. r \in Lots /\ r.left = c
  BY <1>1, <1>2 DEF Lots
<1>4. PICK gs : gs = Append(s.grants, r)
  OBVIOUS
<1>5. s' = [s EXCEPT !.grants = gs, !.granted = @ + c] /\ seen' = seen
  BY <1>2, <1>4 DEF M!GrantFor
<1>6. s' = [grants |-> gs, granted |-> s.granted + c, consumed |-> s.consumed, lapsed |-> s.lapsed]
  BY ONLY <1>1, <1>5 DEF LotBooks
<1>7. /\ gs \in Seq(Lots) /\ DOMAIN gs = DOMAIN s.grants \cup {Len(s.grants) + 1}
      /\ Len(s.grants) + 1 \notin DOMAIN s.grants /\ gs[Len(s.grants) + 1] = r
      /\ \A i \in DOMAIN s.grants : gs[i] = s.grants[i]
  BY <1>1, <1>3, <1>4
<1>8. PICK n, D, f, g : /\ n = Len(s.grants) + 1 /\ D = DOMAIN s.grants
                        /\ f = LeftsOf(s.grants) /\ g = LeftsOf(gs)
  OBVIOUS
<1>9. Countable(g, D \cup {n}) /\ LeftSum(s.grants, D) \in Nat
  BY <1>1, <1>7, <1>8, LeftType
<1>10. Total(g, D) = Total(f, D)
  <2>1. \A i \in D : g[i] = f[i]
    BY <1>7, <1>8 DEF LeftsOf
  <2> QED
    BY ONLY <2>1, TotalSame
<1>11. Total(g, {n}) = c
  <2>1. g[n] = c
    BY <1>3, <1>7, <1>8 DEF LeftsOf
  <2> QED
    BY <1>1, <2>1, TotalOne
<1>12. Total(g, D \cup {n}) = Total(g, D) + Total(g, {n})
  <2>1. D \subseteq D \cup {n} /\ (D \cup {n}) \ D = {n}
    BY <1>7, <1>8
  <2> QED
    BY ONLY <1>9, <2>1, TotalSplit
<1>13. LeftSum(gs, DOMAIN gs) = LeftSum(s.grants, DOMAIN s.grants) + c
  BY <1>7, <1>8, <1>10, <1>11, <1>12 DEF LeftSum
<1>14. s' \in LotBooks
  <2>1. s.granted + c \in Int
    BY <1>1
  <2> QED
    BY ONLY <1>1, <1>6, <1>7, <2>1 DEF LotBooks
<1>15. Even(s)'
  <2>1. Even(s) /\ LeftSum(s.grants, DOMAIN s.grants) \in Nat
    BY <1>8, <1>9 DEF ManagerGrants, Book
  <2>2. /\ s'.grants = gs /\ s'.granted = s.granted + c
        /\ s'.consumed = s.consumed /\ s'.lapsed = s.lapsed
    BY ONLY <1>6
  <2> QED
    BY ONLY <1>1, <1>13, <2>1, <2>2 DEF Even
<1>16. seen' = seen /\ s'.consumed = s.consumed
  BY ONLY <1>5, <1>6
<1> QED
  BY <1>14, <1>15, <1>16 DEF ManagerGrants, Book

LEMMA ConsumeGrantsStep ==
    ASSUME ManagerGrants, time \in Nat, NEW c \in Amounts, M!ConsumeGrants(c)
    PROVE  /\ ManagerGrants'
           /\ \A i \in DOMAIN s.grants : s'.grants[i].left < s.grants[i].left
                 => s.grants[i].expiresAt > time \/ s'.grants[i].expired
<1>1. PICK x, A, take, n : /\ x = M!Pruned(s) /\ A = M!Active(x)
                           /\ take = M!Taken(x, c) /\ n = M!Total(take, A)
  OBVIOUS
<1>2. /\ s' = [x EXCEPT !.consumed = @ + n, !.grants = M!Less(x.grants, A, take)]
      /\ seen' = seen + n
  BY <1>1 DEF M!ConsumeGrants
<1>3. Book(s) /\ seen \in Int /\ s.consumed = seen /\ c \in Nat
  BY CreditsAssumption DEF ManagerGrants
<1>4. Book(x) /\ IsEmptied(s, x, M!OverIn(s))
  BY ONLY <1>1, <1>3, PrunedKeeps
<1>5. x.grants \in Seq(Lots)
  BY <1>4 DEF Book, LotBooks
<1>6. Takable(x, A, take)
  <2>1. A \subseteq DOMAIN x.grants
    BY <1>1 DEF M!Active
  <2>2. ASSUME NEW i \in A PROVE take[i] \in Nat /\ take[i] <= x.grants[i].left
    <3>1. take[i] = Portion(x.grants[i].left, LeftSum(x.grants, M!Before(x, i)), c)
      BY <1>1, SameLeft DEF M!Taken, M!Portion, Portion
    <3>2. x.grants[i] \in Lots
      BY <1>5, <2>1
    <3>3. x.grants[i].left \in Nat
      BY ONLY <3>2 DEF Lots
    <3>4. M!Before(x, i) \subseteq DOMAIN x.grants
      BY DEF M!Before, M!Active
    <3>5. LeftSum(x.grants, M!Before(x, i)) \in Nat
      BY ONLY <1>5, <3>4, LeftType
    <3> QED
      BY ONLY <1>3, <3>1, <3>3, <3>5, PortionBounds
  <2> QED
    BY <2>1, <2>2 DEF Takable
<1>7. n = Total(take, A)
  BY <1>1, SameTotalM
<1>8. s' = SpentFrom(x, A, take)
  BY <1>2, <1>7 DEF SpentFrom
<1>9. /\ Book(s') /\ n \in Nat /\ s'.consumed = x.consumed + n
      /\ \A i \in DOMAIN x.grants \ A : s'.grants[i] = x.grants[i]
  BY ONLY <1>4, <1>6, <1>7, <1>8, TakenIsConsumed
<1>10. ManagerGrants'
  <2>1. x.consumed = s.consumed
    BY <1>4 DEF IsEmptied
  <2>2. Book(s)'
    BY <1>9 DEF Book, Even
  <2> QED
    BY <1>2, <1>3, <1>9, <2>1, <2>2 DEF ManagerGrants
<1>11. ASSUME NEW i \in DOMAIN s.grants, s'.grants[i].left < s.grants[i].left
       PROVE  s.grants[i].expiresAt > time \/ s'.grants[i].expired
  <2>1. x.grants[i] = IF i \in M!OverIn(s) THEN M!Emptied(s.grants[i]) ELSE s.grants[i]
    BY <1>4 DEF IsEmptied
  <2>2. s.grants[i] \in Lots /\ i \in DOMAIN x.grants
    BY <1>3, <1>4 DEF Book, LotBooks, IsEmptied
  <2>3. CASE i \in M!OverIn(s)
    <3>1. x.grants[i].expired = TRUE
      BY <2>1, <2>2, <2>3 DEF M!Emptied, Lots
    <3>2. i \notin A
      BY <1>1, <3>1 DEF M!Active
    <3> QED
      BY <1>9, <2>2, <3>1, <3>2
  <2>4. CASE i \notin M!OverIn(s)
    <3>1. x.grants[i] = s.grants[i] /\ s.grants[i].left \in Nat /\ s.grants[i].expiresAt \in Nat
      BY <2>1, <2>2, <2>4 DEF Lots
    <3>2. i \in A
      BY <1>9, <1>11, <2>2, <3>1
    <3>3. ~s.grants[i].expired
      BY <1>1, <3>1, <3>2 DEF M!Active
    <3> QED
      BY ONLY <1>11, <2>4, <3>1, <3>3, time \in Nat DEF M!OverIn, M!Over
  <2> QED
    BY <2>3, <2>4
<1> QED
  BY <1>10, <1>11

LEMMA ExpirationStep ==
    ASSUME ManagerGrants, time \in Nat, M!ExpirationNext
    PROVE  ManagerGrants'
<1>1. Book(s) /\ seen \in Int /\ s.consumed = seen
  BY DEF ManagerGrants
<1>2. ASSUME NEW S, Book(s'), IsEmptied(s, s', S), seen' = seen PROVE ManagerGrants'
  <2>1. s'.consumed = s.consumed
    BY <1>2 DEF IsEmptied
  <2>2. Book(s)'
    BY <1>2 DEF Book, Even
  <2> QED
    BY <1>1, <1>2, <2>1, <2>2 DEF ManagerGrants
<1>3. CASE M!LookAtGrants
  <2>1. s' = M!Pruned(s) /\ seen' = seen
    BY <1>3 DEF M!LookAtGrants
  <2>2. Book(s') /\ IsEmptied(s, s', M!OverIn(s))
    BY ONLY <1>1, <2>1, PrunedKeeps
  <2> QED
    BY <1>2, <2>1, <2>2
<1>4. CASE M!ExpireAll
  <2>1. PICK S : S = M!Active(s)
    OBVIOUS
  <2>2. s' = EmptiedIn(s, S) /\ seen' = seen
    BY <1>4, <2>1, SameLeft DEF M!ExpireAll, EmptiedIn
  <2>3. S \subseteq DOMAIN s.grants
    BY <2>1 DEF M!Active
  <2>4. Book(s') /\ IsEmptied(s, s', S)
    BY ONLY <1>1, <2>2, <2>3, EmptiedLapses
  <2> QED
    BY <1>2, <2>2, <2>4
<1> QED
  BY <1>3, <1>4, GrantForStep, ConsumeGrantsStep DEF M!ExpirationNext

-----------------------------------------------------------------------------
(* The invariant of the managers: that of the one that runs.               *)
ManagerInv == /\ time \in Nat
              /\ mgr = "reservation" => ManagerHolds
              /\ mgr = "expiration" => ManagerGrants

LEMMA InitManagers == ASSUME M!Init PROVE ManagerInv
<1>1. time \in Nat
  BY DEF M!Init
<1>2. ASSUME mgr = "reservation" PROVE ManagerHolds
  <2>1. M!ReservationInit
    BY <1>2 DEF M!Init, M!PoolInit, M!ExpirationInit, M!TransferInit, M!BatchInit, M!RolloverInit
  <2>2. s = [bal |-> [k \in Keys |-> 3], res |-> <<>>] /\ seen = [k \in Keys |-> 0]
    BY <2>1 DEF M!ReservationInit, M!Zero
  <2>3. s \in Balances /\ seen \in [Keys -> Nat] /\ s.res = <<>>
    BY ONLY <2>2 DEF Balances
  <2>4. ASSUME NEW k \in Keys PROVE Backed(k)
    <3>1. HeldIn(s.res, k) = {}
      BY <2>3 DEF HeldIn
    <3>2. HeldSum(s.res, k) = 0
      BY <3>1, TotalNone DEF HeldSum
    <3> QED
      BY <2>2, <3>2 DEF Backed
  <2> QED
    BY <2>3, <2>4 DEF ManagerHolds
<1>3. ASSUME mgr = "expiration" PROVE ManagerGrants
  <2>1. M!ExpirationInit
    BY <1>3 DEF M!Init, M!PoolInit, M!ReservationInit, M!TransferInit, M!BatchInit, M!RolloverInit
  <2>2. s = [grants |-> <<>>, granted |-> 0, consumed |-> 0, lapsed |-> 0] /\ seen = 0
    BY <2>1 DEF M!ExpirationInit
  <2>3. s \in LotBooks /\ s.grants = <<>>
    BY ONLY <2>2 DEF LotBooks
  <2>4. LeftSum(s.grants, DOMAIN s.grants) = 0
    <3>1. DOMAIN s.grants = {}
      BY <2>3
    <3> QED
      BY <3>1, TotalNone DEF LeftSum
  <2> QED
    BY <2>2, <2>3, <2>4 DEF ManagerGrants, Book, Even
<1> QED
  BY <1>1, <1>2, <1>3 DEF ManagerInv

(* A call is one of the manager that runs, and no manager turns into       *)
(* another.                                                                *)
Stays(m) == mgr = m /\ mgr' = m /\ time' = time

LEMMA CallsStay ==
    /\ M!PoolNext => Stays("pool")
    /\ M!ReservationNext => Stays("reservation")
    /\ M!ExpirationNext => Stays("expiration")
    /\ M!TransferNext => Stays("transfer")
    /\ M!BatchNext => Stays("batch")
    /\ M!RolloverNext => Stays("rollover")
<1>1. \A m : M!Call(m) => Stays(m)
  BY DEF M!Call, Stays
<1>2. M!PoolNext => M!Call("pool")
  BY DEF M!PoolNext, M!CreatePool, M!DeletePool, M!AddToPool, M!AddMember, M!RemoveMember,
         M!PoolConsume
<1>3. M!ReservationNext => Stays("reservation")
  <2>1. M!ExpireReservations => Stays("reservation")
    BY DEF M!ExpireReservations, Stays
  <2> QED
    BY <1>1, <2>1 DEF M!ReservationNext, M!ReserveCredits, M!SettleHold, M!ReleaseHold, M!SetBalance
<1>4. M!ExpirationNext => M!Call("expiration")
  BY DEF M!ExpirationNext, M!GrantFor, M!ConsumeGrants, M!LookAtGrants, M!ExpireAll
<1>5. M!TransferNext => M!Call("transfer")
  BY DEF M!TransferNext, M!AddCredits, M!ResetBalance, M!Transfer, M!ReverseTransfer
<1>6. M!BatchNext => M!Call("batch")
  BY DEF M!BatchNext, M!SeedBalance, M!Execute
<1>7. M!RolloverNext => M!Call("rollover")
  BY DEF M!RolloverNext, M!AdvancePeriod, M!LookAtQuota, M!ConsumeQuota, M!UpdateLimit,
         M!RecreateQuota, M!UpdateRollover
<1> QED
  BY <1>1, <1>2, <1>3, <1>4, <1>5, <1>6, <1>7

(* Nothing moves.                                                          *)
LEMMA ManagersRest ==
    ASSUME ManagerInv, UNCHANGED <<mgr, s, seen>>, time' \in Nat PROVE ManagerInv'
<1>1. mgr = "reservation" => ManagerHolds'
  BY DEF ManagerInv, ManagerHolds, Backed
<1>2. mgr = "expiration" => ManagerGrants'
  BY DEF ManagerInv, ManagerGrants, Book, Even
<1> QED
  BY <1>1, <1>2 DEF ManagerInv

LEMMA StepManagers == ASSUME ManagerInv, [M!Next]_M!vars PROVE ManagerInv'
<1>1. time \in Nat
  BY DEF ManagerInv
<1>2. CASE M!ReservationNext
  <2>1. Stays("reservation")
    BY <1>2, CallsStay
  <2>2. ManagerHolds
    BY <2>1 DEF Stays, ManagerInv
  <2>3. ManagerHolds'
    BY ONLY <1>1, <1>2, <2>2, ReservationStep
  <2> QED
    BY ONLY <1>1, <2>1, <2>3 DEF Stays, ManagerInv
<1>3. CASE M!ExpirationNext
  <2>1. Stays("expiration")
    BY <1>3, CallsStay
  <2>2. ManagerGrants
    BY <2>1 DEF Stays, ManagerInv
  <2>3. ManagerGrants'
    BY ONLY <1>1, <1>3, <2>2, ExpirationStep
  <2> QED
    BY ONLY <1>1, <2>1, <2>3 DEF Stays, ManagerInv
<1>4. ASSUME NEW m \in {"pool", "transfer", "batch", "rollover"}, Stays(m) PROVE ManagerInv'
  BY ONLY <1>1, <1>4 DEF Stays, ManagerInv
<1>5. CASE M!PoolNext \/ M!TransferNext \/ M!BatchNext \/ M!RolloverNext
  BY <1>4, <1>5, CallsStay
<1>6. CASE M!Tick
  <2>1. UNCHANGED <<mgr, s, seen>> /\ time' \in Nat
    BY <1>1, <1>6 DEF M!Tick
  <2> QED
    BY <2>1, ManagersRest
<1>7. CASE UNCHANGED M!vars
  <2>1. UNCHANGED <<mgr, s, seen>> /\ time' \in Nat
    BY <1>1, <1>7 DEF M!vars
  <2> QED
    BY <2>1, ManagersRest
<1> QED
  BY <1>2, <1>3, <1>5, <1>6, <1>7 DEF M!Next

LEMMA ManagersKept == M!Spec => [](M!HoldsCovered /\ M!GrantsBalance)
<1>1. ManagerInv => M!HoldsCovered
  <2> SUFFICES ASSUME ManagerInv, mgr = "reservation", NEW k \in Keys
               PROVE  M!AvailableBalance(k) + seen[k] >= 0
    BY DEF M!HoldsCovered
  <2>1. ManagerHolds
    BY DEF ManagerInv
  <2> QED
    BY ONLY <2>1, k \in Keys, HoldersKnow
<1>2. ManagerInv => M!GrantsBalance
  BY SameLeft DEF ManagerInv, ManagerGrants, Book, Even, M!GrantsBalance
<1> QED
  BY <1>1, <1>2, InitManagers, StepManagers, PTL DEF M!Spec

(* What a consumption takes is of grants that run.                         *)
LEMMA StepUnspent ==
    ASSUME ManagerInv, [M!Next]_M!vars, mgr = "expiration", seen' # seen
    PROVE  \A i \in DOMAIN s.grants : s'.grants[i].left < s.grants[i].left
              => s.grants[i].expiresAt > time \/ s'.grants[i].expired
<1>1. time \in Nat /\ ManagerGrants
  BY DEF ManagerInv
<1>2. M!ExpirationNext
  BY CallsStay DEF M!Next, M!Tick, M!vars, Stays
<1>3. PICK c \in Amounts : M!ConsumeGrants(c)
  BY <1>2 DEF M!ExpirationNext, M!GrantFor, M!LookAtGrants, M!ExpireAll
<1> QED
  BY ONLY <1>1, <1>3, ConsumeGrantsStep

-----------------------------------------------------------------------------
(* The server promises no credit to two holds, a commit falls short only   *)
(* by what was charged meanwhile, a hold that has lapsed turns nobody away *)
(* (reserve, commit and release of the server), and in the manager of      *)
(* credit-reservation.ts nothing but settlements beyond their holds and    *)
(* administrators takes a balance below its holds.                         *)
THEOREM HoldsAreHonoured == R!Spec /\ M!Spec => []HoldsHonoured
<1>1. R!Spec => [](R!HoldsAreCovered /\ R!ShortOnlyByCalls /\ R!NoneTurnedAway)
  BY InitHolds, StepHolds, HoldsKept, PTL DEF R!Spec
<1> QED
  BY <1>1, ManagersKept, PTL DEF HoldsHonoured

(* Whatever is granted, spent, refunded, rolled over, voided or expires,   *)
(* every credit granted is left, used or expired, and the statistics tell  *)
(* which: of credit-grants.ts and of credit-expiration.ts.                 *)
THEOREM CreditsAddUp == G!Spec /\ M!Spec => []GrantsAddUp
<1>1. G!Spec => [](G!GrantsAddUp /\ G!ConsumedIsUsed)
  BY InitGrants, StepGrants, GrantsKept, PTL DEF G!Spec
<1> QED
  BY <1>1, ManagersKept, PTL DEF GrantsAddUp

(* Grants are spent by priority and nothing is spent of one that has       *)
(* expired: deduct of credit-grants.ts and consume of                      *)
(* credit-expiration.ts.                                                   *)
THEOREM SpendingIsInOrder == G!Spec /\ M!Spec => SpendsInOrder
<1>1. GrantInv /\ [G!Next]_(G!vars) =>
        [\A i \in G!Ids : grants'[i].used > grants[i].used
           => /\ grants[i].active
              /\ grants[i].expiresAt = 0 \/ grants[i].expiresAt > clock
              /\ \A j \in G!Ids : G!Swept[j].active /\ grants[j].priority < grants[i].priority
                   => grants'[j].balance = 0]_(G!vars)
  BY StepInOrder
<1>2. G!Spec => G!SpendsInOrder
  BY <1>1, InitGrants, StepGrants, PTL DEF G!Spec, G!SpendsInOrder
<1>3. ManagerInv /\ [M!Next]_(M!vars) =>
        [mgr = "expiration" /\ seen' # seen => \A i \in DOMAIN s.grants :
           s'.grants[i].left < s.grants[i].left
             => s.grants[i].expiresAt > time \/ s'.grants[i].expired]_(M!vars)
  BY StepUnspent
<1>4. M!Spec => M!ExpiredUnspent
  BY <1>3, InitManagers, StepManagers, PTL DEF M!Spec, M!ExpiredUnspent
<1> QED
  BY <1>2, <1>4 DEF SpendsInOrder
=============================================================================
