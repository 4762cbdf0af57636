------------------------ MODULE WebhookEmitterProofs ------------------------
(***************************************************************************)
(* Proofs about WebhookEmitter: every event is in one place until it is    *)
(* delivered or given up, whatever the size of the batches, the number of  *)
(* events and what the endpoint and the admin do; and, as long as no       *)
(* request times out, no event is sent more often than its retries allow.  *)
(***************************************************************************)
EXTENDS WebhookEmitter, FiniteSetTheorems, SequenceTheorems, TLAPS

Batches == [events : Seq(Events), attempt : Nat]

TypeOK ==
    /\ buffer \in Seq(Events)
    /\ flight \in Seq(Batches) /\ retry \in Seq(Batches) /\ dead \in Seq(Batches)
    /\ paused \in BOOLEAN /\ stopped \in BOOLEAN
    /\ emitted \subseteq Events /\ lost \subseteq Events
    /\ delivered \in [Events -> Nat] /\ sends \in [Events -> Nat]
    /\ pauses \in Nat /\ replays \in Nat /\ timeouts \in Nat

(* The buffer holds an event once.                                         *)
Once(s) == \A i, j \in DOMAIN s : s[i] = s[j] => i = j

(* 1 if P holds, 0 otherwise.                                              *)
One(P) == IF P THEN 1 ELSE 0
-----------------------------------------------------------------------------
(* Counting the entries of a queue that hold an event.                     *)

LEMMA TwoMin == ASSUME NEW a \in Int, NEW b \in Int
                PROVE  Min({a, b}) = IF a <= b THEN a ELSE b
BY DEF Min

LEMMA TwoMax == ASSUME NEW a \in Int, NEW b \in Int
                PROVE  Max({a, b}) = IF a >= b THEN a ELSE b
BY DEF Max

LEMMA HoldingType ==
    ASSUME NEW s \in Seq(Batches), NEW e
    PROVE  IsFiniteSet(At(s, e)) /\ Holding(s, e) \in Nat
<1>1. DOMAIN s = 1..Len(s) /\ Len(s) \in Nat
  OBVIOUS
<1>2. IsFiniteSet(DOMAIN s)
  BY <1>1, FS_Interval
<1>3. At(s, e) \subseteq DOMAIN s
  BY DEF At
<1> QED
  BY <1>2, <1>3, FS_Subset, FS_CardinalityType DEF Holding

LEMMA HoldingNone ==
    ASSUME NEW s \in Seq(Batches), NEW e
    PROVE  Holding(s, e) = 0 <=> \A i \in DOMAIN s : ~In(s[i].events, e)
<1>1. Holding(s, e) = 0 <=> At(s, e) = {}
  BY HoldingType, FS_EmptySet DEF Holding
<1> QED
  BY <1>1 DEF At

LEMMA HoldingEmpty == ASSUME NEW e PROVE Holding(<<>>, e) = 0
<1>1. At(<<>>, e) = {}
  BY DEF At
<1> QED
  BY <1>1, FS_EmptySet DEF Holding

(* Two queues one after the other hold what each holds.                    *)
LEMMA HoldingConcat ==
    ASSUME NEW s \in Seq(Batches), NEW t \in Seq(Batches), NEW e
    PROVE  Holding(s \o t, e) = Holding(s, e) + Holding(t, e)
<1> DEFINE n == Len(s)
           A == At(s, e)
           B == At(t, e)
           C == {i \in DOMAIN (s \o t) : i > n /\ In((s \o t)[i].events, e)}
           f == [i \in B |-> i + n]
<1>1. n \in Nat /\ B \subseteq 1..Len(t) /\ Len(t) \in Nat
  BY DEF At
<1>2. /\ DOMAIN (s \o t) = 1..(n + Len(t))
      /\ \A i \in 1..(n + Len(t)) : (s \o t)[i] = IF i <= n THEN s[i] ELSE t[i - n]
  OBVIOUS
<1>3. At(s \o t, e) = A \cup C /\ A \cap C = {}
  BY <1>1, <1>2 DEF At
<1>4. ExistsBijection(B, C)
  <2>1. \A i \in B : f[i] \in C
    BY <1>1, <1>2 DEF At
  <2>2. \A i, j \in B : f[i] = f[j] => i = j
    BY <1>1
  <2>3. \A c \in C : c - n \in B /\ f[c - n] = c
    BY <1>1, <1>2 DEF At
  <2> HIDE DEF B, C
  <2>4. DOMAIN f = B
    OBVIOUS
  <2>5. f \in [B -> C]
    BY <2>1
  <2> HIDE DEF f
  <2>6. f \in Injection(B, C)
    BY <2>2, <2>4, <2>5 DEF Injection, IsInjective
  <2>7. f \in Surjection(B, C)
    BY <2>3, <2>5 DEF Surjection
  <2> QED
    BY <2>6, <2>7 DEF ExistsBijection, Bijection
<1>5. IsFiniteSet(A) /\ IsFiniteSet(B)
  BY HoldingType
<1> HIDE DEF f, C, A, B
<1>6. IsFiniteSet(C) /\ Cardinality(C) = Cardinality(B)
  BY <1>4, <1>5, FS_Bijection
<1>7. Cardinality(A \cup C) = Cardinality(A) + Cardinality(C) - Cardinality(A \cap C)
  BY <1>5, <1>6, FS_Union
<1>8. Cardinality(A \cap C) = 0 /\ Cardinality(A) \in Nat /\ Cardinality(C) \in Nat
  BY <1>3, <1>5, <1>6, FS_EmptySet, FS_CardinalityType
<1> QED
  BY <1>3, <1>6, <1>7, <1>8 DEF Holding, A, B

LEMMA HoldingSingle ==
    ASSUME NEW b \in Batches, NEW e
    PROVE  Holding(<<b>>, e) = One(In(b.events, e))
<1>1. At(<<b>>, e) = IF In(b.events, e) THEN {1} ELSE {}
  BY DEF At
<1> QED
  BY <1>1, FS_EmptySet, FS_Singleton DEF Holding, One

LEMMA ConcatIs ==
    ASSUME NEW S, NEW s \in Seq(S), NEW t \in Seq(S)
    PROVE  /\ s \o t \in Seq(S) /\ DOMAIN (s \o t) = 1..(Len(s) + Len(t))
           /\ \A k \in 1..(Len(s) + Len(t)) :
                  (s \o t)[k] = IF k <= Len(s) THEN s[k] ELSE t[k - Len(s)]
<1>1. s \o t \in Seq(S) /\ Len(s \o t) = Len(s) + Len(t)
  OBVIOUS
<1>2. DOMAIN (s \o t) = 1..Len(s \o t)
  BY <1>1
<1> QED
  BY <1>1, <1>2, ConcatProperties

LEMMA CutInTwo ==
    ASSUME NEW S, NEW s \in Seq(S), NEW n \in 0..Len(s)
    PROVE  s = SubSeq(s, 1, n) \o SubSeq(s, n + 1, Len(s))
<1>1. 1 \in 1 .. Len(s) + 1 /\ n \in 1 - 1 .. Len(s) /\ Len(s) \in n .. Len(s) /\ Len(s) \in Nat
  OBVIOUS
<1>2. SubSeq(s, 1, n) \o SubSeq(s, n + 1, Len(s)) = SubSeq(s, 1, Len(s))
  BY <1>1, ConcatAdjacentSubSeq
<1> QED
  BY <1>2, SubSeqFull

(* A queue cut in two.                                                     *)
LEMMA HoldingCut ==
    ASSUME NEW s \in Seq(Batches), NEW n \in 0..Len(s), NEW e
    PROVE  /\ SubSeq(s, 1, n) \in Seq(Batches)
           /\ SubSeq(s, n + 1, Len(s)) \in Seq(Batches)
           /\ Holding(s, e) = Holding(SubSeq(s, 1, n), e) + Holding(SubSeq(s, n + 1, Len(s)), e)
<1> DEFINE a == SubSeq(s, 1, n)
           b == SubSeq(s, n + 1, Len(s))
<1>1. a \in Seq(Batches) /\ b \in Seq(Batches)
  OBVIOUS
<1>2. s = a \o b
  BY CutInTwo
<1> HIDE DEF a, b
<1>3. Holding(a \o b, e) = Holding(a, e) + Holding(b, e)
  BY <1>1, HoldingConcat
<1>4. Holding(s, e) = Holding(a, e) + Holding(b, e)
  BY <1>2, <1>3
<1> QED
  BY <1>1, <1>4 DEF a, b

(* An entry taken from a queue.                                            *)
LEMMA HoldingRemoved ==
    ASSUME NEW s \in Seq(Batches), NEW i \in DOMAIN s, NEW e
    PROVE  /\ RemoveAt(s, i) \in Seq(Batches) /\ s[i] \in Batches
           /\ Holding(s, e) = Holding(RemoveAt(s, i), e) + One(In(s[i].events, e))
           /\ Holding(RemoveAt(s, i), e) \in Nat
<1> DEFINE a == SubSeq(s, 1, i - 1)
           b == SubSeq(s, i + 1, Len(s))
           c == <<s[i]>>
<1>1. a \in Seq(Batches) /\ b \in Seq(Batches) /\ c \in Seq(Batches) /\ s[i] \in Batches
  OBVIOUS
<1>2. s = (a \o c) \o b
  <2>1. i \in 1..Len(s) /\ i \in 0..Len(s)
    OBVIOUS
  <2>2. a \o c = SubSeq(s, 1, i)
    <3>1. 1 \in 1..Len(s) /\ i \in 1..Len(s)
      BY <2>1
    <3> QED
      BY <3>1, SubSeqRecursiveSecond
  <2>3. s = SubSeq(s, 1, i) \o b
    BY <2>1, CutInTwo
  <2> QED
    BY <2>2, <2>3
<1>3. Holding(c, e) = One(In(s[i].events, e))
  BY <1>1, HoldingSingle
<1> HIDE DEF a, b, c
<1> DEFINE ac == a \o c
<1>4. ac \in Seq(Batches) /\ a \o b \in Seq(Batches)
  BY <1>1, ConcatProperties
<1>5. Holding(ac \o b, e) = Holding(ac, e) + Holding(b, e)
  <2> HIDE DEF ac
  <2> QED
    BY <1>1, <1>4, HoldingConcat
<1>6. Holding(a \o c, e) = Holding(a, e) + Holding(c, e)
  BY <1>1, HoldingConcat
<1>7. Holding(a \o b, e) = Holding(a, e) + Holding(b, e)
  BY <1>1, HoldingConcat
<1>8. Holding(a, e) \in Nat /\ Holding(b, e) \in Nat /\ Holding(c, e) \in Nat
  BY <1>1, HoldingType
<1>9. RemoveAt(s, i) = a \o b
  BY DEF RemoveAt, a, b
<1>10. Holding(s, e) = Holding(a \o b, e) + Holding(c, e) /\ Holding(a \o b, e) \in Nat
  BY <1>2, <1>5, <1>6, <1>7, <1>8
<1> QED
  BY <1>1, <1>3, <1>4, <1>9, <1>10

(* What a queue still holds once an entry is taken from it, it held.       *)
LEMMA RemovedElement ==
    ASSUME NEW s \in Seq(Batches), NEW i \in DOMAIN s, NEW j \in DOMAIN RemoveAt(s, i)
    PROVE  \E k \in DOMAIN s : k # i /\ RemoveAt(s, i)[j] = s[k]
<1> DEFINE a == SubSeq(s, 1, i - 1)
           b == SubSeq(s, i + 1, Len(s))
           c == a \o b
           n == Len(s)
<1>1. n \in Nat /\ i \in 1..n /\ DOMAIN s = 1..n
  OBVIOUS
<1>2. /\ a \in Seq(Batches) /\ Len(a) = i - 1
      /\ \A k \in 1 .. i - 1 : a[k] = s[k]
  BY <1>1
<1>3. /\ b \in Seq(Batches) /\ Len(b) = n - i
      /\ \A k \in 1 .. n - i : b[k] = s[i + k]
  BY <1>1
<1>4. RemoveAt(s, i) = c
  BY DEF RemoveAt
<1> HIDE DEF a, b, n
<1>5. /\ DOMAIN c = 1..(Len(a) + Len(b))
      /\ \A k \in 1..(Len(a) + Len(b)) : c[k] = IF k <= Len(a) THEN a[k] ELSE b[k - Len(a)]
  BY <1>2, <1>3, ConcatIs
<1> HIDE DEF c
<1>6. j \in 1 .. (n - 1) /\ c[j] = IF j <= i - 1 THEN a[j] ELSE b[j - (i - 1)]
  BY <1>1, <1>2, <1>3, <1>4, <1>5
<1>7. CASE j <= i - 1
  <2>1. c[j] = s[j] /\ j \in DOMAIN s /\ j # i
    BY <1>1, <1>2, <1>6, <1>7
  <2> QED
    BY <1>4, <2>1
<1>8. CASE j > i - 1
  <2>1. c[j] = b[j - (i - 1)] /\ j - (i - 1) \in 1 .. n - i
    BY <1>1, <1>6, <1>8
  <2>2. i + (j - (i - 1)) = j + 1 /\ j + 1 \in 1..n /\ j + 1 # i
    BY <1>1, <1>6, <1>8
  <2> QED
    BY <1>1, <1>3, <1>4, <2>1, <2>2
<1> QED
  BY <1>1, <1>6, <1>7, <1>8

LEMMA TimesIs ==
    ASSUME NEW b \in Batches
    PROVE  /\ Times(1, b) = <<b>> /\ Times(2, b) = <<b>> \o <<b>>
           /\ <<b>> \in Seq(Batches)
BY DEF Times

LEMMA HoldingTimes ==
    ASSUME NEW b \in Batches, NEW e, NEW n \in {1, 2}
    PROVE  Times(n, b) \in Seq(Batches) /\ Holding(Times(n, b), e) = n * One(In(b.events, e))
<1>1. Holding(<<b>>, e) = One(In(b.events, e)) /\ <<b>> \in Seq(Batches)
  BY HoldingSingle
<1>2. Holding(<<b>> \o <<b>>, e) = Holding(<<b>>, e) + Holding(<<b>>, e)
  BY <1>1, HoldingConcat
<1>3. <<b>> \o <<b>> \in Seq(Batches)
  BY <1>1
<1>4. CASE n = 1
  <2>1. Holding(Times(1, b), e) = One(In(b.events, e)) /\ Times(1, b) \in Seq(Batches)
    BY <1>1, TimesIs
  <2> QED
    BY <1>4, <2>1 DEF One
<1>5. CASE n = 2
  <2>1. Holding(Times(2, b), e) = Holding(<<b>>, e) + Holding(<<b>>, e) /\ Times(2, b) \in Seq(Batches)
    BY <1>2, <1>3, TimesIs
  <2> QED
    BY <1>1, <1>5, <2>1 DEF One
<1> QED
  BY <1>4, <1>5

LEMMA BatchIs ==
    ASSUME NEW evs, NEW n
    PROVE  /\ Batch(evs, n).events = evs /\ Batch(evs, n).attempt = n
           /\ evs \in Seq(Events) /\ n \in Nat => Batch(evs, n) \in Batches
BY DEF Batch, Batches

(* What the entries of s at S hold, in any order.                          *)
LEMMA HoldingListed ==
    ASSUME NEW s \in Seq(Batches), NEW S \in SUBSET DOMAIN s, NEW f \in Listings(S),
           NEW t \in Seq(Batches), DOMAIN t = DOMAIN f,
           \A n \in DOMAIN f : t[n].events = s[f[n]].events, NEW e
    PROVE  Holding(t, e) = Cardinality({i \in S : In(s[i].events, e)})
<1> DEFINE A == At(t, e)
           B == {i \in S : In(s[i].events, e)}
           g == [n \in A |-> f[n]]
           D == 1..Cardinality(S)
<1>1. /\ f \in [D -> S] /\ (\A m, n \in D : f[m] = f[n] => m = n)
      /\ (\A i \in S : \E n \in D : f[n] = i)
  BY DEF Listings, Bijection, Injection, Surjection, IsInjective
<1>2. DOMAIN f = D
  BY <1>1
<1> HIDE DEF D
<1>3. A = {n \in D : In(s[f[n]].events, e)}
  BY <1>2 DEF At
<1>4. ExistsBijection(A, B)
  <2>1. \A n \in A : g[n] \in B
    BY <1>1, <1>3
  <2>2. \A m, n \in A : g[m] = g[n] => m = n
    BY <1>1, <1>3
  <2>3. \A i \in B : \E n \in A : g[n] = i
    BY <1>1, <1>3
  <2> HIDE DEF A, B
  <2>4. g \in [A -> B] /\ DOMAIN g = A
    BY <2>1
  <2> HIDE DEF g
  <2>5. g \in Injection(A, B)
    BY <2>2, <2>4 DEF Injection, IsInjective
  <2>6. g \in Surjection(A, B)
    BY <2>3, <2>4 DEF Surjection
  <2> QED
    BY <2>5, <2>6 DEF ExistsBijection, Bijection
<1>5. IsFiniteSet(A)
  BY HoldingType
<1> HIDE DEF A, B, g
<1>6. Cardinality(B) = Cardinality(A)
  BY <1>4, <1>5, FS_Bijection
<1> QED
  BY <1>6 DEF A, B, Holding

Kept(kept) == [n \in DOMAIN kept |-> dead[kept[n]]]
Again(again) == [n \in DOMAIN again |-> Batch(dead[again[n]].events, 0)]

(* Replaying entries neither loses nor repeats one.                        *)
LEMMA HoldingReplayed ==
    ASSUME dead \in Seq(Batches), NEW chosen \in SUBSET DOMAIN dead,
           NEW again \in Listings(chosen), NEW kept \in Listings(DOMAIN dead \ chosen), NEW e
    PROVE  /\ Kept(kept) \in Seq(Batches) /\ Again(again) \in Seq(Batches)
           /\ Holding(dead, e) = Holding(Kept(kept), e) + Holding(Again(again), e)
           /\ \A n \in DOMAIN Again(again) :
                 Again(again)[n].attempt = 0
                 /\ \E i \in DOMAIN dead : Again(again)[n].events = dead[i].events
<1> DEFINE rest_ == DOMAIN dead \ chosen
           A == {i \in chosen : In(dead[i].events, e)}
           B == {i \in rest_ : In(dead[i].events, e)}
<1>1. /\ DOMAIN dead = 1..Len(dead) /\ Len(dead) \in Nat
      /\ \A i \in DOMAIN dead : dead[i] \in Batches
  OBVIOUS
<1>2. IsFiniteSet(DOMAIN dead)
  BY <1>1, FS_Interval
<1>3. IsFiniteSet(chosen) /\ IsFiniteSet(rest_) /\ IsFiniteSet(A) /\ IsFiniteSet(B)
  BY <1>2, FS_Subset
<1>4. Cardinality(chosen) \in Nat /\ Cardinality(rest_) \in Nat
  BY <1>3, FS_CardinalityType
<1>5. again \in [1..Cardinality(chosen) -> chosen] /\ kept \in [1..Cardinality(rest_) -> rest_]
  BY DEF Listings, Bijection, Injection
<1>6. Kept(kept) \in Seq(Batches) /\ DOMAIN Kept(kept) = DOMAIN kept
  <2>1. DOMAIN kept = 1..Cardinality(rest_) /\ \A n \in DOMAIN kept : kept[n] \in DOMAIN dead
    BY <1>5
  <2>2. \A n \in 1..Cardinality(rest_) : dead[kept[n]] \in Batches
    BY <1>1, <2>1
  <2>3. DOMAIN Kept(kept) = DOMAIN kept /\ \A n \in DOMAIN kept : Kept(kept)[n] = dead[kept[n]]
    BY DEF Kept
  <2>4. Kept(kept) = [n \in 1..Cardinality(rest_) |-> Kept(kept)[n]]
    BY <2>1, <2>3 DEF Kept
  <2> DEFINE c == Cardinality(rest_)
  <2>5. c \in Nat /\ \A n \in 1..c : Kept(kept)[n] \in Batches
    BY <1>4, <2>1, <2>2, <2>3
  <2> HIDE DEF c
  <2>6. [n \in 1..c |-> Kept(kept)[n]] \in Seq(Batches)
    BY <2>5, IsASeq
  <2> QED
    BY <2>3, <2>4, <2>6 DEF c
<1>7. \A n \in DOMAIN again : Again(again)[n] = Batch(dead[again[n]].events, 0)
                              /\ again[n] \in DOMAIN dead
  BY <1>5 DEF Again
<1>8. \A n \in DOMAIN again : Again(again)[n] \in Batches
  <2> TAKE n \in DOMAIN again
  <2>1. dead[again[n]] \in Batches
    BY <1>1, <1>7
  <2>2. dead[again[n]].events \in Seq(Events)
    BY <2>1 DEF Batches
  <2> QED
    BY <1>7, <2>2, BatchIs
<1>9. Again(again) \in Seq(Batches) /\ DOMAIN Again(again) = DOMAIN again
  <2>1. DOMAIN again = 1..Cardinality(chosen) /\ DOMAIN Again(again) = DOMAIN again
    BY <1>5 DEF Again
  <2>2. Again(again) = [n \in 1..Cardinality(chosen) |-> Again(again)[n]]
    BY <2>1 DEF Again
  <2> QED
    BY <1>4, <1>8, <2>1, <2>2, IsASeq
<1>10. Holding(Again(again), e) = Cardinality(A)
  <2>1. \A n \in DOMAIN again : Again(again)[n].events = dead[again[n]].events
    BY <1>7, BatchIs
  <2> QED
    BY <1>9, <2>1, HoldingListed
<1>11. Holding(Kept(kept), e) = Cardinality(B)
  <2>1. \A n \in DOMAIN kept : Kept(kept)[n].events = dead[kept[n]].events
    BY DEF Kept
  <2> QED
    BY <1>6, <2>1, HoldingListed
<1>12. At(dead, e) = A \cup B /\ A \cap B = {}
  BY DEF At
<1>13. Cardinality(A \cup B) = Cardinality(A) + Cardinality(B) - Cardinality(A \cap B)
  BY <1>3, FS_Union
<1>14. Cardinality(A \cap B) = 0
  BY <1>12, FS_EmptySet
<1>15. Cardinality(A) \in Nat /\ Cardinality(B) \in Nat
  BY <1>3, FS_CardinalityType
<1>16. Cardinality(At(dead, e)) = Cardinality(A) + Cardinality(B)
  <2> HIDE DEF A, B
  <2> QED
    BY <1>12, <1>13, <1>14, <1>15
<1>17. Holding(dead, e) = Holding(Kept(kept), e) + Holding(Again(again), e)
  <2> HIDE DEF A, B
  <2> QED
    BY <1>10, <1>11, <1>15, <1>16 DEF Holding
<1>18. \A n \in DOMAIN Again(again) :
          Again(again)[n].attempt = 0
          /\ \E i \in DOMAIN dead : Again(again)[n].events = dead[i].events
  BY <1>7, <1>9, BatchIs
<1> QED
  BY <1>6, <1>9, <1>17, <1>18
-----------------------------------------------------------------------------
(* Cutting the buffer.                                                     *)

LEMMA Product == ASSUME NEW a \in Int, NEW b \in Int, NEW n \in Nat, a <= b
                 PROVE  a * n <= b * n
<1>1. (b - a) * n >= 0
  OBVIOUS
<1>2. (b - a) * n = b * n - a * n
  OBVIOUS
<1> QED
  BY <1>1, <1>2

LEMMA Divide == ASSUME NEW x \in Nat, NEW n \in Nat \ {0}
                PROVE  x \div n \in Nat /\ (x \div n) * n <= x /\ x < (x \div n + 1) * n
<1>1. x = n * (x \div n) + (x % n) /\ x % n \in 0 .. n - 1 /\ x \div n \in Int
  OBVIOUS
<1> QED
  BY <1>1

(* The number of batches of a buffer of n events, and the batch that gets  *)
(* the event at j.                                                         *)
Number(n) == (n + BatchSize - 1) \div BatchSize
Chunk(j) == (j - 1) \div BatchSize + 1
Upto(i, n) == IF i * BatchSize <= n THEN i * BatchSize ELSE n

LEMMA ChunkBounds ==
    ASSUME NEW n \in Nat, NEW i \in 1..Number(n)
    PROVE  /\ (i - 1) * BatchSize \in Nat /\ i * BatchSize \in Nat
           /\ (i - 1) * BatchSize + 1 <= Upto(i, n) /\ Upto(i, n) \in 1..n
           /\ Min({i * BatchSize, n}) = Upto(i, n)
<1>1. BatchSize \in Nat \ {0}
  BY EmitterAssumption
<1>2. n + BatchSize - 1 \in Nat
  BY <1>1
<1>3. Number(n) \in Nat /\ Number(n) * BatchSize <= n + BatchSize - 1
  BY <1>1, <1>2, Divide DEF Number
<1>4. i * BatchSize <= Number(n) * BatchSize
  BY <1>1, <1>3, Product
<1>5. i * BatchSize = (i - 1) * BatchSize + BatchSize
  BY <1>1, <1>3
<1>6. i * BatchSize \in Nat /\ (i - 1) * BatchSize \in Nat
  BY <1>1, <1>3
<1>7. Min({i * BatchSize, n}) = Upto(i, n)
  BY <1>6, TwoMin DEF Upto
<1> QED
  BY <1>1, <1>3, <1>4, <1>5, <1>6, <1>7 DEF Upto

LEMMA ChunkOf ==
    ASSUME NEW n \in Nat, NEW j \in 1..n
    PROVE  /\ Chunk(j) \in 1..Number(n)
           /\ (Chunk(j) - 1) * BatchSize + 1 <= j /\ j <= Upto(Chunk(j), n)
           /\ \A i \in 1..Number(n) :
                 (i - 1) * BatchSize + 1 <= j /\ j <= Upto(i, n) => i = Chunk(j)
<1>1. BatchSize \in Nat \ {0}
  BY EmitterAssumption
<1> DEFINE c == Chunk(j)
<1>2. c \in Nat \ {0} /\ (c - 1) * BatchSize <= j - 1 /\ j - 1 < c * BatchSize
  <2>1. j - 1 \in Nat
    OBVIOUS
  <2>2. /\ (j - 1) \div BatchSize \in Nat /\ ((j - 1) \div BatchSize) * BatchSize <= j - 1
        /\ j - 1 < ((j - 1) \div BatchSize + 1) * BatchSize
    BY <1>1, <2>1, Divide
  <2> QED
    BY <2>2 DEF Chunk
<1> HIDE DEF c
<1>3. n + BatchSize - 1 \in Nat
  BY <1>1
<1>4. /\ Number(n) \in Nat
      /\ n + BatchSize - 1 < (Number(n) + 1) * BatchSize
  BY <1>1, <1>3, Divide DEF Number
<1>5. c <= Number(n)
  <2>1. SUFFICES ASSUME Number(n) + 1 <= c PROVE FALSE
    BY <1>2, <1>4
  <2>2. Number(n) <= c - 1
    BY <1>2, <1>4, <2>1
  <2>3. Number(n) * BatchSize <= (c - 1) * BatchSize
    BY <1>1, <1>2, <1>4, <2>2, Product
  <2>4. (Number(n) + 1) * BatchSize = Number(n) * BatchSize + BatchSize
    BY <1>1, <1>4
  <2>5. Number(n) * BatchSize \in Nat /\ (c - 1) * BatchSize \in Nat
    BY <1>1, <1>2, <1>4
  <2> QED
    BY <1>1, <1>2, <1>4, <2>3, <2>4, <2>5
<1>6. c * BatchSize \in Nat /\ (c - 1) * BatchSize \in Nat
  BY <1>1, <1>2
<1>7. \A i \in 1..Number(n) :
          (i - 1) * BatchSize + 1 <= j /\ j <= Upto(i, n) => i = c
  <2> SUFFICES ASSUME NEW i \in 1..Number(n), (i - 1) * BatchSize + 1 <= j, j <= Upto(i, n)
               PROVE  i = c
    OBVIOUS
  <2>1. i * BatchSize \in Nat /\ (i - 1) * BatchSize \in Nat /\ i \in Nat
    BY <1>1, <1>4
  <2>2. j <= i * BatchSize
    BY <2>1 DEF Upto
  <2>3. ~ i <= c - 1
    <3>1. i <= c - 1 => i * BatchSize <= (c - 1) * BatchSize
      BY <1>1, <1>2, <2>1, Product
    <3> QED
      BY <1>2, <1>6, <2>1, <2>2, <3>1
  <2>4. ~ c <= i - 1
    <3>1. c <= i - 1 => c * BatchSize <= (i - 1) * BatchSize
      BY <1>1, <1>2, <2>1, Product
    <3> QED
      BY <1>2, <1>6, <2>1, <2>2, <3>1
  <2> QED
    BY <1>2, <2>1, <2>3, <2>4
<1> QED
  BY <1>2, <1>4, <1>5, <1>6, <1>7 DEF c, Upto

(* The batches that resume makes of the buffer hold each event once.       *)
LEMMA ChunksHold ==
    ASSUME NEW s \in Seq(Events), Once(s), NEW e
    PROVE  /\ Chunks(s) \in Seq(Batches)
           /\ \A i \in DOMAIN Chunks(s) : Chunks(s)[i].attempt = 0
           /\ Holding(Chunks(s), e) = One(In(s, e))
<1> DEFINE n == Len(s)
           low(i) == (i - 1) * BatchSize + 1
           c == Chunks(s)
<1>1. n \in Nat /\ DOMAIN s = 1..n /\ BatchSize \in Nat \ {0}
  BY EmitterAssumption
<1>2. Number(n) \in Nat
  BY <1>1, Divide DEF Number
<1>3. \A i \in 1..Number(n) :
         /\ low(i) \in 1..n /\ Upto(i, n) \in 1..n
         /\ c[i] = Batch(SubSeq(s, low(i), Upto(i, n)), 0)
  <2> TAKE i \in 1..Number(n)
  <2>1. /\ (i - 1) * BatchSize \in Nat /\ i * BatchSize \in Nat
        /\ (i - 1) * BatchSize + 1 <= Upto(i, n) /\ Upto(i, n) \in 1..n
        /\ Min({i * BatchSize, n}) = Upto(i, n)
    BY <1>1, ChunkBounds
  <2>2. c[i] = Batch(SubSeq(s, low(i), Min({i * BatchSize, n})), 0)
    BY DEF Chunks, Number
  <2> QED
    BY <2>1, <2>2
<1>4. DOMAIN c = 1..Number(n) /\ c = [i \in 1..Number(n) |-> c[i]]
  BY DEF Chunks, Number
<1> HIDE DEF c
<1>5. \A i \in 1..Number(n) :
         /\ c[i] \in Batches /\ c[i].attempt = 0
         /\ In(c[i].events, e) <=> \E j \in 1..n : low(i) <= j /\ j <= Upto(i, n) /\ s[j] = e
  <2> TAKE i \in 1..Number(n)
  <2> DEFINE a == low(i)
             b == Upto(i, n)
             sub == SubSeq(s, a, b)
  <2>1. a \in 1..n /\ b \in 1..n /\ c[i] = Batch(sub, 0)
    BY <1>3
  <2> HIDE DEF a, b, n
  <2>2. /\ sub \in Seq(Events) /\ Len(sub) = IF a <= b THEN b - a + 1 ELSE 0
        /\ \A k \in 1 .. b - a + 1 : sub[k] = s[a + k - 1]
    <3>1. \A k \in a..b : s[k] \in Events
      BY <1>1, <2>1
    <3> QED
      BY <1>1, <2>1, <3>1, SubSeqProperties
  <2> HIDE DEF sub
  <2>3. DOMAIN sub = 1 .. b - a + 1
    BY <1>1, <2>1, <2>2
  <2>4. In(sub, e) <=> \E j \in 1..n : a <= j /\ j <= b /\ s[j] = e
    <3>1. \A k \in 1 .. b - a + 1 : a + k - 1 \in 1..n /\ a <= a + k - 1 /\ a + k - 1 <= b
      BY <1>1, <2>1
    <3>2. \A j \in 1..n : a <= j /\ j <= b => j - a + 1 \in 1 .. b - a + 1
                                              /\ a + (j - a + 1) - 1 = j
      BY <1>1, <2>1
    <3> QED
      BY <2>2, <2>3, <3>1, <3>2 DEF In
  <2>5. c[i].events = sub /\ c[i].attempt = 0 /\ c[i] \in Batches
    BY <2>1, <2>2, BatchIs
  <2> QED
    BY <2>4, <2>5 DEF a, b, n
<1>6. c \in Seq(Batches)
  <2>1. \A i \in 1..Number(n) : c[i] \in Batches
    BY <1>5
  <2> QED
    BY <1>2, <1>4, <2>1, IsASeq
<1>7. CASE In(s, e)
  <2>1. PICK j \in 1..n : s[j] = e
    BY <1>1, <1>7 DEF In
  <2>2. \A k \in 1..n : s[k] = e => k = j
    BY <1>1, <2>1 DEF Once
  <2>3. /\ Chunk(j) \in 1..Number(n) /\ low(Chunk(j)) <= j /\ j <= Upto(Chunk(j), n)
        /\ \A i \in 1..Number(n) : low(i) <= j /\ j <= Upto(i, n) => i = Chunk(j)
    BY <1>1, ChunkOf
  <2>4. At(c, e) = {Chunk(j)}
    <3>1. \A i \in 1..Number(n) : In(c[i].events, e) <=> low(i) <= j /\ j <= Upto(i, n)
      BY <1>5, <2>1, <2>2
    <3> HIDE DEF low
    <3> QED
      BY <1>4, <2>3, <3>1 DEF At
  <2> QED
    BY <1>4, <1>5, <1>6, <1>7, <2>4, FS_Singleton DEF Holding, One, c
<1>8. CASE ~In(s, e)
  <2>1. \A i \in DOMAIN c : ~In(c[i].events, e)
    BY <1>1, <1>4, <1>5, <1>8 DEF In
  <2>2. Holding(c, e) = 0
    BY <1>6, <2>1, HoldingNone
  <2> QED
    BY <1>4, <1>5, <1>6, <1>8, <2>2 DEF One, c
<1> QED
  BY <1>7, <1>8

(* A batch taken from the front of the buffer and what stays behind.       *)
LEMMA BufferCut ==
    ASSUME NEW s \in Seq(Events), Once(s), NEW n \in 1..Len(s), NEW e
    PROVE  /\ SubSeq(s, 1, n) \in Seq(Events) /\ SubSeq(s, n + 1, Len(s)) \in Seq(Events)
           /\ Once(SubSeq(s, n + 1, Len(s)))
           /\ One(In(s, e)) = One(In(SubSeq(s, n + 1, Len(s)), e)) + One(In(SubSeq(s, 1, n), e))
<1> DEFINE a == SubSeq(s, 1, n)
           b == SubSeq(s, n + 1, Len(s))
           l == Len(s)
<1>1. l \in Nat /\ DOMAIN s = 1..l /\ n \in 1..l
  OBVIOUS
<1>2. a \in Seq(Events) /\ DOMAIN a = 1..n /\ \A k \in 1..n : a[k] = s[k]
  BY <1>1
<1>3. /\ b \in Seq(Events) /\ DOMAIN b = 1..(l - n)
      /\ \A k \in 1..(l - n) : b[k] = s[n + k]
  BY <1>1
<1> HIDE DEF a, b, l
<1>4. \A k \in 1..l : k \in 1..n \/ (k - n \in 1..(l - n) /\ n + (k - n) = k)
  BY <1>1
<1>5. \A k \in 1..(l - n) : n + k \in 1..l /\ n + k \notin 1..n
  BY <1>1
<1>6. In(s, e) <=> In(a, e) \/ In(b, e)
  <2>1. In(s, e) => In(a, e) \/ In(b, e)
    <3> SUFFICES ASSUME NEW k \in 1..l, s[k] = e PROVE In(a, e) \/ In(b, e)
      BY <1>1 DEF In
    <3>1. CASE k \in 1..n
      BY <1>2, <3>1 DEF In
    <3>2. CASE k - n \in 1..(l - n) /\ n + (k - n) = k
      <4>1. b[k - n] = e
        BY <1>3, <3>2
      <4> QED
        BY <1>3, <3>2, <4>1 DEF In
    <3> QED
      BY <1>4, <3>1, <3>2
  <2>2. In(a, e) => In(s, e)
    BY <1>1, <1>2 DEF In
  <2>3. In(b, e) => In(s, e)
    BY <1>1, <1>3, <1>5 DEF In
  <2> QED
    BY <2>1, <2>2, <2>3
<1>7. ~(In(a, e) /\ In(b, e))
  <2> SUFFICES ASSUME NEW i \in 1..n, NEW k \in 1..(l - n), a[i] = e, b[k] = e PROVE FALSE
    BY <1>2, <1>3 DEF In
  <2>1. s[i] = s[n + k] /\ i \in 1..l /\ n + k \in 1..l
    BY <1>1, <1>2, <1>3, <1>5
  <2>2. i = n + k
    BY <1>1, <2>1 DEF Once
  <2> QED
    BY <1>5, <2>2
<1>8. Once(b)
  <2> SUFFICES ASSUME NEW i \in 1..(l - n), NEW k \in 1..(l - n), b[i] = b[k] PROVE i = k
    BY <1>3 DEF Once
  <2>1. s[n + i] = s[n + k] /\ n + i \in 1..l /\ n + k \in 1..l
    BY <1>3, <1>5
  <2>2. n + i = n + k
    BY <1>1, <2>1 DEF Once
  <2> QED
    BY <1>1, <2>2
<1> QED
  BY <1>2, <1>3, <1>6, <1>7, <1>8 DEF One, a, b, l
-----------------------------------------------------------------------------
(* The inductive invariant. *)

(* In how many places an event is, among them what the emitter gave up.    *)
Where(e) == Copies(e) + One(e \in lost)

(* An event is nowhere before it is emitted, and then somewhere: once, and *)
(* once more for each request that timed out.                              *)
Placed == \A e \in Events : Where(e) \in IF e \in emitted THEN 1..(1 + timeouts) ELSE {0}

(* While no request times out: an event under way was sent as often as its *)
(* attempt says, and one that waits for a retry has retries left.          *)
Paced ==
    timeouts = 0 =>
        \A e \in Events :
            /\ sends[e] <= 1 + MaxRetries
            /\ \A i \in DOMAIN flight :
                  In(flight[i].events, e) =>
                      flight[i].attempt <= MaxRetries /\ sends[e] <= flight[i].attempt + 1
            /\ \A i \in DOMAIN retry :
                  In(retry[i].events, e) =>
                      retry[i].attempt \in 1..MaxRetries /\ sends[e] <= retry[i].attempt

IInv == TypeOK /\ Once(buffer) /\ Placed /\ Paced

LEMMA CopiesIs ==
    ASSUME TypeOK, NEW e \in Events
    PROVE  /\ Where(e) = Holding(flight, e) + Holding(retry, e) + Holding(dead, e)
                         + delivered[e] + One(In(buffer, e)) + One(e \in lost)
           /\ Holding(flight, e) \in Nat /\ Holding(retry, e) \in Nat /\ Holding(dead, e) \in Nat
           /\ delivered[e] \in Nat /\ One(In(buffer, e)) \in {0, 1} /\ One(e \in lost) \in {0, 1}
           /\ Where(e) \in Nat
<1>1. Holding(flight, e) \in Nat /\ Holding(retry, e) \in Nat /\ Holding(dead, e) \in Nat
  BY HoldingType DEF TypeOK
<1>2. delivered[e] \in Nat /\ One(In(buffer, e)) \in {0, 1} /\ One(e \in lost) \in {0, 1}
  BY DEF TypeOK, One
<1>3. Where(e) = Holding(flight, e) + Holding(retry, e) + Holding(dead, e)
                 + delivered[e] + One(In(buffer, e)) + One(e \in lost)
  BY DEF Where, Copies, One
<1> QED
  BY <1>1, <1>2, <1>3

LEMMA CopiesIsThen ==
    ASSUME TypeOK', NEW e \in Events
    PROVE  /\ Where(e)' = Holding(flight', e) + Holding(retry', e) + Holding(dead', e)
                          + delivered'[e] + One(In(buffer', e)) + One(e \in lost')
           /\ Holding(flight', e) \in Nat /\ Holding(retry', e) \in Nat
           /\ Holding(dead', e) \in Nat /\ delivered'[e] \in Nat
           /\ One(In(buffer', e)) \in {0, 1} /\ One(e \in lost') \in {0, 1}
           /\ Where(e)' \in Nat
<1>1. Holding(flight', e) \in Nat /\ Holding(retry', e) \in Nat /\ Holding(dead', e) \in Nat
  BY HoldingType DEF TypeOK
<1>2. delivered'[e] \in Nat /\ One(In(buffer', e)) \in {0, 1} /\ One(e \in lost') \in {0, 1}
  BY DEF TypeOK, One
<1>3. Where(e)' = Holding(flight', e) + Holding(retry', e) + Holding(dead', e)
                 + delivered'[e] + One(In(buffer', e)) + One(e \in lost')
  BY DEF Where, Copies, One
<1> QED
  BY <1>1, <1>2, <1>3

(* Where events are bounds OneCopy.                                        *)
LEMMA PlacedIsOneCopy == ASSUME TypeOK, Placed PROVE OneCopy
<1> SUFFICES ASSUME NEW e \in emitted
             PROVE  Copies(e) + (IF e \in lost THEN 1 ELSE 0) \in 1..(1 + timeouts)
  BY DEF OneCopy
<1>1. e \in Events /\ Where(e) \in 1..(1 + timeouts)
  BY DEF TypeOK, Placed
<1> QED
  BY <1>1 DEF Where, One

(* A step that moves copies, and adds no more than time-outs do.           *)
LEMMA PlacedKept ==
    ASSUME TypeOK, TypeOK', Placed, emitted' = emitted, timeouts' >= timeouts,
           \A e \in Events : /\ Where(e) = 0 => Where(e)' = 0
                             /\ Where(e) > 0 => Where(e)' \in 1..(Where(e) + timeouts' - timeouts)
    PROVE  Placed'
<1> SUFFICES ASSUME NEW e \in Events
             PROVE  Where(e)' \in IF e \in emitted THEN 1..(1 + timeouts') ELSE {0}
  BY DEF Placed
<1>1. Where(e) \in Nat
  BY CopiesIs
<1>2. Where(e) \in IF e \in emitted THEN 1..(1 + timeouts) ELSE {0}
  BY DEF Placed
<1>3. timeouts \in Nat /\ timeouts' \in Nat
  BY DEF TypeOK
<1>4. CASE e \in emitted
  BY <1>1, <1>2, <1>3, <1>4
<1>5. CASE e \notin emitted
  BY <1>1, <1>2, <1>5
<1> QED
  BY <1>4, <1>5

(* While nothing timed out, an event that waits in the buffer or the dead  *)
(* letters is neither under way nor waiting for a retry, and one that is   *)
(* under way or waits for a retry is there once.                           *)
LEMMA Alone ==
    ASSUME TypeOK, Placed, timeouts = 0, NEW e \in Events
    PROVE  Holding(flight, e) + Holding(retry, e) + Holding(dead, e) + One(In(buffer, e)) <= 1
<1>1. Where(e) <= 1
  BY CopiesIs DEF Placed
<1> QED
  BY <1>1, CopiesIs
-----------------------------------------------------------------------------
(* Sending. *)

LEMMA SendIs ==
    ASSUME TypeOK, NEW bs \in Seq(Batches), Send(bs)
    PROVE  /\ flight' \in Seq(Batches) /\ sends' \in [Events -> Nat]
           /\ \A e \in Events :
                 /\ Holding(flight', e) = Holding(flight, e) + Holding(bs, e)
                 /\ Holding(bs, e) \in Nat
                 /\ Holding(bs, e) = 0 => sends'[e] = sends[e]
                 /\ (\E i \in DOMAIN bs : In(bs[i].events, e) /\ bs[i].attempt = 0)
                       => sends'[e] = 1
                 /\ (Holding(bs, e) = 1 /\ \A i \in DOMAIN bs : bs[i].attempt # 0)
                       => sends'[e] = sends[e] + 1
<1>1. flight' = flight \o bs /\ flight' \in Seq(Batches)
  BY DEF Send, TypeOK
<1>2. \A e \in Events : Holding(flight', e) = Holding(flight, e) + Holding(bs, e)
  BY <1>1, HoldingConcat DEF TypeOK
<1>3. \A e \in Events :
         /\ IsFiniteSet(At(bs, e)) /\ Cardinality(At(bs, e)) \in Nat
         /\ Cardinality(At(bs, e)) = 0 <=> At(bs, e) = {}
  BY HoldingType, FS_CardinalityType, FS_EmptySet
<1>4. sends' = [e \in Events |->
                   IF At(bs, e) = {} THEN sends[e]
                   ELSE IF \E i \in At(bs, e) : bs[i].attempt = 0 THEN 1
                   ELSE sends[e] + Cardinality(At(bs, e))]
  BY DEF Send
<1>5. sends \in [Events -> Nat]
  BY DEF TypeOK
<1>6. sends' \in [Events -> Nat]
  BY <1>3, <1>4, <1>5
<1>7. \A e \in Events : \A i \in DOMAIN bs : i \in At(bs, e) <=> In(bs[i].events, e)
  BY DEF At
<1>8. \A e \in Events : At(bs, e) \subseteq DOMAIN bs
  BY DEF At
<1> QED
  BY <1>1, <1>2, <1>3, <1>4, <1>5, <1>6, <1>7, <1>8 DEF Holding

(* Sent batches keep the pace: what they hold is not under way, nor left   *)
(* waiting for a retry, and was sent no more often than they say.          *)
LEMMA PacedSend ==
    ASSUME TypeOK, TypeOK', Paced, NEW bs \in Seq(Batches), flight' = flight \o bs,
           timeouts' = timeouts,
           timeouts = 0 =>
               /\ \A j \in DOMAIN retry' : \E k \in DOMAIN retry : retry'[j] = retry[k]
               /\ \A e \in Events :
                     /\ Holding(bs, e) = 0 => sends'[e] = sends[e]
                     /\ Holding(bs, e) # 0 => Holding(flight, e) = 0 /\ Holding(retry', e) = 0
                     /\ \A i \in DOMAIN bs :
                           In(bs[i].events, e) =>
                               bs[i].attempt <= MaxRetries /\ sends'[e] <= bs[i].attempt + 1
    PROVE  Paced'
<1> SUFFICES ASSUME timeouts = 0, NEW e \in Events
             PROVE  /\ sends'[e] <= 1 + MaxRetries
                    /\ \A i \in DOMAIN flight' :
                          In(flight'[i].events, e) =>
                              flight'[i].attempt <= MaxRetries /\ sends'[e] <= flight'[i].attempt + 1
                    /\ \A i \in DOMAIN retry' :
                          In(retry'[i].events, e) =>
                              retry'[i].attempt \in 1..MaxRetries /\ sends'[e] <= retry'[i].attempt
  BY DEF Paced
<1>0. MaxRetries \in Nat /\ sends'[e] \in Nat /\ sends[e] \in Nat
  BY EmitterAssumption DEF TypeOK
<1>1. /\ flight \in Seq(Batches) /\ retry' \in Seq(Batches)
      /\ DOMAIN flight' = 1..(Len(flight) + Len(bs))
      /\ \A i \in 1..(Len(flight) + Len(bs)) :
            flight'[i] = IF i <= Len(flight) THEN flight[i] ELSE bs[i - Len(flight)]
      /\ DOMAIN flight = 1..Len(flight) /\ DOMAIN bs = 1..Len(bs)
      /\ Len(flight) \in Nat /\ Len(bs) \in Nat
  BY ConcatIs DEF TypeOK
<1>2. \A i \in DOMAIN flight' :
          \/ i \in DOMAIN flight /\ flight'[i] = flight[i]
          \/ i - Len(flight) \in DOMAIN bs /\ flight'[i] = bs[i - Len(flight)]
  BY <1>1
<1>3. \A i \in DOMAIN bs : bs[i] \in Batches
  BY <1>1
<1>4. CASE Holding(bs, e) = 0
  <2>1. sends'[e] = sends[e] /\ \A i \in DOMAIN bs : ~In(bs[i].events, e)
    BY <1>4, HoldingNone
  <2> QED
    BY <1>2, <2>1 DEF Paced
<1>5. CASE Holding(bs, e) # 0
  <2>1. PICK i \in DOMAIN bs : In(bs[i].events, e)
    BY <1>5, HoldingNone
  <2>2. \A j \in DOMAIN flight : ~In(flight[j].events, e)
    BY <1>1, <1>5, HoldingNone
  <2>3. \A j \in DOMAIN retry' : ~In(retry'[j].events, e)
    BY <1>1, <1>5, HoldingNone
  <2>4. sends'[e] <= 1 + MaxRetries
    <3>1. bs[i].attempt \in Nat
      BY <1>3 DEF Batches
    <3> QED
      BY <1>0, <2>1, <3>1
  <2> QED
    BY <1>2, <2>2, <2>3, <2>4
<1> QED
  BY <1>4, <1>5

(* First attempts, of events that were emitted just now, or waited in the  *)
(* buffer or the dead letters.                                             *)
LEMMA FirstSend ==
    ASSUME TypeOK, TypeOK', Placed, Paced, NEW bs \in Seq(Batches), Send(bs),
           \A i \in DOMAIN bs : bs[i].attempt = 0, retry' = retry, timeouts' = timeouts,
           \A e \in Events :
               Holding(bs, e) # 0 => e \notin emitted \/ Holding(dead, e) # 0 \/ In(buffer, e)
    PROVE  Paced'
<1>1. flight' = flight \o bs
  BY DEF Send
<1>2. ASSUME timeouts = 0, NEW e \in Events
      PROVE  /\ Holding(bs, e) = 0 => sends'[e] = sends[e]
             /\ Holding(bs, e) # 0 => Holding(flight, e) = 0 /\ Holding(retry', e) = 0
             /\ \A i \in DOMAIN bs :
                   In(bs[i].events, e) =>
                       bs[i].attempt <= MaxRetries /\ sends'[e] <= bs[i].attempt + 1
  <2>1. Holding(bs, e) = 0 => sends'[e] = sends[e]
    BY SendIs
  <2>2. Holding(bs, e) # 0 => Holding(flight, e) = 0 /\ Holding(retry, e) = 0
    <3>1. /\ Where(e) = Holding(flight, e) + Holding(retry, e) + Holding(dead, e)
                         + delivered[e] + One(In(buffer, e)) + One(e \in lost)
          /\ Holding(flight, e) \in Nat /\ Holding(retry, e) \in Nat /\ Holding(dead, e) \in Nat
          /\ delivered[e] \in Nat /\ One(In(buffer, e)) \in {0, 1} /\ One(e \in lost) \in {0, 1}
      BY CopiesIs
    <3>2. Where(e) <= 1 /\ (e \notin emitted => Where(e) = 0)
      BY <1>2 DEF Placed
    <3>3. In(buffer, e) => One(In(buffer, e)) = 1
      BY DEF One
    <3> QED
      BY <3>1, <3>2, <3>3
  <2>3. \A i \in DOMAIN bs : In(bs[i].events, e) => bs[i].attempt = 0 /\ sends'[e] = 1
    BY SendIs
  <2> QED
    BY <2>1, <2>2, <2>3, EmitterAssumption
<1> QED
  BY <1>1, <1>2, PacedSend

(* What flush sends is what it takes from the buffer, and nothing while    *)
(* the emitter is paused.                                                  *)
LEMMA FlushIs ==
    ASSUME TypeOK, NEW buf \in Seq(Events), Once(buf), Flush(buf)
    PROVE  /\ buffer' \in Seq(Events) /\ Once(buffer')
           /\ \E bs \in Seq(Batches) :
                 /\ Send(bs) /\ \A i \in DOMAIN bs : bs[i].attempt = 0
                 /\ \A e \in Events : One(In(buf, e)) = One(In(buffer', e)) + Holding(bs, e)
<1>1. CASE buf = <<>> \/ paused
  <2>1. buffer' = buf /\ flight' = flight /\ sends' = sends
    BY <1>1 DEF Flush
  <2>2. \A e \in Events : At(<<>>, e) = {}
    BY DEF At
  <2>3. Send(<<>>)
    BY <2>1, <2>2 DEF Send, TypeOK
  <2>4. \A e \in Events : One(In(buf, e)) = One(In(buffer', e)) + Holding(<<>>, e)
    BY <2>1, HoldingEmpty DEF One
  <2>5. <<>> \in Seq(Batches) /\ \A i \in DOMAIN <<>> : <<>>[i].attempt = 0
    OBVIOUS
  <2> QED
    BY <2>1, <2>3, <2>4, <2>5
<1>2. CASE ~(buf = <<>> \/ paused)
  <2> DEFINE n == Min({BatchSize, Len(buf)})
             b == Batch(SubSeq(buf, 1, n), 0)
  <2>1. buffer' = SubSeq(buf, n + 1, Len(buf)) /\ Send(<<b>>)
    BY <1>2 DEF Flush
  <2>2. n \in 1..Len(buf)
    <3>1. Len(buf) \in Nat \ {0}
      BY <1>2
    <3> QED
      BY <3>1, TwoMin, EmitterAssumption
  <2> HIDE DEF n
  <2>3. b \in Batches /\ b.events = SubSeq(buf, 1, n) /\ b.attempt = 0
    <3>1. SubSeq(buf, 1, n) \in Seq(Events)
      BY <2>2
    <3> QED
      BY <3>1, BatchIs
  <2> HIDE DEF b
  <2>4. \A e \in Events : One(In(buf, e)) = One(In(buffer', e)) + Holding(<<b>>, e)
    <3> TAKE e \in Events
    <3>1. One(In(buf, e)) = One(In(buffer', e)) + One(In(SubSeq(buf, 1, n), e))
      BY <2>1, <2>2, BufferCut
    <3>2. Holding(<<b>>, e) = One(In(SubSeq(buf, 1, n), e))
      BY <2>3, HoldingSingle
    <3> QED
      BY <3>1, <3>2
  <2>5. buffer' \in Seq(Events) /\ Once(buffer')
    BY <2>1, <2>2, BufferCut
  <2>6. <<b>> \in Seq(Batches) /\ \A i \in DOMAIN <<b>> : <<b>>[i].attempt = 0
    BY <2>3
  <2> QED
    BY <2>1, <2>4, <2>5, <2>6
<1> QED
  BY <1>1, <1>2

(* A flush of the buffer, with or without an event just emitted.           *)
LEMMA FlushKeeps ==
    ASSUME IInv, NEW buf \in Seq(Events), Once(buf), Flush(buf),
           UNCHANGED <<retry, dead, delivered, lost, timeouts>>,
           emitted' \subseteq Events, paused' \in BOOLEAN, stopped' \in BOOLEAN,
           pauses' \in Nat, replays' \in Nat,
           \A e \in Events :
               /\ In(buf, e) <=> In(buffer, e) \/ (e \in emitted' /\ e \notin emitted)
               /\ e \in emitted => e \in emitted'
    PROVE  IInv'
<1> USE DEF IInv
<1>1. buffer' \in Seq(Events) /\ Once(buffer')
  BY FlushIs
<1>2. PICK bs \in Seq(Batches) :
          /\ Send(bs) /\ \A i \in DOMAIN bs : bs[i].attempt = 0
          /\ \A e \in Events : One(In(buf, e)) = One(In(buffer', e)) + Holding(bs, e)
  BY FlushIs
<1>3. TypeOK'
  BY <1>1, <1>2, SendIs DEF TypeOK
<1>4. ASSUME NEW e \in Events
      PROVE  /\ Holding(bs, e) # 0 => e \notin emitted \/ In(buffer, e)
             /\ Where(e)' \in IF e \in emitted' THEN 1..(1 + timeouts') ELSE {0}
  <2>1. Holding(flight', e) = Holding(flight, e) + Holding(bs, e) /\ Holding(bs, e) \in Nat
    BY <1>2, SendIs
  <2>2. One(In(buf, e)) = One(In(buffer', e)) + Holding(bs, e)
    BY <1>2
  <2>3. Holding(bs, e) # 0 => In(buf, e)
    BY <2>1, <2>2 DEF One
  <2>a. /\ Where(e) = Holding(flight, e) + Holding(retry, e) + Holding(dead, e)
                       + delivered[e] + One(In(buffer, e)) + One(e \in lost)
        /\ Holding(flight, e) \in Nat /\ Holding(retry, e) \in Nat /\ Holding(dead, e) \in Nat
        /\ delivered[e] \in Nat /\ One(In(buffer, e)) \in {0, 1} /\ One(e \in lost) \in {0, 1}
    BY CopiesIs
  <2>b. /\ Where(e)' = Holding(flight', e) + Holding(retry, e) + Holding(dead, e)
                        + delivered[e] + One(In(buffer', e)) + One(e \in lost)
        /\ One(In(buffer', e)) \in {0, 1}
    BY <1>3, CopiesIsThen
  <2>4. Where(e)' = Where(e) + One(In(buf, e)) - One(In(buffer, e))
    <3>1. One(In(buf, e)) \in {0, 1}
      BY DEF One
    <3> DEFINE f1 == Holding(flight, e)
               r1 == Holding(retry, e)
               d1 == Holding(dead, e)
               f2 == Holding(flight', e)
               n1 == Holding(bs, e)
               l1 == One(e \in lost)
               b1 == One(In(buffer, e))
               b2 == One(In(buffer', e))
               b3 == One(In(buf, e))
    <3>2. /\ Where(e) = f1 + r1 + d1 + delivered[e] + b1 + l1
          /\ Where(e)' = f2 + r1 + d1 + delivered[e] + b2 + l1
          /\ f2 = f1 + n1 /\ b3 = b2 + n1
          /\ f1 \in Nat /\ r1 \in Nat /\ d1 \in Nat /\ delivered[e] \in Nat /\ n1 \in Nat
          /\ b1 \in Int /\ b2 \in Int /\ b3 \in Int /\ l1 \in Int
      BY <2>1, <2>2, <2>a, <2>b, <3>1
    <3> HIDE DEF f1, r1, d1, f2, n1, l1, b1, b2, b3
    <3>3. Where(e)' = Where(e) + b3 - b1
      BY <3>2
    <3> QED
      BY <3>3 DEF b3, b1
  <2>5. Where(e) \in IF e \in emitted THEN 1..(1 + timeouts) ELSE {0}
    BY DEF Placed
  <2>6. In(buffer, e) => One(In(buffer, e)) = 1 /\ Where(e) > 0
    BY <2>a DEF One
  <2>7. timeouts \in Nat
    BY DEF TypeOK
  <2>8. CASE e \in emitted
    <3>1. One(In(buf, e)) = One(In(buffer, e)) /\ One(In(buffer, e)) \in {0, 1} /\ e \in emitted'
      BY <2>8 DEF One
    <3>2. Where(e)' = Where(e)
      BY <2>4, <2>5, <2>7, <2>8, <3>1
    <3> QED
      BY <2>3, <2>5, <2>8, <3>1, <3>2
  <2>9. CASE e \notin emitted
    <3>1. Where(e) = 0 /\ ~In(buffer, e) /\ One(In(buffer, e)) = 0
      BY <2>5, <2>6, <2>9 DEF One
    <3>2. Where(e)' = One(In(buf, e)) /\ (In(buf, e) <=> e \in emitted')
      BY <2>4, <2>9, <3>1 DEF One
    <3> QED
      BY <2>7, <2>9, <3>2 DEF One
  <2> QED
    BY <2>8, <2>9
<1>5. Placed'
  BY <1>4 DEF Placed
<1>6. Paced'
  BY <1>2, <1>3, <1>4, FirstSend
<1> QED
  BY <1>1, <1>3, <1>5, <1>6
-----------------------------------------------------------------------------
(* Every action keeps the invariant. *)

LEMMA EmitKeeps == ASSUME IInv, NEW e \in Events, Emit(e) PROVE IInv'
<1> DEFINE buf == Append(buffer, e)
<1>1. TypeOK /\ Once(buffer) /\ Placed /\ e \notin emitted /\ emitted' = emitted \cup {e}
      /\ UNCHANGED <<retry, dead, delivered, lost, rest>>
  BY DEF IInv, Emit
<1>2. buf \in Seq(Events) /\ DOMAIN buf = 1..(Len(buffer) + 1) /\ Len(buffer) \in Nat
      /\ DOMAIN buffer = 1..Len(buffer)
      /\ \A i \in 1..(Len(buffer) + 1) : buf[i] = IF i <= Len(buffer) THEN buffer[i] ELSE e
  BY <1>1 DEF TypeOK
<1>3. ~In(buffer, e)
  <2>1. Where(e) = 0
    BY <1>1 DEF Placed
  <2> QED
    BY <1>1, <2>1, CopiesIs DEF One
<1>4. Once(buf)
  BY <1>1, <1>2, <1>3 DEF Once, In
<1>5. \A x \in Events : In(buf, x) <=> In(buffer, x) \/ (x \in emitted' /\ x \notin emitted)
  <2> TAKE x \in Events
  <2>1. In(buffer, x) => In(buf, x)
    BY <1>2 DEF In
  <2>2. In(buf, x) => In(buffer, x) \/ x = e
    BY <1>2 DEF In
  <2>3. In(buf, e)
    BY <1>2 DEF In
  <2> QED
    BY <1>1, <2>1, <2>2, <2>3
<1> HIDE DEF buf
<1>6. emitted' \subseteq Events /\ paused' \in BOOLEAN /\ stopped' \in BOOLEAN
      /\ pauses' \in Nat /\ replays' \in Nat /\ timeouts' = timeouts
      /\ \A x \in Events : x \in emitted => x \in emitted'
  BY <1>1 DEF rest, admin, TypeOK
<1>7. Flush(buf) => IInv'
  BY <1>1, <1>2, <1>4, <1>5, <1>6, FlushKeeps
<1>8. CASE buffer' = buf /\ UNCHANGED <<flight, sends>>
  <2>1. TypeOK'
    BY <1>1, <1>2, <1>6, <1>8 DEF TypeOK, rest, admin
  <2>2. Once(buffer')
    BY <1>4, <1>8
  <2>3. Placed'
    <3> SUFFICES ASSUME NEW x \in Events
                 PROVE  Where(x)' \in IF x \in emitted' THEN 1..(1 + timeouts') ELSE {0}
      BY DEF Placed
    <3>1. Where(x)' = Where(x) + One(In(buf, x)) - One(In(buffer, x))
      BY <1>1, <1>8, <2>1, CopiesIs, CopiesIsThen DEF One
    <3>2. Where(x) \in IF x \in emitted THEN 1..(1 + timeouts) ELSE {0}
      BY <1>1 DEF Placed
    <3>3. CASE x = e
      BY <1>1, <1>3, <1>5, <1>6, <3>1, <3>2, <3>3 DEF One, TypeOK
    <3>4. CASE x # e
      <4>1. Where(x)' = Where(x) /\ (x \in emitted' <=> x \in emitted)
        BY <1>1, <1>5, <3>1, <3>2, <3>4 DEF One, TypeOK
      <4> QED
        BY <1>6, <3>2, <4>1
    <3> QED
      BY <3>3, <3>4
  <2>4. Paced'
    BY <1>1, <1>6, <1>8 DEF IInv, Paced
  <2> QED
    BY <2>1, <2>2, <2>3, <2>4 DEF IInv
<1> QED
  BY <1>7, <1>8 DEF Emit, buf

LEMMA FlushTimerKeeps == ASSUME IInv, FlushTimer PROVE IInv'
<1>1. /\ TypeOK /\ Once(buffer) /\ Flush(buffer) /\ emitted' = emitted
      /\ UNCHANGED <<retry, dead, delivered, lost, rest>>
  BY DEF IInv, FlushTimer
<1>2. /\ buffer \in Seq(Events) /\ emitted' \subseteq Events /\ timeouts' = timeouts
      /\ paused' \in BOOLEAN /\ stopped' \in BOOLEAN /\ pauses' \in Nat /\ replays' \in Nat
  BY <1>1 DEF rest, admin, TypeOK
<1> QED
  BY <1>1, <1>2, FlushKeeps

LEMMA DestroyKeeps == ASSUME IInv, Destroy PROVE IInv'
<1>1. /\ TypeOK /\ Once(buffer) /\ Flush(buffer) /\ emitted' = emitted /\ stopped' = TRUE
      /\ UNCHANGED <<timeouts, retry, dead, paused, delivered, lost, pauses, replays>>
  BY DEF IInv, Destroy
<1>2. /\ buffer \in Seq(Events) /\ emitted' \subseteq Events
      /\ paused' \in BOOLEAN /\ stopped' \in BOOLEAN /\ pauses' \in Nat /\ replays' \in Nat
  BY <1>1 DEF TypeOK
<1> QED
  BY <1>1, <1>2, FlushKeeps

LEMMA PauseKeeps == ASSUME IInv, Pause PROVE IInv'
<1>1. TypeOK'
  BY DEF IInv, Pause, TypeOK
<1>2. Placed'
  BY DEF IInv, Pause, Placed, Where, Copies
<1>3. Paced' /\ Once(buffer')
  BY DEF IInv, Pause, Paced
<1> QED
  BY <1>1, <1>2, <1>3 DEF IInv

(* A resume sends the whole buffer.                                        *)
LEMMA ResumeKeeps == ASSUME IInv, Resume PROVE IInv'
<1> DEFINE bs == Chunks(buffer)
<1>1. /\ TypeOK /\ Once(buffer) /\ Placed /\ Paced /\ buffer' = <<>> /\ paused' = FALSE /\ Send(bs)
      /\ UNCHANGED <<timeouts, retry, dead, stopped, emitted, delivered, lost, pauses, replays>>
  BY DEF IInv, Resume
<1>2. /\ bs \in Seq(Batches) /\ \A i \in DOMAIN bs : bs[i].attempt = 0
      /\ \A e \in Events : Holding(bs, e) = One(In(buffer, e))
  <2>1. buffer \in Seq(Events)
    BY <1>1 DEF TypeOK
  <2>2. \A e : /\ Chunks(buffer) \in Seq(Batches)
               /\ \A i \in DOMAIN Chunks(buffer) : Chunks(buffer)[i].attempt = 0
               /\ Holding(Chunks(buffer), e) = One(In(buffer, e))
    BY <1>1, <2>1, ChunksHold
  <2> QED
    BY <2>2
<1> HIDE DEF bs
<1>3. TypeOK' /\ Once(buffer')
  <2>1. Once(<<>>)
    BY DEF Once
  <2>2. flight' \in Seq(Batches) /\ sends' \in [Events -> Nat] /\ <<>> \in Seq(Events)
    BY <1>1, <1>2, SendIs
  <2>3. TypeOK'
    BY <1>1, <2>2 DEF TypeOK
  <2> QED
    BY <1>1, <2>1, <2>3
<1>4. ASSUME NEW e \in Events PROVE Where(e)' = Where(e)
  <2>1. Holding(flight', e) = Holding(flight, e) + Holding(bs, e)
    BY <1>1, <1>2, SendIs
  <2>2. One(In(buffer', e)) = 0
    BY <1>1 DEF One, In
  <2>3. /\ Where(e) = Holding(flight, e) + Holding(retry, e) + Holding(dead, e)
                       + delivered[e] + One(In(buffer, e)) + One(e \in lost)
        /\ Holding(flight, e) \in Nat /\ Holding(retry, e) \in Nat /\ Holding(dead, e) \in Nat
        /\ delivered[e] \in Nat /\ One(In(buffer, e)) \in {0, 1} /\ One(e \in lost) \in {0, 1}
    BY <1>1, CopiesIs
  <2>4. Where(e)' = Holding(flight', e) + Holding(retry, e) + Holding(dead, e)
                     + delivered[e] + One(In(buffer', e)) + One(e \in lost)
    BY <1>1, <1>3, CopiesIsThen
  <2> QED
    BY <1>2, <2>1, <2>2, <2>3, <2>4
<1>5. Placed'
  BY <1>1, <1>4 DEF Placed
<1>6. \A e \in Events : Holding(bs, e) # 0 => In(buffer, e)
  BY <1>2 DEF One
<1>7. Paced'
  BY <1>1, <1>2, <1>3, <1>6, FirstSend
<1> QED
  BY <1>3, <1>5, <1>7 DEF IInv

(* A replay sends the chosen dead letters and keeps the others.            *)
LEMMA ReplayKeeps == ASSUME IInv, Replay PROVE IInv'
<1>1. /\ TypeOK /\ Once(buffer) /\ Placed /\ Paced /\ replays' = replays + 1
      /\ UNCHANGED <<timeouts, buffer, retry, paused, stopped, emitted, delivered, lost, pauses>>
  BY DEF IInv, Replay
<1>2. PICK chosen \in SUBSET DOMAIN dead :
        \E again \in Listings(chosen), kept \in Listings(DOMAIN dead \ chosen) :
            dead' = Kept(kept) /\ Send(Again(again))
  BY DEF Replay, Kept, Again
<1>3. PICK again \in Listings(chosen), kept \in Listings(DOMAIN dead \ chosen) :
          dead' = Kept(kept) /\ Send(Again(again))
  BY <1>2
<1> DEFINE bs == Again(again)
<1>4. \A e : /\ dead' \in Seq(Batches) /\ bs \in Seq(Batches)
             /\ Holding(dead, e) = Holding(dead', e) + Holding(bs, e)
             /\ \A n \in DOMAIN bs : bs[n].attempt = 0
  <2>1. dead \in Seq(Batches)
    BY <1>1 DEF TypeOK
  <2> QED
    BY <1>3, <2>1, HoldingReplayed
<1>5. Send(bs) /\ bs \in Seq(Batches) /\ dead' \in Seq(Batches)
      /\ \A n \in DOMAIN bs : bs[n].attempt = 0
  BY <1>3, <1>4
<1> HIDE DEF bs
<1>6. TypeOK' /\ Once(buffer')
  BY <1>1, <1>5, SendIs DEF TypeOK
<1>7. ASSUME NEW e \in Events
      PROVE  Where(e)' = Where(e) /\ (Holding(bs, e) # 0 => Holding(dead, e) # 0)
  <2>1. Holding(flight', e) = Holding(flight, e) + Holding(bs, e) /\ Holding(bs, e) \in Nat
    BY <1>1, <1>5, SendIs
  <2>2. Holding(dead, e) = Holding(dead', e) + Holding(bs, e) /\ Holding(dead', e) \in Nat
    BY <1>4, HoldingType
  <2>3. /\ Where(e) = Holding(flight, e) + Holding(retry, e) + Holding(dead, e)
                       + delivered[e] + One(In(buffer, e)) + One(e \in lost)
        /\ Holding(flight, e) \in Nat /\ Holding(retry, e) \in Nat /\ Holding(dead, e) \in Nat
        /\ delivered[e] \in Nat /\ One(In(buffer, e)) \in {0, 1} /\ One(e \in lost) \in {0, 1}
    BY <1>1, CopiesIs
  <2>4. Where(e)' = Holding(flight', e) + Holding(retry, e) + Holding(dead', e)
                     + delivered[e] + One(In(buffer, e)) + One(e \in lost)
    BY <1>1, <1>6, CopiesIsThen
  <2> QED
    BY <2>1, <2>2, <2>3, <2>4
<1>8. Placed'
  BY <1>1, <1>7 DEF Placed
<1>9. Paced'
  BY <1>1, <1>5, <1>6, <1>7, FirstSend
<1> QED
  BY <1>6, <1>8, <1>9 DEF IInv

(* A retry is one more attempt for what it holds.                          *)
LEMMA ProcessRetryKeeps == ASSUME IInv, NEW i \in DOMAIN retry, ProcessRetry(i) PROVE IInv'
<1> DEFINE b == retry[i]
           bs == <<b>>
<1>1. /\ TypeOK /\ Once(buffer) /\ Placed /\ Paced /\ retry' = RemoveAt(retry, i) /\ Send(bs)
      /\ UNCHANGED <<buffer, dead, paused, stopped, emitted, delivered, lost, pauses, replays, timeouts>>
  BY DEF IInv, ProcessRetry, rest, admin
<1>2. retry \in Seq(Batches) /\ b \in Batches
  BY <1>1 DEF TypeOK
<1>3. \A e : /\ retry' \in Seq(Batches)
             /\ Holding(retry, e) = Holding(retry', e) + One(In(b.events, e))
             /\ Holding(retry', e) \in Nat
  BY <1>1, <1>2, HoldingRemoved
<1> HIDE DEF b
<1>4. bs \in Seq(Batches) /\ DOMAIN bs = {1} /\ bs[1] = b
      /\ \A e : Holding(bs, e) = One(In(b.events, e))
  BY <1>2, HoldingSingle
<1> HIDE DEF bs
<1>5. TypeOK' /\ Once(buffer')
  BY <1>1, <1>3, <1>4, SendIs DEF TypeOK
<1>6. ASSUME NEW e \in Events PROVE Where(e)' = Where(e)
  <2>1. Holding(flight', e) = Holding(flight, e) + Holding(bs, e) /\ Holding(bs, e) \in Nat
    BY <1>1, <1>4, SendIs
  <2>2. Holding(retry, e) = Holding(retry', e) + Holding(bs, e) /\ Holding(retry', e) \in Nat
    BY <1>3, <1>4
  <2>3. /\ Where(e) = Holding(flight, e) + Holding(retry, e) + Holding(dead, e)
                       + delivered[e] + One(In(buffer, e)) + One(e \in lost)
        /\ Holding(flight, e) \in Nat /\ Holding(retry, e) \in Nat /\ Holding(dead, e) \in Nat
        /\ delivered[e] \in Nat /\ One(In(buffer, e)) \in {0, 1} /\ One(e \in lost) \in {0, 1}
    BY <1>1, CopiesIs
  <2>4. Where(e)' = Holding(flight', e) + Holding(retry', e) + Holding(dead, e)
                     + delivered[e] + One(In(buffer, e)) + One(e \in lost)
    BY <1>1, <1>5, CopiesIsThen
  <2> QED
    BY <2>1, <2>2, <2>3, <2>4
<1>7. Placed'
  BY <1>1, <1>6 DEF Placed
<1>8. \A j \in DOMAIN retry' : \E k \in DOMAIN retry : retry'[j] = retry[k]
  BY <1>1, <1>2, RemovedElement
<1>9. ASSUME timeouts = 0, NEW e \in Events
      PROVE  /\ Holding(bs, e) = 0 => sends'[e] = sends[e]
             /\ Holding(bs, e) # 0 => Holding(flight, e) = 0 /\ Holding(retry', e) = 0
             /\ \A j \in DOMAIN bs :
                   In(bs[j].events, e) =>
                       bs[j].attempt <= MaxRetries /\ sends'[e] <= bs[j].attempt + 1
  <2>1. Holding(bs, e) = 0 => sends'[e] = sends[e]
    BY <1>1, <1>4, SendIs
  <2>2. Holding(bs, e) # 0 => Holding(flight, e) = 0 /\ Holding(retry', e) = 0
    <3>1. Holding(flight, e) + Holding(retry, e) + Holding(dead, e) + One(In(buffer, e)) <= 1
      BY <1>1, <1>9, Alone
    <3>2. /\ Holding(flight, e) \in Nat /\ Holding(retry, e) \in Nat /\ Holding(dead, e) \in Nat
          /\ One(In(buffer, e)) \in {0, 1}
      BY <1>1, CopiesIs
    <3>3. Holding(bs, e) \in {0, 1}
      BY <1>4 DEF One
    <3>4. Holding(retry, e) = Holding(retry', e) + Holding(bs, e) /\ Holding(retry', e) \in Nat
      BY <1>3, <1>4
    <3> QED
      BY <3>1, <3>2, <3>3, <3>4
  <2>3. In(b.events, e) => b.attempt \in 1..MaxRetries /\ sends[e] <= b.attempt
    BY <1>1, <1>9 DEF Paced, b
  <2>4. In(b.events, e) => sends'[e] = sends[e] + 1
    <3> HAVE In(b.events, e)
    <3>1. Holding(bs, e) = 1
      BY <1>4 DEF One
    <3>2. \A j \in DOMAIN bs : bs[j].attempt # 0
      BY <1>4, <2>3, EmitterAssumption
    <3> QED
      BY <1>1, <1>4, <3>1, <3>2, SendIs
  <2>5. In(b.events, e) => b.attempt <= MaxRetries /\ sends'[e] <= b.attempt + 1
    <3>1. sends[e] \in Nat
      BY <1>1 DEF TypeOK
    <3> QED
      BY <2>3, <2>4, <3>1, EmitterAssumption
  <2> QED
    BY <1>4, <2>1, <2>2, <2>5
<1>10. Paced'
  <2>1. flight' = flight \o bs /\ timeouts' = timeouts
    BY <1>1 DEF Send
  <2> QED
    BY <1>1, <1>4, <1>5, <1>8, <1>9, <2>1, PacedSend
<1> QED
  BY <1>5, <1>7, <1>10 DEF IInv

(* A batch that failed is kept for a retry or among the dead letters; the  *)
(* cap on these gives up events, which lost remembers.                     *)
LEMMA ScheduleRetryIs ==
    ASSUME TypeOK, NEW n \in {1, 2}, NEW b \in Batches, ScheduleRetry(n, b)
    PROVE  /\ retry' \in Seq(Batches) /\ dead' \in Seq(Batches) /\ lost' \subseteq Events
           /\ \A e \in Events :
                 LET q == Holding(retry, e) + Holding(dead, e) + One(e \in lost)
                     m == n * One(In(b.events, e))
                     then == Holding(retry', e) + Holding(dead', e) + One(e \in lost')
                 IN  then <= q + m /\ (q + m > 0 => then > 0)
           /\ \/ retry' = retry
              \/ /\ b.attempt < MaxRetries
                 /\ retry' = retry \o Times(n, Batch(b.events, b.attempt + 1))
<1> DEFINE again == Batch(b.events, b.attempt + 1)
<1>1. /\ retry \in Seq(Batches) /\ dead \in Seq(Batches) /\ lost \subseteq Events
      /\ b.events \in Seq(Events) /\ b.attempt \in Nat /\ MaxRetries \in Nat
  BY EmitterAssumption DEF TypeOK, Batches
<1>2. again \in Batches /\ again.events = b.events
  BY <1>1, BatchIs
<1>3. \A e \in Events : Holding(retry, e) \in Nat /\ Holding(dead, e) \in Nat
                        /\ One(e \in lost) \in {0, 1} /\ One(In(b.events, e)) \in {0, 1}
  BY <1>1, HoldingType DEF One
<1>4. CASE b.attempt < MaxRetries
  <2>1. retry' = retry \o Times(n, again) /\ dead' = dead /\ lost' = lost
    BY <1>1, <1>4 DEF ScheduleRetry
  <2> HIDE DEF again
  <2>2. Times(n, again) \in Seq(Batches)
        /\ \A e : Holding(Times(n, again), e) = n * One(In(b.events, e))
    BY <1>2, HoldingTimes
  <2>3. retry' \in Seq(Batches)
        /\ \A e : Holding(retry', e) = Holding(retry, e) + Holding(Times(n, again), e)
    BY <1>1, <2>1, <2>2, ConcatProperties, HoldingConcat
  <2>4. \A e \in Events : Holding(retry', e) + Holding(dead', e) + One(e \in lost')
            = Holding(retry, e) + Holding(dead, e) + One(e \in lost) + n * One(In(b.events, e))
    BY <1>3, <2>1, <2>2, <2>3
  <2>5. \A e \in Events : n * One(In(b.events, e)) \in Nat
    BY <1>3
  <2>6. ASSUME NEW e \in Events
        PROVE  LET q == Holding(retry, e) + Holding(dead, e) + One(e \in lost)
                   m == n * One(In(b.events, e))
                   then == Holding(retry', e) + Holding(dead', e) + One(e \in lost')
               IN  then <= q + m /\ (q + m > 0 => then > 0)
    <3> DEFINE q1 == Holding(retry, e) + Holding(dead, e) + One(e \in lost)
               m1 == n * One(In(b.events, e))
               q2 == Holding(retry', e) + Holding(dead', e) + One(e \in lost')
    <3>1. q1 \in Nat /\ m1 \in Nat /\ q2 = q1 + m1
      BY <1>3, <2>4, <2>5
    <3> HIDE DEF q1, m1, q2
    <3>2. q2 <= q1 + m1 /\ (q1 + m1 > 0 => q2 > 0)
      BY <3>1
    <3> QED
      BY <3>2 DEF q1, m1, q2
  <2>7. retry' \in Seq(Batches) /\ dead' \in Seq(Batches) /\ lost' \subseteq Events
    BY <1>1, <2>1, <2>3
  <2> QED
    BY <1>4, <2>1, <2>6, <2>7 DEF again
<1>5. CASE b.attempt >= MaxRetries
  <2> DEFINE d == dead \o Times(n, b)
             over == Max({0, Len(d) - MaxDeadLetters})
             front == SubSeq(d, 1, over)
  <2>1. /\ retry' = retry /\ dead' = SubSeq(d, over + 1, Len(d))
        /\ lost' = lost \cup UNION {ToSet(d[i].events) : i \in 1..over}
    BY <1>5 DEF ScheduleRetry, AddDeadLetter
  <2>2. Times(n, b) \in Seq(Batches)
        /\ \A e : Holding(Times(n, b), e) = n * One(In(b.events, e))
    BY HoldingTimes
  <2>3. d \in Seq(Batches)
        /\ \A e : Holding(d, e) = Holding(dead, e) + Holding(Times(n, b), e)
    BY <1>1, <2>2, ConcatProperties, HoldingConcat
  <2> HIDE DEF d
  <2>4. over \in 0..Len(d) /\ Len(d) \in Nat
    <3>1. Len(d) \in Nat /\ MaxDeadLetters \in Nat
      BY <2>3, EmitterAssumption
    <3> QED
      BY <3>1, TwoMax
  <2> HIDE DEF over
  <2>5. \A e : /\ front \in Seq(Batches) /\ dead' \in Seq(Batches)
               /\ Holding(d, e) = Holding(front, e) + Holding(dead', e)
    BY <2>1, <2>3, <2>4, HoldingCut
  <2>6. DOMAIN front = 1..over /\ \A i \in 1..over : front[i] = d[i] /\ d[i] \in Batches
    BY <2>3, <2>4
  <2> HIDE DEF front
  <2>7. lost' \subseteq Events
    <3>1. \A i \in 1..over : ToSet(d[i].events) \subseteq Events
      <4> TAKE i \in 1..over
      <4>1. d[i].events \in Seq(Events)
        BY <2>6 DEF Batches
      <4> QED
        BY <4>1 DEF ToSet
    <3> QED
      BY <1>1, <2>1, <3>1
  <2>8. ASSUME NEW e \in Events
        PROVE  LET q == Holding(retry, e) + Holding(dead, e) + One(e \in lost)
                   m == n * One(In(b.events, e))
                   then == Holding(retry', e) + Holding(dead', e) + One(e \in lost')
               IN  then <= q + m /\ (q + m > 0 => then > 0)
    <3>1. e \in lost' <=> e \in lost \/ \E i \in 1..over : In(d[i].events, e)
      BY <2>1 DEF ToSet, In
    <3>2. Holding(front, e) = 0 <=> \A i \in 1..over : ~In(d[i].events, e)
      BY <2>5, <2>6, HoldingNone
    <3>3. Holding(front, e) \in Nat /\ Holding(dead', e) \in Nat
      BY <2>5, HoldingType
    <3>4. One(e \in lost') = IF e \in lost \/ Holding(front, e) # 0 THEN 1 ELSE 0
      BY <3>1, <3>2 DEF One
    <3>5. One(e \in lost) = IF e \in lost THEN 1 ELSE 0
      BY DEF One
    <3>6. Holding(front, e) + Holding(dead', e) = Holding(dead, e) + n * One(In(b.events, e))
      BY <2>2, <2>3, <2>5
    <3>7. n * One(In(b.events, e)) \in Nat
      BY <1>3
    <3> DEFINE r1 == Holding(retry, e)
               d1 == Holding(dead, e)
               d2 == Holding(dead', e)
               f1 == Holding(front, e)
               m1 == n * One(In(b.events, e))
               l1 == One(e \in lost)
               l2 == One(e \in lost')
    <3>8. /\ r1 \in Nat /\ d1 \in Nat /\ d2 \in Nat /\ f1 \in Nat /\ m1 \in Nat
          /\ l2 = (IF e \in lost \/ f1 # 0 THEN 1 ELSE 0) /\ l1 = (IF e \in lost THEN 1 ELSE 0)
          /\ f1 + d2 = d1 + m1
      BY <1>3, <3>3, <3>4, <3>5, <3>6, <3>7
    <3>9. Holding(retry', e) = r1
      BY <2>1
    <3> HIDE DEF r1, d1, d2, f1, m1, l1, l2
    <3>10. r1 + d2 + l2 <= r1 + d1 + l1 + m1 /\ (r1 + d1 + l1 + m1 > 0 => r1 + d2 + l2 > 0)
      BY <3>8
    <3> QED
      BY <3>9, <3>10 DEF r1, d1, d2, m1, l1, l2
  <2> QED
    BY <1>1, <2>1, <2>5, <2>7, <2>8
<1> QED
  BY <1>1, <1>4, <1>5

(* A request that failed, once or, with its time-out, twice.               *)
LEMMA FailedKeeps ==
    ASSUME IInv, NEW i \in DOMAIN flight, NEW n \in {1, 2}, flight' = RemoveAt(flight, i),
           ScheduleRetry(n, flight[i]), timeouts' = timeouts + n - 1,
           UNCHANGED <<buffer, emitted, delivered, sends, admin>>
    PROVE  IInv'
<1> DEFINE b == flight[i]
<1>1. TypeOK /\ Once(buffer) /\ Placed /\ Paced /\ flight \in Seq(Batches) /\ b \in Batches
      /\ b.attempt \in Nat /\ b.events \in Seq(Events) /\ timeouts \in Nat
  <2>1. TypeOK /\ Once(buffer) /\ Placed /\ Paced
    BY DEF IInv
  <2>2. flight \in Seq(Batches) /\ timeouts \in Nat
    BY <2>1 DEF TypeOK
  <2>3. b \in Batches
    BY <2>2
  <2> QED
    BY <2>1, <2>2, <2>3 DEF Batches
<1>2. \A e : /\ flight' \in Seq(Batches)
             /\ Holding(flight, e) = Holding(flight', e) + One(In(b.events, e))
             /\ Holding(flight', e) \in Nat
  BY <1>1, HoldingRemoved
<1>3. ScheduleRetry(n, b)
  OBVIOUS
<1>4. \A j \in DOMAIN flight' : \E k \in DOMAIN flight : flight'[j] = flight[k]
  BY <1>1, RemovedElement
<1>5. ASSUME timeouts = 0, NEW e \in Events, In(b.events, e)
      PROVE  sends[e] <= b.attempt + 1
  BY <1>1, <1>5 DEF Paced
<1> HIDE DEF b
<1>6. /\ retry' \in Seq(Batches) /\ dead' \in Seq(Batches) /\ lost' \subseteq Events
      /\ \/ retry' = retry
         \/ /\ b.attempt < MaxRetries
            /\ retry' = retry \o Times(n, Batch(b.events, b.attempt + 1))
  BY <1>1, <1>3, ScheduleRetryIs
<1>7. TypeOK' /\ Once(buffer')
  <2>1. flight' \in Seq(Batches)
    BY <1>2
  <2>2. timeouts' \in Nat /\ buffer' = buffer
    BY <1>1
  <2>3. TypeOK'
    BY <1>1, <1>6, <2>1, <2>2 DEF TypeOK, admin
  <2> QED
    BY <1>1, <2>2, <2>3
<1>8. ASSUME NEW e \in Events
      PROVE  /\ Where(e) = 0 => Where(e)' = 0
             /\ Where(e) > 0 => Where(e)' \in 1..(Where(e) + timeouts' - timeouts)
  <2> DEFINE q == Holding(retry, e) + Holding(dead, e) + One(e \in lost)
             m == n * One(In(b.events, e))
             then == Holding(retry', e) + Holding(dead', e) + One(e \in lost')
             f == Holding(flight', e)
             o == One(In(b.events, e))
             x == delivered[e] + One(In(buffer, e))
  <2>1. then <= q + m /\ (q + m > 0 => then > 0)
    BY <1>1, <1>3, ScheduleRetryIs
  <2>2. /\ Where(e) = Holding(flight, e) + Holding(retry, e) + Holding(dead, e)
                       + delivered[e] + One(In(buffer, e)) + One(e \in lost)
        /\ Holding(flight, e) \in Nat /\ Holding(retry, e) \in Nat /\ Holding(dead, e) \in Nat
        /\ delivered[e] \in Nat /\ One(In(buffer, e)) \in {0, 1} /\ One(e \in lost) \in {0, 1}
    BY <1>1, CopiesIs
  <2>3. /\ Where(e)' = Holding(flight', e) + Holding(retry', e) + Holding(dead', e)
                        + delivered[e] + One(In(buffer, e)) + One(e \in lost')
        /\ Holding(retry', e) \in Nat /\ Holding(dead', e) \in Nat /\ One(e \in lost') \in {0, 1}
    BY <1>7, CopiesIsThen
  <2>4. Holding(flight, e) = f + o /\ f \in Nat
    BY <1>2
  <2>5. o \in {0, 1}
    BY DEF One
  <2>6. /\ Where(e) = f + o + q + x /\ Where(e)' = f + then + x
        /\ q \in Nat /\ then \in Nat /\ x \in Nat /\ f \in Nat
    BY <2>2, <2>3, <2>4, <2>5
  <2>7. m = n * o
    OBVIOUS
  <2> HIDE DEF q, m, then, f, o, x
  <2>8. CASE n = 1
    BY <1>1, <2>1, <2>5, <2>6, <2>7, <2>8
  <2>9. CASE n = 2
    BY <1>1, <2>1, <2>5, <2>6, <2>7, <2>9
  <2> QED
    BY <2>8, <2>9
<1>9. Placed'
  <2>1. emitted' = emitted /\ timeouts' >= timeouts
    BY <1>1
  <2> QED
    BY <1>1, <1>7, <1>8, <2>1, PlacedKept
<1>10. Paced'
  <2> SUFFICES ASSUME timeouts' = 0, NEW e \in Events
               PROVE  /\ sends'[e] <= 1 + MaxRetries
                      /\ \A j \in DOMAIN flight' :
                            In(flight'[j].events, e) =>
                                flight'[j].attempt <= MaxRetries /\ sends'[e] <= flight'[j].attempt + 1
                      /\ \A j \in DOMAIN retry' :
                            In(retry'[j].events, e) =>
                                retry'[j].attempt \in 1..MaxRetries /\ sends'[e] <= retry'[j].attempt
    BY DEF Paced
  <2>1. timeouts = 0 /\ n = 1 /\ sends' = sends
    BY <1>1
  <2>2. /\ sends[e] <= 1 + MaxRetries
        /\ \A j \in DOMAIN flight :
              In(flight[j].events, e) =>
                  flight[j].attempt <= MaxRetries /\ sends[e] <= flight[j].attempt + 1
        /\ \A j \in DOMAIN retry :
              In(retry[j].events, e) =>
                  retry[j].attempt \in 1..MaxRetries /\ sends[e] <= retry[j].attempt
    BY <1>1, <2>1 DEF Paced
  <2>3. ASSUME NEW j \in DOMAIN retry', In(retry'[j].events, e)
        PROVE  retry'[j].attempt \in 1..MaxRetries /\ sends[e] <= retry'[j].attempt
    <3> DEFINE again == Batch(b.events, b.attempt + 1)
    <3>1. again \in Batches /\ again.events = b.events /\ again.attempt = b.attempt + 1
      BY <1>1, BatchIs
    <3>2. CASE retry' = retry
      BY <2>2, <2>3, <3>2
    <3>3. CASE b.attempt < MaxRetries /\ retry' = retry \o Times(n, again)
      <4> HIDE DEF again
      <4>1. retry' = retry \o <<again>> /\ <<again>> \in Seq(Batches)
        BY <2>1, <3>1, <3>3, TimesIs
      <4>2. \/ j \in DOMAIN retry /\ retry'[j] = retry[j]
            \/ retry'[j] = again
        <5>1. retry \in Seq(Batches)
          BY <1>1 DEF TypeOK
        <5>2. /\ DOMAIN retry' = 1..(Len(retry) + Len(<<again>>))
              /\ \A k \in 1..(Len(retry) + Len(<<again>>)) :
                     retry'[k] = IF k <= Len(retry) THEN retry[k] ELSE <<again>>[k - Len(retry)]
          BY <4>1, <5>1, ConcatIs
        <5>3. DOMAIN retry = 1..Len(retry) /\ Len(retry) \in Nat
          BY <5>1
        <5> QED
          BY <2>3, <5>2, <5>3
      <4>3. CASE retry'[j] = again
        <5>1. In(b.events, e)
          BY <2>3, <3>1, <4>3
        <5>2. sends[e] <= b.attempt + 1
          BY <1>5, <2>1, <5>1
        <5> QED
          BY <1>1, <3>1, <3>3, <4>3, <5>2, EmitterAssumption
      <4> QED
        BY <2>2, <2>3, <4>2, <4>3
    <3> QED
      BY <1>6, <3>2, <3>3
  <2> QED
    BY <1>4, <2>1, <2>2, <2>3
<1> QED
  BY <1>7, <1>9, <1>10 DEF IInv

LEMMA RefusedKeeps == ASSUME IInv, NEW i \in DOMAIN flight, Refused(i) PROVE IInv'
<1>1. timeouts \in Nat
  BY DEF IInv, TypeOK
<1>2. /\ flight' = RemoveAt(flight, i) /\ ScheduleRetry(1, flight[i]) /\ timeouts' = timeouts + 1 - 1
      /\ UNCHANGED <<buffer, emitted, delivered, sends, admin>>
  BY <1>1 DEF Refused, rest
<1> QED
  BY <1>2, FailedKeeps

LEMMA TimedOutKeeps == ASSUME IInv, NEW i \in DOMAIN flight, TimedOut(i) PROVE IInv'
<1>1. timeouts \in Nat
  BY DEF IInv, TypeOK
<1>2. /\ flight' = RemoveAt(flight, i) /\ ScheduleRetry(2, flight[i]) /\ timeouts' = timeouts + 2 - 1
      /\ UNCHANGED <<buffer, emitted, delivered, sends, admin>>
  BY <1>1 DEF TimedOut
<1> QED
  BY <1>2, FailedKeeps

LEMMA AcceptedKeeps == ASSUME IInv, NEW i \in DOMAIN flight, Accepted(i) PROVE IInv'
<1> DEFINE b == flight[i]
<1>1. /\ TypeOK /\ Once(buffer) /\ Placed /\ Paced /\ flight \in Seq(Batches)
      /\ flight' = RemoveAt(flight, i)
      /\ delivered' = [e \in Events |-> delivered[e] + IF In(b.events, e) THEN 1 ELSE 0]
      /\ UNCHANGED <<buffer, retry, dead, emitted, sends, lost, rest>>
  BY DEF IInv, TypeOK, Accepted
<1>2. \A e : /\ flight' \in Seq(Batches)
             /\ Holding(flight, e) = Holding(flight', e) + One(In(b.events, e))
             /\ Holding(flight', e) \in Nat
  BY <1>1, HoldingRemoved
<1>3. \A j \in DOMAIN flight' : \E k \in DOMAIN flight : flight'[j] = flight[k]
  BY <1>1, RemovedElement
<1> HIDE DEF b
<1>4. \A e \in Events : delivered'[e] = delivered[e] + One(In(b.events, e))
  BY <1>1 DEF One
<1>5. TypeOK' /\ Once(buffer')
  <2>1. delivered' \in [Events -> Nat]
    BY <1>1 DEF TypeOK
  <2> QED
    BY <1>1, <1>2, <2>1 DEF TypeOK, rest, admin
<1>6. ASSUME NEW e \in Events PROVE Where(e)' = Where(e)
  <2>1. /\ Where(e) = Holding(flight, e) + Holding(retry, e) + Holding(dead, e)
                       + delivered[e] + One(In(buffer, e)) + One(e \in lost)
        /\ Holding(flight, e) \in Nat /\ Holding(retry, e) \in Nat /\ Holding(dead, e) \in Nat
        /\ delivered[e] \in Nat /\ One(In(buffer, e)) \in {0, 1} /\ One(e \in lost) \in {0, 1}
    BY <1>1, CopiesIs
  <2>2. Where(e)' = Holding(flight', e) + Holding(retry, e) + Holding(dead, e)
                     + delivered'[e] + One(In(buffer, e)) + One(e \in lost)
    BY <1>1, <1>5, CopiesIsThen
  <2>3. One(In(b.events, e)) \in {0, 1}
    BY DEF One
  <2> QED
    BY <1>2, <1>4, <2>1, <2>2, <2>3
<1>7. Placed'
  BY <1>1, <1>6 DEF Placed, rest
<1>8. Paced'
  BY <1>1, <1>3 DEF Paced, rest
<1> QED
  BY <1>5, <1>7, <1>8 DEF IInv

LEMMA ClearDeadLettersKeeps == ASSUME IInv, ClearDeadLetters PROVE IInv'
<1>1. /\ TypeOK /\ Once(buffer) /\ Placed /\ Paced /\ dead' = <<>>
      /\ lost' = lost \cup UNION {ToSet(dead[i].events) : i \in DOMAIN dead}
      /\ UNCHANGED <<buffer, flight, retry, emitted, delivered, sends, rest>>
  BY DEF IInv, ClearDeadLetters
<1>2. dead \in Seq(Batches) /\ \A i \in DOMAIN dead : dead[i] \in Batches
  BY <1>1 DEF TypeOK
<1>3. TypeOK' /\ Once(buffer')
  <2>1. \A i \in DOMAIN dead : ToSet(dead[i].events) \subseteq Events
    <3> TAKE i \in DOMAIN dead
    <3>1. dead[i].events \in Seq(Events)
      BY <1>2 DEF Batches
    <3> QED
      BY <3>1 DEF ToSet
  <2>2. lost' \subseteq Events
    BY <1>1, <2>1 DEF TypeOK
  <2> QED
    BY <1>1, <2>2 DEF TypeOK, rest, admin
<1>4. ASSUME NEW e \in Events
      PROVE  /\ Where(e) = 0 => Where(e)' = 0
             /\ Where(e) > 0 => Where(e)' \in 1..(Where(e) + timeouts' - timeouts)
  <2>1. e \in lost' <=> e \in lost \/ \E i \in DOMAIN dead : In(dead[i].events, e)
    BY <1>1 DEF ToSet, In
  <2>2. Holding(dead, e) = 0 <=> \A i \in DOMAIN dead : ~In(dead[i].events, e)
    BY <1>2, HoldingNone
  <2>3. One(e \in lost') = IF e \in lost \/ Holding(dead, e) # 0 THEN 1 ELSE 0
    BY <2>1, <2>2 DEF One
  <2>4. One(e \in lost) = IF e \in lost THEN 1 ELSE 0
    BY DEF One
  <2>5. /\ Where(e) = Holding(flight, e) + Holding(retry, e) + Holding(dead, e)
                       + delivered[e] + One(In(buffer, e)) + One(e \in lost)
        /\ Holding(flight, e) \in Nat /\ Holding(retry, e) \in Nat /\ Holding(dead, e) \in Nat
        /\ delivered[e] \in Nat /\ One(In(buffer, e)) \in {0, 1}
    BY <1>1, CopiesIs
  <2>6. Where(e)' = Holding(flight, e) + Holding(retry, e) + Holding(dead', e)
                     + delivered[e] + One(In(buffer, e)) + One(e \in lost')
    BY <1>1, <1>3, CopiesIsThen
  <2>7. Holding(dead', e) = 0
    BY <1>1, HoldingEmpty
  <2>8. timeouts' = timeouts /\ timeouts \in Nat
    BY <1>1 DEF rest, TypeOK
  <2> DEFINE f1 == Holding(flight, e)
             r1 == Holding(retry, e)
             d1 == Holding(dead, e)
             b1 == One(In(buffer, e))
             l1 == One(e \in lost)
             l2 == One(e \in lost')
  <2>9. /\ Where(e) = f1 + r1 + d1 + delivered[e] + b1 + l1
        /\ Where(e)' = f1 + r1 + 0 + delivered[e] + b1 + l2
        /\ f1 \in Nat /\ r1 \in Nat /\ d1 \in Nat /\ delivered[e] \in Nat /\ b1 \in Nat
        /\ l2 = (IF e \in lost \/ d1 # 0 THEN 1 ELSE 0) /\ l1 = (IF e \in lost THEN 1 ELSE 0)
    BY <2>3, <2>4, <2>5, <2>6, <2>7
  <2> HIDE DEF f1, r1, d1, b1, l1, l2
  <2> QED
    BY <2>8, <2>9
<1>5. Placed'
  <2>1. emitted' = emitted /\ timeouts' >= timeouts
    BY <1>1 DEF rest, TypeOK
  <2> QED
    BY <1>1, <1>3, <1>4, <2>1, PlacedKept
<1>6. Paced'
  BY <1>1 DEF Paced, rest
<1> QED
  BY <1>3, <1>5, <1>6 DEF IInv
-----------------------------------------------------------------------------
LEMMA InitKeeps == Init => IInv
<1> SUFFICES ASSUME Init PROVE IInv
  OBVIOUS
<1>1. TypeOK
  <2>1. <<>> \in Seq(Events) /\ <<>> \in Seq(Batches) /\ {} \subseteq Events
    OBVIOUS
  <2>2. [e \in Events |-> 0] \in [Events -> Nat]
    OBVIOUS
  <2> QED
    BY <2>1, <2>2 DEF Init, TypeOK
<1>2. Once(buffer)
  BY DEF Init, Once
<1>3. Placed
  <2> SUFFICES ASSUME NEW e \in Events PROVE Where(e) = 0
    BY DEF Init, Placed
  <2>1. Holding(flight, e) = 0 /\ Holding(retry, e) = 0 /\ Holding(dead, e) = 0
    BY HoldingEmpty DEF Init
  <2>2. One(In(buffer, e)) = 0 /\ One(e \in lost) = 0 /\ delivered[e] = 0
    BY DEF Init, One, In
  <2> QED
    BY <1>1, <2>1, <2>2, CopiesIs
<1>4. Paced
  BY EmitterAssumption DEF Init, Paced
<1> QED
  BY <1>1, <1>2, <1>3, <1>4 DEF IInv

LEMMA NextKeeps == ASSUME IInv, [Next]_vars PROVE IInv'
<1>1. ASSUME NEW e \in Events, Emit(e) PROVE IInv'
  BY <1>1, EmitKeeps
<1>2. CASE FlushTimer
  BY <1>2, FlushTimerKeeps
<1>3. ASSUME NEW i \in DOMAIN retry, ProcessRetry(i) PROVE IInv'
  BY <1>3, ProcessRetryKeeps
<1>4. ASSUME NEW i \in DOMAIN flight, Accepted(i) PROVE IInv'
  BY <1>4, AcceptedKeeps
<1>5. ASSUME NEW i \in DOMAIN flight, Refused(i) PROVE IInv'
  BY <1>5, RefusedKeeps
<1>6. ASSUME NEW i \in DOMAIN flight, TimedOut(i) PROVE IInv'
  BY <1>6, TimedOutKeeps
<1>7. CASE Pause
  BY <1>7, PauseKeeps
<1>8. CASE Resume
  BY <1>8, ResumeKeeps
<1>9. CASE Replay
  BY <1>9, ReplayKeeps
<1>10. CASE ClearDeadLetters
  BY <1>10, ClearDeadLettersKeeps
<1>11. CASE Destroy
  BY <1>11, DestroyKeeps
<1>12. CASE UNCHANGED vars
  <2>1. TypeOK'
    BY <1>12 DEF IInv, TypeOK, vars
  <2>2. Placed'
    BY <1>12 DEF IInv, Placed, Where, Copies, vars
  <2>3. Paced' /\ Once(buffer')
    BY <1>12 DEF IInv, Paced, vars
  <2> QED
    BY <2>1, <2>2, <2>3 DEF IInv
<1> QED
  BY <1>1, <1>2, <1>3, <1>4, <1>5, <1>6, <1>7, <1>8, <1>9, <1>10, <1>11, <1>12
     DEF Next, Outcome

(* The emitter stays in the inductive invariant.                           *)
THEOREM Invariant == Spec => []IInv
BY InitKeeps, NextKeeps, PTL DEF Spec

(* Every emitted event is in one place until it is delivered or given up,  *)
(* and a request that times out adds one copy: whatever the size of the    *)
(* batches, the cap on dead letters and what the admin does.               *)
THEOREM EventsAreKept == Spec => []OneCopy
<1>1. IInv => OneCopy
  BY PlacedIsOneCopy DEF IInv
<1> QED
  BY <1>1, Invariant, PTL

(* While no request times out, an event is sent no more often than its     *)
(* retries allow, through pauses, resumes and replays.                     *)
THEOREM AttemptsAreBounded == Spec => []RetriesBounded
<1>1. IInv => RetriesBounded
  BY DEF IInv, Paced, RetriesBounded, AttemptsBounded
<1> QED
  BY <1>1, Invariant, PTL
=============================================================================
