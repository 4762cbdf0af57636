------------------------------- MODULE Totals -------------------------------
(***************************************************************************)
(* Sums of natural numbers: a total is the number of units that the        *)
(* members of a set have between them, so what the library proves of       *)
(* finite sets applies to it.                                              *)
(***************************************************************************)
EXTENDS Integers, FiniteSets, FiniteSetTheorems, TLAPS

Units(f, S) == UNION {{x} \X (1 .. f[x]) : x \in S}

(* The sum of f[x] for x in S. *)
Total(f, S) == Cardinality(Units(f, S))

(* What can be added up. *)
Countable(f, S) == IsFiniteSet(S) /\ \A x \in S : f[x] \in Nat

(* Two tables of numbers that agree but for one argument.                  *)
Differ(f, g, S, x) == x \in S /\ \A y \in S \ {x} : g[y] = f[y]

IsUnit(p, f, S) == p = <<p[1], p[2]>> /\ p[1] \in S /\ p[2] \in 1 .. f[p[1]]

(* An order in which the members of S are served, and who is served before *)
(* x: `first` holds the pairs of which the one comes before the other.     *)
Order(first, S) ==
    /\ \A x \in S : <<x, x>> \notin first
    /\ \A x, y \in S : x = y \/ <<x, y>> \in first \/ <<y, x>> \in first
    /\ \A x, y, z \in S : <<x, y>> \in first /\ <<y, z>> \in first => <<x, z>> \in first

Earlier(first, S, x) == {y \in S : <<y, x>> \in first}

(* What is taken of `there` when `gone` of the n that are wanted have been *)
(* found already.                                                          *)
Portion(there, gone, n) ==
    IF n <= gone THEN 0 ELSE IF n - gone <= there THEN n - gone ELSE there

-----------------------------------------------------------------------------
(* Finitely many numbers have a sum.                                       *)
LEMMA TotalType ==
    ASSUME NEW f, NEW S, Countable(f, S)
    PROVE  IsFiniteSet(Units(f, S)) /\ Total(f, S) \in Nat
<1> DEFINE part == [x \in S |-> {x} \X (1 .. f[x])]
           parts == {{x} \X (1 .. f[x]) : x \in S}
<1>1. part \in Surjection(S, parts)
  BY DEF Surjection
<1>2. IsFiniteSet(parts)
  BY <1>1, FS_Surjection DEF Countable
<1>3. \A x \in S : IsFiniteSet({x} \X (1 .. f[x]))
  <2> TAKE x \in S
  <2>1. IsFiniteSet({x})
    BY FS_Singleton
  <2>2. IsFiniteSet(1 .. f[x])
    BY FS_Interval DEF Countable
  <2> QED
    BY <2>1, <2>2, FS_Product
<1>4. \A P \in parts : IsFiniteSet(P)
  BY <1>3
<1>5. IsFiniteSet(UNION parts)
  <2> HIDE DEF parts
  <2> QED
    BY <1>2, <1>4, FS_UNION
<1> QED
  BY <1>5, FS_CardinalityType DEF Units, Total

(* The sum of one number.                                                  *)
LEMMA TotalOne ==
    ASSUME NEW f, NEW x, f[x] \in Nat
    PROVE  Total(f, {x}) = f[x] /\ Countable(f, {x})
<1> DEFINE A == {x}
           B == 1 .. f[x]
<1>1. IsFiniteSet(A) /\ Cardinality(A) = 1
  BY FS_Singleton
<1>2. IsFiniteSet(B) /\ Cardinality(B) = f[x]
  BY FS_Interval
<1>3. Units(f, {x}) = A \X B
  BY DEF Units
<1>4. Cardinality(A \X B) = Cardinality(A) * Cardinality(B)
  <2> HIDE DEF A, B
  <2> QED
    BY <1>1, <1>2, FS_Product
<1>5. Cardinality(A \X B) = f[x]
  <2> HIDE DEF A, B
  <2> QED
    BY <1>1, <1>2, <1>4
<1>6. Total(f, {x}) = f[x]
  BY <1>3, <1>5 DEF Total
<1> QED
  BY <1>1, <1>6 DEF Countable

(* The sum of nothing.                                                     *)
LEMMA TotalNone == ASSUME NEW f PROVE Total(f, {}) = 0
BY FS_EmptySet DEF Total, Units

(* Sums over disjoint sets add up.                                         *)
LEMMA TotalUnion ==
    ASSUME NEW f, NEW S, NEW T, Countable(f, S), Countable(f, T), S \cap T = {}
    PROVE  /\ Total(f, S \cup T) = Total(f, S) + Total(f, T)
           /\ Total(f, S) \in Nat /\ Total(f, T) \in Nat
<1> DEFINE A == Units(f, S)
           B == Units(f, T)
<1>1. Units(f, S \cup T) = A \cup B /\ A \cap B = {}
  BY DEF Units
<1>2. /\ IsFiniteSet(A) /\ IsFiniteSet(B)
      /\ Total(f, S) \in Nat /\ Total(f, T) \in Nat
  BY TotalType
<1>3. Cardinality(A \cup B) = Cardinality(A) + Cardinality(B) - Cardinality(A \cap B)
  BY <1>2, FS_Union
<1>4. Cardinality(A \cap B) = 0
  BY <1>1, FS_EmptySet
<1>5. Total(f, S \cup T) = Total(f, S) + Total(f, T) - 0
  BY <1>1, <1>3, <1>4 DEF Total
<1> QED
  BY <1>2, <1>5

(* Equal numbers have equal sums.                                          *)
LEMMA TotalSame ==
    ASSUME NEW f, NEW g, NEW S, \A x \in S : g[x] = f[x]
    PROVE  Total(g, S) = Total(f, S)
<1>1. Units(g, S) = Units(f, S)
  BY DEF Units
<1> QED
  BY <1>1 DEF Total

(* The sum over a set is that of a part and of the rest.                   *)
LEMMA TotalSplit ==
    ASSUME NEW f, NEW S, NEW T, Countable(f, S), T \subseteq S
    PROVE  /\ Total(f, S) = Total(f, T) + Total(f, S \ T)
           /\ Total(f, T) \in Nat /\ Total(f, S \ T) \in Nat
           /\ Countable(f, T) /\ Countable(f, S \ T)
<1>1. Countable(f, T) /\ Countable(f, S \ T)
  BY FS_Subset DEF Countable
<1>2. T \cup (S \ T) = S /\ T \cap (S \ T) = {}
  OBVIOUS
<1> QED
  BY <1>1, <1>2, TotalUnion

(* Changing the numbers of a part changes the sum by what they change.     *)
LEMMA TotalChange ==
    ASSUME NEW f, NEW g, NEW S, NEW T, Countable(f, S), Countable(g, T),
           T \subseteq S, \A x \in S \ T : g[x] = f[x]
    PROVE  /\ Total(g, S) = Total(f, S) - Total(f, T) + Total(g, T)
           /\ Total(f, S) \in Nat /\ Total(f, T) \in Nat /\ Total(g, T) \in Nat
           /\ Total(f, T) <= Total(f, S) /\ Countable(g, S)
<1>1. Countable(g, S)
  BY DEF Countable
<1>2. Total(f, S) = Total(f, T) + Total(f, S \ T)
  BY TotalSplit
<1>3. Total(g, S) = Total(g, T) + Total(g, S \ T)
  BY <1>1, TotalSplit
<1>4. Total(g, S \ T) = Total(f, S \ T)
  BY TotalSame
<1>5. Countable(f, T) /\ Countable(f, S \ T)
  BY TotalSplit
<1>6. /\ Total(f, S) \in Nat /\ Total(f, T) \in Nat
      /\ Total(g, T) \in Nat /\ Total(f, S \ T) \in Nat
  BY <1>5, TotalType
<1> QED
  BY <1>1, <1>2, <1>3, <1>4, <1>6

(* The same for one number.                                                *)
LEMMA TotalDiffer ==
    ASSUME NEW f, NEW g, NEW S, NEW x,
           Countable(f, S), Countable(g, S), Differ(f, g, S, x)
    PROVE  Total(g, S) = Total(f, S) - f[x] + g[x]
<1>1. x \in S /\ f[x] \in Nat /\ g[x] \in Nat
  BY DEF Countable, Differ
<1>2. /\ Total(f, {x}) = f[x] /\ Total(g, {x}) = g[x] /\ Countable(g, {x})
  BY <1>1, TotalOne
<1>3. {x} \subseteq S /\ \A y \in S \ {x} : g[y] = f[y]
  BY <1>1 DEF Differ
<1> QED
  BY <1>1, <1>2, <1>3, TotalChange

(* No number is larger than the sum.                                       *)
LEMMA TotalPart ==
    ASSUME NEW f, NEW S, NEW x \in S, Countable(f, S)
    PROVE  f[x] \in Nat /\ f[x] <= Total(f, S)
<1>1. f[x] \in Nat
  BY DEF Countable
<1>2. Total(f, {x}) = f[x]
  BY <1>1, TotalOne
<1>3. /\ Total(f, S) = Total(f, {x}) + Total(f, S \ {x})
      /\ Total(f, {x}) \in Nat /\ Total(f, S \ {x}) \in Nat
  BY TotalSplit
<1> QED
  BY <1>1, <1>2, <1>3

(* Numbers that are no larger have no larger a sum.                        *)
LEMMA TotalAtMost ==
    ASSUME NEW f, NEW g, NEW S, Countable(f, S), Countable(g, S),
           \A x \in S : g[x] <= f[x]
    PROVE  Total(g, S) <= Total(f, S) /\ Total(g, S) \in Nat /\ Total(f, S) \in Nat
<1>1. \A x \in S : 1 .. g[x] \subseteq 1 .. f[x]
  BY DEF Countable
<1>2. Units(g, S) \subseteq Units(f, S)
  BY <1>1 DEF Units
<1>3. IsFiniteSet(Units(f, S)) /\ Total(g, S) \in Nat /\ Total(f, S) \in Nat
  BY TotalType
<1> QED
  BY <1>2, <1>3, FS_Subset DEF Total

(* The units of a table.                                                   *)
LEMMA UnitsAre ==
    ASSUME NEW f, NEW S, NEW p
    PROVE  p \in Units(f, S) <=> IsUnit(p, f, S)
BY DEF Units, IsUnit

(* The sum of zeros.                                                       *)
LEMMA TotalZero ==
    ASSUME NEW f, NEW S, \A x \in S : f[x] = 0
    PROVE  Total(f, S) = 0
<1>1. Units(f, S) = {}
  BY DEF Units
<1> QED
  BY <1>1, FS_EmptySet DEF Total

(* Adding number by number adds the sums.                                  *)
LEMMA TotalPlus ==
    ASSUME NEW f, NEW g, NEW h, NEW S, Countable(f, S), Countable(g, S),
           \A x \in S : h[x] = f[x] + g[x]
    PROVE  /\ Total(h, S) = Total(f, S) + Total(g, S)
           /\ Total(f, S) \in Nat /\ Total(g, S) \in Nat /\ Countable(h, S)
<1> DEFINE A == Units(f, S)
           B == Units(g, S)
           C == {p \in Units(h, S) : p[2] > f[p[1]]}
           move == [p \in B |-> <<p[1], p[2] + f[p[1]]>>]
<1>1. Countable(h, S)
  BY DEF Countable
<1>2. \A p : p \in B <=> IsUnit(p, g, S)
  BY UnitsAre
<1>3. \A p : p \in Units(h, S) <=> IsUnit(p, h, S)
  BY UnitsAre
<1>4. \A p : p \in A <=> IsUnit(p, f, S)
  BY UnitsAre
<1>5. \A x \in S : f[x] \in Nat /\ g[x] \in Nat
  BY DEF Countable
<1>6. Units(h, S) = A \cup C
  <2>1. A \subseteq Units(h, S)
    BY <1>3, <1>4, <1>5 DEF IsUnit
  <2>2. \A p \in Units(h, S) : p \notin C => p \in A
    BY <1>3, <1>4, <1>5 DEF IsUnit
  <2> QED
    BY <2>1, <2>2
<1>7. A \cap C = {}
  BY <1>4, <1>5 DEF IsUnit
<1>8. ExistsBijection(B, C)
  <2>1. \A p \in B : move[p] \in C
    BY <1>2, <1>3, <1>5 DEF IsUnit
  <2>2. \A p, q \in B : move[p] = move[q] => p = q
    BY <1>2, <1>5 DEF IsUnit
  <2>3. \A c \in C : <<c[1], c[2] - f[c[1]]>> \in B /\ move[<<c[1], c[2] - f[c[1]]>>] = c
    BY <1>2, <1>3, <1>5 DEF IsUnit
  <2> HIDE DEF B, C
  <2>4. DOMAIN move = B
    OBVIOUS
  <2>5. move \in [B -> C]
    BY <2>1
  <2> HIDE DEF move
  <2>6. move \in Injection(B, C)
    BY <2>2, <2>4, <2>5 DEF Injection, IsInjective
  <2>7. move \in Surjection(B, C)
    BY <2>3, <2>5 DEF Surjection
  <2> QED
    BY <2>6, <2>7 DEF ExistsBijection, Bijection
<1>9. IsFiniteSet(A) /\ IsFiniteSet(B) /\ Total(f, S) \in Nat /\ Total(g, S) \in Nat
  BY TotalType
<1> HIDE DEF A, B, C, move
<1>10. IsFiniteSet(C) /\ Cardinality(C) = Cardinality(B)
  BY <1>8, <1>9, FS_Bijection
<1>11. Cardinality(A \cup C) = Cardinality(A) + Cardinality(C) - Cardinality(A \cap C)
  BY <1>9, <1>10, FS_Union
<1>12. Cardinality(A \cap C) = 0
  BY <1>7, FS_EmptySet
<1> QED
  BY <1>1, <1>6, <1>9, <1>10, <1>11, <1>12 DEF Total, A, B

(* Who comes later finds gone what those before had, and theirs before     *)
(* them.                                                                   *)
LEMMA TotalEarlier ==
    ASSUME NEW S, NEW b, NEW first, Countable(b, S), Order(first, S),
           NEW x \in S, NEW y \in S, <<x, y>> \in first
    PROVE  /\ Total(b, Earlier(first, S, x)) + b[x] <= Total(b, Earlier(first, S, y))
           /\ Total(b, Earlier(first, S, x)) \in Nat /\ b[x] \in Nat
<1> DEFINE E == Earlier(first, S, x)
           F == Earlier(first, S, y)
<1>1. b[x] \in Nat
  BY DEF Countable
<1>2. E \subseteq S /\ F \subseteq S /\ x \notin E
  BY DEF Earlier, Order
<1> DEFINE G == E \cup {x}
<1>3. G \subseteq F
  BY DEF Earlier, Order
<1>4. Total(b, {x}) = b[x] /\ Countable(b, {x})
  BY <1>1, TotalOne
<1> HIDE DEF E, F
<1>5. Countable(b, E) /\ Total(b, E) \in Nat /\ Countable(b, F) /\ Total(b, F) \in Nat
  BY <1>2, TotalSplit
<1>6. Total(b, E \cup {x}) = Total(b, E) + b[x]
  BY <1>2, <1>4, <1>5, TotalUnion
<1> HIDE DEF G
<1>7. Total(b, F) = Total(b, G) + Total(b, F \ G) /\ Total(b, F \ G) \in Nat
  BY ONLY <1>3, <1>5, TotalSplit
<1>8. Total(b, E) + b[x] <= Total(b, F)
  BY <1>1, <1>5, <1>6, <1>7 DEF G
<1> QED
  BY <1>1, <1>5, <1>8 DEF E, F

(* Taking n units in order, from each what it has until the amount is met, *)
(* takes n altogether if there are as many.                                *)
LEMMA TotalPortions ==
    ASSUME NEW S, NEW b, NEW take, NEW first, NEW n \in Nat,
           Countable(b, S), Order(first, S), n <= Total(b, S),
           \A x \in S : take[x] = Portion(b[x], Total(b, Earlier(first, S, x)), n)
    PROVE  Total(take, S) = n /\ Countable(take, S)
<1> DEFINE gone(x) == Total(b, Earlier(first, S, x))
           U == Units(b, S)
           N == Total(b, S)
           pos == [p \in U |-> gone(p[1]) + p[2]]
           V == Units(take, S)
<1>1. \A p : p \in U <=> IsUnit(p, b, S)
  BY UnitsAre
<1>2. \A p : p \in V <=> IsUnit(p, take, S)
  BY UnitsAre
<1>3. IsFiniteSet(U) /\ N \in Nat /\ Cardinality(U) = N
  BY TotalType DEF Total
<1>4. \A x \in S : /\ b[x] \in Nat /\ gone(x) \in Nat
                   /\ gone(x) + b[x] <= N
  <2> TAKE x \in S
  <2> DEFINE E == Earlier(first, S, x)
  <2>1. b[x] \in Nat
    BY DEF Countable
  <2>2. E \subseteq S /\ x \notin E
    BY DEF Earlier, Order
  <2>3. Total(b, {x}) = b[x] /\ Countable(b, {x})
    BY <2>1, TotalOne
  <2> HIDE DEF E
  <2>4. Countable(b, E) /\ Total(b, E) \in Nat
    BY <2>2, TotalSplit
  <2>5. Total(b, E \cup {x}) = Total(b, E) + b[x]
    BY <2>2, <2>3, <2>4, TotalUnion
  <2> DEFINE G == E \cup {x}
  <2>6. G \subseteq S
    BY <2>2
  <2> HIDE DEF G
  <2>7. N = Total(b, G) + Total(b, S \ G) /\ Total(b, S \ G) \in Nat
    BY <2>6, TotalSplit
  <2>8. Total(b, E) + b[x] <= N
    BY <2>1, <2>4, <2>5, <2>7 DEF G
  <2> QED
    BY <2>1, <2>4, <2>8 DEF E
<1>5. \A x, y \in S : <<x, y>> \in first => gone(x) + b[x] <= gone(y)
  BY TotalEarlier
<1> HIDE DEF gone
<1>6. pos \in Injection(U, 1 .. N)
  <2> HIDE DEF N
  <2>1. \A p \in U : pos[p] \in 1 .. N
    BY <1>1, <1>3, <1>4 DEF IsUnit
  <2>2. \A p, q \in U : pos[p] = pos[q] => p = q
    <3> SUFFICES ASSUME NEW p \in U, NEW q \in U, pos[p] = pos[q]
                 PROVE  p = q
      OBVIOUS
    <3> DEFINE x == p[1]  u == p[2]
               y == q[1]  v == q[2]
    <3>1. p = <<x, u>> /\ x \in S /\ u \in 1 .. b[x]
      BY <1>1 DEF IsUnit
    <3>2. q = <<y, v>> /\ y \in S /\ v \in 1 .. b[y]
      BY <1>1 DEF IsUnit
    <3> HIDE DEF x, y, u, v
    <3>3. gone(x) + u = gone(y) + v
      BY <3>1, <3>2
    <3>4. x = y
      <4>1. \/ x = y
            \/ gone(x) + b[x] <= gone(y)
            \/ gone(y) + b[y] <= gone(x)
        BY <1>5, <3>1, <3>2 DEF Order
      <4>2. /\ gone(x) \in Nat /\ gone(y) \in Nat /\ b[x] \in Nat /\ b[y] \in Nat
            /\ u \in 1 .. b[x] /\ v \in 1 .. b[y]
        BY <1>4, <3>1, <3>2
      <4> QED
        BY ONLY <4>1, <3>3, <4>2
    <3>5. u = v
      <4>1. gone(x) \in Nat /\ u \in Int /\ v \in Int
        BY <1>4, <3>1, <3>2
      <4> QED
        BY ONLY <3>3, <3>4, <4>1
    <3> QED
      BY <3>1, <3>2, <3>4, <3>5
  <2> HIDE DEF U
  <2>3. pos \in [U -> 1 .. N] /\ DOMAIN pos = U
    BY <2>1
  <2> HIDE DEF pos
  <2> QED
    BY <2>2, <2>3 DEF Injection, IsInjective
<1>7. pos \in Surjection(U, 1 .. N)
  <2>1. IsFiniteSet(1 .. N) /\ Cardinality(1 .. N) = N
    BY <1>3, FS_Interval
  <2> HIDE DEF U, pos, N
  <2> QED
    BY <1>3, <1>6, <2>1, FS_Injection
<1>8. \A x \in S : take[x] \in Nat /\ take[x] <= b[x]
  BY <1>4 DEF gone, Portion
<1>9. \A x \in S : \A u \in 1 .. b[x] : u <= take[x] <=> gone(x) + u <= n
  BY <1>4 DEF gone, Portion
<1>10. V = {p \in U : pos[p] <= n}
  <2>1. \A p \in V : p \in U /\ pos[p] <= n
    <3> SUFFICES ASSUME NEW p \in V PROVE p \in U /\ pos[p] <= n
      OBVIOUS
    <3> DEFINE x == p[1]  u == p[2]
    <3>1. p = <<x, u>> /\ x \in S /\ u \in 1 .. take[x]
      BY <1>2 DEF IsUnit
    <3>2. u \in 1 .. b[x] /\ u <= take[x]
      BY <1>4, <1>8, <3>1
    <3>3. p \in U
      BY <1>1, <3>1, <3>2 DEF IsUnit
    <3> QED
      BY <1>9, <3>1, <3>2, <3>3
  <2>2. \A p \in U : pos[p] <= n => p \in V
    <3> SUFFICES ASSUME NEW p \in U, pos[p] <= n PROVE p \in V
      OBVIOUS
    <3> DEFINE x == p[1]  u == p[2]
    <3>1. p = <<x, u>> /\ x \in S /\ u \in 1 .. b[x]
      BY <1>1 DEF IsUnit
    <3>2. u <= take[x]
      BY <1>9, <3>1
    <3> QED
      BY <1>2, <1>8, <3>1, <3>2 DEF IsUnit
  <2> QED
    BY <2>1, <2>2
<1>11. ExistsBijection(V, 1 .. n)
  <2> DEFINE at == [p \in V |-> pos[p]]
  <2> HIDE DEF U, pos
  <2>1. pos \in [U -> 1 .. N] /\ DOMAIN pos = U
    BY <1>7 DEF Surjection
  <2>2. at \in [V -> 1 .. n] /\ DOMAIN at = V
    BY <1>3, <1>10, <2>1
  <2>3. \A p, q \in V : at[p] = at[q] => p = q
    BY <1>6, <1>10, <2>1 DEF Injection, IsInjective
  <2>4. \A i \in 1 .. n : \E p \in V : at[p] = i
    <3> TAKE i \in 1 .. n
    <3>1. i \in 1 .. N
      BY <1>3
    <3>2. PICK p \in U : pos[p] = i
      BY <1>7, <3>1 DEF Surjection
    <3> QED
      BY <1>10, <3>2
  <2> HIDE DEF at, V
  <2>5. at \in Injection(V, 1 .. n) /\ at \in Surjection(V, 1 .. n)
    BY <2>2, <2>3, <2>4 DEF Injection, IsInjective, Surjection
  <2> QED
    BY <2>5 DEF ExistsBijection, Bijection
<1>12. IsFiniteSet(V)
  BY <1>3, <1>10, FS_Subset
<1>13. Cardinality(1 .. n) = n
  BY FS_Interval
<1>14. Cardinality(V) = n
  <2> HIDE DEF V
  <2> QED
    BY <1>11, <1>12, <1>13, FS_Bijection
<1> QED
  BY <1>8, <1>14 DEF Countable, Total
=============================================================================
