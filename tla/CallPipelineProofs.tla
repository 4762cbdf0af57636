------------------------- MODULE CallPipelineProofs -------------------------
(***************************************************************************)
(* What CallPipeline promises of slots, money, breaker, cache and caps,    *)
(* for any calls, keys, prices and limits.  The inductive invariant is     *)
(* Types with one part for each promise; a part needs at most Types and    *)
(* OutInv, the outcomes that go with a station, besides itself.            *)
(***************************************************************************)
EXTENDS CallPipeline, FiniteSetTheorems, TLAPS

Outcomes == {"none", "capped", "busy", "blocked", "cached", "broken", "denied",
             "ok", "censored", "error", "thrown", "timeout"}
BreakerRecord == [state : {"closed", "open", "half_open"}, fails : Nat, openedAt : Nat \cup {-1}]
CapCounter == [period : Nat, calls : Nat, credits : Nat]
CacheEntry == [by : Calls, at : Nat, used : Nat]

Types ==
    /\ now \in Nat
    /\ st \in [Calls -> {"new", "plugins", "sent", "late", "done"}]
    /\ out \in [Calls -> Outcomes]
    /\ bal \in [Keys -> Nat] /\ spent \in [Keys -> Int] /\ took \in [Calls -> Nat]
    /\ brk \in BreakerRecord
    /\ slots \in [Keys \cup {Tool} -> Nat] /\ holding \in SUBSET Calls
    /\ cache \in [CacheKeys -> CacheEntry \cup {None}]
    /\ from \in [Calls -> Calls \cup {None}]
    /\ day \in CapCounter /\ hour \in [Keys -> CapCounter]
    /\ suspended \in [Keys -> Nat \cup {-1}] /\ okAt \in [Calls -> Nat \cup {-1}]
    /\ tripped \in Nat \cup {-1} /\ streak \in Nat

-----------------------------------------------------------------------------
(* What the helpers return.                                                *)

(* The functions on the breaker return breakers. *)
LEMMA BreakerTypes ==
    ASSUME NEW b \in BreakerRecord, NEW t \in Nat
    PROVE  /\ Closed \in BreakerRecord /\ Thaw(b, t) \in BreakerRecord
           /\ Success(b) \in BreakerRecord /\ Failure(b, t) \in BreakerRecord
BY DEF BreakerRecord, Closed, Thaw, Cooled, Success, Failure

(* Periods are numbers, and later moments are in no earlier period. *)
LEMMA Periods ==
    ASSUME NEW t \in Nat, NEW u \in Nat, t <= u
    PROVE  /\ Today(t) \in Nat /\ Hour(t) \in Nat
           /\ Today(t) <= Today(u) /\ Hour(t) <= Hour(u)
<1>1. ASSUME NEW d \in Nat \ {0} PROVE t \div d \in Nat
  BY SMT
<1>2. ASSUME NEW d \in Nat \ {0} PROVE t \div d <= u \div d
  BY SMT
<1>3. DayLength \in Nat \ {0} /\ HourLength \in Nat \ {0}
  BY CapsAssumption
<1> QED
  BY <1>1, <1>2, <1>3 DEF Today, Hour

(* The functions on counters return counters. *)
LEMMA CounterTypes ==
    ASSUME NEW c \in CapCounter, NEW p \in Nat, NEW n \in Nat
    PROVE  Counter(p) \in CapCounter /\ Current(c, p) \in CapCounter /\ Record(c, n) \in CapCounter
<1>1. Counter(p) \in CapCounter /\ Current(c, p) \in CapCounter
  BY DEF CapCounter, Counter, Current
<1>2. c.calls + 1 \in Nat /\ c.credits + n \in Nat
  BY DEF CapCounter
<1>3. Record(c, n) \in CapCounter
  BY <1>2 DEF CapCounter, Record
<1> QED
  BY <1>1, <1>3

(* A suspension that has run out is forgotten. *)
LEMMA SuspensionTypes ==
    ASSUME NEW x \in Nat \cup {-1}, NEW t \in Nat
    PROVE  SuspensionAt(x, t) \in Nat \cup {-1}
BY DEF SuspensionAt, NotSuspended

(* Releasing a slot keeps the types of the limiter. *)
LEMMA ReleaseTypes ==
    ASSUME Types, NEW c \in Calls, Release(c)
    PROVE  slots' \in [Keys \cup {Tool} -> Nat] /\ holding' \in SUBSET Calls
BY DEF Release, Types

(* Counting a success keeps the types of the caps. *)
LEMMA CountTypes ==
    ASSUME Types, NEW c \in Calls, Count(c)
    PROVE  /\ day' \in CapCounter /\ hour' \in [Keys -> CapCounter]
           /\ suspended' \in [Keys -> Nat \cup {-1}]
<1>1. now \in Nat /\ KeyOf[c] \in Keys /\ Price \in Nat
  BY PipelineAssumption DEF Types
<1>2. Today(now) \in Nat /\ Hour(now) \in Nat
  BY <1>1, Periods
<1>3. Record(Current(day, Today(now)), Price) \in CapCounter
  BY <1>1, <1>2, CounterTypes DEF Types
<1>4. Record(Current(hour[KeyOf[c]], Hour(now)), Price) \in CapCounter
  BY <1>1, <1>2, CounterTypes DEF Types
<1> QED
  BY <1>3, <1>4 DEF Count, Types

(* A stale entry that is dropped leaves a cache. *)
LEMMA DropTypes ==
    ASSUME Types, NEW c \in Calls, DropStale(c)
    PROVE  cache' \in [CacheKeys -> CacheEntry \cup {None}]
BY DEF DropStale, Types

(* Storing an answer leaves a cache. *)
LEMMA StoreTypes ==
    ASSUME Types, NEW c \in Calls, Store(c)
    PROVE  cache' \in [CacheKeys -> CacheEntry \cup {None}]
<1>1. [by |-> c, at |-> now, used |-> now] \in CacheEntry
  BY DEF Types, CacheEntry
<1> QED
  BY <1>1 DEF Store, Types

(* A call goes to a key. *)
LEMMA KeyOfCall == ASSUME NEW c \in Calls PROVE KeyOf[c] \in Keys
BY PipelineAssumption

-----------------------------------------------------------------------------
(* The types.                                                              *)

(* The initial states are well typed. *)
LEMMA InitTypes == Init => Types
BY PipelineAssumption
   DEF Init, Types, Outcomes, BreakerRecord, Closed, CapCounter, Counter, NotSuspended

(* A call that arrives, with the caps it meets. *)
LEMMA ArriveTypes == ASSUME Types, NEW c \in Calls, Arrive(c) PROVE Types'
<1>1. KeyOf[c] \in Keys /\ now \in Nat /\ Today(now) \in Nat /\ Hour(now) \in Nat
  BY KeyOfCall, Periods DEF Types
<1>2. Current(day, Today(now)) \in CapCounter /\ Current(hour[KeyOf[c]], Hour(now)) \in CapCounter
  BY <1>1, CounterTypes DEF Types
<1>3. SuspensionAt(suspended[KeyOf[c]], now) \in Nat \cup {-1}
  BY <1>1, SuspensionTypes DEF Types
<1>4. /\ st' \in [Calls -> {"new", "plugins", "sent", "late", "done"}]
      /\ out' \in [Calls -> Outcomes]
  BY DEF Arrive, Types, Outcomes
<1>5. /\ day' \in CapCounter /\ hour' \in [Keys -> CapCounter]
      /\ suspended' \in [Keys -> Nat \cup {-1}]
  BY <1>1, <1>2, <1>3 DEF Arrive, Types
<1> QED
  BY <1>4, <1>5 DEF Arrive, Types, money, seen

(* A call that ends before the backend. *)
LEMMA EarlyTypes ==
    ASSUME Types, NEW c \in Calls, Busy(c) \/ Block(c) \/ Hit(c) \/ Broken(c) \/ Deny(c)
    PROVE  Types'
<1>1. CASE Busy(c) \/ Block(c)
  BY <1>1 DEF Busy, Block, Tell, Types, Outcomes, money, caps, seen
<1>2. CASE Hit(c)
  <2>1. /\ day' \in CapCounter /\ hour' \in [Keys -> CapCounter]
        /\ suspended' \in [Keys -> Nat \cup {-1}]
    BY <1>2, CountTypes DEF Hit
  <2>2. CacheKey[ArgsOf[c]] \in CacheKeys
    BY DEF CacheKeys
  <2>3. cache' \in [CacheKeys -> CacheEntry \cup {None}] /\ from' \in [Calls -> Calls \cup {None}]
    <3>1. cache[CacheKey[ArgsOf[c]]] \in CacheEntry
      BY <1>2, <2>2 DEF Hit, Fresh, Types
    <3>2. /\ cache[CacheKey[ArgsOf[c]]].by \in Calls
          /\ [cache[CacheKey[ArgsOf[c]]] EXCEPT !.used = now] \in CacheEntry
      BY <3>1 DEF CacheEntry, Types
    <3> QED
      BY <1>2, <2>2, <3>2 DEF Hit, Types
  <2>4. /\ st' \in [Calls -> {"new", "plugins", "sent", "late", "done"}]
        /\ out' \in [Calls -> Outcomes] /\ okAt' \in [Calls -> Nat \cup {-1}]
    BY <1>2 DEF Hit, Tell, Types, Outcomes
  <2> QED
    BY <1>2, <2>1, <2>3, <2>4 DEF Hit, Types, money, seen
<1>3. CASE Broken(c)
  <2>1. cache' \in [CacheKeys -> CacheEntry \cup {None}]
    BY <1>3, DropTypes DEF Broken
  <2> QED
    BY <1>3, <2>1 DEF Broken, Tell, Types, Outcomes, money, caps, seen
<1>4. CASE Deny(c)
  <2>1. cache' \in [CacheKeys -> CacheEntry \cup {None}]
    BY <1>4, DropTypes DEF Deny
  <2>2. brk' \in BreakerRecord
    BY <1>4, BreakerTypes DEF Deny, Types
  <2> QED
    BY <1>4, <2>1, <2>2 DEF Deny, Tell, Types, Outcomes, money, caps
<1> QED
  BY <1>1, <1>2, <1>3, <1>4

(* Taking credits that are there, and giving back what was taken. *)
LEMMA MoneyTypes ==
    ASSUME Types, NEW c \in Calls
    PROVE  /\ \A n \in Nat : n <= bal[KeyOf[c]] /\ Take(c, n) =>
                  bal' \in [Keys -> Nat] /\ took' \in [Calls -> Nat]
           /\ GiveBack(c) => /\ bal' \in [Keys -> Nat] /\ spent' \in [Keys -> Int]
                             /\ took' \in [Calls -> Nat]
BY KeyOfCall DEF Types, Take, GiveBack, money

(* A call that is sent. *)
LEMMA SendTypes == ASSUME Types, NEW c \in Calls, Send(c) PROVE Types'
<1>1. KeyOf[c] \in Keys /\ Price \in Nat
  BY PipelineAssumption
<1>2. bal' \in [Keys -> Nat] /\ took' \in [Calls -> Nat] /\ spent' \in [Keys -> Int]
  <2>1. Price <= bal[KeyOf[c]] /\ Take(c, Price)
    BY <1>1 DEF Send, Types
  <2>2. spent' \in [Keys -> Int]
    BY <1>1 DEF Send, Types
  <2> QED
    BY <1>1, <2>1, <2>2, MoneyTypes
<1>3. brk' \in BreakerRecord
  BY BreakerTypes DEF Send, Types
<1>4. slots' \in [Keys \cup {Tool} -> Nat] /\ holding' \in SUBSET Calls
  BY <1>1 DEF Send, Types
<1>5. cache' \in [CacheKeys -> CacheEntry \cup {None}]
  BY DropTypes DEF Send
<1>6. st' \in [Calls -> {"new", "plugins", "sent", "late", "done"}]
  BY DEF Send, Types
<1> QED
  BY <1>2, <1>3, <1>4, <1>5, <1>6 DEF Send, Types, caps, seen

(* The surcharge that is taken is there to take. *)
LEMMA SurchargeBound ==
    ASSUME Types, NEW c \in Calls, NEW s \in Surcharges
    PROVE  SurchargeTaken(c, s) \in Nat /\ SurchargeTaken(c, s) <= bal[KeyOf[c]]
<1>1. s \in Nat /\ bal[KeyOf[c]] \in Nat
  BY KeyOfCall, PipelineAssumption DEF Types
<1> QED
  BY <1>1 DEF SurchargeTaken

(* A call that succeeds. *)
LEMMA SucceedTypes ==
    ASSUME Types, NEW c \in Calls, NEW s \in Surcharges, NEW blocked \in BOOLEAN,
           Succeed(c, s, blocked)
    PROVE  Types'
<1> DEFINE taken == SurchargeTaken(c, s)
<1>1. KeyOf[c] \in Keys /\ taken \in Nat /\ taken <= bal[KeyOf[c]]
  BY KeyOfCall, SurchargeBound
<1>2. bal' \in [Keys -> Nat] /\ took' \in [Calls -> Nat] /\ spent' \in [Keys -> Int]
  <2>1. Take(c, taken) /\ spent' = [spent EXCEPT ![KeyOf[c]] = @ + 2 * taken]
    BY DEF Succeed
  <2>2. spent' \in [Keys -> Int]
    BY <1>1, <2>1 DEF Types
  <2> QED
    BY <1>1, <2>1, <2>2, MoneyTypes
<1>3. brk' \in BreakerRecord /\ streak' \in Nat
  BY BreakerTypes DEF Succeed, Types
<1>4. slots' \in [Keys \cup {Tool} -> Nat] /\ holding' \in SUBSET Calls
  BY ReleaseTypes DEF Succeed
<1>5. cache' \in [CacheKeys -> CacheEntry \cup {None}]
  BY StoreTypes DEF Succeed
<1>6. /\ st' \in [Calls -> {"new", "plugins", "sent", "late", "done"}]
      /\ out' \in [Calls -> Outcomes] /\ okAt' \in [Calls -> Nat \cup {-1}]
      /\ from' \in [Calls -> Calls \cup {None}]
  BY DEF Succeed, Tell, Types, Outcomes
<1>7. /\ day' \in CapCounter /\ hour' \in [Keys -> CapCounter]
      /\ suspended' \in [Keys -> Nat \cup {-1}]
  BY CountTypes DEF Succeed, Types
<1> QED
  BY <1>2, <1>3, <1>4, <1>5, <1>6, <1>7 DEF Succeed, Types

(* A failure that is counted. *)
LEMMA FailureTypes ==
    ASSUME Types, CountFailure
    PROVE  brk' \in BreakerRecord /\ streak' \in Nat /\ tripped' \in Nat \cup {-1}
<1>1. Failure(brk, now) \in BreakerRecord
  BY BreakerTypes DEF Types
<1> QED
  BY <1>1 DEF CountFailure, Types

(* A call that ends badly, late or not. *)
LEMMA BadEndTypes ==
    ASSUME Types, NEW c \in Calls, NEW bad \in BOOLEAN,
           Fail(c, bad) \/ LateAnswer(c, bad) \/ Throw(c) \/ Timeout(c)
    PROVE  Types'
<1>1. CASE Fail(c, bad)
  <2>1. slots' \in [Keys \cup {Tool} -> Nat] /\ holding' \in SUBSET Calls
    BY <1>1, ReleaseTypes DEF Fail
  <2>2. brk' \in BreakerRecord /\ streak' \in Nat /\ tripped' \in Nat \cup {-1}
    BY <1>1, FailureTypes DEF Fail, Types, seen
  <2>3. bal' \in [Keys -> Nat] /\ spent' \in [Keys -> Int] /\ took' \in [Calls -> Nat]
    BY <1>1, MoneyTypes DEF Fail
  <2> QED
    BY <1>1, <2>1, <2>2, <2>3 DEF Fail, Tell, Types, Outcomes, caps
<1>2. CASE LateAnswer(c, bad)
  <2>1. bal' \in [Keys -> Nat] /\ spent' \in [Keys -> Int] /\ took' \in [Calls -> Nat]
    BY <1>2, MoneyTypes DEF LateAnswer, Types, money
  <2> QED
    BY <1>2, <2>1 DEF LateAnswer, Types, caps, seen
<1>3. CASE Throw(c)
  <2>1. slots' \in [Keys \cup {Tool} -> Nat] /\ holding' \in SUBSET Calls
    BY <1>3, ReleaseTypes DEF Throw
  <2> QED
    BY <1>3, <2>1 DEF Throw, Tell, Types, Outcomes, money, caps, seen
<1>4. CASE Timeout(c)
  <2>1. slots' \in [Keys \cup {Tool} -> Nat] /\ holding' \in SUBSET Calls
    BY <1>4, ReleaseTypes DEF Timeout
  <2>2. brk' \in BreakerRecord /\ streak' \in Nat /\ tripped' \in Nat \cup {-1}
    BY <1>4, FailureTypes DEF Timeout
  <2> QED
    BY <1>4, <2>1, <2>2 DEF Timeout, Tell, Types, Outcomes, money, caps
<1> QED
  BY <1>1, <1>2, <1>3, <1>4

(* The administrator and the clock. *)
LEMMA OutsideTypes ==
    ASSUME Types, \/ ResetBreaker \/ ReadBreaker \/ ClearCache \/ Tick
                  \/ \E k \in Keys : LiftSuspension(k)
    PROVE  Types'
<1>1. CASE ResetBreaker \/ ReadBreaker
  <2>1. Closed \in BreakerRecord /\ Thaw(brk, now) \in BreakerRecord
    BY BreakerTypes DEF Types
  <2> QED
    BY <1>1, <2>1 DEF ResetBreaker, ReadBreaker, Types, money, caps, seen
<1>2. CASE ClearCache
  BY <1>2 DEF ClearCache, Types, money, caps, seen
<1>3. CASE Tick
  BY <1>3 DEF Tick, Types, money, caps, seen
<1>4. ASSUME NEW k \in Keys, LiftSuspension(k) PROVE Types'
  BY <1>4 DEF LiftSuspension, Types, NotSuspended, money, seen
<1> QED
  BY <1>1, <1>2, <1>3, <1>4

(* Every step keeps the types. *)
LEMMA StepTypes == Types /\ [Next]_vars => Types'
<1> SUFFICES ASSUME Types, [Next]_vars PROVE Types'
  OBVIOUS
<1>1. CASE UNCHANGED vars
  BY <1>1 DEF vars, Types, money, caps, seen
<1>2. ASSUME NEW c \in Calls, NEW s \in Surcharges, NEW blocked \in BOOLEAN, Succeed(c, s, blocked)
      PROVE  Types'
  BY <1>2, SucceedTypes
<1> QED
  BY <1>1, <1>2, ArriveTypes, EarlyTypes, SendTypes, BadEndTypes, OutsideTypes, Zenon DEF Next

-----------------------------------------------------------------------------
(* Slots.  The counters of the limiter are the sizes of sets of calls.     *)

Limited == MaxPerKey + MaxPerTool > 0
Sent == {c \in Calls : st[c] = "sent"}

(* One call more, or one less, in a set and in its part for a key. *)
LEMMA OneCall ==
    ASSUME NEW H \in SUBSET Calls, NEW c \in Calls, NEW k \in Keys
    PROVE  /\ Cardinality(H) \in Nat /\ Cardinality(H \cap Of(k)) \in Nat
           /\ c \notin H =>
                 /\ Cardinality(H \cup {c}) = Cardinality(H) + 1
                 /\ Cardinality((H \cup {c}) \cap Of(k))
                       = Cardinality(H \cap Of(k)) + (IF KeyOf[c] = k THEN 1 ELSE 0)
           /\ c \in H =>
                 /\ Cardinality(H) >= 1 /\ Cardinality(H \cap Of(KeyOf[c])) >= 1
                 /\ Cardinality(H \ {c}) = Cardinality(H) - 1
                 /\ Cardinality((H \ {c}) \cap Of(k))
                       = Cardinality(H \cap Of(k)) - (IF KeyOf[c] = k THEN 1 ELSE 0)
<1>1. /\ IsFiniteSet(H) /\ IsFiniteSet(H \cap Of(k)) /\ IsFiniteSet(H \cap Of(KeyOf[c]))
      /\ IsFiniteSet(H \ {c}) /\ IsFiniteSet((H \cap Of(KeyOf[c])) \ {c})
  <2>1. \A T \in SUBSET Calls : IsFiniteSet(T)
    BY FS_Subset, PipelineAssumption
  <2> QED
    BY <2>1
<1>2. /\ Cardinality(H) \in Nat /\ Cardinality(H \cap Of(k)) \in Nat
      /\ Cardinality(H \cap Of(KeyOf[c])) \in Nat
  BY <1>1, FS_CardinalityType
<1>3. ASSUME c \notin H
      PROVE  /\ Cardinality(H \cup {c}) = Cardinality(H) + 1
             /\ Cardinality((H \cup {c}) \cap Of(k))
                   = Cardinality(H \cap Of(k)) + (IF KeyOf[c] = k THEN 1 ELSE 0)
  <2>1. Cardinality(H \cup {c}) = Cardinality(H) + 1
    BY <1>1, <1>3, FS_AddElement
  <2>2. CASE KeyOf[c] = k
    <3>1. (H \cup {c}) \cap Of(k) = (H \cap Of(k)) \cup {c} /\ c \notin H \cap Of(k)
      BY <1>3, <2>2 DEF Of
    <3>2. Cardinality((H \cap Of(k)) \cup {c}) = Cardinality(H \cap Of(k)) + 1
      BY <1>1, <3>1, FS_AddElement
    <3> QED
      BY <2>1, <2>2, <3>1, <3>2
  <2>3. CASE KeyOf[c] # k
    <3>1. (H \cup {c}) \cap Of(k) = H \cap Of(k)
      BY <2>3 DEF Of
    <3> QED
      BY <1>2, <2>1, <2>3, <3>1
  <2> QED
    BY <2>2, <2>3
<1>4. ASSUME c \in H
      PROVE  /\ Cardinality(H) >= 1 /\ Cardinality(H \cap Of(KeyOf[c])) >= 1
             /\ Cardinality(H \ {c}) = Cardinality(H) - 1
             /\ Cardinality((H \ {c}) \cap Of(k))
                   = Cardinality(H \cap Of(k)) - (IF KeyOf[c] = k THEN 1 ELSE 0)
  <2> DEFINE O == H \cap Of(KeyOf[c])
  <2>1. Cardinality(H \ {c}) = Cardinality(H) - 1
    BY <1>1, <1>4, FS_RemoveElement
  <2>2. c \in O /\ O \ {c} = (H \ {c}) \cap Of(KeyOf[c])
    BY <1>4 DEF Of
  <2>3. IsFiniteSet(O)
    BY <1>1
  <2>4. Cardinality(O \ {c}) = Cardinality(O) - 1
    <3> HIDE DEF O
    <3> QED
      BY <2>2, <2>3, FS_RemoveElement
  <2>5. Cardinality(H \ {c}) \in Nat /\ Cardinality(O \ {c}) \in Nat
    BY <1>1, FS_CardinalityType
  <2>6. Cardinality(H) >= 1 /\ Cardinality(O) >= 1
    BY <1>2, <2>1, <2>4, <2>5
  <2>7. CASE KeyOf[c] = k
    <3>1. Cardinality((H \ {c}) \cap Of(k)) = Cardinality(H \cap Of(k)) - 1
      BY <2>2, <2>4, <2>7
    <3> QED
      BY <2>1, <2>6, <2>7, <3>1
  <2>8. CASE KeyOf[c] # k
    <3>1. (H \ {c}) \cap Of(k) = H \cap Of(k)
      BY <2>8 DEF Of
    <3>2. Cardinality((H \ {c}) \cap Of(k)) = Cardinality(H \cap Of(k))
      BY <3>1
    <3>3. Cardinality(H \cap Of(k)) - 0 = Cardinality(H \cap Of(k))
      BY <1>2
    <3> QED
      BY <2>1, <2>6, <2>8, <3>2, <3>3
  <2> QED
    BY <2>7, <2>8
<1> QED
  BY <1>2, <1>3, <1>4

(* The initial states honour the limits. *)
LEMMA InitSlots == Init => SlotsHonoured
<1> SUFFICES ASSUME Init PROVE SlotsHonoured
  OBVIOUS
<1>1. \A k \in Keys : {} \cap Of(k) = {}
  OBVIOUS
<1>2. Cardinality({}) = 0
  BY FS_EmptySet
<1>3. {c \in Calls : st[c] = "sent"} = {}
  BY DEF Init
<1> QED
  BY <1>1, <1>2, <1>3, PipelineAssumption DEF Init, SlotsHonoured

(* A step that sends nothing and ends nothing sent. *)
LEMMA SameSlots ==
    ASSUME SlotsHonoured, slots' = slots, holding' = holding, Sent' = Sent
    PROVE  SlotsHonoured'
BY DEF SlotsHonoured, Sent, Of

(* A call that was sent gives its slot back, however it ends. *)
LEMMA EndSlots ==
    ASSUME Types, SlotsHonoured, NEW c \in Calls, NEW x \in {"late", "done"},
           st[c] = "sent", st' = [st EXCEPT ![c] = x], Release(c)
    PROVE  SlotsHonoured'
<1>1. Sent' = Sent \ {c} /\ c \in Sent
  BY DEF Sent, Types
<1>2. CASE ~Limited
  <2>1. c \notin holding /\ slots' = slots /\ holding' = holding /\ holding = {}
    BY <1>2 DEF SlotsHonoured, Limited, Release
  <2> QED
    BY <1>2, <2>1 DEF SlotsHonoured, Limited, Of
<1>3. CASE Limited
  <2>1. c \in holding /\ holding = Sent
    BY <1>1, <1>3 DEF SlotsHonoured, Limited, Sent
  <2>2. holding' = holding \ {c} /\ holding' = Sent'
    BY <1>1, <2>1 DEF Release
  <2>3. KeyOf[c] \in Keys /\ Tool \notin Keys /\ holding \in SUBSET Calls
    BY PipelineAssumption DEF Types
  <2>4. slots[KeyOf[c]] = Cardinality(holding \cap Of(KeyOf[c])) /\ slots[Tool] = Cardinality(holding)
    BY <2>3 DEF SlotsHonoured
  <2>5. slots[KeyOf[c]] \in Nat /\ slots[KeyOf[c]] >= 1 /\ slots[Tool] \in Nat /\ slots[Tool] >= 1
    BY <2>1, <2>3, <2>4, OneCall
  <2>6. slots' = [slots EXCEPT ![KeyOf[c]] = slots[KeyOf[c]] - 1, ![Tool] = slots[Tool] - 1]
    BY <2>1, <2>3, <2>5 DEF Release, Types
  <2>7. slots'[Tool] = Cardinality(holding')
    <3>1. Cardinality(holding \ {c}) = Cardinality(holding) - 1
      BY <2>1, <2>3, OneCall
    <3>2. slots'[Tool] = slots[Tool] - 1
      BY <2>3, <2>6 DEF Types
    <3> QED
      BY <2>2, <2>4, <3>1, <3>2
  <2>8. \A k \in Keys : slots'[k] = Cardinality(holding' \cap Of(k))
    <3>1. TAKE k \in Keys
    <3>2. slots[k] = Cardinality(holding \cap Of(k)) /\ Cardinality(holding \cap Of(k)) \in Nat
      BY <2>3, OneCall DEF SlotsHonoured
    <3>3. Cardinality((holding \ {c}) \cap Of(k))
            = Cardinality(holding \cap Of(k)) - (IF KeyOf[c] = k THEN 1 ELSE 0)
      BY <2>1, <2>3, OneCall
    <3>4. slots'[k] = IF KeyOf[c] = k THEN slots[k] - 1 ELSE slots[k]
      BY <2>3, <2>6 DEF Types
    <3> QED
      BY <2>2, <3>2, <3>3, <3>4
  <2>9. \A y \in Keys \cup {Tool} : slots'[y] \in Nat /\ slots[y] \in Nat /\ slots'[y] <= slots[y]
    BY <2>3, <2>5, <2>6 DEF Types
  <2> HIDE <2>6
  <2>10. \A k \in Keys : MaxPerKey > 0 => slots'[k] <= MaxPerKey
    BY <2>9, PipelineAssumption DEF SlotsHonoured
  <2>11. MaxPerTool > 0 => slots'[Tool] <= MaxPerTool
    BY <2>9, PipelineAssumption DEF SlotsHonoured
  <2> QED
    BY <1>3, <2>2, <2>7, <2>8, <2>10, <2>11 DEF SlotsHonoured, Limited, Sent, Of
<1> QED
  BY <1>2, <1>3

(* A call that is sent takes a slot that is free. *)
LEMMA SendSlots == ASSUME Types, SlotsHonoured, NEW c \in Calls, Send(c) PROVE SlotsHonoured'
<1>1. Sent' = Sent \cup {c} /\ c \notin Sent
  BY DEF Send, Missed, Sent, Types
<1>2. CASE ~Limited
  BY <1>2 DEF Send, SlotsHonoured, Limited, Of
<1>3. CASE Limited
  <2>1. c \notin holding /\ holding = Sent
    BY <1>1, <1>3 DEF SlotsHonoured, Limited, Sent
  <2>2. holding' = holding \cup {c} /\ holding' = Sent'
    BY <1>1, <1>3, <2>1 DEF Send, Limited
  <2>3. KeyOf[c] \in Keys /\ Tool \notin Keys /\ holding \in SUBSET Calls
    BY PipelineAssumption DEF Types
  <2>4. slots' = [slots EXCEPT ![KeyOf[c]] = slots[KeyOf[c]] + 1, ![Tool] = slots[Tool] + 1]
    BY <1>3, <2>3 DEF Send, Limited, Types
  <2>5. slots'[Tool] = Cardinality(holding')
    <3>1. Cardinality(holding \cup {c}) = Cardinality(holding) + 1
      BY <2>1, <2>3, OneCall
    <3>2. slots'[Tool] = slots[Tool] + 1 /\ slots[Tool] = Cardinality(holding)
      BY <2>3, <2>4 DEF Types, SlotsHonoured
    <3> QED
      BY <2>2, <3>1, <3>2
  <2>6. \A k \in Keys : slots'[k] = Cardinality(holding' \cap Of(k))
    <3>1. TAKE k \in Keys
    <3>2. slots[k] = Cardinality(holding \cap Of(k)) /\ Cardinality(holding \cap Of(k)) \in Nat
      BY <2>3, OneCall DEF SlotsHonoured
    <3>3. Cardinality((holding \cup {c}) \cap Of(k))
            = Cardinality(holding \cap Of(k)) + (IF KeyOf[c] = k THEN 1 ELSE 0)
      BY <2>1, <2>3, OneCall
    <3>4. slots'[k] = IF KeyOf[c] = k THEN slots[k] + 1 ELSE slots[k]
      BY <2>3, <2>4 DEF Types
    <3> QED
      BY <2>2, <3>2, <3>3, <3>4
  <2>7. ~Full(c)
    BY DEF Send, Missed
  <2>8. \A k \in Keys : MaxPerKey > 0 => slots'[k] <= MaxPerKey
    <3>1. TAKE k \in Keys
    <3>2. slots'[k] = IF KeyOf[c] = k THEN slots[k] + 1 ELSE slots[k]
      BY <2>3, <2>4 DEF Types
    <3> QED
      BY <2>3, <2>7, <3>2, PipelineAssumption DEF Full, SlotsHonoured, Types
  <2>9. MaxPerTool > 0 => slots'[Tool] <= MaxPerTool
    <3>1. slots'[Tool] = slots[Tool] + 1 /\ slots[Tool] \in Nat
      BY <2>3, <2>4 DEF Types
    <3> QED
      BY <2>7, <3>1, PipelineAssumption DEF Full
  <2> HIDE <2>4
  <2> QED
    BY <1>3, <2>2, <2>5, <2>6, <2>8, <2>9 DEF SlotsHonoured, Limited, Sent, Of
<1> QED
  BY <1>2, <1>3

(* Every step keeps the limits. *)
LEMMA StepSlots == Types /\ SlotsHonoured /\ [Next]_vars => SlotsHonoured'
<1> SUFFICES ASSUME Types, SlotsHonoured, [Next]_vars PROVE SlotsHonoured'
  OBVIOUS
<1>1. CASE \/ ResetBreaker \/ ReadBreaker \/ ClearCache \/ Tick \/ UNCHANGED vars
           \/ \E k \in Keys : LiftSuspension(k)
  BY <1>1, SameSlots
     DEF ResetBreaker, ReadBreaker, ClearCache, Tick, LiftSuspension, vars, Sent
<1>2. ASSUME NEW c \in Calls, NEW bad \in BOOLEAN,
             Arrive(c) \/ Busy(c) \/ Block(c) \/ Hit(c) \/ Broken(c) \/ Deny(c) \/ LateAnswer(c, bad)
      PROVE  SlotsHonoured'
  <2>1. slots' = slots /\ holding' = holding
    BY <1>2 DEF Arrive, Busy, Block, Hit, Broken, Deny, LateAnswer
  <2>2. st[c] # "sent" /\ \E x \in {"plugins", "done"} : st' = [st EXCEPT ![c] = x]
    BY <1>2 DEF Arrive, Busy, Block, Hit, Broken, Deny, LateAnswer, Missed
  <2> QED
    BY <2>1, <2>2, SameSlots DEF Sent, Types
<1>3. ASSUME NEW c \in Calls, NEW bad \in BOOLEAN, NEW s \in Surcharges,
             Succeed(c, s, bad) \/ Fail(c, bad) \/ Throw(c) \/ Timeout(c)
      PROVE  SlotsHonoured'
  BY <1>3, EndSlots DEF Succeed, Fail, Throw, Timeout
<1>4. ASSUME NEW c \in Calls, Fail(c, TRUE) \/ Fail(c, FALSE) \/ Throw(c) \/ Timeout(c)
      PROVE  SlotsHonoured'
  BY <1>4, EndSlots DEF Fail, Throw, Timeout
<1> QED
  BY <1>1, <1>2, <1>3, <1>4, SendSlots, Zenon DEF Next

-----------------------------------------------------------------------------
(* The breaker.  A closed breaker has counted the failures in a row; one   *)
(* that is not closed remembers when it opened, and is half open only      *)
(* after its cooldown.                                                     *)
BreakerInv ==
    /\ brk.state = "closed" => brk.fails = streak
    /\ brk.state # "closed" => brk.openedAt = tripped /\ tripped \in Nat
    /\ brk.state = "half_open" => now - tripped >= Cooldown

(* What one step does to the breaker. *)
BreakerStep ==
    \/ brk' = Thaw(brk, now) /\ UNCHANGED <<seen, now>>
    \/ brk' = brk /\ UNCHANGED seen /\ now' \in {now, now + 1}
    \/ brk' = Success(brk) /\ streak' = 0 /\ UNCHANGED <<tripped, now>>
    \/ brk' = Success(Thaw(brk, now)) /\ streak' = 0 /\ UNCHANGED <<tripped, now>>
    \/ brk' = Closed /\ streak' = 0 /\ UNCHANGED <<tripped, now>>
    \/ CountFailure /\ UNCHANGED now

(* Every step is one of these. *)
LEMMA NextBreaker == [Next]_vars => BreakerStep
<1> SUFFICES ASSUME [Next]_vars PROVE BreakerStep
  OBVIOUS
<1>1. CASE UNCHANGED vars
  BY <1>1 DEF vars, seen, BreakerStep
<1>2. ASSUME NEW c \in Calls, Arrive(c) \/ Busy(c) \/ Block(c) \/ Hit(c) \/ Broken(c)
      PROVE  BreakerStep
  BY <1>2 DEF Arrive, Busy, Block, Hit, Broken, BreakerStep
<1>3. ASSUME NEW c \in Calls, Deny(c) \/ Send(c) \/ Throw(c) \/ Timeout(c) PROVE BreakerStep
  BY <1>3 DEF Deny, Send, Throw, Timeout, BreakerStep
<1>4. ASSUME NEW c \in Calls, NEW s \in Surcharges, NEW blocked \in BOOLEAN, Succeed(c, s, blocked)
      PROVE  BreakerStep
  BY <1>4 DEF Succeed, BreakerStep
<1>5. ASSUME NEW c \in Calls, NEW bad \in BOOLEAN, Fail(c, bad) \/ LateAnswer(c, bad)
      PROVE  BreakerStep
  BY <1>5 DEF Fail, LateAnswer, BreakerStep
<1>6. CASE ResetBreaker \/ ReadBreaker \/ ClearCache \/ Tick \/ \E k \in Keys : LiftSuspension(k)
  BY <1>6 DEF ResetBreaker, ReadBreaker, ClearCache, Tick, LiftSuspension, BreakerStep, seen
<1> QED
  BY <1>1, <1>2, <1>3, <1>4, <1>5, <1>6, Zenon DEF Next

(* The initial states satisfy the invariant of the breaker. *)
LEMMA InitBreaker == Init => BreakerInv
BY DEF Init, BreakerInv, Closed

(* Every step keeps it, and opens the breaker exactly on a streak. *)
LEMMA StepBreaker ==
    ASSUME Types, BreakerInv, [Next]_vars
    PROVE  /\ BreakerInv'
           /\ brk.state = "closed" /\ brk'.fails # brk.fails
                  => (brk'.state = "open" <=> streak' >= Threshold)
<1>1. BreakerStep
  BY NextBreaker
<1>2. /\ brk \in BreakerRecord /\ now \in Nat /\ streak \in Nat /\ tripped \in Nat \cup {-1}
      /\ Threshold \in Nat \ {0} /\ Cooldown \in Nat \ {0}
  BY BreakerAssumption DEF Types
<1>3. CASE brk' = Thaw(brk, now) /\ UNCHANGED <<seen, now>>
  <2>1. CASE Cooled(brk, now)
    <3>1. /\ brk'.state = "half_open" /\ brk'.openedAt = brk.openedAt /\ brk'.fails = brk.fails
          /\ brk.state = "open" /\ now - brk.openedAt >= Cooldown
      BY <1>2, <1>3, <2>1 DEF Thaw, Cooled, BreakerRecord
    <3> QED
      BY <1>3, <3>1 DEF BreakerInv, seen
  <2>2. CASE ~Cooled(brk, now)
    BY <1>3, <2>2 DEF Thaw, BreakerInv, seen
  <2> QED
    BY <2>1, <2>2
<1>4. CASE brk' = brk /\ UNCHANGED seen /\ now' \in {now, now + 1}
  <2>1. tripped' = tripped /\ streak' = streak
    BY <1>4 DEF seen
  <2>2. brk.state = "half_open" => tripped \in Nat /\ now - tripped >= Cooldown
    BY DEF BreakerInv
  <2>3. brk.state = "half_open" => now' - tripped >= Cooldown
    <3>1. \A n, t, d \in Nat : n - t >= d => (n + 1) - t >= d
      OBVIOUS
    <3>2. now' = now \/ now' = now + 1
      BY <1>4
    <3>3. now \in Nat /\ Cooldown \in Nat
      BY <1>2
    <3> QED
      BY <2>2, <3>1, <3>2, <3>3
  <2> QED
    BY <1>4, <2>1, <2>3 DEF BreakerInv
<1>5. ASSUME NEW b \in {brk, Thaw(brk, now)}, brk' = Success(b), streak' = 0, UNCHANGED <<tripped, now>>
      PROVE  /\ BreakerInv'
             /\ brk.state = "closed" => brk'.state = "closed"
  BY <1>2, <1>5 DEF Success, Thaw, Cooled, Closed, BreakerInv, BreakerRecord
<1>6. CASE brk' = Closed /\ streak' = 0 /\ UNCHANGED <<tripped, now>>
  BY <1>2, <1>6 DEF Closed, BreakerInv
<1>7. CASE CountFailure /\ UNCHANGED now
  <2>1. brk' \in BreakerRecord
    BY <1>7, FailureTypes
  <2>2. brk'.state = "closed" => brk.state = "closed" /\ brk'.fails = brk.fails + 1
    BY <1>2, <1>7 DEF CountFailure, Failure, BreakerRecord
  <2>3. brk'.state = "half_open" => FALSE
    BY <1>2, <1>7 DEF CountFailure, Failure, BreakerRecord
  <2>4. brk'.state = "open" =>
           \/ brk.state # "open" /\ brk'.openedAt = now /\ tripped' = now
           \/ brk.state = "open" /\ brk'.openedAt = brk.openedAt /\ tripped' = tripped
    BY <1>2, <1>7 DEF CountFailure, Failure, BreakerRecord
  <2>5. brk.state = "closed" => (brk'.state = "open" <=> brk.fails + 1 >= Threshold)
    BY <1>2, <1>7 DEF CountFailure, Failure, BreakerRecord
  <2>6. streak' = streak + 1 /\ now' = now
    BY <1>7 DEF CountFailure
  <2> QED
    BY <1>2, <2>1, <2>2, <2>3, <2>4, <2>5, <2>6 DEF BreakerInv, BreakerRecord
<1> QED
  BY <1>1, <1>2, <1>3, <1>4, <1>5, <1>6, <1>7 DEF BreakerStep

(* A call reaches the backend only by being sent. *)
LEMMA OnlySend ==
    ASSUME Types, Next, NEW c \in Calls, st[c] = "plugins", st'[c] = "sent"
    PROVE  Send(c)
<1>1. ASSUME NEW d \in Calls, NEW x \in {"plugins", "late", "done"}, st' = [st EXCEPT ![d] = x]
      PROVE  FALSE
  BY <1>1 DEF Types
<1>2. ASSUME NEW d \in Calls, Arrive(d) \/ Busy(d) \/ Block(d) \/ Hit(d) \/ Broken(d) \/ Deny(d)
      PROVE  FALSE
  BY <1>1, <1>2 DEF Arrive, Busy, Block, Hit, Broken, Deny
<1>3. ASSUME NEW d \in Calls, Send(d) PROVE d = c
  BY <1>3 DEF Send, Types
<1>4. ASSUME NEW d \in Calls, NEW s \in Surcharges, NEW blocked \in BOOLEAN, Succeed(d, s, blocked)
      PROVE  FALSE
  BY <1>1, <1>4 DEF Succeed
<1>5. ASSUME NEW d \in Calls, NEW bad \in BOOLEAN,
             Fail(d, bad) \/ LateAnswer(d, bad) \/ Throw(d) \/ Timeout(d)
      PROVE  FALSE
  BY <1>1, <1>5 DEF Fail, LateAnswer, Throw, Timeout
<1>6. ASSUME \/ ResetBreaker \/ ReadBreaker \/ ClearCache \/ Tick \/ \E k \in Keys : LiftSuspension(k)
      PROVE  FALSE
  BY <1>6 DEF ResetBreaker, ReadBreaker, ClearCache, Tick, LiftSuspension
<1>7. ASSUME NEW d \in Calls, Throw(d) \/ Timeout(d) PROVE FALSE
  BY <1>1, <1>7 DEF Throw, Timeout
<1> QED
  BY <1>2, <1>3, <1>4, <1>5, <1>6, <1>7, Zenon DEF Next

(* A call is sent past a breaker that is not closed only when its cooldown *)
(* is over.                                                                *)
LEMMA SendAdmitted ==
    ASSUME Types, BreakerInv, NEW c \in Calls, Send(c), brk.state # "closed"
    PROVE  now - tripped >= Cooldown
BY DEF Send, Admits, Thaw, Cooled, BreakerInv, Types, BreakerRecord

-----------------------------------------------------------------------------
(* The cache.  An entry was stored when the call it came from was answered *)
(* well, and that call is over.                                            *)
CacheInv ==
    \A x \in CacheKeys : cache[x] # None =>
        LET c == cache[x].by IN st[c] = "done" /\ okAt[c] = cache[x].at

(* An entry of the cache is an entry. *)
LEMMA EntryTypes ==
    ASSUME Types, NEW x \in CacheKeys, cache[x] # None
    PROVE  cache[x] \in CacheEntry /\ cache[x].by \in Calls /\ cache[x].at \in Nat
BY DEF Types, CacheEntry

(* The initial states have an empty cache. *)
LEMMA InitCache == Init => CacheInv
BY DEF Init, CacheInv

(* A step that stores nothing, and leaves calls that are over alone. *)
LEMMA KeepCache ==
    ASSUME Types, CacheInv,
           \A x \in CacheKeys : \/ cache'[x] = None
                                \/ /\ cache[x] # None
                                   /\ cache'[x].by = cache[x].by /\ cache'[x].at = cache[x].at,
           \A c \in Calls : st[c] = "done" => st'[c] = "done" /\ okAt'[c] = okAt[c]
    PROVE  CacheInv'
<1> SUFFICES ASSUME NEW x \in CacheKeys, cache'[x] # None
             PROVE  st'[cache'[x].by] = "done" /\ okAt'[cache'[x].by] = cache'[x].at
  BY DEF CacheInv, CacheKeys
<1>1. cache[x] # None /\ cache'[x].by = cache[x].by /\ cache'[x].at = cache[x].at
  OBVIOUS
<1>2. cache[x].by \in Calls
  BY <1>1, EntryTypes
<1>3. st[cache[x].by] = "done" /\ okAt[cache[x].by] = cache[x].at
  BY <1>1 DEF CacheInv
<1> QED
  BY <1>1, <1>2, <1>3

(* A success stores an entry that is its own. *)
LEMMA SucceedCache ==
    ASSUME Types, CacheInv, NEW c \in Calls, NEW s \in Surcharges, NEW blocked \in BOOLEAN,
           Succeed(c, s, blocked)
    PROVE  CacheInv'
<1>1. /\ st[c] = "sent" /\ st' = [st EXCEPT ![c] = "done"]
      /\ okAt' = [okAt EXCEPT ![c] = now] /\ Store(c) /\ now' = now
  BY DEF Succeed
<1> DEFINE entry == [by |-> c, at |-> now, used |-> now]
<1>2. \A x \in CacheKeys : cache'[x] = cache[x] \/ cache'[x] = None \/ cache'[x] = entry
  <2> HIDE DEF entry
  <2>1. \/ cache' = cache
        \/ \E x \in CacheKeys : cache' = [cache EXCEPT ![x] = entry]
        \/ \E x, y \in CacheKeys : cache' = [cache EXCEPT ![y] = None, ![x] = entry]
    BY <1>1 DEF Store, CacheKeys, Entries, entry
  <2> QED
    BY <2>1 DEF Types
<1> SUFFICES ASSUME NEW x \in CacheKeys, cache'[x] # None
             PROVE  st'[cache'[x].by] = "done" /\ okAt'[cache'[x].by] = cache'[x].at
  BY DEF CacheInv, CacheKeys
<1>3. CASE cache'[x] = entry
  BY <1>1, <1>3 DEF Types
<1>4. CASE cache'[x] = cache[x]
  <2>1. cache[x] # None /\ cache[x].by \in Calls
    BY <1>4, EntryTypes
  <2>2. st[cache[x].by] = "done" /\ okAt[cache[x].by] = cache[x].at
    BY <2>1 DEF CacheInv
  <2> QED
    BY <1>1, <1>4, <2>1, <2>2 DEF Types
<1> QED
  BY <1>2, <1>3, <1>4

(* Every step keeps the cache true. *)
LEMMA StepCache == Types /\ CacheInv /\ [Next]_vars => CacheInv'
<1> SUFFICES ASSUME Types, CacheInv, [Next]_vars PROVE CacheInv'
  OBVIOUS
<1> DEFINE Over == \A c \in Calls : st[c] = "done" => st'[c] = "done" /\ okAt'[c] = okAt[c]
           Same == \A x \in CacheKeys : \/ cache'[x] = None
                                        \/ /\ cache[x] # None
                                           /\ cache'[x].by = cache[x].by
                                           /\ cache'[x].at = cache[x].at
<1>1. cache' = cache => Same
  OBVIOUS
<1>2. ASSUME NEW c \in Calls, DropStale(c) PROVE Same
  BY <1>2 DEF DropStale, Types
<1>3. ASSUME NEW c \in Calls, NEW x \in {"plugins", "sent", "late", "done"},
             st[c] # "done", st' = [st EXCEPT ![c] = x],
             okAt' = okAt \/ okAt' = [okAt EXCEPT ![c] = now]
      PROVE  Over
  BY <1>3 DEF Types
<1>4. CASE UNCHANGED vars
  BY <1>1, <1>4, KeepCache DEF vars, caps
<1>5. ASSUME NEW c \in Calls, Arrive(c) \/ Busy(c) \/ Block(c) PROVE CacheInv'
  <2>1. Over
    BY <1>3, <1>5 DEF Arrive, Busy, Block, caps
  <2> QED
    BY <1>1, <1>5, <2>1, KeepCache DEF Arrive, Busy, Block
<1>6. ASSUME NEW c \in Calls, Broken(c) \/ Deny(c) \/ Send(c) PROVE CacheInv'
  <2>1. Over
    BY <1>3, <1>6 DEF Broken, Deny, Send, Missed, caps
  <2>2. Same
    BY <1>2, <1>6 DEF Broken, Deny, Send
  <2> QED
    BY <2>1, <2>2, KeepCache
<1>7. ASSUME NEW c \in Calls, Hit(c) PROVE CacheInv'
  <2>1. Over
    BY <1>3, <1>7 DEF Hit
  <2> DEFINE y == CacheKey[ArgsOf[c]]
  <2>2. y \in CacheKeys /\ cache[y] # None /\ cache' = [cache EXCEPT ![y].used = now]
    BY <1>7 DEF Hit, Fresh, CacheKeys
  <2>3. cache[y] \in CacheEntry
    BY <2>2, EntryTypes
  <2>4. /\ [cache[y] EXCEPT !.used = now].by = cache[y].by
        /\ [cache[y] EXCEPT !.used = now].at = cache[y].at
    BY <2>3 DEF CacheEntry
  <2>5. Same
    <3>1. TAKE x \in CacheKeys
    <3>2. CASE x = y
      BY <2>2, <2>4, <3>2 DEF Types
    <3>3. CASE x # y
      BY <2>2, <3>3 DEF Types
    <3> QED
      BY <3>2, <3>3
  <2> HIDE DEF Same, Over
  <2> QED
    BY <2>1, <2>5, KeepCache DEF Same, Over
<1>8. ASSUME NEW c \in Calls, NEW s \in Surcharges, NEW blocked \in BOOLEAN, Succeed(c, s, blocked)
      PROVE  CacheInv'
  BY <1>8, SucceedCache
<1>9. ASSUME NEW c \in Calls, NEW bad \in BOOLEAN,
             Fail(c, bad) \/ LateAnswer(c, bad) \/ Throw(c) \/ Timeout(c)
      PROVE  CacheInv'
  <2>1. Over
    BY <1>3, <1>9 DEF Fail, LateAnswer, Throw, Timeout, caps
  <2> QED
    BY <1>1, <1>9, <2>1, KeepCache DEF Fail, LateAnswer, Throw, Timeout
<1>10. ASSUME NEW c \in Calls, Throw(c) \/ Timeout(c) PROVE CacheInv'
  BY <1>9, <1>10
<1>11. CASE ResetBreaker \/ ReadBreaker \/ Tick \/ \E k \in Keys : LiftSuspension(k)
  BY <1>1, <1>11, KeepCache DEF ResetBreaker, ReadBreaker, Tick, LiftSuspension, caps
<1>12. CASE ClearCache
  BY <1>12, KeepCache DEF ClearCache, caps
<1> QED
  BY <1>4, <1>5, <1>6, <1>7, <1>8, <1>9, <1>10, <1>11, <1>12, Zenon DEF Next

(* A hit serves what is fresh. *)
LEMMA HitFresh ==
    ASSUME Types, CacheInv, Next, NEW c \in Calls, out[c] = "none", out'[c] = "cached"
    PROVE  okAt[from'[c]] # -1 /\ now - okAt[from'[c]] <= Ttl
<1>1. ASSUME NEW d \in Calls, NEW x, x # "cached", out' = [out EXCEPT ![d] = x] \/ out' = out PROVE FALSE
  BY <1>1 DEF Types
<1>2. ASSUME NEW d \in Calls, Arrive(d) \/ Busy(d) \/ Block(d) \/ Broken(d) \/ Deny(d) \/ Send(d)
      PROVE  FALSE
  BY <1>1, <1>2 DEF Arrive, Busy, Block, Broken, Deny, Send, Tell
<1>3. ASSUME NEW d \in Calls, NEW s \in Surcharges, NEW blocked \in BOOLEAN, Succeed(d, s, blocked)
      PROVE  FALSE
  BY <1>1, <1>3 DEF Succeed, Tell
<1>4. ASSUME NEW d \in Calls, NEW bad \in BOOLEAN,
             Fail(d, bad) \/ LateAnswer(d, bad) \/ Throw(d) \/ Timeout(d)
      PROVE  FALSE
  BY <1>1, <1>4 DEF Fail, LateAnswer, Throw, Timeout, Tell
<1>5. ASSUME NEW d \in Calls, Throw(d) \/ Timeout(d) PROVE FALSE
  BY <1>4, <1>5
<1>6. ASSUME ResetBreaker \/ ReadBreaker \/ ClearCache \/ Tick \/ \E k \in Keys : LiftSuspension(k)
      PROVE  FALSE
  BY <1>6 DEF ResetBreaker, ReadBreaker, ClearCache, Tick, LiftSuspension
<1>7. PICK d \in Calls : Hit(d)
  BY <1>2, <1>3, <1>4, <1>5, <1>6, Zenon DEF Next
<1>8. d = c
  BY <1>7 DEF Hit, Tell, Types
<1> DEFINE x == CacheKey[ArgsOf[c]]
<1>9. x \in CacheKeys /\ cache[x] # None /\ now - cache[x].at <= Ttl /\ from'[c] = cache[x].by
  BY <1>7, <1>8 DEF Hit, Fresh, CacheKeys, Types
<1>10. okAt[cache[x].by] = cache[x].at /\ cache[x].at \in Nat
  BY <1>9, EntryTypes DEF CacheInv
<1> QED
  BY <1>9, <1>10

-----------------------------------------------------------------------------
(* What a caller was told, by the station of its call.                     *)
OutInv == \A c \in Calls : /\ st[c] \in {"new", "plugins", "sent"} => out[c] = "none"
                           /\ st[c] = "late" => out[c] = "timeout"

(* Nobody has been told anything in the beginning. *)
LEMMA InitOut == Init => OutInv
BY DEF Init, OutInv

(* A caller is told when the call ends. *)
LEMMA StepOut == Types /\ OutInv /\ [Next]_vars => OutInv'
<1> SUFFICES ASSUME Types, OutInv, [Next]_vars PROVE OutInv'
  OBVIOUS
<1>1. ASSUME out' = out, st' = st PROVE OutInv'
  BY <1>1 DEF OutInv
<1>2. ASSUME NEW c \in Calls, Arrive(c) PROVE OutInv'
  BY <1>2 DEF Arrive, OutInv, Types
<1>3. ASSUME NEW c \in Calls, Busy(c) \/ Block(c) \/ Hit(c) PROVE OutInv'
  BY <1>3 DEF Busy, Block, Hit, Tell, OutInv, Types
<1>4. ASSUME NEW c \in Calls, Broken(c) \/ Deny(c) PROVE OutInv'
  BY <1>4 DEF Broken, Deny, Tell, OutInv, Types
<1>5. ASSUME NEW c \in Calls, Send(c) PROVE OutInv'
  BY <1>5 DEF Send, Missed, OutInv, Types
<1>6. ASSUME NEW c \in Calls, NEW s \in Surcharges, NEW blocked \in BOOLEAN, Succeed(c, s, blocked)
      PROVE  OutInv'
  BY <1>6 DEF Succeed, Tell, OutInv, Types
<1>7. ASSUME NEW c \in Calls, NEW bad \in BOOLEAN, Fail(c, bad) \/ LateAnswer(c, bad) PROVE OutInv'
  BY <1>7 DEF Fail, LateAnswer, Tell, OutInv, Types
<1>8. ASSUME NEW c \in Calls, Throw(c) \/ Timeout(c) PROVE OutInv'
  BY <1>8 DEF Throw, Timeout, Tell, OutInv, Types
<1>9. CASE \/ ResetBreaker \/ ReadBreaker \/ ClearCache \/ Tick \/ UNCHANGED vars
           \/ \E k \in Keys : LiftSuspension(k)
  BY <1>1, <1>9 DEF ResetBreaker, ReadBreaker, ClearCache, Tick, LiftSuspension, vars
<1> QED
  BY <1>2, <1>3, <1>4, <1>5, <1>6, <1>7, <1>8, <1>9, Zenon DEF Next

-----------------------------------------------------------------------------
(* Spend caps.  A counter matches the periods in which calls were counted  *)
(* when it has the calls of its own period, their price, and none is in a  *)
(* later period.                                                           *)
InPeriod(F, p) == {c \in DOMAIN F : F[c] = p}
Matches(ctr, F) ==
    /\ ctr.calls = Cardinality(InPeriod(F, ctr.period))
    /\ ctr.credits = Price * ctr.calls
    /\ \A c \in DOMAIN F : F[c] <= ctr.period

DayOf == [c \in Counted(Calls) |-> Today(okAt[c])]
HourOf(k) == [c \in Counted(Of(k)) |-> Hour(okAt[c])]

CapsInv ==
    /\ \A c \in Counted(Calls) : okAt[c] \in Nat
    /\ Matches(day, DayOf) /\ day.period <= Today(now)
    /\ \A k \in Keys : Matches(hour[k], HourOf(k)) /\ hour[k].period <= Hour(now)

(* A counter read in its own or a later period matches, and has the calls  *)
(* of the period it is read in.                                            *)
LEMMA MatchCurrent ==
    ASSUME NEW ctr \in CapCounter, NEW p \in Nat, ctr.period <= p,
           NEW F, F \in [DOMAIN F -> Nat], Matches(ctr, F)
    PROVE  /\ Matches(Current(ctr, p), F) /\ Current(ctr, p).period = p
           /\ Current(ctr, p).calls = Cardinality(InPeriod(F, p))
           /\ Current(ctr, p).credits = Price * Current(ctr, p).calls
<1>1. CASE ctr.period = p
  BY <1>1 DEF Current, Matches
<1>2. CASE ctr.period # p
  <2>1. \A c \in DOMAIN F : F[c] < p
    BY <1>2 DEF Matches, CapCounter
  <2>2. InPeriod(F, p) = {}
    BY <2>1 DEF InPeriod
  <2>3. /\ Current(ctr, p).period = p /\ Current(ctr, p).calls = 0 /\ Current(ctr, p).credits = 0
    BY <1>2 DEF Current, Counter
  <2>4. Cardinality(InPeriod(F, p)) = 0
    BY <2>2, FS_EmptySet
  <2>5. Price * 0 = 0
    BY PipelineAssumption
  <2> QED
    BY <2>1, <2>3, <2>4, <2>5 DEF Matches
<1> QED
  BY <1>1, <1>2

(* One call more, counted in the period of the counter. *)
LEMMA MatchRecord ==
    ASSUME NEW ctr \in CapCounter, NEW F, F \in [DOMAIN F -> Nat], Matches(ctr, F),
           DOMAIN F \in SUBSET Calls, NEW c \in Calls, c \notin DOMAIN F,
           NEW G, G \in [DOMAIN G -> Nat], DOMAIN G = DOMAIN F \cup {c},
           G[c] = ctr.period, \A d \in DOMAIN F : G[d] = F[d]
    PROVE  Matches(Record(ctr, Price), G) /\ Record(ctr, Price).period = ctr.period
<1>1. InPeriod(G, ctr.period) = InPeriod(F, ctr.period) \cup {c} /\ c \notin InPeriod(F, ctr.period)
  BY DEF InPeriod
<1>2. IsFiniteSet(InPeriod(F, ctr.period))
  <2>1. InPeriod(F, ctr.period) \in SUBSET Calls
    BY DEF InPeriod
  <2> QED
    BY <2>1, FS_Subset, PipelineAssumption
<1>3. Cardinality(InPeriod(G, ctr.period)) = Cardinality(InPeriod(F, ctr.period)) + 1
  BY <1>1, <1>2, FS_AddElement
<1>4. ctr.calls \in Nat /\ ctr.credits \in Nat /\ ctr.period \in Nat
  BY DEF CapCounter
<1>5. /\ Record(ctr, Price).calls = ctr.calls + 1 /\ Record(ctr, Price).credits = ctr.credits + Price
      /\ Record(ctr, Price).period = ctr.period
  BY <1>4 DEF Record, CapCounter
<1>6. Price * (ctr.calls + 1) = Price * ctr.calls + Price
  <2>1. \A n, m \in Nat : n * (m + 1) = n * m + n
    OBVIOUS
  <2> QED
    BY <1>4, <2>1, PipelineAssumption
<1>7. \A d \in DOMAIN G : G[d] <= ctr.period
  BY <1>4 DEF Matches
<1> QED
  BY <1>3, <1>5, <1>6, <1>7 DEF Matches

(* The periods of counted calls are numbers. *)
LEMMA PeriodTypes ==
    ASSUME Types, CapsInv, NEW k \in Keys
    PROVE  /\ DayOf \in [DOMAIN DayOf -> Nat] /\ DOMAIN DayOf = Counted(Calls)
           /\ HourOf(k) \in [DOMAIN HourOf(k) -> Nat] /\ DOMAIN HourOf(k) = Counted(Of(k))
           /\ Counted(Of(k)) \in SUBSET Counted(Calls)
           /\ Today(now) \in Nat /\ Hour(now) \in Nat
<1>1. Counted(Of(k)) \in SUBSET Counted(Calls)
  BY DEF Counted, Of
<1>2. \A t \in Nat : Today(t) \in Nat /\ Hour(t) \in Nat
  BY Periods
<1> QED
  BY <1>1, <1>2 DEF DayOf, HourOf, CapsInv, Types

(* Nothing is counted in the beginning. *)
LEMMA InitCaps == Init => CapsInv
<1> SUFFICES ASSUME Init PROVE CapsInv
  OBVIOUS
<1>1. Counted(Calls) = {} /\ \A k \in Keys : Counted(Of(k)) = {}
  BY DEF Init, Counted, Of
<1>2. ASSUME NEW F, DOMAIN F = {} PROVE Matches(Counter(0), F)
  <2>1. InPeriod(F, 0) = {}
    BY <1>2 DEF InPeriod
  <2>2. Cardinality(InPeriod(F, 0)) = 0
    BY <2>1, FS_EmptySet
  <2>3. Price * 0 = 0
    BY PipelineAssumption
  <2> QED
    BY <1>2, <2>2, <2>3 DEF Matches, Counter
<1>3. Today(0) \in Nat /\ Hour(0) \in Nat
  <2>1. \A t \in Nat : Today(t) \in Nat /\ Hour(t) \in Nat
    BY Periods
  <2> QED
    BY <2>1
<1>4. Counter(0).period = 0
  BY DEF Counter
<1>5. Matches(day, DayOf) /\ \A k \in Keys : Matches(hour[k], HourOf(k))
  <2>1. DOMAIN DayOf = {} /\ \A k \in Keys : DOMAIN HourOf(k) = {}
    BY <1>1 DEF DayOf, HourOf
  <2>2. day = Counter(0) /\ \A k \in Keys : hour[k] = Counter(0)
    BY DEF Init
  <2> QED
    BY <1>2, <2>1, <2>2
<1> QED
  BY <1>1, <1>3, <1>4, <1>5 DEF Init, CapsInv

(* A step that counts nothing may still move counters to their periods. *)
LEMMA KeepCaps ==
    ASSUME Types, CapsInv, Counted(Calls)' = Counted(Calls),
           \A c \in Counted(Calls) : okAt'[c] = okAt[c],
           now' = now \/ now' = now + 1,
           day' = day \/ day' = Current(day, Today(now)),
           \A k \in Keys : hour'[k] = hour[k] \/ hour'[k] = Current(hour[k], Hour(now))
    PROVE  CapsInv'
<1>1. now \in Nat /\ now' \in Nat /\ now <= now'
  BY DEF Types
<1>2. /\ Today(now) \in Nat /\ Today(now') \in Nat /\ Today(now) <= Today(now')
      /\ Hour(now) \in Nat /\ Hour(now') \in Nat /\ Hour(now) <= Hour(now')
  BY <1>1, Periods
<1>3. DayOf' = DayOf
  <2>1. \A c \in Counted(Calls) : Today(okAt'[c]) = Today(okAt[c])
    OBVIOUS
  <2> QED
    BY <2>1 DEF DayOf
<1>4. Matches(day', DayOf) /\ day'.period <= Today(now')
  <2>1. day \in CapCounter /\ day.period \in Nat /\ Matches(day, DayOf) /\ day.period <= Today(now)
    BY DEF CapsInv, Types, CapCounter
  <2>2. CASE day' = day
    BY <1>2, <2>1, <2>2
  <2>3. CASE day' = Current(day, Today(now))
    <3>1. DayOf \in [DOMAIN DayOf -> Nat]
      <4>1. \A t \in Nat : Today(t) \in Nat
        BY Periods
      <4> QED
        BY <4>1 DEF DayOf, CapsInv
    <3>2. Matches(Current(day, Today(now)), DayOf) /\ Current(day, Today(now)).period = Today(now)
      BY <1>2, <2>1, <3>1, MatchCurrent
    <3> QED
      BY <1>2, <2>3, <3>2
  <2> QED
    BY <2>2, <2>3
<1>5. ASSUME NEW k \in Keys
      PROVE  Matches(hour'[k], HourOf(k)) /\ hour'[k].period <= Hour(now') /\ HourOf(k)' = HourOf(k)
  <2>1. /\ hour[k] \in CapCounter /\ hour[k].period \in Nat
        /\ Matches(hour[k], HourOf(k)) /\ hour[k].period <= Hour(now)
    BY DEF CapsInv, Types, CapCounter
  <2>2. HourOf(k)' = HourOf(k)
    <3>1. Counted(Of(k))' = Counted(Of(k)) /\ Counted(Of(k)) \in SUBSET Counted(Calls)
      BY DEF Counted, Of
    <3> QED
      BY <3>1 DEF HourOf
  <2>3. CASE hour'[k] = hour[k]
    BY <1>2, <2>1, <2>2, <2>3
  <2>4. CASE hour'[k] = Current(hour[k], Hour(now))
    <3>1. HourOf(k) \in [DOMAIN HourOf(k) -> Nat]
      BY PeriodTypes
    <3>2. Matches(Current(hour[k], Hour(now)), HourOf(k)) /\ Current(hour[k], Hour(now)).period = Hour(now)
      BY <1>2, <2>1, <3>1, MatchCurrent
    <3> QED
      BY <1>2, <2>2, <2>4, <3>2
  <2> QED
    BY <2>3, <2>4
<1>6. \A c \in Counted(Calls)' : okAt'[c] \in Nat
  BY DEF CapsInv
<1> QED
  BY <1>3, <1>4, <1>5, <1>6 DEF CapsInv

(* A success is counted in today and in this hour of its key. *)
LEMMA CountCaps ==
    ASSUME Types, CapsInv, NEW c \in Calls, NEW x \in {"ok", "cached"},
           out[c] = "none", out' = [out EXCEPT ![c] = x],
           okAt' = [okAt EXCEPT ![c] = now], now' = now, Count(c)
    PROVE  CapsInv'
<1>1. /\ now \in Nat /\ KeyOf[c] \in Keys /\ day \in CapCounter
      /\ \A k \in Keys : hour[k] \in CapCounter
  BY KeyOfCall DEF Types
<1>2. Today(now) \in Nat /\ Hour(now) \in Nat
  BY <1>1, Periods
<1>3. /\ c \notin Counted(Calls) /\ Counted(Calls)' = Counted(Calls) \cup {c}
      /\ \A k \in Keys : Counted(Of(k))' = IF KeyOf[c] = k THEN Counted(Of(k)) \cup {c} ELSE Counted(Of(k))
      /\ \A k \in Keys : c \in Counted(Of(k)) => FALSE
  BY DEF Counted, Of, Types
<1>4. okAt'[c] = now /\ \A d \in Counted(Calls) : okAt'[d] = okAt[d]
  BY <1>3 DEF Types, Counted
<1>5. \A d \in Counted(Calls)' : okAt'[d] \in Nat
  BY <1>1, <1>3, <1>4 DEF CapsInv
<1>6. Matches(day', DayOf') /\ day'.period <= Today(now)
  <2> DEFINE ctr == Current(day, Today(now))
  <2>1. DayOf \in [DOMAIN DayOf -> Nat] /\ DOMAIN DayOf = Counted(Calls)
    BY <1>1, PeriodTypes
  <2>2. ctr \in CapCounter /\ Matches(ctr, DayOf) /\ ctr.period = Today(now)
    BY <1>1, <1>2, <2>1, MatchCurrent, CounterTypes DEF CapsInv
  <2>3. /\ DOMAIN DayOf' = DOMAIN DayOf \cup {c}
        /\ DayOf'[c] = Today(now) /\ \A d \in DOMAIN DayOf : DayOf'[d] = DayOf[d]
    BY <1>3, <1>4 DEF DayOf
  <2>4. DayOf' \in [DOMAIN DayOf' -> Nat]
    <3>1. \A d \in DOMAIN DayOf' : DayOf'[d] \in Nat
      BY <1>2, <2>1, <2>3
    <3> QED
      BY <3>1 DEF DayOf
  <2>5. DOMAIN DayOf \in SUBSET Calls /\ c \notin DOMAIN DayOf
    BY <1>3, <2>1 DEF Counted
  <2>6. Matches(Record(ctr, Price), DayOf') /\ Record(ctr, Price).period = Today(now)
    <3> HIDE DEF ctr
    <3> QED
      BY <2>1, <2>2, <2>3, <2>4, <2>5, MatchRecord
  <2> QED
    BY <1>2, <2>6 DEF Count
<1>7. ASSUME NEW k \in Keys
      PROVE  Matches(hour'[k], HourOf(k)') /\ hour'[k].period <= Hour(now)
  <2>1. HourOf(k) \in [DOMAIN HourOf(k) -> Nat] /\ DOMAIN HourOf(k) = Counted(Of(k))
    BY PeriodTypes
  <2>2. CASE KeyOf[c] # k
    <3>1. HourOf(k)' = HourOf(k)
      <4>1. Counted(Of(k))' = Counted(Of(k)) /\ Counted(Of(k)) \in SUBSET Counted(Calls)
        BY <1>3, <2>2 DEF Counted, Of
      <4> QED
        BY <1>4, <4>1 DEF HourOf
    <3>2. hour'[k] = hour[k]
      BY <1>1, <2>2 DEF Count, Types
    <3> QED
      BY <3>1, <3>2 DEF CapsInv
  <2>3. CASE KeyOf[c] = k
    <3> DEFINE ctr == Current(hour[k], Hour(now))
    <3>1. ctr \in CapCounter /\ Matches(ctr, HourOf(k)) /\ ctr.period = Hour(now)
      BY <1>1, <1>2, <2>1, MatchCurrent, CounterTypes DEF CapsInv
    <3>2. Counted(Of(k))' = Counted(Of(k)) \cup {c} /\ Counted(Of(k)) \in SUBSET Counted(Calls)
      BY <1>3, <2>3 DEF Counted, Of
    <3>3. /\ DOMAIN HourOf(k)' = DOMAIN HourOf(k) \cup {c}
          /\ HourOf(k)'[c] = Hour(now) /\ \A d \in DOMAIN HourOf(k) : HourOf(k)'[d] = HourOf(k)[d]
      BY <1>3, <1>4, <3>2 DEF HourOf
    <3>4. HourOf(k)' \in [DOMAIN HourOf(k)' -> Nat]
      <4>1. \A d \in DOMAIN HourOf(k)' : HourOf(k)'[d] \in Nat
        BY <1>2, <2>1, <3>3
      <4> QED
        BY <4>1 DEF HourOf
    <3>5. DOMAIN HourOf(k) \in SUBSET Calls /\ c \notin DOMAIN HourOf(k)
      BY <1>3, <2>1 DEF Counted, Of
    <3>6. Matches(Record(ctr, Price), HourOf(k)') /\ Record(ctr, Price).period = Hour(now)
      <4> HIDE DEF ctr
      <4> QED
        BY <2>1, <3>1, <3>3, <3>4, <3>5, MatchRecord
    <3>7. hour'[k] = Record(ctr, Price)
      BY <2>3 DEF Count, Types
    <3> QED
      BY <1>2, <3>6, <3>7
  <2> QED
    BY <2>2, <2>3
<1> QED
  BY <1>5, <1>6, <1>7 DEF CapsInv

(* Every step keeps the counters exact. *)
LEMMA StepCaps == Types /\ OutInv /\ CapsInv /\ [Next]_vars => CapsInv'
<1> SUFFICES ASSUME Types, OutInv, CapsInv, [Next]_vars PROVE CapsInv'
  OBVIOUS
<1>1. ASSUME Counted(Calls)' = Counted(Calls), okAt' = okAt, day' = day, hour' = hour,
             now' = now \/ now' = now + 1
      PROVE  CapsInv'
  BY <1>1, KeepCaps
<1>2. ASSUME NEW c \in Calls, NEW x \in Outcomes \ {"ok", "cached"},
             out[c] \notin {"ok", "cached"}, out' = [out EXCEPT ![c] = x]
      PROVE  Counted(Calls)' = Counted(Calls)
  BY <1>2 DEF Counted, Types
<1>3. ASSUME NEW c \in Calls, Arrive(c) PROVE CapsInv'
  <2>1. out[c] = "none"
    BY <1>3 DEF Arrive, OutInv
  <2>2. out' = out \/ out' = [out EXCEPT ![c] = "capped"]
    BY <1>3 DEF Arrive
  <2>3. Counted(Calls)' = Counted(Calls)
    BY <1>2, <2>1, <2>2 DEF Counted, Outcomes
  <2>4. day' = day \/ day' = Current(day, Today(now))
    BY <1>3 DEF Arrive
  <2>5. \A k \in Keys : hour'[k] = hour[k] \/ hour'[k] = Current(hour[k], Hour(now))
    BY <1>3 DEF Arrive, Types
  <2>6. now' = now /\ okAt' = okAt
    BY <1>3 DEF Arrive
  <2> QED
    BY <2>3, <2>4, <2>5, <2>6, KeepCaps
<1>4. ASSUME NEW c \in Calls, Busy(c) \/ Block(c) \/ Broken(c) \/ Deny(c) PROVE CapsInv'
  <2>1. out[c] = "none"
    BY <1>4 DEF Busy, Block, Broken, Deny, Missed, OutInv
  <2>2. \E x \in Outcomes \ {"ok", "cached"} : out' = [out EXCEPT ![c] = x]
    BY <1>4 DEF Busy, Block, Broken, Deny, Tell, Outcomes
  <2>3. now' = now /\ okAt' = okAt /\ day' = day /\ hour' = hour
    BY <1>4 DEF Busy, Block, Broken, Deny, caps
  <2> QED
    BY <1>1, <1>2, <2>1, <2>2, <2>3
<1>5. ASSUME NEW c \in Calls, Hit(c) PROVE CapsInv'
  <2>1. /\ out[c] = "none" /\ out' = [out EXCEPT ![c] = "cached"]
        /\ okAt' = [okAt EXCEPT ![c] = now] /\ now' = now /\ Count(c)
    BY <1>5 DEF Hit, Tell, OutInv
  <2> QED
    BY <2>1, CountCaps
<1>6. ASSUME NEW c \in Calls, Send(c) PROVE CapsInv'
  <2>1. now' = now /\ out' = out /\ okAt' = okAt /\ day' = day /\ hour' = hour
    BY <1>6 DEF Send, caps
  <2> QED
    BY <1>1, <2>1 DEF Counted
<1>7. ASSUME NEW c \in Calls, NEW s \in Surcharges, NEW blocked \in BOOLEAN, Succeed(c, s, blocked)
      PROVE  CapsInv'
  <2>1. out[c] = "none" /\ okAt' = [okAt EXCEPT ![c] = now] /\ now' = now
    BY <1>7 DEF Succeed, OutInv
  <2>2. CASE blocked
    <3>1. out' = [out EXCEPT ![c] = "censored"] /\ day' = day /\ hour' = hour
      BY <1>7, <2>2 DEF Succeed, Tell
    <3>2. Counted(Calls)' = Counted(Calls)
      BY <1>2, <2>1, <3>1 DEF Outcomes
    <3>3. \A d \in Counted(Calls) : okAt'[d] = okAt[d]
      BY <2>1 DEF Counted, Types
    <3> QED
      BY <2>1, <3>1, <3>2, <3>3, KeepCaps
  <2>3. CASE ~blocked
    <3>1. out' = [out EXCEPT ![c] = "ok"] /\ Count(c)
      BY <1>7, <2>3 DEF Succeed, Tell
    <3> QED
      BY <2>1, <3>1, CountCaps
  <2> QED
    BY <2>2, <2>3
<1>8. ASSUME NEW c \in Calls, NEW bad \in BOOLEAN, Fail(c, bad) \/ Throw(c) \/ Timeout(c)
      PROVE  CapsInv'
  <2>1. out[c] = "none"
    BY <1>8 DEF Fail, Throw, Timeout, OutInv
  <2>2. \E x \in Outcomes \ {"ok", "cached"} : out' = [out EXCEPT ![c] = x]
    BY <1>8 DEF Fail, Throw, Timeout, Tell, Outcomes
  <2>3. now' = now /\ okAt' = okAt /\ day' = day /\ hour' = hour
    BY <1>8 DEF Fail, Throw, Timeout, caps
  <2> QED
    BY <1>1, <1>2, <2>1, <2>2, <2>3
<1>9. ASSUME NEW c \in Calls, NEW bad \in BOOLEAN, LateAnswer(c, bad) PROVE CapsInv'
  BY <1>1, <1>9 DEF LateAnswer, caps, Counted
<1>10. CASE \/ ResetBreaker \/ ReadBreaker \/ ClearCache \/ Tick \/ UNCHANGED vars
            \/ \E k \in Keys : LiftSuspension(k)
  <2>1. out' = out /\ okAt' = okAt /\ day' = day /\ hour' = hour /\ (now' = now \/ now' = now + 1)
    BY <1>10 DEF ResetBreaker, ReadBreaker, ClearCache, Tick, LiftSuspension, caps, vars
  <2> QED
    BY <1>1, <2>1 DEF Counted
<1>11. ASSUME NEW c \in Calls, Throw(c) \/ Timeout(c) PROVE CapsInv'
  BY <1>8, <1>11
<1> QED
  BY <1>3, <1>4, <1>5, <1>6, <1>7, <1>8, <1>9, <1>10, <1>11, Zenon DEF Next

(* What the counters have is what was answered well in their periods. *)
LEMMA CountsNow ==
    ASSUME Types, CapsInv, NEW k \in Keys
    PROVE  /\ Current(day, Today(now)).calls = Cardinality(OkToday)
           /\ Current(day, Today(now)).credits = Price * Cardinality(OkToday)
           /\ Current(hour[k], Hour(now)).calls = Cardinality(OkThisHour(k))
           /\ Cardinality(OkToday) \in Nat
<1>1. /\ DayOf \in [DOMAIN DayOf -> Nat] /\ HourOf(k) \in [DOMAIN HourOf(k) -> Nat]
      /\ Today(now) \in Nat /\ Hour(now) \in Nat
  BY PeriodTypes
<1>2. InPeriod(DayOf, Today(now)) = OkToday /\ InPeriod(HourOf(k), Hour(now)) = OkThisHour(k)
  BY DEF InPeriod, DayOf, HourOf, OkToday, OkThisHour
<1>3. /\ day \in CapCounter /\ day.period <= Today(now) /\ Matches(day, DayOf)
      /\ hour[k] \in CapCounter /\ hour[k].period <= Hour(now) /\ Matches(hour[k], HourOf(k))
  BY DEF Types, CapsInv
<1>4. /\ Current(day, Today(now)).calls = Cardinality(InPeriod(DayOf, Today(now)))
      /\ Current(day, Today(now)).credits = Price * Current(day, Today(now)).calls
  BY <1>1, <1>3, MatchCurrent
<1>5. Current(hour[k], Hour(now)).calls = Cardinality(InPeriod(HourOf(k), Hour(now)))
  BY <1>1, <1>3, MatchCurrent
<1>6. Current(day, Today(now)).calls \in Nat
  BY <1>1, <1>3, CounterTypes DEF CapCounter
<1> QED
  BY <1>2, <1>4, <1>5, <1>6

(* A call passes the caps exactly when there is room. *)
LEMMA StepPasses ==
    ASSUME Types, CapsInv, [Next]_vars, NEW c \in Calls, st[c] = "new", st'[c] # "new"
    PROVE  st'[c] = "plugins" <=> HasRoom(KeyOf[c])
<1> DEFINE k == KeyOf[c]
           today == Current(day, Today(now))
           this == Current(hour[k], Hour(now))
           since == SuspensionAt(suspended[k], now)
<1>1. Arrive(c)
  <2>1. ASSUME NEW d \in Calls, NEW bad \in BOOLEAN,
               \/ Busy(d) \/ Block(d) \/ Hit(d) \/ Broken(d) \/ Deny(d) \/ Send(d)
               \/ Fail(d, bad) \/ LateAnswer(d, bad) \/ Throw(d) \/ Timeout(d)
        PROVE  FALSE
    BY <2>1 DEF Busy, Block, Hit, Broken, Deny, Send, Missed, Fail, LateAnswer, Throw, Timeout, Types
  <2>2. ASSUME NEW d \in Calls, NEW s \in Surcharges, NEW blocked \in BOOLEAN, Succeed(d, s, blocked)
        PROVE  FALSE
    BY <2>2 DEF Succeed, Types
  <2>3. ASSUME \/ ResetBreaker \/ ReadBreaker \/ ClearCache \/ Tick \/ UNCHANGED vars
               \/ \E x \in Keys : LiftSuspension(x)
        PROVE  FALSE
    BY <2>3 DEF ResetBreaker, ReadBreaker, ClearCache, Tick, LiftSuspension, vars
  <2>4. ASSUME NEW d \in Calls, Arrive(d) PROVE d = c
    BY <2>4 DEF Arrive, Types
  <2>5. \A d \in Calls : ~Throw(d) /\ ~Timeout(d) /\ ~Busy(d) /\ ~Block(d) /\ ~Hit(d) /\ ~Broken(d)
                         /\ ~Deny(d) /\ ~Send(d)
    BY <2>1
  <2> QED
    BY <2>1, <2>2, <2>3, <2>4, <2>5, Zenon DEF Next
<1>2. k \in Keys /\ suspended[k] \in Nat \cup {-1} /\ now \in Nat /\ ResumeAfter \in Nat
  BY KeyOfCall, CapsAssumption DEF Types
<1>3. /\ today.calls = Cardinality(OkToday) /\ today.credits = Price * Cardinality(OkToday)
      /\ this.calls = Cardinality(OkThisHour(k)) /\ Cardinality(OkToday) \in Nat
  BY <1>2, CountsNow
<1>4. Price * (Cardinality(OkToday) + 1) = today.credits + Price
  <2>1. \A n, m \in Nat : n * (m + 1) = n * m + n
    OBVIOUS
  <2> QED
    BY <1>3, <2>1, PipelineAssumption
<1>5. since = NotSuspended <=> \/ suspended[k] = NotSuspended
                               \/ ResumeAfter > 0 /\ now - suspended[k] >= ResumeAfter
  BY <1>2 DEF SuspensionAt
<1>6. HasRoom(k) <=> /\ since = NotSuspended
                     /\ ServerCapAllows(today, Price) /\ HourlyCapAllows(this)
  <2> HIDE DEF k, today, this, since
  <2> QED
    BY <1>3, <1>4, <1>5 DEF HasRoom, ServerCapAllows, HourlyCapAllows
<1>7. st'[c] = "plugins" <=> /\ since = NotSuspended
                             /\ ServerCapAllows(today, Price) /\ HourlyCapAllows(this)
  BY <1>1 DEF Arrive, Types
<1> QED
  BY <1>6, <1>7

-----------------------------------------------------------------------------
(* Money.  A sum over calls is the size of a set of pairs, one for each    *)
(* credit, so a change at one call is a change of the pairs of that call.  *)
Below(F, S) == {x \in S \X (1..Initial) : x[2] <= F[x[1]]}

Ledger ==
    /\ \A k \in Keys : bal[k] = Initial - Took(Of(k)) /\ spent[k] >= Took(Of(k))
    /\ \A c \in Calls : took[c] <= Initial

(* What a call in station x, told y, may have taken. *)
MayHave(x, y, n) ==
    /\ x \in {"new", "plugins"} => n = 0
    /\ x = "sent" => n >= Price
    /\ y \in {"capped", "busy", "blocked", "cached", "broken", "denied"} => n = 0
    /\ y = "error" /\ RefundOnFailure => n = 0
    /\ y = "ok" => n >= Price

Told == \A c \in Calls : MayHave(st[c], out[c], took[c])

(* The pairs of one call, and those of the others. *)
LEMMA SumSplit ==
    ASSUME NEW S \in SUBSET Calls, NEW c \in S, NEW F, F \in [Calls -> 0..Initial]
    PROVE  /\ IsFiniteSet(Below(F, S)) /\ Cardinality(Below(F, S \ {c})) \in Nat
           /\ Cardinality(Below(F, S)) = Cardinality(Below(F, S \ {c})) + F[c]
<1>1. Initial \in Nat /\ F[c] \in 0..Initial
  BY PipelineAssumption
<1>2. ASSUME NEW T \in SUBSET Calls PROVE IsFiniteSet(Below(F, T))
  <2>1. IsFiniteSet(T)
    BY FS_Subset, PipelineAssumption
  <2>3. IsFiniteSet(1..Initial)
    <3>1. 1 \in Int /\ Initial \in Int
      BY <1>1
    <3> QED
      BY <3>1, FS_Interval
  <2>2. IsFiniteSet(T \X (1..Initial))
    BY <2>1, <2>3, FS_Product
  <2> QED
    BY <2>2, FS_Subset DEF Below
<1> DEFINE rest == Below(F, S \ {c})
           own == {c} \X (1..F[c])
<1>3. Below(F, S) = rest \cup own /\ rest \cap own = {}
  BY <1>1 DEF Below
<1>4. IsFiniteSet(own) /\ Cardinality(own) = F[c]
  <2>1. IsFiniteSet({c}) /\ Cardinality({c}) = 1
    BY FS_Singleton
  <2>2. IsFiniteSet(1..F[c]) /\ Cardinality(1..F[c]) = F[c]
    <3>1. 1 \in Int /\ F[c] \in Int /\ (IF 1 > F[c] THEN 0 ELSE F[c] - 1 + 1) = F[c]
      BY <1>1
    <3>2. IsFiniteSet(1..F[c]) /\ Cardinality(1..F[c]) = IF 1 > F[c] THEN 0 ELSE F[c] - 1 + 1
      BY <3>1, FS_Interval
    <3> QED
      BY <3>1, <3>2
  <2>3. IsFiniteSet(own) /\ Cardinality(own) = Cardinality({c}) * Cardinality(1..F[c])
    BY <2>1, <2>2, FS_Product
  <2> QED
    BY <1>1, <2>1, <2>2, <2>3
<1>5. IsFiniteSet(rest) /\ Cardinality(rest) \in Nat
  BY <1>2, FS_CardinalityType
<1>6. Cardinality(rest \cup own) = Cardinality(rest) + Cardinality(own) - Cardinality(rest \cap own)
  <2> HIDE DEF rest, own
  <2> QED
    BY <1>4, <1>5, FS_Union
<1>7. Cardinality(rest \cap own) = 0
  BY <1>3, FS_EmptySet
<1>8. F[c] \in Nat /\ IsFiniteSet(Below(F, S))
  BY <1>1, <1>2
<1> HIDE DEF rest, own
<1>9. Cardinality(Below(F, S)) = Cardinality(rest) + F[c]
  BY <1>3, <1>4, <1>5, <1>6, <1>7, <1>8
<1> QED
  BY <1>5, <1>8, <1>9 DEF rest

(* A change at one call changes the sums it is in by as much. *)
LEMMA SumChange ==
    ASSUME NEW k \in Keys, NEW c \in Of(k),
           NEW F, F \in [Calls -> 0..Initial], NEW G, G \in [Calls -> 0..Initial],
           \A d \in Calls \ {c} : G[d] = F[d]
    PROVE  /\ Cardinality(Below(G, Of(k))) = Cardinality(Below(F, Of(k))) - F[c] + G[c]
           /\ F[c] <= Cardinality(Below(F, Of(k))) /\ Cardinality(Below(F, Of(k))) \in Nat
<1>1. /\ G[c] \in 0..Initial /\ F[c] \in 0..Initial /\ Initial \in Nat
      /\ Of(k) \in SUBSET Calls
  BY PipelineAssumption DEF Of
<1>2. Below(G, Of(k) \ {c}) = Below(F, Of(k) \ {c})
  BY <1>1 DEF Below
<1>3. /\ Cardinality(Below(F, Of(k))) = Cardinality(Below(F, Of(k) \ {c})) + F[c]
      /\ Cardinality(Below(F, Of(k) \ {c})) \in Nat
  BY <1>1, SumSplit
<1>4. Cardinality(Below(G, Of(k))) = Cardinality(Below(G, Of(k) \ {c})) + G[c]
  BY <1>1, SumSplit
<1>5. Cardinality(Below(G, Of(k))) = Cardinality(Below(F, Of(k) \ {c})) + G[c]
  BY <1>2, <1>4
<1> QED
  BY <1>1, <1>3, <1>5

(* And no other. *)
LEMMA SumSame ==
    ASSUME NEW k \in Keys, NEW c \in Calls, KeyOf[c] # k, NEW F, NEW G,
           \A d \in Calls \ {c} : G[d] = F[d]
    PROVE  Below(G, Of(k)) = Below(F, Of(k))
<1>1. \A d \in Of(k) : G[d] = F[d]
  BY DEF Of
<1> QED
  BY <1>1 DEF Below

(* Credits that are taken from a balance that has them. *)
LEMMA TakeLedger ==
    ASSUME Types, Ledger, NEW c \in Calls, NEW n \in Nat, n <= bal[KeyOf[c]], Take(c, n),
           NEW m \in Nat, n <= m, spent' = [spent EXCEPT ![KeyOf[c]] = @ + m]
    PROVE  Ledger'
<1>1. /\ Initial \in Nat /\ KeyOf[c] \in Keys /\ took[c] \in Nat
      /\ took \in [Calls -> 0..Initial] /\ \A k \in Keys : bal[k] \in Nat /\ spent[k] \in Int
  BY KeyOfCall, PipelineAssumption DEF Types, Ledger
<1>2. Took(Of(KeyOf[c])) \in Nat /\ took[c] <= Took(Of(KeyOf[c]))
  <2>1. took[c] \in 0..Initial
    BY <1>1
  <2> QED
    <3>1. c \in Of(KeyOf[c])
      BY DEF Of
    <3>2. /\ took[c] <= Cardinality(Below(took, Of(KeyOf[c])))
          /\ Cardinality(Below(took, Of(KeyOf[c]))) \in Nat
      BY <1>1, <3>1, SumChange
    <3> QED
      BY <1>1, <3>1, <3>2 DEF Took, TakenBy, Below
<1>3. took[c] + n \in 0..Initial
  BY <1>1, <1>2 DEF Ledger
<1>4. took' = [took EXCEPT ![c] = took[c] + n] /\ bal' = [bal EXCEPT ![KeyOf[c]] = @ - n]
  BY DEF Take
<1>0. /\ took \in [Calls -> 0..Initial] /\ took' \in [Calls -> 0..Initial] /\ took'[c] = took[c] + n
      /\ \A d \in Calls \ {c} : took'[d] = took[d]
  BY <1>1, <1>3, <1>4
<1>5. ASSUME NEW k \in Keys PROVE bal'[k] = Initial - Took(Of(k))' /\ spent'[k] >= Took(Of(k))'
  <2>1. CASE KeyOf[c] = k
    <3>0. c \in Of(k)
      BY <2>1 DEF Of
    <3>1. Cardinality(Below(took', Of(k))) = Cardinality(Below(took, Of(k))) - took[c] + (took[c] + n)
      BY <1>0, <3>0, SumChange
    <3>2. Took(Of(k))' = Took(Of(k)) - took[c] + (took[c] + n)
      BY <3>1 DEF Took, TakenBy, Below, Of
    <3>3. Took(Of(k))' = Took(Of(k)) + n
      BY <1>1, <1>2, <2>1, <3>2
    <3>4. bal'[k] = bal[k] - n /\ spent'[k] = spent[k] + m
      BY <1>4, <2>1 DEF Types
    <3> QED
      BY <1>1, <1>2, <2>1, <3>3, <3>4 DEF Ledger
  <2>2. CASE KeyOf[c] # k
    <3>1. Below(took', Of(k)) = Below(took, Of(k))
      BY <1>0, <2>2, SumSame
    <3>2. Took(Of(k))' = Took(Of(k))
      BY <3>1 DEF Took, TakenBy, Below, Of
    <3>3. bal'[k] = bal[k] /\ spent'[k] = spent[k]
      BY <1>4, <2>2 DEF Types
    <3> QED
      BY <3>2, <3>3 DEF Ledger
  <2> QED
    BY <2>1, <2>2
<1>6. \A d \in Calls : took'[d] <= Initial
  BY <1>1, <1>3, <1>4
<1> QED
  BY <1>5, <1>6 DEF Ledger

(* A refund gives back what the call took. *)
LEMMA RefundLedger == ASSUME Types, Ledger, NEW c \in Calls, GiveBack(c) PROVE Ledger'
<1>1. CASE ~RefundOnFailure
  BY <1>1 DEF GiveBack, money, Ledger, Took, TakenBy, Of
<1>2. CASE RefundOnFailure
  <2>1. /\ Initial \in Nat /\ KeyOf[c] \in Keys /\ took[c] \in Nat /\ 0 \in 0..Initial
        /\ took \in [Calls -> 0..Initial] /\ \A k \in Keys : bal[k] \in Nat /\ spent[k] \in Int
    BY KeyOfCall, PipelineAssumption DEF Types, Ledger
  <2>2. /\ took' = [took EXCEPT ![c] = 0] /\ bal' = [bal EXCEPT ![KeyOf[c]] = @ + took[c]]
        /\ spent' = [spent EXCEPT ![KeyOf[c]] = @ - took[c]]
    BY <1>2 DEF GiveBack
  <2>0. /\ took \in [Calls -> 0..Initial] /\ took' \in [Calls -> 0..Initial] /\ took'[c] = 0
        /\ \A d \in Calls \ {c} : took'[d] = took[d]
    BY <2>1, <2>2
  <2>3. ASSUME NEW k \in Keys PROVE bal'[k] = Initial - Took(Of(k))' /\ spent'[k] >= Took(Of(k))'
    <3>1. CASE KeyOf[c] = k
      <4>0. c \in Of(k)
        BY <3>1 DEF Of
      <4>1. /\ Cardinality(Below(took', Of(k))) = Cardinality(Below(took, Of(k))) - took[c] + 0
            /\ Cardinality(Below(took, Of(k))) \in Nat
        BY <2>0, <4>0, SumChange
      <4>2. Took(Of(k))' = Took(Of(k)) - took[c] /\ Took(Of(k)) \in Nat
        BY <2>1, <4>1 DEF Took, TakenBy, Below, Of
      <4>3. bal'[k] = bal[k] + took[c] /\ spent'[k] = spent[k] - took[c]
        BY <2>2, <3>1 DEF Types
      <4> QED
        BY <2>1, <4>2, <4>3 DEF Ledger
    <3>2. CASE KeyOf[c] # k
      <4>1. Below(took', Of(k)) = Below(took, Of(k))
        BY <2>0, <3>2, SumSame
      <4>2. Took(Of(k))' = Took(Of(k))
        BY <4>1 DEF Took, TakenBy, Below, Of
      <4>3. bal'[k] = bal[k] /\ spent'[k] = spent[k]
        BY <2>2, <3>2 DEF Types
      <4> QED
        BY <4>2, <4>3 DEF Ledger
    <3> QED
      BY <3>1, <3>2
  <2>4. \A d \in Calls : took'[d] <= Initial
    BY <2>1, <2>2 DEF Ledger
  <2> QED
    BY <2>3, <2>4 DEF Ledger
<1> QED
  BY <1>1, <1>2

(* A step of one call is judged at that call. *)
LEMMA OneTold ==
    ASSUME Types, Told, NEW c \in Calls, took' \in [Calls -> Nat],
           \A d \in Calls \ {c} : st'[d] = st[d] /\ out'[d] = out[d] /\ took'[d] = took[d],
           MayHave(st'[c], out'[c], took'[c])
    PROVE  Told'
<1> SUFFICES ASSUME NEW d \in Calls PROVE MayHave(st'[d], out'[d], took'[d])
  BY DEF Told, MayHave
<1>1. CASE d = c
  BY <1>1
<1>2. CASE d # c
  BY <1>2 DEF Told
<1> QED
  BY <1>1, <1>2

(* Nothing is taken in the beginning. *)
LEMMA InitMoney == Init => Ledger /\ Told
<1> SUFFICES ASSUME Init PROVE Ledger /\ Told
  OBVIOUS
<1>1. ASSUME NEW k \in Keys PROVE Took(Of(k)) = 0
  <2>1. TakenBy(Of(k)) = {}
    BY PipelineAssumption DEF Init, TakenBy, Of
  <2> QED
    BY <2>1, FS_EmptySet DEF Took
<1>2. Initial \in Nat
  BY PipelineAssumption
<1> QED
  BY <1>1, <1>2 DEF Init, Ledger, Told, MayHave

(* Every step keeps the books. *)
LEMMA StepMoney == Types /\ OutInv /\ Ledger /\ Told /\ [Next]_vars => Ledger' /\ Told'
<1> SUFFICES ASSUME Types, OutInv, Ledger, Told, [Next]_vars PROVE Ledger' /\ Told'
  OBVIOUS
<1>1. ASSUME money' = money PROVE Ledger'
  BY <1>1 DEF money, Ledger, Took, TakenBy, Of
<1>2. ASSUME NEW c \in Calls,
             Arrive(c) \/ Busy(c) \/ Block(c) \/ Hit(c) \/ Broken(c) \/ Deny(c) \/ Throw(c) \/ Timeout(c)
      PROVE  Ledger' /\ Told'
  <2>1. money' = money
    BY <1>2 DEF Arrive, Busy, Block, Hit, Broken, Deny, Throw, Timeout
  <2>2. took' = took
    BY <2>1 DEF money
  <2>3. CASE Arrive(c)
    <3>1. /\ st[c] = "new" /\ st' \in {[st EXCEPT ![c] = "done"], [st EXCEPT ![c] = "plugins"]}
          /\ out' \in {out, [out EXCEPT ![c] = "capped"]}
      BY <2>3 DEF Arrive
    <3>2. MayHave(st'[c], out'[c], took'[c])
      BY <2>2, <3>1 DEF Types, Told, MayHave
    <3>3. /\ took' \in [Calls -> Nat]
          /\ \A d \in Calls \ {c} : st'[d] = st[d] /\ out'[d] = out[d] /\ took'[d] = took[d]
      BY <2>2, <3>1 DEF Types
    <3> QED
      BY <1>1, <2>1, <3>2, <3>3, OneTold
  <2>4. CASE Busy(c) \/ Block(c) \/ Hit(c) \/ Broken(c) \/ Deny(c)
    <3>1. /\ st[c] = "plugins" /\ st' = [st EXCEPT ![c] = "done"]
          /\ \E x \in {"busy", "blocked", "cached", "broken", "denied"} : out' = [out EXCEPT ![c] = x]
      BY <2>4 DEF Busy, Block, Hit, Broken, Deny, Missed, Tell
    <3>2. MayHave(st'[c], out'[c], took'[c])
      BY <2>2, <3>1 DEF Types, Told, MayHave
    <3>3. /\ took' \in [Calls -> Nat]
          /\ \A d \in Calls \ {c} : st'[d] = st[d] /\ out'[d] = out[d] /\ took'[d] = took[d]
      BY <2>2, <3>1 DEF Types
    <3> QED
      BY <1>1, <2>1, <3>2, <3>3, OneTold
  <2>5. CASE Throw(c) \/ Timeout(c)
    <3>1. /\ st' \in {[st EXCEPT ![c] = "done"], [st EXCEPT ![c] = "late"]}
          /\ out' \in {[out EXCEPT ![c] = "thrown"], [out EXCEPT ![c] = "timeout"]}
      BY <2>5 DEF Throw, Timeout, Tell
    <3>2. MayHave(st'[c], out'[c], took'[c])
      BY <2>2, <3>1 DEF Types, Told, MayHave
    <3>3. /\ took' \in [Calls -> Nat]
          /\ \A d \in Calls \ {c} : st'[d] = st[d] /\ out'[d] = out[d] /\ took'[d] = took[d]
      BY <2>2, <3>1 DEF Types
    <3> QED
      BY <1>1, <2>1, <3>2, <3>3, OneTold
  <2> QED
    BY <1>1, <1>2, <2>1, <2>3, <2>4, <2>5
<1>3. ASSUME NEW c \in Calls, Send(c) PROVE Ledger' /\ Told'
  <2>1. /\ Price \in Nat /\ KeyOf[c] \in Keys /\ bal[KeyOf[c]] \in Nat /\ Price <= bal[KeyOf[c]]
        /\ Take(c, Price) /\ spent' = [spent EXCEPT ![KeyOf[c]] = @ + Price]
        /\ st[c] = "plugins" /\ st' = [st EXCEPT ![c] = "sent"] /\ out' = out
    BY <1>3, KeyOfCall, PipelineAssumption DEF Send, Missed, Types
  <2>2. Ledger'
    <3>1. Price <= Price
      BY <2>1
    <3> QED
      BY <2>1, <3>1, TakeLedger
  <2>3. took' = [took EXCEPT ![c] = took[c] + Price] /\ took[c] = 0 /\ out[c] = "none"
    BY <2>1 DEF Take, Told, MayHave, OutInv
  <2>4. Told'
    <3>1. MayHave(st'[c], out'[c], took'[c])
      BY <2>1, <2>3 DEF Types, MayHave
    <3> QED
      BY <2>1, <2>3, <3>1, OneTold DEF Types
  <2> QED
    BY <2>2, <2>4
<1>4. ASSUME NEW c \in Calls, NEW s \in Surcharges, NEW blocked \in BOOLEAN, Succeed(c, s, blocked)
      PROVE  Ledger' /\ Told'
  <2> DEFINE n == SurchargeTaken(c, s)
  <2>1. n \in Nat /\ n <= bal[KeyOf[c]] /\ Price \in Nat
    BY SurchargeBound, PipelineAssumption
  <2>2. /\ Take(c, n) /\ spent' = [spent EXCEPT ![KeyOf[c]] = @ + 2 * n]
        /\ st[c] = "sent" /\ st' = [st EXCEPT ![c] = "done"]
        /\ \/ out' = [out EXCEPT ![c] = "ok"]
           \/ out' = [out EXCEPT ![c] = "censored"]
    BY <1>4 DEF Succeed, Tell
  <2> HIDE DEF n
  <2>3. 2 * n \in Nat /\ n <= 2 * n
    BY <2>1
  <2>4. Ledger'
    BY <2>1, <2>2, <2>3, TakeLedger
  <2>5. took' = [took EXCEPT ![c] = took[c] + n] /\ took[c] \in Nat /\ took[c] >= Price
    BY <2>2 DEF Take, Told, MayHave, Types
  <2>6. Told'
    <3>1. MayHave(st'[c], out'[c], took'[c])
      BY <2>1, <2>2, <2>5 DEF Types, MayHave
    <3> QED
      BY <2>1, <2>2, <2>5, <3>1, OneTold DEF Types
  <2> QED
    BY <2>4, <2>6
<1>5. ASSUME NEW c \in Calls, NEW bad \in BOOLEAN, Fail(c, bad) PROVE Ledger' /\ Told'
  <2>1. GiveBack(c) /\ st[c] = "sent" /\ st' = [st EXCEPT ![c] = "done"] /\ out' = [out EXCEPT ![c] = "error"]
    BY <1>5 DEF Fail, Tell
  <2>2. took' = IF RefundOnFailure THEN [took EXCEPT ![c] = 0] ELSE took
    BY <2>1 DEF GiveBack, money
  <2>3. Told'
    <3>1. MayHave(st'[c], out'[c], took'[c])
      BY <2>1, <2>2 DEF Types, Told, MayHave
    <3> QED
      BY <2>1, <2>2, <3>1, OneTold DEF Types
  <2> QED
    BY <2>1, <2>3, RefundLedger
<1>6. ASSUME NEW c \in Calls, NEW bad \in BOOLEAN, LateAnswer(c, bad) PROVE Ledger' /\ Told'
  <2>1. /\ st[c] = "late" /\ st' = [st EXCEPT ![c] = "done"] /\ out' = out /\ out[c] = "timeout"
        /\ GiveBack(c) \/ money' = money
    BY <1>6 DEF LateAnswer, OutInv, money
  <2>2. took' = took \/ took' = [took EXCEPT ![c] = 0]
    BY <2>1 DEF GiveBack, money
  <2>3. Told'
    <3>1. MayHave(st'[c], out'[c], took'[c])
      BY <2>1, <2>2 DEF Types, Told, MayHave
    <3> QED
      BY <2>1, <2>2, <3>1, OneTold DEF Types
  <2> QED
    BY <1>1, <2>1, <2>3, RefundLedger
<1>7. CASE \/ ResetBreaker \/ ReadBreaker \/ ClearCache \/ Tick \/ UNCHANGED vars
           \/ \E k \in Keys : LiftSuspension(k)
  <2>1. money' = money /\ st' = st /\ out' = out
    BY <1>7 DEF ResetBreaker, ReadBreaker, ClearCache, Tick, LiftSuspension, vars, money
  <2> QED
    BY <1>1, <2>1 DEF Told, MayHave, money
<1> QED
  BY <1>2, <1>3, <1>4, <1>5, <1>6, <1>7, Zenon DEF Next

-----------------------------------------------------------------------------
(* The promises, for every behaviour.                                      *)

Inv ==
    /\ Types /\ OutInv
    /\ SlotsHonoured /\ BreakerInv /\ CacheInv /\ CapsInv
    /\ Ledger /\ Told

(* The invariant holds, and each of its parts is kept on its own. *)
THEOREM PipelineInvariant == Spec => []Inv
<1>1. Init => Inv
  BY InitTypes, InitOut, InitSlots, InitBreaker, InitCache, InitCaps, InitMoney DEF Inv
<1>2. Inv /\ [Next]_vars => Inv'
  BY StepTypes, StepOut, StepSlots, StepBreaker, StepCache, StepCaps, StepMoney DEF Inv
<1> QED
  BY <1>1, <1>2, PTL DEF Spec

(* However a call ends (answered, failed, thrown, timed out), its slot is  *)
(* given back once, and the concurrency limits are never passed.           *)
THEOREM SlotsAreHonoured == Spec => []SlotsHonoured
<1>1. Inv => SlotsHonoured
  BY DEF Inv
<1> QED
  BY <1>1, PipelineInvariant, PTL

(* What left a balance is what its calls took, and a call that was refused,*)
(* served from the cache or refunded took nothing.                         *)
THEOREM BooksAreTrue == Spec => []TakenAsTold
<1>1. Inv => TakenAsTold
  BY DEF Inv, Types, Ledger, Told, MayHave, TakenAsTold
<1> QED
  BY <1>1, PipelineInvariant, PTL

(* The breaker opens exactly on Threshold failures in a row, and then lets *)
(* no call through before its cooldown.                                    *)
THEOREM BreakerIsHonoured == Spec => BreakerHonoured
<1> DEFINE Sheds == \A c \in Calls : /\ st[c] = "plugins" /\ st'[c] = "sent"
                                     /\ brk.state # "closed"
                                     => now - tripped >= Cooldown
           Opens == brk.state = "closed" /\ brk'.fails # brk.fails
                       => (brk'.state = "open" <=> streak' >= Threshold)
<1>1. Inv /\ [Next]_vars => [Sheds]_vars
  <2> SUFFICES ASSUME Inv, Next,
                      NEW c \in Calls, st[c] = "plugins", st'[c] = "sent", brk.state # "closed"
               PROVE  now - tripped >= Cooldown
    OBVIOUS
  <2>1. Send(c)
    BY OnlySend DEF Inv
  <2> QED
    BY <2>1, SendAdmitted DEF Inv
<1>2. Inv /\ [Next]_vars => [Opens]_vars
  BY StepBreaker DEF Inv
<1>3. Spec => [][Sheds]_vars
  <2> HIDE DEF Sheds
  <2> QED
    BY <1>1, PipelineInvariant, PTL DEF Spec
<1>4. Spec => [][Opens]_vars
  <2> HIDE DEF Opens
  <2> QED
    BY <1>2, PipelineInvariant, PTL DEF Spec
<1> QED
  BY <1>3, <1>4 DEF BreakerHonoured, OpenShedsLoad, OpensOnStreak

(* The cache serves answers no older than its time to live, of calls the   *)
(* backend answered, whatever was evicted, cleared or stored since.        *)
THEOREM CacheServesFresh == Spec => HitsAreFresh
<1> DEFINE Freshly == \A c \in Calls : out[c] = "none" /\ out'[c] = "cached"
                         => okAt[from'[c]] # -1 /\ now - okAt[from'[c]] <= Ttl
<1>1. Inv /\ [Next]_vars => [Freshly]_vars
  BY HitFresh DEF Inv
<1>2. Spec => [][Freshly]_vars
  <2> HIDE DEF Freshly
  <2> QED
    BY <1>1, PipelineInvariant, PTL DEF Spec
<1> QED
  BY <1>2 DEF HitsAreFresh

(* The spend caps pass a call exactly when what was counted in its day and *)
(* in its key's hour leaves room, over any midnights and suspensions.      *)
THEOREM CapsAreExact == Spec => CapsExact
<1> DEFINE Exact == \A c \in Calls : st[c] = "new" /\ st'[c] # "new"
                       => (st'[c] = "plugins" <=> HasRoom(KeyOf[c]))
<1>1. Inv /\ [Next]_vars => [Exact]_vars
  BY StepPasses DEF Inv
<1>2. Spec => [][Exact]_vars
  <2> HIDE DEF Exact
  <2> QED
    BY <1>1, PipelineInvariant, PTL DEF Spec
<1> QED
  BY <1>2 DEF CapsExact
=============================================================================
