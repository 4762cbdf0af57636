----------------------------- MODULE Transports -----------------------------
(***************************************************************************)
(* The ways a call reaches a backend, side by side: the child process      *)
(* (StdioProxy), the router and the remote backends (Router, R) and the    *)
(* tasks in the background (Tasks, T).  They share no state.  What Router  *)
(* and Tasks promise is stated here, and proved with what StdioProxy       *)
(* promises, for any requests, sizes, prices, funds and tasks.             *)
(***************************************************************************)
EXTENDS StdioProxy, Integers, Totals

CONSTANTS Size, Kind, MaxRestarts,  \* of Router, which has the requests of StdioProxy
          Tasks, MaxTasks,          \* of Tasks
          Price,                    \* credits per call
          Fund, TaskFund            \* credits of the key before a router and before tasks

ASSUME TransportsAssumption ==
    /\ IsFiniteSet(Requests) /\ IsFiniteSet(Tasks)
    /\ Size \in [Requests -> Nat]
    /\ {Price, Fund, TaskFund} \subseteq Nat

VARIABLES routed, rStarted, session, deleting, stops, rSt, res, rBal, rTook, told,
          shadow, status, ended, call, inner, tBal, tTook

R == INSTANCE Router WITH
    Initial <- Fund, started <- rStarted, st <- rSt, bal <- rBal, took <- rTook

T == INSTANCE Tasks WITH Initial <- TaskFund, bal <- tBal, took <- tTook

(* What Router and Tasks promise of money: an answered request has paid    *)
(* for the calls that succeeded and for no other, its answer says so, and  *)
(* nothing is settled twice; a task whose call fails pays nothing,         *)
(* whatever became of the task, and no failure mints credits.              *)
BillsHonoured == /\ R!PaysForSuccess /\ R!TruthfulBill /\ R!NothingTwice
                 /\ T!FailedPaysNothing /\ T!NothingMinted

(* A cancelled task stays cancelled (cancelTask, completeTask).            *)
CancelSticks == T!CancelSticks

-----------------------------------------------------------------------------
(* The map of pending requests leaks nothing, for any requests and ids.    *)
Inv == TypeOK /\ Tracked

(* The initial states satisfy the invariant. *)
LEMMA InitInv == Init => Inv
BY StdioAssumption DEF Init, Inv, TypeOK, Tracked, NoAnswer

(* A request that is sent keeps the invariant. *)
LEMMA SendStep ==
    ASSUME Inv, NEW r \in Requests, Refuse(r) \/ Unwritable(r) \/ Forward(r)
    PROVE  Inv'
<1>1. CASE Refuse(r)
  BY <1>1 DEF Refuse, Inv, TypeOK, Tracked
<1>2. CASE Unwritable(r)
  BY <1>2 DEF Unwritable, Inv, TypeOK, Tracked
<1>3. CASE Forward(r)
  <2>1. TypeOK'
    BY <1>3 DEF Forward, Inv, TypeOK
  <2>2. Tracked'
    BY <1>3, StdioAssumption DEF Forward, Inv, TypeOK, Tracked
  <2> QED
    BY <2>1, <2>2 DEF Inv
<1> QED
  BY <1>1, <1>2, <1>3

(* Settling whoever waits under an id, and deleting the entry.             *)
LEMMA SettleStep ==
    ASSUME Inv, NEW r \in Requests, NEW outcome \in {"resolved", "rejected"},
           NEW p \in Requests, st[p] = "waiting", Settled(p, outcome),
           pending' = [pending EXCEPT ![id[r]] = None],
           p = pending[id[r]] \/ p = r, id' = id
    PROVE  /\ st' \in [Requests -> {"new", "waiting", "resolved", "rejected", "refused"}]
           /\ pending' \in [Ids -> Requests \cup {None}]
           /\ timers' \subseteq Requests
           /\ Tracked'
<1>1. /\ st' \in [Requests -> {"new", "waiting", "resolved", "rejected", "refused"}]
      /\ pending' \in [Ids -> Requests \cup {None}]
      /\ timers' \subseteq Requests
  BY DEF Settled, Inv, TypeOK
<1>2. timers' = {x \in Requests : st'[x] = "waiting"}
  BY DEF Settled, Inv, TypeOK, Tracked
<1>3. ASSUME NEW i \in Ids, pending'[i] # None
      PROVE  st'[pending'[i]] = "waiting" /\ id[pending'[i]] = i
  <2>1. i # id[r] /\ pending'[i] = pending[i]
    BY <1>3 DEF Inv, TypeOK
  <2>2. st[pending[i]] = "waiting" /\ id[pending[i]] = i /\ pending[i] # p
    BY <1>3, <2>1 DEF Inv, TypeOK, Tracked
  <2> QED
    BY <2>1, <2>2, <1>3 DEF Settled, Inv, TypeOK
<1> QED
  BY <1>1, <1>2, <1>3 DEF Tracked

(* An answer, a timeout and a failed write keep the invariant. *)
LEMMA ReplyStep ==
    ASSUME Inv, NEW r \in Requests,
           Timeout(r) \/ WriteError(r) \/ \E ok \in BOOLEAN : Answer(r, ok)
    PROVE  Inv'
<1>1. CASE Timeout(r)
  <2>1. st[r] = "waiting"
    BY <1>1 DEF Timeout, Inv, Tracked
  <2> QED
    BY <1>1, <2>1, SettleStep DEF Timeout, Inv, TypeOK
<1>2. CASE WriteError(r)
  <2>1. CASE pending[id[r]] = None
    BY <1>2, <2>1 DEF WriteError, Nobody, Inv, TypeOK, Tracked
  <2>2. CASE pending[id[r]] # None
    <3>1. pending[id[r]] \in Requests /\ st[pending[id[r]]] = "waiting"
      BY <2>2 DEF Inv, TypeOK, Tracked
    <3> QED
      BY <1>2, <2>2, <3>1, SettleStep DEF WriteError, Inv, TypeOK
  <2> QED
    BY <2>1, <2>2
<1>3. ASSUME NEW ok \in BOOLEAN, Answer(r, ok) PROVE Inv'
  <2>1. CASE pending[id[r]] = None
    BY <1>3, <2>1 DEF Answer, Nobody, Inv, TypeOK, Tracked
  <2>2. CASE pending[id[r]] # None
    <3>1. pending[id[r]] \in Requests /\ st[pending[id[r]]] = "waiting"
      BY <2>2 DEF Inv, TypeOK, Tracked
    <3>2. got' \in [Requests -> [of : Requests \cup {None}, ok : BOOLEAN]]
      BY <1>3, <2>2, <3>1 DEF Answer, Inv, TypeOK
    <3> QED
      BY <1>3, <2>2, <3>1, <3>2, SettleStep DEF Answer, Inv, TypeOK
  <2> QED
    BY <2>1, <2>2
<1> QED
  BY <1>1, <1>2, <1>3

(* The exit of the child rejects exactly the requests in the map; those    *)
(* pushed out of it still have their timers.                               *)
LEMMA ExitStep == ASSUME Inv, Exit PROVE Inv'
<1> DEFINE gone == {r \in Requests : \E i \in Ids : pending[i] = r}
<1>1. TypeOK'
  BY DEF Exit, Inv, TypeOK
<1>2. /\ st' = [r \in Requests |-> IF r \in gone THEN "rejected" ELSE st[r]]
      /\ timers' = timers \ gone
      /\ pending' = [i \in Ids |-> None]
  BY DEF Exit
<1>3. \A r \in Requests : r \in timers' <=> st'[r] = "waiting"
  <2>1. TAKE r \in Requests
  <2>2. r \in timers <=> st[r] = "waiting"
    BY DEF Inv, Tracked
  <2>3. CASE r \in gone
    BY <1>2, <2>3
  <2>4. CASE r \notin gone
    BY <1>2, <2>2, <2>4
  <2> QED
    BY <2>3, <2>4
<1>4. timers' \subseteq Requests
  BY <1>1 DEF TypeOK
<1>5. \A i \in Ids : pending'[i] = None
  BY <1>2
<1>6. Tracked'
  BY <1>3, <1>4, <1>5 DEF Tracked
<1> QED
  BY <1>1, <1>6 DEF Inv

(* Every step keeps the invariant. *)
LEMMA StepInv == Inv /\ [Next]_vars => Inv'
<1> SUFFICES ASSUME Inv, [Next]_vars PROVE Inv'
  OBVIOUS
<1>1. CASE Next
  <2>1. CASE CloseStdin \/ Stop
    <3>1. /\ started' \in BOOLEAN /\ child' \in {"up", "deaf", "gone"}
          /\ UNCHANGED <<st, id, pending, timers, inbox, broken, got>>
      BY <2>1 DEF CloseStdin, Stop, Inv, TypeOK
    <3>2. TypeOK'
      BY <3>1 DEF Inv, TypeOK
    <3>3. Tracked'
      BY <3>1 DEF Inv, Tracked
    <3> QED
      BY <3>2, <3>3 DEF Inv
  <2> QED
    BY <1>1, <2>1, SendStep, ReplyStep, ExitStep DEF Next
<1>2. CASE UNCHANGED vars
  BY <1>2 DEF vars, Inv, TypeOK, Tracked
<1> QED
  BY <1>1, <1>2

(* A request waits exactly while its timer is armed, and the map names     *)
(* only waiting requests under their own ids.                              *)
THEOREM NothingLeaks == Spec => [](TypeOK /\ Tracked)
BY InitInv, StepInv, PTL DEF Spec, Inv

-----------------------------------------------------------------------------
(* Whose answer a request has: one that was sent under the same id.        *)
SameId == \A r \in Requests : got[r].of # None => id[got[r].of] = id[r]

(* The map names requests under their own ids, so an answer goes to a      *)
(* request with the id of the one it answers.                              *)
LEMMA StepSameId == Inv /\ SameId /\ [Next]_vars => SameId'
<1> SUFFICES ASSUME Inv, SameId, [Next]_vars PROVE SameId'
  OBVIOUS
<1>1. ASSUME got' = got, id' = id PROVE SameId'
  BY <1>1 DEF SameId
<1>2. ASSUME NEW r \in Requests, NEW ok \in BOOLEAN, Answer(r, ok) PROVE SameId'
  <2>1. CASE pending[id[r]] = None
    BY <1>1, <1>2, <2>1 DEF Answer, Nobody
  <2>2. CASE pending[id[r]] # None
    <3> DEFINE p == pending[id[r]]
    <3>1. p \in Requests /\ id[p] = id[r] /\ r \in Requests
      BY <2>2 DEF Inv, TypeOK, Tracked
    <3>2. got' = [got EXCEPT ![p] = [of |-> r, ok |-> ok]] /\ id' = id
      BY <1>2, <2>2 DEF Answer
    <3>3. got'[p].of = r /\ \A q \in Requests \ {p} : got'[q] = got[q]
      BY <3>1, <3>2 DEF Inv, TypeOK
    <3> QED
      BY <3>1, <3>2, <3>3 DEF SameId
  <2> QED
    BY <2>1, <2>2
<1>3. ASSUME NEW r \in Requests,
             Refuse(r) \/ Unwritable(r) \/ Forward(r) \/ Timeout(r) \/ WriteError(r)
      PROVE  got' = got /\ id' = id
  BY <1>3 DEF Refuse, Unwritable, Forward, Timeout, WriteError, Nobody
<1>4. ASSUME CloseStdin \/ Stop \/ Exit \/ UNCHANGED vars PROVE got' = got /\ id' = id
  BY <1>4 DEF CloseStdin, Stop, Exit, vars
<1> QED
  BY <1>1, <1>2, <1>3, <1>4 DEF Next

(* A request whose id no other request uses receives no answer but its own *)
(* (proxy.ts, handleServerOutput), whatever ids the others share, and      *)
(* whether requests time out, fail to be written or outlive the child.     *)
THEOREM AnswersAreOwn == Spec => []OwnAnswer
<1>1. Init => Inv /\ SameId
  BY InitInv DEF Init, SameId, NoAnswer
<1>2. Inv /\ SameId /\ [Next]_vars => Inv' /\ SameId'
  BY StepInv, StepSameId
<1>3. Inv /\ SameId => OwnAnswer
  BY DEF Inv, SameId, TypeOK, OwnAnswer
<1> QED
  BY <1>1, <1>2, <1>3, PTL DEF Spec

-----------------------------------------------------------------------------
(* The invariant of the router: what a request took follows from where it  *)
(* stands, and a request that was answered holds nothing but answers, which *)
(* do not change any more.                                                  *)
Replies == {"none", "ok", "error", "rejected", "cut"}

RouterTypes ==
    /\ routed \in BOOLEAN /\ rBal \in Int
    /\ rSt \in [Requests -> {"new", "open", "done", "failed", "refused"}]
    /\ res \in [Requests -> UNION {[R!Calls(r) -> Replies] : r \in Requests}]
    /\ \A r \in Requests : res[r] \in [R!Calls(r) -> Replies]
    /\ rTook \in [Requests -> Nat] /\ told \in [Requests -> Int]

RouterPays(r) ==
    /\ rSt[r] \in {"new", "refused"} => rTook[r] = 0
    /\ rSt[r] \in {"open", "failed"} => rTook[r] = Price * Size[r]
    /\ rSt[r] = "done" => /\ \A i \in R!Calls(r) : res[r][i] \in {"ok", "error"}
                          /\ rTook[r] = R!Reported(r)
                          /\ told[r] = R!Reported(r)

RouterInv ==
    /\ RouterTypes
    /\ \A r \in Requests : RouterPays(r)
    /\ rBal = Fund - Total(rTook, Requests)

(* The operators of Router are those whose lemmas are used here.           *)
LEMMA SameCount == \A S : R!Cardinality(S) = Cardinality(S)
BY DEF R!Cardinality, Cardinality

LEMMA SameTotal == \A f, S : R!Total(f, S) = Total(f, S)
<1> TAKE f, S
<1>1. R!Units(f, S) = Units(f, S)
  BY DEF R!Units, Units
<1> QED
  BY <1>1, SameCount DEF R!Total, Total

(* The calls of a request are as many as its size; those answered with     *)
(* errors are some of them, so what is given back is at most the price.    *)
LEMMA RefundBounds ==
    ASSUME RouterTypes, NEW r \in Requests
    PROVE  /\ Price \in Nat /\ Size[r] \in Nat /\ Price * Size[r] \in Nat
           /\ IsFiniteSet(R!Calls(r)) /\ Cardinality(R!Calls(r)) = Size[r]
           /\ IsFiniteSet(R!Errors(r)) /\ R!Errors(r) \subseteq R!Calls(r)
           /\ Cardinality(R!Errors(r)) \in Nat /\ Cardinality(R!Errors(r)) <= Size[r]
           /\ R!Refunded(r) \in Nat /\ R!Refunded(r) <= Price * Size[r]
           /\ R!Reported(r) \in Nat
<1>1. Price \in Nat /\ Size[r] \in Nat
  BY TransportsAssumption
<1>2. IsFiniteSet(R!Calls(r)) /\ Cardinality(R!Calls(r)) = Size[r]
  BY <1>1, FS_Interval DEF R!Calls
<1>3. R!Errors(r) \subseteq R!Calls(r)
  BY DEF R!Errors
<1>4. /\ IsFiniteSet(R!Errors(r)) /\ Cardinality(R!Errors(r)) \in Nat
      /\ Cardinality(R!Errors(r)) <= Size[r]
  BY <1>2, <1>3, FS_Subset, FS_CardinalityType
<1> DEFINE n == Size[r]
           e == Cardinality(R!Errors(r))
<1>5. /\ Price * n \in Nat /\ Price * e \in Nat /\ Price * e <= Price * n
  <2> HIDE DEF n, e
  <2>1. \A p, a, b \in Nat : a <= b => p * a \in Nat /\ p * b \in Nat /\ p * a <= p * b
    OBVIOUS
  <2>2. n \in Nat /\ e \in Nat /\ e <= n
    BY <1>1, <1>4 DEF n, e
  <2> QED
    BY <1>1, <2>1, <2>2
<1>6. R!Refunded(r) \in Nat /\ R!Refunded(r) <= Price * Size[r]
  BY <1>5, SameCount DEF R!Refunded
<1>7. R!Reported(r) \in Nat
  BY <1>5, <1>6 DEF R!Reported
<1> QED
  BY <1>1, <1>2, <1>3, <1>4, <1>5, <1>6, <1>7

(* The initial states satisfy the invariant. *)
LEMMA InitRouter == R!Init => RouterInv
<1> SUFFICES ASSUME R!Init PROVE RouterInv
  OBVIOUS
<1>1. RouterTypes
  <2>1. \A r \in Requests : res[r] \in [R!Calls(r) -> Replies]
    BY DEF R!Init, Replies
  <2> QED
    BY <2>1, TransportsAssumption DEF R!Init, RouterTypes
<1>2. \A r \in Requests : RouterPays(r)
  BY DEF R!Init, RouterPays
<1>3. Total(rTook, Requests) = 0
  <2> DEFINE zero == [r \in Requests |-> 0]
  <2>1. Units(zero, Requests) = {}
    BY DEF Units
  <2> QED
    BY <2>1, FS_EmptySet DEF R!Init, Total
<1>4. rBal = Fund - Total(rTook, Requests)
  BY <1>3, TransportsAssumption DEF R!Init
<1> QED
  BY <1>1, <1>2, <1>4 DEF RouterInv

(* A step that takes credits from request x or gives them back keeps the   *)
(* balance right.                                                          *)
LEMMA RouterBalance ==
    ASSUME RouterInv, NEW x \in Requests, NEW n \in Nat,
           rTook' = [rTook EXCEPT ![x] = n], rBal' = rBal + rTook[x] - n
    PROVE  /\ rTook' \in [Requests -> Nat] /\ rBal' \in Int
           /\ rBal' = Fund - Total(rTook', Requests)
<1>1. /\ rTook \in [Requests -> Nat] /\ rBal = Fund - Total(rTook, Requests)
      /\ Fund \in Int /\ IsFiniteSet(Requests) /\ rBal \in Int
  BY TransportsAssumption DEF RouterInv, RouterTypes
<1>2. rTook' \in [Requests -> Nat] /\ rBal' \in Int
  BY <1>1
<1>3. Total(rTook', Requests) = Total(rTook, Requests) - rTook[x] + rTook'[x]
  <2>1. Countable(rTook, Requests) /\ Countable(rTook', Requests)
    BY <1>1, <1>2 DEF Countable
  <2>2. Differ(rTook, rTook', Requests, x)
    BY <1>1 DEF Differ
  <2> QED
    BY ONLY <2>1, <2>2, TotalDiffer
<1>4. Total(rTook, Requests) \in Nat /\ rTook[x] \in Nat
  BY <1>1, TotalType DEF Countable
<1>5. rBal' = Fund - Total(rTook', Requests)
  BY <1>1, <1>3, <1>4
<1> QED
  BY <1>2, <1>5

(* What a request takes and tells depends on its own stand only.           *)
LEMMA OthersPay ==
    ASSUME NEW r \in Requests, RouterPays(r), routed' = routed,
           rSt'[r] = rSt[r], rTook'[r] = rTook[r], told'[r] = told[r],
           res'[r] = res[r]
    PROVE  RouterPays(r)'
<1>1. R!Errors(r)' = R!Errors(r)
  BY DEF R!Errors, R!Calls
<1>2. R!Reported(r)' = R!Reported(r)
  BY <1>1 DEF R!Reported, R!Refunded
<1> QED
  BY <1>2 DEF RouterPays, R!Calls

(* A call that is settled belongs to a request that was not answered.      *)
LEMMA RouterCall ==
    ASSUME RouterInv, NEW r \in Requests, NEW i \in R!Calls(r), R!CallStep(r, i)
    PROVE  RouterInv'
<1>1. PICK x \in {"ok", "error", "rejected", "cut"} :
         /\ R!Sent(r, i) /\ R!Settle(r, i, x)
         /\ UNCHANGED <<routed, rSt, rBal, rTook, told>>
  BY DEF R!CallStep, R!Respond, R!GiveUp, R!Cut, R!proxy
<1>2. /\ \A q \in Requests : res'[q] \in [R!Calls(q) -> Replies]
      /\ \A q \in Requests \ {r} : res'[q] = res[q]
      /\ res' \in [Requests -> UNION {[R!Calls(q) -> Replies] : q \in Requests}]
  <2>1. res' = [res EXCEPT ![r] = [res[r] EXCEPT ![i] = x]]
    BY <1>1 DEF R!Settle
  <2>2. [res[r] EXCEPT ![i] = x] \in [R!Calls(r) -> Replies]
    BY <1>1 DEF RouterInv, RouterTypes, Replies
  <2> QED
    BY <2>1, <2>2 DEF RouterInv, RouterTypes
<1>3. RouterTypes'
  BY <1>1, <1>2 DEF RouterInv, RouterTypes, R!Calls
<1>4. \A q \in Requests : RouterPays(q)'
  <2> TAKE q \in Requests
  <2>1. CASE q = r
    BY <1>1, <2>1 DEF R!Sent, RouterInv, RouterPays, R!Calls
  <2>2. CASE q # r
    BY <1>1, <1>2, <2>2, OthersPay DEF RouterInv
  <2> QED
    BY <2>1, <2>2
<1> QED
  BY <1>1, <1>3, <1>4 DEF RouterInv

(* A request that is refused, admitted, answered or rejected.              *)
LEMMA RouterRequest ==
    ASSUME RouterInv, NEW r \in Requests, R!RequestStep(r)
    PROVE  RouterInv'
<1>1. /\ RouterTypes /\ \A q \in Requests : RouterPays(q)
      /\ rBal = Fund - Total(rTook, Requests)
  BY DEF RouterInv
<1>2. /\ Price * Size[r] \in Nat /\ R!Refunded(r) \in Nat /\ R!Reported(r) \in Nat
      /\ R!Reported(r) = Price * Size[r] - R!Refunded(r)
      /\ Price \in Nat /\ Size[r] \in Nat
  BY <1>1, RefundBounds DEF R!Reported
<1>3. res' = res /\ routed' = routed
  BY DEF R!RequestStep, R!Refuse, R!Admit, R!Answer, R!Reject, R!proxy
<1>4. \A q \in Requests \ {r} : rSt'[q] = rSt[q] /\ rTook'[q] = rTook[q] /\ told'[q] = told[q]
  BY <1>1 DEF RouterTypes, R!RequestStep, R!Refuse, R!Admit, R!Answer, R!Reject
<1>5. \A q \in Requests \ {r} : RouterPays(q)'
  BY <1>1, <1>3, <1>4, OthersPay
<1>6. R!Reported(r)' = R!Reported(r) /\ R!Calls(r)' = R!Calls(r)
  BY <1>3 DEF R!Reported, R!Refunded, R!Errors, R!Calls
<1>7. CASE R!Refuse(r) \/ R!Reject(r)
  <2>1. /\ rTook' = rTook /\ told' = told /\ rBal' = rBal
        /\ rSt' \in [Requests -> {"new", "open", "done", "failed", "refused"}]
        /\ \/ rSt[r] = "new" /\ rSt'[r] = "refused"
           \/ rSt[r] = "open" /\ rSt'[r] = "failed"
    BY <1>1, <1>7 DEF R!Refuse, R!Reject, RouterTypes
  <2>2. RouterPays(r)'
    BY <1>1, <2>1 DEF RouterPays
  <2>3. RouterTypes'
    BY <1>1, <1>3, <2>1 DEF RouterTypes, R!Calls
  <2> QED
    BY <1>1, <1>5, <2>1, <2>2, <2>3 DEF RouterInv
<1>8. CASE R!Admit(r)
  <2>1. /\ rTook[r] = 0 /\ rTook' = [rTook EXCEPT ![r] = Price * Size[r]]
        /\ rBal' = rBal - Price * Size[r] /\ rBal \in Int
        /\ told' = told /\ rSt'[r] = "open"
        /\ rSt' \in [Requests -> {"new", "open", "done", "failed", "refused"}]
    BY <1>1, <1>8 DEF R!Admit, RouterTypes, RouterPays
  <2>2. rBal' = rBal + rTook[r] - Price * Size[r]
    BY <1>2, <2>1
  <2>3. /\ rTook' \in [Requests -> Nat] /\ rBal' \in Int
        /\ rBal' = Fund - Total(rTook', Requests)
    BY <1>2, <2>1, <2>2, RouterBalance
  <2>4. RouterPays(r)'
    BY <1>1, <2>1 DEF RouterPays, RouterTypes
  <2>5. RouterTypes'
    BY <1>1, <1>3, <2>1, <2>3 DEF RouterTypes, R!Calls
  <2> QED
    BY <1>5, <2>3, <2>4, <2>5 DEF RouterInv
<1>9. CASE R!Answer(r)
  <2>1. /\ rTook[r] = Price * Size[r]
        /\ rTook' = [rTook EXCEPT ![r] = rTook[r] - R!Refunded(r)]
        /\ rBal' = rBal + R!Refunded(r) /\ rBal \in Int
        /\ told' = [told EXCEPT ![r] = R!Reported(r)] /\ rSt'[r] = "done"
        /\ \A i \in R!Calls(r) : res[r][i] \in {"ok", "error"}
        /\ rSt' \in [Requests -> {"new", "open", "done", "failed", "refused"}]
    BY <1>1, <1>9 DEF R!Answer, RouterTypes, RouterPays
  <2>2. /\ rTook' = [rTook EXCEPT ![r] = R!Reported(r)]
        /\ rBal' = rBal + rTook[r] - R!Reported(r)
    <3> HIDE DEF R!Reported, R!Refunded
    <3> QED
      BY <1>2, <2>1
  <2>3. /\ rTook' \in [Requests -> Nat] /\ rBal' \in Int
        /\ rBal' = Fund - Total(rTook', Requests)
    BY <1>2, <2>2, RouterBalance
  <2>4. RouterPays(r)'
    <3>1. rTook'[r] = R!Reported(r) /\ told'[r] = R!Reported(r)
      BY <1>1, <2>1, <2>2 DEF RouterTypes
    <3>2. \A i \in R!Calls(r)' : res'[r][i] \in {"ok", "error"}
      BY <1>3, <1>6, <2>1
    <3>3. rTook'[r] = R!Reported(r)' /\ told'[r] = R!Reported(r)' /\ rSt'[r] = "done"
      BY <1>6, <2>1, <3>1
    <3> HIDE DEF R!Reported, R!Calls
    <3> QED
      BY <3>2, <3>3 DEF RouterPays
  <2>5. RouterTypes'
    <3>1. told' \in [Requests -> Int]
      BY <1>1, <1>2, <2>1 DEF RouterTypes
    <3>2. \A q \in Requests : R!Calls(q)' = R!Calls(q)
      BY DEF R!Calls
    <3> QED
      BY <1>1, <1>3, <2>1, <2>3, <3>1, <3>2 DEF RouterTypes
  <2> QED
    BY <1>5, <2>3, <2>4, <2>5 DEF RouterInv
<1> QED
  BY <1>7, <1>8, <1>9 DEF R!RequestStep

(* Every step keeps the invariant. *)
LEMMA StepRouter == RouterInv /\ [R!Next]_R!vars => RouterInv'
<1> SUFFICES ASSUME RouterInv, [R!Next]_R!vars PROVE RouterInv'
  OBVIOUS
<1>1. CASE R!Stop \/ R!Deleted \/ R!Start \/ UNCHANGED R!vars
  <2>1. UNCHANGED <<routed, rSt, res, rBal, rTook, told>>
    BY <1>1 DEF R!Stop, R!Deleted, R!Start, R!vars
  <2>2. \A r \in Requests : RouterPays(r)'
    BY <2>1, OthersPay DEF RouterInv
  <2>3. RouterTypes'
    BY <2>1 DEF RouterInv, RouterTypes, R!Calls
  <2> QED
    BY <2>1, <2>2, <2>3 DEF RouterInv
<1> QED
  BY <1>1, RouterCall, RouterRequest DEF R!Next

(* What the invariant says of money is what Router promises.               *)
LEMMA RouterPromise ==
    ASSUME RouterInv
    PROVE  R!PaysForSuccess /\ R!TruthfulBill /\ R!NothingTwice
<1>1. R!TruthfulBill
  BY DEF R!TruthfulBill, RouterInv, RouterPays
<1>2. R!NothingTwice
  BY SameTotal DEF R!NothingTwice, RouterInv, RouterPays
<1>3. ASSUME NEW r \in Requests, routed, rSt[r] = "done"
      PROVE  rTook[r] = Price * R!Cardinality({i \in R!Calls(r) : res[r][i] = "ok"})
  <2> DEFINE good == {i \in R!Calls(r) : res[r][i] = "ok"}
             bad == R!Errors(r)
  <2>1. /\ Price \in Nat /\ Size[r] \in Nat /\ IsFiniteSet(R!Calls(r))
        /\ Cardinality(R!Calls(r)) = Size[r] /\ IsFiniteSet(bad)
        /\ Cardinality(bad) \in Nat
    BY RefundBounds DEF RouterInv
  <2>2. \A i \in R!Calls(r) : res[r][i] \in {"ok", "error"}
    BY <1>3 DEF RouterInv, RouterPays
  <2>3. good = R!Calls(r) \ bad /\ bad \subseteq R!Calls(r)
    BY <2>2 DEF R!Errors
  <2>4. Cardinality(good) = Size[r] - Cardinality(bad)
    <3>1. R!Calls(r) \cap bad = bad
      BY <2>3
    <3>2. Cardinality(R!Calls(r) \ bad) = Cardinality(R!Calls(r)) - Cardinality(R!Calls(r) \cap bad)
      BY <2>1, FS_Difference
    <3> QED
      BY <2>1, <2>3, <3>1, <3>2
  <2>5. rTook[r] = Price * Size[r] - Price * Cardinality(bad)
    BY <1>3, SameCount DEF RouterInv, RouterPays, R!Reported, R!Refunded
  <2>6. \A p, a, b \in Int : p * a - p * b = p * (a - b)
    OBVIOUS
  <2>7. rTook[r] = Price * Cardinality(good)
    <3> HIDE DEF good, bad
    <3> QED
      BY <2>1, <2>4, <2>5, <2>6
  <2> QED
    BY <2>7, SameCount
<1>4. R!PaysForSuccess
  BY <1>3 DEF R!PaysForSuccess
<1> QED
  BY <1>1, <1>2, <1>4

-----------------------------------------------------------------------------
(* The invariant of the tasks: while its call is under way a task has      *)
(* taken no more than is given back when the call fails, and outside       *)
(* shadow mode exactly that; afterwards it has nothing to give back.       *)
TaskStates == {"none", "running", "completed", "failed", "cancelled", "evicted"}

TaskTypes ==
    /\ shadow \in BOOLEAN /\ tBal \in Int
    /\ status \in [Tasks -> TaskStates]
    /\ call \in [Tasks -> {"none", "denied", "running", "ok", "error", "rejected"}]
    /\ inner \in [Tasks -> Nat] /\ tTook \in [Tasks -> Int]

UnderWay(t) == call[t] \in {"running", "denied"}

TaskPays(t) ==
    /\ status[t] = "none" => call[t] = "none"
    /\ call[t] = "none" => tTook[t] = 0
    /\ UnderWay(t) => tTook[t] <= inner[t] + Price
    /\ call[t] = "error" => tTook[t] <= 0
    /\ ~shadow => /\ tTook[t] >= 0
                  /\ UnderWay(t) => tTook[t] = inner[t] + Price

TaskInv ==
    /\ TaskTypes
    /\ \A t \in Tasks : TaskPays(t)
    /\ ~shadow => tBal = TaskFund - Total(tTook, Tasks)

(* The initial states satisfy the invariant. *)
LEMMA InitTasks == T!Init => TaskInv
<1> SUFFICES ASSUME T!Init PROVE TaskInv
  OBVIOUS
<1>1. TaskTypes
  BY TransportsAssumption DEF T!Init, TaskTypes, TaskStates
<1>2. \A t \in Tasks : TaskPays(t)
  BY DEF T!Init, TaskPays, UnderWay
<1>3. Total(tTook, Tasks) = 0
  <2> DEFINE zero == [t \in Tasks |-> 0]
  <2>1. Units(zero, Tasks) = {}
    BY DEF Units
  <2> QED
    BY <2>1, FS_EmptySet DEF T!Init, Total
<1>4. tBal = TaskFund - Total(tTook, Tasks)
  BY <1>3, TransportsAssumption DEF T!Init
<1> QED
  BY <1>1, <1>2, <1>4 DEF TaskInv

(* Outside shadow mode what task x takes or gives back keeps the balance.  *)
LEMMA TaskBalance ==
    ASSUME TaskInv, NEW x \in Tasks, NEW n \in Int, ~shadow => n \in Nat,
           shadow' = shadow,
           tTook' = [tTook EXCEPT ![x] = n], tBal' = tBal + tTook[x] - n
    PROVE  ~shadow' => tBal' = TaskFund - Total(tTook', Tasks)
<1> SUFFICES ASSUME ~shadow PROVE tBal' = TaskFund - Total(tTook', Tasks)
  OBVIOUS
<1>1. tTook \in [Tasks -> Nat]
  BY DEF TaskInv, TaskTypes, TaskPays
<1>2. n \in Nat /\ TaskFund \in Int /\ IsFiniteSet(Tasks)
  BY TransportsAssumption
<1>3. tBal = TaskFund - Total(tTook, Tasks)
  BY DEF TaskInv
<1>4. Total(tTook', Tasks) = Total(tTook, Tasks) - tTook[x] + tTook'[x]
  <2>1. Countable(tTook, Tasks) /\ Countable(tTook', Tasks)
    BY <1>1, <1>2 DEF Countable
  <2>2. Differ(tTook, tTook', Tasks, x)
    BY <1>1 DEF Differ
  <2> QED
    BY ONLY <2>1, <2>2, TotalDiffer
<1>5. Total(tTook, Tasks) \in Nat /\ tTook[x] \in Nat
  BY <1>1, <1>2, TotalType DEF Countable
<1> QED
  BY <1>1, <1>2, <1>3, <1>4, <1>5

(* A task is created: whatever it takes beyond the price is what the       *)
(* handler's gate took.                                                    *)
LEMMA TaskSend == ASSUME TaskInv, NEW t \in Tasks, T!Send(t) PROVE TaskInv'
<1> DEFINE left == tBal - T!Charge(tBal)
           more == IF T!Passes(left) THEN T!Charge(left) ELSE 0
<1>1. TaskTypes /\ \A u \in Tasks : TaskPays(u)
  BY DEF TaskInv
<1>2. /\ Price \in Nat /\ T!Charge(tBal) \in Nat /\ T!Charge(tBal) <= Price
      /\ more \in Nat /\ left \in Int
      /\ ~shadow => T!Charge(tBal) = Price
  BY <1>1, TransportsAssumption DEF T!Send, T!Charge, T!Passes, TaskTypes
<1>3. /\ tBal' = left - more /\ shadow' = shadow
      /\ inner' = [inner EXCEPT ![t] = left - tBal']
      /\ tTook' = [tTook EXCEPT ![t] = tBal - tBal']
      /\ status[t] = "none" /\ status'[t] = "running"
      /\ call' = [call EXCEPT ![t] = IF T!Passes(left) THEN "running" ELSE "denied"]
  BY <1>1, <1>2 DEF T!Send, TaskTypes
<1>4. /\ status' \in [Tasks -> TaskStates]
      /\ \A u \in Tasks \ {t} : status'[u] \in {status[u], "evicted"}
  BY <1>1 DEF T!Send, TaskTypes, TaskStates
<1> HIDE DEF left
<1>5. left = tBal - T!Charge(tBal)
  BY DEF left
<1> HIDE DEF more
<1>6. left - tBal' = more /\ tBal - tBal' = T!Charge(tBal) + more /\ tBal' \in Int
  BY <1>1, <1>2, <1>3, <1>5 DEF TaskTypes
<1>7. TaskTypes'
  <2>1. inner' \in [Tasks -> Nat] /\ tTook' \in [Tasks -> Int]
    BY <1>1, <1>2, <1>3, <1>6 DEF TaskTypes
  <2>2. call' \in [Tasks -> {"none", "denied", "running", "ok", "error", "rejected"}]
    BY <1>1, <1>3 DEF TaskTypes
  <2> QED
    BY <1>1, <1>3, <1>4, <1>6, <2>1, <2>2 DEF TaskTypes
<1>8. tTook[t] = 0
  BY <1>1, <1>3 DEF TaskPays
<1>9. TaskPays(t)'
  <2>1. /\ inner'[t] = more /\ tTook'[t] = T!Charge(tBal) + more
        /\ call'[t] \in {"running", "denied"}
    BY <1>1, <1>3, <1>6 DEF TaskTypes
  <2> QED
    BY <1>2, <1>3, <2>1 DEF TaskPays, UnderWay
<1>10. \A u \in Tasks \ {t} : TaskPays(u)'
  <2> TAKE u \in Tasks \ {t}
  <2>1. /\ inner'[u] = inner[u] /\ tTook'[u] = tTook[u] /\ call'[u] = call[u]
        /\ status'[u] = "none" => status[u] = "none"
    BY <1>1, <1>3, <1>4 DEF TaskTypes
  <2> QED
    BY <1>1, <1>3, <2>1 DEF TaskPays, UnderWay
<1>11. ~shadow' => tBal' = TaskFund - Total(tTook', Tasks)
  <2> DEFINE n == tBal - tBal'
  <2>1. n \in Nat /\ tBal' = tBal + tTook[t] - n
    BY <1>1, <1>2, <1>3, <1>6, <1>8 DEF TaskTypes
  <2>2. tTook' = [tTook EXCEPT ![t] = n]
    BY <1>3
  <2> HIDE DEF n
  <2>3. shadow' = shadow /\ n \in Int
    BY <1>3, <2>1
  <2> QED
    BY <2>1, <2>2, <2>3, TaskBalance
<1> QED
  BY <1>7, <1>9, <1>10, <1>11 DEF TaskInv

(* The task's entry changes as the task manager says: it may end, and an   *)
(* entry that ended otherwise stays.                                       *)
LEMMA TaskEntry ==
    ASSUME NEW t \in Tasks, T!Succeeds(t) \/ T!Fails(t) \/ T!IsRejected(t)
    PROVE  \/ status' = status
           \/ /\ status[t] \in {"running", "failed"}
              /\ \E x \in {"completed", "failed"} : status' = [status EXCEPT ![t] = x]
BY DEF T!Succeeds, T!Fails, T!IsRejected, T!CompleteTask, T!FailTask

(* What the background call of a task does: it succeeds, fails or is       *)
(* rejected, and only a failure gives back.                                *)
LEMMA TaskCall ==
    ASSUME TaskInv, NEW t \in Tasks, T!Succeeds(t) \/ T!Fails(t) \/ T!IsRejected(t)
    PROVE  TaskInv'
<1>1. TaskTypes /\ \A u \in Tasks : TaskPays(u)
  BY DEF TaskInv
<1>2. /\ status' \in [Tasks -> TaskStates]
      /\ \A u \in Tasks : status'[u] = "none" => status[u] = "none"
  <2>1. /\ status \in [Tasks -> TaskStates]
        /\ "completed" \in TaskStates /\ "failed" \in TaskStates
    BY <1>1 DEF TaskTypes, TaskStates
  <2> QED
    BY <2>1, TaskEntry
<1>3. shadow' = shadow /\ inner' = inner
  BY DEF T!Succeeds, T!Fails, T!IsRejected, T!GiveBack
<1>4. UnderWay(t) /\ status[t] # "none"
  BY <1>1 DEF T!Succeeds, T!Fails, T!IsRejected, UnderWay, TaskPays
<1>5. CASE T!Succeeds(t) \/ T!IsRejected(t)
  <2>1. /\ tBal' = tBal /\ tTook' = tTook
        /\ \E x \in {"ok", "rejected"} : call' = [call EXCEPT ![t] = x]
    BY <1>5 DEF T!Succeeds, T!IsRejected
  <2>2. TaskTypes'
    BY <1>1, <1>2, <1>3, <2>1 DEF TaskTypes
  <2>3. TaskPays(t)'
    BY <1>1, <1>2, <1>3, <1>4, <2>1 DEF TaskPays, UnderWay, TaskTypes
  <2>4. \A u \in Tasks \ {t} : TaskPays(u)'
    BY <1>1, <1>2, <1>3, <2>1 DEF TaskPays, UnderWay, TaskTypes
  <2> QED
    BY <1>3, <2>1, <2>2, <2>3, <2>4 DEF TaskInv
<1>6. CASE T!Fails(t)
  <2> DEFINE n == tTook[t] - (inner[t] + Price)
  <2>1. /\ call' = [call EXCEPT ![t] = "error"]
        /\ tTook' = [tTook EXCEPT ![t] = n]
        /\ tBal' = tBal + (inner[t] + Price)
    BY <1>6 DEF T!Fails, T!GiveBack
  <2>2. /\ n \in Int /\ n <= 0
        /\ ~shadow => n = 0
        /\ tBal' = tBal + tTook[t] - n /\ tBal' \in Int
    BY <1>1, <1>4, <2>1, TransportsAssumption DEF TaskPays, TaskTypes
  <2> HIDE DEF n
  <2>3. ~shadow' => tBal' = TaskFund - Total(tTook', Tasks)
    <3>1. ~shadow => n \in Nat
      BY <2>2
    <3>2. n \in Int /\ tTook' = [tTook EXCEPT ![t] = n] /\ tBal' = tBal + tTook[t] - n
      BY <2>1, <2>2
    <3> QED
      BY <1>3, <3>1, <3>2, TaskBalance
  <2>4. TaskTypes'
    BY <1>1, <1>2, <1>3, <2>1, <2>2 DEF TaskTypes
  <2>5. TaskPays(t)'
    <3>1. tTook'[t] = n /\ call'[t] = "error"
      BY <1>1, <2>1 DEF TaskTypes
    <3> QED
      BY <1>2, <1>3, <1>4, <2>2, <3>1 DEF TaskPays, UnderWay
  <2>6. \A u \in Tasks \ {t} : TaskPays(u)'
    BY <1>1, <1>2, <1>3, <2>1 DEF TaskPays, UnderWay, TaskTypes
  <2> QED
    BY <2>3, <2>4, <2>5, <2>6 DEF TaskInv
<1> QED
  BY <1>5, <1>6

(* Every step keeps the invariant; cancelling and the cleanup touch        *)
(* nothing but the entry.                                                  *)
LEMMA StepTasks == TaskInv /\ [T!Next]_T!vars => TaskInv'
<1> SUFFICES ASSUME TaskInv, [T!Next]_T!vars PROVE TaskInv'
  OBVIOUS
<1>1. ASSUME \/ UNCHANGED T!vars
             \/ \E t \in Tasks : T!Cancel(t) \/ T!Cleanup(t)
      PROVE  TaskInv'
  <2>1. /\ UNCHANGED <<shadow, call, inner, tBal, tTook>>
        /\ status' \in [Tasks -> TaskStates]
        /\ \A u \in Tasks : status'[u] = "none" => status[u] = "none"
    BY <1>1 DEF T!vars, T!Cancel, T!Cleanup, TaskInv, TaskTypes, TaskStates
  <2>2. TaskTypes'
    BY <2>1 DEF TaskInv, TaskTypes
  <2>3. \A u \in Tasks : TaskPays(u)'
    BY <2>1 DEF TaskInv, TaskPays, UnderWay
  <2> QED
    BY <2>1, <2>2, <2>3 DEF TaskInv
<1> QED
  BY <1>1, TaskSend, TaskCall DEF T!Next

(* The invariant says what Tasks promises.                                 *)
LEMMA TaskPromise == TaskInv => T!FailedPaysNothing /\ T!NothingMinted
<1> SUFFICES ASSUME TaskInv PROVE T!FailedPaysNothing /\ T!NothingMinted
  OBVIOUS
<1>1. T!FailedPaysNothing
  BY DEF T!FailedPaysNothing, TaskInv, TaskPays
<1>2. ASSUME ~shadow PROVE tBal <= TaskFund
  <2>1. Countable(tTook, Tasks)
    BY <1>2, TransportsAssumption DEF Countable, TaskInv, TaskTypes, TaskPays
  <2>2. Total(tTook, Tasks) \in Nat
    BY <2>1, TotalType
  <2> QED
    BY <1>2, <2>2, TransportsAssumption DEF TaskInv
<1> QED
  BY <1>1, <1>2 DEF T!NothingMinted

(* However calls are answered, cut, rejected, time out or outlive their    *)
(* request, and however tasks are cancelled, cleaned up or evicted under   *)
(* their calls: a request that was answered has paid for the calls that    *)
(* succeeded and says so, nothing is settled twice, a task whose call      *)
(* failed has paid nothing, and no failure mints credits.                  *)
THEOREM BillsAreHonoured == R!Spec /\ T!Spec => []BillsHonoured
<1>1. RouterInv /\ TaskInv => BillsHonoured
  BY RouterPromise, TaskPromise DEF BillsHonoured
<1>2. R!Spec => []RouterInv
  BY InitRouter, StepRouter, PTL DEF R!Spec
<1>3. T!Spec => []TaskInv
  BY InitTasks, StepTasks, PTL DEF T!Spec
<1> QED
  BY <1>1, <1>2, <1>3, PTL

(* A task that the client cancelled stays cancelled until it is evicted,   *)
(* however its call ends afterwards.                                       *)
THEOREM CancelledStays == T!Spec => CancelSticks
<1> DEFINE Stays == \A t \in Tasks : status[t] = "cancelled" => status'[t] \in {"cancelled", "evicted"}
<1>1. ASSUME TaskInv, [T!Next]_T!vars PROVE [Stays]_T!vars
  <2>1. TaskTypes
    BY <1>1 DEF TaskInv
  <2>2. CASE UNCHANGED T!vars
    BY <2>2
  <2>3. ASSUME NEW t \in Tasks, T!Succeeds(t) \/ T!Fails(t) \/ T!IsRejected(t) PROVE Stays
    BY <2>1, <2>3, TaskEntry DEF TaskTypes
  <2>4. ASSUME NEW t \in Tasks, T!Send(t) \/ T!Cancel(t) \/ T!Cleanup(t) PROVE Stays
    BY <2>1, <2>4 DEF T!Send, T!Cancel, T!Cleanup, TaskTypes
  <2> QED
    BY <1>1, <2>2, <2>3, <2>4 DEF T!Next
<1>2. T!Spec => []TaskInv
  BY InitTasks, StepTasks, PTL DEF T!Spec
<1> QED
  BY <1>1, <1>2, PTL DEF CancelSticks, T!CancelSticks, T!Spec

=============================================================================
