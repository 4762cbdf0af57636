---------------------------- MODULE Reservations -----------------------------
(***************************************************************************)
(* Credit reservations: the /keys/reserve endpoints of server.ts, over the *)
(* balances of the key store.  A reservation holds credits only against    *)
(* other reservations: calls are charged from the same balance without     *)
(* looking at it, and a commit takes what it finds.  Reservations are in   *)
(* memory and their numbers restart with the process.                      *)
(***************************************************************************)
EXTENDS Integers, FiniteSets, Totals

CONSTANTS Keys, InitialCredits, Price, TopUpAmount,
          Amounts, Ttls,           \* what a reservation may ask for, and how long
          MaxPerKey,               \* active reservations of one key
          MaxClock, MaxRequests, MaxCharges, MaxEvents       \* bounds

VARIABLES now,
          keys,          \* key -> [credits, active, suspended], of the existing keys
          holds,         \* creditReservations: id -> [key, credits, expiresAt]
          nextId,
          charged,       \* Keys -> the credits calls took
          reported,      \* Keys -> the credits commits said they deducted
          taken,         \* Keys -> the credits commits did deduct
          turnedAway,    \* whether a request that fits was ever refused
          requests, charges, events

vars == <<now, keys, holds, nextId, charged, reported, taken, turnedAway,
          requests, charges, events>>

Zero == [k \in Keys |-> 0]
SumOf(ids) == Total([id \in DOMAIN holds |-> holds[id].credits], ids)
With(f, x, v) == [y \in DOMAIN f \cup {x} |-> IF y = x THEN v ELSE f[y]]
HoldsOf(k, hs) == {id \in DOMAIN hs : hs[id].key = k}
Lapsed(id) == holds[id].expiresAt <= now

Init == /\ now = 0
        /\ \E some \in (SUBSET Keys) \ {{}} :
              keys = [k \in some |-> [credits |-> InitialCredits, active |-> TRUE,
                                      suspended |-> FALSE]]
        /\ holds = <<>> /\ nextId = 1
        /\ charged = Zero /\ reported = Zero /\ taken = Zero
        /\ turnedAway = FALSE
        /\ requests = 0 /\ charges = 0 /\ events = 0

(* Slip: the sweep is left to the listing. *)
SweptLater == holds

(* cleanupExpiredReservations. *)
Swept == Restrict(holds, {id \in DOMAIN holds : ~Lapsed(id)})

(* Slip: what is held already does not count. *)
FitsBalance(k, n) == n <= keys[k].credits /\ Cardinality(HoldsOf(k, Swept)) < MaxPerKey

(* The two checks of handleCreateReservation, after the sweep. *)
Fits(k, n) ==
    LET mine == HoldsOf(k, Swept)
    IN  n <= keys[k].credits - SumOf(mine) /\ Cardinality(mine) < MaxPerKey

(* What the documents promise a request; only a ghost reads it. *)
Deserves(k, n) ==
    LET mine == {id \in HoldsOf(k, holds) : holds[id].expiresAt > now}
    IN  n <= keys[k].credits - SumOf(mine) /\ Cardinality(mine) < MaxPerKey

Reserve(k, n, ttl) ==
    /\ requests < MaxRequests /\ requests' = requests + 1
    /\ k \in DOMAIN keys /\ keys[k].active /\ ~keys[k].suspended
    /\ \/ /\ Fits(k, n)
          /\ holds' = With(Swept, nextId, [key |-> k, credits |-> n, expiresAt |-> now + ttl])
          /\ nextId' = nextId + 1
          /\ UNCHANGED turnedAway
       \/ /\ ~Fits(k, n)
          /\ holds' = Swept
          /\ turnedAway' = (turnedAway \/ Deserves(k, n))
          /\ UNCHANGED nextId
    /\ UNCHANGED <<now, keys, charged, reported, taken, charges, events>>

(* Slip: the reservation stays, to be committed again. *)
RemainingAll(id) == holds

Remaining(id) == Restrict(holds, DOMAIN holds \ {id})

(* handleCommitReservation: a lapsed hold, or one whose key is gone, is    *)
(* dropped; otherwise as much of it as there is leaves the balance.        *)
(* Neither the state of the key nor its totals are looked at.              *)
Commit(id) ==
    LET k == holds[id].key
        n == holds[id].credits
        d == IF n <= keys[k].credits THEN n ELSE keys[k].credits
    IN  /\ id \in DOMAIN holds
        /\ holds' = Remaining(id)
        /\ \/ /\ ~Lapsed(id) /\ k \in DOMAIN keys
              /\ keys' = [keys EXCEPT ![k].credits = @ - d]
              /\ reported' = [reported EXCEPT ![k] = @ + n]
              /\ taken' = [taken EXCEPT ![k] = @ + d]
           \/ /\ Lapsed(id) \/ k \notin DOMAIN keys
              /\ UNCHANGED <<keys, reported, taken>>
        /\ UNCHANGED <<now, nextId, charged, turnedAway, requests, charges, events>>

Release(id) ==
    /\ id \in DOMAIN holds
    /\ holds' = Restrict(holds, DOMAIN holds \ {id})
    /\ UNCHANGED <<now, keys, nextId, charged, reported, taken, turnedAway, requests, charges,
                   events>>

(* handleListReservations sweeps as well. *)
List ==
    /\ \E id \in DOMAIN holds : Lapsed(id)
    /\ holds' = Swept
    /\ UNCHANGED <<now, keys, nextId, charged, reported, taken, turnedAway, requests, charges,
                   events>>

-----------------------------------------------------------------------------
(* The rest of the server, on the same balances. *)

(* The gate charges a call. *)
Charge(k) ==
    /\ charges < MaxCharges /\ charges' = charges + 1
    /\ k \in DOMAIN keys /\ keys[k].active /\ ~keys[k].suspended /\ keys[k].credits >= Price
    /\ keys' = [keys EXCEPT ![k].credits = @ - Price]
    /\ charged' = [charged EXCEPT ![k] = @ + Price]
    /\ UNCHANGED <<now, holds, nextId, reported, taken, turnedAway, requests, events>>

Event == events < MaxEvents /\ events' = events + 1

Changed(k, record) ==
    /\ Event /\ keys' = [keys EXCEPT ![k] = record]
    /\ UNCHANGED <<now, holds, nextId, charged, reported, taken, turnedAway, requests, charges>>

TopUp(k) == /\ k \in DOMAIN keys /\ keys[k].active
            /\ Changed(k, [keys[k] EXCEPT !.credits = @ + TopUpAmount])

Suspend(k) == /\ k \in DOMAIN keys /\ keys[k].active /\ ~keys[k].suspended
              /\ Changed(k, [keys[k] EXCEPT !.suspended = TRUE])

RevokeKey(k) == /\ k \in DOMAIN keys /\ keys[k].active
                /\ Changed(k, [keys[k] EXCEPT !.active = FALSE])

(* rotateKey: the record goes to a new key; holds still name the old one. *)
Rotate(k, new) ==
    /\ k \in DOMAIN keys /\ keys[k].active /\ new \in Keys \ DOMAIN keys
    /\ charged[new] + reported[new] = 0 /\ HoldsOf(new, holds) = {}
    /\ Event
    /\ keys' = With(Restrict(keys, DOMAIN keys \ {k}), new, keys[k])
    /\ UNCHANGED <<now, holds, nextId, charged, reported, taken, turnedAway, requests, charges>>

(* A restart loads the balances as saved and knows no reservation. *)
Restart ==
    /\ nextId > 1 /\ Event
    /\ holds' = <<>> /\ nextId' = 1
    /\ UNCHANGED <<now, keys, charged, reported, taken, turnedAway, requests, charges>>

Tick == /\ now < MaxClock /\ now' = now + 1
        /\ UNCHANGED <<keys, holds, nextId, charged, reported, taken, turnedAway, requests,
                       charges, events>>

Next == \/ \E k \in Keys, n \in Amounts, ttl \in Ttls : Reserve(k, n, ttl)
        \/ \E id \in DOMAIN holds : Commit(id) \/ Release(id)
        \/ \E k \in Keys : Charge(k) \/ TopUp(k) \/ Suspend(k) \/ RevokeKey(k)
        \/ \E k, new \in Keys : Rotate(k, new)
        \/ List \/ Restart \/ Tick

Spec == Init /\ [][Next]_vars
-----------------------------------------------------------------------------
(* Reservations never promise the same credit twice: what is held on a key *)
(* is in its balance, but for what calls have taken from under it.         *)
HoldsAreCovered ==
    \A k \in DOMAIN keys :
        SumOf({id \in HoldsOf(k, holds) : ~Lapsed(id)}) <= keys[k].credits + charged[k]

(* The credits that commits report as deducted and did not find are among  *)
(* those that calls took: with no calls in between, a commit takes exactly *)
(* what was reserved, once.                                                *)
ShortOnlyByCalls == \A k \in Keys : reported[k] - taken[k] <= charged[k]

(* A lapsed hold stands in nobody's way: a request that fits beside the    *)
(* holds still running is accepted.                                        *)
NoneTurnedAway == ~turnedAway
=============================================================================
