------------------------------- MODULE MCFleet -------------------------------
(***************************************************************************)
(* Several servers behind Redis, for TLC: the client's connections         *)
(* (RedisClient), the key they share (RedisSync), the groups they share    *)
(* (GroupSync).  A behaviour runs one of the three, its part.              *)
(***************************************************************************)
EXTENDS Fleet, TLC

CONSTANTS Parts,             \* the parts a behaviour may run
          c1, c2, c3, i1, i2, g1, k1

VARIABLES part,
          scope, gLoc, gRds, gQ, gR, gEv, gLeft, want

ThreeCmds == {c1, c2, c3}
TwoSockets == 1..2
Two == {i1, i2}

Allow(some) == some @@ [op \in {"call", "refund", "topUp", "autoTopup", "save", "suspend",
                                "revoke", "rotate", "refresh", "outage", "lost"} |-> 0]
Mixes == {Allow([call |-> 1, refund |-> 1, refresh |-> 1]),
          Allow([call |-> 1, suspend |-> 1, refresh |-> 1]),
          Allow([save |-> 1, revoke |-> 1, refresh |-> 1]),
          Allow([save |-> 1, rotate |-> 1, refresh |-> 1]),
          Allow([call |-> 1, topUp |-> 1, refresh |-> 1]),
          Allow([call |-> 1, outage |-> 1, lost |-> 1, refresh |-> 1]),
          Allow([call |-> 1, autoTopup |-> 1, lost |-> 1]),
          Allow([call |-> 2, topUp |-> 1])}
TwoCalls == {Allow([call |-> 2])}
Revokes == {Allow([save |-> 1, revoke |-> 1, refresh |-> 1])}

Idle == Allow([call |-> 0])
MixesOrIdle == Mixes \cup {Idle}
TwoCallsOrIdle == TwoCalls \cup {Idle}
RevokesOrIdle == Revokes \cup {Idle}

Scope(c, a, m, d, ws, t) ==
    [create |-> c, assign |-> a, remove |-> m, delete |-> d, writers |-> ws, interval |-> t]
Unused == Scope(0, 0, 0, 0, {}, FALSE)
Uses == {Unused, Scope(1, 1, 0, 0, Two, TRUE),
         Scope(1, 0, 0, 1, {i1}, TRUE), Scope(1, 1, 1, 0, {i1}, FALSE)}
G == INSTANCE GroupSync WITH
    Instances <- Two, Groups <- {g1}, Keys <- {k1}, Scopes <- Uses,
    loc <- gLoc, rds <- gRds, q <- gQ, r <- gR, ev <- gEv, left <- gLeft

sVars == <<loc, rds, q, r, ev, listens, budget, left, tally>>
gVars == <<scope, gLoc, gRds, gQ, gR, gEv, gLeft, want>>

AllParts == {"client", "keys", "groups"}
KeysOnly == {"keys"}

(* A part that does not run is idle: none of its fair actions is enabled. *)
MCInit == /\ part \in Parts
          /\ Init /\ F!Init /\ G!Init
          /\ (part = "keys") = (budget # Idle) /\ (part = "groups") = (scope # Unused)
MCNext == \/ part = "client" /\ Next /\ UNCHANGED <<part, sVars, gVars>>
          \/ part = "keys" /\ F!Next /\ UNCHANGED <<part, vars, gVars>>
          \/ part = "groups" /\ G!Next /\ UNCHANGED <<part, vars, sVars>>
MCSpec == /\ MCInit /\ [][MCNext]_<<part, vars, sVars, gVars>>
          /\ Fairness /\ F!Fairness /\ G!Fairness

(* Once changes end, the copies of the key come to agree with Redis and    *)
(* the instances on the groups, and a change of a group spreads, whatever  *)
(* events were lost and however loads and writes overlapped.               *)
FleetAgrees == F!Converges /\ G!Agree /\ G!ChangeSpreads

(* The two promises that the fleet does not keep.                          *)
NoDoubleSpend == F!NoDoubleSpend
Permanent == F!Permanent
=============================================================================
