---------------------------- MODULE MCCredentials ----------------------------
(***************************************************************************)
(* What lets a caller in, for TLC: OAuth, ScopedTokens, AdminKeys,         *)
(* Sessions, and the managers of KeyLife and of Policies.  A behaviour     *)
(* runs one of the six, its part; the others stay as they start.           *)
(***************************************************************************)
EXTENDS AdminKeys, Credentials

CONSTANTS a, b,                   \* clients, servers
          k0, k1, k2, k3,         \* admin keys
          r1, r2,                 \* requests
          e1, e2, e3,             \* event streams
          t1, t2                  \* scoped tokens

VARIABLES part,
          mgr, s, seen, time, ops

FirstKey == k0
FourKeys == {k0, k1, k2, k3}
TwoRequests == {r1, r2}

(* Two servers with two scoped tokens, one client and one stranger of      *)
(* OAuth, three streams.                                                   *)
TwoServers == {a, b}
TwoScoped == {t1, t2}
OneClient == {a}
OneStranger == {b}
ThreeStreams == {e1, e2, e3}

K == INSTANCE KeyLife WITH
    Keys <- {k1, k2, k3}, Limit <- 2, MaxHistory <- 2, Interval <- 1, Grace <- 1,
    MaxExtensions <- 1, MaxDepth <- 2, Amounts <- {1, 2}, MaxOps <- 4, MaxClock <- 3, now <- time

Sizes == [graph |-> 3, profiles |-> 4, approvals |-> 5, plans |-> 5, tenants |-> 5]
P == INSTANCE Policies WITH
    Keys <- {k1, k2}, Tools <- {e1, e2, e3}, Limit <- 2, FlowLimit <- 1, KeysPerTenant <- 1,
    Expiry <- 1, MaxOps <- Sizes, MaxClock <- 2, now <- time

oVars == <<now, clients, codes, tokens, disk, nextCode, nextToken,
           presented, paired, revoked, bornLast>>
tVars == <<clock, expires, list, sent, boots, mishaps>>
sVars == <<sessions, stream, nextId>>
kVars == <<mgr, s, seen, time, ops>>

MCInit == /\ part \in {"oauth", "tokens", "admins", "sessions", "keys", "policies"}
          /\ O!Init /\ T!Init /\ Init /\ S!Init
          /\ IF part = "keys" THEN K!Init ELSE IF part = "policies" THEN P!Init
             ELSE mgr = "" /\ s = <<>> /\ seen = <<>> /\ time = 0 /\ ops = 0
MCNext == \/ part = "oauth" /\ O!Next /\ UNCHANGED <<part, tVars, vars, sVars, kVars>>
          \/ part = "tokens" /\ T!Next /\ UNCHANGED <<part, oVars, vars, sVars, kVars>>
          \/ part = "admins" /\ Next /\ UNCHANGED <<part, oVars, tVars, sVars, kVars>>
          \/ part = "sessions" /\ S!Next /\ UNCHANGED <<part, oVars, tVars, vars, kVars>>
          \/ part = "keys" /\ K!Next /\ UNCHANGED <<part, oVars, tVars, vars, sVars>>
          \/ part = "policies" /\ P!Next /\ UNCHANGED <<part, oVars, tVars, vars, sVars>>
MCSpec == /\ MCInit /\ [][MCNext]_<<part, oVars, tVars, vars, sVars, kVars>>
          /\ O!Fairness /\ T!Fairness /\ S!Fairness

(* The managers of keys: histories, graces, ages, trees, migrations and    *)
(* groups agree with what was done, in whatever order it was; and what is  *)
(* laid down about calls (dependencies, profiles, approvals, plans and     *)
(* tenants) stays whole and decides as it says.                            *)
KeysHonoured == part = "keys" =>
    /\ K!LifecycleHonoured /\ K!RotationHonoured /\ K!AgesHonoured /\ K!GraceHonoured
    /\ K!DeprecationHonoured /\ K!HierarchyHonoured /\ K!MigrationHonoured /\ K!GroupsHonoured
PoliciesHonoured == part = "policies" =>
    /\ P!GraphHonoured /\ P!ProfilesHonoured /\ P!ApprovalsHonoured /\ P!PlansHonoured
    /\ P!TenantsHonoured
RulesHonoured == KeysHonoured /\ PoliciesHonoured

(* What expired is forgotten (OAuth, Sessions), and a revocation reaches   *)
(* every running server unless it is lost (ScopedTokens).                  *)
Forgotten == O!ExpiredForgotten /\ S!IdleEnds /\ T!RevocationSpreads
=============================================================================
