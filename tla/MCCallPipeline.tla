--------------------------- MODULE MCCallPipeline ---------------------------
(***************************************************************************)
(* CallPipeline for TLC, and beside it the managers of Dispatch and of     *)
(* Backends, which share no state with it.  A behaviour runs one of the    *)
(* three, its part.                                                        *)
(***************************************************************************)
EXTENDS CallPipeline, TLC

CONSTANTS c1, c2, c3, k1, k2, k3

VARIABLES part, mgr, s, told, time, ops

ThreeCalls == {c1, c2, c3}
TwoKeys == {k1, k2}
MixedKeys == (c1 :> k1 @@ c2 :> k1 @@ c3 :> k2)

(* Arguments: a field at the top and one inside an object.  The cache key  *)
(* is built with the list of top-level names as the filter of              *)
(* JSON.stringify, so what lies deeper is left out of it.                  *)
TwoArgs == (c1 :> [top |-> 1, deep |-> 1] @@ c2 :> [top |-> 1, deep |-> 1]
            @@ c3 :> [top |-> 2, deep |-> 1])
TopOnly == [a \in [top : 1..2, deep : 1..2] |-> a.top]

D == INSTANCE Dispatch WITH
    Ids <- {k1, k2, k3}, Limit <- 2, Ttl <- 2, Wait <- <<1, 2, 3>>, Promotion <- 1,
    Slots <- 1, Errors <- 2, MaxOps <- 4, MaxClock <- 3, seen <- told, now <- time

B == INSTANCE Backends WITH
    Ids <- {k1, k2, k3}, Servers <- {k1, k2}, Limit <- 2, Window <- 2, Sample <- 2, Threshold <- 30,
    MaxOps <- [adaptive |-> 5, canary |-> 4, retry |-> 3, tiers |-> 5, health |-> 4,
               discovery |-> 5, virtual |-> 4],
    MaxClock <- [adaptive |-> 2, retry |-> 2, health |-> 3, virtual |-> 3],
    seen <- told, now <- time

dVars == <<mgr, s, told, time, ops>>

MCInit == /\ Init
          /\ \/ part = "dispatch" /\ D!Init
             \/ part = "backends" /\ B!Init
             \/ /\ part = "calls" /\ mgr = "none" /\ s = 0
                /\ told = 0 /\ time = 0 /\ ops = 0
MCNext == \/ part = "calls" /\ Next /\ UNCHANGED <<part, dVars>>
          \/ part = "dispatch" /\ D!Next /\ UNCHANGED <<part, vars>>
          \/ part = "backends" /\ B!Next /\ UNCHANGED <<part, vars>>
MCSpec == MCInit /\ [][MCNext]_<<part, vars, dVars>>
MCFairSpec == MCSpec /\ \A c \in Calls : WF_vars(Timeout(c))

(* What stands between a request and its execution keeps its promises:     *)
(* equal requests run once at a time, queues lose and overtake nobody,     *)
(* slots and backends are given out fairly, records live as long as told;  *)
(* rates, canaries, retries, tiers, health and virtual servers follow what *)
(* was seen of the callers and of the backends, neither late nor too soon. *)
DispatchHonoured ==
    /\ D!DedupHonoured /\ D!QueueHonoured /\ D!ThrottleHonoured
    /\ D!BufferHonoured /\ D!BalancerHonoured /\ D!FingerprintsHonoured
    /\ B!AdaptiveHonoured /\ B!CanaryHonoured /\ B!RetriesHonoured /\ B!TiersHonoured
    /\ B!HealthHonoured /\ B!DiscoveryHonoured /\ B!VirtualHonoured
=============================================================================
