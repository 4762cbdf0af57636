----------------------------- MODULE MCWebhooks -----------------------------
(***************************************************************************)
(* Webhooks for TLC: WebhookEmitter, with three events, the managers of    *)
(* WebhookManagers, and those of Timekeeping and of Operations, whose news *)
(* webhooks carry.  A behaviour runs one of the four, its part.            *)
(***************************************************************************)
EXTENDS WebhookEmitter

CONSTANTS Parts,                  \* the parts a behaviour may run
          e1, e2, e3

VARIABLES part, mgr, s, seen, now, ops

ThreeEvents == {e1, e2, e3}

AllParts == {"emitter", "managers", "time", "operations"}
EmitterOnly == {"emitter"}

M == INSTANCE WebhookManagers WITH
    Urls <- {"a", "b"}, Workers <- {1, 2}, MaxEntries <- 2, MaxUrls <- 1,
    MaxAttempts <- 2, BaseDelay <- 1, MaxDelay <- 1, BatchSize <- 2,
    Threshold <- 2, ResetTimeout <- 1, HalfOpenSuccesses <- 2,
    MaxPerWindow <- 1, Window <- 2, MaxRetries <- 2, MaxAge <- 1, Throttle <- 2,
    MaxOps <- [retry |-> 6, batch |-> 6, circuit |-> 7, rate |-> 6,
               replay |-> 5, log |-> 5, router |-> 5, notices |-> 4],
    MaxIds <- 4, MaxClock <- 4

T == INSTANCE Timekeeping WITH
    Ids <- {"a", "b"}, PerKey <- 2, Window <- 2, Thresholds <- <<5, 1>>, MaxActive <- 2,
    Grace <- 1,
    MaxOps <- [schedules |-> 4, alerts |-> 4, scanner |-> 3, windows |-> 3,
               sessions |-> 5, connections |-> 4],
    MaxClock <- [schedules |-> 2, alerts |-> 3, scanner |-> 5, windows |-> 3,
                 sessions |-> 2, connections |-> 3]

O == INSTANCE Operations WITH
    Keys <- {"a", "b", "c"}, Aliases <- {"x", "y"}, Names <- {"x"}, Urls <- {"u", "v"},
    Filters <- {"f", "g"}, DrainTimeout <- 2, MaxTasks <- 2,
    MaxOps <- [drain |-> 6, snapshot |-> 5, reload |-> 4, agents |-> 5],
    MaxClock <- [drain |-> 4, snapshot |-> 0, reload |-> 0, agents |-> 2]

emitter == <<buffer, flight, retry, dead, paused, stopped, emitted, delivered,
             sends, lost, pauses, replays, timeouts>>
managers == <<mgr, s, seen, now, ops>>
all == <<part, emitter, managers>>

MCInit == /\ part \in Parts
          /\ Init
          /\ \/ part = "emitter" /\ mgr = "none" /\ s = 0 /\ seen = 0 /\ now = 0 /\ ops = 0
             \/ part = "managers" /\ M!Init
             \/ part = "time" /\ T!Init
             \/ part = "operations" /\ O!Init

MCNext == \/ part = "emitter" /\ Next /\ UNCHANGED <<part, managers>>
          \/ part = "managers" /\ M!Next /\ UNCHANGED <<part, emitter>>
          \/ part = "time" /\ T!Next /\ UNCHANGED <<part, emitter>>
          \/ part = "operations" /\ O!Next /\ UNCHANGED <<part, emitter>>

(* As in WebhookEmitter; nothing is asked of the managers. *)
MCSpec == MCInit /\ [][MCNext]_all /\ Fairness
-----------------------------------------------------------------------------
(* The managers around delivery keep their promises (WebhookManagers);     *)
(* what happens because time passes happens once and in its time: actions, *)
(* alerts, warnings, windows and sessions (Timekeeping); and draining,     *)
(* restoring, reloading and the tasks of agents do what they say and no    *)
(* more (Operations).                                                      *)
ManagersDeliver ==
    /\ part = "managers" =>
         /\ M!RetryHonoured /\ M!BatchHonoured /\ M!CircuitHonoured /\ M!RateHonoured
         /\ M!ReplayHonoured /\ M!LogHonoured /\ M!RouterHonoured /\ M!NoticesHonoured
    /\ part = "time" =>
         /\ T!SchedulesHonoured /\ T!AlertsHonoured /\ T!ScannerHonoured
         /\ T!WindowsHonoured /\ T!SessionsTimed /\ T!ConnectionsHonoured
    /\ part = "operations" =>
         /\ O!DrainHonoured /\ O!SnapshotHonoured /\ O!ReloadsHonoured /\ O!AgentsHonoured
=============================================================================
