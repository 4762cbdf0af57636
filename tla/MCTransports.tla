---------------------------- MODULE MCTransports ----------------------------
(***************************************************************************)
(* The ways a call reaches a backend, StdioProxy, Router and Tasks, and    *)
(* the reports of the calls that were made, Reports, for TLC.  They share  *)
(* no state, so a behaviour runs one of them, its part, and the others     *)
(* stay as they began.                                                     *)
(***************************************************************************)
EXTENDS Transports

CONSTANTS r1, r2, r3

VARIABLES part,
          recs, group, meter, log, audit, facts, before, hour, ops

Three == {r1, r2, r3}
ThreeIds == 1..3
AnyId == [r \in Three |-> CASE r = r1 -> {1} [] r = r2 -> {1, 2} [] OTHER -> {1, 2, 3}]

(* A batch of two remote calls, a remote call, a call to a child; three    *)
(* tasks of one key, two of them kept.                                     *)
Sizes == [r \in Three |-> IF r = r1 THEN 2 ELSE 1]
Kinds == [r \in Three |-> IF r = r2 THEN "http" ELSE "stdio"]

(* Two keys, two tools and a group: the first tool is cheaper for its      *)
(* members, the second charges for its answers; the second key may be used *)
(* once a day, the first has a long past.  Three things happen: the log is *)
(* full after two calls, the meter after two that are refunded.            *)
U == INSTANCE Reports WITH
    Keys <- {"k1", "k2"}, Tools <- {"t1", "t2"}, Namespaces <- {"default", "team"},
    Groups <- {"g"}, Price <- [t \in {"t1", "t2"} |-> IF t = "t1" THEN 2 ELSE 3],
    GroupPrice <- [g \in {"g"} |-> [t \in {"t1", "t2"} |-> IF t = "t1" THEN 1 ELSE 3]],
    Output <- [t \in {"t1", "t2"} |-> IF t = "t1" THEN 0 ELSE 1],
    DailyCalls <- [k \in {"k1", "k2"} |-> IF k = "k1" THEN 0 ELSE 1],
    Past <- [k \in {"k1", "k2"} |-> IF k = "k1" THEN 20 ELSE 1],
    Fund <- 12, RefundOnFailure <- TRUE, MaxEvents <- 4, MaxLog <- 2, Day <- 2, MaxOps <- 3

rVars == <<routed, rStarted, session, deleting, stops, rSt, res, rBal, rTook, told>>
tVars == <<shadow, status, ended, call, inner, tBal, tTook>>
uVars == <<recs, group, meter, log, audit, facts, before, hour, ops>>

(* A part that does not run has one initial state. *)
MCInit == /\ part \in {"stdio", "router", "tasks", "reports"}
          /\ Init /\ R!Init /\ T!Init
          /\ part # "stdio" => id = [r \in Three |-> 1]
          /\ part # "router" => routed = TRUE
          /\ part # "tasks" => shadow = FALSE
          /\ IF part = "reports" THEN U!Init
             ELSE /\ recs = 0 /\ group = 0 /\ meter = 0 /\ log = 0 /\ audit = 0
                  /\ facts = 0 /\ before = 0 /\ hour = 0 /\ ops = 0
MCNext == \/ part = "stdio" /\ Next /\ UNCHANGED <<part, rVars, tVars, uVars>>
          \/ part = "router" /\ R!Next /\ UNCHANGED <<part, vars, tVars, uVars>>
          \/ part = "tasks" /\ T!Next /\ UNCHANGED <<part, vars, rVars, uVars>>
          \/ part = "reports" /\ U!Next /\ UNCHANGED <<part, vars, rVars, tVars>>
MCSpec == /\ MCInit /\ [][MCNext]_<<part, vars, rVars, tVars, uVars>>
          /\ Fairness /\ R!Fairness /\ T!Fairness

(* Requests to the child, routed requests and tasks are settled in the     *)
(* end, whatever answers are lost.                                         *)
AllSettle == Settles /\ R!Settles /\ T!Settles

(* The reports agree with each other, with the records and with what       *)
(* happened, whatever was made, called, suspended, regrouped or lost in a  *)
(* restart before (the nine properties of Reports).                        *)
ReportsHonoured == part = "reports" => U!ReportsHonoured
=============================================================================
