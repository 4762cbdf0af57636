----------------------------- MODULE StdioProxy -----------------------------
(***************************************************************************)
(* The stdio transport (proxy.ts): requests of many clients share one      *)
(* child process, and its answers are matched to them by the JSON-RPC id   *)
(* the client chose.  A request is settled by an answer, by its timer, by  *)
(* a write error, or by the exit of the child.                             *)
(***************************************************************************)
EXTENDS Naturals, FiniteSets

CONSTANTS Requests,      \* requests of one behaviour
          Ids,           \* JSON-RPC ids
          IdsOf,         \* IdsOf[r]: ids request r may carry
          None           \* no request

ASSUME StdioAssumption == None \notin Requests /\ IdsOf \in [Requests -> SUBSET Ids]

VARIABLES started,       \* this.started
          child,         \* the child: up, deaf (its stdin is closed) or gone
          st,            \* st[r]: new, waiting, resolved, rejected or refused
          id,            \* id[r]: the id of request r, once sent
          pending,       \* pendingRequests: the request waiting under an id
          timers,        \* requests whose timeout is armed
          inbox,         \* requests the child has read and not answered
          broken,        \* requests whose write failed, callback still to run
          got            \* got[r]: the request and outcome whose answer r received

vars == <<started, child, st, id, pending, timers, inbox, broken, got>>

NoAnswer == [of |-> None, ok |-> TRUE]

Init ==
    /\ started = TRUE /\ child = "up"
    /\ st = [r \in Requests |-> "new"]
    /\ id \in {f \in [Requests -> Ids] : \A r \in Requests : f[r] \in IdsOf[r]}
    /\ pending = [i \in Ids |-> None]
    /\ timers = {} /\ inbox = {} /\ broken = {}
    /\ got = [r \in Requests |-> NoAnswer]

(* handleRequest refuses while the server is not started, uncharged; a     *)
(* closed stdin rejects; else the request replaces whatever waits under    *)
(* its id and is written to the child, which may fail.                     *)
Refuse(r) ==
    /\ st[r] = "new" /\ ~started
    /\ st' = [st EXCEPT ![r] = "refused"]
    /\ UNCHANGED <<started, child, id, pending, timers, inbox, broken, got>>

Unwritable(r) ==
    /\ st[r] = "new" /\ started /\ child # "up"
    /\ st' = [st EXCEPT ![r] = "rejected"]
    /\ UNCHANGED <<started, child, id, pending, timers, inbox, broken, got>>

Forward(r) ==
    /\ st[r] = "new" /\ started /\ child = "up"
    /\ st' = [st EXCEPT ![r] = "waiting"]
    /\ pending' = [pending EXCEPT ![id[r]] = r]
    /\ timers' = timers \cup {r}
    /\ \/ inbox' = inbox \cup {r} /\ UNCHANGED broken
       \/ broken' = broken \cup {r} /\ UNCHANGED inbox
    /\ UNCHANGED <<started, child, id, got>>

(* pending.resolve and pending.reject clear the timer of the request they  *)
(* settle.                                                                 *)
Settled(p, outcome) == st' = [st EXCEPT ![p] = outcome] /\ timers' = timers \ {p}

Nobody == UNCHANGED <<st, pending, timers, got>>

(* Slip: answers handed out in the order of the map, not by id. *)
AnswerAny(r, ok) ==
    /\ r \in inbox
    /\ inbox' = inbox \ {r}
    /\ IF \A i \in Ids : pending[i] = None THEN Nobody
       ELSE \E i \in Ids : /\ pending[i] # None
                           /\ Settled(pending[i], "resolved")
                           /\ got' = [got EXCEPT ![pending[i]] = [of |-> r, ok |-> ok]]
                           /\ pending' = [pending EXCEPT ![i] = None]
    /\ UNCHANGED <<started, child, id, broken>>

(* handleServerOutput: the child answers request r; whoever waits under    *)
(* the id gets the answer.                                                 *)
Answer(r, ok) ==
    /\ r \in inbox
    /\ inbox' = inbox \ {r}
    /\ LET p == pending[id[r]]
       IN  IF p = None THEN Nobody
           ELSE /\ Settled(p, "resolved")
                /\ got' = [got EXCEPT ![p] = [of |-> r, ok |-> ok]]
                /\ pending' = [pending EXCEPT ![id[r]] = None]
    /\ UNCHANGED <<started, child, id, broken>>

(* Slips: the timer rejects without deleting the entry; it gives up when   *)
(* the entry is another's.                                                 *)
TimeoutLeaves(r) ==
    /\ r \in timers
    /\ Settled(r, "rejected")
    /\ UNCHANGED <<started, child, id, pending, inbox, broken, got>>

TimeoutOwn(r) ==
    /\ r \in timers /\ pending[id[r]] = r
    /\ Settled(r, "rejected")
    /\ pending' = [pending EXCEPT ![id[r]] = None]
    /\ UNCHANGED <<started, child, id, inbox, broken, got>>

(* The timer deletes the entry under its id, whoever it belongs to.        *)
Timeout(r) ==
    /\ r \in timers
    /\ Settled(r, "rejected")
    /\ pending' = [pending EXCEPT ![id[r]] = None]
    /\ UNCHANGED <<started, child, id, inbox, broken, got>>

(* The callback of a failed write rejects whoever waits under the id.      *)
WriteError(r) ==
    /\ r \in broken
    /\ broken' = broken \ {r}
    /\ LET p == pending[id[r]]
       IN  IF p = None THEN Nobody
           ELSE /\ Settled(p, "rejected")
                /\ pending' = [pending EXCEPT ![id[r]] = None]
                /\ UNCHANGED got
    /\ UNCHANGED <<started, child, id, inbox>>

(* The child closes its stdin; stop() asks it to end; it exits.            *)
CloseStdin ==
    /\ child = "up"
    /\ child' = "deaf"
    /\ UNCHANGED <<started, st, id, pending, timers, inbox, broken, got>>

Stop ==
    /\ started
    /\ started' = FALSE
    /\ UNCHANGED <<child, st, id, pending, timers, inbox, broken, got>>

Exit ==
    LET gone == {r \in Requests : \E i \in Ids : pending[i] = r}
    IN  /\ child # "gone"
        /\ started' = FALSE /\ child' = "gone"
        /\ st' = [r \in Requests |-> IF r \in gone THEN "rejected" ELSE st[r]]
        /\ timers' = timers \ gone
        /\ pending' = [i \in Ids |-> None]
        /\ inbox' = {}
        /\ UNCHANGED <<id, broken, got>>

Next ==
    \/ \E r \in Requests :
          \/ Refuse(r) \/ Unwritable(r) \/ Forward(r)
          \/ Answer(r, TRUE) \/ Answer(r, FALSE)
          \/ Timeout(r) \/ WriteError(r)
    \/ CloseStdin \/ Stop \/ Exit

Spec == Init /\ [][Next]_vars

(* Node fires an armed timer in the end. *)
Fairness == \A r \in Requests : WF_vars(Timeout(r))
FairSpec == Spec /\ Fairness

-----------------------------------------------------------------------------
TypeOK ==
    /\ started \in BOOLEAN /\ child \in {"up", "deaf", "gone"}
    /\ st \in [Requests -> {"new", "waiting", "resolved", "rejected", "refused"}]
    /\ id \in [Requests -> Ids]
    /\ pending \in [Ids -> Requests \cup {None}]
    /\ timers \subseteq Requests /\ inbox \subseteq Requests /\ broken \subseteq Requests
    /\ got \in [Requests -> [of : Requests \cup {None}, ok : BOOLEAN]]

(* A request waits exactly while its timer is armed, and the map names     *)
(* only requests that wait, under their own id: nothing leaks, though one  *)
(* request may push another out of the map and delete its entry.           *)
Tracked ==
    /\ timers = {r \in Requests : st[r] = "waiting"}
    /\ \A i \in Ids : pending[i] # None =>
          st[pending[i]] = "waiting" /\ id[pending[i]] = i

(* Every request forwarded is settled in the end, whatever the ids, the    *)
(* answers lost and the exit of the child.                                 *)
Settles == \A r \in Requests : st[r] = "waiting" ~> st[r] \in {"resolved", "rejected"}

(* A request that shares its id with no other receives its own answer,     *)
(* late or early, whatever ids the other clients chose.                    *)
OwnAnswer ==
    \A r \in Requests :
        (\A s \in Requests \ {r} : id[s] # id[r]) => got[r].of \in {r, None}

=============================================================================
