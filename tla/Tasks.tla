-------------------------------- MODULE Tasks --------------------------------
(***************************************************************************)
(* MCP tasks: TaskManager (task-manager.ts) and tasks/send in handleMcp    *)
(* (server.ts).  A task is charged when it is created and its tool call    *)
(* goes on in the background, through a handler that gates it again; the   *)
(* client polls, or cancels.  The gate is a balance (module Gate).         *)
(***************************************************************************)
EXTENDS Integers, FiniteSets, Sequences

CONSTANTS Tasks,
          Price, Initial,
          MaxTasks           \* capacity of the manager

VARIABLES shadow,   \* shadowMode: what would be denied is let through free
          status,   \* status[t]: none, running, completed, failed, cancelled, evicted
          ended,    \* tasks in the order of completedAt
          call,     \* call[t], in the background: none, denied, running, ok, error, rejected
          inner,    \* inner[t]: credits the handler's gate took for the call
          bal, took \* credits of the key; what task t took and kept

vars == <<shadow, status, ended, call, inner, bal, took>>

Kept == {t \in Tasks : status[t] \notin {"none", "evicted"}}
Ended == {"completed", "failed", "cancelled"}

Init ==
    /\ shadow \in BOOLEAN
    /\ status = [t \in Tasks |-> "none"] /\ ended = <<>>
    /\ call = [t \in Tasks |-> "none"] /\ inner = [t \in Tasks |-> 0]
    /\ bal = Initial /\ took = [t \in Tasks |-> 0]

(* evictIfNeeded: at capacity the oldest of the ended tasks goes; the list *)
(* grows when none has ended.                                              *)
Evicted == IF Cardinality(Kept) >= MaxTasks /\ ended # <<>> THEN {ended[1]} ELSE {}
Oldest == IF Evicted = {} THEN ended ELSE SubSeq(ended, 2, Len(ended))

Charge(b) == IF b >= Price THEN Price ELSE 0
Passes(b) == b >= Price \/ shadow

(* tasks/send; handler.handleRequest gates the call once more, in the same *)
(* turn.                                                                   *)
Send(t) ==
    LET left == bal - Charge(bal)
    IN  /\ status[t] = "none" /\ Passes(bal)
        /\ status' = [u \in Tasks |-> IF u = t THEN "running"
                                      ELSE IF u \in Evicted THEN "evicted" ELSE status[u]]
        /\ ended' = Oldest
        /\ bal' = IF Passes(left) THEN left - Charge(left) ELSE left
        /\ inner' = [inner EXCEPT ![t] = bal - Charge(bal) - bal']
        /\ took' = [took EXCEPT ![t] = bal - bal']
        /\ call' = [call EXCEPT ![t] = IF Passes(left) THEN "running" ELSE "denied"]
        /\ UNCHANGED shadow

(* Slip: a task that was cancelled is completed after all. *)
CompleteAny(t) ==
    IF status[t] \in {"running", "failed", "cancelled"}
        THEN /\ status' = [status EXCEPT ![t] = "completed"]
             /\ ended' = Append(SelectSeq(ended, LAMBDA u : u # t), t)
        ELSE UNCHANGED <<status, ended>>

(* completeTask: completed and cancelled tasks, and those evicted, stay as *)
(* they are.                                                               *)
CompleteTask(t) ==
    IF status[t] \in {"running", "failed"}
        THEN /\ status' = [status EXCEPT ![t] = "completed"]
             /\ ended' = Append(SelectSeq(ended, LAMBDA u : u # t), t)
        ELSE UNCHANGED <<status, ended>>

FailTask(t) ==
    IF status[t] \in {"running", "failed"}
        THEN /\ status' = [status EXCEPT ![t] = "failed"]
             /\ ended' = Append(SelectSeq(ended, LAMBDA u : u # t), t)
        ELSE UNCHANGED <<status, ended>>

GiveBack(t, n) ==
    /\ bal' = bal + n /\ took' = [took EXCEPT ![t] = @ - n] /\ UNCHANGED <<shadow, inner>>

Succeeds(t) ==
    /\ call[t] = "running"
    /\ call' = [call EXCEPT ![t] = "ok"]
    /\ CompleteTask(t)
    /\ UNCHANGED <<shadow, bal, took, inner>>

(* Slip: only a task that still runs gets its credits back. *)
FailsRunning(t) ==
    /\ call[t] \in {"running", "denied"}
    /\ call' = [call EXCEPT ![t] = "error"]
    /\ FailTask(t)
    /\ GiveBack(t, inner[t] + IF status[t] = "running" THEN Price ELSE 0)

(* The call is answered with an error, or was denied by the second gate:   *)
(* the handler refunds what its gate took, the task the price it recorded. *)
Fails(t) ==
    /\ call[t] \in {"running", "denied"}
    /\ call' = [call EXCEPT ![t] = "error"]
    /\ FailTask(t)
    /\ GiveBack(t, inner[t] + Price)

(* The promise is rejected (timeout, dead child): no refund on this path. *)
IsRejected(t) ==
    /\ call[t] = "running"
    /\ call' = [call EXCEPT ![t] = "rejected"]
    /\ FailTask(t)
    /\ UNCHANGED <<shadow, bal, took, inner>>

(* Slip: cancelling gives the credits back at once. *)
CancelRefunds(t) ==
    /\ status[t] = "running"
    /\ status' = [status EXCEPT ![t] = "cancelled"] /\ ended' = Append(ended, t)
    /\ GiveBack(t, took[t]) /\ UNCHANGED call

(* tasks/cancel and POST /admin/tasks: the background call goes on. *)
Cancel(t) ==
    /\ status[t] = "running"
    /\ status' = [status EXCEPT ![t] = "cancelled"] /\ ended' = Append(ended, t)
    /\ UNCHANGED <<shadow, call, inner, bal, took>>

(* Slip: the cleanup leaves a task whose call is under way alone. *)
CleanupIdle(t) ==
    /\ status[t] = "running" /\ call[t] # "running"
    /\ status' = [status EXCEPT ![t] = "failed"] /\ ended' = Append(ended, t)
    /\ UNCHANGED <<shadow, call, inner, bal, took>>

(* The cleanup fails a task that is older than taskTimeoutMs. *)
Cleanup(t) ==
    /\ status[t] = "running"
    /\ status' = [status EXCEPT ![t] = "failed"] /\ ended' = Append(ended, t)
    /\ UNCHANGED <<shadow, call, inner, bal, took>>

Next == \E t \in Tasks : \/ Send(t) \/ Cancel(t) \/ Cleanup(t)
                         \/ Succeeds(t) \/ Fails(t) \/ IsRejected(t)

Spec == Init /\ [][Next]_vars

(* The cleanup interval runs; nothing is assumed of the backend. *)
Fairness == \A t \in Tasks : WF_vars(Cleanup(t))
FairSpec == Spec /\ Fairness
-----------------------------------------------------------------------------
(* A task whose call was answered with an error keeps no credits, though   *)
(* it was cancelled, timed out or evicted before the answer (refund in     *)
(* tasks/send).  A rejected call is not refunded.                          *)
FailedPaysNothing == \A t \in Tasks : call[t] = "error" => took[t] <= 0

(* Outside shadow mode failures never leave a key with more than it was    *)
(* given.                                                                  *)
NothingMinted == ~shadow => bal <= Initial

(* A task the client cancelled is never reported as completed or failed    *)
(* when its background call ends later.                                    *)
CancelSticks ==
    [][\A t \in Tasks : status[t] = "cancelled" => status'[t] \in {"cancelled", "evicted"}]_vars

(* Every task ends, even if its backend never answers. *)
Settles == \A t \in Tasks : status[t] = "running" ~> status[t] \in Ended
=============================================================================
