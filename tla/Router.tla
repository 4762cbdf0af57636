------------------------------- MODULE Router -------------------------------
(***************************************************************************)
(* MultiServerRouter (router.ts) before backends that are HttpMcpProxy     *)
(* (http-proxy.ts) or McpProxy, and HttpMcpProxy used alone.  A request is *)
(* a tools/call or a batch; its calls are charged before any is forwarded  *)
(* and answered together.  The gate is a balance (module Gate).            *)
(***************************************************************************)
EXTENDS Integers, FiniteSets, Totals

CONSTANTS Requests, Size,        \* Size[r]: calls of a request
          Kind,                  \* Kind[r]: "http" or "stdio", its backend
          Price, Initial,
          MaxRestarts            \* bound: stops of the server

VARIABLES routed,    \* FALSE: HttpMcpProxy serves the requests itself
          started,
          session,   \* whether HttpMcpProxy holds an Mcp-Session-Id
          deleting,  \* stop() waits for its DELETE
          stops,
          st,        \* st[r]: new, open, done, failed (the promise was rejected), refused
          res,       \* res[r][i]: none, ok, error, rejected, cut
          bal, took, \* credits of the key; what request r took and kept
          told       \* creditsCharged as the answer reports it

vars == <<routed, started, session, deleting, stops, st, res, bal, took, told>>
proxy == <<routed, started, session, deleting, stops>>

Calls(r) == 1..Size[r]

Init ==
    /\ routed \in BOOLEAN
    /\ started = TRUE /\ session = FALSE /\ deleting = FALSE /\ stops = 0
    /\ st = [r \in Requests |-> "new"]
    /\ res = [r \in Requests |-> [i \in Calls(r) |-> "none"]]
    /\ bal = Initial
    /\ took = [r \in Requests |-> 0] /\ told = [r \in Requests |-> 0]

(* Not started, or the gate denies: nothing is charged. *)
Refuse(r) ==
    /\ st[r] = "new" /\ (~started \/ bal < Price * Size[r])
    /\ st' = [st EXCEPT ![r] = "refused"]
    /\ UNCHANGED <<proxy, res, bal, took, told>>

(* evaluate or evaluateBatch charges the whole request, then every call is *)
(* forwarded.                                                              *)
Admit(r) ==
    /\ st[r] = "new" /\ started /\ bal >= Price * Size[r]
    /\ st' = [st EXCEPT ![r] = "open"]
    /\ bal' = bal - Price * Size[r] /\ took' = [took EXCEPT ![r] = Price * Size[r]]
    /\ UNCHANGED <<proxy, res, told>>

Sent(r, i) == st[r] \in {"open", "failed"} /\ res[r][i] = "none"
Settle(r, i, x) == res' = [res EXCEPT ![r][i] = x]

(* Slip: an error that comes after the request was rejected is refunded.   *)
RespondRefunds(r, i) ==
    /\ Sent(r, i)
    /\ \E x \in {"ok", "error"} :
         LET n == IF x = "error" /\ st[r] = "failed" THEN Price ELSE 0
         IN  Settle(r, i, x) /\ bal' = bal + n /\ took' = [took EXCEPT ![r] = @ - n]
    /\ session' = (session \/ Kind[r] = "http")
    /\ UNCHANGED <<routed, started, deleting, stops, st, told>>

(* A remote response also carries the session id, whenever it comes. *)
Respond(r, i) ==
    /\ Sent(r, i)
    /\ \E x \in {"ok", "error"} : Settle(r, i, x)
    /\ session' = (session \/ Kind[r] = "http")
    /\ UNCHANGED <<routed, started, deleting, stops, st, bal, took, told>>

(* Slip: a proxy that was stopped no longer ends what it has open. *)
GiveUpRunning(r, i) ==
    /\ Sent(r, i) /\ started
    /\ Settle(r, i, IF Kind[r] = "http" THEN "error" ELSE "rejected")
    /\ UNCHANGED <<proxy, st, bal, took, told>>

(* A socket error or the 30 s timeout.  HttpMcpProxy answers with an       *)
(* error, McpProxy rejects.                                                *)
GiveUp(r, i) ==
    /\ Sent(r, i)
    /\ Settle(r, i, IF Kind[r] = "http" THEN "error" ELSE "rejected")
    /\ UNCHANGED <<proxy, st, bal, took, told>>

(* httpPost listens for 'end', and for errors of the request only. *)
Cut(r, i) ==
    /\ Kind[r] = "http" /\ Sent(r, i)
    /\ Settle(r, i, "cut")
    /\ UNCHANGED <<proxy, st, bal, took, told>>

Errors(r) == {i \in Calls(r) : res[r][i] = "error"}

(* Slip: the refund is for the first failure only. *)
RefundedFirst(r) == IF Errors(r) # {} THEN Price ELSE 0

(* refundOnFailure: every call that was answered with an error. *)
Refunded(r) == IF routed THEN Price * Cardinality(Errors(r)) ELSE 0

(* Slip: the answer reports what was charged at first. *)
ReportedCharge(r) == Price * Size[r]

Reported(r) == Price * Size[r] - Refunded(r)

Answer(r) ==
    /\ st[r] = "open" /\ \A i \in Calls(r) : res[r][i] \in {"ok", "error"}
    /\ st' = [st EXCEPT ![r] = "done"]
    /\ bal' = bal + Refunded(r)
    /\ took' = [took EXCEPT ![r] = @ - Refunded(r)]
    /\ told' = [told EXCEPT ![r] = Reported(r)]
    /\ UNCHANGED <<proxy, res>>

(* Promise.all rejects with the first rejection: the refunds are skipped   *)
(* and the other calls go on unobserved.                                   *)
Reject(r) ==
    /\ st[r] = "open" /\ \E i \in Calls(r) : res[r][i] = "rejected"
    /\ st' = [st EXCEPT ![r] = "failed"]
    /\ UNCHANGED <<proxy, res, bal, took, told>>

Stop ==
    /\ started /\ stops < MaxRestarts
    /\ started' = FALSE /\ stops' = stops + 1
    /\ deleting' = session
    /\ UNCHANGED <<routed, session, st, res, bal, took, told>>

Deleted ==
    /\ deleting
    /\ deleting' = FALSE /\ session' = FALSE
    /\ UNCHANGED <<routed, started, stops, st, res, bal, took, told>>

Start ==
    /\ ~started /\ ~deleting
    /\ started' = TRUE
    /\ UNCHANGED <<routed, session, deleting, stops, st, res, bal, took, told>>

CallStep(r, i) == Respond(r, i) \/ GiveUp(r, i) \/ Cut(r, i)
RequestStep(r) == Refuse(r) \/ Admit(r) \/ Answer(r) \/ Reject(r)
Next == (\E r \in Requests : RequestStep(r) \/ \E i \in Calls(r) : CallStep(r, i))
        \/ Stop \/ Deleted \/ Start

Spec == Init /\ [][Next]_vars

(* The timer of a call fires if nothing else ends it; the promises run. *)
Fairness ==
    \A r \in Requests : /\ WF_vars(Answer(r) \/ Reject(r))
                         /\ \A i \in Calls(r) : WF_vars(GiveUp(r, i))
FairSpec == Spec /\ Fairness
-----------------------------------------------------------------------------
(* A request that the router answered has paid for the calls that          *)
(* succeeded and for no other, whatever mix of answers, errors and         *)
(* timeouts its calls met (handleToolsCall, handleBatchRequest).  A batch  *)
(* that one stdio call rejected, and HttpMcpProxy alone, refund nothing.   *)
PaysForSuccess ==
    \A r \in Requests : routed /\ st[r] = "done" =>
        took[r] = Price * Cardinality({i \in Calls(r) : res[r][i] = "ok"})

(* The answer of a batch reports what the key really paid. *)
TruthfulBill == \A r \in Requests : st[r] = "done" => told[r] = took[r]

(* The key is out of pocket by what the requests took, and a request that  *)
(* was rejected took its whole price, no more: calls that go on unobserved *)
(* settle nothing twice.                                                   *)
NothingTwice ==
    /\ bal = Initial - Total(took, Requests)
    /\ \A r \in Requests : st[r] = "failed" => took[r] = Price * Size[r]

(* Every forwarded request is answered or rejected, though the proxy is    *)
(* stopped under it, unless a response was cut after its headers.          *)
Settles ==
    \A r \in Requests : st[r] = "open" ~>
        st[r] \in {"done", "failed"} \/ \E i \in Calls(r) : res[r][i] = "cut"
=============================================================================
