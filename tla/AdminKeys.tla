------------------------------ MODULE AdminKeys ------------------------------
(***************************************************************************)
(* The admin keys (admin-keys.ts) and the handlers of server.ts that       *)
(* manage them.  A handler checks the caller's key and then awaits the     *)
(* body of the request, so other requests run in between.  The records are *)
(* saved on every change, so a restart finds them as they were; keys are   *)
(* random, so a new one was never used before.                             *)
(***************************************************************************)
EXTENDS Integers, FiniteSets

CONSTANTS AdminKeyNames,  \* every key a run can meet
          Configured,     \* the key of --admin-key
          Requests,       \* the requests in flight
          MaxRestarts     \* bound

VARIABLES recs,           \* key -> [role, boot, active], of the known keys
          bootKey,        \* bootstrapAdminKey
          req,            \* Requests -> [op, caller]; op "none" is no request
          always,         \* whether every start has been given the configured key
          restarts

vars == <<recs, bootKey, req, always, restarts>>

Roles == {"super_admin", "admin"}
NoRequest == [op |-> "none", caller |-> Configured]
Known == DOMAIN recs
Unused == AdminKeyNames \ (Known \cup {Configured})
ActiveSuper(k) == k \in Known /\ recs[k].active /\ recs[k].role = "super_admin"

Record(role, boot) == [role |-> role, boot |-> boot, active |-> TRUE]
With(k, record) == [j \in Known \cup {k} |-> IF j = k THEN record ELSE recs[j]]

Init == /\ recs = [k \in {Configured} |-> Record("super_admin", TRUE)]
        /\ bootKey = Configured
        /\ req = [r \in Requests |-> NoRequest]
        /\ always = TRUE
        /\ restarts = 0

(* checkAdmin, then the handler waits for the body. *)
Arrive(r, op, k) ==
    /\ req[r] = NoRequest /\ ActiveSuper(k)
    /\ req' = [req EXCEPT ![r] = [op |-> op, caller |-> k]]
    /\ UNCHANGED <<recs, bootKey, always, restarts>>

(* handleCreateAdminKey with its body. *)
Create(r, role, k) ==
    /\ req[r].op = "create" /\ k \in Unused
    /\ recs' = With(k, Record(role, FALSE))
    /\ req' = [req EXCEPT ![r] = NoRequest]
    /\ UNCHANGED <<bootKey, always, restarts>>

(* Slip: whoever revokes is taken to stay. *)
RevocableByOther(k) == k \in Known /\ recs[k].active

(* revoke: an active key, but not the last active super_admin. *)
Revocable(k) ==
    /\ k \in Known /\ recs[k].active
    /\ recs[k].role = "super_admin" => \E other \in Known \ {k} : ActiveSuper(other)

(* handleRevokeAdminKey with its body, refusing the caller's own key. *)
Revoke(r, k) ==
    /\ req[r].op = "revoke"
    /\ req' = [req EXCEPT ![r] = NoRequest]
    /\ \/ /\ k # req[r].caller /\ Revocable(k)
          /\ recs' = [recs EXCEPT ![k].active = FALSE]
       \/ (k = req[r].caller \/ ~Revocable(k)) /\ UNCHANGED recs
    /\ UNCHANGED <<bootKey, always, restarts>>

(* Slip: the old key stays active beside the new one. *)
RotatedBesides(old, new) == With(new, Record("super_admin", TRUE))

Rotated(old, new) == [With(new, Record("super_admin", TRUE)) EXCEPT ![old].active = FALSE]

(* handleRotateBootstrapKey has no body to wait for. *)
RotateBootstrap(k, new) ==
    /\ ActiveSuper(k) /\ recs[k].boot /\ new \in Unused
    /\ recs' = Rotated(k, new)
    /\ bootKey' = new
    /\ UNCHANGED <<req, always, restarts>>

(* Slip: the configured key is made anew. *)
BootstrappedAnew(k) == With(k, Record("super_admin", TRUE))

(* bootstrap: a key already on file keeps its record, revoked or not. *)
Bootstrapped(k) == IF k \in Known THEN recs ELSE With(k, Record("super_admin", TRUE))

(* The process starts again, with the configured key or, when none is      *)
(* configured, with one it makes up.                                       *)
Restart(k) ==
    /\ restarts < MaxRestarts /\ k \in Unused \cup {Configured}
    /\ recs' = Bootstrapped(k)
    /\ bootKey' = k
    /\ req' = [r \in Requests |-> NoRequest]
    /\ always' = (always /\ k = Configured)
    /\ restarts' = restarts + 1

Next == \/ \E r \in Requests, k \in AdminKeyNames, op \in {"create", "revoke"} : Arrive(r, op, k)
        \/ \E r \in Requests, k \in AdminKeyNames, role \in Roles : Create(r, role, k)
        \/ \E r \in Requests, k \in AdminKeyNames : Revoke(r, k)
        \/ \E k, new \in AdminKeyNames : RotateBootstrap(k, new)
        \/ \E k \in AdminKeyNames : Restart(k)

Spec == Init /\ [][Next]_vars
-----------------------------------------------------------------------------
(* However requests that were authorised at different times overtake each  *)
(* other, two super_admins who revoke each other included, somebody can    *)
(* still manage the server.                                                *)
SomeSuperAdmin == \E k \in Known : ActiveSuper(k)

(* A revoked key never works again: not after a rotation, not after a      *)
(* restart that is given that very key on its command line.                *)
RevokedForGood ==
    [][\A k \in Known : ~recs[k].active => k \in DOMAIN recs' /\ ~recs'[k].active]_vars

(* As long as the server is always started with the same key, one          *)
(* bootstrap key at most is active: rotating retires the key it replaces,  *)
(* and a restart does not bring it back.                                   *)
OneBootstrapKey ==
    always => Cardinality({k \in Known : recs[k].boot /\ recs[k].active}) <= 1
=============================================================================
