---------------------------- MODULE ScopedTokens -----------------------------
(***************************************************************************)
(* Scoped tokens (tokens.ts): a token is signed and carries its own        *)
(* expiry, so a server keeps nothing but the list of the tokens revoked    *)
(* before it.  With Redis, the server where a token is revoked publishes   *)
(* the fact and the others add it to their lists (redis-sync.ts).  The     *)
(* list is in memory: a restart loses it.                                  *)
(***************************************************************************)
EXTENDS Integers

CONSTANTS Servers, Tokens,
          MaxTtl, MaxClock,      \* bounds
          MaxMishaps             \* bound: restarts and lost messages

VARIABLES now,
          expires,      \* Tokens -> its expiry, 0 until it is issued
          list,         \* Servers -> the tokens on the revocation list
          sent,         \* the messages under way, [to, token]
          boots,        \* Servers -> how often it started
          mishaps

vars == <<now, expires, list, sent, boots, mishaps>>

Issued(t) == expires[t] # 0

(* validate: signed, not on the list, not expired. *)
Accepts(s, t) == Issued(t) /\ t \notin list[s] /\ expires[t] > now

Init == /\ now = 0
        /\ expires = [t \in Tokens |-> 0]
        /\ list = [s \in Servers |-> {}]
        /\ sent = {}
        /\ boots = [s \in Servers |-> 1]
        /\ mishaps = 0

(* create, for a key that is active (handleCreateToken). *)
Create(t, ttl) ==
    /\ ~Issued(t)
    /\ expires' = [expires EXCEPT ![t] = now + ttl]
    /\ UNCHANGED <<now, list, sent, boots, mishaps>>

(* handleRevokeToken: an expired token can be revoked as well; one already *)
(* on the list is not published again.                                     *)
Revoke(s, t) ==
    /\ Issued(t) /\ t \notin list[s]
    /\ list' = [list EXCEPT ![s] = @ \cup {t}]
    /\ sent' = sent \cup [to : Servers \ {s}, token : {t}]
    /\ UNCHANGED <<now, expires, boots, mishaps>>

(* Slip: the message is not one the receiver handles. *)
ReceivedIgnored(s, t) == list[s]

(* onTokenRevoked, addEntry. *)
Received(s, t) == list[s] \cup {t}

Deliver(m) ==
    /\ m \in sent
    /\ sent' = sent \ {m}
    /\ list' = [list EXCEPT ![m.to] = Received(m.to, m.token)]
    /\ UNCHANGED <<now, expires, boots, mishaps>>

(* Slip: an entry is dropped one instant before its token expires. *)
ObsoleteSoon(t) == expires[t] <= now + 1

(* purgeExpired, once a minute. *)
Obsolete(t) == expires[t] <= now

Purge(s) ==
    /\ \E t \in list[s] : Obsolete(t)
    /\ list' = [list EXCEPT ![s] = {t \in @ : ~Obsolete(t)}]
    /\ UNCHANGED <<now, expires, sent, boots, mishaps>>

Mishap == mishaps < MaxMishaps /\ mishaps' = mishaps + 1

Lose(m) == /\ m \in sent /\ Mishap
           /\ sent' = sent \ {m}
           /\ UNCHANGED <<now, expires, list, boots>>

(* What is published while a server is down does not reach it. *)
Restart(s) == /\ Mishap
              /\ list' = [list EXCEPT ![s] = {}]
              /\ sent' = {m \in sent : m.to # s}
              /\ boots' = [boots EXCEPT ![s] = @ + 1]
              /\ UNCHANGED <<now, expires>>

Tick == now < MaxClock /\ now' = now + 1 /\ UNCHANGED <<expires, list, sent, boots, mishaps>>

Next == \/ \E t \in Tokens, ttl \in 1..MaxTtl : Create(t, ttl)
        \/ \E s \in Servers, t \in Tokens : Revoke(s, t)
        \/ \E m \in sent : Deliver(m) \/ Lose(m)
        \/ \E s \in Servers : Purge(s) \/ Restart(s)
        \/ Tick

(* Redis hands on what is published. *)
Fairness == \A m \in [to : Servers, token : Tokens] : WF_vars(Deliver(m))

Spec == Init /\ [][Next]_vars /\ Fairness
-----------------------------------------------------------------------------
(* A token that a running server has once rejected, it rejects for good:   *)
(* the purge of the list never lets a revoked token through again at the   *)
(* instant of its expiry, whatever the order of revocation, expiry, purge  *)
(* and messages from elsewhere.                                            *)
RejectedForGood ==
    [][\A s \in Servers, t \in Tokens :
          Issued(t) /\ ~Accepts(s, t) /\ boots'[s] = boots[s] => ~Accepts(s, t)']_vars

(* Without a restart or a lost message, a token revoked on one server      *)
(* comes to be rejected by all.                                            *)
RevocationSpreads ==
    []<>(mishaps > 0 \/ \A s, other \in Servers : \A t \in list[s] : ~Accepts(other, t))
=============================================================================
