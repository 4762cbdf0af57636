----------------------------- MODULE Credentials -----------------------------
(***************************************************************************)
(* What lets a caller in, side by side: scoped tokens (T), OAuth (O) and   *)
(* the sessions of MCP (S).  The three share no state; each keeps its own  *)
(* clock.  What they promise is stated here for the runs and the proofs.   *)
(***************************************************************************)
EXTENDS Integers

CONSTANTS Servers, Tokens, MaxTtl, MaxMishaps, MaxTokenClock,    \* of ScopedTokens
          Clients, Strangers, CodeTtl, AccessTtl, RefreshTtl,    \* of OAuth
          MaxCodes, MaxTokens, MaxClock,
          Streams, MaxSessions, MaxSsePerSession, SessionTimeout, MaxIds   \* of Sessions

VARIABLES clock, expires, list, sent, boots, mishaps,
          now, clients, codes, tokens, disk, nextCode, nextToken,
          presented, paired, revoked, bornLast,
          sessions, stream, nextId

T == INSTANCE ScopedTokens WITH now <- clock, MaxClock <- MaxTokenClock
O == INSTANCE OAuth
S == INSTANCE Sessions

(* What OAuth promises: the first presentation of a code decides, a        *)
(* revoked family is gone, also after a restart, and access ends with the  *)
(* refresh token.                                                          *)
OAuthHonoured == O!OAuthHonoured

(* A scoped token that a running server rejected stays rejected there.     *)
RejectedForGood == T!RejectedForGood

(* However sessions are opened, evicted and timed out, their number and    *)
(* the streams of each stay within the limits, and no stream is open       *)
(* without its session.                                                    *)
SessionsHonoured == S!SessionsHonoured

(* The session that has been idle longest is evicted first.                *)
OldestGoesFirst == S!OldestGoesFirst
=============================================================================
