-------------------------------- MODULE OAuth --------------------------------
(***************************************************************************)
(* The authorization server (oauth.ts) behind the endpoints of server.ts:  *)
(* clients, authorization codes, access and refresh tokens.  Every handler *)
(* reads its body first and then runs to its end.  Codes and tokens are    *)
(* random and are numbered here as they are made; the tokens of one code   *)
(* are a family, named by the code.  Scopes are left out: no decision of   *)
(* the server reads one.                                                   *)
(***************************************************************************)
EXTENDS Integers, Functions

CONSTANTS Clients, Strangers,           \* who registers, and who does not
          CodeTtl, AccessTtl, RefreshTtl,   \* of OAuthConfig; RefreshTtl 0 is never
          MaxCodes, MaxTokens, MaxClock     \* bounds

VARIABLES now,
          clients,       \* the registered clients, each linked to an API key
          codes,         \* code -> [client, expiresAt]
          tokens,        \* token -> [type, client, family, expiresAt]
          disk,          \* the clients and tokens as last saved
          nextCode, nextToken,
          presented,     \* the codes that some request has presented
          paired,        \* the codes exchanged for tokens, by presentation
          revoked,       \* the families revoked
          bornLast       \* family -> when its refresh token was made

vars == <<now, clients, codes, tokens, disk, nextCode, nextToken,
          presented, paired, revoked, bornLast>>

None == 0                \* the family of a token without one
Callers == Clients \cup Strangers
Code == DOMAIN codes
Token == DOMAIN tokens
With(f, k, v) == [x \in DOMAIN f \cup {k} |-> IF x = k THEN v ELSE f[x]]
Without(f, gone) == Restrict(f, DOMAIN f \ gone)

Expiry(ttl) == IF ttl > 0 THEN now + ttl ELSE 0
Expired(expiresAt) == expiresAt > 0 /\ expiresAt < now

Saved == disk' = [clients |-> clients', tokens |-> tokens']

Init == /\ now = 1
        /\ clients = {} /\ codes = <<>> /\ tokens = <<>>
        /\ disk = [clients |-> {}, tokens |-> <<>>]
        /\ nextCode = 1 /\ nextToken = 1
        /\ presented = {} /\ paired = {} /\ revoked = {}
        /\ bornLast = <<>>

(* handleOAuthRegister: registerClient. *)
Register(c) ==
    /\ c \notin clients
    /\ clients' = clients \cup {c}
    /\ UNCHANGED <<now, codes, tokens, nextCode, nextToken, presented, paired, revoked, bornLast>>
    /\ Saved

(* handleOAuthAuthorize: createAuthCode.  Codes are not saved. *)
Authorize(c) ==
    /\ c \in clients /\ nextCode <= MaxCodes
    /\ codes' = With(codes, nextCode, [client |-> c, expiresAt |-> now + CodeTtl])
    /\ nextCode' = nextCode + 1
    /\ UNCHANGED <<now, clients, tokens, disk, nextToken, presented, paired, revoked, bornLast>>

Made(type, c, family) ==
    [type |-> type, client |-> c, family |-> family,
     expiresAt |-> Expiry(IF type = "access" THEN AccessTtl ELSE RefreshTtl)]

(* Slip: the code is deleted only when it is accepted. *)
UsedUpIfGood(code, good) == IF good THEN {code} ELSE {}

(* exchangeCode deletes the code before it looks at it. *)
UsedUp(code, good) == {code}

(* exchangeCode: `proof` says whether the redirect URI and the PKCE        *)
(* verifier are right.                                                     *)
Exchange(code, c, proof) ==
    LET good == proof /\ codes[code].client = c /\ codes[code].expiresAt >= now
    IN  /\ code \in Code /\ nextToken + 1 <= MaxTokens
        /\ codes' = Without(codes, UsedUp(code, good))
        /\ presented' = presented \cup {code}
        /\ \/ /\ ~good
              /\ UNCHANGED <<tokens, disk, nextToken, paired, bornLast>>
           \/ /\ good
              /\ tokens' = With(With(tokens, nextToken, Made("access", c, code)),
                                nextToken + 1, Made("refresh", c, code))
              /\ nextToken' = nextToken + 2
              /\ paired' = paired \cup {[code |-> code, again |-> code \in presented]}
              /\ bornLast' = With(bornLast, code, now)
              /\ disk' = [clients |-> clients, tokens |-> tokens']
        /\ UNCHANGED <<now, clients, nextCode, revoked>>

(* Slip: the expiry of the refresh token is not looked at. *)
RefreshableForEver(t, c) == tokens[t].type = "refresh" /\ tokens[t].client = c

Refreshable(t, c) ==
    tokens[t].type = "refresh" /\ tokens[t].client = c /\ ~Expired(tokens[t].expiresAt)

(* refreshAccessToken: a new access token of the same family; the refresh  *)
(* token stays, unless it turns out to have expired.                       *)
Refresh(t, c) ==
    /\ t \in Token
    /\ \/ /\ Refreshable(t, c) /\ nextToken <= MaxTokens
          /\ tokens' = With(tokens, nextToken, Made("access", c, tokens[t].family))
          /\ nextToken' = nextToken + 1
       \/ /\ tokens[t].type = "refresh" /\ tokens[t].client = c /\ Expired(tokens[t].expiresAt)
          /\ tokens' = Without(tokens, {t})
          /\ UNCHANGED nextToken
    /\ UNCHANGED <<now, clients, codes, nextCode, presented, paired, revoked, bornLast>>
    /\ Saved

(* clientCredentialsGrant: an access token of no family. *)
ClientCredentials(c) ==
    /\ c \in clients /\ nextToken <= MaxTokens
    /\ tokens' = With(tokens, nextToken, Made("access", c, None))
    /\ nextToken' = nextToken + 1
    /\ UNCHANGED <<now, clients, codes, nextCode, presented, paired, revoked, bornLast>>
    /\ Saved

(* validateToken: what the bearer check of a call accepts. *)
Valid(t) == t \in Token /\ tokens[t].type = "access" /\ ~Expired(tokens[t].expiresAt)

(* It deletes an access token found expired, and does not save. *)
ValidateExpired(t) ==
    /\ t \in Token /\ tokens[t].type = "access" /\ Expired(tokens[t].expiresAt)
    /\ tokens' = Without(tokens, {t})
    /\ UNCHANGED <<now, clients, codes, disk, nextCode, nextToken, presented, paired, revoked,
                   bornLast>>

(* Slip: the one token is revoked and the rest of its family stays. *)
RevokedOne(t) == {t}

(* revokeToken: a token with its family, or alone when it has none. *)
Revoked(t) ==
    IF tokens[t].family = None THEN {t}
    ELSE {u \in Token : tokens[u].family = tokens[t].family}

Revoke(t) ==
    /\ t \in Token
    /\ tokens' = Without(tokens, Revoked(t))
    /\ revoked' = revoked \cup ({tokens[t].family} \ {None})
    /\ UNCHANGED <<now, clients, codes, nextCode, nextToken, presented, paired, bornLast>>
    /\ Saved

(* Slip: refresh tokens are left to their use. *)
OverdueAccess == {t \in Token : tokens[t].type = "access" /\ Expired(tokens[t].expiresAt)}

Overdue == {t \in Token : Expired(tokens[t].expiresAt)}

(* cleanup, every five minutes. *)
Cleanup ==
    LET codesGone == {k \in Code : codes[k].expiresAt < now}
    IN  /\ codesGone # {} \/ Overdue # {}
        /\ codes' = Without(codes, codesGone)
        /\ tokens' = Without(tokens, Overdue)
        /\ UNCHANGED <<now, clients, nextCode, nextToken, presented, paired, revoked, bornLast>>
        /\ Saved

(* The process starts again: load reads what was saved, expired or not. *)
Restart ==
    /\ clients' = disk.clients /\ tokens' = disk.tokens
    /\ codes' = <<>>
    /\ UNCHANGED <<now, disk, nextCode, nextToken, presented, paired, revoked, bornLast>>

Tick == /\ now < MaxClock
        /\ now' = now + 1
        /\ UNCHANGED <<clients, codes, tokens, disk, nextCode, nextToken, presented, paired,
                       revoked, bornLast>>

Next == \/ \E c \in Clients : Register(c) \/ Authorize(c) \/ ClientCredentials(c)
        \/ \E code \in Code, c \in Callers, proof \in BOOLEAN : Exchange(code, c, proof)
        \/ \E t \in Token, c \in Callers : Refresh(t, c)
        \/ \E t \in Token : ValidateExpired(t) \/ Revoke(t)
        \/ Cleanup \/ Restart \/ Tick

(* The interval of the constructor runs. *)
Fairness == WF_vars(Cleanup)

Spec == Init /\ [][Next]_vars /\ Fairness
-----------------------------------------------------------------------------
(* A code is good for one presentation: whoever presents it, rightly or    *)
(* wrongly, nobody gets tokens for it afterwards.                          *)
FirstPresentationDecides == \A p \in paired : ~p.again

(* A family that was revoked through any one of its tokens is gone for     *)
(* good: no member of it is found again, by refreshing or by a restart     *)
(* that loads an older file.                                               *)
FamilyRevoked == \A t \in Token : tokens[t].family \notin revoked

(* Access to an API key that one authorization gave ends by itself: no     *)
(* token of a family is valid later than the lives of one refresh token    *)
(* and one access token added up.                                          *)
FamilyEnds ==
    RefreshTtl > 0 =>
        \A t \in Token : tokens[t].family # None /\ Valid(t)
            => now <= bornLast[tokens[t].family] + RefreshTtl + AccessTtl

(* What OAuth promises of codes and families. *)
OAuthHonoured == FirstPresentationDecides /\ FamilyRevoked /\ FamilyEnds

(* Expired tokens are forgotten in the end, also those that a restart has  *)
(* read back from the file: again and again there is none.                 *)
ExpiredForgotten == []<>(\A t \in Token : ~Expired(tokens[t].expiresAt))
=============================================================================
