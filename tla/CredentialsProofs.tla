-------------------------- MODULE CredentialsProofs --------------------------
(***************************************************************************)
(* What lets a caller in, proved for any number of servers, tokens,        *)
(* clients, codes, sessions and streams, and for any lives and limits:     *)
(* scoped tokens (T), OAuth (O) and the sessions of MCP (S).               *)
(***************************************************************************)
EXTENDS AdminKeys, Credentials, FiniteSetTheorems, WellFoundedInduction, TLAPS
-----------------------------------------------------------------------------
(* Scoped tokens. *)

TokensTyped ==
    /\ clock \in Nat
    /\ expires \in [Tokens -> Nat]
    /\ list \in [Servers -> SUBSET Tokens]
    /\ sent \in SUBSET [to : Servers, token : Tokens]
    /\ boots \in [Servers -> Nat]

(* The step of one action, as far as one server and one token can tell: a  *)
(* token that is issued keeps its expiry, the clock never goes back, and   *)
(* while the server runs its list forgets only tokens that have expired.   *)
Kept == /\ clock' >= clock
        /\ \A t \in Tokens : T!Issued(t) => expires'[t] = expires[t]
        /\ \A s \in Servers : \A t \in list[s] :
              boots'[s] = boots[s] => t \in list'[s] \/ T!Obsolete(t)

(* The initial state is typed. *)
LEMMA TokensInit == T!Init => TokensTyped
BY DEF T!Init, TokensTyped

(* Every step keeps the types and changes no more than Kept allows: Purge  *)
(* drops what is obsolete, only a restart empties the list.                *)
LEMMA TokensStep ==
    ASSUME MaxTtl \in Nat, TokensTyped, [T!Next]_T!vars
    PROVE  TokensTyped' /\ Kept
<1> USE DEF TokensTyped, Kept, T!Issued, T!Obsolete
<1>1. ASSUME NEW t \in Tokens, NEW ttl \in 1..MaxTtl, T!Create(t, ttl)
      PROVE  TokensTyped' /\ Kept
  BY <1>1 DEF T!Create
<1>2. ASSUME NEW s \in Servers, NEW t \in Tokens, T!Revoke(s, t)
      PROVE  TokensTyped' /\ Kept
  BY <1>2 DEF T!Revoke
<1>3. ASSUME NEW m \in sent, T!Deliver(m)
      PROVE  TokensTyped' /\ Kept
  BY <1>3 DEF T!Deliver, T!Received
<1>4. ASSUME NEW m \in sent, T!Lose(m)
      PROVE  TokensTyped' /\ Kept
  BY <1>4 DEF T!Lose, T!Mishap
<1>5. ASSUME NEW s \in Servers, T!Purge(s)
      PROVE  TokensTyped' /\ Kept
  BY <1>5 DEF T!Purge
<1>6. ASSUME NEW s \in Servers, T!Restart(s)
      PROVE  TokensTyped' /\ Kept
  BY <1>6 DEF T!Restart, T!Mishap
<1>7. CASE T!Tick \/ UNCHANGED T!vars
  BY <1>7 DEF T!Tick, T!vars
<1> QED
  BY <1>1, <1>2, <1>3, <1>4, <1>5, <1>6, <1>7 DEF T!Next

(* A step that changes no more than that accepts no token that a running   *)
(* server rejected: it was on the list or expired, and is so still.        *)
LEMMA KeptRejects ==
    ASSUME TokensTyped, TokensTyped', Kept,
           NEW s \in Servers, NEW t \in Tokens,
           T!Issued(t), ~T!Accepts(s, t), boots'[s] = boots[s]
    PROVE  ~T!Accepts(s, t)'
BY DEF TokensTyped, Kept, T!Accepts, T!Issued, T!Obsolete

(* A token that a running server has once rejected it rejects for good     *)
(* (validate, revokeToken, purgeExpired of tokens.ts), for any number of   *)
(* servers and tokens, any lives, and any messages lost or late.           *)
THEOREM RejectedStays ==
    ASSUME MaxTtl \in Nat
    PROVE  T!Spec => RejectedForGood
<1>1. TokensTyped /\ [T!Next]_T!vars => TokensTyped'
  BY TokensStep
<1>2. TokensTyped /\ [T!Next]_T!vars =>
        [\A s \in Servers, t \in Tokens :
            T!Issued(t) /\ ~T!Accepts(s, t) /\ boots'[s] = boots[s] => ~T!Accepts(s, t)']_T!vars
  BY TokensStep, KeptRejects
<1> QED
  BY TokensInit, <1>1, <1>2, PTL DEF T!Spec, RejectedForGood, T!RejectedForGood
-----------------------------------------------------------------------------
(* OAuth. *)

(* The lives of a configuration (config-validator.ts): an access token     *)
(* ends.                                                                   *)
Lives == AccessTtl \in Nat \ {0} /\ RefreshTtl \in Nat

(* What is true of a token wherever it is kept: its family was not revoked,*)
(* and it ends in time, given when the refresh token of the family was     *)
(* made.                                                                   *)
GoodToken(r, born, gone) ==
    /\ r.expiresAt \in Nat
    /\ r.type \in {"access", "refresh"}
    /\ r.family \in DOMAIN born \cup {0} /\ r.family \notin gone
    /\ r.type = "access" => r.expiresAt > 0
    /\ r.family # 0 /\ RefreshTtl > 0 =>
          /\ r.type = "access" => r.expiresAt <= born[r.family] + RefreshTtl + AccessTtl
          /\ r.type = "refresh" => r.expiresAt = born[r.family] + RefreshTtl

GoodTokens(f, born, gone) == \A t \in DOMAIN f : GoodToken(f[t], born, gone)

(* The codes at hand are those that nobody has presented; what is paired   *)
(* or revoked was presented; and the tokens in memory and in the file are  *)
(* good ones, the file's too because a restart reads them back.            *)
CodesOnce ==
    /\ nextCode \in Nat \ {0}
    /\ DOMAIN codes \subseteq 1..(nextCode - 1)
    /\ presented \subseteq 1..(nextCode - 1)
    /\ DOMAIN codes \cap presented = {}
    /\ DOMAIN bornLast \subseteq presented
    /\ revoked \subseteq DOMAIN bornLast
    /\ \A f \in DOMAIN bornLast : bornLast[f] \in Nat

OAuthInv ==
    /\ now \in Nat
    /\ CodesOnce
    /\ O!FirstPresentationDecides
    /\ GoodTokens(tokens, bornLast, revoked)
    /\ GoodTokens(disk.tokens, bornLast, revoked)

(* A store stays good when a good token joins it or some leave.            *)
LEMMA WithGood ==
    ASSUME NEW f, NEW t, NEW r, NEW born, NEW gone,
           GoodTokens(f, born, gone), GoodToken(r, born, gone)
    PROVE  GoodTokens(O!With(f, t, r), born, gone)
BY Zenon DEF GoodTokens, O!With

(* Removing a token keeps the rest of the table in order.                  *)
LEMMA WithoutGood ==
    ASSUME NEW f, NEW out, NEW born, NEW gone, GoodTokens(f, born, gone)
    PROVE  GoodTokens(O!Without(f, out), born, gone)
BY DEF GoodTokens, O!Without, O!Restrict

(* A family that begins leaves the tokens of the others good.              *)
LEMMA BirthGood ==
    ASSUME NEW f, NEW born, NEW gone, NEW code, NEW time,
           GoodTokens(f, born, gone), code \notin DOMAIN born, code # 0
    PROVE  GoodTokens(f, O!With(born, code, time), gone)
<1>1. ASSUME NEW r, GoodToken(r, born, gone)
      PROVE  GoodToken(r, O!With(born, code, time), gone)
  BY <1>1 DEF GoodToken, O!With
<1> QED
  BY <1>1 DEF GoodTokens

(* When a family is revoked, the tokens of the others stay good.           *)
LEMMA RevokeGood ==
    ASSUME NEW f, NEW born, NEW gone, NEW fam, GoodTokens(f, born, gone)
    PROVE  GoodTokens(O!Without(f, {t \in DOMAIN f : f[t].family = fam}), born, gone \cup {fam})
BY DEF GoodTokens, GoodToken, O!Without, O!Restrict

(* The initial state satisfies the invariant. *)
LEMMA OAuthInit == O!Init => OAuthInv
BY DEF O!Init, OAuthInv, CodesOnce, O!FirstPresentationDecides, GoodTokens

(* Every step keeps the codes in order: a code is used up by its first     *)
(* presentation, right or wrong, and no new one has its number.            *)
LEMMA CodesStep == OAuthInv /\ [O!Next]_O!vars => CodesOnce' /\ O!FirstPresentationDecides'
<1> SUFFICES ASSUME OAuthInv, [O!Next]_O!vars
             PROVE  CodesOnce' /\ O!FirstPresentationDecides'
  OBVIOUS
<1> USE DEF OAuthInv, CodesOnce, O!FirstPresentationDecides
<1>1. ASSUME UNCHANGED <<codes, nextCode, presented, paired, revoked, bornLast>>
      PROVE  CodesOnce' /\ O!FirstPresentationDecides'
  BY <1>1
<1>2. ASSUME NEW c \in Clients, O!Register(c) \/ O!ClientCredentials(c)
      PROVE  CodesOnce' /\ O!FirstPresentationDecides'
  BY <1>1, <1>2 DEF O!Register, O!ClientCredentials
<1>3. ASSUME NEW c \in Clients, O!Authorize(c)
      PROVE  CodesOnce' /\ O!FirstPresentationDecides'
  BY <1>3 DEF O!Authorize, O!With
<1>4. ASSUME NEW code \in O!Code, NEW c \in O!Callers, NEW proof \in BOOLEAN,
             O!Exchange(code, c, proof)
      PROVE  CodesOnce' /\ O!FirstPresentationDecides'
  <2>1. /\ DOMAIN codes' = DOMAIN codes \ {code}
        /\ presented' = presented \cup {code} /\ code \in 1..(nextCode - 1)
        /\ nextCode' = nextCode /\ revoked' = revoked /\ code \notin presented
    BY <1>4 DEF O!Exchange, O!Code, O!Without, O!Restrict, O!UsedUp
  <2>2. \/ paired' = paired /\ bornLast' = bornLast
        \/ /\ paired' = paired \cup {[code |-> code, again |-> code \in presented]}
           /\ bornLast' = O!With(bornLast, code, now)
    BY <1>4 DEF O!Exchange
  <2>3. DOMAIN bornLast' \subseteq DOMAIN bornLast \cup {code}
        /\ DOMAIN bornLast \subseteq DOMAIN bornLast'
        /\ \A f \in DOMAIN bornLast' : bornLast'[f] \in Nat
    <3>1. CASE bornLast' = bornLast
      BY <3>1
    <3>2. CASE bornLast' = O!With(bornLast, code, now)
      BY <3>2 DEF O!With
    <3> QED
      BY <2>2, <3>1, <3>2
  <2>4. CodesOnce'
    BY <2>1, <2>3
  <2>5. O!FirstPresentationDecides'
    <3>1. \A p \in paired' : p \in paired \/ p.again = (code \in presented)
      BY <2>2
    <3> QED
      BY <2>1, <3>1
  <2> QED
    BY <2>4, <2>5
<1>5. ASSUME NEW t \in O!Token, NEW c \in O!Callers, O!Refresh(t, c)
      PROVE  CodesOnce' /\ O!FirstPresentationDecides'
  BY <1>1, <1>5 DEF O!Refresh
<1>6. ASSUME NEW t \in O!Token, O!ValidateExpired(t)
      PROVE  CodesOnce' /\ O!FirstPresentationDecides'
  BY <1>1, <1>6 DEF O!ValidateExpired
<1>7. ASSUME NEW t \in O!Token, O!Revoke(t)
      PROVE  CodesOnce' /\ O!FirstPresentationDecides'
  BY <1>7 DEF O!Revoke, O!Token, O!None, GoodTokens, GoodToken
<1>8. CASE O!Cleanup
  BY <1>8 DEF O!Cleanup, O!Without, O!Restrict
<1>9. CASE O!Restart
  BY <1>9 DEF O!Restart
<1>10. CASE O!Tick \/ UNCHANGED O!vars
  BY <1>1, <1>10 DEF O!Tick, O!vars
<1> QED
  BY <1>2, <1>3, <1>4, <1>5, <1>6, <1>7, <1>8, <1>9, <1>10 DEF O!Next

(* A token made now, of no family or of one that goes on, is good; what    *)
(* becomes of its life is decided by the refresh token that asks for it.   *)
LEMMA MadeGood ==
    ASSUME Lives, OAuthInv, NEW type \in {"access", "refresh"}, NEW c,
           NEW fam \in DOMAIN bornLast \cup {0}, fam \notin revoked,
           fam # 0 /\ RefreshTtl > 0 => /\ type = "access" => now <= bornLast[fam] + RefreshTtl
                                        /\ type = "refresh" => now = bornLast[fam]
    PROVE  GoodToken(O!Made(type, c, fam), bornLast, revoked)
<1>1. \A f \in DOMAIN bornLast : bornLast[f] \in Nat
  BY DEF OAuthInv, CodesOnce
<1>2. /\ O!Made(type, c, fam).type = type /\ O!Made(type, c, fam).family = fam
      /\ O!Made(type, c, fam).expiresAt
            = O!Expiry(IF type = "access" THEN AccessTtl ELSE RefreshTtl)
  BY DEF O!Made
<1>3. /\ type = "access" => O!Made(type, c, fam).expiresAt = now + AccessTtl
      /\ type = "refresh" /\ RefreshTtl > 0 => O!Made(type, c, fam).expiresAt = now + RefreshTtl
      /\ O!Made(type, c, fam).expiresAt \in Nat
  BY <1>2 DEF O!Expiry, Lives, OAuthInv
<1> QED
  BY <1>1, <1>2, <1>3 DEF GoodToken, Lives, OAuthInv

(* Every step keeps the tokens good, in memory and in the file: a refresh  *)
(* gives a life to a family that is not revoked and not at its end, and a  *)
(* revocation takes the whole family and saves.                            *)
LEMMA TokensGoodStep ==
    ASSUME Lives, OAuthInv, [O!Next]_O!vars
    PROVE  /\ now' \in Nat
           /\ GoodTokens(tokens', bornLast', revoked')
           /\ GoodTokens(disk'.tokens, bornLast', revoked')
<1> DEFINE Goal == /\ now' \in Nat
                   /\ GoodTokens(tokens', bornLast', revoked')
                   /\ GoodTokens(disk'.tokens, bornLast', revoked')
<1>g. /\ now \in Nat /\ GoodTokens(tokens, bornLast, revoked)
      /\ GoodTokens(disk.tokens, bornLast, revoked)
  BY DEF OAuthInv
<1>s. O!Saved => disk'.tokens = tokens'
  BY DEF O!Saved
<1>1. CASE UNCHANGED <<tokens, disk, bornLast, revoked>> /\ now' \in Nat
  BY <1>1, <1>g
<1>2. ASSUME NEW c \in Clients, O!Register(c)
      PROVE  Goal
  BY <1>2, <1>g, <1>s DEF O!Register
<1>3. ASSUME NEW c \in Clients, O!Authorize(c)
      PROVE  Goal
  BY <1>1, <1>3, <1>g DEF O!Authorize
<1>4. ASSUME NEW c \in Clients, O!ClientCredentials(c)
      PROVE  Goal
  <2>1. GoodToken(O!Made("access", c, 0), bornLast, revoked)
    <3>1. 0 \notin revoked
      BY DEF OAuthInv, CodesOnce
    <3> QED
      BY <3>1, MadeGood
  <2>2. GoodTokens(O!With(tokens, nextToken, O!Made("access", c, 0)), bornLast, revoked)
    BY <2>1, <1>g, WithGood
  <2> QED
    BY <1>4, <2>2, <1>g, <1>s DEF O!ClientCredentials, O!None
<1>5. ASSUME NEW code \in O!Code, NEW c \in O!Callers, NEW proof \in BOOLEAN,
             O!Exchange(code, c, proof)
      PROVE  Goal
  <2>1. revoked' = revoked /\ now' = now
    BY <1>5 DEF O!Exchange
  <2>2. CASE UNCHANGED <<tokens, disk, bornLast>>
    BY <2>1, <2>2, <1>g
  <2>3. CASE /\ tokens' = O!With(O!With(tokens, nextToken, O!Made("access", c, code)),
                                 nextToken + 1, O!Made("refresh", c, code))
             /\ bornLast' = O!With(bornLast, code, now)
             /\ disk' = [clients |-> clients, tokens |-> tokens']
    <3>1. code \notin DOMAIN bornLast /\ code # 0 /\ code \notin revoked
      BY DEF OAuthInv, CodesOnce, O!Code
    <3>2. /\ GoodTokens(tokens, bornLast', revoked)
          /\ GoodTokens(disk.tokens, bornLast', revoked)
      BY <1>g, <2>3, <3>1, BirthGood, Zenon
    <3>3. bornLast'[code] = now /\ code \in DOMAIN bornLast'
      BY <2>3 DEF O!With
    <3>4. ASSUME NEW type \in {"access", "refresh"}
          PROVE  GoodToken(O!Made(type, c, code), bornLast', revoked)
      BY <1>g, <3>1, <3>3 DEF GoodToken, O!Made, O!Expiry, Lives
    <3>5. GoodTokens(O!With(tokens, nextToken, O!Made("access", c, code)), bornLast', revoked)
      BY <3>2, <3>4, WithGood
    <3>6. GoodTokens(tokens', bornLast', revoked)
      BY <2>3, <3>4, <3>5, WithGood
    <3> QED
      BY <2>1, <2>3, <3>6, <1>g
  <2> QED
    BY <1>5, <2>2, <2>3 DEF O!Exchange
<1>6. ASSUME NEW t \in O!Token, NEW c \in O!Callers, O!Refresh(t, c)
      PROVE  Goal
  <2>1. UNCHANGED <<now, revoked, bornLast>> /\ disk'.tokens = tokens'
    BY <1>6, <1>s DEF O!Refresh
  <2>2. CASE O!Refreshable(t, c) /\ tokens' = O!With(tokens, nextToken,
                                              O!Made("access", c, tokens[t].family))
    <3>1. GoodToken(tokens[t], bornLast, revoked)
      BY <1>g DEF GoodTokens, O!Token
    <3>2. tokens[t].type = "refresh" /\ ~O!Expired(tokens[t].expiresAt)
      BY <2>2 DEF O!Refreshable
    <3>3. /\ tokens[t].family \in DOMAIN bornLast \cup {0} /\ tokens[t].family \notin revoked
          /\ tokens[t].family # 0 /\ RefreshTtl > 0
                => now <= bornLast[tokens[t].family] + RefreshTtl
      <4>1. \A f \in DOMAIN bornLast : bornLast[f] \in Nat
        BY DEF OAuthInv, CodesOnce
      <4> QED
        BY <1>g, <3>1, <3>2, <4>1 DEF GoodToken, O!Expired, Lives
    <3>4. GoodToken(O!Made("access", c, tokens[t].family), bornLast, revoked)
      BY <3>3, MadeGood
    <3>5. GoodTokens(tokens', bornLast, revoked)
      BY <1>g, <2>2, <3>4, WithGood
    <3> QED
      BY <1>g, <2>1, <3>5
  <2>3. CASE tokens' = O!Without(tokens, {t})
    BY <1>g, <2>1, <2>3, WithoutGood
  <2> QED
    BY <1>6, <2>2, <2>3 DEF O!Refresh
<1>7. ASSUME NEW t \in O!Token, O!ValidateExpired(t)
      PROVE  Goal
  BY <1>7, <1>g, WithoutGood DEF O!ValidateExpired
<1>8. ASSUME NEW t \in O!Token, O!Revoke(t)
      PROVE  Goal
  <2>1. UNCHANGED <<now, bornLast>> /\ disk'.tokens = tokens'
        /\ tokens' = O!Without(tokens, O!Revoked(t))
        /\ revoked' = revoked \cup ({tokens[t].family} \ {0})
    BY <1>8, <1>s DEF O!Revoke, O!None
  <2>2. CASE tokens[t].family = 0
    BY <1>g, <2>1, <2>2, WithoutGood
  <2>3. CASE tokens[t].family # 0
    <3>1. /\ revoked' = revoked \cup {tokens[t].family}
          /\ tokens' = O!Without(tokens, {u \in DOMAIN tokens : tokens[u].family = tokens[t].family})
      BY <2>1, <2>3 DEF O!Revoked, O!None, O!Token
    <3>2. GoodTokens(tokens', bornLast, revoked')
      BY <1>g, <3>1, RevokeGood
    <3> QED
      BY <1>g, <2>1, <3>2
  <2> QED
    BY <2>2, <2>3
<1>9. CASE O!Cleanup
  BY <1>9, <1>g, <1>s, WithoutGood DEF O!Cleanup
<1>10. CASE O!Restart
  BY <1>10, <1>g DEF O!Restart
<1>11. CASE O!Tick \/ UNCHANGED O!vars
  BY <1>1, <1>11, <1>g DEF O!Tick, O!vars
<1> QED
  BY <1>2, <1>3, <1>4, <1>5, <1>6, <1>7, <1>8, <1>9, <1>10, <1>11, Zenon DEF O!Next

(* What the invariant says of OAuth is what it promises: a token that is   *)
(* valid has not reached its end.                                          *)
LEMMA InvHonours == ASSUME Lives, OAuthInv PROVE O!OAuthHonoured
<1>1. O!FamilyRevoked
  BY DEF OAuthInv, GoodTokens, GoodToken, O!FamilyRevoked, O!Token
<1>2. ASSUME RefreshTtl > 0, NEW t \in O!Token, tokens[t].family # 0, O!Valid(t)
      PROVE  now <= bornLast[tokens[t].family] + RefreshTtl + AccessTtl
  <2>1. GoodToken(tokens[t], bornLast, revoked)
    BY DEF OAuthInv, GoodTokens, O!Token
  <2>2. bornLast[tokens[t].family] \in Nat
    BY <1>2, <2>1 DEF OAuthInv, CodesOnce, GoodToken
  <2> QED
    BY <1>2, <2>1, <2>2 DEF GoodToken, O!Valid, O!Expired, Lives, OAuthInv
<1> QED
  BY <1>1, <1>2 DEF O!OAuthHonoured, O!FamilyEnds, O!None, OAuthInv

(* A code is good for one presentation, a revoked family is gone for good, *)
(* also after a restart that reads an older file, and the access that one  *)
(* authorization gave ends (exchangeCode, revokeToken, refreshAccessToken, *)
(* load of oauth.ts), for any clients, codes, tokens and lives.            *)
THEOREM OAuthKeepsItsWord ==
    ASSUME Lives
    PROVE  O!Spec => []OAuthHonoured
<1>1. OAuthInv /\ [O!Next]_O!vars => OAuthInv'
  BY CodesStep, TokensGoodStep DEF OAuthInv
<1>2. OAuthInv => OAuthHonoured
  BY InvHonours DEF OAuthHonoured
<1> QED
  BY OAuthInit, <1>1, <1>2, PTL DEF O!Spec
-----------------------------------------------------------------------------
(* Sessions. *)

(* The limits of a SessionManager (session.ts).                            *)
Limits == MaxSessions \in Nat \ {0} /\ MaxSsePerSession \in Nat \ {0}

SessionRecord == [idle : Nat, sse : SUBSET Streams]

(* Sessions f and streams str are as they should be: all typed and within  *)
(* the limits, the ids below n, and each open stream belongs to exactly    *)
(* one session.                                                            *)
Good(f, str, n) ==
    /\ n \in Nat \ {0}
    /\ f \in [DOMAIN f -> SessionRecord]
    /\ str \in [Streams -> {"new", "open", "ended", "refused", "closed"}]
    /\ DOMAIN f \subseteq 1..(n - 1)
    /\ IsFiniteSet(DOMAIN f) /\ Cardinality(DOMAIN f) <= MaxSessions
    /\ \A s \in DOMAIN f : IsFiniteSet(f[s].sse) /\ Cardinality(f[s].sse) <= MaxSsePerSession
    /\ \A c \in Streams : str[c] = "open" <=> \E s \in DOMAIN f : c \in f[s].sse
    /\ \A s, t \in DOMAIN f : \A c \in Streams : c \in f[s].sse /\ c \in f[t].sse => s = t

SessionsInv == Good(sessions, stream, nextId)

(* The instance counts as everybody does.                                  *)
LEMMA SameCount == \A X : S!Cardinality(X) = Cardinality(X)
BY DEF S!Cardinality, Cardinality

(* In a finite set that is not empty something has nothing before it, as   *)
(* long as "before" is transitive and nothing is before itself.            *)
LEMMA SomethingIsFirst ==
    ASSUME NEW L, IsFiniteSet(L), L # {}, NEW before \in [L -> SUBSET L],
           \A x, y \in L : x \in before[y] => before[x] \subseteq before[y],
           \A x \in L : x \notin before[x]
    PROVE  \E x \in L : before[x] = {}
<1> DEFINE Fam == {before[x] : x \in L}
<1>1. IsWellFoundedOn(StrictSubsetOrdering(L), FiniteSubsetsOf(L))
  BY FS_StrictSubsetOrderingWellFounded
<1>2. Fam \subseteq FiniteSubsetsOf(L) /\ Fam # {}
  <2>1. \A x \in L : before[x] \in SUBSET L /\ IsFiniteSet(before[x])
    BY FS_Subset
  <2> QED
    BY <2>1 DEF FiniteSubsetsOf
<1>3. PICK f \in Fam : \A g \in Fam : <<g, f>> \notin StrictSubsetOrdering(L)
  <2> HIDE DEF Fam
  <2> QED
    BY <1>1, <1>2, WFMin
<1>4. PICK x \in L : f = before[x]
  BY <1>3
<1>5. ASSUME NEW y \in before[x] PROVE FALSE
  <2>1. y \in L
    BY <1>4
  <2>2. before[y] \subseteq before[x] /\ y \notin before[y]
    BY <1>4, <2>1
  <2> QED
    BY <1>3, <1>4, <1>5, <2>1, <2>2 DEF StrictSubsetOrdering
<1> QED
  BY <1>4, <1>5

(* evictOldest finds a session to evict, if there is any.                  *)
LEMMA OldestExists ==
    ASSUME SessionsInv, DOMAIN sessions # {}
    PROVE  S!Oldest # {} /\ S!Oldest \subseteq DOMAIN sessions
<1> DEFINE Before(t, s) == \/ sessions[t].idle > sessions[s].idle
                           \/ sessions[t].idle = sessions[s].idle /\ t < s
           before == [s \in DOMAIN sessions |-> {t \in DOMAIN sessions : Before(t, s)}]
<1>1. \A s \in DOMAIN sessions : s \in Nat /\ sessions[s].idle \in Nat
  BY DEF SessionsInv, Good, SessionRecord
<1>2. \A x, y \in DOMAIN sessions : x \in before[y] => before[x] \subseteq before[y]
  BY <1>1
<1>3. \A x \in DOMAIN sessions : x \notin before[x]
  BY <1>1
<1>4. before \in [DOMAIN sessions -> SUBSET DOMAIN sessions] /\ IsFiniteSet(DOMAIN sessions)
  BY DEF SessionsInv, Good
<1>5. PICK s \in DOMAIN sessions : before[s] = {}
  <2> HIDE DEF before
  <2> QED
    BY <1>2, <1>3, <1>4, SomethingIsFirst
<1>6. \A t \in DOMAIN sessions : ~Before(t, s)
  BY <1>5
<1>7. s \in S!Oldest
  BY <1>1, <1>6 DEF S!Oldest, S!Live
<1> QED
  BY <1>7 DEF S!Oldest, S!Live

(* destroySession, of any sessions: they go, and their streams end.        *)
LEMMA RemovedGood ==
    ASSUME Limits, SessionsInv, NEW gone \in SUBSET DOMAIN sessions
    PROVE  Good(S!Keep(gone), S!Ended(gone), nextId)
<1> DEFINE f == S!Keep(gone)
           str == S!Ended(gone)
<1>1. /\ DOMAIN f = DOMAIN sessions \ gone
      /\ \A s \in DOMAIN f : f[s] = sessions[s]
  BY DEF S!Keep, S!Restrict, S!Live
<1>2. f = [s \in DOMAIN sessions \ gone |-> sessions[s]]
  BY DEF S!Keep, S!Restrict, S!Live
<1>3. \A c \in Streams : str[c] = IF stream[c] = "open" /\ \E s \in gone : c \in sessions[s].sse
                                     THEN "ended" ELSE stream[c]
  BY DEF S!Ended
<1>4. str \in [Streams -> {"new", "open", "ended", "refused", "closed"}]
  BY DEF SessionsInv, Good, S!Ended
<1>5. f \in [DOMAIN f -> SessionRecord]
  BY <1>1, <1>2 DEF SessionsInv, Good
<1>6. IsFiniteSet(DOMAIN f) /\ Cardinality(DOMAIN f) <= MaxSessions
  <2>1. DOMAIN f \in SUBSET DOMAIN sessions
    BY <1>1
  <2>2. IsFiniteSet(DOMAIN f) /\ Cardinality(DOMAIN f) <= Cardinality(DOMAIN sessions)
    BY <2>1, FS_Subset DEF SessionsInv, Good
  <2>3. Cardinality(DOMAIN f) \in Nat /\ Cardinality(DOMAIN sessions) \in Nat
    BY <2>2, FS_CardinalityType DEF SessionsInv, Good
  <2> QED
    BY <2>2, <2>3 DEF SessionsInv, Good, Limits
<1>7. \A c \in Streams : str[c] = "open" <=> \E s \in DOMAIN f : c \in f[s].sse
  BY <1>1, <1>3 DEF SessionsInv, Good
<1>8. \A s \in DOMAIN f : /\ s \in DOMAIN sessions
                         /\ IsFiniteSet(f[s].sse) /\ Cardinality(f[s].sse) <= MaxSsePerSession
  BY <1>1 DEF SessionsInv, Good
<1>9. \A s, t \in DOMAIN f : \A c \in Streams : c \in f[s].sse /\ c \in f[t].sse => s = t
  BY <1>1, <1>8, Zenon DEF SessionsInv, Good
<1>10. nextId \in Nat \ {0} /\ DOMAIN f \subseteq 1..(nextId - 1)
  BY <1>1 DEF SessionsInv, Good
<1>11. Good(f, str, nextId)
  <2> HIDE DEF f, str
  <2> QED
    BY <1>4, <1>5, <1>6, <1>7, <1>8, <1>9, <1>10, Zenon DEF Good
<1> QED
  BY <1>11

(* A session joins under the next id, with its streams, if there is room.  *)
LEMMA AddedGood ==
    ASSUME Limits, NEW f, NEW str, NEW n, Good(f, str, n),
           Cardinality(DOMAIN f) < MaxSessions,
           NEW mine \in SUBSET Streams, IsFiniteSet(mine), Cardinality(mine) <= MaxSsePerSession,
           \A c \in mine : str[c] # "open",
           NEW g, NEW gtr,
           g = [s \in DOMAIN f \cup {n} |-> IF s = n THEN [idle |-> 0, sse |-> mine] ELSE f[s]],
           gtr = [c \in Streams |-> IF c \in mine THEN "open" ELSE str[c]]
    PROVE  Good(g, gtr, n + 1)
<1>1. n \in Nat \ {0} /\ DOMAIN f \subseteq 1..(n - 1) /\ n \notin DOMAIN f
  BY DEF Good
<1>2. /\ DOMAIN g = DOMAIN f \cup {n}
      /\ \A s \in DOMAIN f : g[s] = f[s]
      /\ g[n] = [idle |-> 0, sse |-> mine]
  BY <1>1
<1>3. g[n].sse = mine /\ g[n] \in SessionRecord
  BY <1>2 DEF SessionRecord
<1>4. g \in [DOMAIN g -> SessionRecord]
  BY <1>1, <1>2, <1>3 DEF Good
<1>5. gtr \in [Streams -> {"new", "open", "ended", "refused", "closed"}]
  BY DEF Good
<1>6. DOMAIN g \subseteq 1..((n + 1) - 1) /\ n + 1 \in Nat \ {0}
  BY <1>1, <1>2
<1>7. IsFiniteSet(DOMAIN g) /\ Cardinality(DOMAIN g) <= MaxSessions
  <2>1. Cardinality(DOMAIN f) \in Nat
    BY FS_CardinalityType DEF Good
  <2>2. IsFiniteSet(DOMAIN g) /\ Cardinality(DOMAIN g) = Cardinality(DOMAIN f) + 1
    BY <1>1, <1>2, FS_AddElement DEF Good
  <2> QED
    BY <2>1, <2>2 DEF Limits
<1>8. \A s \in DOMAIN g : IsFiniteSet(g[s].sse) /\ Cardinality(g[s].sse) <= MaxSsePerSession
  BY <1>2, <1>3 DEF Good
<1>9. \A c \in Streams : gtr[c] = "open" <=> \E s \in DOMAIN g : c \in g[s].sse
  BY <1>2, <1>3 DEF Good
<1>10. \A s, t \in DOMAIN g : \A c \in Streams : c \in g[s].sse /\ c \in g[t].sse => s = t
  <2>1. \A s \in DOMAIN f : \A c \in mine : c \notin f[s].sse
    BY DEF Good
  <2> QED
    BY <1>2, <1>3, <2>1 DEF Good
<1> QED
  BY <1>4, <1>5, <1>6, <1>7, <1>8, <1>9, <1>10, Zenon DEF Good

(* The activity of sessions changes nothing of that.                       *)
LEMMA TouchedGood ==
    ASSUME NEW f, NEW str, NEW n, Good(f, str, n),
           NEW g, NEW gtr \in [Streams -> {"new", "open", "ended", "refused", "closed"}],
           DOMAIN g = DOMAIN f, g \in [DOMAIN f -> SessionRecord],
           \A s \in DOMAIN f : g[s].sse = f[s].sse,
           \A c \in Streams : gtr[c] = "open" <=> str[c] = "open"
    PROVE  Good(g, gtr, n)
<1>1. \A s \in DOMAIN g : IsFiniteSet(g[s].sse) /\ Cardinality(g[s].sse) <= MaxSsePerSession
  BY DEF Good
<1>2. \A c \in Streams : gtr[c] = "open" <=> \E s \in DOMAIN g : c \in g[s].sse
  BY DEF Good
<1>3. \A s, t \in DOMAIN g : \A c \in Streams : c \in g[s].sse /\ c \in g[t].sse => s = t
  BY DEF Good
<1> QED
  BY <1>1, <1>2, <1>3 DEF Good

(* A new session, with at most one stream that is new: evictOldest makes   *)
(* room when there is none.                                                *)
LEMMA CreateGood ==
    ASSUME Limits, SessionsInv, NEW old \in SUBSET DOMAIN sessions, NEW mine \in SUBSET Streams,
           IsFiniteSet(mine), Cardinality(mine) <= MaxSsePerSession,
           \A c \in mine : stream[c] = "new", S!Create(old, mine)
    PROVE  SessionsInv'
<1> DEFINE gone == IF old = {} /\ S!Crowded THEN S!Oldest ELSE old
           f == S!Keep(gone)
           str == S!Ended(gone)
<1>0. IsFiniteSet(DOMAIN sessions) /\ Cardinality(DOMAIN sessions) \in Nat
  BY FS_CardinalityType DEF SessionsInv, Good
<1>1. gone \in SUBSET DOMAIN sessions
  BY DEF S!Oldest, S!Live
<1>2. Good(f, str, nextId)
  BY <1>1, RemovedGood
<1>3. DOMAIN f = DOMAIN sessions \ gone
  BY DEF S!Keep, S!Restrict, S!Live
<1>4. Cardinality(DOMAIN f) < MaxSessions
  <2>1. CASE gone # {}
    <3>1. PICK s \in gone : TRUE
      BY <2>1
    <3>2. DOMAIN f \in SUBSET (DOMAIN sessions \ {s})
      BY <1>3, <3>1
    <3>3. /\ IsFiniteSet(DOMAIN sessions \ {s})
          /\ Cardinality(DOMAIN sessions \ {s}) = Cardinality(DOMAIN sessions) - 1
      BY <1>0, <1>1, <3>1, FS_RemoveElement
    <3>4. IsFiniteSet(DOMAIN f) /\ Cardinality(DOMAIN f) <= Cardinality(DOMAIN sessions) - 1
      BY <3>2, <3>3, FS_Subset
    <3>5. Cardinality(DOMAIN f) \in Nat
      BY <3>4, FS_CardinalityType
    <3> QED
      BY <1>0, <3>4, <3>5 DEF Limits, SessionsInv, Good
  <2>2. CASE gone = {}
    <3>1. DOMAIN f = DOMAIN sessions
      BY <1>3, <2>2
    <3>2. ~S!Crowded
      <4>1. ASSUME S!Crowded, old = {} PROVE FALSE
        <5>1. DOMAIN sessions # {}
          <6>1. Cardinality({}) = 0
            BY FS_EmptySet
          <6>2. Cardinality(DOMAIN sessions) >= MaxSessions
            BY <4>1, SameCount DEF S!Crowded, S!Live
          <6>3. Cardinality(DOMAIN sessions) # 0
            BY <1>0, <6>2 DEF Limits
          <6> QED
            BY <6>1, <6>3, Zenon
        <5> QED
          BY <2>2, <4>1, <5>1, OldestExists
      <4> QED
        BY <2>2, <4>1
    <3>3. Cardinality(DOMAIN sessions) < MaxSessions
      BY <1>0, <3>2, SameCount DEF S!Crowded, S!Live, Limits
    <3> HIDE DEF f
    <3> QED
      BY <3>1, <3>3
  <2> QED
    BY <2>1, <2>2
<1>5. /\ sessions' = [s \in DOMAIN f \cup {nextId} |->
                        IF s = nextId THEN [idle |-> 0, sse |-> mine] ELSE f[s]]
      /\ nextId' = nextId + 1
  <2>1. \A s \in DOMAIN f : f[s] = sessions[s]
    BY DEF S!Keep, S!Restrict, S!Live
  <2>2. sessions' = [s \in (DOMAIN sessions \ gone) \cup {nextId} |->
                        IF s = nextId THEN [idle |-> 0, sse |-> mine] ELSE sessions[s]]
    BY DEF S!Create, S!Live
  <2> QED
    BY <1>3, <2>1, <2>2 DEF S!Create
<1>6. stream' = [c \in Streams |-> IF c \in mine THEN "open" ELSE str[c]]
  BY DEF S!Create
<1>7. \A c \in mine : str[c] # "open"
  BY DEF S!Ended
<1> HIDE DEF f, str
<1>8. Good(sessions', stream', nextId')
  BY <1>2, <1>4, <1>5, <1>6, <1>7, AddedGood
<1> QED
  BY <1>8 DEF SessionsInv

(* The initial state: no session, no stream.                               *)
LEMMA SessionsInit == Limits /\ S!Init => SessionsInv
<1> SUFFICES ASSUME Limits, S!Init PROVE SessionsInv
  OBVIOUS
<1>1. DOMAIN sessions = {}
  BY DEF S!Init
<1>2. IsFiniteSet(DOMAIN sessions) /\ Cardinality(DOMAIN sessions) = 0
  BY <1>1, FS_EmptySet
<1>3. sessions \in [DOMAIN sessions -> SessionRecord]
  BY <1>1 DEF S!Init
<1> QED
  BY <1>1, <1>2, <1>3 DEF S!Init, SessionsInv, Good, Limits

(* A stream that a session may still take joins it.                        *)
LEMMA ListenedGood ==
    ASSUME Limits, SessionsInv, NEW s \in DOMAIN sessions, NEW c \in Streams, stream[c] = "new",
           Cardinality(sessions[s].sse) < MaxSsePerSession,
           sessions' = [sessions EXCEPT ![s] = [idle |-> 0, sse |-> @.sse \cup {c}]],
           stream' = [stream EXCEPT ![c] = "open"], nextId' = nextId
    PROVE  SessionsInv'
<1>1. /\ DOMAIN sessions' = DOMAIN sessions
      /\ sessions'[s] = [idle |-> 0, sse |-> sessions[s].sse \cup {c}]
      /\ \A t \in DOMAIN sessions \ {s} : sessions'[t] = sessions[t]
  BY DEF SessionsInv, Good
<1>2. /\ sessions'[s].sse = sessions[s].sse \cup {c}
      /\ sessions'[s] \in SessionRecord
  BY <1>1 DEF SessionsInv, Good, SessionRecord
<1>3. sessions' \in [DOMAIN sessions' -> SessionRecord]
  BY <1>1, <1>2 DEF SessionsInv, Good
<1>4. /\ stream' \in [Streams -> {"new", "open", "ended", "refused", "closed"}]
      /\ stream'[c] = "open" /\ \A d \in Streams \ {c} : stream'[d] = stream[d]
  BY DEF SessionsInv, Good
<1>5. \A t \in DOMAIN sessions : c \notin sessions[t].sse
  BY DEF SessionsInv, Good
<1>6. IsFiniteSet(sessions'[s].sse) /\ Cardinality(sessions'[s].sse) <= MaxSsePerSession
  <2>1. IsFiniteSet(sessions[s].sse)
    BY DEF SessionsInv, Good
  <2>2. Cardinality(sessions[s].sse) \in Nat
    BY <2>1, FS_CardinalityType
  <2>3. /\ IsFiniteSet(sessions[s].sse \cup {c})
        /\ Cardinality(sessions[s].sse \cup {c}) = Cardinality(sessions[s].sse) + 1
    BY <1>5, <2>1, FS_AddElement
  <2> QED
    BY <1>2, <2>2, <2>3 DEF Limits
<1>7. \A t \in DOMAIN sessions' :
        IsFiniteSet(sessions'[t].sse) /\ Cardinality(sessions'[t].sse) <= MaxSsePerSession
  BY <1>1, <1>6 DEF SessionsInv, Good
<1>8. \A d \in Streams : stream'[d] = "open" <=> \E t \in DOMAIN sessions' : d \in sessions'[t].sse
  <2>1. ASSUME NEW d \in Streams \ {c}
        PROVE  stream'[d] = "open" <=> \E t \in DOMAIN sessions' : d \in sessions'[t].sse
    BY <1>1, <1>2, <1>4 DEF SessionsInv, Good
  <2> QED
    BY <1>1, <1>2, <1>4, <2>1
<1>9. \A t, u \in DOMAIN sessions' : \A d \in Streams :
        d \in sessions'[t].sse /\ d \in sessions'[u].sse => t = u
  BY <1>1, <1>2, <1>5 DEF SessionsInv, Good
<1> QED
  BY <1>1, <1>3, <1>4, <1>7, <1>8, <1>9 DEF SessionsInv, Good

(* A stream that closes leaves its session.                                *)
LEMMA ClosedGood ==
    ASSUME Limits, SessionsInv, NEW c \in Streams, S!Close(c)
    PROVE  SessionsInv'
<1>1. /\ DOMAIN sessions' = DOMAIN sessions
      /\ \A s \in DOMAIN sessions : /\ sessions'[s].sse = sessions[s].sse \ {c}
                                    /\ sessions'[s] \in SessionRecord
      /\ nextId' = nextId
  BY DEF S!Close, S!Live, SessionsInv, Good, SessionRecord
<1>2. sessions' \in [DOMAIN sessions' -> SessionRecord]
  BY <1>1 DEF S!Close, S!Live
<1>3. /\ stream' \in [Streams -> {"new", "open", "ended", "refused", "closed"}]
      /\ stream'[c] = "closed" /\ \A d \in Streams \ {c} : stream'[d] = stream[d]
  BY DEF S!Close, SessionsInv, Good
<1>4. \A s \in DOMAIN sessions' :
        IsFiniteSet(sessions'[s].sse) /\ Cardinality(sessions'[s].sse) <= MaxSsePerSession
  <2> SUFFICES ASSUME NEW s \in DOMAIN sessions'
               PROVE  /\ IsFiniteSet(sessions'[s].sse)
                      /\ Cardinality(sessions'[s].sse) <= MaxSsePerSession
    OBVIOUS
  <2>1. IsFiniteSet(sessions[s].sse) /\ Cardinality(sessions[s].sse) <= MaxSsePerSession
    BY <1>1 DEF SessionsInv, Good
  <2>2. /\ IsFiniteSet(sessions[s].sse \ {c})
        /\ Cardinality(sessions[s].sse \ {c}) \in {Cardinality(sessions[s].sse),
                                                  Cardinality(sessions[s].sse) - 1}
    BY <2>1, FS_RemoveElement
  <2>3. Cardinality(sessions[s].sse) \in Nat /\ Cardinality(sessions[s].sse \ {c}) \in Nat
    BY <2>1, <2>2, FS_CardinalityType
  <2>4. Cardinality(sessions[s].sse \ {c}) <= MaxSsePerSession
    BY <2>1, <2>2, <2>3 DEF Limits
  <2> QED
    BY <1>1, <2>2, <2>4
<1>5. \A d \in Streams : stream'[d] = "open" <=> \E t \in DOMAIN sessions' : d \in sessions'[t].sse
  BY <1>1, <1>3 DEF SessionsInv, Good
<1>6. \A t, u \in DOMAIN sessions' : \A d \in Streams :
        d \in sessions'[t].sse /\ d \in sessions'[u].sse => t = u
  BY <1>1 DEF SessionsInv, Good
<1> QED
  BY <1>1, <1>2, <1>3, <1>4, <1>5, <1>6 DEF SessionsInv, Good

(* Every step keeps the invariant.                                         *)
LEMMA SessionsStep == Limits /\ SessionsInv /\ [S!Next]_S!vars => SessionsInv'
<1> SUFFICES ASSUME Limits, SessionsInv, [S!Next]_S!vars PROVE SessionsInv'
  OBVIOUS
<1>1. /\ sessions \in [DOMAIN sessions -> SessionRecord]
      /\ stream \in [Streams -> {"new", "open", "ended", "refused", "closed"}]
  BY DEF SessionsInv, Good
<1>2. ASSUME NEW gone \in SUBSET DOMAIN sessions,
             sessions' = S!Keep(gone), stream' = S!Ended(gone), nextId' = nextId
      PROVE  SessionsInv'
  BY <1>2, RemovedGood DEF SessionsInv
<1>3. ASSUME DOMAIN sessions' = DOMAIN sessions, sessions' \in [DOMAIN sessions -> SessionRecord],
             \A s \in DOMAIN sessions : sessions'[s].sse = sessions[s].sse,
             stream' \in [Streams -> {"new", "open", "ended", "refused", "closed"}],
             \A c \in Streams : stream'[c] = "open" <=> stream[c] = "open",
             nextId' = nextId
      PROVE  SessionsInv'
  BY <1>3, TouchedGood DEF SessionsInv
<1>4. ASSUME NEW s, sessions' = [sessions EXCEPT ![s].idle = 0], s \in DOMAIN sessions
      PROVE  /\ DOMAIN sessions' = DOMAIN sessions
             /\ sessions' \in [DOMAIN sessions -> SessionRecord]
             /\ \A t \in DOMAIN sessions : sessions'[t].sse = sessions[t].sse
  BY <1>1, <1>4 DEF SessionRecord
<1>5. ASSUME NEW s PROVE S!Stale(s) \in SUBSET DOMAIN sessions
  BY DEF S!Stale, S!Live
<1>6. ASSUME NEW s \in S!Ids, S!Post(s) PROVE SessionsInv'
  <2>1. CASE /\ S!Known(s) /\ sessions' = [sessions EXCEPT ![s].idle = 0]
             /\ UNCHANGED <<stream, nextId>>
    BY <1>1, <1>3, <1>4, <2>1 DEF S!Known, S!Live
  <2>2. CASE S!Create(S!Stale(s), {})
    <3>1. IsFiniteSet({}) /\ Cardinality({}) <= MaxSsePerSession
      BY FS_EmptySet DEF Limits
    <3> QED
      BY <1>5, <2>2, <3>1, CreateGood
  <2>3. CASE S!Limited(S!Stale(s))
    BY <1>2, <1>5, <2>3 DEF S!Limited
  <2> QED
    BY <1>6, <2>1, <2>2, <2>3 DEF S!Post
<1>7. ASSUME NEW s \in S!Ids, S!Delete(s) PROVE SessionsInv'
  BY <1>2, <1>7 DEF S!Delete, S!Live
<1>8. ASSUME NEW s \in S!Ids, NEW c \in Streams, S!Get(s, c) PROVE SessionsInv'
  <2>1. CASE /\ S!Known(s) /\ S!Cardinality(sessions[s].sse) < MaxSsePerSession
             /\ sessions' = [sessions EXCEPT ![s] = [idle |-> 0, sse |-> @.sse \cup {c}]]
             /\ stream' = [stream EXCEPT ![c] = "open"]
             /\ UNCHANGED nextId
    <3>1. stream[c] = "new" /\ s \in DOMAIN sessions
      BY <1>8, <2>1 DEF S!Get, S!Known, S!Live
    <3> QED
      BY <2>1, <3>1, SameCount, ListenedGood
  <2>2. CASE /\ S!Known(s) /\ sessions' = [sessions EXCEPT ![s].idle = 0]
             /\ stream' = [stream EXCEPT ![c] = "refused"]
             /\ UNCHANGED nextId
    <3>1. /\ stream' \in [Streams -> {"new", "open", "ended", "refused", "closed"}]
          /\ \A d \in Streams : stream'[d] = "open" <=> stream[d] = "open"
      BY <1>1, <1>8, <2>2 DEF S!Get
    <3> QED
      BY <1>3, <1>4, <2>2, <3>1 DEF S!Known, S!Live
  <2>3. CASE S!Create(S!Stale(s), {c})
    <3>1. IsFiniteSet({c}) /\ Cardinality({c}) <= MaxSsePerSession
      <4>1. IsFiniteSet({c}) /\ Cardinality({c}) = 1
        BY FS_Singleton
      <4> QED
        BY <4>1 DEF Limits
    <3>2. \A d \in {c} : stream[d] = "new"
      BY <1>8 DEF S!Get
    <3> QED
      BY <1>5, <2>3, <3>1, <3>2, CreateGood
  <2> QED
    BY <1>8, <2>1, <2>2, <2>3 DEF S!Get
<1>9. ASSUME NEW c \in Streams, S!Close(c) PROVE SessionsInv'
  BY <1>9, ClosedGood
<1>10. CASE S!Cleanup
  BY <1>2, <1>10 DEF S!Cleanup, S!Overdue, S!Live
<1>11. CASE S!Tick
  <2>1. /\ DOMAIN sessions' = DOMAIN sessions
        /\ \A s \in DOMAIN sessions : /\ sessions'[s].sse = sessions[s].sse
                                      /\ sessions'[s] \in SessionRecord
    BY <1>1, <1>11 DEF S!Tick, S!Live, SessionRecord
  <2>2. sessions' \in [DOMAIN sessions -> SessionRecord]
    BY <2>1, <1>11 DEF S!Tick, S!Live
  <2> QED
    BY <1>1, <1>3, <1>11, <2>1, <2>2 DEF S!Tick
<1>12. CASE UNCHANGED S!vars
  BY <1>12 DEF S!vars, SessionsInv
<1> QED
  BY <1>6, <1>7, <1>8, <1>9, <1>10, <1>11, <1>12 DEF S!Next

(* An open stream is in exactly one session.                               *)
LEMMA GoodHonours == Limits /\ SessionsInv => S!SessionsHonoured
<1> SUFFICES ASSUME Limits, SessionsInv PROVE S!SessionsHonoured
  OBVIOUS
<1>1. S!Bounded
  BY SameCount DEF S!Bounded, S!Live, SessionsInv, Good
<1>2. ASSUME NEW c \in Streams
      PROVE  stream[c] = "open" <=> Cardinality({s \in DOMAIN sessions : c \in sessions[s].sse}) = 1
  <2> DEFINE H == {s \in DOMAIN sessions : c \in sessions[s].sse}
  <2>1. IsFiniteSet(H)
    BY FS_Subset DEF SessionsInv, Good
  <2>2. Cardinality(H) = 1 <=> \E s : H = {s}
    <3> HIDE DEF H
    <3> QED
      BY <2>1, FS_Singleton
  <2>3. (\E s : H = {s}) <=> H # {}
    <3>1. \A s, t \in H : s = t
      BY DEF SessionsInv, Good
    <3> HIDE DEF H
    <3>2. ASSUME NEW s \in H PROVE H = {s}
      BY <3>1
    <3> QED
      BY <3>2
  <2>4. stream[c] = "open" <=> H # {}
    BY DEF SessionsInv, Good
  <2> QED
    BY <2>2, <2>3, <2>4
<1> QED
  BY <1>1, <1>2, SameCount DEF S!SessionsHonoured, S!NoOrphanStream, S!Live

(* However sessions are opened, evicted and timed out, there are never     *)
(* more than the limit of them nor of streams in one, and every open       *)
(* stream belongs to one session (createSession, evictOldest,              *)
(* destroySession, addSseConnection of session.ts), for any number of      *)
(* streams and ids and any limits.                                         *)
THEOREM SessionsStayInBounds ==
    ASSUME Limits
    PROVE  S!Spec => []SessionsHonoured
<1>1. S!Init => SessionsInv
  BY SessionsInit
<1>2. SessionsInv /\ [S!Next]_S!vars => SessionsInv'
  BY SessionsStep
<1>3. SessionsInv => SessionsHonoured
  BY GoodHonours DEF SessionsHonoured
<1> QED
  BY <1>1, <1>2, <1>3, PTL DEF S!Spec

(* A session that is not timed out loses its place to a new one only when  *)
(* every session that stays has been active since (evictOldest).           *)
THEOREM OldestIsEvicted ==
    ASSUME Limits
    PROVE  S!Spec => OldestGoesFirst
<1> DEFINE Evicts ==
      \A s \in S!Live : s \notin DOMAIN sessions' /\ nextId' # nextId /\ ~S!TimedOut(s)
          => \A t \in S!Live \ {s} : sessions[t].idle <= sessions[s].idle
<1>1. S!Init => SessionsInv
  BY SessionsInit
<1>2. SessionsInv /\ [S!Next]_S!vars => SessionsInv'
  BY SessionsStep
<1>3. SessionsInv /\ [S!Next]_S!vars => [Evicts]_S!vars
  <2> SUFFICES ASSUME SessionsInv, S!Next, NEW s \in S!Live, s \notin DOMAIN sessions',
                      nextId' # nextId, ~S!TimedOut(s), NEW t \in S!Live
               PROVE  sessions[t].idle <= sessions[s].idle
    BY DEF S!vars
  <2>1. PICK x, mine : S!Create(S!Stale(x), mine)
    <3>1. ASSUME NEW x \in S!Ids, S!Post(x) PROVE S!Create(S!Stale(x), {})
      BY <3>1 DEF S!Post, S!Limited
    <3>2. ASSUME NEW x \in S!Ids, NEW c \in Streams, S!Get(x, c) PROVE S!Create(S!Stale(x), {c})
      BY <3>2 DEF S!Get
    <3>3. ~S!Cleanup /\ ~S!Tick /\ \A c \in Streams : ~S!Close(c)
      BY DEF S!Cleanup, S!Tick, S!Close
    <3>4. \A x \in S!Ids : ~S!Delete(x)
      BY DEF S!Delete
    <3> QED
      BY <3>1, <3>2, <3>3, <3>4 DEF S!Next
  <2>2. s \in IF S!Stale(x) = {} /\ S!Crowded THEN S!Oldest ELSE S!Stale(x)
    BY <2>1 DEF S!Create
  <2>3. s \in S!Oldest
    BY <2>2 DEF S!Stale
  <2>4. sessions[s].idle \in Nat /\ sessions[t].idle \in Nat
    BY DEF SessionsInv, Good, SessionRecord, S!Live
  <2> QED
    BY <2>3, <2>4 DEF S!Oldest
<1> HIDE DEF Evicts
<1>4. S!Spec => [][Evicts]_S!vars
  BY <1>1, <1>2, <1>3, PTL DEF S!Spec
<1> QED
  BY <1>4 DEF OldestGoesFirst, S!OldestGoesFirst, Evicts
-----------------------------------------------------------------------------
(* Admin keys: somebody can always manage the server, and a revoked key    *)
(* stays revoked, for any number of keys, requests and restarts.           *)

AdminRecord == [role : Roles, boot : BOOLEAN, active : BOOLEAN]

Inv == recs \in [DOMAIN recs -> AdminRecord] /\ SomeSuperAdmin

(* A fresh record is a record, and a new or replaced entry leaves the      *)
(* others as they are.                                                     *)
LEMMA WithEntry ==
    ASSUME recs \in [DOMAIN recs -> AdminRecord], NEW k, NEW role \in Roles, NEW boot \in BOOLEAN
    PROVE  /\ With(k, Record(role, boot)) \in [Known \cup {k} -> AdminRecord]
           /\ With(k, Record(role, boot))[k] = Record(role, boot)
           /\ \A j \in Known \ {k} : With(k, Record(role, boot))[j] = recs[j]
<1>1. Record(role, boot) \in AdminRecord
  BY DEF Record, AdminRecord
<1> QED
  BY <1>1 DEF With, Known

(* The initial states satisfy the invariant. *)
LEMMA InitInv == Init => Inv
BY DEF Init, Inv, AdminRecord, Record, Roles, SomeSuperAdmin, ActiveSuper, Known

(* Every step keeps the invariant: the last super_admin is not revocable,  *)
(* and a rotation makes a new one before it retires the old.               *)
LEMMA StepInv == Inv /\ [Next]_vars => Inv'
<1> SUFFICES ASSUME Inv, [Next]_vars PROVE Inv'
  OBVIOUS
<1> USE DEF Known
<1>1. PICK s \in DOMAIN recs : ActiveSuper(s)
  BY DEF Inv, SomeSuperAdmin
<1>2. ASSUME recs' = recs PROVE Inv'
  BY <1>2 DEF Inv, SomeSuperAdmin, ActiveSuper
<1>3. ASSUME NEW r \in Requests, NEW k \in AdminKeyNames, NEW role \in Roles, Create(r, role, k)
      PROVE  Inv'
  <2>1. k \notin DOMAIN recs /\ recs' = With(k, Record(role, FALSE))
    BY <1>3 DEF Create, Unused
  <2>2. recs' \in [DOMAIN recs' -> AdminRecord] /\ recs'[s] = recs[s] /\ s \in DOMAIN recs'
    <3>1. /\ With(k, Record(role, FALSE)) \in [DOMAIN recs \cup {k} -> AdminRecord]
          /\ \A j \in DOMAIN recs \ {k} : With(k, Record(role, FALSE))[j] = recs[j]
      BY WithEntry, Zenon DEF Inv
    <3> QED
      BY <1>1, <2>1, <3>1
  <2> QED
    BY <1>1, <2>2 DEF Inv, SomeSuperAdmin, ActiveSuper
<1>4. ASSUME NEW r \in Requests, NEW k \in AdminKeyNames, Revoke(r, k)
      PROVE  Inv'
  <2>1. CASE recs' = recs
    BY <2>1, <1>2
  <2>2. CASE Revocable(k) /\ recs' = [recs EXCEPT ![k].active = FALSE]
    <3>1. PICK t \in DOMAIN recs \ {k} : ActiveSuper(t)
      BY <1>1, <2>2 DEF Revocable, ActiveSuper
    <3>2. recs' \in [DOMAIN recs' -> AdminRecord]
      BY <2>2 DEF Inv, AdminRecord
    <3>3. recs'[t] = recs[t] /\ t \in DOMAIN recs'
      BY <2>2, <3>1 DEF Inv
    <3> QED
      BY <3>1, <3>2, <3>3 DEF Inv, SomeSuperAdmin, ActiveSuper
  <2> QED
    BY <1>4, <2>1, <2>2 DEF Revoke
<1>5. ASSUME NEW k \in AdminKeyNames, NEW new \in AdminKeyNames, RotateBootstrap(k, new)
      PROVE  Inv'
  <2> DEFINE grown == With(new, Record("super_admin", TRUE))
  <2>1. new \notin DOMAIN recs /\ k \in DOMAIN recs /\ recs' = [grown EXCEPT ![k].active = FALSE]
    BY <1>5 DEF RotateBootstrap, Rotated, Unused, ActiveSuper
  <2>2. grown \in [DOMAIN recs \cup {new} -> AdminRecord] /\ grown[new] = Record("super_admin", TRUE)
    BY WithEntry DEF Inv, Roles
  <2>3. recs' \in [DOMAIN recs' -> AdminRecord] /\ new \in DOMAIN recs'
    BY <2>1, <2>2 DEF AdminRecord
  <2>4. recs'[new] = Record("super_admin", TRUE)
    BY <2>1, <2>2
  <2> QED
    BY <2>3, <2>4 DEF Inv, SomeSuperAdmin, ActiveSuper, Record
<1>6. ASSUME NEW k \in AdminKeyNames, Restart(k) PROVE Inv'
  <2>1. CASE k \in DOMAIN recs
    BY <1>6, <1>2, <2>1 DEF Restart, Bootstrapped
  <2>2. CASE k \notin DOMAIN recs
    <3>1. recs' = With(k, Record("super_admin", TRUE))
      BY <1>6, <2>2 DEF Restart, Bootstrapped
    <3>2. recs' \in [DOMAIN recs' -> AdminRecord] /\ recs'[s] = recs[s] /\ s \in DOMAIN recs'
      BY <1>1, <2>2, <3>1, WithEntry DEF Inv, Roles
    <3> QED
      BY <1>1, <3>2 DEF Inv, SomeSuperAdmin, ActiveSuper
  <2> QED
    BY <2>1, <2>2
<1>7. CASE UNCHANGED vars
  BY <1>2, <1>7 DEF vars
<1>8. CASE \E r \in Requests, k \in AdminKeyNames, op \in {"create", "revoke"} : Arrive(r, op, k)
  BY <1>2, <1>8 DEF Arrive
<1> QED
  BY <1>3, <1>4, <1>5, <1>6, <1>7, <1>8 DEF Next

(* However requests overtake each other, two super_admins revoking each    *)
(* other included, some super_admin key is active (admin-keys.ts, revoke   *)
(* and rotateBootstrap).                                                   *)
THEOREM SomebodyManages == Spec => []SomeSuperAdmin
<1>1. Inv => SomeSuperAdmin
  BY DEF Inv
<1> QED
  BY InitInv, StepInv, <1>1, PTL DEF Spec

(* One step never brings a revoked key back: bootstrap leaves a key it     *)
(* finds on file alone, and no handler reactivates one.                    *)
LEMMA StepRevoked ==
    Inv /\ [Next]_vars =>
        [\A k \in Known : ~recs[k].active => k \in DOMAIN recs' /\ ~recs'[k].active]_vars
<1> SUFFICES ASSUME Inv, Next, NEW x \in DOMAIN recs, ~recs[x].active
             PROVE  x \in DOMAIN recs' /\ ~recs'[x].active
  BY DEF Known
<1> USE DEF Known
<1>1. ASSUME NEW k, k \notin DOMAIN recs, NEW role \in Roles, NEW boot \in BOOLEAN
      PROVE  /\ x \in DOMAIN With(k, Record(role, boot))
             /\ With(k, Record(role, boot))[x] = recs[x]
  BY <1>1 DEF With
<1>2. CASE \E r \in Requests, k \in AdminKeyNames, role \in Roles : Create(r, role, k)
  BY <1>1, <1>2 DEF Create, Unused
<1>3. CASE \E r \in Requests, k \in AdminKeyNames : Revoke(r, k)
  BY <1>3 DEF Revoke, Inv, AdminRecord
<1>4. ASSUME NEW k \in AdminKeyNames, NEW new \in AdminKeyNames, RotateBootstrap(k, new)
      PROVE  x \in DOMAIN recs' /\ ~recs'[x].active
  <2> DEFINE grown == With(new, Record("super_admin", TRUE))
  <2>1. x # new /\ x # k /\ recs' = [grown EXCEPT ![k].active = FALSE]
    BY <1>4 DEF RotateBootstrap, Rotated, Unused, ActiveSuper
  <2>2. x \in DOMAIN grown /\ grown[x] = recs[x]
    BY <1>1, <1>4 DEF RotateBootstrap, Unused, Roles
  <2> QED
    BY <2>1, <2>2
<1>5. CASE \E k \in AdminKeyNames : Restart(k)
  BY <1>1, <1>5 DEF Restart, Bootstrapped, Roles
<1>6. CASE \E r \in Requests, k \in AdminKeyNames, op \in {"create", "revoke"} : Arrive(r, op, k)
  BY <1>6 DEF Arrive
<1> QED
  BY <1>2, <1>3, <1>4, <1>5, <1>6 DEF Next

(* A revoked admin key never works again, across rotations and restarts    *)
(* (admin-keys.ts, bootstrap and load).                                    *)
THEOREM RevokedStays == Spec => RevokedForGood
BY InitInv, StepInv, StepRevoked, PTL DEF Spec, RevokedForGood

-----------------------------------------------------------------------------
(* The bootstrap keys in force.  The configured key is never forgotten, so *)
(* a restart that is given it adds none.                                   *)
Booted == {k \in Known : recs[k].boot /\ recs[k].active}

BootInv == /\ Configured \in Known
           /\ always => \A j, k \in Booted : j = k

(* A step that puts no bootstrap key in force. *)
LEMMA NoneBooted ==
    ASSUME BootInv, always' => always, Configured \in Known', always' => Booted' \subseteq Booted
    PROVE  BootInv'
BY DEF BootInv

(* Every step keeps it: a rotation retires the key that it replaces.       *)
LEMMA StepBoot == Inv /\ BootInv /\ [Next]_vars => BootInv'
<1> SUFFICES ASSUME Inv, BootInv, [Next]_vars PROVE BootInv'
  OBVIOUS
<1>1. recs \in [Known -> AdminRecord] /\ Configured \in Known
  BY DEF Inv, BootInv, Known
<1>2. ASSUME recs' = recs, always' = always PROVE BootInv'
  BY <1>2 DEF BootInv, Booted, Known
<1>3. ASSUME NEW r \in Requests, NEW k \in AdminKeyNames, NEW role \in Roles, Create(r, role, k)
      PROVE  BootInv'
  <2>1. k \notin Known /\ recs' = With(k, Record(role, FALSE)) /\ always' = always
    BY <1>3 DEF Create, Unused
  <2>2. Known' = Known \cup {k} /\ recs'[k].boot = FALSE /\ \A j \in Known : recs'[j] = recs[j]
    BY <2>1 DEF With, Known, Record
  <2>3. Booted' \subseteq Booted
    BY <2>2 DEF Booted
  <2> QED
    BY <1>1, <2>1, <2>2, <2>3, NoneBooted
<1>4. ASSUME NEW r \in Requests, NEW k \in AdminKeyNames, Revoke(r, k) PROVE BootInv'
  <2>1. CASE recs' = recs
    BY <1>2, <1>4, <2>1 DEF Revoke
  <2>2. CASE recs' = [recs EXCEPT ![k].active = FALSE]
    <3>1. Known' = Known /\ \A j \in Known : recs'[j].active => recs'[j] = recs[j]
      BY <1>1, <2>2 DEF Known, AdminRecord
    <3>2. Booted' \subseteq Booted
      BY <3>1 DEF Booted
    <3> QED
      BY <1>1, <1>4, <3>1, <3>2, NoneBooted DEF Revoke
  <2> QED
    BY <1>4, <2>1, <2>2 DEF Revoke
<1>5. ASSUME NEW k \in AdminKeyNames, NEW new \in AdminKeyNames, RotateBootstrap(k, new)
      PROVE  BootInv'
  <2> DEFINE grown == With(new, Record("super_admin", TRUE))
  <2>1. /\ k \in Booted /\ new \notin Known /\ always' = always
        /\ recs' = [grown EXCEPT ![k].active = FALSE]
    BY <1>5 DEF RotateBootstrap, Rotated, Unused, ActiveSuper, Booted
  <2>2. /\ grown \in [Known \cup {new} -> AdminRecord]
        /\ \A j \in Known : grown[j] = recs[j]
    <3>1. "super_admin" \in Roles /\ TRUE \in BOOLEAN /\ recs \in [DOMAIN recs -> AdminRecord]
      BY DEF Inv, Roles
    <3>2. /\ grown \in [Known \cup {new} -> AdminRecord]
          /\ \A j \in Known \ {new} : grown[j] = recs[j]
      BY <3>1, WithEntry
    <3> QED
      BY <2>1, <3>2
  <2>3. /\ Known' = Known \cup {new} /\ ~recs'[k].active
        /\ \A j \in Known \ {k} : recs'[j] = recs[j]
    BY <2>1, <2>2 DEF Known, Booted, AdminRecord
  <2>4. always => Booted' \subseteq {new}
    <3>1. ASSUME always, NEW j \in Booted', j # new PROVE FALSE
      <4>1. j \in Known /\ j # k /\ recs'[j].boot /\ recs'[j].active
        BY <2>3, <3>1 DEF Booted
      <4>2. j \in Booted
        BY <2>3, <4>1 DEF Booted
      <4> QED
        BY <2>1, <3>1, <4>1, <4>2 DEF BootInv
    <3> QED
      BY <3>1
  <2> QED
    BY <1>1, <2>1, <2>3, <2>4 DEF BootInv
<1>6. ASSUME NEW k \in AdminKeyNames, Restart(k) PROVE BootInv'
  <2>1. CASE k \in Known
    <3>1. recs' = recs /\ (always' => always)
      BY <1>6, <2>1 DEF Restart, Bootstrapped
    <3> QED
      BY <1>1, <3>1, NoneBooted DEF Booted, Known
  <2>2. CASE k \notin Known
    <3>1. ~always' /\ recs' = With(k, Record("super_admin", TRUE))
      BY <1>1, <1>6, <2>2 DEF Restart, Bootstrapped
    <3>2. Configured \in Known'
      BY <1>1, <3>1 DEF With, Known
    <3> QED
      BY <3>1, <3>2 DEF BootInv
  <2> QED
    BY <2>1, <2>2
<1>7. CASE UNCHANGED vars
  BY <1>2, <1>7 DEF vars
<1>8. CASE \E r \in Requests, k \in AdminKeyNames, op \in {"create", "revoke"} : Arrive(r, op, k)
  BY <1>2, <1>8 DEF Arrive
<1> QED
  BY <1>3, <1>4, <1>5, <1>6, <1>7, <1>8 DEF Next

(* As long as every start is given the same key, one bootstrap key at most *)
(* is in force, however rotations, revocations and restarts interleave     *)
(* (admin-keys.ts, rotateBootstrap and bootstrap).                         *)
THEOREM OneBootstrapKeyAtMost == Spec => []OneBootstrapKey
<1>1. Init => Inv /\ BootInv
  BY InitInv DEF Init, BootInv, Booted, Known, Record
<1>2. Inv /\ BootInv /\ [Next]_vars => Inv' /\ BootInv'
  BY StepInv, StepBoot
<1>3. BootInv => OneBootstrapKey
  <2> SUFFICES ASSUME BootInv, always PROVE Cardinality(Booted) <= 1
    BY DEF OneBootstrapKey, Booted
  <2>1. CASE Booted = {}
    BY <2>1, FS_EmptySet
  <2>2. ASSUME NEW k \in Booted PROVE Cardinality(Booted) <= 1
    <3>1. Booted = {k}
      BY <2>2 DEF BootInv
    <3> QED
      BY <3>1, FS_Singleton
  <2> QED
    BY <2>1, <2>2
<1> QED
  BY <1>1, <1>2, <1>3, PTL DEF Spec
=============================================================================
