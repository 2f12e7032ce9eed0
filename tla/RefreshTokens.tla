---------------------------- MODULE RefreshTokens ----------------------------
(***************************************************************************)
(* auth-service: the refresh tokens of one user.  A login issues one;      *)
(* RefreshTokens looks a token up among the newest valid ones, revokes it  *)
(* by id and issues another, three statements that other requests with     *)
(* the same token interleave; LogoutUser revokes one.  revoke swallows its *)
(* errors.                                                                 *)
(*                                                                         *)
(* Tokens are numbered in the order of their creation.  Requests come      *)
(* again when they are over.  Access tokens and the session cache are left *)
(* out.                                                                    *)
(***************************************************************************)
EXTENDS Integers, FiniteSets

CONSTANTS
    RefreshRequest, LogoutRequest,   \* that may be at work at one time
    limit,           \* findActiveTokens: limit
    MaxSessions,     \* bound: logins
    MaxTokens,       \* bound: tokens ever issued
    MaxExpiries,     \* bound: tokens that expire unrevoked
    MaxTokenFaults   \* bound: errors of the database, deaths of processes

ASSUME TokenAssumption ==
    /\ IsFiniteSet(RefreshRequest) /\ IsFiniteSet(LogoutRequest)
    /\ RefreshRequest \cap LogoutRequest = {}
    /\ limit \in Nat \ {0}
    /\ MaxSessions \in Nat /\ MaxTokens \in Nat
    /\ MaxExpiries \in Nat /\ MaxTokenFaults \in Nat

Token == 1 .. MaxTokens
Bearer == RefreshRequest \cup LogoutRequest

VARIABLES
    issued,        \* the tokens there are: 1 .. issued
    rotatedFrom,   \* [Token -> the token it replaces, 0 after a login]
    revoked, expired,
    loggedOut,     \* the tokens a logout took
    bearerAt,      \* where each request is
    held,          \* [Bearer -> the token it matched, 0 if none]
    tokenFaults

tokens == <<issued, rotatedFrom, revoked, expired, loggedOut>>
tokenVars == <<tokens, bearerAt, held, tokenFaults>>

TokenInit ==
    /\ issued = 0 /\ rotatedFrom = [t \in Token |-> 0]
    /\ revoked = {} /\ expired = {} /\ loggedOut = {}
    /\ bearerAt = [b \in Bearer |-> "match"]
    /\ held = [b \in Bearer |-> 0]
    /\ tokenFaults = 0

BearerTo(b, stop) == bearerAt' = [bearerAt EXCEPT ![b] = stop]
TokenFault == tokenFaults < MaxTokenFaults /\ tokenFaults' = tokenFaults + 1

(* The request is over. *)
EndBearer(b) == BearerTo(b, "match") /\ held' = [held EXCEPT ![b] = 0]

(* issueTokenPair: the row of the new token. *)
NewToken(from) ==
    /\ issued < MaxTokens
    /\ issued' = issued + 1
    /\ rotatedFrom' = [rotatedFrom EXCEPT ![issued'] = from]
    /\ UNCHANGED <<revoked, expired, loggedOut>>

Replacements(t) == {u \in 1 .. issued : rotatedFrom[u] = t}

LogIn ==
    /\ Cardinality(Replacements(0)) < MaxSessions
    /\ NewToken(0)
    /\ UNCHANGED <<bearerAt, held, tokenFaults>>

(* MUTANT: a revoked token is valid until it expires. *)
ValidUntilExpiry == (1 .. issued) \ expired

Valid == (1 .. issued) \ (revoked \cup expired)
Newest == {t \in Valid : Cardinality({u \in Valid : u > t}) < limit}

(* findActiveTokens and compareToken; in a refresh also findById and canLogin. *)
MatchToken(b, t) ==
    /\ bearerAt[b] = "match" /\ t \in Newest
    /\ held' = [held EXCEPT ![b] = t]
    /\ BearerTo(b, "revoke")
    /\ UNCHANGED <<tokens, tokenFaults>>

(* revoke; a logout is over then. *)
Revoke(b) ==
    /\ bearerAt[b] = "revoke"
    /\ \/ revoked' = revoked \cup {held[b]} /\ UNCHANGED tokenFaults
       \/ TokenFault /\ revoked' \in {revoked, revoked \cup {held[b]}}
    /\ IF b \in LogoutRequest
       THEN loggedOut' = loggedOut \cup {held[b]} /\ EndBearer(b)
       ELSE BearerTo(b, "issue") /\ UNCHANGED <<loggedOut, held>>
    /\ UNCHANGED <<issued, rotatedFrom, expired>>

IssuePair(b) ==
    /\ bearerAt[b] = "issue"
    /\ NewToken(held[b])
    /\ EndBearer(b)
    /\ UNCHANGED tokenFaults

(* The expiry of a revoked token changes nothing. *)
TokenExpires(t) ==
    /\ t \in Valid /\ Cardinality(expired) < MaxExpiries
    /\ expired' = expired \cup {t}
    /\ UNCHANGED <<issued, rotatedFrom, revoked, loggedOut, bearerAt, held, tokenFaults>>

(* A call throws, or the process dies, after the row is written or before. *)
BearerBreaksOff(b) ==
    /\ bearerAt[b] # "match"
    /\ TokenFault
    /\ \/ UNCHANGED tokens
       \/ bearerAt[b] = "issue" /\ NewToken(held[b])
    /\ EndBearer(b)

BearerStep(b) ==
    \/ Revoke(b) \/ IssuePair(b) \/ BearerBreaksOff(b)
    \/ \E t \in Token : MatchToken(b, t)

TokenNext ==
    \/ LogIn
    \/ \E b \in Bearer : BearerStep(b)
    \/ \E t \in Token : TokenExpires(t)

TokenSpec == TokenInit /\ [][TokenNext]_tokenVars

-----------------------------------------------------------------------------
TokenTypeOK ==
    /\ issued \in 0 .. MaxTokens /\ rotatedFrom \in [Token -> 0 .. MaxTokens]
    /\ revoked \subseteq 1 .. issued /\ expired \subseteq 1 .. issued
    /\ loggedOut \subseteq 1 .. issued
    /\ bearerAt \in [Bearer -> {"match", "revoke", "issue"}]
    /\ held \in [Bearer -> 0 .. issued]
    /\ tokenFaults \in 0 .. MaxTokenFaults

Rotating(t) == {r \in RefreshRequest : bearerAt[r] = "issue" /\ held[r] = t}

(* The tokens with which a session ended that nobody logged out and that   *)
(* did not just expire: revoked without a successor, or valid and refused  *)
(* because `limit` newer ones are valid too.                               *)
Ended ==
    {t \in (revoked \cup (Valid \ Newest)) \ loggedOut : Replacements(t) \cup Rotating(t) = {}}

(* A token that rotated is replaced at most by as many tokens as requests  *)
(* can have matched it before the first of them revoked it, and once more  *)
(* for every error that revoke swallowed.  The sessions that end without a *)
(* logout or expiry are no more than the failures that came between revoke *)
(* and issue and the valid tokens the user has beyond the newest `limit`:  *)
(* each login, and each refresh that overlaps another one with its token,  *)
(* may crowd one out (RefreshTokens.ts:36-71,                              *)
(* PrismaRefreshTokenRepository.ts:63-67).                                 *)
RotationBounded ==
    /\ \A t \in Token :
          Cardinality(Replacements(t)) <= Cardinality(RefreshRequest) + tokenFaults
    /\ \/ Cardinality(Ended) <= tokenFaults
       \/ Cardinality(Ended) <= tokenFaults + Cardinality(Valid) - limit
=============================================================================
