------------------------------ MODULE LoginUser ------------------------------
(***************************************************************************)
(* auth-service: LoginUser with its BruteForceProtector, for one account   *)
(* and one address.  A login asks the counter of failures before it        *)
(* verifies the password and raises it afterwards, in calls that other     *)
(* logins interleave.  Requests come again when they are over.  The tokens *)
(* a login issues are in RefreshTokens.                                    *)
(***************************************************************************)
EXTENDS Integers, FiniteSets

CONSTANTS
    LoginRequest,    \* that may be at work at one time
    maxAttempts,
    MaxResets,       \* bound: how often the counter is cleared or expires
    MaxLoginFaults   \* bound: errors of Redis or the database, deaths of processes

ASSUME LoginAssumption ==
    /\ IsFiniteSet(LoginRequest)
    /\ maxAttempts \in Nat \ {0} /\ MaxResets \in Nat /\ MaxLoginFaults \in Nat

VARIABLES
    failures,      \* the counter in Redis
    wrong,         \* wrong passwords verified so far
    resets,
    loginAt,       \* where each request is
    loginFaults

loginVars == <<failures, wrong, resets, loginAt, loginFaults>>

LoginStop == {"start", "verify", "record", "clear", "update"}

LoginInit ==
    /\ failures = 0 /\ wrong = 0 /\ resets = 0
    /\ loginAt = [l \in LoginRequest |-> "start"]
    /\ loginFaults = 0

LoginTo(l, stop) == loginAt' = [loginAt EXCEPT ![l] = stop]
LoginFault == loginFaults < MaxLoginFaults /\ loginFaults' = loginFaults + 1

(* MUTANT: one failure more before the counter blocks. *)
BlockedLate == failures > maxAttempts

IsBlocked == failures >= maxAttempts

CheckBlocked(l) ==
    /\ loginAt[l] = "start" /\ ~IsBlocked
    /\ LoginTo(l, "verify")
    /\ UNCHANGED <<failures, wrong, resets, loginFaults>>

(* findByEmail and verifyPassword; an account that may not log in is refused. *)
Verify(l) ==
    /\ loginAt[l] = "verify"
    /\ \/ wrong' = wrong + 1 /\ LoginTo(l, "record")
       \/ UNCHANGED wrong /\ \E stop \in {"clear", "start"} : LoginTo(l, stop)
    /\ UNCHANGED <<failures, resets, loginFaults>>

(* INCR and EXPIRE; they may throw, with effect or without. *)
RecordFailure(l) ==
    /\ loginAt[l] = "record"
    /\ \/ failures' = failures + 1 /\ UNCHANGED loginFaults
       \/ LoginFault /\ failures' \in {failures, failures + 1}
    /\ LoginTo(l, "start")
    /\ UNCHANGED <<wrong, resets>>

Reset == resets < MaxResets /\ resets' = resets + 1 /\ failures' = 0

ClearFailures(l) ==
    /\ loginAt[l] = "clear"
    /\ Reset
    /\ \/ LoginTo(l, "update") /\ UNCHANGED loginFaults
       \/ LoginFault /\ LoginTo(l, "start")
    /\ UNCHANGED wrong

(* updateLastLogin and issueTokenPair; the login is over, answered or failed. *)
UpdateLastLogin(l) ==
    /\ loginAt[l] = "update"
    /\ LoginTo(l, "start")
    /\ UNCHANGED <<failures, wrong, resets, loginFaults>>

(* The window of the counter is over. *)
FailuresExpire == failures > 0 /\ Reset /\ UNCHANGED <<wrong, loginAt, loginFaults>>

(* A call before throws, or the process dies. *)
LoginBreaksOff(l) ==
    /\ loginAt[l] # "start"
    /\ LoginFault
    /\ LoginTo(l, "start")
    /\ UNCHANGED <<failures, wrong, resets>>

LoginStep(l) ==
    \/ CheckBlocked(l) \/ Verify(l) \/ RecordFailure(l)
    \/ ClearFailures(l) \/ UpdateLastLogin(l) \/ LoginBreaksOff(l)

LoginNext == FailuresExpire \/ \E l \in LoginRequest : LoginStep(l)

LoginSpec == LoginInit /\ [][LoginNext]_loginVars

-----------------------------------------------------------------------------
LoginTypeOK ==
    /\ failures \in Nat /\ wrong \in Nat /\ resets \in 0 .. MaxResets
    /\ loginAt \in [LoginRequest -> LoginStop]
    /\ loginFaults \in 0 .. MaxLoginFaults

(* Logins that overlap verify a wrong password after the counter should    *)
(* have stopped them, but by less than their number in every window; an    *)
(* attempt is missing from the counter only where recording it failed      *)
(* (LoginUser.ts:29-46, BruteForceProtector.ts:14-26).                     *)
AttemptsBounded ==
    wrong <= (1 + resets) * (maxAttempts - 1 + Cardinality(LoginRequest)) + loginFaults
=============================================================================
