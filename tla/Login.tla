-------------------------------- MODULE Login --------------------------------
(***************************************************************************)
(* Signing in to the panel (internal/auth lockout.go, session.go and       *)
(* middleware.go, internal/httpapi api.go): the failures of one subject    *)
(* (user@address), the sessions of one account, and dongled passwd, which  *)
(* another process runs on the same database.  Every statement is a step   *)
(* of its own.                                                             *)
(*                                                                         *)
(* Time is a sequence of ticks; a moment is kept as its age, up to the     *)
(* limit it is compared with.  A statement of the database does not fail.  *)
(***************************************************************************)
EXTENDS Naturals, FiniteSets

CONSTANTS
    Clients,                        \* browsers that sign in
    Threshold, Window, Penalty, MaxPenalty,    \* LockoutPolicy
    Ttl                             \* Sessions.ttl

ASSUME LoginAssumption ==
    /\ IsFiniteSet(Clients)
    /\ {Threshold, Window, Penalty, Ttl} \subseteq Nat \ {0}
    /\ MaxPenalty \in Nat /\ MaxPenalty >= Penalty

VARIABLES
    account,    \* the password of the account, and what dongled passwd is at
    lock,       \* the row of auth_lockout
    login,      \* the sign in of each browser
    cookies,    \* the row of auth_sessions each browser has the cookie of
    tries       \* failures recorded since the subject was last unlocked

loginVars == <<account, lock, login, cookies, tries>>

Passwords == {"one", "two"}
NoRow == [failures |-> 0, age |-> 0, wait |-> 0]
NoLogin == [pc |-> "idle", guess |-> "wrong", failures |-> 0]
NoCookie == [by |-> "none", age |-> 0]

LoginTypeOK ==
    /\ account \in [password: Passwords, passwd: {"idle", "set"}]
    /\ lock \in [failures: Nat, age: 0 .. Window + 1, wait: 0 .. MaxPenalty]
    /\ login \in [Clients -> [pc: {"idle", "check", "verify", "fail", "lock", "reset", "issue"},
                              guess: Passwords \cup {"wrong"}, failures: Nat]]
    /\ cookies \in [Clients -> [by: Passwords \cup {"none"}, age: 0 .. Ttl]]
    /\ tries \in Nat

LoginInit ==
    /\ account = [password |-> "one", passwd |-> "idle"]
    /\ lock = NoRow /\ login = [c \in Clients |-> NoLogin]
    /\ cookies = [c \in Clients |-> NoCookie] /\ tries = 0

LoginAt(c, s) == login[c].pc = s
LoginGoes(c, s) == login' = [login EXCEPT ![c].pc = s]
LoginEnds(c) == login' = [login EXCEPT ![c] = NoLogin]
-----------------------------------------------------------------------------
(* handleLogin.                                                            *)

SignsIn(c) ==
    /\ LoginAt(c, "idle")
    /\ \E g \in Passwords \cup {"wrong"} : login' = [login EXCEPT ![c] = [NoLogin EXCEPT !.pc = "check", !.guess = g]]
    /\ UNCHANGED <<account, lock, cookies, tries>>

\* Lockout.Check.
CheckLockout(c) ==
    /\ LoginAt(c, "check")
    /\ IF lock.wait > 0 THEN LoginEnds(c) ELSE LoginGoes(c, "verify")
    /\ UNCHANGED <<account, lock, cookies, tries>>

\* Sessions.Authenticate: the hash it has read is the one it verifies.
AuthenticateUser(c) ==
    /\ LoginAt(c, "verify")
    /\ LoginGoes(c, IF login[c].guess = account.password THEN "reset" ELSE "fail")
    /\ UNCHANGED <<account, lock, cookies, tries>>

\* The loop of Lockout.penaltyFor: each round doubles what is below the most.
Penalties[n \in Nat] ==
    IF n = 0 THEN Penalty
    ELSE LET p == Penalties[n - 1] IN IF p < MaxPenalty THEN 2 * p ELSE p

\* Lockout.penaltyFor, of failures that reach the threshold.
PenaltyFor(failures) ==
    LET p == Penalties[failures - Threshold] IN IF p > MaxPenalty THEN MaxPenalty ELSE p

\* The failures in a window that is over count as one.
Recorded == IF lock.failures > 0 /\ lock.age <= Window
            THEN [lock EXCEPT !.failures = @ + 1]
            ELSE [lock EXCEPT !.failures = 1, !.age = 0]

\* The first statement of Lockout.Fail: the upsert.
FailCounts(c) ==
    /\ LoginAt(c, "fail") /\ lock' = Recorded /\ tries' = tries + 1
    /\ IF Recorded.failures < Threshold THEN LoginEnds(c)
       ELSE login' = [login EXCEPT ![c].pc = "lock", ![c].failures = Recorded.failures]
    /\ UNCHANGED <<account, cookies>>

\* Only the failure that reaches the threshold locks.
Bug_FailLocks(c) ==
    /\ LoginAt(c, "lock") /\ LoginEnds(c)
    /\ lock' = [lock EXCEPT !.wait = IF lock.failures > 0 /\ login[c].failures = Threshold THEN Penalty ELSE @]
    /\ UNCHANGED <<account, cookies, tries>>

\* The second: the lock, of a row that is still there.
FailLocks(c) ==
    /\ LoginAt(c, "lock") /\ LoginEnds(c)
    /\ lock' = [lock EXCEPT !.wait = IF lock.failures > 0 /\ PenaltyFor(login[c].failures) > @
                                     THEN PenaltyFor(login[c].failures) ELSE @]
    /\ UNCHANGED <<account, cookies, tries>>

\* Lockout.Reset, whatever others have recorded meanwhile.
ResetLockout(c) ==
    /\ LoginAt(c, "reset") /\ LoginGoes(c, "issue") /\ lock' = NoRow /\ tries' = 0
    /\ UNCHANGED <<account, cookies>>

\* Sessions.Issue; the row of a cookie the browser held before is nobody's.
IssueSession(c) ==
    /\ LoginAt(c, "issue") /\ LoginEnds(c)
    /\ cookies' = [cookies EXCEPT ![c] = [by |-> login[c].guess, age |-> 0]]
    /\ UNCHANGED <<account, lock, tries>>
-----------------------------------------------------------------------------
(* RequireSession and the other ways a session ends.                       *)

ValidCookie(c) == cookies[c].by # "none" /\ cookies[c].age < Ttl

\* Sessions.Lookup deletes a session that has expired.
LookupSession(c) ==
    /\ ~ValidCookie(c) /\ cookies[c] # NoCookie /\ cookies' = [cookies EXCEPT ![c] = NoCookie]
    /\ UNCHANGED <<account, lock, login, tries>>

\* handleLogout.
LogsOut(c) ==
    /\ ValidCookie(c) /\ cookies' = [cookies EXCEPT ![c] = NoCookie]
    /\ UNCHANGED <<account, lock, login, tries>>

\* runPasswd: SetPassword.
SetPassword ==
    /\ account.passwd = "idle"
    /\ account' = [password |-> CHOOSE p \in Passwords : p # account.password, passwd |-> "set"]
    /\ UNCHANGED <<lock, login, cookies, tries>>

\* runPasswd: RevokeUser.
RevokeUser ==
    /\ account.passwd = "set" /\ account' = [account EXCEPT !.passwd = "idle"]
    /\ cookies' = [c \in Clients |-> NoCookie]
    /\ UNCHANGED <<lock, login, tries>>

\* Older than the window is older than the window; the two statements of a
\* failure are within a tick.
LoginTick ==
    /\ \A c \in Clients : ~LoginAt(c, "lock")
    /\ lock' = IF lock.failures = 0 THEN lock
               ELSE [lock EXCEPT !.age = IF @ <= Window THEN @ + 1 ELSE @, !.wait = IF @ > 0 THEN @ - 1 ELSE 0]
    /\ tries' = IF lock.wait = 1 \/ (lock.wait = 0 /\ lock.age = Window) THEN 0 ELSE tries
    /\ cookies' = [c \in Clients |-> [cookies[c] EXCEPT !.age = IF cookies[c].by # "none" /\ @ < Ttl THEN @ + 1 ELSE @]]
    /\ UNCHANGED <<account, login>>

LoginStep(c) ==
    \/ SignsIn(c) \/ CheckLockout(c) \/ AuthenticateUser(c) \/ FailCounts(c) \/ FailLocks(c)
    \/ ResetLockout(c) \/ IssueSession(c) \/ LookupSession(c) \/ LogsOut(c)

LoginNext == (\E c \in Clients : LoginStep(c)) \/ SetPassword \/ RevokeUser \/ LoginTick
LoginSpec == LoginInit /\ [][LoginNext]_loginVars
-----------------------------------------------------------------------------
(* What signing in promises.                                               *)

\* However many sign in at once, a subject fails no more often between two
\* locks than the threshold allows, and once more for each browser whose sign
\* in was under way when the lock was written (handleLogin, Lockout.Fail).
TriesAreBounded == tries <= Threshold - 1 + Cardinality(Clients)

-----------------------------------------------------------------------------
(* What a document, a test or the panel counts on and the code does not do *)
(* (README, "Known disagreements").                                        *)

\* Once dongled passwd has ended, every session of the account was opened with
\* its password (runPasswd).
SignedOut ==
    account.passwd = "idle" =>
        \A c \in Clients : cookies[c].by \in {"none", account.password}
=============================================================================
