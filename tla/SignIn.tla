------------------------------- MODULE SignIn -------------------------------
(***************************************************************************)
(* Sessions, tokens and the login guard of one account:                    *)
(* api/routers/auth.py, services/sessions.py, services/login_guard.py and  *)
(* the password part of api/routers/users.py.                              *)
(*                                                                         *)
(* Every request is followed statement by statement, because none holds a  *)
(* lock on the account while it verifies a password: what it read of the   *)
(* account may have changed when it writes.  Row locks of PostgreSQL are   *)
(* the guards `RowFree`; a refresh token is named by the session it stands    *)
(* for.  The clock counts in units of the rotation grace period.           *)
(***************************************************************************)
EXTENDS Naturals, FiniteSets, Sequences

CONSTANTS Visits,       \* requests, each served once
          KindOf(_),    \* what each asks for, one of Kinds
          Mixes,        \* the sets of requests that may meet
          Devices,      \* sessions open at the start
          MaxFailed,    \* settings.login_max_failed_attempts
          AttemptWindow, \* settings.login_attempt_window_minutes
          Lockout,      \* settings.login_lockout_minutes
          Grace,        \* ROTATION_GRACE_SECONDS
          SessionLife,  \* settings.refresh_token_expire_days
          Retention,    \* settings.session_retention_days
          MaxTime       \* bound of the clock

Kinds == {"login", "refresh", "logout", "change", "reset", "switch", "unlock"}

SignInAssumption ==
  /\ IsFiniteSet(Visits) /\ Mixes \subseteq SUBSET Visits
  /\ \A w \in Visits : KindOf(w) \in Kinds
  /\ {MaxFailed, AttemptWindow, Lockout, SessionLife} \subseteq Nat \ {0}
  /\ {Devices, Grace, Retention, MaxTime} \subseteq Nat

VARIABLES account,   \* the row of users: active, password, version, mustChange
          attempts,  \* the row of login_attempts; Unseen stands for no row
          sessions,  \* the rows of auth_sessions, in the order of their making
          visit,     \* what each request has read, and where it stands
          now,
          wrong      \* history: failures since the count last began anew

signInVars == <<account, attempts, sessions, visit, now, wrong>>

Never == 0
Undelivered == 0
Unseen == [failed |-> 0, last |-> 0, until |-> Never]
Request(step) == [at |-> step, jti |-> 0, version |-> 0, pw |-> 0, failed |-> 0, seen |-> {}]

\* A session carries the password its family was opened with and how many
\* successors it got (history), and the versions of the account that its
\* refresh token and the newest access token obtained with it carry.
NewSession(pw) == [rotated |-> Never, revoked |-> Never, expires |-> now + SessionLife,
                   token |-> Undelivered, access |-> Undelivered, pw |-> pw, heirs |-> 0,
                   row |-> TRUE]

Jtis == 1..Len(sessions)
At(w, steps) == visit[w].at \in steps
RowFree(w, steps) == \A v \in Visits \ {w} : ~At(v, steps)
GoOn(w, step) == visit' = [visit EXCEPT ![w].at = step]
Asks(w, kind) == At(w, {"idle"}) /\ KindOf(w) = kind
Finish(w) == visit' = [visit EXCEPT ![w] = Request("done")]
LockedOut == attempts.until > now
Live(s) == s.row /\ s.revoked = Never

\* The rows that `UPDATE ... WHERE revoked_at IS NULL` sees when it starts.
Unrevoked == {j \in Jtis : Live(sessions[j])}

SignInInit ==
  /\ account = [active |-> TRUE, password |-> 1, version |-> 1, mustChange |-> FALSE]
  /\ attempts = Unseen
  /\ now = 1
  /\ sessions = [j \in 1..Devices |-> [NewSession(1) EXCEPT !.token = 1, !.access = 1]]
  /\ \E m \in Mixes : visit = [w \in Visits |-> Request(IF w \in m THEN "idle" ELSE "done")]
  /\ wrong = 0

(***************************************************************************)
(* Login.                                                                  *)
(***************************************************************************)
\* The lock is looked at before anything else; a locked account is refused.
BeginLogin(w) ==
  /\ Asks(w, "login") /\ ~LockedOut
  /\ GoOn(w, "verifying")
  /\ UNCHANGED <<account, attempts, sessions, now, wrong>>

\* The account is read and the password verified; a disabled account is
\* refused after its password was found right, and neither counted nor cleared.
VerifyPassword(w) ==
  /\ At(w, {"verifying"})
  /\ \/ GoOn(w, "failing")
     \/ ~account.active /\ Finish(w)
     \/ /\ account.active
        /\ visit' = [visit EXCEPT ![w].at = "proved", ![w].pw = account.password]
  /\ UNCHANGED <<account, attempts, sessions, now, wrong>>

\* Fault: the row of attempts is read without its lock.
CountUnlocked(w) == TRUE

CountLocked(w) == RowFree(w, {"counting"})

\* record_failure: the row is made if it is missing, locked, and then read.
LockAttempts(w) ==
  /\ At(w, {"failing"}) /\ CountLocked(w)
  /\ visit' = [visit EXCEPT ![w].at = "counting",
       ![w].failed = IF attempts.last + AttemptWindow < now THEN 0 ELSE attempts.failed]
  /\ UNCHANGED <<account, attempts, sessions, now, wrong>>

Restarted(w) == IF attempts.last + AttemptWindow < now THEN 0 ELSE wrong

\* At the threshold the account is locked and the count begins anew; otherwise
\* the lock in force stays as it was, unless the window has passed.
CountFailure(w) ==
  LET reached == visit[w].failed + 1 >= MaxFailed
      expired == attempts.last + AttemptWindow < now
  IN /\ At(w, {"counting"})
     /\ attempts' = [failed |-> IF reached THEN 0 ELSE visit[w].failed + 1,
                     last   |-> now,
                     until  |-> IF reached THEN now + Lockout
                                ELSE IF expired THEN Never ELSE attempts.until]
     /\ wrong' = IF Restarted(w) + 1 >= MaxFailed THEN 0 ELSE Restarted(w) + 1
     /\ Finish(w)
     /\ UNCHANGED <<account, sessions, now>>

\* A right password clears the failures and opens a session, in one commit.
OpenSession(w) ==
  /\ At(w, {"proved"}) /\ CountLocked(w)
  /\ attempts' = Unseen /\ wrong' = 0
  /\ sessions' = Append(sessions, NewSession(visit[w].pw))
  /\ visit' = [visit EXCEPT ![w].at = "issuing", ![w].jti = Len(sessions) + 1]
  /\ UNCHANGED <<account, now>>

\* The commit expired the account's row, so the tokens carry the version it has now.
IssueTokens(w) ==
  LET j == visit[w].jti IN
  /\ At(w, {"issuing", "granting"})
  /\ sessions' = [sessions EXCEPT ![j].access = account.version,
                                  ![j].token = IF At(w, {"issuing"}) THEN account.version ELSE @]
  /\ Finish(w)
  /\ UNCHANGED <<account, attempts, now, wrong>>

(***************************************************************************)
(* Refresh: the token is checked against the account, then its session is  *)
(* locked, read again and rotated.                                         *)
(***************************************************************************)
BeginRefresh(w, j) ==
  /\ Asks(w, "refresh")
  /\ sessions[j].token # Undelivered /\ sessions[j].expires > now
  /\ account.active /\ sessions[j].token = account.version
  /\ visit' = [visit EXCEPT ![w].at = "refreshing", ![w].jti = j]
  /\ UNCHANGED <<account, attempts, sessions, now, wrong>>

\* Fault: the session is read without FOR UPDATE.
SessionUnlocked(w, j) == TRUE

\* The rows v has locked: the session it rotates or found dead, or those it revoked.
LockedRows(v) ==
  IF At(v, {"rotating", "ending"}) THEN {visit[v].jti}
  ELSE IF At(v, {"holding"}) THEN visit[v].seen ELSE {}

SessionLocked(w, j) == \A v \in Visits \ {w} : j \notin LockedRows(v)

LockSession(w) ==
  LET j == visit[w].jti
      s == sessions[j]
      dead == ~Live(s) \/ s.expires <= now \/ (s.rotated # Never /\ now - s.rotated > Grace)
  IN /\ At(w, {"refreshing"}) /\ SessionLocked(w, j)
     /\ visit' = [visit EXCEPT
          ![w].at = IF dead THEN "ending" ELSE IF s.rotated # Never THEN "granting" ELSE "rotating",
          ![w].seen = IF dead THEN Unrevoked ELSE {}]
     /\ UNCHANGED <<account, attempts, sessions, now, wrong>>

\* rotate_session: the successor inherits, the old token is spent.
RotateSession(w) ==
  LET j == visit[w].jti IN
  /\ At(w, {"rotating"})
  /\ sessions' = Append([sessions EXCEPT ![j].rotated = now, ![j].heirs = @ + 1],
                        NewSession(sessions[j].pw))
  /\ visit' = [visit EXCEPT ![w].at = "issuing", ![w].jti = Len(sessions) + 1]
  /\ UNCHANGED <<account, attempts, now, wrong>>

\* The update waits for every row that another request has locked.
Revoked(w) == [j \in Jtis |-> IF j \in visit[w].seen /\ Live(sessions[j])
                              THEN [sessions[j] EXCEPT !.revoked = now] ELSE sessions[j]]

RowsFree(w) == \A v \in Visits \ {w} : visit[w].seen \cap LockedRows(v) = {}

\* Reuse of a spent or dead token ends all sessions of the account.
EndAllSessions(w) ==
  /\ At(w, {"ending"}) /\ RowsFree(w)
  /\ sessions' = Revoked(w)
  /\ Finish(w)
  /\ UNCHANGED <<account, attempts, now, wrong>>

\* What a request has locked when its update comes upon a row of another's: the
\* dead session, or the part of its rows the update has already passed.
MayHold(v) == IF At(v, {"ending"}) THEN {visit[v].jti} ELSE visit[v].seen

\* Two that end the same sessions may wait for each other; one is rolled back.
\* Two updates alone meet the rows in one order, and do not.
AbortDeadlock(w) ==
  /\ At(w, {"ending", "revoking"})
  /\ \E v \in Visits \ {w} :
        /\ At(v, {"ending", "revoking"}) /\ (At(v, {"ending"}) \/ At(w, {"ending"}))
        /\ \E i \in MayHold(v) \cap visit[w].seen, j \in MayHold(w) \cap visit[v].seen : i # j
  /\ Finish(w)
  /\ UNCHANGED <<account, attempts, sessions, now, wrong>>

\* Logout with the cookie of a session, or closing it from the list of sessions.
RevokeSession(w, j) ==
  /\ Asks(w, "logout") /\ Live(sessions[j]) /\ sessions[j].token # Undelivered
  /\ SessionLocked(w, j)
  /\ sessions' = [sessions EXCEPT ![j].revoked = now]
  /\ Finish(w)
  /\ UNCHANGED <<account, attempts, now, wrong>>

(***************************************************************************)
(* Passwords: changed by the owner, who is signed in and proves the old    *)
(* one, or reset by the administration.                                    *)
(***************************************************************************)
\* get_current_user: an access token is good while its version is the account's.
TokenAccepted(j) == account.active /\ sessions[j].access = account.version

BeginChange(w) ==
  /\ Asks(w, "change") /\ \E j \in Jtis : TokenAccepted(j)
  /\ visit' = [visit EXCEPT ![w].at = "hashing", ![w].version = account.version]
  /\ UNCHANGED <<account, attempts, sessions, now, wrong>>

BeginReset(w) ==
  /\ Asks(w, "reset")
  /\ visit' = [visit EXCEPT ![w].at = "hashing", ![w].version = account.version]
  /\ UNCHANGED <<account, attempts, sessions, now, wrong>>

\* revoke_all_for_user: the UPDATE goes out before the account is written, since
\* nothing is flushed by itself (autoflush=False), and so under no lock of the account.
LookForSessions(w) ==
  /\ At(w, {"hashing"})
  /\ visit' = [visit EXCEPT ![w].at = "revoking", ![w].seen = Unrevoked]
  /\ UNCHANGED <<account, attempts, sessions, now, wrong>>

\* Rows that another request held are looked at again when it has ended.
RevokeRows(w) ==
  /\ At(w, {"revoking"}) /\ RowsFree(w)
  /\ visit' = [visit EXCEPT ![w].at = "holding", ![w].seen = {j \in @ : Live(sessions[j])}]
  /\ UNCHANGED <<account, attempts, sessions, now, wrong>>

\* log_event writes the account under the lock of the audit chain, which is held
\* to the commit; the version is the one that was read plus one.  The owner gets
\* a new session in the same commit.
CommitPassword(w) ==
  LET own == KindOf(w) = "change"
      pw  == account.password + 1
  IN /\ At(w, {"holding"})
     /\ account' = [account EXCEPT !.password = pw, !.version = visit[w].version + 1,
                                   !.mustChange = ~own]
     /\ sessions' = IF own THEN Append(Revoked(w), NewSession(pw)) ELSE Revoked(w)
     /\ visit' = [visit EXCEPT ![w] =
          IF own THEN [Request("issuing") EXCEPT !.jti = Len(sessions) + 1] ELSE Request("done")]
     /\ UNCHANGED <<attempts, now, wrong>>

\* Disabling and enabling write one column of the account and touch no session.
SetActive(w) ==
  /\ Asks(w, "switch")
  /\ account' = [account EXCEPT !.active = ~@]
  /\ Finish(w)
  /\ UNCHANGED <<attempts, sessions, now, wrong>>

(***************************************************************************)
(* Upkeep.                                                                 *)
(***************************************************************************)
Unlock(w) ==
  /\ Asks(w, "unlock") /\ CountLocked(w)
  /\ attempts' = Unseen /\ wrong' = 0
  /\ Finish(w)
  /\ UNCHANGED <<account, sessions, now>>

PurgeStale ==
  /\ attempts # Unseen /\ attempts.last + AttemptWindow < now /\ ~LockedOut
  /\ \A v \in Visits : ~At(v, {"counting"})
  /\ attempts' = Unseen /\ wrong' = 0
  /\ UNCHANGED <<account, sessions, visit, now>>

Dead(s) == s.row /\ ( \/ s.expires + Retention < now
                      \/ s.revoked # Never /\ s.revoked + Retention < now)

PurgeDeadSessions ==
  /\ \E j \in Jtis : Dead(sessions[j])
  /\ \A v \in Visits : LockedRows(v) = {}
  /\ sessions' = [j \in Jtis |-> IF Dead(sessions[j]) THEN [sessions[j] EXCEPT !.row = FALSE]
                                 ELSE sessions[j]]
  /\ UNCHANGED <<account, attempts, visit, now, wrong>>

\* A request takes no time between locking a row and writing it.
Tick ==
  /\ now < MaxTime /\ \A v \in Visits : ~At(v, {"counting", "rotating", "ending", "holding"})
  /\ now' = now + 1
  /\ UNCHANGED <<account, attempts, sessions, visit, wrong>>

Serve(w) ==
  \/ BeginLogin(w) \/ VerifyPassword(w) \/ LockAttempts(w) \/ CountFailure(w) \/ OpenSession(w)
  \/ IssueTokens(w) \/ \E j \in Jtis : BeginRefresh(w, j) \/ RevokeSession(w, j)
  \/ LockSession(w) \/ RotateSession(w) \/ EndAllSessions(w) \/ AbortDeadlock(w)
  \/ BeginChange(w) \/ BeginReset(w) \/ LookForSessions(w) \/ RevokeRows(w) \/ CommitPassword(w)
  \/ SetActive(w) \/ Unlock(w)

SignInNext ==
  \/ \E w \in Visits : Serve(w)
  \/ PurgeStale \/ PurgeDeadSessions \/ Tick

SignInSpec == SignInInit /\ [][SignInNext]_signInVars

(***************************************************************************)
(* Properties.                                                             *)
(***************************************************************************)
\* No failure is lost: of two wrong passwords counted at the same time both
\* count, across the window, a lock, a success and an unlock in between
\* (record_failure, "two concurrent failures ... counted 1 instead of 2").
FailuresAreCounted == attempts.failed = wrong

\* A refresh token has one successor at most, however many requests present it
\* at once (rotate_session, "two live branches of the session").
OneHeirPerToken == \A j \in Jtis : sessions[j].heirs <= 1

=============================================================================
