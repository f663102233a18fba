---------------------------- MODULE Access_proofs ----------------------------
(***************************************************************************)
(* Who gets in and what they may do: of the requests of one account that   *)
(* meet, none loses a failed login and no two rotate the same session;     *)
(* nobody gives themselves a permission; and no tool of the assistant goes *)
(* further than the screen, for any requests, sessions, accounts, rights   *)
(* and settings.                                                           *)
(***************************************************************************)
EXTENDS SignIn, Administration, AssistantTools, SequenceTheorems, TLAPS

-----------------------------------------------------------------------------
(* Signing in.  Both arguments are about a row lock and what was read      *)
(* under it: whoever counts has read the count as it is, and nobody else   *)
(* counts or clears it; whoever rotates a session has read it as not yet   *)
(* rotated, and nobody else rotates that one.  Between the reading and the *)
(* writing the clock stands still.                                         *)

Steps == {"idle", "done", "verifying", "failing", "proved", "counting", "issuing", "granting",
          "refreshing", "rotating", "ending", "hashing", "revoking", "holding"}

Attempts == [failed : Nat, last : Nat, until : Nat]

Session == [rotated : Nat, revoked : Nat, expires : Nat, token : Nat, access : Nat, pw : Nat,
            heirs : Nat, row : BOOLEAN]

Served == [at : Steps, jti : Nat, version : Nat, pw : Nat, failed : Nat, seen : SUBSET Nat]

\* A request that has come this far names a session that was made.
OnASession == {"refreshing", "rotating", "ending", "granting", "issuing"}

SignInTypeOK ==
  /\ account \in [active : BOOLEAN, password : Nat, version : Nat, mustChange : BOOLEAN]
  /\ attempts \in Attempts
  /\ sessions \in Seq(Session)
  /\ visit \in [Visits -> Served]
  /\ now \in Nat \ {0}
  /\ wrong \in Nat
  /\ \A w \in Visits : At(w, OnASession) => visit[w].jti \in Jtis

\* The lock of the row of attempts.
CountInv ==
  /\ attempts.failed = wrong
  /\ \A v, w \in Visits : At(v, {"counting"}) /\ At(w, {"counting"}) => v = w
  /\ \A w \in Visits : At(w, {"counting"}) => visit[w].failed = Restarted(w)

\* The lock of a session.
HeirInv ==
  /\ \A j \in Jtis : sessions[j].heirs <= 1 /\ (sessions[j].rotated = Never => sessions[j].heirs = 0)
  /\ \A w \in Visits : At(w, {"rotating"}) => sessions[visit[w].jti].rotated = Never
  /\ \A v, w \in Visits :
        At(v, {"rotating"}) /\ At(w, {"rotating"}) /\ visit[v].jti = visit[w].jti => v = w

SignInInv == SignInTypeOK /\ CountInv /\ HeirInv

----------------------------------------------------------------------------
(* What a step does to the request, the sessions and the attempts.         *)

Serves(w) ==
  /\ visit' \in [Visits -> Served]
  /\ \A v \in Visits \ {w} : visit'[v] = visit[v]
  /\ visit'[w].at \in OnASession => visit'[w].jti \in Jtis'

\* No session is forgotten, none is rotated, and those that are new are not.
KeepsSessions ==
  /\ sessions' \in Seq(Session) /\ Jtis \subseteq Jtis'
  /\ \A j \in Jtis : /\ sessions'[j].rotated = sessions[j].rotated
                     /\ sessions'[j].heirs = sessions[j].heirs
  /\ \A j \in Jtis' \ Jtis : sessions'[j].rotated = Never /\ sessions'[j].heirs = 0

KeepsAccount ==
  account' \in [active : BOOLEAN, password : Nat, version : Nat, mustChange : BOOLEAN]

Clears(w) == CountLocked(w) /\ attempts' = Unseen /\ wrong' = 0

\* Rows rewritten one by one are the same number of rows.
LEMMA RewrittenRows ==
  ASSUME NEW S, NEW s \in Seq(S), NEW f \in [1..Len(s) -> S]
  PROVE  f \in Seq(S) /\ Len(f) = Len(s)
<1>1. Len(s) \in Nat
  BY LenProperties
<1>2. f \in Seq(S)
  BY <1>1, SeqDef
<1>3. Len(f) \in Nat /\ 1..Len(f) = 1..Len(s)
  BY <1>2, LenProperties
<1> QED BY <1>1, <1>2, <1>3

\* A session more.
LEMMA OneMoreRow ==
  ASSUME NEW S, NEW s \in Seq(S), NEW e \in S
  PROVE  /\ Append(s, e) \in Seq(S) /\ Len(Append(s, e)) = Len(s) + 1
         /\ Append(s, e)[Len(s) + 1] = e
         /\ \A j \in 1..Len(s) : Append(s, e)[j] = s[j]
OBVIOUS

\* What UPDATE ... WHERE revoked_at IS NULL leaves of the rows.
LEMMA RevokedRows ==
  ASSUME SignInTypeOK, NEW w \in Visits
  PROVE  /\ Revoked(w) \in Seq(Session) /\ Len(Revoked(w)) = Len(sessions)
         /\ \A j \in Jtis : /\ Revoked(w)[j].rotated = sessions[j].rotated
                            /\ Revoked(w)[j].heirs = sessions[j].heirs
<1>1. \A j \in Jtis : sessions[j] \in Session
  BY ElementOfSeq DEF SignInTypeOK, Jtis
<1>2. Revoked(w) \in [1..Len(sessions) -> Session]
  BY <1>1 DEF Revoked, Jtis, Session, SignInTypeOK
<1>3. \A j \in Jtis : /\ Revoked(w)[j].rotated = sessions[j].rotated
                      /\ Revoked(w)[j].heirs = sessions[j].heirs
  BY <1>1 DEF Revoked, Session
<1> QED BY <1>2, <1>3, RewrittenRows DEF SignInTypeOK

\* A session is opened on top of rows that kept who inherited from them.
LEMMA OpensOne ==
  ASSUME SignInAssumption, SignInTypeOK, NEW rows \in Seq(Session), Len(rows) = Len(sessions),
         \A j \in Jtis : rows[j].rotated = sessions[j].rotated /\ rows[j].heirs = sessions[j].heirs,
         NEW pw \in Nat, sessions' = Append(rows, NewSession(pw))
  PROVE  KeepsSessions /\ Jtis' = 1..(Len(sessions) + 1)
<1>1. NewSession(pw) \in Session
  BY DEF NewSession, Session, SignInTypeOK, SignInAssumption, Never, Undelivered
<1>2. /\ sessions' \in Seq(Session) /\ Len(sessions') = Len(sessions) + 1
      /\ sessions'[Len(sessions) + 1] = NewSession(pw)
      /\ \A j \in 1..Len(sessions) : sessions'[j] = rows[j]
  BY <1>1, OneMoreRow
<1>3. Len(sessions) \in Nat
  BY LenProperties DEF SignInTypeOK
<1>4. Jtis' = 1..(Len(sessions) + 1)
  BY <1>2 DEF Jtis
<1>5. \A j \in Jtis' \ Jtis : j = Len(sessions) + 1
  BY <1>3, <1>4 DEF Jtis
<1>6. NewSession(pw).rotated = Never /\ NewSession(pw).heirs = 0
  BY DEF NewSession
<1> QED BY <1>2, <1>3, <1>4, <1>5, <1>6 DEF KeepsSessions, Jtis

\* One session is written, but not who inherited from it.
LEMMA WritesOne ==
  ASSUME SignInTypeOK, NEW j \in Jtis, NEW s \in Session,
         s.rotated = sessions[j].rotated, s.heirs = sessions[j].heirs,
         sessions' = [sessions EXCEPT ![j] = s]
  PROVE  KeepsSessions /\ Jtis' = Jtis
<1>1. /\ sessions' \in Seq(Session) /\ Len(sessions') = Len(sessions)
      /\ \A i \in 1..Len(sessions) : sessions'[i] = IF i = j THEN s ELSE sessions[i]
  BY ExceptSeq DEF SignInTypeOK, Jtis
<1> QED BY <1>1 DEF KeepsSessions, Jtis

\* What every step of a request keeps, and the few that write the attempts,
\* take a lock or rotate a session.
StepOf(w) ==
  /\ Serves(w) /\ KeepsAccount /\ UNCHANGED now
  /\ KeepsSessions \/ RotateSession(w)
  /\ visit'[w].at = "counting" => LockAttempts(w)
  /\ visit'[w].at = "rotating" => LockSession(w)
  /\ UNCHANGED <<attempts, wrong>> \/ Clears(w) \/ CountFailure(w)

\* A step that leaves the sessions and the account as they are.
LEMMA QuietStep ==
  ASSUME SignInTypeOK, NEW w \in Visits, NEW rec \in Served,
         visit' = [visit EXCEPT ![w] = rec], UNCHANGED <<account, sessions, now>>,
         rec.at \in OnASession => rec.jti \in Jtis,
         rec.at = "counting" => LockAttempts(w), rec.at = "rotating" => LockSession(w),
         UNCHANGED <<attempts, wrong>> \/ Clears(w) \/ CountFailure(w)
  PROVE  StepOf(w)
BY DEF StepOf, Serves, KeepsAccount, KeepsSessions, Jtis, SignInTypeOK

LEMMA RequestTyped == \A step \in Steps : Request(step) \in Served
BY DEF Request, Served

LEMMA LoginSteps ==
  ASSUME SignInAssumption, SignInTypeOK, NEW w \in Visits,
         \/ BeginLogin(w) \/ VerifyPassword(w) \/ LockAttempts(w) \/ CountFailure(w)
         \/ OpenSession(w) \/ IssueTokens(w)
  PROVE  StepOf(w)
<1> DEFINE rec == visit'[w]
<1>0. visit[w] \in Served
  BY DEF SignInTypeOK
<1>1. CASE BeginLogin(w)
  <2>1. rec = [visit[w] EXCEPT !.at = "verifying"] /\ visit' = [visit EXCEPT ![w] = rec]
    BY <1>1 DEF BeginLogin, GoOn, SignInTypeOK
  <2> HIDE DEF rec
  <2>2. rec \in Served /\ rec.at = "verifying"
    BY <1>0, <2>1 DEF SignInTypeOK, Served, Steps
  <2> QED BY <1>1, <2>1, <2>2, QuietStep DEF BeginLogin, OnASession
<1>2. CASE VerifyPassword(w)
  <2>1. /\ visit' = [visit EXCEPT ![w] = rec]
        /\ \/ rec = [visit[w] EXCEPT !.at = "failing"]
           \/ rec = Request("done")
           \/ rec = [visit[w] EXCEPT !.at = "proved", !.pw = account.password]
    BY <1>2 DEF VerifyPassword, GoOn, Finish, SignInTypeOK
  <2> HIDE DEF rec
  <2>2. rec \in Served /\ rec.at \in {"failing", "done", "proved"}
    <3>1. CASE rec = [visit[w] EXCEPT !.at = "failing"]
      BY <1>0, <3>1 DEF Served, Steps
    <3>2. CASE rec = Request("done")
      BY <3>2 DEF Request, Served, Steps
    <3>3. CASE rec = [visit[w] EXCEPT !.at = "proved", !.pw = account.password]
      BY <1>0, <3>3 DEF SignInTypeOK, Served, Steps
    <3> QED BY <2>1, <3>1, <3>2, <3>3
  <2> QED BY <1>2, <2>1, <2>2, QuietStep DEF VerifyPassword, OnASession
<1>3. CASE LockAttempts(w)
  <2>1. /\ visit' = [visit EXCEPT ![w] = rec]
        /\ rec = [visit[w] EXCEPT !.at = "counting",
                    !.failed = IF attempts.last + AttemptWindow < now THEN 0 ELSE attempts.failed]
    BY <1>3 DEF LockAttempts, SignInTypeOK
  <2> HIDE DEF rec
  <2>2. rec \in Served /\ rec.at = "counting"
    BY <1>0, <2>1 DEF SignInTypeOK, Served, Steps, Attempts
  <2> QED BY <1>3, <2>1, <2>2, QuietStep DEF LockAttempts, OnASession
<1>4. CASE CountFailure(w)
  <2>1. visit' = [visit EXCEPT ![w] = Request("done")]
    BY <1>4 DEF CountFailure, Finish
  <2> QED BY <1>4, <2>1, QuietStep, RequestTyped DEF CountFailure, OnASession, Request, Steps
<1>5. CASE OpenSession(w)
  <2>1. KeepsSessions /\ Jtis' = 1..(Len(sessions) + 1)
    BY <1>5, OpensOne DEF OpenSession, SignInTypeOK, Served
  <2>2. /\ visit' = [visit EXCEPT ![w] = rec]
        /\ rec = [visit[w] EXCEPT !.at = "issuing", !.jti = Len(sessions) + 1]
    BY <1>5 DEF OpenSession, SignInTypeOK
  <2> HIDE DEF rec
  <2>3. Len(sessions) \in Nat
    BY LenProperties DEF SignInTypeOK
  <2>4. rec \in Served /\ rec.at = "issuing" /\ rec.jti \in Jtis'
    <3> DEFINE n == Len(sessions) + 1
    <3>1. n \in Jtis' /\ n \in Nat
      BY <2>1, <2>3
    <3>2. rec = [visit[w] EXCEPT !.at = "issuing", !.jti = n]
      BY <2>2
    <3> HIDE DEF n
    <3> QED BY <1>0, <3>1, <3>2 DEF Served, Steps
  <2>5. Serves(w) /\ KeepsAccount
    BY <1>5, <2>2, <2>4 DEF Serves, SignInTypeOK, KeepsAccount, OpenSession
  <2> QED BY <1>5, <2>1, <2>4, <2>5 DEF rec, StepOf, OpenSession, Clears
<1>6. CASE IssueTokens(w)
  <2> DEFINE j == visit[w].jti
             s == [sessions[j] EXCEPT !.access = account.version,
                     !.token = IF At(w, {"issuing"}) THEN account.version ELSE @]
  <2>1. j \in Jtis /\ sessions' = [sessions EXCEPT ![j] = s]
    BY <1>6 DEF IssueTokens, SignInTypeOK, At, OnASession
  <2>2. sessions[j] \in Session
    BY <2>1, ElementOfSeq DEF SignInTypeOK, Jtis
  <2>3. s \in Session /\ s.rotated = sessions[j].rotated /\ s.heirs = sessions[j].heirs
    BY <2>2 DEF Session, SignInTypeOK
  <2>4. KeepsSessions
    <3> HIDE DEF s, j
    <3> QED BY <2>1, <2>3, WritesOne
  <2>5. visit' = [visit EXCEPT ![w] = Request("done")]
    BY <1>6 DEF IssueTokens, Finish
  <2>6. Serves(w) /\ KeepsAccount /\ visit'[w].at = "done"
    BY <1>6, <2>5, RequestTyped DEF Serves, KeepsAccount, SignInTypeOK, IssueTokens, OnASession,
                                  Request, Steps
  <2> QED BY <1>6, <2>4, <2>6 DEF StepOf, IssueTokens
<1> QED BY <1>1, <1>2, <1>3, <1>4, <1>5, <1>6

\* rotate_session spends one token and opens one session.
LEMMA RotatesOne ==
  ASSUME SignInAssumption, SignInTypeOK, NEW w \in Visits, RotateSession(w)
  PROVE  LET j == visit[w].jti IN
         /\ j \in Jtis /\ sessions' \in Seq(Session) /\ Jtis' = 1..(Len(sessions) + 1)
         /\ sessions'[j].rotated = now /\ sessions'[j].heirs = sessions[j].heirs + 1
         /\ \A i \in Jtis \ {j} : /\ sessions'[i].rotated = sessions[i].rotated
                                  /\ sessions'[i].heirs = sessions[i].heirs
         /\ \A i \in Jtis' \ Jtis : sessions'[i].rotated = Never /\ sessions'[i].heirs = 0
<1> DEFINE j == visit[w].jti
           spent == [sessions[j] EXCEPT !.rotated = now, !.heirs = @ + 1]
           rows == [sessions EXCEPT ![j] = spent]
           e == NewSession(sessions[j].pw)
<1>1. j \in Jtis /\ sessions' = Append(rows, e)
  BY DEF RotateSession, SignInTypeOK, At, OnASession
<1>2. sessions[j] \in Session
  BY <1>1, ElementOfSeq DEF SignInTypeOK, Jtis
<1>3. spent \in Session /\ spent.rotated = now /\ spent.heirs = sessions[j].heirs + 1
  <2> DEFINE old == sessions[j]
             one == old.heirs + 1
  <2>1. old \in Session /\ now \in Nat /\ one \in Nat
    <3>1. old \in Session /\ now \in Nat
      BY <1>2 DEF SignInTypeOK
    <3> HIDE DEF old
    <3>2. old.heirs \in Nat
      BY <3>1 DEF Session
    <3> QED BY <3>1, <3>2
  <2>2. spent = [old EXCEPT !.rotated = now, !.heirs = one]
    OBVIOUS
  <2> HIDE DEF old, one, spent
  <2>3. spent \in Session /\ spent.rotated = now /\ spent.heirs = one
    BY <2>1, <2>2 DEF Session
  <2> QED BY <2>3 DEF old, one
<1>4. e \in Session /\ e.rotated = Never /\ e.heirs = 0
  <2>1. now + SessionLife \in Nat
    BY DEF SignInTypeOK, SignInAssumption
  <2>2. sessions[j].pw \in Nat
    <3> DEFINE old == sessions[j]
    <3>1. old \in Session
      BY <1>2
    <3> HIDE DEF old
    <3>2. old.pw \in Nat
      BY <3>1 DEF Session
    <3> QED BY <3>2 DEF old
  <2> QED BY <2>1, <2>2 DEF NewSession, Session, Never, Undelivered
<1> HIDE DEF spent, e, j
<1>5. /\ rows \in Seq(Session) /\ Len(rows) = Len(sessions)
      /\ \A i \in 1..Len(sessions) : rows[i] = IF i = j THEN spent ELSE sessions[i]
  BY <1>1, <1>3, ExceptSeq DEF SignInTypeOK, Jtis
<1> HIDE DEF rows
<1>6. /\ sessions' \in Seq(Session) /\ Len(sessions') = Len(sessions) + 1
      /\ sessions'[Len(sessions) + 1] = e
      /\ \A i \in 1..Len(sessions) : sessions'[i] = rows[i]
  BY <1>1, <1>4, <1>5, OneMoreRow
<1>7. Len(sessions) \in Nat
  BY LenProperties DEF SignInTypeOK
<1>8. Jtis' = 1..(Len(sessions) + 1) /\ \A i \in Jtis' \ Jtis : i = Len(sessions) + 1
  BY <1>6, <1>7 DEF Jtis
<1>9. \A i \in Jtis : sessions'[i] = IF i = j THEN spent ELSE sessions[i]
  BY <1>5, <1>6 DEF Jtis
<1> QED BY <1>1, <1>3, <1>4, <1>6, <1>8, <1>9 DEF j

LEMMA RefreshSteps ==
  ASSUME SignInAssumption, SignInTypeOK, NEW w \in Visits,
         \/ \E j \in Jtis : BeginRefresh(w, j) \/ RevokeSession(w, j)
         \/ LockSession(w) \/ RotateSession(w) \/ EndAllSessions(w) \/ AbortDeadlock(w)
  PROVE  StepOf(w)
<1> DEFINE rec == visit'[w]
<1>0. visit[w] \in Served /\ Unrevoked \subseteq Nat
  BY DEF SignInTypeOK, Unrevoked, Jtis
<1>1. ASSUME NEW j \in Jtis, BeginRefresh(w, j) PROVE StepOf(w)
  <2>1. /\ visit' = [visit EXCEPT ![w] = rec]
        /\ rec = [visit[w] EXCEPT !.at = "refreshing", !.jti = j]
    BY <1>1 DEF BeginRefresh, SignInTypeOK
  <2> HIDE DEF rec
  <2>2. rec \in Served /\ rec.at = "refreshing" /\ rec.jti \in Jtis
    <3>1. j \in Nat
      BY DEF Jtis
    <3> QED BY <1>0, <2>1, <3>1 DEF Served, Steps
  <2> QED BY <1>1, <2>1, <2>2, QuietStep DEF BeginRefresh, OnASession
<1>2. ASSUME visit' = [visit EXCEPT ![w] = Request("done")], UNCHANGED <<account, attempts, now, wrong>>,
             KeepsSessions
      PROVE  StepOf(w)
  <2>1. Serves(w) /\ KeepsAccount /\ visit'[w].at = "done"
    BY <1>2, RequestTyped DEF Serves, KeepsAccount, SignInTypeOK, OnASession, Request, Steps
  <2> QED BY <1>2, <2>1 DEF StepOf
<1>3. ASSUME NEW j \in Jtis, RevokeSession(w, j) PROVE StepOf(w)
  <2> DEFINE s == [sessions[j] EXCEPT !.revoked = now]
  <2>1. sessions' = [sessions EXCEPT ![j] = s]
    BY <1>3 DEF RevokeSession
  <2>2. sessions[j] \in Session
    BY ElementOfSeq DEF SignInTypeOK, Jtis
  <2>3. s \in Session /\ s.rotated = sessions[j].rotated /\ s.heirs = sessions[j].heirs
    BY <2>2 DEF Session, SignInTypeOK
  <2> HIDE DEF s
  <2>4. KeepsSessions
    BY <2>1, <2>3, WritesOne
  <2> QED BY <1>2, <1>3, <2>4 DEF RevokeSession, Finish
<1>4. CASE LockSession(w)
  <2>1. /\ visit' = [visit EXCEPT ![w] = rec]
        /\ \E at \in {"ending", "granting", "rotating"}, seen \in {Unrevoked, {}} :
              rec = [visit[w] EXCEPT !.at = at, !.seen = seen]
    BY <1>4 DEF LockSession, SignInTypeOK
  <2> HIDE DEF rec
  <2>2. rec \in Served /\ rec.at \in {"ending", "granting", "rotating"} /\ rec.jti = visit[w].jti
    <3>1. PICK at \in {"ending", "granting", "rotating"}, seen \in {Unrevoked, {}} :
            rec = [visit[w] EXCEPT !.at = at, !.seen = seen]
      BY <2>1
    <3>2. seen \in SUBSET Nat /\ at \in Steps
      BY <1>0 DEF Steps
    <3> QED BY <1>0, <3>1, <3>2 DEF Served
  <2>3. visit[w].jti \in Jtis
    BY <1>4 DEF LockSession, SignInTypeOK, At, OnASession
  <2> QED BY <1>4, <2>1, <2>2, <2>3, QuietStep DEF LockSession
<1>5. CASE RotateSession(w)
  <2>1. /\ visit' = [visit EXCEPT ![w] = rec]
        /\ rec = [visit[w] EXCEPT !.at = "issuing", !.jti = Len(sessions) + 1]
    BY <1>5 DEF RotateSession, SignInTypeOK
  <2> HIDE DEF rec
  <2>2. rec \in Served /\ rec.at = "issuing" /\ rec.jti \in Jtis'
    <3> DEFINE n == Len(sessions) + 1
    <3>1. n \in Nat
      BY LenProperties DEF SignInTypeOK
    <3>2. rec = [visit[w] EXCEPT !.at = "issuing", !.jti = n]
      BY <2>1
    <3>3. Jtis' = 1..n /\ n \in 1..n
      BY <1>5, <3>1, RotatesOne
    <3> HIDE DEF n
    <3> QED BY <1>0, <3>1, <3>2, <3>3 DEF Served, Steps
  <2>3. Serves(w) /\ KeepsAccount
    BY <1>5, <2>1, <2>2 DEF Serves, SignInTypeOK, KeepsAccount, RotateSession
  <2> QED BY <1>5, <2>2, <2>3 DEF rec, StepOf, RotateSession
<1>6. CASE EndAllSessions(w)
  <2>1. KeepsSessions
    BY <1>6, RevokedRows DEF EndAllSessions, KeepsSessions, Jtis
  <2> QED BY <1>2, <1>6, <2>1 DEF EndAllSessions, Finish
<1>7. CASE AbortDeadlock(w)
  <2>1. KeepsSessions
    BY <1>7 DEF AbortDeadlock, KeepsSessions, Jtis, SignInTypeOK
  <2> QED BY <1>2, <1>7, <2>1 DEF AbortDeadlock, Finish
<1> QED BY <1>1, <1>3, <1>4, <1>5, <1>6, <1>7

LEMMA PasswordSteps ==
  ASSUME SignInAssumption, SignInTypeOK, NEW w \in Visits,
         \/ BeginChange(w) \/ BeginReset(w) \/ LookForSessions(w) \/ RevokeRows(w)
         \/ CommitPassword(w)
         \/ SetActive(w) \/ Unlock(w)
  PROVE  StepOf(w)
<1> DEFINE rec == visit'[w]
<1>0. /\ visit[w] \in Served /\ Unrevoked \subseteq Nat
      /\ account.version \in Nat /\ account.password \in Nat
  BY DEF SignInTypeOK, Unrevoked, Jtis
<1>1. CASE BeginChange(w) \/ BeginReset(w)
  <2>1. /\ visit' = [visit EXCEPT ![w] = rec] /\ UNCHANGED <<account, attempts, sessions, now, wrong>>
        /\ rec = [visit[w] EXCEPT !.at = "hashing", !.version = account.version]
    BY <1>1 DEF BeginChange, BeginReset, SignInTypeOK
  <2> HIDE DEF rec
  <2>2. rec \in Served /\ rec.at = "hashing"
    BY <1>0, <2>1 DEF Served, Steps
  <2> QED BY <2>1, <2>2, QuietStep DEF OnASession
<1>2. CASE LookForSessions(w) \/ RevokeRows(w)
  <2>1. /\ visit' = [visit EXCEPT ![w] = rec] /\ UNCHANGED <<account, attempts, sessions, now, wrong>>
        /\ \E at \in {"revoking", "holding"}, seen \in SUBSET (Unrevoked \cup visit[w].seen) :
              rec = [visit[w] EXCEPT !.at = at, !.seen = seen]
    BY <1>2 DEF LookForSessions, RevokeRows, SignInTypeOK
  <2> HIDE DEF rec
  <2>2. rec \in Served /\ rec.at \in {"revoking", "holding"}
    <3>1. PICK at \in {"revoking", "holding"}, seen \in SUBSET (Unrevoked \cup visit[w].seen) :
            rec = [visit[w] EXCEPT !.at = at, !.seen = seen]
      BY <2>1
    <3>2. seen \in SUBSET Nat /\ at \in Steps
      BY <1>0 DEF Steps, Served
    <3> QED BY <1>0, <3>1, <3>2 DEF Served
  <2> QED BY <2>1, <2>2, QuietStep DEF OnASession
<1>3. CASE CommitPassword(w)
  <2> DEFINE pw == account.password + 1
             n == Len(sessions) + 1
  <2>1. /\ account' = [account EXCEPT !.password = pw, !.version = visit[w].version + 1,
                                      !.mustChange = ~(KindOf(w) = "change")]
        /\ UNCHANGED <<attempts, now, wrong>>
    BY <1>3 DEF CommitPassword
  <2>2. pw \in Nat /\ visit[w].version + 1 \in Nat
    BY <1>0 DEF Served
  <2>3. n \in Nat
    BY LenProperties DEF SignInTypeOK
  <2>4. KeepsAccount
    <3> HIDE DEF pw
    <3> QED BY <2>1, <2>2 DEF KeepsAccount, SignInTypeOK
  <2>5. CASE KindOf(w) = "change"
    <3>1. /\ sessions' = Append(Revoked(w), NewSession(pw))
          /\ visit' = [visit EXCEPT ![w] = [Request("issuing") EXCEPT !.jti = n]]
      BY <1>3, <2>5 DEF CommitPassword
    <3> HIDE DEF pw
    <3>2. KeepsSessions /\ Jtis' = 1..n
      BY <2>2, <3>1, RevokedRows, OpensOne
    <3>3. n \in Jtis'
      BY <2>3, <3>2
    <3> HIDE DEF n
    <3>4. Serves(w) /\ visit'[w].at = "issuing"
      BY <2>3, <3>1, <3>3 DEF Serves, SignInTypeOK, Request, Served, Steps
    <3> QED BY <2>1, <2>4, <3>2, <3>4 DEF StepOf
  <2>6. CASE KindOf(w) # "change"
    <3>1. sessions' = Revoked(w) /\ visit' = [visit EXCEPT ![w] = Request("done")]
      BY <1>3, <2>6 DEF CommitPassword
    <3>2. KeepsSessions
      BY <3>1, RevokedRows DEF KeepsSessions, Jtis
    <3>3. Serves(w) /\ visit'[w].at = "done"
      BY <3>1, RequestTyped DEF Serves, SignInTypeOK, OnASession, Request, Steps
    <3> QED BY <2>1, <2>4, <3>2, <3>3 DEF StepOf
  <2> QED BY <2>5, <2>6
<1>4. CASE SetActive(w) \/ Unlock(w)
  <2>1. visit' = [visit EXCEPT ![w] = Request("done")]
    BY <1>4 DEF SetActive, Unlock, Finish
  <2>2. UNCHANGED sessions /\ UNCHANGED now /\ (UNCHANGED <<attempts, wrong>> \/ Clears(w))
    BY <1>4 DEF SetActive, Unlock, Clears
  <2>3. KeepsAccount
    BY <1>4 DEF SetActive, Unlock, SignInTypeOK, KeepsAccount
  <2>4. Serves(w) /\ visit'[w].at = "done"
    BY <2>1, <2>2, RequestTyped DEF Serves, SignInTypeOK, OnASession, Request, Steps
  <2>5. KeepsSessions
    BY <2>2 DEF KeepsSessions, Jtis, SignInTypeOK
  <2> QED BY <2>2, <2>3, <2>4, <2>5 DEF StepOf
<1> QED BY <1>1, <1>2, <1>3, <1>4

LEMMA ServeSteps ==
  ASSUME SignInAssumption, SignInTypeOK, NEW w \in Visits, Serve(w)
  PROVE  StepOf(w)
BY LoginSteps, RefreshSteps, PasswordSteps DEF Serve

\* Rows that are purged keep who inherited from them.
LEMMA PurgeSteps ==
  ASSUME SignInTypeOK, PurgeDeadSessions
  PROVE  KeepsSessions /\ Jtis' = Jtis
<1>1. \A j \in Jtis : sessions[j] \in Session
  BY ElementOfSeq DEF SignInTypeOK, Jtis
<1>2. sessions' = [j \in Jtis |-> IF Dead(sessions[j]) THEN [sessions[j] EXCEPT !.row = FALSE]
                                  ELSE sessions[j]]
  BY DEF PurgeDeadSessions
<1>3. ASSUME NEW j \in Jtis
      PROVE  /\ sessions'[j] \in Session
             /\ sessions'[j].rotated = sessions[j].rotated
             /\ sessions'[j].heirs = sessions[j].heirs
  <2> DEFINE s == sessions[j]
  <2>1. s \in Session /\ (sessions'[j] = s \/ sessions'[j] = [s EXCEPT !.row = FALSE])
    BY <1>1, <1>2
  <2> HIDE DEF s
  <2>2. sessions'[j] \in Session /\ sessions'[j].rotated = s.rotated /\ sessions'[j].heirs = s.heirs
    BY <2>1 DEF Session
  <2> QED BY <2>2 DEF s
<1>4. sessions' \in [1..Len(sessions) -> Session]
  BY <1>2, <1>3 DEF Jtis
<1>5. sessions' \in Seq(Session) /\ Len(sessions') = Len(sessions)
  BY <1>4, RewrittenRows DEF SignInTypeOK
<1> QED BY <1>3, <1>5 DEF KeepsSessions, Jtis

----------------------------------------------------------------------------
(* The invariant.                                                          *)

LEMMA InitSignIn == ASSUME SignInAssumption, SignInInit PROVE SignInInv
<1> USE DEF SignInInit
<1>1. \A w \in Visits : visit[w].at \in {"idle", "done"} /\ visit[w] \in Served
  BY DEF Request, Served, Steps
<1> DEFINE s == [NewSession(1) EXCEPT !.token = 1, !.access = 1]
<1>2. s \in Session /\ s.rotated = Never /\ s.heirs = 0
  <2>1. now + SessionLife \in Nat
    BY DEF SignInAssumption
  <2> QED BY <2>1 DEF NewSession, Session, Never, Undelivered
<1> HIDE DEF s
<1>3. sessions = [j \in 1..Devices |-> s]
  BY DEF s
<1>4. sessions \in Seq(Session)
  <2>1. Devices \in Nat /\ sessions \in [1..Devices -> Session]
    BY <1>2, <1>3 DEF SignInAssumption
  <2> QED BY <2>1, SeqDef
<1>5. \A j \in Jtis : sessions[j] = s
  <2>1. DOMAIN sessions = Jtis
    BY <1>4, LenProperties DEF Jtis
  <2> QED BY <1>3, <2>1
<1>6. SignInTypeOK
  BY <1>1, <1>4 DEF SignInTypeOK, Attempts, Unseen, Never, At, OnASession
<1>7. CountInv
  BY <1>1 DEF CountInv, Unseen, At
<1>8. HeirInv
  <2>1. \A w \in Visits : ~At(w, {"rotating"})
    BY <1>1 DEF At
  <2>2. \A j \in Jtis : sessions[j].heirs = 0
    BY <1>2, <1>5
  <2> HIDE DEF SignInInit
  <2>3. ASSUME NEW j \in Jtis PROVE sessions[j].heirs <= 1
    BY <2>2
  <2> QED BY <2>1, <2>2, <2>3 DEF HeirInv
<1> QED BY <1>6, <1>7, <1>8 DEF SignInInv

LEMMA SignInTypesStep ==
  ASSUME SignInAssumption, SignInTypeOK, [SignInNext]_signInVars
  PROVE  SignInTypeOK'
<1>1. CASE UNCHANGED signInVars
  BY <1>1 DEF signInVars, SignInTypeOK, Jtis, At
<1>2. ASSUME NEW w \in Visits, Serve(w) PROVE SignInTypeOK'
  <2>1. StepOf(w)
    BY <1>2, ServeSteps
  <2>2. sessions' \in Seq(Session) /\ Jtis \subseteq Jtis'
    <3>1. CASE KeepsSessions
      BY <3>1 DEF KeepsSessions
    <3>2. CASE RotateSession(w)
      <4>1. sessions' \in Seq(Session) /\ Jtis' = 1..(Len(sessions) + 1) /\ Len(sessions) \in Nat
        BY <3>2, RotatesOne, LenProperties DEF SignInTypeOK
      <4> QED BY <4>1 DEF Jtis
    <3> QED BY <2>1, <3>1, <3>2 DEF StepOf
  <2>3. attempts' \in Attempts /\ wrong' \in Nat
    <3>1. CASE UNCHANGED <<attempts, wrong>>
      BY <3>1 DEF SignInTypeOK
    <3>2. CASE Clears(w)
      BY <3>2 DEF Clears, Unseen, Attempts, Never
    <3>3. CASE CountFailure(w)
      <4>0. visit[w] \in Served /\ attempts \in Attempts /\ now \in Nat /\ Lockout \in Nat
        BY DEF SignInTypeOK, SignInAssumption
      <4>1. visit[w].failed + 1 \in Nat /\ now \in Nat /\ now + Lockout \in Nat
            /\ attempts.until \in Nat
        BY <4>0 DEF Served, Attempts
      <4>2. attempts' \in Attempts
        BY <3>3, <4>1 DEF CountFailure, Attempts, Never
      <4>3. Restarted(w) \in Nat
        BY DEF Restarted, SignInTypeOK
      <4> QED BY <3>3, <4>2, <4>3 DEF CountFailure
    <3> QED BY <2>1, <3>1, <3>2, <3>3 DEF StepOf
  <2>4. \A v \in Visits : At(v, OnASession)' => visit'[v].jti \in Jtis'
    BY <2>1, <2>2 DEF StepOf, Serves, SignInTypeOK, At
  <2> QED BY <2>1, <2>2, <2>3, <2>4 DEF StepOf, Serves, KeepsAccount, SignInTypeOK
<1>3. CASE PurgeStale \/ Tick
  BY <1>3 DEF PurgeStale, Tick, SignInTypeOK, Unseen, Attempts, Never, Jtis, At
<1>4. CASE PurgeDeadSessions
  BY <1>4, PurgeSteps DEF PurgeDeadSessions, KeepsSessions, SignInTypeOK, At
<1> QED BY <1>1, <1>2, <1>3, <1>4 DEF SignInNext

\* Only the one who has locked the attempts writes them, with what it read.
LEMMA CountStep ==
  ASSUME SignInAssumption, SignInInv, [SignInNext]_signInVars
  PROVE  CountInv'
<1> USE DEF SignInInv
<1>1. CASE UNCHANGED signInVars
  BY <1>1 DEF signInVars, CountInv, At, Restarted
<1>2. ASSUME NEW w \in Visits, Serve(w) PROVE CountInv'
  <2>1. StepOf(w)
    BY <1>2, ServeSteps
  <2>2. /\ UNCHANGED now
        /\ \A v \in Visits \ {w} : visit'[v] = visit[v]
    BY <2>1 DEF StepOf, Serves
  <2>3. CASE visit'[w].at = "counting"
    <3>1. LockAttempts(w)
      BY <2>1, <2>3 DEF StepOf
    <3>2. UNCHANGED <<attempts, wrong>> /\ \A v \in Visits \ {w} : ~At(v, {"counting"})
      BY <3>1 DEF LockAttempts, CountLocked, RowFree
    <3>3. visit'[w].failed = Restarted(w)'
      <4>1. visit[w] \in Served /\ w \in DOMAIN visit
        BY DEF SignInTypeOK
      <4>2. visit'[w].failed = IF attempts.last + AttemptWindow < now THEN 0 ELSE attempts.failed
        BY <3>1, <4>1 DEF LockAttempts, Served
      <4> QED BY <2>2, <3>2, <4>2 DEF Restarted, CountInv
    <3> QED BY <2>2, <3>2, <3>3 DEF CountInv, At
  <2>4. CASE visit'[w].at # "counting"
    <3>1. \A v \in Visits : At(v, {"counting"})' => v # w /\ At(v, {"counting"})
                                                     /\ visit'[v] = visit[v]
      BY <2>2, <2>4 DEF At
    <3>2. CASE UNCHANGED <<attempts, wrong>>
      BY <2>2, <3>1, <3>2 DEF CountInv, Restarted
    <3>3. CASE Clears(w)
      <4>1. \A v \in Visits : ~At(v, {"counting"})'
        BY <3>1, <3>3 DEF Clears, CountLocked, RowFree
      <4> QED BY <3>3, <4>1 DEF Clears, CountInv, Unseen
    <3>4. CASE CountFailure(w)
      <4>1. At(w, {"counting"}) /\ visit[w].failed = Restarted(w)
        BY <3>4 DEF CountFailure, CountInv
      <4>2. \A v \in Visits : ~At(v, {"counting"})'
        BY <3>1, <4>1 DEF CountInv
      <4>3. attempts'.failed = wrong'
        BY <3>4, <4>1 DEF CountFailure
      <4> QED BY <4>2, <4>3 DEF CountInv
    <3> QED BY <2>1, <3>2, <3>3, <3>4 DEF StepOf
  <2> QED BY <2>3, <2>4
<1>3. CASE PurgeStale
  <2>1. \A v \in Visits : ~At(v, {"counting"})'
    BY <1>3 DEF PurgeStale, At
  <2> QED BY <1>3, <2>1 DEF PurgeStale, CountInv, Unseen
<1>4. CASE Tick
  <2>1. \A v \in Visits : ~At(v, {"counting"})'
    BY <1>4 DEF Tick, At
  <2> QED BY <1>4, <2>1 DEF Tick, CountInv
<1>5. CASE PurgeDeadSessions
  BY <1>5 DEF PurgeDeadSessions, CountInv, At, Restarted
<1> QED BY <1>1, <1>2, <1>3, <1>4, <1>5 DEF SignInNext

\* Only the one who has locked a session as not yet rotated rotates it.
LEMMA HeirStep ==
  ASSUME SignInAssumption, SignInInv, [SignInNext]_signInVars
  PROVE  HeirInv'
<1> USE DEF SignInInv
<1> DEFINE Alone(v) == At(v, {"rotating"}) /\ visit[v].jti \in Jtis
                       /\ sessions[visit[v].jti].rotated = Never
<1>1. \A v \in Visits : At(v, {"rotating"}) => Alone(v)
  BY DEF SignInTypeOK, HeirInv, At, OnASession
<1>2. ASSUME KeepsSessions, UNCHANGED visit PROVE HeirInv'
  BY <1>1, <1>2 DEF KeepsSessions, HeirInv, At
<1>3. CASE UNCHANGED signInVars
  BY <1>3 DEF signInVars, HeirInv, At, Jtis
<1>4. ASSUME NEW w \in Visits, Serve(w) PROVE HeirInv'
  <2>1. StepOf(w)
    BY <1>4, ServeSteps
  <2>2. \A v \in Visits \ {w} : visit'[v] = visit[v]
    BY <2>1 DEF StepOf, Serves
  <2>3. CASE RotateSession(w)
    <3> DEFINE j == visit[w].jti
    <3>1. At(w, {"rotating"}) /\ j \in Jtis /\ sessions[j].rotated = Never /\ sessions[j].heirs = 0
      BY <1>1, <2>3 DEF RotateSession, HeirInv
    <3>2. visit'[w].at = "issuing"
      BY <2>3 DEF RotateSession, SignInTypeOK, Served
    <3>3. /\ sessions'[j].rotated = now /\ sessions'[j].heirs = sessions[j].heirs + 1
          /\ \A i \in Jtis \ {j} : /\ sessions'[i].rotated = sessions[i].rotated
                                   /\ sessions'[i].heirs = sessions[i].heirs
          /\ \A i \in Jtis' \ Jtis : sessions'[i].rotated = Never /\ sessions'[i].heirs = 0
      BY <2>3, RotatesOne
    <3>4. now # Never
      BY DEF SignInTypeOK, Never
    <3>5. \A v \in Visits : At(v, {"rotating"})' =>
            /\ v # w /\ At(v, {"rotating"}) /\ visit'[v] = visit[v]
            /\ visit[v].jti \in Jtis \ {j}
      BY <1>1, <2>2, <3>1, <3>2 DEF At, HeirInv
    <3> HIDE DEF j
    <3>6. \A i \in Jtis' : sessions'[i].heirs <= 1
                           /\ (sessions'[i].rotated = Never => sessions'[i].heirs = 0)
      BY <3>1, <3>3, <3>4 DEF HeirInv
    <3> QED BY <3>3, <3>5, <3>6 DEF HeirInv, At
  <2>4. CASE ~RotateSession(w)
    <3>1. KeepsSessions
      BY <2>1, <2>4 DEF StepOf
    <3>2. \A i \in Jtis' : sessions'[i].heirs <= 1
                           /\ (sessions'[i].rotated = Never => sessions'[i].heirs = 0)
      BY <3>1 DEF KeepsSessions, HeirInv
    <3>3. CASE visit'[w].at # "rotating"
      <4>1. \A v \in Visits : At(v, {"rotating"})' =>
              Alone(v) /\ visit'[v] = visit[v]
        BY <1>1, <2>2, <3>3 DEF At
      <4> QED BY <3>1, <3>2, <4>1 DEF KeepsSessions, HeirInv, At
    <3>4. CASE visit'[w].at = "rotating"
      <4>1. LockSession(w)
        BY <2>1, <3>4 DEF StepOf
      <4> DEFINE j == visit[w].jti
      <4>2. visit[w] \in Served /\ j \in Jtis /\ UNCHANGED sessions
        BY <4>1 DEF LockSession, SignInTypeOK, At, OnASession
      <4>3. visit'[w].jti = j /\ sessions[j].rotated = Never
        BY <3>4, <4>1, <4>2 DEF LockSession, SignInTypeOK, Served
      <4>4. \A v \in Visits \ {w} : At(v, {"rotating"}) => Alone(v) /\ visit[v].jti # j
        BY <1>1, <4>1 DEF LockSession, SessionLocked, LockedRows, At
      <4> HIDE DEF j
      <4> QED BY <2>2, <3>2, <4>2, <4>3, <4>4 DEF HeirInv, At
    <3> QED BY <3>3, <3>4
  <2> QED BY <2>3, <2>4
<1>5. CASE PurgeStale \/ Tick
  BY <1>5 DEF PurgeStale, Tick, HeirInv, At, Jtis
<1>6. CASE PurgeDeadSessions
  BY <1>2, <1>6, PurgeSteps DEF PurgeDeadSessions
<1> QED BY <1>3, <1>4, <1>5, <1>6 DEF SignInNext

LEMMA SignInInvHolds == ASSUME SignInAssumption PROVE SignInSpec => []SignInInv
<1>1. SignInInit => SignInInv
  BY InitSignIn
<1>2. SignInInv /\ [SignInNext]_signInVars => SignInInv'
  BY SignInTypesStep, CountStep, HeirStep DEF SignInInv
<1> QED BY <1>1, <1>2, PTL DEF SignInSpec

\* Two wrong passwords counted at the same time both count, and a count begun
\* before a success, an unlock, a purge or the end of the window does not come
\* back after it (record_failure).
THEOREM EveryFailureCounts == ASSUME SignInAssumption PROVE SignInSpec => []FailuresAreCounted
<1>1. SignInInv => FailuresAreCounted
  BY DEF SignInInv, CountInv, FailuresAreCounted
<1> QED BY <1>1, SignInInvHolds, PTL

\* However many requests present one refresh token at once, one of them
\* rotates its session and the others find it rotated (rotate_session).
THEOREM TokensHaveOneHeir == ASSUME SignInAssumption PROVE SignInSpec => []OneHeirPerToken
<1>1. SignInInv => OneHeirPerToken
  BY DEF SignInInv, HeirInv, OneHeirPerToken
<1> QED BY <1>1, SignInInvHolds, PTL

-----------------------------------------------------------------------------
(* Permissions.  What is written was decided, so the guard on oneself must *)
(* hold of the decisions that wait as well.  A change of role or an        *)
(* administrator made at the start of a process writes rows in nobody's    *)
(* name, and nobody has no account.                                        *)

\* A request that waits to write is about accounts, and if it is about the
\* account that asked, it adds nothing.
DecidedForOthers ==
  /\ DOMAIN deciding = AdminRequests \cup ProcessStarts
  /\ \A r \in AdminRequests \cup ProcessStarts :
       /\ deciding[r].what \in {"grant", "update"} => deciding[r].of \in UserAccounts
       /\ deciding[r].what = "grant" /\ deciding[r].by = deciding[r].of => deciding[r].add = {}

GrantInv == RightsComeFromOthers /\ DecidedForOthers

LEMMA InitGrants == ASSUME AdministrationAssumption, AdminInit PROVE GrantInv
<1>1. RightsComeFromOthers
  BY DEF AdminInit, RightsComeFromOthers, Row, AdministrationAssumption
<1>2. DecidedForOthers
  BY DEF AdminInit, DecidedForOthers
<1> QED BY <1>1, <1>2 DEF GrantInv

\* The permissions of the role hr, and those of an administrator made at the
\* start, are in nobody's name.
LEMMA InNobodysName ==
  ASSUME AdministrationAssumption, NEW u \in UserAccounts, NEW c, NEW by, by = NoGrantor
  PROVE  Row(u, c, by).by # Row(u, c, by).user
BY DEF Row, AdministrationAssumption

LEMMA DefaultsKeepOthers ==
  ASSUME AdministrationAssumption, RightsComeFromOthers, NEW u \in UserAccounts
  PROVE  \A g \in WithDefaults(u) : g.by # g.user
BY InNobodysName DEF WithDefaults, RightsComeFromOthers

\* A decision that is done waits for nothing.
LEMMA DoneKeepsDecisions ==
  ASSUME DecidedForOthers, NEW r \in AdminRequests \cup ProcessStarts, Decided(r)
  PROVE  DecidedForOthers'
BY DEF DecidedForOthers, Decided

LEMMA GrantStep ==
  ASSUME AdministrationAssumption, GrantInv, NEW r \in AdminRequests, Handle(r)
  PROVE  GrantInv'
<1> USE DEF GrantInv
<1>1. ASSUME NEW a \in UserAccounts, NEW u \in UserAccounts, NEW desired \in SUBSET Capability,
             DecideGrant(r, a, u, desired)
      PROVE  GrantInv'
  <2>1. DecidedForOthers'
    BY <1>1 DEF DecideGrant, Decide, DecidedForOthers, OthersOnly
  <2> QED BY <1>1, <2>1 DEF DecideGrant, RightsComeFromOthers
<1>2. ASSUME NEW a \in UserAccounts, NEW u \in UserAccounts, NEW role \in AccountRoles, CreateAccount(r, a, u, role)
      PROVE  GrantInv'
  <2>1. RightsComeFromOthers'
    BY <1>2, DefaultsKeepOthers DEF CreateAccount, RightsComeFromOthers
  <2> QED BY <1>2, <2>1, DoneKeepsDecisions DEF CreateAccount
<1>3. ASSUME NEW a \in UserAccounts, NEW u \in UserAccounts, NEW role \in AccountRoles, NEW active \in BOOLEAN,
             DecideUpdate(r, a, u, role, active)
      PROVE  GrantInv'
  <2>1. DecidedForOthers'
    BY <1>3 DEF DecideUpdate, Decide, DecidedForOthers
  <2> QED BY <1>3, <2>1 DEF DecideUpdate, RightsComeFromOthers
<1>4. ASSUME NEW a \in UserAccounts, NEW u \in UserAccounts, DecideDelete(r, a, u) PROVE GrantInv'
  <2>1. DecidedForOthers'
    BY <1>4 DEF DecideDelete, Decide, DecidedForOthers
  <2> QED BY <1>4, <2>1 DEF DecideDelete, RightsComeFromOthers
<1>5. CASE WriteGrant(r)
  <2> DEFINE q == deciding[r]
  <2>1. q.by = q.of => q.add = {}
    BY <1>5 DEF WriteGrant, DecidedForOthers
  <2>2. \A g \in grants' : g \in grants \/ \E c \in q.add : g = Row(q.of, c, q.by)
    BY <1>5 DEF WriteGrant
  <2>3. RightsComeFromOthers'
    BY <2>1, <2>2 DEF RightsComeFromOthers, Row
  <2> QED BY <1>5, <2>3, DoneKeepsDecisions DEF WriteGrant
<1>6. CASE WriteUpdate(r)
  <2>1. deciding[r].of \in UserAccounts
    BY <1>6 DEF WriteUpdate, DecidedForOthers
  <2>2. RightsComeFromOthers'
    BY <1>6, <2>1, DefaultsKeepOthers DEF WriteUpdate, RightsComeFromOthers
  <2> QED BY <1>6, <2>2, DoneKeepsDecisions DEF WriteUpdate
<1>7. CASE WriteDelete(r)
  <2>1. RightsComeFromOthers'
    BY <1>7 DEF WriteDelete, RightsComeFromOthers
  <2> QED BY <1>7, <2>1, DoneKeepsDecisions DEF WriteDelete
<1> QED BY <1>1, <1>2, <1>3, <1>4, <1>5, <1>6, <1>7 DEF Handle

\* A start of a process looks, and may make an account with every permission.
LEMMA StartStep ==
  ASSUME AdministrationAssumption, GrantInv, NEW p \in ProcessStarts, LookForGrantor(p) \/ BootAccount(p)
  PROVE  GrantInv'
<1> USE DEF GrantInv
<1>1. CASE LookForGrantor(p)
  <2>1. DecidedForOthers'
    BY <1>1 DEF LookForGrantor, Decided, Decide, DecidedForOthers
  <2> QED BY <1>1, <2>1 DEF LookForGrantor, RightsComeFromOthers
<1>2. CASE BootAccount(p)
  <2>1. PICK u \in UserAccounts : grants' = grants \cup {Row(u, c, NoGrantor) : c \in Capability}
    BY <1>2 DEF BootAccount, AdministrationAssumption
  <2>2. RightsComeFromOthers'
    BY <2>1, InNobodysName DEF RightsComeFromOthers
  <2> QED BY <1>2, <2>2, DoneKeepsDecisions DEF BootAccount
<1> QED BY <1>1, <1>2

\* An account holds the permissions it was installed with, those of its role
\* and what another account gave it; the guard of set_capabilities is enough
\* although the writing comes after other requests have committed.
THEOREM NobodyPromotesThemselves ==
  ASSUME AdministrationAssumption PROVE AdminSpec => []RightsComeFromOthers
<1>1. AdminInit => GrantInv
  BY InitGrants
<1>2. GrantInv /\ [AdminNext]_adminVars => GrantInv'
  <2>1. GrantInv /\ UNCHANGED adminVars => GrantInv'
    BY DEF adminVars, GrantInv, RightsComeFromOthers, DecidedForOthers
  <2> QED BY <2>1, GrantStep, StartStep DEF AdminNext
<1>3. GrantInv => RightsComeFromOthers
  BY DEF GrantInv
<1> QED BY <1>1, <1>2, <1>3, PTL DEF AdminSpec

-----------------------------------------------------------------------------
(* The tools of the assistant                                                *)

\* A card is of a tool of the registry.
CardOfATool == card # NoCard => card.tool \in Tools

ScreenInv == NoWiderThanTheScreen /\ CardOfATool

\* Who may open an evaluation may do the work of the first stage, whichever
\* seat is the scorer's.
LEMMA OpeningIsAStage ==
  ASSUME MayOpen
  PROVE  MayActAt(me.role, "unit_supervisor")
BY DEF MayOpen, MayActAt, SeatRole, ScorerSeat,
       Rank, IsCeoOnlyPath, IsManagerPath

\* A tool that runs is one the route of the same operation admits: where the
\* tool's declaration asks less than the route, the table of advance_evaluation
\* or the body of the endpoint asks the rest.
LEMMA ToolIsAdmitted ==
  ASSUME NEW t \in Tools, IsAllowed(t),
         t \in AdvanceTools => MayAdvance(t),
         Runs(t)
  PROVE  RouteAdmits(t)
<1> USE DEF InlineTools, AdvanceTools, StaffTools,
            PersonnelTools, UploadTools, UnitTools,
            ChainTools, InviteTools, AccountTools,
            RightsTools, IndicatorTools, SchemeTools,
            PeriodTools, PlanTools, GoalTools
<1>1. CASE t \in AdvanceTools
  <2>1. MayAdvance(t)
    BY <1>1
  <2>2. QED
    BY <1>1, <2>1 DEF MayAdvance, RouteAdmits
<1>2. CASE t = "create_evaluation"
  <2>1. OpenEvaluation
    BY <1>2 DEF Runs
  <2>2. MayActAt(me.role, "unit_supervisor")
    BY <2>1, OpeningIsAStage DEF OpenEvaluation
  <2>3. QED
    BY <1>2, <2>2 DEF RouteAdmits
<1>3. CASE t = "add_evaluation_comment"
  BY <1>3 DEF RouteAdmits
<1>4. CASE t \in StaffTools
  BY <1>4 DEF IsAllowed, Capabilities, RolesOf, RouteAdmits
<1>5. CASE t \in AccountTools \cup RightsTools
  BY <1>5 DEF IsAllowed, Capabilities, RolesOf, RouteAdmits
<1>6. CASE t \in IndicatorTools \cup SchemeTools
  BY <1>6 DEF IsAllowed, Capabilities, RolesOf, RouteAdmits
<1>7. CASE t \in PeriodTools \cup PlanTools
  BY <1>7 DEF IsAllowed, Capabilities, RolesOf, RouteAdmits
<1>8. CASE t \in GoalTools
  BY <1>8 DEF IsAllowed, Capabilities, RolesOf, RouteAdmits
<1> QED BY <1>1, <1>2, <1>3, <1>4, <1>5, <1>6, <1>7, <1>8 DEF Tools

\* Every step but a confirmation executes nothing, and no step writes a card
\* of anything but a tool.
LEMMA ScreenStep ==
  ASSUME ScreenInv, [ToolsNext]_toolsVars
  PROVE  ScreenInv'
<1>1. CASE Confirm
  <2>1. PICK t \in Tools :
           /\ card' = NoCard /\ UNCHANGED <<me, off>>
           /\ ran' = card /\ t = card.tool
           /\ IsAllowed(t) /\ ModuleOn(t) /\ Runs(t)
           /\ t \in AdvanceTools => MayAdvance(t)
    BY <1>1 DEF Confirm, ScreenInv, CardOfATool
  <2>2. RouteAdmits(t)
    BY <2>1, ToolIsAdmitted
  <2>3. ran'.tool = t
    BY <2>1
  <2>4. RouteAdmits(t)' /\ ModuleOn(t)'
    BY <2>1, <2>2 DEF RouteAdmits, ModuleOn
  <2>5. QED
    BY <2>1, <2>3, <2>4 DEF ScreenInv, CardOfATool, NoWiderThanTheScreen
<1>2. ASSUME NEW t \in Tools, ProposeCard(t)
      PROVE  ScreenInv'
  BY <1>2 DEF ProposeCard, ScreenInv, CardOfATool, NoWiderThanTheScreen
<1>3. CASE Discard
  BY <1>3 DEF Discard, ScreenInv, CardOfATool, NoWiderThanTheScreen
<1>4. CASE \/ GiveRights \/ SwitchWrites \/ ToggleModule
           \/ EditPerson \/ MoveRecord
  <2>1. card' = card /\ ran' = NoRun
    BY <1>4 DEF GiveRights, SwitchWrites, ToggleModule,
                EditPerson, MoveRecord, Elsewhere
  <2>2. QED
    BY <2>1 DEF ScreenInv, CardOfATool, NoWiderThanTheScreen
<1>5. CASE UNCHANGED toolsVars
  BY <1>5 DEF toolsVars, ScreenInv, CardOfATool, NoWiderThanTheScreen,
              RouteAdmits, ModuleOn
<1> QED BY <1>1, <1>2, <1>3, <1>4, <1>5 DEF ToolsNext

\* A tool never does for a user what the screen would have refused them,
\* whatever becomes of their role, their permissions and the switches between
\* the proposal and the confirmation (is_allowed, execute_tool).
THEOREM ToolsGoNoFurtherThanTheScreen ==
  ToolsSpec => []NoWiderThanTheScreen
<1>1. ToolsInit => ScreenInv
  BY DEF ToolsInit, ScreenInv, CardOfATool, NoWiderThanTheScreen
<1>2. ScreenInv /\ [ToolsNext]_toolsVars => ScreenInv'
  BY ScreenStep
<1>3. ScreenInv => NoWiderThanTheScreen
  BY DEF ScreenInv
<1> QED BY <1>1, <1>2, <1>3, PTL DEF ToolsSpec

=============================================================================
