----------------------------- MODULE UserProofs -----------------------------
(***************************************************************************)
(* What a user has: sessions (Sessions) and files (FileStore).             *)
(*                                                                         *)
(* Sessions, for every set of sessions and login requests and every bound: *)
(* the inductive invariant SessionsInv, and what follows from it.          *)
(*                                                                         *)
(* Files, for any number of files and deletion workers and for every       *)
(* combination of the faults: rows, intents and objects agree.  What makes *)
(* a step safe is the lock, as long as it lasts: the upload and every      *)
(* repair hold it, so at most one of them is at work on a file.  Without   *)
(* the lock only the pending intent decides, which the database changes    *)
(* once.                                                                   *)
(***************************************************************************)
EXTENDS Sessions, FileStore, TLAPS

-----------------------------------------------------------------------------
(* The inductive invariant.                                                *)

\* A login whose version is current verified the password now in place, and no lock
\* has been set since.
FreshLogin(l) == l.fresh => /\ l.password = credential.password
                            /\ credential.password # 0
                            /\ ~credential.locked

FreshLogins == \A a \in Attempt : FreshLogin(login[a])

\* An open session was opened with the password now in place.
OpenRow(row) == row.state = "open" => /\ row.password = credential.password
                                      /\ credential.password # 0

OpenSessions == \A s \in Session : OpenRow(session[s])

\* The history of a session that can still be refreshed lacks no superseded token.
KnownTokens(s) == session[s].state = "open" /\ ~session[s].expired =>
                     \A t \in Token : t # 0 /\ t < session[s].token => <<s, t>> \in history

HistoryComplete == \A s \in Session : KnownTokens(s)

\* A session that saw a replay exists.
ReplayedExist == \A s \in replayed : session[s].state # "absent"

\* What holds of sessions and of the logins in flight.
SessionsInv ==
    /\ TypeOK /\ FreshLogins /\ OpenSessions
    /\ HistoryComplete /\ ReplayedExist /\ ReplayRevokes

-----------------------------------------------------------------------------
(* Records.                                                                *)

\* Clearing a login's freshness keeps its type.
LEMMA StaleLogin ==
    ASSUME NEW l \in Login
    PROVE  /\ [l EXCEPT !.fresh = FALSE] \in Login
           /\ ~[l EXCEPT !.fresh = FALSE].fresh
BY DEF Login

\* Revoking a session keeps its type and everything but its state.
LEMMA RevokedRow ==
    ASSUME NEW row \in Row
    PROVE  /\ Revoked(row) \in Row
           /\ Revoked(row).state = "revoked"
           /\ Revoked(row).token = row.token
           /\ Revoked(row).expired <=> row.expired
BY DEF Row, Revoked

\* A bulk revocation changes open sessions of the given set only, and revokes these.
LEMMA BulkRevocation ==
    ASSUME TypeOK, NEW S, session' = RevokeIn(S)
    PROVE  /\ session' \in [Session -> Row]
           /\ \A s \in Session :
                 /\ session'[s].state = "open" => session'[s] = session[s] /\ s \notin S
                 /\ session[s].state # "open" => session'[s] = session[s]
                 /\ session'[s].state = "absent" <=> session[s].state = "absent"
                 /\ session'[s].token = session[s].token
                 /\ session'[s].expired <=> session[s].expired
  <1>1. ASSUME NEW s \in Session
        PROVE  /\ session'[s] \in Row
               /\ session'[s].state = "open" => session'[s] = session[s] /\ s \notin S
               /\ session[s].state # "open" => session'[s] = session[s]
               /\ session'[s].state = "absent" <=> session[s].state = "absent"
               /\ session'[s].token = session[s].token
               /\ session'[s].expired <=> session[s].expired
    <2>1. session[s] \in Row
      BY DEF TypeOK
    <2>2. session'[s] = IF s \in S /\ session[s].state = "open" THEN Revoked(session[s]) ELSE session[s]
      BY DEF RevokeIn
    <2>3. CASE s \in S /\ session[s].state = "open"
      BY <2>1, <2>2, <2>3, RevokedRow
    <2>4. CASE ~(s \in S /\ session[s].state = "open")
      BY <2>1, <2>2, <2>4
    <2> QED
      BY <2>3, <2>4
  <1>2. session' = [s \in Session |-> session'[s]]
    BY DEF RevokeIn
  <1> QED
    BY <1>1, <1>2

\* After a write of the credential no login is fresh.
LEMMA OutdatedLogins ==
    ASSUME NEW logins \in [Attempt -> Login]
    PROVE  /\ Outdated(logins) \in [Attempt -> Login]
           /\ \A a \in Attempt : ~Outdated(logins)[a].fresh
BY StaleLogin DEF Outdated

\* Writing the counter and the lock keeps the credential's type and its password.
LEMMA CredentialWrite ==
    ASSUME NEW c \in Credential, NEW n \in 0..MaxFailedAttempts, NEW b \in BOOLEAN
    PROVE  /\ [c EXCEPT !.failed = n, !.locked = b] \in Credential
           /\ [c EXCEPT !.failed = n, !.locked = b].password = c.password
           /\ [c EXCEPT !.locked = b, !.failed = n] \in Credential
           /\ [c EXCEPT !.locked = b, !.failed = n].password = c.password
  <1>1. [c EXCEPT !.failed = n] \in Credential /\ [c EXCEPT !.failed = n].password = c.password
    BY DEF Credential
  <1>2. \A d \in Credential : /\ [d EXCEPT !.locked = b] \in Credential
                              /\ [d EXCEPT !.locked = b].password = d.password
    BY DEF Credential
  <1>3. [[c EXCEPT !.locked = b] EXCEPT !.failed = n] \in Credential
        /\ [[c EXCEPT !.locked = b] EXCEPT !.failed = n].password = [c EXCEPT !.locked = b].password
    BY <1>2 DEF Credential
  <1> QED
    BY <1>1, <1>2, <1>3

\* A login that is not under way is not fresh.
LEMMA IdleLoginType == IdleLogin \in Login /\ ~IdleLogin.fresh
BY BoundsAssumption DEF IdleLogin, Login, Password

-----------------------------------------------------------------------------
(* One lemma per group of actions.                                         *)

\* Steps that change only what a login has read.
LEMMA LoginStepKeeps ==
    ASSUME SessionsInv, NEW a \in Attempt, ResolveUser(a) \/ VerifyPassword(a) \/ RejectLogin(a)
    PROVE  SessionsInv'
  <1>1. PICK l \in Login : login' = [login EXCEPT ![a] = l] /\ FreshLogin(l)
    <2>1. CASE ResolveUser(a)
      <3> DEFINE l == [login[a] EXCEPT !.pc = "resolved"]
      <3>1. login[a] \in Login /\ FreshLogin(login[a])
        BY DEF SessionsInv, TypeOK, FreshLogins
      <3>2. l \in Login /\ l.password = login[a].password /\ (l.fresh <=> login[a].fresh)
        BY <3>1 DEF Login
      <3>3. login' = [login EXCEPT ![a] = l]
        BY <2>1 DEF ResolveUser
      <3>4. FreshLogin(l)
        BY <3>1, <3>2 DEF FreshLogin
      <3> QED
        BY <3>2, <3>3, <3>4
    <2>2. CASE VerifyPassword(a)
      <3>1. PICK outcome \in {"verified", "refused"} :
               login' = [login EXCEPT ![a] = [pc |-> outcome, password |-> credential.password,
                                              fresh |-> outcome = "verified"]]
        BY <2>2 DEF VerifyPassword
      <3> DEFINE l == [pc |-> outcome, password |-> credential.password,
                       fresh |-> outcome = "verified"]
      <3>2. l \in Login
        BY DEF SessionsInv, TypeOK, Credential, Login
      <3>3. FreshLogin(l)
        BY <2>2 DEF VerifyPassword, FreshLogin
      <3> QED
        BY <3>1, <3>2, <3>3
    <2>3. CASE RejectLogin(a)
      BY <2>3, IdleLoginType DEF RejectLogin, FreshLogin
    <2> QED
      BY <2>1, <2>2, <2>3
  <1>2. UNCHANGED <<status, changing, credential, session, history, authed, replayed>>
    BY DEF ResolveUser, VerifyPassword, RejectLogin
  <1>3. TypeOK'
    BY <1>1, <1>2 DEF SessionsInv, TypeOK
  <1>4. FreshLogins'
    <2>1. ASSUME NEW b \in Attempt PROVE FreshLogin(login'[b])
      BY <1>1 DEF SessionsInv, TypeOK, FreshLogins
    <2> QED
      BY <1>2, <2>1 DEF FreshLogins, FreshLogin
  <1> QED
    BY <1>2, <1>3, <1>4 DEF SessionsInv, OpenSessions, OpenRow, HistoryComplete, KnownTokens,
                            ReplayedExist, ReplayRevokes

\* A login's transaction opens a session for the password it verified.
LEMMA CommitLoginKeeps ==
    ASSUME SessionsInv, NEW a \in Attempt, NEW s \in Session, CommitLogin(a, s)
    PROVE  SessionsInv'
  <1> DEFINE opened == [state |-> "open", expired |-> FALSE, token |-> 1,
                        previous |-> 0, password |-> login[a].password]
  <1>1. /\ login[a] \in Login /\ credential \in Credential
        /\ login[a].password = credential.password /\ credential.password # 0
    BY DEF SessionsInv, TypeOK, FreshLogins, FreshLogin, CommitLogin, CredentialUnchanged
  <1>2. opened \in Row
    BY <1>1, BoundsAssumption DEF Row, Token, Login
  <1>3. session' = [session EXCEPT ![s] = opened]
    BY DEF CommitLogin
  <1>4. /\ credential' \in Credential
        /\ credential'.password = credential.password
    <2>1. 0 \in 0..MaxFailedAttempts /\ FALSE \in BOOLEAN
      BY BoundsAssumption
    <2>2. credential' = [credential EXCEPT !.failed = 0, !.locked = FALSE]
      BY DEF CommitLogin
    <2> QED
      BY <1>1, <2>1, <2>2, CredentialWrite
  <1>5. /\ login' \in [Attempt -> Login]
        /\ \A b \in Attempt : ~login'[b].fresh
    <2>1. [login EXCEPT ![a] = IdleLogin] \in [Attempt -> Login]
      BY IdleLoginType DEF SessionsInv, TypeOK
    <2> QED
      BY <2>1, OutdatedLogins DEF CommitLogin
  <1>6. UNCHANGED <<status, changing, history, authed, replayed>>
    BY DEF CommitLogin
  <1>7. TypeOK'
    BY <1>2, <1>3, <1>4, <1>5, <1>6 DEF SessionsInv, TypeOK
  <1>8. FreshLogins'
    BY <1>5 DEF FreshLogins, FreshLogin
  <1>9. OpenSessions'
    BY <1>1, <1>3, <1>4 DEF SessionsInv, TypeOK, OpenSessions, OpenRow
  <1>10. HistoryComplete'
    <2>1. ASSUME NEW r \in Session PROVE KnownTokens(r)'
      <3>1. CASE r = s
        BY <1>3, <3>1, BoundsAssumption DEF SessionsInv, TypeOK, KnownTokens, Token
      <3>2. CASE r # s
        BY <1>3, <1>6, <3>2 DEF SessionsInv, TypeOK, HistoryComplete, KnownTokens
      <3> QED
        BY <3>1, <3>2
    <2> QED
      BY <2>1 DEF HistoryComplete
  <1>11. s \notin replayed
    BY DEF SessionsInv, ReplayedExist, CommitLogin
  <1>12. ReplayedExist' /\ ReplayRevokes'
    BY <1>3, <1>6, <1>11 DEF SessionsInv, TypeOK, ReplayedExist, ReplayRevokes
  <1> QED
    BY <1>7, <1>8, <1>9, <1>10, <1>12 DEF SessionsInv

\* A refused login counts its failure, and a counted failure outdates every login.
LEMMA RecordFailureKeeps ==
    ASSUME SessionsInv, NEW a \in Attempt, recordFailure(a)
    PROVE  SessionsInv'
  <1> DEFINE logins == [login EXCEPT ![a] = IdleLogin]
  <1>1. logins \in [Attempt -> Login]
    BY IdleLoginType DEF SessionsInv, TypeOK
  <1>2. UNCHANGED <<status, changing, session, history, authed, replayed>>
    BY DEF recordFailure
  <1>3. /\ credential' \in Credential
        /\ credential'.password = credential.password
        /\ login' \in [Attempt -> Login]
        /\ FreshLogins'
    <2>1. CASE login' = Outdated(logins)
               /\ credential' = [credential EXCEPT
                      !.locked = ReachesLimit,
                      !.failed = IF ReachesLimit THEN MaxFailedAttempts ELSE credential.failed + 1]
      <3>1. credential \in Credential
        BY DEF SessionsInv, TypeOK
      <3>2. credential' \in Credential /\ credential'.password = credential.password
        <4> DEFINE limit == ReachesLimit
                   n == IF limit THEN MaxFailedAttempts ELSE credential.failed + 1
        <4>1. n \in 0..MaxFailedAttempts /\ limit \in BOOLEAN
          <5>1. credential.failed \in 0 .. MaxFailedAttempts
            BY <3>1 DEF Credential
          <5> QED
            BY <5>1, BoundsAssumption DEF ReachesLimit
        <4>2. credential' = [credential EXCEPT !.locked = limit, !.failed = n]
          BY <2>1
        <4> HIDE DEF n, limit
        <4> QED
          BY <3>1, <4>1, <4>2, CredentialWrite
      <3>3. login' \in [Attempt -> Login] /\ \A b \in Attempt : ~login'[b].fresh
        BY <1>1, <2>1, OutdatedLogins
      <3> QED
        BY <3>2, <3>3 DEF FreshLogins, FreshLogin
    <2>2. CASE login' = logins /\ credential' = credential
      <3>1. ASSUME NEW b \in Attempt PROVE FreshLogin(login'[b])
        BY <2>2, IdleLoginType DEF SessionsInv, TypeOK, FreshLogins, FreshLogin
      <3> QED
        BY <1>1, <2>2, <3>1 DEF SessionsInv, TypeOK, FreshLogins, FreshLogin
    <2> QED
      BY <2>1, <2>2 DEF recordFailure
  <1>4. TypeOK'
    BY <1>2, <1>3 DEF SessionsInv, TypeOK
  <1> QED
    BY <1>2, <1>3, <1>4 DEF SessionsInv, OpenSessions, OpenRow, HistoryComplete, KnownTokens,
                            ReplayedExist, ReplayRevokes

\* Refresh rotates the current token, and revokes the session on any earlier one.
LEMMA RefreshKeeps ==
    ASSUME SessionsInv, NEW s \in Session, NEW t \in Token, Refresh(s, t)
    PROVE  SessionsInv'
  <1>1. /\ session[s] \in Row /\ session[s].state # "absent"
        /\ t \in Nat /\ t # 0 /\ t <= session[s].token /\ session[s].token \in Nat
    BY BoundsAssumption DEF SessionsInv, TypeOK, Row, Token, Refresh
  <1>2. UNCHANGED <<status, changing, credential, login, authed>>
    BY DEF Refresh
  <1>3. replayed' \subseteq replayed \cup {s}
        /\ (s \in replayed' => s \in replayed \/ (t < session[s].token /\ status = "active"))
    BY DEF Refresh
  <1>4. PICK row \in Row :
           /\ session' = [session EXCEPT ![s] = row]
           /\ row.state # "absent"
           /\ row.state = "open" => session[s].state = "open" /\ row.password = session[s].password
           /\ row.expired <=> session[s].expired
           /\ session[s].state = "revoked" => row.state = "revoked"
           /\ s \in replayed' => row.state = "revoked" \/ row.expired
           /\ history' \subseteq Session \X Token /\ history \subseteq history'
           /\ row.state = "open" /\ ~row.expired =>
                 \A u \in Token : u # 0 /\ u < row.token => <<s, u>> \in history'
    <2>1. CASE Refreshable(s) /\ t = session[s].token
      <3> DEFINE row == [session[s] EXCEPT !.previous = t, !.token = t + 1]
      <3>1. session' = [session EXCEPT ![s] = row] /\ history' = history \cup {<<s, t>>}
        BY <2>1 DEF Refresh, SessionsInv, TypeOK
      <3>2. t + 1 \in Token
        BY <1>1, <2>1, BoundsAssumption DEF Refresh, Token
      <3>3. /\ row \in Row /\ row.state = session[s].state /\ row.token = t + 1
            /\ row.password = session[s].password /\ (row.expired <=> session[s].expired)
        <4> DEFINE mid == [session[s] EXCEPT !.previous = t]
        <4>1. /\ mid \in Row /\ mid.state = session[s].state
              /\ mid.password = session[s].password /\ (mid.expired <=> session[s].expired)
          BY <1>1 DEF Row
        <4>2. row = [mid EXCEPT !.token = t + 1]
          OBVIOUS
        <4> HIDE DEF mid, row
        <4> QED
          BY <3>2, <4>1, <4>2 DEF Row
      <3>4. session[s].state = "open" /\ ~session[s].expired
        BY <2>1 DEF Refreshable, ActiveUserSession
      <3>5. s \notin replayed'
        BY <1>1, <1>3, <2>1, <3>4 DEF SessionsInv, ReplayRevokes
      <3>6. \A u \in Token : u # 0 /\ u < t + 1 => <<s, u>> \in history'
        BY <1>1, <2>1, <3>1, <3>4 DEF SessionsInv, HistoryComplete, KnownTokens, Token
      <3>7. history' \subseteq Session \X Token /\ history \subseteq history'
        BY <3>1 DEF SessionsInv, TypeOK
      <3> HIDE DEF row
      <3> QED
        BY <3>1, <3>3, <3>4, <3>5, <3>6, <3>7
    <2>2. CASE Refreshable(s) /\ t # session[s].token
      <3>1. t < session[s].token /\ session[s].state = "open" /\ ~session[s].expired
        BY <1>1, <2>2 DEF Refreshable, ActiveUserSession
      <3>2. IsReplay(s, t)
        BY <1>1, <3>1 DEF SessionsInv, HistoryComplete, KnownTokens, IsReplay
      <3>3. session' = [session EXCEPT ![s] = Revoked(session[s])] /\ history' = history
        BY <2>2, <3>2 DEF Refresh, SessionsInv, TypeOK
      <3> QED
        BY <1>1, <3>3, RevokedRow DEF SessionsInv, TypeOK
    <2>3. CASE ~Refreshable(s)
      <3>1. session' = session /\ history' = history
        BY <2>3 DEF Refresh
      <3>2. session' = [session EXCEPT ![s] = session[s]]
        BY <3>1 DEF SessionsInv, TypeOK
      <3>3. session[s].state = "open" => /\ session[s].password = credential.password
                                         /\ credential.password # 0
        BY DEF SessionsInv, OpenSessions, OpenRow
      <3>4. s \in replayed' => session[s].state = "revoked" \/ session[s].expired
        BY <1>1, <1>3, <2>3, <3>3 DEF Refreshable, ActiveUserSession, SessionsInv, ReplayRevokes, Row
      <3>5. session[s].state = "open" /\ ~session[s].expired =>
               \A u \in Token : u # 0 /\ u < session[s].token => <<s, u>> \in history'
        BY <3>1 DEF SessionsInv, HistoryComplete, KnownTokens
      <3> QED
        BY <1>1, <3>1, <3>2, <3>4, <3>5 DEF SessionsInv, TypeOK
    <2> QED
      BY <2>1, <2>2, <2>3
  <1>5. TypeOK'
    BY <1>2, <1>3, <1>4 DEF SessionsInv, TypeOK
  <1>6. FreshLogins'
    BY <1>2 DEF SessionsInv, FreshLogins, FreshLogin
  <1>7. OpenSessions'
    BY <1>2, <1>4 DEF SessionsInv, TypeOK, OpenSessions, OpenRow
  <1>8. HistoryComplete'
    BY <1>4 DEF SessionsInv, TypeOK, HistoryComplete, KnownTokens
  <1>9. ReplayedExist' /\ ReplayRevokes'
    BY <1>3, <1>4 DEF SessionsInv, TypeOK, ReplayedExist, ReplayRevokes
  <1> QED
    BY <1>5, <1>6, <1>7, <1>8, <1>9 DEF SessionsInv

\* Revocation of one session.
LEMMA RevokeKeeps ==
    ASSUME SessionsInv, NEW s \in Session,
           RevokeSession(s) \/ \E t \in Token : Logout(s, t)
    PROVE  SessionsInv'
  <1>1. session' = [session EXCEPT ![s] = Revoked(session[s])]
    BY DEF RevokeSession, Logout, SessionsInv, TypeOK
  <1>2. UNCHANGED <<status, changing, credential, login, history, authed, replayed>>
    BY DEF RevokeSession, Logout
  <1>3. /\ Revoked(session[s]) \in Row /\ Revoked(session[s]).state = "revoked"
        /\ Revoked(session[s]).expired <=> session[s].expired
    BY RevokedRow DEF SessionsInv, TypeOK
  <1>4. TypeOK'
    BY <1>1, <1>2, <1>3 DEF SessionsInv, TypeOK
  <1>5. FreshLogins'
    BY <1>2 DEF SessionsInv, FreshLogins, FreshLogin
  <1>6. OpenSessions' /\ HistoryComplete'
    BY <1>1, <1>2, <1>3 DEF SessionsInv, TypeOK, OpenSessions, OpenRow, HistoryComplete, KnownTokens
  <1>7. ReplayedExist' /\ ReplayRevokes'
    BY <1>1, <1>2, <1>3 DEF SessionsInv, TypeOK, ReplayedExist, ReplayRevokes
  <1> QED
    BY <1>4, <1>5, <1>6, <1>7 DEF SessionsInv

\* What a bulk revocation keeps, whatever becomes of the credential.
LEMMA BulkKeeps ==
    ASSUME SessionsInv, NEW S, session' = RevokeIn(S), UNCHANGED <<history, replayed>>
    PROVE  HistoryComplete' /\ ReplayedExist' /\ ReplayRevokes'
  <1>1. HistoryComplete'
    BY BulkRevocation DEF SessionsInv, HistoryComplete, KnownTokens
  <1>2. ReplayedExist'
    BY BulkRevocation DEF SessionsInv, TypeOK, ReplayedExist
  <1>3. ReplayRevokes'
    BY BulkRevocation DEF SessionsInv, TypeOK, ReplayRevokes
  <1> QED
    BY <1>1, <1>2, <1>3

\* Signing out everywhere, and the commit of a change of status.
LEMMA RevokeAllKeeps ==
    ASSUME SessionsInv, RevokeAll \/ CommitChange
    PROVE  SessionsInv'
  <1>1. PICK S : session' = RevokeIn(S)
    BY DEF RevokeAll, CommitChange
  <1>2. UNCHANGED <<credential, login, history, authed, replayed>>
    BY DEF RevokeAll, CommitChange
  <1>3. status' \in Status /\ changing' \in Change
    BY DEF RevokeAll, CommitChange, NoChange, Change, Status, SessionsInv, TypeOK
  <1>4. TypeOK'
    BY <1>1, <1>2, <1>3, BulkRevocation DEF SessionsInv, TypeOK
  <1>5. FreshLogins'
    BY <1>2 DEF SessionsInv, FreshLogins, FreshLogin
  <1>6. OpenSessions'
    BY <1>1, <1>2, BulkRevocation DEF SessionsInv, OpenSessions, OpenRow
  <1> QED
    BY <1>1, <1>2, <1>4, <1>5, <1>6, BulkKeeps DEF SessionsInv

\* A new password revokes every session and outdates every login.
LEMMA PasswordKeeps ==
    ASSUME SessionsInv, SetPassword \/ ChangePassword
    PROVE  SessionsInv'
  <1>1. NewPassword
    BY DEF SetPassword, ChangePassword
  <1>2. /\ session' = RevokeIn(Session) /\ login' = Outdated(login)
        /\ UNCHANGED <<status, changing, history, authed, replayed>>
    BY <1>1 DEF NewPassword
  <1>3. credential' \in Credential
    BY <1>1, BoundsAssumption DEF NewPassword, SessionsInv, TypeOK, Credential, Password
  <1>4. login' \in [Attempt -> Login] /\ \A a \in Attempt : ~login'[a].fresh
    BY <1>2, OutdatedLogins DEF SessionsInv, TypeOK
  <1>5. TypeOK'
    BY <1>2, <1>3, <1>4, BulkRevocation DEF SessionsInv, TypeOK
  <1>6. FreshLogins'
    BY <1>4 DEF FreshLogins, FreshLogin
  <1>7. OpenSessions'
    BY <1>2, BulkRevocation DEF SessionsInv, OpenSessions, OpenRow
  <1> QED
    BY <1>2, <1>5, <1>6, <1>7, BulkKeeps DEF SessionsInv

\* Steps that leave credential, logins, sessions and history alone.
LEMMA StatusKeeps ==
    ASSUME SessionsInv,
           \/ \E s \in Session : Authenticate(s)
           \/ \E to \in Status : BeginChange(to)
           \/ RollbackChange
           \/ Activate
           \/ UNCHANGED vars
    PROVE  SessionsInv'
  <1>1. UNCHANGED <<credential, login, session, history, replayed>>
    BY DEF Authenticate, BeginChange, RollbackChange, Activate, vars
  <1>2. status' \in Status /\ changing' \in Change
    BY DEF Authenticate, BeginChange, RollbackChange, Activate, vars, NoChange, Change, Status,
           Open, SessionsInv, TypeOK
  <1>3. authed' \in BOOLEAN
    BY DEF Authenticate, BeginChange, RollbackChange, Activate, vars, SessionsInv, TypeOK
  <1>4. TypeOK'
    BY <1>1, <1>2, <1>3 DEF SessionsInv, TypeOK
  <1> QED
    BY <1>1, <1>4 DEF SessionsInv, FreshLogins, FreshLogin, OpenSessions, OpenRow,
                      HistoryComplete, KnownTokens, ReplayedExist, ReplayRevokes

\* Time: a lock, a session or the history of a session runs out.
LEMMA TimeKeeps ==
    ASSUME SessionsInv,
           \/ LockExpires
           \/ \E s \in Session : \/ SessionExpires(s)
                                 \/ \E t \in Token : cleanupRefreshHistory(s, t)
    PROVE  SessionsInv'
  <1>1. CASE LockExpires
    <2>1. UNCHANGED <<status, changing, login, session, history, authed, replayed>>
      BY <1>1 DEF LockExpires
    <2>2. credential' \in Credential /\ credential'.password = credential.password
      BY <1>1 DEF LockExpires, Credential, SessionsInv, TypeOK
    <2>3. TypeOK'
      BY <2>1, <2>2 DEF SessionsInv, TypeOK
    <2>4. FreshLogins'
      BY <1>1, <2>1 DEF LockExpires, SessionsInv, FreshLogins, FreshLogin
    <2> QED
      BY <2>1, <2>2, <2>3, <2>4 DEF SessionsInv, OpenSessions, OpenRow, HistoryComplete, KnownTokens,
                                    ReplayedExist, ReplayRevokes
  <1>2. ASSUME NEW s \in Session, SessionExpires(s) PROVE SessionsInv'
    <2> DEFINE row == [session[s] EXCEPT !.expired = TRUE]
    <2>1. /\ session' = [session EXCEPT ![s] = row]
          /\ UNCHANGED <<status, changing, credential, login, history, authed, replayed>>
      BY <1>2 DEF SessionExpires
    <2>2. /\ row \in Row /\ row.state = session[s].state
          /\ row.password = session[s].password /\ row.expired
      BY DEF Row, SessionsInv, TypeOK
    <2> HIDE DEF row
    <2>3. TypeOK'
      BY <2>1, <2>2 DEF SessionsInv, TypeOK
    <2>4. FreshLogins'
      BY <2>1 DEF SessionsInv, FreshLogins, FreshLogin
    <2>5. OpenSessions' /\ HistoryComplete'
      BY <2>1, <2>2 DEF SessionsInv, TypeOK, OpenSessions, OpenRow, HistoryComplete, KnownTokens
    <2>6. ReplayedExist' /\ ReplayRevokes'
      BY <2>1, <2>2 DEF SessionsInv, TypeOK, ReplayedExist, ReplayRevokes
    <2> QED
      BY <2>3, <2>4, <2>5, <2>6 DEF SessionsInv
  <1>3. ASSUME NEW s \in Session, NEW t \in Token, cleanupRefreshHistory(s, t) PROVE SessionsInv'
    <2>1. /\ history' = history \ {<<s, t>>} /\ session[s].expired
          /\ UNCHANGED <<status, changing, credential, login, session, authed, replayed>>
      BY <1>3 DEF cleanupRefreshHistory
    <2>2. TypeOK'
      BY <2>1 DEF SessionsInv, TypeOK
    <2>3. HistoryComplete'
      BY <2>1 DEF SessionsInv, HistoryComplete, KnownTokens
    <2> QED
      BY <2>1, <2>2, <2>3 DEF SessionsInv, FreshLogins, FreshLogin, OpenSessions, OpenRow,
                              ReplayedExist, ReplayRevokes
  <1> QED
    BY <1>1, <1>2, <1>3

-----------------------------------------------------------------------------
(* The theorems.                                                           *)

\* Every step keeps the invariant.
LEMMA NextKeeps == SessionsInv /\ [Next]_vars => SessionsInv'
  <1> SUFFICES ASSUME SessionsInv, [Next]_vars PROVE SessionsInv'
    OBVIOUS
  <1>1. ASSUME NEW a \in Attempt,
               \/ ResolveUser(a) \/ VerifyPassword(a) \/ RejectLogin(a)
               \/ recordFailure(a)
               \/ \E s \in Session : CommitLogin(a, s)
        PROVE  SessionsInv'
    BY <1>1, LoginStepKeeps, RecordFailureKeeps, CommitLoginKeeps
  <1>2. ASSUME NEW s \in Session,
               \/ Authenticate(s) \/ RevokeSession(s) \/ SessionExpires(s)
               \/ \E t \in Token : \/ Refresh(s, t) \/ Logout(s, t)
                                   \/ cleanupRefreshHistory(s, t)
        PROVE  SessionsInv'
    BY <1>2, StatusKeeps, RevokeKeeps, TimeKeeps, RefreshKeeps
  <1>3. ASSUME \/ RevokeAll \/ SetPassword \/ ChangePassword
               \/ \E to \in Status : BeginChange(to)
               \/ CommitChange \/ RollbackChange \/ Activate
               \/ LockExpires
               \/ UNCHANGED vars
        PROVE  SessionsInv'
    BY <1>3, RevokeAllKeeps, PasswordKeeps, StatusKeeps, TimeKeeps
  <1> QED
    BY <1>1, <1>2, <1>3 DEF Next

\* A new user without a credential satisfies the invariant.
LEMMA InitHolds == Init => SessionsInv
  <1> SUFFICES ASSUME Init PROVE SessionsInv
    OBVIOUS
  <1>1. TypeOK
    <2>1. changing \in Change /\ status \in Status
      BY DEF Init, NoChange, Change, Status
    <2>2. credential \in Credential
      BY BoundsAssumption DEF Init, Credential, Password
    <2>3. login \in [Attempt -> Login]
      BY IdleLoginType DEF Init
    <2>4. session \in [Session -> Row]
      BY BoundsAssumption DEF Init, Row, Token, Password
    <2> QED
      BY <2>1, <2>2, <2>3, <2>4 DEF Init, TypeOK
  <1>2. FreshLogins
    BY IdleLoginType DEF Init, FreshLogins, FreshLogin
  <1>3. OpenSessions /\ HistoryComplete
    BY DEF Init, OpenSessions, OpenRow, HistoryComplete, KnownTokens
  <1>4. ReplayedExist /\ ReplayRevokes
    BY DEF Init, ReplayedExist, ReplayRevokes
  <1> QED
    BY <1>1, <1>2, <1>3, <1>4 DEF SessionsInv

\* The inductive invariant holds in every reachable state.
THEOREM Invariance == Spec => []SessionsInv
BY InitHolds, NextKeeps, PTL DEF Spec

\* Users, credentials, logins, sessions and histories keep their types.
THEOREM SessionTypes == Spec => []TypeOK
  <1>1. SessionsInv => TypeOK
    BY DEF SessionsInv
  <1> QED
    BY <1>1, Invariance, PTL

\* No session outlives the password it was opened with: Login's comparison of the
\* credential's version is enough, for any number of logins and password changes.
THEOREM PasswordFenced == Spec => []OnlyCurrentPassword
  <1>1. SessionsInv => OnlyCurrentPassword
    BY DEF SessionsInv, OpenSessions, OpenRow, OnlyCurrentPassword
  <1> QED
    BY <1>1, Invariance, PTL

\* A replay of any generation of refresh token ends the session: the history that
\* Refresh writes and retention removes is complete as long as it matters.
THEOREM ReplayDetected == Spec => []ReplayRevokes
  <1>1. SessionsInv => ReplayRevokes
    BY DEF SessionsInv
  <1> QED
    BY <1>1, Invariance, PTL

\* No step, of whichever operation, opens a revoked session or gives it a token.
THEOREM RevocationFinal == Spec => RevokedIsFinal
  <1> DEFINE Final == \A s \in Session : session[s].state = "revoked" =>
                         /\ session'[s].state = "revoked"
                         /\ session'[s].token = session[s].token
  <1>1. SessionsInv /\ [Next]_vars => [Final]_vars
    <2> SUFFICES ASSUME SessionsInv, Next, NEW s \in Session, session[s].state = "revoked"
                 PROVE  session'[s].state = "revoked" /\ session'[s].token = session[s].token
      OBVIOUS
    <2>1. CASE session' = session
      BY <2>1
    <2>2. ASSUME NEW S, session' = RevokeIn(S)
          PROVE  session'[s] = session[s]
      BY <2>2 DEF RevokeIn
    <2>3. ASSUME NEW r \in Session, NEW row, session' = [session EXCEPT ![r] = row],
                 session[r].state # "revoked"
          PROVE  session'[s] = session[s]
      BY <2>3 DEF SessionsInv, TypeOK
    <2>4. ASSUME NEW a \in Attempt, NEW r \in Session, CommitLogin(a, r)
          PROVE  session'[s] = session[s]
      BY <2>3, <2>4 DEF CommitLogin
    <2>5. ASSUME NEW r \in Session, NEW t \in Token, Refresh(r, t) \/ Logout(r, t) \/ RevokeSession(r)
          PROVE  session'[s] = session[s]
      <3>1. CASE Refresh(r, t) /\ ~Refreshable(r)
        BY <3>1 DEF Refresh
      <3>2. CASE Refresh(r, t) /\ Refreshable(r)
        <4>1. r # s
          BY <3>2 DEF Refreshable, ActiveUserSession
        <4> QED
          BY <3>2, <4>1 DEF Refresh, SessionsInv, TypeOK
      <3>3. CASE Logout(r, t) \/ RevokeSession(r)
        BY <2>3, <3>3 DEF Logout, RevokeSession
      <3> QED
        BY <2>5, <3>1, <3>2, <3>3
    <2>6. ASSUME NEW r \in Session, SessionExpires(r)
          PROVE  session'[s].state = session[s].state /\ session'[s].token = session[s].token
      BY <2>6 DEF SessionExpires, SessionsInv, TypeOK, Row
    <2> QED
      <3>1. CASE \E a \in Attempt : \/ ResolveUser(a) \/ VerifyPassword(a) \/ RejectLogin(a)
                                    \/ recordFailure(a)
        BY <3>1, <2>1 DEF ResolveUser, VerifyPassword, RejectLogin, recordFailure
      <3>2. CASE \E a \in Attempt, r \in Session : CommitLogin(a, r)
        BY <3>2, <2>4
      <3>3. CASE \E r \in Session : \/ Authenticate(r)
                                    \/ \E t \in Token : cleanupRefreshHistory(r, t)
        BY <3>3, <2>1 DEF Authenticate, cleanupRefreshHistory
      <3>4. CASE \E r \in Session : \/ RevokeSession(r)
                                    \/ \E t \in Token : Refresh(r, t) \/ Logout(r, t)
        <4>1. 0 \in Token
          BY BoundsAssumption DEF Token
        <4> QED
          BY <3>4, <4>1, <2>5
      <3>5. CASE \E r \in Session : SessionExpires(r)
        BY <3>5, <2>6
      <3>6. CASE RevokeAll \/ SetPassword \/ ChangePassword \/ CommitChange
        BY <3>6, <2>2 DEF RevokeAll, SetPassword, ChangePassword, NewPassword, CommitChange
      <3>7. CASE (\E to \in Status : BeginChange(to)) \/ RollbackChange \/ Activate \/ LockExpires
        BY <3>7, <2>1 DEF BeginChange, RollbackChange, Activate, LockExpires
      <3> QED
        BY <3>1, <3>2, <3>3, <3>4, <3>5, <3>6, <3>7 DEF Next
  <1> QED
    BY <1>1, Invariance, PTL DEF Spec, RevokedIsFinal

\* A lock stops the logins that verified the right password before it was set.
THEOREM LockEnforced == Spec => LockHolds
  <1> DEFINE Closed == credential.locked =>
                          \A s \in Session : session[s].state = "absent" => session'[s].state = "absent"
  <1>1. SessionsInv /\ [Next]_vars => [Closed]_vars
    <2> SUFFICES ASSUME SessionsInv, Next, credential.locked, NEW s \in Session,
                        session[s].state = "absent"
                 PROVE  session'[s].state = "absent"
      OBVIOUS
    <2>1. ASSUME NEW a \in Attempt, NEW r \in Session PROVE ~CommitLogin(a, r)
      BY DEF SessionsInv, FreshLogins, FreshLogin, CommitLogin, CredentialUnchanged
    <2>2. CASE UNCHANGED session
      BY <2>2
    <2>3. ASSUME NEW S, session' = RevokeIn(S) PROVE session'[s] = session[s]
      BY <2>3 DEF RevokeIn
    <2>4. ASSUME NEW r \in Session, NEW t \in Token,
                 Refresh(r, t) \/ Logout(r, t) \/ RevokeSession(r) \/ SessionExpires(r)
          PROVE  session'[s] = session[s]
      <3>1. r # s
        BY <2>4 DEF Refresh, Logout, RevokeSession, SessionExpires
      <3> QED
        BY <2>4, <3>1 DEF Refresh, Logout, RevokeSession, SessionExpires, SessionsInv, TypeOK
    <2> QED
      <3>1. CASE \E a \in Attempt : \/ ResolveUser(a) \/ VerifyPassword(a) \/ RejectLogin(a)
                                    \/ recordFailure(a)
        BY <3>1, <2>2 DEF ResolveUser, VerifyPassword, RejectLogin, recordFailure
      <3>2. CASE \E r \in Session : \/ Authenticate(r)
                                    \/ \E t \in Token : cleanupRefreshHistory(r, t)
        BY <3>2, <2>2 DEF Authenticate, cleanupRefreshHistory
      <3>3. CASE \E r \in Session : \/ RevokeSession(r) \/ SessionExpires(r)
                                    \/ \E t \in Token : Refresh(r, t) \/ Logout(r, t)
        <4>1. 0 \in Token
          BY BoundsAssumption DEF Token
        <4> QED
          BY <3>3, <4>1, <2>4
      <3>4. CASE RevokeAll \/ SetPassword \/ ChangePassword \/ CommitChange
        BY <3>4, <2>3 DEF RevokeAll, SetPassword, ChangePassword, NewPassword, CommitChange
      <3>5. CASE (\E to \in Status : BeginChange(to)) \/ RollbackChange \/ Activate \/ LockExpires
        BY <3>5, <2>2 DEF BeginChange, RollbackChange, Activate, LockExpires
      <3> QED
        BY <2>1, <3>1, <3>2, <3>3, <3>4, <3>5 DEF Next
  <1> QED
    BY <1>1, Invariance, PTL DEF Spec, LockHolds

-----------------------------------------------------------------------------
(* Files.                                                                  *)

\* The execution's lock keys last.
LocksLast == "lockLoss" \notin fault

\* The upload of f is between the commit of its intent and its last transaction.
Uploading(f) == upload[f] \in {"intent", "put"}

\* What holds of a file under every fault: rows follow the intent, and a COMMIT under way
\* keeps its intent pending.
IntentOK(f) ==
    /\ file[f] # "none" => intent[f] = "completed"
    /\ f \in inflight => /\ intent[f] = "pending" /\ upload[f] \in {"failed", "error"}
                         /\ "lateCommit" \in fault
    /\ upload[f] = "new" => intent[f] = "none"

\* What the lock adds: the upload has its intent to itself, and no object is an orphan.
ObjectOK(f) ==
    /\ LocksLast =>
         /\ Uploading(f) => holder[f] = f /\ intent[f] = "pending"
         /\ upload[f] = "put" => f \in object
         /\ f \in object => intent[f] = "pending" \/ file[f] \in {"live", "deleted"}
    /\ fault = {} /\ file[f] = "live" => f \in object

\* A repair under way: whose it is, and what it may rely on.
RepairOK(a) ==
    LET f == repair[a].file IN
    repair[a].pc # "idle" =>
      /\ a \in Files => f = a /\ upload[a] = "failed"
      /\ repair[a].pc = "present" => file[f] # "none"
      /\ LocksLast => /\ holder[f] = a
                      /\ repair[a].pc = "removed" => f \notin object
      /\ fault = {} => intent[f] = "pending"

\* A purge under way is of a deleted file.
PurgeOK(a) ==
    LET f == purge[a].file IN
    purge[a].pc # "idle" =>
      /\ file[f] \in {"deleted", "purged"}
      /\ LocksLast /\ purge[a].pc = "removed" => f \notin object

\* The inductive invariant.
FilesInv == /\ FilesTypeOK
            /\ \A f \in Files : IntentOK(f) /\ ObjectOK(f)
            /\ \A a \in Actors : RepairOK(a) /\ PurgeOK(a)

\* The upload begins: the intent was "none", so no file, object or job of it can exist yet.
LEMMA InsertIntentKeeps ==
    ASSUME FilesInv, NEW f \in Files, NEW outcome \in {"ok", "failed", "unacknowledged"},
           InsertIntent(f, outcome), fault' = fault
    PROVE  FilesInv'
<1> USE FilesAssumption DEF Actors
<1>1. FilesTypeOK'
  BY DEF FilesInv, FilesTypeOK, InsertIntent, Goto
<1>2. ASSUME NEW g \in Files PROVE IntentOK(g)'
  BY DEF FilesInv, FilesTypeOK, IntentOK, InsertIntent, Goto
<1>3. ASSUME NEW g \in Files PROVE ObjectOK(g)'
  BY DEF FilesInv, FilesTypeOK, IntentOK, ObjectOK, LocksLast, Uploading, InsertIntent, Goto
<1>4. ASSUME NEW b \in Actors PROVE RepairOK(b)'
  BY DEF FilesInv, RepairOK, LocksLast, InsertIntent, Goto
<1>5. ASSUME NEW b \in Actors PROVE PurgeOK(b)'
  BY DEF FilesInv, PurgeOK, LocksLast, InsertIntent
<1> QED
  BY <1>1, <1>2, <1>3, <1>4, <1>5 DEF FilesInv

\* storage.Put: the upload holds the lock and its intent is pending, so the object is not an orphan
\* even when the request fails, and no repair that has removed it is under way.
LEMMA PutKeeps ==
    ASSUME FilesInv, NEW f \in Files, NEW ok \in BOOLEAN, Put(f, ok), fault' = fault
    PROVE  FilesInv'
<1> USE FilesAssumption DEF Actors
<1>1. FilesTypeOK'
  <2>1. /\ upload' = [upload EXCEPT ![f] = IF ok THEN "put" ELSE "failed"]
        /\ holder' = holder \/ holder' = [holder EXCEPT ![f] = IF @ = f THEN None ELSE @]
    BY DEF Put, Goto, Release
  <2>2. upload' \in [Files -> {"new", "intent", "put", "failed", "ok", "error"}]
    BY <2>1 DEF FilesInv, FilesTypeOK
  <2>3. holder' \in [Files -> Actors \cup {None}]
    BY <2>1 DEF FilesInv, FilesTypeOK
  <2> QED
    BY <2>2, <2>3 DEF FilesInv, FilesTypeOK, Put
<1>2. ASSUME NEW g \in Files PROVE IntentOK(g)'
  BY DEF FilesInv, FilesTypeOK, IntentOK, Put, Goto
<1>3. ASSUME NEW g \in Files PROVE ObjectOK(g)'
  BY DEF FilesInv, FilesTypeOK, ObjectOK, LocksLast, Uploading, Put, Goto, Release
<1>4. ASSUME NEW b \in Actors PROVE RepairOK(b)'
  BY DEF FilesInv, FilesTypeOK, ObjectOK, RepairOK, LocksLast, Uploading, Put, Goto, Release
<1>5. ASSUME NEW b \in Actors PROVE PurgeOK(b)'
  BY DEF FilesInv, IntentOK, ObjectOK, PurgeOK, LocksLast, Uploading, Put
<1> QED
  BY <1>1, <1>2, <1>3, <1>4, <1>5 DEF FilesInv

\* The final transaction insists on the pending intent; the object is there, as it was put under
\* the lock.
LEMMA CommitKeeps ==
    ASSUME FilesInv, NEW f \in Files, NEW ok \in BOOLEAN, Commit(f, ok), fault' = fault
    PROVE  FilesInv'
<1> USE FilesAssumption DEF Actors
<1>1. FilesTypeOK'
  BY DEF FilesInv, FilesTypeOK, Commit, Goto, Release, Completed
<1>2. ASSUME NEW g \in Files PROVE IntentOK(g)'
  BY DEF FilesInv, FilesTypeOK, IntentOK, Commit, Goto, Committable, Completed
<1>3. ASSUME NEW g \in Files PROVE ObjectOK(g)'
  BY DEF FilesInv, FilesTypeOK, ObjectOK, LocksLast, Uploading, Commit, Goto, Release, Completed
<1>4. ASSUME NEW b \in Actors PROVE RepairOK(b)'
  BY DEF FilesInv, ObjectOK, RepairOK, LocksLast, Uploading, Commit, Goto, Release, Completed
<1>5. ASSUME NEW b \in Actors PROVE PurgeOK(b)'
  BY DEF FilesInv, IntentOK, PurgeOK, LocksLast, Commit, Committable, Completed
<1> QED
  BY <1>1, <1>2, <1>3, <1>4, <1>5 DEF FilesInv

\* A rolled back transaction leaves the intent pending for the repair.
LEMMA RollbackKeeps ==
    ASSUME FilesInv, NEW f \in Files, Rollback(f), fault' = fault
    PROVE  FilesInv'
<1> USE FilesAssumption DEF Actors
<1>1. FilesTypeOK'
  BY DEF FilesInv, FilesTypeOK, Rollback, Goto, Release
<1>2. ASSUME NEW g \in Files PROVE IntentOK(g)'
  BY DEF FilesInv, IntentOK, Rollback, Goto
<1>3. ASSUME NEW g \in Files PROVE ObjectOK(g)'
  BY DEF FilesInv, FilesTypeOK, ObjectOK, LocksLast, Uploading, Rollback, Goto, Release
<1>4. ASSUME NEW b \in Actors PROVE RepairOK(b)'
  BY DEF FilesInv, RepairOK, LocksLast, Rollback, Goto, Release
<1>5. ASSUME NEW b \in Actors PROVE PurgeOK(b)'
  BY DEF FilesInv, PurgeOK, LocksLast, Rollback
<1> QED
  BY <1>1, <1>2, <1>3, <1>4, <1>5 DEF FilesInv

\* A COMMIT the client has left keeps the intent pending.
LEMMA LeaveCommitKeeps ==
    ASSUME FilesInv, NEW f \in Files, LeaveCommit(f), fault' = fault
    PROVE  FilesInv'
<1> USE FilesAssumption DEF Actors
<1>1. FilesTypeOK'
  BY DEF FilesInv, FilesTypeOK, LeaveCommit, Goto, Release
<1>2. ASSUME NEW g \in Files PROVE IntentOK(g)'
  BY DEF FilesInv, FilesTypeOK, IntentOK, LeaveCommit, Goto, Committable
<1>3. ASSUME NEW g \in Files PROVE ObjectOK(g)'
  BY DEF FilesInv, FilesTypeOK, ObjectOK, LocksLast, Uploading, LeaveCommit, Goto, Release
<1>4. ASSUME NEW b \in Actors PROVE RepairOK(b)'
  BY DEF FilesInv, RepairOK, LocksLast, LeaveCommit, Goto, Release
<1>5. ASSUME NEW b \in Actors PROVE PurgeOK(b)'
  BY DEF FilesInv, PurgeOK, LocksLast, LeaveCommit
<1> QED
  BY <1>1, <1>2, <1>3, <1>4, <1>5 DEF FilesInv

\* The late COMMIT finds the intent pending: finishUploadIntent had to wait for it.
LEMMA CommitLandsKeeps ==
    ASSUME FilesInv, NEW f \in Files, CommitLands(f), fault' = fault
    PROVE  FilesInv'
<1> USE FilesAssumption DEF Actors
<1>1. FilesTypeOK'
  BY DEF FilesInv, FilesTypeOK, CommitLands, Completed
<1>2. ASSUME NEW g \in Files PROVE IntentOK(g)'
  BY DEF FilesInv, FilesTypeOK, IntentOK, CommitLands, Completed
<1>3. ASSUME NEW g \in Files PROVE ObjectOK(g)'
  BY DEF FilesInv, FilesTypeOK, IntentOK, ObjectOK, LocksLast, Uploading, CommitLands, Completed
<1>4. ASSUME NEW b \in Actors PROVE RepairOK(b)'
  BY DEF FilesInv, IntentOK, RepairOK, LocksLast, CommitLands, Completed
<1>5. ASSUME NEW b \in Actors PROVE PurgeOK(b)'
  BY DEF FilesInv, IntentOK, PurgeOK, LocksLast, CommitLands, Completed
<1> QED
  BY <1>1, <1>2, <1>3, <1>4, <1>5 DEF FilesInv

\* A COMMIT that is dropped changes no row.
LEMMA CommitDroppedKeeps ==
    ASSUME FilesInv, NEW f \in Files, CommitDropped(f), fault' = fault
    PROVE  FilesInv'
<1> USE FilesAssumption DEF Actors
<1>1. FilesTypeOK'
  BY DEF FilesInv, FilesTypeOK, CommitDropped
<1>2. ASSUME NEW g \in Files PROVE IntentOK(g)'
  BY DEF FilesInv, IntentOK, CommitDropped
<1>3. ASSUME NEW g \in Files PROVE ObjectOK(g)'
  BY DEF FilesInv, ObjectOK, LocksLast, Uploading, CommitDropped
<1>4. ASSUME NEW b \in Actors PROVE RepairOK(b)'
  BY DEF FilesInv, RepairOK, LocksLast, CommitDropped
<1>5. ASSUME NEW b \in Actors PROVE PurgeOK(b)'
  BY DEF FilesInv, PurgeOK, LocksLast, CommitDropped
<1> QED
  BY <1>1, <1>2, <1>3, <1>4, <1>5 DEF FilesInv

\* A crash gives the lock back and changes no row.
LEMMA CrashUploadKeeps ==
    ASSUME FilesInv, NEW f \in Files, CrashUpload(f), fault' = fault
    PROVE  FilesInv'
<1> USE FilesAssumption DEF Actors
<1>1. FilesTypeOK'
  BY DEF FilesInv, FilesTypeOK, CrashUpload, Goto, Release
<1>2. ASSUME NEW g \in Files PROVE IntentOK(g)'
  BY DEF FilesInv, IntentOK, CrashUpload, Goto
<1>3. ASSUME NEW g \in Files PROVE ObjectOK(g)'
  BY DEF FilesInv, FilesTypeOK, ObjectOK, LocksLast, Uploading, CrashUpload, Goto, Release
<1>4. ASSUME NEW b \in Actors PROVE RepairOK(b)'
  BY DEF FilesInv, RepairOK, LocksLast, CrashUpload, Goto, Release, NoJob
<1>5. ASSUME NEW b \in Actors PROVE PurgeOK(b)'
  BY DEF FilesInv, PurgeOK, LocksLast, CrashUpload
<1> QED
  BY <1>1, <1>2, <1>3, <1>4, <1>5 DEF FilesInv

\* A soft delete: the row keeps its object until a purge.
LEMMA DeleteKeeps ==
    ASSUME FilesInv, NEW f \in Files, Delete(f), fault' = fault
    PROVE  FilesInv'
<1> USE FilesAssumption DEF Actors
<1>1. FilesTypeOK'
  BY DEF FilesInv, FilesTypeOK, Delete
<1>2. ASSUME NEW g \in Files PROVE IntentOK(g)'
  BY DEF FilesInv, IntentOK, Delete
<1>3. ASSUME NEW g \in Files PROVE ObjectOK(g)'
  BY DEF FilesInv, ObjectOK, LocksLast, Uploading, Delete
<1>4. ASSUME NEW b \in Actors PROVE RepairOK(b)'
  BY DEF FilesInv, RepairOK, LocksLast, Delete
<1>5. ASSUME NEW b \in Actors PROVE PurgeOK(b)'
  BY DEF FilesInv, FilesTypeOK, PurgeOK, LocksLast, Delete
<1> QED
  BY <1>1, <1>2, <1>3, <1>4, <1>5 DEF FilesInv

\* Due times concern no row.
LEMMA ComesDueKeeps ==
    ASSUME FilesInv, NEW f \in Files, ComesDue(f), fault' = fault
    PROVE  FilesInv'
<1> USE FilesAssumption DEF Actors
<1>1. FilesTypeOK'
  BY DEF FilesInv, FilesTypeOK, ComesDue
<1>2. ASSUME NEW g \in Files PROVE IntentOK(g)'
  BY DEF FilesInv, IntentOK, ComesDue
<1>3. ASSUME NEW g \in Files PROVE ObjectOK(g)'
  BY DEF FilesInv, ObjectOK, LocksLast, Uploading, ComesDue
<1>4. ASSUME NEW b \in Actors PROVE RepairOK(b)'
  BY DEF FilesInv, RepairOK, LocksLast, ComesDue
<1>5. ASSUME NEW b \in Actors PROVE PurgeOK(b)'
  BY DEF FilesInv, PurgeOK, LocksLast, ComesDue
<1> QED
  BY <1>1, <1>2, <1>3, <1>4, <1>5 DEF FilesInv

\* The lock's key vanishes only in executions in which nothing relies on it.
LEMMA LockVanishesKeeps ==
    ASSUME FilesInv, NEW f \in Files, LockVanishes(f), fault' = fault
    PROVE  FilesInv'
<1> USE FilesAssumption DEF Actors
<1>1. FilesTypeOK'
  BY DEF FilesInv, FilesTypeOK, LockVanishes
<1>2. ASSUME NEW g \in Files PROVE IntentOK(g)'
  BY DEF FilesInv, IntentOK, LockVanishes
<1>3. ASSUME NEW g \in Files PROVE ObjectOK(g)'
  BY DEF FilesInv, ObjectOK, LocksLast, LockVanishes
<1>4. ASSUME NEW b \in Actors PROVE RepairOK(b)'
  BY DEF FilesInv, RepairOK, LocksLast, LockVanishes
<1>5. ASSUME NEW b \in Actors PROVE PurgeOK(b)'
  BY DEF FilesInv, PurgeOK, LocksLast, LockVanishes
<1> QED
  BY <1>1, <1>2, <1>3, <1>4, <1>5 DEF FilesInv

\* A repair begins: the lock was free, so neither the upload nor another repair is at work.
LEMMA ReadIntentKeeps ==
    ASSUME FilesInv, NEW f \in Files, NEW a \in Actors, ReadIntent(a, f), fault' = fault
    PROVE  FilesInv'
<1> USE FilesAssumption DEF Actors
<1>1. FilesTypeOK'
  <2>1. CASE intent[f] = "pending"
    <3>1. /\ repair' = [repair EXCEPT ![a] = [pc |-> "pending", file |-> f]]
          /\ holder' = [holder EXCEPT ![f] = a]
          /\ upload' = upload
      BY <2>1 DEF ReadIntent
    <3> QED
      BY <3>1 DEF FilesInv, FilesTypeOK, ReadIntent
  <2>2. CASE intent[f] # "pending"
    <3>1. /\ repair' = repair /\ holder' = holder
          /\ upload' = [upload EXCEPT ![f] = "error"]
      BY <2>2 DEF ReadIntent, Goto
    <3> QED
      BY <3>1 DEF FilesInv, FilesTypeOK, ReadIntent
  <2> QED
    BY <2>1, <2>2
<1>2. ASSUME NEW g \in Files PROVE IntentOK(g)'
  <2>1. IntentOK(g) /\ UNCHANGED <<file, intent, inflight, fault>>
    BY DEF FilesInv, ReadIntent
  <2>2. upload'[g] = upload[g] \/ (upload[g] = "failed" /\ upload'[g] = "error")
    <3>1. \/ upload' = upload
          \/ upload[f] = "failed" /\ upload' = [upload EXCEPT ![f] = "error"]
      BY DEF ReadIntent, MayRepair, Goto
    <3> QED
      BY <3>1 DEF FilesInv, FilesTypeOK
  <2> QED
    BY <2>1, <2>2 DEF IntentOK
<1>3. ASSUME NEW g \in Files PROVE ObjectOK(g)'
  BY DEF FilesInv, FilesTypeOK, ObjectOK, LocksLast, Uploading, ReadIntent, MayRepair, Goto
<1>4. ASSUME NEW b \in Actors PROVE RepairOK(b)'
  <2>1. CASE intent[f] = "pending"
    <3>1. /\ repair' = [repair EXCEPT ![a] = [pc |-> "pending", file |-> f]]
          /\ holder' = [holder EXCEPT ![f] = a]
          /\ upload' = upload
      BY <2>1 DEF ReadIntent
    <3>2. CASE b = a
      <4>1. repair'[b] = [pc |-> "pending", file |-> f] /\ holder'[f] = b
        BY <3>1, <3>2 DEF FilesInv, FilesTypeOK
      <4>2. b \in Files => f = b /\ upload[b] = "failed"
        BY <3>2 DEF ReadIntent, MayRepair
      <4> QED
        BY <2>1, <4>1, <4>2 DEF RepairOK, ReadIntent
    <3>3. CASE b # a
      <4>1. repair'[b] = repair[b]
        BY <3>1, <3>3 DEF FilesInv
      <4>2. RepairOK(b) /\ holder[f] = None /\ b # None
        BY DEF FilesInv, ReadIntent, MayRepair
      <4> QED
        BY <3>1, <4>1, <4>2 DEF FilesInv, RepairOK, LocksLast, ReadIntent
    <3> QED
      BY <3>2, <3>3
  <2>2. CASE intent[f] # "pending"
    <3>1. /\ repair' = repair /\ holder' = holder
          /\ upload' = [upload EXCEPT ![f] = "error"]
          /\ repair[f] = NoJob
      BY <2>2 DEF ReadIntent, Goto
    <3> QED
      BY <3>1 DEF FilesInv, RepairOK, LocksLast, ReadIntent, NoJob
  <2> QED
    BY <2>1, <2>2
<1>5. ASSUME NEW b \in Actors PROVE PurgeOK(b)'
  BY DEF FilesInv, PurgeOK, LocksLast, ReadIntent
<1> QED
  BY <1>1, <1>2, <1>3, <1>4, <1>5 DEF FilesInv

\* A worker picks a deleted file.
LEMMA ListDeletionKeeps ==
    ASSUME FilesInv, NEW f \in Files, NEW a \in Actors, ListDeletion(a, f), fault' = fault
    PROVE  FilesInv'
<1> USE FilesAssumption DEF Actors
<1>1. FilesTypeOK'
  BY DEF FilesInv, FilesTypeOK, ListDeletion
<1>2. ASSUME NEW g \in Files PROVE IntentOK(g)'
  BY DEF FilesInv, IntentOK, ListDeletion
<1>3. ASSUME NEW g \in Files PROVE ObjectOK(g)'
  BY DEF FilesInv, ObjectOK, LocksLast, Uploading, ListDeletion
<1>4. ASSUME NEW b \in Actors PROVE RepairOK(b)'
  BY DEF FilesInv, RepairOK, LocksLast, ListDeletion
<1>5. ASSUME NEW b \in Actors PROVE PurgeOK(b)'
  BY DEF FilesInv, PurgeOK, LocksLast, ListDeletion
<1> QED
  BY <1>1, <1>2, <1>3, <1>4, <1>5 DEF FilesInv

\* Under the lock, and with no COMMIT on its way, a pending intent means there is no file row.
LEMMA CountFilesKeeps ==
    ASSUME FilesInv, NEW a \in Actors, CountFiles(a), fault' = fault
    PROVE  FilesInv'
<1> USE FilesAssumption DEF Actors
<1>1. FilesTypeOK'
  BY DEF FilesInv, FilesTypeOK, CountFiles
<1>2. ASSUME NEW g \in Files PROVE IntentOK(g)'
  BY DEF FilesInv, IntentOK, CountFiles
<1>3. ASSUME NEW g \in Files PROVE ObjectOK(g)'
  BY DEF FilesInv, ObjectOK, LocksLast, Uploading, CountFiles
<1>4. ASSUME NEW b \in Actors PROVE RepairOK(b)'
  BY DEF FilesInv, RepairOK, LocksLast, CountFiles
<1>5. ASSUME NEW b \in Actors PROVE PurgeOK(b)'
  BY DEF FilesInv, PurgeOK, LocksLast, CountFiles
<1> QED
  BY <1>1, <1>2, <1>3, <1>4, <1>5 DEF FilesInv

\* storage.Delete of a repair: while locks last and commits are decided no file row wants the object.
LEMMA RemoveObjectKeeps ==
    ASSUME FilesInv, NEW a \in Actors, NEW ok \in BOOLEAN, RemoveObject(a, ok), fault' = fault
    PROVE  FilesInv'
<1> USE FilesAssumption DEF Actors
<1>1. FilesTypeOK'
  BY DEF FilesInv, FilesTypeOK, RemoveObject
<1>2. ASSUME NEW g \in Files PROVE IntentOK(g)'
  BY DEF FilesInv, IntentOK, RemoveObject
<1>3. ASSUME NEW g \in Files PROVE ObjectOK(g)'
  BY DEF FilesInv, IntentOK, ObjectOK, RepairOK, LocksLast, Uploading, RemoveObject
<1>4. ASSUME NEW b \in Actors PROVE RepairOK(b)'
  BY DEF FilesInv, RepairOK, LocksLast, RemoveObject
<1>5. ASSUME NEW b \in Actors PROVE PurgeOK(b)'
  BY DEF FilesInv, PurgeOK, LocksLast, RemoveObject
<1> QED
  BY <1>1, <1>2, <1>3, <1>4, <1>5 DEF FilesInv

\* finishUploadIntent: an intent is abandoned only once its object is gone, and one whose file is
\* present was completed by its transaction.
LEMMA FinishIntentKeeps ==
    ASSUME FilesInv, NEW a \in Actors, FinishIntent(a), fault' = fault
    PROVE  FilesInv'
<1> USE FilesAssumption DEF Actors
<1>1. FilesTypeOK'
  BY DEF FilesInv, FilesTypeOK, FinishIntent, EndRepair, Release, NoJob
<1>2. ASSUME NEW g \in Files PROVE IntentOK(g)'
  BY DEF FilesInv, IntentOK, FinishIntent, EndRepair
<1>3. ASSUME NEW g \in Files PROVE ObjectOK(g)'
  BY DEF FilesInv, IntentOK, ObjectOK, RepairOK, LocksLast, Uploading, FinishIntent, EndRepair,
         Release
<1>4. ASSUME NEW b \in Actors PROVE RepairOK(b)'
  BY DEF FilesInv, FilesTypeOK, RepairOK, LocksLast, FinishIntent, EndRepair, Release, NoJob
<1>5. ASSUME NEW b \in Actors PROVE PurgeOK(b)'
  BY DEF FilesInv, PurgeOK, LocksLast, FinishIntent
<1> QED
  BY <1>1, <1>2, <1>3, <1>4, <1>5 DEF FilesInv

\* A repair that ends early gives the lock back.
LEMMA AbortRepairKeeps ==
    ASSUME FilesInv, NEW a \in Actors, AbortRepair(a), fault' = fault
    PROVE  FilesInv'
<1> USE FilesAssumption DEF Actors
<1>1. FilesTypeOK'
  BY DEF FilesInv, FilesTypeOK, AbortRepair, EndRepair, Release, NoJob
<1>2. ASSUME NEW g \in Files PROVE IntentOK(g)'
  BY DEF FilesInv, IntentOK, AbortRepair, EndRepair
<1>3. ASSUME NEW g \in Files PROVE ObjectOK(g)'
  BY DEF FilesInv, FilesTypeOK, ObjectOK, LocksLast, Uploading, AbortRepair, EndRepair, Release
<1>4. ASSUME NEW b \in Actors PROVE RepairOK(b)'
  BY DEF FilesInv, FilesTypeOK, RepairOK, LocksLast, AbortRepair, EndRepair, Release, NoJob
<1>5. ASSUME NEW b \in Actors PROVE PurgeOK(b)'
  BY DEF FilesInv, PurgeOK, LocksLast, AbortRepair
<1> QED
  BY <1>1, <1>2, <1>3, <1>4, <1>5 DEF FilesInv

\* storage.Delete of a purge: the file is deleted, and no upload of it is under way.
LEMMA PurgeObjectKeeps ==
    ASSUME FilesInv, NEW a \in Actors, NEW ok \in BOOLEAN, PurgeObject(a, ok), fault' = fault
    PROVE  FilesInv'
<1> USE FilesAssumption DEF Actors
<1>1. FilesTypeOK'
  BY DEF FilesInv, FilesTypeOK, PurgeObject
<1>2. ASSUME NEW g \in Files PROVE IntentOK(g)'
  BY DEF FilesInv, IntentOK, PurgeObject
<1>3. ASSUME NEW g \in Files PROVE ObjectOK(g)'
  BY DEF FilesInv, IntentOK, ObjectOK, PurgeOK, LocksLast, Uploading, PurgeObject
<1>4. ASSUME NEW b \in Actors PROVE RepairOK(b)'
  BY DEF FilesInv, RepairOK, LocksLast, PurgeObject
<1>5. ASSUME NEW b \in Actors PROVE PurgeOK(b)'
  BY DEF FilesInv, PurgeOK, LocksLast, PurgeObject
<1> QED
  BY <1>1, <1>2, <1>3, <1>4, <1>5 DEF FilesInv

\* object_deleted_at is set only once the object is gone.
LEMMA FinishPurgeKeeps ==
    ASSUME FilesInv, NEW a \in Actors, FinishPurge(a), fault' = fault
    PROVE  FilesInv'
<1> USE FilesAssumption DEF Actors
<1>1. FilesTypeOK'
  BY DEF FilesInv, FilesTypeOK, FinishPurge, NoJob
<1>2. ASSUME NEW g \in Files PROVE IntentOK(g)'
  BY DEF FilesInv, IntentOK, FinishPurge
<1>3. ASSUME NEW g \in Files PROVE ObjectOK(g)'
  BY DEF FilesInv, ObjectOK, PurgeOK, LocksLast, Uploading, FinishPurge, Purged
<1>4. ASSUME NEW b \in Actors PROVE RepairOK(b)'
  BY DEF FilesInv, RepairOK, LocksLast, FinishPurge
<1>5. ASSUME NEW b \in Actors PROVE PurgeOK(b)'
  BY DEF FilesInv, PurgeOK, LocksLast, FinishPurge, NoJob
<1> QED
  BY <1>1, <1>2, <1>3, <1>4, <1>5 DEF FilesInv

\* A purge that ends early changes no row.
LEMMA AbortPurgeKeeps ==
    ASSUME FilesInv, NEW a \in Actors, AbortPurge(a), fault' = fault
    PROVE  FilesInv'
<1> USE FilesAssumption DEF Actors
<1>1. FilesTypeOK'
  BY DEF FilesInv, FilesTypeOK, AbortPurge, NoJob
<1>2. ASSUME NEW g \in Files PROVE IntentOK(g)'
  BY DEF FilesInv, IntentOK, AbortPurge
<1>3. ASSUME NEW g \in Files PROVE ObjectOK(g)'
  BY DEF FilesInv, ObjectOK, LocksLast, Uploading, AbortPurge
<1>4. ASSUME NEW b \in Actors PROVE RepairOK(b)'
  BY DEF FilesInv, RepairOK, LocksLast, AbortPurge
<1>5. ASSUME NEW b \in Actors PROVE PurgeOK(b)'
  BY DEF FilesInv, PurgeOK, LocksLast, AbortPurge, NoJob
<1> QED
  BY <1>1, <1>2, <1>3, <1>4, <1>5 DEF FilesInv

-----------------------------------------------------------------------------

\* Nothing has been uploaded.
LEMMA FilesInitial == FilesInit => FilesInv
<1> SUFFICES ASSUME FilesInit PROVE FilesInv
  OBVIOUS
<1> USE FilesAssumption DEF Actors
<1>1. FilesTypeOK
  BY DEF FilesInit, FilesTypeOK, NoJob
<1>2. ASSUME NEW f \in Files PROVE IntentOK(f) /\ ObjectOK(f)
  BY <1>2 DEF FilesInit, IntentOK, ObjectOK, Uploading
<1>3. ASSUME NEW a \in Actors PROVE RepairOK(a) /\ PurgeOK(a)
  BY <1>3 DEF FilesInit, RepairOK, PurgeOK, NoJob
<1> QED
  BY <1>1, <1>2, <1>3 DEF FilesInv

\* One step of any request, repair or purge.
LEMMA FilesStep == FilesInv /\ [FilesNext /\ UNCHANGED fault]_<<filesVars, fault>> => FilesInv'
<1> SUFFICES ASSUME FilesInv, [FilesNext /\ UNCHANGED fault]_<<filesVars, fault>> PROVE FilesInv'
  OBVIOUS
<1>1. ASSUME NEW f \in Files, UploadStep(f), fault' = fault PROVE FilesInv'
  BY <1>1, InsertIntentKeeps, PutKeeps, CommitKeeps, RollbackKeeps, LeaveCommitKeeps,
     CommitLandsKeeps, CommitDroppedKeeps, CrashUploadKeeps
     DEF UploadStep
<1>2. ASSUME NEW f \in Files, Delete(f) \/ ComesDue(f) \/ LockVanishes(f), fault' = fault
      PROVE  FilesInv'
  BY <1>2, DeleteKeeps, ComesDueKeeps, LockVanishesKeeps
<1>3. ASSUME NEW a \in Actors, RepairStep(a), fault' = fault PROVE FilesInv'
  BY <1>3, ReadIntentKeeps, CountFilesKeeps, FinishIntentKeeps, AbortRepairKeeps,
     RemoveObjectKeeps
     DEF RepairStep
<1>4. ASSUME NEW a \in Actors, PurgeStep(a), fault' = fault PROVE FilesInv'
  BY <1>4, ListDeletionKeeps, PurgeObjectKeeps, FinishPurgeKeeps, AbortPurgeKeeps DEF PurgeStep
<1>5. CASE UNCHANGED <<filesVars, fault>>
  BY <1>5
     DEF filesVars, FilesInv, FilesTypeOK, IntentOK, ObjectOK, RepairOK, PurgeOK, LocksLast,
         Uploading
<1> QED
  BY <1>1, <1>2, <1>3, <1>4, <1>5 DEF FilesNext

\* The invariant holds throughout, for any files and workers and any faults: a repair under way has
\* its file to itself while locks last, and without locks the pending intent still decides.
THEOREM FilesInvariance == FilesSpec => []FilesInv
<1> QED
  BY FilesInitial, FilesStep, PTL DEF FilesSpec

\* Rows, locks and jobs have their types.
THEOREM FilesTypes == FilesSpec => []FilesTypeOK
<1>1. FilesInv => FilesTypeOK
  BY DEF FilesInv
<1> QED
  BY <1>1, FilesInvariance, PTL

\* Rows and objects agree: without faults a live file has its object, and while locks last no object
\* is left that neither a row nor a pending intent accounts for (Upload, processUploadIntent and
\* processDeletion of files/service.go, side by side).
THEOREM FilesMatch == FilesSpec => []FilesMatchObjects
<1>1. FilesInv => FilesMatchObjects
  BY DEF FilesInv, FilesTypeOK, ObjectOK, LocksLast, FilesMatchObjects, FilesHaveObjects,
         LiveFileHasObject, NoOrphanObject
<1> QED
  BY <1>1, FilesInvariance, PTL

\* A file row exists only with a completed intent, whatever the faults: the update of the pending
\* intent in the row's transaction, and not the lock, decides the upload (service.go, Upload).
THEOREM IntentDecides == FilesSpec => []IntentDecidesUpload
<1>1. FilesInv => IntentDecidesUpload
  BY DEF FilesInv, IntentOK, IntentDecidesUpload
<1> QED
  BY <1>1, FilesInvariance, PTL
=============================================================================
