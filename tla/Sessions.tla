------------------------------ MODULE Sessions ------------------------------
(***************************************************************************)
(* Sign-in of one user (internal/authentication, internal/auth,            *)
(* internal/identity): the credential row with its failure counter and     *)
(* lock, the sessions with their rotating refresh tokens, and what         *)
(* revokes them.                                                           *)
(*                                                                         *)
(* A login reads the user, reads and verifies the credential, and only     *)
(* then opens its transaction: whatever commits between these steps is     *)
(* caught by the version it compares, or is not caught.  Refresh, Logout   *)
(* and the password changes lock the rows they read (FOR UPDATE) and are   *)
(* one step each.  A transaction that fails, the security event's enqueue  *)
(* included, rolls back and leaves no trace.                               *)
(***************************************************************************)
EXTENDS Naturals, FiniteSets

CONSTANTS
    Session,            \* ids of the identity_sessions rows that logins may insert
    Attempt,            \* login requests that may run at the same time
    MaxFailedAttempts,  \* cfg.Authentication.MaxFailedAttempts
    LeftToRight,        \* the database evaluates the assignments of a SET one after another (MySQL)
    MaxTokens,          \* bound: refresh tokens issued for one session
    MaxPasswords        \* bound: passwords set for the user

ASSUME BoundsAssumption ==
    /\ MaxFailedAttempts \in Nat \ {0} /\ LeftToRight \in BOOLEAN
    /\ MaxTokens \in Nat \ {0} /\ MaxPasswords \in Nat \ {0}

VARIABLES
    status,      \* identity_users.status
    changing,    \* an update or deletion of the user between its two statements
    credential,  \* identity_user_credentials
    login,       \* what each login in flight has read
    session,     \* identity_sessions
    history,     \* identity_refresh_token_history: <<session, token>> pairs
    authed,      \* some request of the user was authenticated by an access token
    replayed     \* sessions of which Refresh got a superseded token, the user being active

vars == <<status, changing, credential, login, session, history, authed, replayed>>

-----------------------------------------------------------------------------
(* State.                                                                  *)

Status == {"active", "disabled", "closed"}   \* 'locked' is treated as 'disabled'

\* Tokens and password hashes are random, so each is named by its rank among those
\* of its session, or of the user; 0 is the empty previous hash, or no credential.
Token == 0..MaxTokens

Password == 0..MaxPasswords

\* failed_attempts is only compared with the limit: it stays there once it reached it.
Credential == [password : Password, failed : 0..MaxFailedAttempts, locked : BOOLEAN]

\* fresh: the credential's version is still the one that a login verified.
Login == [pc : {"idle", "resolved", "verified", "refused"}, password : Password, fresh : BOOLEAN]

\* password: the password that the session's login verified.
Row == [state : {"absent", "open", "revoked"}, expired : BOOLEAN,
        token : Token, previous : Token, password : Password]

\* revokes: the sessions that its first statement revoked, locked until it commits.
Change == [to : Status, revokes : SUBSET Session]

NoChange == [to |-> "active", revokes |-> {}]

IdleLogin == [pc |-> "idle", password |-> 0, fresh |-> FALSE]

Init == /\ status = "active"
        /\ changing = NoChange
        /\ credential = [password |-> 0, failed |-> 0, locked |-> FALSE]
        /\ login = [a \in Attempt |-> IdleLogin]
        /\ session = [s \in Session |-> [state |-> "absent", expired |-> FALSE,
                                         token |-> 0, previous |-> 0, password |-> 0]]
        /\ history = {}
        /\ authed = FALSE
        /\ replayed = {}

-----------------------------------------------------------------------------
(* Helpers.                                                                *)

\* A transaction that writes a session row waits for the one that revoked it.
Unlocked(s) == s \notin changing.revokes

Revoked(row) == [row EXCEPT !.state = "revoked"]

\* UPDATE identity_sessions SET revoked_at=... WHERE user_id=? AND revoked_at IS NULL
RevokeIn(S) == [s \in Session |-> IF s \in S /\ session[s].state = "open"
                                  THEN Revoked(session[s]) ELSE session[s]]

Open == {s \in Session : session[s].state = "open"}

\* Every write of the credential increments its version.
Outdated(logins) == [a \in Attempt |-> [logins[a] EXCEPT !.fresh = FALSE]]

\* activeUserSessionSource: what bearer validation and the session probe accept.
ActiveUserSession(s) == /\ status = "active"
                        /\ credential.password # 0
                        /\ session[s].state = "open"
                        /\ ~session[s].expired

-----------------------------------------------------------------------------
(* Login.                                                                  *)

\* Login, up to the check of the user's status.
ResolveUser(a) ==
    /\ login[a].pc = "idle"
    /\ status = "active"
    /\ login' = [login EXCEPT ![a].pc = "resolved"]
    /\ UNCHANGED <<status, changing, credential, session, history, authed, replayed>>

\* Login reads the credential and verifies the password against it.
VerifyPassword(a) ==
    /\ login[a].pc = "resolved"
    /\ credential.password # 0 /\ ~credential.locked
    /\ \E outcome \in {"verified", "refused"} :
          login' = [login EXCEPT ![a] = [pc |-> outcome, password |-> credential.password,
                                         fresh |-> outcome = "verified"]]
    /\ UNCHANGED <<status, changing, credential, session, history, authed, replayed>>

\* Login returns an error: no credential, a locked one, or a rolled back transaction.
RejectLogin(a) ==
    /\ login[a].pc # "idle"
    /\ login' = [login EXCEPT ![a] = IdleLogin]
    /\ UNCHANGED <<status, changing, credential, session, history, authed, replayed>>

\* Mutant: the reset matches the credential by its id alone.
CredentialUnchanged_ById(a) == TRUE

\* WHERE id=? AND version=?
CredentialUnchanged(a) == login[a].fresh

\* Login's transaction: the credential is reset under the version read before, and the
\* session is inserted with its first token.
CommitLogin(a, s) ==
    /\ login[a].pc = "verified"
    /\ CredentialUnchanged(a)
    /\ session[s].state = "absent"
    /\ credential' = [credential EXCEPT !.failed = 0, !.locked = FALSE]
    /\ session' = [session EXCEPT ![s] = [state |-> "open", expired |-> FALSE, token |-> 1,
                                          previous |-> 0, password |-> login[a].password]]
    /\ login' = Outdated([login EXCEPT ![a] = IdleLogin])
    /\ UNCHANGED <<status, changing, history, authed, replayed>>

\* CASE WHEN failed_attempts+1>=?: where SET is evaluated from left to right, failed_attempts has
\* been incremented by then, and the lock comes one failure early.
ReachesLimit ==
    credential.failed + (IF LeftToRight THEN 2 ELSE 1) >= MaxFailedAttempts

\* Mutant: a counted failure leaves the credential's version alone.
recordFailure_Unversioned(a) ==
    LET counts == /\ login[a].password = credential.password
                  /\ ~credential.locked
                  /\ status = "active"
    IN  /\ login[a].pc = "refused"
        /\ login' = [login EXCEPT ![a] = IdleLogin]
        /\ credential' = IF counts
                         THEN [credential EXCEPT !.locked = ReachesLimit,
                                                 !.failed = IF ReachesLimit THEN MaxFailedAttempts ELSE @ + 1]
                         ELSE credential
        /\ UNCHANGED <<status, changing, session, history, authed, replayed>>

\* A wrong password is counted when the hash it was compared with is still in place and
\* the credential is not locked yet; a failure that is not counted is still audited.
recordFailure(a) ==
    LET counts == /\ login[a].password = credential.password
                  /\ ~credential.locked
                  /\ status = "active"
    IN  /\ login[a].pc = "refused"
        /\ IF counts
           THEN /\ credential' = [credential EXCEPT !.locked = ReachesLimit,
                                                    !.failed = IF ReachesLimit THEN MaxFailedAttempts ELSE @ + 1]
                /\ login' = Outdated([login EXCEPT ![a] = IdleLogin])
           ELSE /\ login' = [login EXCEPT ![a] = IdleLogin]
                /\ UNCHANGED credential
        /\ UNCHANGED <<status, changing, session, history, authed, replayed>>

-----------------------------------------------------------------------------
(* Refresh tokens.                                                         *)

\* Mutant: revocation and expiry are left to bearer validation.
Refreshable_Unchecked(s) == status = "active" /\ credential.password # 0

\* refreshSessionSelect joins the active user and a credential; revoked and expired
\* sessions are refused after the lookup.
Refreshable(s) == ActiveUserSession(s)

\* Mutant: only the previous token's hash is kept.
IsReplay_OneGeneration(s, t) == t = session[s].previous

\* The token is the previous one, or the history knows it.
IsReplay(s, t) == t = session[s].previous \/ <<s, t>> \in history

\* Refresh: the current token is exchanged for a new one and recorded as history; an
\* earlier token revokes the session; any other call changes nothing.
Refresh(s, t) ==
    /\ session[s].state # "absent" /\ Unlocked(s)
    /\ t \in 1..session[s].token
    /\ replayed' = IF t < session[s].token /\ status = "active" THEN replayed \cup {s} ELSE replayed
    /\ IF Refreshable(s) /\ t = session[s].token
       THEN /\ session[s].token < MaxTokens
            /\ session' = [session EXCEPT ![s].previous = t, ![s].token = t + 1]
            /\ history' = history \cup {<<s, t>>}
       ELSE /\ session' = IF Refreshable(s) /\ IsReplay(s, t)
                          THEN [session EXCEPT ![s] = Revoked(@)] ELSE session
            /\ UNCHANGED history
    /\ UNCHANGED <<status, changing, credential, login, authed>>

\* Mutant: signing out marks the row with a state that no query knows.
Logout_Marked(s, t) ==
    /\ session[s].state = "open" /\ Unlocked(s)
    /\ t = session[s].token
    /\ session' = [session EXCEPT ![s].state = "signed_out"]
    /\ UNCHANGED <<status, changing, credential, login, history, authed, replayed>>

\* Logout: the current token of a session that is not revoked, expired or not.
Logout(s, t) ==
    /\ session[s].state = "open" /\ Unlocked(s)
    /\ t = session[s].token
    /\ session' = [session EXCEPT ![s] = Revoked(@)]
    /\ UNCHANGED <<status, changing, credential, login, history, authed, replayed>>

\* Retention soft-deletes history whose session, and hence whose own copy of its
\* expires_at, has run out.
cleanupRefreshHistory(s, t) ==
    /\ <<s, t>> \in history
    /\ session[s].expired
    /\ history' = history \ {<<s, t>>}
    /\ UNCHANGED <<status, changing, credential, login, session, authed, replayed>>

-----------------------------------------------------------------------------
(* Requests of the signed-in user and of administrators.  Authentication   *)
(* happens once, when the request arrives; the operation may run at any    *)
(* time after it.                                                          *)

Authenticate(s) ==
    /\ ActiveUserSession(s)
    /\ authed' = TRUE
    /\ UNCHANGED <<status, changing, credential, login, session, history, replayed>>

\* RevokeSession with the row's current version; any other version changes nothing.
RevokeSession(s) ==
    /\ authed
    /\ session[s].state = "open" /\ Unlocked(s)
    /\ session' = [session EXCEPT ![s] = Revoked(@)]
    /\ UNCHANGED <<status, changing, credential, login, history, authed, replayed>>

\* LogoutAll by the user, ForceLogoutAll of a user that is not closed.
RevokeAll ==
    /\ authed \/ status # "closed"
    /\ changing.revokes = {}
    /\ session' = RevokeIn(Session)
    /\ UNCHANGED <<status, changing, credential, login, history, authed, replayed>>

\* updatePasswordAndRevoke, or the INSERT of a first credential: a new hash, no
\* failures, no lock, and every session revoked.
NewPassword ==
    /\ changing.revokes = {}
    /\ credential.password < MaxPasswords
    /\ credential' = [password |-> credential.password + 1, failed |-> 0, locked |-> FALSE]
    /\ login' = Outdated(login)
    /\ session' = RevokeIn(Session)
    /\ UNCHANGED <<status, changing, history, authed, replayed>>

\* SetPassword by an administrator, who need not know the old one.
SetPassword ==
    /\ status # "closed"
    /\ NewPassword

\* ChangePassword by the user, who does; it looks at the credential only.
ChangePassword ==
    /\ authed
    /\ credential.password # 0
    /\ NewPassword

-----------------------------------------------------------------------------
(* Status changes and deletion of the user: the sessions are revoked       *)
(* first, the user row is written second.  Of two changes at a time the    *)
(* version check lets one through, so one is modelled.                     *)

\* The first statement; a deletion needs no tenant or membership of the user.
BeginChange(to) ==
    /\ changing = NoChange
    /\ status # "closed" /\ to # "active"
    /\ changing' = [to |-> to, revokes |-> Open]
    /\ UNCHANGED <<status, credential, login, session, history, authed, replayed>>

\* The second statement and the commit.
CommitChange ==
    /\ changing # NoChange
    /\ status' = changing.to
    /\ session' = RevokeIn(changing.revokes)
    /\ changing' = NoChange
    /\ UNCHANGED <<credential, login, history, authed, replayed>>

\* The version is stale, or a statement fails.
RollbackChange ==
    /\ changing # NoChange
    /\ changing' = NoChange
    /\ UNCHANGED <<status, credential, login, session, history, authed, replayed>>

\* Update with status 'active' revokes nothing.
Activate ==
    /\ changing = NoChange
    /\ status = "disabled"
    /\ status' = "active"
    /\ UNCHANGED <<changing, credential, login, session, history, authed, replayed>>

-----------------------------------------------------------------------------
(* Time.                                                                   *)

\* locked_until passes.  The counter keeps its value: the next failure locks again.
LockExpires ==
    /\ credential.locked
    /\ credential' = [credential EXCEPT !.locked = FALSE]
    /\ UNCHANGED <<status, changing, login, session, history, authed, replayed>>

\* expires_at passes; a rotation never moves it.
SessionExpires(s) ==
    /\ session[s].state # "absent" /\ ~session[s].expired
    /\ session' = [session EXCEPT ![s].expired = TRUE]
    /\ UNCHANGED <<status, changing, credential, login, history, authed, replayed>>

-----------------------------------------------------------------------------
Next ==
    \/ \E a \in Attempt : \/ ResolveUser(a) \/ VerifyPassword(a) \/ RejectLogin(a)
                          \/ recordFailure(a)
                          \/ \E s \in Session : CommitLogin(a, s)
    \/ \E s \in Session : \/ Authenticate(s) \/ RevokeSession(s) \/ SessionExpires(s)
                          \/ \E t \in Token : \/ Refresh(s, t) \/ Logout(s, t)
                                              \/ cleanupRefreshHistory(s, t)
    \/ RevokeAll \/ SetPassword \/ ChangePassword
    \/ \E to \in Status : BeginChange(to)
    \/ CommitChange \/ RollbackChange \/ Activate
    \/ LockExpires

Spec == Init /\ [][Next]_vars

-----------------------------------------------------------------------------
(* Properties.                                                             *)

\* The rows have the shape of their tables (identity_users, identity_user_credentials,
\* identity_sessions), and logins hold what they read from them.
TypeOK ==
    /\ status \in Status
    /\ changing \in Change
    /\ credential \in Credential
    /\ login \in [Attempt -> Login]
    /\ session \in [Session -> Row]
    /\ history \subseteq Session \X Token
    /\ authed \in BOOLEAN
    /\ replayed \subseteq Session

\* A change or reset of the password ends every session of the old one, logins that
\* verified the old password and commit after the change included: a session that is
\* not revoked was opened with the password now in place (Login's version check).
OnlyCurrentPassword ==
    \A s \in Session : session[s].state = "open" => session[s].password = credential.password

\* A refresh token of any earlier generation that is presented again has revoked its
\* session, unless the session had run out (Refresh's reuse detection and history).
ReplayRevokes ==
    \A s \in replayed : session[s].state = "revoked" \/ session[s].expired

\* A revoked session is never opened again and never gets another token, whichever
\* refresh, logout or status change was under way when it was revoked.
RevokedIsFinal ==
    [][\A s \in Session : session[s].state = "revoked" =>
          /\ session'[s].state = "revoked"
          /\ session'[s].token = session[s].token]_vars

\* No session is opened on a locked credential, not even by a login that verified the
\* right password before the last failures were counted (recordFailure's version).
LockHolds ==
    [][credential.locked =>
          \A s \in Session : session[s].state = "absent" => session'[s].state = "absent"]_vars

\* The user update "revokes sessions when status becomes non-active": a user that is
\* not active has no session left that could come back with the user.
InactiveHasNoSession ==
    status # "active" => Open = {}

=============================================================================
