-------------------------- MODULE ServiceAccounts ---------------------------
(***************************************************************************)
(* A service account, its secret and its bearer tokens: administration and *)
(* authentication of serviceaccount/service.go, and the claims that        *)
(* auth/jwt.go issues, parses and compares with the row.                   *)
(*                                                                         *)
(* An authentication reads the row, verifies the secret and signs a token, *)
(* and then commits its success with the version it read; until then the   *)
(* row may change.  A wrong secret is counted by a statement of its own.   *)
(***************************************************************************)
EXTENDS Naturals, FiniteSets

CONSTANTS
    Attempt,        \* authentications under way
    MaxSecrets,     \* bound of the rotations
    MaxFailed,      \* maxFailedAttempts
    MaxWrites       \* bound of the version of the row

ASSUME AccountsAssumption == MaxFailed \in Nat

VARIABLES
    account,        \* the row of identity_service_accounts
    attempt,        \* what each authentication has read
    token,          \* the tokens handed out: their generation, and when
    epoch,          \* the changes of secret, status and expiry so far
    wrong,          \* the failures that were counted against the current secret
    setOrder        \* how the database evaluates the assignments of an UPDATE; never changes

accountsVars == <<account, attempt, token, epoch, wrong, setOrder>>

-----------------------------------------------------------------------------

Status == {"active", "disabled"}

\* PostgreSQL takes every expression of a SET from the row as it was; MySQL evaluates the
\* assignments from left to right, and an expression sees what those before it have set.
SetOrders == {"simultaneous", "sequential"}

NoAttempt == [on |-> FALSE]

AccountsInit == /\ account = [live |-> TRUE, status |-> "active", expires |-> "never", secret |-> 1,
                              generation |-> 1, failed |-> 0, locked |-> FALSE, version |-> 1]
                /\ attempt = [a \in Attempt |-> NoAttempt]
                /\ token = {}
                /\ epoch = 0
                /\ wrong = 0
                /\ setOrder \in SetOrders

\* Every statement increments the version; administration names the version that it read.
Write(row) == account.version < MaxWrites /\ account' = [row EXCEPT !.version = account.version + 1]

Usable == account.live /\ account.status = "active" /\ account.expires # "past"

\* Mutant: only a new secret begins a generation.
NextGeneration_Kept(status, expires) == account.generation

\* A change of status or expiry ends the tokens.
NextGeneration(status, expires) ==
    IF status = account.status /\ expires = account.expires THEN account.generation
    ELSE account.generation + 1

Update(version, status, expires) ==
    /\ account.live /\ account.version = version
    /\ Write([account EXCEPT !.generation = NextGeneration(status, expires), !.status = status,
                             !.expires = expires])
    /\ epoch' = IF status = account.status /\ expires = account.expires THEN epoch ELSE epoch + 1
    /\ UNCHANGED <<attempt, token, wrong, setOrder>>

RotateSecret(version) ==
    /\ account.live /\ account.version = version /\ account.secret < MaxSecrets
    /\ Write([account EXCEPT !.secret = @ + 1, !.generation = @ + 1, !.failed = 0, !.locked = FALSE])
    /\ epoch' = epoch + 1 /\ wrong' = 0
    /\ UNCHANGED <<attempt, token, setOrder>>

Delete(version) ==
    /\ account.live /\ account.version = version
    /\ Write([account EXCEPT !.live = FALSE, !.status = "disabled"])
    /\ epoch' = epoch + 1
    /\ UNCHANGED <<attempt, token, wrong, setOrder>>

-----------------------------------------------------------------------------
(* Authentication.                                                         *)

\* The row is read, and the secret is verified against what was read.
Authenticate(a, secret) ==
    /\ ~attempt[a].on /\ Usable /\ ~account.locked
    /\ attempt' = [attempt EXCEPT ![a] = [on |-> TRUE, valid |-> secret = account.secret,
                                          secret |-> account.secret, version |-> account.version,
                                          generation |-> account.generation]]
    /\ UNCHANGED <<account, token, epoch, wrong, setOrder>>

\* Mutant: a failure is counted whatever secret it was about.
ObservedSecret_Any(a) == TRUE

ObservedSecret(a) == account.secret = attempt[a].secret

\* failed_attempts as the CASE of locked_until reads it: already incremented on MySQL.
FailedSeen == IF setOrder = "sequential" THEN account.failed + 1 ELSE account.failed

\* A failure is counted unless no bound is configured, or the account is unusable, locked, or has
\* another secret by now.
recordFailure(a) ==
    /\ attempt[a].on /\ ~attempt[a].valid
    /\ attempt' = [attempt EXCEPT ![a] = NoAttempt]
    /\ IF MaxFailed > 0 /\ Usable /\ ~account.locked /\ ObservedSecret(a)
       THEN /\ Write([account EXCEPT !.failed = @ + 1, !.locked = FailedSeen + 1 >= MaxFailed])
            /\ wrong' = IF account.secret = attempt[a].secret THEN wrong + 1 ELSE wrong
       ELSE UNCHANGED <<account, wrong>>
    /\ UNCHANGED <<token, epoch, setOrder>>

\* The version and the secret that were read.
Unchanged(a) == account.version = attempt[a].version /\ account.secret = attempt[a].secret

\* The success is recorded, and the token that was signed before is handed out.
Issue(a) ==
    /\ attempt[a].on /\ attempt[a].valid
    /\ Unchanged(a) /\ Usable /\ ~account.locked
    /\ Write([account EXCEPT !.failed = 0, !.locked = FALSE])
    /\ token' = token \cup {[generation |-> attempt[a].generation, epoch |-> epoch]}
    /\ attempt' = [attempt EXCEPT ![a] = NoAttempt]
    /\ wrong' = 0
    /\ UNCHANGED <<epoch, setOrder>>

\* The authentication ends with an error and the token is dropped.
Reject(a) ==
    /\ attempt[a].on
    /\ attempt' = [attempt EXCEPT ![a] = NoAttempt]
    /\ UNCHANGED <<account, token, epoch, wrong, setOrder>>

\* verifyPrincipalState: the token's generation is the row's, and the row is usable.
verifyPrincipalState(t) == Usable /\ t.generation = account.generation

\* Time passes.
Expires ==
    /\ account.expires = "later"
    /\ account' = [account EXCEPT !.expires = "past"]
    /\ epoch' = epoch + 1
    /\ UNCHANGED <<attempt, token, wrong, setOrder>>

LockEnds ==
    /\ account.locked
    /\ account' = [account EXCEPT !.locked = FALSE]
    /\ UNCHANGED <<attempt, token, epoch, wrong, setOrder>>

AccountsNext == \/ \E v \in 1..MaxWrites : \/ RotateSecret(v) \/ Delete(v)
                                           \/ \E s \in Status, x \in {"never", "later"} : Update(v, s, x)
                \/ \E a \in Attempt : \/ \E s \in 1..MaxSecrets : Authenticate(a, s)
                                      \/ recordFailure(a) \/ Issue(a) \/ Reject(a)
                \/ Expires \/ LockEnds

AccountsSpec == AccountsInit /\ [][AccountsNext]_accountsVars

-----------------------------------------------------------------------------
(* The claims of tokens.                                                   *)

\* type, and which of the claims are there; a generation of 0 is none.
Claims == [type : {"user", "service_account", "system"}, session : BOOLEAN, tenant : BOOLEAN,
           membership : BOOLEAN, mustChange : BOOLEAN, generation : 0..2]

UserContext(c) == c.type = "user" /\ c.session /\ (c.tenant <=> c.membership)

AccountContext(c) == c.type = "service_account" /\ ~c.session /\ ~c.tenant /\ ~c.membership

\* Mutant: a service account may have the context of a tenant.
issuePrincipal_Tenant(c) ==
    \/ UserContext(c) /\ c.generation = 0
    \/ c.type = "service_account" /\ ~c.session /\ ~c.mustChange /\ c.generation > 0

issuePrincipal(c) ==
    \/ UserContext(c) /\ c.generation = 0
    \/ AccountContext(c) /\ ~c.mustChange /\ c.generation > 0

\* What Parse accepts of a token signed with a local key.
Parse(c) ==
    /\ c.type \in {"user", "service_account"}
    /\ c.type = "user" => c.session /\ (c.tenant <=> c.membership) /\ c.generation = 0
    /\ c.type = "service_account" => ~(c.session \/ c.tenant \/ c.membership \/ c.mustChange)
                                     /\ c.generation > 0

\* What is accepted of a token that another issuer has signed.
verifyRemote(c) ==
    \/ UserContext(c)
    \/ AccountContext(c) /\ ~c.mustChange /\ c.generation > 0

-----------------------------------------------------------------------------
(* Properties.                                                             *)

\* A token that is accepted was handed out under the secret, the status and the expiry that the
\* account has now: none of them has changed since, not even back and forth.
TokensEndWithCredential == \A t \in token : verifyPrincipalState(t) => t.epoch = epoch

\* An account is locked only by wrong secrets that were tried against its current secret, as
\* many as the bound, or one less where SET is evaluated from left to right; the attempts against
\* an old one do not lock the new one.
LockIsEarned ==
    account.locked => /\ wrong > 0
                      /\ wrong >= IF setOrder = "sequential" THEN MaxFailed - 1 ELSE MaxFailed

\* Every token that is issued is accepted, by this service and by another one, and both refuse
\* the mixture of an account and a user.
IssuedIsAccepted == \A c \in Claims : /\ issuePrincipal(c) => Parse(c)
                                      /\ Parse(c) => verifyRemote(c)

\* All three.
AccountsAreSound == TokensEndWithCredential /\ LockIsEarned /\ IssuedIsAccepted
=============================================================================
