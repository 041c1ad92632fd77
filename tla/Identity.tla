------------------------------ MODULE Identity ------------------------------
(***************************************************************************)
(* Accounts, mail tokens, sessions, access tokens and API keys             *)
(* (identity/service.py, identity/apikeys.py, auth/rbac.py,                *)
(* apps/api/auth_deps.py and the /v1/auth and /v1/admin handlers).         *)
(*                                                                         *)
(* A handler runs on a thread of the pool and talks to the database in     *)
(* several transactions: what it read in one may be stale in the next.     *)
(* threads[c] is the handler on thread c, between two transactions. The    *)
(* audit log is left out: it is appended to and decides nothing.           *)
(***************************************************************************)
EXTENDS Naturals, FiniteSets, Sequences

CONSTANTS
    Mails,          \* addresses (one account each)
    Passwords,      \* passwords that are long enough
    NoUser,         \* no row in users
    Sizes           \* the installations to try: a pool of threads, the addresses
                    \* and passwords in use, bounds on the rows of each table

Roles == {"viewer", "admin"}
Accounts == [role : Roles, password : Passwords, verified : BOOLEAN]

ASSUME UserAssumption == NoUser \notin Accounts

ASSUME SizesAssumption ==
    \A s \in Sizes : s.mails \subseteq Mails /\ s.passwords \subseteq Passwords

VARIABLES
    size,           \* the installation, one of Sizes
    verification,   \* settings.email_verification_enabled
    users,          \* Mails -> account row with its password, or NoUser
    mailTokens,     \* rows of email_verifications
    sessions,       \* rows of sessions (refresh tokens)
    bearers,        \* access tokens: signed, kept by the client only
    apiKeys,        \* rows of api_keys
    secrets,        \* API key secrets generated so far
    retired,        \* secrets their owner revoked or rotated away
    threads         \* the handler of each thread

identityVars == <<size, verification, users, mailTokens, sessions, bearers, apiKeys, secrets, retired, threads>>

Idle == [op |-> "idle"]
Purposes == {"verify", "reset"}
Admins == {m \in Mails : users[m] # NoUser /\ users[m].role = "admin"}

Account(role, password) == [role |-> role, password |-> password, verified |-> FALSE]

Free(c) == threads[c] = Idle
At(c, op) == threads[c].op = op
Become(c, state) == threads' = [threads EXCEPT ![c] = state]

IdentityInit ==
    /\ size \in Sizes /\ verification \in BOOLEAN
    /\ users = [m \in Mails |-> NoUser]
    /\ mailTokens = <<>> /\ sessions = <<>> /\ bearers = {}
    /\ apiKeys = <<>> /\ secrets = 0 /\ retired = {}
    /\ threads = [c \in size.pool |-> Idle]

-----------------------------------------------------------------------------
(* Registration *)

\* The rows of an account, its mail identity and its password: one commit. A
\* second request with the same address hits UNIQUE(email).
Insert(c, m, row) ==
    IF users[m] = NoUser
    THEN users' = [users EXCEPT ![m] = row] /\ Become(c, [threads[c] EXCEPT !.op = "welcome"])
    ELSE UNCHANGED users /\ Become(c, Idle)

\* _create_email_token: one row per mail sent; earlier ones stay good.
MailToken(m, purpose) ==
    /\ Len(mailTokens) < size.mailTokens
    /\ mailTokens' = Append(mailTokens, [mail |-> m, purpose |-> purpose, consumed |-> FALSE, expired |-> FALSE])

AuthRegister(c) ==
    /\ Free(c)
    /\ \E m \in size.mails, p \in size.passwords :
         /\ users[m] = NoUser
         /\ Become(c, [op |-> "insert", mail |-> m, password |-> p, role |-> "viewer"])
    /\ UNCHANGED <<size, verification, users, mailTokens, sessions, bearers, apiKeys, secrets, retired>>

InsertUser(c) ==
    /\ At(c, "insert")
    /\ Insert(c, threads[c].mail, Account(threads[c].role, threads[c].password))
    /\ UNCHANGED <<size, verification, mailTokens, sessions, bearers, apiKeys, secrets, retired>>

Verified(m) == [users EXCEPT ![m].verified = TRUE]

\* mutant
Welcome_verified(c) ==
    /\ At(c, "welcome")
    /\ users' = Verified(threads[c].mail)
    /\ Become(c, IF threads[c].role = "admin" THEN [threads[c] EXCEPT !.op = "promote"] ELSE Idle)
    /\ UNCHANGED <<size, verification, mailTokens, sessions, bearers, apiKeys, secrets, retired>>

\* The rest of register: the verification mail, or the flag where mails are
\* not used. A mail server that refuses ends the request after the commit.
Welcome(c) ==
    /\ At(c, "welcome")
    /\ LET next == IF threads[c].role = "admin" THEN [threads[c] EXCEPT !.op = "promote"] ELSE Idle
       IN  IF verification
           THEN /\ MailToken(threads[c].mail, "verify")
                /\ \E sent \in BOOLEAN : Become(c, IF sent THEN next ELSE Idle)
                /\ UNCHANGED users
           ELSE users' = Verified(threads[c].mail) /\ Become(c, next) /\ UNCHANGED mailTokens
    /\ UNCHANGED <<size, verification, sessions, bearers, apiKeys, secrets, retired>>

-----------------------------------------------------------------------------
(* The first administrator *)

\* With the right token, and no administrator yet.
AdminBootstrap(c) ==
    /\ Free(c)
    /\ Admins = {}
    /\ \E m \in size.mails, p \in size.passwords :
         Become(c, [op |-> "bootstrap", mail |-> m, password |-> p, role |-> "admin"])
    /\ UNCHANGED <<size, verification, users, mailTokens, sessions, bearers, apiKeys, secrets, retired>>

\* get_user_by_email: an account is promoted, a new address registered.
BootstrapLookup(c) ==
    /\ At(c, "bootstrap")
    /\ Become(c, [threads[c] EXCEPT !.op = IF users[threads[c].mail] = NoUser THEN "insert" ELSE "promote"])
    /\ UNCHANGED <<size, verification, users, mailTokens, sessions, bearers, apiKeys, secrets, retired>>

\* The last UPDATE of both ways: the role (already set on a new account) and
\* the verified flag.
Promote(c) ==
    /\ At(c, "promote")
    /\ users' = [users EXCEPT ![threads[c].mail].role = "admin", ![threads[c].mail].verified = TRUE]
    /\ Become(c, Idle)
    /\ UNCHANGED <<size, verification, mailTokens, sessions, bearers, apiKeys, secrets, retired>>

-----------------------------------------------------------------------------
(* Sessions and access tokens *)

\* issue_token: signed, with the role as it was read.
Issue(m, role) ==
    /\ Cardinality(bearers) < size.bearers
    /\ bearers' = bearers \cup {[mail |-> m, role |-> role]}

\* authenticate reads the account; its role and verified flag are of now.
AuthLogin(c) ==
    /\ Free(c)
    /\ \E m \in size.mails, p \in size.passwords :
         /\ users[m] # NoUser
         /\ Become(c, [op |-> "password", mail |-> m, password |-> p,
                       role |-> users[m].role, verified |-> users[m].verified])
    /\ UNCHANGED <<size, verification, users, mailTokens, sessions, bearers, apiKeys, secrets, retired>>

\* mutant
CheckPassword_unverified(c) ==
    /\ At(c, "password")
    /\ Become(c, IF users[threads[c].mail].password = threads[c].password
                 THEN [threads[c] EXCEPT !.op = "session"] ELSE Idle)
    /\ UNCHANGED <<size, verification, users, mailTokens, sessions, bearers, apiKeys, secrets, retired>>

CheckPassword(c) ==
    /\ At(c, "password")
    /\ Become(c, IF /\ users[threads[c].mail].password = threads[c].password
                    /\ verification => threads[c].verified
                 THEN [threads[c] EXCEPT !.op = "session"] ELSE Idle)
    /\ UNCHANGED <<size, verification, users, mailTokens, sessions, bearers, apiKeys, secrets, retired>>

OpenSession(c) ==
    /\ At(c, "session")
    /\ Len(sessions) < size.sessions
    /\ sessions' = Append(sessions, [mail |-> threads[c].mail, revoked |-> FALSE, expired |-> FALSE])
    /\ Issue(threads[c].mail, threads[c].role)
    /\ Become(c, Idle)
    /\ UNCHANGED <<size, verification, users, mailTokens, apiKeys, secrets, retired>>

AuthRefresh(c) ==
    /\ Free(c)
    /\ \E s \in DOMAIN sessions :
         /\ ~sessions[s].revoked /\ ~sessions[s].expired
         /\ Become(c, [op |-> "refresh", mail |-> sessions[s].mail])
    /\ UNCHANGED <<size, verification, users, mailTokens, sessions, bearers, apiKeys, secrets, retired>>

\* The account as it is now: a promotion shows in the new token.
Refresh(c) ==
    /\ At(c, "refresh")
    /\ Issue(threads[c].mail, users[threads[c].mail].role)
    /\ Become(c, Idle)
    /\ UNCHANGED <<size, verification, users, mailTokens, sessions, apiKeys, secrets, retired>>

Logout(s) ==
    /\ ~sessions[s].revoked
    /\ sessions' = [sessions EXCEPT ![s].revoked = TRUE]
    /\ UNCHANGED <<size, verification, users, mailTokens, bearers, apiKeys, secrets, retired, threads>>

-----------------------------------------------------------------------------
(* Mail tokens *)

\* request-verification and request-password-reset, for a known address.
RequestMail(m, purpose) ==
    /\ users[m] # NoUser
    /\ purpose = "verify" => ~users[m].verified
    /\ MailToken(m, purpose)
    /\ UNCHANGED <<size, verification, users, sessions, bearers, apiKeys, secrets, retired, threads>>

\* mutant
ReadMailToken_anyPurpose(c) ==
    /\ Free(c)
    /\ \E t \in DOMAIN mailTokens, purpose \in Purposes, p \in size.passwords :
         /\ ~mailTokens[t].consumed /\ ~mailTokens[t].expired
         /\ Become(c, [op |-> purpose, token |-> t, password |-> p])
    /\ UNCHANGED <<size, verification, users, mailTokens, sessions, bearers, apiKeys, secrets, retired>>

\* verify_email and reset_password: the SELECT and its checks.
ReadMailToken(c) ==
    /\ Free(c)
    /\ \E t \in DOMAIN mailTokens, purpose \in Purposes, p \in size.passwords :
         /\ mailTokens[t].purpose = purpose
         /\ ~mailTokens[t].consumed /\ ~mailTokens[t].expired
         /\ Become(c, [op |-> purpose, token |-> t, password |-> p])
    /\ UNCHANGED <<size, verification, users, mailTokens, sessions, bearers, apiKeys, secrets, retired>>

\* The UPDATEs, in one commit; whether the token is still unused is not
\* looked at again.
UseMailToken(c) ==
    /\ threads[c].op \in Purposes
    /\ LET t == threads[c].token
           m == mailTokens[t].mail
       IN  /\ users' = [users EXCEPT ![m].verified = TRUE,
                                     ![m].password = IF At(c, "reset") THEN threads[c].password ELSE @]
           /\ mailTokens' = [mailTokens EXCEPT ![t].consumed = TRUE]
    /\ Become(c, Idle)
    /\ UNCHANGED <<size, verification, sessions, bearers, apiKeys, secrets, retired>>

-----------------------------------------------------------------------------
(* API keys and the principal of a request *)

None == [user |-> NoUser]
Principal(m, role) == [user |-> m, role |-> role]

\* auth_deps.get_principal: an active key stands for its owner, with the
\* owner's role of now; an access token carries its own.
get_principal(credential) ==
    IF credential \in bearers THEN Principal(credential.mail, credential.role)
    ELSE LET rows == {k \in DOMAIN apiKeys : [secret |-> apiKeys[k].secret] = credential /\ apiKeys[k].status = "active"}
         IN  IF rows = {} THEN None
             ELSE LET owner == apiKeys[CHOOSE k \in rows : TRUE].owner IN Principal(owner, users[owner].role)

Credentials == bearers \cup {[secret |-> s] : s \in 1..secrets}
Callers == {get_principal(cr) : cr \in Credentials} \ {None}

CreateKey ==
    /\ secrets < size.secrets
    /\ \E caller \in Callers :
         apiKeys' = Append(apiKeys, [owner |-> caller.user, secret |-> secrets + 1, status |-> "active"])
    /\ secrets' = secrets + 1
    /\ UNCHANGED <<size, verification, users, mailTokens, sessions, bearers, retired, threads>>

\* mutant
RotateKey_statusOnly(k) ==
    /\ secrets < size.secrets
    /\ \E caller \in Callers : caller.user = apiKeys[k].owner
    /\ apiKeys' = [apiKeys EXCEPT ![k].status = "active"]
    /\ secrets' = secrets + 1
    /\ retired' = retired \cup {apiKeys[k].secret}
    /\ UNCHANGED <<size, verification, users, mailTokens, sessions, bearers, threads>>

\* A new secret; a revoked key is active again.
RotateKey(k) ==
    /\ secrets < size.secrets
    /\ \E caller \in Callers : caller.user = apiKeys[k].owner
    /\ apiKeys' = [apiKeys EXCEPT ![k].secret = secrets + 1, ![k].status = "active"]
    /\ secrets' = secrets + 1
    /\ retired' = retired \cup {apiKeys[k].secret}
    /\ UNCHANGED <<size, verification, users, mailTokens, sessions, bearers, threads>>

RevokeKey(k) ==
    /\ \E caller \in Callers : caller.user = apiKeys[k].owner
    /\ apiKeys' = [apiKeys EXCEPT ![k].status = "revoked"]
    /\ retired' = retired \cup {apiKeys[k].secret}
    /\ UNCHANGED <<size, verification, users, mailTokens, sessions, bearers, secrets, threads>>

-----------------------------------------------------------------------------
(* Time and crashes *)

Expire ==
    \/ /\ \E t \in DOMAIN mailTokens : mailTokens' = [mailTokens EXCEPT ![t].expired = TRUE]
       /\ UNCHANGED <<size, verification, users, sessions, bearers, apiKeys, secrets, retired, threads>>
    \/ /\ \E s \in DOMAIN sessions : sessions' = [sessions EXCEPT ![s].expired = TRUE]
       /\ UNCHANGED <<size, verification, users, mailTokens, bearers, apiKeys, secrets, retired, threads>>
    \/ /\ \E b \in bearers : bearers' = bearers \ {b}
       /\ UNCHANGED <<size, verification, users, mailTokens, sessions, apiKeys, secrets, retired, threads>>

\* The API process dies: what its handlers have committed stays.
Restart ==
    /\ threads' = [c \in DOMAIN threads |-> Idle]
    /\ UNCHANGED <<size, verification, users, mailTokens, sessions, bearers, apiKeys, secrets, retired>>

IdentityNext ==
    \/ \E c \in DOMAIN threads :
         \/ AuthRegister(c) \/ InsertUser(c) \/ Welcome(c)
         \/ AdminBootstrap(c) \/ BootstrapLookup(c) \/ Promote(c)
         \/ AuthLogin(c) \/ CheckPassword(c) \/ OpenSession(c)
         \/ AuthRefresh(c) \/ Refresh(c)
         \/ ReadMailToken(c) \/ UseMailToken(c)
    \/ \E m \in size.mails, purpose \in Purposes : RequestMail(m, purpose)
    \/ \E s \in DOMAIN sessions : Logout(s)
    \/ CreateKey
    \/ \E k \in DOMAIN apiKeys : RotateKey(k) \/ RevokeKey(k)
    \/ Expire
    \/ Restart

IdentitySpec == IdentityInit /\ [][IdentityNext]_identityVars

-----------------------------------------------------------------------------
(* Properties *)

ThreadStates ==
    {Idle}
    \cup [op : {"insert", "welcome", "bootstrap", "promote"}, mail : Mails, password : Passwords, role : Roles]
    \cup [op : {"password", "session"}, mail : Mails, password : Passwords, role : Roles, verified : BOOLEAN]
    \cup [op : {"refresh"}, mail : Mails]
    \cup [op : Purposes, token : Nat, password : Passwords]

MailTokenRows == [mail : Mails, purpose : Purposes, consumed : BOOLEAN, expired : BOOLEAN]
SessionRows == [mail : Mails, revoked : BOOLEAN, expired : BOOLEAN]
ApiKeyRows == [owner : Mails, secret : Nat, status : {"active", "revoked"}]

IdentityShapes ==
    /\ verification \in BOOLEAN
    /\ users \in [Mails -> Accounts \cup {NoUser}]
    /\ mailTokens \in Seq(MailTokenRows)
    /\ sessions \in Seq(SessionRows)
    /\ bearers \subseteq [mail : Mails, role : Roles]
    /\ apiKeys \in Seq(ApiKeyRows)
    /\ secrets \in Nat /\ retired \subseteq 1..secrets
    /\ size \in Sizes /\ threads \in [size.pool -> ThreadStates]

\* The accounts and rows that handlers, rows and tokens point to.
NothingDangles ==
    /\ \A c \in size.pool :
         /\ threads[c].op \in Purposes => threads[c].token \in DOMAIN mailTokens
         /\ threads[c].op \in {"welcome", "promote", "password", "session", "refresh"} => users[threads[c].mail] # NoUser
    /\ \A t \in DOMAIN mailTokens : users[mailTokens[t].mail] # NoUser
    /\ \A s \in DOMAIN sessions : users[sessions[s].mail] # NoUser
    /\ \A b \in bearers : users[b.mail] # NoUser
    /\ \A k \in DOMAIN apiKeys : users[apiKeys[k].owner] # NoUser /\ apiKeys[k].secret \in 1..secrets

\* The rows, tokens and handlers are of the shapes the schema and the handlers
\* give them, and nobody waits on a row that does not exist.
IdentityTypeOK == IdentityShapes /\ NothingDangles

\* Where mails are verified, an address is verified only because a token mailed
\* to it came back, or because a bootstrap made its account an administrator:
\* registering, signing in and asking for mails never do it.
VerifiedMailProven ==
    verification =>
        \A m \in Mails : (users[m] # NoUser /\ users[m].verified) =>
            \/ users[m].role = "admin"
            \/ \E t \in DOMAIN mailTokens : mailTokens[t].mail = m /\ mailTokens[t].consumed

\* Where mails are verified, nobody has a session, an access token or an API
\* key on an unverified address, though the flag is read two transactions
\* before the session is written.
LoginNeedsVerifiedMail ==
    verification =>
        /\ \A s \in DOMAIN sessions : users[sessions[s].mail].verified
        /\ \A b \in bearers : users[b.mail].verified
        /\ \A k \in DOMAIN apiKeys : users[apiKeys[k].owner].verified

\* The bootstrap closes behind itself: however requests and restarts
\* interleave, there are never more administrators than handlers that can have
\* seen "no administrator yet" at the same time, one with a single thread.
BootstrapCloses ==
    Cardinality(Admins) <= Cardinality(DOMAIN threads)

\* An access token never carries more than its account has: roles only rise,
\* and the role in a token was the account's when it was read.
TokensWithinRole ==
    \A b \in bearers : b.role = "admin" => b.mail \in Admins

\* Neither a revoked nor a rotated API key secret ever opens a door again,
\* whatever rotations and revocations follow.
RetiredSecretsStayDead ==
    \A s \in retired : get_principal([secret |-> s]) = None

\* A password changes only for a holder of a reset mail to that address.
PasswordNeedsResetMail ==
    [][\A m \in Mails :
        (users[m] # NoUser /\ users'[m].password # users[m].password) =>
            \E t \in DOMAIN mailTokens' : /\ mailTokens'[t].mail = m
                                          /\ mailTokens'[t].purpose = "reset"
                                          /\ mailTokens'[t].consumed]_identityVars

\* The doc of POST /v1/admin/bootstrap: once only, while there is no
\* administrator. Two requests that have both seen none make two.
OneBootstrap == Cardinality(Admins) <= 1

\* The doc of _create_email_token: a token works once. A handler that has
\* found it unused uses it whatever happened since.
MailTokensWorkOnce ==
    \A c \in DOMAIN threads : threads[c].op \in Purposes => ~mailTokens[threads[c].token].consumed

=============================================================================
