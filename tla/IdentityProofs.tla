--------------------------- MODULE IdentityProofs ---------------------------
(***************************************************************************)
(* Theorems about accounts, mail tokens, sessions and API keys, for any    *)
(* addresses, passwords and installations: any number of handlers that     *)
(* interleave between their transactions, and crashes of the process.      *)
(***************************************************************************)
EXTENDS Identity, SequenceTheorems, TLAPS

\* What a handler read earlier and relies on: its mail token is of the kind it
\* handles; the role and the flag it took from an account are still the
\* account's; it goes for a session only with a verified account.
Holds(s) ==
    /\ s.op \in Purposes => s.token \in DOMAIN mailTokens /\ mailTokens[s.token].purpose = s.op
    /\ s.op \in {"welcome", "promote", "password", "session", "refresh"} => users[s.mail] # NoUser
    /\ s.op \in {"password", "session"} =>
         /\ s.role = "admin" => users[s.mail].role = "admin"
         /\ s.verified => users[s.mail].verified
    /\ verification =>
         /\ s.op = "session" => s.verified
         /\ s.op = "refresh" => users[s.mail].verified

ThreadsInv == \A c \in size.pool : Holds(threads[c])

\* A secret is of one key, and an active key's is not retired.
KeysInv ==
    /\ \A j, k \in DOMAIN apiKeys : apiKeys[j].secret = apiKeys[k].secret => j = k
    /\ \A k \in DOMAIN apiKeys : apiKeys[k].status = "active" => apiKeys[k].secret \notin retired

IdentityInv ==
    /\ IdentityTypeOK
    /\ ThreadsInv
    /\ VerifiedMailProven
    /\ LoginNeedsVerifiedMail
    /\ TokensWithinRole
    /\ KeysInv

-----------------------------------------------------------------------------
\* What no step takes away: accounts stay, and are only raised and verified;
\* mail tokens stay, and are only consumed.
AccountsKept ==
    \A m \in Mails : users[m] # NoUser =>
        /\ users'[m] # NoUser
        /\ users[m].verified => users'[m].verified
        /\ users[m].role = "admin" => users'[m].role = "admin"

TokensKept ==
    \A t \in DOMAIN mailTokens :
        /\ t \in DOMAIN mailTokens'
        /\ mailTokens'[t].mail = mailTokens[t].mail /\ mailTokens'[t].purpose = mailTokens[t].purpose
        /\ mailTokens[t].consumed => mailTokens'[t].consumed

Kept == AccountsKept /\ TokensKept /\ size' = size /\ verification' = verification

\* Appending and changing a row of a table, whatever its rows are.
LEMMA RowAdded ==
    ASSUME NEW S, NEW table \in Seq(S), NEW row \in S
    PROVE  /\ Append(table, row) \in Seq(S)
           /\ DOMAIN Append(table, row) = DOMAIN table \cup {Len(table) + 1}
           /\ Append(table, row)[Len(table) + 1] = row
           /\ \A i \in DOMAIN table : Append(table, row)[i] = table[i]
           /\ Len(table) + 1 \notin DOMAIN table
OBVIOUS

LEMMA RowChanged ==
    ASSUME NEW S, NEW table \in Seq(S), NEW i \in DOMAIN table, NEW row \in S
    PROVE  /\ [table EXCEPT ![i] = row] \in Seq(S)
           /\ DOMAIN [table EXCEPT ![i] = row] = DOMAIN table
           /\ [table EXCEPT ![i] = row][i] = row
           /\ \A j \in DOMAIN table \ {i} : [table EXCEPT ![i] = row][j] = table[j]
OBVIOUS

LEMMA RowsTyped ==
    ASSUME IdentityShapes
    PROVE  /\ \A t \in DOMAIN mailTokens : mailTokens[t] \in MailTokenRows
           /\ \A r \in DOMAIN sessions : sessions[r] \in SessionRows
           /\ \A k \in DOMAIN apiKeys : apiKeys[k] \in ApiKeyRows
BY ElementOfSeq DEF IdentityShapes

\* The steps of a handler.
Handler(c) ==
    \/ AuthRegister(c) \/ InsertUser(c) \/ Welcome(c)
    \/ AdminBootstrap(c) \/ BootstrapLookup(c) \/ Promote(c)
    \/ AuthLogin(c) \/ CheckPassword(c) \/ OpenSession(c)
    \/ AuthRefresh(c) \/ Refresh(c)
    \/ ReadMailToken(c) \/ UseMailToken(c)

-----------------------------------------------------------------------------
\* A handler's state, by the name of its operation.
LEMMA StateOf ==
    ASSUME NEW s \in ThreadStates
    PROVE  /\ s.op \in {"insert", "welcome", "bootstrap", "promote"} =>
                s \in [op : {"insert", "welcome", "bootstrap", "promote"}, mail : Mails, password : Passwords, role : Roles]
           /\ s.op \in {"password", "session"} =>
                s \in [op : {"password", "session"}, mail : Mails, password : Passwords, role : Roles, verified : BOOLEAN]
           /\ s.op = "refresh" => s \in [op : {"refresh"}, mail : Mails]
           /\ s.op \in Purposes => s \in [op : Purposes, token : Nat, password : Passwords]
BY DEF ThreadStates, Idle, Purposes

\* Accounts are only made, raised, verified and given passwords.
LEMMA AccountsStep ==
    ASSUME IdentityTypeOK, IdentityNext
    PROVE  users' \in [Mails -> Accounts \cup {NoUser}] /\ AccountsKept
<1> USE UserAssumption DEF IdentityTypeOK, IdentityShapes, AccountsKept
<1>1. ASSUME NEW m \in Mails, NEW row \in Accounts, users' = [users EXCEPT ![m] = row],
             users[m] # NoUser =>
                (users[m].verified => row.verified) /\ (users[m].role = "admin" => row.role = "admin")
      PROVE  users' \in [Mails -> Accounts \cup {NoUser}] /\ AccountsKept
  BY <1>1
<1>2. ASSUME NEW c \in DOMAIN threads, InsertUser(c)
      PROVE  users' \in [Mails -> Accounts \cup {NoUser}] /\ AccountsKept
  <2>1. threads[c].mail \in Mails /\ Account(threads[c].role, threads[c].password) \in Accounts
    BY <1>2, StateOf DEF InsertUser, At, Account, Accounts
  <2>2. CASE users' = users
    BY <2>2
  <2>3. CASE users[threads[c].mail] = NoUser /\ users' = [users EXCEPT ![threads[c].mail] = Account(threads[c].role, threads[c].password)]
    BY <1>1, <2>1, <2>3
  <2> QED BY <1>2, <2>2, <2>3 DEF InsertUser, Insert
<1>3. ASSUME NEW m \in Mails, users[m] # NoUser, users' = Verified(m)
      PROVE  users' \in [Mails -> Accounts \cup {NoUser}] /\ AccountsKept
  <2>1. [users[m] EXCEPT !.verified = TRUE] \in Accounts
    BY <1>3 DEF Accounts
  <2>2. users' = [users EXCEPT ![m] = [users[m] EXCEPT !.verified = TRUE]]
    BY <1>3 DEF Verified
  <2> QED BY <1>1, <2>1, <2>2, <1>3 DEF Accounts
<1>4. ASSUME NEW c \in DOMAIN threads, Welcome(c)
      PROVE  users' \in [Mails -> Accounts \cup {NoUser}] /\ AccountsKept
  <2>1. threads[c].mail \in Mails /\ users[threads[c].mail] # NoUser
    BY <1>4, StateOf DEF Welcome, At, NothingDangles
  <2>2. users' = users \/ users' = Verified(threads[c].mail)
    BY <1>4 DEF Welcome
  <2> QED BY <1>3, <2>1, <2>2
<1>5. ASSUME NEW c \in DOMAIN threads, Promote(c)
      PROVE  users' \in [Mails -> Accounts \cup {NoUser}] /\ AccountsKept
  <2> DEFINE m == threads[c].mail
             row == [users[m] EXCEPT !.role = "admin", !.verified = TRUE]
  <2>1. m \in Mails /\ users[m] # NoUser
    BY <1>5, StateOf DEF Promote, At, NothingDangles
  <2>2. row \in Accounts /\ row.role = "admin" /\ row.verified
    BY <2>1 DEF Accounts, Roles
  <2>3. users' = [users EXCEPT ![m] = row]
    BY <1>5 DEF Promote
  <2> QED BY <1>1, <2>1, <2>2, <2>3
<1>6. ASSUME NEW c \in DOMAIN threads, UseMailToken(c)
      PROVE  users' \in [Mails -> Accounts \cup {NoUser}] /\ AccountsKept
  <2> DEFINE m == mailTokens[threads[c].token].mail
             row == [users[m] EXCEPT !.verified = TRUE, !.password = IF At(c, "reset") THEN threads[c].password ELSE @]
  <2>0. threads[c].op \in Purposes /\ threads[c].token \in DOMAIN mailTokens /\ threads[c].password \in Passwords
    BY <1>6, StateOf DEF UseMailToken, NothingDangles
  <2>1. mailTokens[threads[c].token] \in MailTokenRows
    BY <2>0, RowsTyped
  <2>2. m \in Mails /\ users[m] # NoUser /\ users[m] \in Accounts
    BY <2>0, <2>1 DEF NothingDangles, MailTokenRows
  <2>3. row \in Accounts /\ row.role = users[m].role /\ row.verified
    BY <2>0, <2>2 DEF Accounts, At
  <2>4. users' = [users EXCEPT ![m] = row]
    BY <1>6 DEF UseMailToken
  <2> QED BY <1>1, <2>2, <2>3, <2>4
<1>7. CASE users' = users
  BY <1>7
<1> QED BY <1>2, <1>4, <1>5, <1>6, <1>7 DEF IdentityNext, AuthRegister, AdminBootstrap, BootstrapLookup, AuthLogin,
      CheckPassword, OpenSession, AuthRefresh, Refresh, ReadMailToken, RequestMail, Logout, CreateKey, RotateKey,
      RevokeKey, Expire, Restart

\* Mail tokens are only appended, consumed and expired.
LEMMA TokensStep ==
    ASSUME IdentityTypeOK, IdentityNext
    PROVE  /\ mailTokens' \in Seq(MailTokenRows) /\ TokensKept
           /\ \A t \in DOMAIN mailTokens' : users[mailTokens'[t].mail] # NoUser
<1> DEFINE Goal == /\ mailTokens' \in Seq(MailTokenRows) /\ TokensKept
                   /\ \A t \in DOMAIN mailTokens' : users[mailTokens'[t].mail] # NoUser
<1>1. mailTokens \in Seq(MailTokenRows) /\ \A t \in DOMAIN mailTokens : users[mailTokens[t].mail] # NoUser
  BY DEF IdentityTypeOK, IdentityShapes, NothingDangles
<1>2. ASSUME NEW m \in Mails, NEW purpose \in Purposes, users[m] # NoUser, MailToken(m, purpose) PROVE Goal
  <2> DEFINE row == [mail |-> m, purpose |-> purpose, consumed |-> FALSE, expired |-> FALSE]
  <2>1. row \in MailTokenRows /\ users[row.mail] # NoUser /\ mailTokens' = Append(mailTokens, row)
    BY <1>2 DEF MailToken, MailTokenRows
  <2> HIDE DEF row
  <2> QED BY <1>1, <2>1, RowAdded DEF TokensKept
<1>3. ASSUME NEW t \in DOMAIN mailTokens, NEW row \in MailTokenRows, mailTokens' = [mailTokens EXCEPT ![t] = row],
             row.mail = mailTokens[t].mail, row.purpose = mailTokens[t].purpose,
             mailTokens[t].consumed => row.consumed
      PROVE  Goal
  BY <1>1, <1>3, RowChanged DEF TokensKept
<1>4. ASSUME NEW c \in DOMAIN threads, Welcome(c) PROVE Goal
  <2>1. threads[c].mail \in Mails /\ users[threads[c].mail] # NoUser /\ "verify" \in Purposes
    BY <1>4, StateOf DEF Welcome, At, IdentityTypeOK, IdentityShapes, NothingDangles, Purposes
  <2>2. MailToken(threads[c].mail, "verify") \/ mailTokens' = mailTokens
    BY <1>4 DEF Welcome
  <2> QED BY <1>1, <1>2, <2>1, <2>2 DEF TokensKept
<1>5. ASSUME NEW m \in size.mails, NEW purpose \in Purposes, RequestMail(m, purpose) PROVE Goal
  <2>1. m \in Mails
    BY SizesAssumption DEF IdentityTypeOK, IdentityShapes
  <2> QED BY <1>2, <1>5, <2>1 DEF RequestMail
<1>6. ASSUME NEW c \in DOMAIN threads, UseMailToken(c) PROVE Goal
  <2> DEFINE t == threads[c].token
             row == [mailTokens[t] EXCEPT !.consumed = TRUE]
  <2>1. t \in DOMAIN mailTokens /\ mailTokens[t] \in MailTokenRows
    BY <1>1, <1>6, ElementOfSeq DEF UseMailToken, IdentityTypeOK, IdentityShapes, NothingDangles
  <2>2. row \in MailTokenRows /\ row.mail = mailTokens[t].mail /\ row.purpose = mailTokens[t].purpose /\ row.consumed
    BY <2>1 DEF MailTokenRows
  <2>3. mailTokens' = [mailTokens EXCEPT ![t] = row]
    BY <1>6 DEF UseMailToken
  <2> QED BY <1>3, <2>1, <2>2, <2>3
<1>7. ASSUME NEW t \in DOMAIN mailTokens, mailTokens' = [mailTokens EXCEPT ![t].expired = TRUE] PROVE Goal
  <2> DEFINE row == [mailTokens[t] EXCEPT !.expired = TRUE]
  <2>1. mailTokens[t] \in MailTokenRows
    BY <1>1, <1>7, ElementOfSeq
  <2>2. row \in MailTokenRows /\ row.mail = mailTokens[t].mail /\ row.purpose = mailTokens[t].purpose
        /\ row.consumed = mailTokens[t].consumed
    BY <2>1 DEF MailTokenRows
  <2>3. mailTokens' = [mailTokens EXCEPT ![t] = row]
    BY <1>7
  <2> QED BY <1>3, <1>7, <2>2, <2>3
<1>8. CASE mailTokens' = mailTokens
  BY <1>1, <1>8 DEF TokensKept
<1> QED BY <1>4, <1>5, <1>6, <1>7, <1>8 DEF IdentityNext, AuthRegister, InsertUser, AdminBootstrap, BootstrapLookup,
      Promote, AuthLogin, CheckPassword, OpenSession, AuthRefresh, Refresh, ReadMailToken, Logout, CreateKey, RotateKey,
      RevokeKey, Expire, Restart

LEMMA KeptStep == ASSUME IdentityTypeOK, IdentityNext PROVE Kept
<1>1. size' = size /\ verification' = verification
  BY DEF IdentityNext, AuthRegister, InsertUser, Welcome, AdminBootstrap, BootstrapLookup, Promote, AuthLogin,
     CheckPassword, OpenSession, AuthRefresh, Refresh, ReadMailToken, UseMailToken, RequestMail, Logout, CreateKey,
     RotateKey, RevokeKey, Expire, Restart
<1> QED BY <1>1, AccountsStep, TokensStep DEF Kept

\* What a handler relies on is kept by the steps of all the others.
LEMMA HeldStays ==
    ASSUME NEW s \in ThreadStates, Holds(s), Kept
    PROVE  Holds(s)'
BY StateOf DEF Holds, Kept, AccountsKept, TokensKept

\* A handler's step leaves it with a state it may rely on.
Moves(c) == \E s \in ThreadStates : threads' = [threads EXCEPT ![c] = s] /\ Holds(s)'

LEMMA IdleHolds == Idle \in ThreadStates /\ Holds(Idle) /\ Holds(Idle)'
BY DEF ThreadStates, Idle, Holds, Purposes

LEMMA HandlerStep ==
    ASSUME IdentityTypeOK, ThreadsInv, LoginNeedsVerifiedMail, Kept, NEW c \in DOMAIN threads, Handler(c)
    PROVE  Moves(c)
<1>0. PICK t \in ThreadStates : t = threads[c]
  BY DEF IdentityTypeOK, IdentityShapes
<1>1. Holds(t) /\ Holds(t)'
  <2>1. Holds(t)
    BY <1>0 DEF IdentityTypeOK, IdentityShapes, ThreadsInv
  <2> QED BY <2>1, HeldStays
<1>2. ASSUME threads' = [threads EXCEPT ![c] = Idle] PROVE Moves(c)
  BY <1>2, IdleHolds DEF Moves
<1>3. size.mails \subseteq Mails /\ size.passwords \subseteq Passwords /\ "reset" \in Purposes /\ "viewer" \in Roles
      /\ "admin" \in Roles
  BY SizesAssumption DEF IdentityTypeOK, IdentityShapes, Purposes, Roles
<1>4. ASSUME NEW m \in Mails, NEW p \in Passwords, NEW r \in Roles, NEW op \in {"insert", "bootstrap"},
             threads' = [threads EXCEPT ![c] = [op |-> op, mail |-> m, password |-> p, role |-> r]]
      PROVE  Moves(c)
  <2> DEFINE s == [op |-> op, mail |-> m, password |-> p, role |-> r]
  <2>1. s \in ThreadStates
    BY DEF ThreadStates
  <2>2. Holds(s)'
    BY DEF Holds, Purposes
  <2> QED BY <1>4, <2>1, <2>2 DEF Moves
<1>5. CASE AuthRegister(c) \/ AdminBootstrap(c)
  BY <1>3, <1>4, <1>5 DEF AuthRegister, AdminBootstrap, Become
<1>6. ASSUME NEW op \in {"insert", "welcome", "promote"}, t.op \in {"insert", "welcome", "bootstrap"},
             op \in {"welcome", "promote"} => users'[t.mail] # NoUser,
             threads' = [threads EXCEPT ![c] = [t EXCEPT !.op = op]]
      PROVE  Moves(c)
  <2> DEFINE s == [t EXCEPT !.op = op]
  <2>1. s \in ThreadStates /\ s.op = op /\ s.mail = t.mail
    BY <1>1, <1>6, StateOf DEF ThreadStates
  <2>2. Holds(s)'
    BY <1>6, <2>1 DEF Holds, Purposes
  <2> QED BY <1>6, <2>1, <2>2 DEF Moves
<1>7. CASE InsertUser(c)
  <2>1. t.op = "insert" /\ t.mail \in Mails /\ Account(t.role, t.password) \in Accounts
    BY <1>0, <1>7, StateOf DEF InsertUser, At, Account, Accounts
  <2>2. CASE users[t.mail] = NoUser
    <3>1. users' = [users EXCEPT ![t.mail] = Account(t.role, t.password)]
          /\ threads' = [threads EXCEPT ![c] = [t EXCEPT !.op = "welcome"]]
      BY <1>0, <1>7, <2>2 DEF InsertUser, Insert, Become
    <3>2. users'[t.mail] # NoUser
      BY <2>1, <3>1, UserAssumption DEF IdentityTypeOK, IdentityShapes
    <3> QED BY <1>6, <2>1, <3>1, <3>2
  <2>3. CASE users[t.mail] # NoUser
    BY <1>0, <1>2, <1>7, <2>3 DEF InsertUser, Insert, Become
  <2> QED BY <2>2, <2>3
<1>8. CASE Welcome(c)
  <2>1. t.op = "welcome" /\ t.mail \in Mails
    BY <1>0, <1>8, StateOf DEF Welcome, At
  <2>2. users'[t.mail] # NoUser
    BY <1>1, <2>1 DEF Holds
  <2>3. \/ threads' = [threads EXCEPT ![c] = Idle]
        \/ threads' = [threads EXCEPT ![c] = [t EXCEPT !.op = "promote"]]
    BY <1>0, <1>8 DEF Welcome, Become
  <2> QED BY <1>2, <1>6, <2>1, <2>2, <2>3
<1>9. CASE BootstrapLookup(c)
  <2>1. t.op = "bootstrap" /\ t.mail \in Mails /\ users' = users
    BY <1>0, <1>9, StateOf DEF BootstrapLookup, At
  <2>2. CASE users[t.mail] = NoUser
    BY <1>0, <1>6, <1>9, <2>1, <2>2 DEF BootstrapLookup, Become
  <2>3. CASE users[t.mail] # NoUser
    BY <1>0, <1>6, <1>9, <2>1, <2>3 DEF BootstrapLookup, Become
  <2> QED BY <2>2, <2>3
<1>10. CASE AuthLogin(c)
  <2>1. PICK m \in Mails, p \in Passwords :
          /\ users[m] # NoUser
          /\ threads' = [threads EXCEPT ![c] = [op |-> "password", mail |-> m, password |-> p,
                                               role |-> users[m].role, verified |-> users[m].verified]]
    BY <1>3, <1>10 DEF AuthLogin, Become
  <2>2. users[m] \in Accounts /\ users'[m] = users[m]
    BY <1>10, <2>1 DEF AuthLogin, IdentityTypeOK, IdentityShapes
  <2>3. PICK r \in Roles, v \in BOOLEAN : r = users[m].role /\ v = users[m].verified
    BY <2>2 DEF Accounts
  <2> DEFINE s == [op |-> "password", mail |-> m, password |-> p, role |-> r, verified |-> v]
  <2>4. s \in ThreadStates
    BY DEF ThreadStates
  <2>5. Holds(s)'
    BY <2>1, <2>2, <2>3 DEF Holds, Purposes
  <2> QED BY <2>1, <2>3, <2>4, <2>5 DEF Moves
<1>11. CASE CheckPassword(c)
  <2>1. t.op = "password" /\ users' = users /\ verification' = verification
    BY <1>0, <1>11 DEF CheckPassword, At
  <2>2. CASE verification => t.verified
    <3> DEFINE s == [t EXCEPT !.op = "session"]
    <3>1. s \in ThreadStates /\ s.op = "session" /\ s.mail = t.mail /\ s.role = t.role /\ s.verified = t.verified
      BY <1>1, <2>1, StateOf DEF ThreadStates
    <3>2. Holds(s)'
      BY <1>1, <2>1, <2>2, <3>1 DEF Holds, Purposes
    <3>3. threads' = [threads EXCEPT ![c] = s] \/ threads' = [threads EXCEPT ![c] = Idle]
      BY <1>0, <1>11 DEF CheckPassword, Become
    <3> HIDE DEF s
    <3> QED BY <1>2, <3>1, <3>2, <3>3 DEF Moves
  <2>3. CASE ~(verification => t.verified)
    BY <1>0, <1>2, <1>11, <2>3 DEF CheckPassword, Become
  <2> QED BY <2>2, <2>3
<1>12. CASE AuthRefresh(c)
  <2>1. PICK r \in DOMAIN sessions : threads' = [threads EXCEPT ![c] = [op |-> "refresh", mail |-> sessions[r].mail]]
    BY <1>12 DEF AuthRefresh, Become
  <2>2. users' = users /\ verification' = verification
    BY <1>12 DEF AuthRefresh
  <2>3. sessions[r].mail \in Mails
    BY RowsTyped DEF IdentityTypeOK, SessionRows
  <2>4. users[sessions[r].mail] # NoUser /\ (verification => users[sessions[r].mail].verified)
    BY DEF IdentityTypeOK, NothingDangles, LoginNeedsVerifiedMail
  <2>5. PICK m \in Mails : m = sessions[r].mail
    BY <2>3
  <2> DEFINE s == [op |-> "refresh", mail |-> m]
  <2>6. s \in ThreadStates
    BY DEF ThreadStates
  <2>7. users'[m] = users[m]
    BY <2>2
  <2>8. Holds(s)'
    BY <2>2, <2>4, <2>5, <2>7 DEF Holds, Purposes
  <2> QED BY <2>1, <2>5, <2>6, <2>8 DEF Moves
<1>13. CASE ReadMailToken(c)
  <2>1. PICK i \in DOMAIN mailTokens, purpose \in Purposes, p \in Passwords :
          /\ mailTokens[i].purpose = purpose
          /\ threads' = [threads EXCEPT ![c] = [op |-> purpose, token |-> i, password |-> p]]
    BY <1>3, <1>13 DEF ReadMailToken, Become
  <2> DEFINE s == [op |-> purpose, token |-> i, password |-> p]
  <2>2. mailTokens' = mailTokens
    BY <1>13 DEF ReadMailToken
  <2>3. i \in Nat
    BY DEF IdentityTypeOK, IdentityShapes
  <2>4. s \in ThreadStates
    BY <2>3 DEF ThreadStates
  <2>5. i \in DOMAIN mailTokens' /\ mailTokens'[i].purpose = purpose
    BY <2>1, <2>2
  <2>6. Holds(s)'
    BY <2>5 DEF Holds, Purposes
  <2> QED BY <2>1, <2>4, <2>6 DEF Moves
<1>14. CASE Promote(c) \/ OpenSession(c) \/ Refresh(c) \/ UseMailToken(c)
  BY <1>2, <1>14 DEF Promote, OpenSession, Refresh, UseMailToken, Become
<1> QED BY <1>5, <1>7, <1>8, <1>9, <1>10, <1>11, <1>12, <1>13, <1>14 DEF Handler

\* Every handler keeps what it may rely on.
LEMMA ThreadsStep ==
    ASSUME IdentityTypeOK, ThreadsInv, LoginNeedsVerifiedMail, IdentityNext
    PROVE  threads' \in [size.pool -> ThreadStates] /\ ThreadsInv'
<1>1. Kept /\ size' = size /\ threads \in [size.pool -> ThreadStates]
  BY KeptStep DEF Kept, IdentityTypeOK, IdentityShapes
<1>2. ASSUME NEW s \in ThreadStates, NEW x \in size.pool, threads[x] = s PROVE Holds(s)'
  <2>1. Holds(s)
    BY <1>2 DEF ThreadsInv
  <2> QED BY <1>1, <2>1, HeldStays
<1>3. CASE threads' = threads
  <2>1. ASSUME NEW x \in size.pool PROVE Holds(threads[x])'
    BY <1>1, <1>2, <1>3
  <2> QED BY <1>1, <1>3, <2>1 DEF ThreadsInv
<1>4. ASSUME NEW c \in DOMAIN threads, Handler(c)
      PROVE  threads' \in [size.pool -> ThreadStates] /\ ThreadsInv'
  <2>1. PICK s \in ThreadStates : threads' = [threads EXCEPT ![c] = s] /\ Holds(s)'
    BY <1>1, <1>4, HandlerStep DEF Moves
  <2>2. ASSUME NEW x \in size.pool PROVE Holds(threads[x])'
    BY <1>1, <1>2, <2>1
  <2> QED BY <1>1, <2>1, <2>2 DEF ThreadsInv
<1>5. CASE Restart
  <2>1. threads' = [c \in size.pool |-> Idle]
    BY <1>1, <1>5 DEF Restart
  <2> QED BY <1>1, <2>1, IdleHolds DEF ThreadsInv
<1> QED BY <1>3, <1>4, <1>5 DEF IdentityNext, Handler, RequestMail, Logout, CreateKey, RotateKey, RevokeKey, Expire

-----------------------------------------------------------------------------
\* Whoever calls stands for an account, a verified one where mails are
\* verified: the credential is a bearer token or the secret of an active key.
LEMMA CallersHaveAccounts ==
    ASSUME IdentityTypeOK, LoginNeedsVerifiedMail, NEW caller \in Callers
    PROVE  /\ caller.user \in Mails /\ users[caller.user] # NoUser
           /\ verification => users[caller.user].verified
<1>1. PICK credential \in Credentials : caller = get_principal(credential) /\ caller # None
  BY DEF Callers
<1>2. CASE credential \in bearers
  <2>1. caller.user = credential.mail
    BY <1>1, <1>2 DEF get_principal, Principal
  <2>2. credential.mail \in Mails
    BY <1>2 DEF IdentityTypeOK, IdentityShapes
  <2> QED BY <1>2, <2>1, <2>2 DEF IdentityTypeOK, NothingDangles, LoginNeedsVerifiedMail
<1>3. CASE credential \notin bearers
  <2> DEFINE rows == {k \in DOMAIN apiKeys : [secret |-> apiKeys[k].secret] = credential /\ apiKeys[k].status = "active"}
             k == CHOOSE j \in rows : TRUE
  <2>1. rows # {} /\ caller = Principal(apiKeys[k].owner, users[apiKeys[k].owner].role)
    BY <1>1, <1>3 DEF get_principal
  <2>2. k \in DOMAIN apiKeys
    BY <2>1
  <2> HIDE DEF k, rows
  <2>3. caller.user = apiKeys[k].owner
    BY <2>1 DEF Principal
  <2>4. apiKeys[k].owner \in Mails
    BY <2>2, RowsTyped DEF IdentityTypeOK, ApiKeyRows
  <2> QED BY <2>2, <2>3, <2>4 DEF IdentityTypeOK, NothingDangles, LoginNeedsVerifiedMail
<1> QED BY <1>2, <1>3

\* Sessions are only opened, for the account of a handler that was let in, or
\* revoked and expired.
LEMMA SessionsStep ==
    ASSUME IdentityTypeOK, ThreadsInv, IdentityNext
    PROVE  /\ sessions' \in Seq(SessionRows)
           /\ \A r \in DOMAIN sessions' :
                \/ r \in DOMAIN sessions /\ sessions'[r].mail = sessions[r].mail
                \/ /\ users[sessions'[r].mail] # NoUser
                   /\ verification => users[sessions'[r].mail].verified
<1> DEFINE Goal == /\ sessions' \in Seq(SessionRows)
                   /\ \A r \in DOMAIN sessions' :
                        \/ r \in DOMAIN sessions /\ sessions'[r].mail = sessions[r].mail
                        \/ /\ users[sessions'[r].mail] # NoUser
                           /\ verification => users[sessions'[r].mail].verified
<1>1. sessions \in Seq(SessionRows) /\ threads \in [size.pool -> ThreadStates]
  BY DEF IdentityTypeOK, IdentityShapes
<1>2. ASSUME NEW c \in DOMAIN threads, OpenSession(c) PROVE Goal
  <2> DEFINE row == [mail |-> threads[c].mail, revoked |-> FALSE, expired |-> FALSE]
  <2>1. threads[c].op = "session" /\ threads[c].mail \in Mails
    BY <1>1, <1>2, StateOf DEF OpenSession, At
  <2>2. row \in SessionRows /\ sessions' = Append(sessions, row) /\ row.mail = threads[c].mail
    BY <1>2, <2>1 DEF OpenSession, SessionRows
  <2>3. users[row.mail] # NoUser /\ (verification => users[row.mail].verified)
    BY <1>1, <2>1, <2>2 DEF ThreadsInv, Holds
  <2> HIDE DEF row
  <2> QED BY <1>1, <2>2, <2>3, RowAdded
<1>3. ASSUME NEW r \in DOMAIN sessions, NEW row \in SessionRows, sessions' = [sessions EXCEPT ![r] = row],
             row.mail = sessions[r].mail
      PROVE  Goal
  BY <1>1, <1>3, RowChanged
<1>4. ASSUME NEW r \in DOMAIN sessions, sessions' = [sessions EXCEPT ![r].revoked = TRUE] PROVE Goal
  <2> DEFINE row == [sessions[r] EXCEPT !.revoked = TRUE]
  <2>1. row \in SessionRows /\ row.mail = sessions[r].mail
    BY RowsTyped DEF IdentityTypeOK, SessionRows
  <2> QED BY <1>3, <1>4, <2>1
<1>5. ASSUME NEW r \in DOMAIN sessions, sessions' = [sessions EXCEPT ![r].expired = TRUE] PROVE Goal
  <2> DEFINE row == [sessions[r] EXCEPT !.expired = TRUE]
  <2>1. row \in SessionRows /\ row.mail = sessions[r].mail
    BY RowsTyped DEF IdentityTypeOK, SessionRows
  <2> QED BY <1>3, <1>5, <2>1
<1>6. CASE sessions' = sessions
  BY <1>1, <1>6
<1> QED BY <1>2, <1>4, <1>5, <1>6 DEF IdentityNext, AuthRegister, InsertUser, Welcome, AdminBootstrap, BootstrapLookup,
      Promote, AuthLogin, CheckPassword, AuthRefresh, Refresh, ReadMailToken, UseMailToken, RequestMail, Logout,
      CreateKey, RotateKey, RevokeKey, Expire, Restart

\* Access tokens are only issued, with a role the account has, or expire.
LEMMA BearersStep ==
    ASSUME IdentityTypeOK, ThreadsInv, IdentityNext
    PROVE  \A b \in bearers' :
              \/ b \in bearers
              \/ /\ b \in [mail : Mails, role : Roles] /\ users[b.mail] # NoUser
                 /\ verification => users[b.mail].verified
                 /\ b.role = "admin" => users[b.mail].role = "admin"
<1> DEFINE Fit(b) == /\ b \in [mail : Mails, role : Roles] /\ users[b.mail] # NoUser
                     /\ verification => users[b.mail].verified
                     /\ b.role = "admin" => users[b.mail].role = "admin"
<1>1. threads \in [size.pool -> ThreadStates] /\ users \in [Mails -> Accounts \cup {NoUser}]
  BY DEF IdentityTypeOK, IdentityShapes
<1>2. ASSUME NEW c \in DOMAIN threads, OpenSession(c) PROVE \A b \in bearers' : b \in bearers \/ Fit(b)
  <2> DEFINE b == [mail |-> threads[c].mail, role |-> threads[c].role]
  <2>1. threads[c].op = "session" /\ threads[c].mail \in Mails /\ threads[c].role \in Roles
    BY <1>1, <1>2, StateOf DEF OpenSession, At
  <2>2. Holds(threads[c])
    BY <1>1 DEF ThreadsInv
  <2>3. Fit(b)
    BY <2>1, <2>2 DEF Holds
  <2>4. bearers' = bearers \cup {b}
    BY <1>2 DEF OpenSession, Issue
  <2> QED BY <2>3, <2>4
<1>3. ASSUME NEW c \in DOMAIN threads, Refresh(c) PROVE \A b \in bearers' : b \in bearers \/ Fit(b)
  <2> DEFINE b == [mail |-> threads[c].mail, role |-> users[threads[c].mail].role]
  <2>1. threads[c].op = "refresh" /\ threads[c].mail \in Mails
    BY <1>1, <1>3, StateOf DEF Refresh, At
  <2>2. Holds(threads[c])
    BY <1>1 DEF ThreadsInv
  <2>3. users[threads[c].mail] \in Accounts /\ (verification => users[threads[c].mail].verified)
    BY <1>1, <2>1, <2>2 DEF Holds
  <2>4. Fit(b)
    BY <2>1, <2>3, UserAssumption DEF Accounts
  <2>5. bearers' = bearers \cup {b}
    BY <1>3 DEF Refresh, Issue
  <2> QED BY <2>4, <2>5
<1>4. CASE bearers' \subseteq bearers
  BY <1>4
<1> QED BY <1>2, <1>3, <1>4 DEF IdentityNext, AuthRegister, InsertUser, Welcome, AdminBootstrap, BootstrapLookup,
      Promote, AuthLogin, CheckPassword, AuthRefresh, ReadMailToken, UseMailToken, RequestMail, Logout,
      CreateKey, RotateKey, RevokeKey, Expire, Restart

\* Keys are made for their caller with a new secret, and rotated to one; what
\* is retired is the secret the key had.
LEMMA KeysStep ==
    ASSUME IdentityTypeOK, LoginNeedsVerifiedMail, KeysInv, IdentityNext
    PROVE  /\ apiKeys' \in Seq(ApiKeyRows) /\ secrets' \in Nat /\ retired' \subseteq 1..secrets'
           /\ \A k \in DOMAIN apiKeys' : /\ users[apiKeys'[k].owner] # NoUser /\ apiKeys'[k].secret \in 1..secrets'
                                         /\ verification => users[apiKeys'[k].owner].verified
           /\ KeysInv'
<1> DEFINE Fit(k) == /\ users[k.owner] # NoUser /\ k.secret \in 1..secrets'
                     /\ verification => users[k.owner].verified
           Goal == /\ apiKeys' \in Seq(ApiKeyRows) /\ secrets' \in Nat /\ retired' \subseteq 1..secrets'
                   /\ \A k \in DOMAIN apiKeys' : Fit(apiKeys'[k])
                   /\ KeysInv'
<1>1. /\ apiKeys \in Seq(ApiKeyRows) /\ secrets \in Nat /\ retired \subseteq 1..secrets
      /\ \A k \in DOMAIN apiKeys : /\ apiKeys[k] \in ApiKeyRows
                                   /\ users[apiKeys[k].owner] # NoUser /\ apiKeys[k].secret \in 1..secrets
                                   /\ verification => users[apiKeys[k].owner].verified
  BY RowsTyped DEF IdentityTypeOK, IdentityShapes, NothingDangles, LoginNeedsVerifiedMail
<1>2. CASE CreateKey
  <2>1. PICK caller \in Callers :
           apiKeys' = Append(apiKeys, [owner |-> caller.user, secret |-> secrets + 1, status |-> "active"])
    BY <1>2 DEF CreateKey
  <2> DEFINE row == [owner |-> caller.user, secret |-> secrets + 1, status |-> "active"]
  <2>2. secrets' = secrets + 1 /\ retired' = retired
    BY <1>2 DEF CreateKey
  <2>3. row \in ApiKeyRows /\ row.secret = secrets + 1 /\ Fit(row)
    BY <1>1, <2>2, CallersHaveAccounts DEF ApiKeyRows
  <2>4. apiKeys' = Append(apiKeys, row)
    BY <2>1
  <2> HIDE DEF row
  <2>5. /\ apiKeys' \in Seq(ApiKeyRows) /\ DOMAIN apiKeys' = DOMAIN apiKeys \cup {Len(apiKeys) + 1}
        /\ apiKeys'[Len(apiKeys) + 1] = row
        /\ \A k \in DOMAIN apiKeys : apiKeys'[k] = apiKeys[k]
        /\ Len(apiKeys) + 1 \notin DOMAIN apiKeys
    BY <1>1, <2>3, <2>4, RowAdded
  <2>6. KeysInv'
    BY <1>1, <2>2, <2>3, <2>5 DEF KeysInv
  <2>7. \A k \in DOMAIN apiKeys' : Fit(apiKeys'[k])
    BY <1>1, <2>2, <2>3, <2>5
  <2> QED BY <1>1, <2>2, <2>5, <2>6, <2>7
<1>3. ASSUME NEW k \in DOMAIN apiKeys, RotateKey(k) \/ RevokeKey(k) PROVE Goal
  <2> DEFINE row == IF RotateKey(k) THEN [apiKeys[k] EXCEPT !.secret = secrets + 1, !.status = "active"]
                    ELSE [apiKeys[k] EXCEPT !.status = "revoked"]
  <2>1. secrets' \in {secrets, secrets + 1} /\ retired' = retired \cup {apiKeys[k].secret}
    BY <1>3 DEF RotateKey, RevokeKey
  <2>2. apiKeys' = [apiKeys EXCEPT ![k] = row]
    BY <1>3 DEF RotateKey, RevokeKey
  <2>3. /\ row \in ApiKeyRows /\ row.owner = apiKeys[k].owner
        /\ \/ row.secret = secrets + 1 /\ secrets' = secrets + 1
           \/ row.secret = apiKeys[k].secret /\ row.status = "revoked"
    <3>1. CASE RotateKey(k)
      BY <1>1, <3>1 DEF ApiKeyRows, RotateKey
    <3>2. CASE ~RotateKey(k)
      BY <1>1, <3>2 DEF ApiKeyRows
    <3> QED BY <3>1, <3>2
  <2> HIDE DEF row
  <2>4. /\ apiKeys' \in Seq(ApiKeyRows) /\ DOMAIN apiKeys' = DOMAIN apiKeys /\ apiKeys'[k] = row
        /\ \A j \in DOMAIN apiKeys \ {k} : apiKeys'[j] = apiKeys[j]
    BY <1>1, <2>2, <2>3, RowChanged
  <2>5. KeysInv'
    BY <1>1, <2>1, <2>3, <2>4 DEF KeysInv
  <2>6. \A j \in DOMAIN apiKeys' : Fit(apiKeys'[j])
    BY <1>1, <2>1, <2>3, <2>4
  <2>7. retired' \subseteq 1..secrets'
    <3>1. 1..secrets \subseteq 1..secrets'
      BY <1>1, <2>1
    <3> QED BY <1>1, <2>1, <3>1
  <2> QED BY <1>1, <2>1, <2>4, <2>5, <2>6, <2>7
<1>4. CASE UNCHANGED <<apiKeys, secrets, retired>>
  BY <1>1, <1>4 DEF KeysInv
<1> QED BY <1>2, <1>3, <1>4 DEF IdentityNext, AuthRegister, InsertUser, Welcome, AdminBootstrap, BootstrapLookup,
      Promote, AuthLogin, CheckPassword, OpenSession, AuthRefresh, Refresh, ReadMailToken, UseMailToken, RequestMail,
      Logout, Expire, Restart

-----------------------------------------------------------------------------
\* Nothing exists yet.
LEMMA IdentityInitInv == IdentityInit => IdentityInv
<1> SUFFICES ASSUME IdentityInit PROVE IdentityInv
  OBVIOUS
<1>1. /\ mailTokens \in Seq(MailTokenRows) /\ sessions \in Seq(SessionRows) /\ apiKeys \in Seq(ApiKeyRows)
      /\ DOMAIN mailTokens = {} /\ DOMAIN sessions = {} /\ DOMAIN apiKeys = {}
  BY EmptySeq DEF IdentityInit
<1>2. /\ users = [m \in Mails |-> NoUser] /\ threads = [c \in size.pool |-> Idle] /\ bearers = {} /\ retired = {}
      /\ secrets = 0 /\ verification \in BOOLEAN /\ size \in Sizes
  BY DEF IdentityInit
<1>3. IdentityTypeOK
  BY <1>1, <1>2, IdleHolds DEF IdentityTypeOK, IdentityShapes, NothingDangles, Idle, Purposes
<1>4. ThreadsInv
  BY <1>2, IdleHolds DEF ThreadsInv
<1>5. VerifiedMailProven /\ LoginNeedsVerifiedMail /\ TokensWithinRole /\ KeysInv
  BY <1>1, <1>2 DEF VerifiedMailProven, LoginNeedsVerifiedMail, TokensWithinRole, KeysInv
<1> QED BY <1>3, <1>4, <1>5 DEF IdentityInv

\* The only ways to the verified flag: registering where mails are not used,
\* the bootstrap, and a mail token that is consumed in the same commit.
LEMMA VerifiedStep ==
    ASSUME IdentityTypeOK, VerifiedMailProven, IdentityNext
    PROVE  VerifiedMailProven'
<1> DEFINE Proven(m) == \/ users[m].role = "admin"
                        \/ \E t \in DOMAIN mailTokens : mailTokens[t].mail = m /\ mailTokens[t].consumed
<1>1. Kept /\ users \in [Mails -> Accounts \cup {NoUser}]
  BY KeptStep DEF IdentityTypeOK, IdentityShapes
<1> SUFFICES ASSUME verification, NEW m \in Mails, users'[m] # NoUser, users'[m].verified PROVE Proven(m)'
  BY <1>1 DEF VerifiedMailProven, Kept
<1>2. ASSUME users[m] # NoUser, users[m].verified PROVE Proven(m)'
  <2>1. Proven(m)
    BY <1>2 DEF VerifiedMailProven
  <2>2. CASE users[m].role = "admin"
    BY <1>1, <1>2, <2>2 DEF Kept, AccountsKept
  <2>3. CASE \E t \in DOMAIN mailTokens : mailTokens[t].mail = m /\ mailTokens[t].consumed
    BY <1>1, <2>3 DEF Kept, TokensKept
  <2> QED BY <2>1, <2>2, <2>3
<1>3. ASSUME NEW c \in DOMAIN threads, InsertUser(c) PROVE Proven(m)'
  <2>1. threads[c].mail \in Mails
    BY <1>3, StateOf DEF InsertUser, At, IdentityTypeOK, IdentityShapes
  <2>2. \/ users' = users
        \/ users' = [users EXCEPT ![threads[c].mail] = Account(threads[c].role, threads[c].password)]
    BY <1>3 DEF InsertUser, Insert
  <2>3. ~Account(threads[c].role, threads[c].password).verified
    BY DEF Account
  <2>4. users'[m] = users[m]
    BY <1>1, <2>1, <2>2, <2>3
  <2> QED BY <1>2, <2>4
<1>4. ASSUME NEW c \in DOMAIN threads, Promote(c) PROVE Proven(m)'
  <2>1. threads[c].mail \in Mails /\ users[threads[c].mail] \in Accounts
    BY <1>4, <1>1, StateOf DEF Promote, At, IdentityTypeOK, IdentityShapes, NothingDangles
  <2>2. users' = [users EXCEPT ![threads[c].mail].role = "admin", ![threads[c].mail].verified = TRUE]
    BY <1>4 DEF Promote
  <2>3. CASE m = threads[c].mail
    BY <1>1, <2>1, <2>2, <2>3 DEF Accounts
  <2>4. CASE m # threads[c].mail
    BY <1>1, <1>2, <2>2, <2>4
  <2> QED BY <2>3, <2>4
<1>5. ASSUME NEW c \in DOMAIN threads, UseMailToken(c) PROVE Proven(m)'
  <2> DEFINE t == threads[c].token
  <2>1. t \in DOMAIN mailTokens /\ mailTokens[t] \in MailTokenRows
    BY <1>5, RowsTyped DEF UseMailToken, IdentityTypeOK, IdentityShapes, NothingDangles
  <2>2. t \in DOMAIN mailTokens' /\ mailTokens'[t].mail = mailTokens[t].mail /\ mailTokens'[t].consumed
    BY <1>5, <2>1 DEF UseMailToken, MailTokenRows
  <2>3. CASE m = mailTokens[t].mail
    BY <2>2, <2>3
  <2>4. CASE m # mailTokens[t].mail
    <3>1. users'[m] = users[m]
      BY <1>1, <1>5, <2>4 DEF UseMailToken
    <3> QED BY <1>2, <3>1
  <2> QED BY <2>3, <2>4
<1>6. ASSUME users' = users PROVE Proven(m)'
  BY <1>2, <1>6
<1> QED BY <1>3, <1>4, <1>5, <1>6 DEF IdentityNext, AuthRegister, Welcome, AdminBootstrap, BootstrapLookup,
      AuthLogin, CheckPassword, OpenSession, AuthRefresh, Refresh, ReadMailToken, RequestMail, Logout, CreateKey,
      RotateKey, RevokeKey, Expire, Restart

LEMMA IdentityNextInv == IdentityInv /\ [IdentityNext]_identityVars => IdentityInv'
<1> SUFFICES ASSUME IdentityInv, [IdentityNext]_identityVars PROVE IdentityInv'
  OBVIOUS
<1>1. CASE UNCHANGED identityVars
  BY <1>1 DEF identityVars, IdentityInv, IdentityTypeOK, IdentityShapes, NothingDangles, ThreadsInv, Holds,
     VerifiedMailProven, LoginNeedsVerifiedMail, TokensWithinRole, Admins, KeysInv
<1>2. CASE IdentityNext
  <2>1. /\ IdentityTypeOK /\ IdentityShapes /\ NothingDangles /\ ThreadsInv /\ VerifiedMailProven
        /\ LoginNeedsVerifiedMail /\ TokensWithinRole /\ KeysInv
    BY DEF IdentityInv, IdentityTypeOK
  <2>2. AccountsKept /\ TokensKept /\ size' = size /\ verification' = verification
    BY <1>2, <2>1, KeptStep DEF Kept
  <2>3. users' \in [Mails -> Accounts \cup {NoUser}]
    BY <1>2, <2>1, AccountsStep
  <2>4. mailTokens' \in Seq(MailTokenRows) /\ \A t \in DOMAIN mailTokens' : users[mailTokens'[t].mail] # NoUser
    BY <1>2, <2>1, TokensStep
  <2>5. /\ sessions' \in Seq(SessionRows)
        /\ \A r \in DOMAIN sessions' : /\ users[sessions'[r].mail] # NoUser
                                       /\ verification => users[sessions'[r].mail].verified
    BY <1>2, <2>1, SessionsStep DEF NothingDangles, LoginNeedsVerifiedMail
  <2>6. /\ bearers' \subseteq [mail : Mails, role : Roles]
        /\ \A b \in bearers' : /\ users[b.mail] # NoUser /\ (verification => users[b.mail].verified)
                               /\ b.role = "admin" => users[b.mail].role = "admin"
    BY <1>2, <2>1, BearersStep DEF IdentityShapes, NothingDangles, LoginNeedsVerifiedMail, TokensWithinRole, Admins
  <2>7. /\ apiKeys' \in Seq(ApiKeyRows) /\ secrets' \in Nat /\ retired' \subseteq 1..secrets'
        /\ \A k \in DOMAIN apiKeys' : /\ users[apiKeys'[k].owner] # NoUser /\ apiKeys'[k].secret \in 1..secrets'
                                      /\ verification => users[apiKeys'[k].owner].verified
        /\ KeysInv'
    BY <1>2, <2>1, KeysStep
  <2>8. threads' \in [size.pool -> ThreadStates] /\ ThreadsInv'
    BY <1>2, <2>1, ThreadsStep
  <2>9. VerifiedMailProven'
    BY <1>2, <2>1, VerifiedStep
  <2>10. IdentityShapes'
    BY <2>1, <2>2, <2>3, <2>4, <2>5, <2>6, <2>7, <2>8 DEF IdentityShapes
  <2>11. /\ \A t \in DOMAIN mailTokens' : mailTokens'[t].mail \in Mails
         /\ \A r \in DOMAIN sessions' : sessions'[r].mail \in Mails
         /\ \A b \in bearers' : b.mail \in Mails
         /\ \A k \in DOMAIN apiKeys' : apiKeys'[k].owner \in Mails
    <3>1. /\ \A t \in DOMAIN mailTokens' : mailTokens'[t] \in MailTokenRows
          /\ \A r \in DOMAIN sessions' : sessions'[r] \in SessionRows
          /\ \A k \in DOMAIN apiKeys' : apiKeys'[k] \in ApiKeyRows
      BY <2>4, <2>5, <2>7, ElementOfSeq
    <3> QED BY <2>6, <3>1 DEF MailTokenRows, SessionRows, ApiKeyRows
  <2>12. NothingDangles'
    <3>1. \A c \in size.pool :
            /\ threads'[c].op \in Purposes => threads'[c].token \in DOMAIN mailTokens'
            /\ threads'[c].op \in {"welcome", "promote", "password", "session", "refresh"} =>
                 users'[threads'[c].mail] # NoUser
      BY <2>2, <2>8 DEF ThreadsInv, Holds
    <3>2. /\ \A t \in DOMAIN mailTokens' : users'[mailTokens'[t].mail] # NoUser
          /\ \A r \in DOMAIN sessions' : users'[sessions'[r].mail] # NoUser
          /\ \A b \in bearers' : users'[b.mail] # NoUser
          /\ \A k \in DOMAIN apiKeys' : users'[apiKeys'[k].owner] # NoUser
      BY <2>2, <2>4, <2>5, <2>6, <2>7, <2>11 DEF AccountsKept
    <3> QED BY <2>2, <2>7, <3>1, <3>2 DEF NothingDangles
  <2>13. LoginNeedsVerifiedMail'
    BY <2>2, <2>5, <2>6, <2>7, <2>11 DEF AccountsKept, LoginNeedsVerifiedMail
  <2>14. TokensWithinRole'
    BY <2>2, <2>6, <2>11 DEF AccountsKept, TokensWithinRole, Admins
  <2> QED BY <2>7, <2>8, <2>9, <2>10, <2>12, <2>13, <2>14 DEF IdentityInv, IdentityTypeOK
<1> QED BY <1>1, <1>2

\* In every reachable state rows and handlers are well formed, and what
\* handlers read earlier still holds.
THEOREM IdentityInvariant == IdentitySpec => []IdentityInv
<1> QED BY IdentityInitInv, IdentityNextInv, PTL DEF IdentitySpec

\* Where mails are verified, the flag of an account is the work of a consumed
\* mail token or of a bootstrap, however the handlers of register, verify,
\* reset and bootstrap interleave and crash.
THEOREM VerificationIsProven == IdentitySpec => []VerifiedMailProven
<1> QED BY IdentityInvariant, PTL DEF IdentityInv

\* authenticate reads the verified flag two transactions before create_session
\* writes: no handler in between unsets it, so that no session, access token
\* or API key is ever on an unverified address.
THEOREM OnlyVerifiedLogIn == IdentitySpec => []LoginNeedsVerifiedMail
<1> QED BY IdentityInvariant, PTL DEF IdentityInv

\* The role signed into an access token was read earlier, and is still the
\* account's: no step lowers a role.
THEOREM TokensStayWithinRole == IdentitySpec => []TokensWithinRole
<1> QED BY IdentityInvariant, PTL DEF IdentityInv

\* A secret that was rotated away or revoked finds no active key: secrets are
\* never given out twice, and a key that is active again has a new one.
THEOREM RetiredSecretsAreDead == IdentitySpec => []RetiredSecretsStayDead
<1>1. IdentityInv => RetiredSecretsStayDead
  <2> SUFFICES ASSUME IdentityInv, NEW s \in retired PROVE get_principal([secret |-> s]) = None
    BY DEF RetiredSecretsStayDead
  <2>1. bearers \subseteq [mail : Mails, role : Roles]
    BY DEF IdentityInv, IdentityTypeOK, IdentityShapes
  <2>2. [secret |-> s] \notin bearers
    <3>1. \A b \in bearers : "mail" \in DOMAIN b
      BY <2>1
    <3>2. "mail" \notin DOMAIN [secret |-> s]
      OBVIOUS
    <3> QED BY <3>1, <3>2
  <2>3. ASSUME NEW k \in DOMAIN apiKeys, apiKeys[k].status = "active"
        PROVE  [secret |-> apiKeys[k].secret] # [secret |-> s]
    <3>1. apiKeys[k].secret # s
      BY <2>3 DEF IdentityInv, KeysInv
    <3> QED BY <3>1
  <2> QED BY <2>2, <2>3 DEF get_principal
<1> QED BY <1>1, IdentityInvariant, PTL

\* Only reset_password writes a password, in the commit that consumes a reset
\* token mailed to that very address.
THEOREM PasswordsNeedResetMail == IdentitySpec => PasswordNeedsResetMail
<1> DEFINE Step ==
      \A m \in Mails :
        (users[m] # NoUser /\ users'[m].password # users[m].password) =>
            \E t \in DOMAIN mailTokens' : /\ mailTokens'[t].mail = m
                                          /\ mailTokens'[t].purpose = "reset"
                                          /\ mailTokens'[t].consumed
<1>1. IdentityInv /\ [IdentityNext]_identityVars => [Step]_identityVars
  <2> SUFFICES ASSUME IdentityInv, IdentityNext, NEW m \in Mails, users[m] # NoUser,
                      users'[m].password # users[m].password
               PROVE  \E t \in DOMAIN mailTokens' : /\ mailTokens'[t].mail = m
                                                    /\ mailTokens'[t].purpose = "reset"
                                                    /\ mailTokens'[t].consumed
    BY DEF identityVars
  <2>1. /\ IdentityTypeOK /\ IdentityShapes /\ NothingDangles /\ ThreadsInv
        /\ users \in [Mails -> Accounts \cup {NoUser}] /\ threads \in [size.pool -> ThreadStates]
    BY DEF IdentityInv, IdentityTypeOK, IdentityShapes
  <2>2. users[m] \in Accounts
    BY <2>1
  <2>3. ASSUME NEW c \in DOMAIN threads PROVE ~InsertUser(c) /\ ~Welcome(c) /\ ~Promote(c)
    <3>1. InsertUser(c) => users'[m] = users[m]
      BY <2>1 DEF InsertUser, Insert
    <3>2. Welcome(c) => users'[m].password = users[m].password
      BY <2>1, <2>2 DEF Welcome, Verified, Accounts
    <3>3. Promote(c) => users'[m].password = users[m].password
      BY <2>1, <2>2 DEF Promote, Accounts
    <3> QED BY <3>1, <3>2, <3>3
  <2>4. PICK c \in DOMAIN threads : UseMailToken(c)
    <3>1. users' # users
      OBVIOUS
    <3> QED BY <2>3, <3>1 DEF IdentityNext, AuthRegister, AdminBootstrap, BootstrapLookup, AuthLogin, CheckPassword,
          OpenSession, AuthRefresh, Refresh, ReadMailToken, RequestMail, Logout, CreateKey, RotateKey, RevokeKey,
          Expire, Restart
  <2> DEFINE t == threads[c].token
  <2>5. t \in DOMAIN mailTokens /\ mailTokens[t] \in MailTokenRows /\ mailTokens[t].purpose = threads[c].op
    BY <2>1, <2>4, RowsTyped DEF UseMailToken, NothingDangles, ThreadsInv, Holds
  <2>6. /\ t \in DOMAIN mailTokens' /\ mailTokens'[t].mail = mailTokens[t].mail
        /\ mailTokens'[t].purpose = mailTokens[t].purpose /\ mailTokens'[t].consumed
    BY <2>4, <2>5 DEF UseMailToken, MailTokenRows
  <2>7. m = mailTokens[t].mail /\ threads[c].op = "reset"
    BY <2>1, <2>2, <2>4 DEF UseMailToken, At, Accounts
  <2> QED BY <2>5, <2>6, <2>7
<1> QED BY <1>1, IdentityInvariant, PTL DEF IdentitySpec, PasswordNeedsResetMail
=============================================================================
