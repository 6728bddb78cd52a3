------------------------------- MODULE SignIn -------------------------------
(***************************************************************************)
(* Sessions, passwords and password resets, statement by statement:        *)
(* CheckCookie (midware/middleware.go), signing in and out and             *)
(* rotateSession (routes/auth.go), changing and resetting a password       *)
(* (routes/password.go), blocking and deleting a user (routes/admin.go).   *)
(*                                                                         *)
(* A transaction's rows change when it commits; until then it holds row    *)
(* locks, all of them exclusive here.  A statement outside a transaction   *)
(* is one step.  PostgreSQL evaluates the condition of a statement again   *)
(* on a row it had to wait for, so conditions on locked rows are those of  *)
(* the step that follows the lock.                                         *)
(***************************************************************************)
EXTENDS Integers, FiniteSets

CONSTANTS
    Users,          \* rows of users; verified users, no administrators
    Rows,           \* rows of sessions
    Tokens,         \* rows of passwordresets
    Requests,       \* requests, each runs once
    Kinds,          \* of the requests of a run
    OldHashes,      \* users whose password hash may be of an old format
    SignedIn,       \* the rows that exist at the start, and their users
    Issued,         \* tokens that exist at the start, and their users
    Nobody          \* user_id 0

ASSUME NobodyAssumption == Nobody \notin Users
ASSUME StartAssumption ==
    /\ \E R \in SUBSET Rows : SignedIn \in [R -> Users]
    /\ \E T \in SUBSET Tokens :
          Issued \in [T -> Users] /\ \A t, v \in T : Issued[t] = Issued[v] => t = v
ASSUME RowsAssumption == IsFiniteSet(Rows) /\ Nobody \notin Rows \cup Tokens
ASSUME KindsAssumption ==
    Kinds \subseteq {"page", "logout", "login", "change", "reset",
                     "request", "block", "unblock", "delete"}

VARIABLES
    user,       \* rows of users; a secret is the number of the password
    sessions,   \* rows of sessions; gen numbers the uuids of a row
    tokens,     \* rows of passwordresets
    pc,
    form,       \* what a request asks for: its kind, a user, a token
    cookie,     \* c.Get("_id"), as the row and the uuid of it
    acting,     \* data.User.Id
    stored,     \* the row of users a handler has read
    want,       \* rows the present statement has still to lock
    locks,      \* rows the transaction of a request holds
    logins,     \* history: number of sign-ins
    revoked     \* history: sign-ins that were ended

dbVars  == <<user, sessions, tokens>>
history == <<logins, revoked>>
reqVars == <<form, cookie, acting, stored>>
vars == <<user, sessions, tokens, pc, form, cookie, acting, stored, want,
          locks, logins, revoked>>

AdminKinds == {"block", "unblock", "delete"}
NoForm     == [kind |-> "page", user |-> Nobody, token |-> Nobody]
NoUser     == [exists |-> FALSE, blocked |-> FALSE, secret |-> 0, old |-> FALSE]
NoCookie   == [row |-> Nobody, gen |-> 0]

-----------------------------------------------------------------------------
(* Rows.                                                                   *)

Found(id) == sessions[id.row].live /\ sessions[id.row].gen = id.gen

MaySignIn(u) == user[u].exists /\ ~ user[u].blocked

SessionsOf(u) == {s \in Rows : sessions[s].live /\ sessions[s].user = u}

Usable(t) == tokens[t].issued /\ ~ tokens[t].done /\ tokens[t].age # "expired"

Active(u) == {t \in Tokens : tokens[t].issued /\ tokens[t].user = u
                             /\ ~ tokens[t].done}

Recent(u) == {t \in Tokens : tokens[t].issued /\ tokens[t].user = u
                             /\ tokens[t].age = "new"}

-----------------------------------------------------------------------------
(* Statements and transactions.                                            *)

Free(x, r) == \A q \in Requests \ {r} : x \notin locks[q]

At(r, here) == pc[r] = here /\ want[r] = {}
Goto(r, next) == pc' = [pc EXCEPT ![r] = next]

(* A statement of a transaction that locks rows.                           *)
Lock(r, rows, next) ==
    /\ want' = [want EXCEPT ![r] = rows \ locks[r]]
    /\ Goto(r, next)
    /\ UNCHANGED <<dbVars, reqVars, locks, history>>

Acquire(r, x) ==
    /\ x \in want[r]
    /\ Free(x, r)
    /\ want'  = [want EXCEPT ![r] = @ \ {x}]
    /\ locks' = [locks EXCEPT ![r] = @ \cup {x}]
    /\ UNCHANGED <<dbVars, reqVars, pc, history>>

ReleaseForgotten(r, next) ==   \* a mutant: the transaction is left open
    /\ Goto(r, next)
    /\ want'  = [want EXCEPT ![r] = {}]
    /\ UNCHANGED <<reqVars, locks>>

(* The end of a transaction; the request goes on at next.                  *)
Release(r, next) ==
    /\ Goto(r, next)
    /\ want'  = [want EXCEPT ![r] = {}]
    /\ locks' = [locks EXCEPT ![r] = {}]
    /\ UNCHANGED reqVars

Rollback(r) == Release(r, "done") /\ UNCHANGED <<dbVars, logins, revoked>>

(* An answer without a transaction.                                        *)
Answer(r) ==
    /\ Goto(r, "done")
    /\ UNCHANGED <<dbVars, reqVars, want, locks, history>>

(* Requests that wait for each other: PostgreSQL fails one of them.        *)
Stuck(S) ==
    /\ S # {}
    /\ \A q \in S : want[q] # {} /\ \A x \in want[q] : \E p \in S \ {q} : x \in locks[p]

AbortDeadlock(r) ==
    /\ \E S \in SUBSET Requests :
          /\ r \in S
          /\ Stuck(S)
          /\ \A T \in SUBSET S : Stuck(T) => T = S
    /\ Rollback(r)

-----------------------------------------------------------------------------
(* CheckCookie: the session is read, or made, and then its user.           *)

Handler(kind, u) ==
    CASE kind \in {"page", "logout"} -> "auth"
      [] kind = "login"   -> "authenticate"
      [] kind = "change"  -> IF u = Nobody THEN "done" ELSE "verify"
      [] kind = "reset"   -> IF u = Nobody THEN "token" ELSE "done"
      [] kind = "request" -> "user"

Forms == {f \in [kind : Kinds, user : Users \cup {Nobody},
                 token : Tokens \cup {Nobody}] :
            /\ f.user # Nobody <=> f.kind \in AdminKinds \cup {"login", "request"}
            /\ f.token # Nobody <=> f.kind = "reset"}

(* Forms of the pages; a reset names a token that was sent.                *)
PageForms == {f \in Forms : f.kind \notin AdminKinds
                            /\ (f.kind = "reset" => tokens[f.token].issued)}

Begin(r) ==
    /\ pc[r] = "new"
    /\ \E f \in PageForms : form' = [form EXCEPT ![r] = f]
    /\ \E s \in Rows :
          /\ sessions[s].live
          /\ cookie' = [cookie EXCEPT ![r] = [row |-> s, gen |-> sessions[s].gen]]
          /\ acting' = [acting EXCEPT ![r] = sessions[s].user]
    /\ Goto(r, "checkUser")
    /\ UNCHANGED <<dbVars, stored, want, locks, history>>

NewRows == {s \in Rows : sessions[s].gen = 0}

(* No cookie, or one of a session that is gone.                            *)
BeginNew(r) ==
    /\ pc[r] = "new"
    /\ NewRows # {}
    /\ LET s == CHOOSE s \in NewRows : TRUE IN
       /\ sessions' = [sessions EXCEPT ![s] =
                         [live |-> TRUE, gen |-> 1, user |-> Nobody, login |-> 0]]
       /\ cookie' = [cookie EXCEPT ![r] = [row |-> s, gen |-> 1]]
    /\ \E f \in PageForms :
          /\ form' = [form EXCEPT ![r] = f]
          /\ Goto(r, Handler(f.kind, Nobody))
    /\ UNCHANGED <<user, tokens, acting, stored, want, locks, history>>

CheckUser(r) ==
    /\ pc[r] = "checkUser"
    /\ IF acting[r] = Nobody \/ MaySignIn(acting[r])
       THEN /\ Goto(r, Handler(form[r].kind, acting[r]))
            /\ UNCHANGED acting
       ELSE /\ Goto(r, "clear")
            /\ acting' = [acting EXCEPT ![r] = Nobody]
    /\ UNCHANGED <<dbVars, form, cookie, stored, want, locks, history>>

(* UPDATE sessions SET user_id = 0 for a user who may not sign in.         *)
ClearStale(r) ==
    /\ pc[r] = "clear"
    /\ Free(cookie[r].row, r)
    /\ sessions' = IF Found(cookie[r])
                   THEN [sessions EXCEPT ![cookie[r].row].user = Nobody]
                   ELSE sessions
    /\ Goto(r, Handler(form[r].kind, Nobody))
    /\ UNCHANGED <<user, tokens, reqVars, want, locks, history>>

(* Auth reads the session again.                                           *)
Authorize(r) ==
    /\ pc[r] = "auth"
    /\ IF Found(cookie[r]) /\ sessions[cookie[r].row].user # Nobody
       THEN Goto(r, "handler")
       ELSE Goto(r, "done")
    /\ UNCHANGED <<dbVars, reqVars, want, locks, history>>

Page(r) == pc[r] = "handler" /\ form[r].kind = "page" /\ Answer(r)

Logout(r) ==
    /\ pc[r] = "handler"
    /\ form[r].kind = "logout"
    /\ Free(cookie[r].row, r)
    /\ LET s == cookie[r].row IN
       IF Found(cookie[r])
       THEN /\ sessions' = [sessions EXCEPT ![s].live = FALSE]
            /\ revoked' = revoked \cup {sessions[s].login}
       ELSE UNCHANGED <<sessions, revoked>>
    /\ Goto(r, "done")
    /\ UNCHANGED <<user, tokens, reqVars, want, locks, logins>>

-----------------------------------------------------------------------------
(* rotateSession: the same row gets a new uuid and a user.                 *)

RotatedAnyhow(id, u, login) ==   \* a mutant: makes the session if it is gone
    [sessions EXCEPT ![id.row] =
       [live |-> TRUE, gen |-> @.gen + 1, user |-> u, login |-> login]]

RotatedInPlace(id, u, login) ==   \* a mutant: keeps the token
    IF Found(id)
    THEN [sessions EXCEPT ![id.row] = [@ EXCEPT !.user = u, !.login = login]]
    ELSE sessions

Rotated(id, u, login) ==
    IF Found(id)
    THEN [sessions EXCEPT ![id.row] =
            [live |-> TRUE, gen |-> @.gen + 1, user |-> u, login |-> login]]
    ELSE sessions

(* authenticateUser: the user is read, the password verified.              *)
Authenticate(r) ==
    /\ pc[r] = "authenticate"
    /\ stored' = [stored EXCEPT ![r] = user[form[r].user]]
    /\ Goto(r, IF ~ MaySignIn(form[r].user) THEN "done"
               ELSE IF user[form[r].user].old THEN "rehash" ELSE "signIn")
    /\ UNCHANGED <<dbVars, form, cookie, acting, want, locks, history>>

(* A hash of an old format is replaced by a new one of the same password.  *)
RehashedAnyhow(r) ==   \* a mutant: without AND password = $3
    LET u == form[r].user IN
    IF user[u].exists
    THEN [user EXCEPT ![u].secret = stored[r].secret, ![u].old = FALSE]
    ELSE user

SamePassword(u, read) ==
    user[u].exists /\ user[u].secret = read.secret /\ user[u].old = read.old

Rehashed(r) ==
    LET u == form[r].user IN
    IF SamePassword(u, stored[r])
    THEN [user EXCEPT ![u].secret = stored[r].secret, ![u].old = FALSE]
    ELSE user

Rehash(r) ==
    LET u == form[r].user IN
    /\ pc[r] = "rehash"
    /\ Free(u, r)
    /\ user' = Rehashed(r)
    /\ Goto(r, IF user' # user THEN "signIn" ELSE "done")
    /\ UNCHANGED <<sessions, tokens, reqVars, want, locks, history>>

SignIn(r) ==
    /\ pc[r] = "signIn"
    /\ Free(cookie[r].row, r)
    /\ sessions' = Rotated(cookie[r], form[r].user, logins + 1)
    /\ logins' = logins + 1
    /\ Goto(r, "done")
    /\ UNCHANGED <<user, tokens, reqVars, want, locks, revoked>>

(* After a changed or reset password: still the same sign-in.              *)
Rotate(r) ==
    LET s == cookie[r].row
        u == IF form[r].kind = "change" THEN acting[r] ELSE Nobody
    IN /\ pc[r] = "rotate"
       /\ Free(s, r)
       /\ sessions' = Rotated(cookie[r], u, sessions[s].login)
       /\ Goto(r, "done")
       /\ UNCHANGED <<user, tokens, reqVars, want, locks, history>>

-----------------------------------------------------------------------------
(* Revoking sessions: DELETE FROM sessions WHERE user_id = $1.             *)

Target(r) ==
    CASE form[r].kind = "change" -> acting[r]
      [] form[r].kind = "reset"  -> tokens[form[r].token].user
      [] OTHER                   -> form[r].user

(* The sessions the statement sees; changeOwnPassword spares its own.      *)
Revocable(r) ==
    {s \in SessionsOf(Target(r)) :
       form[r].kind = "change" =>
          cookie[r] # [row |-> s, gen |-> sessions[s].gen]}

Revoke(r) ==
    /\ At(r, "revoke")
    /\ want' = [want EXCEPT ![r] = Revocable(r)]
    /\ Goto(r, IF form[r].kind = "delete" THEN "deleteTokens" ELSE "commit")
    /\ UNCHANGED <<dbVars, reqVars, locks, history>>

(* Those that are still of the user when they are locked.                  *)
RevokedSessions(r) == Revocable(r) \cap locks[r]

LoginsOf(rows) == {sessions[s].login : s \in rows}

Without(rows) ==
    [s \in Rows |-> IF s \in rows THEN [sessions[s] EXCEPT !.live = FALSE]
                    ELSE sessions[s]]

Spent(rows) ==
    [t \in Tokens |-> IF t \in rows THEN [tokens[t] EXCEPT !.done = TRUE]
                      ELSE tokens[t]]

-----------------------------------------------------------------------------
(* changeOwnPassword.                                                      *)

VerifyPassword(r) ==
    /\ pc[r] = "verify"
    /\ stored' = [stored EXCEPT ![r] = user[acting[r]]]
    /\ Goto(r, IF MaySignIn(acting[r]) THEN "change" ELSE "done")
    /\ UNCHANGED <<dbVars, form, cookie, acting, want, locks, history>>

UpdatePassword(r) == At(r, "change") /\ Lock(r, {acting[r]}, "changed")

Unchanged(r) == SamePassword(acting[r], stored[r])

PasswordUpdated(r) ==
    /\ At(r, "changed")
    /\ IF Unchanged(r)
       THEN Goto(r, "revoke") /\ UNCHANGED <<dbVars, reqVars, want, locks, history>>
       ELSE Rollback(r)

NewSecret(u) == [user EXCEPT ![u].secret = @ + 1, ![u].old = FALSE]

CommitChange(r) ==
    /\ At(r, "commit")
    /\ form[r].kind = "change"
    /\ user' = NewSecret(acting[r])
    /\ sessions' = Without(RevokedSessions(r))
    /\ revoked' = revoked \cup LoginsOf(RevokedSessions(r))
    /\ Release(r, "rotate")
    /\ UNCHANGED <<tokens, logins>>

-----------------------------------------------------------------------------
(* resetPasswordWithToken.                                                 *)

LockToken(r) ==
    /\ At(r, "token")
    /\ IF Usable(form[r].token)
       THEN Lock(r, {form[r].token}, "resetUser")
       ELSE Answer(r)

ReadBefore(t) == TRUE   \* a mutant: the token is read without FOR UPDATE

StillUnused(t) == ~ tokens[t].done

ResetUser(r) ==
    LET t == form[r].token IN
    /\ At(r, "resetUser")
    /\ IF StillUnused(t) /\ MaySignIn(tokens[t].user)
       THEN Lock(r, Active(tokens[t].user), "resetPassword")
       ELSE Rollback(r)

ResetPassword(r) ==
    At(r, "resetPassword") /\ Lock(r, {Target(r)}, "reset")

PasswordReset(r) ==
    /\ At(r, "reset")
    /\ IF user[Target(r)].exists
       THEN Goto(r, "revoke") /\ UNCHANGED <<dbVars, reqVars, want, locks, history>>
       ELSE Rollback(r)

CommitReset(r) ==
    /\ At(r, "commit")
    /\ form[r].kind = "reset"
    /\ user' = NewSecret(Target(r))
    /\ tokens' = Spent(Tokens \cap locks[r])
    /\ sessions' = Without(RevokedSessions(r))
    /\ revoked' = revoked \cup LoginsOf(RevokedSessions(r))
    /\ Release(r, "rotate")
    /\ UNCHANGED logins

-----------------------------------------------------------------------------
(* createPasswordReset.                                                    *)

UserRow(u) == {u}

NoneSuperseded(u) == {}   \* a mutant: older tokens stay active
Superseded(u) == Active(u)

LockUser(r) ==
    /\ At(r, "user")
    /\ IF MaySignIn(form[r].user)
       THEN Lock(r, UserRow(form[r].user), "count")
       ELSE Answer(r)

CountRecent(r) ==
    /\ At(r, "count")
    /\ IF MaySignIn(form[r].user) /\ Recent(form[r].user) = {}
       THEN Lock(r, Superseded(form[r].user), "issue")
       ELSE Rollback(r)

NewTokens == {t \in Tokens : ~ tokens[t].issued}

IssueToken(r) ==
    /\ At(r, "issue")
    /\ NewTokens # {}
    /\ LET t == CHOOSE t \in NewTokens : TRUE IN
       tokens' = [Spent(Tokens \cap locks[r]) EXCEPT ![t] =
                    [issued |-> TRUE, user |-> form[r].user, done |-> FALSE,
                     age |-> "new"]]
    /\ Release(r, "done")
    /\ UNCHANGED <<user, sessions, logins, revoked>>

-----------------------------------------------------------------------------
(* changeUserBlock and deleteUser, on behalf of an administrator.          *)

BeginAdmin(r) ==
    /\ pc[r] = "new"
    /\ \E f \in Forms :
          /\ f.kind \in AdminKinds
          /\ user[f.user].exists
          /\ form' = [form EXCEPT ![r] = f]
          /\ want' = [want EXCEPT ![r] = {f.user}]
    /\ Goto(r, "admin")
    /\ UNCHANGED <<dbVars, cookie, acting, stored, locks, history>>

Admissible(kind, u) ==
    /\ user[u].exists
    /\ kind = "block"   => ~ user[u].blocked
    /\ kind = "unblock" => user[u].blocked

AdminLocked(r) ==
    /\ At(r, "admin")
    /\ IF Admissible(form[r].kind, form[r].user)
       THEN /\ Goto(r, IF form[r].kind = "unblock" THEN "commit" ELSE "revoke")
            /\ UNCHANGED <<dbVars, reqVars, want, locks, history>>
       ELSE Rollback(r)

(* deleteUser deletes the reset requests of the user as well.              *)
DeleteTokens(r) ==
    /\ At(r, "deleteTokens")
    /\ Lock(r, {t \in Tokens : tokens[t].issued /\ tokens[t].user = form[r].user},
            "commit")

CommitBlock(r) ==
    /\ At(r, "commit")
    /\ form[r].kind = "block"
    /\ user' = [user EXCEPT ![form[r].user].blocked = TRUE]
    /\ sessions' = Without(RevokedSessions(r))
    /\ revoked' = revoked \cup LoginsOf(RevokedSessions(r))
    /\ Release(r, "done")
    /\ UNCHANGED <<tokens, logins>>

CommitUnblock(r) ==
    /\ At(r, "commit")
    /\ form[r].kind = "unblock"
    /\ user' = [user EXCEPT ![form[r].user].blocked = FALSE]
    /\ Release(r, "done")
    /\ UNCHANGED <<sessions, tokens, logins, revoked>>

CommitDelete(r) ==
    /\ At(r, "commit")
    /\ form[r].kind = "delete"
    /\ user' = [user EXCEPT ![form[r].user].exists = FALSE]
    /\ sessions' = Without(RevokedSessions(r))
    /\ tokens' = [t \in Tokens |->
                    IF t \in locks[r]
                    THEN [tokens[t] EXCEPT !.done = TRUE, !.age = "expired"]
                    ELSE tokens[t]]
    /\ revoked' = revoked \cup LoginsOf(RevokedSessions(r))
    /\ Release(r, "done")
    /\ UNCHANGED logins

-----------------------------------------------------------------------------
(* Time: a token is new for 15 minutes and expires after two hours; a      *)
(* session expires and is deleted by DeleteOldSessions.                    *)

TokenAges(t) ==
    /\ tokens[t].issued
    /\ tokens[t].age # "expired"
    /\ tokens' = [tokens EXCEPT ![t].age = IF @ = "new" THEN "old" ELSE "expired"]
    /\ UNCHANGED <<user, sessions, pc, reqVars, want, locks, history>>

ExpireSession(s) ==
    /\ sessions[s].live
    /\ \A r \in Requests : s \notin locks[r]
    /\ sessions' = [sessions EXCEPT ![s].live = FALSE]
    /\ UNCHANGED <<user, tokens, pc, reqVars, want, locks, history>>

-----------------------------------------------------------------------------
Numbered(S) == CHOOSE f \in [S -> 1..Cardinality(S)] :
                  \A x, y \in S : f[x] = f[y] => x = y

Init ==
    /\ \E S \in SUBSET OldHashes :
          user = [u \in Users |-> [exists |-> TRUE, blocked |-> FALSE, secret |-> 1,
                                   old |-> u \in S]]
    /\ sessions = [s \in Rows |->
                     IF s \in DOMAIN SignedIn
                     THEN [live |-> TRUE, gen |-> 1, user |-> SignedIn[s],
                           login |-> Numbered(DOMAIN SignedIn)[s]]
                     ELSE [live |-> FALSE, gen |-> 0, user |-> Nobody, login |-> 0]]
    /\ tokens = [t \in Tokens |->
                   IF t \in DOMAIN Issued
                   THEN [issued |-> TRUE, user |-> Issued[t], done |-> FALSE,
                         age |-> "old"]
                   ELSE [issued |-> FALSE, user |-> Nobody, done |-> FALSE,
                         age |-> "new"]]
    /\ pc = [r \in Requests |-> "new"]
    /\ form = [r \in Requests |-> NoForm]
    /\ cookie = [r \in Requests |-> NoCookie]
    /\ acting = [r \in Requests |-> Nobody]
    /\ stored = [r \in Requests |-> NoUser]
    /\ want = [r \in Requests |-> {}]
    /\ locks = [r \in Requests |-> {}]
    /\ logins = Cardinality(DOMAIN SignedIn)
    /\ revoked = {}

Arrive(r) == Begin(r) \/ BeginNew(r) \/ BeginAdmin(r)

SessionStep(r) ==
    \/ CheckUser(r) \/ ClearStale(r) \/ Authorize(r)
    \/ Page(r) \/ Logout(r)
    \/ Authenticate(r) \/ Rehash(r) \/ SignIn(r) \/ Rotate(r)

PasswordStep(r) ==
    \/ VerifyPassword(r) \/ UpdatePassword(r) \/ PasswordUpdated(r)
    \/ LockToken(r) \/ ResetUser(r) \/ ResetPassword(r) \/ PasswordReset(r)
    \/ LockUser(r) \/ CountRecent(r) \/ IssueToken(r)
    \/ Revoke(r) \/ CommitChange(r) \/ CommitReset(r)

AdminStep(r) ==
    AdminLocked(r) \/ DeleteTokens(r)
    \/ CommitBlock(r) \/ CommitUnblock(r) \/ CommitDelete(r)

Step(r) ==
    \/ SessionStep(r) \/ PasswordStep(r) \/ AdminStep(r)
    \/ \E x \in want[r] : Acquire(r, x)
    \/ AbortDeadlock(r)

Time == (\E t \in Tokens : TokenAges(t)) \/ (\E s \in Rows : ExpireSession(s))

Quiet == (\A r \in Requests : pc[r] = "done") /\ UNCHANGED vars

Next == (\E r \in Requests : Arrive(r) \/ Step(r)) \/ Time \/ Quiet

Spec == Init /\ [][Next]_vars
FairSpec == Spec /\ \A r \in Requests : WF_vars(Step(r))

-----------------------------------------------------------------------------
(* A sign-in whose session was deleted, by signing out or by a revocation, *)
(* stays ended: no request that was under way with the session brings it   *)
(* back.  Only signing in gives a session a user.                          *)
RevokedForGood ==
    \A s \in Rows : sessions[s].live /\ sessions[s].user # Nobody =>
        sessions[s].login \notin revoked

(* A handler behind Auth acts as the user CheckCookie found for the same   *)
(* session, though the session was read again meanwhile.                   *)
AuthSameUser ==
    [][\A r \in Requests : pc[r] = "auth" /\ pc'[r] = "handler" =>
          acting[r] = sessions[cookie[r].row].user]_vars

(* password.go: "Matching the old hash keeps a concurrent password change  *)
(* from being overwritten after the current password was verified."        *)
(* Neither does a sign-in that replaces an old hash bring back a password  *)
(* that was changed meanwhile.                                             *)
ChangeVerified ==
    [][/\ \A r \in Requests : CommitChange(r) =>
             stored[r].secret = user[acting[r]].secret
       /\ \A u \in Users : user'[u].secret >= user[u].secret]_vars

(* A user has at most one token that may be used and gets one in 15        *)
(* minutes, whatever the number of requests for them.                      *)
OneToken ==
    \A u \in Users : Cardinality(Active(u)) <= 1 /\ Cardinality(Recent(u)) <= 1

(* A token resets a password once, and not after a newer one was issued.   *)
TokenUsedOnce ==
    [][\A r \in Requests : CommitReset(r) =>
          ~ tokens[form[r].token].done]_vars

(* Every request is answered, those the database fails because of a        *)
(* deadlock included.                                                      *)
RequestsAnswered ==
    \A r \in Requests : pc[r] # "new" ~> pc[r] = "done"

(* password.go on changeOwnPassword: it "revokes every other session of    *)
(* that user".                                                             *)
OthersRevoked ==
    [][\A r \in Requests : CommitChange(r) =>
          \A s \in Rows : sessions'[s].live /\ sessions'[s].user = acting[r] =>
              cookie[r] = [row |-> s, gen |-> sessions'[s].gen]]_vars
=============================================================================
