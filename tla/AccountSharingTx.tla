-------------------------- MODULE AccountSharingTx --------------------------
(***************************************************************************)
(* The requests of AccountSharing as they run on the database: several at  *)
(* once, each a transaction of SQL statements under READ COMMITTED.  A     *)
(* statement sees what is committed when it starts, locks the rows it      *)
(* found one after the other, waits for a row another transaction holds,   *)
(* and when it gets the row goes on with its newest version or without a   *)
(* row that was deleted meanwhile.  Changes become visible at commit.      *)
(*                                                                         *)
(* The locks of a transaction double as the record of what it wrote: the   *)
(* effect at commit is computed from the rows it holds.  PostgreSQL itself *)
(* (locks, foreign keys, deadlock detection) is modelled from its          *)
(* documented behaviour.                                                   *)
(***************************************************************************)
EXTENDS Naturals, SequencesExt

CONSTANTS
    Users, Admins, Accounts, Roles, Other,   \* see AccountSharing
    Requests,      \* identifiers of the requests that run
    Mixes,         \* bound: how many requests of which handlers run together
    InitialData    \* databases the requests may find

Owner == "owner"
NoRole == ""

MemberKinds == {"invite", "cancel", "role", "remove"}
Kinds == MemberKinds
           \cup {"accept", "decline", "select", "create", "delete"}

ASSUME UsersAssumption == IsFiniteSet(Users)
ASSUME AccountsAssumption == Accounts \subseteq Nat
ASSUME RolesAssumption == Owner \in Roles /\ NoRole \notin Roles
ASSUME OtherAssumption == Other \notin Accounts
ASSUME MixesAssumption == \A m \in Mixes : m.kinds \subseteq Kinds

VARIABLES
    users, accounts, role, older, invitations, selected,   \* committed rows
    req,     \* the request: handler, signed-in user and form values
    pc,      \* the statement a request is at
    want,    \* rows its statement has still to lock, in order
    locks,   \* rows its transaction holds
    left     \* accounts deleteUser has still to look at

dbVars  == <<users, accounts, role, older, invitations, selected>>
reqVars == <<req, pc, want, locks, left>>
vars    == <<users, accounts, role, older, invitations, selected,
             req, pc, want, locks, left>>

Sharing == INSTANCE AccountSharing

-----------------------------------------------------------------------------
(* Rows and row locks.                                                     *)

UserRow(u)          == <<"user", u>>
AccountRow(a)       == <<"account", a>>
MemberRow(a, u)     == <<"member", a, u>>
InvitationRow(a, e) == <<"invitation", a, e>>

InvitationsOf(a, e) == {i \in invitations : i.account = a /\ i.email = e}

Exists(row) ==
    \/ row[1] = "user" /\ row[2] \in users
    \/ row[1] = "account" /\ row[2] \in accounts
    \/ row[1] = "member" /\ role[row[2]][row[3]] # NoRole
    \/ row[1] = "invitation" /\ InvitationsOf(row[2], row[3]) # {}

(* A row that was found and then deleted stays gone, though an equal one   *)
(* may be inserted; only an INSERT looks for the rows of its own time.     *)
Gone == <<"gone">>
Deleted(rows) == {row \in rows : Exists(row) /\ ~ Exists(row)'}
Found(w) ==
    IF w.row \in Deleted({w.row}) /\ w.absent # "insert"
    THEN [w EXCEPT !.row = Gone] ELSE w

(* "key" is FOR KEY SHARE, taken by a foreign key check on the row it      *)
(* refers to; "nku" is FOR NO KEY UPDATE, taken by an UPDATE; "upd" is FOR *)
(* UPDATE; "del" marks a row deleted or inserted.  "join" is an INSERT ON  *)
(* CONFLICT DO NOTHING, which waits for others only while they insert or   *)
(* delete the row.                                                         *)
Conflict(mode, held) ==
    IF mode = "join" THEN held = "del"
    ELSE ~ ({mode, held} \subseteq {"key", "nku"} /\ "key" \in {mode, held})

(* One row of a statement, and what becomes of the statement when the row  *)
(* is not there: go on without it, find nothing at all, fail, or insert it.*)
Row(row, mode, absent) == [row |-> row, mode |-> mode, absent |-> absent]

Holds(r, row, mode) == [row |-> row, mode |-> mode] \in locks[r]

Blockers(r) ==
    IF want[r] = <<>> THEN {}
    ELSE {q \in Requests \ {r} :
            \E h \in locks[q] : /\ h.row = Head(want[r]).row
                                /\ Conflict(Head(want[r]).mode, h.mode)}

(* r waits in a circle: the requests of S each wait for another of S, and  *)
(* no part of S does.                                                      *)
WaitingCircle(S) ==
    /\ S # {}
    /\ \A q \in S : Blockers(q) \cap S # {}
    /\ \A T \in SUBSET S \ {{}, S} : \E q \in T : Blockers(q) \cap T = {}
Deadlocked(r) == \E S \in SUBSET Requests : r \in S /\ WaitingCircle(S)

(* The start of a statement: rows in the order it locks them.              *)
Statement(r, here, rows, next) ==
    /\ pc[r] = here
    /\ want[r] = <<>>
    /\ want' = [want EXCEPT ![r] = rows]
    /\ pc' = [pc EXCEPT ![r] = next]
    /\ UNCHANGED req

AnyOrder(rows) == SetToSeqs(rows)

(* The end of a request, committed or rolled back, and what it leaves of   *)
(* the rows that others wait for.                                          *)
Done(r) ==
    /\ pc' = [pc EXCEPT ![r] = "done"]
    /\ want' = [q \in Requests |->
                  IF q = r THEN <<>> ELSE [n \in DOMAIN want[q] |-> Found(want[q][n])]]
    /\ locks' = [locks EXCEPT ![r] = {}]
    /\ left' = [left EXCEPT ![r] = {}]
    /\ UNCHANGED req

Rollback(r) == UNCHANGED dbVars /\ Done(r)

At(r, here) == pc[r] = here /\ want[r] = <<>>

(* A statement takes its next row, or finds that it is gone.               *)
Acquire(r) ==
    /\ want[r] # <<>>
    /\ Blockers(r) = {}
    /\ LET w == Head(want[r])
           take(mode) == locks' = [locks EXCEPT ![r] =
                                     @ \cup {[row |-> w.row, mode |-> mode]}]
       IN IF ~ Exists(w.row) /\ w.absent = "fail"
          THEN Rollback(r)
          ELSE /\ \/ Exists(w.row) /\ w.mode # "join" /\ take(w.mode)
                  \/ Exists(w.row) /\ w.mode = "join" /\ UNCHANGED locks
                  \/ ~ Exists(w.row) /\ w.absent = "insert" /\ take("del")
                  \/ ~ Exists(w.row) /\ w.absent # "insert" /\ UNCHANGED locks
               /\ want' = [want EXCEPT ![r] =
                             IF ~ Exists(w.row) /\ w.absent = "nothing"
                             THEN <<>> ELSE Tail(@)]
               /\ UNCHANGED <<req, pc, left, dbVars>>

AbortDeadlock(r) == Deadlocked(r) /\ Rollback(r)

-----------------------------------------------------------------------------
(* A request begins: CheckCookie reads the user, their accounts and roles. *)
(* base is the account the handler works on.  A user who is no member of   *)
(* the selected account is moved to another one, with an UPDATE of its     *)
(* own; a user without any account stays, and Other stands for none.       *)

FirstStatement(kind) ==
    CASE kind \in MemberKinds -> "lockMembers"
      [] kind = "accept"  -> "accept"
      [] kind = "decline" -> "decline"
      [] kind = "select"  -> "select"
      [] kind = "create"  -> "create"
      [] kind = "delete"  -> "delete"

Request(kinds) ==
    [kind : kinds, actor : Users, base : Accounts \cup {Other},
     account : Accounts \cup {Other}, target : Users, newRole : Roles \cup {NoRole}]

(* The form values that reach a transaction; the checks before it use what *)
(* CheckCookie read.                                                       *)
WellFormed(q) ==
    CASE q.kind = "invite"  -> q.newRole # NoRole
      [] q.kind = "role"    -> q.newRole # NoRole
      [] q.kind = "remove"  -> q.newRole = NoRole
      [] q.kind = "cancel"  -> /\ q.newRole = NoRole
                               /\ InvitationsOf(q.base, q.target) # {}
      [] q.kind \in {"accept", "decline"} ->
            /\ q.newRole = NoRole
            /\ q.target = q.actor
            /\ InvitationsOf(q.account, q.actor) # {}
      [] q.kind = "select"  -> q.newRole = NoRole /\ q.target = q.actor
                                 /\ q.account \in Accounts
      [] q.kind = "create"  -> q.newRole = NoRole /\ q.target = q.actor
                                 /\ q.account = q.base
      [] q.kind = "delete"  -> q.newRole = NoRole /\ q.account = q.base
                                 /\ q.actor \in Admins
                                 /\ q.target \notin Admins

(* requireAccountOwner, and the check of removeMember.                     *)
Authorized(q) ==
    q.kind \in MemberKinds =>
        /\ q.base # Other
        /\ q.account = q.base
        /\ \/ role[q.base][q.actor] = Owner
           \/ q.kind = "remove" /\ q.target = q.actor

Begun == {r \in Requests : pc[r] # "new"}

BegunOf(kind) == {r \in Begun : req[r].kind = kind}

(* What may join the requests that have begun.                             *)
Joining ==
    UNION {{kind \in m.kinds : Cardinality(BegunOf(kind)) < m.each} :
             m \in {n \in Mixes : /\ Cardinality(Begun) < n.requests
                                  /\ {req[r].kind : r \in Begun} \subseteq n.kinds}}

Begin(r) ==
    /\ pc[r] = "new"
    /\ \E q \in Request(Joining) :
          /\ q.actor \in users
          /\ Sharing!MayUse(q.actor, q.base)
          /\ WellFormed(q)
          /\ Authorized(q)
          /\ req' = [req EXCEPT ![r] = q]
          /\ LET valid == Sharing!MayUse(q.actor, selected[q.actor])
             IN  \/ /\ valid /\ q.base = selected[q.actor]
                    /\ pc' = [pc EXCEPT ![r] = FirstStatement(q.kind)]
                 \/ /\ ~ valid
                    /\ pc' = [pc EXCEPT ![r] = "move"]
                 \/ /\ ~ valid /\ Sharing!WithoutAccount(q.actor) /\ q.base = Other
                    /\ pc' = [pc EXCEPT ![r] = FirstStatement(q.kind)]
    /\ UNCHANGED <<want, locks, left, dbVars>>

(* UPDATE users SET default_accounts_id: the user's row, then the foreign  *)
(* key to the account.                                                     *)
PointTo(u, a, absent) ==
    <<Row(UserRow(u), "nku", absent)>>
      \o (IF a \in Accounts THEN <<Row(AccountRow(a), "key", "fail")>> ELSE <<>>)

SelectCurrentAccount(r) ==
    /\ Statement(r, "move", PointTo(req[r].actor, req[r].base, "nothing"), "moved")
    /\ UNCHANGED <<locks, left, dbVars>>

CurrentAccountSelected(r) ==
    /\ At(r, "moved")
    /\ selected' = IF req[r].actor \in users
                   THEN [selected EXCEPT ![req[r].actor] = req[r].base]
                   ELSE selected
    /\ pc' = [pc EXCEPT ![r] = FirstStatement(req[r].kind)]
    /\ locks' = [locks EXCEPT ![r] = {}]
    /\ UNCHANGED <<req, want, left, users, accounts, role, older, invitations>>

-----------------------------------------------------------------------------
(* lockMembers: SELECT ... FOR UPDATE of the membership rows by id.        *)

NoOrder(a, s) == TRUE   \* a mutant: no ORDER BY

Seniority(a, s) ==
    \A i, j \in DOMAIN s : i < j => <<s[i], s[j]>> \in older[a]

MembersShared == "key"   \* a mutant: FOR KEY SHARE
MembersLock == "upd"

LockMembers(r) ==
    LET a == req[r].account IN
    /\ At(r, "lockMembers")
    /\ \E s \in SetToSeqs(Sharing!Members(a)) :
          /\ Seniority(a, s)
          /\ Statement(r, "lockMembers",
                [n \in DOMAIN s |-> Row(MemberRow(a, s[n]), MembersLock, "skip")],
                "locked")
    /\ UNCHANGED <<locks, left, dbVars>>

(* The members lockMembers returned, and the role one has among them.      *)
Locked(r) == {u \in Users : Holds(r, MemberRow(req[r].account, u), MembersLock)}
MemberRole(r, u) == IF u \in Locked(r) THEN role[req[r].account][u] ELSE NoRole
LockedOwners(r) == {u \in Locked(r) : MemberRole(r, u) = Owner}

-----------------------------------------------------------------------------
(* inviteMember.                                                           *)

InviteChecked(r) ==
    req[r].actor \in LockedOwners(r) /\ req[r].target \notin Locked(r)

UpsertInvitation(r) ==
    /\ req[r].kind = "invite"
    /\ At(r, "locked")
    /\ InviteChecked(r)
    /\ Statement(r, "locked",
          <<Row(InvitationRow(req[r].account, req[r].target), "upd", "insert")>>,
          "upserted")
    /\ UNCHANGED <<locks, left, dbVars>>

(* Nothing is written for a member or without the owner's role.            *)
InviteRefused(r) ==
    /\ req[r].kind = "invite"
    /\ At(r, "locked")
    /\ ~ InviteChecked(r)
    /\ Rollback(r)

(* Foreign keys of the row: both for a new one, the inviter's when it      *)
(* changed.                                                                *)
CheckInvitation(r) ==
    LET a == req[r].account
        e == req[r].target
        inserted == Holds(r, InvitationRow(a, e), "del")
        changed == \E i \in InvitationsOf(a, e) : i.by # req[r].actor
    IN /\ Statement(r, "upserted",
             (IF inserted THEN <<Row(AccountRow(a), "key", "fail")>> ELSE <<>>)
             \o (IF inserted \/ changed
                 THEN <<Row(UserRow(req[r].actor), "key", "fail")>> ELSE <<>>),
             "invited")
       /\ UNCHANGED <<locks, left, dbVars>>

CommitInvite(r) ==
    /\ At(r, "invited")
    /\ invitations' = Sharing!Upserted(req[r].account, req[r].target,
                                       req[r].newRole, req[r].actor)
    /\ UNCHANGED <<users, accounts, role, older, selected>>
    /\ Done(r)

-----------------------------------------------------------------------------
(* cancelInvitation and declineInvitation delete one invitation; the rows  *)
(* a transaction holds at its commit are gone.                             *)

HeldInvitations(r) ==
    {i \in invitations : Holds(r, InvitationRow(i.account, i.email), "upd")}

DeleteOne(r, here) ==
    LET a == req[r].account
        e == req[r].target
    IN /\ At(r, here)
       /\ IF InvitationsOf(a, e) = {}
          THEN Rollback(r)
          ELSE /\ Statement(r, here,
                            <<Row(InvitationRow(a, e), "upd", "fail")>>, "deleted")
               /\ UNCHANGED <<locks, left, dbVars>>

DeclineInvitation(r) == DeleteOne(r, "decline")

CancelInvitation(r) ==
    /\ req[r].kind = "cancel"
    /\ At(r, "locked")
    /\ IF req[r].actor \in LockedOwners(r)
       THEN DeleteOne(r, "locked")
       ELSE Rollback(r)

CommitDeleted(r) ==
    /\ At(r, "deleted")
    /\ invitations' = invitations \ HeldInvitations(r)
    /\ UNCHANGED <<users, accounts, role, older, selected>>
    /\ Done(r)

-----------------------------------------------------------------------------
(* acceptInvitation.                                                       *)

OpenInvitation(r) ==
    \E i \in InvitationsOf(req[r].account, req[r].actor) : i.open

AcceptInvitation(r) ==
    /\ At(r, "accept")
    /\ IF OpenInvitation(r)
       THEN /\ Statement(r, "accept",
                 <<Row(InvitationRow(req[r].account, req[r].actor), "upd", "fail")>>,
                 "read")
            /\ UNCHANGED <<locks, left, dbVars>>
       ELSE Rollback(r)

(* The locked version is the one that counts.                              *)
Join(r) ==
    /\ At(r, "read")
    /\ IF OpenInvitation(r)
       THEN /\ Statement(r, "read",
                 <<Row(MemberRow(req[r].account, req[r].actor), "join", "insert")>>,
                 "joined")
            /\ UNCHANGED <<locks, left, dbVars>>
       ELSE Rollback(r)

Joined(r) == Holds(r, MemberRow(req[r].account, req[r].actor), "del")

(* The foreign keys of the new row, the DELETE of the invitation the       *)
(* request holds, and the UPDATE of the selected account.                  *)
SelectJoined(r) ==
    LET a == req[r].account
        u == req[r].actor
    IN /\ Statement(r, "joined",
             (IF Joined(r) THEN <<Row(AccountRow(a), "key", "fail"),
                                  Row(UserRow(u), "key", "fail")>> ELSE <<>>)
             \o PointTo(u, a, "fail"),
             "accepted")
       /\ UNCHANGED <<locks, left, dbVars>>

CommitAccept(r) ==
    LET a == req[r].account
        u == req[r].actor
    IN /\ At(r, "accepted")
       /\ IF Joined(r)
          THEN \E i \in HeldInvitations(r) :
                  /\ role' = [role EXCEPT ![a][u] = i.role]
                  /\ older' = Sharing!JoinedLast(a, u)
          ELSE UNCHANGED <<role, older>>
       /\ invitations' = invitations \ HeldInvitations(r)
       /\ selected' = [selected EXCEPT ![u] = a]
       /\ UNCHANGED <<users, accounts>>
       /\ Done(r)

-----------------------------------------------------------------------------
(* updateMember.                                                           *)

UpdateChecked(r) ==
    LET q == req[r] IN
    /\ \/ q.actor \in LockedOwners(r)
       \/ q.newRole = NoRole /\ q.actor = q.target
    /\ MemberRole(r, q.target) # NoRole
    /\ q.newRole # Owner => LockedOwners(r) # {q.target}

UpdateRefused(r) ==
    /\ req[r].kind \in {"role", "remove"}
    /\ At(r, "locked")
    /\ ~ UpdateChecked(r)
    /\ Rollback(r)

WithdrawInvitations(r) ==
    LET q == req[r]
        found == {Row(InvitationRow(i.account, i.email), "upd", "skip") :
                    i \in Sharing!Withdrawn(q.account, q.target, q.newRole)}
    IN /\ q.kind \in {"role", "remove"}
       /\ At(r, "locked")
       /\ UpdateChecked(r)
       /\ \E rows \in AnyOrder(found) : Statement(r, "locked", rows, "withdrawn")
       /\ UNCHANGED <<locks, left, dbVars>>

CommitUpdate(r) ==
    LET q == req[r] IN
    /\ At(r, "withdrawn")
    /\ invitations' = invitations \ HeldInvitations(r)
    /\ role' = [role EXCEPT ![q.account][q.target] = q.newRole]
    /\ older' = IF q.newRole = NoRole
                THEN [older EXCEPT ![q.account] =
                        Sharing!Without(q.account, q.target)]
                ELSE older
    /\ UNCHANGED <<users, accounts, selected>>
    /\ Done(r)

-----------------------------------------------------------------------------
(* selectAccount and createAccount.                                        *)

SelectAccount(r) ==
    /\ At(r, "select")
    /\ IF Sharing!MayUse(req[r].actor, req[r].account)
       THEN /\ Statement(r, "select",
                         PointTo(req[r].actor, req[r].account, "fail"), "selecting")
            /\ UNCHANGED <<locks, left, dbVars>>
       ELSE Rollback(r)

CommitSelect(r) ==
    /\ At(r, "selecting")
    /\ selected' = [selected EXCEPT ![req[r].actor] = req[r].account]
    /\ UNCHANGED <<users, accounts, role, older, invitations>>
    /\ Done(r)

CreateAccount(r) ==
    /\ Statement(r, "create", <<Row(UserRow(req[r].actor), "key", "fail")>>,
                 "created")
    /\ UNCHANGED <<locks, left, dbVars>>

CommitCreate(r) ==
    /\ At(r, "created")
    /\ \/ \E a \in Accounts \ accounts :
             /\ accounts' = accounts \cup {a}
             /\ role' = [role EXCEPT ![a][req[r].actor] = Owner]
       \/ UNCHANGED <<accounts, role>>   \* an account outside Accounts
    /\ UNCHANGED <<users, older, invitations, selected>>
    /\ Done(r)

-----------------------------------------------------------------------------
(* deleteUser.                                                             *)

LockUser(r) ==
    /\ Statement(r, "delete", <<Row(UserRow(req[r].target), "upd", "fail")>>,
                 "userLocked")
    /\ UNCHANGED <<locks, left, dbVars>>

Ascending(s) == \A i, j \in DOMAIN s : i < j => s[i] < s[j]

AccountsLock == "upd"

LockAccounts(r) ==
    /\ At(r, "userLocked")
    /\ \E s \in SetToSeqs(Sharing!Touched(req[r].target)) :
          /\ Ascending(s)
          /\ Statement(r, "userLocked",
                [n \in DOMAIN s |-> Row(AccountRow(s[n]), AccountsLock, "skip")],
                "accountsLocked")
    /\ UNCHANGED <<locks, left, dbVars>>

DeleteMemberships(r) ==
    LET u == req[r].target
        found == {Row(MemberRow(a, u), "del", "skip") :
                    a \in {b \in Accounts : u \in Sharing!Members(b)}}
    IN /\ At(r, "accountsLocked")
       /\ \E rows \in AnyOrder(found) :
             Statement(r, "accountsLocked", rows, "membershipsDeleted")
       /\ left' = [left EXCEPT ![r] =
                     {a \in Accounts : Holds(r, AccountRow(a), AccountsLock)}]
       /\ UNCHANGED <<locks, dbVars>>

(* Deleting the users row deletes the invitations the user sent.           *)
DeleteUserRow(r) ==
    LET found == {Row(InvitationRow(i.account, i.email), "upd", "skip") :
                    i \in {j \in invitations : j.by = req[r].target}}
    IN /\ At(r, "membershipsDeleted")
       /\ \E rows \in AnyOrder(found) :
             Statement(r, "membershipsDeleted", rows, "keepOwner")
       /\ UNCHANGED <<locks, left, dbVars>>

NextAccount(r) == CHOOSE a \in left[r] : \A b \in left[r] : a <= b

OtherMembers(r, a) == Sharing!Members(a) \ {req[r].target}

ExclusiveNow(r, a) ==
    /\ OtherMembers(r, a) = {}
    /\ \A v \in users \ {req[r].target} : selected[v] # a

(* The UPDATE that promotes the longest-standing member.                   *)
KeepOwner(r) ==
    LET a == NextAccount(r)
        others == OtherMembers(r, a)
        eldest == {v \in others : \A w \in others \ {v} : <<v, w>> \in older[a]}
        found == IF \E v \in others : role[a][v] = Owner THEN {} ELSE eldest
    IN /\ left[r] # {}
       /\ ~ ExclusiveNow(r, a)
       /\ \E rows \in AnyOrder({Row(MemberRow(a, v), "nku", "skip") : v \in found}) :
             Statement(r, "keepOwner", rows, "keepOwner")
       /\ left' = [left EXCEPT ![r] = @ \ {a}]
       /\ UNCHANGED <<locks, dbVars>>

(* Deleting the accounts row deletes its invitations.                      *)
DeleteAccount(r) ==
    LET a == NextAccount(r)
        found == {Row(InvitationRow(i.account, i.email), "upd", "skip") :
                    i \in {j \in invitations : j.account = a}}
    IN /\ left[r] # {}
       /\ ExclusiveNow(r, a)
       /\ \E rows \in AnyOrder(found) : Statement(r, "keepOwner", rows, "keepOwner")
       /\ left' = [left EXCEPT ![r] = @ \ {a}]
       /\ locks' = [locks EXCEPT ![r] =
                      @ \cup {[row |-> AccountRow(a), mode |-> "del"]}]
       /\ UNCHANGED dbVars

CommitDelete(r) ==
    LET u == req[r].target IN
    /\ At(r, "keepOwner")
    /\ left[r] = {}
    /\ users' = users \ {u}
    /\ accounts' = {a \in accounts : ~ Holds(r, AccountRow(a), "del")}
    /\ role' = [a \in Accounts |->
                  [v \in Users |->
                     IF v = u THEN NoRole
                     ELSE IF Holds(r, MemberRow(a, v), "nku") THEN Owner
                     ELSE role[a][v]]]
    /\ older' = [a \in Accounts |-> Sharing!Without(a, u)]
    /\ invitations' = invitations \ HeldInvitations(r)
    /\ selected' = [selected EXCEPT ![u] = Other]
    /\ Done(r)

-----------------------------------------------------------------------------
NoRequest == [kind |-> "none"]

Init ==
    /\ \E d \in InitialData :
          /\ users = d.users
          /\ accounts = d.accounts
          /\ role = d.role
          /\ older = d.older
          /\ invitations = d.invitations
          /\ selected = d.selected
    /\ req = [r \in Requests |-> NoRequest]
    /\ pc = [r \in Requests |-> "new"]
    /\ want = [r \in Requests |-> <<>>]
    /\ locks = [r \in Requests |-> {}]
    /\ left = [r \in Requests |-> {}]

MembersStep(r) ==
    \/ LockMembers(r)
    \/ UpsertInvitation(r) \/ InviteRefused(r)
    \/ CheckInvitation(r) \/ CommitInvite(r)
    \/ CancelInvitation(r)
    \/ UpdateRefused(r) \/ WithdrawInvitations(r) \/ CommitUpdate(r)

UserStep(r) ==
    \/ SelectCurrentAccount(r) \/ CurrentAccountSelected(r)
    \/ DeclineInvitation(r) \/ CommitDeleted(r)
    \/ AcceptInvitation(r) \/ Join(r) \/ SelectJoined(r) \/ CommitAccept(r)
    \/ SelectAccount(r) \/ CommitSelect(r)
    \/ CreateAccount(r) \/ CommitCreate(r)

DeleteStep(r) ==
    \/ LockUser(r) \/ LockAccounts(r)
    \/ DeleteMemberships(r) \/ DeleteUserRow(r)
    \/ KeepOwner(r) \/ DeleteAccount(r) \/ CommitDelete(r)

Step(r) ==
    Acquire(r) \/ AbortDeadlock(r) \/ MembersStep(r) \/ UserStep(r) \/ DeleteStep(r)

(* 30 days pass for an invitation.  An acceptance compares its date with   *)
(* the time its own transaction started, so it is not cut short.           *)
Accepting(r, i) ==
    /\ req[r].kind = "accept"
    /\ pc[r] \in {"read", "joined", "accepted"}
    /\ i \in InvitationsOf(req[r].account, req[r].actor)

Expire ==
    /\ \E i \in invitations :
          /\ \A r \in Requests : ~ Accepting(r, i)
          /\ Sharing!Expire(i)
    /\ UNCHANGED reqVars

(* All requests are answered.                                              *)
Quiet == (\A r \in Begun : pc[r] = "done") /\ UNCHANGED vars

Next == (\E r \in Requests : Begin(r) \/ Step(r)) \/ Expire \/ Quiet

Spec == Init /\ [][Next]_vars

-----------------------------------------------------------------------------
(* What the requests do to the committed rows is a sequence of the atomic  *)
(* requests of AccountSharing, whatever the interleaving: checks made on   *)
(* locked rows still hold when the transaction commits.                    *)
Implements == Sharing!SpecFrom

(* Requests that do not delete users never wait for each other in a        *)
(* circle: lockMembers takes the rows of an account in the order of their  *)
(* ids, and everything else is locked after them.                          *)
NoDeadlock ==
    (\A r \in Begun : req[r].kind # "delete") => \A r \in Requests : ~ Deadlocked(r)

(* account_members.go: "Members are not invited again".                    *)
MemberNotInvited == Sharing!MemberNotInvited

(* README.md: "when an administrator deletes the only owner of a shared    *)
(* account, its longest-standing member becomes the owner".                *)
SharedAccountOwned == Sharing!OwnerKept
=============================================================================
