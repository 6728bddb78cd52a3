--------------------------- MODULE AccountSharing ---------------------------
(***************************************************************************)
(* Shared accounts of goexpenses: who is a member of which account with    *)
(* which role, which invitations are waiting, and which account each user  *)
(* has selected.  One action is one request whose database transaction     *)
(* takes effect at once, so this module says what every handler of         *)
(* routes/account_members.go, routes/accounts.go and the user deletion of  *)
(* routes/admin.go promises; AccountSharingTx splits the same requests     *)
(* into their SQL statements and is shown to implement this module.        *)
(*                                                                         *)
(* A user stands for an e-mail address, registered or not.  Other stands   *)
(* for all accounts outside Accounts, such as the personal account every   *)
(* user gets on registration.  The account a request works on was read     *)
(* from the session when the request began and may no longer be the        *)
(* selected one, so the handlers take any account.                         *)
(***************************************************************************)
EXTENDS FiniteSets

CONSTANTS
    Users,      \* e-mail addresses, registered or not
    Admins,     \* users with users.is_admin, set outside the program
    Accounts,   \* identifiers of the accounts that are shared
    Roles,      \* roles in use, some of "owner", "editor" and "viewer"
    Other       \* stands for every account outside Accounts

Owner == "owner"
NoRole == ""

ASSUME UsersAssumption == IsFiniteSet(Users)
ASSUME AdminsAssumption == Admins \subseteq Users
ASSUME RolesAssumption == Owner \in Roles /\ NoRole \notin Roles
ASSUME OtherAssumption == Other \notin Accounts

VARIABLES
    users,        \* rows of table users
    accounts,     \* rows of table accounts
    role,         \* accountsusers.role, NoRole where there is no row
    older,        \* pairs of members of an account, ordered by accountsusers.id
    invitations,  \* rows of table account_invitations
    selected      \* users.default_accounts_id

vars == <<users, accounts, role, older, invitations, selected>>

(* open: created_at is less than 30 days ago, so it can be accepted.       *)
Invitation == [account : Accounts, email : Users, role : Roles,
               by : Users, open : BOOLEAN]

Members(a) == {u \in Users : role[a][u] # NoRole}
Owners(a)  == {u \in Users : role[a][u] = Owner}

(* A new membership row gets the highest id; a deleted row leaves the      *)
(* order.                                                                  *)
JoinedLast(a, u) == [older EXCEPT ![a] = @ \cup (Members(a) \X {u})]
Without(a, u) == {p \in older[a] : p[1] # u /\ p[2] # u}

-----------------------------------------------------------------------------
(* Registration and account creation make their user the owner.            *)

InsertUserWithAccount(u, a) ==
    /\ u \notin users
    /\ users' = users \cup {u}
    /\ selected' = [selected EXCEPT ![u] = a]
    /\ \/ /\ a \in Accounts \ accounts
          /\ accounts' = accounts \cup {a}
          /\ role' = [role EXCEPT ![a][u] = Owner]
       \/ /\ a = Other
          /\ UNCHANGED <<accounts, role>>
    /\ UNCHANGED <<older, invitations>>

CreateAccount(u, a) ==
    /\ u \in users
    /\ a \in Accounts \ accounts
    /\ accounts' = accounts \cup {a}
    /\ role' = [role EXCEPT ![a][u] = Owner]
    /\ UNCHANGED <<users, older, invitations, selected>>

-----------------------------------------------------------------------------
(* The selected account.  CheckCookie moves a user who is no member of the *)
(* selected account to the first account they belong to; which one is      *)
(* first depends on the descriptions.                                      *)

MayUse(u, a) == a = Other \/ (a \in accounts /\ role[a][u] # NoRole)

(* A user who may have no account at all, and then none is selected: the   *)
(* one they registered with was shared, and they left it.                  *)
WithoutAccount(u) == \A a \in Accounts : ~ MayUse(u, a)

SelectAccount(u, a) ==
    /\ u \in users
    /\ MayUse(u, a)
    /\ selected' = [selected EXCEPT ![u] = a]
    /\ UNCHANGED <<users, accounts, role, older, invitations>>

SelectCurrentAccount(u, a) ==
    /\ ~ MayUse(u, selected[u])
    /\ SelectAccount(u, a)

(* The user is removed after the account list or the membership was read   *)
(* and before the selection is written.                                    *)
SelectFormerAccount(u, a) ==
    /\ u \in users
    /\ a \in accounts \ {b \in Accounts : MayUse(u, b)}
    /\ selected' = [selected EXCEPT ![u] = a]
    /\ UNCHANGED <<users, accounts, role, older, invitations>>

-----------------------------------------------------------------------------
(* Invitations.  The upsert keeps one invitation for an account and an     *)
(* address and reopens it.                                                 *)

Upserted(a, email, r, actor) ==
    {i \in invitations : i.account # a \/ i.email # email}
      \cup {[account |-> a, email |-> email, role |-> r,
             by |-> actor, open |-> TRUE]}

PutInvitation(actor, a, email, r) ==
    /\ actor \in users
    /\ role[a][actor] = Owner
    /\ invitations' = Upserted(a, email, r, actor)
    /\ UNCHANGED <<users, accounts, role, older, selected>>

InviteMember(actor, a, email, r) ==
    /\ email \notin Members(a)
    /\ PutInvitation(actor, a, email, r)

(* The invited user joins after lockMembers has read the members and       *)
(* before the upsert: the rows of new members are not locked.              *)
InviteNewMember(actor, a, email, r) ==
    /\ email \in Members(a)
    /\ PutInvitation(actor, a, email, r)

CancelInvitation(actor, i) ==
    /\ actor \in users
    /\ role[i.account][actor] = Owner
    /\ invitations' = invitations \ {i}
    /\ UNCHANGED <<users, accounts, role, older, selected>>

AcceptInvitation(u, i) ==
    /\ u \in users
    /\ i.email = u
    /\ i.open
    /\ IF u \in Members(i.account)
         THEN UNCHANGED <<role, older>>
         ELSE /\ role' = [role EXCEPT ![i.account][u] = i.role]
              /\ older' = JoinedLast(i.account, u)
    /\ invitations' = invitations \ {i}
    /\ selected' = [selected EXCEPT ![u] = i.account]
    /\ UNCHANGED <<users, accounts>>

DeclineInvitation(u, i) ==
    /\ u \in users
    /\ i.email = u
    /\ invitations' = invitations \ {i}
    /\ UNCHANGED <<users, accounts, role, older, selected>>

(* 30 days pass.                                                           *)
Expire(i) ==
    /\ i.open
    /\ invitations' = (invitations \ {i})
                         \cup {[account |-> i.account, email |-> i.email,
                                role |-> i.role, by |-> i.by, open |-> FALSE]}
    /\ UNCHANGED <<users, accounts, role, older, selected>>

-----------------------------------------------------------------------------
(* Roles and removal: updateMember with a new role, or NoRole to remove.   *)

NoLastOwner(a, u) == Owners(a) = {}   \* a mutant: owners == 0

LastOwner(a, u) == Owners(a) = {u}

WithdrawnOnRemoval(a, u, r) ==   \* a mutant: stepping down withdraws nothing
    {i \in invitations : i.account = a /\ r = NoRole /\ (i.by = u \/ i.email = u)}

WithdrawnBySender(a, u, r) ==   \* a mutant: keeps the removed member's own
    {i \in invitations : /\ i.account = a
                         /\ i.by = u
                         /\ role[a][u] = Owner /\ r # Owner}

(* Invitations the member can no longer stand behind.                      *)
Withdrawn(a, u, r) ==
    {i \in invitations : /\ i.account = a
                         /\ \/ i.by = u /\ r = NoRole
                            \/ i.by = u /\ role[a][u] = Owner /\ r # Owner
                            \/ i.email = u /\ r = NoRole}

UpdateMember(a, actor, u, r) ==
    /\ actor \in users
    /\ role[a][actor] = Owner \/ (r = NoRole /\ actor = u)
    /\ u \in Members(a)
    /\ r # Owner => ~ LastOwner(a, u)
    /\ invitations' = invitations \ Withdrawn(a, u, r)
    /\ role' = [role EXCEPT ![a][u] = r]
    /\ older' = IF r = NoRole THEN [older EXCEPT ![a] = Without(a, u)] ELSE older
    /\ UNCHANGED <<users, accounts, selected>>

ChangeMemberRole(a, actor, u) == \E r \in Roles : UpdateMember(a, actor, u, r)

RemoveMember(a, actor, u) == UpdateMember(a, actor, u, NoRole)

-----------------------------------------------------------------------------
(* An administrator deletes a user.                                        *)

(* The accounts the user is a member of or has selected.                   *)
Touched(u) == {a \in accounts : u \in Members(a) \/ selected[u] = a}

ExclusiveMembership(u) ==   \* a mutant: forgets users.default_accounts_id
    {a \in Touched(u) : Members(a) \subseteq {u}}

(* Accounts no other user is a member of or has selected go with the user. *)
Exclusive(u) ==
    {a \in Touched(u) : /\ Members(a) \subseteq {u}
                        /\ \A v \in users \ {u} : selected[v] # a}

(* v is the longest-standing member of an account u leaves ownerless.      *)
Inherits(a, u, v) ==
    /\ a \in Touched(u)
    /\ Owners(a) \subseteq {u}
    /\ v \in Members(a) \ {u}
    /\ \A w \in Members(a) \ {u, v} : <<v, w>> \in older[a]

(* closed: the exclusive accounts that are deleted.                        *)
DeleteUserClosing(actor, u, closed) ==
    /\ actor \in users \cap Admins
    /\ u \in users \ Admins
    /\ users' = users \ {u}
    /\ accounts' = accounts \ closed
    /\ role' = [a \in Accounts |->
                  [v \in Users |-> IF v = u THEN NoRole
                                   ELSE IF Inherits(a, u, v) THEN Owner
                                   ELSE role[a][v]]]
    /\ older' = [a \in Accounts |-> Without(a, u)]
    /\ invitations' = {i \in invitations : /\ i.by # u
                                           /\ i.account \notin closed}
    /\ selected' = [selected EXCEPT ![u] = Other]

DeleteUser(actor, u) == DeleteUserClosing(actor, u, Exclusive(u))

(* Another user selects another account after deleteUser found their       *)
(* reference and kept the account, and before it commits.                  *)
DeleteUserKeeping(actor, u) ==
    \E closed \in SUBSET Exclusive(u) :
        closed # Exclusive(u) /\ DeleteUserClosing(actor, u, closed)

-----------------------------------------------------------------------------
Init ==
    /\ users = Admins
    /\ accounts = {}
    /\ role = [a \in Accounts |-> [u \in Users |-> NoRole]]
    /\ older = [a \in Accounts |-> {}]
    /\ invitations = {}
    /\ selected = [u \in Users |-> Other]

(* The requests of user u: those on the account that was selected when the  *)
(* request began, and the others.                                          *)
AccountRequest(u, a) ==
    \/ \E email \in Users, r \in Roles : InviteMember(u, a, email, r)
    \/ \E i \in invitations : i.account = a /\ CancelInvitation(u, i)
    \/ \E v \in Users : ChangeMemberRole(a, u, v) \/ RemoveMember(a, u, v)

UserRequest(u) ==
    \/ \E a \in Accounts \cup {Other} : SelectAccount(u, a)
    \/ \E a \in Accounts : CreateAccount(u, a)
    \/ \E i \in invitations : AcceptInvitation(u, i) \/ DeclineInvitation(u, i)
    \/ \E v \in Users : DeleteUser(u, v)

Environment ==
    \/ \E u \in Users, a \in Accounts \cup {Other} :
          InsertUserWithAccount(u, a) \/ SelectCurrentAccount(u, a)
    \/ \E i \in invitations : Expire(i)

(* Requests that never overlap: CheckCookie has just seen to it that the   *)
(* user is a member of the selected account, or has none, and members and  *)
(* invitations are managed in the selected account.                        *)
SerialNext ==
    \/ Environment
    \/ \E u \in users :
          \/ (MayUse(u, selected[u]) \/ WithoutAccount(u)) /\ UserRequest(u)
          \/ /\ MayUse(u, selected[u]) /\ selected[u] # Other
             /\ AccountRequest(u, selected[u])

(* Requests that overlap: the account was read before others changed it.   *)
Next ==
    \/ Environment
    \/ \E u \in users : UserRequest(u)
    \/ \E u \in users, a \in Accounts : AccountRequest(u, a)
    \/ \E u, email \in Users, a \in Accounts, r \in Roles :
          InviteNewMember(u, a, email, r)
    \/ \E u \in Users, a \in Accounts : SelectFormerAccount(u, a)
    \/ \E u, v \in Users : DeleteUserKeeping(u, v)

SerialSpec == Init /\ [][SerialNext]_vars
Spec == Init /\ [][Next]_vars

-----------------------------------------------------------------------------
TypeOK ==
    /\ users \subseteq Users
    /\ accounts \subseteq Accounts
    /\ role \in [Accounts -> [Users -> Roles \cup {NoRole}]]
    /\ older \in [Accounts -> SUBSET (Users \X Users)]
    /\ invitations \subseteq Invitation
    /\ selected \in [Users -> Accounts \cup {Other}]

(* Every row refers to rows that exist: an account only has members or     *)
(* invitations while it exists, members are registered users, and a        *)
(* selected account exists.  An address has at most one invitation to an   *)
(* account.                                                                *)
References ==
    /\ \A a \in Accounts : Members(a) # {} => a \in accounts
    /\ \A a \in Accounts : Members(a) \subseteq users
    /\ \A i \in invitations : i.account \in accounts
    /\ \A u \in Users : selected[u] \in accounts \cup {Other}
    /\ \A u \in Users \ users : selected[u] = Other
    /\ \A i, j \in invitations :
          i.account = j.account /\ i.email = j.email => i = j

(* The rows of an account are totally ordered by age, so the one member    *)
(* DeleteUser promotes is well defined.                                    *)
SeniorityOrder ==
    \A a \in Accounts :
        /\ older[a] \subseteq Members(a) \X Members(a)
        /\ \A u, v \in Members(a) :
              u # v => (<<u, v>> \in older[a] <=> <<v, u>> \notin older[a])
        /\ \A u \in Users : <<u, u>> \notin older[a]
        /\ \A u, v, w \in Members(a) :
              <<u, v>> \in older[a] /\ <<v, w>> \in older[a]
                => <<u, w>> \in older[a]

(* README.md: "An account always keeps at least one owner" -- as long as   *)
(* it has a member.                                                        *)
OwnerKept == \A a \in Accounts : Members(a) # {} => Owners(a) # {}

(* The inviter of every waiting invitation is an owner of its account now: *)
(* nobody can join on the word of someone who was removed, stepped down or *)
(* was deleted.                                                            *)
InviterIsOwner == \A i \in invitations : role[i.account][i.by] = Owner

(* The database states the program can be in; requests that overlap keep   *)
(* to them from any such state on.                                         *)
Consistent ==
    /\ TypeOK
    /\ References
    /\ SeniorityOrder
    /\ OwnerKept
    /\ InviterIsOwner

SpecFrom == Consistent /\ [][Next]_vars

(* account_members.go: "Members are not invited again".                    *)
MemberNotInvited == \A i \in invitations : i.email \notin Members(i.account)

(* README.md: "removing a member withdraws the invitations sent to or by   *)
(* them".  Whoever is removed or leaves, while still a user, is left with  *)
(* no invitation to the account and none sent in their name.               *)
RemovalWithdraws ==
    [][\A a \in Accounts, u \in Users :
          u \in Members(a) /\ u \in users' /\ role'[a][u] = NoRole =>
            \A i \in invitations' : i.account = a => u \notin {i.email, i.by}]_vars
=============================================================================
