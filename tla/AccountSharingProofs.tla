------------------------ MODULE AccountSharingProofs ------------------------
(***************************************************************************)
(* Proofs about AccountSharing for any users, accounts and roles.          *)
(*                                                                         *)
(* Consistent is inductive.  OwnerKept alone is not: that an owner is left *)
(* after a deletion needs the heir, who exists because the rows of an      *)
(* account are totally ordered.                                            *)
(***************************************************************************)
EXTENDS AccountSharing, FiniteSetTheorems, WellFoundedInduction, TLAPS

(* Every step is one of these, whoever sends the request.                  *)
AnyStep ==
    \/ \E u \in Users, a \in Accounts \cup {Other} :
          \/ InsertUserWithAccount(u, a)
          \/ SelectAccount(u, a)
          \/ SelectFormerAccount(u, a)
    \/ \E u \in Users, a \in Accounts : CreateAccount(u, a)
    \/ \E u, e \in Users, a \in Accounts, r \in Roles : PutInvitation(u, a, e, r)
    \/ \E u \in Users, i \in invitations :
          \/ CancelInvitation(u, i)
          \/ DeclineInvitation(u, i)
          \/ AcceptInvitation(u, i)
    \/ \E i \in invitations : Expire(i)
    \/ \E a \in Accounts, u, v \in Users, r \in Roles \cup {NoRole} :
          UpdateMember(a, u, v, r)
    \/ \E u, v \in Users : \E closed \in SUBSET Exclusive(v) :
          DeleteUserClosing(u, v, closed)

LEMMA StepCases == TypeOK /\ [Next]_vars => AnyStep \/ UNCHANGED vars
<1> SUFFICES ASSUME TypeOK, Next PROVE AnyStep
  OBVIOUS
<1>0. users \subseteq Users
  BY DEF TypeOK
<1>1. CASE Environment
  BY <1>1 DEF Environment, SelectCurrentAccount, AnyStep
<1>2. ASSUME NEW u \in users, UserRequest(u) PROVE AnyStep
  <2>1. CASE \E a \in Accounts \cup {Other} : SelectAccount(u, a)
    BY <1>0, <2>1 DEF AnyStep
  <2>2. CASE \E a \in Accounts : CreateAccount(u, a)
    BY <1>0, <2>2 DEF AnyStep
  <2>3. CASE \E i \in invitations : AcceptInvitation(u, i) \/ DeclineInvitation(u, i)
    BY <1>0, <2>3 DEF AnyStep
  <2>4. CASE \E v \in Users : DeleteUser(u, v)
    BY <1>0, <2>4 DEF AnyStep, DeleteUser
  <2> QED
    BY <1>2, <2>1, <2>2, <2>3, <2>4 DEF UserRequest
<1>3. ASSUME NEW u \in users, NEW a \in Accounts, AccountRequest(u, a)
      PROVE  AnyStep
  BY <1>0, <1>3 DEF AccountRequest, InviteMember, ChangeMemberRole,
                    RemoveMember, AnyStep
<1>4. ASSUME NEW u \in Users, NEW e \in Users, NEW a \in Accounts,
             NEW r \in Roles, InviteNewMember(u, a, e, r)
      PROVE  AnyStep
  BY <1>4 DEF InviteNewMember, AnyStep
<1>5. ASSUME NEW u \in Users, NEW v \in Users, DeleteUserKeeping(u, v)
      PROVE  AnyStep
  BY <1>5 DEF DeleteUserKeeping, AnyStep
<1>6. ASSUME NEW u \in Users, NEW a \in Accounts, SelectFormerAccount(u, a)
      PROVE  AnyStep
  BY <1>6 DEF AnyStep
<1> QED
  BY <1>1, <1>2, <1>3, <1>4, <1>5, <1>6 DEF Next

-----------------------------------------------------------------------------
(* What the updates of role and older change and keep.                     *)
Rolemap == [Accounts -> [Users -> Roles \cup {NoRole}]]

LEMMA RoleUpdate ==
  ASSUME role \in Rolemap, NEW a \in Accounts, NEW u \in Users,
         NEW r \in Roles \cup {NoRole}
  PROVE  /\ [role EXCEPT ![a][u] = r] \in Rolemap
         /\ \A b \in Accounts, v \in Users :
               [role EXCEPT ![a][u] = r][b][v]
                 = IF b = a /\ v = u THEN r ELSE role[b][v]
BY DEF Rolemap

Olders == [Accounts -> SUBSET (Users \X Users)]

LEMMA OlderUpdate ==
  ASSUME older \in Olders, NEW a \in Accounts, NEW u \in Users
  PROVE  /\ JoinedLast(a, u) \in Olders
         /\ [older EXCEPT ![a] = Without(a, u)] \in Olders
         /\ [b \in Accounts |-> Without(b, u)] \in Olders
<1>1. Members(a) \X {u} \in SUBSET (Users \X Users)
  BY DEF Members
<1>2. \A b \in Accounts : Without(b, u) \in SUBSET (Users \X Users)
  BY DEF Without, Olders
<1> QED
  BY <1>1, <1>2 DEF JoinedLast, Olders

(* The types of the rows.                                                  *)
LEMMA TypeInit == Init => TypeOK
BY AdminsAssumption, RolesAssumption, OtherAssumption DEF Init, TypeOK

LEMMA TypeStep == TypeOK /\ [Next]_vars => TypeOK'
<1> SUFFICES ASSUME TypeOK, AnyStep PROVE TypeOK'
  BY StepCases DEF TypeOK, vars
<1>a. role \in Rolemap /\ older \in Olders
  BY DEF TypeOK, Rolemap, Olders
<1>b. Owner \in Roles \cup {NoRole}
  BY RolesAssumption
<1> USE DEF TypeOK
<1>1. ASSUME NEW u \in Users, NEW a \in Accounts \cup {Other},
             InsertUserWithAccount(u, a)
      PROVE  TypeOK'
  <2>1. CASE a \in Accounts \ accounts
    <3>1. role' = [role EXCEPT ![a][u] = Owner]
      BY <1>1, <2>1, OtherAssumption DEF InsertUserWithAccount
    <3>2. role' \in Rolemap
      BY <1>a, <1>b, <2>1, <3>1, RoleUpdate
    <3> QED
      BY <1>1, <2>1, <3>2 DEF InsertUserWithAccount, Rolemap
  <2>2. CASE a = Other
    BY <1>1, <2>2, OtherAssumption DEF InsertUserWithAccount
  <2> QED
    BY <1>1, <2>1, <2>2 DEF InsertUserWithAccount
<1>2. ASSUME NEW u \in Users, NEW a \in Accounts \cup {Other},
             SelectAccount(u, a) \/ SelectFormerAccount(u, a)
      PROVE  TypeOK'
  BY <1>2 DEF SelectAccount, SelectFormerAccount
<1>3. ASSUME NEW u \in Users, NEW a \in Accounts, CreateAccount(u, a)
      PROVE  TypeOK'
  BY <1>3, RolesAssumption DEF CreateAccount
<1>4. ASSUME NEW u \in Users, NEW e \in Users, NEW a \in Accounts,
             NEW r \in Roles, PutInvitation(u, a, e, r)
      PROVE  TypeOK'
  <2>1. [account |-> a, email |-> e, role |-> r, by |-> u, open |-> TRUE]
          \in Invitation
    BY DEF Invitation
  <2> QED
    BY <1>4, <2>1 DEF PutInvitation, Upserted
<1>5. ASSUME NEW u \in Users, NEW i \in invitations,
             CancelInvitation(u, i) \/ DeclineInvitation(u, i)
      PROVE  TypeOK'
  BY <1>5 DEF CancelInvitation, DeclineInvitation
<1>6. ASSUME NEW u \in Users, NEW i \in invitations, AcceptInvitation(u, i)
      PROVE  TypeOK'
  <2>1. i \in Invitation
    OBVIOUS
  <2>2. i.account \in Accounts /\ i.role \in Roles
    BY <2>1 DEF Invitation
  <2>3. CASE u \in Members(i.account)
    BY <1>6, <2>2, <2>3 DEF AcceptInvitation
  <2>4. CASE u \notin Members(i.account)
    <3>1. /\ role' = [role EXCEPT ![i.account][u] = i.role]
          /\ older' = JoinedLast(i.account, u)
      BY <1>6, <2>4 DEF AcceptInvitation
    <3>2. role' \in Rolemap
      BY <1>a, <2>2, <3>1, RoleUpdate
    <3>3. older' \in Olders
      BY <1>a, <2>2, <3>1, OlderUpdate
    <3> QED
      BY <1>6, <2>2, <3>2, <3>3 DEF AcceptInvitation, Rolemap, Olders
  <2> QED
    BY <2>3, <2>4
<1>7. ASSUME NEW i \in invitations, Expire(i) PROVE TypeOK'
  <2>1. i \in Invitation
    OBVIOUS
  <2>2. [account |-> i.account, email |-> i.email, role |-> i.role,
         by |-> i.by, open |-> FALSE] \in Invitation
    BY <2>1 DEF Invitation
  <2> QED
    BY <1>7, <2>2 DEF Expire
<1>8. ASSUME NEW a \in Accounts, NEW u \in Users, NEW v \in Users,
             NEW r \in Roles \cup {NoRole}, UpdateMember(a, u, v, r)
      PROVE  TypeOK'
  BY <1>8 DEF UpdateMember, Without
<1>9. ASSUME NEW u \in Users, NEW v \in Users,
             NEW closed \in SUBSET Exclusive(v), DeleteUserClosing(u, v, closed)
      PROVE  TypeOK'
  BY <1>9, RolesAssumption DEF DeleteUserClosing, Without
<1> QED
  BY <1>1, <1>2, <1>3, <1>4, <1>5, <1>6, <1>7, <1>8, <1>9 DEF AnyStep

-----------------------------------------------------------------------------
(* What each action does to single rows.                                   *)
LEMMA NewAccountEffect ==
  ASSUME TypeOK, NEW u \in Users, NEW a \in Accounts,
         role' = [role EXCEPT ![a][u] = Owner]
  PROVE  \A b \in Accounts, v \in Users :
            role'[b][v] = IF b = a /\ v = u THEN Owner ELSE role[b][v]
<1>1. role \in Rolemap /\ Owner \in Roles \cup {NoRole}
  BY RolesAssumption DEF TypeOK, Rolemap
<1> QED
  BY <1>1, RoleUpdate

LEMMA AcceptEffect ==
  ASSUME TypeOK, NEW u \in Users, NEW i \in invitations, AcceptInvitation(u, i)
  PROVE  /\ i.account \in Accounts /\ i.role \in Roles
         /\ \A b \in Accounts, v \in Users :
               role'[b][v] = IF /\ b = i.account /\ v = u
                                /\ u \notin Members(i.account)
                               THEN i.role ELSE role[b][v]
         /\ u \notin Members(i.account) =>
               /\ older'[i.account] = older[i.account] \cup (Members(i.account) \X {u})
               /\ \A b \in Accounts \ {i.account} : older'[b] = older[b]
<1>1. role \in Rolemap /\ older \in Olders
  BY DEF TypeOK, Rolemap, Olders
<1>2. i.account \in Accounts /\ i.role \in Roles
  BY DEF TypeOK, Invitation
<1>3. CASE u \in Members(i.account)
  BY <1>2, <1>3 DEF AcceptInvitation
<1>4. CASE u \notin Members(i.account)
  <2>1. /\ role' = [role EXCEPT ![i.account][u] = i.role]
        /\ older' = [older EXCEPT ![i.account] = @ \cup (Members(i.account) \X {u})]
    BY <1>4 DEF AcceptInvitation, JoinedLast
  <2>2. \A b \in Accounts, v \in Users :
          role'[b][v] = IF b = i.account /\ v = u THEN i.role ELSE role[b][v]
    BY <1>1, <1>2, <2>1, RoleUpdate
  <2>3. /\ older'[i.account] = older[i.account] \cup (Members(i.account) \X {u})
        /\ \A b \in Accounts \ {i.account} : older'[b] = older[b]
    BY <1>1, <1>2, <2>1 DEF Olders
  <2> QED
    BY <1>2, <1>4, <2>2, <2>3
<1> QED
  BY <1>3, <1>4

LEMMA UpdateEffect ==
  ASSUME TypeOK, NEW a \in Accounts, NEW actor \in Users, NEW u \in Users,
         NEW r \in Roles \cup {NoRole}, UpdateMember(a, actor, u, r)
  PROVE  /\ \A b \in Accounts, v \in Users :
               role'[b][v] = IF b = a /\ v = u THEN r ELSE role[b][v]
         /\ \A b \in Accounts :
               older'[b] = IF b = a /\ r = NoRole THEN Without(b, u) ELSE older[b]
<1>1. role \in Rolemap /\ older \in Olders
  BY DEF TypeOK, Rolemap, Olders
<1>2. role' = [role EXCEPT ![a][u] = r]
  BY DEF UpdateMember
<1>3. older' = IF r = NoRole THEN [older EXCEPT ![a] = Without(a, u)] ELSE older
  BY DEF UpdateMember
<1>4. \A b \in Accounts, v \in Users :
        role'[b][v] = IF b = a /\ v = u THEN r ELSE role[b][v]
  BY <1>1, <1>2, RoleUpdate
<1>5. \A b \in Accounts :
        older'[b] = IF b = a /\ r = NoRole THEN Without(b, u) ELSE older[b]
  BY <1>1, <1>3 DEF Olders
<1> QED
  BY <1>4, <1>5

LEMMA DeleteEffect ==
  ASSUME TypeOK, NEW actor \in Users, NEW u \in Users,
         NEW closed \in SUBSET Exclusive(u), DeleteUserClosing(actor, u, closed)
  PROVE  /\ \A b \in Accounts, v \in Users :
               role'[b][v] = IF v = u THEN NoRole
                             ELSE IF Inherits(b, u, v) THEN Owner
                             ELSE role[b][v]
         /\ \A b \in Accounts : older'[b] = Without(b, u)
         /\ \A v \in Users : selected'[v] = IF v = u THEN Other ELSE selected[v]
BY DEF DeleteUserClosing, TypeOK

-----------------------------------------------------------------------------
(* InviterIsOwner: only a change of the inviter's own role or their        *)
(* deletion could end their ownership, and both withdraw.                  *)
LEMMA InviterStep ==
  TypeOK /\ InviterIsOwner /\ [Next]_vars => InviterIsOwner'
<1> SUFFICES ASSUME TypeOK, InviterIsOwner, AnyStep PROVE InviterIsOwner'
  BY StepCases DEF InviterIsOwner, vars
<1>1. \A i \in invitations : i.account \in Accounts /\ i.by \in Users
  BY DEF TypeOK, Invitation
<1>2. ASSUME NEW u \in Users, NEW a \in Accounts \cup {Other},
             InsertUserWithAccount(u, a)
      PROVE  InviterIsOwner'
  <2>1. CASE a \in Accounts /\ role' = [role EXCEPT ![a][u] = Owner]
    BY <1>1, <1>2, <2>1, NewAccountEffect
       DEF InviterIsOwner, InsertUserWithAccount
  <2>2. CASE UNCHANGED role
    BY <1>2, <2>2 DEF InviterIsOwner, InsertUserWithAccount
  <2> QED
    BY <1>2, <2>1, <2>2 DEF InsertUserWithAccount
<1>3. ASSUME NEW u \in Users, NEW a \in Accounts \cup {Other},
             SelectAccount(u, a) \/ SelectFormerAccount(u, a)
      PROVE  InviterIsOwner'
  BY <1>3 DEF InviterIsOwner, SelectAccount, SelectFormerAccount
<1>4. ASSUME NEW u \in Users, NEW a \in Accounts, CreateAccount(u, a)
      PROVE  InviterIsOwner'
  BY <1>1, <1>4, NewAccountEffect DEF InviterIsOwner, CreateAccount
<1>5. ASSUME NEW u \in Users, NEW e \in Users, NEW a \in Accounts,
             NEW r \in Roles, PutInvitation(u, a, e, r)
      PROVE  InviterIsOwner'
  BY <1>5 DEF InviterIsOwner, PutInvitation, Upserted
<1>6. ASSUME NEW u \in Users, NEW i \in invitations,
             CancelInvitation(u, i) \/ DeclineInvitation(u, i)
      PROVE  InviterIsOwner'
  BY <1>6 DEF InviterIsOwner, CancelInvitation, DeclineInvitation
<1>7. ASSUME NEW u \in Users, NEW i \in invitations, AcceptInvitation(u, i)
      PROVE  InviterIsOwner'
  <2>1. invitations' \subseteq invitations
    BY <1>7 DEF AcceptInvitation
  <2>2. \A j \in invitations : j.by \in Members(j.account)
    BY <1>1, RolesAssumption DEF InviterIsOwner, Members
  <2> QED
    BY <1>1, <1>7, <2>1, <2>2, AcceptEffect DEF InviterIsOwner
<1>8. ASSUME NEW i \in invitations, Expire(i) PROVE InviterIsOwner'
  BY <1>8 DEF InviterIsOwner, Expire
<1>9. ASSUME NEW a \in Accounts, NEW u \in Users, NEW v \in Users,
             NEW r \in Roles \cup {NoRole}, UpdateMember(a, u, v, r)
      PROVE  InviterIsOwner'
  <2>1. invitations' = invitations \ Withdrawn(a, v, r)
    BY <1>9 DEF UpdateMember
  <2>2. ASSUME NEW i \in invitations' PROVE role'[i.account][i.by] = Owner
    <3>1. i \in invitations /\ role[i.account][i.by] = Owner
      BY <2>1 DEF InviterIsOwner
    <3>2. CASE i.account = a /\ i.by = v
      <4>1. r = Owner
        BY <2>1, <3>1, <3>2 DEF Withdrawn
      <4> QED
        BY <1>1, <1>9, <3>1, <3>2, <4>1, UpdateEffect
    <3> QED
      BY <1>1, <1>9, <3>1, <3>2, UpdateEffect
  <2> QED
    BY <2>2 DEF InviterIsOwner
<1>10. ASSUME NEW u \in Users, NEW v \in Users,
              NEW closed \in SUBSET Exclusive(v), DeleteUserClosing(u, v, closed)
       PROVE  InviterIsOwner'
  <2>1. invitations' \subseteq {i \in invitations : i.by # v}
    BY <1>10 DEF DeleteUserClosing
  <2> QED
    BY <1>1, <1>10, <2>1, DeleteEffect DEF InviterIsOwner
<1> QED
  BY <1>2, <1>3, <1>4, <1>5, <1>6, <1>7, <1>8, <1>9, <1>10 DEF AnyStep

-----------------------------------------------------------------------------
(* References: an account is deleted only without other members and        *)
(* selections, and its invitations go with it.                             *)
LEMMA ReferencesStep ==
  TypeOK /\ References /\ [Next]_vars => References'
<1> SUFFICES ASSUME TypeOK, References, AnyStep PROVE References'
  BY StepCases DEF References, Members, vars
<1>1. \A i \in invitations : /\ i.account \in Accounts /\ i.by \in Users
                              /\ i.email \in Users /\ i.role \in Roles
  BY DEF TypeOK, Invitation
<1>2. ASSUME NEW u \in Users, NEW a \in Accounts \cup {Other},
             InsertUserWithAccount(u, a)
      PROVE  References'
  <2>1. \A v \in Users : selected'[v] = IF v = u THEN a ELSE selected[v]
    BY <1>2 DEF InsertUserWithAccount, TypeOK
  <2>2. CASE a \in Accounts /\ role' = [role EXCEPT ![a][u] = Owner]
                /\ accounts' = accounts \cup {a}
    <3>1. \A b \in Accounts : Members(b)' \subseteq
              IF b = a THEN Members(b) \cup {u} ELSE Members(b)
      BY <2>2, NewAccountEffect DEF Members
    <3> QED
      BY <1>2, <2>1, <2>2, <3>1 DEF References, InsertUserWithAccount
  <2>3. CASE a = Other /\ UNCHANGED <<accounts, role>>
    BY <1>2, <2>1, <2>3 DEF References, Members, InsertUserWithAccount
  <2> QED
    BY <1>2, <2>2, <2>3 DEF InsertUserWithAccount
<1>3. ASSUME NEW u \in Users, NEW a \in Accounts \cup {Other},
             SelectAccount(u, a) \/ SelectFormerAccount(u, a)
      PROVE  References'
  <2>1. \A v \in Users : selected'[v] = IF v = u THEN a ELSE selected[v]
    BY <1>3 DEF SelectAccount, SelectFormerAccount, TypeOK
  <2>2. u \in users /\ a \in accounts \cup {Other}
    BY <1>3 DEF SelectAccount, SelectFormerAccount, MayUse
  <2>3. UNCHANGED <<users, accounts, role, invitations>>
    BY <1>3 DEF SelectAccount, SelectFormerAccount
  <2> QED
    BY <2>1, <2>2, <2>3 DEF References, Members
<1>4. ASSUME NEW u \in Users, NEW a \in Accounts, CreateAccount(u, a)
      PROVE  References'
  <2>1. \A b \in Accounts : Members(b)' \subseteq
            IF b = a THEN Members(b) \cup {u} ELSE Members(b)
    BY <1>4, NewAccountEffect DEF Members, CreateAccount
  <2> QED
    BY <1>4, <2>1 DEF References, CreateAccount
<1>5. ASSUME NEW u \in Users, NEW e \in Users, NEW a \in Accounts,
             NEW r \in Roles, PutInvitation(u, a, e, r)
      PROVE  References'
  <2>1. u \in Members(a)
    BY <1>5, RolesAssumption DEF PutInvitation, Members
  <2>2. a \in accounts
    BY <2>1 DEF References
  <2> DEFINE n == [account |-> a, email |-> e, role |-> r, by |-> u, open |-> TRUE]
  <2>3. /\ UNCHANGED <<users, accounts, role, selected>>
        /\ invitations' = {i \in invitations : i.account # a \/ i.email # e}
                             \cup {n}
    BY <1>5 DEF PutInvitation, Upserted
  <2>4. n.account = a /\ n.email = e
    OBVIOUS
  <2> HIDE DEF n
  <2>5. /\ \A i \in invitations' : i.account \in accounts
        /\ \A i, j \in invitations' :
              i.account = j.account /\ i.email = j.email => i = j
    BY <2>2, <2>3, <2>4 DEF References
  <2> QED
    BY <2>3, <2>5 DEF References, Members
<1>6. ASSUME NEW u \in Users, NEW i \in invitations,
             CancelInvitation(u, i) \/ DeclineInvitation(u, i)
      PROVE  References'
  BY <1>6 DEF References, Members, CancelInvitation, DeclineInvitation
<1>7. ASSUME NEW u \in Users, NEW i \in invitations, AcceptInvitation(u, i)
      PROVE  References'
  <2>1. /\ u \in users /\ UNCHANGED <<users, accounts>>
        /\ invitations' = invitations \ {i}
        /\ \A v \in Users :
              selected'[v] = IF v = u THEN i.account ELSE selected[v]
    BY <1>7 DEF AcceptInvitation, TypeOK
  <2>2. i.account \in accounts
    BY DEF References
  <2>3. \A b \in Accounts : Members(b)' \subseteq
            IF b = i.account THEN Members(b) \cup {u} ELSE Members(b)
    BY <1>7, AcceptEffect DEF Members
  <2> QED
    BY <2>1, <2>2, <2>3 DEF References
<1>8. ASSUME NEW i \in invitations, Expire(i) PROVE References'
  <2> DEFINE n == [account |-> i.account, email |-> i.email, role |-> i.role,
                   by |-> i.by, open |-> FALSE]
  <2>1. /\ UNCHANGED <<users, accounts, role, selected>>
        /\ invitations' = (invitations \ {i}) \cup {n}
    BY <1>8 DEF Expire
  <2>2. n.account = i.account /\ n.email = i.email
    OBVIOUS
  <2> HIDE DEF n
  <2>3. /\ \A j \in invitations' : j.account \in accounts
        /\ \A j, k \in invitations' :
              j.account = k.account /\ j.email = k.email => j = k
    BY <2>1, <2>2 DEF References
  <2> QED
    BY <2>1, <2>3 DEF References, Members
<1>9. ASSUME NEW a \in Accounts, NEW u \in Users, NEW v \in Users,
             NEW r \in Roles \cup {NoRole}, UpdateMember(a, u, v, r)
      PROVE  References'
  <2>1. \A b \in Accounts : Members(b)' \subseteq Members(b)
    BY <1>9, UpdateEffect DEF UpdateMember, Members
  <2>2. invitations' \subseteq invitations /\ UNCHANGED <<users, accounts, selected>>
    BY <1>9 DEF UpdateMember
  <2> QED
    BY <2>1, <2>2 DEF References
<1>10. ASSUME NEW u \in Users, NEW v \in Users,
              NEW closed \in SUBSET Exclusive(v), DeleteUserClosing(u, v, closed)
       PROVE  References'
  <2>1. \A b \in Accounts : Members(b)' \subseteq Members(b) \ {v}
    BY <1>10, DeleteEffect DEF Members, Inherits
  <2>2. /\ users' = users \ {v} /\ accounts' = accounts \ closed
        /\ invitations' \subseteq {i \in invitations : i.account \notin closed}
    BY <1>10 DEF DeleteUserClosing
  <2>3. \A b \in closed : /\ Members(b) \subseteq {v}
                           /\ \A w \in users \ {v} : selected[w] # b
    BY DEF Exclusive
  <2>4. \A w \in Users : selected'[w] = IF w = v THEN Other ELSE selected[w]
    BY <1>10, DeleteEffect
  <2>5. Other \notin closed
    BY OtherAssumption DEF Exclusive, Touched, TypeOK
  <2>6. \A b \in Accounts : Members(b)' # {} => b \in accounts'
    BY <2>1, <2>2, <2>3 DEF References
  <2>7. \A b \in Accounts : Members(b)' \subseteq users'
    BY <2>1, <2>2 DEF References
  <2>8. \A w \in Users : selected'[w] \in accounts' \cup {Other}
    BY <2>2, <2>3, <2>4, <2>5 DEF References
  <2>9. \A w \in Users \ users' : selected'[w] = Other
    BY <2>2, <2>4 DEF References
  <2> QED
    BY <2>2, <2>6, <2>7, <2>8, <2>9 DEF References
<1> QED
  BY <1>2, <1>3, <1>4, <1>5, <1>6, <1>7, <1>8, <1>9, <1>10 DEF AnyStep

-----------------------------------------------------------------------------
(* SeniorityOrder: a new row comes last, and a deleted row leaves the      *)
(* others in order.                                                        *)

(* SeniorityOrder of one account with members M and order R.               *)
Ordered(M, R) ==
    /\ R \subseteq M \X M
    /\ \A u, v \in M : u # v => (<<u, v>> \in R <=> <<v, u>> \notin R)
    /\ \A u \in Users : <<u, u>> \notin R
    /\ \A u, v, w \in M : <<u, v>> \in R /\ <<v, w>> \in R => <<u, w>> \in R

LEMMA OrderedJoin ==
  ASSUME NEW M, NEW R, Ordered(M, R), NEW u, u \notin M
  PROVE  Ordered(M \cup {u}, R \cup (M \X {u}))
BY DEF Ordered

LEMMA OrderedLeave ==
  ASSUME NEW a, NEW M, Ordered(M, older[a]), NEW u
  PROVE  Ordered(M \ {u}, Without(a, u))
BY DEF Ordered, Without

LEMMA SeniorityStep ==
  TypeOK /\ References /\ SeniorityOrder /\ [Next]_vars => SeniorityOrder'
<1> SUFFICES ASSUME TypeOK, References, SeniorityOrder, AnyStep
             PROVE  SeniorityOrder'
  BY StepCases DEF SeniorityOrder, Members, vars
<1>1. \A a \in Accounts : Ordered(Members(a), older[a])
  BY DEF SeniorityOrder, Ordered
<1>2. (\A a \in Accounts : Ordered(Members(a)', older'[a])) => SeniorityOrder'
  BY DEF SeniorityOrder, Ordered
<1>3. ASSUME NEW u \in Users, NEW a \in Accounts, a \notin accounts,
             role' = [role EXCEPT ![a][u] = Owner], UNCHANGED older
      PROVE  SeniorityOrder'
  <2>1. Members(a) = {} /\ older[a] = {}
    BY <1>1, <1>3 DEF References, Ordered
  <2>2. Members(a)' = {u}
    <3>1. \A b \in Accounts, v \in Users :
            role'[b][v] = IF b = a /\ v = u THEN Owner ELSE role[b][v]
      BY <1>3, NewAccountEffect
    <3>2. \A v \in Users : role[a][v] = NoRole
      BY <2>1 DEF Members
    <3> QED
      BY <3>1, <3>2, RolesAssumption DEF Members
  <2>3. \A b \in Accounts \ {a} : Members(b)' = Members(b)
    BY <1>3, NewAccountEffect DEF Members
  <2>4. Ordered({u}, {})
    BY DEF Ordered
  <2> QED
    BY <1>1, <1>2, <1>3, <2>1, <2>2, <2>3, <2>4
<1>4. ASSUME UNCHANGED <<role, older>> PROVE SeniorityOrder'
  BY <1>4 DEF SeniorityOrder, Members
<1>5. ASSUME NEW u \in Users, NEW a \in Accounts \cup {Other},
             InsertUserWithAccount(u, a)
      PROVE  SeniorityOrder'
  BY <1>3, <1>4, <1>5 DEF InsertUserWithAccount
<1>6. ASSUME NEW u \in Users, NEW i \in invitations, AcceptInvitation(u, i)
      PROVE  SeniorityOrder'
  <2>1. i.account \in Accounts /\ i.role \in Roles
    BY <1>6, AcceptEffect
  <2>2. CASE u \in Members(i.account)
    BY <1>4, <1>6, <2>2 DEF AcceptInvitation
  <2>3. CASE u \notin Members(i.account)
    <3>1. /\ Members(i.account)' = Members(i.account) \cup {u}
          /\ \A b \in Accounts \ {i.account} : Members(b)' = Members(b)
      BY <1>6, <2>1, <2>3, RolesAssumption, AcceptEffect DEF Members
    <3>2. /\ older'[i.account] = older[i.account] \cup (Members(i.account) \X {u})
          /\ \A b \in Accounts \ {i.account} : older'[b] = older[b]
      BY <1>6, <2>1, <2>3, AcceptEffect
    <3>3. Ordered(Members(i.account) \cup {u},
                  older[i.account] \cup (Members(i.account) \X {u}))
      BY <1>1, <2>1, <2>3, OrderedJoin
    <3> QED
      BY <1>1, <1>2, <2>1, <3>1, <3>2, <3>3
  <2> QED
    BY <2>2, <2>3
<1>7. ASSUME NEW a \in Accounts, NEW u \in Users, NEW v \in Users,
             NEW r \in Roles \cup {NoRole}, UpdateMember(a, u, v, r)
      PROVE  SeniorityOrder'
  <2>1. \A b \in Accounts, w \in Users :
          role'[b][w] = IF b = a /\ w = v THEN r ELSE role[b][w]
    BY <1>7, UpdateEffect
  <2>2. v \in Members(a)
    BY <1>7 DEF UpdateMember
  <2>3. \A b \in Accounts \ {a} : Members(b)' = Members(b) /\ older'[b] = older[b]
    BY <1>7, <2>1, UpdateEffect DEF Members
  <2>4. CASE r = NoRole
    <3>1. Members(a)' = Members(a) \ {v} /\ older'[a] = Without(a, v)
      BY <1>7, <2>1, <2>4, UpdateEffect DEF Members
    <3>2. Ordered(Members(a) \ {v}, Without(a, v))
      BY <1>1, OrderedLeave
    <3> QED
      BY <1>1, <1>2, <2>3, <3>1, <3>2
  <2>5. CASE r # NoRole
    <3>1. Members(a)' = Members(a) /\ older'[a] = older[a]
      BY <1>7, <2>1, <2>2, <2>5, UpdateEffect DEF Members
    <3> QED
      BY <1>1, <1>2, <2>3, <3>1
  <2> QED
    BY <2>4, <2>5
<1>8. ASSUME NEW u \in Users, NEW v \in Users,
             NEW closed \in SUBSET Exclusive(v), DeleteUserClosing(u, v, closed)
      PROVE  SeniorityOrder'
  <2>1. \A b \in Accounts : Members(b)' = Members(b) \ {v}
    BY <1>8, DeleteEffect, RolesAssumption DEF Members, Inherits
  <2>2. \A b \in Accounts : Ordered(Members(b) \ {v}, Without(b, v))
    BY <1>1, OrderedLeave
  <2> QED
    BY <1>2, <1>8, <2>1, <2>2, DeleteEffect
<1> QED
  BY <1>3, <1>4, <1>5, <1>6, <1>7, <1>8
     DEF AnyStep, SelectAccount, SelectFormerAccount, CreateAccount,
         PutInvitation, CancelInvitation, DeclineInvitation, Expire

-----------------------------------------------------------------------------
(* OwnerKept: an update leaves another owner, a deletion an heir, and who  *)
(* accepts an invitation joins its sender, who is an owner.                *)

(* An ordered set of users has a first one: the one the fewest precede.    *)
LEMMA FirstExists ==
  ASSUME NEW S \in SUBSET Users, S # {}, NEW M, NEW R, Ordered(M, R), S \subseteq M
  PROVE  \E v \in S : \A w \in S \ {v} : <<v, w>> \in R
<1> DEFINE Before(v) == {w \in S : <<w, v>> \in R}
           Ranks == {Cardinality(Before(v)) : v \in S}
<1>1. IsFiniteSet(S)
  BY UsersAssumption, FS_Subset
<1>2. \A v \in S : /\ IsFiniteSet(Before(v))
                   /\ Cardinality(Before(v)) \in Nat
  BY <1>1, FS_Subset, FS_CardinalityType
<1>3. Ranks \subseteq Nat /\ Ranks # {}
  BY <1>2
<1>4. PICK n \in Ranks : \A m \in Ranks : ~ (<<m, n>> \in OpToRel(<, Nat))
  BY <1>3, NatLessThanWellFounded, WFMin
<1>5. PICK v \in S : n = Cardinality(Before(v))
  BY <1>4
<1>6. ASSUME NEW w \in S \ {v}, <<w, v>> \in R
      PROVE  FALSE
  <2>1. Before(w) \subseteq Before(v)
    BY <1>6 DEF Ordered
  <2>2. w \in Before(v) \ Before(w)
    BY <1>6 DEF Ordered
  <2>3. Cardinality(Before(w)) < Cardinality(Before(v))
    <3> HIDE DEF Before
    <3>1. /\ Cardinality(Before(w)) <= Cardinality(Before(v))
          /\ Cardinality(Before(w)) # Cardinality(Before(v))
      BY <1>2, <2>1, <2>2, FS_Subset
    <3> QED
      BY <1>2, <3>1
  <2>4. Cardinality(Before(w)) \in Ranks
    OBVIOUS
  <2> HIDE DEF Before, Ranks
  <2> QED
    BY <1>3, <1>4, <1>5, <2>3, <2>4 DEF OpToRel
<1> QED
  BY <1>6 DEF Ordered

LEMMA OwnerKeptStep ==
  Consistent /\ [Next]_vars => OwnerKept'
<1> SUFFICES ASSUME Consistent, AnyStep PROVE OwnerKept'
  BY StepCases DEF Consistent, OwnerKept, Members, Owners, vars
<1>0. TypeOK /\ References /\ SeniorityOrder /\ OwnerKept /\ InviterIsOwner
  BY DEF Consistent
<1>1. ASSUME NEW u \in Users, NEW a \in Accounts,
             role' = [role EXCEPT ![a][u] = Owner]
      PROVE  OwnerKept'
  <2>0. \A b \in Accounts, v \in Users :
          role'[b][v] = IF b = a /\ v = u THEN Owner ELSE role[b][v]
    BY <1>0, <1>1, NewAccountEffect
  <2>1. u \in Owners(a)'
    BY <2>0 DEF Owners
  <2>2. \A b \in Accounts \ {a} :
          Members(b)' = Members(b) /\ Owners(b)' = Owners(b)
    BY <2>0 DEF Members, Owners
  <2> QED
    BY <1>0, <2>1, <2>2 DEF OwnerKept
<1>2. ASSUME UNCHANGED role PROVE OwnerKept'
  BY <1>0, <1>2 DEF OwnerKept, Members, Owners
<1>3. ASSUME NEW u \in Users, NEW a \in Accounts \cup {Other},
             InsertUserWithAccount(u, a)
      PROVE  OwnerKept'
  BY <1>1, <1>2, <1>3 DEF InsertUserWithAccount
<1>4. ASSUME NEW u \in Users, NEW i \in invitations, AcceptInvitation(u, i)
      PROVE  OwnerKept'
  <2>1. i.account \in Accounts /\ i.by \in Users
    BY <1>0 DEF TypeOK, Invitation
  <2>2. \A b \in Accounts : Owners(b) \subseteq Owners(b)'
    BY <1>0, <1>4, RolesAssumption, AcceptEffect DEF Owners, Members
  <2>3. \A b \in Accounts \ {i.account} : Members(b)' = Members(b)
    BY <1>0, <1>4, AcceptEffect DEF Members
  <2>4. Owners(i.account) # {}
    BY <1>0, <2>1 DEF InviterIsOwner, Owners
  <2> QED
    BY <1>0, <2>1, <2>2, <2>3, <2>4 DEF OwnerKept
<1>5. ASSUME NEW a \in Accounts, NEW u \in Users, NEW v \in Users,
             NEW r \in Roles \cup {NoRole}, UpdateMember(a, u, v, r)
      PROVE  OwnerKept'
  <2>1. \A b \in Accounts \ {a} :
          Members(b)' = Members(b) /\ Owners(b)' = Owners(b)
    BY <1>0, <1>5, UpdateEffect DEF Members, Owners
  <2>2. Owners(a) # {} /\ v \in Users
    BY <1>0, <1>5 DEF OwnerKept, UpdateMember
  <2>3. CASE r = Owner
    <3>1. v \in Owners(a)'
      BY <1>0, <1>5, <2>3, UpdateEffect DEF Owners
    <3> QED
      BY <1>0, <2>1, <3>1 DEF OwnerKept
  <2>4. CASE r # Owner
    <3>1. PICK w \in Owners(a) : w # v
      BY <1>5, <2>2, <2>4 DEF UpdateMember, LastOwner
    <3>2. w \in Owners(a)'
      BY <1>0, <1>5, <3>1, UpdateEffect DEF Owners
    <3> QED
      BY <1>0, <2>1, <3>2 DEF OwnerKept
  <2> QED
    BY <2>3, <2>4
<1>6. ASSUME NEW u \in Users, NEW v \in Users,
             NEW closed \in SUBSET Exclusive(v), DeleteUserClosing(u, v, closed)
      PROVE  OwnerKept'
  <2> SUFFICES ASSUME NEW b \in Accounts, Members(b)' # {}
               PROVE  Owners(b)' # {}
    BY DEF OwnerKept
  <2>1. Members(b)' = Members(b) \ {v}
    BY <1>0, <1>6, RolesAssumption, DeleteEffect DEF Members, Inherits
  <2>2. CASE \E w \in Owners(b) : w # v
    BY <1>0, <1>6, <2>2, DeleteEffect DEF Owners
  <2>3. CASE Owners(b) \subseteq {v}
    <3>1. Owners(b) = {v} /\ v \in Members(b)
      BY <1>0, <2>1, <2>3, RolesAssumption DEF OwnerKept, Owners, Members
    <3>2. b \in Touched(v)
      BY <1>0, <3>1 DEF References, Touched
    <3>3. /\ Members(b) \ {v} # {}
          /\ Members(b) \ {v} \in SUBSET Users
          /\ Ordered(Members(b), older[b])
      BY <1>0, <2>1 DEF SeniorityOrder, Ordered, Members
    <3>4. PICK w \in Members(b) \ {v} :
            \A x \in (Members(b) \ {v}) \ {w} : <<w, x>> \in older[b]
      <4> DEFINE S == Members(b) \ {v}
      <4>1. S # {} /\ S \in SUBSET Users /\ S \subseteq Members(b)
        BY <3>3
      <4> HIDE DEF S
      <4>2. \E w \in S : \A x \in S \ {w} : <<w, x>> \in older[b]
        BY <3>3, <4>1, FirstExists
      <4> QED
        BY <4>2 DEF S
    <3>5. Inherits(b, v, w)
      BY <2>3, <3>2, <3>4 DEF Inherits
    <3>6. w \in Owners(b)'
      BY <1>0, <1>6, <3>4, <3>5, DeleteEffect DEF Owners, Members
    <3> QED
      BY <3>6
  <2> QED
    BY <2>2, <2>3
<1> QED
  BY <1>1, <1>2, <1>3, <1>4, <1>5, <1>6
     DEF AnyStep, SelectAccount, SelectFormerAccount, CreateAccount,
         PutInvitation, CancelInvitation, DeclineInvitation, Expire

-----------------------------------------------------------------------------
LEMMA ConsistentInit == Init => Consistent
<1> SUFFICES ASSUME Init PROVE Consistent
  OBVIOUS
<1>1. /\ \A a \in Accounts, u \in Users : role[a][u] = NoRole
      /\ \A a \in Accounts : older[a] = {}
      /\ \A u \in Users : selected[u] = Other
      /\ invitations = {}
  BY DEF Init
<1>2. \A a \in Accounts : Members(a) = {}
  BY <1>1 DEF Members
<1> QED
  BY TypeInit, <1>1, <1>2
     DEF Consistent, References, SeniorityOrder, OwnerKept, InviterIsOwner

LEMMA ConsistentStep == Consistent /\ [Next]_vars => Consistent'
BY TypeStep, ReferencesStep, SeniorityStep, OwnerKeptStep, InviterStep
   DEF Consistent

(* From any consistent database on, requests that each take effect at      *)
(* once, but act on what they read earlier, keep it consistent: types,     *)
(* references, the order of the members, an owner in every account with    *)
(* members, and owners behind all invitations.                             *)
THEOREM StaysConsistent == SpecFrom => []Consistent
BY ConsistentStep, PTL DEF SpecFrom

(* All rows keep to their types, from the empty database on.               *)
THEOREM TypeCorrect == Spec => []TypeOK
BY TypeInit, TypeStep, PTL DEF Spec

(* Rows refer to rows that exist, and an address has one invitation to an  *)
(* account.                                                                *)
THEOREM ReferencesHold == Spec => []References
<1>1. Consistent => References
  BY DEF Consistent
<1> QED
  BY <1>1, ConsistentInit, ConsistentStep, PTL DEF Spec

(* The member deleteUser promotes is well defined.                         *)
THEOREM SeniorityHolds == Spec => []SeniorityOrder
<1>1. Consistent => SeniorityOrder
  BY DEF Consistent
<1> QED
  BY <1>1, ConsistentInit, ConsistentStep, PTL DEF Spec

(* An account with members has an owner, in whatever order requests take   *)
(* effect, each at once.  Statement by statement a deletion can break it:  *)
(* the run MCTxOwnerless.                                                  *)
THEOREM OwnerAlwaysKept == Spec => []OwnerKept
<1>1. Consistent => OwnerKept
  BY DEF Consistent
<1> QED
  BY <1>1, ConsistentInit, ConsistentStep, PTL DEF Spec

(* The sender of every waiting invitation is an owner of its account.      *)
THEOREM InviterAlwaysOwner == Spec => []InviterIsOwner
<1>1. Consistent => InviterIsOwner
  BY DEF Consistent
<1> QED
  BY <1>1, ConsistentInit, ConsistentStep, PTL DEF Spec

(* A step that removes a member who stays a user leaves no invitation to   *)
(* the account for them or from them.                                      *)
RemovalStep ==
    \A a \in Accounts, u \in Users :
        u \in Members(a) /\ u \in users' /\ role'[a][u] = NoRole =>
          \A i \in invitations' : i.account = a => u \notin {i.email, i.by}

LEMMA RemovalStepHolds == TypeOK /\ [Next]_vars => RemovalStep
<1> SUFFICES ASSUME TypeOK, [Next]_vars,
                    NEW a \in Accounts, NEW u \in Users, u \in Members(a),
                    u \in users', role'[a][u] = NoRole,
                    NEW i \in invitations', i.account = a
             PROVE  u \notin {i.email, i.by}
  BY DEF RemovalStep
<1>1. role[a][u] # NoRole
  BY DEF Members
<1>2. AnyStep
  BY <1>1, StepCases DEF vars
<1>3. ASSUME NEW b \in Accounts, NEW v \in Users,
             role' = [role EXCEPT ![b][v] = Owner]
      PROVE  FALSE
  <2>1. \A c \in Accounts, w \in Users :
          role'[c][w] = IF c = b /\ w = v THEN Owner ELSE role[c][w]
    BY <1>3, NewAccountEffect
  <2> QED
    BY <1>1, <2>1, RolesAssumption
<1>4. ASSUME NEW v \in Users, NEW j \in invitations, AcceptInvitation(v, j)
      PROVE  FALSE
  BY <1>1, <1>4, AcceptEffect
<1>5. ASSUME NEW b \in Accounts, NEW v \in Users, NEW w \in Users,
             NEW r \in Roles \cup {NoRole}, UpdateMember(b, v, w, r)
      PROVE  u \notin {i.email, i.by}
  <2>1. \A c \in Accounts, x \in Users :
          role'[c][x] = IF c = b /\ x = w THEN r ELSE role[c][x]
    BY <1>5, UpdateEffect
  <2>2. b = a /\ w = u /\ r = NoRole
    BY <1>1, <2>1
  <2> QED
    BY <1>5, <2>2 DEF UpdateMember, Withdrawn
<1>6. ASSUME NEW v \in Users, NEW w \in Users,
             NEW closed \in SUBSET Exclusive(w), DeleteUserClosing(v, w, closed)
      PROVE  FALSE
  <2>1. u # w
    BY <1>6 DEF DeleteUserClosing
  <2> QED
    BY <1>1, <1>6, <2>1, RolesAssumption, DeleteEffect
<1> QED
  BY <1>1, <1>2, <1>3, <1>4, <1>5, <1>6
     DEF AnyStep, InsertUserWithAccount, SelectAccount, SelectFormerAccount,
         CreateAccount, PutInvitation, CancelInvitation, DeclineInvitation, Expire

(* Removing a member withdraws the invitations sent to or by them.         *)
THEOREM RemovalAlwaysWithdraws == SpecFrom => RemovalWithdraws
<1>1. Consistent /\ [Next]_vars => [RemovalStep]_vars
  BY RemovalStepHolds DEF Consistent
<1> QED
  BY <1>1, ConsistentStep, PTL DEF SpecFrom, RemovalWithdraws, RemovalStep

-----------------------------------------------------------------------------
(* Requests that never overlap invite no member again.  The invitation a   *)
(* user accepts is the only one to their address, and a new account has    *)
(* none.                                                                   *)
LEMMA SerialIsNext == TypeOK /\ SerialNext => Next
BY OtherAssumption DEF TypeOK, SerialNext, Next

LEMMA NotInvitedStep ==
  TypeOK /\ References /\ MemberNotInvited /\ [SerialNext]_vars
    => MemberNotInvited'
<1> SUFFICES ASSUME TypeOK, References, MemberNotInvited, SerialNext
             PROVE  MemberNotInvited'
  BY DEF MemberNotInvited, Members, vars
<1>1. \A i \in invitations : /\ i.account \in Accounts /\ i.email \in Users
                              /\ i.account \in accounts
                              /\ i.email \notin Members(i.account)
  BY DEF TypeOK, Invitation, References, MemberNotInvited
<1>2. ASSUME NEW u \in Users, NEW a \in Accounts, a \notin accounts,
             role' = [role EXCEPT ![a][u] = Owner], UNCHANGED invitations
      PROVE  MemberNotInvited'
  <2>1. \A b \in Accounts, v \in Users :
          role'[b][v] = IF b = a /\ v = u THEN Owner ELSE role[b][v]
    BY <1>2, NewAccountEffect
  <2>2. \A b \in Accounts \ {a} : Members(b)' = Members(b)
    BY <2>1 DEF Members
  <2> QED
    BY <1>1, <1>2, <2>2 DEF MemberNotInvited
<1>3. ASSUME UNCHANGED role, invitations' \subseteq invitations
      PROVE  MemberNotInvited'
  BY <1>3 DEF MemberNotInvited, Members
<1>4. ASSUME NEW u \in Users, NEW a \in Accounts \cup {Other},
             InsertUserWithAccount(u, a) \/ SelectCurrentAccount(u, a)
      PROVE  MemberNotInvited'
  BY <1>2, <1>3, <1>4
     DEF InsertUserWithAccount, SelectCurrentAccount, SelectAccount
<1>5. ASSUME NEW i \in invitations, Expire(i) PROVE MemberNotInvited'
  BY <1>5 DEF Expire, MemberNotInvited, Members
<1>6. ASSUME NEW u \in Users, NEW e \in Users, NEW a \in Accounts,
             NEW r \in Roles, InviteMember(u, a, e, r)
      PROVE  MemberNotInvited'
  BY <1>6 DEF InviteMember, PutInvitation, Upserted, MemberNotInvited, Members
<1>7. ASSUME NEW u \in Users, NEW i \in invitations,
             CancelInvitation(u, i) \/ DeclineInvitation(u, i)
      PROVE  MemberNotInvited'
  BY <1>3, <1>7 DEF CancelInvitation, DeclineInvitation
<1>8. ASSUME NEW a \in Accounts, NEW u \in Users, NEW v \in Users,
             NEW r \in Roles \cup {NoRole}, UpdateMember(a, u, v, r)
      PROVE  MemberNotInvited'
  <2>1. \A b \in Accounts, w \in Users :
          role'[b][w] = IF b = a /\ w = v THEN r ELSE role[b][w]
    BY <1>8, UpdateEffect
  <2>2. \A b \in Accounts : Members(b)' \subseteq Members(b)
    BY <1>8, <2>1 DEF UpdateMember, Members
  <2>3. invitations' \subseteq invitations
    BY <1>8 DEF UpdateMember
  <2> QED
    BY <1>1, <2>2, <2>3 DEF MemberNotInvited
<1>9. ASSUME NEW u \in Users, NEW i \in invitations, AcceptInvitation(u, i)
      PROVE  MemberNotInvited'
  <2>1. i.email = u /\ invitations' = invitations \ {i}
    BY <1>9 DEF AcceptInvitation
  <2>2. \A b \in Accounts : Members(b)' \subseteq
            IF b = i.account THEN Members(b) \cup {u} ELSE Members(b)
    BY <1>9, AcceptEffect DEF Members
  <2>3. \A j \in invitations' : ~ (j.account = i.account /\ j.email = u)
    BY <2>1 DEF References
  <2> QED
    BY <1>1, <2>1, <2>2, <2>3 DEF MemberNotInvited
<1>10. ASSUME NEW u \in Users, NEW v \in Users, DeleteUser(u, v)
       PROVE  MemberNotInvited'
  <2>1. DeleteUserClosing(u, v, Exclusive(v))
    BY <1>10 DEF DeleteUser
  <2>2. \A b \in Accounts, w \in Users :
          role'[b][w] = IF w = v THEN NoRole
                        ELSE IF Inherits(b, v, w) THEN Owner ELSE role[b][w]
    BY <2>1, DeleteEffect
  <2>3. \A b \in Accounts : Members(b)' \subseteq Members(b)
    BY <2>2 DEF Members, Inherits
  <2>4. invitations' \subseteq invitations
    BY <2>1 DEF DeleteUserClosing
  <2> QED
    BY <1>1, <2>3, <2>4 DEF MemberNotInvited
<1>11. ASSUME NEW u \in users, UserRequest(u)
       PROVE  MemberNotInvited'
  <2>1. u \in Users
    BY DEF TypeOK
  <2>2. ASSUME NEW a \in Accounts \cup {Other}, SelectAccount(u, a)
        PROVE  MemberNotInvited'
    BY <1>3, <2>2 DEF SelectAccount
  <2>3. ASSUME NEW a \in Accounts, CreateAccount(u, a)
        PROVE  MemberNotInvited'
    BY <1>2, <2>1, <2>3 DEF CreateAccount
  <2> QED
    BY <1>7, <1>9, <1>10, <1>11, <2>1, <2>2, <2>3 DEF UserRequest
<1>12. ASSUME NEW u \in users, MayUse(u, selected[u]),
              selected[u] # Other, AccountRequest(u, selected[u])
       PROVE  MemberNotInvited'
  <2>1. u \in Users /\ selected[u] \in Accounts
    BY <1>12 DEF TypeOK
  <2> QED
    BY <1>6, <1>7, <1>8, <1>12, <2>1
       DEF AccountRequest, ChangeMemberRole, RemoveMember
<1> QED
  BY <1>4, <1>5, <1>11, <1>12 DEF SerialNext, Environment

(* Members are not invited again, as long as requests do not overlap; that *)
(* overlapping ones do is shown by the run MCTxInvited.                    *)
THEOREM SerialMembersNotInvited == SerialSpec => []MemberNotInvited
<1>1. Init => MemberNotInvited
  BY DEF Init, MemberNotInvited
<1>2. Consistent /\ [SerialNext]_vars => Consistent'
  BY SerialIsNext, ConsistentStep DEF Consistent
<1>3. Consistent /\ MemberNotInvited /\ [SerialNext]_vars => MemberNotInvited'
  BY NotInvitedStep DEF Consistent
<1> QED
  BY <1>1, <1>2, <1>3, ConsistentInit, PTL DEF SerialSpec
=============================================================================
