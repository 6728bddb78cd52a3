----------------------- MODULE AccountSharingTxProofs -----------------------
(***************************************************************************)
(* Proofs about AccountSharingTx for any users, accounts, roles and number *)
(* of concurrent requests, as long as none of them deletes a user.         *)
(*                                                                         *)
(* Inv says which rows a request may hold and wait for at each statement   *)
(* (Fits, MayHold), and that what it read of the rows it holds is still so *)
(* (Checked).  Two facts are about pairs of requests: a row is held by one *)
(* transaction unless both only refer to it (Compatible), and of two       *)
(* requests that lock the members of one account one has seen all the      *)
(* members the other still has to lock or holds (Nested), so at most one   *)
(* of them is past its checks.                                             *)
(***************************************************************************)
EXTENDS AccountSharingTx, FiniteSetTheorems, WellFoundedInduction, TLAPS

NoneDeletes == \A r \in Begun : req[r].kind # "delete"

-----------------------------------------------------------------------------
(* The invariant.                                                          *)

MemberRows(a)     == {MemberRow(a, u) : u \in Users}
InvitationRows(a) == {InvitationRow(a, e) : e \in Users}
TableRows ==
    {UserRow(u) : u \in Users} \cup {AccountRow(a) : a \in Accounts}
      \cup UNION {MemberRows(a) \cup InvitationRows(a) : a \in Accounts}

(* Where requests may be, the statements of a deletion aside.              *)
Idle      == {"new", "move", "lockMembers", "accept", "decline", "select",
              "create", "done"}
Referring == {"moved", "invited", "accepted", "selecting", "created"}
Managing  == {"locked", "upserted", "invited", "deleted", "withdrawn"}
Statements == Idle \cup Referring \cup Managing \cup {"read", "joined"}

Modes == {"key", "nku", "upd", "join", "del"}
Lock  == [row : TableRows, mode : Modes]
Entry == [row : TableRows \cup {Gone}, mode : Modes,
          absent : {"skip", "nothing", "fail", "insert"}]

Typed ==
    /\ req \in [Requests -> Request(Kinds) \cup {NoRequest}]
    /\ pc \in [Requests -> Statements]
    /\ want \in [Requests -> Seq(Entry)]
    /\ locks \in [Requests -> SUBSET Lock]
    /\ left \in [Requests -> SUBSET Accounts]

(* The database, as far as the requests rely on it.                        *)
Data ==
    /\ Sharing!TypeOK
    /\ \A a \in Accounts : Sharing!Members(a) # {} => a \in accounts
    /\ \A i \in invitations : i.account \in accounts
    /\ \A i, j \in invitations :
          i.account = j.account /\ i.email = j.email => i = j
    /\ \A a \in Accounts :
          /\ older[a] \subseteq Sharing!Members(a) \X Sharing!Members(a)
          /\ \A u \in Users : <<u, u>> \notin older[a]
          /\ \A u, v, w \in Users :
                <<u, v>> \in older[a] /\ <<v, w>> \in older[a]
                  => <<u, w>> \in older[a]

(* What a request checked before its transaction and nobody undoes, and    *)
(* the handlers a statement belongs to.                                    *)
Requested(r) ==
    LET q == req[r] IN
    /\ q \in Request(Kinds \ {"delete"})
    /\ q.actor \in users
    /\ q.base \in accounts \cup {Other}
    /\ q.kind \in MemberKinds \cup {"accept", "decline"} => q.account \in accounts
    /\ q.kind \in {"accept", "decline"} => q.target = q.actor
    /\ q.kind = "select" => q.account \in Accounts
    /\ q.kind \in {"invite", "role"} => q.newRole # NoRole
    /\ q.kind = "remove" => q.newRole = NoRole
    /\ pc[r] \in {"lockMembers", "locked"} => q.kind \in MemberKinds
    /\ pc[r] \in {"upserted", "invited"} => q.kind = "invite"
    /\ pc[r] = "deleted" => q.kind \in {"cancel", "decline"}
    /\ pc[r] = "withdrawn" => q.kind \in {"role", "remove"}
    /\ pc[r] \in {"accept", "read", "joined", "accepted"} => q.kind = "accept"
    /\ pc[r] = "decline" => q.kind = "decline"
    /\ pc[r] \in {"select", "selecting"} => q.kind = "select"
    /\ pc[r] = "selecting" => q.account \in accounts

Wanted(r) == {want[r][n] : n \in DOMAIN want[r]}

(* The rows a statement may have still to lock.                            *)
Fits(r, w) ==
    LET q == req[r] IN
    \/ /\ pc[r] = "locked"
       /\ w.row \in MemberRows(q.account) \cup {Gone}
       /\ w.mode = "upd" /\ w.absent = "skip"
    \/ /\ pc[r] = "upserted"
       /\ w.row = InvitationRow(q.account, q.target)
       /\ w.mode = "upd" /\ w.absent = "insert"
    \/ /\ pc[r] \in {"deleted", "read"}
       /\ w.row \in {InvitationRow(q.account, q.target), Gone}
       /\ w.mode = "upd" /\ w.absent = "fail"
    \/ /\ pc[r] = "withdrawn"
       /\ w.row \in InvitationRows(q.account) \cup {Gone}
       /\ w.mode = "upd" /\ w.absent = "skip"
    \/ /\ pc[r] = "joined"
       /\ w.row = MemberRow(q.account, q.actor)
       /\ w.mode = "join" /\ w.absent = "insert"
    \/ /\ pc[r] \in Referring
       /\ w.row = UserRow(q.actor) /\ w.mode \in {"key", "nku"}
       /\ w.absent # "insert"
    \/ /\ pc[r] \in Referring
       /\ w.row \in {AccountRow(a) : a \in accounts} /\ w.mode = "key"
       /\ w.absent # "insert"

(* The rows a transaction may hold.                                        *)
MayHold(r, h) ==
    LET q == req[r] IN
    \/ /\ pc[r] \in Managing /\ q.kind \in MemberKinds
       /\ h.row \in MemberRows(q.account) /\ h.mode = "upd"
    \/ /\ pc[r] \in {"upserted", "invited"}
       /\ h.row = InvitationRow(q.account, q.target) /\ h.mode \in {"upd", "del"}
    \/ /\ pc[r] \in {"deleted", "read", "joined", "accepted"}
       /\ h.row = InvitationRow(q.account, q.target) /\ h.mode = "upd"
    \/ /\ pc[r] = "withdrawn"
       /\ h.row \in InvitationRows(q.account) /\ h.mode = "upd"
    \/ /\ pc[r] \in {"joined", "accepted"}
       /\ h.row = MemberRow(q.account, q.actor) /\ h.mode = "del"
    \/ /\ pc[r] \in Referring
       /\ h.row = UserRow(q.actor) /\ h.mode \in {"key", "nku"}
    \/ /\ pc[r] \in Referring
       /\ h.row \in {AccountRow(a) : a \in accounts} /\ h.mode = "key"

Shape(r) ==
    /\ pc[r] \notin {"new", "done"} => Requested(r)
    /\ pc[r] \in Idle => want[r] = <<>> /\ locks[r] = {}
    /\ \A w \in Wanted(r) : Fits(r, w)
    /\ \A h \in locks[r] : MayHold(r, h)

HoldsInvitation(r, a, e) ==
    Holds(r, InvitationRow(a, e), "upd") \/ Holds(r, InvitationRow(a, e), "del")

(* What a statement has locked when it is over.                            *)
Progress(r) ==
    /\ pc[r] \in {"upserted", "deleted", "read", "joined"} => Len(want[r]) <= 1
    /\ pc[r] = "read" /\ want[r] # <<>> => locks[r] = {}
    /\ \/ pc[r] \in {"invited", "joined", "accepted"}
       \/ pc[r] \in {"upserted", "read"} /\ want[r] = <<>>
       => HoldsInvitation(r, req[r].account, req[r].target)

(* An UPDATE locks its row before the ones its foreign keys refer to, and  *)
(* nothing else comes after it.                                            *)
Updating(r) ==
    /\ \A m, n \in DOMAIN want[r] :
          m < n /\ want[r][m].mode = "nku" =>
            want[r][n].row \in {AccountRow(a) : a \in accounts}
    /\ \A h \in locks[r] : h.mode = "nku" =>
          \A w \in Wanted(r) : w.row \in {AccountRow(a) : a \in accounts}

(* The members a request has locked or has still to lock: all are members, *)
(* and those to come are younger.                                          *)
Manages(r) == pc[r] \in Managing /\ req[r].kind \in MemberKinds
Awaits(r, row) == \E w \in Wanted(r) : w.row = row
Taken(r) ==
    {u \in Users : /\ Manages(r)
                   /\ \/ Holds(r, MemberRow(req[r].account, u), "upd")
                      \/ Awaits(r, MemberRow(req[r].account, u))}

Present(r) ==
    /\ Manages(r) => Taken(r) \subseteq Sharing!Members(req[r].account)
    /\ pc[r] \in {"joined", "accepted"} /\ Joined(r) =>
          role[req[r].account][req[r].actor] = NoRole

Ranked(r) ==
    Manages(r) =>
      /\ \A u, v \in Users :
            /\ Holds(r, MemberRow(req[r].account, u), "upd")
            /\ Awaits(r, MemberRow(req[r].account, v))
            => <<u, v>> \in older[req[r].account]
      /\ \A m, n \in DOMAIN want[r], u, v \in Users :
            /\ m < n
            /\ want[r][m].row = MemberRow(req[r].account, u)
            /\ want[r][n].row = MemberRow(req[r].account, v)
            => <<u, v>> \in older[req[r].account]

(* What was checked on locked rows is still so.                            *)
Checked(r) ==
    /\ \/ pc[r] \in {"upserted", "invited"}
       \/ pc[r] = "deleted" /\ req[r].kind = "cancel"
       => req[r].actor \in LockedOwners(r)
    /\ pc[r] = "withdrawn" => UpdateChecked(r)
    /\ pc[r] \in {"joined", "accepted"} => OpenInvitation(r)
    /\ \/ pc[r] = "joined" /\ want[r] = <<>>
       \/ pc[r] = "accepted"
       => Joined(r) \/ req[r].actor \in Sharing!Members(req[r].account)

(* The invitations a removal found are all it has to withdraw.             *)
Withdraws(r) ==
    pc[r] = "withdrawn" =>
      \A i \in invitations :
         i \in Sharing!Withdrawn(req[r].account, req[r].target, req[r].newRole)
         <=> \/ Holds(r, InvitationRow(i.account, i.email), "upd")
             \/ Awaits(r, InvitationRow(i.account, i.email))

Own(r) ==
    Shape(r) /\ Progress(r) /\ Updating(r) /\ Present(r) /\ Ranked(r)
      /\ Checked(r) /\ Withdraws(r)

Shared == {"key", "nku"}
Compatible(p, q) ==
    \A h \in locks[p], k \in locks[q] :
       h.row = k.row => h.mode \in Shared /\ k.mode \in Shared

Nested(p, q) ==
    Manages(p) /\ Manages(q) /\ req[p].account = req[q].account =>
      Taken(p) \subseteq Taken(q) \/ Taken(q) \subseteq Taken(p)

Pairs == \A p, q \in Requests : p # q => Compatible(p, q) /\ Nested(p, q)

Inv == Typed /\ Data /\ (\A r \in Requests : Own(r)) /\ Pairs

-----------------------------------------------------------------------------
(* Rows.                                                                   *)

LEMMA RowsApart ==
    /\ \A a, b, u, v : MemberRow(a, u) = MemberRow(b, v) => a = b /\ u = v
    /\ \A a, b, u, v : InvitationRow(a, u) = InvitationRow(b, v) => a = b /\ u = v
    /\ \A u, v : UserRow(u) = UserRow(v) => u = v
    /\ \A a, b : AccountRow(a) = AccountRow(b) => a = b
    /\ \A a, b, u, v : MemberRow(a, u) # InvitationRow(b, v)
    /\ \A a, b, u : MemberRow(a, u) # AccountRow(b)
    /\ \A a, b, u : InvitationRow(a, u) # AccountRow(b)
    /\ \A a, u, v : MemberRow(a, u) # UserRow(v)
    /\ \A a, u, v : InvitationRow(a, u) # UserRow(v)
    /\ \A a, u : AccountRow(a) # UserRow(u)
    /\ \A a, u : MemberRow(a, u) # Gone /\ InvitationRow(a, u) # Gone
    /\ \A u : UserRow(u) # Gone /\ AccountRow(u) # Gone
BY DEF MemberRow, InvitationRow, UserRow, AccountRow, Gone

LEMMA RowsExist ==
    /\ \A a, u : Exists(MemberRow(a, u)) <=> role[a][u] # NoRole
    /\ \A a, e : Exists(InvitationRow(a, e)) <=> InvitationsOf(a, e) # {}
    /\ \A u : Exists(UserRow(u)) <=> u \in users
    /\ \A a : Exists(AccountRow(a)) <=> a \in accounts
    /\ ~ Exists(Gone)
BY DEF Exists, MemberRow, InvitationRow, UserRow, AccountRow, Gone

LEMMA RowsExistNext ==
    /\ \A a, u : Exists(MemberRow(a, u))' <=> (role[a][u] # NoRole)'
    /\ \A a, e : Exists(InvitationRow(a, e))' <=> (InvitationsOf(a, e) # {})'
    /\ \A u : Exists(UserRow(u))' <=> u \in users'
    /\ \A a : Exists(AccountRow(a))' <=> a \in accounts'
    /\ ~ Exists(Gone)'
BY DEF Exists, MemberRow, InvitationRow, UserRow, AccountRow, Gone

LEMMA Names == Sharing!Owner = Owner /\ Sharing!NoRole = NoRole
BY Zenon DEF Sharing!Owner, Owner, Sharing!NoRole, NoRole

-----------------------------------------------------------------------------
(* What a request that holds or awaits a row is about.                     *)

LEMMA MemberHeld ==
    ASSUME NEW r \in Requests, NEW a, NEW u, NEW m,
           \A h \in locks[r] : MayHold(r, h),
           Holds(r, MemberRow(a, u), m)
    PROVE  /\ a = req[r].account
           /\ \/ m = "upd" /\ Manages(r)
              \/ m = "del" /\ pc[r] \in {"joined", "accepted"} /\ u = req[r].actor
<1>1. MayHold(r, [row |-> MemberRow(a, u), mode |-> m])
  BY DEF Holds
<1> QED
  BY <1>1, RowsApart DEF MayHold, Manages, MemberRows, InvitationRows

LEMMA InvitationHeld ==
    ASSUME NEW r \in Requests, NEW a, NEW e, NEW m,
           \A h \in locks[r] : MayHold(r, h),
           Holds(r, InvitationRow(a, e), m)
    PROVE  /\ a = req[r].account
           /\ \/ pc[r] = "withdrawn" /\ m = "upd"
              \/ e = req[r].target /\ m = "upd"
                 /\ pc[r] \in {"deleted", "read", "joined", "accepted"}
              \/ e = req[r].target /\ m \in {"upd", "del"}
                 /\ pc[r] \in {"upserted", "invited"}
<1>1. MayHold(r, [row |-> InvitationRow(a, e), mode |-> m])
  BY DEF Holds
<1> QED
  BY <1>1, RowsApart DEF MayHold, MemberRows, InvitationRows

LEMMA ReferenceHeld ==
    ASSUME NEW r \in Requests, NEW x, NEW m,
           \A h \in locks[r] : MayHold(r, h)
    PROVE  /\ Holds(r, UserRow(x), m) => m \in Shared
           /\ Holds(r, AccountRow(x), m) => m = "key"
           /\ ~ Holds(r, Gone, m)
<1>1. ASSUME NEW row, Holds(r, row, m) PROVE MayHold(r, [row |-> row, mode |-> m])
  BY <1>1 DEF Holds
<1>2. Holds(r, UserRow(x), m) => m \in Shared
  BY <1>1, RowsApart DEF MayHold, MemberRows, InvitationRows, Shared
<1>3. Holds(r, AccountRow(x), m) => m = "key"
  BY <1>1, RowsApart DEF MayHold, MemberRows, InvitationRows
<1>4. ~ Holds(r, Gone, m)
  BY <1>1, RowsApart DEF MayHold, MemberRows, InvitationRows
<1> QED
  BY <1>2, <1>3, <1>4

LEMMA MemberAwaited ==
    ASSUME NEW r \in Requests, NEW a, NEW u, NEW w, Fits(r, w),
           w.row = MemberRow(a, u)
    PROVE  /\ a = req[r].account
           /\ \/ pc[r] = "locked" /\ w.mode = "upd" /\ w.absent = "skip"
              \/ /\ pc[r] = "joined" /\ u = req[r].actor
                 /\ w.mode = "join" /\ w.absent = "insert"
BY RowsApart DEF Fits, MemberRows, InvitationRows

LEMMA InvitationAwaited ==
    ASSUME NEW r \in Requests, NEW a, NEW e, NEW w, Fits(r, w),
           w.row = InvitationRow(a, e)
    PROVE  /\ a = req[r].account /\ w.mode = "upd"
           /\ \/ pc[r] = "withdrawn" /\ w.absent = "skip"
              \/ /\ pc[r] \in {"deleted", "read"} /\ e = req[r].target
                 /\ w.absent = "fail"
              \/ /\ pc[r] = "upserted" /\ e = req[r].target
                 /\ w.absent = "insert"
BY RowsApart DEF Fits, MemberRows, InvitationRows

LEMMA DataTyped ==
    ASSUME Sharing!TypeOK
    PROVE  /\ users \subseteq Users /\ accounts \subseteq Accounts
           /\ role \in [Accounts -> [Users -> Roles \cup {NoRole}]]
           /\ older \in [Accounts -> SUBSET (Users \X Users)]
           /\ invitations \subseteq Sharing!Invitation
           /\ selected \in [Users -> Accounts \cup {Other}]
BY Names DEF Sharing!TypeOK

LEMMA MembersAre ==
    /\ \A a \in Accounts, u \in Users :
          u \in Sharing!Members(a) <=> role[a][u] # NoRole
    /\ \A a : Sharing!Members(a) \subseteq Users
BY Names DEF Sharing!Members

-----------------------------------------------------------------------------
(* What a step of r leaves alone, and what another request q keeps of it.  *)

Others(r) ==
    \A q \in Requests \ {r} :
       /\ req'[q] = req[q] /\ pc'[q] = pc[q] /\ locks'[q] = locks[q]
       /\ want'[q] = [n \in DOMAIN want[q] |-> Found(want[q][n])]

(* Only rows that r holds change; an invitation is added by a request past *)
(* its checks, and a membership ends together with the invitations for it. *)
Frame(r) ==
    /\ Others(r)
    /\ users' = users /\ accounts \subseteq accounts'
    /\ \A a \in accounts, u \in Users :
          \/ role'[a][u] = role[a][u]
          \/ Holds(r, MemberRow(a, u), "upd") \/ Holds(r, MemberRow(a, u), "del")
    /\ \A a \in accounts, u \in Users :
          role[a][u] # NoRole /\ role'[a][u] = NoRole =>
             \A i \in invitations : i.account = a /\ i.email = u =>
                HoldsInvitation(r, a, u)
    /\ \A i \in invitations \cup invitations' :
          \/ i \in invitations /\ i \in invitations'
          \/ HoldsInvitation(r, i.account, i.email)
    /\ \A i \in invitations' \ invitations :
          pc[r] = "invited" /\ i.account = req[r].account
    /\ \A a \in accounts, u, v \in Users :
          /\ <<u, v>> \in older[a]
          /\ role'[a][u] # NoRole /\ role'[a][v] # NoRole
          => <<u, v>> \in older'[a]

LEMMA FoundCases ==
    ASSUME NEW w \in Entry
    PROVE  /\ Found(w) \in Entry
           /\ Found(w).mode = w.mode /\ Found(w).absent = w.absent
           /\ \/ Found(w) = w
              \/ /\ Found(w).row = Gone /\ w.absent # "insert"
                 /\ Exists(w.row) /\ ~ Exists(w.row)'
           /\ w.absent # "insert" /\ Exists(w.row) /\ ~ Exists(w.row)' =>
                 Found(w).row = Gone
BY DEF Found, Deleted, Entry

LEMMA NothingDeleted ==
    ASSUME UNCHANGED dbVars, NEW w PROVE Found(w) = w
<1>1. \A row : Exists(row)' <=> Exists(row)
  BY DEF dbVars, Exists, InvitationsOf
<1> QED
  BY <1>1 DEF Found, Deleted

LEMMA WantTyped ==
    ASSUME Typed, NEW r \in Requests
    PROVE  /\ want[r] \in Seq(Entry)
           /\ DOMAIN want[r] = 1 .. Len(want[r]) /\ Len(want[r]) \in Nat
           /\ \A n \in DOMAIN want[r] : want[r][n] \in Entry
           /\ Wanted(r) \subseteq Entry
BY DEF Typed, Wanted

LEMMA BystanderWants ==
    ASSUME Typed, NEW r \in Requests, NEW q \in Requests \ {r}, Others(r)
    PROVE  /\ DOMAIN want'[q] = DOMAIN want[q]
           /\ Len(want'[q]) = Len(want[q])
           /\ want[q] = <<>> <=> want'[q] = <<>>
           /\ want'[q] \in Seq(Entry)
           /\ \A n \in DOMAIN want[q] : want'[q][n] = Found(want[q][n])
           /\ \A w \in Wanted(q)' : \E x \in Wanted(q) : w = Found(x)
           /\ \A x \in Wanted(q) : Found(x) \in Wanted(q)'
<1>1. want'[q] = [n \in DOMAIN want[q] |-> Found(want[q][n])]
  BY DEF Others
<1>2. /\ want[q] \in Seq(Entry)
      /\ DOMAIN want[q] = 1 .. Len(want[q]) /\ Len(want[q]) \in Nat
      /\ \A n \in DOMAIN want[q] : want[q][n] \in Entry
  BY WantTyped
<1>3. \A n \in DOMAIN want[q] : Found(want[q][n]) \in Entry
  BY <1>2, FoundCases
<1>4. DOMAIN want'[q] = 1 .. Len(want[q])
  BY <1>1, <1>2
<1>5. want'[q] \in Seq(Entry) /\ Len(want'[q]) = Len(want[q])
  BY <1>1, <1>2, <1>3, <1>4
<1>6. want[q] = <<>> <=> want'[q] = <<>>
  BY <1>2, <1>5
<1>7. \A n \in DOMAIN want[q] : want'[q][n] = Found(want[q][n])
  BY <1>1
<1>8. Wanted(q)' = {want'[q][n] : n \in DOMAIN want'[q]}
  BY DEF Wanted
<1>9. \A w \in Wanted(q)' : \E x \in Wanted(q) : w = Found(x)
  BY <1>2, <1>4, <1>7, <1>8 DEF Wanted
<1>10. \A x \in Wanted(q) : Found(x) \in Wanted(q)'
  BY <1>2, <1>4, <1>7, <1>8 DEF Wanted
<1> QED
  BY <1>2, <1>4, <1>5, <1>6, <1>7, <1>9, <1>10

LEMMA BystanderShape ==
    ASSUME Typed, NEW r \in Requests, NEW q \in Requests \ {r}, Frame(r),
           Shape(q)
    PROVE  Shape(q)'
<1>0. /\ req'[q] = req[q] /\ pc'[q] = pc[q] /\ locks'[q] = locks[q]
      /\ users' = users /\ accounts \subseteq accounts'
  BY DEF Frame, Others
<1>1. pc[q] \notin {"new", "done"} => Requested(q)'
  BY <1>0 DEF Shape, Requested
<1>2. pc[q] \in Idle => want'[q] = <<>> /\ locks'[q] = {}
  BY <1>0, BystanderWants DEF Frame, Shape
<1>3. ASSUME NEW w \in Wanted(q)' PROVE Fits(q, w)'
  <2>1. PICK x \in Wanted(q) : w = Found(x)
    BY BystanderWants DEF Frame
  <2>2. x \in Entry /\ Fits(q, x)
    BY WantTyped DEF Shape
  <2>3. w.mode = x.mode /\ w.absent = x.absent
    BY <2>1, <2>2, FoundCases
  <2>4. CASE w = x
    BY <1>0, <2>2, <2>4 DEF Fits
  <2>5. CASE /\ w.row = Gone /\ x.absent # "insert"
             /\ Exists(x.row) /\ ~ Exists(x.row)'
    <3>1. ~ (\E u : x.row = UserRow(u))
      BY <1>0, <2>5, RowsExist, RowsExistNext
    <3>2. ~ (\E a \in accounts : x.row = AccountRow(a))
      BY <1>0, <2>5, RowsExist, RowsExistNext
    <3> QED
      BY <1>0, <2>2, <2>3, <2>5, <3>1, <3>2 DEF Fits
  <2> QED
    BY <2>1, <2>2, <2>4, <2>5, FoundCases
<1>4. ASSUME NEW h \in locks[q] PROVE MayHold(q, h)'
  BY <1>0 DEF Shape, MayHold
<1> QED
  BY <1>0, <1>1, <1>2, <1>3, <1>4 DEF Shape

LEMMA BystanderProgress ==
    ASSUME Typed, NEW r \in Requests, NEW q \in Requests \ {r}, Frame(r),
           Shape(q), Progress(q), Updating(q)
    PROVE  Progress(q)' /\ Updating(q)'
<1>0. /\ req'[q] = req[q] /\ pc'[q] = pc[q] /\ locks'[q] = locks[q]
      /\ users' = users /\ accounts \subseteq accounts'
  BY DEF Frame, Others
<1>1. Progress(q)'
  BY <1>0, BystanderWants DEF Frame, Progress, HoldsInvitation, Holds
<1>2. ASSUME NEW x \in Entry, NEW a \in accounts, x.row = AccountRow(a)
      PROVE  Found(x).row = AccountRow(a) /\ a \in accounts'
  BY <1>0, <1>2, RowsExist, RowsExistNext, FoundCases
<1>3. ASSUME NEW m \in DOMAIN want'[q], NEW n \in DOMAIN want'[q],
             m < n, want'[q][m].mode = "nku"
      PROVE  want'[q][n].row \in {AccountRow(a) : a \in accounts'}
  <2>1. /\ m \in DOMAIN want[q] /\ n \in DOMAIN want[q]
        /\ want'[q][m] = Found(want[q][m]) /\ want'[q][n] = Found(want[q][n])
        /\ want[q][m] \in Entry /\ want[q][n] \in Entry
    BY BystanderWants, WantTyped DEF Frame
  <2>2. want[q][m].mode = "nku"
    BY <1>3, <2>1, FoundCases
  <2>3. want[q][n].row \in {AccountRow(a) : a \in accounts}
    BY <1>3, <2>1, <2>2 DEF Updating
  <2> QED
    BY <1>2, <2>1, <2>3
<1>4. ASSUME NEW h \in locks'[q], h.mode = "nku", NEW w \in Wanted(q)'
      PROVE  w.row \in {AccountRow(a) : a \in accounts'}
  <2>1. PICK x \in Wanted(q) : w = Found(x)
    BY BystanderWants DEF Frame
  <2>2. x \in Entry /\ x.row \in {AccountRow(a) : a \in accounts}
    BY <1>0, <1>4, WantTyped DEF Updating
  <2> QED
    BY <1>2, <2>1, <2>2
<1>5. Updating(q)'
  BY <1>3, <1>4 DEF Updating
<1> QED
  BY <1>1, <1>5

LEMMA HeldApart ==
    ASSUME NEW p, NEW q, Compatible(p, q),
           NEW row, NEW m, NEW n, Holds(p, row, m), Holds(q, row, n)
    PROVE  m \in Shared /\ n \in Shared
<1> DEFINE h == [row |-> row, mode |-> m]
           k == [row |-> row, mode |-> n]
<1>1. h \in locks[p] /\ k \in locks[q] /\ h.row = k.row
  BY DEF Holds
<1>2. h.mode \in Shared /\ k.mode \in Shared
  BY <1>1 DEF Compatible
<1> QED
  BY <1>2

LEMMA HeldRoleKept ==
    ASSUME NEW r \in Requests, NEW q \in Requests \ {r}, Frame(r),
           Compatible(q, r), NEW a \in accounts, NEW u \in Users,
           \/ Holds(q, MemberRow(a, u), "upd")
           \/ Holds(q, MemberRow(a, u), "del")
    PROVE  role'[a][u] = role[a][u]
BY HeldApart DEF Frame, Shared

LEMMA HeldInvitationsKept ==
    ASSUME NEW r \in Requests, NEW q \in Requests \ {r}, Frame(r),
           Compatible(q, r), NEW a, NEW e, HoldsInvitation(q, a, e)
    PROVE  /\ ~ HoldsInvitation(r, a, e)
           /\ \A i : i.account = a /\ i.email = e =>
                 (i \in invitations <=> i \in invitations')
<1>1. ~ HoldsInvitation(r, a, e)
  BY HeldApart DEF HoldsInvitation, Shared
<1> QED
  BY <1>1 DEF Frame

LEMMA ManagesAccount ==
    ASSUME NEW q \in Requests, Shape(q),
           Manages(q) \/ pc[q] \in {"read", "joined", "accepted"}
    PROVE  /\ Requested(q) /\ req[q].account \in accounts
           /\ req[q].actor \in Users /\ req[q].target \in Users
           /\ req[q].newRole \in Roles \cup {NoRole}
BY DEF Shape, Requested, Manages, Managing, MemberKinds, Request

LEMMA BystanderTaken ==
    ASSUME Typed, NEW r \in Requests, NEW q \in Requests \ {r}, Frame(r),
           Sharing!TypeOK, Sharing!TypeOK', Shape(q), Present(q),
           Compatible(q, r), Manages(q)
    PROVE  /\ Manages(q)'
           /\ Taken(q)' = {u \in Taken(q) : role'[req[q].account][u] # NoRole}
           /\ \A u \in Users : Awaits(q, MemberRow(req[q].account, u))' =>
                 Awaits(q, MemberRow(req[q].account, u))
<1> DEFINE a == req[q].account
<1>0. /\ req'[q] = req[q] /\ pc'[q] = pc[q] /\ locks'[q] = locks[q]
      /\ accounts \subseteq accounts'
  BY DEF Frame, Others
<1>1. Manages(q)'
  BY <1>0 DEF Manages
<1>2. a \in accounts /\ accounts \subseteq Accounts
  BY ManagesAccount, DataTyped
<1>3. ASSUME NEW u \in Taken(q) PROVE u \in Users /\ role[a][u] # NoRole
  BY <1>2, <1>3, MembersAre DEF Present, Taken
<1>4. ASSUME NEW u \in Users, NEW x \in Wanted(q), x.row = MemberRow(a, u)
      PROVE  /\ x \in Entry /\ x.absent = "skip" /\ u \in Taken(q)
             /\ Exists(x.row)
             /\ Exists(x.row)' <=> role'[a][u] # NoRole
  <2>1. Awaits(q, MemberRow(a, u))
    BY <1>4 DEF Awaits
  <2>2. u \in Taken(q)
    BY <2>1 DEF Taken
  <2>3. x \in Entry /\ Fits(q, x)
    BY WantTyped DEF Shape
  <2>4. x.absent = "skip"
    BY <1>4, <2>3, MemberAwaited DEF Manages, Managing
  <2> QED
    BY <1>3, <1>4, <2>2, <2>3, <2>4, RowsExist, RowsExistNext
<1>5. ASSUME NEW u \in Users, NEW w \in Wanted(q)', w.row = MemberRow(a, u)
      PROVE  Awaits(q, MemberRow(a, u)) /\ role'[a][u] # NoRole
  <2>1. PICK x \in Wanted(q) : w = Found(x)
    BY BystanderWants DEF Frame
  <2>2. x = w
    BY <1>5, <2>1, FoundCases, WantTyped, RowsApart
  <2>3. Awaits(q, MemberRow(a, u))
    BY <1>5, <2>2 DEF Awaits
  <2>4. role'[a][u] # NoRole
    BY <1>4, <1>5, <2>1, <2>2, FoundCases, RowsApart
  <2> QED
    BY <2>3, <2>4
<1>6. ASSUME NEW u \in Users, Awaits(q, MemberRow(a, u)), role'[a][u] # NoRole
      PROVE  \E w \in Wanted(q)' : w.row = MemberRow(a, u)
  <2>1. PICK x \in Wanted(q) : x.row = MemberRow(a, u)
    BY <1>6 DEF Awaits
  <2>2. Found(x) = x
    BY <1>4, <1>6, <2>1, FoundCases
  <2> QED
    BY <2>1, <2>2, BystanderWants DEF Frame
<1>7. \A u : Holds(q, MemberRow(a, u), "upd")' <=> Holds(q, MemberRow(a, u), "upd")
  BY <1>0 DEF Holds
<1>8. \A u \in Users : Holds(q, MemberRow(a, u), "upd") => role'[a][u] # NoRole
  BY <1>2, <1>3, HeldRoleKept DEF Taken
<1>9. \A u \in Users : Awaits(q, MemberRow(a, u))' =>
          Awaits(q, MemberRow(a, u)) /\ role'[a][u] # NoRole
  BY <1>0, <1>5 DEF Awaits
<1>10. \A u \in Users : Awaits(q, MemberRow(a, u)) /\ role'[a][u] # NoRole =>
          Awaits(q, MemberRow(a, u))'
  BY <1>0, <1>6 DEF Awaits
<1>11. Taken(q)' = {u \in Users : \/ Holds(q, MemberRow(a, u), "upd")'
                                  \/ Awaits(q, MemberRow(a, u))'}
  BY <1>0, <1>1 DEF Taken
<1>12. Taken(q) = {u \in Users : \/ Holds(q, MemberRow(a, u), "upd")
                                 \/ Awaits(q, MemberRow(a, u))}
  BY DEF Taken
<1>13. Taken(q)' = {u \in Taken(q) : role'[a][u] # NoRole}
  BY <1>7, <1>8, <1>9, <1>10, <1>11, <1>12
<1> QED
  BY <1>1, <1>9, <1>13

LEMMA BystanderPresent ==
    ASSUME Typed, NEW r \in Requests, NEW q \in Requests \ {r}, Frame(r),
           Sharing!TypeOK, Sharing!TypeOK', Shape(q), Present(q), Ranked(q),
           Compatible(q, r)
    PROVE  Present(q)' /\ Ranked(q)'
<1> DEFINE a == req[q].account
<1>0. /\ req'[q] = req[q] /\ pc'[q] = pc[q] /\ locks'[q] = locks[q]
      /\ accounts \subseteq accounts' /\ accounts \subseteq Accounts
  BY DataTyped DEF Frame, Others
<1>1. Manages(q)' <=> Manages(q)
  BY <1>0 DEF Manages
<1>2. Manages(q)' => Taken(q)' \subseteq Sharing!Members(a)'
  <2> SUFFICES ASSUME Manages(q) PROVE Taken(q)' \subseteq Sharing!Members(a)'
    BY <1>1
  <2>1. a \in Accounts
    BY <1>0, ManagesAccount
  <2>2. Taken(q)' = {u \in Taken(q) : role'[a][u] # NoRole}
    BY BystanderTaken
  <2>3. Taken(q) \subseteq Users
    BY DEF Taken
  <2>4. \A u \in Users : role'[a][u] # NoRole => u \in Sharing!Members(a)'
    BY <1>0, <2>1, Names DEF Sharing!Members
  <2> QED
    BY <2>2, <2>3, <2>4
<1>3. ASSUME pc'[q] \in {"joined", "accepted"}, Joined(q)'
      PROVE  role'[a][req[q].actor] = NoRole
  <2>1. a \in accounts /\ req[q].actor \in Users
    BY <1>0, <1>3, ManagesAccount
  <2>2. Joined(q)
    BY <1>0, <1>3 DEF Joined, Holds
  <2>3. role'[a][req[q].actor] = role[a][req[q].actor]
    BY <2>1, <2>2, HeldRoleKept DEF Joined
  <2> QED
    BY <1>0, <1>3, <2>2, <2>3 DEF Present
<1>4. Present(q)'
  BY <1>0, <1>2, <1>3 DEF Present
<1>5. ASSUME Manages(q) PROVE Ranked(q)'
  <2>0. a \in accounts
    BY <1>5, ManagesAccount
  <2>1. /\ Taken(q)' = {u \in Taken(q) : role'[a][u] # NoRole}
        /\ \A u \in Users : Awaits(q, MemberRow(a, u))' => Awaits(q, MemberRow(a, u))
    BY <1>5, BystanderTaken
  <2>2. \A u \in Users : Holds(q, MemberRow(a, u), "upd")' \/ Awaits(q, MemberRow(a, u))' =>
          role'[a][u] # NoRole
    BY <1>0, <1>1, <1>5, <2>1 DEF Taken
  <2>3. ASSUME NEW u \in Users, NEW v \in Users, <<u, v>> \in older[a],
               role'[a][u] # NoRole, role'[a][v] # NoRole
        PROVE  <<u, v>> \in older'[a]
    BY <2>0, <2>3 DEF Frame
  <2>4. ASSUME NEW u \in Users, NEW v \in Users,
               Holds(q, MemberRow(a, u), "upd")', Awaits(q, MemberRow(a, v))'
        PROVE  <<u, v>> \in older'[a]
    <3>1. Holds(q, MemberRow(a, u), "upd") /\ Awaits(q, MemberRow(a, v))
      BY <1>0, <2>1, <2>4 DEF Holds
    <3> QED
      BY <1>5, <2>2, <2>3, <2>4, <3>1 DEF Ranked
  <2>5. ASSUME NEW m \in DOMAIN want'[q], NEW n \in DOMAIN want'[q],
               NEW u \in Users, NEW v \in Users, m < n,
               want'[q][m].row = MemberRow(a, u),
               want'[q][n].row = MemberRow(a, v)
        PROVE  <<u, v>> \in older'[a]
    <3>1. /\ m \in DOMAIN want[q] /\ n \in DOMAIN want[q]
          /\ want'[q][m] = Found(want[q][m]) /\ want'[q][n] = Found(want[q][n])
          /\ want[q][m] \in Entry /\ want[q][n] \in Entry
      BY BystanderWants, WantTyped DEF Frame
    <3>2. /\ want[q][m].row = MemberRow(a, u)
          /\ want[q][n].row = MemberRow(a, v)
      BY <2>5, <3>1, FoundCases, RowsApart
    <3>3. Awaits(q, MemberRow(a, u))' /\ Awaits(q, MemberRow(a, v))'
      BY <1>0, <2>5 DEF Awaits, Wanted
    <3> QED
      BY <1>5, <2>2, <2>3, <2>5, <3>1, <3>2, <3>3 DEF Ranked
  <2> QED
    BY <1>0, <1>1, <1>5, <2>4, <2>5 DEF Ranked
<1> QED
  BY <1>1, <1>4, <1>5 DEF Ranked

(* Of the requests that manage one account one at a time is past its       *)
(* checks.                                                                 *)
Past(r) == Manages(r) /\ pc[r] # "locked"

LEMMA PastHoldsMember ==
    ASSUME NEW r \in Requests, Shape(r), Checked(r), Past(r)
    PROVE  /\ \E u \in Users : Holds(r, MemberRow(req[r].account, u), "upd")
           /\ \A u \in Taken(r) : Holds(r, MemberRow(req[r].account, u), "upd")
<1>1. \E u \in Users : Holds(r, MemberRow(req[r].account, u), "upd")
  <2>1. req[r].actor \in LockedOwners(r) \/ req[r].target \in Locked(r)
    BY DEF Past, Manages, Managing, MemberKinds, Shape, Requested, Checked,
           UpdateChecked, MemberRole
  <2> QED
    BY <2>1 DEF LockedOwners, Locked, MembersLock
<1>2. \A u, w : w \in Wanted(r) => w.row # MemberRow(req[r].account, u)
  <2> SUFFICES ASSUME NEW u, NEW w \in Wanted(r), w.row = MemberRow(req[r].account, u)
               PROVE  FALSE
    OBVIOUS
  <2>1. Fits(r, w)
    BY DEF Shape
  <2> QED
    BY <2>1, MemberAwaited DEF Past, Manages, Managing
<1> QED
  BY <1>1, <1>2 DEF Taken, Awaits

LEMMA OnePast ==
    ASSUME NEW p \in Requests, NEW q \in Requests,
           Shape(p), Checked(p), Past(p), Shape(q), Checked(q), Past(q),
           Compatible(p, q), Nested(p, q), req[p].account = req[q].account
    PROVE  FALSE
<1>1. /\ Taken(p) # {} /\ Taken(q) # {}
      /\ \A u \in Taken(p) : Holds(p, MemberRow(req[p].account, u), "upd")
      /\ \A u \in Taken(q) : Holds(q, MemberRow(req[p].account, u), "upd")
  BY PastHoldsMember DEF Taken, Past
<1>2. PICK u : u \in Taken(p) /\ u \in Taken(q)
  BY <1>1 DEF Nested, Past
<1> QED
  BY <1>1, <1>2, HeldApart DEF Shared

LEMMA BystanderChecked ==
    ASSUME Typed, NEW r \in Requests, NEW q \in Requests \ {r}, Frame(r),
           Sharing!TypeOK, Sharing!TypeOK', Shape(q), Progress(q), Checked(q),
           Compatible(q, r)
    PROVE  Checked(q)'
<1> DEFINE a == req[q].account
           e == req[q].target
<1>0. /\ req'[q] = req[q] /\ pc'[q] = pc[q] /\ locks'[q] = locks[q]
      /\ accounts \subseteq accounts' /\ accounts \subseteq Accounts
  BY DataTyped DEF Frame, Others
<1>1. Locked(q)' = Locked(q)
  BY <1>0 DEF Locked, Holds, MembersLock
<1>2. ASSUME Manages(q)
      PROVE  /\ LockedOwners(q)' = LockedOwners(q)
             /\ \A u : MemberRole(q, u)' = MemberRole(q, u)
  <2>1. \A u \in Locked(q) : role'[a][u] = role[a][u]
    BY <1>2, ManagesAccount, HeldRoleKept DEF Locked, MembersLock
  <2>2. \A u : MemberRole(q, u)' = MemberRole(q, u)
    BY <1>0, <1>1, <2>1 DEF MemberRole
  <2> QED
    BY <1>1, <2>2 DEF LockedOwners
<1>3. ASSUME \/ pc[q] \in {"upserted", "invited"}
             \/ pc[q] = "deleted" /\ req[q].kind = "cancel"
      PROVE  req[q].actor \in LockedOwners(q)'
  <2>1. Manages(q)
    BY <1>3 DEF Manages, Managing, MemberKinds, Shape, Requested, Idle
  <2> QED
    BY <1>2, <1>3, <2>1 DEF Checked
<1>4. ASSUME pc[q] = "withdrawn" PROVE UpdateChecked(q)'
  <2>1. Manages(q)
    BY <1>4 DEF Manages, Managing, MemberKinds, Shape, Requested
  <2>2. UpdateChecked(q)
    BY <1>4 DEF Checked
  <2> QED
    BY <1>0, <1>2, <2>1, <2>2 DEF UpdateChecked
<1>5. ASSUME pc[q] \in {"joined", "accepted"}
      PROVE  /\ OpenInvitation(q)'
             /\ Joined(q)' <=> Joined(q)
             /\ req[q].actor \in Sharing!Members(a) =>
                   req[q].actor \in Sharing!Members(a)'
  <2>1. /\ a \in accounts /\ e = req[q].actor /\ e \in Users
        /\ HoldsInvitation(q, a, e)
    BY <1>5, ManagesAccount DEF Requested, Progress
  <2>2. /\ ~ HoldsInvitation(r, a, e)
        /\ \A i : i.account = a /\ i.email = e =>
              (i \in invitations <=> i \in invitations')
    BY <2>1, HeldInvitationsKept
  <2>3. OpenInvitation(q)
    BY <1>5 DEF Checked
  <2>4. OpenInvitation(q)'
    BY <1>0, <2>1, <2>2, <2>3 DEF OpenInvitation, InvitationsOf
  <2>5. role[a][e] # NoRole => role'[a][e] # NoRole
    BY <2>1, <2>2, <2>3 DEF Frame, OpenInvitation, InvitationsOf
  <2>6. e \in Sharing!Members(a) => e \in Sharing!Members(a)'
    BY <1>0, <2>1, <2>5, Names DEF Sharing!Members
  <2>7. Joined(q)' <=> Joined(q)
    BY <1>0 DEF Joined, Holds
  <2> QED
    BY <2>1, <2>4, <2>6, <2>7
<1>6. want'[q] = <<>> <=> want[q] = <<>>
  BY BystanderWants DEF Frame
<1>7. \/ pc[q] = "joined" /\ want[q] = <<>>
      \/ pc[q] = "accepted"
      => Joined(q)' \/ req[q].actor \in Sharing!Members(a)'
  BY <1>5 DEF Checked
<1> QED
  BY <1>0, <1>3, <1>4, <1>5, <1>6, <1>7 DEF Checked

LEMMA BystanderWithdraws ==
    ASSUME Typed, NEW r \in Requests, NEW q \in Requests \ {r}, Frame(r),
           Sharing!TypeOK, Sharing!TypeOK', Shape(q), Checked(q), Withdraws(q),
           Shape(r), Checked(r), Compatible(q, r), Nested(q, r)
    PROVE  Withdraws(q)'
<1> SUFFICES ASSUME pc[q] = "withdrawn", NEW i \in invitations'
             PROVE  i \in Sharing!Withdrawn(req[q].account, req[q].target,
                                            req[q].newRole)'
                    <=> \/ Holds(q, InvitationRow(i.account, i.email), "upd")'
                        \/ Awaits(q, InvitationRow(i.account, i.email))'
  BY DEF Frame, Others, Withdraws
<1> DEFINE a == req[q].account
           u == req[q].target
           n == req[q].newRole
<1>0. /\ req'[q] = req[q] /\ pc'[q] = pc[q] /\ locks'[q] = locks[q]
      /\ accounts \subseteq Accounts
  BY DataTyped DEF Frame, Others
<1>1. Manages(q) /\ a \in accounts /\ u \in Users /\ Past(q)
  BY ManagesAccount DEF Past, Manages, Managing, MemberKinds, Shape, Requested
<1>2. role'[a][u] = role[a][u]
  <2>1. u \in Locked(q)
    BY DEF Checked, UpdateChecked, MemberRole
  <2> QED
    BY <1>1, <2>1, HeldRoleKept DEF Locked, MembersLock
<1>3. i \in Sharing!Withdrawn(a, u, n)' <=>
        /\ i.account = a
        /\ \/ i.by = u /\ n = NoRole
           \/ i.by = u /\ role[a][u] = Owner /\ n # Owner
           \/ i.email = u /\ n = NoRole
  BY <1>0, <1>2, Names DEF Sharing!Withdrawn
<1>4. \A e : Awaits(q, InvitationRow(i.account, e))' =>
               Awaits(q, InvitationRow(i.account, e))
  <2> SUFFICES ASSUME NEW e, NEW w \in Wanted(q)', w.row = InvitationRow(i.account, e)
               PROVE  \E x \in Wanted(q) : x.row = InvitationRow(i.account, e)
    BY DEF Awaits
  <2>1. PICK x \in Wanted(q) : w = Found(x)
    BY BystanderWants DEF Frame
  <2> QED
    BY <2>1, FoundCases, WantTyped, RowsApart
<1>5. CASE i \notin invitations
  <2>1. pc[r] = "invited" /\ i.account = req[r].account
    BY <1>5 DEF Frame
  <2>2. Past(r)
    BY <2>1 DEF Past, Manages, Managing, MemberKinds, Shape, Requested, Idle
  <2>3. i.account # a
    BY <1>1, <2>1, <2>2, OnePast
  <2>4. ~ Holds(q, InvitationRow(i.account, i.email), "upd")
    BY <2>3, InvitationHeld DEF Shape
  <2>5. ~ Awaits(q, InvitationRow(i.account, i.email))
    BY <2>3, InvitationAwaited DEF Shape, Awaits
  <2> QED
    BY <1>0, <1>3, <1>4, <2>3, <2>4, <2>5 DEF Holds
<1>6. CASE i \in invitations
  <2>1. i \in Sharing!Withdrawn(a, u, n) <=>
          \/ Holds(q, InvitationRow(i.account, i.email), "upd")
          \/ Awaits(q, InvitationRow(i.account, i.email))
    BY <1>6 DEF Withdraws
  <2>2. i \in Sharing!Withdrawn(a, u, n) <=> i \in Sharing!Withdrawn(a, u, n)'
    BY <1>3, <1>6, Names DEF Sharing!Withdrawn
  <2>3. ASSUME Awaits(q, InvitationRow(i.account, i.email))
        PROVE  \E w \in Wanted(q)' : w.row = InvitationRow(i.account, i.email)
    <3>1. PICK x \in Wanted(q) : x.row = InvitationRow(i.account, i.email)
      BY <2>3 DEF Awaits
    <3>2. i \in InvitationsOf(i.account, i.email)'
      BY DEF InvitationsOf
    <3>3. Exists(x.row)'
      BY <3>1, <3>2, RowsExistNext
    <3>4. Found(x) = x
      BY <3>3, FoundCases, WantTyped
    <3> QED
      BY <3>1, <3>4, BystanderWants DEF Frame
  <2>4. Holds(q, InvitationRow(i.account, i.email), "upd")' <=>
          Holds(q, InvitationRow(i.account, i.email), "upd")
    BY <1>0 DEF Holds
  <2>5. Awaits(q, InvitationRow(i.account, i.email))' <=>
          Awaits(q, InvitationRow(i.account, i.email))
    BY <1>4, <2>3 DEF Awaits
  <2> QED
    BY <2>1, <2>2, <2>4, <2>5
<1> QED
  BY <1>5, <1>6

LEMMA BystanderPairs ==
    ASSUME Typed, NEW r \in Requests,
           NEW p \in Requests \ {r}, NEW q \in Requests \ {r}, Frame(r),
           Sharing!TypeOK, Sharing!TypeOK', Shape(p), Present(p),
           Shape(q), Present(q), Compatible(p, r), Compatible(q, r),
           Compatible(p, q), Nested(p, q)
    PROVE  Compatible(p, q)' /\ Nested(p, q)'
<1>0. /\ req'[q] = req[q] /\ pc'[q] = pc[q] /\ locks'[q] = locks[q]
      /\ req'[p] = req[p] /\ pc'[p] = pc[p] /\ locks'[p] = locks[p]
  BY DEF Frame, Others
<1>1. Compatible(p, q)'
  BY <1>0 DEF Compatible
<1>2. ASSUME Manages(p), Manages(q), req[p].account = req[q].account
      PROVE  Taken(p)' \subseteq Taken(q)' \/ Taken(q)' \subseteq Taken(p)'
  <2>1. /\ Taken(p)' = {u \in Taken(p) : role'[req[p].account][u] # NoRole}
        /\ Taken(q)' = {u \in Taken(q) : role'[req[p].account][u] # NoRole}
    BY <1>2, BystanderTaken
  <2>2. Taken(p) \subseteq Taken(q) \/ Taken(q) \subseteq Taken(p)
    BY <1>2 DEF Nested
  <2> QED
    BY <2>1, <2>2
<1>3. Nested(p, q)'
  BY <1>0, <1>2 DEF Nested, Manages
<1> QED
  BY <1>1, <1>3

LEMMA PairsSymmetric ==
    ASSUME NEW p, NEW q
    PROVE  /\ Compatible(p, q) => Compatible(q, p)
           /\ Nested(p, q) => Nested(q, p)
           /\ Compatible(p, q)' => Compatible(q, p)'
           /\ Nested(p, q)' => Nested(q, p)'
<1>1. Compatible(p, q) => Compatible(q, p)
  BY DEF Compatible
<1>2. Nested(p, q) => Nested(q, p)
  BY DEF Nested
<1>3. Compatible(p, q)' => Compatible(q, p)'
  BY DEF Compatible
<1>4. Nested(p, q)' => Nested(q, p)'
  BY DEF Nested
<1> QED
  BY <1>1, <1>2, <1>3, <1>4

(* A step is judged by what it does to the request that takes it.          *)
LEMMA StepKeepsInv ==
    ASSUME Inv, NEW r \in Requests, Frame(r), Typed', Data', Own(r)',
           \A q \in Requests \ {r} : Compatible(q, r)' /\ Nested(q, r)'
    PROVE  Inv'
<1>0. Typed /\ Sharing!TypeOK /\ Sharing!TypeOK'
  BY DEF Inv, Data
<1>1. ASSUME NEW q \in Requests PROVE Own(q)
  BY DEF Inv
<1>2. ASSUME NEW p \in Requests, NEW q \in Requests, p # q
      PROVE  Compatible(p, q) /\ Nested(p, q)
  BY <1>2 DEF Inv, Pairs
<1>3. ASSUME NEW q \in Requests \ {r} PROVE Own(q)'
  <2>1. Compatible(q, r) /\ Nested(q, r) /\ Own(q) /\ Own(r)
    BY <1>1, <1>2
  <2>2. Shape(q)' /\ Progress(q)' /\ Updating(q)'
    BY <1>0, <2>1, BystanderShape, BystanderProgress DEF Own
  <2>3. Present(q)' /\ Ranked(q)'
    BY <1>0, <2>1, BystanderPresent DEF Own
  <2>4. Checked(q)' /\ Withdraws(q)'
    BY <1>0, <2>1, BystanderChecked, BystanderWithdraws DEF Own
  <2> QED
    BY <2>2, <2>3, <2>4 DEF Own
<1>4. ASSUME NEW p \in Requests, NEW q \in Requests, p # q
      PROVE  Compatible(p, q)' /\ Nested(p, q)'
  <2>1. CASE p # r /\ q # r
    BY <1>0, <1>1, <1>2, <1>4, <2>1, BystanderPairs DEF Own
  <2>2. CASE p = r
    BY <1>4, <2>2, PairsSymmetric
  <2>3. CASE q = r
    BY <1>4, <2>3
  <2> QED
    BY <2>1, <2>2, <2>3
<1> QED
  BY <1>3, <1>4 DEF Inv, Pairs

(* A request that is answered, or whose next transaction has not begun.    *)
LEMMA IdleKeepsInv ==
    ASSUME Inv, NEW r \in Requests, Frame(r), Typed', Data',
           pc'[r] \in Idle, want'[r] = <<>>, locks'[r] = {},
           pc'[r] # "done" => Requested(r)'
    PROVE  Inv'
<1>1. Wanted(r)' = {} /\ ~ Manages(r)'
  BY DEF Wanted, Manages, Idle, Managing
<1>2. Own(r)'
  BY <1>1 DEF Own, Shape, Progress, Updating, Present, Ranked, Checked,
              Withdraws, Idle, Taken
<1>3. \A q \in Requests \ {r} : Compatible(q, r)' /\ Nested(q, r)'
  BY <1>1 DEF Compatible, Nested
<1> QED
  BY <1>2, <1>3, StepKeepsInv

-----------------------------------------------------------------------------
(* Steps that change no table.                                             *)

LEMMA DataUnchanged == Data /\ UNCHANGED dbVars => Data'
BY DEF Data, dbVars, Sharing!TypeOK, Sharing!Members

LEMMA UnchangedFrame ==
    ASSUME Typed, NEW r \in Requests, UNCHANGED dbVars,
           \A q \in Requests \ {r} :
              /\ req'[q] = req[q] /\ pc'[q] = pc[q] /\ locks'[q] = locks[q]
              /\ \/ want'[q] = want[q]
                 \/ want'[q] = [n \in DOMAIN want[q] |-> Found(want[q][n])]
    PROVE  Frame(r)
<1>1. ASSUME NEW q \in Requests
      PROVE  want[q] = [n \in DOMAIN want[q] |-> Found(want[q][n])]
  <2>1. \A n \in DOMAIN want[q] : Found(want[q][n]) = want[q][n]
    BY NothingDeleted
  <2>2. want[q] \in Seq(Entry)
    BY WantTyped
  <2> QED
    BY <2>1, <2>2
<1>2. Others(r)
  BY <1>1 DEF Others
<1> QED
  BY <1>2 DEF Frame, dbVars

LEMMA DoneTyped ==
    ASSUME Typed, NEW r \in Requests, Done(r)
    PROVE  /\ Typed' /\ Others(r)
           /\ pc'[r] = "done" /\ want'[r] = <<>> /\ locks'[r] = {}
<1>1. Others(r) /\ pc'[r] = "done" /\ want'[r] = <<>> /\ locks'[r] = {}
  BY DEF Done, Others, Typed
<1>2. ASSUME NEW q \in Requests PROVE want'[q] \in Seq(Entry)
  <2>0. <<>> \in Seq(Entry)
    OBVIOUS
  <2>1. CASE q = r
    BY <1>1, <2>0, <2>1
  <2>2. CASE q # r
    BY <1>1, <2>2, BystanderWants
  <2> QED
    BY <2>1, <2>2
<1>3. want' \in [Requests -> Seq(Entry)]
  BY <1>2 DEF Done
<1>4. /\ req' = req
      /\ pc' \in [Requests -> Statements] /\ locks' \in [Requests -> SUBSET Lock]
      /\ left' \in [Requests -> SUBSET Accounts]
  BY DEF Done, Typed, Statements, Idle
<1> QED
  BY <1>1, <1>3, <1>4 DEF Typed

LEMMA DoneKeepsInv ==
    ASSUME Inv, NEW r \in Requests, Done(r), Data', Frame(r)
    PROVE  Inv'
BY DoneTyped, IdleKeepsInv DEF Inv, Idle

LEMMA RollbackKeepsInv ==
    ASSUME Inv, NEW r \in Requests, Rollback(r)
    PROVE  Inv'
<1>1. Done(r) /\ UNCHANGED dbVars /\ Typed /\ Data
  BY DEF Rollback, Inv
<1>2. Frame(r)
  BY <1>1, DoneTyped, UnchangedFrame DEF Others
<1> QED
  BY <1>1, <1>2, DataUnchanged, DoneKeepsInv

LEMMA StatementKeepsInv ==
    ASSUME Inv, NEW r \in Requests,
           req' = req, UNCHANGED <<locks, left, dbVars>>,
           NEW next \in Statements, pc' = [pc EXCEPT ![r] = next],
           NEW rows \in Seq(Entry), want' = [want EXCEPT ![r] = rows],
           Own(r)', Manages(r)' => Manages(r) /\ Taken(r)' = Taken(r)
    PROVE  Inv'
<1>0. Typed /\ Data
  BY DEF Inv
<1>1. Typed'
  BY DEF Inv, Typed
<1>2. Data'
  BY DataUnchanged DEF Inv
<1>3. Frame(r)
  BY <1>0, UnchangedFrame DEF Typed
<1>4. ASSUME NEW q \in Requests \ {r} PROVE Compatible(q, r)' /\ Nested(q, r)'
  <2>1. Compatible(q, r) /\ Nested(q, r)
    BY DEF Inv, Pairs
  <2>2. Compatible(q, r)'
    BY <2>1 DEF Compatible
  <2>3. pc'[q] = pc[q] /\ want'[q] = want[q]
    BY <1>0 DEF Typed
  <2>4. (Manages(q)' <=> Manages(q)) /\ Taken(q)' = Taken(q)
    BY <2>3 DEF Manages, Taken, Holds, Awaits, Wanted
  <2>5. Nested(q, r)'
    BY <2>1, <2>4 DEF Nested
  <2> QED
    BY <2>2, <2>5
<1> QED
  BY <1>1, <1>2, <1>3, <1>4, StepKeepsInv

-----------------------------------------------------------------------------
(* Locking one row.                                                        *)

Takes(w) ==
    IF Exists(w.row) THEN {w.mode} \ {"join"}
    ELSE IF w.absent = "insert" THEN {"del"} ELSE {}

Acquired(r, w) ==
    /\ 1 \in DOMAIN want[r] /\ w = want[r][1]
    /\ Exists(w.row) \/ w.absent # "fail"
    /\ Blockers(r) = {}
    /\ UNCHANGED <<req, pc, left, dbVars>>
    /\ locks' = [locks EXCEPT ![r] =
                   @ \cup {[row |-> w.row, mode |-> m] : m \in Takes(w)}]
    /\ \A q \in Requests \ {r} : want'[q] = want[q]
    /\ want' \in [Requests -> Seq(Entry)]
    /\ \A n \in DOMAIN want'[r] :
          n + 1 \in DOMAIN want[r] /\ want'[r][n] = want[r][n + 1]
    /\ w.absent # "nothing" =>
          \A n \in DOMAIN want[r] \ {1} :
             \E m \in DOMAIN want'[r] : n = m + 1 /\ want'[r][m] = want[r][n]

LEMMA AcquireCases ==
    ASSUME Typed, NEW r \in Requests, Acquire(r)
    PROVE  Rollback(r) \/ \E w \in Entry : Acquired(r, w)
<1>1. /\ want[r] \in Seq(Entry) /\ want[r] # <<>>
      /\ Blockers(r) = {}
  BY WantTyped DEF Acquire
<1>2. PICK w \in Entry : w = Head(want[r]) /\ w = want[r][1] /\ 1 \in DOMAIN want[r]
  BY <1>1
<1>3. CASE ~ Exists(w.row) /\ w.absent = "fail"
  BY <1>2, <1>3 DEF Acquire
<1>4. CASE Exists(w.row) \/ w.absent # "fail"
  <2>1. /\ \/ /\ Exists(w.row) /\ w.mode # "join"
              /\ locks' = [locks EXCEPT ![r] = @ \cup {[row |-> w.row, mode |-> w.mode]}]
           \/ Exists(w.row) /\ w.mode = "join" /\ UNCHANGED locks
           \/ /\ ~ Exists(w.row) /\ w.absent = "insert"
              /\ locks' = [locks EXCEPT ![r] = @ \cup {[row |-> w.row, mode |-> "del"]}]
           \/ ~ Exists(w.row) /\ w.absent # "insert" /\ UNCHANGED locks
        /\ want' = [want EXCEPT ![r] =
                      IF ~ Exists(w.row) /\ w.absent = "nothing"
                      THEN <<>> ELSE Tail(@)]
        /\ UNCHANGED <<req, pc, left, dbVars>>
    BY <1>2, <1>4 DEF Acquire
  <2>2. locks' = [locks EXCEPT ![r] =
                   @ \cup {[row |-> w.row, mode |-> m] : m \in Takes(w)}]
    BY <2>1 DEF Takes, Typed
  <2>3. PICK rest \in Seq(Entry) :
          /\ want' = [want EXCEPT ![r] = rest]
          /\ rest = <<>> \/ rest = Tail(want[r])
          /\ w.absent # "nothing" => rest = Tail(want[r])
    <3> DEFINE rest == IF ~ Exists(w.row) /\ w.absent = "nothing"
                       THEN <<>> ELSE Tail(want[r])
    <3>1. Tail(want[r]) \in Seq(Entry) /\ <<>> \in Seq(Entry)
      BY <1>1
    <3>2. want' = [want EXCEPT ![r] = rest]
      BY <2>1
    <3>3. rest \in Seq(Entry) /\ (rest = <<>> \/ rest = Tail(want[r]))
      BY <3>1
    <3>4. w.absent # "nothing" => rest = Tail(want[r])
      OBVIOUS
    <3> HIDE DEF rest
    <3> QED
      BY <3>2, <3>3, <3>4
  <2>4. /\ want' \in [Requests -> Seq(Entry)] /\ want'[r] = rest
        /\ \A q \in Requests \ {r} : want'[q] = want[q]
    BY <2>3 DEF Typed
  <2>5. \A n \in DOMAIN rest : n + 1 \in DOMAIN want[r] /\ rest[n] = want[r][n + 1]
    BY <1>1, <2>3
  <2>6. ASSUME w.absent # "nothing", NEW n \in DOMAIN want[r] \ {1}
        PROVE  \E m \in DOMAIN rest : n = m + 1 /\ rest[m] = want[r][n]
    <3>1. rest = Tail(want[r]) /\ n \in 1 .. Len(want[r]) /\ n # 1 /\ Len(want[r]) \in Nat
      BY <1>1, <2>3, <2>6
    <3>2. n - 1 \in DOMAIN rest /\ rest[n - 1] = want[r][n] /\ n = (n - 1) + 1
      BY <1>1, <3>1
    <3> QED
      BY <3>2
  <2> QED
    BY <1>1, <1>2, <1>4, <2>1, <2>2, <2>4, <2>5, <2>6, ZenonT(60) DEF Acquired
<1> QED
  BY <1>3, <1>4

LEMMA AcquiredEffect ==
    ASSUME Typed, NEW r \in Requests, NEW w \in Entry, Acquired(r, w)
    PROVE  /\ w \in Wanted(r)
           /\ req' = req /\ pc' = pc /\ UNCHANGED dbVars
           /\ \A row, m : Holds(r, row, m)' <=>
                 Holds(r, row, m) \/ (row = w.row /\ m \in Takes(w))
           /\ \A h \in locks'[r] : \/ h \in locks[r]
                                   \/ h.row = w.row /\ h.mode \in Takes(w)
           /\ locks[r] \subseteq locks'[r]
           /\ \A q \in Requests \ {r} : locks'[q] = locks[q]
           /\ Wanted(r)' \subseteq Wanted(r)
           /\ \A row : Awaits(r, row)' => Awaits(r, row)
           /\ w.absent # "nothing" =>
                 \A row : Awaits(r, row) => Awaits(r, row)' \/ row = w.row
<1>1. locks'[r] = locks[r] \cup {[row |-> w.row, mode |-> m] : m \in Takes(w)}
  BY DEF Acquired, Typed
<1>2. \A row, m : Holds(r, row, m)' <=>
         Holds(r, row, m) \/ (row = w.row /\ m \in Takes(w))
  BY <1>1 DEF Holds
<1>3. \A h \in locks'[r] : h \in locks[r] \/ (h.row = w.row /\ h.mode \in Takes(w))
  BY <1>1
<1>4. Wanted(r)' \subseteq Wanted(r)
  BY DEF Acquired, Wanted
<1>5. \A row : Awaits(r, row)' => Awaits(r, row)
  BY <1>4 DEF Awaits
<1>6. ASSUME w.absent # "nothing", NEW row, Awaits(r, row), row # w.row
      PROVE  \E x \in Wanted(r)' : x.row = row
  <2>1. PICK n \in DOMAIN want[r] : want[r][n].row = row
    BY <1>6 DEF Awaits, Wanted
  <2>2. n # 1
    BY <1>6, <2>1 DEF Acquired
  <2>3. PICK m \in DOMAIN want'[r] : want'[r][m] = want[r][n]
    BY <1>6, <2>1, <2>2 DEF Acquired
  <2> QED
    BY <2>1, <2>3 DEF Wanted
<1>7. \A row : w.absent # "nothing" /\ Awaits(r, row) => Awaits(r, row)' \/ row = w.row
  BY <1>6 DEF Awaits
<1> QED
  BY <1>1, <1>2, <1>3, <1>4, <1>5, <1>7 DEF Acquired, Wanted, Typed

(* A row is taken only if it exists, except by an INSERT.                  *)
LEMMA TakenRow ==
    ASSUME NEW r \in Requests, NEW w \in Entry, Fits(r, w),
           NEW m \in Takes(w)
    PROVE  /\ w.row # Gone /\ w.row \in TableRows /\ m \in Modes
           /\ \/ m = w.mode /\ Exists(w.row)
              \/ m = "del" /\ ~ Exists(w.row) /\ w.absent = "insert"
           /\ MayHold(r, [row |-> w.row, mode |-> m]) \/ pc[r] = "locked"
           /\ pc[r] = "locked" => /\ w.row \in MemberRows(req[r].account)
                                  /\ m = "upd"
<1>1. \/ m = w.mode /\ Exists(w.row)
      \/ m = "del" /\ ~ Exists(w.row) /\ w.absent = "insert"
  BY DEF Takes
<1>2. w.row # Gone
  BY <1>1, RowsExist, RowsApart DEF Fits
<1>3. w.row \in TableRows /\ m \in Modes
  BY <1>1, <1>2 DEF Entry, Modes
<1>4. MayHold(r, [row |-> w.row, mode |-> m]) \/ pc[r] = "locked"
  <2>1. CASE pc[r] \in Referring
    <3>1. pc[r] \notin {"locked", "upserted", "deleted", "read", "withdrawn", "joined"}
      BY <2>1 DEF Referring
    <3> QED
      BY <1>1, <2>1, <3>1 DEF Fits, MayHold
  <2>2. CASE pc[r] = "upserted"
    BY <1>1, <2>2 DEF Fits, MayHold, Referring
  <2>3. CASE pc[r] \in {"deleted", "read"}
    BY <1>1, <1>2, <2>3 DEF Fits, MayHold, Referring
  <2>4. CASE pc[r] = "withdrawn"
    BY <1>1, <1>2, <2>4 DEF Fits, MayHold, Referring
  <2>5. CASE pc[r] = "joined"
    BY <1>1, <2>5 DEF Fits, MayHold, Referring, Takes
  <2> QED
    BY <2>1, <2>2, <2>3, <2>4, <2>5 DEF Fits
<1>5. pc[r] = "locked" => w.row \in MemberRows(req[r].account) /\ m = "upd"
  BY <1>1, <1>2 DEF Fits, Referring
<1> QED
  BY <1>1, <1>2, <1>3, <1>4, <1>5

LEMMA AcquiredTaken ==
    ASSUME Typed, Sharing!TypeOK, NEW r \in Requests, NEW w \in Entry,
           Acquired(r, w), Shape(r), Present(r), Manages(r)
    PROVE  /\ Manages(r)' /\ Taken(r)' = Taken(r)
           /\ pc[r] # "locked" => Locked(r)' = Locked(r)
<1> DEFINE a == req[r].account
<1>0. Fits(r, w) /\ Manages(r)'
  BY AcquiredEffect DEF Shape, Manages
<1>1. a \in Accounts
  BY ManagesAccount, DataTyped
<1>2. ASSUME NEW u \in Users, w.row = MemberRow(a, u)
      PROVE  /\ pc[r] = "locked" /\ w.absent = "skip" /\ Takes(w) = {"upd"}
             /\ Awaits(r, MemberRow(a, u))
  <2>1. /\ pc[r] = "locked" /\ w.mode = "upd" /\ w.absent = "skip"
    BY <1>0, <1>2, MemberAwaited DEF Manages, Managing
  <2>2. Awaits(r, MemberRow(a, u))
    BY <1>2, AcquiredEffect DEF Awaits
  <2>3. u \in Sharing!Members(a)
    BY <2>2 DEF Present, Taken
  <2>4. Exists(w.row)
    BY <1>1, <1>2, <2>3, MembersAre, RowsExist
  <2> QED
    BY <2>1, <2>2, <2>4 DEF Takes
<1>3. ASSUME NEW u \in Users
      PROVE  Holds(r, MemberRow(a, u), "upd") \/ Awaits(r, MemberRow(a, u)) <=>
             Holds(r, MemberRow(a, u), "upd")' \/ Awaits(r, MemberRow(a, u))'
  <2>1. Holds(r, MemberRow(a, u), "upd")' =>
          Holds(r, MemberRow(a, u), "upd") \/ Awaits(r, MemberRow(a, u))
    BY <1>2, AcquiredEffect
  <2>2. Awaits(r, MemberRow(a, u))' => Awaits(r, MemberRow(a, u))
    BY AcquiredEffect
  <2>3. Holds(r, MemberRow(a, u), "upd") => Holds(r, MemberRow(a, u), "upd")'
    BY AcquiredEffect
  <2>4. ASSUME Awaits(r, MemberRow(a, u))
        PROVE  Holds(r, MemberRow(a, u), "upd")' \/ Awaits(r, MemberRow(a, u))'
    <3>1. pc[r] = "locked"
      BY <2>4, MemberAwaited DEF Awaits, Shape, Manages, Managing
    <3>2. w.absent = "skip"
      BY <1>0, <3>1 DEF Fits, Referring
    <3>3. CASE w.row = MemberRow(a, u)
      BY <1>2, <3>3, AcquiredEffect
    <3>4. CASE w.row # MemberRow(a, u)
      BY <2>4, <3>2, <3>4, AcquiredEffect
    <3> QED
      BY <3>3, <3>4
  <2> QED
    BY <2>1, <2>2, <2>3, <2>4
<1>4. Taken(r)' = Taken(r)
  BY <1>0, <1>3, AcquiredEffect DEF Taken, Acquired
<1>5. pc[r] # "locked" => Locked(r)' = Locked(r)
  BY <1>2, AcquiredEffect DEF Locked, MembersLock, Acquired
<1> QED
  BY <1>0, <1>4, <1>5

LEMMA AcquiredShape ==
    ASSUME Typed, NEW r \in Requests, NEW w \in Entry, Acquired(r, w),
           Shape(r), Progress(r), Updating(r)
    PROVE  Typed' /\ Shape(r)' /\ Progress(r)' /\ Updating(r)'
<1>0. /\ req' = req /\ pc' = pc /\ UNCHANGED dbVars
      /\ Fits(r, w) /\ w \in Wanted(r)
  BY AcquiredEffect DEF Shape
<1>1. Typed'
  <2>1. {[row |-> w.row, mode |-> m] : m \in Takes(w)} \subseteq Lock
    BY <1>0, TakenRow DEF Lock
  <2> QED
    BY <2>1 DEF Acquired, Typed
<1>2. Shape(r)'
  <2>1. Requested(r) => Requested(r)'
    BY <1>0 DEF Requested, dbVars
  <2>2. pc[r] \notin Idle
    BY DEF Shape, Acquired
  <2>3. \A x \in Wanted(r)' : Fits(r, x)'
    BY <1>0, AcquiredEffect DEF Shape, Fits, dbVars
  <2>4. ASSUME NEW h \in locks'[r] PROVE MayHold(r, h)'
    <3>1. CASE h \in locks[r]
      BY <1>0, <3>1 DEF Shape, MayHold, dbVars
    <3>2. CASE h.row = w.row /\ h.mode \in Takes(w)
      <4>1. CASE pc[r] = "locked"
        BY <1>0, <3>2, <4>1, TakenRow DEF MayHold, Managing, Shape, Requested, Idle
      <4>2. CASE pc[r] # "locked"
        <5>1. MayHold(r, [row |-> w.row, mode |-> h.mode])
          BY <1>0, <3>2, <4>2, TakenRow
        <5> QED
          BY <1>0, <3>2, <5>1 DEF MayHold, dbVars
      <4> QED
        BY <4>1, <4>2
    <3> QED
      BY <3>1, <3>2, AcquiredEffect
  <2> QED
    BY <1>0, <2>1, <2>2, <2>3, <2>4 DEF Shape
<1>3. Progress(r)'
  <2>0. want[r] \in Seq(Entry) /\ want'[r] \in Seq(Entry)
    BY WantTyped DEF Acquired
  <2>1. Len(want[r]) <= 1 => want'[r] = <<>>
    <3> SUFFICES ASSUME Len(want[r]) <= 1 PROVE want'[r] = <<>>
      OBVIOUS
    <3>1. DOMAIN want[r] = 1 .. Len(want[r]) /\ Len(want[r]) \in Nat
      BY <2>0
    <3>2. \A n \in DOMAIN want'[r] : n + 1 \in DOMAIN want[r]
      BY DEF Acquired
    <3>3. DOMAIN want'[r] = 1 .. Len(want'[r]) /\ Len(want'[r]) \in Nat
      BY <2>0
    <3>4. 1 \notin DOMAIN want'[r]
      <4>1. 1 + 1 \notin DOMAIN want[r]
        BY <3>1
      <4> QED
        BY <3>2, <4>1
    <3>5. Len(want'[r]) = 0
      BY <3>3, <3>4
    <3> QED
      BY <2>0, <3>5
  <2>2. \A a, e : HoldsInvitation(r, a, e) =>
                    \/ Holds(r, InvitationRow(a, e), "upd")'
                    \/ Holds(r, InvitationRow(a, e), "del")'
    BY AcquiredEffect DEF HoldsInvitation
  <2>3. ASSUME pc[r] \in {"upserted", "read"}
        PROVE  \/ Holds(r, InvitationRow(req[r].account, req[r].target), "upd")'
               \/ Holds(r, InvitationRow(req[r].account, req[r].target), "del")'
    <3>1. /\ w.row \in {InvitationRow(req[r].account, req[r].target), Gone}
          /\ w.mode = "upd"
          /\ pc[r] = "read" => w.absent = "fail"
          /\ pc[r] = "upserted" => w.absent = "insert" /\ w.row # Gone
      BY <1>0, <2>3, RowsApart DEF Fits, Referring
    <3>2. CASE Exists(w.row)
      <4>1. w.row # Gone /\ "upd" \in Takes(w)
        BY <3>1, <3>2, RowsExist DEF Takes
      <4> QED
        BY <1>0, <3>1, <4>1, AcquiredEffect
    <3>3. CASE ~ Exists(w.row)
      <4>1. w.absent = "insert" /\ "del" \in Takes(w) /\ w.row # Gone
        BY <2>3, <3>1, <3>3 DEF Takes, Acquired
      <4> QED
        BY <1>0, <3>1, <4>1, AcquiredEffect
    <3> QED
      BY <3>2, <3>3
  <2>4. pc[r] \in {"upserted", "deleted", "read", "joined"} => want'[r] = <<>>
    BY <2>1 DEF Progress
  <2>5. \/ pc[r] \in {"invited", "joined", "accepted"}
        \/ pc[r] \in {"upserted", "read"}
        => \/ Holds(r, InvitationRow(req[r].account, req[r].target), "upd")'
           \/ Holds(r, InvitationRow(req[r].account, req[r].target), "del")'
    BY <1>0, <2>2, <2>3 DEF Progress
  <2> QED
    BY <1>0, <2>4, <2>5 DEF Progress, HoldsInvitation
<1>4. Updating(r)'
  <2>1. ASSUME NEW m \in DOMAIN want'[r], NEW n \in DOMAIN want'[r],
               m < n, want'[r][m].mode = "nku"
        PROVE  want'[r][n].row \in {AccountRow(a) : a \in accounts}
    <3>1. /\ m + 1 \in DOMAIN want[r] /\ want'[r][m] = want[r][m + 1]
          /\ n + 1 \in DOMAIN want[r] /\ want'[r][n] = want[r][n + 1]
      BY DEF Acquired
    <3>2. m \in Nat /\ n \in Nat
      BY <1>1, WantTyped DEF Acquired
    <3> QED
      BY <2>1, <3>1, <3>2 DEF Updating
  <2>2. ASSUME NEW h \in locks'[r], h.mode = "nku", NEW x \in Wanted(r)'
        PROVE  x.row \in {AccountRow(a) : a \in accounts}
    <3>1. CASE h \in locks[r]
      BY <2>2, <3>1, AcquiredEffect DEF Updating
    <3>2. CASE h \notin locks[r]
      <4>1. w.mode = "nku"
        BY <2>2, <3>2, AcquiredEffect DEF Takes
      <4>2. PICK n \in DOMAIN want'[r] : x = want'[r][n]
        BY <2>2 DEF Wanted
      <4>3. n \in Nat /\ n > 0
        BY <1>1, <4>2 DEF Acquired
      <4>4. /\ n + 1 \in DOMAIN want[r] /\ x = want[r][n + 1]
            /\ 1 \in DOMAIN want[r] /\ w = want[r][1] /\ 1 < n + 1
        BY <4>2, <4>3 DEF Acquired
      <4> QED
        BY <4>1, <4>4 DEF Updating
    <3> QED
      BY <3>1, <3>2
  <2> QED
    BY <1>0, <2>1, <2>2 DEF Updating, dbVars
<1> QED
  BY <1>1, <1>2, <1>3, <1>4

LEMMA AcquiredPresent ==
    ASSUME Typed, Sharing!TypeOK, NEW r \in Requests, NEW w \in Entry,
           Acquired(r, w), Shape(r), Present(r), Ranked(r)
    PROVE  Present(r)' /\ Ranked(r)'
<1> DEFINE a == req[r].account
<1>0. /\ req' = req /\ pc' = pc /\ UNCHANGED dbVars
      /\ Fits(r, w) /\ w \in Wanted(r) /\ (Manages(r)' <=> Manages(r))
  BY AcquiredEffect DEF Shape, Manages
<1>1. Manages(r) => Taken(r)' \subseteq Sharing!Members(a)'
  BY <1>0, AcquiredTaken DEF Present, dbVars, Sharing!Members
<1>2. ASSUME pc[r] \in {"joined", "accepted"}, Joined(r)'
      PROVE  role[a][req[r].actor] = NoRole
  <2>1. CASE Joined(r)
    BY <1>2, <2>1 DEF Present
  <2>2. CASE ~ Joined(r)
    <3>1. w.row = MemberRow(a, req[r].actor) /\ "del" \in Takes(w)
      BY <1>0, <1>2, <2>2, AcquiredEffect DEF Joined
    <3>2. ~ Exists(w.row)
      BY <1>0, <3>1, MemberAwaited DEF Takes
    <3> QED
      BY <3>1, <3>2, RowsExist
  <2> QED
    BY <2>1, <2>2
<1>3. Present(r)'
  BY <1>0, <1>1, <1>2 DEF Present, dbVars
<1>4. ASSUME Manages(r), NEW u \in Users, NEW v \in Users,
             Holds(r, MemberRow(a, u), "upd")', Awaits(r, MemberRow(a, v))'
      PROVE  <<u, v>> \in older[a]
  <2>1. Awaits(r, MemberRow(a, v))
    BY <1>0, <1>4, AcquiredEffect
  <2>2. CASE Holds(r, MemberRow(a, u), "upd")
    BY <1>4, <2>1, <2>2 DEF Ranked
  <2>3. CASE ~ Holds(r, MemberRow(a, u), "upd")
    <3>1. w.row = MemberRow(a, u)
      BY <1>0, <1>4, <2>3, AcquiredEffect
    <3>2. PICK n \in DOMAIN want'[r] : want'[r][n].row = MemberRow(a, v)
      BY <1>0, <1>4 DEF Awaits, Wanted
    <3>3. n \in Nat /\ n > 0
      BY <3>2 DEF Acquired
    <3>4. /\ n + 1 \in DOMAIN want[r] /\ want[r][n + 1].row = MemberRow(a, v)
          /\ 1 \in DOMAIN want[r] /\ want[r][1].row = MemberRow(a, u) /\ 1 < n + 1
      BY <3>1, <3>2, <3>3 DEF Acquired
    <3> QED
      BY <1>4, <3>4 DEF Ranked
  <2> QED
    BY <2>2, <2>3
<1>5. ASSUME Manages(r), NEW u \in Users, NEW v \in Users,
             NEW m \in DOMAIN want'[r], NEW n \in DOMAIN want'[r], m < n,
             want'[r][m].row = MemberRow(a, u),
             want'[r][n].row = MemberRow(a, v)
      PROVE  <<u, v>> \in older[a]
  <2>1. /\ m + 1 \in DOMAIN want[r] /\ want'[r][m] = want[r][m + 1]
        /\ n + 1 \in DOMAIN want[r] /\ want'[r][n] = want[r][n + 1]
    BY DEF Acquired
  <2>2. m \in Nat /\ n \in Nat
    BY DEF Acquired
  <2> QED
    BY <1>5, <2>1, <2>2 DEF Ranked
<1>6. Ranked(r)'
  BY <1>0, <1>4, <1>5 DEF Ranked, dbVars
<1> QED
  BY <1>3, <1>6

LEMMA AcquiredChecked ==
    ASSUME Typed, Sharing!TypeOK, NEW r \in Requests, NEW w \in Entry,
           Acquired(r, w), Shape(r), Present(r), Progress(r), Checked(r),
           Withdraws(r)
    PROVE  Checked(r)' /\ Withdraws(r)'
<1> DEFINE a == req[r].account
<1>0. /\ req' = req /\ pc' = pc /\ UNCHANGED dbVars
      /\ Fits(r, w) /\ w \in Wanted(r)
  BY AcquiredEffect DEF Shape
<1>1. ASSUME Manages(r), pc[r] # "locked"
      PROVE  /\ LockedOwners(r)' = LockedOwners(r)
             /\ \A u : MemberRole(r, u)' = MemberRole(r, u)
  <2>1. Locked(r)' = Locked(r)
    BY <1>1, AcquiredTaken
  <2>2. \A u : MemberRole(r, u)' = MemberRole(r, u)
    BY <1>0, <2>1 DEF MemberRole, dbVars
  <2> QED
    BY <2>1, <2>2 DEF LockedOwners
<1>2. ASSUME \/ pc[r] \in {"upserted", "invited"}
             \/ pc[r] = "deleted" /\ req[r].kind = "cancel"
      PROVE  req[r].actor \in LockedOwners(r)'
  <2>1. Manages(r) /\ pc[r] # "locked"
    BY <1>2 DEF Manages, Managing, MemberKinds, Shape, Requested, Idle
  <2> QED
    BY <1>1, <1>2, <2>1 DEF Checked
<1>3. ASSUME pc[r] = "withdrawn" PROVE UpdateChecked(r)'
  <2>1. Manages(r) /\ pc[r] # "locked" /\ UpdateChecked(r)
    BY <1>3 DEF Manages, Managing, MemberKinds, Shape, Requested, Checked
  <2> QED
    BY <1>0, <1>1, <2>1 DEF UpdateChecked
<1>4. pc[r] \in {"joined", "accepted"} => OpenInvitation(r)'
  BY <1>0 DEF Checked, OpenInvitation, InvitationsOf, dbVars
<1>5. Joined(r) => Joined(r)'
  BY <1>0, AcquiredEffect DEF Joined
<1>6. req[r].actor \in Sharing!Members(a) => req[r].actor \in Sharing!Members(a)'
  BY <1>0 DEF dbVars, Sharing!Members
<1>7. ASSUME pc[r] = "joined"
      PROVE  Joined(r)' \/ req[r].actor \in Sharing!Members(a)'
  <2>1. /\ w.row = MemberRow(a, req[r].actor) /\ w.mode = "join"
        /\ w.absent = "insert"
    BY <1>0, <1>7 DEF Fits, Referring
  <2>2. CASE Exists(w.row)
    <3>1. role[a][req[r].actor] # NoRole
      BY <2>1, <2>2, RowsExist
    <3>2. a \in Accounts /\ req[r].actor \in Users
      BY <1>7, ManagesAccount, DataTyped
    <3> QED
      BY <1>6, <3>1, <3>2, MembersAre
  <2>3. CASE ~ Exists(w.row)
    BY <1>0, <2>1, <2>3, AcquiredEffect DEF Takes, Joined
  <2> QED
    BY <2>2, <2>3
<1>8. Checked(r)'
  BY <1>0, <1>2, <1>3, <1>4, <1>5, <1>6, <1>7 DEF Checked
<1>9. ASSUME pc[r] = "withdrawn", NEW i \in invitations
      PROVE  Holds(r, InvitationRow(i.account, i.email), "upd")
               \/ Awaits(r, InvitationRow(i.account, i.email))
             <=> Holds(r, InvitationRow(i.account, i.email), "upd")'
               \/ Awaits(r, InvitationRow(i.account, i.email))'
  <2>0. w.mode = "upd" /\ w.absent = "skip"
    BY <1>0, <1>9 DEF Fits, Referring
  <2>1. CASE w.row = InvitationRow(i.account, i.email)
    <3>1. Exists(w.row)
      BY <2>1, RowsExist DEF InvitationsOf
    <3>2. \A row : row = w.row => Holds(r, row, "upd")' /\ Awaits(r, row)
      BY <1>0, <2>0, <3>1, AcquiredEffect DEF Takes, Awaits
    <3> QED
      BY <1>0, <2>1, <3>2 DEF dbVars
  <2>2. CASE w.row # InvitationRow(i.account, i.email)
    BY <1>0, <2>0, <2>2, AcquiredEffect
  <2> QED
    BY <2>1, <2>2
<1>10. Withdraws(r)'
  BY <1>0, <1>9 DEF Withdraws, Sharing!Withdrawn, dbVars
<1> QED
  BY <1>8, <1>10

LEMMA AcquiredApart ==
    ASSUME Typed, Sharing!TypeOK, NEW r \in Requests, NEW q \in Requests \ {r},
           NEW w \in Entry, Acquired(r, w), Shape(r), Present(r),
           Shape(q), Present(q), Compatible(q, r), Nested(q, r)
    PROVE  Compatible(q, r)' /\ Nested(q, r)'
<1>0. /\ req' = req /\ pc' = pc /\ UNCHANGED dbVars
      /\ locks'[q] = locks[q] /\ want'[q] = want[q] /\ Fits(r, w)
  BY AcquiredEffect DEF Acquired, Shape
<1>1. ASSUME NEW k \in locks[q], k.row = w.row, NEW m \in Takes(w)
      PROVE  m \in Shared /\ k.mode \in Shared
  <2>1. ~ Conflict(w.mode, k.mode)
    <3>1. q \notin Blockers(r) /\ want[r] # <<>> /\ w = Head(want[r])
      BY WantTyped DEF Acquired
    <3> QED
      BY <1>1, <3>1 DEF Blockers
  <2>2. CASE m = w.mode /\ w.mode # "join"
    BY <2>1, <2>2 DEF Conflict, Shared
  <2>3. CASE m = "del" /\ ~ Exists(w.row) /\ w.absent = "insert"
    <3>1. CASE w.mode = "upd"
      BY <2>1, <3>1 DEF Conflict
    <3>2. CASE w.mode # "upd"
      <4>1. /\ w.row = MemberRow(req[r].account, req[r].actor) /\ w.mode = "join"
            /\ pc[r] = "joined"
        BY <1>0, <2>3, <3>2 DEF Fits
      <4>2. k.mode # "del"
        BY <2>1, <4>1 DEF Conflict
      <4>3. k \in Lock /\ k = [row |-> k.row, mode |-> k.mode]
        BY DEF Typed, Lock
      <4>4. Holds(q, MemberRow(req[r].account, req[r].actor), k.mode)
        BY <1>1, <4>1, <4>3 DEF Holds
      <4>5. k.mode = "upd" /\ Manages(q) /\ req[r].account = req[q].account
        BY <4>2, <4>4, MemberHeld DEF Shape
      <4>6. req[r].actor \in Users /\ req[r].account \in Accounts
        BY <4>1, ManagesAccount, DataTyped
      <4>7. req[r].actor \in Taken(q)
        BY <4>4, <4>5, <4>6 DEF Taken
      <4>8. role[req[r].account][req[r].actor] # NoRole
        BY <4>5, <4>6, <4>7, MembersAre DEF Present
      <4> QED
        BY <2>3, <4>1, <4>8, RowsExist
    <3> QED
      BY <3>1, <3>2
  <2> QED
    BY <1>1, <2>2, <2>3 DEF Takes
<1>2. Compatible(q, r)'
  BY <1>0, <1>1, AcquiredEffect DEF Compatible
<1>3. Nested(q, r)'
  <2>1. (Manages(q)' <=> Manages(q)) /\ (Manages(r)' <=> Manages(r))
    BY <1>0 DEF Manages
  <2>2. Taken(q)' = Taken(q)
    BY <1>0, <2>1 DEF Taken, Holds, Awaits, Wanted
  <2>3. Manages(r) => Taken(r)' = Taken(r)
    BY AcquiredTaken
  <2> QED
    BY <1>0, <2>1, <2>2, <2>3 DEF Nested
<1> QED
  BY <1>2, <1>3

LEMMA AcquireKeepsInv ==
    ASSUME Inv, NEW r \in Requests, Acquire(r)
    PROVE  Inv'
<1>0. Typed /\ Data /\ Sharing!TypeOK
  BY DEF Inv, Data
<1>1. CASE Rollback(r)
  BY <1>1, RollbackKeepsInv
<1>2. ASSUME NEW w \in Entry, Acquired(r, w) PROVE Inv'
  <2>1. Own(r) /\ \A q \in Requests \ {r} : Own(q) /\ Compatible(q, r) /\ Nested(q, r)
    BY DEF Inv, Pairs
  <2>2. Typed' /\ Shape(r)' /\ Progress(r)' /\ Updating(r)'
    BY <1>0, <1>2, <2>1, AcquiredShape DEF Own
  <2>3. Own(r)'
    BY <1>0, <1>2, <2>1, <2>2, AcquiredPresent, AcquiredChecked DEF Own
  <2>4. Frame(r) /\ Data'
    <3>1. UNCHANGED dbVars /\ req' = req /\ pc' = pc
      BY <1>0, <1>2, AcquiredEffect
    <3>2. \A q \in Requests \ {r} : locks'[q] = locks[q] /\ want'[q] = want[q]
      BY <1>0, <1>2, AcquiredEffect DEF Acquired
    <3> QED
      BY <1>0, <3>1, <3>2, UnchangedFrame, DataUnchanged
  <2>5. \A q \in Requests \ {r} : Compatible(q, r)' /\ Nested(q, r)'
    BY <1>0, <1>2, <2>1, AcquiredApart DEF Own
  <2> QED
    BY <2>2, <2>3, <2>4, <2>5, StepKeepsInv
<1> QED
  BY <1>0, <1>1, <1>2, AcquireCases

-----------------------------------------------------------------------------
(* Statements.                                                             *)

LEMMA StatementStep ==
    ASSUME Inv, NEW r \in Requests,
           want[r] = <<>>, req' = req, UNCHANGED <<locks, left, dbVars>>,
           NEW next \in Statements \ {"locked"}, pc' = [pc EXCEPT ![r] = next],
           NEW rows \in Seq(Entry), want' = [want EXCEPT ![r] = rows],
           Shape(r)', Progress(r)', Updating(r)', Checked(r)', Withdraws(r)',
           Manages(r)' => Manages(r)
    PROVE  Inv'
<1> DEFINE a == req[r].account
<1>0. Typed /\ Data /\ Sharing!TypeOK /\ Own(r)
  BY DEF Inv, Data
<1>1. pc'[r] = next /\ Wanted(r) = {}
  BY <1>0 DEF Typed, Wanted
<1>2. ASSUME Manages(r)' PROVE \A u : ~ Awaits(r, MemberRow(a, u))'
  <2> SUFFICES ASSUME NEW u, NEW w \in Wanted(r)', w.row = MemberRow(a, u)
               PROVE  FALSE
    BY DEF Awaits
  <2>1. Fits(r, w)'
    BY DEF Shape
  <2> QED
    BY <1>1, <1>2, <2>1, RowsApart
       DEF Fits, MemberRows, InvitationRows, Manages, Managing
<1>3. Manages(r)' => Taken(r)' = Taken(r)
  BY <1>1, <1>2 DEF Taken, Holds, Awaits
<1>4. Present(r)'
  <2>1. Manages(r)' => Taken(r)' \subseteq Sharing!Members(a)'
    BY <1>0, <1>3 DEF Own, Present, dbVars, Sharing!Members
  <2>2. ASSUME pc'[r] \in {"joined", "accepted"}, Joined(r)'
        PROVE  role[a][req[r].actor] = NoRole
    <3>1. Joined(r)
      BY <2>2 DEF Joined, Holds
    <3>2. pc[r] \in {"joined", "accepted"}
      BY <1>0, <3>1, MemberHeld DEF Joined, Own, Shape
    <3> QED
      BY <1>0, <3>1, <3>2 DEF Own, Present
  <2> QED
    BY <2>1, <2>2 DEF Present, dbVars
<1>5. Ranked(r)'
  <2> SUFFICES ASSUME Manages(r)' PROVE Ranked(r)'
    BY DEF Ranked
  <2>1. \A n \in DOMAIN want'[r], v \in Users : want'[r][n].row # MemberRow(a, v)
    BY <1>2 DEF Awaits, Wanted
  <2> QED
    BY <1>2, <2>1 DEF Ranked
<1> QED
  BY <1>0, <1>3, <1>4, <1>5, StatementKeepsInv DEF Own

LEMMA ManagerStays ==
    ASSUME Typed, NEW r \in Requests, Shape(r), req' = req, UNCHANGED <<locks, dbVars>>,
           Manages(r), Manages(r)',
           ~ \E e : HoldsInvitation(r, req[r].account, e),
           pc[r] \notin Referring
    PROVE  \A h \in locks'[r] : MayHold(r, h)'
<1>1. ASSUME NEW h \in locks[r], MayHold(r, h)
      PROVE  h.row \in MemberRows(req[r].account) /\ h.mode = "upd"
  <2>1. h = [row |-> h.row, mode |-> h.mode]
    BY DEF Typed, Lock
  <2>2. \A e : h.row = InvitationRow(req[r].account, e) => h.mode \notin {"upd", "del"}
    BY <2>1 DEF HoldsInvitation, Holds
  <2> QED
    BY <1>1, <2>2 DEF MayHold, InvitationRows, Manages, Managing
<1> QED
  BY <1>1 DEF Shape, MayHold, Manages

LEMMA Concatenated ==
    ASSUME NEW s \in Seq(Entry), NEW t \in Seq(Entry)
    PROVE  /\ s \o t \in Seq(Entry)
           /\ \A n \in DOMAIN (s \o t) :
                 \/ n \in DOMAIN s /\ (s \o t)[n] = s[n]
                 \/ \E m \in DOMAIN t : n = Len(s) + m /\ (s \o t)[n] = t[m]
<1>1. /\ s \o t \in Seq(Entry) /\ Len(s \o t) = Len(s) + Len(t)
      /\ Len(s) \in Nat /\ Len(t) \in Nat
      /\ DOMAIN s = 1 .. Len(s) /\ DOMAIN t = 1 .. Len(t)
      /\ DOMAIN (s \o t) = 1 .. (Len(s) + Len(t))
  OBVIOUS
<1>2. ASSUME NEW n \in DOMAIN (s \o t), n \notin DOMAIN s
      PROVE  \E m \in DOMAIN t : n = Len(s) + m /\ (s \o t)[n] = t[m]
  <2>1. n - Len(s) \in DOMAIN t /\ n = Len(s) + (n - Len(s))
    BY <1>1, <1>2
  <2>2. (s \o t)[n] = t[n - Len(s)]
    BY <1>1, <1>2
  <2> QED
    BY <2>1, <2>2
<1>3. \A n \in DOMAIN s : (s \o t)[n] = s[n]
  OBVIOUS
<1> QED
  BY <1>1, <1>2, <1>3

LEMMA OneEntry ==
    ASSUME NEW x \in Entry
    PROVE  /\ <<x>> \in Seq(Entry) /\ Len(<<x>>) = 1
           /\ \A n \in DOMAIN <<x>> : n = 1 /\ <<x>>[n] = x
OBVIOUS

LEMMA NoEntry == <<>> \in Seq(Entry) /\ Len(<<>>) = 0 /\ DOMAIN <<>> = {}
OBVIOUS

LEMMA ConstantRows ==
    ASSUME NEW u \in Users, NEW absent \in {"nothing", "fail"}
    PROVE  /\ \A mode \in {"key", "nku"} : Row(UserRow(u), mode, absent) \in Entry
           /\ \A a \in Accounts :
                 /\ Row(AccountRow(a), "key", "fail") \in Entry
                 /\ Row(InvitationRow(a, u), "upd", "insert") \in Entry
                 /\ Row(InvitationRow(a, u), "upd", "fail") \in Entry
                 /\ Row(InvitationRow(a, u), "upd", "skip") \in Entry
                 /\ Row(MemberRow(a, u), "upd", "skip") \in Entry
                 /\ Row(MemberRow(a, u), "join", "insert") \in Entry
<1>1. /\ UserRow(u) \in TableRows
      /\ \A a \in Accounts : /\ AccountRow(a) \in TableRows
                             /\ InvitationRow(a, u) \in TableRows
                             /\ MemberRow(a, u) \in TableRows
  BY DEF TableRows, MemberRows, InvitationRows
<1> QED
  BY <1>1 DEF Row, Entry, Modes

LEMMA PointToRows ==
    ASSUME NEW u \in Users, NEW a \in Accounts \cup {Other},
           NEW absent \in {"nothing", "fail"}
    PROVE  /\ PointTo(u, a, absent) \in Seq(Entry)
           /\ \A n \in DOMAIN PointTo(u, a, absent) :
                 \/ /\ n = 1
                    /\ PointTo(u, a, absent)[n] = Row(UserRow(u), "nku", absent)
                 \/ /\ n = 2 /\ a \in Accounts
                    /\ PointTo(u, a, absent)[n] = Row(AccountRow(a), "key", "fail")
<1> DEFINE s == <<Row(UserRow(u), "nku", absent)>>
           t == IF a \in Accounts THEN <<Row(AccountRow(a), "key", "fail")>> ELSE <<>>
<1>1. /\ s \in Seq(Entry) /\ Len(s) = 1
      /\ \A n \in DOMAIN s : n = 1 /\ s[n] = Row(UserRow(u), "nku", absent)
  BY ConstantRows, OneEntry
<1>2. /\ t \in Seq(Entry)
      /\ \A m \in DOMAIN t : /\ m = 1 /\ a \in Accounts
                             /\ t[m] = Row(AccountRow(a), "key", "fail")
  <2>1. CASE a \in Accounts
    BY <2>1, ConstantRows, OneEntry
  <2>2. CASE a \notin Accounts
    BY <2>2, NoEntry
  <2> QED
    BY <2>1, <2>2
<1>3. PointTo(u, a, absent) = s \o t
  BY DEF PointTo
<1> HIDE DEF s, t
<1> QED
  BY <1>1, <1>2, <1>3, Concatenated

(* The first statement of a transaction.                                   *)
LEMMA FirstStep ==
    ASSUME Inv, NEW r \in Requests, pc[r] \in Idle,
           req' = req, UNCHANGED <<locks, left, dbVars>>,
           NEW next \in {"moved", "selecting", "created", "deleted", "read"},
           pc' = [pc EXCEPT ![r] = next],
           NEW rows \in Seq(Entry), want' = [want EXCEPT ![r] = rows],
           next \in {"deleted", "read"} => Len(rows) = 1,
           next = "deleted" => req[r].kind = "decline",
           Requested(r)',
           \A n \in DOMAIN rows : Fits(r, rows[n])',
           \A m, n \in DOMAIN rows : m < n =>
              rows[n].row \in {AccountRow(a) : a \in accounts}
    PROVE  Inv'
<1>0. Typed /\ Own(r) /\ want[r] = <<>> /\ locks[r] = {}
  BY DEF Inv, Own, Shape
<1>1. /\ pc'[r] = next /\ want'[r] = rows /\ locks'[r] = {}
      /\ accounts' = accounts
  BY <1>0 DEF Typed, dbVars
<1>2. \A w \in Wanted(r)' : \E n \in DOMAIN rows : w = rows[n]
  BY <1>1 DEF Wanted
<1>3. /\ next \in Statements \ {"locked"} /\ next \notin Idle
      /\ next \notin {"upserted", "invited", "withdrawn", "joined", "accepted"}
      /\ next \in Managing => next = "deleted"
  BY DEF Statements, Idle, Referring, Managing
<1>4. Shape(r)'
  BY <1>1, <1>2, <1>3 DEF Shape
<1>5. Progress(r)'
  <2>1. next \in {"deleted", "read"} => rows # <<>> /\ Len(rows) <= 1
    BY NoEntry
  <2> QED
    BY <1>1, <1>3, <2>1 DEF Progress
<1>6. Updating(r)'
  BY <1>1 DEF Updating
<1>7. Checked(r)' /\ Withdraws(r)'
  BY <1>1, <1>3 DEF Checked, Withdraws
<1>8. Manages(r)' => Manages(r)
  BY <1>1, <1>3 DEF Manages, MemberKinds
<1> QED
  BY <1>0, <1>1, <1>3, <1>4, <1>5, <1>6, <1>7, <1>8, StatementStep

LEMMA StatementEffect ==
    ASSUME Typed, NEW r \in Requests, NEW here, NEW rows, NEW next,
           Statement(r, here, rows, next), UNCHANGED <<locks, left, dbVars>>
    PROVE  /\ pc[r] = here /\ want[r] = <<>> /\ req' = req
           /\ pc' = [pc EXCEPT ![r] = next] /\ want' = [want EXCEPT ![r] = rows]
           /\ pc'[r] = next /\ want'[r] = rows /\ locks'[r] = locks[r]
           /\ users' = users /\ accounts' = accounts /\ role' = role
           /\ older' = older /\ invitations' = invitations
BY DEF Statement, Typed, dbVars

LEMMA PointKeepsInv ==
    ASSUME Inv, NEW r \in Requests, NEW a \in accounts \cup {Other},
           NEW absent \in {"nothing", "fail"},
           NEW here \in {"move", "select"}, NEW next \in {"moved", "selecting"},
           Statement(r, here, PointTo(req[r].actor, a, absent), next),
           next = "selecting" => req[r].kind = "select" /\ req[r].account \in accounts,
           UNCHANGED <<locks, left, dbVars>>
    PROVE  Inv'
<1>0. Typed /\ Own(r) /\ Data
  BY DEF Inv
<1> DEFINE u == req[r].actor
<1>1. PICK rows : rows = PointTo(u, a, absent)
  OBVIOUS
<1>2. Statement(r, here, rows, next)
  BY <1>1
<1>3. /\ pc[r] = here /\ want[r] = <<>> /\ req' = req
      /\ pc' = [pc EXCEPT ![r] = next] /\ want' = [want EXCEPT ![r] = rows]
      /\ pc'[r] = next /\ users' = users /\ accounts' = accounts
  BY <1>0, <1>2, StatementEffect
<1>4. Requested(r) /\ pc[r] \in Idle
  BY <1>0, <1>3 DEF Own, Shape, Idle
<1>5. u \in Users /\ a \in Accounts \cup {Other}
  BY <1>0, <1>4, DataTyped DEF Requested, Data
<1>6. /\ rows \in Seq(Entry)
      /\ \A n \in DOMAIN rows :
            \/ n = 1 /\ rows[n] = Row(UserRow(u), "nku", absent)
            \/ n = 2 /\ a \in Accounts /\ rows[n] = Row(AccountRow(a), "key", "fail")
  BY <1>1, <1>5, PointToRows
<1>7. Requested(r)'
  BY <1>3, <1>4 DEF Requested
<1>8. \A n \in DOMAIN rows : Fits(r, rows[n])'
  <2> SUFFICES ASSUME NEW n \in DOMAIN rows PROVE Fits(r, rows[n])'
    OBVIOUS
  <2>1. pc'[r] \in Referring /\ req'[r].actor = u
    BY <1>3 DEF Referring
  <2>2. a \in Accounts => a \in accounts
    BY OtherAssumption
  <2>3. CASE rows[n] = Row(UserRow(u), "nku", absent)
    BY <2>1, <2>3 DEF Fits, Row
  <2>4. CASE a \in Accounts /\ rows[n] = Row(AccountRow(a), "key", "fail")
    BY <1>3, <2>1, <2>2, <2>4 DEF Fits, Row
  <2> QED
    BY <1>6, <2>3, <2>4
<1>9. \A m, n \in DOMAIN rows : m < n =>
         rows[n].row \in {AccountRow(b) : b \in accounts}
  BY <1>6, OtherAssumption DEF Row
<1> QED
  BY <1>3, <1>4, <1>6, <1>7, <1>8, <1>9, FirstStep

LEMMA SelectCurrentAccountKeepsInv ==
    ASSUME Inv, NEW r \in Requests, SelectCurrentAccount(r)
    PROVE  Inv'
<1>1. pc[r] = "move" /\ Own(r)
  BY DEF Inv, SelectCurrentAccount, Statement
<1>2. req[r].base \in accounts \cup {Other}
  BY <1>1 DEF Own, Shape, Requested
<1> QED
  BY <1>2, PointKeepsInv DEF SelectCurrentAccount

LEMMA SelectAccountKeepsInv ==
    ASSUME Inv, NEW r \in Requests, SelectAccount(r)
    PROVE  Inv'
<1>1. CASE Sharing!MayUse(req[r].actor, req[r].account)
  <2>1. pc[r] = "select" /\ Own(r)
    BY DEF Inv, SelectAccount, At
  <2>2. /\ req[r].kind = "select"
        /\ req[r].account \in accounts \cup {Other} /\ req[r].account \in Accounts
    BY <1>1, <2>1 DEF Own, Shape, Requested, Sharing!MayUse
  <2>3. req[r].account \in accounts
    BY <2>2, OtherAssumption
  <2> QED
    BY <1>1, <2>2, <2>3, PointKeepsInv DEF SelectAccount
<1>2. CASE ~ Sharing!MayUse(req[r].actor, req[r].account)
  BY <1>2, RollbackKeepsInv DEF SelectAccount
<1> QED
  BY <1>1, <1>2

LEMMA CreateAccountKeepsInv ==
    ASSUME Inv, NEW r \in Requests, CreateAccount(r)
    PROVE  Inv'
<1>0. Typed /\ Own(r)
  BY DEF Inv
<1> DEFINE u == req[r].actor
<1>1. PICK rows : rows = <<Row(UserRow(u), "key", "fail")>>
  OBVIOUS
<1>2. Statement(r, "create", rows, "created") /\ UNCHANGED <<locks, left, dbVars>>
  BY <1>1 DEF CreateAccount
<1>3. /\ pc[r] = "create" /\ want[r] = <<>> /\ req' = req
      /\ pc' = [pc EXCEPT ![r] = "created"] /\ want' = [want EXCEPT ![r] = rows]
      /\ pc'[r] = "created" /\ users' = users /\ accounts' = accounts
  BY <1>0, <1>2, StatementEffect
<1>4. Requested(r) /\ pc[r] \in Idle
  BY <1>0, <1>3 DEF Own, Shape, Idle
<1>5. /\ rows \in Seq(Entry) /\ Len(rows) = 1
      /\ \A n \in DOMAIN rows : n = 1 /\ rows[n] = Row(UserRow(u), "key", "fail")
  <2>1. u \in Users
    BY <1>4 DEF Requested, Request
  <2> QED
    BY <1>1, <2>1, ConstantRows, OneEntry
<1>6. Requested(r)'
  BY <1>3, <1>4 DEF Requested
<1>7. \A n \in DOMAIN rows : Fits(r, rows[n])'
  BY <1>3, <1>5 DEF Fits, Row, Referring
<1>8. \A m, n \in DOMAIN rows : m < n =>
         rows[n].row \in {AccountRow(a) : a \in accounts}
  BY <1>5
<1> QED
  BY <1>2, <1>3, <1>4, <1>5, <1>6, <1>7, <1>8, FirstStep

LEMMA InvitationKeepsInv ==
    ASSUME Inv, NEW r \in Requests,
           NEW here \in {"accept", "decline"}, NEW next \in {"read", "deleted"},
           here = "accept" <=> next = "read",
           Statement(r, here,
              <<Row(InvitationRow(req[r].account, req[r].target), "upd", "fail")>>,
              next),
           UNCHANGED <<locks, left, dbVars>>
    PROVE  Inv'
<1>0. Typed /\ Own(r) /\ Data
  BY DEF Inv
<1> DEFINE a == req[r].account
           e == req[r].target
<1>1. PICK rows : rows = <<Row(InvitationRow(a, e), "upd", "fail")>>
  OBVIOUS
<1>2. Statement(r, here, rows, next)
  BY <1>1
<1>3. /\ pc[r] = here /\ want[r] = <<>> /\ req' = req
      /\ pc' = [pc EXCEPT ![r] = next] /\ want' = [want EXCEPT ![r] = rows]
      /\ pc'[r] = next /\ users' = users /\ accounts' = accounts
  BY <1>0, <1>2, StatementEffect
<1>4. Requested(r) /\ pc[r] \in Idle
  BY <1>0, <1>3 DEF Own, Shape, Idle
<1>5. /\ req[r].kind = here /\ a \in accounts /\ e \in Users
  BY <1>3, <1>4 DEF Requested, Request
<1>6. /\ rows \in Seq(Entry) /\ Len(rows) = 1
      /\ \A n \in DOMAIN rows :
            n = 1 /\ rows[n] = Row(InvitationRow(a, e), "upd", "fail")
  <2>1. a \in Accounts
    BY <1>0, <1>5, DataTyped DEF Data
  <2> QED
    BY <1>1, <1>5, <2>1, ConstantRows, OneEntry
<1>7. Requested(r)'
  BY <1>3, <1>4, <1>5 DEF Requested
<1>8. \A n \in DOMAIN rows : Fits(r, rows[n])'
  <2> SUFFICES ASSUME NEW n \in DOMAIN rows PROVE Fits(r, rows[n])'
    OBVIOUS
  <2>1. /\ rows[n].row = InvitationRow(a, e)
        /\ rows[n].mode = "upd" /\ rows[n].absent = "fail"
    BY <1>6 DEF Row
  <2>2. req'[r] = req[r]
    BY <1>3
  <2> QED
    BY <1>3, <2>1, <2>2 DEF Fits
<1>9. \A m, n \in DOMAIN rows : m < n =>
         rows[n].row \in {AccountRow(b) : b \in accounts}
  BY <1>6
<1> QED
  BY <1>3, <1>4, <1>5, <1>6, <1>7, <1>8, <1>9, FirstStep

LEMMA DeclineInvitationKeepsInv ==
    ASSUME Inv, NEW r \in Requests, DeclineInvitation(r)
    PROVE  Inv'
<1>1. CASE InvitationsOf(req[r].account, req[r].target) = {}
  BY <1>1, RollbackKeepsInv DEF DeclineInvitation, DeleteOne
<1>2. CASE InvitationsOf(req[r].account, req[r].target) # {}
  BY <1>2, InvitationKeepsInv DEF DeclineInvitation, DeleteOne
<1> QED
  BY <1>1, <1>2

LEMMA AcceptInvitationKeepsInv ==
    ASSUME Inv, NEW r \in Requests, AcceptInvitation(r)
    PROVE  Inv'
<1>1. CASE ~ OpenInvitation(r)
  BY <1>1, RollbackKeepsInv DEF AcceptInvitation
<1>2. CASE OpenInvitation(r)
  <2>1. pc[r] = "accept" /\ Own(r)
    BY DEF Inv, AcceptInvitation, At
  <2>2. req[r].target = req[r].actor
    BY <2>1 DEF Own, Shape, Requested
  <2> QED
    BY <1>2, <2>2, InvitationKeepsInv DEF AcceptInvitation
<1> QED
  BY <1>1, <1>2

(* A statement of a request that has locked members.                       *)
LEMMA ManagerStep ==
    ASSUME Inv, NEW r \in Requests, pc[r] = "locked",
           req' = req, UNCHANGED <<locks, left, dbVars>>,
           NEW next \in {"upserted", "deleted", "withdrawn"},
           pc' = [pc EXCEPT ![r] = next],
           NEW rows \in Seq(Entry), want[r] = <<>>,
           want' = [want EXCEPT ![r] = rows],
           next # "withdrawn" => Len(rows) = 1,
           next = "upserted" => req[r].kind = "invite",
           next = "deleted" => req[r].kind = "cancel",
           next = "withdrawn" => req[r].kind \in {"role", "remove"},
           \A n \in DOMAIN rows : Fits(r, rows[n])',
           next # "withdrawn" => req[r].actor \in LockedOwners(r),
           next = "withdrawn" => UpdateChecked(r),
           Withdraws(r)'
    PROVE  Inv'
<1>0. Typed /\ Own(r) /\ Requested(r) /\ req[r].kind \in MemberKinds
  BY DEF Inv, Own, Shape, Requested
<1>1. /\ pc'[r] = next /\ want'[r] = rows /\ locks'[r] = locks[r]
      /\ accounts' = accounts /\ users' = users /\ role' = role
  BY <1>0 DEF Typed, dbVars
<1>2. \A w \in Wanted(r)' : \E n \in DOMAIN rows : w = rows[n]
  BY <1>1 DEF Wanted
<1>3. /\ next \in Statements \ {"locked"} /\ next \notin Idle /\ next \in Managing
      /\ next \notin {"invited", "joined", "accepted", "read"}
      /\ pc[r] \in Managing /\ pc[r] \notin Referring
  BY DEF Statements, Idle, Referring, Managing
<1>4. Manages(r) /\ Manages(r)'
  BY <1>0, <1>1, <1>3 DEF Manages
<1>5. \A h \in locks[r] : h.mode # "nku" /\ MayHold(r, h)'
  <2> SUFFICES ASSUME NEW h \in locks[r] PROVE h.mode # "nku" /\ MayHold(r, h)'
    OBVIOUS
  <2>1. MayHold(r, h)
    BY <1>0 DEF Own, Shape
  <2>2. h.row \in MemberRows(req[r].account) /\ h.mode = "upd"
    BY <1>3, <2>1 DEF MayHold
  <2> QED
    BY <1>4, <2>2 DEF MayHold, Manages
<1>6. Requested(r)'
  BY <1>0, <1>1, <1>3 DEF Requested
<1>7. Shape(r)'
  BY <1>1, <1>2, <1>3, <1>5, <1>6 DEF Shape
<1>8. Progress(r)'
  <2>0. Len(rows) = 1 => rows # <<>> /\ Len(rows) <= 1
    BY ONLY NoEntry
  <2>1. next # "withdrawn" => rows # <<>> /\ Len(rows) <= 1
    BY <2>0
  <2> QED
    BY <1>1, <1>3, <2>1 DEF Progress
<1>9. Updating(r)'
  <2>1. ASSUME NEW n \in DOMAIN rows PROVE rows[n].mode # "nku"
    <3>1. Fits(r, rows[n])'
      OBVIOUS
    <3> QED
      BY <1>1, <3>1 DEF Fits, Referring
  <2> QED
    BY <1>1, <1>5, <2>1 DEF Updating
<1>10. Checked(r)'
  <2>1. /\ LockedOwners(r)' = LockedOwners(r)
        /\ \A u : MemberRole(r, u)' = MemberRole(r, u)
    BY <1>1 DEF LockedOwners, MemberRole, Locked, Holds
  <2>2. next = "withdrawn" => UpdateChecked(r)'
    BY <2>1 DEF UpdateChecked
  <2> QED
    BY <1>1, <1>3, <2>1, <2>2 DEF Checked
<1> QED
  BY <1>3, <1>4, <1>7, <1>8, <1>9, <1>10, StatementStep

LEMMA UpsertInvitationKeepsInv ==
    ASSUME Inv, NEW r \in Requests, UpsertInvitation(r)
    PROVE  Inv'
<1>0. Typed /\ Own(r) /\ Data
  BY DEF Inv
<1> DEFINE a == req[r].account
           e == req[r].target
<1>1. PICK rows : rows = <<Row(InvitationRow(a, e), "upd", "insert")>>
  OBVIOUS
<1>2. /\ Statement(r, "locked", rows, "upserted") /\ UNCHANGED <<locks, left, dbVars>>
      /\ req[r].kind = "invite" /\ req[r].actor \in LockedOwners(r)
  BY <1>1 DEF UpsertInvitation, InviteChecked
<1>3. /\ pc[r] = "locked" /\ want[r] = <<>> /\ req' = req
      /\ pc' = [pc EXCEPT ![r] = "upserted"] /\ want' = [want EXCEPT ![r] = rows]
      /\ pc'[r] = "upserted"
  BY <1>0, <1>2, StatementEffect
<1>4. Requested(r)
  BY <1>0, <1>3 DEF Own, Shape
<1>5. /\ rows \in Seq(Entry) /\ Len(rows) = 1
      /\ \A n \in DOMAIN rows :
            n = 1 /\ rows[n] = Row(InvitationRow(a, e), "upd", "insert")
  <2>1. a \in Accounts /\ e \in Users
    BY <1>0, <1>2, <1>4, DataTyped DEF Requested, Request, Data, MemberKinds
  <2> QED
    BY <1>1, <2>1, ConstantRows, OneEntry
<1>6. \A n \in DOMAIN rows : Fits(r, rows[n])'
  <2> SUFFICES ASSUME NEW n \in DOMAIN rows PROVE Fits(r, rows[n])'
    OBVIOUS
  <2>1. /\ rows[n].row = InvitationRow(a, e)
        /\ rows[n].mode = "upd" /\ rows[n].absent = "insert"
    BY <1>5 DEF Row
  <2>2. req'[r] = req[r]
    BY <1>3
  <2> QED
    BY <1>3, <2>1, <2>2 DEF Fits
<1>7. Withdraws(r)'
  BY <1>3 DEF Withdraws
<1> QED
  BY <1>2, <1>3, <1>5, <1>6, <1>7, ManagerStep

LEMMA CancelInvitationKeepsInv ==
    ASSUME Inv, NEW r \in Requests, CancelInvitation(r)
    PROVE  Inv'
<1>0. Typed /\ Own(r) /\ Data
  BY DEF Inv
<1> DEFINE a == req[r].account
           e == req[r].target
<1>1. CASE Rollback(r)
  BY <1>1, RollbackKeepsInv
<1>2. CASE ~ Rollback(r)
  <2>1. PICK rows : rows = <<Row(InvitationRow(a, e), "upd", "fail")>>
    OBVIOUS
  <2>2. /\ Statement(r, "locked", rows, "deleted") /\ UNCHANGED <<locks, left, dbVars>>
        /\ req[r].kind = "cancel" /\ req[r].actor \in LockedOwners(r)
    BY <1>2, <2>1 DEF CancelInvitation, DeleteOne
  <2>3. /\ pc[r] = "locked" /\ want[r] = <<>> /\ req' = req
        /\ pc' = [pc EXCEPT ![r] = "deleted"] /\ want' = [want EXCEPT ![r] = rows]
        /\ pc'[r] = "deleted"
    BY <1>0, <2>2, StatementEffect
  <2>4. Requested(r)
    BY <1>0, <2>3 DEF Own, Shape
  <2>5. /\ rows \in Seq(Entry) /\ Len(rows) = 1
        /\ \A n \in DOMAIN rows :
              n = 1 /\ rows[n] = Row(InvitationRow(a, e), "upd", "fail")
    <3>1. a \in Accounts /\ e \in Users
      BY <1>0, <2>2, <2>4, DataTyped DEF Requested, Request, Data, MemberKinds
    <3> QED
      BY <2>1, <3>1, ConstantRows, OneEntry
  <2>6. \A n \in DOMAIN rows : Fits(r, rows[n])'
    <3> SUFFICES ASSUME NEW n \in DOMAIN rows PROVE Fits(r, rows[n])'
      OBVIOUS
    <3>1. /\ rows[n].row = InvitationRow(a, e)
          /\ rows[n].mode = "upd" /\ rows[n].absent = "fail"
      BY <2>5 DEF Row
    <3>2. req'[r] = req[r]
      BY <2>3
    <3> QED
      BY <2>3, <3>1, <3>2 DEF Fits
  <2>7. Withdraws(r)'
    BY <2>3 DEF Withdraws
  <2> QED
    BY <2>2, <2>3, <2>5, <2>6, <2>7, ManagerStep
<1> QED
  BY <1>1, <1>2

LEMMA AnyOrderOf ==
    ASSUME NEW rows, IsFiniteSet(rows), NEW s \in SetToSeqs(rows)
    PROVE  /\ s \in Seq(rows)
           /\ \A x : x \in rows <=> \E n \in DOMAIN s : s[n] = x
           /\ \A m, n \in DOMAIN s : s[m] = s[n] => m = n
<1> DEFINE D == 1 .. Cardinality(rows)
<1>1. Cardinality(rows) \in Nat
  BY FS_CardinalityType
<1>2. s \in [D -> rows] /\ (\A i, j \in D : i # j => s[i] # s[j])
  BY DEF SetToSeqs
<1>3. s \in Injection(D, rows)
  BY <1>2 DEF Injection, IsInjective
<1>4. Cardinality(D) = Cardinality(rows)
  BY <1>1, FS_Interval
<1>5. s \in Surjection(D, rows)
  <2> HIDE DEF D
  <2> QED
    BY <1>3, <1>4, FS_Injection
<1>6. \A x \in rows : \E n \in D : s[n] = x
  BY <1>5 DEF Surjection
<1>7. s \in Seq(rows)
  BY <1>1, <1>2
<1> QED
  BY <1>2, <1>6, <1>7

LEMMA WithdrawInvitationsKeepsInv ==
    ASSUME Inv, NEW r \in Requests, WithdrawInvitations(r)
    PROVE  Inv'
<1>0. Typed /\ Own(r) /\ Data
  BY DEF Inv
<1> DEFINE a == req[r].account
           gone == Sharing!Withdrawn(a, req[r].target, req[r].newRole)
           Entries == {Row(InvitationRow(i.account, i.email), "upd", "skip") : i \in gone}
<1>1. PICK rows \in SetToSeqs(Entries) : Statement(r, "locked", rows, "withdrawn")
  BY DEF WithdrawInvitations, AnyOrder
<1>2. /\ UNCHANGED <<locks, left, dbVars>>
      /\ req[r].kind \in {"role", "remove"} /\ UpdateChecked(r)
  BY DEF WithdrawInvitations
<1>3. /\ pc[r] = "locked" /\ want[r] = <<>> /\ req' = req
      /\ pc' = [pc EXCEPT ![r] = "withdrawn"] /\ want' = [want EXCEPT ![r] = rows]
      /\ pc'[r] = "withdrawn" /\ want'[r] = rows /\ locks'[r] = locks[r]
      /\ invitations' = invitations /\ role' = role
  BY <1>0, <1>1, <1>2, StatementEffect
<1>4. /\ gone \subseteq invitations
      /\ \A i \in gone : i.account = a /\ i.account \in Accounts /\ i.email \in Users
  BY <1>0, DataTyped DEF Sharing!Withdrawn, Data, Sharing!Invitation
<1>5. IsFiniteSet(Entries)
  <2> DEFINE E == {i.email : i \in gone}
             f == [e \in E |-> Row(InvitationRow(a, e), "upd", "skip")]
  <2>1. IsFiniteSet(E)
    <3>1. E \in SUBSET Users
      BY <1>4
    <3> QED
      BY <3>1, UsersAssumption, FS_Subset
  <2>2. f \in Surjection(E, Entries)
    BY <1>4 DEF Surjection
  <2> HIDE DEF E, f, Entries
  <2> QED
    BY <2>1, <2>2, FS_Surjection
<1>6. Entries \subseteq Entry
  BY <1>4, ConstantRows
<1>7. /\ rows \in Seq(Entry)
      /\ \A x : x \in Entries <=> \E n \in DOMAIN rows : rows[n] = x
  <2> HIDE DEF Entries
  <2>1. /\ rows \in Seq(Entries)
        /\ \A x : x \in Entries <=> \E n \in DOMAIN rows : rows[n] = x
    BY <1>5, AnyOrderOf
  <2> QED
    BY <1>6, <2>1
<1>8. \A n \in DOMAIN rows : Fits(r, rows[n])'
  <2> SUFFICES ASSUME NEW n \in DOMAIN rows PROVE Fits(r, rows[n])'
    OBVIOUS
  <2>1. PICK i \in gone : rows[n] = Row(InvitationRow(i.account, i.email), "upd", "skip")
    BY <1>7
  <2>2. rows[n].row \in InvitationRows(a)
    BY <1>4, <2>1 DEF InvitationRows, Row
  <2>3. req'[r] = req[r] /\ rows[n].mode = "upd" /\ rows[n].absent = "skip"
    BY <1>3, <2>1 DEF Row
  <2> QED
    BY <1>3, <2>2, <2>3 DEF Fits
<1>9. Withdraws(r)'
  <2> SUFFICES ASSUME NEW i \in invitations
               PROVE  i \in gone <=>
                        \/ Holds(r, InvitationRow(i.account, i.email), "upd")'
                        \/ Awaits(r, InvitationRow(i.account, i.email))'
    BY <1>3 DEF Withdraws, Sharing!Withdrawn
  <2>1. ~ Holds(r, InvitationRow(i.account, i.email), "upd")'
    <3>1. ~ Holds(r, InvitationRow(i.account, i.email), "upd")
      BY <1>0, <1>3, InvitationHeld DEF Own, Shape
    <3> QED
      BY <1>3, <3>1 DEF Holds
  <2>2. ASSUME i \in gone PROVE Awaits(r, InvitationRow(i.account, i.email))'
    <3>1. Row(InvitationRow(i.account, i.email), "upd", "skip") \in Entries
      BY <2>2
    <3>2. PICK n \in DOMAIN rows :
            rows[n] = Row(InvitationRow(i.account, i.email), "upd", "skip")
      BY <1>7, <3>1
    <3>3. rows[n].row = InvitationRow(i.account, i.email) /\ rows[n] \in Wanted(r)'
      BY <1>3, <3>2 DEF Row, Wanted
    <3> QED
      BY <3>3 DEF Awaits
  <2>3. ASSUME Awaits(r, InvitationRow(i.account, i.email))' PROVE i \in gone
    <3>1. PICK n \in DOMAIN rows : rows[n].row = InvitationRow(i.account, i.email)
      BY <1>3, <2>3 DEF Awaits, Wanted
    <3>2. PICK j \in gone : rows[n] = Row(InvitationRow(j.account, j.email), "upd", "skip")
      BY <1>7
    <3>3. i.account = j.account /\ i.email = j.email
      BY <3>1, <3>2, RowsApart DEF Row
    <3> QED
      BY <1>0, <1>4, <3>2, <3>3 DEF Data
  <2> QED
    BY <2>1, <2>2, <2>3
<1> QED
  BY <1>2, <1>3, <1>7, <1>8, <1>9, ManagerStep

LEMMA CheckInvitationKeepsInv ==
    ASSUME Inv, NEW r \in Requests, CheckInvitation(r)
    PROVE  Inv'
<1>0. Typed /\ Own(r) /\ Data
  BY DEF Inv
<1> DEFINE a == req[r].account
           u == req[r].actor
           A == Row(AccountRow(a), "key", "fail")
           U == Row(UserRow(u), "key", "fail")
           s(inserted) == IF inserted THEN <<A>> ELSE <<>>
           t(written) == IF written THEN <<U>> ELSE <<>>
<1>a. PICK inserted, written \in BOOLEAN :
         Statement(r, "upserted", s(inserted) \o t(written), "invited")
  <2> DEFINE i == Holds(r, InvitationRow(a, req[r].target), "del")
             w == i \/ \E j \in InvitationsOf(a, req[r].target) : j.by # u
  <2>1. Statement(r, "upserted", s(i) \o t(w), "invited")
    BY DEF CheckInvitation
  <2>2. i \in BOOLEAN /\ w \in BOOLEAN
    BY DEF Holds
  <2> HIDE DEF i, w, s, t
  <2> QED
    BY <2>1, <2>2
<1>b. PICK rows : rows = s(inserted) \o t(written)
  OBVIOUS
<1>1. Statement(r, "upserted", rows, "invited")
  <2> HIDE DEF s, t
  <2> QED
    BY <1>a, <1>b
<1>2. UNCHANGED <<locks, left, dbVars>>
  BY DEF CheckInvitation
<1>3. /\ pc[r] = "upserted" /\ want[r] = <<>> /\ req' = req
      /\ pc' = [pc EXCEPT ![r] = "invited"] /\ want' = [want EXCEPT ![r] = rows]
      /\ pc'[r] = "invited" /\ want'[r] = rows /\ locks'[r] = locks[r]
      /\ role' = role /\ accounts' = accounts /\ users' = users
  BY <1>0, <1>1, <1>2, StatementEffect
<1>4. Requested(r) /\ req[r].kind = "invite"
  BY <1>0, <1>3 DEF Own, Shape, Requested
<1>5. a \in accounts /\ a \in Accounts /\ u \in Users
  BY <1>0, <1>4, DataTyped DEF Requested, Request, Data, MemberKinds
<1>6. rows \in Seq(Entry) /\ (\A n \in DOMAIN rows : rows[n] \in {A, U})
  <2>1. /\ s(inserted) \in Seq(Entry)
        /\ \A n \in DOMAIN s(inserted) : s(inserted)[n] = A
    BY <1>5, ConstantRows, OneEntry, NoEntry
  <2>2. /\ t(written) \in Seq(Entry)
        /\ \A n \in DOMAIN t(written) : t(written)[n] = U
    BY <1>5, ConstantRows, OneEntry, NoEntry
  <2> HIDE DEF s, t, A, U
  <2> QED
    BY <1>b, <2>1, <2>2, Concatenated
<1>7. Manages(r) /\ Manages(r)'
  BY <1>3, <1>4 DEF Manages, Managing, MemberKinds
<1>8. \A h \in locks[r] : h.mode # "nku" /\ MayHold(r, h)'
  <2> SUFFICES ASSUME NEW h \in locks[r] PROVE h.mode # "nku" /\ MayHold(r, h)'
    OBVIOUS
  <2>1. MayHold(r, h)
    BY <1>0 DEF Own, Shape
  <2>2. \/ h.row \in MemberRows(a) /\ h.mode = "upd"
        \/ h.row = InvitationRow(a, req[r].target) /\ h.mode \in {"upd", "del"}
    BY <1>3, <2>1 DEF MayHold, Referring
  <2>3. req'[r] = req[r]
    BY <1>3
  <2> QED
    BY <1>3, <1>7, <2>2, <2>3 DEF MayHold, Manages
<1>9. Shape(r)'
  <2>1. Requested(r)'
    BY <1>3, <1>4 DEF Requested
  <2>2. ASSUME NEW w \in Wanted(r)' PROVE Fits(r, w)'
    <3>1. w \in {A, U}
      BY <1>3, <1>6, <2>2 DEF Wanted
    <3> QED
      BY <1>3, <1>5, <3>1 DEF Fits, Row, Referring
  <2> QED
    BY <1>3, <1>8, <2>1, <2>2 DEF Shape, Idle
<1>10. Progress(r)'
  <2>1. HoldsInvitation(r, a, req[r].target)
    BY <1>0, <1>3 DEF Own, Progress
  <2> QED
    BY <1>3, <2>1 DEF Progress, HoldsInvitation, Holds
<1>11. Updating(r)'
  BY <1>3, <1>6, <1>8 DEF Updating, Row
<1>12. Checked(r)' /\ Withdraws(r)'
  <2>1. LockedOwners(r)' = LockedOwners(r)
    BY <1>3 DEF LockedOwners, MemberRole, Locked, Holds
  <2>2. u \in LockedOwners(r)
    BY <1>0, <1>3 DEF Own, Checked
  <2> QED
    BY <1>3, <2>1, <2>2 DEF Checked, Withdraws
<1>13. "invited" \in Statements \ {"locked"}
  BY DEF Statements, Referring
<1> QED
  BY <1>2, <1>3, <1>6, <1>7, <1>9, <1>10, <1>11, <1>12, <1>13, StatementStep

LEMMA JoinKeepsInv ==
    ASSUME Inv, NEW r \in Requests, Join(r)
    PROVE  Inv'
<1>0. Typed /\ Own(r) /\ Data
  BY DEF Inv
<1> DEFINE a == req[r].account
           u == req[r].actor
<1>1. CASE ~ OpenInvitation(r)
  BY <1>1, RollbackKeepsInv DEF Join
<1>2. CASE OpenInvitation(r)
  <2>1. PICK rows : rows = <<Row(MemberRow(a, u), "join", "insert")>>
    OBVIOUS
  <2>2. Statement(r, "read", rows, "joined") /\ UNCHANGED <<locks, left, dbVars>>
    BY <1>2, <2>1 DEF Join
  <2>3. /\ pc[r] = "read" /\ want[r] = <<>> /\ req' = req
        /\ pc' = [pc EXCEPT ![r] = "joined"] /\ want' = [want EXCEPT ![r] = rows]
        /\ pc'[r] = "joined" /\ want'[r] = rows /\ locks'[r] = locks[r]
        /\ invitations' = invitations /\ accounts' = accounts /\ users' = users
    BY <1>0, <2>2, StatementEffect
  <2>4. Requested(r) /\ req[r].kind = "accept"
    BY <1>0, <2>3 DEF Own, Shape, Idle, Requested
  <2>5. a \in accounts /\ a \in Accounts /\ u \in Users /\ req[r].target = u
    BY <1>0, <2>4, DataTyped DEF Requested, Request, Data
  <2>6. /\ rows \in Seq(Entry) /\ Len(rows) = 1
        /\ \A n \in DOMAIN rows :
              n = 1 /\ rows[n] = Row(MemberRow(a, u), "join", "insert")
    BY <2>1, <2>5, ConstantRows, OneEntry
  <2>7. \A h \in locks[r] : h.mode # "nku" /\ MayHold(r, h)'
    <3> SUFFICES ASSUME NEW h \in locks[r] PROVE h.mode # "nku" /\ MayHold(r, h)'
      OBVIOUS
    <3>1. MayHold(r, h)
      BY <1>0 DEF Own, Shape
    <3>2. h.row = InvitationRow(a, req[r].target) /\ h.mode = "upd"
      BY <2>3, <3>1 DEF MayHold, Referring, Managing
    <3>3. req'[r] = req[r]
      BY <2>3
    <3> QED
      BY <2>3, <3>2, <3>3 DEF MayHold
  <2>8. Shape(r)'
    <3>1. Requested(r)'
      BY <2>3, <2>4 DEF Requested
    <3>2. ASSUME NEW w \in Wanted(r)' PROVE Fits(r, w)'
      <4>1. /\ w.row = MemberRow(a, u)
            /\ w.mode = "join" /\ w.absent = "insert"
        BY <2>3, <2>6, <3>2 DEF Wanted, Row
      <4>2. req'[r] = req[r]
        BY <2>3
      <4> QED
        BY <2>3, <4>1, <4>2 DEF Fits
    <3> QED
      BY <2>3, <2>7, <3>1, <3>2 DEF Shape, Idle
  <2>9. Progress(r)'
    <3>0. Len(rows) = 1 => Len(rows) <= 1
      BY ONLY NoEntry
    <3>1. HoldsInvitation(r, a, req[r].target)
      BY <1>0, <2>3 DEF Own, Progress
    <3> QED
      BY <2>3, <2>6, <3>0, <3>1 DEF Progress, HoldsInvitation, Holds
  <2>10. Updating(r)'
    BY <2>3, <2>6, <2>7 DEF Updating, Row
  <2>11. Checked(r)' /\ Withdraws(r)'
    <3>0. Len(rows) = 1 => rows # <<>>
      BY ONLY NoEntry
    <3>1. OpenInvitation(r)'
      BY <1>2, <2>3 DEF OpenInvitation, InvitationsOf
    <3> QED
      BY <2>3, <2>6, <3>0, <3>1 DEF Checked, Withdraws
  <2>12. "joined" \in Statements \ {"locked"} /\ ~ Manages(r)'
    BY <2>3 DEF Statements, Manages, Managing
  <2> QED
    BY <2>2, <2>3, <2>6, <2>8, <2>9, <2>10, <2>11, <2>12, StatementStep
<1> QED
  BY <1>1, <1>2

LEMMA SelectJoinedKeepsInv ==
    ASSUME Inv, NEW r \in Requests, SelectJoined(r)
    PROVE  Inv'
<1>0. Typed /\ Own(r) /\ Data
  BY DEF Inv
<1> DEFINE a == req[r].account
           u == req[r].actor
           A == Row(AccountRow(a), "key", "fail")
           U == Row(UserRow(u), "key", "fail")
           s == IF Joined(r) THEN <<A, U>> ELSE <<>>
           t == PointTo(u, a, "fail")
<1>1. PICK rows : rows = s \o t
  OBVIOUS
<1>2. Statement(r, "joined", rows, "accepted") /\ UNCHANGED <<locks, left, dbVars>>
  BY <1>1 DEF SelectJoined
<1>3. /\ pc[r] = "joined" /\ want[r] = <<>> /\ req' = req
      /\ pc' = [pc EXCEPT ![r] = "accepted"] /\ want' = [want EXCEPT ![r] = rows]
      /\ pc'[r] = "accepted" /\ want'[r] = rows /\ locks'[r] = locks[r]
      /\ role' = role /\ invitations' = invitations
      /\ accounts' = accounts /\ users' = users
  BY <1>0, <1>2, StatementEffect
<1>4. Requested(r) /\ req[r].kind = "accept"
  BY <1>0, <1>3 DEF Own, Shape, Idle, Requested
<1>5. a \in accounts /\ a \in Accounts /\ u \in Users /\ req[r].target = u
  BY <1>0, <1>4, DataTyped DEF Requested, Request, Data
<1>6. /\ s \in Seq(Entry) /\ DOMAIN s = 1 .. Len(s) /\ Len(s) \in Nat
      /\ \A n \in DOMAIN s : s[n] \in {A, U}
  <2>1. A \in Entry /\ U \in Entry
    BY <1>5, ConstantRows
  <2>2. /\ <<A, U>> \in Seq(Entry) /\ Len(<<A, U>>) = 2 /\ DOMAIN <<A, U>> = 1 .. 2
        /\ <<A, U>>[1] = A /\ <<A, U>>[2] = U
    <3> HIDE DEF A, U
    <3> QED
      BY <2>1
  <2>3. CASE Joined(r)
    <3>1. s = <<A, U>>
      BY <2>3
    <3>2. \A n \in 1 .. 2 : n = 1 \/ n = 2
      OBVIOUS
    <3> HIDE DEF s, A, U
    <3> QED
      BY <2>2, <3>1, <3>2
  <2>4. CASE ~ Joined(r)
    BY <2>4
  <2> QED
    BY <2>3, <2>4
<1>7. /\ t \in Seq(Entry) /\ DOMAIN t = 1 .. Len(t) /\ Len(t) \in Nat
      /\ \A n \in DOMAIN t :
            \/ n = 1 /\ t[n] = Row(UserRow(u), "nku", "fail")
            \/ n = 2 /\ t[n] = A
  <2> HIDE DEF t
  <2>1. /\ t \in Seq(Entry)
        /\ \A n \in DOMAIN t :
              \/ n = 1 /\ t[n] = Row(UserRow(u), "nku", "fail")
              \/ n = 2 /\ t[n] = A
    BY <1>5, PointToRows DEF t
  <2> QED
    BY <2>1
<1>8. /\ rows \in Seq(Entry)
      /\ \A n \in DOMAIN rows :
           \/ n \in DOMAIN s /\ rows[n] \in {A, U}
           \/ n = Len(s) + 1 /\ rows[n] = Row(UserRow(u), "nku", "fail")
           \/ n = Len(s) + 2 /\ rows[n] = A
  <2> HIDE DEF s, t, A, U
  <2> QED
    BY <1>1, <1>6, <1>7, Concatenated
<1>9. \A m, n \in DOMAIN rows :
         m < n /\ rows[m].mode = "nku" => rows[n].row = AccountRow(a)
  <2> SUFFICES ASSUME NEW m \in DOMAIN rows, NEW n \in DOMAIN rows,
                      m < n, rows[m].mode = "nku"
               PROVE  rows[n] = A
    BY DEF Row
  <2>1. rows[m] \notin {A, U}
    BY DEF Row
  <2> HIDE DEF s, A, U
  <2>2. m >= Len(s) + 1 /\ n \notin 1 .. Len(s)
    BY <1>6, <1>8, <2>1
  <2> QED
    BY <1>6, <1>8, <2>2
<1>10. \A h \in locks[r] : h.mode # "nku" /\ MayHold(r, h)'
  <2> SUFFICES ASSUME NEW h \in locks[r] PROVE h.mode # "nku" /\ MayHold(r, h)'
    OBVIOUS
  <2>1. MayHold(r, h)
    BY <1>0 DEF Own, Shape
  <2>2. \/ h.row = InvitationRow(a, req[r].target) /\ h.mode = "upd"
        \/ h.row = MemberRow(a, u) /\ h.mode = "del"
    BY <1>3, <2>1 DEF MayHold, Referring, Managing
  <2>3. req'[r] = req[r]
    BY <1>3
  <2> QED
    BY <1>3, <2>2, <2>3 DEF MayHold
<1>11. Shape(r)'
  <2>1. Requested(r)'
    BY <1>3, <1>4 DEF Requested
  <2>2. ASSUME NEW w \in Wanted(r)' PROVE Fits(r, w)'
    <3>1. w \in {A, U, Row(UserRow(u), "nku", "fail")}
      <4> HIDE DEF s, A, U
      <4> QED
        BY <1>3, <1>8, <2>2 DEF Wanted
    <3>2. req'[r] = req[r]
      BY <1>3
    <3> QED
      BY <1>3, <1>5, <3>1, <3>2 DEF Fits, Row, Referring
  <2> QED
    BY <1>3, <1>10, <2>1, <2>2 DEF Shape, Idle
<1>12. Progress(r)'
  <2>1. HoldsInvitation(r, a, req[r].target)
    BY <1>0, <1>3 DEF Own, Progress
  <2> QED
    BY <1>3, <2>1 DEF Progress, HoldsInvitation, Holds
<1>13. Updating(r)'
  <2>1. a \in accounts' /\ want'[r] = rows /\ locks'[r] = locks[r]
    BY <1>3, <1>5
  <2> HIDE DEF s, A, U
  <2> QED
    BY <1>9, <1>10, <2>1 DEF Updating
<1>14. Checked(r)' /\ Withdraws(r)'
  <2>1. OpenInvitation(r) /\ (Joined(r) \/ u \in Sharing!Members(a))
    BY <1>0, <1>3 DEF Own, Checked
  <2>2. OpenInvitation(r)' /\ (Joined(r) => Joined(r)')
        /\ Sharing!Members(a)' = Sharing!Members(a)
    BY <1>3, <2>1 DEF OpenInvitation, InvitationsOf, Joined, Holds, Sharing!Members
  <2> QED
    BY <1>3, <2>1, <2>2 DEF Checked, Withdraws
<1>15. "accepted" \in Statements \ {"locked"} /\ ~ Manages(r)'
  BY <1>3 DEF Statements, Manages, Managing, Referring
<1> HIDE DEF s, A, U
<1> QED
  BY <1>2, <1>3, <1>8, <1>11, <1>12, <1>13, <1>14, <1>15, StatementStep

LEMMA LockMembersKeepsInv ==
    ASSUME Inv, NEW r \in Requests, LockMembers(r)
    PROVE  Inv'
<1>0. Typed /\ Own(r) /\ Data /\ Sharing!TypeOK
  BY DEF Inv, Data
<1> DEFINE a == req[r].account
<1>1. PICK s \in SetToSeqs(Sharing!Members(a)) :
        /\ Seniority(a, s)
        /\ Statement(r, "lockMembers",
              [n \in DOMAIN s |-> Row(MemberRow(a, s[n]), "upd", "skip")], "locked")
  BY DEF LockMembers, MembersLock
<1>2. PICK rows : rows = [n \in DOMAIN s |-> Row(MemberRow(a, s[n]), "upd", "skip")]
  OBVIOUS
<1>3. /\ Statement(r, "lockMembers", rows, "locked")
      /\ UNCHANGED <<locks, left, dbVars>>
  BY <1>1, <1>2 DEF LockMembers
<1>4. /\ pc[r] = "lockMembers" /\ want[r] = <<>> /\ req' = req
      /\ pc' = [pc EXCEPT ![r] = "locked"] /\ want' = [want EXCEPT ![r] = rows]
      /\ pc'[r] = "locked" /\ want'[r] = rows /\ locks'[r] = locks[r]
      /\ role' = role /\ older' = older /\ accounts' = accounts /\ users' = users
  BY <1>0, <1>3, StatementEffect
<1>5. Requested(r) /\ req[r].kind \in MemberKinds /\ locks[r] = {}
  BY <1>0, <1>4 DEF Own, Shape, Idle, Requested
<1>6. a \in accounts /\ a \in Accounts
  BY <1>0, <1>5, DataTyped DEF Requested
<1>7. /\ s \in Seq(Sharing!Members(a))
      /\ \A x : x \in Sharing!Members(a) <=> \E n \in DOMAIN s : s[n] = x
  <2>1. IsFiniteSet(Sharing!Members(a))
    BY MembersAre, UsersAssumption, FS_Subset
  <2> QED
    BY <2>1, AnyOrderOf
<1>8. /\ rows \in Seq(Entry) /\ DOMAIN rows = DOMAIN s
      /\ \A n \in DOMAIN s : rows[n] = Row(MemberRow(a, s[n]), "upd", "skip")
  <2>1. \A n \in DOMAIN s : s[n] \in Users
    BY <1>7, MembersAre
  <2>2. \A n \in DOMAIN s : Row(MemberRow(a, s[n]), "upd", "skip") \in Entry
    BY <1>6, <2>1, ConstantRows
  <2>3. DOMAIN s = 1 .. Len(s) /\ Len(s) \in Nat
    BY <1>7
  <2> QED
    BY <1>2, <2>2, <2>3
<1>9. Wanted(r)' = {Row(MemberRow(a, s[n]), "upd", "skip") : n \in DOMAIN s}
  BY <1>4, <1>8 DEF Wanted
<1>10. Manages(r)' /\ Taken(r)' = Sharing!Members(a)
  <2>1. Manages(r)'
    BY <1>4, <1>5 DEF Manages, Managing
  <2>2. \A u : Awaits(r, MemberRow(a, u))' <=> u \in Sharing!Members(a)
    <3>1. \A w \in Wanted(r)' : \E n \in DOMAIN s : w.row = MemberRow(a, s[n])
      BY <1>9 DEF Row
    <3>2. ASSUME NEW n \in DOMAIN s
          PROVE  \E w \in Wanted(r)' : w.row = MemberRow(a, s[n])
      <4>1. Row(MemberRow(a, s[n]), "upd", "skip") \in Wanted(r)'
        BY <1>9
      <4>2. Row(MemberRow(a, s[n]), "upd", "skip").row = MemberRow(a, s[n])
        BY DEF Row
      <4> QED
        BY <4>1, <4>2
    <3>3. \A row : Awaits(r, row)' <=> \E n \in DOMAIN s : row = MemberRow(a, s[n])
      BY <3>1, <3>2 DEF Awaits
    <3>4. \A u : (\E n \in DOMAIN s : MemberRow(a, u) = MemberRow(a, s[n]))
                   <=> u \in Sharing!Members(a)
      BY <1>7, RowsApart
    <3>5. \A u : Awaits(r, MemberRow(req[r].account, u))' <=>
                   \E n \in DOMAIN s : MemberRow(a, u) = MemberRow(a, s[n])
      BY <1>4, <3>3
    <3> QED
      BY <3>4, <3>5
  <2>3. \A u : ~ Holds(r, MemberRow(a, u), "upd")'
    BY <1>4, <1>5 DEF Holds
  <2>4. Taken(r)' = {u \in Users : u \in Sharing!Members(a)}
    BY <1>4, <2>1, <2>2, <2>3 DEF Taken
  <2> QED
    BY <2>1, <2>4, MembersAre
<1>11. Shape(r)'
  <2>1. Requested(r)'
    BY <1>4, <1>5 DEF Requested
  <2>2. ASSUME NEW w \in Wanted(r)' PROVE Fits(r, w)'
    <3>1. PICK n \in DOMAIN s : w = Row(MemberRow(a, s[n]), "upd", "skip")
      BY <1>9, <2>2
    <3>2. s[n] \in Users
      BY <1>7, MembersAre
    <3>3. w.row \in MemberRows(a) /\ w.mode = "upd" /\ w.absent = "skip"
      BY <3>1, <3>2 DEF MemberRows, Row
    <3>4. req'[r] = req[r]
      BY <1>4
    <3> QED
      BY <1>4, <3>3, <3>4 DEF Fits
  <2> QED
    BY <1>4, <1>5, <2>1, <2>2 DEF Shape, Idle
<1>12. Progress(r)' /\ Checked(r)' /\ Withdraws(r)'
  BY <1>4 DEF Progress, Checked, Withdraws
<1>13. Updating(r)'
  BY <1>4, <1>5, <1>8 DEF Updating, Row
<1>14. Present(r)'
  <2>1. Sharing!Members(a)' = Sharing!Members(a)
    BY <1>4 DEF Sharing!Members
  <2> QED
    BY <1>4, <1>10, <2>1 DEF Present
<1>15. Ranked(r)'
  <2>1. ASSUME NEW m \in DOMAIN rows, NEW n \in DOMAIN rows, m < n,
               NEW u, NEW v, rows[m].row = MemberRow(a, u),
               rows[n].row = MemberRow(a, v)
        PROVE  <<u, v>> \in older[a]
    <3>1. s[m] = u /\ s[n] = v
      BY <1>8, <2>1, RowsApart DEF Row
    <3> QED
      BY <1>1, <1>8, <2>1, <3>1 DEF Seniority
  <2> QED
    BY <1>4, <1>5, <2>1 DEF Ranked, Holds
<1>16. Typed' /\ Data' /\ Frame(r)
  <2>1. "locked" \in Statements
    BY DEF Statements, Managing
  <2>2. Typed'
    BY <1>0, <1>3, <1>4, <1>8, <2>1 DEF Typed
  <2> QED
    BY <1>0, <1>3, <1>4, <2>2, DataUnchanged, UnchangedFrame DEF Typed
<1>17. ASSUME NEW q \in Requests \ {r} PROVE Compatible(q, r)' /\ Nested(q, r)'
  <2>1. Compatible(q, r)'
    BY <1>4, <1>5 DEF Compatible
  <2>2. pc'[q] = pc[q] /\ want'[q] = want[q] /\ locks'[q] = locks[q]
    BY <1>0, <1>3, <1>4 DEF Typed
  <2>3. (Manages(q)' <=> Manages(q)) /\ Taken(q)' = Taken(q)
    BY <1>4, <2>2 DEF Manages, Taken, Holds, Awaits, Wanted
  <2>4. Own(q)
    BY DEF Inv
  <2>5. Manages(q) /\ req[q].account = a => Taken(q) \subseteq Sharing!Members(a)
    BY <2>4 DEF Own, Present
  <2> QED
    BY <1>4, <1>10, <2>1, <2>3, <2>5 DEF Nested
<1> QED
  BY <1>11, <1>12, <1>13, <1>14, <1>15, <1>16, <1>17, StepKeepsInv DEF Own

-----------------------------------------------------------------------------
(* Begin, and the account a request moves its user to.                     *)

LEMMA FirstStatements ==
    /\ \A k \in MemberKinds : FirstStatement(k) = "lockMembers"
    /\ FirstStatement("accept") = "accept"
    /\ FirstStatement("decline") = "decline"
    /\ FirstStatement("select") = "select"
    /\ FirstStatement("create") = "create"
    /\ \A k \in Kinds \ {"delete"} :
          k \in MemberKinds \cup {"accept", "decline", "select", "create"}
<1>1. \A k \in MemberKinds : FirstStatement(k) = "lockMembers"
  BY DEF FirstStatement, MemberKinds
<1>2. /\ FirstStatement("accept") = "accept"
      /\ FirstStatement("decline") = "decline"
      /\ FirstStatement("select") = "select"
      /\ FirstStatement("create") = "create"
  BY DEF FirstStatement, MemberKinds
<1>3. \A k \in Kinds \ {"delete"} :
          k \in MemberKinds \cup {"accept", "decline", "select", "create"}
  BY DEF Kinds
<1> QED
  BY <1>1, <1>2, <1>3

(* The first statement of a handler fits its kind.                         *)
LEMMA FirstRequested ==
    ASSUME NEW q, q.kind \in Kinds \ {"delete"},
           NEW p, p = "move" \/ p = FirstStatement(q.kind)
    PROVE  /\ p \in Idle /\ p \notin {"new", "done"}
           /\ p = "lockMembers" => q.kind \in MemberKinds
           /\ p = "accept" => q.kind = "accept"
           /\ p = "decline" => q.kind = "decline"
           /\ p = "select" => q.kind = "select"
           /\ p \notin {"locked", "upserted", "invited", "deleted", "withdrawn",
                        "read", "joined", "accepted", "selecting"}
<1>1. CASE p = "move"
  BY <1>1 DEF Idle
<1>2. CASE q.kind \in MemberKinds /\ p = FirstStatement(q.kind)
  <2>1. p = "lockMembers"
    BY <1>2, FirstStatements
  <2> QED
    BY <1>2, <2>1 DEF Idle
<1>3. CASE /\ q.kind \in {"accept", "decline", "select", "create"}
           /\ p = FirstStatement(q.kind)
  <2>1. p = q.kind
    BY <1>3, FirstStatements
  <2> QED
    BY <1>3, <2>1 DEF Idle
<1> QED
  BY <1>1, <1>2, <1>3, FirstStatements

LEMMA BeginEffect ==
    ASSUME Inv, NEW r \in Requests, Begin(r), NoneDeletes'
    PROVE  /\ pc[r] = "new" /\ UNCHANGED <<want, locks, left, dbVars>>
           /\ req' \in [Requests -> Request(Kinds) \cup {NoRequest}]
           /\ \A q \in Requests \ {r} : req'[q] = req[q] /\ pc'[q] = pc[q]
           /\ pc'[r] \in Idle /\ pc' \in [Requests -> Statements]
           /\ Requested(r)'
<1>0. Typed /\ Data
  BY DEF Inv
<1>a. PICK q \in Request(Joining) :
         /\ q.actor \in users
         /\ Sharing!MayUse(q.actor, q.base)
         /\ WellFormed(q) /\ Authorized(q)
         /\ req' = [req EXCEPT ![r] = q]
         /\ \/ pc' = [pc EXCEPT ![r] = FirstStatement(q.kind)]
            \/ pc' = [pc EXCEPT ![r] = "move"]
  BY DEF Begin
<1>1. PICK p \in {"move", FirstStatement(q.kind)} : pc' = [pc EXCEPT ![r] = p]
  BY <1>a
<1>2. pc[r] = "new" /\ UNCHANGED <<want, locks, left, dbVars>>
  BY DEF Begin
<1>3. q.kind \in Kinds /\ q \in Request(Kinds) /\ q.kind \in Joining
  <2>1. Joining \subseteq Kinds
    BY MixesAssumption DEF Joining
  <2> QED
    BY <2>1 DEF Request
<1>4. pc'[r] = p /\ req'[r] = q
  BY <1>0, <1>1, <1>a DEF Typed
<1>5. q.kind # "delete"
  <2>1. FirstStatement("delete") = "delete"
    BY DEF FirstStatement, MemberKinds
  <2>2. p # "new"
    <3>1. CASE q.kind = "delete"
      BY <2>1, <3>1
    <3>2. CASE q.kind # "delete"
      BY <1>3, <3>2, FirstRequested
    <3> QED
      BY <3>1, <3>2
  <2> QED
    BY <1>4, <2>2 DEF NoneDeletes, Begun
<1>6. /\ p \in Idle /\ p \notin {"new", "done"}
      /\ p = "lockMembers" => q.kind \in MemberKinds
      /\ p = "accept" => q.kind = "accept"
      /\ p = "decline" => q.kind = "decline"
      /\ p = "select" => q.kind = "select"
      /\ p \notin {"locked", "upserted", "invited", "deleted", "withdrawn",
                   "read", "joined", "accepted", "selecting"}
  BY <1>3, <1>5, FirstRequested
<1>7. /\ q.base \in accounts \cup {Other}
      /\ q.kind \in MemberKinds \cup {"accept", "decline"} => q.account \in accounts
  <2>1. q.base \in accounts \cup {Other}
    BY <1>a DEF Sharing!MayUse
  <2>2. q.kind \in MemberKinds => q.account \in accounts
    BY <1>a, <2>1 DEF Authorized
  <2>3. q.kind \in {"accept", "decline"} => q.account \in accounts
    BY <1>0, <1>a DEF WellFormed, InvitationsOf, Data
  <2> QED
    BY <2>2, <2>3, <2>1
<1>8. /\ q.kind \in {"accept", "decline"} => q.target = q.actor
      /\ q.kind = "select" => q.account \in Accounts
      /\ q.kind \in {"invite", "role"} => q.newRole # NoRole
      /\ q.kind = "remove" => q.newRole = NoRole
  BY <1>a DEF WellFormed
<1>9. q \in Request(Kinds \ {"delete"})
  BY <1>3, <1>5 DEF Request
<1>10. Requested(r)'
  <2>1. users' = users /\ accounts' = accounts
    BY <1>2 DEF dbVars
  <2> QED
    BY <1>a, <1>4, <1>6, <1>7, <1>8, <1>9, <2>1 DEF Requested
<1>11. /\ req' \in [Requests -> Request(Kinds) \cup {NoRequest}]
       /\ pc' \in [Requests -> Statements]
       /\ \A x \in Requests \ {r} : req'[x] = req[x] /\ pc'[x] = pc[x]
  BY <1>0, <1>1, <1>a, <1>3, <1>6 DEF Typed, Statements
<1> QED
  BY <1>2, <1>4, <1>6, <1>10, <1>11

LEMMA BeginKeepsInv ==
    ASSUME Inv, NEW r \in Requests, Begin(r), NoneDeletes'
    PROVE  Inv'
<1>0. Typed /\ Own(r) /\ Data
  BY DEF Inv
<1>1. /\ pc[r] = "new" /\ UNCHANGED <<want, locks, left, dbVars>>
      /\ req' \in [Requests -> Request(Kinds) \cup {NoRequest}]
      /\ \A q \in Requests \ {r} : req'[q] = req[q] /\ pc'[q] = pc[q]
      /\ pc'[r] \in Idle /\ pc' \in [Requests -> Statements]
      /\ Requested(r)'
  BY BeginEffect
<1>2. want'[r] = <<>> /\ locks'[r] = {}
  BY <1>0, <1>1 DEF Own, Shape, Idle
<1>3. Typed'
  BY <1>0, <1>1 DEF Typed
<1>4. Frame(r)
  BY <1>0, <1>1, UnchangedFrame DEF Typed
<1> QED
  BY <1>0, <1>1, <1>2, <1>3, <1>4, DataUnchanged, IdleKeepsInv

(* The tables apart from the selected accounts.                            *)
LEMMA TablesFrame ==
    ASSUME Typed, NEW r \in Requests, Others(r),
           UNCHANGED <<users, accounts, role, older, invitations>>
    PROVE  Frame(r)
BY DEF Frame

LEMMA SelectedData ==
    ASSUME Data, UNCHANGED <<users, accounts, role, older, invitations>>,
           selected' \in [Users -> Accounts \cup {Other}]
    PROVE  Data'
BY DEF Data, Sharing!TypeOK, Sharing!Members

(* Selecting an account is one of the abstract requests, even when the     *)
(* user was removed from it meanwhile.                                     *)
LEMMA SelectedStep ==
    ASSUME Sharing!TypeOK, NEW u \in users, NEW a \in accounts \cup {Other},
           selected' = [selected EXCEPT ![u] = a],
           UNCHANGED <<users, accounts, role, older, invitations>>
    PROVE  Sharing!Next /\ selected' \in [Users -> Accounts \cup {Other}]
<1>0. u \in Users /\ a \in Accounts \cup {Other} /\ accounts \subseteq Accounts
  BY DataTyped
<1>1. CASE Sharing!MayUse(u, a)
  <2>1. Sharing!SelectAccount(u, a)
    BY <1>1 DEF Sharing!SelectAccount
  <2> QED
    BY <1>0, <2>1, DataTyped DEF Sharing!Next, Sharing!UserRequest
<1>2. CASE ~ Sharing!MayUse(u, a)
  <2>1. a \in accounts
    BY <1>2 DEF Sharing!MayUse
  <2>2. Sharing!SelectFormerAccount(u, a)
    BY <1>2, <2>1 DEF Sharing!SelectFormerAccount
  <2> QED
    BY <1>0, <2>1, <2>2, DataTyped DEF Sharing!Next
<1> QED
  BY <1>1, <1>2

LEMMA CurrentAccountSelectedStep ==
    ASSUME Inv, NEW r \in Requests, CurrentAccountSelected(r)
    PROVE  Inv' /\ Sharing!Next
<1>0. Typed /\ Own(r) /\ Data /\ Sharing!TypeOK
  BY DEF Inv, Data
<1> DEFINE q == req[r]
<1>1. /\ pc[r] = "moved" /\ want[r] = <<>>
      /\ pc' = [pc EXCEPT ![r] = FirstStatement(q.kind)]
      /\ locks' = [locks EXCEPT ![r] = {}]
      /\ UNCHANGED <<req, want, left, users, accounts, role, older, invitations>>
  BY DEF CurrentAccountSelected, At
<1>2. Requested(r)
  BY <1>0, <1>1 DEF Own, Shape
<1>3. /\ q \in Request(Kinds \ {"delete"}) /\ q.kind \in Kinds \ {"delete"}
      /\ q.actor \in users /\ q.base \in accounts \cup {Other}
  BY <1>2 DEF Requested, Request
<1>4. selected' = [selected EXCEPT ![q.actor] = q.base]
  BY <1>3 DEF CurrentAccountSelected
<1>5. Sharing!Next /\ selected' \in [Users -> Accounts \cup {Other}]
  BY <1>0, <1>1, <1>3, <1>4, SelectedStep
<1>6. PICK p : p = FirstStatement(q.kind)
  OBVIOUS
<1>7. /\ p \in Idle /\ p \notin {"new", "done"}
      /\ p = "lockMembers" => q.kind \in MemberKinds
      /\ p = "accept" => q.kind = "accept"
      /\ p = "decline" => q.kind = "decline"
      /\ p = "select" => q.kind = "select"
      /\ p \notin {"locked", "upserted", "invited", "deleted", "withdrawn",
                   "read", "joined", "accepted", "selecting"}
  BY <1>3, <1>6, FirstRequested
<1>8. pc'[r] = p /\ want'[r] = <<>> /\ locks'[r] = {} /\ req'[r] = req[r]
  BY <1>0, <1>1, <1>6 DEF Typed
<1>9. Requested(r)'
  BY <1>1, <1>2, <1>7, <1>8 DEF Requested
<1>10. Typed'
  <2>1. p \in Statements
    BY <1>7 DEF Statements
  <2> QED
    BY <1>0, <1>1, <1>6, <2>1 DEF Typed
<1>11. Others(r)
  <2>1. \A w : Found(w) = w
    <3>1. \A row : Exists(row)' <=> Exists(row)
      BY <1>1 DEF Exists, InvitationsOf
    <3> QED
      BY <3>1 DEF Found, Deleted
  <2>2. \A x \in Requests : want[x] = [n \in DOMAIN want[x] |-> want[x][n]]
    BY <1>0 DEF Typed
  <2>3. \A x \in Requests : want'[x] = [n \in DOMAIN want[x] |-> Found(want[x][n])]
    BY <1>1, <2>1, <2>2
  <2> QED
    BY <1>0, <1>1, <2>3 DEF Others, Typed
<1>12. Frame(r) /\ Data'
  BY <1>0, <1>1, <1>5, <1>11, TablesFrame, SelectedData
<1> QED
  BY <1>5, <1>7, <1>8, <1>9, <1>10, <1>12, IdleKeepsInv

LEMMA CommitSelectStep ==
    ASSUME Inv, NEW r \in Requests, CommitSelect(r)
    PROVE  Inv' /\ Sharing!Next
<1>0. Typed /\ Own(r) /\ Data /\ Sharing!TypeOK
  BY DEF Inv, Data
<1>1. /\ pc[r] = "selecting" /\ Done(r)
      /\ selected' = [selected EXCEPT ![req[r].actor] = req[r].account]
      /\ UNCHANGED <<users, accounts, role, older, invitations>>
  BY DEF CommitSelect, At
<1>2. req[r].actor \in users /\ req[r].account \in accounts
  BY <1>0, <1>1 DEF Own, Shape, Requested
<1>3. Sharing!Next /\ selected' \in [Users -> Accounts \cup {Other}]
  BY <1>0, <1>1, <1>2, SelectedStep
<1>4. Frame(r) /\ Data'
  BY <1>0, <1>1, <1>3, DoneTyped, TablesFrame, SelectedData
<1> QED
  BY <1>1, <1>3, <1>4, DoneKeepsInv

-----------------------------------------------------------------------------
(* Invitations are sent, cancelled and declined.                           *)

LEMMA OwnerLocked ==
    ASSUME NEW r \in Requests, req[r].actor \in LockedOwners(r)
    PROVE  role[req[r].account][req[r].actor] = Owner
<1>1. Owner # NoRole
  BY RolesAssumption
<1> QED
  BY <1>1 DEF LockedOwners, MemberRole

LEMMA CommitInviteStep ==
    ASSUME Inv, NEW r \in Requests, CommitInvite(r)
    PROVE  Inv' /\ Sharing!Next
<1>0. Typed /\ Own(r) /\ Data /\ Sharing!TypeOK
  BY DEF Inv, Data
<1> DEFINE a == req[r].account
           e == req[r].target
           u == req[r].actor
           new == [account |-> a, email |-> e, role |-> req[r].newRole,
                   by |-> u, open |-> TRUE]
<1>1. /\ pc[r] = "invited" /\ want[r] = <<>> /\ Done(r)
      /\ invitations' = Sharing!Upserted(a, e, req[r].newRole, u)
      /\ UNCHANGED <<users, accounts, role, older, selected>>
  BY DEF CommitInvite, At
<1>2. Requested(r) /\ req[r].kind = "invite"
  BY <1>0, <1>1 DEF Own, Shape, Requested
<1>3. /\ a \in accounts /\ a \in Accounts /\ e \in Users /\ u \in users /\ u \in Users
      /\ req[r].newRole \in Roles
  BY <1>0, <1>2, DataTyped DEF Requested, Request, MemberKinds
<1>4. invitations' = {i \in invitations : i.account # a \/ i.email # e} \cup {new}
  BY <1>1 DEF Sharing!Upserted
<1>5. role[a][u] = Owner
  BY <1>0, <1>1, OwnerLocked DEF Own, Checked
<1>6. Sharing!Next
  <2>1. Sharing!PutInvitation(u, a, e, req[r].newRole)
    BY <1>1, <1>3, <1>5, Names DEF Sharing!PutInvitation
  <2>2. CASE e \in Sharing!Members(a)
    <3>1. Sharing!InviteNewMember(u, a, e, req[r].newRole)
      BY <2>1, <2>2 DEF Sharing!InviteNewMember
    <3> QED
      BY <1>3, <3>1 DEF Sharing!Next
  <2>3. CASE e \notin Sharing!Members(a)
    <3>1. Sharing!InviteMember(u, a, e, req[r].newRole)
      BY <2>1, <2>3 DEF Sharing!InviteMember
    <3> QED
      BY <1>3, <3>1 DEF Sharing!Next, Sharing!AccountRequest
  <2> QED
    BY <2>2, <2>3
<1>7. Data'
  <2>1. new \in Sharing!Invitation
    BY <1>3 DEF Sharing!Invitation
  <2>2. Sharing!TypeOK'
    BY <1>0, <1>1, <1>4, <2>1 DEF Sharing!TypeOK
  <2>3. \A i \in invitations' : i.account \in accounts'
    BY <1>0, <1>1, <1>3, <1>4 DEF Data
  <2>4. \A i, j \in invitations' :
           i.account = j.account /\ i.email = j.email => i = j
    <3>1. new.account = a /\ new.email = e
      OBVIOUS
    <3>2. \A i \in invitations' :
             i = new \/ (i \in invitations /\ ~ (i.account = a /\ i.email = e))
      BY <1>4
    <3>3. \A i, j \in invitations :
             i.account = j.account /\ i.email = j.email => i = j
      BY <1>0 DEF Data
    <3> HIDE DEF new
    <3> QED
      BY <3>1, <3>2, <3>3
  <2> QED
    BY <1>0, <1>1, <2>2, <2>3, <2>4 DEF Data, Sharing!Members
<1>8. Frame(r)
  <2>1. Others(r)
    BY <1>0, <1>1, DoneTyped
  <2>2. HoldsInvitation(r, a, e)
    BY <1>0, <1>1 DEF Own, Progress
  <2>3. \A i \in invitations \cup invitations' :
           \/ i \in invitations /\ i \in invitations'
           \/ i.account = a /\ i.email = e
    BY <1>4
  <2>4. \A i \in invitations' \ invitations : i.account = a
    BY <1>4
  <2>5. \A i \in invitations \cup invitations' :
           \/ i \in invitations /\ i \in invitations'
           \/ HoldsInvitation(r, i.account, i.email)
    BY <2>2, <2>3
  <2> QED
    BY <1>1, <2>1, <2>4, <2>5 DEF Frame
<1> QED
  BY <1>1, <1>6, <1>7, <1>8, DoneKeepsInv

LEMMA WithdrawnData ==
    ASSUME Data, UNCHANGED <<users, accounts, role, older, selected>>,
           invitations' \subseteq invitations
    PROVE  Data'
BY DEF Data, Sharing!TypeOK, Sharing!Members

LEMMA HeldWithdrawn ==
    ASSUME NEW r \in Requests, invitations' = invitations \ HeldInvitations(r)
    PROVE  /\ \A i \in invitations \cup invitations' :
                 \/ i \in invitations /\ i \in invitations'
                 \/ HoldsInvitation(r, i.account, i.email)
           /\ invitations' \subseteq invitations
BY DEF HeldInvitations, HoldsInvitation

LEMMA CommitDeletedStep ==
    ASSUME Inv, NEW r \in Requests, CommitDeleted(r)
    PROVE  Inv' /\ (Sharing!Next \/ UNCHANGED dbVars)
<1>0. Typed /\ Own(r) /\ Data /\ Sharing!TypeOK
  BY DEF Inv, Data
<1> DEFINE a == req[r].account
           e == req[r].target
           u == req[r].actor
<1>1. /\ pc[r] = "deleted" /\ Done(r)
      /\ invitations' = invitations \ HeldInvitations(r)
      /\ UNCHANGED <<users, accounts, role, older, selected>>
  BY DEF CommitDeleted, At
<1>2. /\ Requested(r) /\ req[r].kind \in {"cancel", "decline"}
      /\ u \in users /\ u \in Users /\ a \in Accounts
  BY <1>0, <1>1, DataTyped DEF Own, Shape, Requested, Request, MemberKinds
<1>3. \A i \in HeldInvitations(r) : i.account = a /\ i.email = e
  BY <1>0, <1>1, InvitationHeld DEF HeldInvitations, Own, Shape
<1>4. HeldInvitations(r) \subseteq invitations
  BY DEF HeldInvitations
<1>5. HeldInvitations(r) = {} => UNCHANGED dbVars
  BY <1>1 DEF dbVars
<1>6. ASSUME NEW i \in HeldInvitations(r) PROVE Sharing!Next
  <2>1. HeldInvitations(r) = {i} /\ i \in invitations
    BY <1>0, <1>3, <1>4 DEF Data
  <2>2. invitations' = invitations \ {i} /\ i.account = a /\ i.email = e
    BY <1>1, <1>3, <2>1
  <2>3. CASE req[r].kind = "cancel"
    <3>1. role[a][u] = Owner
      BY <1>0, <1>1, <2>3, OwnerLocked DEF Own, Checked
    <3>2. Sharing!CancelInvitation(u, i)
      BY <1>1, <1>2, <2>2, <3>1, Names DEF Sharing!CancelInvitation
    <3> QED
      BY <1>2, <2>1, <2>2, <3>2 DEF Sharing!Next, Sharing!AccountRequest
  <2>4. CASE req[r].kind = "decline"
    <3>1. Sharing!DeclineInvitation(u, i)
      BY <1>1, <1>2, <2>2, <2>4 DEF Sharing!DeclineInvitation, Requested
    <3> QED
      BY <1>2, <2>1, <3>1 DEF Sharing!Next, Sharing!UserRequest
  <2> QED
    BY <1>2, <2>3, <2>4
<1>7. Frame(r) /\ Data'
  BY <1>0, <1>1, DoneTyped, HeldWithdrawn, WithdrawnData DEF Frame
<1> QED
  BY <1>1, <1>5, <1>6, <1>7, DoneKeepsInv

-----------------------------------------------------------------------------
(* Members join, change their role and leave.                              *)

LEMMA RoleEffect ==
    ASSUME Sharing!TypeOK, NEW a \in Accounts, NEW u \in Users,
           NEW x \in Roles \cup {NoRole}, role' = [role EXCEPT ![a][u] = x]
    PROVE  /\ role' \in [Accounts -> [Users -> Roles \cup {NoRole}]]
           /\ \A b \in Accounts, v \in Users :
                 role'[b][v] = IF b = a /\ v = u THEN x ELSE role[b][v]
<1>1. role \in [Accounts -> [Users -> Roles \cup {NoRole}]]
  BY DataTyped
<1> QED
  BY <1>1

LEMMA CommitAcceptData ==
    ASSUME Data, NEW a \in accounts, NEW u \in Users, NEW x \in Roles,
           u \notin Sharing!Members(a),
           role' = [role EXCEPT ![a][u] = x], older' = Sharing!JoinedLast(a, u),
           invitations' \subseteq invitations, UNCHANGED <<users, accounts>>,
           selected' \in [Users -> Accounts \cup {Other}]
    PROVE  Data'
<1>0. Sharing!TypeOK /\ a \in Accounts
  BY DataTyped DEF Data
<1>1. /\ role' \in [Accounts -> [Users -> Roles \cup {NoRole}]]
      /\ \A b \in Accounts, v \in Users :
            role'[b][v] = IF b = a /\ v = u THEN x ELSE role[b][v]
  BY <1>0, RoleEffect, ZenonT(60)
<1>2. x # NoRole
  BY RolesAssumption
<1>3. /\ older' \in [Accounts -> SUBSET (Users \X Users)]
      /\ older'[a] = older[a] \cup (Sharing!Members(a) \X {u})
      /\ \A b \in Accounts \ {a} : older'[b] = older[b]
  BY <1>0, DataTyped, MembersAre DEF Sharing!JoinedLast
<1>4. /\ \A b \in Accounts \ {a} : Sharing!Members(b)' = Sharing!Members(b)
      /\ Sharing!Members(a)' = Sharing!Members(a) \cup {u}
  BY <1>0, <1>1, <1>2, Names DEF Sharing!Members
<1>5. Sharing!TypeOK'
  BY <1>0, <1>1, <1>3, Names DEF Sharing!TypeOK
<1>6. \A b \in Accounts : Sharing!Members(b)' # {} => b \in accounts
  BY <1>0, <1>4 DEF Data
<1>7. ASSUME NEW b \in Accounts
      PROVE  /\ older'[b] \subseteq Sharing!Members(b)' \X Sharing!Members(b)'
             /\ \A v \in Users : <<v, v>> \notin older'[b]
             /\ \A v, w, z \in Users :
                   <<v, w>> \in older'[b] /\ <<w, z>> \in older'[b]
                     => <<v, z>> \in older'[b]
  <2>1. /\ older[b] \subseteq Sharing!Members(b) \X Sharing!Members(b)
        /\ \A v \in Users : <<v, v>> \notin older[b]
        /\ \A v, w, z \in Users :
              <<v, w>> \in older[b] /\ <<w, z>> \in older[b] => <<v, z>> \in older[b]
    BY DEF Data
  <2>2. CASE b # a
    BY <1>3, <1>4, <2>1, <2>2
  <2>3. CASE b = a
    <3>1. \A v, w : <<v, w>> \in older'[a] <=>
             <<v, w>> \in older[a] \/ (v \in Sharing!Members(a) /\ w = u)
      BY <1>3
    <3>2. \A v, w : <<v, w>> \in older[a] =>
             v \in Sharing!Members(a) /\ w \in Sharing!Members(a)
      BY <2>1, <2>3
    <3>3. older'[a] \subseteq Sharing!Members(a)' \X Sharing!Members(a)'
      BY <1>3, <1>4, <2>1, <2>3
    <3>4. \A v \in Users : <<v, v>> \notin older'[a]
      BY <2>1, <2>3, <3>1
    <3>5. \A v, w, z \in Users :
             <<v, w>> \in older'[a] /\ <<w, z>> \in older'[a] => <<v, z>> \in older'[a]
      BY <2>1, <2>3, <3>1, <3>2
    <3> QED
      BY <2>3, <3>3, <3>4, <3>5
  <2> QED
    BY <2>2, <2>3
<1>8. /\ \A i \in invitations' : i.account \in accounts
      /\ \A i, j \in invitations' :
            i.account = j.account /\ i.email = j.email => i = j
  BY DEF Data
<1> QED
  BY <1>5, <1>6, <1>7, <1>8 DEF Data

LEMMA CommitAcceptStep ==
    ASSUME Inv, NEW r \in Requests, CommitAccept(r)
    PROVE  Inv' /\ Sharing!Next
<1>0. Typed /\ Own(r) /\ Data /\ Sharing!TypeOK
  BY DEF Inv, Data
<1> DEFINE a == req[r].account
           u == req[r].actor
<1>1. /\ pc[r] = "accepted" /\ Done(r)
      /\ invitations' = invitations \ HeldInvitations(r)
      /\ selected' = [selected EXCEPT ![u] = a]
      /\ UNCHANGED <<users, accounts>>
  BY DEF CommitAccept, At
<1>2. /\ Requested(r) /\ req[r].kind = "accept" /\ req[r].target = u
      /\ u \in users /\ u \in Users /\ a \in accounts /\ a \in Accounts
  BY <1>0, <1>1, DataTyped DEF Own, Shape, Requested, Request
<1>3. PICK j \in invitations : j.account = a /\ j.email = u /\ j.open
  BY <1>0, <1>1 DEF Own, Checked, OpenInvitation, InvitationsOf
<1>4. HeldInvitations(r) = {j}
  <2>1. \A i \in HeldInvitations(r) : i \in invitations /\ i.account = a /\ i.email = u
    BY <1>0, <1>1, <1>2, InvitationHeld DEF HeldInvitations, Own, Shape
  <2>2. \A i \in HeldInvitations(r) : i = j
    BY <1>0, <1>3, <2>1 DEF Data
  <2>3. HoldsInvitation(r, a, u)
    BY <1>0, <1>1, <1>2 DEF Own, Progress
  <2>4. Holds(r, InvitationRow(a, u), "upd")
    BY <1>0, <1>1, <2>3, InvitationHeld DEF HoldsInvitation, Own, Shape
  <2>5. j \in HeldInvitations(r)
    BY <1>3, <2>4 DEF HeldInvitations
  <2> QED
    BY <2>2, <2>5
<1>5. j.role \in Roles
  BY <1>0, DataTyped DEF Sharing!Invitation
<1>6. selected' \in [Users -> Accounts \cup {Other}]
  BY <1>0, <1>1, <1>2, DataTyped
<1>7. /\ Sharing!AcceptInvitation(u, j) => Sharing!Next
      /\ Others(r)
      /\ \A i \in invitations \cup invitations' :
            \/ i \in invitations /\ i \in invitations'
            \/ HoldsInvitation(r, i.account, i.email)
      /\ invitations' \subseteq invitations
  <2>1. Sharing!AcceptInvitation(u, j) => Sharing!Next
    BY <1>2, <1>3 DEF Sharing!Next, Sharing!UserRequest
  <2> QED
    BY <1>0, <1>1, <2>1, DoneTyped, HeldWithdrawn
<1>8. CASE Joined(r)
  <2>1. /\ role' = [role EXCEPT ![a][u] = j.role]
        /\ older' = Sharing!JoinedLast(a, u)
    BY <1>4, <1>8 DEF CommitAccept
  <2>2. role[a][u] = NoRole /\ u \notin Sharing!Members(a)
    BY <1>0, <1>1, <1>2, <1>8, MembersAre DEF Own, Present
  <2>3. Sharing!AcceptInvitation(u, j)
    BY <1>1, <1>2, <1>3, <1>4, <2>1, <2>2 DEF Sharing!AcceptInvitation
  <2>4. Data'
    BY <1>0, <1>1, <1>2, <1>5, <1>6, <1>7, <2>1, <2>2, CommitAcceptData
  <2>5. Frame(r)
    <3>1. \A b \in Accounts, v \in Users :
             role'[b][v] = IF b = a /\ v = u THEN j.role ELSE role[b][v]
      BY <1>0, <1>2, <1>5, <2>1, RoleEffect
    <3>2. accounts \subseteq Accounts
      BY <1>0, DataTyped
    <3>3. \A b \in accounts, v \in Users :
             role'[b][v] = role[b][v] \/ Holds(r, MemberRow(b, v), "del")
      BY <1>8, <3>1, <3>2 DEF Joined
    <3>4. \A b \in accounts, v \in Users :
             ~ (role[b][v] # NoRole /\ role'[b][v] = NoRole)
      BY <2>2, <3>1, <3>2
    <3>5. \A b \in accounts : older[b] \subseteq older'[b]
      BY <1>0, <2>1, <3>2, DataTyped DEF Sharing!JoinedLast
    <3> QED
      BY <1>1, <1>7, <3>3, <3>4, <3>5 DEF Frame
  <2> QED
    BY <1>1, <1>7, <2>3, <2>4, <2>5, DoneKeepsInv
<1>9. CASE ~ Joined(r)
  <2>1. UNCHANGED <<role, older>>
    BY <1>9 DEF CommitAccept
  <2>2. u \in Sharing!Members(a)
    BY <1>0, <1>1, <1>9 DEF Own, Checked
  <2>3. Sharing!AcceptInvitation(u, j)
    BY <1>1, <1>2, <1>3, <1>4, <2>1, <2>2 DEF Sharing!AcceptInvitation
  <2>4. Data'
    BY <1>0, <1>1, <1>6, <1>7, <2>1 DEF Data, Sharing!TypeOK, Sharing!Members
  <2>5. Frame(r)
    BY <1>1, <1>7, <2>1 DEF Frame
  <2> QED
    BY <1>1, <1>7, <2>3, <2>4, <2>5, DoneKeepsInv
<1> QED
  BY <1>8, <1>9

LEMMA CommitUpdateData ==
    ASSUME Data, NEW a \in accounts, NEW u \in Users, NEW x \in Roles \cup {NoRole},
           u \in Sharing!Members(a), role' = [role EXCEPT ![a][u] = x],
           x = NoRole => older' = [older EXCEPT ![a] = Sharing!Without(a, u)],
           x # NoRole => older' = older,
           invitations' \subseteq invitations,
           UNCHANGED <<users, accounts, selected>>
    PROVE  /\ Data'
           /\ \A b \in Accounts, v \in Users :
                 role'[b][v] = IF b = a /\ v = u THEN x ELSE role[b][v]
           /\ \A b \in Accounts, v, w \in Users :
                 /\ <<v, w>> \in older[b]
                 /\ role'[b][v] # NoRole /\ role'[b][w] # NoRole
                 => <<v, w>> \in older'[b]
<1>0. Sharing!TypeOK /\ a \in Accounts
  BY DataTyped DEF Data
<1>1. /\ role' \in [Accounts -> [Users -> Roles \cup {NoRole}]]
      /\ \A b \in Accounts, v \in Users :
            role'[b][v] = IF b = a /\ v = u THEN x ELSE role[b][v]
  BY <1>0, RoleEffect, ZenonT(60)
<1>2. \A b \in Accounts :
         /\ older[b] \subseteq Users \X Users
         /\ older[b] \subseteq Sharing!Members(b) \X Sharing!Members(b)
         /\ \A v \in Users : <<v, v>> \notin older[b]
         /\ \A v, w, z \in Users :
               <<v, w>> \in older[b] /\ <<w, z>> \in older[b] => <<v, z>> \in older[b]
  BY <1>0, DataTyped DEF Data
<1>3. \A b \in Accounts, v, w \in Users :
         <<v, w>> \in older'[b] <=>
            <<v, w>> \in older[b] /\ (b = a /\ x = NoRole => v # u /\ w # u)
  <2>1. CASE x = NoRole
    <3>1. /\ older'[a] = {p \in older[a] : p[1] # u /\ p[2] # u}
          /\ \A b \in Accounts \ {a} : older'[b] = older[b]
      BY <1>0, <2>1, DataTyped DEF Sharing!Without
    <3>2. \A v, w \in Users : <<v, w>> \in older'[a] <=>
             <<v, w>> \in older[a] /\ v # u /\ w # u
      BY <3>1
    <3> QED
      BY <2>1, <3>1, <3>2
  <2>2. CASE x # NoRole
    BY <2>2
  <2> QED
    BY <2>1, <2>2
<1>4. \A b \in Accounts : older'[b] \subseteq older[b]
  <2>1. CASE x = NoRole
    BY <1>0, <2>1, DataTyped DEF Sharing!Without
  <2>2. CASE x # NoRole
    BY <2>2
  <2> QED
    BY <2>1, <2>2
<1>5. older' \in [Accounts -> SUBSET (Users \X Users)]
  <2>1. older \in [Accounts -> SUBSET (Users \X Users)]
    BY <1>0, DataTyped
  <2>2. CASE x = NoRole
    <3>1. Sharing!Without(a, u) \in SUBSET (Users \X Users)
      BY <1>0, <2>1 DEF Sharing!Without
    <3> QED
      BY <2>1, <2>2, <3>1
  <2>3. CASE x # NoRole
    BY <2>1, <2>3
  <2> QED
    BY <2>2, <2>3
<1>6. \A b \in Accounts, v \in Users :
         v \in Sharing!Members(b)' <=>
            v \in Sharing!Members(b) /\ (b = a /\ x = NoRole => v # u)
  <2>1. \A b \in Accounts, v \in Users : v \in Sharing!Members(b)' <=> role'[b][v] # NoRole
    BY Names DEF Sharing!Members
  <2>2. \A b \in Accounts, v \in Users : v \in Sharing!Members(b) <=> role[b][v] # NoRole
    BY MembersAre
  <2> QED
    BY <1>1, <2>1, <2>2
<1>7. \A b : Sharing!Members(b) \subseteq Users /\ Sharing!Members(b)' \subseteq Users
  BY DEF Sharing!Members
<1>8. ASSUME NEW b \in Accounts
      PROVE  /\ older'[b] \subseteq Sharing!Members(b)' \X Sharing!Members(b)'
             /\ \A v \in Users : <<v, v>> \notin older'[b]
             /\ \A v, w, z \in Users :
                   <<v, w>> \in older'[b] /\ <<w, z>> \in older'[b]
                     => <<v, z>> \in older'[b]
  <2>1. ASSUME NEW p \in older'[b]
        PROVE  p \in Sharing!Members(b)' \X Sharing!Members(b)'
    <3>1. p \in older[b]
      BY <1>4
    <3>2. PICK v \in Sharing!Members(b), w \in Sharing!Members(b) : p = <<v, w>>
      BY <1>2, <3>1
    <3>3. v \in Users /\ w \in Users
      BY <1>7
    <3>4. v \in Sharing!Members(b)' /\ w \in Sharing!Members(b)'
      BY <1>3, <1>6, <3>2, <3>3
    <3> QED
      BY <3>2, <3>4
  <2>2. \A v \in Users : <<v, v>> \notin older'[b]
    BY <1>2, <1>3
  <2>3. \A v, w, z \in Users :
           <<v, w>> \in older'[b] /\ <<w, z>> \in older'[b] => <<v, z>> \in older'[b]
    BY <1>2, <1>3
  <2> QED
    BY <2>1, <2>2, <2>3
<1>9. Sharing!TypeOK'
  BY <1>0, <1>1, <1>5, Names DEF Sharing!TypeOK
<1>10. \A b \in Accounts : Sharing!Members(b)' # {} => b \in accounts
  BY <1>6, <1>7 DEF Data
<1>11. /\ \A i \in invitations' : i.account \in accounts
       /\ \A i, j \in invitations' :
             i.account = j.account /\ i.email = j.email => i = j
  BY DEF Data
<1>12. Data'
  BY <1>8, <1>9, <1>10, <1>11 DEF Data
<1>13. \A b \in Accounts, v, w \in Users :
          /\ <<v, w>> \in older[b]
          /\ role'[b][v] # NoRole /\ role'[b][w] # NoRole
          => <<v, w>> \in older'[b]
  BY <1>1, <1>3
<1> QED
  BY <1>1, <1>12, <1>13

LEMMA CommitUpdateStep ==
    ASSUME Inv, NEW r \in Requests, CommitUpdate(r)
    PROVE  Inv' /\ Sharing!Next
<1>0. Typed /\ Own(r) /\ Data /\ Sharing!TypeOK
  BY DEF Inv, Data
<1> DEFINE a == req[r].account
           u == req[r].actor
           v == req[r].target
           x == req[r].newRole
<1>1. /\ pc[r] = "withdrawn" /\ want[r] = <<>> /\ Done(r)
      /\ invitations' = invitations \ HeldInvitations(r)
      /\ role' = [role EXCEPT ![a][v] = x]
      /\ older' = IF x = NoRole
                  THEN [older EXCEPT ![a] = Sharing!Without(a, v)] ELSE older
      /\ UNCHANGED <<users, accounts, selected>>
  BY DEF CommitUpdate, At
<1>2. /\ Requested(r) /\ req[r].kind \in {"role", "remove"}
      /\ u \in users /\ u \in Users /\ a \in accounts /\ a \in Accounts
      /\ v \in Users /\ x \in Roles \cup {NoRole}
  BY <1>0, <1>1, DataTyped DEF Own, Shape, Requested, Request, MemberKinds
<1>3. UpdateChecked(r)
  BY <1>0, <1>1 DEF Own, Checked
<1>4. /\ v \in Locked(r) /\ role[a][v] # NoRole /\ v \in Sharing!Members(a)
  BY <1>2, <1>3, MembersAre DEF UpdateChecked, MemberRole
<1>5. HeldInvitations(r) = Sharing!Withdrawn(a, v, x)
  <2>1. \A i : ~ Awaits(r, InvitationRow(i.account, i.email))
    BY <1>1 DEF Awaits, Wanted
  <2>2. \A i \in invitations : i \in Sharing!Withdrawn(a, v, x)
           <=> Holds(r, InvitationRow(i.account, i.email), "upd")
    BY <1>0, <1>1, <2>1 DEF Own, Withdraws
  <2> QED
    BY <2>2 DEF HeldInvitations, Sharing!Withdrawn
<1>6. Sharing!UpdateMember(a, u, v, x)
  <2>1. role[a][u] = Owner \/ (x = NoRole /\ u = v)
    BY <1>3, OwnerLocked DEF UpdateChecked
  <2>2. x # Owner => ~ Sharing!LastOwner(a, v)
    <3> SUFFICES ASSUME x # Owner, Sharing!Owners(a) = {v} PROVE FALSE
      BY DEF Sharing!LastOwner
    <3>1. \A w \in LockedOwners(r) : w \in Sharing!Owners(a)
      BY RolesAssumption, Names DEF LockedOwners, Locked, MemberRole, Sharing!Owners
    <3>2. v \in LockedOwners(r)
      BY <1>4, Names DEF LockedOwners, MemberRole, Sharing!Owners
    <3> QED
      BY <1>3, <3>1, <3>2 DEF UpdateChecked
  <2> QED
    BY <1>1, <1>2, <1>4, <1>5, <2>1, <2>2, Names DEF Sharing!UpdateMember
<1>7. Sharing!Next
  <2>1. Sharing!ChangeMemberRole(a, u, v) \/ Sharing!RemoveMember(a, u, v)
    BY <1>2, <1>6, Names DEF Sharing!ChangeMemberRole, Sharing!RemoveMember
  <2> QED
    BY <1>2, <2>1 DEF Sharing!Next, Sharing!AccountRequest
<1>8. /\ Data'
      /\ \A b \in Accounts, w \in Users :
            role'[b][w] = IF b = a /\ w = v THEN x ELSE role[b][w]
      /\ \A b \in Accounts, w, z \in Users :
            /\ <<w, z>> \in older[b]
            /\ role'[b][w] # NoRole /\ role'[b][z] # NoRole
            => <<w, z>> \in older'[b]
  <2>1. invitations' \subseteq invitations
    BY <1>1, HeldWithdrawn
  <2>2. /\ x = NoRole => older' = [older EXCEPT ![a] = Sharing!Without(a, v)]
        /\ x # NoRole => older' = older
    BY <1>1
  <2>3. role' = [role EXCEPT ![a][v] = x] /\ UNCHANGED <<users, accounts, selected>>
    BY <1>1
  <2>4. /\ Data /\ a \in accounts /\ v \in Users /\ x \in Roles \cup {NoRole}
        /\ v \in Sharing!Members(a)
    BY <1>0, <1>2, <1>4
  <2> HIDE DEF a, v, x
  <2> QED
    BY ONLY <2>1, <2>2, <2>3, <2>4, CommitUpdateData, ZenonT(60)
<1>9. Frame(r)
  <2>1. Others(r)
    BY <1>0, <1>1, DoneTyped
  <2>2. accounts \subseteq Accounts
    BY <1>0, DataTyped
  <2>3. \A b \in accounts, w \in Users :
           role'[b][w] = role[b][w] \/ Holds(r, MemberRow(b, w), "upd")
    <3>1. Holds(r, MemberRow(a, v), "upd")
      BY <1>4 DEF Locked, MembersLock
    <3> QED
      BY <1>8, <2>2, <3>1
  <2>4. \A b \in accounts, w \in Users :
           role[b][w] # NoRole /\ role'[b][w] = NoRole =>
              \A i \in invitations : i.account = b /\ i.email = w =>
                 HoldsInvitation(r, b, w)
    <3> SUFFICES ASSUME NEW i \in invitations, i.account = a, i.email = v, x = NoRole
                 PROVE  HoldsInvitation(r, a, v)
      BY <1>8, <2>2
    <3>1. i \in Sharing!Withdrawn(a, v, x)
      BY Names DEF Sharing!Withdrawn
    <3> QED
      BY <1>5, <3>1 DEF HeldInvitations, HoldsInvitation
  <2>5. /\ \A i \in invitations \cup invitations' :
              \/ i \in invitations /\ i \in invitations'
              \/ HoldsInvitation(r, i.account, i.email)
        /\ invitations' \subseteq invitations
    BY <1>1, HeldWithdrawn
  <2>6. \A b \in accounts, w, z \in Users :
           /\ <<w, z>> \in older[b]
           /\ role'[b][w] # NoRole /\ role'[b][z] # NoRole
           => <<w, z>> \in older'[b]
    BY <1>8, <2>2
  <2> QED
    BY <1>1, <2>1, <2>3, <2>4, <2>5, <2>6 DEF Frame
<1> QED
  BY <1>1, <1>7, <1>8, <1>9, DoneKeepsInv

LEMMA CommitCreateStep ==
    ASSUME Inv, NEW r \in Requests, CommitCreate(r)
    PROVE  Inv' /\ (Sharing!Next \/ UNCHANGED dbVars)
<1>0. Typed /\ Own(r) /\ Data /\ Sharing!TypeOK
  BY DEF Inv, Data
<1> DEFINE u == req[r].actor
<1>1. /\ pc[r] = "created" /\ Done(r)
      /\ UNCHANGED <<users, older, invitations, selected>>
  BY DEF CommitCreate, At
<1>2. u \in users /\ u \in Users
  BY <1>0, <1>1 DEF Own, Shape, Requested, Request
<1>3. Others(r)
  BY <1>0, <1>1, DoneTyped
<1>4. CASE UNCHANGED <<accounts, role>>
  <2>1. UNCHANGED dbVars
    BY <1>1, <1>4 DEF dbVars
  <2>2. Data' /\ Frame(r)
    BY <1>0, <1>1, <1>3, <1>4, <2>1, DataUnchanged, TablesFrame
  <2> QED
    BY <1>1, <2>1, <2>2, DoneKeepsInv
<1>5. ASSUME NEW a \in Accounts \ accounts, accounts' = accounts \cup {a},
             role' = [role EXCEPT ![a][u] = Owner]
      PROVE  Inv' /\ Sharing!Next
  <2>1. Owner \in Roles /\ Owner # NoRole
    BY RolesAssumption
  <2>2. /\ role' \in [Accounts -> [Users -> Roles \cup {NoRole}]]
        /\ \A b \in Accounts, v \in Users :
              role'[b][v] = IF b = a /\ v = u THEN Owner ELSE role[b][v]
    BY <1>0, <1>2, <1>5, <2>1, RoleEffect, ZenonT(60)
  <2>3. Sharing!Next
    <3>1. Sharing!CreateAccount(u, a)
      BY <1>1, <1>2, <1>5, Names DEF Sharing!CreateAccount
    <3> QED
      BY <1>2, <3>1 DEF Sharing!Next, Sharing!UserRequest
  <2>4. /\ \A b \in Accounts, v \in Users :
              v \in Sharing!Members(b) => v \in Sharing!Members(b)'
        /\ \A b \in Accounts, v \in Users :
              v \in Sharing!Members(b)' => b = a \/ v \in Sharing!Members(b)
        /\ \A b : Sharing!Members(b) \subseteq Users /\ Sharing!Members(b)' \subseteq Users
    <3>1. \A b \in Accounts, v \in Users : v \in Sharing!Members(b)' <=> role'[b][v] # NoRole
      BY Names DEF Sharing!Members
    <3>2. \A b : Sharing!Members(b)' \subseteq Users
      BY DEF Sharing!Members
    <3> QED
      BY <2>1, <2>2, <3>1, <3>2, MembersAre
  <2>5. Data'
    <3>1. Sharing!TypeOK'
      BY <1>0, <1>1, <1>5, <2>2, Names DEF Sharing!TypeOK
    <3>2. \A b \in Accounts : Sharing!Members(b)' # {} => b \in accounts'
      <4>1. \A b \in Accounts : Sharing!Members(b) # {} => b \in accounts
        BY <1>0 DEF Data
      <4> QED
        BY <1>5, <2>4, <4>1
    <3>3. \A b \in Accounts :
             older'[b] \subseteq Sharing!Members(b)' \X Sharing!Members(b)'
      <4>1. \A b \in Accounts : Sharing!Members(b) \subseteq Sharing!Members(b)'
        BY <2>4
      <4>2. \A b \in Accounts : older'[b] \subseteq Sharing!Members(b) \X Sharing!Members(b)
        BY <1>0, <1>1 DEF Data
      <4> QED
        BY <4>1, <4>2
    <3> QED
      BY <1>0, <1>1, <1>5, <3>1, <3>2, <3>3 DEF Data
  <2>6. Frame(r)
    <3>1. \A b \in accounts, v \in Users : role'[b][v] = role[b][v]
      BY <1>0, <1>5, <2>2, DataTyped
    <3> QED
      BY <1>1, <1>3, <1>5, <3>1 DEF Frame
  <2> QED
    BY <1>1, <2>3, <2>5, <2>6, DoneKeepsInv
<1> QED
  BY <1>4, <1>5 DEF CommitCreate

-----------------------------------------------------------------------------
(* An invitation expires: its row stays, with the same account, address    *)
(* and sender, and the acceptance that has read it keeps it open.          *)

LEMMA ExpireStep ==
    ASSUME Inv, Expire
    PROVE  Inv' /\ Sharing!Next
<1>0. Typed /\ Data /\ Sharing!TypeOK
  BY DEF Inv, Data
<1>1. PICK i \in invitations :
        (\A r \in Requests : ~ Accepting(r, i)) /\ Sharing!Expire(i)
  BY DEF Expire
<1> DEFINE old == [account |-> i.account, email |-> i.email, role |-> i.role,
                   by |-> i.by, open |-> FALSE]
<1>2. /\ invitations' = (invitations \ {i}) \cup {old}
      /\ UNCHANGED <<users, accounts, role, older, selected>>
  BY <1>1 DEF Sharing!Expire
<1>3. UNCHANGED <<req, pc, want, locks, left>>
  BY DEF Expire, reqVars
<1>4. old.account = i.account /\ old.email = i.email /\ old.by = i.by
  OBVIOUS
<1>5. old \in Sharing!Invitation
  BY <1>0, DataTyped DEF Sharing!Invitation
<1> HIDE DEF old
<1>7. Data'
  <2>1. Sharing!TypeOK'
    BY <1>0, <1>2, <1>5 DEF Sharing!TypeOK
  <2>2. \A j \in invitations' : j.account \in accounts
    BY <1>0, <1>2, <1>4 DEF Data
  <2>3. \A j, k \in invitations' :
           j.account = k.account /\ j.email = k.email => j = k
    BY <1>0, <1>2, <1>4 DEF Data
  <2> QED
    BY <1>0, <1>2, <2>1, <2>2, <2>3 DEF Data, Sharing!Members
<1>8. Typed'
  BY <1>0, <1>3 DEF Typed
<1>9. ASSUME NEW q \in Requests PROVE Own(q)'
  <2>0. Own(q)
    BY DEF Inv
  <2>1. Shape(q)'
    BY <1>2, <1>3, <2>0
       DEF Own, Shape, Requested, Wanted, Fits, MayHold
  <2>2. Progress(q)' /\ Updating(q)'
    BY <1>2, <1>3, <2>0
       DEF Own, Progress, Updating, HoldsInvitation, Holds, Wanted
  <2>3. Present(q)' /\ Ranked(q)'
    BY <1>2, <1>3, <2>0
       DEF Own, Present, Ranked, Manages, Taken, Awaits, Holds, Wanted, Joined,
           Sharing!Members
  <2>4. Checked(q)'
    <3>1. /\ LockedOwners(q)' = LockedOwners(q)
          /\ \A u : MemberRole(q, u)' = MemberRole(q, u)
      BY <1>2, <1>3 DEF LockedOwners, MemberRole, Locked, Holds
    <3>2. UpdateChecked(q)' <=> UpdateChecked(q)
      BY <1>3, <3>1 DEF UpdateChecked
    <3>3. ASSUME pc[q] \in {"joined", "accepted"}, OpenInvitation(q)
          PROVE  OpenInvitation(q)'
      <4>1. PICK j \in InvitationsOf(req[q].account, req[q].actor) : j.open
        BY <3>3 DEF OpenInvitation
      <4>2. req[q].kind = "accept"
        BY <2>0, <3>3 DEF Own, Shape, Requested
      <4>3. j # i
        BY <1>1, <3>3, <4>2 DEF Accepting
      <4>4. j \in invitations' /\ j.account = req[q].account /\ j.email = req[q].actor
        BY <1>2, <4>3 DEF InvitationsOf
      <4> QED
        BY <1>3, <4>1, <4>4 DEF OpenInvitation, InvitationsOf
    <3>4. (Joined(q)' <=> Joined(q))
          /\ Sharing!Members(req[q].account)' = Sharing!Members(req[q].account)
      BY <1>2, <1>3 DEF Joined, Holds, Sharing!Members
    <3> QED
      BY <1>3, <2>0, <3>1, <3>2, <3>3, <3>4 DEF Own, Checked
  <2>5. Withdraws(q)'
    <3> SUFFICES ASSUME pc[q] = "withdrawn", NEW j \in invitations'
                 PROVE  j \in Sharing!Withdrawn(req[q].account, req[q].target, req[q].newRole)'
                          <=> \/ Holds(q, InvitationRow(j.account, j.email), "upd")
                              \/ Awaits(q, InvitationRow(j.account, j.email))
      BY <1>3 DEF Withdraws, Holds, Awaits, Wanted
    <3>1. PICK k \in invitations :
            /\ k.account = j.account /\ k.email = j.email /\ k.by = j.by
      BY <1>2, <1>4
    <3>2. j \in Sharing!Withdrawn(req[q].account, req[q].target, req[q].newRole)' <=>
            k \in Sharing!Withdrawn(req[q].account, req[q].target, req[q].newRole)
      BY <1>2, <1>3, <3>1 DEF Sharing!Withdrawn
    <3> QED
      BY <2>0, <3>1, <3>2 DEF Own, Withdraws
  <2> QED
    BY <2>1, <2>2, <2>3, <2>4, <2>5 DEF Own
<1>10. Pairs'
  <2>1. \A q : (Manages(q)' <=> Manages(q)) /\ Taken(q)' = Taken(q)
    BY <1>3 DEF Manages, Taken, Holds, Awaits, Wanted
  <2>2. Pairs
    BY DEF Inv
  <2> QED
    BY <1>3, <2>1, <2>2 DEF Pairs, Compatible, Nested
<1>11. Sharing!Next
  BY <1>1 DEF Sharing!Next, Sharing!Environment
<1> QED
  BY <1>7, <1>8, <1>9, <1>10, <1>11 DEF Inv

-----------------------------------------------------------------------------
(* Every step.                                                             *)

LEMMA NoDeleteStep ==
    ASSUME Typed, NEW r \in Requests PROVE ~ DeleteStep(r)
<1>1. pc[r] \notin {"delete", "userLocked", "accountsLocked",
                    "membershipsDeleted", "keepOwner"}
  BY DEF Typed, Statements, Idle, Referring, Managing
<1> QED
  BY <1>1
     DEF DeleteStep, LockUser, LockAccounts, DeleteMemberships, DeleteUserRow,
         KeepOwner, DeleteAccount, CommitDelete, Statement, At

LEMMA MembersStepKeeps ==
    ASSUME Inv, NEW r \in Requests, MembersStep(r)
    PROVE  Inv' /\ (Sharing!Next \/ UNCHANGED dbVars)
<1>1. CASE LockMembers(r)
  BY <1>1, LockMembersKeepsInv DEF LockMembers
<1>2. CASE UpsertInvitation(r)
  BY <1>2, UpsertInvitationKeepsInv DEF UpsertInvitation
<1>3. CASE InviteRefused(r) \/ UpdateRefused(r)
  BY <1>3, RollbackKeepsInv DEF InviteRefused, UpdateRefused, Rollback
<1>4. CASE CheckInvitation(r)
  BY <1>4, CheckInvitationKeepsInv DEF CheckInvitation
<1>5. CASE CommitInvite(r)
  BY <1>5, CommitInviteStep
<1>6. CASE CancelInvitation(r)
  BY <1>6, CancelInvitationKeepsInv DEF CancelInvitation, DeleteOne, Rollback
<1>7. CASE WithdrawInvitations(r)
  BY <1>7, WithdrawInvitationsKeepsInv DEF WithdrawInvitations
<1>8. CASE CommitUpdate(r)
  BY <1>8, CommitUpdateStep
<1> QED
  BY <1>1, <1>2, <1>3, <1>4, <1>5, <1>6, <1>7, <1>8 DEF MembersStep

LEMMA UserStepKeeps ==
    ASSUME Inv, NEW r \in Requests, UserStep(r)
    PROVE  Inv' /\ (Sharing!Next \/ UNCHANGED dbVars)
<1>1. CASE SelectCurrentAccount(r)
  BY <1>1, SelectCurrentAccountKeepsInv DEF SelectCurrentAccount
<1>2. CASE CurrentAccountSelected(r)
  BY <1>2, CurrentAccountSelectedStep
<1>3. CASE DeclineInvitation(r)
  BY <1>3, DeclineInvitationKeepsInv DEF DeclineInvitation, DeleteOne, Rollback
<1>4. CASE CommitDeleted(r)
  BY <1>4, CommitDeletedStep
<1>5. CASE AcceptInvitation(r)
  BY <1>5, AcceptInvitationKeepsInv DEF AcceptInvitation, Rollback
<1>6. CASE Join(r)
  BY <1>6, JoinKeepsInv DEF Join, Rollback
<1>7. CASE SelectJoined(r)
  BY <1>7, SelectJoinedKeepsInv DEF SelectJoined
<1>8. CASE CommitAccept(r)
  BY <1>8, CommitAcceptStep
<1>9. CASE SelectAccount(r)
  BY <1>9, SelectAccountKeepsInv DEF SelectAccount, Rollback
<1>10. CASE CommitSelect(r)
  BY <1>10, CommitSelectStep
<1>11. CASE CreateAccount(r)
  BY <1>11, CreateAccountKeepsInv DEF CreateAccount
<1>12. CASE CommitCreate(r)
  BY <1>12, CommitCreateStep
<1> QED
  BY <1>1, <1>2, <1>3, <1>4, <1>5, <1>6, <1>7, <1>8, <1>9, <1>10, <1>11, <1>12
     DEF UserStep

LEMMA InvNext ==
    ASSUME Inv, NoneDeletes', [Next]_vars
    PROVE  Inv' /\ (Sharing!Next \/ UNCHANGED dbVars)
<1>1. CASE UNCHANGED vars
  <2>1. /\ UNCHANGED dbVars /\ UNCHANGED reqVars
        /\ req' = req /\ pc' = pc /\ want' = want /\ locks' = locks /\ left' = left
        /\ users' = users /\ accounts' = accounts /\ role' = role /\ older' = older
        /\ invitations' = invitations
    BY <1>1 DEF vars, dbVars, reqVars
  <2>2. Typed' /\ Data'
    BY <2>1, DataUnchanged DEF Inv, Typed
  <2>3. ASSUME NEW q \in Requests PROVE Own(q)'
    <3>0. Own(q)
      BY DEF Inv
    <3>1. Shape(q)'
      BY <2>1, <3>0 DEF Own, Shape, Requested, Wanted, Fits, MayHold
    <3>2. Progress(q)' /\ Updating(q)'
      BY <2>1, <3>0 DEF Own, Progress, Updating, HoldsInvitation, Holds, Wanted
    <3>3. Present(q)' /\ Ranked(q)'
      BY <2>1, <3>0
         DEF Own, Present, Ranked, Manages, Taken, Awaits, Holds, Wanted, Joined,
             Sharing!Members
    <3>4. Checked(q)'
      BY <2>1, <3>0
         DEF Own, Checked, LockedOwners, MemberRole, Locked, Holds, UpdateChecked,
             OpenInvitation, InvitationsOf, Joined, Sharing!Members
    <3>5. Withdraws(q)'
      BY <2>1, <3>0 DEF Own, Withdraws, Sharing!Withdrawn, Holds, Awaits, Wanted
    <3> QED
      BY <3>1, <3>2, <3>3, <3>4, <3>5 DEF Own
  <2>4. Pairs'
    <3>1. \A q : (Manages(q)' <=> Manages(q)) /\ Taken(q)' = Taken(q)
      BY <2>1 DEF Manages, Taken, Holds, Awaits, Wanted
    <3> QED
      BY <2>1, <3>1 DEF Inv, Pairs, Compatible, Nested
  <2> QED
    BY <2>1, <2>2, <2>3, <2>4 DEF Inv
<1>2. CASE Expire
  BY <1>2, ExpireStep
<1>3. ASSUME NEW r \in Requests, Begin(r)
      PROVE  Inv' /\ (Sharing!Next \/ UNCHANGED dbVars)
  BY <1>3, BeginKeepsInv DEF Begin, dbVars
<1>4. ASSUME NEW r \in Requests, Step(r)
      PROVE  Inv' /\ (Sharing!Next \/ UNCHANGED dbVars)
  <2>1. CASE Acquire(r)
    <3>1. UNCHANGED dbVars
      BY <2>1 DEF Acquire, Rollback, dbVars
    <3> QED
      BY <2>1, <3>1, AcquireKeepsInv
  <2>2. CASE AbortDeadlock(r)
    BY <2>2, RollbackKeepsInv DEF AbortDeadlock, Rollback
  <2>3. ~ DeleteStep(r)
    BY NoDeleteStep DEF Inv
  <2> QED
    BY <1>4, <2>1, <2>2, <2>3, MembersStepKeeps, UserStepKeeps DEF Step
<1> QED
  BY <1>1, <1>2, <1>3, <1>4 DEF Next, Quiet

-----------------------------------------------------------------------------
(* A request that has begun stays what it is, deletions included: so no    *)
(* deletion has run before a state in which none has begun.                *)

Named ==
    /\ req \in [Requests -> Request(Kinds) \cup {NoRequest}]
    /\ pc = [r \in Requests |-> pc[r]]
    /\ \A r \in Requests : pc[r] \in {"move", "moved"} => req[r].kind \in Kinds

LEMMA FirstStatementLater ==
    \A k \in Kinds : FirstStatement(k) \notin {"new", "move", "moved"}
<1>1. FirstStatement("delete") = "delete"
  BY DEF FirstStatement, MemberKinds
<1>2. ASSUME NEW k \in Kinds \ {"delete"} PROVE FirstStatement(k) \notin {"new", "move", "moved"}
  <2>1. CASE k \in MemberKinds
    BY <2>1, FirstStatements
  <2>2. CASE k \in {"accept", "decline", "select", "create"}
    BY <2>2, FirstStatements
  <2> QED
    BY <1>2, <2>1, <2>2, FirstStatements
<1> QED
  BY <1>1, <1>2

(* What a step may put in the place of statement p.                        *)
Later(p, next) == next \notin {"new", "move"} /\ (next = "moved" => p = "move")

LEMMA StepMoves ==
    ASSUME Named, NEW r \in Requests, Step(r)
    PROVE  /\ req' = req
           /\ pc' = pc \/ \E p : Later(pc[r], p) /\ pc' = [pc EXCEPT ![r] = p]
<1> DEFINE Moves ==
             /\ req' = req
             /\ pc' = pc \/ \E p : Later(pc[r], p) /\ pc' = [pc EXCEPT ![r] = p]
<1>1. Done(r) => Moves
  BY DEF Done, Later
<1>3. Acquire(r) \/ AbortDeadlock(r) => Moves
  <2>1. Acquire(r) => Done(r) \/ UNCHANGED <<req, pc>>
    BY DEF Acquire, Rollback
  <2> QED
    BY <1>1, <2>1 DEF AbortDeadlock, Rollback
<1>4. MembersStep(r) => Moves
  <2>1. LockMembers(r) => Moves
    BY DEF LockMembers, Statement, Later
  <2>2. UpsertInvitation(r) \/ CheckInvitation(r) \/ WithdrawInvitations(r) => Moves
    BY DEF UpsertInvitation, CheckInvitation, WithdrawInvitations, Statement, Later
  <2>3. CancelInvitation(r) => Moves
    <3>1. CancelInvitation(r) =>
             Done(r) \/ (req' = req /\ pc' = [pc EXCEPT ![r] = "deleted"])
      BY DEF CancelInvitation, DeleteOne, Rollback, Statement, Later
    <3> QED
      BY <1>1, <3>1 DEF Later
  <2>4. InviteRefused(r) \/ UpdateRefused(r) \/ CommitInvite(r) \/ CommitUpdate(r) => Done(r)
    BY DEF InviteRefused, UpdateRefused, CommitInvite, CommitUpdate, Rollback
  <2> QED
    BY <1>1, <2>1, <2>2, <2>3, <2>4 DEF MembersStep
<1>5. UserStep(r) => Moves
  <2>1. SelectCurrentAccount(r) \/ SelectJoined(r) \/ CreateAccount(r) => Moves
    BY DEF SelectCurrentAccount, SelectJoined, CreateAccount, Statement, Later
  <2>2. DeclineInvitation(r) => Done(r) \/ Moves
    BY DEF DeclineInvitation, DeleteOne, Rollback, Statement, Later
  <2>3. AcceptInvitation(r) \/ Join(r) \/ SelectAccount(r) => Done(r) \/ Moves
    BY DEF AcceptInvitation, Join, SelectAccount, Rollback, Statement, Later
  <2>4. CommitDeleted(r) \/ CommitAccept(r) \/ CommitSelect(r) \/ CommitCreate(r) => Done(r)
    BY DEF CommitDeleted, CommitAccept, CommitSelect, CommitCreate
  <2>5. CurrentAccountSelected(r) => Moves
    <3>1. ASSUME pc[r] = "moved" PROVE Later(pc[r], FirstStatement(req[r].kind))
      BY <3>1, FirstStatementLater DEF Named, Later
    <3> QED
      BY <3>1 DEF CurrentAccountSelected, At
  <2> QED
    BY <1>1, <2>1, <2>2, <2>3, <2>4, <2>5 DEF UserStep
<1>6. DeleteStep(r) => Moves
  <2>1. LockUser(r) \/ LockAccounts(r) \/ DeleteMemberships(r) \/ DeleteUserRow(r) => Moves
    BY DEF LockUser, LockAccounts, DeleteMemberships, DeleteUserRow, Statement, Later
  <2>2. KeepOwner(r) \/ DeleteAccount(r) => Moves
    BY DEF KeepOwner, DeleteAccount, Statement, Later
  <2>3. CommitDelete(r) => Done(r)
    BY DEF CommitDelete
  <2> QED
    BY <1>1, <2>1, <2>2, <2>3 DEF DeleteStep
<1> QED
  BY <1>3, <1>4, <1>5, <1>6 DEF Step

LEMMA BegunStays ==
    ASSUME Named, [Next]_vars
    PROVE  Named' /\ \A r \in Begun : r \in Begun' /\ req'[r] = req[r]
<1>1. CASE UNCHANGED <<req, pc>>
  BY <1>1 DEF Named, Begun
<1>2. ASSUME NEW r \in Requests, Step(r)
      PROVE  Named' /\ \A q \in Begun : q \in Begun' /\ req'[q] = req[q]
  <2>1. CASE pc' = pc
    BY <1>2, <2>1, StepMoves DEF Named, Begun
  <2>2. CASE pc' # pc
    <3>1. PICK p : Later(pc[r], p) /\ pc' = [pc EXCEPT ![r] = p] /\ req' = req
      BY <1>2, <2>2, StepMoves
    <3>2. /\ \A q \in Requests : pc'[q] = IF q = r THEN p ELSE pc[q]
          /\ pc' = [q \in Requests |-> pc'[q]]
      BY <3>1 DEF Named
    <3> QED
      BY <3>1, <3>2 DEF Named, Begun, Later
  <2> QED
    BY <2>1, <2>2
<1>3. ASSUME NEW r \in Requests, Begin(r)
      PROVE  Named' /\ \A q \in Begun : q \in Begun' /\ req'[q] = req[q]
  <2>1. PICK q \in Request(Joining) : \E p :
           /\ pc[r] = "new" /\ req' = [req EXCEPT ![r] = q]
           /\ pc' = [pc EXCEPT ![r] = p]
    <3>1. PICK q \in Request(Joining) :
            /\ pc[r] = "new" /\ req' = [req EXCEPT ![r] = q]
            /\ \/ pc' = [pc EXCEPT ![r] = FirstStatement(q.kind)]
               \/ pc' = [pc EXCEPT ![r] = "move"]
      BY <1>3 DEF Begin
    <3> QED
      BY <3>1
  <2>2. q \in Request(Kinds) /\ q.kind \in Kinds
    <3>1. Joining \subseteq Kinds
      BY MixesAssumption DEF Joining
    <3> QED
      BY <3>1 DEF Request
  <2>3. /\ \A x \in Requests \ {r} : pc'[x] = pc[x] /\ req'[x] = req[x]
        /\ pc' = [x \in Requests |-> pc'[x]] /\ req'[r] = q
        /\ req' \in [Requests -> Request(Kinds) \cup {NoRequest}]
    BY <2>1, <2>2 DEF Named
  <2> QED
    BY <2>1, <2>2, <2>3 DEF Named, Begun
<1> QED
  BY <1>1, <1>2, <1>3 DEF Next, Quiet, Expire, vars, reqVars

-----------------------------------------------------------------------------
(* No circle of waiting requests.                                          *)

(* Of finitely many users ordered by age one has nobody younger.           *)
LEMMA LastExists ==
    ASSUME NEW U \in SUBSET Users, U # {}, NEW R,
           \A u \in Users : <<u, u>> \notin R,
           \A u, v, w \in Users : <<u, v>> \in R /\ <<v, w>> \in R => <<u, w>> \in R
    PROVE  \E u \in U : \A v \in U : <<u, v>> \notin R
<1> DEFINE After(u) == {v \in U : <<u, v>> \in R}
           Ranks == {Cardinality(After(u)) : u \in U}
<1>1. IsFiniteSet(U)
  BY UsersAssumption, FS_Subset
<1>2. \A u \in U : IsFiniteSet(After(u)) /\ Cardinality(After(u)) \in Nat
  BY <1>1, FS_Subset, FS_CardinalityType
<1>3. Ranks \subseteq Nat /\ Ranks # {}
  <2> HIDE DEF After
  <2>1. Ranks \subseteq Nat
    BY <1>2
  <2>2. PICK u : u \in U
    OBVIOUS
  <2>3. Cardinality(After(u)) \in Ranks
    BY <2>2
  <2> QED
    BY <2>1, <2>3
<1>4. PICK n \in Ranks : \A m \in Ranks : ~ (<<m, n>> \in OpToRel(<, Nat))
  BY <1>3, NatLessThanWellFounded, WFMin
<1>5. PICK u \in U : n = Cardinality(After(u))
  BY <1>4
<1>6. ASSUME NEW v \in U, <<u, v>> \in R
      PROVE  FALSE
  <2>1. After(v) \subseteq After(u) /\ v \in After(u) \ After(v)
    BY <1>6
  <2>2. Cardinality(After(v)) < Cardinality(After(u))
    <3> HIDE DEF After
    <3>1. /\ Cardinality(After(v)) <= Cardinality(After(u))
          /\ Cardinality(After(v)) # Cardinality(After(u))
      BY <1>2, <2>1, FS_Subset
    <3> QED
      BY <1>2, <3>1
  <2>3. Cardinality(After(v)) \in Ranks
    <3> HIDE DEF After
    <3> QED
      OBVIOUS
  <2> HIDE DEF After, Ranks
  <2> QED
    BY <1>3, <1>4, <1>5, <2>2, <2>3 DEF OpToRel
<1> QED
  BY <1>6

(* What a blocked request waits for, and what the blocker holds.           *)
LEMMA Blocked ==
    ASSUME Inv, NEW p \in Requests, NEW q \in Blockers(p)
    PROVE  /\ q \in Requests \ {p} /\ 1 \in DOMAIN want[p]
           /\ want[p] # <<>> /\ want[p][1] \in Wanted(p)
           /\ Fits(p, want[p][1])
           /\ \E m : /\ Holds(q, want[p][1].row, m)
                     /\ Conflict(want[p][1].mode, m)
<1>0. Typed /\ Own(p)
  BY DEF Inv
<1>1. /\ want[p] # <<>> /\ want[p] \in Seq(Entry) /\ q \in Requests \ {p}
  BY <1>0, WantTyped DEF Blockers
<1>2. 1 \in DOMAIN want[p] /\ Head(want[p]) = want[p][1]
  BY <1>1
<1>3. PICK h \in locks[q] : h.row = want[p][1].row /\ Conflict(want[p][1].mode, h.mode)
  BY <1>1, <1>2 DEF Blockers
<1>4. h = [row |-> h.row, mode |-> h.mode]
  BY <1>0, <1>1 DEF Typed, Lock
<1>5. want[p][1] \in Wanted(p) /\ Fits(p, want[p][1])
  BY <1>0, <1>2 DEF Wanted, Own, Shape
<1> QED
  BY <1>1, <1>2, <1>3, <1>4, <1>5 DEF Holds

(* A request that refers to rows waits only for one that is updating a     *)
(* users row, and that one waits for nobody.                               *)
LEMMA ReferringWaits ==
    ASSUME Inv, NEW p \in Requests, NEW q \in Blockers(p), pc[p] \in Referring
    PROVE  Blockers(q) = {}
<1> DEFINE w == want[p][1]
<1>0. q \in Requests /\ Own(q)
  BY Blocked DEF Inv
<1>1. PICK m : Holds(q, w.row, m) /\ Conflict(w.mode, m)
  BY Blocked
<1>2. pc[p] \notin {"locked", "upserted", "deleted", "read", "withdrawn", "joined"}
  BY DEF Referring
<1>3. \/ w.row = UserRow(req[p].actor) /\ w.mode \in Shared
      \/ \E a : w.row = AccountRow(a) /\ w.mode = "key"
  BY <1>2, Blocked DEF Fits, Shared
<1>4. m = "nku"
  BY <1>0, <1>1, <1>3, ReferenceHeld DEF Conflict, Shared, Own, Shape
<1>5. \A x \in Wanted(q) : x.row \in {AccountRow(a) : a \in accounts}
  BY <1>0, <1>1, <1>4 DEF Own, Updating, Holds
<1>6. ASSUME NEW s \in Blockers(q) PROVE FALSE
  <2>1. /\ want[q][1] \in Wanted(q) /\ Fits(q, want[q][1])
        /\ s \in Requests /\ Own(s)
    BY <1>0, <1>6, Blocked DEF Inv
  <2>2. PICK a \in accounts : want[q][1].row = AccountRow(a)
    BY <1>5, <2>1
  <2>3. want[q][1].mode = "key"
    BY <2>1, <2>2, RowsApart DEF Fits, MemberRows, InvitationRows
  <2>4. PICK n : Holds(s, AccountRow(a), n) /\ Conflict("key", n)
    BY <1>0, <1>6, <2>2, <2>3, Blocked
  <2>5. n = "key"
    BY <2>1, <2>4, ReferenceHeld DEF Own, Shape
  <2> QED
    BY <2>4, <2>5 DEF Conflict
<1> QED
  BY <1>6

(* Two requests that join one account hold the same invitation.            *)
LEMMA JoiningWaits ==
    ASSUME Inv, NEW p \in Requests, NEW q \in Blockers(p), pc[p] = "joined"
    PROVE  FALSE
<1> DEFINE w == want[p][1]
           a == req[p].account
           u == req[p].actor
<1>0. p \in Requests /\ q \in Requests /\ p # q /\ Own(p) /\ Own(q) /\ Compatible(p, q)
  BY Blocked DEF Inv, Pairs
<1>1. w.row = MemberRow(a, u) /\ w.mode = "join"
  BY Blocked DEF Fits, Referring
<1>2. Holds(q, MemberRow(a, u), "del")
  BY <1>1, Blocked DEF Conflict
<1>3. /\ pc[q] \in {"joined", "accepted"}
      /\ req[q].account = a /\ req[q].actor = u
  BY <1>0, <1>2, MemberHeld DEF Own, Shape
<1>4. req[p].target = u /\ req[q].target = u
  BY <1>0, <1>3 DEF Own, Shape, Requested, Idle
<1>5. HoldsInvitation(p, a, u) /\ HoldsInvitation(q, a, u)
  BY <1>0, <1>3, <1>4 DEF Own, Progress
<1> QED
  BY <1>0, <1>5 DEF Compatible, HoldsInvitation, Holds, Shared

(* Who waits for the row of an invitation waits for a request that is past *)
(* its last lock, or for one that is withdrawing invitations of an account *)
(* and is alone in it.                                                     *)
LEMMA InvitationWaits ==
    ASSUME Inv, NEW p \in Requests, NEW q \in Blockers(p), NEW s \in Blockers(q),
           NEW z \in Blockers(s),
           pc[p] \in {"upserted", "deleted", "read", "withdrawn"}
    PROVE  /\ pc[q] = "withdrawn"
           /\ pc[p] = "withdrawn" => FALSE
<1> DEFINE w == want[p][1]
           x == want[q][1]
<1>0. /\ q \in Requests /\ s \in Requests /\ p # q /\ q # s
      /\ Own(p) /\ Own(q) /\ Own(s) /\ Fits(p, w) /\ Fits(q, x) /\ want[q] # <<>>
      /\ Compatible(p, q) /\ Nested(p, q) /\ Compatible(q, s)
  BY Blocked DEF Inv, Pairs
<1>1. PICK m : Holds(q, w.row, m)
  BY Blocked
<1>2. PICK n : Holds(s, x.row, n)
  BY Blocked
<1>3. PICK a, e : w.row = InvitationRow(a, e) /\ a = req[p].account
  <2>1. w.row # Gone
    BY <1>0, <1>1, ReferenceHeld DEF Own, Shape
  <2> QED
    BY <1>0, <2>1 DEF Fits, InvitationRows, Referring
<1>4. /\ a = req[q].account
      /\ \/ pc[q] = "withdrawn" /\ m = "upd"
         \/ /\ e = req[q].target /\ m = "upd"
            /\ pc[q] \in {"deleted", "read", "joined", "accepted"}
         \/ /\ e = req[q].target /\ m \in {"upd", "del"}
            /\ pc[q] \in {"upserted", "invited"}
  BY <1>0, <1>1, <1>3, InvitationHeld DEF Own, Shape
<1>5. pc[q] \notin Referring /\ pc[q] # "joined"
  <2>1. pc[q] \notin Referring
    BY <1>0, ReferringWaits
  <2>2. pc[q] # "joined"
    BY <1>0, JoiningWaits
  <2> QED
    BY <2>1, <2>2
<1>6. pc[q] = "withdrawn"
  <2> SUFFICES ASSUME pc[q] \in {"upserted", "deleted", "read"}, e = req[q].target
               PROVE  FALSE
    BY <1>4, <1>5 DEF Referring
  <2>1. x.row # Gone
    BY <1>0, <1>2, ReferenceHeld DEF Own, Shape
  <2>2. x.row = InvitationRow(a, e)
    BY <1>0, <1>4, <2>1 DEF Fits, Referring
  <2>3. Holds(q, InvitationRow(a, e), m) /\ Holds(s, InvitationRow(a, e), n)
    BY <1>1, <1>2, <1>3, <2>2
  <2>4. m \notin Shared
    BY <1>4 DEF Shared
  <2> QED
    BY <1>0, <2>3, <2>4 DEF Compatible, Holds
<1>7. ASSUME pc[p] = "withdrawn" PROVE FALSE
  <2>1. Past(p) /\ Past(q)
    BY <1>0, <1>6, <1>7 DEF Past, Manages, Managing, MemberKinds, Own, Shape, Requested, Idle
  <2> QED
    BY <1>0, <1>3, <1>4, <2>1, OnePast DEF Own
<1> QED
  BY <1>6, <1>7

(* The blocker of a request that locks members of an account, if it waits  *)
(* itself, locks members of the same account and waits for a younger one.  *)
LEMMA LockingWaits ==
    ASSUME Inv, NEW p \in Requests, NEW q \in Blockers(p), NEW s \in Blockers(q),
           NEW z \in Blockers(s), NEW y \in Blockers(z), pc[p] = "locked"
    PROVE  /\ pc[q] = "locked" /\ req[q].account = req[p].account
           /\ \E u, v \in Users :
                 /\ want[p][1].row = MemberRow(req[p].account, u)
                 /\ want[q][1].row = MemberRow(req[p].account, v)
                 /\ <<u, v>> \in older[req[p].account]
<1> DEFINE w == want[p][1]
           x == want[q][1]
           a == req[p].account
<1>0. /\ q \in Requests /\ s \in Requests /\ p # q /\ q # s
      /\ Own(p) /\ Own(q) /\ Own(s) /\ Fits(p, w) /\ Fits(q, x)
      /\ x \in Wanted(q) /\ Typed
  BY Blocked DEF Inv
<1>1. PICK m : Holds(q, w.row, m)
  BY Blocked
<1>2. PICK u \in Users : w.row = MemberRow(a, u)
  <2>1. w.row # Gone
    BY <1>0, <1>1, ReferenceHeld DEF Own, Shape
  <2> QED
    BY <1>0, <2>1 DEF Fits, MemberRows, Referring
<1>3. pc[q] \notin Referring /\ pc[q] # "joined"
  BY <1>0, ReferringWaits, JoiningWaits
<1>4. a = req[q].account /\ m = "upd" /\ Manages(q)
  BY <1>0, <1>1, <1>2, <1>3, MemberHeld DEF Own, Shape, Referring
<1>5. pc[q] = "locked"
  <2> SUFFICES ASSUME pc[q] \in {"upserted", "deleted", "withdrawn"} PROVE FALSE
    BY <1>3, <1>4 DEF Manages, Managing, Referring
  <2>1. pc[s] = "withdrawn"
    BY <1>0, InvitationWaits
  <2>2. PICK n : Holds(s, x.row, n)
    BY Blocked
  <2>3. x.row \in InvitationRows(a)
    <3>1. x.row # Gone
      BY <1>0, <2>2, ReferenceHeld DEF Own, Shape
    <3>2. x.row = InvitationRow(a, req[q].target) \/ x.row \in InvitationRows(a)
      BY <1>0, <1>4, <3>1 DEF Fits, Referring
    <3>3. req[q].target \in Users
      BY <1>0, <1>4 DEF Own, Shape, Requested, Request, Manages, Managing, Idle
    <3> QED
      BY <3>2, <3>3 DEF InvitationRows
  <2>4. req[s].account = a
    BY <1>0, <2>2, <2>3, InvitationHeld DEF Own, Shape, InvitationRows
  <2>5. Past(q) /\ Past(s)
    <3>1. Past(s)
      BY <1>0, <2>1
         DEF Past, Manages, Managing, MemberKinds, Own, Shape, Requested, Idle
    <3> QED
      BY <1>4, <3>1 DEF Past
  <2>6. Compatible(q, s) /\ Nested(q, s)
    BY <1>0 DEF Inv, Pairs
  <2> QED
    BY <1>0, <1>4, <2>4, <2>5, <2>6, OnePast DEF Own
<1>6. PICK v \in Users : x.row = MemberRow(a, v)
  <2>1. PICK n : Holds(s, x.row, n)
    BY Blocked
  <2>2. x.row # Gone
    BY <1>0, <2>1, ReferenceHeld DEF Own, Shape
  <2> QED
    BY <1>0, <1>4, <1>5, <2>2 DEF Fits, MemberRows, Referring
<1>7. <<u, v>> \in older[a]
  <2>1. Holds(q, MemberRow(a, u), "upd") /\ Awaits(q, MemberRow(a, v))
    BY <1>0, <1>1, <1>2, <1>4, <1>6 DEF Awaits
  <2> QED
    BY <1>0, <1>4, <2>1 DEF Own, Ranked
<1> QED
  BY <1>2, <1>4, <1>5, <1>6, <1>7

LEMMA NoCircle ==
    ASSUME Inv, NEW S \in SUBSET Requests, WaitingCircle(S)
    PROVE  FALSE
<1>0. S # {} /\ \A p \in S : \E q \in S : q \in Blockers(p)
  BY DEF WaitingCircle
<1>1. \A p \in S : pc[p] = "locked"
  <2> SUFFICES ASSUME NEW p \in S PROVE pc[p] = "locked"
    OBVIOUS
  <2>1. PICK q \in S, s \in S, z \in S, y \in S :
           /\ q \in Blockers(p) /\ s \in Blockers(q)
           /\ z \in Blockers(s) /\ y \in Blockers(z)
    BY <1>0
  <2>2. pc[p] \notin Referring /\ pc[p] # "joined"
    BY <2>1, ReferringWaits, JoiningWaits
  <2>3. pc[p] \notin {"upserted", "deleted", "read", "withdrawn"}
    <3> SUFFICES ASSUME pc[p] \in {"upserted", "deleted", "read", "withdrawn"}
                 PROVE  FALSE
      OBVIOUS
    <3>1. pc[q] = "withdrawn"
      BY <2>1, InvitationWaits
    <3> QED
      BY <2>1, <3>1, InvitationWaits
  <2>4. Fits(p, want[p][1])
    BY <2>1, Blocked
  <2> QED
    BY <2>2, <2>3, <2>4 DEF Fits
<1>2. PICK p \in S : TRUE
  BY <1>0
<1> DEFINE a == req[p].account
           U == {u \in Users : \E q \in S : /\ req[q].account = a
                                            /\ want[q][1].row = MemberRow(a, u)}
<1>3. ASSUME NEW q \in S, req[q].account = a
      PROVE  \E u \in U, v \in U : /\ want[q][1].row = MemberRow(a, u)
                                   /\ <<u, v>> \in older[a]
  <2>1. PICK b \in S, s \in S, z \in S, y \in S :
           /\ b \in Blockers(q) /\ s \in Blockers(b)
           /\ z \in Blockers(s) /\ y \in Blockers(z)
    BY <1>0
  <2>2. /\ req[b].account = a
        /\ \E u, v \in Users :
              /\ want[q][1].row = MemberRow(a, u)
              /\ want[b][1].row = MemberRow(a, v)
              /\ <<u, v>> \in older[a]
    BY <1>1, <1>3, <2>1, LockingWaits
  <2> QED
    BY <1>3, <2>2
<1>4. U # {} /\ U \in SUBSET Users
  BY <1>3
<1>5. \A u \in U : \E v \in U : <<u, v>> \in older[a]
  <2> SUFFICES ASSUME NEW u \in U PROVE \E v \in U : <<u, v>> \in older[a]
    OBVIOUS
  <2>1. PICK q \in S : req[q].account = a /\ want[q][1].row = MemberRow(a, u)
    OBVIOUS
  <2>2. PICK x \in U, v \in U : /\ want[q][1].row = MemberRow(a, x)
                                /\ <<x, v>> \in older[a]
    BY <1>3, <2>1
  <2>3. x = u
    <3>1. MemberRow(a, x) = MemberRow(a, u)
      BY <2>1, <2>2
    <3> QED
      BY <3>1, RowsApart
  <2> QED
    BY <2>2, <2>3
<1>6. /\ \A u \in Users : <<u, u>> \notin older[a]
      /\ \A u, v, w \in Users :
            <<u, v>> \in older[a] /\ <<v, w>> \in older[a] => <<u, w>> \in older[a]
  <2>1. a \in Accounts
    <3>1. Own(p) /\ Data
      BY DEF Inv
    <3>2. Requested(p) /\ req[p].kind \in MemberKinds
      BY <1>1, <3>1 DEF Own, Shape, Requested
    <3> QED
      BY <3>1, <3>2, DataTyped DEF Requested, Data
  <2> QED
    BY <2>1 DEF Inv, Data
<1> HIDE DEF U, a
<1>7. PICK u \in U : \A v \in U : <<u, v>> \notin older[a]
  BY ONLY <1>4, <1>6, LastExists, ZenonT(60)
<1> QED
  BY <1>5, <1>7

LEMMA InvNoDeadlock == Inv => \A r \in Requests : ~ Deadlocked(r)
BY NoCircle DEF Deadlocked

-----------------------------------------------------------------------------
(* The theorems.                                                           *)

LEMMA InitInv ==
    ASSUME Init, Sharing!Consistent
    PROVE  Inv /\ Named
<1>1. /\ req = [r \in Requests |-> NoRequest]
      /\ pc = [r \in Requests |-> "new"]
      /\ want = [r \in Requests |-> <<>>]
      /\ locks = [r \in Requests |-> {}]
      /\ left = [r \in Requests |-> {}]
  BY DEF Init
<1>2. Data
  <2>1. Sharing!TypeOK /\ Sharing!References /\ Sharing!SeniorityOrder
    BY DEF Sharing!Consistent
  <2>2. ASSUME NEW a \in Accounts, NEW u \in Users, NEW v \in Users, NEW w \in Users,
               <<u, v>> \in older[a], <<v, w>> \in older[a]
        PROVE  <<u, w>> \in older[a]
    <3>1. u \in Sharing!Members(a) /\ v \in Sharing!Members(a) /\ w \in Sharing!Members(a)
      BY <2>1, <2>2 DEF Sharing!SeniorityOrder
    <3> QED
      BY <2>1, <2>2, <3>1 DEF Sharing!SeniorityOrder
  <2> QED
    BY <2>1, <2>2 DEF Data, Sharing!References, Sharing!SeniorityOrder
<1>3. Typed
  <2>1. <<>> \in Seq(Entry) /\ "new" \in Statements
    BY DEF Statements, Idle
  <2> QED
    BY <1>1, <2>1 DEF Typed
<1>4. ASSUME NEW r \in Requests
      PROVE  Own(r) /\ locks[r] = {} /\ ~ Manages(r)
  <2>1. /\ pc[r] = "new" /\ want[r] = <<>> /\ locks[r] = {} /\ Wanted(r) = {}
        /\ ~ Manages(r)
    BY <1>1 DEF Wanted, Manages, Managing
  <2> QED
    BY <2>1 DEF Own, Shape, Progress, Updating, Present, Ranked, Checked, Withdraws
<1>5. Pairs
  BY <1>4 DEF Pairs, Compatible, Nested
<1>6. Named
  BY <1>1 DEF Named
<1> QED
  BY <1>2, <1>3, <1>4, <1>5, <1>6 DEF Inv

Inductive == Named /\ (NoneDeletes => Inv)

LEMMA InductiveNext ==
    ASSUME Inductive, [Next]_vars
    PROVE  /\ Inductive'
           /\ NoneDeletes' => Sharing!Next \/ UNCHANGED dbVars
<1>1. Named' /\ \A r \in Begun : r \in Begun' /\ req'[r] = req[r]
  BY BegunStays DEF Inductive
<1>2. ASSUME NoneDeletes' PROVE Inv' /\ (Sharing!Next \/ UNCHANGED dbVars)
  <2>1. NoneDeletes
    BY <1>1, <1>2 DEF NoneDeletes
  <2> QED
    BY <1>2, <2>1, InvNext DEF Inductive
<1> QED
  BY <1>1, <1>2 DEF Inductive

(* Whatever the users, accounts and number of requests: from a consistent  *)
(* database, requests of account_members.go and accounts.go never wait for *)
(* each other in a circle, as long as no administrator deletes a user.     *)
THEOREM NeverDeadlocked == Spec /\ Sharing!Consistent => []NoDeadlock
<1>1. Init /\ Sharing!Consistent => Inductive
  BY InitInv DEF Inductive
<1>2. Inductive /\ [Next]_vars => Inductive'
  BY InductiveNext
<1>3. Inductive => NoDeadlock
  BY InvNoDeadlock DEF Inductive, NoDeadlock, NoneDeletes
<1> QED
  BY <1>1, <1>2, <1>3, PTL DEF Spec

(* And what they do to the tables is a sequence of the atomic requests of  *)
(* AccountSharing: the checks made on locked rows hold until the commit.   *)
THEOREM WithoutDeletionsImplements ==
    Spec /\ Sharing!Consistent /\ []NoneDeletes => Implements
<1>1. Init /\ Sharing!Consistent => Inductive
  BY InitInv DEF Inductive
<1>2. Inductive /\ [Next]_vars => Inductive'
  BY InductiveNext
<1>3. Inductive /\ NoneDeletes' /\ [Next]_vars => [Sharing!Next]_(Sharing!vars)
  BY InductiveNext DEF dbVars, Sharing!vars
<1> QED
  BY <1>1, <1>2, <1>3, PTL DEF Spec, Implements, Sharing!SpecFrom

=============================================================================
