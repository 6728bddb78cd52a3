---------------------------- MODULE SignInProofs ----------------------------
(***************************************************************************)
(* Proofs of the safety properties of SignIn for any users, sessions,      *)
(* tokens and requests of all kinds.  One invariant serves all of them: a  *)
(* row lock has one holder, a request holds the rows its stage relies on,  *)
(* and what it found in them is still so.                                  *)
(***************************************************************************)
EXTENDS SignIn, FunctionTheorems, FiniteSetTheorems, TLAPS

Lockable == Users \cup Rows \cup Tokens
Secrets  == [exists : BOOLEAN, blocked : BOOLEAN, secret : Nat, old : BOOLEAN]

Sessions == [live : BOOLEAN, gen : Nat, user : Users \cup {Nobody}, login : Nat]
Resets   == [issued : BOOLEAN, user : Users \cup {Nobody}, done : BOOLEAN,
             age : {"new", "old", "expired"}]

AllStages ==
    {"new", "done", "checkUser", "clear", "auth", "handler", "authenticate", "rehash",
     "signIn", "verify", "change", "changed", "revoke", "commit", "rotate", "token",
     "resetUser", "resetPassword", "reset", "user", "count", "issue", "admin",
     "deleteTokens"}

TypeOK ==
    /\ user \in [Users -> Secrets]
    /\ sessions \in [Rows -> Sessions]
    /\ tokens \in [Tokens -> Resets]
    /\ form \in [Requests -> [kind : Kinds \cup {"page"}, user : Users \cup {Nobody},
                              token : Tokens \cup {Nobody}]]
    /\ cookie \in [Requests -> [row : Rows \cup {Nobody}, gen : Nat]]
    /\ acting \in [Requests -> Users \cup {Nobody}]
    /\ stored \in [Requests -> Secrets]
    /\ pc \in [Requests -> AllStages]
    /\ want \in [Requests -> SUBSET Lockable]
    /\ locks \in [Requests -> SUBSET Lockable]
    /\ logins \in Nat
    /\ revoked \in SUBSET (0..logins)

(* Stages after CheckCookie, by the kind of the request.                   *)
Stages(kind) ==
    CASE kind \in {"page", "logout"} -> {"auth", "handler"}
      [] kind = "login"   -> {"authenticate", "rehash", "signIn"}
      [] kind = "change"  -> {"verify", "change", "changed", "revoke", "commit", "rotate"}
      [] kind = "reset"   -> {"token", "resetUser", "resetPassword", "reset", "revoke",
                              "commit", "rotate"}
      [] kind = "request" -> {"user", "count", "issue"}
      [] OTHER            -> {"admin", "revoke", "deleteTokens", "commit"}

UnderWay(r) == pc[r] \notin {"new", "done"}
OfPage(r)   == UnderWay(r) /\ form[r].kind \notin AdminKinds

(* The stage of a request, and what its form names.                        *)
StageAt(r) == UnderWay(r) =>
    /\ \/ pc[r] \in Stages(form[r].kind)
       \/ pc[r] \in {"checkUser", "clear"} /\ form[r].kind \notin AdminKinds
    /\ form[r].kind \in AdminKinds \cup {"login", "request"} => form[r].user \in Users
    /\ form[r].kind = "reset" => /\ form[r].token \in Tokens
                                 /\ tokens[form[r].token].issued
    /\ form[r].kind = "change" /\ pc[r] \notin {"checkUser", "clear"} =>
           acting[r] \in Users

-----------------------------------------------------------------------------
(* Locks.                                                                  *)

Exclusive == \A q, r \in Requests : q # r => locks[q] \cap locks[r] = {}

Gets(r, x) == x \in locks[r] \cup want[r]

(* The token of a request, locked and not used.                            *)
HoldsToken(r) == form[r].token \in locks[r] /\ ~ tokens[form[r].token].done

(* What a request holds, or waits for, at each stage of a transaction, and *)
(* what it relies on.                                                      *)
HoldsAt(r) ==
    /\ pc[r] = "changed" => Gets(r, acting[r])
    /\ pc[r] = "resetUser" => Gets(r, form[r].token)
    /\ pc[r] \in {"resetPassword", "reset"} => HoldsToken(r)
    /\ pc[r] = "reset" => Gets(r, Target(r))
    /\ pc[r] \in {"admin", "count"} => Gets(r, form[r].user)
    /\ pc[r] = "issue" => /\ form[r].user \in locks[r]
                          /\ Recent(form[r].user) = {}
                          /\ \A t \in Active(form[r].user) : Gets(r, t)
    /\ pc[r] \in {"revoke", "deleteTokens", "commit"} =>
           /\ form[r].kind \notin {"page", "login", "logout", "request"}
           /\ Target(r) \in locks[r]
           /\ form[r].kind = "reset" => HoldsToken(r)
           /\ form[r].kind = "change" => SamePassword(acting[r], stored[r])

-----------------------------------------------------------------------------
(* Sessions and tokens.                                                    *)

(* Every sign-in has one row, and one that is live was not ended.          *)
SignIns ==
    /\ \A s \in Rows :
          /\ sessions[s].login <= logins
          /\ sessions[s].gen = 0 => ~ sessions[s].live /\ sessions[s].login = 0
          /\ sessions[s].live /\ sessions[s].user # Nobody => sessions[s].login > 0
          /\ sessions[s].live /\ sessions[s].login > 0 => sessions[s].login \notin revoked
    /\ \A s, v \in Rows :
          sessions[s].login = sessions[v].login /\ sessions[s].login > 0 => s = v

(* The session of a request: while it has the token of the cookie, its     *)
(* user is who the request acts for, or was signed out.                    *)
CookieAt(r) ==
    /\ pc[r] = "new" => acting[r] = Nobody
    /\ OfPage(r) =>
          /\ cookie[r].row \in Rows
          /\ cookie[r].gen \in 1..sessions[cookie[r].row].gen
          /\ acting[r] # Nobody => sessions[cookie[r].row].login > 0
          /\ Found(cookie[r]) /\ pc[r] # "clear" =>
                sessions[cookie[r].row].user \in {acting[r], Nobody}

OneActive ==
    \A u \in Users : /\ \A t, v \in Active(u) : t = v
                     /\ \A t, v \in Recent(u) : t = v

IssuedToUsers == \A t \in Tokens : tokens[t].issued => tokens[t].user \in Users

IInv ==
    /\ TypeOK
    /\ \A r \in Requests : StageAt(r) /\ HoldsAt(r) /\ CookieAt(r)
    /\ Exclusive /\ SignIns /\ OneActive /\ IssuedToUsers

-----------------------------------------------------------------------------
(* What the step of one request must not do to the others.                 *)

Unmoved(q) ==
    /\ pc'[q] = pc[q] /\ form'[q] = form[q] /\ cookie'[q] = cookie[q]
    /\ acting'[q] = acting[q] /\ stored'[q] = stored[q]
    /\ want'[q] = want[q] /\ locks'[q] = locks[q]

(* Rows q has locked keep what q relies on.                                *)
Kept(q) ==
    /\ \A u \in Users \cap locks[q] :
          /\ user'[u].exists = user[u].exists
          /\ user'[u].secret = user[u].secret
          /\ user'[u].old = user[u].old
          /\ Active(u)' \subseteq Active(u)
          /\ Recent(u)' \subseteq Recent(u)
    /\ \A t \in Tokens \cap locks[q] :
          tokens[t].issued => tokens'[t].done = tokens[t].done

TokensGrow ==
    \A t \in Tokens : tokens[t].issued =>
        tokens'[t].issued /\ tokens'[t].user = tokens[t].user

(* A session keeps its uuid only with its user, or signed out.             *)
SessionsKeep ==
    \A s \in Rows :
        /\ sessions'[s].gen >= sessions[s].gen
        /\ sessions[s].login > 0 => sessions'[s].login > 0
        /\ sessions'[s].live /\ sessions'[s].gen = sessions[s].gen =>
              sessions[s].live /\ sessions'[s].user \in {sessions[s].user, Nobody}

LEMMA SessionChanged ==
    ASSUME NEW x \in Sessions
    PROVE  [x EXCEPT !.live = FALSE] \in Sessions /\ [x EXCEPT !.user = Nobody] \in Sessions
BY DEF Sessions

LEMMA OtherStage ==
    ASSUME NEW q \in Requests, TypeOK, StageAt(q), Unmoved(q), TokensGrow
    PROVE  StageAt(q)'
BY DEF TypeOK, StageAt, Unmoved, TokensGrow, UnderWay

LEMMA OtherHolds ==
    ASSUME NEW q \in Requests, TypeOK, StageAt(q), HoldsAt(q), Unmoved(q), Kept(q), TokensGrow
    PROVE  HoldsAt(q)'
BY DEF TypeOK, StageAt, HoldsAt, HoldsToken, Unmoved, Kept, TokensGrow, UnderWay,
   Gets, Target, SamePassword, Stages

LEMMA CookieStays ==
    ASSUME NEW q \in Requests, TypeOK, TypeOK', CookieAt(q), SessionsKeep,
           form'[q] = form[q], cookie'[q] = cookie[q], acting'[q] = acting[q],
           \/ pc'[q] = pc[q]
           \/ pc[q] \notin {"new", "done", "clear"} /\ pc'[q] # "new"
    PROVE  CookieAt(q)'
<1>1. pc'[q] = "new" => acting'[q] = Nobody
  BY DEF CookieAt
<1> SUFFICES ASSUME OfPage(q)'
             PROVE  /\ cookie'[q].row \in Rows
                    /\ cookie'[q].gen \in 1..sessions'[cookie'[q].row].gen
                    /\ acting'[q] # Nobody => sessions'[cookie'[q].row].login > 0
                    /\ Found(cookie[q])' /\ pc'[q] # "clear" =>
                          sessions'[cookie'[q].row].user \in {acting'[q], Nobody}
  BY <1>1 DEF CookieAt, OfPage, UnderWay
<1> DEFINE s == cookie[q].row
<1> OfPage(q)
  BY DEF OfPage, UnderWay
<1>2. s \in Rows /\ cookie[q].gen \in 1..sessions[s].gen
  BY DEF CookieAt
<1>3. /\ sessions[s].gen \in Nat /\ sessions'[s].gen \in Nat
      /\ sessions'[s].gen >= sessions[s].gen
  BY <1>2 DEF TypeOK, SessionsKeep, Sessions
<1>4. cookie[q].gen \in 1..sessions'[s].gen
  BY <1>2, <1>3
<1>5. acting[q] # Nobody => sessions'[s].login > 0
  BY <1>2 DEF CookieAt, SessionsKeep
<1>6. ASSUME sessions'[s].live, sessions'[s].gen = cookie[q].gen, pc'[q] # "clear"
      PROVE  sessions'[s].user \in {acting[q], Nobody}
  <2>1. sessions'[s].gen = sessions[s].gen
    BY <1>2, <1>3, <1>6
  <2>2. sessions[s].live /\ sessions'[s].user \in {sessions[s].user, Nobody}
    BY <1>2, <1>6, <2>1 DEF SessionsKeep
  <2> QED BY <1>6, <2>1, <2>2 DEF CookieAt, Found
<1> QED BY <1>2, <1>4, <1>5, <1>6 DEF Found

LEMMA OtherCookie ==
    ASSUME NEW q \in Requests, TypeOK, TypeOK', CookieAt(q), Unmoved(q), SessionsKeep
    PROVE  CookieAt(q)'
BY CookieStays DEF Unmoved

LEMMA Preserved ==
    ASSUME IInv, NEW r \in Requests,
           \A q \in Requests \ {r} : Unmoved(q) /\ Kept(q),
           TokensGrow, SessionsKeep, TypeOK',
           StageAt(r)', HoldsAt(r)', CookieAt(r)',
           Exclusive', SignIns', OneActive', IssuedToUsers'
    PROVE  IInv'
<1> SUFFICES ASSUME NEW q \in Requests PROVE StageAt(q)' /\ HoldsAt(q)' /\ CookieAt(q)'
  BY DEF IInv
<1>1. CASE q = r
  BY <1>1
<1>2. CASE q # r
  BY <1>2, OtherStage, OtherHolds, OtherCookie DEF IInv
<1> QED BY <1>1, <1>2

LEMMA EndsWell ==
    ASSUME NEW r \in Requests, pc'[r] = "done"
    PROVE  StageAt(r)' /\ HoldsAt(r)' /\ CookieAt(r)'
BY DEF StageAt, HoldsAt, CookieAt, OfPage, UnderWay

(* A step that changes no table.                                           *)
LEMMA LocalStep ==
    ASSUME IInv, NEW r \in Requests, UNCHANGED <<dbVars, history>>,
           \A q \in Requests \ {r} : Unmoved(q),
           TypeOK', StageAt(r)', HoldsAt(r)', CookieAt(r)', Exclusive'
    PROVE  IInv'
<1>1. \A q \in Requests \ {r} : Kept(q)
  BY DEF Kept, dbVars, Active, Recent
<1>2. TokensGrow
  BY DEF TokensGrow, dbVars
<1>3. SessionsKeep
  BY DEF SessionsKeep, dbVars, IInv, TypeOK, Sessions
<1>4. SignIns'
  BY DEF IInv, SignIns, dbVars, history
<1>5. OneActive' /\ IssuedToUsers'
  BY DEF IInv, OneActive, IssuedToUsers, dbVars, Active, Recent
<1> QED BY <1>1, <1>2, <1>3, <1>4, <1>5, Preserved

(* A request behind CheckCookie goes on, with rows to lock.                *)
LEMMA Moves ==
    ASSUME IInv, NEW r \in Requests, NEW next, NEW W \in SUBSET Lockable,
           pc[r] \notin {"new", "done", "checkUser", "clear"},
           next \in Stages(form[r].kind) \cup {"done"},
           pc' = [pc EXCEPT ![r] = next], want' = [want EXCEPT ![r] = W],
           UNCHANGED <<dbVars, reqVars, locks, history>>,
           HoldsAt(r)'
    PROVE  IInv'
<1>1. TypeOK'
  <2>1. next \in AllStages
    BY DEF AllStages, Stages
  <2> QED BY <2>1 DEF IInv, TypeOK, dbVars, reqVars, history
<1>2. \A q \in Requests \ {r} : Unmoved(q)
  BY DEF Unmoved, reqVars, IInv, TypeOK
<1>3. pc'[r] = next
  BY DEF IInv, TypeOK
<1>4. StageAt(r)'
  BY <1>3 DEF IInv, StageAt, UnderWay, dbVars, reqVars
<1>5. CookieAt(r)'
  BY <1>3 DEF IInv, CookieAt, OfPage, UnderWay, dbVars, reqVars, Found, Stages
<1>6. Exclusive'
  BY DEF IInv, Exclusive
<1> QED BY <1>1, <1>2, <1>4, <1>5, <1>6, LocalStep

LEMMA AnswerInv == ASSUME IInv, NEW r \in Requests, Answer(r) PROVE IInv'
<1>1. pc'[r] = "done" /\ TypeOK' /\ \A q \in Requests \ {r} : Unmoved(q)
  BY DEF Answer, Goto, IInv, TypeOK, AllStages, Unmoved, dbVars, reqVars, history
<1>2. Exclusive'
  BY DEF Answer, IInv, Exclusive
<1> QED BY <1>1, <1>2, EndsWell, LocalStep DEF Answer

LEMMA RollbackInv == ASSUME IInv, NEW r \in Requests, Rollback(r) PROVE IInv'
<1>1. pc'[r] = "done" /\ TypeOK' /\ \A q \in Requests \ {r} : Unmoved(q)
  BY DEF Rollback, Release, Goto, IInv, TypeOK, AllStages, Unmoved, dbVars, reqVars
<1>2. Exclusive'
  BY DEF Rollback, Release, IInv, TypeOK, Exclusive
<1> QED BY <1>1, <1>2, EndsWell, LocalStep DEF Rollback, Release, history

-----------------------------------------------------------------------------
(* Requests arrive.                                                        *)

LEMMA HandlerStage ==
    ASSUME NEW kind \in (Kinds \cup {"page"}) \ AdminKinds, NEW u \in Users \cup {Nobody}
    PROVE  /\ Handler(kind, u) \in Stages(kind) \cup {"done"}
           /\ kind = "change" /\ Handler(kind, u) # "done" => u \in Users
           /\ Handler(kind, u) \in {"done", "auth", "authenticate", "verify", "token", "user"}
BY KindsAssumption, NobodyAssumption DEF Handler, Stages, AdminKinds

LEMMA FormNames ==
    ASSUME NEW f \in Forms
    PROVE  /\ f \in [kind : Kinds, user : Users \cup {Nobody}, token : Tokens \cup {Nobody}]
           /\ f.kind \in AdminKinds \cup {"login", "request"} => f.user \in Users
           /\ f.kind = "reset" => f.token \in Tokens
BY DEF Forms

LEMMA BeginInv == ASSUME IInv, NEW r \in Requests, Begin(r) PROVE IInv'
<1>1. PICK f \in PageForms : form' = [form EXCEPT ![r] = f]
  BY DEF Begin
<1>2. PICK s \in Rows :
         /\ sessions[s].live
         /\ cookie' = [cookie EXCEPT ![r] = [row |-> s, gen |-> sessions[s].gen]]
         /\ acting' = [acting EXCEPT ![r] = sessions[s].user]
  BY DEF Begin
<1>3. /\ f \in [kind : Kinds, user : Users \cup {Nobody}, token : Tokens \cup {Nobody}]
      /\ f.kind \notin AdminKinds
      /\ f.kind \in {"login", "request"} => f.user \in Users
      /\ f.kind = "reset" => f.token \in Tokens /\ tokens[f.token].issued
  BY FormNames DEF PageForms
<1>4. /\ form'[r] = f /\ pc'[r] = "checkUser"
      /\ cookie'[r] = [row |-> s, gen |-> sessions[s].gen]
      /\ acting'[r] = sessions[s].user
  BY <1>1, <1>2 DEF Begin, Goto, IInv, TypeOK
<1>5. TypeOK'
  BY <1>1, <1>2, <1>3 DEF Begin, Goto, IInv, TypeOK, AllStages, dbVars, history, Sessions
<1>6. \A q \in Requests \ {r} : Unmoved(q)
  BY <1>1, <1>2 DEF Begin, Goto, Unmoved, IInv, TypeOK
<1>7. StageAt(r)'
  BY <1>3, <1>4 DEF StageAt, UnderWay, Begin, dbVars, AdminKinds
<1>8. HoldsAt(r)'
  BY <1>4 DEF HoldsAt
<1>9. CookieAt(r)'
  <2>1. sessions' = sessions /\ sessions[s].gen \in Nat /\ sessions[s].gen # 0
    BY <1>2 DEF Begin, dbVars, IInv, TypeOK, SignIns, Sessions
  <2>2. acting'[r] # Nobody => sessions[s].login > 0
    BY <1>2, <1>4 DEF IInv, SignIns
  <2> QED BY <1>4, <2>1, <2>2 DEF CookieAt, Found
<1>10. Exclusive'
  BY DEF Begin, IInv, Exclusive
<1> QED BY <1>5, <1>6, <1>7, <1>8, <1>9, <1>10, LocalStep DEF Begin

LEMMA BeginAdminInv == ASSUME IInv, NEW r \in Requests, BeginAdmin(r) PROVE IInv'
<1>1. PICK f \in Forms : /\ f.kind \in AdminKinds
                         /\ form' = [form EXCEPT ![r] = f]
                         /\ want' = [want EXCEPT ![r] = {f.user}]
  BY DEF BeginAdmin
<1>2. /\ f \in [kind : Kinds, user : Users \cup {Nobody}, token : Tokens \cup {Nobody}]
      /\ f.user \in Users
  BY <1>1, FormNames
<1>3. form'[r] = f /\ pc'[r] = "admin" /\ want'[r] = {f.user} /\ acting'[r] = acting[r]
  BY <1>1 DEF BeginAdmin, Goto, IInv, TypeOK
<1>4. TypeOK'
  BY <1>1, <1>2 DEF BeginAdmin, Goto, IInv, TypeOK, AllStages, Lockable, dbVars, history
<1>5. \A q \in Requests \ {r} : Unmoved(q)
  BY <1>1 DEF BeginAdmin, Goto, Unmoved, IInv, TypeOK
<1>6. StageAt(r)'
  BY <1>1, <1>2, <1>3 DEF StageAt, UnderWay, Stages, AdminKinds
<1>7. HoldsAt(r)'
  BY <1>3 DEF HoldsAt, Gets
<1>8. CookieAt(r)'
  BY <1>1, <1>3 DEF CookieAt, OfPage
<1>9. Exclusive'
  BY DEF BeginAdmin, IInv, Exclusive
<1> QED BY <1>4, <1>5, <1>6, <1>7, <1>8, <1>9, LocalStep DEF BeginAdmin

-----------------------------------------------------------------------------
(* Steps that change the table of sessions.                                *)

LEMMA SessionsInv ==
    ASSUME IInv, NEW r \in Requests, UNCHANGED <<user, tokens, locks>>,
           \A q \in Requests \ {r} : Unmoved(q),
           TypeOK', SessionsKeep, SignIns', StageAt(r)', HoldsAt(r)', CookieAt(r)'
    PROVE  IInv'
<1>1. \A q \in Requests \ {r} : Kept(q)
  BY DEF Kept, Active, Recent
<1>2. TokensGrow
  BY DEF TokensGrow
<1>3. OneActive' /\ IssuedToUsers' /\ Exclusive'
  BY DEF IInv, OneActive, IssuedToUsers, Exclusive, Active, Recent
<1> QED BY <1>1, <1>2, <1>3, Preserved

LEMMA BeginNewInv == ASSUME IInv, NEW r \in Requests, BeginNew(r) PROVE IInv'
<1> DEFINE s == CHOOSE s \in NewRows : TRUE
<1>1. s \in Rows /\ sessions[s].gen = 0
  BY DEF BeginNew, NewRows
<1>2. /\ sessions' = [sessions EXCEPT ![s] =
                         [live |-> TRUE, gen |-> 1, user |-> Nobody, login |-> 0]]
      /\ cookie' = [cookie EXCEPT ![r] = [row |-> s, gen |-> 1]]
  BY DEF BeginNew
<1> HIDE DEF s
<1>3. PICK f \in PageForms : /\ form' = [form EXCEPT ![r] = f]
                             /\ pc' = [pc EXCEPT ![r] = Handler(f.kind, Nobody)]
  BY DEF BeginNew, Goto
<1>4. /\ f \in [kind : Kinds, user : Users \cup {Nobody}, token : Tokens \cup {Nobody}]
      /\ f.kind \notin AdminKinds
      /\ f.kind \in {"login", "request"} => f.user \in Users
      /\ f.kind = "reset" => f.token \in Tokens /\ tokens[f.token].issued
  BY FormNames DEF PageForms
<1> DEFINE h == Handler(f.kind, Nobody)
<1>5. /\ h \in Stages(f.kind) \cup {"done"}
      /\ f.kind = "change" => h = "done"
      /\ h \in {"done", "auth", "authenticate", "verify", "token", "user"}
  BY <1>4, HandlerStage, NobodyAssumption
<1> HIDE DEF h
<1>6. /\ form'[r] = f /\ pc'[r] = h /\ cookie'[r] = [row |-> s, gen |-> 1]
      /\ acting'[r] = Nobody
  BY <1>2, <1>3 DEF BeginNew, h, IInv, TypeOK, CookieAt
<1>7. TypeOK'
  <2>1. sessions' \in [Rows -> Sessions]
    <3>1. [live |-> TRUE, gen |-> 1, user |-> Nobody, login |-> 0] \in Sessions
      BY DEF Sessions
    <3> QED BY <1>1, <1>2, <3>1 DEF IInv, TypeOK
  <2>2. /\ pc' \in [Requests -> AllStages]
        /\ form' \in [Requests -> [kind : Kinds \cup {"page"}, user : Users \cup {Nobody},
                                   token : Tokens \cup {Nobody}]]
        /\ cookie' \in [Requests -> [row : Rows \cup {Nobody}, gen : Nat]]
    BY <1>1, <1>2, <1>3, <1>4, <1>5 DEF h, IInv, TypeOK, AllStages
  <2> QED BY <2>1, <2>2 DEF BeginNew, IInv, TypeOK, history
<1>8. \A q \in Requests \ {r} : Unmoved(q)
  BY <1>2, <1>3 DEF BeginNew, Unmoved, IInv, TypeOK
<1>9. SessionsKeep
  BY <1>1, <1>2 DEF SessionsKeep, IInv, TypeOK, SignIns, Sessions
<1>10. SignIns'
  <2>1. sessions'[s] = [live |-> TRUE, gen |-> 1, user |-> Nobody, login |-> 0]
        /\ \A v \in Rows \ {s} : sessions'[v] = sessions[v]
    BY <1>1, <1>2 DEF IInv, TypeOK
  <2>2. logins \in Nat /\ UNCHANGED <<logins, revoked>>
    BY DEF BeginNew, history, IInv, TypeOK
  <2> QED BY <2>1, <2>2 DEF IInv, SignIns
<1>11. StageAt(r)'
  BY <1>4, <1>5, <1>6 DEF StageAt, UnderWay, BeginNew
<1>12. HoldsAt(r)'
  BY <1>5, <1>6 DEF HoldsAt
<1>13. CookieAt(r)'
  BY <1>1, <1>2, <1>6 DEF CookieAt, Found, IInv, TypeOK
<1> QED BY <1>7, <1>8, <1>9, <1>10, <1>11, <1>12, <1>13, SessionsInv DEF BeginNew

(* rotateSession, for a sign-in that is new or that the row already has.   *)
LEMMA RotatedKeeps ==
    ASSUME IInv, NEW id \in [row : Rows, gen : Nat], NEW u \in Users \cup {Nobody},
           NEW login \in Nat,
           sessions' = Rotated(id, u, login), logins' \in Nat, logins' >= logins,
           revoked' = revoked, u # Nobody => login > 0,
           sessions[id.row].login > 0 => login > 0,
           login = sessions[id.row].login \/ (login = logins + 1 /\ logins' = logins + 1)
    PROVE  /\ sessions' \in [Rows -> Sessions]
           /\ SessionsKeep /\ SignIns'
<1>1. CASE ~ Found(id)
  <2>1. sessions' = sessions
    BY <1>1 DEF Rotated
  <2> QED BY <2>1 DEF IInv, TypeOK, SessionsKeep, SignIns, Sessions
<1>2. CASE Found(id)
  <2> DEFINE s == id.row
  <2>1. s \in Rows /\ sessions[s].live /\ sessions[s].gen \in Nat /\ logins \in Nat
    BY <1>2 DEF Found, IInv, TypeOK
  <2>2. /\ sessions'[s] = [live |-> TRUE, gen |-> sessions[s].gen + 1, user |-> u,
                           login |-> login]
        /\ \A v \in Rows \ {s} : sessions'[v] = sessions[v]
        /\ sessions' = [v \in Rows |-> sessions'[v]]
    BY <1>2, <2>1 DEF Rotated, IInv, TypeOK
  <2>3. sessions' \in [Rows -> Sessions]
    <3>1. sessions'[s] \in Sessions
      BY <2>1, <2>2 DEF Sessions
    <3> QED BY <2>2, <3>1 DEF IInv, TypeOK
  <2>4. SessionsKeep
    BY <2>1, <2>2 DEF SessionsKeep, IInv, TypeOK, Sessions
  <2>5. revoked \subseteq 0..logins /\ \A v \in Rows : sessions[v].login \in 0..logins
    BY DEF IInv, TypeOK, SignIns, Sessions
  <2>6. SignIns'
    BY <2>1, <2>2, <2>5 DEF IInv, SignIns
  <2> QED BY <2>3, <2>4, <2>6
<1> QED BY <1>1, <1>2

LEMMA SignInInv == ASSUME IInv, NEW r \in Requests, SignIn(r) PROVE IInv'
<1>1. /\ cookie[r] \in [row : Rows, gen : Nat] /\ form[r].user \in Users
  BY DEF SignIn, IInv, TypeOK, StageAt, CookieAt, UnderWay, OfPage, Stages, AdminKinds
<1>2. logins \in Nat /\ logins + 1 > 0 /\ logins + 1 \in Nat /\ logins + 1 >= logins
  BY DEF IInv, TypeOK
<1>3. /\ sessions' \in [Rows -> Sessions]
      /\ SessionsKeep /\ SignIns'
  BY <1>1, <1>2, RotatedKeeps DEF SignIn
<1>4. TypeOK' /\ pc'[r] = "done" /\ \A q \in Requests \ {r} : Unmoved(q)
  BY <1>2, <1>3 DEF SignIn, Goto, IInv, TypeOK, AllStages, Unmoved, reqVars
<1> QED BY <1>3, <1>4, EndsWell, SessionsInv DEF SignIn

LEMMA RotateInv == ASSUME IInv, NEW r \in Requests, Rotate(r) PROVE IInv'
<1>1. PICK id, u, login :
         /\ id = cookie[r]
         /\ u = (IF form[r].kind = "change" THEN acting[r] ELSE Nobody)
         /\ login = sessions[id.row].login
  OBVIOUS
<1>2. /\ id \in [row : Rows, gen : Nat] /\ u \in Users \cup {Nobody}
      /\ u # Nobody => login > 0
      /\ login \in Nat /\ logins \in Nat
  BY <1>1 DEF Rotate, IInv, TypeOK, StageAt, CookieAt, UnderWay, OfPage, Stages, AdminKinds, Sessions
<1>3. sessions' = Rotated(id, u, login)
  BY <1>1 DEF Rotate
<1>4. /\ logins' = logins /\ revoked' = revoked
  <2>1. UNCHANGED history
    BY DEF Rotate
  <2> QED BY <2>1 DEF history
<1>5. /\ sessions' \in [Rows -> Sessions]
      /\ SessionsKeep /\ SignIns'
  <2>1. logins' \in Nat /\ logins' >= logins
    BY <1>2, <1>4
  <2>2. login = sessions[id.row].login
    BY <1>1
  <2> QED BY <1>2, <1>3, <1>4, <2>1, <2>2, RotatedKeeps
<1>6. TypeOK' /\ pc'[r] = "done" /\ \A q \in Requests \ {r} : Unmoved(q)
  BY <1>4, <1>5 DEF Rotate, Goto, IInv, TypeOK, AllStages, Unmoved, reqVars
<1> QED BY <1>5, <1>6, EndsWell, SessionsInv DEF Rotate

LEMMA CheckUserInv == ASSUME IInv, NEW r \in Requests, CheckUser(r) PROVE IInv'
<1>1. /\ form[r].kind \in (Kinds \cup {"page"}) \ AdminKinds
      /\ acting[r] \in Users \cup {Nobody} /\ OfPage(r)
  BY DEF CheckUser, IInv, TypeOK, StageAt, UnderWay, OfPage, Stages, AdminKinds
<1>2. Exclusive'
  BY DEF CheckUser, IInv, Exclusive
<1>3. CASE acting[r] = Nobody \/ MaySignIn(acting[r])
  <2> DEFINE h == Handler(form[r].kind, acting[r])
  <2>1. /\ h \in Stages(form[r].kind) \cup {"done"}
        /\ form[r].kind = "change" /\ h # "done" => acting[r] \in Users
        /\ h \in {"done", "auth", "authenticate", "verify", "token", "user"}
    BY <1>1, HandlerStage
  <2>2. pc' = [pc EXCEPT ![r] = h] /\ acting' = acting
    BY <1>3 DEF CheckUser, Goto
  <2> HIDE DEF h
  <2>3. pc'[r] = h
    BY <2>2 DEF IInv, TypeOK
  <2>4. TypeOK'
    BY <2>1, <2>2 DEF CheckUser, IInv, TypeOK, AllStages, dbVars, history
  <2>5. \A q \in Requests \ {r} : Unmoved(q)
    BY <2>2 DEF CheckUser, Unmoved, IInv, TypeOK
  <2>6. StageAt(r)'
    BY <2>1, <2>2, <2>3 DEF CheckUser, IInv, StageAt, UnderWay, dbVars
  <2>7. HoldsAt(r)'
    BY <2>1, <2>3 DEF HoldsAt
  <2>8. CookieAt(r)'
    BY <1>1, <2>1, <2>2, <2>3 DEF CheckUser, IInv, CookieAt, OfPage, UnderWay, Found, dbVars
  <2> QED BY <1>2, <2>4, <2>5, <2>6, <2>7, <2>8, LocalStep DEF CheckUser
<1>4. CASE ~ (acting[r] = Nobody \/ MaySignIn(acting[r]))
  <2>1. pc' = [pc EXCEPT ![r] = "clear"] /\ acting' = [acting EXCEPT ![r] = Nobody]
    BY <1>4 DEF CheckUser, Goto
  <2>2. pc'[r] = "clear" /\ acting'[r] = Nobody
    BY <2>1 DEF IInv, TypeOK
  <2>3. TypeOK'
    BY <2>1 DEF CheckUser, IInv, TypeOK, AllStages, dbVars, history
  <2>4. \A q \in Requests \ {r} : Unmoved(q)
    BY <2>1 DEF CheckUser, Unmoved, IInv, TypeOK
  <2>5. StageAt(r)'
    BY <1>1, <2>2 DEF CheckUser, IInv, StageAt, UnderWay, dbVars, AdminKinds
  <2>6. HoldsAt(r)'
    BY <2>2 DEF HoldsAt
  <2>7. CookieAt(r)'
    BY <1>1, <2>2 DEF CheckUser, IInv, CookieAt, OfPage, UnderWay, Found, dbVars
  <2> QED BY <1>2, <2>3, <2>4, <2>5, <2>6, <2>7, LocalStep DEF CheckUser
<1> QED BY <1>3, <1>4

(* The session loses its user, also for the requests that found one in it. *)
LEMMA ClearStaleInv == ASSUME IInv, NEW r \in Requests, ClearStale(r) PROVE IInv'
<1> DEFINE s == cookie[r].row
           h == Handler(form[r].kind, Nobody)
<1>1. /\ form[r].kind \in (Kinds \cup {"page"}) \ AdminKinds
      /\ OfPage(r) /\ s \in Rows
  BY DEF ClearStale, IInv, TypeOK, StageAt, CookieAt, UnderWay, OfPage, Stages, AdminKinds
<1>2. /\ h \in Stages(form[r].kind) \cup {"done"}
      /\ form[r].kind = "change" /\ h # "done" => Nobody \in Users
      /\ h \in {"done", "auth", "authenticate", "verify", "token", "user"}
  BY <1>1, HandlerStage
<1>3. pc' = [pc EXCEPT ![r] = h]
  BY DEF ClearStale, Goto
<1> HIDE DEF h
<1>4. pc'[r] = h
  BY <1>3 DEF IInv, TypeOK
<1>5. /\ sessions' = sessions \/ sessions' = [sessions EXCEPT ![s].user = Nobody]
      /\ Found(cookie[r])' => sessions'[s].user = Nobody
  BY <1>1 DEF ClearStale, IInv, TypeOK, Found, reqVars
<1>6. \A v \in Rows : /\ sessions'[v].live = sessions[v].live
                      /\ sessions'[v].gen = sessions[v].gen
                      /\ sessions'[v].login = sessions[v].login
                      /\ sessions'[v].user \in {sessions[v].user, Nobody}
  BY <1>1, <1>5 DEF IInv, TypeOK, Sessions
<1>7. TypeOK'
  <2>1. sessions[s] \in Sessions /\ [sessions[s] EXCEPT !.user = Nobody] \in Sessions
    BY <1>1, SessionChanged DEF IInv, TypeOK
  <2>2. sessions' \in [Rows -> Sessions]
    BY <1>1, <1>5, <2>1 DEF IInv, TypeOK
  <2> QED BY <1>2, <1>3, <2>2
          DEF ClearStale, IInv, TypeOK, AllStages, reqVars, history
<1>8. \A q \in Requests \ {r} : Unmoved(q)
  BY <1>3 DEF ClearStale, Unmoved, reqVars, IInv, TypeOK
<1>9. SessionsKeep
  BY <1>6 DEF SessionsKeep, IInv, TypeOK, Sessions
<1>10. SignIns'
  BY <1>6 DEF ClearStale, history, IInv, SignIns
<1>11. StageAt(r)'
  <2>1. form'[r] = form[r] /\ tokens' = tokens /\ acting' = acting
    BY DEF ClearStale, reqVars
  <2> QED BY <1>1, <1>2, <1>4, <2>1, NobodyAssumption DEF IInv, StageAt, UnderWay, OfPage
<1>12. HoldsAt(r)'
  BY <1>2, <1>4 DEF HoldsAt
<1>13. CookieAt(r)'
  BY <1>1, <1>2, <1>4, <1>5, <1>6
  DEF ClearStale, reqVars, IInv, CookieAt, OfPage, UnderWay, Found
<1> QED BY <1>7, <1>8, <1>9, <1>10, <1>11, <1>12, <1>13, SessionsInv DEF ClearStale

(* A session is deleted: by signing out, or because it expired.            *)
LEMMA DeadKeeps ==
    ASSUME IInv, NEW S \in SUBSET Rows,
           sessions' = [s \in Rows |-> IF s \in S THEN [sessions[s] EXCEPT !.live = FALSE]
                                       ELSE sessions[s]],
           logins' = logins,
           revoked' \subseteq revoked \cup {sessions[s].login : s \in S}
    PROVE  /\ sessions' \in [Rows -> Sessions]
           /\ revoked' \in SUBSET (0..logins)
           /\ SessionsKeep /\ SignIns'
<1>1. \A s \in Rows : /\ sessions'[s].live => sessions[s].live /\ s \notin S
                      /\ sessions'[s].gen = sessions[s].gen
                      /\ sessions'[s].user = sessions[s].user
                      /\ sessions'[s].login = sessions[s].login
                      /\ sessions[s].gen \in Nat /\ sessions[s].login \in 0..logins
  BY DEF IInv, TypeOK, SignIns, Sessions
<1>2. sessions' \in [Rows -> Sessions]
  BY SessionChanged DEF IInv, TypeOK
<1>3. revoked' \in SUBSET (0..logins)
  BY <1>1 DEF IInv, TypeOK
<1>4. SessionsKeep
  BY <1>1 DEF SessionsKeep
<1>5. SignIns'
  BY <1>1 DEF IInv, SignIns
<1> QED BY <1>2, <1>3, <1>4, <1>5

LEMMA LogoutInv == ASSUME IInv, NEW r \in Requests, Logout(r) PROVE IInv'
<1> DEFINE s == cookie[r].row
<1>1. s \in Rows
  BY DEF Logout, IInv, TypeOK, StageAt, CookieAt, UnderWay, OfPage, Stages, AdminKinds
<1>2. PICK S \in SUBSET Rows :
         /\ sessions' = [v \in Rows |-> IF v \in S THEN [sessions[v] EXCEPT !.live = FALSE]
                                        ELSE sessions[v]]
         /\ revoked' = revoked \cup {sessions[v].login : v \in S}
  <2>1. CASE Found(cookie[r])
    <3>1. /\ sessions' = [v \in Rows |-> IF v \in {s} THEN [sessions[v] EXCEPT !.live = FALSE]
                                         ELSE sessions[v]]
          /\ revoked' = revoked \cup {sessions[v].login : v \in {s}}
      BY <1>1, <2>1 DEF Logout, IInv, TypeOK
    <3> QED BY <1>1, <3>1
  <2>2. CASE ~ Found(cookie[r])
    <3>1. /\ sessions' = [v \in Rows |-> IF v \in {} THEN [sessions[v] EXCEPT !.live = FALSE]
                                         ELSE sessions[v]]
          /\ revoked' = revoked \cup {sessions[v].login : v \in {}}
      BY <2>2 DEF Logout, IInv, TypeOK
    <3> QED BY <3>1
  <2> QED BY <2>1, <2>2
<1>3. logins' = logins
  BY DEF Logout
<1>4. /\ sessions' \in [Rows -> Sessions]
      /\ revoked' \in SUBSET (0..logins)
      /\ SessionsKeep /\ SignIns'
  BY <1>2, <1>3, DeadKeeps
<1>5. TypeOK' /\ pc'[r] = "done" /\ \A q \in Requests \ {r} : Unmoved(q)
  BY <1>4 DEF Logout, Goto, IInv, TypeOK, AllStages, Unmoved, reqVars
<1> QED BY <1>4, <1>5, EndsWell, SessionsInv DEF Logout

-----------------------------------------------------------------------------
(* Steps that change no table: statements that read, wait or lock.         *)

LEMMA StageNames ==
    ASSUME IInv, NEW r \in Requests
    PROVE  /\ pc[r] = "auth" => form[r].kind \in {"page", "logout"}
           /\ pc[r] \in {"authenticate", "rehash"} =>
                 form[r].kind = "login" /\ form[r].user \in Users
           /\ pc[r] \in {"verify", "change", "changed"} =>
                 form[r].kind = "change" /\ acting[r] \in Users
           /\ pc[r] \in {"token", "resetUser", "resetPassword", "reset"} =>
                 /\ form[r].kind = "reset" /\ form[r].token \in Tokens
                 /\ tokens[form[r].token].issued /\ Target(r) \in Users
           /\ pc[r] \in {"user", "count", "issue"} =>
                 form[r].kind = "request" /\ form[r].user \in Users
           /\ pc[r] \in {"admin", "deleteTokens"} =>
                 form[r].kind \in AdminKinds /\ form[r].user \in Users
           /\ pc[r] \in {"revoke", "commit"} =>
                 /\ form[r].kind \in AdminKinds \cup {"change", "reset"}
                 /\ Target(r) \in Users
BY KindsAssumption
DEF IInv, TypeOK, StageAt, UnderWay, Stages, AdminKinds, IssuedToUsers, Target

LEMMA WantSame == IInv => \A r \in Requests : want = [want EXCEPT ![r] = want[r]]
BY DEF IInv, TypeOK

LEMMA AuthorizeInv == ASSUME IInv, NEW r \in Requests, Authorize(r) PROVE IInv'
<1>1. PICK next \in {"handler", "done"} : pc' = [pc EXCEPT ![r] = next]
  BY DEF Authorize, Goto
<1>2. pc[r] = "auth" /\ next \in Stages(form[r].kind) \cup {"done"}
  BY StageNames DEF Authorize, Stages
<1>3. HoldsAt(r)'
  <2>1. pc'[r] = next
    BY <1>1 DEF IInv, TypeOK
  <2> QED BY <2>1 DEF HoldsAt
<1>4. want[r] \in SUBSET Lockable /\ want' = [want EXCEPT ![r] = want[r]]
  BY WantSame DEF Authorize, IInv, TypeOK
<1> QED BY <1>1, <1>2, <1>3, <1>4, Moves DEF Authorize

LEMMA PasswordUpdatedInv == ASSUME IInv, NEW r \in Requests, PasswordUpdated(r) PROVE IInv'
<1>1. form[r].kind = "change" /\ pc[r] = "changed" /\ want[r] = {}
  BY StageNames DEF PasswordUpdated, At
<1>2. CASE Unchanged(r)
  <2>1. pc' = [pc EXCEPT ![r] = "revoke"] /\ UNCHANGED <<dbVars, reqVars, want, locks, history>>
    BY <1>2 DEF PasswordUpdated, Goto
  <2>2. acting[r] \in locks[r] /\ SamePassword(acting[r], stored[r])
    BY <1>1, <1>2 DEF IInv, HoldsAt, Gets, Unchanged
  <2>3. HoldsAt(r)'
    <3>1. pc'[r] = "revoke"
      BY <2>1 DEF IInv, TypeOK
    <3> QED BY <1>1, <2>1, <2>2, <3>1 DEF HoldsAt, Target, SamePassword, dbVars, reqVars
  <2>4. want[r] \in SUBSET Lockable /\ want' = [want EXCEPT ![r] = want[r]]
    BY <2>1, WantSame DEF IInv, TypeOK
  <2>5. "revoke" \in Stages(form[r].kind) \cup {"done"}
    BY <1>1 DEF Stages
  <2> QED BY <1>1, <2>1, <2>3, <2>4, <2>5, Moves
<1>3. CASE ~ Unchanged(r)
  BY <1>3, RollbackInv DEF PasswordUpdated
<1> QED BY <1>2, <1>3

LEMMA PasswordResetInv == ASSUME IInv, NEW r \in Requests, PasswordReset(r) PROVE IInv'
<1>1. /\ form[r].kind = "reset" /\ pc[r] = "reset"
      /\ Target(r) \in locks[r] /\ HoldsToken(r)
  BY StageNames DEF PasswordReset, At, IInv, HoldsAt, Gets
<1>2. CASE user[Target(r)].exists
  <2>1. pc' = [pc EXCEPT ![r] = "revoke"] /\ UNCHANGED <<dbVars, reqVars, want, locks, history>>
    BY <1>2 DEF PasswordReset, Goto
  <2>2. HoldsAt(r)'
    <3>1. pc'[r] = "revoke"
      BY <2>1 DEF IInv, TypeOK
    <3> QED BY <1>1, <2>1, <3>1 DEF HoldsAt, HoldsToken, Target, dbVars, reqVars
  <2>3. want[r] \in SUBSET Lockable /\ want' = [want EXCEPT ![r] = want[r]]
    BY <2>1, WantSame DEF IInv, TypeOK
  <2>4. "revoke" \in Stages(form[r].kind) \cup {"done"}
    BY <1>1 DEF Stages
  <2> QED BY <1>1, <2>1, <2>2, <2>3, <2>4, Moves
<1>3. CASE ~ user[Target(r)].exists
  BY <1>3, RollbackInv DEF PasswordReset
<1> QED BY <1>2, <1>3

LEMMA AdminLockedInv == ASSUME IInv, NEW r \in Requests, AdminLocked(r) PROVE IInv'
<1>1. /\ form[r].kind \in AdminKinds /\ pc[r] = "admin"
      /\ form[r].user \in locks[r] /\ Target(r) = form[r].user
  BY StageNames DEF AdminLocked, At, IInv, HoldsAt, Gets, Target, AdminKinds
<1>2. CASE Admissible(form[r].kind, form[r].user)
  <2>1. PICK next \in {"commit", "revoke"} : pc' = [pc EXCEPT ![r] = next]
    BY <1>2 DEF AdminLocked, Goto
  <2>2. UNCHANGED <<dbVars, reqVars, want, locks, history>>
    BY <1>2 DEF AdminLocked
  <2>3. HoldsAt(r)'
    <3>1. pc'[r] = next
      BY <2>1 DEF IInv, TypeOK
    <3> QED BY <1>1, <2>2, <3>1 DEF HoldsAt, Target, dbVars, reqVars, AdminKinds
  <2>4. want[r] \in SUBSET Lockable /\ want' = [want EXCEPT ![r] = want[r]]
    BY <2>2, WantSame DEF IInv, TypeOK
  <2>5. next \in Stages(form[r].kind) \cup {"done"}
    BY <1>1 DEF Stages, AdminKinds
  <2> QED BY <1>1, <2>1, <2>2, <2>3, <2>4, <2>5, Moves
<1>3. CASE ~ Admissible(form[r].kind, form[r].user)
  BY <1>3, RollbackInv DEF AdminLocked
<1> QED BY <1>2, <1>3

(* A statement that locks rows.                                            *)
LEMMA LockInv ==
    ASSUME IInv, NEW r \in Requests, NEW S \in SUBSET Lockable, NEW next,
           pc[r] \notin {"new", "done", "checkUser", "clear"},
           next \in Stages(form[r].kind), Lock(r, S, next), HoldsAt(r)'
    PROVE  IInv'
<1>1. S \ locks[r] \in SUBSET Lockable /\ next \in Stages(form[r].kind) \cup {"done"}
  OBVIOUS
<1>2. /\ want' = [want EXCEPT ![r] = S \ locks[r]]
      /\ pc' = [pc EXCEPT ![r] = next]
      /\ UNCHANGED <<dbVars, reqVars, locks, history>>
  BY DEF Lock, Goto
<1> QED BY <1>1, <1>2, Moves

LEMMA Locking ==
    ASSUME IInv, NEW r \in Requests, NEW S, NEW next, Lock(r, S, next)
    PROVE  /\ pc'[r] = next
           /\ want'[r] = S \ locks[r] /\ locks'[r] = locks[r]
           /\ UNCHANGED <<user, sessions, tokens, form, cookie, acting, stored>>
BY DEF Lock, Goto, dbVars, reqVars, IInv, TypeOK

LEMMA UpdatePasswordInv == ASSUME IInv, NEW r \in Requests, UpdatePassword(r) PROVE IInv'
<1>1. /\ pc[r] = "change" /\ form[r].kind = "change" /\ {acting[r]} \in SUBSET Lockable
      /\ Lock(r, {acting[r]}, "changed")
  BY StageNames DEF UpdatePassword, At, Lockable
<1>2. HoldsAt(r)'
  <2>1. pc'[r] = "changed" /\ want'[r] = {acting[r]} \ locks[r] /\ locks'[r] = locks[r]
        /\ acting' = acting
    BY <1>1, Locking
  <2> QED BY <2>1 DEF HoldsAt, Gets
<1>3. "changed" \in Stages(form[r].kind)
  BY <1>1 DEF Stages
<1> QED BY <1>1, <1>2, <1>3, LockInv

LEMMA LockTokenInv == ASSUME IInv, NEW r \in Requests, LockToken(r) PROVE IInv'
<1> DEFINE t == form[r].token
<1>1. pc[r] = "token" /\ form[r].kind = "reset" /\ {t} \in SUBSET Lockable
  BY StageNames DEF LockToken, At, Lockable
<1>2. CASE Usable(t)
  <2>1. Lock(r, {t}, "resetUser")
    BY <1>2 DEF LockToken
  <2>2. HoldsAt(r)'
    <3>1. pc'[r] = "resetUser" /\ want'[r] = {t} \ locks[r] /\ locks'[r] = locks[r]
          /\ form' = form
      BY <2>1, Locking
    <3> QED BY <3>1 DEF HoldsAt, Gets
  <2>3. "resetUser" \in Stages(form[r].kind)
    BY <1>1 DEF Stages
  <2> HIDE DEF t
  <2> QED BY <1>1, <2>1, <2>2, <2>3, LockInv
<1>3. CASE ~ Usable(t)
  BY <1>3, AnswerInv DEF LockToken
<1> QED BY <1>2, <1>3

LEMMA ResetUserInv == ASSUME IInv, NEW r \in Requests, ResetUser(r) PROVE IInv'
<1> DEFINE t == form[r].token
           S == Active(tokens[t].user)
<1>1. pc[r] = "resetUser" /\ form[r].kind = "reset" /\ S \in SUBSET Lockable
      /\ want[r] = {}
  BY StageNames DEF ResetUser, At, Lockable, Active
<1>2. CASE StillUnused(t) /\ MaySignIn(tokens[t].user)
  <2>1. Lock(r, S, "resetPassword")
    BY <1>2 DEF ResetUser
  <2>2. HoldsAt(r)'
    <3> HIDE DEF S
    <3>1. pc'[r] = "resetPassword" /\ locks'[r] = locks[r] /\ form' = form /\ tokens' = tokens
      BY <2>1, Locking
    <3>2. t \in locks[r] /\ ~ tokens[t].done
      BY <1>1, <1>2 DEF IInv, HoldsAt, Gets, StillUnused
    <3> QED BY <3>1, <3>2 DEF HoldsAt, HoldsToken
  <2>3. "resetPassword" \in Stages(form[r].kind)
    BY <1>1 DEF Stages
  <2> HIDE DEF S
  <2> QED BY <1>1, <2>1, <2>2, <2>3, LockInv
<1>3. CASE ~ (StillUnused(t) /\ MaySignIn(tokens[t].user))
  BY <1>3, RollbackInv DEF ResetUser
<1> QED BY <1>2, <1>3

LEMMA ResetPasswordInv == ASSUME IInv, NEW r \in Requests, ResetPassword(r) PROVE IInv'
<1> DEFINE S == {Target(r)}
<1>1. /\ pc[r] = "resetPassword" /\ form[r].kind = "reset" /\ S \in SUBSET Lockable
      /\ Lock(r, S, "reset") /\ HoldsToken(r)
  BY StageNames DEF ResetPassword, At, Lockable, IInv, HoldsAt
<1>2. HoldsAt(r)'
  <2>1. /\ pc'[r] = "reset" /\ want'[r] = S \ locks[r] /\ locks'[r] = locks[r]
        /\ form' = form /\ tokens' = tokens /\ acting' = acting
    BY <1>1, Locking
  <2>2. Gets(r, Target(r))'
    BY <2>1 DEF Gets, Target
  <2> QED BY <1>1, <2>1, <2>2 DEF HoldsAt, HoldsToken
<1>3. "reset" \in Stages(form[r].kind)
  BY <1>1 DEF Stages
<1> HIDE DEF S
<1> QED BY <1>1, <1>2, <1>3, LockInv

LEMMA LockUserInv == ASSUME IInv, NEW r \in Requests, LockUser(r) PROVE IInv'
<1> DEFINE S == UserRow(form[r].user)
<1>1. pc[r] = "user" /\ form[r].kind = "request" /\ S \in SUBSET Lockable
  BY StageNames DEF LockUser, At, Lockable, UserRow
<1>2. CASE MaySignIn(form[r].user)
  <2>1. Lock(r, S, "count")
    BY <1>2 DEF LockUser
  <2>2. HoldsAt(r)'
    <3>1. pc'[r] = "count" /\ want'[r] = S \ locks[r] /\ locks'[r] = locks[r]
          /\ form' = form
      BY <2>1, Locking
    <3> QED BY <3>1 DEF HoldsAt, Gets, UserRow
  <2>3. "count" \in Stages(form[r].kind)
    BY <1>1 DEF Stages
  <2> HIDE DEF S
  <2> QED BY <1>1, <2>1, <2>2, <2>3, LockInv
<1>3. CASE ~ MaySignIn(form[r].user)
  BY <1>3, AnswerInv DEF LockUser
<1> QED BY <1>2, <1>3

LEMMA CountRecentInv == ASSUME IInv, NEW r \in Requests, CountRecent(r) PROVE IInv'
<1> DEFINE u == form[r].user
           S == Superseded(u)
<1>1. pc[r] = "count" /\ form[r].kind = "request" /\ S \in SUBSET Lockable
      /\ u \in locks[r]
  BY StageNames DEF CountRecent, At, Lockable, Superseded, Active, IInv, HoldsAt, Gets
<1>2. CASE MaySignIn(u) /\ Recent(u) = {}
  <2>1. Lock(r, S, "issue")
    BY <1>2 DEF CountRecent
  <2>2. HoldsAt(r)'
    <3>1. pc'[r] = "issue" /\ want'[r] = S \ locks[r] /\ locks'[r] = locks[r]
          /\ form' = form /\ tokens' = tokens
      BY <2>1, Locking
    <3>2. Recent(form[r].user)' = {} /\ \A t \in Active(form[r].user)' : Gets(r, t)'
      BY <1>2, <3>1 DEF Gets, Superseded, Recent, Active
    <3> QED BY <1>1, <3>1, <3>2 DEF HoldsAt
  <2>3. "issue" \in Stages(form[r].kind)
    BY <1>1 DEF Stages
  <2> HIDE DEF S
  <2> QED BY <1>1, <2>1, <2>2, <2>3, LockInv
<1>3. CASE ~ (MaySignIn(u) /\ Recent(u) = {})
  BY <1>3, RollbackInv DEF CountRecent
<1> QED BY <1>2, <1>3

LEMMA DeleteTokensInv == ASSUME IInv, NEW r \in Requests, DeleteTokens(r) PROVE IInv'
<1> DEFINE S == {t \in Tokens : tokens[t].issued /\ tokens[t].user = form[r].user}
<1>1. /\ pc[r] = "deleteTokens" /\ form[r].kind \in AdminKinds /\ S \in SUBSET Lockable
      /\ Lock(r, S, "commit") /\ Target(r) \in locks[r]
  BY StageNames DEF DeleteTokens, At, Lockable, IInv, HoldsAt
<1>2. HoldsAt(r)'
  <2> HIDE DEF S
  <2>1. pc'[r] = "commit" /\ locks'[r] = locks[r]
        /\ UNCHANGED <<tokens, form, acting>>
    BY <1>1, Locking
  <2>2. Target(r)' = Target(r)
    BY <2>1 DEF Target
  <2> QED BY <1>1, <2>1, <2>2 DEF HoldsAt, AdminKinds
<1>3. "commit" \in Stages(form[r].kind)
  BY <1>1 DEF Stages, AdminKinds
<1> HIDE DEF S
<1> QED BY <1>1, <1>2, <1>3, LockInv

LEMMA RevokeInv == ASSUME IInv, NEW r \in Requests, Revoke(r) PROVE IInv'
<1>1. PICK next \in {"deleteTokens", "commit"} :
         /\ pc' = [pc EXCEPT ![r] = next]
         /\ form[r].kind = "delete" <=> next = "deleteTokens"
  BY DEF Revoke, Goto
<1>2. PICK W \in SUBSET Lockable : want' = [want EXCEPT ![r] = W]
  BY DEF Revoke, Revocable, SessionsOf, Lockable
<1>3. pc[r] = "revoke" /\ UNCHANGED <<dbVars, reqVars, locks, history>>
  BY DEF Revoke, At
<1>4. HoldsAt(r)'
  <2>1. pc'[r] = next
    BY <1>1 DEF IInv, TypeOK
  <2>2. /\ form[r].kind \notin {"page", "login", "logout", "request"}
        /\ Target(r) \in locks[r]
        /\ form[r].kind = "reset" => HoldsToken(r)
        /\ form[r].kind = "change" => SamePassword(acting[r], stored[r])
    BY <1>3 DEF IInv, HoldsAt
  <2> QED BY <1>3, <2>1, <2>2 DEF HoldsAt, HoldsToken, SamePassword, Target, dbVars, reqVars
<1>5. next \in Stages(form[r].kind) \cup {"done"}
  BY <1>1, <1>3, StageNames DEF Stages, AdminKinds
<1> QED BY <1>1, <1>2, <1>3, <1>4, <1>5, Moves

(* A row is locked that no other request holds.                            *)
LEMMA AcquireInv ==
    ASSUME IInv, NEW r \in Requests, NEW x \in want[r], Acquire(r, x)
    PROVE  IInv'
<1>1. x \in Lockable /\ Free(x, r) /\ UNCHANGED <<dbVars, reqVars, pc, history>>
  BY DEF Acquire, IInv, TypeOK
<1>2. /\ want' = [want EXCEPT ![r] = want[r] \ {x}]
      /\ locks' = [locks EXCEPT ![r] = locks[r] \cup {x}]
  BY DEF Acquire
<1>3. TypeOK'
  BY <1>1, <1>2 DEF IInv, TypeOK, dbVars, reqVars, history
<1>4. \A q \in Requests \ {r} : Unmoved(q)
  BY <1>1, <1>2 DEF Unmoved, reqVars, IInv, TypeOK
<1>5. StageAt(r)'
  BY <1>1 DEF IInv, StageAt, UnderWay, dbVars, reqVars
<1>6. CookieAt(r)'
  BY <1>1 DEF IInv, CookieAt, OfPage, UnderWay, dbVars, reqVars, Found
<1>7. Exclusive'
  BY <1>1, <1>2 DEF IInv, TypeOK, Exclusive, Free
<1>8. HoldsAt(r)'
  <2>1. locks[r] \subseteq locks'[r] /\ locks[r] \cup want[r] \subseteq locks'[r] \cup want'[r]
    BY <1>2 DEF IInv, TypeOK
  <2> QED BY <1>1, <2>1 DEF IInv, HoldsAt, HoldsToken, Gets, Target, SamePassword, Active,
                            Recent, dbVars, reqVars
<1> QED BY <1>1, <1>3, <1>4, <1>5, <1>6, <1>7, <1>8, LocalStep

(* A row of users is read.                                                 *)
LEMMA ReadsUser ==
    ASSUME IInv, NEW r \in Requests, NEW u \in Users, NEW next,
           pc[r] \notin {"new", "done", "checkUser", "clear"},
           next \in {"done", "rehash", "signIn", "change"},
           next \in Stages(form[r].kind) \cup {"done"},
           stored' = [stored EXCEPT ![r] = user[u]], pc' = [pc EXCEPT ![r] = next],
           UNCHANGED <<dbVars, form, cookie, acting, want, locks, history>>
    PROVE  IInv'
<1>1. pc'[r] = next /\ UNCHANGED <<user, sessions, tokens, logins, revoked>>
  BY DEF IInv, TypeOK, dbVars, history
<1>2. TypeOK'
  <2>1. stored' \in [Requests -> Secrets]
    BY DEF IInv, TypeOK
  <2>2. pc' \in [Requests -> AllStages]
    BY DEF IInv, TypeOK, AllStages
  <2> QED BY <1>1, <2>1, <2>2 DEF IInv, TypeOK
<1>3. \A q \in Requests \ {r} : Unmoved(q)
  BY DEF Unmoved, IInv, TypeOK
<1>4. StageAt(r)'
  BY <1>1 DEF IInv, StageAt, UnderWay
<1>5. HoldsAt(r)'
  BY <1>1 DEF HoldsAt
<1>6. CookieAt(r)'
  BY <1>1 DEF IInv, CookieAt, OfPage, UnderWay, Found
<1>7. Exclusive'
  BY DEF IInv, Exclusive
<1> QED BY <1>2, <1>3, <1>4, <1>5, <1>6, <1>7, LocalStep

LEMMA AuthenticateInv == ASSUME IInv, NEW r \in Requests, Authenticate(r) PROVE IInv'
<1>1. PICK next \in {"done", "rehash", "signIn"} : pc' = [pc EXCEPT ![r] = next]
  BY DEF Authenticate, Goto
<1>2. pc[r] = "authenticate" /\ form[r].kind = "login" /\ form[r].user \in Users
  BY StageNames DEF Authenticate
<1>3. next \in Stages(form[r].kind) \cup {"done"}
  BY <1>1, <1>2 DEF Stages
<1> QED BY <1>1, <1>2, <1>3, ReadsUser DEF Authenticate

LEMMA VerifyPasswordInv == ASSUME IInv, NEW r \in Requests, VerifyPassword(r) PROVE IInv'
<1>1. PICK next \in {"done", "change"} : pc' = [pc EXCEPT ![r] = next]
  BY DEF VerifyPassword, Goto
<1>2. pc[r] = "verify" /\ form[r].kind = "change" /\ acting[r] \in Users
  BY StageNames DEF VerifyPassword
<1>3. next \in Stages(form[r].kind) \cup {"done"}
  BY <1>1, <1>2 DEF Stages
<1> QED BY <1>1, <1>2, <1>3, ReadsUser DEF VerifyPassword

LEMMA AbortDeadlockInv == ASSUME IInv, NEW r \in Requests, AbortDeadlock(r) PROVE IInv'
BY RollbackInv DEF AbortDeadlock

-----------------------------------------------------------------------------
(* Steps that change users and tokens.                                     *)

PasswordSet(f, u, n) == [f EXCEPT ![u].secret = n, ![u].old = FALSE]

LEMMA SecretSet ==
    ASSUME NEW f \in [Users -> Secrets], NEW u \in Users, NEW n \in Nat
    PROVE  /\ PasswordSet(f, u, n) \in [Users -> Secrets]
           /\ \A v \in Users \ {u} : PasswordSet(f, u, n)[v] = f[v]
           /\ PasswordSet(f, u, n)[u].secret = n
<1>1. /\ [f[u] EXCEPT !.secret = n] \in Secrets /\ [f[u] EXCEPT !.secret = n].secret = n
      /\ \A x \in Secrets : [x EXCEPT !.old = FALSE] \in Secrets
                            /\ [x EXCEPT !.old = FALSE].secret = x.secret
  BY DEF Secrets
<1>2. PICK h : h = [f EXCEPT ![u].secret = n]
  OBVIOUS
<1>3. h \in [Users -> Secrets] /\ h[u].secret = n /\ \A v \in Users \ {u} : h[v] = f[v]
  BY <1>1, <1>2
<1>4. PasswordSet(f, u, n) = [h EXCEPT ![u].old = FALSE]
  BY <1>2 DEF PasswordSet
<1> QED BY <1>1, <1>3, <1>4

(* The hash of a password is replaced by a request without a transaction,  *)
(* while no other request holds the row.                                   *)
LEMMA RehashInv == ASSUME IInv, NEW r \in Requests, Rehash(r) PROVE IInv'
<1> DEFINE u == form[r].user
<1>1. /\ pc[r] = "rehash" /\ form[r].kind = "login" /\ u \in Users /\ Free(u, r)
      /\ UNCHANGED <<sessions, tokens, form, cookie, acting, stored, want, locks, logins,
                     revoked>>
  BY StageNames DEF Rehash, reqVars, history
<1>2. PICK next \in {"done", "signIn"} : pc' = [pc EXCEPT ![r] = next]
  BY DEF Rehash, Goto
<1>3. pc'[r] = next /\ next \in AllStages
  BY <1>2 DEF IInv, TypeOK, AllStages
<1>4. /\ user' \in [Users -> Secrets]
      /\ \A v \in Users \ {u} : user'[v] = user[v]
  <2>1. stored[r].secret \in Nat /\ user \in [Users -> Secrets]
    BY DEF IInv, TypeOK, Secrets
  <2>2. user' = PasswordSet(user, u, stored[r].secret) \/ user' = user
    BY DEF Rehash, Rehashed, PasswordSet
  <2> QED BY <1>1, <2>1, <2>2, SecretSet
<1>5. TypeOK'
  BY <1>1, <1>2, <1>3, <1>4 DEF IInv, TypeOK
<1>6. \A q \in Requests \ {r} : Unmoved(q)
  BY <1>1, <1>2 DEF Unmoved, IInv, TypeOK
<1>7. \A q \in Requests \ {r} : Kept(q)
  BY <1>1, <1>4 DEF Kept, Free, Active, Recent
<1>8. TokensGrow /\ SessionsKeep /\ SignIns' /\ OneActive' /\ IssuedToUsers' /\ Exclusive'
  BY <1>1 DEF TokensGrow, SessionsKeep, IInv, TypeOK, Sessions, SignIns, OneActive,
              IssuedToUsers, Exclusive, Active, Recent
<1>9. StageAt(r)'
  BY <1>1, <1>3 DEF IInv, StageAt, UnderWay, Stages
<1>10. HoldsAt(r)'
  BY <1>3 DEF HoldsAt
<1>11. CookieAt(r)'
  BY <1>1, <1>3 DEF IInv, CookieAt, OfPage, UnderWay, Found
<1> QED BY <1>5, <1>6, <1>7, <1>8, <1>9, <1>10, <1>11, Preserved

-----------------------------------------------------------------------------
(* Transactions commit.                                                    *)

(* A commit changes tokens that it has locked, and makes none of them      *)
(* usable again.                                                           *)
TokensClose(r) ==
    \A t \in Tokens :
        /\ tokens'[t].issued = tokens[t].issued /\ tokens'[t].user = tokens[t].user
        /\ tokens[t].done => tokens'[t].done
        /\ tokens'[t].age = "new" => tokens[t].age = "new"
        /\ t \notin locks[r] => tokens'[t] = tokens[t]

LEMMA CommitInv ==
    ASSUME IInv, NEW r \in Requests, NEW u \in Users, NEW S \in SUBSET Rows, NEW next,
           pc[r] = "commit", u \in locks[r],
           next = "done" \/ (next = "rotate" /\ form[r].kind \in {"change", "reset"}),
           user' \in [Users -> Secrets], \A v \in Users \ {u} : user'[v] = user[v],
           tokens' \in [Tokens -> Resets], TokensClose(r),
           sessions' = Without(S), revoked' \subseteq revoked \cup LoginsOf(S),
           logins' = logins, Release(r, next)
    PROVE  IInv'
<1>1. /\ pc' = [pc EXCEPT ![r] = next] /\ want' = [want EXCEPT ![r] = {}]
      /\ locks' = [locks EXCEPT ![r] = {}]
      /\ UNCHANGED <<form, cookie, acting, stored>>
  BY DEF Release, Goto, reqVars
<1>2. pc'[r] = next /\ locks'[r] = {}
  BY <1>1 DEF IInv, TypeOK
<1>3. /\ sessions' \in [Rows -> Sessions] /\ revoked' \in SUBSET (0..logins)
      /\ SessionsKeep /\ SignIns'
  BY DeadKeeps DEF Without, LoginsOf
<1>4. TypeOK'
  <2>1. pc' \in [Requests -> AllStages]
    BY <1>1 DEF IInv, TypeOK, AllStages
  <2> QED BY <1>1, <1>3, <2>1 DEF IInv, TypeOK
<1>5. \A q \in Requests \ {r} : Unmoved(q)
  BY <1>1 DEF Unmoved, IInv, TypeOK
<1>6. \A q \in Requests \ {r} : Kept(q)
  <2> SUFFICES ASSUME NEW q \in Requests, q # r PROVE Kept(q)
    OBVIOUS
  <2>1. locks[q] \cap locks[r] = {}
    BY DEF IInv, Exclusive
  <2>2. \A v \in Users \cap locks[q] : user'[v] = user[v]
    BY <2>1
  <2>3. \A v \in Users : Active(v)' \subseteq Active(v) /\ Recent(v)' \subseteq Recent(v)
    BY DEF TokensClose, Active, Recent
  <2>4. \A t \in Tokens \cap locks[q] : tokens'[t] = tokens[t]
    BY <2>1 DEF TokensClose
  <2> QED BY <2>2, <2>3, <2>4 DEF Kept
<1>7. TokensGrow /\ IssuedToUsers'
  BY DEF TokensClose, TokensGrow, IInv, IssuedToUsers
<1>8. OneActive'
  <2>1. \A v \in Users : Active(v)' \subseteq Active(v) /\ Recent(v)' \subseteq Recent(v)
    BY DEF TokensClose, Active, Recent
  <2> QED BY <2>1 DEF IInv, OneActive
<1>9. Exclusive'
  BY <1>1, <1>2 DEF IInv, TypeOK, Exclusive
<1>10. StageAt(r)'
  BY <1>1, <1>2, <1>7 DEF IInv, StageAt, UnderWay, Stages, TokensGrow, AdminKinds
<1>11. HoldsAt(r)'
  BY <1>2 DEF HoldsAt
<1>12. CookieAt(r)'
  BY <1>1, <1>2, <1>3, <1>4, CookieStays DEF IInv
<1> QED BY <1>3, <1>4, <1>5, <1>6, <1>7, <1>8, <1>9, <1>10, <1>11, <1>12, Preserved

(* What a commit knows of its target and of the sessions it deletes.       *)
LEMMA CommitNames ==
    ASSUME IInv, NEW r \in Requests, At(r, "commit")
    PROVE  /\ pc[r] = "commit" /\ Target(r) \in Users \cap locks[r]
           /\ RevokedSessions(r) \in SUBSET Rows
           /\ user \in [Users -> Secrets] /\ tokens \in [Tokens -> Resets]
           /\ form[r].kind = "change" => Target(r) = acting[r]
           /\ form[r].kind \in AdminKinds => Target(r) = form[r].user
<1>1. pc[r] = "commit"
  BY DEF At
<1>2. Target(r) \in Users \cap locks[r]
  BY <1>1, StageNames DEF IInv, HoldsAt
<1>3. RevokedSessions(r) \in SUBSET Rows
  BY DEF RevokedSessions, Revocable, SessionsOf
<1> QED BY <1>1, <1>2, <1>3 DEF IInv, TypeOK, Target, AdminKinds

LEMMA TokensSame == ASSUME NEW r \in Requests, tokens' = tokens PROVE TokensClose(r)
BY DEF TokensClose

LEMMA NewSecretSet ==
    ASSUME IInv, NEW u \in Users
    PROVE  /\ NewSecret(u) \in [Users -> Secrets]
           /\ \A v \in Users \ {u} : NewSecret(u)[v] = user[v]
           /\ NewSecret(u)[u].secret = user[u].secret + 1
<1>1. user \in [Users -> Secrets] /\ user[u].secret + 1 \in Nat
  BY DEF IInv, TypeOK, Secrets
<1>2. NewSecret(u) = PasswordSet(user, u, user[u].secret + 1)
  BY <1>1 DEF NewSecret, PasswordSet
<1> QED BY <1>1, <1>2, SecretSet

LEMMA CommitChangeInv == ASSUME IInv, NEW r \in Requests, CommitChange(r) PROVE IInv'
<1>1. PICK u, S : u = acting[r] /\ S = RevokedSessions(r)
  OBVIOUS
<1>2. /\ pc[r] = "commit" /\ u \in Users /\ u \in locks[r] /\ S \in SUBSET Rows
      /\ form[r].kind = "change" /\ tokens' \in [Tokens -> Resets] /\ TokensClose(r)
  BY <1>1, CommitNames, TokensSame DEF CommitChange
<1>3. user' \in [Users -> Secrets] /\ \A v \in Users \ {u} : user'[v] = user[v]
  BY <1>1, <1>2, NewSecretSet DEF CommitChange
<1>4. /\ sessions' = Without(S) /\ revoked' = revoked \cup LoginsOf(S)
      /\ logins' = logins /\ Release(r, "rotate")
  BY <1>1 DEF CommitChange
<1> QED BY <1>2, <1>3, <1>4, CommitInv

(* Tokens that are used: Spent.                                            *)
LEMMA SpentCloses ==
    ASSUME IInv, NEW r \in Requests, tokens' = Spent(Tokens \cap locks[r])
    PROVE  tokens' \in [Tokens -> Resets] /\ TokensClose(r)
<1>1. \A x \in Resets : [x EXCEPT !.done = TRUE] \in Resets
                        /\ [x EXCEPT !.done = TRUE].done = TRUE
                        /\ [x EXCEPT !.done = TRUE].issued = x.issued
                        /\ [x EXCEPT !.done = TRUE].user = x.user
                        /\ [x EXCEPT !.done = TRUE].age = x.age
  BY DEF Resets
<1>2. tokens \in [Tokens -> Resets]
  BY DEF IInv, TypeOK
<1> QED BY <1>1, <1>2 DEF Spent, TokensClose

LEMMA CommitResetInv == ASSUME IInv, NEW r \in Requests, CommitReset(r) PROVE IInv'
<1>1. PICK u, S : u = Target(r) /\ S = RevokedSessions(r)
  OBVIOUS
<1>2. /\ pc[r] = "commit" /\ u \in Users /\ u \in locks[r] /\ S \in SUBSET Rows
      /\ form[r].kind = "reset" /\ tokens' \in [Tokens -> Resets] /\ TokensClose(r)
  BY <1>1, CommitNames, SpentCloses DEF CommitReset
<1>3. user' \in [Users -> Secrets] /\ \A v \in Users \ {u} : user'[v] = user[v]
  BY <1>1, <1>2, NewSecretSet DEF CommitReset
<1>4. /\ sessions' = Without(S) /\ revoked' = revoked \cup LoginsOf(S)
      /\ logins' = logins /\ Release(r, "rotate")
  BY <1>1 DEF CommitReset
<1> QED BY <1>2, <1>3, <1>4, CommitInv

LEMMA UserMarked ==
    ASSUME NEW x \in Secrets, NEW b \in BOOLEAN
    PROVE  [x EXCEPT !.blocked = b] \in Secrets /\ [x EXCEPT !.exists = b] \in Secrets
BY DEF Secrets

LEMMA CommitBlockInv == ASSUME IInv, NEW r \in Requests, CommitBlock(r) PROVE IInv'
<1>1. PICK u, S : u = form[r].user /\ S = RevokedSessions(r)
  OBVIOUS
<1>2. /\ pc[r] = "commit" /\ u \in Users /\ u \in locks[r] /\ S \in SUBSET Rows
      /\ user \in [Users -> Secrets] /\ tokens' \in [Tokens -> Resets] /\ TokensClose(r)
  BY <1>1, CommitNames, TokensSame DEF CommitBlock, AdminKinds
<1>3. user' \in [Users -> Secrets] /\ \A v \in Users \ {u} : user'[v] = user[v]
  BY <1>1, <1>2, UserMarked DEF CommitBlock
<1>4. /\ sessions' = Without(S) /\ revoked' = revoked \cup LoginsOf(S)
      /\ logins' = logins /\ Release(r, "done")
  BY <1>1 DEF CommitBlock
<1> QED BY <1>2, <1>3, <1>4, CommitInv

LEMMA CommitUnblockInv == ASSUME IInv, NEW r \in Requests, CommitUnblock(r) PROVE IInv'
<1>1. PICK u, S : u = form[r].user /\ S = {}
  OBVIOUS
<1>2. /\ pc[r] = "commit" /\ u \in Users /\ u \in locks[r] /\ S \in SUBSET Rows
      /\ user \in [Users -> Secrets] /\ tokens' \in [Tokens -> Resets] /\ TokensClose(r)
  BY <1>1, CommitNames, TokensSame DEF CommitUnblock, AdminKinds
<1>3. user' \in [Users -> Secrets] /\ \A v \in Users \ {u} : user'[v] = user[v]
  BY <1>1, <1>2, UserMarked DEF CommitUnblock
<1>4. sessions' = Without(S) /\ revoked' \subseteq revoked \cup LoginsOf(S)
  BY <1>1 DEF CommitUnblock, Without, IInv, TypeOK
<1>5. logins' = logins /\ Release(r, "done")
  BY DEF CommitUnblock
<1> QED BY <1>2, <1>3, <1>4, <1>5, CommitInv

LEMMA CommitDeleteInv == ASSUME IInv, NEW r \in Requests, CommitDelete(r) PROVE IInv'
<1>1. PICK u, S : u = form[r].user /\ S = RevokedSessions(r)
  OBVIOUS
<1>2. /\ pc[r] = "commit" /\ u \in Users /\ u \in locks[r] /\ S \in SUBSET Rows
      /\ user \in [Users -> Secrets] /\ tokens \in [Tokens -> Resets]
  BY <1>1, CommitNames DEF CommitDelete, AdminKinds
<1>3. user' \in [Users -> Secrets] /\ \A v \in Users \ {u} : user'[v] = user[v]
  BY <1>1, <1>2, UserMarked DEF CommitDelete
<1>4. tokens' \in [Tokens -> Resets] /\ TokensClose(r)
  <2>1. \A x \in Resets : [x EXCEPT !.done = TRUE, !.age = "expired"] \in Resets
                          /\ [x EXCEPT !.done = TRUE, !.age = "expired"].done = TRUE
                          /\ [x EXCEPT !.done = TRUE, !.age = "expired"].issued = x.issued
                          /\ [x EXCEPT !.done = TRUE, !.age = "expired"].user = x.user
                          /\ [x EXCEPT !.done = TRUE, !.age = "expired"].age = "expired"
    BY DEF Resets
  <2> QED BY <1>2, <2>1 DEF CommitDelete, TokensClose
<1>5. /\ sessions' = Without(S) /\ revoked' = revoked \cup LoginsOf(S)
      /\ logins' = logins /\ Release(r, "done")
  BY <1>1 DEF CommitDelete
<1> QED BY <1>2, <1>3, <1>4, <1>5, CommitInv

(* A token is issued: the older ones of the user are locked, so used.      *)
LEMMA IssueTokenInv == ASSUME IInv, NEW r \in Requests, IssueToken(r) PROVE IInv'
<1> DEFINE t == CHOOSE t \in NewTokens : TRUE
<1>0. PICK u : u = form[r].user
  OBVIOUS
<1>1. /\ pc[r] = "issue" /\ u \in Users /\ u \in locks[r] /\ Recent(u) = {}
      /\ \A v \in Active(u) : v \in locks[r]
  BY <1>0, StageNames DEF IssueToken, At, IInv, HoldsAt, Gets
<1>2. t \in Tokens /\ ~ tokens[t].issued
  BY DEF IssueToken, NewTokens
<1>3. tokens' = [Spent(Tokens \cap locks[r]) EXCEPT ![t] =
                    [issued |-> TRUE, user |-> u, done |-> FALSE, age |-> "new"]]
  BY <1>0 DEF IssueToken
<1> HIDE DEF t
<1>4. /\ pc' = [pc EXCEPT ![r] = "done"] /\ want' = [want EXCEPT ![r] = {}]
      /\ locks' = [locks EXCEPT ![r] = {}]
      /\ UNCHANGED <<user, sessions, form, cookie, acting, stored, logins, revoked>>
  BY DEF IssueToken, Release, Goto, reqVars
<1>5. pc'[r] = "done" /\ locks'[r] = {}
  BY <1>4 DEF IInv, TypeOK
<1>6. /\ tokens' \in [Tokens -> Resets]
      /\ tokens'[t].issued /\ tokens'[t].user = u /\ ~ tokens'[t].done
      /\ \A v \in Tokens \ {t} :
            /\ tokens'[v].issued = tokens[v].issued /\ tokens'[v].user = tokens[v].user
            /\ tokens'[v].age = tokens[v].age
            /\ tokens'[v].done = (tokens[v].done \/ v \in locks[r])
  <2>1. \A x \in Resets : [x EXCEPT !.done = TRUE] \in Resets
                          /\ [x EXCEPT !.done = TRUE].done = TRUE
                          /\ [x EXCEPT !.done = TRUE].issued = x.issued
                          /\ [x EXCEPT !.done = TRUE].user = x.user
                          /\ [x EXCEPT !.done = TRUE].age = x.age
                          /\ x.done \in BOOLEAN
    BY DEF Resets
  <2>2. tokens \in [Tokens -> Resets]
    BY DEF IInv, TypeOK
  <2>3. PICK x : x = [issued |-> TRUE, user |-> u, done |-> FALSE, age |-> "new"]
    OBVIOUS
  <2>4. x \in Resets /\ x.issued /\ x.user = u /\ ~ x.done
    BY <1>1, <2>3 DEF Resets
  <2>5. PICK h : h = Spent(Tokens \cap locks[r])
    OBVIOUS
  <2>6. /\ h \in [Tokens -> Resets]
        /\ \A v \in Tokens :
              /\ h[v].issued = tokens[v].issued /\ h[v].user = tokens[v].user
              /\ h[v].age = tokens[v].age
              /\ h[v].done = (tokens[v].done \/ v \in locks[r])
    BY <2>1, <2>2, <2>5 DEF Spent
  <2>7. tokens' = [h EXCEPT ![t] = x]
    BY <1>3, <2>3, <2>5
  <2> QED BY <1>2, <2>4, <2>6, <2>7
<1>7. TypeOK'
  <2>1. pc' \in [Requests -> AllStages]
    BY <1>4 DEF IInv, TypeOK, AllStages
  <2> QED BY <1>4, <1>6, <2>1 DEF IInv, TypeOK
<1>8. \A q \in Requests \ {r} : Unmoved(q)
  BY <1>4 DEF Unmoved, IInv, TypeOK
<1>9. \A v \in Users \ {u} : Active(v)' \subseteq Active(v) /\ Recent(v)' \subseteq Recent(v)
  BY <1>6 DEF Active, Recent
<1>10. \A q \in Requests \ {r} : Kept(q)
  <2> SUFFICES ASSUME NEW q \in Requests, q # r PROVE Kept(q)
    OBVIOUS
  <2>1. locks[q] \cap locks[r] = {}
    BY DEF IInv, Exclusive
  <2>2. \A v \in Tokens \cap locks[q] : tokens[v].issued => tokens'[v].done = tokens[v].done
    BY <1>2, <1>6, <2>1 DEF IInv, TypeOK, Resets
  <2>3. \A v \in Users \cap locks[q] : Active(v)' \subseteq Active(v)
                                       /\ Recent(v)' \subseteq Recent(v)
    BY <1>1, <1>9, <2>1
  <2> QED BY <1>4, <2>2, <2>3 DEF Kept
<1>11. TokensGrow /\ IssuedToUsers'
  BY <1>1, <1>2, <1>6 DEF TokensGrow, IInv, IssuedToUsers
<1>12. OneActive'
  <2>1. ASSUME NEW v \in Tokens \ {t} PROVE v \notin Active(u)' /\ v \notin Recent(u)'
    <3>1. v \in Active(u) => v \in locks[r] /\ tokens'[v].done
      BY <1>1, <1>6
    <3>2. v \notin Recent(u)
      BY <1>1
    <3> QED BY <1>6, <3>1, <3>2 DEF Active, Recent
  <2> SUFFICES ASSUME NEW v \in Users
               PROVE  /\ \A x, y \in Active(v)' : x = y
                      /\ \A x, y \in Recent(v)' : x = y
    BY DEF OneActive
  <2>2. CASE v = u
    BY <2>1, <2>2 DEF Active, Recent
  <2>3. CASE v # u
    BY <1>9, <2>3 DEF IInv, OneActive
  <2> QED BY <2>2, <2>3
<1>13. SessionsKeep /\ SignIns' /\ Exclusive'
  BY <1>4, <1>5 DEF SessionsKeep, IInv, TypeOK, Sessions, SignIns, Exclusive
<1> QED BY <1>5, <1>7, <1>8, <1>10, <1>11, <1>12, <1>13, EndsWell, Preserved

-----------------------------------------------------------------------------
(* Time.                                                                   *)

LEMMA TimeInv ==
    ASSUME IInv, UNCHANGED <<user, pc, form, cookie, acting, stored, want, locks, logins>>,
           TypeOK', SessionsKeep, SignIns', TokensGrow, OneActive', IssuedToUsers',
           \A t \in Tokens : tokens'[t].done = tokens[t].done,
           \A u \in Users : Active(u)' \subseteq Active(u) /\ Recent(u)' \subseteq Recent(u)
    PROVE  IInv'
<1>1. \A q \in Requests : Unmoved(q) /\ Kept(q)
  BY DEF Unmoved, Kept
<1>2. \A q \in Requests : StageAt(q)' /\ HoldsAt(q)' /\ CookieAt(q)'
  BY <1>1, OtherStage, OtherHolds, OtherCookie DEF IInv
<1>3. Exclusive'
  BY DEF IInv, Exclusive
<1> QED BY <1>2, <1>3 DEF IInv

LEMMA TokenAgesInv == ASSUME IInv, NEW t \in Tokens, TokenAges(t) PROVE IInv'
<1>1. UNCHANGED <<user, sessions, pc, form, cookie, acting, stored, want, locks, logins,
                  revoked>>
  BY DEF TokenAges, reqVars, history
<1>2. /\ tokens' \in [Tokens -> Resets]
      /\ \A v \in Tokens : /\ tokens'[v].issued = tokens[v].issued
                           /\ tokens'[v].user = tokens[v].user
                           /\ tokens'[v].done = tokens[v].done
                           /\ tokens'[v].age = "new" => tokens[v].age = "new"
  <2>1. PICK a \in {"old", "expired"} : tokens' = [tokens EXCEPT ![t].age = a]
    BY DEF TokenAges
  <2>2. \A x \in Resets : [x EXCEPT !.age = a] \in Resets
                          /\ [x EXCEPT !.age = a].done = x.done
                          /\ [x EXCEPT !.age = a].issued = x.issued
                          /\ [x EXCEPT !.age = a].user = x.user
                          /\ [x EXCEPT !.age = a].age = a
    BY DEF Resets
  <2>3. tokens \in [Tokens -> Resets]
    BY DEF IInv, TypeOK
  <2> QED BY <2>1, <2>2, <2>3
<1>3. TypeOK'
  BY <1>1, <1>2 DEF IInv, TypeOK
<1>4. \A u \in Users : Active(u)' \subseteq Active(u) /\ Recent(u)' \subseteq Recent(u)
  BY <1>2 DEF Active, Recent
<1>5. SessionsKeep /\ SignIns' /\ TokensGrow /\ OneActive' /\ IssuedToUsers'
  BY <1>1, <1>2, <1>4 DEF SessionsKeep, IInv, TypeOK, Sessions, SignIns, TokensGrow, OneActive,
                          IssuedToUsers
<1> QED BY <1>1, <1>2, <1>3, <1>4, <1>5, TimeInv

LEMMA ExpireSessionInv == ASSUME IInv, NEW s \in Rows, ExpireSession(s) PROVE IInv'
<1>1. UNCHANGED <<user, tokens, pc, form, cookie, acting, stored, want, locks, logins, revoked>>
  BY DEF ExpireSession, reqVars, history
<1>2. PICK S \in SUBSET Rows :
         sessions' = [v \in Rows |-> IF v \in S THEN [sessions[v] EXCEPT !.live = FALSE]
                                     ELSE sessions[v]]
  <2>1. sessions' = [v \in Rows |-> IF v \in {s} THEN [sessions[v] EXCEPT !.live = FALSE]
                                    ELSE sessions[v]]
    BY DEF ExpireSession, IInv, TypeOK
  <2> QED BY <2>1
<1>3. revoked' \subseteq revoked \cup {sessions[v].login : v \in S} /\ logins' = logins
  BY <1>1
<1>4. /\ sessions' \in [Rows -> Sessions]
      /\ SessionsKeep /\ SignIns'
  BY <1>2, <1>3, DeadKeeps
<1>5. TypeOK'
  BY <1>1, <1>4 DEF IInv, TypeOK
<1>6. \A u \in Users : Active(u)' \subseteq Active(u) /\ Recent(u)' \subseteq Recent(u)
  BY <1>1 DEF Active, Recent
<1>7. TokensGrow /\ OneActive' /\ IssuedToUsers'
  BY <1>1, <1>6 DEF IInv, TokensGrow, OneActive, IssuedToUsers
<1> QED BY <1>1, <1>4, <1>5, <1>6, <1>7, TimeInv

-----------------------------------------------------------------------------
LEMMA InitInv == Init => IInv
<1> SUFFICES ASSUME Init PROVE IInv
  OBVIOUS
<1>1. PICK R \in SUBSET Rows : SignedIn \in [R -> Users]
  BY StartAssumption
<1>2. DOMAIN SignedIn = R /\ IsFiniteSet(R) /\ Cardinality(R) \in Nat
  BY <1>1, RowsAssumption, FS_Subset, FS_CardinalityType
<1> DEFINE number == Numbered(DOMAIN SignedIn)
<1>3. /\ number \in [R -> 1..Cardinality(R)]
      /\ \A x, y \in R : number[x] = number[y] => x = y
  <2>1. \E f : f \in Injection(R, 1..Cardinality(R))
    <3>1. ExistsBijection(1..Cardinality(R), R)
      BY <1>2, FS_CardinalityType
    <3> QED BY <3>1, Fun_ExistsBijSymmetric DEF ExistsBijection, Bijection
  <2> QED BY <1>2, <2>1 DEF Numbered, Injection, IsInjective
<1> HIDE DEF number
<1>4. PICK T \in SUBSET Tokens :
         Issued \in [T -> Users] /\ \A t, v \in T : Issued[t] = Issued[v] => t = v
  BY StartAssumption
<1>5. sessions = [s \in Rows |->
                     IF s \in R
                     THEN [live |-> TRUE, gen |-> 1, user |-> SignedIn[s],
                           login |-> number[s]]
                     ELSE [live |-> FALSE, gen |-> 0, user |-> Nobody, login |-> 0]]
  BY <1>2 DEF Init, number
<1>6. tokens = [t \in Tokens |->
                   IF t \in T
                   THEN [issued |-> TRUE, user |-> Issued[t], done |-> FALSE, age |-> "old"]
                   ELSE [issued |-> FALSE, user |-> Nobody, done |-> FALSE, age |-> "new"]]
  BY <1>4 DEF Init
<1>7. /\ sessions \in [Rows -> Sessions]
      /\ logins = Cardinality(R)
  BY <1>1, <1>2, <1>3, <1>5 DEF Init, Sessions
<1>8. tokens \in [Tokens -> Resets]
  BY <1>4, <1>6 DEF Resets
<1>9. TypeOK
  <2>1. user \in [Users -> Secrets]
    BY DEF Init, Secrets
  <2>2. stored \in [Requests -> Secrets]
    BY DEF Init, Secrets, NoUser
  <2>3. form \in [Requests -> [kind : Kinds \cup {"page"}, user : Users \cup {Nobody},
                              token : Tokens \cup {Nobody}]]
    BY DEF Init, NoForm
  <2>4. cookie \in [Requests -> [row : Rows \cup {Nobody}, gen : Nat]]
    BY DEF Init, NoCookie
  <2> QED BY <1>2, <1>7, <1>8, <2>1, <2>2, <2>3, <2>4 DEF Init, TypeOK, AllStages
<1>10. \A r \in Requests : StageAt(r) /\ HoldsAt(r) /\ CookieAt(r)
  BY DEF Init, StageAt, HoldsAt, CookieAt, OfPage, UnderWay
<1>11. Exclusive
  BY DEF Init, Exclusive
<1>12. SignIns
  BY <1>1, <1>2, <1>3, <1>5, <1>7 DEF Init, SignIns
<1>13. OneActive /\ IssuedToUsers
  BY <1>4, <1>6 DEF OneActive, IssuedToUsers, Active, Recent
<1> QED BY <1>9, <1>10, <1>11, <1>12, <1>13 DEF IInv

-----------------------------------------------------------------------------
LEMMA SessionStepInv == ASSUME IInv, NEW r \in Requests, SessionStep(r) PROVE IInv'
<1>1. CASE Page(r)
  BY <1>1, AnswerInv DEF Page
<1> QED BY <1>1, CheckUserInv, ClearStaleInv, AuthorizeInv, LogoutInv, AuthenticateInv,
           RehashInv, SignInInv, RotateInv DEF SessionStep

LEMMA PasswordStepInv == ASSUME IInv, NEW r \in Requests, PasswordStep(r) PROVE IInv'
BY VerifyPasswordInv, UpdatePasswordInv, PasswordUpdatedInv, LockTokenInv, ResetUserInv,
   ResetPasswordInv, PasswordResetInv, LockUserInv, CountRecentInv, IssueTokenInv, RevokeInv,
   CommitChangeInv, CommitResetInv DEF PasswordStep

LEMMA AdminStepInv == ASSUME IInv, NEW r \in Requests, AdminStep(r) PROVE IInv'
BY AdminLockedInv, DeleteTokensInv, CommitBlockInv, CommitUnblockInv, CommitDeleteInv
DEF AdminStep

LEMMA StepInv == ASSUME IInv, [Next]_vars PROVE IInv'
<1>1. CASE UNCHANGED vars
  <2>1. /\ UNCHANGED <<user, sessions, tokens, pc, form, cookie, acting, stored>>
        /\ UNCHANGED <<want, locks, logins, revoked>>
    BY <1>1 DEF vars
  <2> QED BY <2>1
          DEF IInv, TypeOK, StageAt, HoldsAt, CookieAt, Exclusive, SignIns, OneActive,
              IssuedToUsers, UnderWay, OfPage, Gets, HoldsToken, Target, SamePassword, Found,
              Active, Recent
<1>2. ASSUME NEW r \in Requests, Arrive(r) PROVE IInv'
  BY <1>2, BeginInv, BeginNewInv, BeginAdminInv DEF Arrive
<1>3. ASSUME NEW r \in Requests, Step(r) PROVE IInv'
  BY <1>3, SessionStepInv, PasswordStepInv, AdminStepInv, AcquireInv, AbortDeadlockInv
  DEF Step
<1>4. CASE Time
  BY <1>4, TokenAgesInv, ExpireSessionInv DEF Time
<1> QED BY <1>1, <1>2, <1>3, <1>4 DEF Next, Quiet

(* At every statement of every handler: each row lock has one holder, what *)
(* was read under a lock is still so, a sign-in belongs to one session,    *)
(* and a user has one usable token.                                        *)
THEOREM Invariant == Spec => []IInv
<1>1. IInv /\ [Next]_vars => IInv'
  BY StepInv
<1> QED BY <1>1, InitInv, PTL DEF Spec

-----------------------------------------------------------------------------
(* A sign-in whose session was deleted, by signing out or because the      *)
(* password changed or the user was blocked or deleted, never has a live   *)
(* session with a user again.                                              *)
THEOREM StaysEnded == Spec => []RevokedForGood
<1>1. IInv => RevokedForGood
  BY DEF IInv, SignIns, RevokedForGood
<1> QED BY <1>1, Invariant, PTL

(* createPasswordReset leaves a user with one token that may be used, and  *)
(* issues one in 15 minutes.                                               *)
THEOREM NewestTokenOnly == Spec => []OneToken
<1>1. ASSUME NEW S, \A t, v \in S : t = v
      PROVE  Cardinality(S) <= 1
  <2>1. CASE S = {}
    BY <2>1, FS_EmptySet
  <2>2. ASSUME NEW t \in S PROVE Cardinality(S) <= 1
    <3>1. S = {t}
      BY <1>1
    <3>2. Cardinality({t}) = 1
      BY FS_Singleton
    <3> QED BY <3>1, <3>2
  <2> QED BY <2>1, <2>2
<1>2. IInv => OneToken
  BY <1>1 DEF IInv, OneActive, OneToken
<1> QED BY <1>2, Invariant, PTL

-----------------------------------------------------------------------------
(* Which steps may move a request, or change users.                        *)

LEMMA SessionStepMoves ==
    ASSUME IInv, NEW q \in Requests, SessionStep(q)
    PROVE  /\ \A r \in Requests \ {q} : pc'[r] = pc[r]
           /\ pc[q] = "auth" /\ pc'[q] = "handler" => Authorize(q)
           /\ user' = user \/ Rehash(q)
BY DEF SessionStep, CheckUser, ClearStale, Authorize, Page, Answer, Logout, Authenticate,
   Rehash, SignIn, Rotate, Goto, dbVars, IInv, TypeOK

LEMMA PasswordStepMoves ==
    ASSUME IInv, NEW q \in Requests, PasswordStep(q)
    PROVE  /\ \A r \in Requests \ {q} : pc'[r] = pc[r]
           /\ pc[q] # "auth"
           /\ user' = user \/ CommitChange(q) \/ CommitReset(q)
BY DEF PasswordStep, VerifyPassword, UpdatePassword, PasswordUpdated, LockToken, ResetUser,
   ResetPassword, PasswordReset, LockUser, CountRecent, IssueToken, Revoke, CommitChange,
   CommitReset, At, Lock, Goto, Answer, Rollback, Release, dbVars, IInv, TypeOK

LEMMA AdminStepMoves ==
    ASSUME IInv, NEW q \in Requests, AdminStep(q)
    PROVE  /\ \A r \in Requests \ {q} : pc'[r] = pc[r]
           /\ pc[q] # "auth"
           /\ user' = user \/ CommitBlock(q) \/ CommitUnblock(q) \/ CommitDelete(q)
BY DEF AdminStep, AdminLocked, DeleteTokens, CommitBlock, CommitUnblock, CommitDelete,
   At, Lock, Goto, Rollback, Release, dbVars, IInv, TypeOK

LEMMA OtherMoves ==
    ASSUME IInv, NEW q \in Requests,
           Arrive(q) \/ (\E x \in want[q] : Acquire(q, x)) \/ AbortDeadlock(q)
    PROVE  /\ \A r \in Requests \ {q} : pc'[r] = pc[r]
           /\ pc[q] = "auth" => pc'[q] # "handler"
           /\ user' = user
BY DEF Arrive, Begin, BeginNew, BeginAdmin, Acquire, AbortDeadlock, Goto, Rollback, Release,
   dbVars, IInv, TypeOK

LEMMA TimeMoves ==
    ASSUME Time \/ Quiet \/ UNCHANGED vars
    PROVE  pc' = pc /\ user' = user
BY DEF Time, TokenAges, ExpireSession, Quiet, vars

(* Behind Auth a request acts for the user of the session it read again.   *)
THEOREM ActsForSession == Spec => AuthSameUser
<1> DEFINE Same == \A r \in Requests : pc[r] = "auth" /\ pc'[r] = "handler" =>
                      acting[r] = sessions[cookie[r].row].user
<1>1. IInv /\ [Next]_vars => [Same]_vars
  <2> SUFFICES ASSUME IInv, [Next]_vars, NEW r \in Requests,
                      pc[r] = "auth", pc'[r] = "handler"
               PROVE  acting[r] = sessions[cookie[r].row].user
    OBVIOUS
  <2>1. Authorize(r)
    BY SessionStepMoves, PasswordStepMoves, AdminStepMoves, OtherMoves, TimeMoves
    DEF Next, Step
  <2>2. Found(cookie[r]) /\ sessions[cookie[r].row].user # Nobody
    BY <2>1 DEF Authorize, Goto, IInv, TypeOK
  <2>3. OfPage(r)
    BY StageNames DEF OfPage, UnderWay, AdminKinds
  <2> QED BY <2>2, <2>3 DEF IInv, CookieAt
<1> QED BY <1>1, Invariant, PTL DEF Spec, AuthSameUser

(* The password that a change has verified is still the user's when it is  *)
(* replaced, and no statement brings an older password back.               *)
THEOREM PasswordsAdvance == Spec => ChangeVerified
<1> DEFINE Verified == \A r \in Requests : CommitChange(r) =>
                          stored[r].secret = user[acting[r]].secret
           Advance == \A u \in Users : user'[u].secret >= user[u].secret
<1>1. IInv /\ [Next]_vars => Verified
  <2> SUFFICES ASSUME IInv, NEW r \in Requests, CommitChange(r)
               PROVE  stored[r].secret = user[acting[r]].secret
    OBVIOUS
  <2>1. pc[r] = "commit" /\ form[r].kind = "change"
    BY DEF CommitChange, At
  <2> QED BY <2>1 DEF IInv, HoldsAt, SamePassword
<1>2. IInv /\ [Next]_vars => Advance
  <2> SUFFICES ASSUME IInv, [Next]_vars, NEW u \in Users
               PROVE  user'[u].secret >= user[u].secret
    OBVIOUS
  <2>1. user \in [Users -> Secrets] /\ user[u].secret \in Nat
    BY DEF IInv, TypeOK, Secrets
  <2>2. CASE user' = user
    BY <2>1, <2>2
  <2>3. ASSUME NEW q \in Requests, Rehash(q) PROVE user'[u].secret = user[u].secret
    <3>1. form[q].user \in Users
      BY <2>3, StageNames DEF Rehash
    <3>2. CASE user' = user
      BY <3>2
    <3>3. CASE user' # user
      <4>1. /\ user[form[q].user].secret = stored[q].secret
            /\ user' = PasswordSet(user, form[q].user, stored[q].secret)
        BY <2>3, <3>3 DEF Rehash, Rehashed, SamePassword, PasswordSet
      <4>2. stored[q].secret \in Nat
        BY DEF IInv, TypeOK, Secrets
      <4>3. \/ user'[u] = user[u]
            \/ u = form[q].user /\ user'[u].secret = stored[q].secret
        BY <2>1, <3>1, <4>1, <4>2, SecretSet
      <4> QED BY <4>1, <4>3
    <3> QED BY <3>2, <3>3
  <2>4. ASSUME NEW q \in Requests, CommitChange(q) \/ CommitReset(q)
        PROVE  user'[u].secret >= user[u].secret
    <3>1. At(q, "commit") /\ user' = NewSecret(Target(q))
      BY <2>4 DEF CommitChange, CommitReset, Target
    <3>2. Target(q) \in Users
      BY <3>1, CommitNames
    <3>3. user'[u] = user[u] \/ (u = Target(q) /\ user'[u].secret = user[u].secret + 1)
      BY <3>1, <3>2, NewSecretSet
    <3> QED BY <2>1, <3>3
  <2>5. ASSUME NEW q \in Requests, CommitBlock(q) \/ CommitUnblock(q) \/ CommitDelete(q)
        PROVE  user'[u].secret = user[u].secret
    <3>1. /\ [user[u] EXCEPT !.blocked = TRUE].secret = user[u].secret
          /\ [user[u] EXCEPT !.blocked = FALSE].secret = user[u].secret
          /\ [user[u] EXCEPT !.exists = FALSE].secret = user[u].secret
      BY <2>1 DEF Secrets
    <3>2. \/ user'[u] = user[u] \/ user'[u] = [user[u] EXCEPT !.blocked = TRUE]
          \/ user'[u] = [user[u] EXCEPT !.blocked = FALSE]
          \/ user'[u] = [user[u] EXCEPT !.exists = FALSE]
      BY <2>1, <2>5 DEF CommitBlock, CommitUnblock, CommitDelete
    <3> QED BY <3>1, <3>2
  <2>6. \/ user' = user
        \/ \E q \in Requests : \/ Rehash(q) \/ CommitChange(q) \/ CommitReset(q)
                               \/ CommitBlock(q) \/ CommitUnblock(q) \/ CommitDelete(q)
    BY SessionStepMoves, PasswordStepMoves, AdminStepMoves, OtherMoves, TimeMoves
    DEF Next, Step
  <2> QED BY <2>1, <2>2, <2>3, <2>4, <2>5, <2>6
<1>3. IInv /\ [Next]_vars => [Verified /\ Advance]_vars
  BY <1>1, <1>2
<1> QED BY <1>3, Invariant, PTL DEF Spec, ChangeVerified

(* A reset that commits uses a token that was not used, also when requests *)
(* with the same token, or for a newer one, run at the same time.          *)
THEOREM ResetsOnce == Spec => TokenUsedOnce
<1> DEFINE Unused == \A r \in Requests : CommitReset(r) => ~ tokens[form[r].token].done
<1>1. IInv /\ [Next]_vars => [Unused]_vars
  <2> SUFFICES ASSUME IInv, NEW r \in Requests, CommitReset(r)
               PROVE  ~ tokens[form[r].token].done
    OBVIOUS
  <2>1. pc[r] = "commit" /\ form[r].kind = "reset"
    BY DEF CommitReset, At
  <2> QED BY <2>1 DEF IInv, HoldsAt, HoldsToken
<1> QED BY <1>1, Invariant, PTL DEF Spec, TokenUsedOnce
=============================================================================
