------------------------------- MODULE Posts -------------------------------
(***************************************************************************)
(* The records of one account: posts, and the expenses and incomes they    *)
(* are posts of (routes/posts.go, expenses.go, incomes.go, database.go),   *)
(* with the trigger that keeps previous versions of posts.                 *)
(*                                                                         *)
(* A handler checks what the form names in statements of their own and     *)
(* writes in a last one, so a request is a few steps; the statements of    *)
(* deleteUser that delete the account with its records take effect at      *)
(* once, because inserts wait for the lock on the account.                 *)
(***************************************************************************)
EXTENDS Integers, Sequences

CONSTANTS
    MaxRecords,     \* bound: rows of each table
    Requests,       \* each runs once
    Kinds,          \* of the requests of a run
    Amounts         \* what forms name, in tenths of a cent

ASSUME RecordsAssumption == MaxRecords \in Nat
ASSUME AmountsAssumption == Amounts \subseteq Int
ASSUME KindsAssumption ==
    Kinds \subseteq {"savePost", "updatePost", "deletePost", "saveExpense",
                     "updateExpense", "deleteExpense", "saveIncome",
                     "deleteIncome", "deleteAccount"}

VARIABLES
    account,    \* the account exists
    expenses,   \* rows of expenses, numbered; amounts in cents
    incomes,    \* rows of incomes
    posts,      \* rows of posts
    history,    \* rows of posts_history, of all posts
    pc,
    form,       \* what a request asks for
    read        \* what a handler read: the link and amount of an expense,
                \* or whether a post is one of an income

tables == <<account, expenses, incomes, posts, history>>
vars == <<account, expenses, incomes, posts, history, pc, form, read>>

Ids     == 1..MaxRecords
None    == 0
NoForm  == [kind |-> "savePost", id |-> None, expense |-> None,
            income |-> None, amount |-> 0]
NoRead  == [link |-> None, amount |-> 0, income |-> FALSE]

-----------------------------------------------------------------------------
(* Rows.                                                                   *)

LiveExpense(e) == e \in DOMAIN expenses /\ ~ expenses[e].deleted
LiveIncome(i)  == i \in DOMAIN incomes  /\ ~ incomes[i].deleted
LivePost(p)    == p \in DOMAIN posts    /\ ~ posts[p].deleted

(* decimal(12,2): to cents, a half away from zero.                         *)
Stored(a) == IF a >= 0 THEN (a + 5) \div 10 ELSE -((5 - a) \div 10)

(* The trigger posts_history_record: after every update that changes the   *)
(* row. An amount stands for all that the form of a post changes.          *)
Recorded(p, new) ==
    IF new = posts[p] THEN history
    ELSE Append(history, [post |-> p, old |-> posts[p],
                          operation |-> IF new.deleted /\ ~ posts[p].deleted
                                        THEN "delete" ELSE "update"])

PutPost(p, new) ==
    /\ posts' = [posts EXCEPT ![p] = new]
    /\ history' = Recorded(p, new)

-----------------------------------------------------------------------------
Goto(r, next) == pc' = [pc EXCEPT ![r] = next]
Answer(r) == Goto(r, "done") /\ UNCHANGED <<tables, read>>

(* A read that ends the request if it finds no row.                        *)
Find(r, found, what, next) ==
    IF found
    THEN Goto(r, next) /\ read' = [read EXCEPT ![r] = what] /\ UNCHANGED tables
    ELSE Answer(r)

Forms ==
    {f \in [kind : Kinds, id : Ids \cup {None}, expense : Ids \cup {None},
            income : Ids \cup {None}, amount : Amounts] :
        /\ f.kind \in {"savePost", "saveExpense", "saveIncome", "deleteAccount"}
              <=> f.id = None
        /\ f.kind \notin {"savePost", "saveExpense", "updateExpense"}
              => f.expense = None
        /\ f.kind # "savePost" => f.income = None
        /\ f.kind \notin {"savePost", "updatePost", "saveExpense", "updateExpense"}
              => f.amount = 0}

(* The checks of the form that read no row.                                *)
Acceptable(f) ==
    CASE f.kind = "savePost"   -> f.amount > 0 /\ (f.expense # None \/ f.income # None)
      [] f.kind = "updatePost" -> f.amount > 0
      [] OTHER                 -> f.amount >= 0

First(f) ==
    CASE f.kind = "savePost" -> IF f.expense # None THEN "expense" ELSE "income"
      [] f.kind \in {"saveExpense", "updateExpense"} ->
            IF f.expense # None THEN "link" ELSE "write"
      [] f.kind = "updatePost" -> "post"
      [] OTHER -> "write"

(* Of a request that has passed Auth and requireAccountEditor: the account *)
(* may be gone since.                                                      *)
Begin(r) ==
    /\ pc[r] = "new"
    /\ \E f \in Forms :
          /\ form' = [form EXCEPT ![r] = f]
          /\ Goto(r, IF f.kind = "updatePost" \/ Acceptable(f) THEN First(f) ELSE "done")
    /\ UNCHANGED <<tables, read>>

-----------------------------------------------------------------------------
(* POST /posts/save.                                                       *)

ValidateExpense(r) ==
    LET e == form[r].expense IN
    /\ pc[r] = "expense"
    /\ Find(r, LiveExpense(e),
            [NoRead EXCEPT !.link = expenses[e].link],
            IF form[r].income # None THEN "income"
            ELSE IF expenses[e].link # None THEN "linked" ELSE "insert")
    /\ UNCHANGED form

ValidateIncome(r) ==
    /\ pc[r] = "income"
    /\ Find(r, LiveIncome(form[r].income), [NoRead EXCEPT !.income = TRUE], "insert")
    /\ UNCHANGED form

LoadLinked(r) ==
    LET l == read[r].link IN
    /\ pc[r] = "linked"
    /\ Find(r, LiveExpense(l), [read[r] EXCEPT !.amount = expenses[l].amount], "insert")
    /\ UNCHANGED form

Post(expense, income, amount) ==
    [expense |-> expense, income |-> income, amount |-> amount, deleted |-> FALSE]

(* The post, and the automatic post of the linked expense.                 *)
NewPosts(r) ==
    IF read[r].income
    THEN <<Post(None, form[r].income, Stored(- form[r].amount))>>
    ELSE <<Post(form[r].expense, None, Stored(form[r].amount))>> \o
         (IF read[r].link = None THEN <<>>
          ELSE <<Post(read[r].link, None, read[r].amount)>>)

AnyAccount == TRUE   \* a mutant: posts without a foreign key to accounts
AccountExists == account

CreatePosts(r) ==
    /\ pc[r] = "insert"
    /\ IF AccountExists
       THEN /\ Len(posts) + Len(NewPosts(r)) <= MaxRecords
            /\ posts' = posts \o NewPosts(r)
       ELSE UNCHANGED posts
    /\ Goto(r, "done")
    /\ UNCHANGED <<account, expenses, incomes, history, form, read>>

-----------------------------------------------------------------------------
(* POST /posts/update and /posts/delete.                                   *)

LoadPost(r) ==
    LET p == form[r].id IN
    /\ pc[r] = "post"
    /\ Find(r, LivePost(p) /\ Acceptable(form[r]),
            [NoRead EXCEPT !.income = posts[p].income > 0], "write")
    /\ UNCHANGED form

AmountOf(r) == Stored(IF read[r].income THEN - form[r].amount ELSE form[r].amount)

AnyPost(p) == p \in DOMAIN posts   \* a mutant: without AND deleted = 0
WritablePost(p) == LivePost(p)

UpdatePost(r) ==
    LET p == form[r].id IN
    /\ pc[r] = "write"
    /\ form[r].kind = "updatePost"
    /\ IF WritablePost(p)
       THEN PutPost(p, [posts[p] EXCEPT !.amount = AmountOf(r)])
       ELSE UNCHANGED <<posts, history>>
    /\ Goto(r, "done")
    /\ UNCHANGED <<account, expenses, incomes, form, read>>

DeletePost(r) ==
    LET p == form[r].id IN
    /\ pc[r] = "write"
    /\ form[r].kind = "deletePost"
    /\ IF WritablePost(p)
       THEN PutPost(p, [posts[p] EXCEPT !.deleted = TRUE])
       ELSE UNCHANGED <<posts, history>>
    /\ Goto(r, "done")
    /\ UNCHANGED <<account, expenses, incomes, form, read>>

-----------------------------------------------------------------------------
(* The types of expenses and incomes.                                      *)

ValidateLink(r) ==
    /\ pc[r] = "link"
    /\ Find(r, LiveExpense(form[r].expense),
            [NoRead EXCEPT !.link = form[r].expense], "write")
    /\ UNCHANGED form

SaveExpense(r) ==
    /\ pc[r] = "write"
    /\ form[r].kind = "saveExpense"
    /\ IF AccountExists
       THEN /\ Len(expenses) < MaxRecords
            /\ expenses' = Append(expenses, [amount |-> Stored(form[r].amount),
                                             link |-> read[r].link, deleted |-> FALSE])
       ELSE UNCHANGED expenses
    /\ Goto(r, "done")
    /\ UNCHANGED <<account, incomes, posts, history, form, read>>

WritableExpense(e) == LiveExpense(e)

UpdateExpense(r) ==
    LET e == form[r].id IN
    /\ pc[r] = "write"
    /\ form[r].kind = "updateExpense"
    /\ expenses' = IF WritableExpense(e)
                   THEN [expenses EXCEPT ![e].amount = Stored(form[r].amount),
                                         ![e].link = read[r].link]
                   ELSE expenses
    /\ Goto(r, "done")
    /\ UNCHANGED <<account, incomes, posts, history, form, read>>

DeleteExpense(r) ==
    LET e == form[r].id IN
    /\ pc[r] = "write"
    /\ form[r].kind = "deleteExpense"
    /\ expenses' = IF WritableExpense(e) THEN [expenses EXCEPT ![e].deleted = TRUE]
                   ELSE expenses
    /\ Goto(r, "done")
    /\ UNCHANGED <<account, incomes, posts, history, form, read>>

SaveIncome(r) ==
    /\ pc[r] = "write"
    /\ form[r].kind = "saveIncome"
    /\ IF AccountExists
       THEN /\ Len(incomes) < MaxRecords
            /\ incomes' = Append(incomes, [deleted |-> FALSE])
       ELSE UNCHANGED incomes
    /\ Goto(r, "done")
    /\ UNCHANGED <<account, expenses, posts, history, form, read>>

DeleteIncome(r) ==
    LET i == form[r].id IN
    /\ pc[r] = "write"
    /\ form[r].kind = "deleteIncome"
    /\ incomes' = IF LiveIncome(i) THEN [incomes EXCEPT ![i].deleted = TRUE]
                  ELSE incomes
    /\ Goto(r, "done")
    /\ UNCHANGED <<account, expenses, posts, history, form, read>>

(* deleteUser, when nobody else uses the account.                          *)
DeleteAccount(r) ==
    /\ pc[r] = "write"
    /\ form[r].kind = "deleteAccount"
    /\ account' = FALSE
    /\ expenses' = <<>> /\ incomes' = <<>> /\ posts' = <<>> /\ history' = <<>>
    /\ Goto(r, "done")
    /\ UNCHANGED <<form, read>>

-----------------------------------------------------------------------------
Init ==
    /\ account = TRUE
    /\ \E linked \in BOOLEAN :
          expenses = <<[amount |-> 1, link |-> None, deleted |-> FALSE],
                       [amount |-> 1, link |-> IF linked THEN 1 ELSE None,
                        deleted |-> FALSE]>>
    /\ incomes = <<[deleted |-> FALSE]>>
    /\ posts = <<Post(1, None, 1), Post(None, 1, -1)>>
    /\ history = <<>>
    /\ pc = [r \in Requests |-> "new"]
    /\ form = [r \in Requests |-> NoForm]
    /\ read = [r \in Requests |-> NoRead]

Step(r) ==
    \/ Begin(r)
    \/ ValidateExpense(r) \/ ValidateIncome(r) \/ LoadLinked(r) \/ CreatePosts(r)
    \/ LoadPost(r) \/ UpdatePost(r) \/ DeletePost(r)
    \/ ValidateLink(r) \/ SaveExpense(r) \/ UpdateExpense(r) \/ DeleteExpense(r)
    \/ SaveIncome(r) \/ DeleteIncome(r) \/ DeleteAccount(r)

Quiet == (\A r \in Requests : pc[r] = "done") /\ UNCHANGED vars

Next == (\E r \in Requests : Step(r)) \/ Quiet

Spec == Init /\ [][Next]_vars

-----------------------------------------------------------------------------
(* A post refers to an expense or to an income of the account, deleted     *)
(* ones included, and its sign, which the totals rely on, tells which;     *)
(* links are to expenses of the account.  Nothing but the application      *)
(* keeps this.                                                             *)
References ==
    /\ \A p \in DOMAIN posts : LET post == posts[p] IN
          \/ post.expense \in DOMAIN expenses /\ post.income = None /\ post.amount >= 0
          \/ post.income \in DOMAIN incomes /\ post.expense = None /\ post.amount <= 0
    /\ \A e \in DOMAIN expenses : expenses[e].link \in DOMAIN expenses \cup {None}

(* Entry j of history is one of the same post as entry i, written after it.*)
Later(i, j) == i < j /\ history[i].post = history[j].post

(* What the entry h of history says of the version of the post after it.   *)
Precedes(h, version) ==
    h.old # version /\ (h.operation = "delete" <=> version.deleted)

(* Every previous version of a post is kept once, in order: after an entry *)
(* comes the version that the next one of the post keeps, or the present   *)
(* row.  Nothing follows a deletion, and a post stays one of the same      *)
(* expense or income.                                                      *)
HistoryChain ==
    \A i \in DOMAIN history : LET h == history[i] IN
        /\ h.post \in DOMAIN posts
        /\ ~ h.old.deleted
        /\ h.old.expense = posts[h.post].expense /\ h.old.income = posts[h.post].income
        /\ \/ Precedes(h, posts[h.post])
           \/ \E j \in DOMAIN history : Later(i, j)
        /\ \A j \in DOMAIN history :
              \/ ~ Later(i, j)
              \/ \E k \in DOMAIN history : Later(i, k) /\ Later(k, j)
              \/ Precedes(h, history[j].old)

(* posts.go answers "Invalid amount!" to a post of amount zero, and the    *)
(* page asks for at least 0.01: posts that were entered are not zero.      *)
EnteredNotZero ==
    [][\A r \in Requests : CreatePosts(r) /\ posts' # posts =>
          posts'[Len(posts) + 1].amount # 0]_vars
=============================================================================
