---------------------------- MODULE PostsProofs ----------------------------
(***************************************************************************)
(* Proofs that the records of an account refer to each other and that the  *)
(* history of posts is complete, for any requests, amounts and numbers of  *)
(* records.  What a handler has checked stays so until it writes, unless   *)
(* the account is gone, and then nothing is written (ReadyAt).             *)
(*                                                                         *)
(* And that leafing through the list of posts misses and repeats nothing,  *)
(* for any dates, filters and sizes of a page.                             *)
(***************************************************************************)
EXTENDS Posts, PostsPaging, FiniteSetTheorems, SequenceTheorems, TLAPS

PostRows    == [expense : Nat, income : Nat, amount : Int, deleted : BOOLEAN]
ExpenseRows == [amount : Int, link : Nat, deleted : BOOLEAN]
IncomeRows  == [deleted : BOOLEAN]
Versions    == [post : Nat, old : PostRows, operation : {"update", "delete"}]

AllKinds == Kinds \cup {"savePost"}

TypeOK ==
    /\ account \in BOOLEAN
    /\ expenses \in Seq(ExpenseRows) /\ incomes \in Seq(IncomeRows)
    /\ posts \in Seq(PostRows) /\ history \in Seq(Versions)
    /\ pc \in [Requests -> {"new", "done", "expense", "income", "linked", "insert",
                           "post", "link", "write"}]
    /\ form \in [Requests -> [kind : AllKinds, id : Nat, expense : Nat, income : Nat,
                              amount : Int]]
    /\ read \in [Requests -> [link : Nat, amount : Int, income : BOOLEAN]]

(* What a request relies on at each stage.                                 *)
InsertsWell(r) ==
    IF read[r].income THEN form[r].income \in DOMAIN incomes
    ELSE /\ form[r].expense \in DOMAIN expenses
         /\ read[r].link # None => read[r].link \in DOMAIN expenses /\ read[r].amount >= 0

ReadyAt(r) ==
    /\ pc[r] = "new" => read[r] = NoRead
    /\ pc[r] \in {"expense", "income", "linked", "insert"} => form[r].amount > 0
    /\ pc[r] = "linked" /\ account =>
           form[r].expense \in DOMAIN expenses /\ ~ read[r].income
    /\ pc[r] = "insert" /\ account => InsertsWell(r)
    /\ pc[r] = "link" => form[r].kind \in {"saveExpense", "updateExpense"}
                         /\ form[r].amount >= 0
    /\ pc[r] = "post" => form[r].kind = "updatePost"
    /\ pc[r] = "write" /\ form[r].kind \in {"saveExpense", "updateExpense"} =>
           /\ form[r].amount >= 0
           /\ account => read[r].link \in DOMAIN expenses \cup {None}
    /\ pc[r] = "write" /\ form[r].kind = "updatePost" =>
           /\ form[r].amount > 0
           /\ account => /\ form[r].id \in DOMAIN posts
                         /\ read[r].income = (posts[form[r].id].income > 0)

Costs == \A e \in DOMAIN expenses : expenses[e].amount >= 0

GoneWithAccount ==
    ~ account => posts = <<>> /\ expenses = <<>> /\ incomes = <<>> /\ history = <<>>

IInv ==
    /\ TypeOK
    /\ \A r \in Requests : ReadyAt(r)
    /\ Costs /\ GoneWithAccount /\ References /\ HistoryChain

-----------------------------------------------------------------------------
(* Records stay where they are while there is an account.                  *)
Kept ==
    /\ account' => account
    /\ account' =>
          /\ DOMAIN expenses \subseteq DOMAIN expenses'
          /\ DOMAIN incomes \subseteq DOMAIN incomes'
          /\ DOMAIN posts \subseteq DOMAIN posts'
          /\ \A p \in DOMAIN posts : posts'[p].income = posts[p].income

Unmoved(q) == pc'[q] = pc[q] /\ form'[q] = form[q] /\ read'[q] = read[q]

LEMMA OtherReady ==
    ASSUME NEW q \in Requests, ReadyAt(q), Unmoved(q), Kept
    PROVE  ReadyAt(q)'
BY DEF ReadyAt, Unmoved, Kept, InsertsWell

LEMMA StoredSign ==
    ASSUME NEW a \in Int
    PROVE  Stored(a) \in Int /\ (a >= 0 => Stored(a) >= 0) /\ (a <= 0 => Stored(a) <= 0)
BY DEF Stored

(* A step of request r that leaves the tables alone.                       *)
LEMMA LocalStep ==
    ASSUME IInv, NEW r \in Requests, UNCHANGED tables, TypeOK', ReadyAt(r)',
           \A q \in Requests \ {r} : Unmoved(q)
    PROVE  IInv'
<1>1. UNCHANGED <<account, expenses, incomes, posts, history>>
  BY DEF tables
<1>2. Kept
  BY <1>1 DEF Kept
<1>3. \A q \in Requests : ReadyAt(q)'
  BY <1>2, OtherReady DEF IInv
<1> QED BY <1>1, <1>3 DEF IInv, Costs, GoneWithAccount, References, HistoryChain, Later, Precedes

LEMMA AnswerInv ==
    ASSUME IInv, NEW r \in Requests, Answer(r), UNCHANGED form
    PROVE  IInv'
<1>1. pc'[r] = "done" /\ TypeOK' /\ \A q \in Requests \ {r} : Unmoved(q)
  BY DEF Answer, Goto, IInv, TypeOK, tables, Unmoved
<1>2. ReadyAt(r)'
  BY <1>1 DEF ReadyAt
<1> QED BY <1>1, <1>2, LocalStep DEF Answer

LEMMA FoundInv ==
    ASSUME IInv, NEW r \in Requests, NEW next \in {"income", "linked", "insert", "write"},
           NEW what \in [link : Nat, amount : Int, income : BOOLEAN],
           Goto(r, next), read' = [read EXCEPT ![r] = what], UNCHANGED <<tables, form>>,
           ReadyAt(r)'
    PROVE  IInv'
<1>1. TypeOK' /\ \A q \in Requests \ {r} : Unmoved(q)
  BY DEF Goto, IInv, TypeOK, tables, Unmoved
<1> QED BY <1>1, LocalStep

LEMMA BeginInv == ASSUME IInv, NEW r \in Requests, Begin(r) PROVE IInv'
<1>1. PICK f \in Forms :
         /\ form' = [form EXCEPT ![r] = f]
         /\ pc' = [pc EXCEPT ![r] = IF f.kind = "updatePost" \/ Acceptable(f) THEN First(f)
                                    ELSE "done"]
  BY DEF Begin, Goto
<1>2. /\ f \in [kind : AllKinds, id : Nat, expense : Nat, income : Nat, amount : Int]
      /\ f.kind \in Kinds
  <2>1. f \in [kind : Kinds, id : Ids \cup {None}, expense : Ids \cup {None},
               income : Ids \cup {None}, amount : Amounts]
    BY DEF Forms
  <2>2. Ids \cup {None} \subseteq Nat
    BY RecordsAssumption DEF Ids, None
  <2> QED BY <2>1, <2>2, AmountsAssumption DEF AllKinds
<1> DEFINE h == IF f.kind = "updatePost" \/ Acceptable(f) THEN First(f) ELSE "done"
<1>3. /\ h \in {"done", "expense", "income", "link", "post", "write"}
      /\ h \in {"expense", "income"} => f.amount > 0
      /\ h = "link" => f.kind \in {"saveExpense", "updateExpense"} /\ f.amount >= 0
      /\ h = "post" => f.kind = "updatePost"
      /\ h = "write" => f.kind # "updatePost"
      /\ h = "write" /\ f.kind \in {"saveExpense", "updateExpense"} => f.amount >= 0
  BY <1>2, KindsAssumption DEF First, Acceptable
<1>4. pc' = [pc EXCEPT ![r] = h]
  BY <1>1
<1> HIDE DEF h
<1>5. pc'[r] = h /\ form'[r] = f /\ read'[r] = NoRead
  BY <1>1, <1>4 DEF Begin, IInv, TypeOK, ReadyAt
<1>6. UNCHANGED <<account, expenses, incomes, posts, history, read>>
  BY DEF Begin, tables
<1>7. TypeOK'
  BY <1>1, <1>2, <1>3, <1>4, <1>6 DEF IInv, TypeOK
<1>8. \A q \in Requests \ {r} : Unmoved(q)
  BY <1>1, <1>4, <1>6 DEF IInv, TypeOK, Unmoved
<1>9. ReadyAt(r)'
  <2>1. read'[r].link = None
    BY <1>5 DEF NoRead
  <2> QED BY <1>3, <1>5, <2>1 DEF ReadyAt
<1>10. UNCHANGED tables
  BY <1>6 DEF tables
<1> QED BY <1>7, <1>8, <1>9, <1>10, LocalStep

LEMMA RowTypes ==
    ASSUME IInv
    PROVE  /\ \A e \in DOMAIN expenses : e \in Nat \ {0} /\ expenses[e] \in ExpenseRows
           /\ \A i \in DOMAIN incomes : i \in Nat \ {0} /\ incomes[i] \in IncomeRows
           /\ \A p \in DOMAIN posts : p \in Nat \ {0} /\ posts[p] \in PostRows
           /\ \A h \in DOMAIN history : h \in Nat \ {0} /\ history[h] \in Versions
BY DEF IInv, TypeOK

-----------------------------------------------------------------------------
(* Steps that read.                                                        *)

Reads == [link : Nat, amount : Int, income : BOOLEAN]

LEMMA ReadLink ==
    ASSUME NEW x \in Reads, NEW n \in Nat
    PROVE  /\ [x EXCEPT !.link = n] \in Reads
           /\ [x EXCEPT !.link = n].link = n /\ [x EXCEPT !.link = n].income = x.income
BY DEF Reads

LEMMA ReadIncome ==
    ASSUME NEW x \in Reads, NEW b \in BOOLEAN
    PROVE  [x EXCEPT !.income = b] \in Reads /\ [x EXCEPT !.income = b].income = b
BY DEF Reads

LEMMA ReadAmount ==
    ASSUME NEW x \in Reads, NEW a \in Int
    PROVE  /\ [x EXCEPT !.amount = a] \in Reads
           /\ [x EXCEPT !.amount = a].amount = a
           /\ [x EXCEPT !.amount = a].link = x.link
           /\ [x EXCEPT !.amount = a].income = x.income
BY DEF Reads

LEMMA NothingRead == NoRead \in Reads /\ NoRead.income = FALSE
BY DEF Reads, NoRead, None

LEMMA Finding ==
    ASSUME IInv, NEW r \in Requests, NEW found, NEW what, NEW next,
           Find(r, found, what, next)
    PROVE  \/ Answer(r)
           \/ /\ found /\ Goto(r, next) /\ pc'[r] = next
              /\ read' = [read EXCEPT ![r] = what] /\ read'[r] = what
              /\ UNCHANGED tables
BY DEF Find, Goto, IInv, TypeOK

LEMMA ValidateExpenseInv == ASSUME IInv, NEW r \in Requests, ValidateExpense(r) PROVE IInv'
<1>1. PICK e, what, next :
         /\ e = form[r].expense
         /\ what = [NoRead EXCEPT !.link = expenses[e].link]
         /\ next = (IF form[r].income # None THEN "income"
                    ELSE IF expenses[e].link # None THEN "linked" ELSE "insert")
  OBVIOUS
<1>2. Find(r, LiveExpense(e), what, next) /\ UNCHANGED form /\ pc[r] = "expense"
  BY <1>1 DEF ValidateExpense
<1>3. CASE Answer(r)
  BY <1>2, <1>3, AnswerInv
<1>4. ASSUME LiveExpense(e), Goto(r, next), pc'[r] = next,
             read' = [read EXCEPT ![r] = what], read'[r] = what, UNCHANGED tables
      PROVE  IInv'
  <2>1. e \in DOMAIN expenses /\ expenses[e].link \in Nat
    BY <1>4, RowTypes DEF LiveExpense, ExpenseRows
  <2>2. what \in Reads /\ what.link = expenses[e].link /\ ~ what.income
    BY <1>1, <2>1, ReadLink, NothingRead
  <2>3. next \in {"income", "linked", "insert"} /\ (next = "insert" => what.link = None)
    BY <1>1, <2>2
  <2>4. form[r].amount > 0
    BY <1>2 DEF IInv, ReadyAt
  <2>5. ReadyAt(r)'
    BY <1>1, <1>2, <1>4, <2>1, <2>2, <2>3, <2>4 DEF ReadyAt, InsertsWell, tables
  <2> QED BY <1>2, <1>4, <2>2, <2>3, <2>5, FoundInv DEF Reads
<1> QED BY <1>2, <1>3, <1>4, Finding

LEMMA ValidateIncomeInv == ASSUME IInv, NEW r \in Requests, ValidateIncome(r) PROVE IInv'
<1>1. PICK i, what : i = form[r].income /\ what = [NoRead EXCEPT !.income = TRUE]
  OBVIOUS
<1>2. Find(r, LiveIncome(i), what, "insert") /\ UNCHANGED form /\ pc[r] = "income"
  BY <1>1 DEF ValidateIncome
<1>3. CASE Answer(r)
  BY <1>2, <1>3, AnswerInv
<1>4. ASSUME LiveIncome(i), Goto(r, "insert"), pc'[r] = "insert",
             read' = [read EXCEPT ![r] = what], read'[r] = what, UNCHANGED tables
      PROVE  IInv'
  <2>1. i \in DOMAIN incomes
    BY <1>4 DEF LiveIncome
  <2>2. what \in Reads /\ what.income
    BY <1>1, ReadIncome, NothingRead
  <2>3. form[r].amount > 0
    BY <1>2 DEF IInv, ReadyAt
  <2>4. ReadyAt(r)'
    BY <1>1, <1>2, <1>4, <2>1, <2>2, <2>3 DEF ReadyAt, InsertsWell, tables
  <2> QED BY <1>2, <1>4, <2>2, <2>4, FoundInv DEF Reads
<1> QED BY <1>2, <1>3, <1>4, Finding

LEMMA LoadLinkedInv == ASSUME IInv, NEW r \in Requests, LoadLinked(r) PROVE IInv'
<1>1. PICK l, what : /\ l = read[r].link
                     /\ what = [read[r] EXCEPT !.amount = expenses[l].amount]
  OBVIOUS
<1>2. Find(r, LiveExpense(l), what, "insert") /\ UNCHANGED form /\ pc[r] = "linked"
  BY <1>1 DEF LoadLinked
<1>3. CASE Answer(r)
  BY <1>2, <1>3, AnswerInv
<1>4. ASSUME LiveExpense(l), Goto(r, "insert"), pc'[r] = "insert",
             read' = [read EXCEPT ![r] = what], read'[r] = what, UNCHANGED tables
      PROVE  IInv'
  <2>1. l \in DOMAIN expenses /\ expenses[l].amount \in Int /\ expenses[l].amount >= 0
    BY <1>4, RowTypes DEF LiveExpense, ExpenseRows, IInv, Costs
  <2>2. read[r] \in Reads
    BY DEF IInv, TypeOK, Reads
  <2>3. /\ what \in Reads /\ what.link = l /\ what.amount = expenses[l].amount
        /\ what.income = read[r].income
    BY <1>1, <2>1, <2>2, ReadAmount
  <2>4. /\ form[r].amount > 0
        /\ account => form[r].expense \in DOMAIN expenses /\ ~ read[r].income
    BY <1>2 DEF IInv, ReadyAt
  <2>5. ReadyAt(r)'
    BY <1>1, <1>2, <1>4, <2>1, <2>3, <2>4 DEF ReadyAt, InsertsWell, tables
  <2> QED BY <1>2, <1>4, <2>3, <2>5, FoundInv DEF Reads
<1> QED BY <1>2, <1>3, <1>4, Finding

LEMMA LoadPostInv == ASSUME IInv, NEW r \in Requests, LoadPost(r) PROVE IInv'
<1>1. PICK p, b, what : /\ p = form[r].id /\ b = (posts[p].income > 0)
                        /\ what = [NoRead EXCEPT !.income = b]
  OBVIOUS
<1>2. /\ Find(r, LivePost(p) /\ Acceptable(form[r]), what, "write")
      /\ UNCHANGED form /\ pc[r] = "post"
  BY <1>1 DEF LoadPost
<1>3. CASE Answer(r)
  BY <1>2, <1>3, AnswerInv
<1>4. ASSUME LivePost(p) /\ Acceptable(form[r]), Goto(r, "write"), pc'[r] = "write",
             read' = [read EXCEPT ![r] = what], read'[r] = what, UNCHANGED tables
      PROVE  IInv'
  <2>1. form[r].kind = "updatePost" /\ form[r].amount > 0
    BY <1>2, <1>4 DEF IInv, ReadyAt, Acceptable
  <2>2. p \in DOMAIN posts /\ b \in BOOLEAN
    BY <1>1, <1>4 DEF LivePost
  <2>3. what \in Reads /\ what.income = b
    BY <1>1, <2>2, ReadIncome, NothingRead
  <2>4. ReadyAt(r)'
    BY <1>1, <1>2, <1>4, <2>1, <2>2, <2>3 DEF ReadyAt, tables
  <2> QED BY <1>2, <1>4, <2>3, <2>4, FoundInv DEF Reads
<1> QED BY <1>2, <1>3, <1>4, Finding

LEMMA ValidateLinkInv == ASSUME IInv, NEW r \in Requests, ValidateLink(r) PROVE IInv'
<1>1. PICK e, what : e = form[r].expense /\ what = [NoRead EXCEPT !.link = e]
  OBVIOUS
<1>2. Find(r, LiveExpense(e), what, "write") /\ UNCHANGED form /\ pc[r] = "link"
  BY <1>1 DEF ValidateLink
<1>3. CASE Answer(r)
  BY <1>2, <1>3, AnswerInv
<1>4. ASSUME LiveExpense(e), Goto(r, "write"), pc'[r] = "write",
             read' = [read EXCEPT ![r] = what], read'[r] = what, UNCHANGED tables
      PROVE  IInv'
  <2>1. e \in DOMAIN expenses /\ e \in Nat
    BY <1>1, <1>4 DEF LiveExpense, IInv, TypeOK
  <2>2. what \in Reads /\ what.link = e
    BY <1>1, <2>1, ReadLink, NothingRead
  <2>3. form[r].kind \in {"saveExpense", "updateExpense"} /\ form[r].amount >= 0
    BY <1>2 DEF IInv, ReadyAt
  <2>4. ReadyAt(r)'
    BY <1>1, <1>2, <1>4, <2>1, <2>2, <2>3 DEF ReadyAt, tables
  <2> QED BY <1>2, <1>4, <2>2, <2>4, FoundInv DEF Reads
<1> QED BY <1>2, <1>3, <1>4, Finding

-----------------------------------------------------------------------------
(* Steps that write: the last of a request.                                *)

LEMMA LastStep ==
    ASSUME IInv, NEW r \in Requests, Goto(r, "done"), UNCHANGED <<form, read>>, Kept,
           account' \in BOOLEAN, expenses' \in Seq(ExpenseRows), incomes' \in Seq(IncomeRows),
           posts' \in Seq(PostRows), history' \in Seq(Versions),
           Costs', GoneWithAccount', References', HistoryChain'
    PROVE  IInv'
<1>1. TypeOK' /\ pc'[r] = "done" /\ \A q \in Requests \ {r} : Unmoved(q)
  BY DEF Goto, IInv, TypeOK, Unmoved
<1>2. \A q \in Requests \ {r} : ReadyAt(q)'
  BY <1>1, OtherReady DEF IInv
<1>3. ReadyAt(r)'
  BY <1>1 DEF ReadyAt
<1> QED BY <1>1, <1>2, <1>3 DEF IInv

LEMMA NothingWritten ==
    ASSUME IInv, NEW r \in Requests, Goto(r, "done"),
           UNCHANGED <<account, expenses, incomes, posts, history, form, read>>
    PROVE  IInv'
<1>1. Kept
  BY DEF Kept
<1>2. Costs' /\ GoneWithAccount' /\ References' /\ HistoryChain'
  BY DEF IInv, Costs, GoneWithAccount, References, HistoryChain, Later, Precedes
<1> QED BY <1>1, <1>2, LastStep DEF IInv, TypeOK

(* Only expenses change, and none of them goes.                            *)
LEMMA ExpensesStep ==
    ASSUME IInv, NEW r \in Requests, Goto(r, "done"),
           UNCHANGED <<account, incomes, posts, history, form, read>>,
           expenses' \in Seq(ExpenseRows), DOMAIN expenses \subseteq DOMAIN expenses',
           \A e \in DOMAIN expenses' :
              \/ e \in DOMAIN expenses /\ expenses'[e].amount = expenses[e].amount
                 /\ expenses'[e].link = expenses[e].link
              \/ account /\ expenses'[e].amount >= 0
                 /\ expenses'[e].link \in DOMAIN expenses \cup {None}
    PROVE  IInv'
<1>1. Kept
  BY DEF Kept
<1>2. Costs'
  BY DEF IInv, Costs
<1>3. GoneWithAccount'
  <2> SUFFICES ASSUME ~ account' PROVE expenses' = <<>>
    BY DEF IInv, GoneWithAccount
  <2>1. DOMAIN expenses = {} /\ DOMAIN expenses' \subseteq DOMAIN expenses
    BY DEF IInv, GoneWithAccount
  <2> QED BY <2>1, EmptySeq
<1>4. References'
  BY DEF IInv, References
<1>5. HistoryChain'
  BY DEF IInv, HistoryChain, Later, Precedes
<1> QED BY <1>1, <1>2, <1>3, <1>4, <1>5, LastStep DEF IInv, TypeOK

LEMMA SaveExpenseInv == ASSUME IInv, NEW r \in Requests, SaveExpense(r) PROVE IInv'
<1>1. PICK row : row = [amount |-> Stored(form[r].amount), link |-> read[r].link,
                        deleted |-> FALSE]
  OBVIOUS
<1>2. /\ form[r].amount \in Int /\ form[r].amount >= 0 /\ read[r].link \in Nat
      /\ account => read[r].link \in DOMAIN expenses \cup {None}
  BY DEF SaveExpense, IInv, TypeOK, ReadyAt
<1>3. row \in ExpenseRows /\ row.amount >= 0 /\ row.link = read[r].link
  BY <1>1, <1>2, StoredSign DEF ExpenseRows
<1>4. expenses \in Seq(ExpenseRows)
  BY DEF IInv, TypeOK
<1>5. CASE account
  <2>1. expenses' = Append(expenses, row)
    BY <1>1, <1>5 DEF SaveExpense, AccountExists
  <2>2. /\ expenses' \in Seq(ExpenseRows) /\ DOMAIN expenses \subseteq DOMAIN expenses'
        /\ \A e \in DOMAIN expenses' :
              \/ e \in DOMAIN expenses /\ expenses'[e] = expenses[e]
              \/ expenses'[e] = row
    BY <1>3, <1>4, <2>1
  <2> QED BY <1>2, <1>3, <1>5, <2>2, ExpensesStep DEF SaveExpense
<1>6. CASE ~ account
  <2>1. expenses' = expenses
    BY <1>6 DEF SaveExpense, AccountExists
  <2> QED BY <1>4, <2>1, ExpensesStep DEF SaveExpense
<1> QED BY <1>5, <1>6

CostSet(e, a, l) == [expenses EXCEPT ![e].amount = a, ![e].link = l]

LEMMA CostSetIs ==
    ASSUME expenses \in Seq(ExpenseRows), NEW e \in DOMAIN expenses, NEW a \in Int, NEW l \in Nat
    PROVE  /\ CostSet(e, a, l) \in Seq(ExpenseRows)
           /\ DOMAIN CostSet(e, a, l) = DOMAIN expenses
           /\ \A d \in DOMAIN expenses \ {e} : CostSet(e, a, l)[d] = expenses[d]
           /\ CostSet(e, a, l)[e].amount = a /\ CostSet(e, a, l)[e].link = l
<1>1. /\ expenses[e] \in ExpenseRows
      /\ [expenses[e] EXCEPT !.amount = a] \in ExpenseRows
      /\ [expenses[e] EXCEPT !.amount = a].amount = a
      /\ \A x \in ExpenseRows : [x EXCEPT !.link = l] \in ExpenseRows
                                /\ [x EXCEPT !.link = l].link = l
                                /\ [x EXCEPT !.link = l].amount = x.amount
  <2>1. expenses[e] \in ExpenseRows
    OBVIOUS
  <2> QED BY <2>1 DEF ExpenseRows
<1>2. PICK h, x : h = [expenses EXCEPT ![e].amount = a]
                  /\ x = [expenses[e] EXCEPT !.amount = a] /\ h = [expenses EXCEPT ![e] = x]
  OBVIOUS
<1>3. /\ h \in Seq(ExpenseRows) /\ DOMAIN h = DOMAIN expenses /\ h[e].amount = a
      /\ \A d \in DOMAIN expenses \ {e} : h[d] = expenses[d]
  <2>1. x \in ExpenseRows /\ x.amount = a
    BY <1>1, <1>2
  <2>2. h = [expenses EXCEPT ![e] = x]
    BY <1>2
  <2> QED BY <2>1, <2>2
<1>4. CostSet(e, a, l) = [h EXCEPT ![e].link = l]
  BY <1>2 DEF CostSet
<1>5. h[e] \in ExpenseRows
  BY <1>3
<1> QED BY <1>1, <1>3, <1>4, <1>5

LEMMA UpdateExpenseInv == ASSUME IInv, NEW r \in Requests, UpdateExpense(r) PROVE IInv'
<1>1. PICK e, a, l : e = form[r].id /\ a = Stored(form[r].amount) /\ l = read[r].link
  OBVIOUS
<1>2. /\ a \in Int /\ a >= 0 /\ l \in Nat /\ expenses \in Seq(ExpenseRows)
      /\ account => l \in DOMAIN expenses \cup {None}
  BY <1>1, StoredSign DEF UpdateExpense, IInv, TypeOK, ReadyAt
<1>3. CASE LiveExpense(e)
  <2>1. expenses' = CostSet(e, a, l) /\ e \in DOMAIN expenses
    BY <1>1, <1>3 DEF UpdateExpense, WritableExpense, LiveExpense, CostSet
  <2>2. account
    BY <2>1 DEF IInv, GoneWithAccount
  <2>3. /\ expenses' \in Seq(ExpenseRows) /\ DOMAIN expenses' = DOMAIN expenses
        /\ \A d \in DOMAIN expenses \ {e} : expenses'[d] = expenses[d]
        /\ expenses'[e].amount = a /\ expenses'[e].link = l
    BY <1>2, <2>1, CostSetIs
  <2> QED BY <1>2, <2>1, <2>2, <2>3, ExpensesStep DEF UpdateExpense
<1>4. CASE ~ LiveExpense(e)
  <2>1. expenses' = expenses
    BY <1>1, <1>4 DEF UpdateExpense, WritableExpense
  <2> QED BY <1>2, <2>1, ExpensesStep DEF UpdateExpense
<1> QED BY <1>3, <1>4

LEMMA DeleteExpenseInv == ASSUME IInv, NEW r \in Requests, DeleteExpense(r) PROVE IInv'
<1>1. PICK e : e = form[r].id
  OBVIOUS
<1>2. expenses \in Seq(ExpenseRows)
  BY DEF IInv, TypeOK
<1>3. CASE LiveExpense(e)
  <2>1. expenses' = [expenses EXCEPT ![e].deleted = TRUE] /\ e \in DOMAIN expenses
    BY <1>1, <1>3 DEF DeleteExpense, WritableExpense, LiveExpense
  <2>2. \A x \in ExpenseRows : /\ [x EXCEPT !.deleted = TRUE] \in ExpenseRows
                               /\ [x EXCEPT !.deleted = TRUE].amount = x.amount
                               /\ [x EXCEPT !.deleted = TRUE].link = x.link
    BY DEF ExpenseRows
  <2>3. /\ expenses' \in Seq(ExpenseRows) /\ DOMAIN expenses' = DOMAIN expenses
        /\ \A d \in DOMAIN expenses : expenses'[d].amount = expenses[d].amount
                                      /\ expenses'[d].link = expenses[d].link
    BY <1>2, <2>1, <2>2
  <2> QED BY <2>3, ExpensesStep DEF DeleteExpense
<1>4. CASE ~ LiveExpense(e)
  <2>1. expenses' = expenses
    BY <1>1, <1>4 DEF DeleteExpense, WritableExpense
  <2> QED BY <1>2, <2>1, ExpensesStep DEF DeleteExpense
<1> QED BY <1>3, <1>4

LEMMA IncomesStep ==
    ASSUME IInv, NEW r \in Requests, Goto(r, "done"),
           UNCHANGED <<account, expenses, posts, history, form, read>>,
           incomes' \in Seq(IncomeRows), DOMAIN incomes \subseteq DOMAIN incomes',
           account \/ incomes' = incomes
    PROVE  IInv'
<1>1. Kept
  BY DEF Kept
<1>2. Costs' /\ GoneWithAccount'
  BY DEF IInv, Costs, GoneWithAccount
<1>3. References'
  BY DEF IInv, References
<1>4. HistoryChain'
  BY DEF IInv, HistoryChain, Later, Precedes
<1> QED BY <1>1, <1>2, <1>3, <1>4, LastStep DEF IInv, TypeOK

LEMMA SaveIncomeInv == ASSUME IInv, NEW r \in Requests, SaveIncome(r) PROVE IInv'
<1>1. incomes \in Seq(IncomeRows)
  BY DEF IInv, TypeOK
<1>2. CASE account
  <2>1. PICK row \in IncomeRows : incomes' = Append(incomes, row)
    BY <1>2 DEF SaveIncome, AccountExists, IncomeRows
  <2>2. incomes' \in Seq(IncomeRows) /\ DOMAIN incomes \subseteq DOMAIN incomes'
    BY <1>1, <2>1
  <2> QED BY <1>2, <2>2, IncomesStep DEF SaveIncome
<1>3. CASE ~ account
  <2>1. incomes' = incomes
    BY <1>3 DEF SaveIncome, AccountExists
  <2> QED BY <1>1, <2>1, IncomesStep DEF SaveIncome
<1> QED BY <1>2, <1>3

LEMMA DeleteIncomeInv == ASSUME IInv, NEW r \in Requests, DeleteIncome(r) PROVE IInv'
<1>1. PICK i : i = form[r].id
  OBVIOUS
<1>2. incomes \in Seq(IncomeRows)
  BY DEF IInv, TypeOK
<1>3. CASE LiveIncome(i)
  <2>1. incomes' = [incomes EXCEPT ![i].deleted = TRUE] /\ i \in DOMAIN incomes
    BY <1>1, <1>3 DEF DeleteIncome, LiveIncome
  <2>2. \A x \in IncomeRows : [x EXCEPT !.deleted = TRUE] \in IncomeRows
    BY DEF IncomeRows
  <2>3. incomes' \in Seq(IncomeRows) /\ DOMAIN incomes' = DOMAIN incomes
    BY <1>2, <2>1, <2>2
  <2>4. account
    BY <2>1 DEF IInv, GoneWithAccount
  <2> QED BY <2>3, <2>4, IncomesStep DEF DeleteIncome
<1>4. CASE ~ LiveIncome(i)
  <2>1. incomes' = incomes
    BY <1>1, <1>4 DEF DeleteIncome
  <2> QED BY <1>2, <2>1, IncomesStep DEF DeleteIncome
<1> QED BY <1>3, <1>4

LEMMA DeleteAccountInv == ASSUME IInv, NEW r \in Requests, DeleteAccount(r) PROVE IInv'
<1>1. /\ account' = FALSE /\ expenses' = <<>> /\ incomes' = <<>> /\ posts' = <<>>
      /\ history' = <<>> /\ Goto(r, "done") /\ UNCHANGED <<form, read>>
  BY DEF DeleteAccount
<1>2. Kept
  BY <1>1 DEF Kept
<1>3. Costs' /\ GoneWithAccount' /\ References' /\ HistoryChain'
  BY <1>1 DEF Costs, GoneWithAccount, References, HistoryChain
<1> QED BY <1>1, <1>2, <1>3, LastStep, EmptySeq

-----------------------------------------------------------------------------
(* Posts.                                                                  *)

(* A post that refers to a record of the account.                          *)
Refers(post) ==
    \/ post.expense \in DOMAIN expenses /\ post.income = None /\ post.amount >= 0
    \/ post.income \in DOMAIN incomes /\ post.expense = None /\ post.amount <= 0

LEMMA PostsAreReferences ==
    References <=> /\ \A p \in DOMAIN posts : Refers(posts[p])
                   /\ \A e \in DOMAIN expenses :
                         expenses[e].link \in DOMAIN expenses \cup {None}
BY DEF References, Refers

LEMMA NewPostsAre ==
    ASSUME IInv, NEW r \in Requests, pc[r] = "insert", account
    PROVE  NewPosts(r) \in Seq(PostRows) /\ \A n \in DOMAIN NewPosts(r) : Refers(NewPosts(r)[n])
<1>1. PICK a, e, i, l, b, c :
         /\ a = form[r].amount /\ e = form[r].expense /\ i = form[r].income
         /\ l = read[r].link /\ b = read[r].income /\ c = read[r].amount
  OBVIOUS
<1>2. /\ a \in Int /\ a > 0 /\ - a \in Int /\ - a <= 0 /\ e \in Nat /\ i \in Nat
      /\ l \in Nat /\ b \in BOOLEAN /\ c \in Int
  BY <1>1 DEF IInv, TypeOK, ReadyAt
<1>3. IF b THEN i \in DOMAIN incomes
      ELSE e \in DOMAIN expenses /\ (l # None => l \in DOMAIN expenses /\ c >= 0)
  BY <1>1 DEF IInv, ReadyAt, InsertsWell
<1>4. /\ Stored(a) \in Int /\ Stored(a) >= 0
      /\ Stored(- a) \in Int /\ Stored(- a) <= 0
  BY <1>2, StoredSign
<1>5. CASE b
  <2>1. PICK x : x = Post(None, i, Stored(- a))
    OBVIOUS
  <2>2. x \in PostRows /\ Refers(x)
    BY <1>2, <1>3, <1>4, <1>5, <2>1 DEF Post, PostRows, Refers, None
  <2>3. NewPosts(r) = <<x>>
    BY <1>1, <1>5, <2>1 DEF NewPosts
  <2> QED BY <2>2, <2>3
<1>6. CASE ~ b
  <2>1. PICK x, y : x = Post(e, None, Stored(a)) /\ y = Post(l, None, c)
    OBVIOUS
  <2>2. x \in PostRows /\ Refers(x)
    BY <1>2, <1>3, <1>4, <1>6, <2>1 DEF Post, PostRows, Refers, None
  <2>3. CASE l = None
    <3>1. NewPosts(r) = <<x>> \o <<>>
      BY <1>1, <1>6, <2>1, <2>3 DEF NewPosts
    <3>2. NewPosts(r) = <<x>>
      BY <2>2, <3>1, ConcatEmptySeq
    <3> QED BY <2>2, <3>2
  <2>4. CASE l # None
    <3>1. NewPosts(r) = <<x>> \o <<y>>
      BY <1>1, <1>6, <2>1, <2>4 DEF NewPosts
    <3>2. y \in PostRows /\ Refers(y)
      BY <1>2, <1>3, <1>6, <2>1, <2>4 DEF Post, PostRows, Refers, None
    <3> QED BY <2>2, <3>1, <3>2
  <2> QED BY <2>3, <2>4
<1> QED BY <1>2, <1>5, <1>6

LEMMA CreatePostsInv == ASSUME IInv, NEW r \in Requests, CreatePosts(r) PROVE IInv'
<1>1. UNCHANGED <<account, expenses, incomes, history, form, read>> /\ Goto(r, "done")
      /\ pc[r] = "insert" /\ posts \in Seq(PostRows)
  BY DEF CreatePosts, IInv, TypeOK
<1>2. PICK new \in Seq(PostRows) : /\ posts' = posts \o new
                                   /\ \A n \in DOMAIN new : Refers(new[n])
                                   /\ account \/ posts' = posts
  <2>1. CASE account
    <3>1. posts' = posts \o NewPosts(r)
      BY <2>1 DEF CreatePosts, AccountExists
    <3> QED BY <1>1, <2>1, <3>1, NewPostsAre
  <2>2. CASE ~ account
    <3>1. posts' = posts
      BY <2>2 DEF CreatePosts, AccountExists
    <3>2. PICK new : new = <<>>
      OBVIOUS
    <3>3. /\ new \in Seq(PostRows) /\ posts' = posts \o new
          /\ \A n \in DOMAIN new : Refers(new[n])
      BY <1>1, <3>1, <3>2, ConcatEmptySeq
    <3> QED BY <3>1, <3>3
  <2> QED BY <2>1, <2>2
<1>3. /\ posts' \in Seq(PostRows) /\ DOMAIN posts \subseteq DOMAIN posts'
      /\ \A p \in DOMAIN posts : posts'[p] = posts[p]
      /\ \A p \in DOMAIN posts' : \/ p \in DOMAIN posts /\ posts'[p] = posts[p]
                                  \/ Refers(posts'[p])
  BY <1>1, <1>2
<1>4. Kept
  BY <1>1, <1>3 DEF Kept
<1>5. Costs' /\ GoneWithAccount'
  BY <1>1, <1>2 DEF IInv, Costs, GoneWithAccount
<1>6. References'
  <2>1. \A p \in DOMAIN posts' : Refers(posts'[p])
    BY <1>3, PostsAreReferences DEF IInv
  <2> QED BY <1>1, <2>1 DEF IInv, References, Refers
<1>7. HistoryChain'
  BY <1>1, <1>3 DEF IInv, HistoryChain, Later, Precedes
<1> QED BY <1>1, <1>3, <1>4, <1>5, <1>6, <1>7, LastStep DEF IInv, TypeOK

(* A post is updated or deleted.  The version that history now keeps was   *)
(* the present row, which came after the last entry of the post.           *)
LEMMA ChainGrows ==
    ASSUME IInv, NEW p \in DOMAIN posts, ~ posts[p].deleted,
           NEW new \in PostRows, new # posts[p],
           new.expense = posts[p].expense, new.income = posts[p].income, PutPost(p, new)
    PROVE  history' \in Seq(Versions) /\ HistoryChain'
<1>0. PICK n : n = Len(history)
  OBVIOUS
<1>1. PICK h : h = [post |-> p, old |-> posts[p],
                    operation |-> IF new.deleted /\ ~ posts[p].deleted
                                  THEN "delete" ELSE "update"]
  OBVIOUS
<1>2. /\ h \in Versions /\ h.post = p /\ h.old = posts[p]
      /\ h.operation = "delete" <=> new.deleted
  BY <1>1, RowTypes DEF Versions
<1>3. /\ history' = Append(history, h) /\ history \in Seq(Versions) /\ n \in Nat
      /\ posts' = [posts EXCEPT ![p] = new] /\ posts \in Seq(PostRows)
  BY <1>0, <1>1 DEF PutPost, Recorded, IInv, TypeOK
<1>4. /\ history' \in Seq(Versions)
      /\ DOMAIN history = 1..n /\ DOMAIN history' = 1..(n + 1)
      /\ \A i \in 1..n : history'[i] = history[i]
      /\ history'[n + 1] = h
  BY <1>0, <1>2, <1>3
<1>5. /\ DOMAIN posts' = DOMAIN posts /\ posts'[p] = new
      /\ \A q \in DOMAIN posts : /\ q # p => posts'[q] = posts[q]
                                 /\ posts'[q].expense = posts[q].expense
                                 /\ posts'[q].income = posts[q].income
  BY <1>3
<1>6. /\ \A i, j \in 1..n : Later(i, j)' <=> Later(i, j)
      /\ \A i \in 1..n : Later(i, n + 1)' <=> history[i].post = p
      /\ \A j \in 1..(n + 1) : ~ Later(n + 1, j)'
  BY <1>2, <1>3, <1>4 DEF Later
<1> SUFFICES ASSUME NEW i \in 1..(n + 1)
             PROVE  LET g == history'[i] IN
                    /\ g.post \in DOMAIN posts'
                    /\ ~ g.old.deleted
                    /\ g.old.expense = posts'[g.post].expense
                    /\ g.old.income = posts'[g.post].income
                    /\ \/ Precedes(g, posts'[g.post])
                       \/ \E j \in 1..(n + 1) : Later(i, j)'
                    /\ \A j \in 1..(n + 1) :
                          \/ ~ Later(i, j)'
                          \/ \E k \in 1..(n + 1) : Later(i, k)' /\ Later(k, j)'
                          \/ Precedes(g, history'[j].old)
  BY <1>4 DEF HistoryChain, Precedes
<1>7. CASE i = n + 1
  <2>1. Precedes(h, new)
    BY <1>2 DEF Precedes
  <2> QED BY <1>2, <1>4, <1>5, <1>6, <1>7, <2>1
<1>8. CASE i \in 1..n
  <2>1. PICK g : g = history[i]
    OBVIOUS
  <2>2. /\ g.post \in DOMAIN posts /\ ~ g.old.deleted
        /\ g.old.expense = posts[g.post].expense /\ g.old.income = posts[g.post].income
        /\ Precedes(g, posts[g.post]) \/ \E j \in 1..n : Later(i, j)
        /\ \A j \in 1..n : \/ ~ Later(i, j)
                           \/ \E k \in 1..n : Later(i, k) /\ Later(k, j)
                           \/ Precedes(g, history[j].old)
    BY <1>4, <1>8, <2>1 DEF IInv, HistoryChain
  <2>3. 1..n \subseteq 1..(n + 1) /\ n + 1 \in 1..(n + 1)
    BY <1>3, <1>4
  <2>4. Precedes(g, posts'[g.post]) \/ \E j \in 1..(n + 1) : Later(i, j)'
    BY <1>5, <1>6, <1>8, <2>1, <2>2, <2>3
  <2>5. ASSUME NEW j \in 1..n, Later(i, j)'
        PROVE  \/ \E k \in 1..(n + 1) : Later(i, k)' /\ Later(k, j)'
               \/ Precedes(g, history'[j].old)
    BY <1>4, <1>6, <1>8, <2>2, <2>3, <2>5
  <2>6. ASSUME Later(i, n + 1)'
        PROVE  \/ \E k \in 1..(n + 1) : Later(i, k)' /\ Later(k, n + 1)'
               \/ Precedes(g, h.old)
    <3>1. g.post = p
      BY <1>6, <1>8, <2>1, <2>6
    <3>2. CASE \E j \in 1..n : Later(i, j)
      <4>1. PICK j \in 1..n : Later(i, j)
        BY <3>2
      <4>2. Later(j, n + 1)'
        BY <1>6, <2>1, <3>1, <4>1 DEF Later
      <4> QED BY <1>6, <1>8, <2>3, <4>1, <4>2
    <3>3. CASE Precedes(g, posts[g.post])
      BY <1>2, <3>1, <3>3
    <3> QED BY <2>2, <3>2, <3>3
  <2>7. \A j \in 1..(n + 1) : j \in 1..n \/ j = n + 1
    BY <1>3, <1>4
  <2> QED BY <1>4, <1>5, <1>8, <2>1, <2>2, <2>4, <2>5, <2>6, <2>7
<1> QED BY <1>3, <1>4, <1>7, <1>8

LEMMA PutPostInv ==
    ASSUME IInv, NEW r \in Requests, NEW p \in DOMAIN posts, ~ posts[p].deleted,
           NEW new \in PostRows, Refers(new),
           new.expense = posts[p].expense, new.income = posts[p].income, PutPost(p, new),
           Goto(r, "done"), UNCHANGED <<account, expenses, incomes, form, read>>
    PROVE  IInv'
<1>1. posts' = [posts EXCEPT ![p] = new] /\ posts \in Seq(PostRows)
  BY DEF PutPost, IInv, TypeOK
<1>2. /\ posts' \in Seq(PostRows) /\ DOMAIN posts' = DOMAIN posts /\ posts'[p] = new
      /\ \A q \in DOMAIN posts : /\ q # p => posts'[q] = posts[q]
                                 /\ posts'[q].income = posts[q].income
  BY <1>1
<1>3. Kept
  BY <1>2 DEF Kept
<1>4. account
  BY <1>1 DEF IInv, GoneWithAccount
<1>5. Costs' /\ GoneWithAccount'
  BY <1>4 DEF IInv, Costs, GoneWithAccount
<1>6. References'
  <2>1. \A q \in DOMAIN posts' : Refers(posts'[q])
    BY <1>2, PostsAreReferences DEF IInv
  <2> QED BY <2>1 DEF IInv, References, Refers
<1>7. history' \in Seq(Versions) /\ HistoryChain'
  <2>1. CASE new = posts[p]
    <3>1. history' = history /\ posts' = posts
      BY <1>1, <2>1 DEF PutPost, Recorded
    <3> QED BY <3>1 DEF IInv, TypeOK, HistoryChain, Later, Precedes
  <2>2. CASE new # posts[p]
    BY <2>2, ChainGrows
  <2> QED BY <2>1, <2>2
<1> QED BY <1>2, <1>3, <1>5, <1>6, <1>7, LastStep DEF IInv, TypeOK

LEMMA UpdatePostInv == ASSUME IInv, NEW r \in Requests, UpdatePost(r) PROVE IInv'
<1>1. PICK p, a : p = form[r].id /\ a = AmountOf(r)
  OBVIOUS
<1>2. pc[r] = "write" /\ form[r].kind = "updatePost" /\ Goto(r, "done")
      /\ UNCHANGED <<account, expenses, incomes, form, read>>
  BY DEF UpdatePost
<1>3. CASE LivePost(p)
  <2>1. PICK new : new = [posts[p] EXCEPT !.amount = a]
    OBVIOUS
  <2>2. p \in DOMAIN posts /\ posts[p] \in PostRows /\ ~ posts[p].deleted
    BY <1>3, RowTypes DEF LivePost
  <2>3. account
    BY <2>2 DEF IInv, GoneWithAccount
  <2>4. /\ form[r].amount \in Int /\ form[r].amount > 0 /\ - form[r].amount \in Int
        /\ read[r].income = (posts[p].income > 0)
    BY <1>1, <1>2, <2>3 DEF IInv, TypeOK, ReadyAt
  <2>5. a \in Int /\ IF posts[p].income > 0 THEN a <= 0 ELSE a >= 0
    <3>1. /\ Stored(form[r].amount) \in Int /\ Stored(form[r].amount) >= 0
          /\ Stored(- form[r].amount) \in Int /\ Stored(- form[r].amount) <= 0
      BY <2>4, StoredSign
    <3> QED BY <1>1, <2>4, <3>1 DEF AmountOf
  <2>6. /\ new \in PostRows /\ new.expense = posts[p].expense
        /\ new.income = posts[p].income /\ new.amount = a
    BY <2>1, <2>2, <2>5 DEF PostRows
  <2>7. Refers(new)
    <3>1. Refers(posts[p])
      BY <2>2, PostsAreReferences DEF IInv
    <3>2. posts[p].income > 0 <=> posts[p].income # None
      BY <2>2 DEF PostRows, None
    <3>3. None \notin DOMAIN incomes
      BY RowTypes DEF None
    <3> QED BY <2>5, <2>6, <3>1, <3>2, <3>3 DEF Refers
  <2>8. PutPost(p, new)
    BY <1>1, <1>3, <2>1 DEF UpdatePost, WritablePost
  <2> QED BY <1>2, <2>2, <2>6, <2>7, <2>8, PutPostInv
<1>4. CASE ~ LivePost(p)
  <2>1. UNCHANGED <<posts, history>>
    BY <1>1, <1>4 DEF UpdatePost, WritablePost
  <2> QED BY <1>2, <2>1, NothingWritten
<1> QED BY <1>3, <1>4

LEMMA DeletePostInv == ASSUME IInv, NEW r \in Requests, DeletePost(r) PROVE IInv'
<1>1. PICK p : p = form[r].id
  OBVIOUS
<1>2. Goto(r, "done") /\ UNCHANGED <<account, expenses, incomes, form, read>>
  BY DEF DeletePost
<1>3. CASE LivePost(p)
  <2>1. PICK new : new = [posts[p] EXCEPT !.deleted = TRUE]
    OBVIOUS
  <2>2. p \in DOMAIN posts /\ posts[p] \in PostRows /\ ~ posts[p].deleted
    BY <1>3, RowTypes DEF LivePost
  <2>3. /\ new \in PostRows /\ new.expense = posts[p].expense
        /\ new.income = posts[p].income /\ new.amount = posts[p].amount
    BY <2>1, <2>2 DEF PostRows
  <2>4. Refers(new)
    <3>1. Refers(posts[p])
      BY <2>2, PostsAreReferences DEF IInv
    <3> QED BY <2>3, <3>1 DEF Refers
  <2>5. PutPost(p, new)
    BY <1>1, <1>3, <2>1 DEF DeletePost, WritablePost
  <2> QED BY <1>2, <2>2, <2>3, <2>4, <2>5, PutPostInv
<1>4. CASE ~ LivePost(p)
  <2>1. UNCHANGED <<posts, history>>
    BY <1>1, <1>4 DEF DeletePost, WritablePost
  <2> QED BY <1>2, <2>1, NothingWritten
<1> QED BY <1>3, <1>4

-----------------------------------------------------------------------------

LEMMA InitInv == Init => IInv
<1> SUFFICES ASSUME Init PROVE IInv
  OBVIOUS
<1>1. PICK linked \in BOOLEAN :
         expenses = <<[amount |-> 1, link |-> None, deleted |-> FALSE],
                      [amount |-> 1, link |-> IF linked THEN 1 ELSE None, deleted |-> FALSE]>>
  BY DEF Init
<1>2. TypeOK
  BY <1>1 DEF Init, TypeOK, ExpenseRows, IncomeRows, PostRows, Post, None, NoForm, NoRead,
              AllKinds
<1>3. \A r \in Requests : ReadyAt(r)
  BY DEF Init, ReadyAt
<1>4. Costs /\ GoneWithAccount /\ References /\ HistoryChain
  BY <1>1 DEF Init, Costs, GoneWithAccount, References, HistoryChain, Post, None
<1> QED BY <1>2, <1>3, <1>4 DEF IInv

LEMMA StepInv == IInv /\ [Next]_vars => IInv'
<1> SUFFICES ASSUME IInv, [Next]_vars PROVE IInv'
  OBVIOUS
<1>1. ASSUME NEW r \in Requests, Step(r) PROVE IInv'
  BY <1>1, BeginInv, ValidateExpenseInv, ValidateIncomeInv, LoadLinkedInv, CreatePostsInv,
     LoadPostInv, UpdatePostInv, DeletePostInv, ValidateLinkInv, SaveExpenseInv,
     UpdateExpenseInv, DeleteExpenseInv, SaveIncomeInv, DeleteIncomeInv, DeleteAccountInv
  DEF Step
<1>2. CASE UNCHANGED vars
  BY <1>2 DEF vars, IInv, TypeOK, ReadyAt, InsertsWell, Costs, GoneWithAccount, References,
              HistoryChain, Later, Precedes
<1> QED BY <1>1, <1>2 DEF Next, Quiet

(* What a request has checked stays so until it writes, unless the account *)
(* is gone; so rows refer to rows and history is a chain.                  *)
THEOREM Invariant == Spec => []IInv
BY InitInv, StepInv, PTL DEF Spec

(* Whatever requests overlap, every post and every link refers to a record *)
(* of the account, and the sign of a post tells what it is of.             *)
THEOREM StayReferences == Spec => []References
<1>1. IInv => References
  BY DEF IInv
<1> QED BY <1>1, Invariant, PTL

(* Whatever requests overlap, history keeps all previous versions of the   *)
(* posts of the account, in order, and nothing follows a deletion.         *)
THEOREM HistoryComplete == Spec => []HistoryChain
<1>1. IInv => HistoryChain
  BY DEF IInv
<1> QED BY <1>1, Invariant, PTL

-----------------------------------------------------------------------------
(* The list of posts.  The order of rows is total and strict, so a page    *)
(* and the rest of the list are told apart by their cursor.                *)

Ways       == {"after", "before"}
Directions == Ways \cup {""}
Cursors    == Row \cup {NoRow}

(* A strict total order of rows, in either direction.                      *)
LEMMA AheadOrders ==
    ASSUME NEW d \in Directions, NEW a \in Row, NEW b \in Row
    PROVE  /\ ~ Ahead(d, a, a)
           /\ a = b \/ Ahead(d, a, b) \/ Ahead(d, b, a)
           /\ \A c \in Row : Ahead(d, a, b) /\ Ahead(d, b, c) => Ahead(d, a, c)
<1>1. \A c \in Row : c.id \in Int /\ c.date \in Int
  <2>1. PostIds \subseteq Int /\ Dates \subseteq Int
    BY NumbersAssumption DEF PostIds
  <2> QED BY <2>1 DEF Row
<1>2. a.id = b.id /\ a.date = b.date => a = b
  BY DEF Row
<1>3. CASE d = "before"
  BY <1>1, <1>2, <1>3 DEF Ahead, Older, Newer
<1>4. CASE d # "before"
  BY <1>1, <1>2, <1>4 DEF Ahead, Newer
<1> QED BY <1>3, <1>4

(* The rank of a row tells it from all others, so that the sequence of     *)
(* rows by rank holds each once.                                           *)
LEMMA NearestSorts ==
    ASSUME NEW d \in Directions, NEW S \in SUBSET Row, IsFiniteSet(S)
    PROVE  LET s == Nearest(d, S) IN
           /\ s \in Seq(Row) /\ Len(s) = Cardinality(S)
           /\ ToSet(s) = S
           /\ \A i, j \in DOMAIN s : i < j => Ahead(d, s[i], s[j])
<1> DEFINE InFront(r) == {q \in S : Ahead(d, q, r)}
           N == Cardinality(S)
           rank == [r \in S |-> Cardinality(InFront(r))]
<1>1. N \in Nat
  BY FS_CardinalityType
<1>2. ASSUME NEW r \in S
      PROVE  IsFiniteSet(InFront(r)) /\ rank[r] \in 0..(N - 1)
  <2>1. InFront(r) \in SUBSET S /\ InFront(r) # S
    BY AheadOrders
  <2>2. IsFiniteSet(InFront(r)) /\ Cardinality(InFront(r)) <= N
        /\ Cardinality(InFront(r)) # N
    BY <2>1, FS_Subset
  <2>3. Cardinality(InFront(r)) \in Nat
    BY <2>2, FS_CardinalityType
  <2> QED BY <1>1, <2>2, <2>3
<1>3. ASSUME NEW q \in S, NEW r \in S, Ahead(d, q, r)
      PROVE  rank[q] < rank[r]
  <2>1. InFront(q) \in SUBSET InFront(r)
    BY <1>3, AheadOrders
  <2>2. InFront(q) # InFront(r)
    BY <1>3, AheadOrders
  <2>3. Cardinality(InFront(q)) <= Cardinality(InFront(r))
        /\ Cardinality(InFront(q)) # Cardinality(InFront(r))
    BY <1>2, <2>1, <2>2, FS_Subset
  <2>4. rank[q] = Cardinality(InFront(q)) /\ rank[r] = Cardinality(InFront(r))
    OBVIOUS
  <2>5. Cardinality(InFront(q)) \in Nat /\ Cardinality(InFront(r)) \in Nat
    BY <1>2, FS_CardinalityType
  <2> HIDE DEF rank, InFront
  <2> QED BY <2>3, <2>4, <2>5
<1> HIDE DEF InFront
<1>4. rank \in Injection(S, 0..(N - 1))
  <2>1. rank \in [S -> 0..(N - 1)]
    BY <1>2
  <2>2. \A q, r \in S : rank[q] = rank[r] => q = r
    BY <1>2, <1>3, <2>1, AheadOrders
  <2> QED BY <2>1, <2>2 DEF Injection, IsInjective
<1>5. rank \in Surjection(S, 0..(N - 1))
  <2>1. IsFiniteSet(0..(N - 1)) /\ Cardinality(0..(N - 1)) = N
    BY <1>1, FS_Interval
  <2> HIDE DEF rank
  <2> QED BY <1>4, <2>1, FS_Injection
<1>6. \A i \in 1..N : \E r \in S : rank[r] = i - 1
  <2>1. \A k \in 0..(N - 1) : \E r \in S : rank[r] = k
    BY <1>5 DEF Surjection
  <2>2. \A i \in 1..N : i - 1 \in 0..(N - 1)
    BY <1>1
  <2> QED BY <2>1, <2>2
<1>7. PICK s : s = Nearest(d, S)
  OBVIOUS
<1>8. /\ DOMAIN s = 1..N
      /\ \A i \in 1..N : s[i] = CHOOSE r \in S : Cardinality(InFront(r)) = i - 1
  BY <1>7 DEF Nearest, InFront
<1>9. ASSUME NEW i \in 1..N PROVE s[i] \in S /\ rank[s[i]] = i - 1
  <2>1. PICK r \in S : Cardinality(InFront(r)) = i - 1
    BY <1>6
  <2> QED BY <1>8, <2>1
<1> HIDE DEF rank
<1>10. /\ s \in Seq(Row) /\ Len(s) = N /\ DOMAIN s = 1..N
  <2>1. s = [i \in 1..N |-> s[i]]
    BY <1>7, <1>8 DEF Nearest
  <2>2. s \in [1..N -> Row]
    BY <1>9, <2>1
  <2> HIDE DEF N
  <2> QED BY <1>1, <1>8, <2>2
<1>11. ASSUME NEW r \in S PROVE r \in ToSet(s)
  <2>1. rank[r] + 1 \in 1..N
    BY <1>1, <1>4 DEF Injection
  <2>2. s[rank[r] + 1] = r
    <3>1. rank[s[rank[r] + 1]] = rank[r]
      BY <1>1, <1>4, <1>9, <2>1 DEF Injection
    <3>2. \A p, q \in S : rank[p] = rank[q] => p = q
      BY <1>4 DEF Injection, IsInjective
    <3> QED BY <1>9, <2>1, <3>1, <3>2
  <2> QED BY <1>10, <2>1, <2>2 DEF ToSet
<1>12. ToSet(s) = S
  BY <1>9, <1>10, <1>11 DEF ToSet
<1>13. ASSUME NEW i \in 1..N, NEW j \in 1..N, i < j
       PROVE  Ahead(d, s[i], s[j])
  <2>1. s[i] # s[j] /\ ~ Ahead(d, s[j], s[i])
    BY <1>1, <1>3, <1>9, <1>13
  <2> QED BY <1>9, <2>1, AheadOrders
<1> QED BY <1>7, <1>10, <1>12, <1>13

(* What Limited, Displayed and Walked do to rows.                          *)
LEMMA LimitedIsPrefix ==
    ASSUME NEW q \in Seq(Row), NEW n \in Nat
    PROVE  LET s == Limited(q, n) IN
           /\ s \in Seq(Row)
           /\ Len(s) = IF Len(q) > n THEN n ELSE Len(q)
           /\ \A i \in 1..Len(s) : s[i] = q[i]
<1>1. CASE Len(q) > n
  <2>1. n \in 0..Len(q) /\ \A i \in 1..n : i \in 1..Len(q) /\ q[i] \in Row
    BY <1>1
  <2>2. /\ SubSeq(q, 1, n) \in Seq(Row) /\ Len(SubSeq(q, 1, n)) = n
        /\ \A i \in 1..n : SubSeq(q, 1, n)[i] = q[i]
    BY <2>1
  <2> QED BY <1>1, <2>2 DEF Limited
<1>2. CASE ~ Len(q) > n
  BY <1>2 DEF Limited
<1> QED BY <1>1, <1>2

LEMMA ReverseTurns ==
    ASSUME NEW s \in Seq(Row)
    PROVE  /\ Reverse(s) \in Seq(Row) /\ Len(Reverse(s)) = Len(s)
           /\ Reverse(Reverse(s)) = s
           /\ s # <<>> => /\ Reverse(s) # <<>>
                          /\ Head(Reverse(s)) = s[Len(s)] /\ Last(Reverse(s)) = s[1]
           /\ s = <<>> => Reverse(s) = <<>>
<1>1. Len(s) \in Nat /\ \A i \in 1..Len(s) : Len(s) - i + 1 \in 1..Len(s)
  OBVIOUS
<1>2. PICK t : t = Reverse(s)
  OBVIOUS
<1>3. /\ t \in Seq(Row) /\ Len(t) = Len(s)
      /\ \A i \in 1..Len(s) : t[i] = s[Len(s) - i + 1]
  BY <1>1, <1>2 DEF Reverse
<1>4. /\ Reverse(t) \in Seq(Row) /\ Len(Reverse(t)) = Len(s)
      /\ \A i \in 1..Len(s) : Reverse(t)[i] = t[Len(s) - i + 1]
  BY <1>1, <1>3 DEF Reverse
<1>5. ASSUME NEW i \in 1..Len(s) PROVE Reverse(t)[i] = s[i]
  <2>1. PICK j \in 1..Len(s) : j = Len(s) - i + 1
    BY <1>1
  <2>2. Len(s) - j + 1 = i
    BY <1>1, <2>1
  <2> QED BY <1>3, <1>4, <2>1, <2>2
<1>6. Reverse(t) = s
  BY <1>4, <1>5, SeqEqual
<1>7. s # <<>> => Len(s) > 0 /\ t # <<>> /\ Head(t) = t[1] /\ Last(t) = t[Len(s)]
  BY <1>1, <1>3 DEF Last
<1>8. s = <<>> => t = <<>>
  BY <1>3
<1> QED BY <1>1, <1>2, <1>3, <1>6, <1>7, <1>8

-----------------------------------------------------------------------------
Selected(d, cursor) == {r \in Listed : Beyond(d, r, cursor)}

(* The rows s are those a SELECT finds nearest to a cursor, and more tells *)
(* whether there are others.                                               *)
Found(d, cursor, s, more) ==
    /\ \A i \in DOMAIN s : s[i] \in Selected(d, cursor)
    /\ \A i, j \in DOMAIN s : i < j => Ahead(d, s[i], s[j])
    /\ \A r \in Selected(d, cursor) :
          r \in ToSet(s) \/ (more /\ Ahead(d, s[Len(s)], r))
    /\ more => s # <<>> /\ \E r \in Selected(d, cursor) : Ahead(d, s[Len(s)], r)

LEMMA BeyondIsAhead ==
    ASSUME NEW d \in Directions, NEW r, NEW cursor
    PROVE  Beyond(d, r, cursor) <=> (d \in Ways => Ahead(d, cursor, r))
BY DEF Beyond, Ahead, Older, Newer, Directions, Ways

ListTyped ==
    /\ stored \subseteq Row /\ IsFiniteSet(stored)
    /\ page \in Seq(Row) /\ shown \in Seq(Row)
    /\ prevCursor \in Cursors /\ nextCursor \in Cursors /\ start \in Cursors
    /\ dir \in Directions /\ still \in 0..2

LEMMA ShowFinds ==
    ASSUME ListTyped, NEW d \in Directions, NEW cursor, Show(d, cursor)
    PROVE  \E s \in Seq(Row), more \in BOOLEAN :
              /\ Found(d, cursor, s, more)
              /\ page' = Displayed(d, s) /\ dir' = d
              /\ prevCursor' = IF page' # <<>> /\ (d = "after" \/ (d = "before" /\ more))
                               THEN Head(page') ELSE NoRow
              /\ nextCursor' = IF page' # <<>> /\ (d = "before" \/ more)
                               THEN Last(page') ELSE NoRow
              /\ still' = IF still = 2 THEN 2 ELSE still + 1
<1>1. PICK S : S = Selected(d, cursor)
  OBVIOUS
<1>2. S \in SUBSET Row /\ IsFiniteSet(S)
  <2>1. S \in SUBSET stored
    BY <1>1 DEF Selected, Listed
  <2> QED BY <2>1, FS_Subset DEF ListTyped
<1>3. PICK q : q = Nearest(d, S)
  OBVIOUS
<1>4. /\ q \in Seq(Row) /\ ToSet(q) = S
      /\ \A i, j \in DOMAIN q : i < j => Ahead(d, q[i], q[j])
  BY <1>2, <1>3, NearestSorts
<1>5. PICK rows : rows = Limited(q, PageSize + 1)
  OBVIOUS
<1>6. PICK more \in BOOLEAN : more <=> HasMore(rows)
  OBVIOUS
<1>7. PICK s : s = Limited(rows, PageSize)
  OBVIOUS
<1>8. PageSize \in Nat /\ PageSize > 0
  BY NumbersAssumption
<1>9. /\ rows \in Seq(Row)
      /\ Len(rows) = IF Len(q) > PageSize + 1 THEN PageSize + 1 ELSE Len(q)
      /\ \A i \in 1..Len(rows) : rows[i] = q[i]
  BY <1>4, <1>5, <1>8, LimitedIsPrefix
<1>10. /\ s \in Seq(Row)
       /\ Len(s) = IF Len(rows) > PageSize THEN PageSize ELSE Len(rows)
       /\ \A i \in 1..Len(s) : s[i] = rows[i]
  BY <1>7, <1>8, <1>9, LimitedIsPrefix
<1>11. /\ Len(q) \in Nat /\ DOMAIN q = 1..Len(q) /\ DOMAIN s = 1..Len(s)
       /\ Len(s) = IF more THEN PageSize ELSE Len(q)
       /\ more <=> Len(q) > PageSize
       /\ \A i \in 1..Len(s) : i \in 1..Len(q) /\ s[i] = q[i]
  BY <1>4, <1>6, <1>8, <1>9, <1>10 DEF HasMore
<1>12. Found(d, cursor, s, more)
  <2>1. \A i \in DOMAIN s : s[i] \in S
    BY <1>4, <1>11 DEF ToSet
  <2>2. \A i, j \in DOMAIN s : i < j => Ahead(d, s[i], s[j])
    BY <1>4, <1>11
  <2>3. ASSUME NEW r \in S
        PROVE  r \in ToSet(s) \/ (more /\ Ahead(d, s[Len(s)], r))
    <3>1. PICK i \in 1..Len(q) : q[i] = r
      BY <1>4, <1>11 DEF ToSet
    <3>2. CASE i \in 1..Len(s)
      BY <1>11, <3>1, <3>2 DEF ToSet
    <3>3. CASE i \notin 1..Len(s)
      <4>1. more /\ Len(s) \in 1..Len(q) /\ Len(s) < i /\ Len(s) \in 1..Len(s)
        BY <1>8, <1>11, <3>3
      <4> QED BY <1>4, <1>11, <3>1, <4>1
    <3> QED BY <3>2, <3>3
  <2>4. ASSUME more PROVE s # <<>> /\ \E r \in S : Ahead(d, s[Len(s)], r)
    <3>1. /\ Len(s) = PageSize /\ Len(s) \in 1..Len(s)
          /\ Len(s) \in 1..Len(q) /\ PageSize + 1 \in 1..Len(q)
      BY <1>8, <1>11, <2>4
    <3>2. Ahead(d, s[Len(s)], q[PageSize + 1])
      BY <1>4, <1>8, <1>11, <3>1
    <3>3. q[PageSize + 1] \in S
      BY <1>4, <1>11, <3>1 DEF ToSet
    <3> QED BY <1>8, <3>1, <3>2, <3>3
  <2> QED BY <1>1, <2>1, <2>2, <2>3, <2>4 DEF Found
<1>13. /\ page' = Displayed(d, s) /\ dir' = d
       /\ prevCursor' = IF page' # <<>> /\ (d = "after" \/ (d = "before" /\ more))
                        THEN Head(page') ELSE NoRow
       /\ nextCursor' = IF page' # <<>> /\ (d = "before" \/ more)
                        THEN Last(page') ELSE NoRow
       /\ still' = IF still = 2 THEN 2 ELSE still + 1
  BY <1>1, <1>3, <1>5, <1>6, <1>7 DEF Show, Selected
<1> QED BY <1>10, <1>12, <1>13

(* How the page and its links follow from them.                            *)
Shows(d, s, more) ==
    /\ dir' = d /\ page' \in Seq(Row) /\ Walked(d, page') = s
    /\ page' = <<>> <=> s = <<>>
    /\ s # <<>> =>
          /\ Head(page') = IF d = "before" THEN s[Len(s)] ELSE s[1]
          /\ Last(page') = IF d = "before" THEN s[1] ELSE s[Len(s)]
    /\ Onward' = IF more THEN s[Len(s)] ELSE NoRow
    /\ d \notin Ways => prevCursor' = NoRow
    /\ d = "after" => prevCursor' = IF s = <<>> THEN NoRow ELSE s[1]
    /\ d = "before" => nextCursor' = IF s = <<>> THEN NoRow ELSE s[1]
    /\ still' = IF still = 2 THEN 2 ELSE still + 1

LEMMA ShowShows ==
    ASSUME ListTyped, NEW d \in Directions, NEW cursor, Show(d, cursor)
    PROVE  \E s \in Seq(Row), more \in BOOLEAN :
              Found(d, cursor, s, more) /\ Shows(d, s, more)
<1>1. PICK s \in Seq(Row), more \in BOOLEAN :
         /\ Found(d, cursor, s, more)
         /\ page' = Displayed(d, s) /\ dir' = d
         /\ prevCursor' = IF page' # <<>> /\ (d = "after" \/ (d = "before" /\ more))
                          THEN Head(page') ELSE NoRow
         /\ nextCursor' = IF page' # <<>> /\ (d = "before" \/ more)
                          THEN Last(page') ELSE NoRow
         /\ still' = IF still = 2 THEN 2 ELSE still + 1
  BY ShowFinds
<1>2. more => s # <<>>
  BY <1>1 DEF Found
<1>3. CASE d = "before"
  <2>1. page' = Reverse(s)
    BY <1>1, <1>3 DEF Displayed
  <2>2. /\ page' \in Seq(Row) /\ Walked(d, page') = s /\ (page' = <<>> <=> s = <<>>)
        /\ s # <<>> => Head(page') = s[Len(s)] /\ Last(page') = s[1]
    BY <1>3, <2>1, ReverseTurns DEF Walked
  <2>3. Onward' = prevCursor'
    BY <1>1, <1>3 DEF Onward
  <2> QED BY <1>1, <1>2, <1>3, <2>2, <2>3 DEF Shows, Ways
<1>4. CASE d # "before"
  <2>1. page' = s /\ Walked(d, page') = s
    BY <1>1, <1>4 DEF Displayed, Walked
  <2>2. s # <<>> => Head(page') = s[1] /\ Last(page') = s[Len(s)]
    BY <2>1 DEF Last
  <2>3. Onward' = nextCursor'
    BY <1>1, <1>4 DEF Onward
  <2> QED BY <1>1, <1>2, <1>4, <2>1, <2>2, <2>3 DEF Shows, Ways
<1> QED BY <1>1, <1>3, <1>4

-----------------------------------------------------------------------------
(* The link to go on carries the last post shown, and those that stayed on *)
(* the list are still there.                                               *)
WalkEnds ==
    /\ steady \subseteq Listed
    /\ Onward # NoRow => shown # <<>> /\ shown[Len(shown)] = Onward
    /\ dir \notin Ways => start = NoRow /\ prevCursor = NoRow

(* While nothing changes, the links carry posts of the list.               *)
LinksListed ==
    still # 0 => /\ prevCursor # NoRow => prevCursor \in Listed
                 /\ nextCursor # NoRow => nextCursor \in Listed

ListInv == ListTyped /\ WalkEnds /\ LinksListed /\ ShownOnce /\ LinksExact

LEMMA NotARow == NoRow \notin Row
BY DEF NoRow, Row, PostIds

LEMMA RowsOfShow ==
    ASSUME ListTyped, NEW d \in Directions, NEW cursor, NEW s \in Seq(Row),
           NEW more \in BOOLEAN, Found(d, cursor, s, more), Shows(d, s, more)
    PROVE  /\ \A i \in DOMAIN s : s[i] \in Row /\ s[i] \in Listed
           /\ s # <<>> => 1 \in DOMAIN s /\ Len(s) \in DOMAIN s
           /\ prevCursor' = NoRow \/ \E i \in DOMAIN s : prevCursor' = s[i]
           /\ nextCursor' = NoRow \/ \E i \in DOMAIN s : nextCursor' = s[i]
           /\ prevCursor' \in Cursors /\ nextCursor' \in Cursors
           /\ Onward' # NoRow <=> more
<1>1. /\ \A i \in DOMAIN s : s[i] \in Row /\ s[i] \in Listed
      /\ s # <<>> => 1 \in DOMAIN s /\ Len(s) \in DOMAIN s
      /\ more => s # <<>>
  BY DEF Found, Selected
<1>2. Onward' # NoRow <=> more
  BY <1>1, NotARow DEF Shows
<1>3. CASE d = "before"
  <2>1. Onward' = prevCursor'
    BY <1>3 DEF Shows, Onward
  <2>2. /\ prevCursor' = IF more THEN s[Len(s)] ELSE NoRow
        /\ nextCursor' = IF s = <<>> THEN NoRow ELSE s[1]
    BY <1>3, <2>1 DEF Shows
  <2> QED BY <1>1, <1>2, <2>2 DEF Cursors
<1>4. CASE d # "before"
  <2>1. Onward' = nextCursor'
    BY <1>4 DEF Shows, Onward
  <2>2. /\ nextCursor' = IF more THEN s[Len(s)] ELSE NoRow
        /\ prevCursor' = NoRow \/ (s # <<>> /\ prevCursor' = s[1])
    BY <1>4, <2>1 DEF Shows, Directions, Ways
  <2> QED BY <1>1, <1>2, <2>2 DEF Cursors
<1> QED BY <1>1, <1>2, <1>3, <1>4

(* Opening the list or turning round.                                      *)
LEMMA WalkBegins ==
    ASSUME ListTyped, NEW d \in Directions, NEW cursor, NEW s \in Seq(Row),
           NEW more \in BOOLEAN, Found(d, cursor, s, more), Shows(d, s, more),
           start' = IF d \in Ways THEN cursor ELSE NoRow, d \in Ways => cursor # NoRow,
           shown' = s, steady' = Listed, UNCHANGED table
    PROVE  WalkEnds' /\ ShownOnce'
<1>1. Listed' = Listed
  BY DEF Listed, table
<1>2. WalkEnds'
  <2>1. Onward' # NoRow => s # <<>> /\ s[Len(s)] = Onward'
    BY RowsOfShow DEF Shows, Found
  <2>2. dir' \notin Ways => start' = NoRow /\ prevCursor' = NoRow
    BY DEF Shows
  <2> QED BY <1>1, <2>1, <2>2 DEF WalkEnds
<1>3. ShownInOrder'
  BY DEF ShownInOrder, Found, Shows
<1>4. NoneSkipped'
  <2> SUFFICES ASSUME NEW r \in Listed, FromStart(r)',
                      Onward' = NoRow \/ ~ Beyond(Heading, r, Onward)'
               PROVE  r \in ToSet(s)
    BY DEF NoneSkipped
  <2>1. d \in Ways => Heading' = d /\ start' = cursor
    BY DEF Heading, Shows, Directions, Ways
  <2>2. r \in Selected(d, cursor)
    BY <2>1, BeyondIsAhead DEF FromStart, Selected
  <2>3. ASSUME more, Ahead(d, s[Len(s)], r) PROVE FALSE
    <3>1. Onward' = s[Len(s)] /\ Onward' # NoRow
      BY <2>3, RowsOfShow DEF Shows
    <3>2. PICK h \in Ways : h = Heading'
      BY DEF Heading, Ways
    <3>3. PICK o : o = Onward'
      OBVIOUS
    <3>4. ~ Beyond(h, r, o)
      BY <3>1, <3>2, <3>3
    <3>5. h = "before" <=> d = "before"
      BY <3>2 DEF Heading, Shows
    <3>6. Ahead(h, o, r)
      BY <2>3, <3>1, <3>3, <3>5 DEF Ahead
    <3> QED BY <3>4, <3>6, BeyondIsAhead DEF Directions
  <2> QED BY <2>2, <2>3 DEF Found
<1> QED BY <1>2, <1>3, <1>4 DEF ShownOnce

(* Following a link in the direction the page was reached by.              *)
LEMMA WalkGoesOn ==
    ASSUME ListInv, NEW d \in Ways, Heading = d,
           Onward # NoRow, NEW s \in Seq(Row), NEW more \in BOOLEAN,
           Found(d, Onward, s, more), Shows(d, s, more),
           shown' = shown \o s, UNCHANGED <<start, steady>>, UNCHANGED table
    PROVE  WalkEnds' /\ ShownOnce'
<1>1. Listed' = Listed /\ start' = start /\ steady' = steady
  BY DEF Listed, table
<1>2. /\ shown \in Seq(Row) /\ ListTyped /\ d \in Directions
      /\ shown # <<>> /\ shown[Len(shown)] = Onward
  BY DEF ListInv, ListTyped, WalkEnds, Directions
<1>0. PICK m \in Nat : m = Len(shown)
  BY <1>2
<1>3. PICK c : c = Onward
  OBVIOUS
<1>4. c \in Row /\ m \in DOMAIN shown /\ DOMAIN shown = 1..m /\ shown[m] = c
  <2>1. m > 0
    BY <1>0, <1>2
  <2> QED BY <1>0, <1>2, <1>3, <2>1
<1>5. /\ \A i \in DOMAIN s : s[i] \in Row /\ Ahead(d, c, s[i])
      /\ s # <<>> => Len(s) \in DOMAIN s
      /\ more => s # <<>>
      /\ Onward' = IF more THEN s[Len(s)] ELSE NoRow
      /\ \A r \in Listed : \/ ~ Ahead(d, c, r)
                           \/ r \in ToSet(s)
                           \/ (more /\ Ahead(d, s[Len(s)], r))
  <2>1. \A r : Beyond(d, r, c) <=> Ahead(d, c, r)
    BY <1>2, BeyondIsAhead
  <2>2. \A i \in DOMAIN s : s[i] \in Row /\ Ahead(d, c, s[i])
    BY <1>3, <2>1 DEF Found, Selected
  <2>3. \A r \in Listed : \/ ~ Ahead(d, c, r)
                         \/ r \in ToSet(s)
                         \/ (more /\ Ahead(d, s[Len(s)], r))
    BY <1>3, <2>1 DEF Found, Selected
  <2>4. (more => s # <<>>) /\ (s # <<>> => Len(s) \in DOMAIN s)
    BY DEF Found
  <2> QED BY <2>2, <2>3, <2>4 DEF Shows
<1>6. /\ shown' \in Seq(Row) /\ Len(shown') = m + Len(s) /\ Len(s) \in Nat
      /\ \A i \in 1..(m + Len(s)) : shown'[i] = IF i <= m THEN shown[i] ELSE s[i - m]
  BY <1>0, <1>2
<1>7. dir' = d /\ Heading' = d /\ Heading = d
      /\ \A a, b : Ahead(dir, a, b) <=> Ahead(d, a, b)
  BY DEF Shows, Heading, Ahead, Ways
<1>8. WalkEnds'
  <2>1. steady' \subseteq Listed'
    BY <1>1 DEF ListInv, WalkEnds
  <2>2. ASSUME more PROVE shown' # <<>> /\ shown'[Len(shown')] = s[Len(s)]
    <3>1. Len(s) > 0
      BY <1>5, <1>6, <2>2
    <3> QED BY <1>4, <1>6, <3>1
  <2> QED BY <1>5, <1>7, <2>1, <2>2 DEF WalkEnds
<1>9. ShownInOrder'
  <2> SUFFICES ASSUME NEW i \in 1..(m + Len(s)), NEW j \in 1..(m + Len(s)), i < j
               PROVE  Ahead(d, shown'[i], shown'[j])
    BY <1>6, <1>7 DEF ShownInOrder
  <2>1. \A k, n \in 1..m : k < n => Ahead(d, shown[k], shown[n])
    BY <1>4, <1>7 DEF ListInv, ShownOnce, ShownInOrder
  <2>2. CASE j <= m
    BY <1>4, <1>6, <2>1, <2>2
  <2>3. CASE i > m
    <3>1. i - m \in DOMAIN s /\ j - m \in DOMAIN s /\ i - m < j - m
      BY <1>4, <1>6, <2>3
    <3> QED BY <1>4, <1>6, <2>3, <3>1 DEF Found
  <2>4. CASE i <= m /\ j > m
    <3>1. j - m \in DOMAIN s /\ shown'[i] = shown[i] /\ shown'[j] = s[j - m]
      BY <1>4, <1>6, <2>4
    <3>2. i = m \/ Ahead(d, shown[i], c)
      BY <1>4, <2>1, <2>4
    <3>3. shown[i] \in Row
      BY <1>2, <1>4, <2>4
    <3>4. Ahead(d, c, s[j - m]) /\ s[j - m] \in Row
      BY <1>5, <3>1
    <3> QED BY <1>2, <1>4, <3>1, <3>2, <3>3, <3>4, AheadOrders
  <2> QED BY <1>4, <2>2, <2>3, <2>4
<1>10. NoneSkipped'
  <2>0. ToSet(shown) \subseteq ToSet(shown') /\ ToSet(s) \subseteq ToSet(shown')
    <3>1. \A i \in 1..m : i \in 1..(m + Len(s)) /\ shown'[i] = shown[i]
      BY <1>4, <1>6
    <3>2. \A i \in 1..Len(s) : m + i \in 1..(m + Len(s)) /\ shown'[m + i] = s[i]
      BY <1>4, <1>6
    <3>3. /\ DOMAIN shown = 1..m /\ DOMAIN s = 1..Len(s)
          /\ DOMAIN shown' = 1..(m + Len(s))
      BY <1>4, <1>6
    <3> QED BY <3>1, <3>2, <3>3 DEF ToSet
  <2> SUFFICES ASSUME NEW r \in steady, FromStart(r)',
                      Onward' = NoRow \/ ~ Beyond(Heading, r, Onward)'
               PROVE  r \in ToSet(shown')
    BY <1>1 DEF NoneSkipped
  <2>1. FromStart(r) /\ r \in Listed
    BY <1>1, <1>7 DEF FromStart, ListInv, WalkEnds
  <2>2. CASE ~ Ahead(d, c, r)
    <3>1. ~ Beyond(Heading, r, Onward)
      BY <1>2, <1>3, <1>7, <2>2, BeyondIsAhead
    <3> QED BY <2>0, <2>1, <3>1 DEF ListInv, ShownOnce, NoneSkipped
  <2>3. ASSUME more, Ahead(d, s[Len(s)], r) PROVE FALSE
    <3>1. PICK o : o = Onward'
      OBVIOUS
    <3>2. o = s[Len(s)] /\ o # NoRow
      BY <1>5, <2>3, <3>1, NotARow
    <3>3. ~ Beyond(d, r, o)
      BY <1>7, <3>1, <3>2
    <3> QED BY <1>2, <2>3, <3>2, <3>3, BeyondIsAhead
  <2> QED BY <1>5, <2>0, <2>1, <2>2, <2>3
<1> QED BY <1>8, <1>9, <1>10 DEF ShownOnce

(* A page whose cursor is on the list has exact links.                     *)
LEMMA LinksOfShow ==
    ASSUME ListTyped, NEW d \in Directions, NEW cursor, NEW s \in Seq(Row),
           NEW more \in BOOLEAN, Found(d, cursor, s, more), Shows(d, s, more),
           d \in Ways /\ still # 0 => cursor \in Listed, UNCHANGED table
    PROVE  LinksListed' /\ LinksExact'
<1>1. Listed' = Listed /\ Listed \subseteq Row
  BY DEF Listed, table, ListTyped
<1>2. /\ \A i \in DOMAIN s : s[i] \in Row /\ s[i] \in Listed
      /\ s # <<>> => 1 \in DOMAIN s /\ Len(s) \in DOMAIN s
      /\ prevCursor' = NoRow \/ \E i \in DOMAIN s : prevCursor' = s[i]
      /\ nextCursor' = NoRow \/ \E i \in DOMAIN s : nextCursor' = s[i]
      /\ Onward' # NoRow <=> more
  BY RowsOfShow
<1>3. LinksListed'
  BY <1>1, <1>2 DEF LinksListed
<1>4. LinksExact'
  <2> SUFFICES ASSUME s # <<>>, d \notin Ways \/ still # 0
               PROVE  /\ prevCursor' # NoRow <=> \E r \in Listed : Newer(r, Head(page'))
                      /\ nextCursor' # NoRow <=> \E r \in Listed : Older(r, Last(page'))
    <3>1. still' = 1 /\ dir' = "" => d \notin Ways
      BY DEF Shows, Ways
    <3>2. still' = 2 => still # 0
      BY DEF Shows, ListTyped
    <3>3. page' # <<>> => s # <<>>
      BY DEF Shows
    <3> QED BY <1>1, <3>1, <3>2, <3>3 DEF LinksExact
  <2>1. PICK a, z : a = s[1] /\ z = s[Len(s)]
    OBVIOUS
  <2>2. /\ a \in Row /\ z \in Row
        /\ \A i \in DOMAIN s : /\ (s[i] = a \/ Ahead(d, a, s[i]))
                              /\ (s[i] = z \/ Ahead(d, s[i], z))
    <3>1. \A i \in DOMAIN s : (i = 1 \/ 1 < i) /\ (i = Len(s) \/ i < Len(s))
      OBVIOUS
    <3> QED BY <1>2, <2>1, <3>1 DEF Found
  <2>3. more <=> \E r \in Listed : Ahead(d, z, r)
    <3>1. ASSUME more PROVE \E r \in Listed : Ahead(d, z, r)
      BY <2>1, <3>1 DEF Found, Selected
    <3>2. ASSUME NEW r \in Listed, Ahead(d, z, r) PROVE more
      <4>1. d \in Ways => Ahead(d, cursor, z)
        BY <1>2, <2>1, BeyondIsAhead DEF Found, Selected
      <4>2. d \in Ways => cursor \in Row
        BY <1>1
      <4>3. r \in Selected(d, cursor)
        BY <1>1, <2>2, <3>2, <4>1, <4>2, AheadOrders, BeyondIsAhead DEF Selected
      <4>4. ASSUME NEW i \in DOMAIN s, s[i] = r PROVE FALSE
        BY <1>1, <2>2, <3>2, <4>4, AheadOrders
      <4> QED BY <4>3, <4>4 DEF Found, ToSet
    <3> QED BY <3>1, <3>2
  <2>4. d \in Ways => \E r \in Listed : Ahead(d, r, a)
    BY <1>2, <2>1, BeyondIsAhead DEF Found, Selected
  <2>5. ASSUME d \notin Ways, NEW r \in Listed, Ahead(d, r, a) PROVE FALSE
    <3>1. r \in Selected(d, cursor)
      BY <2>5, BeyondIsAhead DEF Selected
    <3>2. r \in ToSet(s) \/ Ahead(d, z, r)
      BY <2>1, <3>1 DEF Found
    <3>3. ASSUME NEW i \in DOMAIN s, s[i] = r PROVE FALSE
      BY <1>1, <2>2, <2>5, <3>3, AheadOrders
    <3>4. a = z \/ Ahead(d, a, z)
      BY <1>2, <2>1, <2>2
    <3> QED BY <1>1, <2>2, <2>5, <3>2, <3>3, <3>4, AheadOrders DEF ToSet
  <2>6. a # NoRow
    BY <2>2, NotARow
  <2>7. CASE d = "before"
    <3>1. /\ Head(page') = z /\ Last(page') = a
          /\ prevCursor' # NoRow <=> more
          /\ nextCursor' # NoRow
      BY <1>2, <2>1, <2>6, <2>7 DEF Shows, Onward
    <3>2. \A r : /\ Newer(r, z) <=> Ahead(d, z, r)
                 /\ Older(r, a) <=> Ahead(d, r, a)
      BY <2>7 DEF Ahead, Older
    <3>3. d \in Ways
      BY <2>7 DEF Ways
    <3> QED BY <2>3, <2>4, <3>1, <3>2, <3>3
  <2>8. CASE d # "before"
    <3>1. /\ Head(page') = a /\ Last(page') = z
          /\ nextCursor' # NoRow <=> more
          /\ prevCursor' # NoRow <=> d \in Ways
      BY <1>2, <2>1, <2>6, <2>8 DEF Shows, Onward, Directions, Ways
    <3>2. \A r : /\ Newer(r, a) <=> Ahead(d, r, a)
                 /\ Older(r, z) <=> Ahead(d, z, r)
      BY <2>8 DEF Ahead, Older
    <3> QED BY <2>3, <2>4, <2>5, <3>1, <3>2
  <2> QED BY <2>7, <2>8
<1> QED BY <1>3, <1>4

(* The steps of the member.                                                *)
LEMMA PageTyped ==
    ASSUME ListTyped, NEW d \in Directions, NEW cursor, NEW s \in Seq(Row),
           NEW more \in BOOLEAN, Found(d, cursor, s, more), Shows(d, s, more),
           shown' \in Seq(Row), start' \in Cursors, UNCHANGED table
    PROVE  ListTyped'
<1>1. prevCursor' \in Cursors /\ nextCursor' \in Cursors
  BY RowsOfShow
<1>2. stored' = stored
  BY DEF table
<1>3. still' \in 0..2
  BY DEF ListTyped, Shows
<1> QED BY <1>1, <1>2, <1>3 DEF ListTyped, Shows

LEMMA OpenListInv == ASSUME ListInv, OpenList PROVE ListInv'
<1>1. ListTyped /\ "" \in Directions /\ "" \notin Ways
  BY DEF ListInv, Directions, Ways
<1>2. PICK s \in Seq(Row), more \in BOOLEAN :
         Found("", NoRow, s, more) /\ Shows("", s, more)
  BY <1>1, ShowShows DEF OpenList
<1>3. shown' = s
  BY <1>2 DEF OpenList, Shows, Walked
<1>4. UNCHANGED table /\ start' = NoRow /\ steady' = Listed
  BY DEF OpenList
<1>5. ListTyped'
  BY <1>1, <1>2, <1>3, <1>4, PageTyped DEF Cursors
<1>6. WalkEnds' /\ ShownOnce'
  BY <1>1, <1>2, <1>3, <1>4, WalkBegins
<1>7. LinksListed' /\ LinksExact'
  BY <1>1, <1>2, <1>4, LinksOfShow
<1> QED BY <1>5, <1>6, <1>7 DEF ListInv

LEMMA FollowInv ==
    ASSUME ListInv, NEW d \in Ways, NEW cursor \in Cursors, Follow(d, cursor),
           Heading = d => cursor = Onward, still # 0 /\ cursor # NoRow => cursor \in Listed
    PROVE  ListInv'
<1>1. ListTyped /\ d \in Directions /\ cursor # NoRow /\ UNCHANGED table
  BY DEF ListInv, Directions, Follow
<1>2. PICK s \in Seq(Row), more \in BOOLEAN :
         Found(d, cursor, s, more) /\ Shows(d, s, more)
  BY <1>1, ShowShows DEF Follow
<1>3. LinksListed' /\ LinksExact'
  BY <1>1, <1>2, LinksOfShow
<1>4. Walked(d, page') = s
  BY <1>2 DEF Shows
<1>5. Heading = d <=> dir = d \/ (dir = "" /\ d = "after")
  BY <1>1 DEF Heading, ListTyped, Directions, Ways
<1>6. CASE Heading = d
  <2>1. shown' = shown \o s /\ UNCHANGED <<start, steady>> /\ cursor = Onward
    BY <1>4, <1>5, <1>6 DEF Follow
  <2>2. WalkEnds' /\ ShownOnce'
    BY <1>1, <1>2, <1>6, <2>1, WalkGoesOn
  <2>3. shown' \in Seq(Row) /\ start' \in Cursors
    BY <1>1, <2>1 DEF ListTyped
  <2> QED BY <1>1, <1>2, <1>3, <2>2, <2>3, PageTyped DEF ListInv
<1>7. CASE Heading # d
  <2>1. shown' = s /\ start' = cursor /\ steady' = Listed
    BY <1>4, <1>5, <1>7 DEF Follow
  <2>2. WalkEnds' /\ ShownOnce'
    BY <1>1, <1>2, <2>1, WalkBegins
  <2> QED BY <1>1, <1>2, <1>3, <2>1, <2>2, PageTyped DEF ListInv
<1> QED BY <1>6, <1>7

LEMMA LeafInv == ASSUME ListInv, NextPage \/ PrevPage PROVE ListInv'
<1>1. /\ nextCursor \in Cursors /\ prevCursor \in Cursors
      /\ still # 0 => /\ prevCursor # NoRow => prevCursor \in Listed
                      /\ nextCursor # NoRow => nextCursor \in Listed
  BY DEF ListInv, ListTyped, LinksListed
<1>2. CASE NextPage
  <2>1. Heading = "after" => nextCursor = Onward
    BY DEF Heading, Onward
  <2> QED BY <1>1, <1>2, <2>1, FollowInv DEF NextPage, Ways
<1>3. CASE PrevPage
  <2>1. Heading = "before" => prevCursor = Onward
    BY DEF Heading, Onward
  <2> QED BY <1>1, <1>3, <2>1, FollowInv DEF PrevPage, Ways
<1> QED BY <1>2, <1>3

(* The steps of others: the screen stays, and no post becomes steady.      *)
LEMMA ChangedInv ==
    ASSUME ListInv, Changed, stored' \subseteq Row, IsFiniteSet(stored')
    PROVE  ListInv'
<1>1. /\ page' = page /\ prevCursor' = prevCursor /\ nextCursor' = nextCursor
      /\ dir' = dir /\ start' = start /\ shown' = shown
      /\ still' = 0 /\ steady' \subseteq steady /\ steady' \subseteq Listed'
  BY DEF Changed, screen, walk
<1>2. ListTyped'
  BY <1>1 DEF ListInv, ListTyped
<1>3. WalkEnds'
  BY <1>1 DEF ListInv, WalkEnds, Onward
<1>4. LinksListed' /\ LinksExact'
  BY <1>1 DEF LinksListed, LinksExact
<1>5. ShownInOrder'
  BY <1>1 DEF ListInv, ShownOnce, ShownInOrder
<1>6. NoneSkipped'
  <2>1. /\ Heading' = Heading /\ Onward' = Onward
        /\ \A r : FromStart(r)' <=> FromStart(r)
    BY <1>1 DEF Heading, Onward, FromStart
  <2> QED BY <1>1, <2>1 DEF ListInv, ShownOnce, NoneSkipped
<1> QED BY <1>2, <1>3, <1>4, <1>5, <1>6 DEF ListInv, ShownOnce

LEMMA OthersInv ==
    ASSUME ListInv,
           \/ \E d \in Dates : AddPost(d) \/ \E r \in stored : MovePost(r, d)
           \/ \E r \in stored : RemovePost(r)
           \/ \E f \in Filters : SavePostFilter(f)
    PROVE  ListInv'
<1>1. stored \subseteq Row /\ IsFiniteSet(stored)
  BY DEF ListInv, ListTyped
<1>2. ASSUME NEW d \in Dates, AddPost(d) PROVE ListInv'
  <2>1. PICK new : new = [id |-> used + 1, date |-> d]
    OBVIOUS
  <2>2. new \in Row /\ stored' = stored \cup {new}
    BY <1>2, <2>1 DEF AddPost, Row
  <2> QED BY <1>1, <1>2, <2>2, FS_AddElement, ChangedInv DEF AddPost
<1>3. ASSUME NEW d \in Dates, NEW r \in stored, MovePost(r, d) PROVE ListInv'
  <2>1. PICK new : new = [r EXCEPT !.date = d]
    OBVIOUS
  <2>2. new \in Row
    BY <1>1, <2>1 DEF Row
  <2>3. stored' = (stored \ {r}) \cup {new}
    BY <1>3, <2>1 DEF MovePost
  <2>4. IsFiniteSet(stored \ {r})
    BY <1>1, FS_RemoveElement
  <2>5. IsFiniteSet(stored')
    BY <2>3, <2>4, FS_AddElement
  <2> QED BY <1>1, <1>3, <2>2, <2>3, <2>5, ChangedInv DEF MovePost
<1>4. ASSUME NEW r \in stored, RemovePost(r) PROVE ListInv'
  <2>1. IsFiniteSet(stored')
    BY <1>1, <1>4, FS_RemoveElement DEF RemovePost
  <2> QED BY <1>1, <1>4, <2>1, ChangedInv DEF RemovePost
<1>5. ASSUME NEW f \in Filters, SavePostFilter(f) PROVE ListInv'
  BY <1>1, <1>5, ChangedInv DEF SavePostFilter
<1> QED BY <1>2, <1>3, <1>4, <1>5

(* The posts at the beginning are finitely many.                           *)
LEMMA InitListInv == InitList => ListInv
<1> SUFFICES ASSUME InitList PROVE ListInv
  OBVIOUS
<1>1. PICK f \in [1..used -> Dates] :
         stored = {[id |-> p, date |-> f[p]] : p \in 1..used}
  BY DEF InitList
<1>2. used \in Nat /\ \A p \in 1..used : p \in PostIds
  <2>1. used \in PostIds \/ used = 0
    BY DEF InitList
  <2>2. MaxPosts \in Nat
    BY NumbersAssumption
  <2>3. used \in 0..MaxPosts
    BY <2>1, <2>2 DEF PostIds
  <2> QED BY <2>2, <2>3 DEF PostIds
<1>3. stored \subseteq Row
  BY <1>1, <1>2 DEF Row
<1>4. IsFiniteSet(stored)
  <2>1. PICK g : g = [p \in 1..used |-> [id |-> p, date |-> f[p]]]
    OBVIOUS
  <2>2. g \in Surjection(1..used, stored)
    BY <1>1, <2>1 DEF Surjection
  <2>3. IsFiniteSet(1..used)
    BY <1>2, FS_Interval
  <2> QED BY <2>2, <2>3, FS_Surjection
<1>5. ListTyped
  <2>1. dir \in Directions
    BY Zenon DEF InitList, Directions
  <2>2. /\ page = <<>> /\ shown = <<>> /\ still = 0
        /\ prevCursor = NoRow /\ nextCursor = NoRow /\ start = NoRow
    BY Zenon DEF InitList
  <2> QED BY <1>3, <1>4, <2>1, <2>2 DEF ListTyped, Cursors
<1>6. WalkEnds /\ LinksListed /\ LinksExact
  BY DEF InitList, WalkEnds, LinksListed, LinksExact, Onward
<1>7. ShownOnce
  <2>1. shown = <<>> /\ steady = {}
    BY Zenon DEF InitList
  <2> QED BY <2>1 DEF ShownOnce, ShownInOrder, NoneSkipped
<1> QED BY <1>5, <1>6, <1>7 DEF ListInv

LEMMA ListUnchanged == ASSUME ListInv, UNCHANGED listVars PROVE ListInv'
<1>1. UNCHANGED <<stored, used, filter, page, prevCursor, nextCursor, dir, start, shown,
                  steady, still>>
  BY DEF listVars, table, screen, walk
<1>2. Listed' = Listed /\ Onward' = Onward /\ Heading' = Heading
  BY <1>1 DEF Listed, Onward, Heading
<1>3. ListTyped' /\ WalkEnds' /\ LinksListed'
  BY <1>1, <1>2 DEF ListInv, ListTyped, WalkEnds, LinksListed
<1>4. LinksExact'
  BY <1>1, <1>2 DEF ListInv, LinksExact
<1>5. ShownInOrder' /\ NoneSkipped'
  BY <1>1, <1>2 DEF ListInv, ShownOnce, ShownInOrder, NoneSkipped, FromStart
<1> QED BY <1>3, <1>4, <1>5 DEF ListInv, ShownOnce

LEMMA ListInvStep == ListInv /\ [NextList]_listVars => ListInv'
<1> SUFFICES ASSUME ListInv, [NextList]_listVars PROVE ListInv'
  OBVIOUS
<1>1. CASE OpenList
  BY <1>1, OpenListInv
<1>2. CASE NextPage \/ PrevPage
  BY <1>2, LeafInv
<1>3. CASE \/ \E d \in Dates : AddPost(d) \/ \E r \in stored : MovePost(r, d)
           \/ \E r \in stored : RemovePost(r)
           \/ \E f \in Filters : SavePostFilter(f)
  BY <1>3, OthersInv
<1>4. CASE UNCHANGED listVars
  BY <1>4, ListUnchanged
<1> QED BY <1>1, <1>2, <1>3, <1>4 DEF NextList

(* Leafing in one direction shows the posts in order, none twice, and none *)
(* that stayed on the list is skipped, whatever other requests change      *)
(* between two pages (GET /posts).                                         *)
THEOREM LeafingComplete == SpecList => []ShownOnce
<1>1. ListInv => ShownOnce
  BY DEF ListInv
<1> QED BY <1>1, InitListInv, ListInvStep, PTL DEF SpecList

(* A page that was reached while nothing changed has a link exactly where  *)
(* there are more posts (setPostPagination).                               *)
THEOREM QuietLinks == SpecList => []LinksExact
<1>1. ListInv => LinksExact
  BY DEF ListInv
<1> QED BY <1>1, InitListInv, ListInvStep, PTL DEF SpecList
=============================================================================
