------------------------------ MODULE MCPosts ------------------------------
(***************************************************************************)
(* The records of an account and the list of its posts, one of them in     *)
(* each behaviour.  Records: two expenses, one perhaps linked to the       *)
(* other, an income and a post of each, and requests that name them or     *)
(* rows of each other.  List: posts of two dates and a filter for one.     *)
(***************************************************************************)
EXTENDS Posts, PostsPaging

CONSTANTS r1, r2, Subjects

VARIABLE subject

allVars == <<subject, vars, listVars>>

InitAll ==
    /\ subject \in Subjects
    /\ Init /\ InitList
    /\ subject # "list" => used = 0 /\ filter = Dates
    /\ subject # "records" => expenses[2].link = None

NextAll ==
    /\ UNCHANGED subject
    /\ \/ subject = "records" /\ Next /\ UNCHANGED listVars
       \/ subject = "list" /\ NextList /\ UNCHANGED vars

SpecAll == InitAll /\ [][NextAll]_allVars

AllKinds == {"savePost", "updatePost", "deletePost", "saveExpense",
             "updateExpense", "deleteExpense", "saveIncome", "deleteIncome",
             "deleteAccount"}
PostKinds == {"savePost", "updatePost", "deletePost", "deleteAccount"}

Tenths == {-10, 0, 4, 10}

Days == {1, 2}
AllOrLatest == {Days, {2}}

Symmetry == Permutations(Requests)
=============================================================================
