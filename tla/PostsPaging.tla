---------------------------- MODULE PostsPaging ----------------------------
(***************************************************************************)
(* The list of posts (GET /posts in routes/posts.go): a member leafs       *)
(* through the pages of an account while other requests add, change and    *)
(* delete posts and save another filter.  A page is one SELECT; its links  *)
(* carry the first or the last post of the page as it was then.            *)
(***************************************************************************)
EXTENDS Integers, SequencesExt

CONSTANTS
    MaxPosts,   \* bound: posts ever created
    Dates,      \* values of created_at
    Filters,    \* each the set of dates it lets through
    PageSize    \* postsPageSize

ASSUME NumbersAssumption ==
    /\ MaxPosts \in Nat
    /\ Dates \subseteq Int
    /\ PageSize \in Nat \ {0}
ASSUME FiltersAssumption == Filters # {} /\ Filters \subseteq SUBSET Dates

PostIds == 1..MaxPosts     \* ids, given out in order
Row == [id : PostIds, date : Dates]
NoRow == [id |-> 0, date |-> 0]

VARIABLES
    stored,     \* posts of the account that are not deleted, as rows
    used,       \* ids given out
    filter,     \* accountsusers.post_filter of the member
    page,       \* the posts on the screen
    prevCursor, \* of the links of the page, NoRow without a link
    nextCursor,
    dir,        \* direction the page was reached by: "", "after", "before"
    start,      \* history: the cursor the member began to leaf from
    shown,      \* history: posts shown since, page by page
    steady,     \* history: posts that would have been listed ever since
    still       \* history: pages loaded since anything changed, at most 2

table == <<stored, used, filter>>
screen == <<page, prevCursor, nextCursor, dir>>
walk == <<start, shown>>
listVars == <<table, screen, walk, steady, still>>

-----------------------------------------------------------------------------
(* loadPostsPage and setPostPagination.                                    *)

Newer(a, b) == a.date > b.date \/ (a.date = b.date /\ a.id > b.id)
Older(a, b) == Newer(b, a)

Listed == {r \in stored : r.date \in filter}

BeyondDate(d, r, cursor) ==   \* a mutant: forgets posts of the same date
    CASE d = "after"  -> r.date < cursor.date
      [] d = "before" -> r.date > cursor.date
      [] OTHER        -> TRUE

Beyond(d, r, cursor) ==
    CASE d = "after"  -> Older(r, cursor)
      [] d = "before" -> Newer(r, cursor)
      [] OTHER        -> TRUE

(* ORDER BY: the posts nearest to the cursor come first.                   *)
Ahead(d, a, b) == IF d = "before" THEN Older(a, b) ELSE Newer(a, b)

Nearest(d, rows) ==
    [i \in 1..Cardinality(rows) |->
        CHOOSE r \in rows : Cardinality({q \in rows : Ahead(d, q, r)}) = i - 1]

AtLeastFull(rows) == Len(rows) >= PageSize   \* a mutant: LIMIT without + 1
HasMore(rows) == Len(rows) > PageSize

Displayed(d, rows) == IF d = "before" THEN Reverse(rows) ELSE rows

Limited(rows, n) == IF Len(rows) > n THEN SubSeq(rows, 1, n) ELSE rows

Show(d, cursor) ==
    LET rows == Limited(Nearest(d, {r \in Listed : Beyond(d, r, cursor)}),
                        PageSize + 1)
        more == HasMore(rows)
        list == Displayed(d, Limited(rows, PageSize))
    IN /\ page' = list
       /\ dir' = d
       /\ prevCursor' = IF list # <<>> /\ (d = "after" \/ (d = "before" /\ more))
                  THEN Head(list) ELSE NoRow
       /\ nextCursor' = IF list # <<>> /\ (d = "before" \/ more)
                  THEN Last(list) ELSE NoRow
       /\ still' = IF still = 2 THEN 2 ELSE still + 1

(* In the order of the direction.                                          *)
Walked(d, list) == IF d = "before" THEN Reverse(list) ELSE list

OpenList ==
    /\ Show("", NoRow)
    /\ start' = NoRow
    /\ shown' = page'
    /\ steady' = Listed
    /\ UNCHANGED table

Follow(d, cursor) ==
    /\ cursor # NoRow
    /\ Show(d, cursor)
    /\ IF dir = d \/ (dir = "" /\ d = "after")
       THEN /\ shown' = shown \o Walked(d, page')
            /\ UNCHANGED <<start, steady>>
       ELSE /\ start' = cursor
            /\ shown' = Walked(d, page')
            /\ steady' = Listed
    /\ UNCHANGED table

NextPage == Follow("after", nextCursor)
PrevPage == Follow("before", prevCursor)

-----------------------------------------------------------------------------
(* What other requests do meanwhile.                                       *)

Changed ==
    /\ steady' = steady \cap Listed'
    /\ still' = 0
    /\ UNCHANGED <<screen, walk>>

AddPost(d) ==
    /\ used + 1 \in PostIds
    /\ used' = used + 1
    /\ stored' = stored \cup {[id |-> used + 1, date |-> d]}
    /\ UNCHANGED filter
    /\ Changed

MovePost(r, d) ==
    /\ r.date # d
    /\ stored' = (stored \ {r}) \cup {[r EXCEPT !.date = d]}
    /\ UNCHANGED <<used, filter>>
    /\ Changed

RemovePost(r) ==
    /\ stored' = stored \ {r}
    /\ UNCHANGED <<used, filter>>
    /\ Changed

SavePostFilter(f) ==
    /\ f # filter
    /\ filter' = f
    /\ UNCHANGED <<stored, used>>
    /\ Changed

-----------------------------------------------------------------------------
InitList ==
    /\ used \in PostIds \cup {0}
    /\ \E f \in [1..used -> Dates] : stored = {[id |-> p, date |-> f[p]] : p \in 1..used}
    /\ filter \in Filters
    /\ page = <<>> /\ prevCursor = NoRow /\ nextCursor = NoRow /\ dir = ""
    /\ start = NoRow /\ shown = <<>> /\ steady = {} /\ still = 0

NextList ==
    \/ OpenList \/ NextPage \/ PrevPage
    \/ \E d \in Dates : AddPost(d) \/ \E r \in stored : MovePost(r, d)
    \/ \E r \in stored : RemovePost(r)
    \/ \E f \in Filters : SavePostFilter(f)

SpecList == InitList /\ [][NextList]_listVars

-----------------------------------------------------------------------------
(* The posts shown are in the order of the list, none twice.               *)
ShownInOrder ==
    \A i, j \in DOMAIN shown : i < j => Ahead(dir, shown[i], shown[j])

Heading == IF dir = "before" THEN "before" ELSE "after"
Onward == IF dir = "before" THEN prevCursor ELSE nextCursor
FromStart(r) == start = NoRow \/ Beyond(Heading, r, start)

(* Those on the list all the time were shown, up to the end of the page,   *)
(* and all of them where there is no link to go on.                        *)
NoneSkipped ==
    \A r \in steady :
        FromStart(r) /\ (Onward = NoRow \/ ~ Beyond(Heading, r, Onward)) =>
            r \in ToSet(shown)

(* Leafing in one direction shows the posts in order, none twice, and      *)
(* skips none that stayed on the list, whatever is added, moved, deleted   *)
(* or filtered meanwhile.                                                  *)
ShownOnce == ShownInOrder /\ NoneSkipped

(* If nothing changed since the page before was loaded, a page with posts  *)
(* has a link exactly where there are more.                                *)
LinksExact ==
    page # <<>> /\ (still = 2 \/ (still = 1 /\ dir = "")) =>
        /\ prevCursor # NoRow <=> \E r \in Listed : Newer(r, Head(page))
        /\ nextCursor # NoRow <=> \E r \in Listed : Older(r, Last(page))
=============================================================================
