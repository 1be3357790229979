----------------------------- MODULE SortedList -----------------------------
(***************************************************************************)
(* The doubly linked list of src/simulatorlab-FreezeKickerz/linked_list.c  *)
(* as a sequence: element 1 is the node list_head returns, the last        *)
(* element the node list_tail returns.  A comparator is an operator        *)
(* cmp[a, b] returning an integer, like compare_fn; a list created with    *)
(* compare NULL uses ListInsertHead.                                       *)
(***************************************************************************)
EXTENDS Integers, Sequences

\* list_create: an empty list.
ListCreate == <<>>

\* list_insert when compare is NULL or the list is empty: the new node
\* becomes the head.
ListInsertHead(l, x) == <<x>> \o l

\* list_insert with a comparator: walk from the head while
\* compare(curr->data, data) < 0, then insert before curr (at the tail when
\* the walk ran off the end).
ListInsert(l, x, cmp) ==
    LET RECURSIVE Walk(_)
        Walk(r) == IF r = <<>> \/ ~(cmp[Head(r), x] < 0)
                     THEN <<x>> \o r
                     ELSE <<Head(r)>> \o Walk(Tail(r))
    IN IF l = <<>> THEN ListInsertHead(l, x) ELSE Walk(l)

\* list_remove(list, list_find(list, x)): the first node holding x goes;
\* when list_find returns NULL, list_remove does nothing.
ListRemove(l, x) ==
    IF \E i \in 1..Len(l) : l[i] = x
      THEN LET i == CHOOSE k \in 1..Len(l) : l[k] = x /\ \A m \in 1..(k - 1) : l[m] # x
           IN SubSeq(l, 1, i - 1) \o SubSeq(l, i + 1, Len(l))
      ELSE l

\* list_count, list_head's data, list_tail's data.
ListCount(l) == Len(l)
ListHeadData(l) == l[1]
ListTailData(l) == l[Len(l)]

-----------------------------------------------------------------------------
(* Reference for the sorted insert: into a list sorted by cmp, the new     *)
(* element goes after every element that compares less than it and before *)
(* every other one, so among equal keys the newest comes first.            *)
InsertReference(l, x, cmp) ==
    LET Less(y) == cmp[y, x] < 0
        NotLess(y) == ~(cmp[y, x] < 0)
    IN SelectSeq(l, Less) \o <<x>> \o SelectSeq(l, NotLess)

=============================================================================
