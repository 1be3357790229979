------------------------------ MODULE ListSpec ------------------------------
(***************************************************************************)
(* What a doubly linked list of this repository promises its callers, as  *)
(* a sequence lst (element 1 at the head).  Three lists implement it:      *)
(* simulatorlab linked_list.c (LinkedList), concurrency-project            *)
(* linked_list.c (SelectorList) and homework-1 linked_list.c (Hw1List).    *)
(*   - an unsorted list inserts at the ends in ends: "head" (simulator     *)
(*     list_insert with compare NULL, insertAtBeginning), "tail"           *)
(*     (concurrency list_insert, insertAtEnd);                             *)
(*   - a sorted list inserts after every element that compares less and   *)
(*     before every other one (InsertReference);                           *)
(*   - removing a node the caller holds drops that one element, wherever  *)
(*     it is: only the simulator's callers remove by node (list_head,      *)
(*     list_tail), so removes holds "node" for that list alone;            *)
(*   - removing by value drops the first element equal to it, or nothing. *)
(* sorted, ends and removes are fixed when the list is created.  Capacity  *)
(* bounds the number of nodes malloc can supply.                           *)
(***************************************************************************)
EXTENDS SortedList

CONSTANTS Vals, Cmp, Capacity

VARIABLES lst, sorted, ends, removes

Insert(x) ==
    /\ Len(lst) < Capacity
    /\ \/ sorted /\ lst' = InsertReference(lst, x, Cmp)
       \/ ~sorted /\ "head" \in ends /\ lst' = ListInsertHead(lst, x)
    /\ UNCHANGED <<sorted, ends, removes>>

InsertTail(x) ==
    /\ Len(lst) < Capacity
    /\ ~sorted /\ "tail" \in ends
    /\ lst' = lst \o <<x>>
    /\ UNCHANGED <<sorted, ends, removes>>

RemoveAt(i) ==
    /\ "node" \in removes /\ i \in 1..Len(lst)
    /\ lst' = SubSeq(lst, 1, i - 1) \o SubSeq(lst, i + 1, Len(lst))
    /\ UNCHANGED <<sorted, ends, removes>>

RemoveData(x) ==
    /\ "value" \in removes /\ lst' = ListRemove(lst, x) /\ UNCHANGED <<sorted, ends, removes>>

Init ==
    /\ lst = ListCreate /\ sorted \in BOOLEAN
    /\ ends \in SUBSET {"head", "tail"} /\ removes \in SUBSET {"node", "value"}

Next ==
    \E x \in Vals, i \in 1..Capacity :
        Insert(x) \/ InsertTail(x) \/ RemoveAt(i) \/ RemoveData(x)

Spec == Init /\ [][Next]_<<lst, sorted, ends, removes>>
=============================================================================
