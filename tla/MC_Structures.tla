------------------------------- MODULE MC_Structures ----------------------------
(***************************************************************************)
(* The repository's single-threaded data structures in one model: the    *)
(* three doubly linked lists, each checked against its own link invariant *)
(* and against ListSpec, and the malloc lab heap.  The scenario is chosen  *)
(* in Init and never changes, so a behaviour is a behaviour of one         *)
(* structure; the lists share the variable names of their common fields.   *)
(*   sim: simulatorlab linked_list.c, sorted or not (LinkedList);          *)
(*   sel: concurrency-project linked_list.c (SelectorList);                *)
(*   hw:  homework-1 linked_list.c (Hw1List);                              *)
(*   mm:  assignment-2 mm.c under a client of malloc, free, realloc and    *)
(*        calloc (MM).                                                     *)
(***************************************************************************)
EXTENDS Integers, FiniteSets

VARIABLES head, tail, next, prev, data, count, free, sorted, live,
          mem, brk, fbp, held,
          scenario    \* which structure this behaviour runs

\* Three nodes: inserts at the head, the tail and in between, and removals
\* of the head, the tail and an inner node all occur.
ListNodes == {1, 2, 3}

\* The simulator's data pointers <<key, tag>>: two keys, each on two
\* distinct objects, so that elements with equal keys are told apart.
ListVals == {1, 2} \X {"a", "b"}

\* A comparator on the keys, like the schedulers' compare functions.
KeyCompare == [p \in ListVals \X ListVals |-> p[1][1] - p[2][1]]

\* Semaphores of selects (sel) and ints (hw): two, so that a value can be
\* in the list twice and list_find / deleteNode must take the first.  They
\* are written as the simulator's pairs so that ListSpec compares like with
\* like.
PlainVals == {1, 2} \X {"a"}

Sim == INSTANCE LinkedList WITH Nodes <- ListNodes, Vals <- ListVals, Cmp <- KeyCompare
Sel == INSTANCE SelectorList WITH Nodes <- ListNodes, Vals <- PlainVals
Hw == INSTANCE Hw1List WITH Nodes <- ListNodes, Vals <- PlainVals

\* A 96-byte initial free block (4096 in mm.c) and room for 32 more bytes of
\* sbrk: splits, whole-block fits, heap growth, sbrk failure and merges with
\* either neighbour all occur.  malloc sizes 0 (NULL), 8 (a 32-byte block)
\* and 40 (a 48-byte block); calloc(2, 8), a 16-byte request.
Heap == INSTANCE MM WITH HEAP_INIT <- 96, MAX_HEAP <- 144, SIZE_WIDTH <- 16,
                         Sizes <- {0, 8, 40}, CallocArgs <- {<<2, 8>>}, MaxHeld <- 3

listVars == <<head, tail, next, prev, data, count, free, sorted, live>>
heapVars == <<mem, brk, fbp, held>>
vars == <<listVars, heapVars, scenario>>

\* The variables of the structures a scenario does not run hold 0.
\* Homework 1's list has no list_t (no tail, count or destroy).
NoList == head = 0 /\ tail = 0 /\ next = 0 /\ prev = 0 /\ data = 0 /\ count = 0
          /\ free = {} /\ sorted = FALSE /\ live = FALSE
NoHeap == mem = 0 /\ brk = 0 /\ fbp = 0 /\ held = {}

Init ==
    \/ scenario = "sim" /\ Sim!Init /\ NoHeap
    \/ scenario = "sel" /\ Sel!Init /\ sorted = FALSE /\ NoHeap
    \/ scenario = "hw" /\ Hw!Init /\ sorted = FALSE /\ tail = 0 /\ count = 0 /\ live = FALSE /\ NoHeap
    \/ scenario = "mm" /\ Heap!Init /\ NoList

Next ==
    /\ \/ scenario = "sim" /\ Sim!Next /\ UNCHANGED heapVars
       \/ scenario = "sel" /\ Sel!Next /\ UNCHANGED <<sorted, heapVars>>
       \/ scenario = "hw" /\ Hw!Next /\ UNCHANGED <<sorted, tail, count, live, heapVars>>
       \/ scenario = "mm" /\ Heap!Next /\ UNCHANGED listVars
    /\ UNCHANGED scenario

Spec == Init /\ [][Next]_vars

-----------------------------------------------------------------------------
\* Every field has the code's shape and count stays within the heap.
TypeOK ==
    /\ scenario \in {"sim", "sel", "hw", "mm"}
    /\ CASE scenario = "sim" -> Sim!TypeOK
         [] scenario = "sel" -> Sel!TypeOK
         [] scenario = "hw" -> Hw!TypeOK
         [] scenario = "mm" -> Heap!TypeOK

(* Simulator list: after any list_insert (sorted or at the head) and      *)
(* list_remove calls the next chain has count nodes and ends at tail and  *)
(* the prev chain is it backwards, and list_destroy frees every node      *)
(* (LinkedList!WellLinked).                                               *)
SimWellLinked == scenario = "sim" => Sim!WellLinked

(* Selector list: after any list_insert (append) and                      *)
(* list_remove(list_find) calls the same holds, and channel_destroy's     *)
(* list_destroy frees every node (SelectorList!WellLinked).               *)
SelectorWellLinked == scenario = "sel" => Sel!WellLinked

(* Homework list: displayBackward prints displayForward reversed and no   *)
(* node leaks or stays reachable after deleteNode frees it.               *)
BackwardMirrorsForward == scenario = "hw" => Hw!BackwardMirrorsForward

(* Heap: after any sequence of malloc, free, realloc and calloc the       *)
(* blocks tile the heap with true footers and previous-allocated bits     *)
(* (MM!HeapWellFormed), the free list holds exactly the free blocks and    *)
(* mm_checkheap is silent (MM!FreeListMatchesHeap), every held block is   *)
(* allocated, big enough and held once (MM!AllocatedIsHeld).              *)
HeapWellFormed == scenario = "mm" => Heap!HeapWellFormed
FreeListMatchesHeap == scenario = "mm" => Heap!FreeListMatchesHeap
AllocatedIsHeld == scenario = "mm" => Heap!AllocatedIsHeld

Ends == CASE scenario = "sim" -> {"head"}
          [] scenario = "sel" -> {"tail"}
          [] scenario = "hw" -> {"head", "tail"}
          [] scenario = "mm" -> {}

\* How each list's callers remove: the schedulers remove nodes they hold
\* (list_head, list_tail) and by list_find; channel.c and homework 1 only
\* by value (list_remove(list_find(sem)), deleteNode).
Removes == IF scenario = "sim" THEN {"node", "value"} ELSE {"value"}

\* The sequence each list's links spell out, with its sortedness and ends.
LS == INSTANCE ListSpec
    WITH lst <- Sim!Abs, ends <- Ends, removes <- Removes, Vals <- ListVals \cup PlainVals,
         Cmp <- KeyCompare, Capacity <- Cardinality(ListNodes)

(* Each pointer implementation implements ListSpec: inserts put the       *)
(* element where its list promises (after the smaller keys, at the head,  *)
(* at the tail); a removal by value in the selector list                  *)
(* (list_remove(list_find)) and in homework 1 (deleteNode) takes out the  *)
(* first equal element and no other, and a simulator removal takes out    *)
(* exactly the element of the node removed.                              *)
RefinesListSpec == LS!Spec
=============================================================================
