----------------------------- MODULE LinkedList -----------------------------
(***************************************************************************)
(* src/simulatorlab-FreezeKickerz/linked_list.c at the level of its        *)
(* pointers: the list_t fields head, tail, count and compare (as sorted: a *)
(* comparator is set), and for each list_node_t its next, prev and data.   *)
(* Nodes is the heap malloc draws nodes from; a node not in the list is in *)
(* free.  The operations are the list's mutators as the schedulers call    *)
(* them: list_insert, list_remove of a node the caller holds (list_head,   *)
(* list_tail or a node of its own), list_remove(list_find(x)), and        *)
(* list_destroy, which the scheduler Destroy functions call.             *)
(***************************************************************************)
EXTENDS Integers, Sequences, FiniteSets, SortedList

CONSTANTS
    Nodes,   \* node addresses, positive integers
    Vals,    \* data pointers
    Cmp      \* the comparator, a function on Vals \X Vals (compare_fn)

Nil == 0

VARIABLES head, tail, next, prev, data, count, free, sorted,
          live    \* the list_t has not been passed to list_destroy

vars == <<head, tail, next, prev, data, count, free, sorted, live>>

\* A walk of the next (or prev) links never takes more than Fuel steps in a
\* well-formed list; the bound keeps a corrupted (cyclic) list finite.
Fuel == Cardinality(Nodes) + 1

\* The nodes from n on, following link, as a sequence.
RECURSIVE Chain(_, _, _)
Chain(n, link, k) ==
    IF n = Nil \/ k = 0 THEN <<>> ELSE <<n>> \o Chain(link[n], link, k - 1)

\* The data from list_head to the end, as ListSpec sees it.
Abs == [i \in 1..Len(Chain(head, next, Fuel)) |-> data[Chain(head, next, Fuel)[i]]]

\* list_create
ListCreateInit ==
    /\ head = Nil /\ tail = Nil /\ count = 0
    /\ sorted \in BOOLEAN

Init ==
    /\ ListCreateInit
    /\ next = [n \in Nodes |-> Nil] /\ prev = [n \in Nodes |-> Nil]
    /\ data = [n \in Nodes |-> CHOOSE v \in Vals : TRUE]
    /\ free = Nodes
    /\ live = TRUE

\* The loop of list_insert: the first node from c on whose data does not
\* compare less than x, or Nil.
RECURSIVE FirstNotLess(_, _, _)
FirstNotLess(c, x, k) ==
    IF c = Nil \/ k = 0 \/ ~(Cmp[data[c], x] < 0) THEN c
    ELSE FirstNotLess(next[c], x, k - 1)

\* Mutant: inserting before curr leaves curr->prev unset.
ListInsertNodeNoBackLink(n, x) ==
    LET curr == FirstNotLess(head, x, Fuel) IN
    /\ live /\ n \in free
    /\ data' = [data EXCEPT ![n] = x]
    /\ free' = free \ {n}
    /\ count' = count + 1
    /\ \/ \* no comparator or empty list: the node becomes the head
          /\ ~sorted \/ head = Nil
          /\ next' = [next EXCEPT ![n] = head]
          /\ prev' = IF head # Nil THEN [prev EXCEPT ![n] = Nil, ![head] = n]
                                   ELSE [prev EXCEPT ![n] = Nil]
          /\ tail' = IF head # Nil THEN tail ELSE n
          /\ head' = n
       \/ \* ran off the end: append at the tail
          /\ sorted /\ head # Nil /\ curr = Nil
          /\ prev' = [prev EXCEPT ![n] = tail]
          /\ next' = [next EXCEPT ![n] = Nil, ![tail] = n]
          /\ tail' = n
          /\ UNCHANGED head
       \/ \* insert before curr
          /\ sorted /\ head # Nil /\ curr # Nil
          /\ next' = IF prev[curr] # Nil THEN [next EXCEPT ![n] = curr, ![prev[curr]] = n]
                                         ELSE [next EXCEPT ![n] = curr]
          /\ prev' = [prev EXCEPT ![n] = prev[curr]]
          /\ head' = IF prev[curr] # Nil THEN head ELSE n
          /\ UNCHANGED tail
    /\ UNCHANGED <<sorted, live>>

\* list_insert(list, x) with the new node n from malloc.
ListInsertNode(n, x) ==
    LET curr == FirstNotLess(head, x, Fuel) IN
    /\ live /\ n \in free
    /\ data' = [data EXCEPT ![n] = x]
    /\ free' = free \ {n}
    /\ count' = count + 1
    /\ \/ \* no comparator or empty list: the node becomes the head
          /\ ~sorted \/ head = Nil
          /\ next' = [next EXCEPT ![n] = head]
          /\ prev' = IF head # Nil THEN [prev EXCEPT ![n] = Nil, ![head] = n]
                                   ELSE [prev EXCEPT ![n] = Nil]
          /\ tail' = IF head # Nil THEN tail ELSE n
          /\ head' = n
       \/ \* ran off the end: append at the tail
          /\ sorted /\ head # Nil /\ curr = Nil
          /\ prev' = [prev EXCEPT ![n] = tail]
          /\ next' = [next EXCEPT ![n] = Nil, ![tail] = n]
          /\ tail' = n
          /\ UNCHANGED head
       \/ \* insert before curr
          /\ sorted /\ head # Nil /\ curr # Nil
          /\ next' = IF prev[curr] # Nil THEN [next EXCEPT ![n] = curr, ![prev[curr]] = n]
                                         ELSE [next EXCEPT ![n] = curr]
          /\ prev' = [prev EXCEPT ![n] = prev[curr], ![curr] = n]
          /\ head' = IF prev[curr] # Nil THEN head ELSE n
          /\ UNCHANGED tail
    /\ UNCHANGED <<sorted, live>>

\* Mutant: count is not decremented.
ListRemoveNodeNoCount(node) ==
    IF node = Nil THEN UNCHANGED vars ELSE
    /\ head' = IF node = head THEN next[node] ELSE head
    /\ tail' = IF node = tail THEN prev[node] ELSE tail
    /\ next' = [m \in Nodes |-> IF m = node THEN Nil
                                ELSE IF m = prev[node] THEN next[node] ELSE next[m]]
    /\ prev' = [m \in Nodes |-> IF m = node THEN Nil
                                ELSE IF m = next[node] THEN prev[node] ELSE prev[m]]
    /\ count' = count
    /\ free' = free \cup {node}
    /\ UNCHANGED <<data, sorted, live>>

\* list_remove(list, node) for a node of the list; a NULL node is a no-op.
ListRemoveNode(node) ==
    IF node = Nil THEN UNCHANGED vars ELSE
    /\ head' = IF node = head THEN next[node] ELSE head
    /\ tail' = IF node = tail THEN prev[node] ELSE tail
    /\ next' = [m \in Nodes |-> IF m = node THEN Nil
                                ELSE IF m = prev[node] THEN next[node] ELSE next[m]]
    /\ prev' = [m \in Nodes |-> IF m = node THEN Nil
                                ELSE IF m = next[node] THEN prev[node] ELSE prev[m]]
    /\ count' = count - 1
    /\ free' = free \cup {node}
    /\ UNCHANGED <<data, sorted, live>>

\* list_find: the first node from list_head whose data is x, or Nil.
ListFind(x) ==
    LET c == Chain(head, next, Fuel) IN
    IF \E i \in 1..Len(c) : data[c[i]] = x
      THEN c[CHOOSE i \in 1..Len(c) : data[c[i]] = x /\ \A k \in 1..(i - 1) : data[c[k]] # x]
      ELSE Nil

\* A caller removes a node it holds.
RemoveHeld == \E node \in Nodes \ free : ListRemoveNode(node)

\* list_remove(list, list_find(list, x)).
RemoveFound(x) == ListRemoveNode(ListFind(x))

\* list_destroy: from head, read each node's next before freeing it, until
\* NULL; then free the list_t.  The fields are left as they were, and
\* nothing uses the list again.
ListDestroy ==
    /\ live
    /\ LET c == Chain(head, next, Fuel)
       IN free' = free \cup {c[i] : i \in 1..Len(c)}
    /\ live' = FALSE
    /\ UNCHANGED <<head, tail, next, prev, data, count, sorted>>

Next ==
    \/ live /\ \E n \in Nodes, x \in Vals : ListInsertNode(n, x)
    \/ live /\ RemoveHeld
    \/ live /\ \E x \in Vals : RemoveFound(x)
    \/ ListDestroy
    \/ ~live /\ UNCHANGED vars

Spec == Init /\ [][Next]_vars

-----------------------------------------------------------------------------
TypeOK ==
    /\ head \in Nodes \cup {Nil} /\ tail \in Nodes \cup {Nil}
    /\ next \in [Nodes -> Nodes \cup {Nil}] /\ prev \in [Nodes -> Nodes \cup {Nil}]
    /\ data \in [Nodes -> Vals] /\ count \in 0..Cardinality(Nodes)
    /\ free \subseteq Nodes /\ sorted \in BOOLEAN /\ live \in BOOLEAN

(* The links stay a well-formed doubly linked list after any sequence of  *)
(* list_insert and list_remove calls: the next chain from head has count *)
(* nodes and ends at tail, the prev chain from tail is the same chain      *)
(* backwards, and every node is either in the list or free, never both.    *)
(* After list_destroy every node has been freed: the walk leaks none.      *)
WellLinked ==
    LET fwd == Chain(head, next, Fuel)
        bwd == Chain(tail, prev, Fuel)
    IN /\ ~live => free = Nodes
       /\ Len(fwd) = count
       /\ (count = 0) = (head = Nil) /\ (count = 0) = (tail = Nil)
       /\ count > 0 => next[tail] = Nil /\ prev[head] = Nil
       /\ bwd = [i \in 1..Len(fwd) |-> fwd[Len(fwd) + 1 - i]]
       /\ live => {fwd[i] : i \in 1..Len(fwd)} = Nodes \ free

\* The sequence the links spell out, with sorted and the comparator as they are.
LS == INSTANCE ListSpec
    WITH lst <- Abs, ends <- {"head"}, removes <- {"node", "value"}, Capacity <- Cardinality(Nodes)

(* The pointer code implements ListSpec: every list_insert puts x after   *)
(* the elements that compare less and before the rest (or at the head     *)
(* without a comparator), and every list_remove takes out exactly the     *)
(* element of the node removed.                                           *)
RefinesListSpec == LS!Spec
=============================================================================
