---------------------------- MODULE SelectorList ----------------------------
(***************************************************************************)
(* src/concurrency-project-FreezeKickerz/linked_list.c, the list a channel *)
(* keeps of the semaphores of the selects registered on it, at the level   *)
(* of its pointers: the list_t fields head, tail and count, and for each   *)
(* list_node_t its next, prev and data.  Nodes is the heap malloc draws    *)
(* nodes from; a node not in the list is in free, its links left as        *)
(* list_remove left them.  The mutators are the ones channel.c calls:      *)
(* list_insert (append) and list_remove(list, list_find(list, sem)), and  *)
(* list_destroy, which channel_destroy calls on both lists.              *)
(***************************************************************************)
EXTENDS Integers, Sequences, FiniteSets

CONSTANTS
    Nodes,   \* node addresses, positive integers
    Vals     \* data pointers (a select's semaphore)

Nil == 0

VARIABLES head, tail, next, prev, data, count, free,
          live    \* the list_t has not been passed to list_destroy

vars == <<head, tail, next, prev, data, count, free, live>>

\* A walk in a well-formed list takes at most Fuel steps.
Fuel == Cardinality(Nodes) + 1

\* The nodes from n on, following link (list_next or list_prev).
RECURSIVE Chain(_, _, _)
Chain(n, link, k) ==
    IF n = Nil \/ k = 0 THEN <<>> ELSE <<n>> \o Chain(link[n], link, k - 1)

\* The data from list_head to the end.
Abs == [i \in 1..Len(Chain(head, next, Fuel)) |-> data[Chain(head, next, Fuel)[i]]]

\* list_create: head and tail NULL, count 0.
ListCreateInit == head = Nil /\ tail = Nil /\ count = 0

Init ==
    /\ ListCreateInit
    /\ next = [n \in Nodes |-> Nil] /\ prev = [n \in Nodes |-> Nil]
    /\ data = [n \in Nodes |-> CHOOSE v \in Vals : TRUE]
    /\ free = Nodes
    /\ live = TRUE

\* Mutant: the old tail is not linked forward to the new node.
ListInsertNoForward(n, x) ==
    /\ live /\ n \in free
    /\ data' = [data EXCEPT ![n] = x]
    /\ prev' = [prev EXCEPT ![n] = tail]
    /\ next' = [next EXCEPT ![n] = Nil]
    /\ head' = IF tail # Nil THEN head ELSE n
    /\ tail' = n
    /\ count' = count + 1
    /\ free' = free \ {n}
    /\ UNCHANGED live

\* list_insert(list, x) with the node n malloc returned: append after tail.
\* When malloc fails list_insert returns NULL and changes nothing.
ListInsert(n, x) ==
    /\ live /\ n \in free
    /\ data' = [data EXCEPT ![n] = x]
    /\ prev' = [prev EXCEPT ![n] = tail]
    /\ next' = IF tail # Nil THEN [next EXCEPT ![n] = Nil, ![tail] = n]
                             ELSE [next EXCEPT ![n] = Nil]
    /\ head' = IF tail # Nil THEN head ELSE n
    /\ tail' = n
    /\ count' = count + 1
    /\ free' = free \ {n}
    /\ UNCHANGED live

\* list_remove(list, node): a NULL node is a no-op; otherwise the
\* neighbours are relinked, count drops and the node is freed with its own
\* links untouched.
ListRemove(node) ==
    IF node = Nil THEN UNCHANGED vars ELSE
    /\ head' = IF node = head THEN next[node] ELSE head
    /\ tail' = IF node = tail THEN prev[node] ELSE tail
    /\ next' = IF prev[node] # Nil THEN [next EXCEPT ![prev[node]] = next[node]] ELSE next
    /\ prev' = IF next[node] # Nil THEN [prev EXCEPT ![next[node]] = prev[node]] ELSE prev
    /\ count' = count - 1
    /\ free' = free \cup {node}
    /\ UNCHANGED <<data, live>>

\* Mutant: the last matching node instead of the first.
ListFindLast(x) ==
    LET c == Chain(head, next, Fuel)
        hits == {i \in 1..Len(c) : data[c[i]] = x}
    IN IF hits = {} THEN Nil ELSE c[CHOOSE i \in hits : \A k \in hits : i >= k]

\* list_find: the first node from list_head whose data is x, or Nil.
ListFind(x) ==
    LET c == Chain(head, next, Fuel)
        hits == {i \in 1..Len(c) : data[c[i]] = x}
    IN IF hits = {} THEN Nil ELSE c[CHOOSE i \in hits : \A k \in hits : i <= k]

\* A select registers its semaphore (add_select_*).
Register(n, x) == ListInsert(n, x)

\* A select unregisters it: list_remove(list, list_find(list, sem)).
Unregister(x) == ListRemove(ListFind(x))

\* list_destroy: from head, read each node's next before freeing it, until
\* NULL; then free the list_t.  The fields are left as they were, and
\* nothing uses the list again.
ListDestroy ==
    /\ live
    /\ LET c == Chain(head, next, Fuel)
       IN free' = free \cup {c[i] : i \in 1..Len(c)}
    /\ live' = FALSE
    /\ UNCHANGED <<head, tail, next, prev, data, count>>

Next ==
    \/ live /\ \E n \in Nodes, x \in Vals : Register(n, x)
    \/ live /\ \E x \in Vals : Unregister(x)
    \/ ListDestroy
    \/ ~live /\ UNCHANGED vars

Spec == Init /\ [][Next]_vars

-----------------------------------------------------------------------------
TypeOK ==
    /\ head \in Nodes \cup {Nil} /\ tail \in Nodes \cup {Nil}
    /\ next \in [Nodes -> Nodes \cup {Nil}] /\ prev \in [Nodes -> Nodes \cup {Nil}]
    /\ data \in [Nodes -> Vals] /\ count \in 0..Cardinality(Nodes)
    /\ free \subseteq Nodes /\ live \in BOOLEAN

(* After any sequence of list_insert and list_remove(list_find) calls the *)
(* links are a doubly linked list: the next chain from head has count     *)
(* nodes and ends at tail, the prev chain from tail is it backwards, and   *)
(* the nodes in it are exactly the ones not freed.  After list_destroy    *)
(* every node has been freed: the walk to NULL leaks none.                 *)
WellLinked ==
    LET fwd == Chain(head, next, Fuel)
        bwd == Chain(tail, prev, Fuel)
    IN /\ ~live => free = Nodes
       /\ Len(fwd) = count
       /\ (count = 0) = (head = Nil) /\ (count = 0) = (tail = Nil)
       /\ count > 0 => next[tail] = Nil /\ prev[head] = Nil
       /\ bwd = [i \in 1..Len(fwd) |-> fwd[Len(fwd) + 1 - i]]
       /\ live => {fwd[i] : i \in 1..Len(fwd)} = Nodes \ free
=============================================================================
