------------------------------- MODULE Hw1List -------------------------------
(***************************************************************************)
(* src/homework-1-FreezeKickerz/linked_list.c: a doubly linked list known *)
(* only by its head pointer (no tail, no count).  For each Node its next,  *)
(* prev and data; Nodes is the heap createNode's malloc draws from, and a  *)
(* node not in the list is in free, its links as deleteNode left them.     *)
(* The operations are insertAtBeginning, insertAtEnd and deleteNode;       *)
(* displayForward and displayBackward are the walks Forward and Backward.  *)
(***************************************************************************)
EXTENDS Integers, Sequences, FiniteSets

CONSTANTS
    Nodes,   \* node addresses, positive integers
    Vals     \* the int data

Nil == 0

VARIABLES head, next, prev, data, free

vars == <<head, next, prev, data, free>>

\* A walk in a well-formed list takes at most Fuel steps.
Fuel == Cardinality(Nodes) + 1

RECURSIVE Chain(_, _, _)
Chain(n, link, k) ==
    IF n = Nil \/ k = 0 THEN <<>> ELSE <<n>> \o Chain(link[n], link, k - 1)

\* The data of a sequence of nodes.
DataOf(s) == [i \in 1..Len(s) |-> data[s[i]]]

\* displayForward: the data from head along next.
Forward == DataOf(Chain(head, next, Fuel))

\* The node the loop "while (temp->next != NULL)" stops at.
Last == LET c == Chain(head, next, Fuel) IN IF c = <<>> THEN Nil ELSE c[Len(c)]

\* displayBackward: nothing for an empty list, else the data from the last
\* node along prev.
Backward == IF head = Nil THEN <<>> ELSE DataOf(Chain(Last, prev, Fuel))

Init ==
    /\ head = Nil
    /\ next = [n \in Nodes |-> Nil] /\ prev = [n \in Nodes |-> Nil]
    /\ data = [n \in Nodes |-> CHOOSE v \in Vals : TRUE]
    /\ free = Nodes

\* createNode(x) returns n: data x, both links NULL.  Its malloc is not
\* checked; the model only draws nodes the heap has.
CreateNode(n, x) ==
    /\ n \in free
    /\ free' = free \ {n}
    /\ data' = [data EXCEPT ![n] = x]

\* insertAtBeginning(&head, x).
InsertAtBeginning(n, x) ==
    /\ CreateNode(n, x)
    /\ next' = [next EXCEPT ![n] = head]
    /\ prev' = IF head = Nil THEN [prev EXCEPT ![n] = Nil]
                             ELSE [prev EXCEPT ![n] = Nil, ![head] = n]
    /\ head' = n

\* insertAtEnd(&head, x): the new node becomes the head of an empty list,
\* else it is linked after the node the walk stops at.
InsertAtEnd(n, x) ==
    /\ CreateNode(n, x)
    /\ next' = IF head = Nil THEN [next EXCEPT ![n] = Nil]
                             ELSE [next EXCEPT ![n] = Nil, ![Last] = n]
    /\ prev' = [prev EXCEPT ![n] = IF head = Nil THEN Nil ELSE Last]
    /\ head' = IF head = Nil THEN n ELSE head

\* The node deleteNode's search stops at: the first with data x, or Nil.
Found(x) ==
    LET c == Chain(head, next, Fuel)
        hits == {i \in 1..Len(c) : data[c[i]] = x}
    IN IF hits = {} THEN Nil ELSE c[CHOOSE i \in hits : \A k \in hits : i <= k]

\* Mutant: deleting the head leaves the new head's prev at the freed node.
DeleteNodeKeepsPrev(x) ==
    LET t == Found(x) IN
    /\ t # Nil
    /\ \/ /\ t = head
          /\ head' = next[t]
          /\ UNCHANGED <<next, prev>>
       \/ /\ t # head
          /\ next' = IF prev[t] # Nil THEN [next EXCEPT ![prev[t]] = next[t]] ELSE next
          /\ prev' = IF next[t] # Nil THEN [prev EXCEPT ![next[t]] = prev[t]] ELSE prev
          /\ UNCHANGED head
    /\ free' = free \cup {t}
    /\ UNCHANGED data

\* deleteNode(&head, x): an empty list or a value not found returns at
\* once; a head node is replaced by its successor, whose prev becomes NULL;
\* any other node is unlinked from its neighbours.  The node is freed.
DeleteNode(x) ==
    LET t == Found(x) IN
    /\ t # Nil
    /\ \/ /\ t = head
          /\ head' = next[t]
          /\ prev' = IF next[t] # Nil THEN [prev EXCEPT ![next[t]] = Nil] ELSE prev
          /\ UNCHANGED next
       \/ /\ t # head
          /\ next' = IF prev[t] # Nil THEN [next EXCEPT ![prev[t]] = next[t]] ELSE next
          /\ prev' = IF next[t] # Nil THEN [prev EXCEPT ![next[t]] = prev[t]] ELSE prev
          /\ UNCHANGED head
    /\ free' = free \cup {t}
    /\ UNCHANGED data

Next ==
    \E x \in Vals :
        \/ \E n \in Nodes : InsertAtBeginning(n, x) \/ InsertAtEnd(n, x)
        \/ DeleteNode(x)

Spec == Init /\ [][Next]_vars

-----------------------------------------------------------------------------
TypeOK ==
    /\ head \in Nodes \cup {Nil}
    /\ next \in [Nodes -> Nodes \cup {Nil}] /\ prev \in [Nodes -> Nodes \cup {Nil}]
    /\ data \in [Nodes -> Vals] /\ free \subseteq Nodes

(* Whatever mix of insertAtBeginning, insertAtEnd and deleteNode ran,     *)
(* displayBackward prints exactly what displayForward prints, reversed,    *)
(* and the nodes reachable from head are exactly the ones not freed: no   *)
(* prev link still leads to a freed node and no node leaks.                *)
BackwardMirrorsForward ==
    /\ Backward = [i \in 1..Len(Forward) |-> Forward[Len(Forward) + 1 - i]]
    /\ LET c == Chain(head, next, Fuel) IN {c[i] : i \in 1..Len(c)} = Nodes \ free
=============================================================================
