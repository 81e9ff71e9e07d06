------------------------------- MODULE HList --------------------------------
(***************************************************************************)
(* The doubly linked list of base_struct/hlist.c, pointer by pointer: the  *)
(* replies of a client and the server's list of clients.                   *)
(*                                                                         *)
(* listFreeFrist and listFreeLast free the only node of a list without     *)
(* clearing the pointer at the other end.  An operation that follows a     *)
(* pointer to a freed node has no defined outcome: the model stops there   *)
(* (defined = FALSE).                                                      *)
(***************************************************************************)
EXTENDS Integers, Sequences, SequencesExt, FiniteSets, FiniteSetsExt, Functions

CONSTANTS
    Values,         \* m_value
    MaxLength       \* bound of the model on the nodes of a list

VARIABLES
    nodes,          \* the allocated nodes: prev, next, value
    head, tail,     \* m_head, m_tail
    length,         \* length
    order,          \* history: the nodes of the list, in order
    defined         \* no freed node was used

vars == <<nodes, head, tail, length, order, defined>>

Nil == 0
Ids == 1 .. MaxLength
Node(prev, next, value) == [prev |-> prev, next |-> next, value |-> value]

Init ==
    /\ nodes = <<>>
    /\ head = Nil /\ tail = Nil /\ length = 0
    /\ order = <<>> /\ defined = TRUE

-------------------------------------------------------------------------------
(* The pointer can be followed. *)
Alive(n) == n \in DOMAIN nodes

Crash == defined' = FALSE /\ UNCHANGED <<nodes, head, tail, length, order>>

(* The node malloc returns *)
New == Min(Ids \ DOMAIN nodes)
HasMemory == DOMAIN nodes # Ids

(* The nodes with that one, filled in *)
With(ns, node) == [n \in DOMAIN ns \cup {New} |-> IF n = New THEN node ELSE ns[n]]

(* listSerchNode: the first node with the value, from the head *)
Search(value) ==
    LET from[n \in DOMAIN nodes \cup {Nil}] ==
            IF n = Nil \/ nodes[n].value = value THEN n ELSE from[nodes[n].next]
    IN  from[head]

First(value) == SelectInSeq(order, LAMBDA n : nodes[n].value = value)

Added(new, at) ==
    /\ length' = length + 1
    /\ order' = InsertAt(order, at, new)
    /\ UNCHANGED defined

AddHead(value) ==
    /\ defined /\ HasMemory
    /\ IF head = Nil
       THEN /\ nodes' = With(nodes, Node(Nil, Nil, value))
            /\ head' = New /\ tail' = New
            /\ Added(New, 1)
       ELSE IF Alive(head)
       THEN /\ nodes' = With([nodes EXCEPT ![head].prev = New], Node(Nil, head, value))
            /\ head' = New
            /\ UNCHANGED tail
            /\ Added(New, 1)
       ELSE Crash

AddTail(value) ==
    /\ defined /\ HasMemory
    /\ IF tail = Nil
       THEN /\ nodes' = With(nodes, Node(Nil, Nil, value))
            /\ head' = New /\ tail' = New
            /\ Added(New, Len(order) + 1)
       ELSE IF Alive(tail)
       THEN /\ nodes' = With([nodes EXCEPT ![tail].next = New], Node(tail, Nil, value))
            /\ tail' = New
            /\ UNCHANGED head
            /\ Added(New, Len(order) + 1)
       ELSE Crash

(* listInsertNode, after or before a node *)
InsertAfter(old, value) ==
    /\ defined /\ HasMemory /\ Alive(old)
    /\ LET succ == nodes[old].next
           set  == [nodes EXCEPT ![old].next = New]
           node == Node(old, succ, value)
       IN  IF succ = Nil
           THEN nodes' = With(set, node) /\ tail' = New
           ELSE nodes' = With([set EXCEPT ![succ].prev = New], node) /\ UNCHANGED tail
    /\ UNCHANGED head
    /\ Added(New, SelectInSeq(order, LAMBDA n : n = old) + 1)

InsertBefore(old, value) ==
    /\ defined /\ HasMemory /\ Alive(old)
    /\ LET pred == nodes[old].prev
           set  == [nodes EXCEPT ![old].prev = New]
           node == Node(pred, old, value)
       IN  IF pred = Nil
           THEN nodes' = With(set, node) /\ head' = New
           ELSE nodes' = With([set EXCEPT ![pred].next = New], node) /\ UNCHANGED head
    /\ UNCHANGED tail
    /\ Added(New, SelectInSeq(order, LAMBDA n : n = old))

Freed(ns, n) == Restrict(ns, DOMAIN ns \ {n})

FreeFrist ==
    /\ defined /\ head # Nil
    /\ IF Alive(head)
       THEN LET succ == nodes[head].next
            IN  /\ nodes' = Freed(IF succ = Nil THEN nodes
                                  ELSE [nodes EXCEPT ![succ].prev = Nil], head)
                /\ head' = succ
                /\ length' = length - 1
                /\ order' = Tail(order)
                /\ UNCHANGED <<tail, defined>>
       ELSE Crash

FreeLast ==
    /\ defined /\ tail # Nil
    /\ IF Alive(tail)
       THEN LET pred == nodes[tail].prev
            IN  /\ nodes' = Freed(IF pred = Nil THEN nodes
                                  ELSE [nodes EXCEPT ![pred].next = Nil], tail)
                /\ tail' = pred
                /\ length' = length - 1
                /\ order' = Front(order)
                /\ UNCHANGED <<head, defined>>
       ELSE Crash

(* Mutant of Unlinked: the successor keeps its predecessor. *)
UnlinkedOneWay(n) ==
    LET pred == nodes[n].prev
    IN  IF pred = Nil THEN nodes ELSE [nodes EXCEPT ![pred].next = nodes[n].next]

(* The neighbours of a node, without it *)
Unlinked(n) ==
    LET pred == nodes[n].prev
        succ == nodes[n].next
        left == IF pred = Nil THEN nodes ELSE [nodes EXCEPT ![pred].next = succ]
    IN  IF succ = Nil THEN left ELSE [left EXCEPT ![succ].prev = pred]

(* listRemoveNode of the node listSerchNode finds *)
RemoveNode(value) ==
    /\ defined
    /\ IF head # Nil /\ ~Alive(head) THEN Crash
       ELSE LET n == Search(value)
            IN  /\ n # Nil
                /\ nodes' = Freed(Unlinked(n), n)
                /\ head' = IF nodes[n].prev = Nil THEN nodes[n].next ELSE head
                /\ tail' = IF nodes[n].next = Nil THEN nodes[n].prev ELSE tail
                /\ length' = length - 1
                /\ order' = RemoveAt(order, First(value))
                /\ UNCHANGED defined

(* FreeList, and CreateList of the next list *)
FreeList ==
    /\ defined /\ <<head, tail>> # <<Nil, Nil>>
    /\ IF head # Nil /\ ~Alive(head) THEN Crash
       ELSE /\ nodes' = <<>> /\ head' = Nil /\ tail' = Nil /\ length' = 0
            /\ order' = <<>>
            /\ UNCHANGED defined

Next ==
    \/ \E value \in Values : AddHead(value) \/ AddTail(value) \/ RemoveNode(value)
    \/ \E old \in Ids, value \in Values :
           InsertAfter(old, value) \/ InsertBefore(old, value)
    \/ FreeFrist \/ FreeLast \/ FreeList

-------------------------------------------------------------------------------
(* The pointers of the list of that order *)
Linked ==
    \A i \in DOMAIN order :
        /\ nodes[order[i]].prev = (IF i = 1 THEN Nil ELSE order[i - 1])
        /\ nodes[order[i]].next = (IF i = Len(order) THEN Nil ELSE order[i + 1])

(* The list is, after any operations, the one they stand for: read from    *)
(* either end it holds the same nodes, it counts them, and no node is lost *)
(* or freed twice.  A freed node is used only when the list is empty and   *)
(* one end still points to its last node.                                  *)
ListIntact ==
    /\ length = Len(order)
    /\ DOMAIN nodes = ToSet(order) /\ Linked
    /\ order # <<>> => head = order[1] /\ tail = Last(order)
    /\ order = <<>> => head = Nil \/ tail = Nil
    /\ ~defined => order = <<>> /\ <<head, tail>> # <<Nil, Nil>>
=============================================================================
