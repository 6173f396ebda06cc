--------------------------- MODULE PriorityQueue ---------------------------
(***************************************************************************)
(* The priority queue of source/EventQueue/PriorityQueue.h: an intrusive   *)
(* singly linked list over a fixed array of nodes, the unused nodes linked *)
(* in a free list.  The variables are the members of the class; an element *)
(* is represented by the key that operator< compares.                      *)
(***************************************************************************)
EXTENDS Integers, Sequences, SequencesExt

CONSTANTS Capacity,   \* number of nodes, the template's Capacity
          Key         \* keys of elements

ASSUME CapacityAssumption == Capacity \in Nat \ {0}
ASSUME KeyAssumption == Key \subseteq Int /\ Key # {}

NULL == 0
Node == 1 .. Capacity

VARIABLES
  head,               \* first node of the queue
  next,               \* Node::next of every node
  free_nodes,         \* first node of the free list
  storage,            \* the element each node holds
  used_nodes_count,
  spinning            \* erase() is in its loop and will not leave it

vars == <<head, next, free_nodes, storage, used_nodes_count, spinning>>

links == <<head, next, free_nodes, used_nodes_count>>

(* Different nodes, one after the other.                                   *)
Nodes == UNION {Injection(1 .. m, Node) : m \in 0 .. Capacity}

(* The links nx lead from n through the nodes of s, one after the other, and end. *)
IsChain(nx, n, s) ==
  /\ n = NULL <=> s = <<>>
  /\ s # <<>> => s[1] = n
  /\ \A i \in 1 .. Len(s) : nx[s[i]] = IF i = Len(s) THEN NULL ELSE s[i + 1]

(* The nodes a walk from n on meets, which does not end if the links run in a cycle. *)
ChainOf(nx, n) == CHOOSE s \in Nodes : IsChain(nx, n, s)

Chain(n) == ChainOf(next, n)

Listed == ToSet(Chain(head))

-----------------------------------------------------------------------------
(* initialize(): every node is free, linked in the order of the array.     *)
Init ==
  /\ head = NULL
  /\ next = [n \in Node |-> IF n = Capacity THEN NULL ELSE n + 1]
  /\ free_nodes = 1
  /\ storage \in [Node -> {CHOOSE k \in Key : TRUE}]
  /\ used_nodes_count = 0
  /\ spinning = FALSE

(* insert_after(prev, n): the links nx once n is behind the last node from prev
   on that n is not smaller than, the elements being item.                 *)
insert_after_Here(nx, item, prev, n) ==  \* mutant: the place is not looked for
  [nx EXCEPT ![n] = nx[prev], ![prev] = n]
insert_after(nx, item, prev, n) ==
  LET walk == ChainOf(nx, prev)
      ends(i) == nx[walk[i]] = NULL \/ item[n] < item[nx[walk[i]]]
      last == walk[CHOOSE i \in DOMAIN walk : ends(i) /\ \A j \in 1 .. i - 1 : ~ends(j)]
  IN [nx EXCEPT ![n] = nx[last], ![last] = n]

(* push(): nothing happens when no node is free.                           *)
Push(k) ==
  /\ ~spinning
  /\ free_nodes # NULL
  /\ LET n == free_nodes
         taken == [next EXCEPT ![n] = NULL]
     IN /\ free_nodes' = next[n]
        /\ storage' = [storage EXCEPT ![n] = k]
        /\ used_nodes_count' = used_nodes_count + 1
        /\ \/ /\ head = NULL
              /\ head' = n
              /\ next' = taken
           \/ /\ head # NULL
              /\ k < storage[head]
              /\ head' = n
              /\ next' = [taken EXCEPT ![n] = head]
           \/ /\ head # NULL
              /\ ~ k < storage[head]
              /\ next' = insert_after(taken, storage', head, n)
              /\ UNCHANGED head
  /\ UNCHANGED spinning

(* The effect of unlinking the head and giving its node back.              *)
ReleaseHead_Uncounted ==  \* mutant: the counter keeps its value
  /\ head' = next[head]
  /\ next' = [next EXCEPT ![head] = free_nodes]
  /\ free_nodes' = head
  /\ UNCHANGED used_nodes_count
ReleaseHead_Leaked ==  \* mutant: the node is not linked into the free list
  /\ head' = next[head]
  /\ used_nodes_count' = used_nodes_count - 1
  /\ UNCHANGED <<next, free_nodes>>
ReleaseHead ==
  /\ head' = next[head]
  /\ next' = [next EXCEPT ![head] = free_nodes]
  /\ free_nodes' = head
  /\ used_nodes_count' = used_nodes_count - 1

Pop ==
  /\ ~spinning
  /\ head # NULL
  /\ ReleaseHead
  /\ UNCHANGED <<storage, spinning>>

(* erase(n) looks for n behind the head in a loop that never advances.  A
   caller erases from a list that is not empty: the loop of an empty one reads
   through a null pointer.                                                 *)
Erase(n) ==
  /\ ~spinning
  /\ head # NULL
  /\ \/ /\ head = n
        /\ ReleaseHead
        /\ UNCHANGED spinning
     \/ /\ head # n
        /\ next[head] = n
        /\ next' = [next EXCEPT ![head] = next[n], ![n] = free_nodes]
        /\ free_nodes' = n
        /\ used_nodes_count' = used_nodes_count - 1
        /\ UNCHANGED <<head, spinning>>
     \/ /\ head # n
        /\ next[head] # n
        /\ spinning' = TRUE
        /\ UNCHANGED links
  /\ UNCHANGED storage

(* The loop of erase() goes round.                                         *)
Spin == spinning /\ UNCHANGED vars

(* An element of key k may stay in front of the node after n.              *)
BelowNext(n, k) == next[n] # NULL => k < storage[next[n]]

(* An element changes its key, then update() moves its node: the node at the head. *)
UpdateHead(k) ==
  /\ ~spinning
  /\ head # NULL
  /\ storage' = [storage EXCEPT ![head] = k]
  /\ \/ /\ BelowNext(head, k)
        /\ UNCHANGED <<head, next>>
     \/ /\ ~ BelowNext(head, k)
        /\ head' = next[head]
        /\ next' = insert_after(next, storage', next[head], head)
  /\ UNCHANGED <<free_nodes, used_nodes_count, spinning>>

(* clear() gives the nodes back one by one from the head on.               *)
Clear ==
  /\ ~spinning
  /\ LET nodes == Chain(head)
         before(n) == CHOOSE i \in DOMAIN nodes : nodes[i] = n
     IN /\ next' = [n \in Node |->
                      IF n \notin Listed THEN next[n]
                      ELSE IF before(n) = 1 THEN free_nodes
                      ELSE nodes[before(n) - 1]]
        /\ free_nodes' = IF nodes = <<>> THEN free_nodes ELSE Last(nodes)
  /\ head' = NULL
  /\ used_nodes_count' = 0
  /\ UNCHANGED <<storage, spinning>>

-----------------------------------------------------------------------------
(* The operations as the event queue uses them: update() is only called on the
   element at the head, erase() on a node that is in the queue.            *)
Next ==
  \/ \E k \in Key : Push(k)
  \/ Pop
  \/ \E n \in Listed : Erase(n)
  \/ \E k \in Key : UpdateHead(k)
  \/ Clear
  \/ Spin

Spec == Init /\ [][Next]_vars

-----------------------------------------------------------------------------
TypeOK ==
  /\ head \in Node \cup {NULL}
  /\ next \in [Node -> Node \cup {NULL}]
  /\ free_nodes \in Node \cup {NULL}
  /\ storage \in [Node -> Key]
  /\ used_nodes_count \in 0 .. Capacity
  /\ spinning \in BOOLEAN

(* No node is lost or shared: walking the queue and walking the free list both
   end and together meet every node of the array exactly once, and size() is the
   length of the queue.  This is what push, pop, erase, update and clear rely
   on when they relink nodes between the two lists.                        *)
NodesAccounted ==
  \E queue \in Nodes :
    /\ IsChain(next, head, queue)
    /\ used_nodes_count = Len(queue)
    /\ \E free \in Nodes :
         /\ IsChain(next, free_nodes, free)
         /\ Len(queue \o free) = Capacity
         /\ ToSet(queue \o free) = Node

(* The linked list behaves as the ordered list of SortedList: an element goes
   behind those it is not smaller than, leaves only when it is popped, erased
   or cleared, and is found again at its new place after update().         *)
Entries == [i \in DOMAIN Chain(head) |->
              [node |-> Chain(head)[i], key |-> storage[Chain(head)[i]]]]

List == INSTANCE SortedList WITH entries <- Entries

ImplementsSortedList == List!Spec

(* "erase a node from the list" (PriorityQueue.h:282): the operation returns.  *)
EraseReturns == ~spinning
=============================================================================
