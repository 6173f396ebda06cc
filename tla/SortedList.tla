----------------------------- MODULE SortedList -----------------------------
(***************************************************************************)
(* What a priority queue promises: a list of entries in the order of their *)
(* keys, entries of equal key in the order of their insertion.  An entry   *)
(* is named by its node, the handle its owner keeps.                       *)
(***************************************************************************)
EXTENDS SortedListOps

CONSTANTS Node,   \* the names of entries
          Key     \* what entries are ordered by

VARIABLE entries  \* the list, each entry a record [node, key]

KeysOf(s) == [i \in 1 .. Len(s) |-> s[i].key]
NodesOf(s) == [i \in 1 .. Len(s) |-> s[i].node]

Init == entries = <<>>

(* An entry goes behind the entries whose key is not larger.               *)
PutIn(s, n, k) ==
  \E i \in 1 .. Len(s) + 1 :
    /\ IsInsertionPoint(KeysOf(s), k, i)
    /\ entries' = InsertAt(s, i, [node |-> n, key |-> k])

Insert(n, k) ==
  /\ n \notin ToSet(NodesOf(entries))
  /\ PutIn(entries, n, k)

(* Whoever names an entry can take it out, wherever it is in the list.     *)
TakeOut(n) ==
  \E i \in DOMAIN entries :
    /\ entries[i].node = n
    /\ entries' = RemoveAt(entries, i)

(* An entry that gets another key moves to the place of a new entry.       *)
Rekey(n, k) ==
  \E i \in DOMAIN entries :
    /\ entries[i].node = n
    /\ PutIn(RemoveAt(entries, i), n, k)

Clear == entries' = <<>>

Next ==
  \/ \E n \in Node, k \in Key : Insert(n, k) \/ Rekey(n, k)
  \/ \E n \in Node : TakeOut(n)
  \/ Clear

Spec == Init /\ [][Next]_entries
=============================================================================
