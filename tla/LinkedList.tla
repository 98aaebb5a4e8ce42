----------------------------- MODULE LinkedList -----------------------------
(***************************************************************************)
(* The doubly linked list of libsensact (list.c), as operators on a list   *)
(* with the memory of its nodes.  Nothing reads a node once it is free, so *)
(* its memory is forgotten.  Operators that remove a node are for a node   *)
(* that the list holds; list_pop and list_poll of an empty list return     *)
(* NULL and change nothing.  Represents relates a list to the sequence of  *)
(* nodes that it stands for.                                               *)
(***************************************************************************)
EXTENDS Integers, Sequences, SequencesExt

CONSTANTS
    Nodes,      \* the addresses that malloc may return for a node
    NULL

ASSUME ListAssumption == NULL \notin Nodes

Links == [Nodes -> Nodes \cup {NULL}]

\* A list of items; used tells which nodes are allocated.
Lists(Items) ==
    [first : Nodes \cup {NULL}, last : Nodes \cup {NULL}, length : Int,
     next : Links, prev : Links, data : [Nodes -> Items \cup {NULL}], used : SUBSET Nodes]

create_list ==
    [first |-> NULL, last |-> NULL, length |-> 0,
     next |-> [n \in Nodes |-> NULL], prev |-> [n \in Nodes |-> NULL],
     data |-> [n \in Nodes |-> NULL], used |-> {}]

\* A node is allocated and the item copied into it; a node is given back.
Allocated(l, n, item) ==
    [l EXCEPT !.used = @ \cup {n}, !.length = @ + 1, !.data[n] = item]
Freed(l, n) ==
    [l EXCEPT !.used = @ \ {n}, !.length = @ - 1,
              !.data[n] = NULL, !.next[n] = NULL, !.prev[n] = NULL]

\* The new node n goes to the end of the list.
list_add(l, n, item) ==
    LET m == Allocated(l, n, item)
    IN  IF l.first = NULL
        THEN [m EXCEPT !.first = n, !.last = n, !.prev[n] = NULL, !.next[n] = NULL]
        ELSE [m EXCEPT !.last = n, !.prev[n] = l.last,
                       !.next = [@ EXCEPT ![l.last] = n, ![n] = NULL]]

\* The new node n goes behind the node before, or to the front when that is NULL; in an
\* empty list it is the only one.
list_insert(l, before, n, item) ==
    LET m == Allocated(l, n, item)
    IN  IF l.first = NULL \/ before = l.last
        THEN list_add(l, n, item)
        ELSE IF before = NULL
        THEN [m EXCEPT !.first = n, !.next[n] = l.first,
                       !.prev = [@ EXCEPT ![n] = NULL, ![l.first] = n]]
        ELSE [m EXCEPT !.next = [@ EXCEPT ![n] = l.next[before], ![before] = n],
                       !.prev = [@ EXCEPT ![n] = before, ![l.next[before]] = n]]

\* Variant for testing the properties: the last node is unlinked like one in the middle,
\* the list's pointer to it stays.
PluckKeepsLast(l, n) ==
    LET m == Freed(l, n)
    IN  [m EXCEPT !.first = IF @ = n THEN l.next[n] ELSE @,
                  !.next = [p \in Nodes |-> IF p = l.prev[n] THEN l.next[n] ELSE m.next[p]],
                  !.prev = [p \in Nodes |-> IF p = l.next[n] THEN l.prev[n] ELSE m.prev[p]]]

list_pluck(l, n) ==
    LET m == Freed(l, n)
    IN  IF l.first = n /\ l.last = n
        THEN [m EXCEPT !.first = NULL, !.last = NULL]
        ELSE IF l.first = n
        THEN [m EXCEPT !.first = l.next[n], !.prev[l.next[n]] = NULL]
        ELSE IF l.last = n
        THEN [m EXCEPT !.last = l.prev[n], !.next[l.prev[n]] = NULL]
        ELSE [m EXCEPT !.next[l.prev[n]] = l.next[n], !.prev[l.next[n]] = l.prev[n]]

list_pop(l) ==
    IF l.last = NULL THEN l
    ELSE LET m == Freed(l, l.last)
         IN  IF l.first = l.last
             THEN [m EXCEPT !.first = NULL, !.last = NULL]
             ELSE [m EXCEPT !.last = l.prev[l.last], !.next[l.prev[l.last]] = NULL]

list_poll(l) ==
    IF l.first = NULL THEN l
    ELSE LET m == Freed(l, l.first)
         IN  IF l.first = l.last
             THEN [m EXCEPT !.first = NULL, !.last = NULL]
             ELSE [m EXCEPT !.first = l.next[l.first], !.prev[l.next[l.first]] = NULL]

\* An iterator starts before its first node; list_next and list_prev enter the list with
\* the first call, and stay at NULL once they left it.
list_iterator(node) == [current |-> node, started |-> FALSE]

Advance(it, links) ==
    IF it.current = NULL THEN it
    ELSE IF ~it.started THEN [it EXCEPT !.started = TRUE]
    ELSE [it EXCEPT !.current = links[it.current]]

list_next(l, it) == Advance(it, l.next)
list_prev(l, it) == Advance(it, l.prev)

\* What an iterator from the front shows with each call of list_next until it has left the
\* list, and one from the back with list_prev.
Forward(l) ==
    LET it[k \in Nat] == IF k = 0 THEN list_iterator(l.first) ELSE list_next(l, it[k - 1])
    IN  [k \in 1 .. l.length + 1 |-> it[k].current]

Backward(l) ==
    LET it[k \in Nat] == IF k = 0 THEN list_iterator(l.last) ELSE list_prev(l, it[k - 1])
    IN  [k \in 1 .. l.length + 1 |-> it[k].current]

-----------------------------------------------------------------------------
\* The list l stands for the sequence s of nodes: both ways of links lead through s.
Represents(l, s) ==
    /\ s \in Seq(Nodes)
    /\ \A i, j \in 1 .. Len(s) : s[i] = s[j] => i = j
    /\ l.used = {s[i] : i \in 1 .. Len(s)}
    /\ l.length = Len(s)
    /\ l.first = (IF s = <<>> THEN NULL ELSE s[1])
    /\ l.last = (IF s = <<>> THEN NULL ELSE s[Len(s)])
    /\ \A i \in 1 .. Len(s) :
          /\ l.next[s[i]] = (IF i = Len(s) THEN NULL ELSE s[i + 1])
          /\ l.prev[s[i]] = (IF i = 1 THEN NULL ELSE s[i - 1])
=============================================================================
