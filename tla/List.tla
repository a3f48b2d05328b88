-------------------------------- MODULE List --------------------------------
(***************************************************************************)
(* The intrusive doubly linked lists of libs/list.c.  A list is the record *)
(* of its links: next and prev of every element and of the two sentinels   *)
(* that list_t holds, and len.  Linking an element reads and writes the    *)
(* links in the order of the code; nothing checks whether it is on the     *)
(* list, or on another one.                                                *)
(***************************************************************************)
EXTENDS Integers, FiniteSets, Sequences

CONSTANTS Elems, ListHead, ListTail, NULL

Node == Elems \cup {ListHead, ListTail}
Link == [Node -> Node \cup {NULL}]

\* list_init, with the elements' own links cleared by list_elem_init
EmptyList == [next |-> [n \in Node |-> IF n = ListHead THEN ListTail ELSE NULL],
              prev |-> [n \in Node |-> IF n = ListTail THEN ListHead ELSE NULL],
              len  |-> 0]

IsEmpty(l) == l.next[ListHead] = ListTail
First(l)   == IF IsEmpty(l) THEN NULL ELSE l.next[ListHead]
LastOf(l)  == IF IsEmpty(l) THEN NULL ELSE l.prev[ListTail]

\* Faulty variant: the successor keeps its old predecessor.
InsertHalf(l, pos, e) ==
    [next |-> [l.next EXCEPT ![e] = l.next[pos], ![pos] = e],
     prev |-> [l.prev EXCEPT ![e] = pos],
     len  |-> l.len + 1]

\* list_insert: e goes behind pos.
Insert(l, pos, e) ==
    [next |-> [l.next EXCEPT ![e] = l.next[pos], ![pos] = e],
     prev |-> [l.prev EXCEPT ![e] = pos, ![l.next[pos]] = e],
     len  |-> l.len + 1]

\* Faulty variant: the element goes in at the front.
PushBackFront(l, e) == Insert(l, ListHead, e)

InsertBefore(l, pos, e) == Insert(l, l.prev[pos], e)
PushBack(l, e)          == Insert(l, l.prev[ListTail], e)
PushFront(l, e)         == Insert(l, ListHead, e)

\* list_erase, one store at a time.  The links of e itself stay.
UnlinkNext(l, e) == [l EXCEPT !.next[l.prev[e]] = l.next[e]]
UnlinkPrev(l, e) == [l EXCEPT !.prev[l.next[e]] = l.prev[e]]
Uncount(l)       == [l EXCEPT !.len = @ - 1]
Erase(l, e) == IF e \in {ListHead, ListTail} THEN l
               ELSE Uncount(UnlinkPrev(UnlinkNext(l, e), e))

PopFront(l) == Erase(l, l.next[ListHead])
PopBack(l)  == Erase(l, l.prev[ListTail])

\* list_replace: e takes the place of pos; len stays.
Replace(l, pos, e) ==
    [l EXCEPT !.next = [@ EXCEPT ![e] = l.next[pos], ![l.prev[pos]] = e],
              !.prev = [@ EXCEPT ![e] = l.prev[pos], ![l.next[pos]] = e]]

-----------------------------------------------------------------------------
\* The links of l are those of a list that holds the elements of s in that
\* order, each once: both directions agree and len counts them.
At(s, k) == IF k = 0 THEN ListHead ELSE IF k > Len(s) THEN ListTail ELSE s[k]
Leads(l, s) == /\ \A j, k \in 1 .. Len(s) : s[j] = s[k] => j = k
               /\ \A k \in 0 .. Len(s) : l.next[At(s, k)] = At(s, k + 1)
Holds(l, s) == /\ Leads(l, s)
               /\ \A k \in 0 .. Len(s) : l.prev[At(s, k + 1)] = At(s, k)
               /\ l.len = Len(s)

\* The elements met going forward from the head, as list_traversal does.
Orders      == UNION {[1 .. n -> Elems] : n \in 0 .. Cardinality(Elems)}
Contents(l) == CHOOSE s \in Orders : Leads(l, s)
=============================================================================
