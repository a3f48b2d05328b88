---------------------------- MODULE KernelProofs ----------------------------
(***************************************************************************)
(* Proofs about Threads and Kernel, for any number of threads, any pid map *)
(* and any screen.  Of Threads, whose state Kernel extends:                *)
(*                                                                         *)
(*   - the run queue stays a list of the waiting threads, no thread runs   *)
(*     on a stack that is not its own, pids are distinct;                  *)
(*   - scheduling is round robin.                                          *)
(*                                                                         *)
(* And of Kernel:                                                          *)
(*                                                                         *)
(*   - the cursor stays within a row of the screen, wherever threads are   *)
(*     interrupted in cga_putc;                                            *)
(*   - a panic is final.                                                   *)
(*                                                                         *)
(* There the threads keep the invariant TInv they have alone: nothing that *)
(* Kernel adds changes what they share, except that traps switch           *)
(* interrupts off.                                                         *)
(***************************************************************************)
EXTENDS Kernel, NatFacts, FiniteSetTheorems, SequenceTheorems, TLAPS

-----------------------------------------------------------------------------
(* The pid map.                                                            *)

\* r is the first clear bit from c on, or -1 when there is none below end.
FirstClear(bits, c, end, r) ==
    \/ /\ r = BIT_SCAN_FAIL /\ c .. end - 1 \subseteq bits
    \/ r \in c .. end - 1 /\ r \notin bits /\ c .. r - 1 \subseteq bits

LEMMA FirstClearExists ==
    ASSUME NEW bits, NEW end \in Nat, NEW c \in 0 .. end
    PROVE  \E r \in -1 .. end : FirstClear(bits, c, end, r)
<1> DEFINE Clear == {j \in c .. end - 1 : j \notin bits}
<1>1. CASE Clear = {}
  <2>1. FirstClear(bits, c, end, -1)
    BY <1>1 DEF FirstClear, BIT_SCAN_FAIL
  <2> QED BY <2>1
<1>2. CASE Clear # {}
  <2>1. PICK r \in Clear : \A y \in Clear : r <= y
    <3>1. Clear \subseteq Nat
      OBVIOUS
    <3> HIDE DEF Clear
    <3> QED BY <1>2, <3>1, LeastNat
  <2>2. FirstClear(bits, c, end, r)
    BY <2>1 DEF FirstClear
  <2> QED BY <2>2
<1> QED BY <1>1, <1>2

\* One step of the search, on what is still to be searched.
LEMMA FirstClearStep ==
    ASSUME NEW bits, NEW end \in Nat, NEW c \in 0 .. end - 1, NEW d \in c + 1 .. end,
           c .. d - 1 \subseteq bits, NEW r, FirstClear(bits, d, end, r)
    PROVE  FirstClear(bits, c, end, r)
BY DEF FirstClear, BIT_SCAN_FAIL

LEMMA FirstClearUnique ==
    ASSUME NEW bits, NEW end \in Nat, NEW c \in 0 .. end, NEW r, NEW s,
           FirstClear(bits, c, end, r), FirstClear(bits, c, end, s)
    PROVE  r = s
BY DEF FirstClear, BIT_SCAN_FAIL

\* bitmap_scan_partial for a single bit finds the first clear one.
LEMMA ScanFirst ==
    ASSUME NEW bits, NEW len \in Nat
    PROVE  FirstClear(bits, 0, 8 * len, BitmapScan(bits, len, 1))
<1> DEFINE end == 8 * len
           From(c, s, n) == [cur |-> c, start |-> s, empty |-> n]
           Places == [cur : 0 .. end, start : 0 .. end, empty : 0 .. 1 - 1]
           Body(scan, p) ==
            IF p.cur = end THEN BIT_SCAN_FAIL
            ELSE IF p.cur % 8 = 0 /\ ByteFull(bits, p.cur \div 8)
                   THEN scan[From(p.cur + 8, p.cur + 8, 0)]
            ELSE IF p.cur \in bits THEN scan[From(p.cur + 1, p.cur + 1, p.empty)]
            ELSE IF p.empty + 1 = 1 THEN p.start
            ELSE scan[From(p.cur + 1,
                           IF (p.cur + 1) % 8 = 0 THEN p.cur + 1 ELSE p.start,
                           p.empty + 1)]
           Fix(scan) == scan = [p \in Places |-> Body(scan, p)]
           NextClear(c) == CHOOSE r \in -1 .. end : FirstClear(bits, c, end, r)
           Found(p) == IF p.cur # end /\ p.cur \notin bits THEN p.start ELSE NextClear(p.cur)
           G == [p \in Places |-> Found(p)]
           scan == CHOOSE f : Fix(f)
<1>1. BitmapScan(bits, len, 1) = scan[From(0, 0, 0)]
  BY DEF BitmapScan
<1>2. \A c \in 0 .. end : NextClear(c) \in -1 .. end /\ FirstClear(bits, c, end, NextClear(c))
  <2> TAKE c \in 0 .. end
  <2>1. \E r \in -1 .. end : FirstClear(bits, c, end, r)
    <3>1. end \in Nat
      OBVIOUS
    <3> HIDE DEF end
    <3> QED BY <3>1, FirstClearExists
  <2> QED BY <2>1
<1>3. end \in Nat /\ end % 8 = 0
  OBVIOUS
<1> HIDE DEF end
<1>4. \A c \in 0 .. end - 1, d \in 0 .. end :
         c < d /\ c .. d - 1 \subseteq bits => NextClear(c) = NextClear(d)
  <2> SUFFICES ASSUME NEW c \in 0 .. end - 1, NEW d \in 0 .. end, c < d, c .. d - 1 \subseteq bits
               PROVE  NextClear(c) = NextClear(d)
    OBVIOUS
  <2> HIDE DEF NextClear
  <2>1. FirstClear(bits, c, end, NextClear(c)) /\ FirstClear(bits, c, end, NextClear(d))
    BY <1>2, <1>3, FirstClearStep
  <2> QED BY <2>1, <1>3, FirstClearUnique
<1>5. \A c \in 0 .. end - 1 : c \notin bits => NextClear(c) = c
  BY <1>2, <1>3 DEF FirstClear, BIT_SCAN_FAIL
<1>6. NextClear(end) = BIT_SCAN_FAIL
  <2>1. end \in 0 .. end /\ end .. end - 1 = {}
    BY <1>3
  <2> QED BY <1>2, <2>1 DEF FirstClear
<1> HIDE DEF NextClear
\* Wherever the search stands, what it goes on from is again in Places, and it
\* finds there what it is looking for.
<1>7. ASSUME NEW p \in Places,
             NEW f, \A q \in Places : q.cur > p.cur => f[q] = Found(q)
      PROVE  Body(f, p) = Found(p)
  <2>0. /\ p.cur \in 0 .. end /\ p.start \in 0 .. end /\ p.empty = 0
        /\ p = From(p.cur, p.start, 0)
    OBVIOUS
  <2>1. \A d \in 0 .. end : d > p.cur => f[From(d, d, 0)] = NextClear(d)
    <3> SUFFICES ASSUME NEW d \in 0 .. end, d > p.cur PROVE f[From(d, d, 0)] = NextClear(d)
      OBVIOUS
    <3>1. From(d, d, 0) \in Places /\ From(d, d, 0).cur = d /\ From(d, d, 0).start = d
      BY <1>3
    <3>2. f[From(d, d, 0)] = Found(From(d, d, 0))
      BY <1>7, <3>1
    <3>3. Found(From(d, d, 0)) = NextClear(d)
      BY <3>1, <1>3, <1>5
    <3> QED BY <3>2, <3>3
  <2>2. CASE p.cur = end
    BY <2>2, <1>6
  <2>3. CASE p.cur # end /\ p.cur % 8 = 0 /\ ByteFull(bits, p.cur \div 8)
    <3>1. /\ p.cur \in 0 .. end - 1 /\ p.cur + 8 \in 0 .. end
          /\ p.cur .. (p.cur + 8) - 1 \subseteq bits
      BY <2>0, <2>3, <1>3 DEF ByteFull
    <3>2. NextClear(p.cur) = NextClear(p.cur + 8)
      BY <3>1, <1>3, <1>4
    <3>3. f[From(p.cur + 8, p.cur + 8, 0)] = NextClear(p.cur + 8)
      BY <3>1, <2>1
    <3>4. p.cur \in bits
      BY <3>1
    <3> QED BY <2>3, <3>2, <3>3, <3>4
  <2>4. CASE p.cur # end /\ ~(p.cur % 8 = 0 /\ ByteFull(bits, p.cur \div 8)) /\ p.cur \in bits
    <3>1. /\ p.cur \in 0 .. end - 1 /\ p.cur + 1 \in 0 .. end
          /\ p.cur .. (p.cur + 1) - 1 \subseteq bits
      BY <2>0, <2>4, <1>3
    <3>2. NextClear(p.cur) = NextClear(p.cur + 1)
      BY <3>1, <1>3, <1>4
    <3>3. f[From(p.cur + 1, p.cur + 1, 0)] = NextClear(p.cur + 1)
      BY <3>1, <2>1
    <3> QED BY <2>0, <2>4, <3>2, <3>3
  <2>5. CASE p.cur # end /\ p.cur \notin bits
    <3>1. ~(p.cur % 8 = 0 /\ ByteFull(bits, p.cur \div 8))
      BY <2>0, <2>5, <1>3 DEF ByteFull
    <3> QED BY <2>0, <2>5, <3>1
  <2> QED BY <2>2, <2>3, <2>4, <2>5
<1> HIDE DEF Found
<1>8. Fix(G)
  <2>1. \A p \in Places : Body(G, p) = Found(p)
    <3> TAKE p \in Places
    <3>1. \A q \in Places : G[q] = Found(q)
      OBVIOUS
    <3> HIDE DEF G, Body, Places
    <3> QED BY <3>1, <1>7
  <2> HIDE DEF Body, Places
  <2> QED BY <2>1
<1>9. Fix(scan)
  <2> HIDE DEF Fix
  <2> QED BY <1>8
<1>10. \A p \in Places : scan[p] = Body(scan, p)
  <2> HIDE DEF scan, Places, Body
  <2> QED BY <1>9
<1> HIDE DEF scan
<1>11. \A p \in Places : scan[p] = Found(p)
  <2> DEFINE Right == {k \in 0 .. end : \A p \in Places : p.cur >= k => scan[p] = Found(p)}
  <2>1. \A k \in 0 .. end : (\A q \in Places : q.cur > k => scan[q] = Found(q)) => k \in Right
    <3> SUFFICES ASSUME NEW k \in 0 .. end,
                        \A q \in Places : q.cur > k => scan[q] = Found(q),
                        NEW p \in Places, p.cur >= k
                 PROVE  scan[p] = Found(p)
      OBVIOUS
    <3>1. k \in Nat /\ p.cur \in Nat
      BY <1>3
    <3>2. \A q \in Places : q.cur > p.cur => scan[q] = Found(q)
      <4> TAKE q \in Places
      <4>1. q.cur \in Nat
        BY <1>3
      <4> HIDE DEF Places, scan
      <4> QED BY <3>1, <4>1
    <3>3. Body(scan, p) = Found(p)
      <4> HIDE DEF Places, scan, Body
      <4> QED BY <3>2, <1>7
    <3> HIDE DEF Places, scan, Body
    <3> QED BY <3>3, <1>10
  <2>2. end \in Right
    <3>1. \A q \in Places : ~(q.cur > end)
      BY <1>3
    <3>2. end \in 0 .. end
      BY <1>3
    <3> HIDE DEF Places, scan, Right
    <3> QED BY <2>1, <3>1, <3>2
  <2>3. \A k \in 1 .. end : k \in Right => k - 1 \in Right
    <3> SUFFICES ASSUME NEW k \in 1 .. end, k \in Right PROVE k - 1 \in Right
      OBVIOUS
    <3>1. \A q \in Places : q.cur > k - 1 => scan[q] = Found(q)
      <4> TAKE q \in Places
      <4>1. q.cur \in Nat /\ (q.cur > k - 1 <=> q.cur >= k)
        BY <1>3
      <4> HIDE DEF Places, scan
      <4> QED BY <4>1
    <3>2. k - 1 \in 0 .. end
      BY <1>3
    <3> HIDE DEF Places, scan, Right
    <3> QED BY <2>1, <3>1, <3>2
  <2>4. \A k \in 0 .. end : k \in Right
    <3> HIDE DEF Right
    <3>1. 0 + 1 = 1
      OBVIOUS
    <3> QED BY <2>2, <2>3, <3>1, <1>3, DownwardInduction
  <2> TAKE p \in Places
  <2>5. p.cur \in 0 .. end /\ p.cur >= p.cur
    BY <1>3
  <2> HIDE DEF Places, scan
  <2> QED BY <2>4, <2>5
<1>12. From(0, 0, 0) \in Places /\ From(0, 0, 0).cur = 0 /\ From(0, 0, 0).start = 0
  BY <1>3
<1>13. Found(From(0, 0, 0)) = NextClear(0)
  BY <1>3, <1>5, <1>12 DEF Found
<1>14. 0 \in 0 .. end
  BY <1>3
<1> HIDE DEF Places, scan, From
<1> QED BY <1>1, <1>2, <1>11, <1>12, <1>13, <1>14 DEF end

-----------------------------------------------------------------------------
(* Lists: what linking and unlinking make of the sequence a list holds. *)

ListType == [next : Link, prev : Link, len : Nat]

\* The sentinels and the elements differ.
LEMMA NodesDiffer ==
    /\ ListHead \notin Workers /\ ListTail \notin Workers /\ ListHead # ListTail
    /\ NULL \notin Node /\ InitProc \notin Node /\ InitProc # NULL
    /\ Workers \subseteq Node /\ ListHead \in Node /\ ListTail \in Node
BY ThreadConstants DEF Node

LEMMA EmptyHolds == EmptyList \in ListType /\ Holds(EmptyList, <<>>)
BY NodesDiffer DEF EmptyList, ListType, Link, Holds, Leads, At

\* Where the places of a sequence are.
LEMMA AtFacts ==
    ASSUME NEW s \in Seq(Workers)
    PROVE  /\ Len(s) \in Nat
           /\ At(s, 0) = ListHead /\ At(s, Len(s) + 1) = ListTail
           /\ \A k \in 1 .. Len(s) : At(s, k) = s[k] /\ s[k] \in Workers
           /\ \A k \in 0 .. Len(s) + 1 : At(s, k) \in Node
BY NodesDiffer DEF At

LEMMA PushBackHolds ==
    ASSUME NEW l \in ListType, NEW s \in Seq(Workers), Holds(l, s),
           NEW e \in Workers, e \notin ToSet(s)
    PROVE  PushBack(l, e) \in ListType /\ Holds(PushBack(l, e), Append(s, e))
<1> DEFINE n == Len(s)
           t == Append(s, e)
           m == PushBack(l, e)
           last == At(s, n)
<1>1. n \in Nat /\ last \in Node /\ last # ListTail /\ last # e
  BY AtFacts, NodesDiffer DEF ToSet, At
<1>2. l.prev[ListTail] = last /\ l.next[last] = ListTail
  BY <1>1, AtFacts DEF Holds, Leads
<1>3. /\ m.next = [l.next EXCEPT ![e] = ListTail, ![last] = e]
      /\ m.prev = [l.prev EXCEPT ![e] = last, ![ListTail] = e]
      /\ m.len = l.len + 1
  BY <1>2 DEF PushBack, Insert
<1>4. m \in ListType
  BY <1>1, <1>2, NodesDiffer DEF PushBack, Insert, ListType, Link
<1>5. /\ t \in Seq(Workers) /\ Len(t) = n + 1
      /\ \A k \in 1 .. n : t[k] = s[k]
      /\ t[n + 1] = e
  BY <1>1
<1>6. /\ \A k \in 0 .. n : At(t, k) = At(s, k)
      /\ At(t, n + 1) = e /\ At(t, n + 2) = ListTail
  BY <1>1, <1>5 DEF At
<1>7. \A j, k \in 1 .. Len(t) : t[j] = t[k] => j = k
  BY <1>1, <1>5 DEF Holds, Leads, ToSet
<1>8. \A j, k \in 0 .. n : At(s, j) = At(s, k) => j = k
  BY <1>1, AtFacts, NodesDiffer DEF At, Holds, Leads
<1>9. \A k \in 0 .. n : At(s, k) # e /\ At(s, k) # ListTail /\ At(s, k) \in Node
  BY <1>1, AtFacts, NodesDiffer DEF At, ToSet
<1>10. l.next \in [Node -> Node \cup {NULL}] /\ l.prev \in [Node -> Node \cup {NULL}] /\ l.len = n
  BY DEF ListType, Link, Holds
<1> HIDE DEF n, t, m, last
<1>11. ASSUME NEW k \in 0 .. n + 1
       PROVE  m.next[At(t, k)] = At(t, k + 1) /\ m.prev[At(t, k + 1)] = At(t, k)
  <2>1. CASE k \in 0 .. n - 1
    <3>1. /\ k \in 0 .. n /\ k + 1 \in 0 .. n /\ k # n
          /\ At(t, k) = At(s, k) /\ At(t, k + 1) = At(s, k + 1)
          /\ At(s, k) # last
      BY <2>1, <1>1, <1>6, <1>8 DEF last
    <3>2. l.next[At(s, k)] = At(s, k + 1) /\ l.prev[At(s, k + 1)] = At(s, k)
      BY <3>1 DEF Holds, Leads, n
    <3> QED BY <3>1, <3>2, <1>3, <1>9, <1>10
  <2>2. CASE k = n
    BY <2>2, <1>1, <1>3, <1>6, <1>9, <1>10, NodesDiffer DEF last
  <2>3. CASE k = n + 1
    <3>1. At(t, k) = e /\ At(t, k + 1) = ListTail
      BY <2>3, <1>1, <1>6
    <3> QED BY <3>1, <1>1, <1>3, <1>10, NodesDiffer
  <2> QED BY <1>1, <2>1, <2>2, <2>3
<1> QED BY <1>1, <1>3, <1>4, <1>5, <1>7, <1>10, <1>11 DEF Holds, Leads, m, t

\* Unlinking the first element.
LEMMA EraseHolds ==
    ASSUME NEW l \in ListType, NEW s \in Seq(Workers), s # <<>>, Holds(l, s)
    PROVE  /\ l.next[ListHead] = s[1] /\ ~IsEmpty(l)
           /\ UnlinkNext(l, s[1]) \in ListType
           /\ Erase(l, s[1]) \in ListType /\ Holds(Erase(l, s[1]), Tail(s))
           /\ UnlinkPrev(UnlinkNext(l, s[1]), s[1]) \in ListType
           /\ Erase(l, s[1]) = Uncount(UnlinkPrev(UnlinkNext(l, s[1]), s[1]))
           /\ Leads(UnlinkNext(l, s[1]), Tail(s))
           /\ Leads(UnlinkPrev(UnlinkNext(l, s[1]), s[1]), Tail(s))
<1> DEFINE n == Len(s)
           e == s[1]
           t == Tail(s)
           u == UnlinkNext(l, e)
           v == UnlinkPrev(u, e)
           m == Uncount(v)
<1>1. n \in Nat \ {0} /\ e \in Workers /\ n - 1 \in Nat
  OBVIOUS
<1>2. t \in Seq(Workers) /\ Len(t) = n - 1 /\ \A k \in 1 .. n - 1 : t[k] = s[k + 1]
  OBVIOUS
<1>3. /\ At(t, 0) = ListHead
      /\ \A k \in 1 .. n : At(t, k) = At(s, k + 1)
  BY <1>1, <1>2 DEF At
<1>4. l.next \in [Node -> Node \cup {NULL}] /\ l.prev \in [Node -> Node \cup {NULL}] /\ l.len = n
  BY DEF ListType, Link, Holds
<1>5. /\ At(s, 0) = ListHead /\ At(s, 1) = e
      /\ \A k \in 0 .. n + 1 : At(s, k) \in Node
      /\ \A j, k \in 0 .. n + 1 : At(s, j) = At(s, k) => j = k
  BY <1>1, AtFacts, NodesDiffer DEF At, Holds, Leads
<1>6. \A k \in 0 .. n : l.next[At(s, k)] = At(s, k + 1) /\ l.prev[At(s, k + 1)] = At(s, k)
  BY DEF Holds, Leads
<1> DEFINE f == At(s, 2)
<1>7. /\ l.next[ListHead] = e /\ l.prev[e] = ListHead
      /\ l.next[e] = f /\ l.prev[f] = e /\ f \in Node
      /\ e # ListTail /\ e # ListHead /\ f # e
  BY <1>1, <1>5, <1>6, NodesDiffer
<1> HIDE DEF n, e, t, f
<1>8. /\ u = [l EXCEPT !.next = [l.next EXCEPT ![ListHead] = f]]
      /\ u \in ListType
      /\ u.next = [l.next EXCEPT ![ListHead] = f] /\ u.prev = l.prev
  BY <1>7, NodesDiffer DEF UnlinkNext, ListType, Link
<1>15. /\ v.next = [l.next EXCEPT ![ListHead] = f]
       /\ v.prev = [l.prev EXCEPT ![f] = ListHead]
       /\ v.len = n
       /\ v \in ListType
  BY <1>1, <1>4, <1>7, <1>8, NodesDiffer DEF UnlinkPrev, ListType, Link
<1> HIDE DEF v
<1>9. /\ m.next = [l.next EXCEPT ![ListHead] = f]
      /\ m.prev = [l.prev EXCEPT ![f] = ListHead]
      /\ m.len = n - 1
      /\ m \in ListType
  BY <1>1, <1>4, <1>15 DEF Uncount, ListType, Link
<1>10. Erase(l, e) = m
  BY <1>7 DEF Erase, v
<1>11. ASSUME NEW k \in 0 .. n - 1
       PROVE  u.next[At(t, k)] = At(t, k + 1) /\ m.prev[At(t, k + 1)] = At(t, k)
  <2>1. CASE k = 0
    BY <2>1, <1>1, <1>3, <1>4, <1>7, <1>8, <1>9, NodesDiffer DEF f
  <2>2. CASE k \in 1 .. n - 1
    <3>1. /\ k + 1 \in 0 .. n /\ k + 2 \in 0 .. n + 1 /\ k \in 1 .. n /\ k + 1 \in 1 .. n
          /\ At(t, k) = At(s, k + 1) /\ At(t, k + 1) = At(s, k + 2)
      BY <2>2, <1>1, <1>3
    <3>2. At(s, k + 1) # ListHead /\ At(s, k + 2) # f
      BY <2>2, <3>1, <1>1, <1>5 DEF f
    <3>3. l.next[At(s, k + 1)] = At(s, k + 2) /\ l.prev[At(s, k + 2)] = At(s, k + 1)
      BY <3>1, <1>6, <1>1
    <3> QED BY <3>1, <3>2, <3>3, <1>4, <1>5, <1>8, <1>9
  <2> QED BY <1>1, <2>1, <2>2
<1>12. \A j, k \in 1 .. Len(t) : t[j] = t[k] => j = k
  <2> SUFFICES ASSUME NEW j \in 1 .. n - 1, NEW k \in 1 .. n - 1, t[j] = t[k] PROVE j = k
    BY <1>2
  <2>1. s[j + 1] = s[k + 1] /\ j + 1 \in 1 .. n /\ k + 1 \in 1 .. n
    BY <1>1, <1>2
  <2>2. j + 1 = k + 1
    BY <2>1 DEF Holds, Leads, n
  <2> QED BY <2>2
<1>13. Leads(u, t) /\ Holds(m, t)
  <2>1. \A k \in 0 .. Len(t) : m.next[At(t, k)] = At(t, k + 1)
    BY <1>2, <1>8, <1>9, <1>11
  <2> HIDE DEF u, m
  <2> QED BY <1>2, <1>9, <1>11, <1>12, <2>1 DEF Holds, Leads
<1>14. v \in ListType /\ Leads(v, t)
  <2>1. v.next = m.next
    BY <1>9, <1>15
  <2> HIDE DEF m
  <2> QED BY <1>13, <1>15, <2>1 DEF Holds, Leads
<1>16. Erase(l, e) = Uncount(v)
  BY <1>10
<1> QED BY <1>7, <1>8, <1>9, <1>10, <1>13, <1>14, <1>16 DEF e, t, v, u, IsEmpty

-----------------------------------------------------------------------------
(* The scheduler's invariant. *)

\* The threads that are alive and not running stand in the order s, and the
\* queue holds them; while kern_init unlinks the first of them, the queue is
\* what the stores made so far leave of a list.
QHolds(s) ==
    /\ \A j, k \in 1 .. Len(s) : s[j] = s[k] => j = k
    /\ ToSet(s) = Created \ {cur}
    /\ cur = InitProc /\ stage \in {"next", "prev", "len", "switch"} => s # <<>> /\ next = s[1]
    /\ ~Unlinking => Holds(queue, s)
    /\ Unlinking /\ stage = "prev" =>
           \E q \in ListType : Holds(q, s) /\ queue = UnlinkNext(q, next)
    /\ Unlinking /\ stage = "len" =>
           \E q \in ListType : Holds(q, s) /\ queue = UnlinkPrev(UnlinkNext(q, next), next)
    /\ Unlinking /\ stage = "switch" => Holds(queue, Tail(s))
QInv == \E s \in Seq(Workers) : QHolds(s)

\* Before kern_init has switched away no whole tick period goes by, so no tick
\* schedules; afterwards kern_init never runs again.
BootInv == /\ cur = InitProc => mode \in {"off", "on"} /\ ticks <= MaxBootTicks
           /\ cur # InitProc => stage = "gone" /\ cur \in Created

\* A thread is created once, and unless there is no memory for it.
CreateInv == /\ todo \cap Created = {} /\ Workers \ Created \subseteq todo \cup MayFail
             /\ stage # "create" => todo = {}
             /\ pid[InitProc] = 0
TInv == TypeOK /\ QInv /\ BootInv /\ CreateInv

LEMMA AppendSet ==
    ASSUME NEW s \in Seq(Workers), NEW e \in Workers
    PROVE  /\ Append(s, e) \in Seq(Workers) /\ Append(s, e) # <<>>
           /\ ToSet(Append(s, e)) = ToSet(s) \cup {e}
<1> DEFINE t == Append(s, e)
           n == Len(s)
<1>1. /\ t \in Seq(Workers) /\ Len(t) = n + 1 /\ n \in Nat
      /\ \A k \in 1 .. n : t[k] = s[k]
      /\ t[n + 1] = e
  OBVIOUS
<1>2. DOMAIN t = 1 .. n + 1 /\ DOMAIN s = 1 .. n
  OBVIOUS
<1> HIDE DEF t, n
<1>3. \A x : x \in ToSet(t) <=> x \in ToSet(s) \cup {e}
  <2> TAKE x
  <2>1. ASSUME x \in ToSet(t) PROVE x \in ToSet(s) \cup {e}
    <3>1. PICK k \in 1 .. n + 1 : x = t[k]
      BY <2>1, <1>2 DEF ToSet
    <3>2. CASE k = n + 1
      BY <3>1, <3>2, <1>1
    <3>3. CASE k \in 1 .. n
      BY <3>1, <3>3, <1>1, <1>2 DEF ToSet
    <3> QED BY <3>2, <3>3, <1>1
  <2>2. ASSUME x \in ToSet(s) PROVE x \in ToSet(t)
    <3>1. PICK k \in 1 .. n : x = s[k]
      BY <2>2, <1>2 DEF ToSet
    <3>2. k \in 1 .. n + 1 /\ x = t[k]
      BY <3>1, <1>1
    <3> QED BY <3>2, <1>2 DEF ToSet
  <2>3. e \in ToSet(t)
    <3>1. n + 1 \in 1 .. n + 1
      BY <1>1
    <3> QED BY <3>1, <1>1, <1>2 DEF ToSet
  <2> QED BY <2>1, <2>2, <2>3
<1>4. t # <<>>
  BY <1>1
<1> QED BY <1>1, <1>3, <1>4 DEF t

LEMMA TailSet ==
    ASSUME NEW s \in Seq(Workers), s # <<>>,
           \A j, k \in 1 .. Len(s) : s[j] = s[k] => j = k
    PROVE  /\ Tail(s) \in Seq(Workers) /\ s[1] \in Workers /\ s = <<s[1]>> \o Tail(s)
           /\ ToSet(Tail(s)) = ToSet(s) \ {s[1]} /\ s[1] \in ToSet(s)
<1> DEFINE t == Tail(s)
           n == Len(s)
<1>1. /\ t \in Seq(Workers) /\ n \in Nat \ {0} /\ Len(t) = n - 1
      /\ \A k \in 1 .. n - 1 : t[k] = s[k + 1]
  OBVIOUS
<1>2. DOMAIN t = 1 .. n - 1 /\ DOMAIN s = 1 .. n
  OBVIOUS
<1>3. s = <<s[1]>> \o t /\ s[1] \in Workers
  OBVIOUS
<1> HIDE DEF t
<1>4. \A x : x \in ToSet(t) <=> x \in ToSet(s) \ {s[1]}
  <2> TAKE x
  <2>1. ASSUME x \in ToSet(t) PROVE x \in ToSet(s) \ {s[1]}
    <3>1. PICK k \in 1 .. n - 1 : x = t[k]
      BY <2>1, <1>2 DEF ToSet
    <3>2. x = s[k + 1] /\ k + 1 \in 1 .. n /\ 1 \in 1 .. n /\ k + 1 # 1
      BY <3>1, <1>1
    <3> QED BY <3>2, <1>2 DEF ToSet
  <2>2. ASSUME x \in ToSet(s), x # s[1] PROVE x \in ToSet(t)
    <3>1. PICK k \in 1 .. n : x = s[k]
      BY <2>2, <1>2 DEF ToSet
    <3>2. k - 1 \in 1 .. n - 1 /\ x = t[k - 1]
      BY <3>1, <2>2, <1>1
    <3> QED BY <3>2, <1>2 DEF ToSet
  <2> QED BY <2>1, <2>2
<1>5. s[1] \in ToSet(s)
  BY <1>1, <1>2 DEF ToSet
<1> QED BY <1>1, <1>3, <1>4, <1>5 DEF t

\* alloc_pid never fails, and gives a pid that is free while there is one.
LEMMA AllocPidFacts ==
    ASSUME pids \subseteq 0 .. PidMapLen - 1
    PROVE  /\ AllocPid \in 0 .. PidMapLen
           /\ BitmapSet(pids, PidMapLen, AllocPid) \subseteq 0 .. PidMapLen - 1
           /\ pids # 0 .. PidMapLen - 1 => AllocPid \in (0 .. PidMapLen - 1) \ pids
<1>1. PidMapLen \in Nat \ {0} /\ PidMapLen \in 0 .. 8 * PidMapLen - 1
  BY ThreadConstants
<1>2. FirstClear(pids, 0, 8 * PidMapLen, AllocPid)
  BY <1>1, ScanFirst DEF AllocPid
<1>3. PidMapLen \notin pids
  BY <1>1
<1>4. AllocPid \in 0 .. 8 * PidMapLen - 1 /\ AllocPid \notin pids /\ 0 .. AllocPid - 1 \subseteq pids
  BY <1>1, <1>2, <1>3 DEF FirstClear
<1>5. AllocPid \in 0 .. PidMapLen
  <2>1. ~(PidMapLen \in 0 .. AllocPid - 1)
    BY <1>3, <1>4
  <2> QED BY <2>1, <1>1, <1>4
<1>6. pids # 0 .. PidMapLen - 1 => AllocPid # PidMapLen
  BY <1>1, <1>4
<1> QED BY <1>1, <1>4, <1>5, <1>6 DEF BitmapSet

LEMMA TInvInit == Init => TInv
<1> SUFFICES ASSUME Init PROVE TInv
  OBVIOUS
<1>1. Created = {} /\ InitProc \in Thread /\ Workers \subseteq Thread
  BY ThreadConstants DEF Init, Created, Thread
<1>2. TypeOK
  <2>1. pid \in [Thread -> -1 .. PidMapLen] /\ pids \subseteq 0 .. PidMapLen - 1
    BY ThreadConstants DEF Init
  <2>2. queue \in ListType
    BY EmptyHolds DEF Init
  <2> QED BY <1>1, <2>1, <2>2, ThreadConstants DEF Init, TypeOK, ListType
<1>3. <<>> \in Seq(Workers) /\ ToSet(<<>>) = {}
  BY DEF ToSet
<1>4. QHolds(<<>>)
  BY <1>1, <1>3, EmptyHolds DEF QHolds, Init, Unlinking
<1>5. BootInv /\ CreateInv
  BY <1>1, ThreadConstants DEF BootInv, CreateInv, Init
<1> QED BY <1>2, <1>3, <1>4, <1>5 DEF TInv, QInv

-----------------------------------------------------------------------------
(* One lemma per action: the invariant, and the order of the threads. *)

\* What QHolds says at stage s of kern_init's schedule(), and otherwise.
LEMMA QHoldsPlain ==
    ASSUME NEW s \in Seq(Workers), QHolds(s), ~Unlinking
    PROVE  /\ Holds(queue, s) /\ ToSet(s) = Created \ {cur}
           /\ \A j, k \in 1 .. Len(s) : s[j] = s[k] => j = k
BY DEF QHolds, Holds, Leads

LEMMA KernelThreadStep ==
    ASSUME TInv, NEW s \in Seq(Workers), QHolds(s), NEW t \in Workers, KernelThread(t)
    PROVE  /\ TypeOK' /\ BootInv' /\ CreateInv'
           /\ Append(s, t) \in Seq(Workers) /\ QHolds(Append(s, t))'
<1> USE DEF KernelThread
<1>1. cur = InitProc /\ stage = "create" /\ t \in todo /\ t \notin Created
  BY DEF TInv, BootInv, CreateInv
<1>2. ~Unlinking /\ ~Unlinking'
  BY <1>1 DEF Unlinking
<1>3. /\ AllocPid \in 0 .. PidMapLen
      /\ pids' \subseteq 0 .. PidMapLen - 1
  BY AllocPidFacts DEF TInv, TypeOK
<1>4. /\ pid' = [pid EXCEPT ![t] = AllocPid] /\ pid \in [Thread -> -1 .. PidMapLen]
      /\ t \in Thread /\ InitProc \in Thread /\ t # InitProc /\ AllocPid # -1
      /\ AllocPid \in -1 .. PidMapLen
  BY <1>3, ThreadConstants DEF TInv, TypeOK, Thread
<1>5. Created' = Created \cup {t} /\ pid'[InitProc] = pid[InitProc]
  BY <1>4 DEF Created, Thread
<1>6. queue \in ListType /\ t \notin ToSet(s) /\ InitProc \notin Workers
  BY <1>1, <1>2, QHoldsPlain, ThreadConstants DEF TInv, TypeOK, ListType
<1>7. queue' \in ListType /\ Holds(queue', Append(s, t))
  BY <1>2, <1>6, QHoldsPlain, PushBackHolds
<1>8. ToSet(Append(s, t)) = Created' \ {cur'} /\ Append(s, t) \in Seq(Workers)
  BY <1>1, <1>2, <1>5, <1>6, QHoldsPlain, AppendSet
<1>9. TypeOK'
  BY <1>3, <1>4, <1>7 DEF TInv, TypeOK, ListType
<1>10. BootInv' /\ CreateInv'
  BY <1>1, <1>5 DEF TInv, BootInv, CreateInv
<1> DEFINE a == Append(s, t)
<1>11. QHolds(a)'
  <2>1. \A j, k \in 1 .. Len(a) : a[j] = a[k] => j = k
    BY <1>7 DEF Holds, Leads
  <2> HIDE DEF a
  <2>2. Holds(queue', a) /\ ToSet(a) = Created' \ {cur'} /\ stage' = "create"
    BY <1>1, <1>7, <1>8 DEF a
  <2> QED BY <1>2, <2>1, <2>2 DEF QHolds
<1> QED BY <1>8, <1>9, <1>10, <1>11

\* The actions that touch neither the queue nor who is alive.
LEMMA QuietStep ==
    ASSUME TInv, NEW s \in Seq(Workers), QHolds(s), UNCHANGED <<queue, pid, cur, next>>,
           \/ UNCHANGED stage
           \/ ~Unlinking /\ ~Unlinking' /\ stage' # "next"
    PROVE  QHolds(s)'
<1>1. Created' = Created
  BY DEF Created
<1> QED BY <1>1 DEF QHolds, Unlinking

LEMMA KernelThreadFailsStep ==
    ASSUME TInv, NEW s \in Seq(Workers), QHolds(s), NEW t \in Workers, KernelThreadFails(t)
    PROVE  TypeOK' /\ BootInv' /\ CreateInv' /\ QHolds(s)'
<1> USE DEF KernelThreadFails
<1>1. Created' = Created /\ QHolds(s)'
  BY QuietStep DEF Created
<1>2. TypeOK' /\ BootInv' /\ CreateInv'
  BY <1>1 DEF TInv, TypeOK, BootInv, CreateInv
<1> QED BY <1>1, <1>2

LEMMA IntrEnableStep ==
    ASSUME TInv, NEW s \in Seq(Workers), QHolds(s), IntrEnable
    PROVE  TypeOK' /\ BootInv' /\ CreateInv' /\ QHolds(s)'
<1> USE DEF IntrEnable, boot
<1>1. Created' = Created /\ QHolds(s)'
  BY QuietStep DEF Created, Unlinking
<1>2. TypeOK' /\ BootInv' /\ CreateInv'
  BY <1>1, ThreadConstants DEF TInv, TypeOK, BootInv, CreateInv
<1> QED BY <1>1, <1>2

LEMMA BootPickStep ==
    ASSUME TInv, NEW s \in Seq(Workers), QHolds(s), BootPick
    PROVE  TypeOK' /\ BootInv' /\ CreateInv' /\ QHolds(s)'
<1> USE DEF BootPick, boot, Booting
<1>1. ~Unlinking /\ ~Unlinking' /\ Created' = Created
  BY DEF Unlinking, Created
<1>2. queue \in ListType /\ Holds(queue, s)
  BY <1>1, QHoldsPlain DEF TInv, TypeOK, ListType
<1>3. CASE s = <<>>
  <2>1. IsEmpty(queue)
    BY <1>2, <1>3 DEF IsEmpty, Holds, Leads, At
  <2>2. QHolds(s)'
    BY <2>1, <1>1, QuietStep, <1>2 DEF QHolds
  <2>3. next' \in Node \cup {NULL}
    BY <1>2, NodesDiffer DEF ListType, Link
  <2> QED BY <2>1, <2>2, <2>3, <1>1 DEF TInv, TypeOK, BootInv, CreateInv
<1>4. CASE s # <<>>
  <2>1. ~IsEmpty(queue) /\ next' = s[1] /\ s[1] \in Workers
    BY <1>2, <1>4, EraseHolds
  <2>2. QHolds(s)'
    BY <2>1, <1>1, <1>2, <1>4 DEF QHolds
  <2> QED BY <2>1, <2>2, <1>1, NodesDiffer DEF TInv, TypeOK, BootInv, CreateInv
<1> QED BY <1>3, <1>4

LEMMA BootUnlinkNextStep ==
    ASSUME TInv, NEW s \in Seq(Workers), QHolds(s), BootUnlinkNext
    PROVE  TypeOK' /\ BootInv' /\ CreateInv' /\ QHolds(s)'
<1> USE DEF BootUnlinkNext, boot, Booting
<1>1. ~Unlinking /\ Unlinking' /\ Created' = Created
  BY DEF Unlinking, Created
<1>2. queue \in ListType /\ Holds(queue, s) /\ s # <<>> /\ next = s[1]
  BY <1>1, QHoldsPlain DEF TInv, TypeOK, ListType, QHolds
<1>3. queue' \in ListType
  BY <1>2, EraseHolds
<1>4. QHolds(s)'
  BY <1>1, <1>2 DEF QHolds
<1> QED BY <1>1, <1>3, <1>4 DEF TInv, TypeOK, BootInv, CreateInv, ListType

LEMMA BootUnlinkPrevStep ==
    ASSUME TInv, NEW s \in Seq(Workers), QHolds(s), BootUnlinkPrev
    PROVE  TypeOK' /\ BootInv' /\ CreateInv' /\ QHolds(s)'
<1> USE DEF BootUnlinkPrev, boot, Booting
<1>1. Unlinking /\ Unlinking' /\ Created' = Created
  BY DEF Unlinking, Created
<1>2. PICK q \in ListType : Holds(q, s) /\ queue = UnlinkNext(q, next)
  BY <1>1 DEF QHolds
<1>3. s # <<>> /\ next = s[1]
  BY DEF QHolds
<1>4. queue' \in ListType /\ queue' = UnlinkPrev(UnlinkNext(q, next), next)
  BY <1>2, <1>3, EraseHolds
<1>5. QHolds(s)'
  BY <1>1, <1>2, <1>3, <1>4 DEF QHolds
<1> QED BY <1>1, <1>4, <1>5 DEF TInv, TypeOK, BootInv, CreateInv, ListType

LEMMA BootUncountStep ==
    ASSUME TInv, NEW s \in Seq(Workers), QHolds(s), BootUncount
    PROVE  TypeOK' /\ BootInv' /\ CreateInv' /\ QHolds(s)'
<1> USE DEF BootUncount, boot, Booting
<1>1. Unlinking /\ Unlinking' /\ Created' = Created
  BY DEF Unlinking, Created
<1>2. PICK q \in ListType : /\ Holds(q, s)
                           /\ queue = UnlinkPrev(UnlinkNext(q, next), next)
  BY <1>1 DEF QHolds
<1>3. s # <<>> /\ next = s[1]
  BY DEF QHolds
<1>4. queue' \in ListType /\ Holds(queue', Tail(s))
  BY <1>2, <1>3, EraseHolds
<1>5. QHolds(s)'
  BY <1>1, <1>3, <1>4 DEF QHolds
<1> QED BY <1>1, <1>4, <1>5 DEF TInv, TypeOK, BootInv, CreateInv, ListType

LEMMA BootSwitchStep ==
    ASSUME TInv, NEW s \in Seq(Workers), QHolds(s), BootSwitch
    PROVE  /\ TypeOK' /\ BootInv' /\ CreateInv'
           /\ s # <<>> /\ cur' = s[1] /\ Tail(s) \in Seq(Workers) /\ QHolds(Tail(s))'
<1> USE DEF BootSwitch, boot, Booting
<1>1. Unlinking /\ ~Unlinking' /\ Created' = Created
  BY DEF Unlinking, Created
<1>2. s # <<>> /\ cur' = s[1]
  BY DEF QHolds
<1>3. Holds(queue, Tail(s)) /\ ToSet(s) = Created /\ InitProc \notin Workers
  BY <1>1, ThreadConstants DEF QHolds, Created
<1>4. \A j, k \in 1 .. Len(s) : s[j] = s[k] => j = k
  BY DEF QHolds
<1>5. /\ Tail(s) \in Seq(Workers) /\ s[1] \in Created /\ s[1] \in Workers
      /\ ToSet(Tail(s)) = Created \ {s[1]}
  BY <1>2, <1>3, <1>4, TailSet
<1>6. QHolds(Tail(s))'
  BY <1>1, <1>2, <1>3, <1>5 DEF QHolds
<1>7. cur' \in Thread /\ cur' \in Created' /\ esp0' \in Workers
  BY <1>1, <1>2, <1>5 DEF Thread
<1> QED BY <1>1, <1>2, <1>5, <1>6, <1>7, <1>3 DEF TInv, TypeOK, BootInv, CreateInv

LEMMA TickStep ==
    ASSUME MaxBootTicks < TickNum, TInv, NEW s \in Seq(Workers), QHolds(s), Tick
    PROVE  TypeOK' /\ BootInv' /\ CreateInv' /\ QHolds(s)'
<1> USE DEF Tick, boot
<1>1. Created' = Created /\ QHolds(s)'
  BY QuietStep DEF Created
<1>2. ticks \in 0 .. TickNum - 1 /\ TickNum \in Nat \ {0} /\ MaxBootTicks \in Nat
  BY ThreadConstants DEF TInv, TypeOK
<1>3. ticks' \in 0 .. TickNum - 1
  BY <1>2
<1>4. cur = InitProc => ticks' <= MaxBootTicks /\ mode' = "on"
  <2> SUFFICES ASSUME cur = InitProc PROVE ticks' <= MaxBootTicks /\ mode' = "on"
    OBVIOUS
  <2>1. ticks + 1 \in 1 .. TickNum - 1 /\ ticks + 1 <= MaxBootTicks
    BY <1>2
  <2>2. ticks' = ticks + 1
    BY <1>2, <2>1
  <2> QED BY <2>1, <2>2
<1> QED BY <1>1, <1>3, <1>4 DEF TInv, TypeOK, BootInv, CreateInv

\* The thread whose turn is over goes to the end, the first comes to its turn.
LEMMA ScheduleStep ==
    ASSUME TInv, NEW s \in Seq(Workers), QHolds(s), Schedule
    PROVE  /\ TypeOK' /\ BootInv' /\ CreateInv' /\ stage' = stage
           /\ cur \in Workers /\ cur' \in Workers
           /\ \E t \in Seq(Workers) : <<cur'>> \o t = Append(s, cur) /\ QHolds(t)'
<1> USE DEF Schedule, boot
<1>1. cur # InitProc /\ cur \in Created /\ cur \in Workers /\ stage = "gone"
  BY DEF TInv, BootInv, Created
<1>2. ~Unlinking /\ Created' = Created /\ InitProc \notin Workers /\ Created \subseteq Workers
  BY <1>1, ThreadConstants DEF Unlinking, Created
<1>3. queue \in ListType /\ Holds(queue, s) /\ ToSet(s) = Created \ {cur}
  BY <1>2, QHoldsPlain DEF TInv, TypeOK, ListType
<1>4. Queued \in ListType /\ Holds(Queued, Append(s, cur))
  BY <1>1, <1>3, PushBackHolds DEF Queued
<1>5. PICK a \in Seq(Workers) : a = Append(s, cur)
  BY <1>1, AppendSet
<1>6. a # <<>> /\ ToSet(a) = Created
  <2>1. a # <<>> /\ ToSet(a) = ToSet(s) \cup {cur}
    BY <1>1, <1>5, AppendSet
  <2> QED BY <2>1, <1>1, <1>3
<1>7. \A j, k \in 1 .. Len(a) : a[j] = a[k] => j = k
  BY <1>4, <1>5 DEF Holds, Leads
<1>8. /\ Queued.next[ListHead] = a[1] /\ ~IsEmpty(Queued)
      /\ Erase(Queued, a[1]) \in ListType /\ Holds(Erase(Queued, a[1]), Tail(a))
  BY <1>4, <1>5, <1>6, EraseHolds
<1>9. queue' = Erase(Queued, a[1]) /\ cur' = a[1] /\ esp0' = a[1] /\ stage' = stage
  BY <1>8 DEF First, PopFront
<1>10. /\ Tail(a) \in Seq(Workers) /\ a[1] \in Workers /\ a[1] \in Created
      /\ ToSet(Tail(a)) = Created \ {a[1]} /\ a = <<a[1]>> \o Tail(a)
  BY <1>6, <1>7, TailSet
<1> PICK b \in Seq(Workers) : b = Tail(a)
  BY <1>10
<1>11. \A j, k \in 1 .. Len(b) : b[j] = b[k] => j = k
  BY <1>8 DEF Holds, Leads
<1>12. cur' # InitProc /\ ~Unlinking'
  BY <1>2, <1>9, <1>10 DEF Unlinking
<1>13. Holds(queue', b) /\ ToSet(b) = Created' \ {cur'}
  BY <1>2, <1>8, <1>9, <1>10
<1>14. QHolds(b)'
  BY <1>11, <1>12, <1>13 DEF QHolds
<1>15. TypeOK'
  BY <1>8, <1>9, <1>10, <1>1 DEF TInv, TypeOK, ListType, Thread
<1>16. BootInv' /\ CreateInv'
  BY <1>1, <1>2, <1>9, <1>10 DEF TInv, BootInv, CreateInv
<1> QED BY <1>1, <1>5, <1>9, <1>10, <1>14, <1>15, <1>16

LEMMA ReturnStep ==
    ASSUME TInv, NEW s \in Seq(Workers), QHolds(s), Return
    PROVE  TypeOK' /\ BootInv' /\ CreateInv' /\ QHolds(s)'
<1> USE DEF Return, boot
<1>1. Created' = Created /\ QHolds(s)'
  BY QuietStep DEF Created
<1> QED BY <1>1 DEF TInv, TypeOK, BootInv, CreateInv

\* Interrupts may be switched off at any time.
LEMMA GateStep ==
    ASSUME TInv, UNCHANGED <<queue, boot, stage, next, cur, ticks, esp0>>,
           mode' \in {mode, "off"}
    PROVE  TInv'
<1> USE DEF boot
<1>1. PICK s \in Seq(Workers) : QHolds(s)
  BY DEF TInv, QInv
<1>2. Created' = Created /\ QHolds(s)'
  BY <1>1, QuietStep DEF Created
<1>3. QInv'
  BY <1>2 DEF QInv
<1> QED BY <1>2, <1>3 DEF TInv, TypeOK, BootInv, CreateInv

LEMMA TInvStep ==
    ASSUME MaxBootTicks < TickNum, TInv, [Next]_vars
    PROVE  TInv'
<1>1. PICK s \in Seq(Workers) : QHolds(s)
  BY DEF TInv, QInv
<1>2. ASSUME NEW t \in Workers, KernelThread(t) PROVE TInv'
  <2>1. TypeOK' /\ BootInv' /\ CreateInv' /\ Append(s, t) \in Seq(Workers) /\ QHolds(Append(s, t))'
    BY <1>1, <1>2, KernelThreadStep
  <2> QED BY <2>1 DEF TInv, QInv
<1>3. ASSUME NEW t \in Workers, KernelThreadFails(t) PROVE TInv'
  <2>1. TypeOK' /\ BootInv' /\ CreateInv' /\ QHolds(s)'
    BY <1>1, <1>3, KernelThreadFailsStep
  <2> QED BY <2>1 DEF TInv, QInv
<1>4. CASE IntrEnable \/ BootPick \/ BootUnlinkNext \/ BootUnlinkPrev \/ BootUncount \/ Tick \/ Return
  <2>1. TypeOK' /\ BootInv' /\ CreateInv' /\ QHolds(s)'
    BY <1>1, <1>4, IntrEnableStep, BootPickStep, BootUnlinkNextStep, BootUnlinkPrevStep,
       BootUncountStep, TickStep, ReturnStep
  <2> QED BY <2>1 DEF TInv, QInv
<1>5. CASE BootSwitch
  <2>1. TypeOK' /\ BootInv' /\ CreateInv' /\ Tail(s) \in Seq(Workers) /\ QHolds(Tail(s))'
    BY <1>1, <1>5, BootSwitchStep
  <2> QED BY <2>1 DEF TInv, QInv
<1>6. CASE Schedule
  <2>1. TypeOK' /\ BootInv' /\ CreateInv' /\ \E t \in Seq(Workers) : QHolds(t)'
    BY <1>1, <1>6, ScheduleStep
  <2> QED BY <2>1 DEF TInv, QInv
<1>7. CASE UNCHANGED vars
  <2>1. UNCHANGED <<queue, boot, stage, next, cur, ticks, esp0>> /\ mode' \in {mode, "off"}
    BY <1>7 DEF vars, boot
  <2> QED BY <2>1, GateStep
<1> QED BY <1>2, <1>3, <1>4, <1>5, <1>6, <1>7 DEF Next, BootStep, Handle

LEMMA TInvCorrect ==
    ASSUME MaxBootTicks < TickNum
    PROVE  Spec => []TInv
<1>1. Init => TInv
  BY TInvInit
<1>2. TInv /\ [Next]_vars => TInv'
  BY TInvStep
<1> QED BY <1>1, <1>2, PTL DEF Spec

-----------------------------------------------------------------------------
(* The queue. *)

\* A sequence without repetitions is no longer than there are elements.
LEMMA InOrders ==
    ASSUME NEW l, NEW s \in Seq(Workers), Leads(l, s)
    PROVE  s \in Orders
<1> DEFINE n == Len(s)
<1>1. n \in Nat /\ s \in [1 .. n -> Workers]
  OBVIOUS
<1>2. IsFiniteSet(Workers) /\ Cardinality(Workers) \in Nat
  BY ThreadConstants, FS_CardinalityType
<1>3. IsFiniteSet(1 .. n) /\ Cardinality(1 .. n) = n
  BY <1>1, FS_Interval
<1>4. n <= Cardinality(Workers)
  <2> SUFFICES ASSUME Cardinality(Workers) < Cardinality(1 .. n) PROVE FALSE
    BY <1>1, <1>2, <1>3
  <2>1. \E x, y \in 1 .. n : x # y /\ s[x] = s[y]
    BY <1>1, <1>2, <1>3, FS_PigeonHole
  <2> QED BY <2>1 DEF Leads
<1> QED BY <1>1, <1>2, <1>4 DEF Orders

\* Going forward, a list has one content only.
LEMMA LeadsOnce ==
    ASSUME NEW l, NEW s \in Seq(Workers), NEW t \in Seq(Workers), Leads(l, s), Leads(l, t)
    PROVE  s = t
<1> DEFINE Agree == {k \in 0 .. Len(s) + 1 : k <= Len(t) + 1 /\ At(s, k) = At(t, k)}
<1>1. Len(s) \in Nat /\ Len(t) \in Nat
  OBVIOUS
<1>2. 0 \in Agree
  BY <1>1, AtFacts
<1>3. \A k \in 0 .. Len(s) : At(s, k) # ListTail
  BY AtFacts, NodesDiffer DEF At
<1>4. \A k \in 0 .. Len(s) : k \in Agree => k + 1 \in Agree
  <2> SUFFICES ASSUME NEW k \in 0 .. Len(s), k \in Agree PROVE k + 1 \in Agree
    OBVIOUS
  <2>1. k <= Len(t) + 1 /\ At(s, k) = At(t, k) /\ At(t, k) # ListTail
    BY <1>3
  <2>2. k \in 0 .. Len(t)
    BY <2>1, <1>1, AtFacts
  <2>3. At(s, k + 1) = At(t, k + 1)
    BY <2>1, <2>2 DEF Leads
  <2> QED BY <1>1, <2>2, <2>3
<1>5. \A k \in 0 .. Len(s) + 1 : k \in Agree
  <2> HIDE DEF Agree
  <2>1. 0 \in Nat /\ Len(s) + 1 \in Nat /\ (Len(s) + 1) - 1 = Len(s)
    BY <1>1
  <2> QED BY <1>2, <1>4, <2>1, IntervalInduction
<1>6. Len(s) = Len(t)
  <2>1. Len(s) + 1 \in Agree
    BY <1>1, <1>5
  <2>2. At(t, Len(s) + 1) = ListTail /\ Len(s) + 1 <= Len(t) + 1
    BY <2>1, AtFacts
  <2>3. \A k \in 0 .. Len(t) : At(t, k) # ListTail
    BY AtFacts, NodesDiffer DEF At
  <2> QED BY <1>1, <2>2, <2>3
<1>7. \A k \in 1 .. Len(s) : s[k] = t[k]
  <2> TAKE k \in 1 .. Len(s)
  <2>1. k \in 0 .. Len(s) + 1
    BY <1>1
  <2>2. At(s, k) = At(t, k)
    BY <1>5, <2>1
  <2> QED BY <1>6, <2>2, AtFacts
<1> QED BY <1>6, <1>7, SeqEqual

LEMMA ContentsIs ==
    ASSUME NEW l, NEW s \in Seq(Workers), Leads(l, s)
    PROVE  Contents(l) = s
<1>1. s \in Orders
  BY InOrders
<1>2. Contents(l) \in Orders /\ Leads(l, Contents(l))
  BY <1>1 DEF Contents
<1>3. Contents(l) \in Seq(Workers)
  BY <1>2 DEF Orders
<1> QED BY <1>2, <1>3, LeadsOnce

\* Whatever happens between two ticks, the links of all_proc_set agree in both
\* directions and lead through every thread that is alive and not running,
\* once: kern_init's schedule(), with interrupts on, and the ticks' never meet.
THEOREM QueueIntactCorrect ==
    ASSUME MaxBootTicks < TickNum
    PROVE  Spec => []QueueIntact
<1>1. TInv => QueueIntact
  <2> SUFFICES ASSUME TInv, ~Unlinking
               PROVE  \E s \in Orders : Holds(queue, s) /\ ToSet(s) = Created \ {cur}
    BY DEF QueueIntact
  <2>1. PICK s \in Seq(Workers) : QHolds(s)
    BY DEF TInv, QInv
  <2>2. Holds(queue, s) /\ ToSet(s) = Created \ {cur}
    BY <2>1, QHoldsPlain
  <2>3. s \in Orders
    BY <2>2, InOrders DEF Holds
  <2> QED BY <2>2, <2>3
<1> QED BY <1>1, TInvCorrect, PTL

\* schedule() always finds a thread to switch to, if memory for the stack of
\* one thread at least can be had.
THEOREM NeverWildCorrect ==
    ASSUME MaxBootTicks < TickNum, Workers \ MayFail # {}
    PROVE  Spec => []NeverWild
<1>1. Init => NeverWild
  BY DEF Init, NeverWild
<1>2. TInv /\ NeverWild /\ [Next]_vars => NeverWild'
  <2> SUFFICES ASSUME TInv, stage # "wild", [Next]_vars PROVE stage' # "wild"
    BY DEF NeverWild
  <2>1. PICK s \in Seq(Workers) : QHolds(s)
    BY DEF TInv, QInv
  <2>2. CASE BootPick
    <3> USE DEF BootPick, Booting
    <3>1. ~Unlinking /\ stage = "call" /\ cur = InitProc /\ InitProc \notin Workers
      BY <2>2, ThreadConstants DEF Unlinking
    <3>2. queue \in ListType /\ Holds(queue, s) /\ ToSet(s) = Created
      BY <2>1, <3>1, QHoldsPlain DEF TInv, TypeOK, ListType, Created
    <3>3. Created # {}
      BY <3>1 DEF TInv, CreateInv
    <3>4. s # <<>>
      BY <3>2, <3>3 DEF ToSet
    <3>5. ~IsEmpty(queue)
      BY <3>2, <3>4, EraseHolds
    <3> QED BY <2>2, <3>5
  <2>3. CASE Schedule
    BY <2>1, <2>3, ScheduleStep
  <2>4. CASE BootUnlinkNext \/ BootUnlinkPrev \/ BootUncount \/ BootSwitch
    BY <2>4 DEF BootUnlinkNext, BootUnlinkPrev, BootUncount, BootSwitch
  <2>5. CASE \E t \in Workers : KernelThread(t) \/ KernelThreadFails(t)
    BY <2>5 DEF KernelThread, KernelThreadFails
  <2>6. CASE IntrEnable \/ Tick \/ Return \/ UNCHANGED vars
    BY <2>6 DEF IntrEnable, Tick, Return, vars
  <2> QED BY <2>2, <2>3, <2>4, <2>5, <2>6 DEF Next, BootStep, Handle
<1> QED BY <1>1, <1>2, TInvCorrect, PTL DEF Spec

-----------------------------------------------------------------------------
(* Pids. *)

Alive == Created \cup {InitProc}

\* Exactly the pids of living threads are set in the map, and they differ.
PidInv == /\ pids = {pid[t] : t \in Alive}
          /\ PidsDistinct

\* When a thread is created, fewer threads than the map has room for are alive.
LEMMA PidFree ==
    ASSUME Cardinality(Workers) < PidMapLen, TypeOK, PidInv,
           NEW t \in Workers, t \notin Created
    PROVE  pids # 0 .. PidMapLen - 1
<1> SUFFICES ASSUME pids = 0 .. PidMapLen - 1 PROVE FALSE
  OBVIOUS
<1>1. IsFiniteSet(Workers) /\ Cardinality(Workers) \in Nat /\ PidMapLen \in Nat
  BY ThreadConstants, FS_CardinalityType
<1>2. Created \in SUBSET (Workers \ {t})
  BY DEF Created
<1>3. IsFiniteSet(Workers \ {t}) /\ Cardinality(Workers \ {t}) = Cardinality(Workers) - 1
  BY <1>1, FS_RemoveElement
<1>4. /\ IsFiniteSet(Created) /\ Cardinality(Created) <= Cardinality(Workers) - 1
      /\ Cardinality(Created) \in Nat
  BY <1>2, <1>3, FS_Subset, FS_CardinalityType
<1>5. IsFiniteSet(Alive) /\ Cardinality(Alive) \in Nat /\ Cardinality(Alive) < PidMapLen
  <2>1. /\ IsFiniteSet(Created \cup {InitProc})
        /\ Cardinality(Created \cup {InitProc}) =
               IF InitProc \in Created THEN Cardinality(Created) ELSE Cardinality(Created) + 1
    BY <1>4, FS_AddElement
  <2> HIDE DEF Created
  <2> QED BY <1>1, <1>4, <2>1 DEF Alive
<1>6. IsFiniteSet(pids) /\ Cardinality(pids) = PidMapLen
  BY <1>1, FS_Interval, ThreadConstants
<1> DEFINE g == [p \in pids |-> CHOOSE u \in Alive : pid[u] = p]
<1>7. \A p \in pids : g[p] \in Alive /\ pid[g[p]] = p
  BY DEF PidInv
<1>8. g \in [pids -> Alive]
  BY <1>7
<1> HIDE DEF g
<1>9. PICK p, q \in pids : p # q /\ g[p] = g[q]
  BY <1>5, <1>6, <1>8, FS_PigeonHole
<1> QED BY <1>7, <1>9

\* No two threads have the same pid, while there are fewer threads than bytes
\* in the pid map: the scan finds a free bit below its length.
THEOREM PidsDistinctCorrect ==
    ASSUME MaxBootTicks < TickNum, Cardinality(Workers) < PidMapLen
    PROVE  Spec => []PidsDistinct
<1>1. Init => PidInv
  <2> SUFFICES ASSUME Init PROVE PidInv
    OBVIOUS
  <2>1. Alive = {InitProc} /\ pid[InitProc] = 0 /\ pids = {0}
    BY ThreadConstants DEF Init, Alive, Created, Thread
  <2> QED BY <2>1 DEF PidInv, PidsDistinct, Alive
<1>2. TInv /\ PidInv /\ [Next]_vars => PidInv'
  <2> SUFFICES ASSUME TInv, PidInv, [Next]_vars PROVE PidInv'
    OBVIOUS
  <2>1. ASSUME NEW t \in Workers, KernelThread(t) PROVE PidInv'
    <3> USE <2>1 DEF KernelThread
    <3>1. t \notin Created /\ t # InitProc /\ t \in Thread /\ Created \subseteq Thread
          /\ InitProc \in Thread
      BY ThreadConstants DEF TInv, CreateInv, Thread, Created
    <3>2. pids # 0 .. PidMapLen - 1
      BY <3>1, PidFree DEF TInv
    <3>3. AllocPid \in 0 .. PidMapLen - 1 /\ AllocPid \notin pids
      BY <3>2, AllocPidFacts DEF TInv, TypeOK
    <3> DEFINE a == AllocPid
    <3>4. /\ pid' = [pid EXCEPT ![t] = a] /\ pids' = pids \cup {a} /\ a # -1
          /\ pid \in [Thread -> -1 .. PidMapLen]
      BY <3>3, ThreadConstants DEF BitmapSet, TInv, TypeOK
    <3> HIDE DEF a
    <3>5. Created' = Created \cup {t}
      BY <3>1, <3>4, ThreadConstants DEF Created, Thread
    <3>6. /\ Alive' = Alive \cup {t} /\ t \notin Alive /\ Alive \subseteq Thread
          /\ pid'[t] = a /\ \A u \in Alive : pid'[u] = pid[u]
      BY <3>1, <3>4, <3>5 DEF Alive
    <3>7. pids = {pid[u] : u \in Alive} /\ \A u, v \in Alive : pid[u] = pid[v] => u = v
      BY DEF PidInv, PidsDistinct, Alive
    <3>8. a \notin pids
      BY <3>3 DEF a
    <3>9. pids' = {pid'[u] : u \in Alive'}
      BY <3>4, <3>6, <3>7
    <3>10. \A u, v \in Alive' : pid'[u] = pid'[v] => u = v
      BY <3>6, <3>7, <3>8
    <3> QED BY <3>9, <3>10 DEF PidInv, PidsDistinct, Alive
  <2>2. CASE UNCHANGED <<pids, pid>>
    BY <2>2 DEF PidInv, PidsDistinct, Alive, Created
  <2>3. CASE BootStep
    BY <2>2, <2>3 DEF BootStep, BootPick, BootUnlinkNext, BootUnlinkPrev, BootUncount,
                      BootSwitch, boot
  <2>4. CASE Handle
    BY <2>2, <2>4 DEF Handle, Schedule, Return, boot
  <2> QED BY <2>1, <2>2, <2>3, <2>4 DEF Next, KernelThreadFails, IntrEnable, Tick, vars, boot
<1>3. PidInv => PidsDistinct
  BY DEF PidInv
<1> QED BY <1>1, <1>2, <1>3, TInvCorrect, PTL DEF Spec

-----------------------------------------------------------------------------
(* The scheduler implements RoundRobin. *)

\* The order of turns, in terms of the order in which threads wait.
OrderOfTurns ==
    \A s \in Seq(Workers) :
        QHolds(s) => TurnOrder = IF cur # InitProc THEN <<cur>> \o s ELSE s

LEMMA TurnOrderIs == OrderOfTurns
<1> SUFFICES ASSUME NEW s \in Seq(Workers), QHolds(s)
             PROVE  TurnOrder = IF cur # InitProc THEN <<cur>> \o s ELSE s
  BY DEF OrderOfTurns
<1>1. CASE ~Unlinking
  <2>1. Contents(queue) = s
    BY <1>1, QHoldsPlain, ContentsIs DEF Holds
  <2>2. <<>> \o s = s
    OBVIOUS
  <2> QED BY <1>1, <2>1, <2>2 DEF TurnOrder
<1>2. CASE Unlinking
  <2>1. s # <<>> /\ next = s[1] /\ cur = InitProc /\ Tail(s) \in Seq(Workers)
        /\ s = <<next>> \o Tail(s)
    BY <1>2, TailSet DEF QHolds, Unlinking
  <2>2. Leads(queue, Tail(s))
    <3>1. CASE stage = "prev"
      <4>1. PICK q \in ListType : Holds(q, s) /\ queue = UnlinkNext(q, next)
        BY <1>2, <3>1 DEF QHolds
      <4> QED BY <4>1, <2>1, EraseHolds
    <3>2. CASE stage = "switch"
      BY <1>2, <3>2 DEF QHolds, Holds
    <3>3. CASE stage = "len"
      <4>1. PICK q \in ListType : Holds(q, s) /\ queue = UnlinkPrev(UnlinkNext(q, next), next)
        BY <1>2, <3>3 DEF QHolds
      <4> QED BY <4>1, <2>1, EraseHolds
    <3> QED BY <1>2, <3>1, <3>2, <3>3 DEF Unlinking
  <2>3. Contents(queue) = Tail(s)
    BY <2>1, <2>2, ContentsIs
  <2> QED BY <1>2, <2>1, <2>3 DEF TurnOrder
<1> QED BY <1>1, <1>2

\* What the order of turns is before and after a step.
LEMMA TurnOrderStep ==
    ASSUME NEW s \in Seq(Workers), QHolds(s), NEW t \in Seq(Workers), QHolds(t)'
    PROVE  /\ TurnOrder = IF cur # InitProc THEN <<cur>> \o s ELSE s
           /\ TurnOrder' = IF cur' # InitProc THEN <<cur'>> \o t ELSE t
<1>1. OrderOfTurns /\ OrderOfTurns'
  BY TurnOrderIs, PTL
<1> QED BY <1>1 DEF OrderOfTurns

\* Every step of the threads and their interrupts is a thread that joins, the
\* start, one turn that ends, or nothing, to RoundRobin: nobody is left out,
\* overtaken or given two turns.
THEOREM TurnsInOrder ==
    ASSUME MaxBootTicks < TickNum
    PROVE  Spec => Turns!RRSafe
<1>1. Init => Turns!RRInit
  <2> SUFFICES ASSUME Init PROVE Turns!RRInit
    OBVIOUS
  <2>1. QHolds(<<>>) /\ <<>> \in Seq(Workers)
    <3>1. Created = {} /\ ToSet(<<>>) = {}
      BY ThreadConstants DEF Init, Created, Thread, ToSet
    <3> QED BY <3>1, EmptyHolds DEF Init, QHolds, Unlinking
  <2>2. TurnOrder = IF cur # InitProc THEN <<cur>> \o <<>> ELSE <<>>
    BY <2>1, TurnOrderIs DEF OrderOfTurns
  <2> QED BY <2>2 DEF Init, Turns!RRInit
<1>2. TInv /\ [Next]_vars => [Turns!RRNext]_(Turns!rrvars)
  <2> SUFFICES ASSUME TInv, [Next]_vars PROVE [Turns!RRNext]_(Turns!rrvars)
    OBVIOUS
  <2>1. PICK s \in Seq(Workers) : QHolds(s)
    BY DEF TInv, QInv
  <2>2. ASSUME NEW t \in Workers, KernelThread(t) PROVE Turns!Join(t)
    <3>1. Append(s, t) \in Seq(Workers) /\ QHolds(Append(s, t))'
      BY <2>1, <2>2, KernelThreadStep
    <3>2. cur = InitProc /\ cur' = InitProc /\ t \notin Created /\ ~Unlinking
      BY <2>2 DEF KernelThread, TInv, BootInv, CreateInv, Unlinking
    <3>3. TurnOrder = s /\ TurnOrder' = Append(s, t)
      BY <2>1, <3>1, <3>2, TurnOrderStep
    <3>4. \A k \in DOMAIN s : s[k] # t
      BY <2>1, <3>2 DEF QHolds, ToSet
    <3> QED BY <3>2, <3>3, <3>4 DEF Turns!Join
  <2>3. CASE BootSwitch
    <3>1. /\ s # <<>> /\ cur' = s[1] /\ Tail(s) \in Seq(Workers) /\ QHolds(Tail(s))'
          /\ s = <<s[1]>> \o Tail(s) /\ s[1] \in Workers
      BY <2>1, <2>3, BootSwitchStep, TailSet DEF QHolds
    <3>2. cur = InitProc /\ cur' # InitProc
      BY <2>3, <3>1, ThreadConstants DEF BootSwitch, Booting
    <3>3. TurnOrder = s /\ TurnOrder' = s
      BY <2>1, <3>1, <3>2, TurnOrderStep
    <3>4. Turns!Start
      BY <3>1, <3>2, <3>3 DEF Turns!Start
    <3> QED BY <3>4 DEF Turns!RRNext
  <2>4. CASE Schedule
    <3>1. PICK t \in Seq(Workers) : <<cur'>> \o t = Append(s, cur) /\ QHolds(t)'
      BY <2>1, <2>4, ScheduleStep
    <3>2. cur \in Workers /\ cur # InitProc /\ cur' # InitProc
      BY <2>1, <2>4, ScheduleStep, ThreadConstants
    <3>3. TurnOrder = <<cur>> \o s /\ TurnOrder' = Append(s, cur)
      BY <2>1, <3>1, <3>2, TurnOrderStep
    <3>4. Tail(<<cur>> \o s) = s /\ Head(<<cur>> \o s) = cur
      BY <3>2
    <3>5. Turns!Rotate
      BY <3>2, <3>3, <3>4 DEF Turns!Rotate
    <3> QED BY <3>5 DEF Turns!RRNext
  <2>5. CASE /\ UNCHANGED cur /\ QHolds(s)'
    <3>1. TurnOrder' = TurnOrder
      BY <2>1, <2>5, TurnOrderStep
    <3> QED BY <2>5, <3>1 DEF Turns!rrvars
  <2>6. CASE \E t \in Workers : KernelThreadFails(t)
    BY <2>1, <2>5, <2>6, KernelThreadFailsStep DEF KernelThreadFails
  <2>7. CASE IntrEnable \/ BootPick \/ BootUnlinkNext \/ BootUnlinkPrev \/ BootUncount \/ Tick \/ Return
    <3>1. QHolds(s)'
      BY <2>1, <2>7, IntrEnableStep, BootPickStep, BootUnlinkNextStep, BootUnlinkPrevStep,
         BootUncountStep, TickStep, ReturnStep
    <3>2. UNCHANGED cur
      BY <2>7 DEF IntrEnable, BootPick, BootUnlinkNext, BootUnlinkPrev, BootUncount,
                  Tick, Return
    <3> QED BY <3>1, <3>2, <2>5
  <2>8. CASE UNCHANGED vars
    BY <2>1, <2>5, <2>8, QuietStep DEF vars, boot
  <2> QED BY <2>2, <2>3, <2>4, <2>6, <2>7, <2>8 DEF Next, BootStep, Handle, Turns!RRNext
<1> QED BY <1>1, <1>2, TInvCorrect, PTL DEF Spec, Turns!RRSafe


-----------------------------------------------------------------------------
(* Where printing leaves the cursor.                                       *)

\* The size of the screen is a multiple of its width, and not of one row.
LEMMA ScreenFacts ==
    /\ CrtSize \in Nat /\ CrtSize >= 2 * Cols /\ CrtSize % Cols = 0
    /\ CrtSize + Cols < 65536 /\ Cols \in Nat /\ Cols >= 2
<1>1. Rows \in Nat /\ Rows >= 2 /\ Cols \in Nat /\ Cols >= 2 /\ CrtSize + Cols < 65536
  BY KernelConstants
<1>2. CrtSize \in Nat /\ CrtSize >= 2 * Cols
  BY <1>1, SMT DEF CrtSize
<1>3. CrtSize = Cols * Rows
  BY <1>1, SMT DEF CrtSize
<1>4. CrtSize % Cols = 0
  BY <1>1, <1>3, ModMultiple
<1> QED BY <1>1, <1>2, <1>4

\* The beginning of a line: no row is above it, and rounding down keeps it.
LEMMA LineStart ==
    ASSUME NEW p \in Nat
    PROVE  /\ p % Cols \in 0 .. Cols - 1 /\ p - (p % Cols) \in 0 .. p
           /\ (p - (p % Cols)) % Cols = 0
<1> DEFINE q == p \div Cols
           r == p % Cols
<1>1. Cols \in Nat \ {0}
  BY ScreenFacts
<1>2. q \in Nat /\ r \in 0 .. Cols - 1 /\ p = Cols * q + r
  BY <1>1, DivMod
<1> HIDE DEF q, r
<1>3. Cols * q \in Nat /\ (Cols * q) % Cols = 0
  BY <1>1, <1>2, ModMultiple
<1>4. p - r = Cols * q
  BY <1>1, <1>2, <1>3
<1>5. r <= p
  BY <1>1, <1>2, <1>3
<1>6. r \in 0 .. Cols - 1 /\ p - r \in 0 .. p /\ (p - r) % Cols = 0
  BY <1>1, <1>2, <1>3, <1>4, <1>5
<1> QED BY <1>6 DEF r

\* Multiples of a row: the next one is a whole row away, and a row less is one.
LEMMA Multiples ==
    ASSUME NEW p \in Nat, NEW q \in Nat, p % Cols = 0, q % Cols = 0
    PROVE  /\ p < q => p + Cols <= q
           /\ p >= Cols => (p - Cols) % Cols = 0
<1> DEFINE a == p \div Cols
           b == q \div Cols
<1>1. Cols \in Nat /\ Cols >= 2
  BY ScreenFacts
<1>2. a \in Nat /\ b \in Nat /\ p = Cols * a /\ q = Cols * b
  BY <1>1, SMT
<1> HIDE DEF a, b
<1>3. ASSUME p < q PROVE p + Cols <= q
  <2>1. a < b
    <3> SUFFICES ASSUME b <= a PROVE FALSE
      BY <1>2
    <3>1. Cols * b <= Cols * a
      BY <1>1, <1>2, SMT
    <3> QED BY <1>2, <1>3, <3>1
  <2>2. Cols * (a + 1) <= Cols * b /\ Cols * (a + 1) = Cols * a + Cols
    BY <1>1, <1>2, <2>1, SMT
  <2>3. Cols * a \in Nat /\ Cols * b \in Nat
    BY <1>2
  <2> QED BY <1>1, <1>2, <2>2, <2>3
<1>4. ASSUME p >= Cols PROVE (p - Cols) % Cols = 0
  <2>1. a >= 1
    BY <1>1, <1>2, <1>4
  <2>2. p - Cols = Cols * (a - 1) /\ a - 1 \in Nat
    BY <1>1, <1>2, <2>1, SMT
  <2> QED BY <1>1, <2>2, ModMultiple
<1> QED BY <1>3, <1>4

\* On the screen or just behind it, at the beginning of a line that is not the
\* first: where a text that ends in a line feed leaves the cursor.
Settled(p) == p % Cols = 0 /\ Cols <= p /\ p <= CrtSize

\* What a single character does to a cursor at most a row behind the screen.
LEMMA PutcMoves ==
    ASSUME NEW p \in 0 .. CrtSize + Cols
    PROVE  /\ CgaPutc(p, "char") \in 0 .. CrtSize + 1
           /\ CgaPutc(p, "LF") \in 0 .. CrtSize + Cols
           /\ p <= CrtSize + 1 => /\ CgaPutc(p, "BS") \in 0 .. CrtSize + 1
                                  /\ CgaPutc(p, "CR") \in 0 .. CrtSize + 1
                                  /\ Settled(CgaPutc(p, "LF"))
<1> DEFINE N  == CrtSize
           lf == p + Cols - ((p + Cols) % Cols)
<1>1. /\ N \in Nat /\ N >= 2 * Cols /\ N % Cols = 0 /\ N + Cols < 65536
      /\ Cols \in Nat /\ Cols >= 2
  BY ScreenFacts
<1>2. /\ (p + Cols) % Cols \in 0 .. Cols - 1 /\ lf % Cols = 0
      /\ lf \in 0 .. p + Cols
  <2>1. PICK m \in Nat : m = p + Cols
    BY <1>1
  <2>2. /\ m % Cols \in 0 .. Cols - 1 /\ m - (m % Cols) \in 0 .. m
        /\ (m - (m % Cols)) % Cols = 0
    BY <2>1, LineStart
  <2>3. (p + Cols) % Cols = m % Cols /\ lf = m - (m % Cols)
    BY <1>1, <2>1
  <2> HIDE DEF lf
  <2> QED BY <2>1, <2>2, <2>3
<1> HIDE DEF N, lf
<1>3. lf > p
  BY <1>1, <1>2 DEF lf
<1>4. ASSUME NEW n \in Nat, n < 65536 PROVE Word(n) = n
  BY <1>4, SMT DEF Word
<1>5. CgaPutc(p, "char") = IF p + 1 >= N THEN p + 1 - Cols ELSE p + 1
  BY <1>1, <1>4 DEF CgaPutc, N
<1>6. CgaPutc(p, "BS") = LET m == IF p > 0 THEN p - 1 ELSE p
                         IN  IF m >= N THEN m - Cols ELSE m
  BY <1>1, <1>4 DEF CgaPutc, N
<1>7. lf >= Cols /\ (lf >= Cols => (lf - Cols) % Cols = 0)
  <2>1. 0 % Cols = 0
    BY <1>1, SMT
  <2>2. lf \in Nat /\ 0 < lf /\ 0 + Cols = Cols
    BY <1>1, <1>2, <1>3
  <2>3. 0 < lf => 0 + Cols <= lf
    BY <1>2, <2>1, <2>2, Multiples
  <2>4. lf >= Cols => (lf - Cols) % Cols = 0
    BY <1>2, <2>2, Multiples
  <2> QED BY <1>1, <2>2, <2>3, <2>4
<1> DEFINE new == IF lf >= N THEN lf - Cols ELSE lf
<1>8. new \in Cols .. N + Cols /\ new % Cols = 0
  BY <1>1, <1>2, <1>7 DEF N
<1>9. CgaPutc(p, "LF") = new
  BY <1>1, <1>2, <1>4, <1>8 DEF CgaPutc, N, lf
<1>10. ASSUME p <= N + 1 PROVE new <= N
  <2>1. new <= N + 1
    BY <1>1, <1>2, <1>10
  <2>2. N < new => N + Cols <= new
    BY <1>1, <1>8, Multiples
  <2> QED BY <1>1, <1>8, <2>1, <2>2
<1>11. CgaPutc(p, "LF") \in 0 .. CrtSize + Cols /\ (p <= N + 1 => Settled(CgaPutc(p, "LF")))
  BY <1>1, <1>8, <1>9, <1>10 DEF N, Settled
<1>12. ASSUME p <= N + 1 PROVE CgaPutc(p, "CR") \in 0 .. N + 1
  <2>1. PICK m \in 0 .. p : m = p - (p % Cols)
    BY LineStart
  <2>2. m < 65536 /\ m - Cols < 65536 /\ m \in Nat
    BY <1>1, <1>12, <2>1
  <2>3. CgaPutc(p, "CR") = IF m >= N THEN m - Cols ELSE m
    BY <1>1, <1>4, <2>1, <2>2 DEF CgaPutc, N
  <2> QED BY <1>1, <1>12, <2>1, <2>3
<1> QED BY <1>1, <1>5, <1>6, <1>11, <1>12 DEF N

\* Where whole texts leave the cursor.
LEMMA TextMoves ==
    ASSUME NEW p \in 0 .. CrtSize + Cols
    PROVE  /\ Settled(TickPrinted(p)) /\ TickPrinted(p) \in Nat
           /\ \A q \in DevicePrinted(p) : Settled(q) /\ q \in Nat
           /\ PanicPrinted(p) \subseteq 0 .. CrtSize + Cols
<1>1. CrtSize \in Nat /\ Cols \in Nat /\ Cols >= 2
  BY ScreenFacts
<1>2. PICK a \in 0 .. CrtSize + 1 : a = CgaPutc(p, "char")
  BY PutcMoves
<1>3. a \in 0 .. CrtSize + Cols
  BY <1>1
<1>4. Settled(CgaPutc(a, "LF")) /\ CgaPutc(a, "LF") \in 0 .. CrtSize + Cols
  BY <1>3, PutcMoves
<1>5. ASSUME NEW c \in {"char", "LF", "CR", "BS"}
      PROVE  /\ Settled(CgaPutc(CgaPutc(a, c), "LF"))
             /\ CgaPutc(CgaPutc(a, c), "LF") \in 0 .. CrtSize + Cols
  <2>1. PICK b \in 0 .. CrtSize + 1 : b = CgaPutc(a, c)
    BY <1>1, <1>3, <1>4, <1>5, PutcMoves DEF Settled
  <2>2. b \in 0 .. CrtSize + Cols
    BY <1>1
  <2> QED BY <2>1, <2>2, PutcMoves
<1>6. \A q \in DevicePrinted(p) : Settled(q) /\ q \in Nat
  BY <1>1, <1>2, <1>5 DEF DevicePrinted
<1>7. Settled(TickPrinted(p)) /\ TickPrinted(p) \in Nat
  BY <1>1, <1>2, <1>4 DEF TickPrinted
<1>8. PanicPrinted(p) \subseteq 0 .. CrtSize + Cols
  BY <1>2, <1>4, PutcMoves DEF PanicPrinted
<1> QED BY <1>6, <1>7, <1>8

-----------------------------------------------------------------------------
(* The threads under the kernel.                                           *)

\* The thread of Workers that takes a step of its endless loop, if one does;
\* the threads and what they share are left alone.
LEMMA ThreadFuncQuiet ==
    ASSUME NEW t \in Workers, ThreadFunc(t)
    PROVE  Running(t) /\ UNCHANGED <<vars, panic>>
BY DEF ThreadFunc, Look, LptOut, ComOut, LetterLoad, LetterStore, LineLoad, LineStore,
       ReturnLoad, ColumnLoad, ReturnStore, Check, ScrollLoad, ScrollStore, Putc

\* What the kernel does to the threads is a step of theirs, or at most switches
\* interrupts off.
LEMMA ThreadsStep ==
    ASSUME [KNext]_kvars
    PROVE  [Next]_vars \/ (UNCHANGED threads /\ mode' \in {mode, "off"})
<1>1. ASSUME NEW t \in Workers, ThreadFunc(t) PROVE UNCHANGED vars
  BY <1>1, ThreadFuncQuiet
<1>2. CASE Starting
  BY <1>2 DEF Starting, Next
<1>3. CASE KTick \/ KSchedule \/ KReturn
  BY <1>3 DEF KTick, KSchedule, KReturn, Next, Handle
<1>4. CASE Device \/ Monitor \/ UNCHANGED kvars
  BY <1>4 DEF Device, Monitor, kvars
<1>5. CASE Unexpected \/ PanicPrint
  BY <1>5 DEF Unexpected, PanicPrint, Gate
<1> QED BY <1>1, <1>2, <1>3, <1>4, <1>5 DEF KNext

LEMMA KTInvStep ==
    ASSUME MaxBootTicks < TickNum, TInv, [KNext]_kvars
    PROVE  TInv'
<1>1. CASE [Next]_vars
  BY <1>1, TInvStep
<1>2. CASE UNCHANGED threads /\ mode' \in {mode, "off"}
  BY <1>2, GateStep DEF threads
<1> QED BY <1>1, <1>2, ThreadsStep

-----------------------------------------------------------------------------
(* A panic is final.                                                       *)

\* Interrupts are on only after the threads were created, and off in a panic.
PanicInv == /\ panic \in {"none", "print", "monitor"}
            /\ mode # "off" => stage # "create"
            /\ panic # "none" => mode = "off" /\ stage # "create"

LEMMA PanicInvStep ==
    ASSUME PanicInv, [KNext]_kvars
    PROVE  PanicInv'
<1> USE DEF PanicInv, boot
<1>1. ASSUME NEW t \in Workers, ThreadFunc(t) PROVE PanicInv'
  BY <1>1, ThreadFuncQuiet DEF vars
<1>2. CASE Starting
  BY <1>2 DEF Starting, KernelThread, KernelThreadFails, IntrEnable, BootStep, BootPick,
              BootUnlinkNext, BootUnlinkPrev, BootUncount, BootSwitch, Booting
<1>3. CASE KTick \/ KSchedule \/ KReturn
  BY <1>3 DEF KTick, KSchedule, KReturn, Tick, Schedule, Return
<1>4. CASE Device \/ Monitor \/ UNCHANGED kvars
  BY <1>4 DEF Device, Monitor, kvars, vars
<1>5. CASE Unexpected \/ PanicPrint
  BY <1>5 DEF Unexpected, PanicPrint, Gate, Panics, threads
<1> QED BY <1>1, <1>2, <1>3, <1>4, <1>5 DEF KNext

\* Whatever runs when a panic begins is never switched away from, nothing but
\* the panic runs from then on, and it gets to the monitor at once when it
\* meets another.
THEOREM PanicFinalCorrect == KSpec => PanicFinal
<1>1. KInit => PanicInv
  BY DEF KInit, Init, PanicInv
<1>2. PanicInv /\ [KNext]_kvars => PanicInv'
  BY PanicInvStep
<1>3. PanicInv /\ [KNext]_kvars =>
          [panic # "none" => panic' = "monitor" /\ UNCHANGED <<threads, putc>>]_kvars
  <2> SUFFICES ASSUME PanicInv, KNext, panic # "none"
               PROVE  panic' = "monitor" /\ UNCHANGED <<threads, putc>>
    OBVIOUS
  <2>1. ~ \E t \in Workers : ThreadFunc(t)
    BY ThreadFuncQuiet DEF Running
  <2>2. ~ Starting
    BY DEF Starting, KernelThread, KernelThreadFails, IntrEnable, BootStep, BootPick,
           BootUnlinkNext, BootUnlinkPrev, BootUncount, BootSwitch, Booting, PanicInv
  <2>3. ~ (KTick \/ KSchedule \/ KReturn \/ Device)
    BY DEF KTick, Tick, KSchedule, KReturn, Device, PanicInv
  <2>4. CASE Unexpected \/ PanicPrint
    BY <2>4 DEF Unexpected, PanicPrint, Panics
  <2>5. CASE Monitor
    BY <2>5 DEF Monitor, vars, threads, boot
  <2> QED BY <2>1, <2>2, <2>3, <2>4, <2>5 DEF KNext
<1> QED BY <1>1, <1>2, <1>3, PTL DEF KSpec, PanicFinal

-----------------------------------------------------------------------------
(* The cursor.                                                             *)

\* Where in cons_putc a thread is.
Place == {"lpt", "com", "cga", "letter", "line", "return", "column", "back", "check",
          "scroll", "up"}

\* The registers of all threads, in cga_putc or interrupted in it.
RegInv == \A t \in Workers :
    /\ putc[t].r \in Nat
    /\ putc[t].at \in {"letter", "line"} => putc[t].r <= CrtSize
    /\ putc[t].at \in {"column", "back"} => putc[t].r <= CrtSize + Cols
    /\ putc[t].at = "up" => Cols <= putc[t].r /\ putc[t].r <= CrtSize + Cols

\* What crt_pos is to the thread that runs: what it left there itself, or where
\* an interrupt has left it.
Fits(p, q) == /\ q.at \in {"lpt", "com", "cga", "letter", "line"} => p <= CrtSize
              /\ q.at = "column" => p = q.r \/ Settled(p)
              /\ q.at = "scroll" => p >= CrtSize \/ Settled(p)

\* Unless there is a panic; the thread that boots prints nothing, so the first
\* thread finds the cursor on the screen.
CursorInv == /\ crt_pos \in 0 .. CrtSize + Cols
             /\ putc \in [Workers -> [at : Place, r : Nat]]
             /\ RegInv
             /\ panic = "none" => /\ cur \in Workers => Fits(crt_pos, putc[cur])
                                  /\ cur = InitProc => crt_pos <= CrtSize
             /\ cur = InitProc => \A t \in Workers : putc[t].at = "lpt"

\* A thread's own step.
LEMMA ThreadCursorStep ==
    ASSUME TInv, CursorInv, NEW t \in Workers, ThreadFunc(t)
    PROVE  CursorInv'
<1>1. /\ CrtSize \in Nat /\ CrtSize >= 2 * Cols /\ CrtSize + Cols < 65536
      /\ Cols \in Nat /\ Cols >= 2
  BY ScreenFacts
<1>2. ASSUME NEW n \in Nat, n < 65536 PROVE Word(n) = n
  BY <1>2, SMT DEF Word
<1>3. /\ cur = t /\ panic = "none" /\ cur' = t /\ panic' = "none" /\ cur # InitProc
      /\ cur' \in Workers /\ cur' # InitProc
  BY ThreadFuncQuiet, ThreadConstants DEF Running, vars
\* What is left to show of a step.
<1>4. ASSUME NEW from \in Place, NEW to \in Place, NEW r \in Nat, Putc(t, from, to, r),
             crt_pos' \in 0 .. CrtSize + Cols,
             to \in {"letter", "line"} => r <= CrtSize,
             to \in {"column", "back"} => r <= CrtSize + Cols,
             to = "up" => Cols <= r /\ r <= CrtSize + Cols,
             to \in {"lpt", "com", "cga", "letter", "line"} => crt_pos' <= CrtSize,
             to = "column" => crt_pos' = r \/ Settled(crt_pos'),
             to = "scroll" => crt_pos' >= CrtSize \/ Settled(crt_pos')
      PROVE  CursorInv'
  <2>1. putc' = [putc EXCEPT ![t] = [at |-> to, r |-> r]]
    BY <1>4 DEF Putc
  <2>2. putc' \in [Workers -> [at : Place, r : Nat]] /\ putc'[t] = [at |-> to, r |-> r]
        /\ \A u \in Workers : u # t => putc'[u] = putc[u]
    BY <2>1 DEF CursorInv
  <2>3. RegInv'
    BY <1>4, <2>2 DEF CursorInv, RegInv
  <2>4. Fits(crt_pos', putc'[cur'])
    BY <1>3, <1>4, <2>2 DEF Fits
  <2> QED BY <1>3, <1>4, <2>2, <2>3, <2>4 DEF CursorInv
<1>5. /\ crt_pos \in 0 .. CrtSize + Cols /\ putc[t].r \in Nat /\ Fits(crt_pos, putc[t])
      /\ putc[t].at \in {"letter", "line"} => putc[t].r <= CrtSize
      /\ putc[t].at \in {"column", "back"} => putc[t].r <= CrtSize + Cols
      /\ putc[t].at = "up" => Cols <= putc[t].r /\ putc[t].r <= CrtSize + Cols
  BY <1>3 DEF CursorInv, RegInv
<1>6. CASE \E port \in {"lpt", "com"} : Look(t, port)
  <2>1. PICK port \in {"lpt", "com"} : Look(t, port)
    BY <1>6
  <2>2. putc[t].r + 1 \in Nat /\ putc[t].at = port /\ crt_pos' = crt_pos
        /\ Putc(t, port, port, putc[t].r + 1)
    BY <2>1, <1>5 DEF Look, Putc
  <2> QED BY <2>2, <1>4, <1>5 DEF Fits, Place
<1>7. CASE LptOut(t)
  <2>1. crt_pos' = crt_pos /\ putc[t].at = "lpt" /\ Putc(t, "lpt", "cga", 0)
    BY <1>7 DEF LptOut, Putc
  <2> QED BY <2>1, <1>4, <1>5 DEF Fits, Place
<1>8. CASE ComOut(t)
  <2>1. crt_pos' = crt_pos /\ putc[t].at = "com" /\ Putc(t, "com", "lpt", 0)
    BY <1>8 DEF ComOut, Putc
  <2> QED BY <2>1, <1>4, <1>5 DEF Fits, Place
<1>9. CASE LetterLoad(t)
  <2>1. crt_pos' = crt_pos /\ putc[t].at = "cga" /\ Putc(t, "cga", "letter", crt_pos)
    BY <1>9 DEF LetterLoad, Putc
  <2> QED BY <2>1, <1>1, <1>4, <1>5 DEF Fits, Place
<1>10. CASE LetterStore(t)
  <2>1. putc[t].at = "letter" /\ Putc(t, "letter", "check", 0)
        /\ crt_pos' = Word(putc[t].r + 1)
    BY <1>10 DEF LetterStore, Putc
  <2>2. putc[t].r + 1 \in 0 .. CrtSize + Cols /\ putc[t].r + 1 < 65536
    BY <2>1, <1>1, <1>5
  <2> QED BY <2>1, <2>2, <1>2, <1>4 DEF Fits, Place
<1>11. CASE LineLoad(t)
  <2>1. crt_pos' = crt_pos /\ putc[t].at = "cga" /\ Putc(t, "cga", "line", crt_pos)
    BY <1>11 DEF LineLoad, Putc
  <2> QED BY <2>1, <1>1, <1>4, <1>5 DEF Fits, Place
<1>12. CASE LineStore(t)
  <2>1. putc[t].at = "line" /\ Putc(t, "line", "return", 0)
        /\ crt_pos' = Word(putc[t].r + Cols)
    BY <1>12 DEF LineStore, Putc
  <2>2. putc[t].r + Cols \in 0 .. CrtSize + Cols /\ putc[t].r + Cols < 65536
    BY <2>1, <1>1, <1>5
  <2> QED BY <2>1, <2>2, <1>2, <1>4 DEF Fits, Place
<1>13. CASE ReturnLoad(t)
  <2>1. crt_pos' = crt_pos /\ Putc(t, "return", "column", crt_pos)
    BY <1>13 DEF ReturnLoad, Putc
  <2> QED BY <2>1, <1>1, <1>4, <1>5 DEF Fits, Place
<1>14. CASE ColumnLoad(t)
  <2>1. PICK v \in {putc[t].r - (crt_pos % Cols), crt_pos - (putc[t].r % Cols)} :
            crt_pos' = crt_pos /\ putc[t].at = "column" /\ Putc(t, "column", "back", Word(v))
    BY <1>14 DEF ColumnLoad, Putc
  <2>2. PICK p \in Nat, r \in Nat :
            p = crt_pos /\ r = putc[t].r /\ p <= CrtSize + Cols /\ r <= CrtSize + Cols
    BY <2>1, <1>1, <1>5
  <2>3. /\ p % Cols \in 0 .. Cols - 1 /\ p - (p % Cols) \in 0 .. p
        /\ r % Cols \in 0 .. Cols - 1 /\ r - (r % Cols) \in 0 .. r
    BY LineStart
  <2>4. p = r \/ (p % Cols = 0 /\ Cols <= p)
    BY <2>1, <2>2, <1>5 DEF Fits, Place, Settled
  <2>5. v \in 0 .. CrtSize + Cols /\ v < 65536
    BY <2>1, <2>2, <2>3, <2>4, <1>1
  <2> QED BY <2>1, <2>5, <1>2, <1>4, <1>5 DEF Fits, Place
<1>15. CASE ReturnStore(t)
  <2>1. putc[t].at = "back" /\ Putc(t, "back", "check", 0) /\ crt_pos' = putc[t].r
    BY <1>15 DEF ReturnStore, Putc
  <2> QED BY <2>1, <1>1, <1>4, <1>5 DEF Fits, Place
<1>16. CASE Check(t)
  <2>1. crt_pos' = crt_pos
        /\ Putc(t, "check", IF crt_pos >= CrtSize THEN "scroll" ELSE "com", 0)
    BY <1>16 DEF Check
  <2>2. CASE crt_pos >= CrtSize
    BY <2>1, <2>2, <1>4, <1>5 DEF Fits, Place
  <2>3. CASE crt_pos < CrtSize
    BY <2>1, <2>3, <1>1, <1>4, <1>5 DEF Fits, Place
  <2> QED BY <2>2, <2>3, <1>1, <1>5
<1>17. CASE ScrollLoad(t)
  <2>1. crt_pos' = crt_pos /\ putc[t].at = "scroll" /\ Putc(t, "scroll", "up", crt_pos)
    BY <1>17 DEF ScrollLoad, Putc
  <2>2. Cols <= crt_pos
    BY <2>1, <1>1, <1>5 DEF Fits, Place, Settled
  <2> QED BY <2>1, <2>2, <1>1, <1>4, <1>5 DEF Fits, Place
<1>18. CASE ScrollStore(t)
  <2>1. putc[t].at = "up" /\ Putc(t, "up", "com", 0) /\ crt_pos' = Word(putc[t].r - Cols)
    BY <1>18 DEF ScrollStore, Putc
  <2>2. putc[t].r - Cols \in 0 .. CrtSize /\ putc[t].r - Cols < 65536
    BY <2>1, <1>1, <1>5
  <2> QED BY <2>1, <2>2, <1>1, <1>2, <1>4 DEF Fits, Place
<1> QED BY <1>6, <1>7, <1>8, <1>9, <1>10, <1>11, <1>12, <1>13, <1>14, <1>15, <1>16,
           <1>17, <1>18 DEF ThreadFunc

\* What is printed with interrupts off fits every thread.
LEMMA SettledFits ==
    ASSUME NEW p \in Nat, Settled(p), NEW q
    PROVE  Fits(p, q) /\ p \in 0 .. CrtSize + Cols /\ p <= CrtSize
BY ScreenFacts DEF Settled, Fits

\* The thread that boots is switched away from before any thread has printed.
LEMMA CursorInvStep ==
    ASSUME TInv, TInv', CursorInv, [KNext]_kvars
    PROVE  CursorInv'
<1> USE DEF boot
<1>1. crt_pos \in 0 .. CrtSize + Cols
  BY DEF CursorInv
<1>2. cur \in Workers \cup {InitProc} /\ cur' \in Workers \cup {InitProc}
  BY DEF TInv, TypeOK, Thread
<1>3. ASSUME NEW t \in Workers, ThreadFunc(t) PROVE CursorInv'
  BY <1>3, ThreadCursorStep
<1>4. CASE UNCHANGED <<crt_pos, putc, panic>> /\ UNCHANGED cur
  BY <1>4 DEF CursorInv, RegInv
<1>5. CASE Starting
  <2>1. CASE BootSwitch
    <3>1. cur = InitProc /\ UNCHANGED <<crt_pos, putc, panic>>
      BY <1>5, <2>1 DEF BootSwitch, Booting, Starting
    <3>2. RegInv' /\ \A t \in Workers : putc[t].at = "lpt"
      BY <3>1 DEF CursorInv, RegInv
    <3>3. panic = "none" => crt_pos <= CrtSize
      BY <3>1 DEF CursorInv
    <3> QED BY <1>2, <3>1, <3>2, <3>3 DEF CursorInv, Fits
  <2>2. CASE UNCHANGED cur
    BY <1>4, <1>5, <2>2 DEF Starting
  <2> QED BY <1>5, <2>1, <2>2 DEF Starting, KernelThread, KernelThreadFails, IntrEnable,
                                  BootStep, BootPick, BootUnlinkNext, BootUnlinkPrev,
                                  BootUncount
<1>6. CASE KTick \/ KReturn \/ UNCHANGED kvars
  BY <1>4, <1>6 DEF KTick, KReturn, Tick, Return, kvars, vars
<1>7. CASE KSchedule
  <2>1. Settled(crt_pos') /\ crt_pos' \in Nat /\ UNCHANGED <<putc, panic>>
    BY <1>1, <1>7, TextMoves DEF KSchedule
  <2>2. RegInv' /\ (cur = InitProc => cur' = InitProc \/ \A t \in Workers : putc[t].at = "lpt")
    BY <2>1 DEF CursorInv, RegInv
  <2>3. cur # InitProc /\ cur' # InitProc
    BY <1>7, ScheduleStep, ThreadConstants DEF TInv, QInv, KSchedule
  <2> QED BY <2>1, <2>2, <2>3, SettledFits DEF CursorInv
<1>8. CASE Device
  <2>1. Settled(crt_pos') /\ crt_pos' \in Nat /\ UNCHANGED <<vars, putc, panic>>
    BY <1>1, <1>8, TextMoves DEF Device
  <2>2. RegInv' /\ UNCHANGED cur
    BY <2>1 DEF CursorInv, RegInv, vars
  <2> QED BY <2>1, <2>2, SettledFits DEF CursorInv
<1>9. CASE Unexpected \/ PanicPrint \/ Monitor
  <2>1. panic' # "none" /\ crt_pos' \in 0 .. CrtSize + Cols /\ UNCHANGED <<cur, putc>>
    BY <1>1, <1>9, TextMoves DEF Unexpected, Panics, PanicPrint, Monitor, threads, vars
  <2>2. RegInv'
    BY <2>1 DEF CursorInv, RegInv
  <2> QED BY <2>1, <2>2 DEF CursorInv
<1> QED BY <1>3, <1>5, <1>6, <1>7, <1>8, <1>9 DEF KNext

\* Wherever threads are interrupted between the accesses to crt_pos, and for any
\* number of threads, the cursor stays within a row of the screen.
THEOREM CursorBoundedCorrect ==
    ASSUME MaxBootTicks < TickNum
    PROVE  KSpec => []CursorBounded
<1> DEFINE KInv == TInv /\ CursorInv
<1>1. KInit => KInv
  <2>1. KInit => TInv
    BY TInvInit DEF KInit
  <2>2. ASSUME KInit PROVE CursorInv
    <3>1. cur = InitProc /\ cur \notin Workers
      BY <2>2, ThreadConstants DEF KInit, Init
    <3>2. putc \in [Workers -> [at : Place, r : Nat]]
          /\ \A t \in Workers : putc[t] = [at |-> "lpt", r |-> 0]
      <4>1. [at |-> "lpt", r |-> 0] \in [at : Place, r : Nat]
        BY DEF Place
      <4> QED BY <2>2, <4>1 DEF KInit
    <3>3. crt_pos \in 0 .. CrtSize - 1
      BY <2>2 DEF KInit
    <3> QED BY <3>1, <3>2, <3>3, ScreenFacts DEF CursorInv, RegInv
  <2> QED BY <2>1, <2>2
<1>2. KInv /\ [KNext]_kvars => KInv'
  <2> SUFFICES ASSUME KInv, [KNext]_kvars PROVE KInv'
    OBVIOUS
  <2>1. TInv'
    BY KTInvStep
  <2> QED BY <2>1, CursorInvStep
<1>3. KInv => CursorBounded
  BY ScreenFacts DEF CursorInv, CursorBounded
<1> QED BY <1>1, <1>2, <1>3, PTL DEF KSpec
=============================================================================
