----------------------------- MODULE SlabProofs -----------------------------
(***************************************************************************)
(* Proofs about Slab, for any number of blocks, caches, objects and        *)
(* callers, and about how a slab is laid out (SlabGeometry, at the end).   *)
(***************************************************************************)
EXTENDS Slab, SlabGeometry, NatFacts, FiniteSetTheorems, SequenceTheorems

-----------------------------------------------------------------------------
(* The invariant.  Its parts are stated for any lists, slabs and objects,  *)
(* because slab_free goes through a state in between: the slab has changed *)
(* list, and the surplus of the empty list is yet to go.                   *)

\* One slab: the fields fit the cache, and the free chain is as WellFormed says.
Marked(s)   == {i \in DOMAIN s.obj_list : s.obj_list[i] = Removed}
Unmarked(s) == {i \in DOMAIN s.obj_list : s.obj_list[i] # Removed}
SlabOK(s) == /\ s = [cache |-> s.cache, at |-> s.at, free |-> s.free,
                     free_objs |-> s.free_objs, obj_list |-> s.obj_list]
             /\ s.cache \in Caches
             /\ s.obj_list \in [0 .. Objs[s.cache] - 1 -> Int]
             /\ s.free \in 0 .. Objs[s.cache] /\ s.free_objs \in 0 .. Objs[s.cache]
             /\ WellFormed(s)

\* The lists: no slab twice, and each on the list its count says.
On(fu, pa, em) == UNION {ToSet(fu[c]) \cup ToSet(pa[c]) \cup ToSet(em[c]) : c \in Caches}
Lists(fu, pa, em, sl) ==
    /\ fu \in [Caches -> Seq(Blocks)] /\ pa \in [Caches -> Seq(Blocks)]
    /\ em \in [Caches -> Seq(Blocks)]
    /\ \A c \in Caches :
          /\ IsInjective(fu[c]) /\ IsInjective(pa[c]) /\ IsInjective(em[c])
          /\ \A b \in ToSet(fu[c]) : sl[b].cache = c /\ sl[b].free_objs = 0
          /\ \A b \in ToSet(pa[c]) : sl[b].cache = c /\ sl[b].free_objs \in 1 .. Objs[c] - 1
          /\ \A b \in ToSet(em[c]) : sl[b].cache = c /\ sl[b].free_objs = Objs[c]

\* The slabs L on the lists and the objects out: user's, ret's and the descriptors.
OffSlab(L, sl) == {b \in L : sl[b].cache > InSlabIndex}
Desc(L, sl)    == UNION {sl[b].at : b \in OffSlab(L, sl)}
Out(L, sl, us) == us \cup Desc(L, sl)
Accounts(L, sl, us) ==
    /\ \A b \in L : SlabOK(sl[b])
    /\ \A b \in L : sl[b].cache <= InSlabIndex => sl[b].at = {Header(b)}
    /\ \A o \in Out(L, sl, us) : o \in Object /\ o.block \in L
    /\ \A b \in L : Marked(sl[b]) = {o.i : o \in {p \in Out(L, sl, us) : p.block = b}}
    /\ us \cap Desc(L, sl) = {}
    /\ \A a, b \in OffSlab(L, sl) : a # b => sl[a].at \cap sl[b].at = {}

\* The calls in progress: at most one waits, with a page, for its descriptor, and
\* its cache has nothing to give meanwhile.
Waiting(c, b) == /\ c \in Caches /\ c > InSlabIndex /\ b \in Blocks
                 /\ partial[c] = <<>> /\ empty[c] = <<>>
Outer(c, b)   == [cache |-> c, page |-> {b}]
CallsOK ==
    \/ pc = "idle" /\ calls = <<>> /\ ret = {}
    \/ pc = "run" /\ ret = {} /\ \E c \in Caches : calls = <<Call(c)>>
    \/ pc = "run" /\ ret = {}
       /\ \E c \in Caches, b \in Blocks :
             Waiting(c, b) /\ calls = <<Call(DescCache[c]), Outer(c, b)>>
    \/ pc = "done" /\ calls = <<>>
    \/ pc = "done" /\ \E c \in Caches, b \in Blocks : Waiting(c, b) /\ calls = <<Outer(c, b)>>

\* The free pages P and the blocks S in use have nothing in common, and no two blocks
\* in use have.
PagesOK(P, S) == /\ P \subseteq Pages /\ S \subseteq Blocks
                 /\ \A b \in S : b \cap P = {}
                 /\ \A a, b \in S : a # b => a \cap b = {}

SInv == /\ Lists(full, partial, empty, slab)
        /\ Accounts(Listed, slab, user \cup ret)
        /\ user \cap ret = {}
        /\ ret = {} \/ \E o \in Object : ret = {o}
        /\ CallsOK
        /\ slab = [b \in Blocks |-> slab[b]]
        /\ \A b \in Blocks : slab[b] = NoSlab \/ SlabOK(slab[b])
        /\ PagesOK(pool, Listed \cup Held) /\ Held \cap Listed = {}

\* No slab whose descriptor lies elsewhere is given back.  When one is, the page of its
\* descriptor goes instead of its own, and nothing below holds (slab_release).
KeepsOffSlab == \A b \in OffSlab(Listed, slab) : b \in Listed'

-----------------------------------------------------------------------------
(* Pages and blocks.                                                       *)

LEMMA BlocksAre == \A b \in Blocks : b # {} /\ b \subseteq Pages
<1> SUFFICES ASSUME NEW b \in Blocks PROVE b # {} /\ b \subseteq Pages
  OBVIOUS
<1>1. PICK c \in Caches : b \in Runs(SlabPages[c])
  BY DEF Blocks
<1>2. PICK n : n = SlabPages[c]
  OBVIOUS
<1>3. n \in Nat \ {0} /\ NPages \in Nat
  BY <1>2, SlabConstants
<1>4. PICK p \in 0 .. NPages - n : b = p .. p + n - 1
  BY <1>1, <1>2 DEF Runs
<1>5. p \in b
  BY <1>3, <1>4
<1>6. b \subseteq Pages
  BY <1>3, <1>4 DEF Pages
<1> QED BY <1>5, <1>6

\* A block is taken out of the free pages.
LEMMA PagesTaken ==
    ASSUME NEW P, NEW S, PagesOK(P, S), NEW b \in Blocks, b \subseteq P
    PROVE  /\ b \notin S /\ PagesOK(P \ b, S \cup {b})
           /\ (P \ b) \cup UNION (S \cup {b}) = P \cup UNION S
<1>1. b # {}
  BY BlocksAre
<1>2. b \notin S
  BY <1>1 DEF PagesOK
<1>3. \A a \in S : a \cap b = {} /\ b \cap a = {}
  BY DEF PagesOK
<1>4. PagesOK(P \ b, S \cup {b})
  <2>1. \A a \in S \cup {b} : a \cap (P \ b) = {}
    BY DEF PagesOK
  <2>2. \A a, e \in S \cup {b} : a # e => a \cap e = {}
    BY <1>3 DEF PagesOK
  <2> QED BY <2>1, <2>2 DEF PagesOK
<1> QED BY <1>2, <1>4

\* Blocks go back.
LEMMA PagesBack ==
    ASSUME NEW P, NEW S, PagesOK(P, S), NEW G \in SUBSET S
    PROVE  /\ PagesOK(P \cup UNION G, S \ G)
           /\ (P \cup UNION G) \cup UNION (S \ G) = P \cup UNION S
<1>1. P \cup UNION G \subseteq Pages
  BY BlocksAre DEF PagesOK
<1>2. \A b \in S \ G : \A a \in G : b \cap a = {}
  BY DEF PagesOK
<1>3. \A b \in S \ G : b \cap (P \cup UNION G) = {}
  BY <1>2 DEF PagesOK
<1>4. PagesOK(P \cup UNION G, S \ G)
  BY <1>1, <1>3 DEF PagesOK
<1> QED BY <1>4

-----------------------------------------------------------------------------
(* Lists.                                                                  *)

LEMMA InSet ==
    ASSUME NEW s \in Seq(Blocks)
    PROVE  /\ DOMAIN s = 1 .. Len(s) /\ Len(s) \in Nat /\ ToSet(s) \subseteq Blocks
           /\ \A x : x \in ToSet(s) <=> \E j \in 1 .. Len(s) : x = s[j]
           /\ \A j \in 1 .. Len(s) : s[j] \in Blocks
<1>1. DOMAIN s = 1 .. Len(s) /\ Len(s) \in Nat /\ \A j \in 1 .. Len(s) : s[j] \in Blocks
  OBVIOUS
<1>2. \A x : x \in ToSet(s) <=> \E j \in 1 .. Len(s) : x = s[j]
  BY <1>1 DEF ToSet
<1> QED BY <1>1, <1>2

LEMMA RemoveAtIs ==
    ASSUME NEW s \in Seq(Blocks), NEW i \in 1 .. Len(s)
    PROVE  LET t == RemoveAt(s, i)
           IN /\ t \in Seq(Blocks) /\ Len(t) = Len(s) - 1
              /\ \A j \in 1 .. Len(s) - 1 : t[j] = IF j < i THEN s[j] ELSE s[j + 1]
<1> DEFINE a == SubSeq(s, 1, i - 1)
           c == SubSeq(s, i + 1, Len(s))
<1>0. Len(s) \in Nat
  OBVIOUS
<1>1. /\ a \in Seq(Blocks) /\ Len(a) = i - 1 /\ \A j \in 1 .. i - 1 : a[j] = s[j]
  BY <1>0
<1>2. /\ c \in Seq(Blocks) /\ Len(c) = Len(s) - i
      /\ \A j \in 1 .. Len(s) - i : c[j] = s[i + j]
  BY <1>0
<1> HIDE DEF a, c
<1>3. /\ a \o c \in Seq(Blocks) /\ Len(a \o c) = Len(a) + Len(c)
      /\ \A j \in 1 .. Len(a) + Len(c) :
             (a \o c)[j] = IF j <= Len(a) THEN a[j] ELSE c[j - Len(a)]
  BY <1>1, <1>2, ConcatProperties
<1>4. Len(a) + Len(c) = Len(s) - 1
  BY <1>0, <1>1, <1>2
<1>5. ASSUME NEW j \in 1 .. Len(s) - 1
      PROVE  (a \o c)[j] = IF j < i THEN s[j] ELSE s[j + 1]
  <2>1. (a \o c)[j] = IF j <= Len(a) THEN a[j] ELSE c[j - Len(a)]
    BY <1>3, <1>4
  <2>2. CASE j < i
    <3>1. j <= Len(a) /\ j \in 1 .. i - 1
      BY <1>0, <1>1, <2>2
    <3> QED BY <2>1, <2>2, <3>1, <1>1
  <2>3. CASE ~(j < i)
    <3>1. ~(j <= Len(a)) /\ j - Len(a) = j - i + 1 /\ j - i + 1 \in 1 .. Len(s) - i
          /\ i + (j - i + 1) = j + 1
      BY <1>0, <1>1, <2>3
    <3>2. c[j - i + 1] = s[j + 1]
      BY <1>2, <3>1
    <3> QED BY <2>1, <2>3, <3>1, <3>2
  <2> QED BY <2>2, <2>3
<1>6. RemoveAt(s, i) = a \o c
  BY DEF RemoveAt, a, c
<1> QED BY <1>3, <1>4, <1>5, <1>6

\* list_erase: the others stay as they are.
LEMMA EraseIs ==
    ASSUME NEW s \in Seq(Blocks), IsInjective(s), NEW b \in ToSet(s)
    PROVE  /\ RemoveFirst(s, b) \in Seq(Blocks) /\ IsInjective(RemoveFirst(s, b))
           /\ \A x : x \in ToSet(RemoveFirst(s, b)) <=> x \in ToSet(s) /\ x # b
<1>0. DOMAIN s = 1 .. Len(s) /\ Len(s) \in Nat
  OBVIOUS
<1>1. PICK i \in 1 .. Len(s) : s[i] = b
  BY <1>0 DEF ToSet
<1>2. \A j, k \in 1 .. Len(s) : s[j] = s[k] => j = k
  BY <1>0 DEF IsInjective
<1>3. RemoveFirst(s, b) = RemoveAt(s, i)
  <2> DEFINE I == {j \in 1 .. Len(s) : s[j] = b}
  <2>1. I = {i}
    BY <1>1, <1>2
  <2>2. Min(I) = i
    <3> HIDE DEF I
    <3>1. I \subseteq Int /\ i \in I /\ \A y \in I : i <= y
      BY <2>1, <1>0
    <3> QED BY <3>1, MinIs
  <2>3. SelectInSeq(s, LAMBDA v : v = b) = i
    BY <2>1, <2>2 DEF SelectInSeq
  <2> QED BY <1>1, <2>3 DEF RemoveFirst
<1> DEFINE t == RemoveAt(s, i)
<1>4. /\ t \in Seq(Blocks) /\ Len(t) = Len(s) - 1
      /\ \A j \in 1 .. Len(s) - 1 : t[j] = IF j < i THEN s[j] ELSE s[j + 1]
  BY RemoveAtIs
<1> HIDE DEF t
<1>5. DOMAIN t = 1 .. Len(s) - 1
  BY <1>4
<1> DEFINE At(j) == IF j < i THEN j ELSE j + 1
<1>6. \A j \in 1 .. Len(s) - 1 : At(j) \in 1 .. Len(s) /\ At(j) # i /\ t[j] = s[At(j)]
  BY <1>0, <1>4
<1>7. IsInjective(t)
  <2> SUFFICES ASSUME NEW j \in 1 .. Len(s) - 1, NEW k \in 1 .. Len(s) - 1, t[j] = t[k]
               PROVE  j = k
    BY <1>5 DEF IsInjective
  <2>1. At(j) = At(k)
    <3> HIDE DEF At
    <3> QED BY <1>2, <1>6
  <2> QED BY <2>1, <1>0
<1>8. ASSUME NEW x, x \in ToSet(t) PROVE x \in ToSet(s) /\ x # b
  <2>1. PICK j \in 1 .. Len(s) - 1 : x = t[j]
    BY <1>5, <1>8 DEF ToSet
  <2>2. At(j) \in 1 .. Len(s) /\ At(j) # i /\ x = s[At(j)]
    BY <1>6, <2>1
  <2> HIDE DEF At
  <2>3. x \in ToSet(s)
    BY <2>2, <1>0 DEF ToSet
  <2>4. x # b
    BY <2>2, <1>1, <1>2
  <2> QED BY <2>3, <2>4
<1>9. ASSUME NEW x, x \in ToSet(s), x # b PROVE x \in ToSet(t)
  <2>1. PICK j \in 1 .. Len(s) : x = s[j]
    BY <1>0, <1>9 DEF ToSet
  <2>2. j # i
    BY <1>1, <1>9, <2>1
  <2>3. CASE j < i
    <3>1. j \in 1 .. Len(s) - 1 /\ t[j] = s[j]
      BY <1>0, <1>4, <2>3
    <3> QED BY <2>1, <3>1, <1>5 DEF ToSet
  <2>4. CASE i < j
    <3>1. j - 1 \in 1 .. Len(s) - 1 /\ ~(j - 1 < i) /\ (j - 1) + 1 = j
      BY <1>0, <2>4
    <3>2. t[j - 1] = s[j]
      BY <3>1, <1>4
    <3> QED BY <2>1, <3>1, <3>2, <1>5 DEF ToSet
  <2> QED BY <2>2, <2>3, <2>4, <1>0
<1>10. \A x : x \in ToSet(t) <=> x \in ToSet(s) /\ x # b
  BY <1>8, <1>9
<1> QED BY <1>3, <1>4, <1>7, <1>10 DEF t

LEMMA PushIs ==
    ASSUME NEW s \in Seq(Blocks), IsInjective(s), NEW b \in Blocks, b \notin ToSet(s)
    PROVE  /\ Append(s, b) \in Seq(Blocks) /\ IsInjective(Append(s, b))
           /\ \A x : x \in ToSet(Append(s, b)) <=> x \in ToSet(s) \/ x = b
<1>0. DOMAIN s = 1 .. Len(s) /\ Len(s) \in Nat
  OBVIOUS
<1> DEFINE t == Append(s, b)
<1>1. /\ t \in Seq(Blocks) /\ DOMAIN t = 1 .. Len(s) + 1 /\ t[Len(s) + 1] = b
      /\ \A j \in 1 .. Len(s) : t[j] = s[j]
  OBVIOUS
<1> HIDE DEF t
<1>2. \A j \in 1 .. Len(s) + 1 : j \in 1 .. Len(s) \/ j = Len(s) + 1
  BY <1>0
<1>3. \A j \in 1 .. Len(s) : s[j] # b
  BY <1>0 DEF ToSet
<1>4. \A j, k \in 1 .. Len(s) : s[j] = s[k] => j = k
  BY <1>0 DEF IsInjective
<1>5. IsInjective(t)
  <2>1. \A j, k \in 1 .. Len(s) + 1 : t[j] = t[k] => j = k
    BY <1>1, <1>2, <1>3, <1>4
  <2> QED BY <2>1, <1>1 DEF IsInjective
<1>6. \A x : x \in ToSet(t) <=> x \in ToSet(s) \/ x = b
  <2>1. \A j \in 1 .. Len(s) : j \in 1 .. Len(s) + 1
    BY <1>0
  <2>2. Len(s) + 1 \in 1 .. Len(s) + 1
    BY <1>0
  <2>3. ASSUME NEW x, x \in ToSet(t) PROVE x \in ToSet(s) \/ x = b
    <3>1. PICK j \in 1 .. Len(s) + 1 : x = t[j]
      BY <1>1, <2>3 DEF ToSet
    <3> QED BY <3>1, <1>0, <1>1, <1>2 DEF ToSet
  <2>4. ASSUME NEW x, x \in ToSet(s) \/ x = b PROVE x \in ToSet(t)
    <3>1. CASE x = b
      BY <3>1, <2>2, <1>1 DEF ToSet
    <3>2. CASE x \in ToSet(s)
      <4>1. PICK j \in 1 .. Len(s) : x = s[j]
        BY <3>2, <1>0 DEF ToSet
      <4> QED BY <4>1, <2>1, <1>1 DEF ToSet
    <3> QED BY <2>4, <3>1, <3>2
  <2> QED BY <2>3, <2>4
<1> QED BY <1>1, <1>5, <1>6 DEF t

\* list_pop_back n times.
LEMMA TrimIs ==
    ASSUME NEW s \in Seq(Blocks), IsInjective(s), NEW n \in 0 .. Len(s)
    PROVE  LET t == SubSeq(s, 1, Len(s) - n)
           IN /\ t \in Seq(Blocks) /\ IsInjective(t)
              /\ \A x : x \in ToSet(s) <=>
                     x \in ToSet(t) \/ \E i \in 0 .. n - 1 : x = s[Len(s) - i]
              /\ \A i \in 0 .. n - 1 : s[Len(s) - i] \notin ToSet(t)
<1>0. DOMAIN s = 1 .. Len(s) /\ Len(s) \in Nat
  OBVIOUS
<1> DEFINE m == Len(s) - n
           t == SubSeq(s, 1, m)
<1>1. m \in 0 .. Len(s) /\ n = Len(s) - m
  BY <1>0
<1> HIDE DEF m
<1>2. t \in Seq(Blocks) /\ DOMAIN t = 1 .. m /\ \A j \in 1 .. m : t[j] = s[j]
  BY <1>0, <1>1
<1> HIDE DEF t
<1>3. \A j, k \in 1 .. Len(s) : s[j] = s[k] => j = k
  BY <1>0 DEF IsInjective
<1>4. \A j \in 1 .. m : j \in 1 .. Len(s)
  BY <1>0, <1>1
<1>5. IsInjective(t)
  BY <1>2, <1>3, <1>4 DEF IsInjective
<1>6. \A x : x \in ToSet(s) <=> \E j \in 1 .. Len(s) : x = s[j]
  BY <1>0 DEF ToSet
<1>7. \A x : x \in ToSet(t) <=> \E j \in 1 .. m : x = s[j]
  BY <1>2 DEF ToSet
<1>8. \A i \in 0 .. n - 1 : Len(s) - i \in 1 .. Len(s) /\ Len(s) - i \notin 1 .. m
  BY <1>0, <1>1
<1>9. \A j \in 1 .. Len(s) : j \in 1 .. m \/ (Len(s) - j \in 0 .. n - 1 /\ Len(s) - (Len(s) - j) = j)
  BY <1>0, <1>1
<1>10. ASSUME NEW x, x \in ToSet(s)
       PROVE  x \in ToSet(t) \/ \E i \in 0 .. n - 1 : x = s[Len(s) - i]
  <2>1. PICK j \in 1 .. Len(s) : x = s[j]
    BY <1>6, <1>10
  <2>2. CASE j \in 1 .. m
    BY <2>1, <2>2, <1>7
  <2>3. CASE Len(s) - j \in 0 .. n - 1 /\ Len(s) - (Len(s) - j) = j
    BY <2>1, <2>3
  <2> QED BY <1>9, <2>2, <2>3
<1>11. ASSUME NEW x, x \in ToSet(t) \/ \E i \in 0 .. n - 1 : x = s[Len(s) - i]
       PROVE  x \in ToSet(s)
  BY <1>11, <1>4, <1>6, <1>7, <1>8
<1>12. \A i \in 0 .. n - 1 : s[Len(s) - i] \notin ToSet(t)
  BY <1>3, <1>4, <1>7, <1>8
<1> QED BY <1>2, <1>5, <1>10, <1>11, <1>12 DEF t, m

-----------------------------------------------------------------------------
(* The free chain of a slab.                                               *)

\* ch lists the free objects of s in the order of the chain.
Linked(s, ch) ==
    /\ ch \in [1 .. s.free_objs -> Unmarked(s)]
    /\ \A j, k \in 1 .. s.free_objs : j # k => ch[j] # ch[k]
    /\ s.free = IF s.free_objs = 0 THEN Objs[s.cache] ELSE ch[1]
    /\ \A k \in 1 .. s.free_objs :
          s.obj_list[ch[k]] = IF k = s.free_objs THEN Objs[s.cache] ELSE ch[k + 1]

LEMMA WellFormedIs ==
    ASSUME NEW s
    PROVE  WellFormed(s) <=> /\ Cardinality(Unmarked(s)) = s.free_objs
                             /\ \E ch : Linked(s, ch)
<1> DEFINE free == {i \in DOMAIN s.obj_list : s.obj_list[i] # Removed}
<1>1. free = Unmarked(s)
  BY DEF Unmarked
<1>2. ASSUME Cardinality(free) = s.free_objs
      PROVE  \A ch : ch \in SetToSeqs(free) <=>
                         /\ ch \in [1 .. s.free_objs -> free]
                         /\ \A j, k \in 1 .. s.free_objs : j # k => ch[j] # ch[k]
  BY <1>2 DEF SetToSeqs
<1> HIDE DEF free
<1>3. WellFormed(s) <=>
        /\ Cardinality(free) = s.free_objs
        /\ \E chain \in SetToSeqs(free) :
              /\ s.free = IF s.free_objs = 0 THEN Objs[s.cache] ELSE chain[1]
              /\ \A k \in 1 .. s.free_objs :
                    s.obj_list[chain[k]] = IF k = s.free_objs THEN Objs[s.cache] ELSE chain[k + 1]
  BY DEF WellFormed, free
<1>4. \A ch : Linked(s, ch) <=>
        /\ ch \in [1 .. s.free_objs -> free]
        /\ \A j, k \in 1 .. s.free_objs : j # k => ch[j] # ch[k]
        /\ s.free = IF s.free_objs = 0 THEN Objs[s.cache] ELSE ch[1]
        /\ \A k \in 1 .. s.free_objs :
              s.obj_list[ch[k]] = IF k = s.free_objs THEN Objs[s.cache] ELSE ch[k + 1]
  BY <1>1 DEF Linked
<1>5. CASE Cardinality(free) = s.free_objs
  BY <1>1, <1>2, <1>3, <1>4, <1>5, Zenon
<1>6. CASE Cardinality(free) # s.free_objs
  BY <1>1, <1>3, <1>6
<1> QED BY <1>5, <1>6

\* The fields of a slab, and its objects counted.
LEMMA SlabTypes ==
    ASSUME NEW s, SlabOK(s)
    PROVE  LET n == Objs[s.cache]
           IN /\ n \in Nat \ {0, 1} /\ s.cache \in Caches /\ s.cache \in Nat
              /\ s.obj_list \in [0 .. n - 1 -> Int] /\ DOMAIN s.obj_list = 0 .. n - 1
              /\ s.free \in 0 .. n /\ s.free_objs \in 0 .. n
              /\ Marked(s) \subseteq 0 .. n - 1 /\ Unmarked(s) = (0 .. n - 1) \ Marked(s)
              /\ IsFiniteSet(Unmarked(s)) /\ Cardinality(Unmarked(s)) = s.free_objs
<1> DEFINE n == Objs[s.cache]
<1>1. /\ s.cache \in Caches /\ s.obj_list \in [0 .. n - 1 -> Int]
      /\ s.free \in 0 .. n /\ s.free_objs \in 0 .. n
  BY DEF SlabOK
<1>2. n \in Nat \ {0, 1} /\ s.cache \in Nat
  <2>1. s.cache \in 0 .. Cardinality(Caches) - 1
    BY <1>1, SlabConstants
  <2>2. n \in Nat \ {0, 1}
    BY <1>1, SlabConstants
  <2> QED BY <2>1, <2>2
<1>3. Marked(s) \subseteq 0 .. n - 1 /\ Unmarked(s) = (0 .. n - 1) \ Marked(s)
  BY <1>1 DEF Marked, Unmarked
<1> HIDE DEF n
<1>4. IsFiniteSet(0 .. n - 1)
  BY <1>2, FS_Interval
<1>5. IsFiniteSet(Unmarked(s))
  BY <1>3, <1>4, FS_Subset
<1>6. Cardinality(Unmarked(s)) = s.free_objs
  BY WellFormedIs DEF SlabOK
<1> QED BY <1>1, <1>2, <1>3, <1>5, <1>6 DEF n

\* No object is out exactly when the count says so.
LEMMA EmptyIs ==
    ASSUME NEW s, SlabOK(s)
    PROVE  Marked(s) = {} <=> s.free_objs = Objs[s.cache]
<1> DEFINE n == Objs[s.cache]
<1>1. /\ n \in Nat \ {0, 1} /\ Marked(s) \subseteq 0 .. n - 1
      /\ Unmarked(s) = (0 .. n - 1) \ Marked(s) /\ Cardinality(Unmarked(s)) = s.free_objs
  BY SlabTypes
<1> HIDE DEF n
<1>2. IsFiniteSet(0 .. n - 1) /\ Cardinality(0 .. n - 1) = n
  BY <1>1, FS_Interval
<1>3. Unmarked(s) \in SUBSET (0 .. n - 1)
  BY <1>1
<1>4. Cardinality(0 .. n - 1) = Cardinality(Unmarked(s)) => 0 .. n - 1 = Unmarked(s)
  BY <1>2, <1>3, FS_Subset
<1>5. Marked(s) = {} <=> Unmarked(s) = 0 .. n - 1
  BY <1>1
<1> QED BY <1>1, <1>2, <1>4, <1>5 DEF n

\* A slab of a cache that owns all its objects.
LEMMA FreshGood ==
    ASSUME NEW c \in Caches, NEW d
    PROVE  LET s == Fresh(c, d)
           IN SlabOK(s) /\ Marked(s) = {} /\ s.cache = c /\ s.at = {d} /\ s.free_objs = Objs[c]
<1> DEFINE n == Objs[c]
           s == Fresh(c, d)
           ch == [k \in 1 .. n |-> k - 1]
<1>1. n \in Nat \ {0, 1}
  BY SlabConstants
<1>2. /\ s.cache = c /\ s.at = {d} /\ s.free = 0 /\ s.free_objs = n
      /\ s.obj_list = [i \in 0 .. n - 1 |-> i + 1]
      /\ s = [cache |-> s.cache, at |-> s.at, free |-> s.free,
              free_objs |-> s.free_objs, obj_list |-> s.obj_list]
  BY DEF Fresh
<1> HIDE DEF n, s
<1>3. \A i \in 0 .. n - 1 : s.obj_list[i] = i + 1 /\ s.obj_list[i] # Removed
  BY <1>1, <1>2 DEF Removed
<1>4. DOMAIN s.obj_list = 0 .. n - 1 /\ s.obj_list \in [0 .. n - 1 -> Int]
  BY <1>1, <1>2
<1>5. Marked(s) = {} /\ Unmarked(s) = 0 .. n - 1
  BY <1>3, <1>4 DEF Marked, Unmarked
<1>6. Cardinality(Unmarked(s)) = s.free_objs
  BY <1>1, <1>2, <1>5, FS_Interval
<1>7. Linked(s, ch)
  <2>1. ch \in [1 .. n -> 0 .. n - 1] /\ \A j, k \in 1 .. n : j # k => ch[j] # ch[k]
    BY <1>1
  <2>2. s.free = ch[1] /\ n # 0
    BY <1>1, <1>2
  <2>3. ASSUME NEW k \in 1 .. n
        PROVE  s.obj_list[ch[k]] = IF k = n THEN n ELSE ch[k + 1]
    <3>1. ch[k] = k - 1 /\ k - 1 \in 0 .. n - 1 /\ s.obj_list[k - 1] = k
      BY <1>1, <1>3
    <3>2. k # n => ch[k + 1] = k
      BY <1>1
    <3> HIDE DEF ch
    <3> QED BY <3>1, <3>2
  <2> HIDE DEF ch
  <2>4. n = Objs[s.cache]
    BY <1>2 DEF n
  <2> QED BY <1>2, <1>5, <2>1, <2>2, <2>3, <2>4 DEF Linked
<1>8. WellFormed(s)
  BY <1>6, <1>7, WellFormedIs
<1>9. s.cache \in Caches /\ n = Objs[s.cache]
  BY <1>2 DEF n
<1> QED BY <1>1, <1>2, <1>4, <1>5, <1>8, <1>9 DEF SlabOK, n, s

\* What fetch_obj_from_slab does to a slab that has an object to give.
LEMMA FetchedGood ==
    ASSUME NEW s, SlabOK(s), s.free_objs # 0
    PROVE  LET t == Fetched(s)
           IN /\ SlabOK(t) /\ t.cache = s.cache /\ t.at = s.at
              /\ t.free_objs = s.free_objs - 1
              /\ s.free \in Unmarked(s) /\ Marked(t) = Marked(s) \cup {s.free}
<1> DEFINE n == s.free_objs
           e == Objs[s.cache]
           t == Fetched(s)
<1>1. /\ e \in Nat \ {0, 1} /\ s.cache \in Caches
      /\ s.obj_list \in [0 .. e - 1 -> Int] /\ DOMAIN s.obj_list = 0 .. e - 1
      /\ s.free \in 0 .. e /\ n \in 1 .. e
      /\ Marked(s) \subseteq 0 .. e - 1 /\ Unmarked(s) = (0 .. e - 1) \ Marked(s)
      /\ IsFiniteSet(Unmarked(s)) /\ Cardinality(Unmarked(s)) = n
  BY SlabTypes
<1>2. PICK ch : Linked(s, ch)
  BY WellFormedIs DEF SlabOK
<1>3. /\ ch \in [1 .. n -> Unmarked(s)]
      /\ \A j, k \in 1 .. n : j # k => ch[j] # ch[k]
      /\ s.free = ch[1]
      /\ \A k \in 1 .. n : s.obj_list[ch[k]] = IF k = n THEN e ELSE ch[k + 1]
  BY <1>2 DEF Linked
<1>4. s.free \in Unmarked(s) /\ s.free \in 0 .. e - 1
  BY <1>1, <1>3
<1>5. /\ t.cache = s.cache /\ t.at = s.at /\ t.free = s.obj_list[s.free]
      /\ t.free_objs = n - 1 /\ t.obj_list = [s.obj_list EXCEPT ![s.free] = Removed]
      /\ t = [cache |-> t.cache, at |-> t.at, free |-> t.free,
              free_objs |-> t.free_objs, obj_list |-> t.obj_list]
  BY DEF Fetched, SlabOK
<1> HIDE DEF n, e, t
<1>6. /\ DOMAIN t.obj_list = 0 .. e - 1 /\ t.obj_list \in [0 .. e - 1 -> Int]
      /\ t.obj_list[s.free] = Removed
      /\ \A i \in 0 .. e - 1 : i # s.free => t.obj_list[i] = s.obj_list[i]
  <2>1. Removed \in Int
    BY DEF Removed
  <2> QED BY <1>1, <1>4, <1>5, <2>1
<1>7. Marked(t) = Marked(s) \cup {s.free} /\ Unmarked(t) = Unmarked(s) \ {s.free}
  BY <1>1, <1>4, <1>6 DEF Marked, Unmarked
<1>8. Cardinality(Unmarked(t)) = t.free_objs
  BY <1>1, <1>4, <1>5, <1>7, FS_RemoveElement
<1> DEFINE ch2 == [k \in 1 .. n - 1 |-> ch[k + 1]]
<1>9. \A k \in 1 .. n - 1 : /\ k \in 1 .. n /\ k + 1 \in 1 .. n /\ k + 1 # 1 /\ ch2[k] = ch[k + 1]
                            /\ k # n
  BY <1>1
<1>10. ch2 \in [1 .. n - 1 -> Unmarked(t)]
  <2>1. \A k \in 1 .. n - 1 : ch[k + 1] \in Unmarked(s) /\ ch[k + 1] # ch[1]
    BY <1>1, <1>3, <1>9
  <2> QED BY <1>3, <1>7, <2>1
<1>11. \A j, k \in 1 .. n - 1 : j # k => ch2[j] # ch2[k]
  <2>1. \A j, k \in 1 .. n - 1 : j # k => j + 1 # k + 1
    OBVIOUS
  <2> HIDE DEF ch2
  <2> QED BY <1>3, <1>9, <2>1
<1>12. t.free = IF n - 1 = 0 THEN e ELSE ch2[1]
  <2>1. 1 \in 1 .. n
    BY <1>1
  <2>2. t.free = IF 1 = n THEN e ELSE ch[2]
    BY <1>3, <1>5, <2>1
  <2>3. n # 1 => ch2[1] = ch[2]
    BY <1>1
  <2> HIDE DEF ch2
  <2> QED BY <1>1, <2>2, <2>3
<1> HIDE DEF ch2
<1>13. ASSUME NEW k \in 1 .. n - 1
       PROVE  t.obj_list[ch2[k]] = IF k = n - 1 THEN e ELSE ch2[k + 1]
  <2>1. ch2[k] = ch[k + 1] /\ ch2[k] \in 0 .. e - 1 /\ ch2[k] # s.free
    BY <1>1, <1>7, <1>9, <1>10
  <2>2. t.obj_list[ch2[k]] = s.obj_list[ch[k + 1]]
    BY <1>6, <2>1
  <2>3. s.obj_list[ch[k + 1]] = IF k + 1 = n THEN e ELSE ch[(k + 1) + 1]
    BY <1>3, <1>9
  <2>4. (k + 1 = n <=> k = n - 1) /\ (k # n - 1 => k + 1 \in 1 .. n - 1)
    BY <1>1
  <2>5. k # n - 1 => ch2[k + 1] = ch[(k + 1) + 1]
    BY <1>9, <2>4
  <2> QED BY <2>2, <2>3, <2>4, <2>5
<1>14. Linked(t, ch2)
  <2>1. e = Objs[t.cache] /\ t.free_objs = n - 1
    BY <1>5 DEF e
  <2> QED BY <1>10, <1>11, <1>12, <1>13, <2>1 DEF Linked
<1>15. WellFormed(t)
  BY <1>8, <1>14, WellFormedIs
<1>16. t.free \in 0 .. e
  <2>1. n - 1 # 0 => 1 \in 1 .. n - 1
    BY <1>1
  <2>2. n - 1 # 0 => ch2[1] \in 0 .. e - 1
    BY <1>1, <1>7, <1>10, <2>1
  <2> QED BY <1>1, <1>12, <2>2
<1>17. t.free_objs \in 0 .. e /\ t.cache \in Caches /\ e = Objs[t.cache]
  BY <1>1, <1>5 DEF e
<1>18. SlabOK(t)
  BY <1>5, <1>6, <1>15, <1>16, <1>17 DEF SlabOK
<1> QED BY <1>4, <1>5, <1>7, <1>18 DEF t, n

\* What return_obj_to_slab does to a slab with object i out.
LEMMA ReturnedGood ==
    ASSUME NEW s, SlabOK(s), NEW i \in Marked(s)
    PROVE  LET t == Returned(s, i)
           IN /\ SlabOK(t) /\ t.cache = s.cache /\ t.at = s.at
              /\ t.free_objs = s.free_objs + 1 /\ s.free_objs < Objs[s.cache]
              /\ Marked(t) = Marked(s) \ {i}
<1> DEFINE n == s.free_objs
           e == Objs[s.cache]
           t == Returned(s, i)
<1>1. /\ e \in Nat \ {0, 1} /\ s.cache \in Caches
      /\ s.obj_list \in [0 .. e - 1 -> Int] /\ DOMAIN s.obj_list = 0 .. e - 1
      /\ s.free \in 0 .. e /\ n \in 0 .. e
      /\ Marked(s) \subseteq 0 .. e - 1 /\ Unmarked(s) = (0 .. e - 1) \ Marked(s)
      /\ IsFiniteSet(Unmarked(s)) /\ Cardinality(Unmarked(s)) = n
  BY SlabTypes
<1>2. n # e
  BY EmptyIs
<1>3. PICK ch : Linked(s, ch)
  BY WellFormedIs DEF SlabOK
<1>4. /\ ch \in [1 .. n -> Unmarked(s)]
      /\ \A j, k \in 1 .. n : j # k => ch[j] # ch[k]
      /\ s.free = IF n = 0 THEN e ELSE ch[1]
      /\ \A k \in 1 .. n : s.obj_list[ch[k]] = IF k = n THEN e ELSE ch[k + 1]
  BY <1>3 DEF Linked
<1>5. i \in 0 .. e - 1 /\ i \notin Unmarked(s)
  BY <1>1
<1>6. /\ t.cache = s.cache /\ t.at = s.at /\ t.free = i
      /\ t.free_objs = n + 1 /\ t.obj_list = [s.obj_list EXCEPT ![i] = s.free]
      /\ t = [cache |-> t.cache, at |-> t.at, free |-> t.free,
              free_objs |-> t.free_objs, obj_list |-> t.obj_list]
  BY DEF Returned, SlabOK
<1> HIDE DEF n, e, t
<1>7. /\ DOMAIN t.obj_list = 0 .. e - 1 /\ t.obj_list \in [0 .. e - 1 -> Int]
      /\ t.obj_list[i] = s.free /\ s.free # Removed
      /\ \A j \in 0 .. e - 1 : j # i => t.obj_list[j] = s.obj_list[j]
  <2>1. s.free \in Int /\ s.free # Removed
    BY <1>1 DEF Removed
  <2> QED BY <1>1, <1>5, <1>6, <2>1
<1>8. Marked(t) = Marked(s) \ {i} /\ Unmarked(t) = Unmarked(s) \cup {i}
  BY <1>1, <1>5, <1>7 DEF Marked, Unmarked
<1>9. Cardinality(Unmarked(t)) = t.free_objs
  <2>1. Cardinality(Unmarked(s) \cup {i}) = Cardinality(Unmarked(s)) + 1
    BY <1>1, <1>5, FS_AddElement
  <2> QED BY <2>1, <1>1, <1>6, <1>8
<1> DEFINE ch2 == [k \in 1 .. n + 1 |-> IF k = 1 THEN i ELSE ch[k - 1]]
<1>10. ch2[1] = i /\ \A k \in 1 .. n + 1 : k # 1 => k - 1 \in 1 .. n /\ ch2[k] = ch[k - 1]
  BY <1>1
<1>11. ch2 \in [1 .. n + 1 -> Unmarked(t)]
  <2>1. \A k \in 1 .. n + 1 : ch2[k] \in Unmarked(t)
    <3> HIDE DEF ch2
    <3> QED BY <1>4, <1>8, <1>10
  <2> QED BY <2>1
<1> HIDE DEF ch2
<1>12. \A j, k \in 1 .. n + 1 : j # k => ch2[j] # ch2[k]
  <2> SUFFICES ASSUME NEW j \in 1 .. n + 1, NEW k \in 1 .. n + 1, j < k
               PROVE  ch2[j] # ch2[k]
    <3>1. \A j, k \in 1 .. n + 1 : j < k => ch2[j] # ch2[k]
      OBVIOUS
    <3>2. \A j, k \in 1 .. n + 1 : j < k \/ k < j \/ j = k
      BY <1>1
    <3> QED BY <3>1, <3>2
  <2>1. k # 1 /\ k - 1 \in 1 .. n /\ ch2[k] = ch[k - 1]
    BY <1>1, <1>10
  <2>2. CASE j = 1
    BY <2>1, <2>2, <1>4, <1>5, <1>10
  <2>3. CASE j # 1
    <3>1. j - 1 \in 1 .. n /\ ch2[j] = ch[j - 1] /\ j - 1 # k - 1
      BY <1>10, <2>3
    <3> QED BY <2>1, <3>1, <1>4
  <2> QED BY <2>2, <2>3
<1>13. ASSUME NEW k \in 1 .. n + 1
       PROVE  t.obj_list[ch2[k]] = IF k = n + 1 THEN e ELSE ch2[k + 1]
  <2>1. CASE k = 1
    <3>1. t.obj_list[ch2[k]] = s.free
      BY <2>1, <1>7, <1>10
    <3>2. n # 0 => ch2[2] = ch[1]
      <4>1. n # 0 => 2 \in 1 .. n + 1
        BY <1>1
      <4> QED BY <4>1, <1>10
    <3>3. k = n + 1 <=> n = 0
      BY <1>1, <2>1
    <3> QED BY <2>1, <3>1, <3>2, <3>3, <1>4
  <2>2. CASE k # 1
    <3>1. k - 1 \in 1 .. n /\ ch2[k] = ch[k - 1]
      BY <1>10, <2>2
    <3>2. ch[k - 1] \in 0 .. e - 1 /\ ch[k - 1] # i
      BY <3>1, <1>1, <1>4, <1>5
    <3>3. t.obj_list[ch2[k]] = s.obj_list[ch[k - 1]]
      BY <3>1, <3>2, <1>7
    <3>4. s.obj_list[ch[k - 1]] = IF k - 1 = n THEN e ELSE ch[(k - 1) + 1]
      BY <3>1, <1>4
    <3>5. (k - 1 = n <=> k = n + 1) /\ (k - 1) + 1 = k /\ (k # n + 1 => k + 1 \in 1 .. n + 1)
          /\ k + 1 # 1 /\ (k + 1) - 1 = k
      BY <1>1
    <3>6. k # n + 1 => ch2[k + 1] = ch[k]
      BY <1>10, <3>5
    <3> QED BY <3>3, <3>4, <3>5, <3>6
  <2> QED BY <2>1, <2>2
<1>14. Linked(t, ch2)
  <2>1. e = Objs[t.cache] /\ t.free_objs = n + 1 /\ n + 1 # 0
    BY <1>1, <1>6 DEF e
  <2>2. t.free = ch2[1]
    BY <1>6, <1>10
  <2> QED BY <1>11, <1>12, <1>13, <2>1, <2>2 DEF Linked
<1>15. WellFormed(t)
  BY <1>9, <1>14, WellFormedIs
<1>16. t.free_objs \in 0 .. e /\ t.free \in 0 .. e /\ t.cache \in Caches /\ e = Objs[t.cache]
       /\ n < e
  BY <1>1, <1>2, <1>5, <1>6 DEF e
<1>17. SlabOK(t)
  BY <1>6, <1>7, <1>15, <1>16 DEF SlabOK
<1> QED BY <1>6, <1>8, <1>16, <1>17 DEF t, n, e

-----------------------------------------------------------------------------
(* A slab changes list.                                                    *)

\* X2 is X with slab b on the list of cache c, or not.
Hung(X, X2, c, b, on) ==
    /\ X2 \in [Caches -> Seq(Blocks)] /\ \A d \in Caches : d # c => X2[d] = X[d]
    /\ IsInjective(X2[c])
    /\ \A x : x \in ToSet(X2[c]) <=> (x \in ToSet(X[c]) /\ x # b) \/ (on /\ x = b)

LEMMA HungErase ==
    ASSUME NEW X \in [Caches -> Seq(Blocks)], NEW c \in Caches, IsInjective(X[c]),
           NEW b \in ToSet(X[c])
    PROVE  Hung(X, [X EXCEPT ![c] = RemoveFirst(@, b)], c, b, FALSE)
<1> DEFINE t == RemoveFirst(X[c], b)
<1>1. /\ t \in Seq(Blocks) /\ IsInjective(t)
      /\ \A x : x \in ToSet(t) <=> x \in ToSet(X[c]) /\ x # b
  BY EraseIs
<1> HIDE DEF t
<1> DEFINE X2 == [X EXCEPT ![c] = t]
<1>2. X2 \in [Caches -> Seq(Blocks)] /\ X2[c] = t /\ \A d \in Caches : d # c => X2[d] = X[d]
  BY <1>1
<1> HIDE DEF X2
<1>3. Hung(X, X2, c, b, FALSE)
  BY <1>1, <1>2 DEF Hung
<1> QED BY <1>3 DEF X2, t

LEMMA HungPush ==
    ASSUME NEW X \in [Caches -> Seq(Blocks)], NEW c \in Caches, IsInjective(X[c]),
           NEW b \in Blocks, b \notin ToSet(X[c])
    PROVE  Hung(X, [X EXCEPT ![c] = Append(@, b)], c, b, TRUE)
<1> DEFINE t == Append(X[c], b)
<1>1. /\ t \in Seq(Blocks) /\ IsInjective(t)
      /\ \A x : x \in ToSet(t) <=> x \in ToSet(X[c]) \/ x = b
  BY PushIs
<1> HIDE DEF t
<1> DEFINE X2 == [X EXCEPT ![c] = t]
<1>2. X2 \in [Caches -> Seq(Blocks)] /\ X2[c] = t /\ \A d \in Caches : d # c => X2[d] = X[d]
  BY <1>1
<1> HIDE DEF X2
<1>3. Hung(X, X2, c, b, TRUE)
  BY <1>1, <1>2 DEF Hung
<1> QED BY <1>3 DEF X2, t

LEMMA HungStay ==
    ASSUME NEW X \in [Caches -> Seq(Blocks)], NEW c \in Caches, IsInjective(X[c]), NEW b
    PROVE  Hung(X, X, c, b, b \in ToSet(X[c]))
BY DEF Hung

\* The same for one list and any two forms of the condition.
LEMMA HungIf ==
    ASSUME NEW X, NEW X2, NEW c, NEW b, NEW p, NEW q, Hung(X, X2, c, b, p), p <=> q
    PROVE  Hung(X, X2, c, b, q)
BY DEF Hung

\* What the lists say of a slab on one of them.
LEMMA OnIs ==
    ASSUME NEW fu, NEW pa, NEW em
    PROVE  \A x : x \in On(fu, pa, em) <=>
               \E c \in Caches : x \in ToSet(fu[c]) \/ x \in ToSet(pa[c]) \/ x \in ToSet(em[c])
BY DEF On

LEMMA ListsAre ==
    ASSUME NEW fu, NEW pa, NEW em, NEW sl, Lists(fu, pa, em, sl), NEW c \in Caches
    PROVE  /\ fu[c] \in Seq(Blocks) /\ pa[c] \in Seq(Blocks) /\ em[c] \in Seq(Blocks)
           /\ IsInjective(fu[c]) /\ IsInjective(pa[c]) /\ IsInjective(em[c])
           /\ \A b \in ToSet(fu[c]) : b \in Blocks /\ sl[b].cache = c /\ sl[b].free_objs = 0
           /\ \A b \in ToSet(pa[c]) : b \in Blocks /\ sl[b].cache = c
                                      /\ sl[b].free_objs \in 1 .. Objs[c] - 1
           /\ \A b \in ToSet(em[c]) : b \in Blocks /\ sl[b].cache = c
                                      /\ sl[b].free_objs = Objs[c]
<1>1. fu[c] \in Seq(Blocks) /\ pa[c] \in Seq(Blocks) /\ em[c] \in Seq(Blocks)
  BY DEF Lists
<1>2. /\ ToSet(fu[c]) \subseteq Blocks /\ ToSet(pa[c]) \subseteq Blocks
      /\ ToSet(em[c]) \subseteq Blocks
  BY <1>1, InSet
<1> QED BY <1>1, <1>2 DEF Lists

\* The count of a slab tells the list it is on.
LEMMA WhichList ==
    ASSUME NEW fu, NEW pa, NEW em, NEW sl, Lists(fu, pa, em, sl),
           NEW b \in On(fu, pa, em)
    PROVE  LET c == sl[b].cache  n == sl[b].free_objs
           IN /\ b \in Blocks /\ c \in Caches /\ n \in 0 .. Objs[c]
              /\ b \in ToSet(fu[c]) <=> n = 0
              /\ b \in ToSet(pa[c]) <=> n \in 1 .. Objs[c] - 1
              /\ b \in ToSet(em[c]) <=> n = Objs[c]
<1>1. PICK c \in Caches : b \in ToSet(fu[c]) \/ b \in ToSet(pa[c]) \/ b \in ToSet(em[c])
  BY OnIs
<1>2. Objs[c] \in Nat \ {0, 1}
  BY SlabConstants
<1>3. /\ b \in ToSet(fu[c]) => b \in Blocks /\ sl[b].cache = c /\ sl[b].free_objs = 0
      /\ b \in ToSet(pa[c]) => b \in Blocks /\ sl[b].cache = c
                               /\ sl[b].free_objs \in 1 .. Objs[c] - 1
      /\ b \in ToSet(em[c]) => b \in Blocks /\ sl[b].cache = c /\ sl[b].free_objs = Objs[c]
  BY ListsAre
<1> QED BY <1>1, <1>2, <1>3

\* Slab b of cache c has n free objects now, and is on the list that n says.
Written(sl, sl2, b, c, n) == /\ \A x \in Blocks : x # b => sl2[x] = sl[x]
                             /\ sl2[b].cache = c /\ sl2[b].free_objs = n
Moved(fu, pa, em, fu2, pa2, em2, b, c, n) ==
    /\ Hung(fu, fu2, c, b, n = 0)
    /\ Hung(pa, pa2, c, b, n \in 1 .. Objs[c] - 1)
    /\ Hung(em, em2, c, b, n = Objs[c])
LEMMA Rehung ==
    ASSUME NEW fu, NEW pa, NEW em, NEW sl, Lists(fu, pa, em, sl),
           NEW fu2, NEW pa2, NEW em2, NEW sl2, NEW c \in Caches, NEW b \in Blocks,
           b \in On(fu, pa, em) => sl[b].cache = c, NEW n \in 0 .. Objs[c],
           Written(sl, sl2, b, c, n), Moved(fu, pa, em, fu2, pa2, em2, b, c, n)
    PROVE  Lists(fu2, pa2, em2, sl2)
<1>0. /\ \A x \in Blocks : x # b => sl2[x] = sl[x]
      /\ sl2[b].cache = c /\ sl2[b].free_objs = n
  BY DEF Written
<1>1. /\ fu2 \in [Caches -> Seq(Blocks)] /\ pa2 \in [Caches -> Seq(Blocks)]
      /\ em2 \in [Caches -> Seq(Blocks)]
      /\ IsInjective(fu2[c]) /\ IsInjective(pa2[c]) /\ IsInjective(em2[c])
  BY DEF Moved, Hung
<1>2. \A d \in Caches : d # c => fu2[d] = fu[d] /\ pa2[d] = pa[d] /\ em2[d] = em[d]
  BY DEF Moved, Hung
<1>3. \A x : x \in ToSet(fu2[c]) <=> (x \in ToSet(fu[c]) /\ x # b)
                                     \/ (n = 0 /\ x = b)
  BY DEF Moved, Hung
<1>4. \A x : x \in ToSet(pa2[c]) <=> (x \in ToSet(pa[c]) /\ x # b)
                                     \/ (n \in 1 .. Objs[c] - 1 /\ x = b)
  BY DEF Moved, Hung
<1>5. \A x : x \in ToSet(em2[c]) <=> (x \in ToSet(em[c]) /\ x # b)
                                     \/ (n = Objs[c] /\ x = b)
  BY DEF Moved, Hung
<1>6. \A d \in Caches : d # c =>
          b \notin ToSet(fu[d]) /\ b \notin ToSet(pa[d]) /\ b \notin ToSet(em[d])
  <2> TAKE d \in Caches
  <2>1. b \in ToSet(fu[d]) \/ b \in ToSet(pa[d]) \/ b \in ToSet(em[d])
            => b \in On(fu, pa, em) /\ sl[b].cache = d
    BY OnIs, ListsAre
  <2> QED BY <2>1
<1>7. ASSUME NEW d \in Caches
      PROVE  /\ IsInjective(fu2[d]) /\ IsInjective(pa2[d]) /\ IsInjective(em2[d])
             /\ \A x \in ToSet(fu2[d]) : sl2[x].cache = d /\ sl2[x].free_objs = 0
             /\ \A x \in ToSet(pa2[d]) : sl2[x].cache = d
                                         /\ sl2[x].free_objs \in 1 .. Objs[d] - 1
             /\ \A x \in ToSet(em2[d]) : sl2[x].cache = d /\ sl2[x].free_objs = Objs[d]
  <2>1. /\ \A x \in ToSet(fu[d]) : x \in Blocks /\ sl[x].cache = d /\ sl[x].free_objs = 0
        /\ \A x \in ToSet(pa[d]) : x \in Blocks /\ sl[x].cache = d
                                   /\ sl[x].free_objs \in 1 .. Objs[d] - 1
        /\ \A x \in ToSet(em[d]) : x \in Blocks /\ sl[x].cache = d
                                   /\ sl[x].free_objs = Objs[d]
        /\ IsInjective(fu[d]) /\ IsInjective(pa[d]) /\ IsInjective(em[d])
    BY ListsAre
  <2>2. CASE d # c
    <3>1. fu2[d] = fu[d] /\ pa2[d] = pa[d] /\ em2[d] = em[d]
      BY <1>2, <2>2
    <3> QED BY <1>0, <1>6, <2>1, <2>2, <3>1
  <2>3. CASE d = c
    <3>2. \A x \in ToSet(fu2[c]) : sl2[x].cache = c /\ sl2[x].free_objs = 0
      BY <1>3, <2>1, <2>3, <1>0
    <3>3. \A x \in ToSet(pa2[c]) : sl2[x].cache = c /\ sl2[x].free_objs \in 1 .. Objs[c] - 1
      BY <1>4, <2>1, <2>3, <1>0
    <3>4. \A x \in ToSet(em2[c]) : sl2[x].cache = c /\ sl2[x].free_objs = Objs[c]
      BY <1>5, <2>1, <2>3, <1>0
    <3> QED BY <1>1, <2>3, <3>2, <3>3, <3>4
  <2> QED BY <2>2, <2>3
<1> QED BY <1>1, <1>7 DEF Lists

LEMMA RehungOn ==
    ASSUME NEW fu, NEW pa, NEW em, NEW fu2, NEW pa2, NEW em2, NEW c \in Caches, NEW b,
           NEW n \in 0 .. Objs[c], Moved(fu, pa, em, fu2, pa2, em2, b, c, n)
    PROVE  \A x : x \in On(fu2, pa2, em2) <=> x \in On(fu, pa, em) \/ x = b
<1>2. \A d \in Caches : d # c => fu2[d] = fu[d] /\ pa2[d] = pa[d] /\ em2[d] = em[d]
  BY DEF Moved, Hung
<1>3. \A x : x \in ToSet(fu2[c]) <=> (x \in ToSet(fu[c]) /\ x # b)
                                     \/ (n = 0 /\ x = b)
  BY DEF Moved, Hung
<1>4. \A x : x \in ToSet(pa2[c]) <=> (x \in ToSet(pa[c]) /\ x # b)
                                     \/ (n \in 1 .. Objs[c] - 1 /\ x = b)
  BY DEF Moved, Hung
<1>5. \A x : x \in ToSet(em2[c]) <=> (x \in ToSet(em[c]) /\ x # b)
                                     \/ (n = Objs[c] /\ x = b)
  BY DEF Moved, Hung
<1>9. ASSUME NEW x PROVE x \in On(fu2, pa2, em2) <=> x \in On(fu, pa, em) \/ x = b
  <2>1. CASE x = b
    <3>1. Objs[c] \in Nat \ {0, 1}
      BY SlabConstants
    <3>2. b \in ToSet(fu2[c]) \/ b \in ToSet(pa2[c]) \/ b \in ToSet(em2[c])
      BY <1>3, <1>4, <1>5, <3>1
    <3> QED BY <2>1, <3>2, OnIs
  <2>2. CASE x # b
    <3>1. \A d \in Caches : /\ x \in ToSet(fu2[d]) <=> x \in ToSet(fu[d])
                            /\ x \in ToSet(pa2[d]) <=> x \in ToSet(pa[d])
                            /\ x \in ToSet(em2[d]) <=> x \in ToSet(em[d])
      BY <1>2, <1>3, <1>4, <1>5, <2>2
    <3> QED BY <2>2, <3>1, OnIs
  <2> QED BY <2>1, <2>2
<1> QED BY <1>9

-----------------------------------------------------------------------------
(* The objects out, when one more is, one comes back, or a slab comes or   *)
(* goes.                                                                   *)

LEMMA ObjectIs ==
    ASSUME NEW o \in Object
    PROVE  /\ o = [block |-> o.block, i |-> o.i] /\ o.block \in Blocks /\ o.i \in Slots
BY DEF Object

\* The numbers of the objects of S in block b.
LEMMA NumbersAre ==
    ASSUME NEW S, \A o \in S : o \in Object, NEW b
    PROVE  \A i : i \in {o.i : o \in {p \in S : p.block = b}} <=> [block |-> b, i |-> i] \in S
<1> TAKE i
<1>1. ASSUME i \in {o.i : o \in {p \in S : p.block = b}} PROVE [block |-> b, i |-> i] \in S
  <2>1. PICK o \in S : o.block = b /\ o.i = i
    BY <1>1
  <2> QED BY <2>1, ObjectIs
<1>2. ASSUME [block |-> b, i |-> i] \in S PROVE i \in {o.i : o \in {p \in S : p.block = b}}
  <2> DEFINE o == [block |-> b, i |-> i]
  <2>1. o.block = b /\ o.i = i
    OBVIOUS
  <2> HIDE DEF o
  <2>2. o \in S
    BY <1>2 DEF o
  <2> QED BY <2>1, <2>2
<1> QED BY <1>1, <1>2

LEMMA DescIs ==
    ASSUME NEW L, NEW sl
    PROVE  /\ \A b : b \in OffSlab(L, sl) <=> b \in L /\ sl[b].cache > InSlabIndex
           /\ \A x : x \in Desc(L, sl) <=> \E b \in OffSlab(L, sl) : x \in sl[b].at
BY DEF Desc, OffSlab

\* Accounts, one object at a time.
Numbered(L, sl, out) ==
    \A b \in L : \A i : i \in Marked(sl[b]) <=> [block |-> b, i |-> i] \in out
LEMMA AccountsIs ==
    ASSUME NEW L, NEW sl, NEW us
    PROVE  Accounts(L, sl, us) <=>
             /\ \A b \in L : SlabOK(sl[b])
             /\ \A b \in L : sl[b].cache <= InSlabIndex => sl[b].at = {Header(b)}
             /\ \A o \in Out(L, sl, us) : o \in Object /\ o.block \in L
             /\ Numbered(L, sl, Out(L, sl, us))
             /\ us \cap Desc(L, sl) = {}
             /\ \A a, b \in OffSlab(L, sl) : a # b => sl[a].at \cap sl[b].at = {}
<1> DEFINE out == Out(L, sl, us)
           Num(b) == {o.i : o \in {p \in out : p.block = b}}
<1>1. ASSUME \A o \in out : o \in Object
      PROVE  (\A b \in L : Marked(sl[b]) = Num(b)) <=> Numbered(L, sl, out)
  <2> HIDE DEF out
  <2>1. \A b : \A i : i \in Num(b) <=> [block |-> b, i |-> i] \in out
    BY <1>1, NumbersAre
  <2> HIDE DEF Num
  <2>2. ASSUME NEW b \in L
        PROVE  Marked(sl[b]) = Num(b) <=>
                   \A i : i \in Marked(sl[b]) <=> [block |-> b, i |-> i] \in out
    <3>1. Marked(sl[b]) = Num(b) <=> \A i : i \in Marked(sl[b]) <=> i \in Num(b)
      OBVIOUS
    <3> QED BY <2>1, <3>1
  <2> QED BY <2>2 DEF Numbered
<1>2. Accounts(L, sl, us) <=>
             /\ \A b \in L : SlabOK(sl[b])
             /\ \A b \in L : sl[b].cache <= InSlabIndex => sl[b].at = {Header(b)}
             /\ \A o \in out : o \in Object /\ o.block \in L
             /\ \A b \in L : Marked(sl[b]) = Num(b)
             /\ us \cap Desc(L, sl) = {}
             /\ \A a, b \in OffSlab(L, sl) : a # b => sl[a].at \cap sl[b].at = {}
  BY DEF Accounts
<1> HIDE DEF out, Num
<1>3. CASE \A o \in out : o \in Object /\ o.block \in L
  <2>1. \A o \in out : o \in Object
    BY <1>3
  <2>2. (\A b \in L : Marked(sl[b]) = Num(b)) <=> Numbered(L, sl, out)
    BY <1>1, <2>1
  <2> QED BY <1>2, <2>2, Zenon DEF out
<1>4. CASE ~ \A o \in out : o \in Object /\ o.block \in L
  BY <1>2, <1>4, Zenon DEF out
<1> QED BY <1>3, <1>4

\* The slabs stay the same but for the objects of b.
SameBut(L, sl, sl2, b) == /\ \A x \in L : x # b => sl2[x] = sl[x]
                          /\ sl2[b].cache = sl[b].cache /\ sl2[b].at = sl[b].at
LEMMA SameDesc ==
    ASSUME NEW L, NEW sl, NEW sl2, NEW b \in L, SameBut(L, sl, sl2, b)
    PROVE  /\ \A x \in L : sl2[x].cache = sl[x].cache /\ sl2[x].at = sl[x].at
           /\ OffSlab(L, sl2) = OffSlab(L, sl) /\ Desc(L, sl2) = Desc(L, sl)
<1>1. \A x \in L : sl2[x].cache = sl[x].cache /\ sl2[x].at = sl[x].at
  BY DEF SameBut
<1>2. \A x : x \in OffSlab(L, sl2) <=> x \in OffSlab(L, sl)
  BY <1>1, DescIs
<1>3. OffSlab(L, sl2) = OffSlab(L, sl)
  BY <1>2
<1>4. \A x : x \in Desc(L, sl2) <=> x \in Desc(L, sl)
  BY <1>1, <1>3, DescIs
<1> QED BY <1>1, <1>3, <1>4

\* One more object is out.
LEMMA AccountsOut ==
    ASSUME NEW L, L \subseteq Blocks, NEW sl, NEW us, Accounts(L, sl, us),
           NEW b \in L, NEW i \in Unmarked(sl[b]),
           NEW sl2, SameBut(L, sl, sl2, b), SlabOK(sl2[b]),
           Marked(sl2[b]) = Marked(sl[b]) \cup {i}
    PROVE  LET o == [block |-> b, i |-> i]
           IN o \in Object /\ o \notin Out(L, sl, us) /\ Accounts(L, sl2, us \cup {o})
<1> DEFINE o == [block |-> b, i |-> i]
<1>1. /\ \A x \in L : SlabOK(sl[x])
      /\ \A x \in L : sl[x].cache <= InSlabIndex => sl[x].at = {Header(x)}
      /\ \A p \in Out(L, sl, us) : p \in Object /\ p.block \in L
      /\ Numbered(L, sl, Out(L, sl, us))
      /\ us \cap Desc(L, sl) = {}
      /\ \A x, y \in OffSlab(L, sl) : x # y => sl[x].at \cap sl[y].at = {}
  BY AccountsIs
<1>2. o.block = b /\ o.i = i
  OBVIOUS
<1>3. o \in Object
  <2>1. sl[b].cache \in Caches /\ i \in 0 .. Objs[sl[b].cache] - 1
    BY <1>1, SlabTypes
  <2>2. i \in Slots
    BY <2>1 DEF Slots
  <2>3. b \in Blocks
    OBVIOUS
  <2> QED BY <2>2, <2>3 DEF Object
<1>4. i \notin Marked(sl[b])
  BY DEF Marked, Unmarked
<1>5. o \notin Out(L, sl, us)
  BY <1>1, <1>4 DEF Numbered
<1> HIDE DEF o
<1>6. /\ \A x \in L : sl2[x].cache = sl[x].cache /\ sl2[x].at = sl[x].at
      /\ OffSlab(L, sl2) = OffSlab(L, sl) /\ Desc(L, sl2) = Desc(L, sl)
  BY SameDesc
<1>7. Out(L, sl2, us \cup {o}) = Out(L, sl, us) \cup {o}
  BY <1>6 DEF Out
<1>8. \A x \in L : x # b => sl2[x] = sl[x]
  BY DEF SameBut
<1>9. Numbered(L, sl2, Out(L, sl, us) \cup {o})
  <2> SUFFICES ASSUME NEW x \in L, NEW j
               PROVE  j \in Marked(sl2[x]) <=> \/ [block |-> x, i |-> j] \in Out(L, sl, us)
                                               \/ [block |-> x, i |-> j] = o
    BY DEF Numbered
  <2>1. j \in Marked(sl[x]) <=> [block |-> x, i |-> j] \in Out(L, sl, us)
    BY <1>1 DEF Numbered
  <2>2. [block |-> x, i |-> j] = o <=> x = b /\ j = i
    BY DEF o
  <2>3. CASE x = b
    BY <2>1, <2>2, <2>3
  <2>4. CASE x # b
    <3>1. sl2[x] = sl[x]
      BY <1>8, <2>4
    <3> QED BY <2>1, <2>2, <2>4, <3>1
  <2> QED BY <2>3, <2>4
<1>10. o \notin Desc(L, sl)
  BY <1>5 DEF Out
<1>11. \A x \in L : SlabOK(sl2[x])
  BY <1>1, <1>8
<1>12. \A x \in L : sl2[x].cache <= InSlabIndex => sl2[x].at = {Header(x)}
  BY <1>1, <1>6
<1>13. \A p \in Out(L, sl, us) \cup {o} : p \in Object /\ p.block \in L
  BY <1>1, <1>2, <1>3 DEF o
<1>14. (us \cup {o}) \cap Desc(L, sl) = {}
  BY <1>1, <1>10
<1>15. \A x, y \in OffSlab(L, sl) : x # y => sl2[x].at \cap sl2[y].at = {}
  <2>1. \A x \in OffSlab(L, sl) : x \in L
    BY DescIs
  <2> QED BY <1>1, <1>6, <2>1
<1>16. Accounts(L, sl2, us \cup {o})
  BY <1>6, <1>7, <1>9, <1>11, <1>12, <1>13, <1>14, <1>15, AccountsIs
<1> QED BY <1>3, <1>5, <1>16 DEF o

\* One that a caller held comes back.
LEMMA AccountsBack ==
    ASSUME NEW L, L \subseteq Blocks, NEW sl, NEW us, Accounts(L, sl, us),
           NEW o \in us, NEW sl2, SameBut(L, sl, sl2, o.block), SlabOK(sl2[o.block]),
           Marked(sl2[o.block]) = Marked(sl[o.block]) \ {o.i}
    PROVE  Accounts(L, sl2, us \ {o})
<1> DEFINE b == o.block
           i == o.i
<1>1. /\ \A x \in L : SlabOK(sl[x])
      /\ \A x \in L : sl[x].cache <= InSlabIndex => sl[x].at = {Header(x)}
      /\ \A p \in Out(L, sl, us) : p \in Object /\ p.block \in L
      /\ Numbered(L, sl, Out(L, sl, us))
      /\ us \cap Desc(L, sl) = {}
      /\ \A x, y \in OffSlab(L, sl) : x # y => sl[x].at \cap sl[y].at = {}
  BY AccountsIs
<1>2. o \in Out(L, sl, us) /\ o \notin Desc(L, sl)
  BY <1>1 DEF Out
<1>3. o \in Object /\ b \in L /\ o = [block |-> b, i |-> i]
  BY <1>1, <1>2, ObjectIs
<1>4. SlabOK(sl2[b]) /\ Marked(sl2[b]) = Marked(sl[b]) \ {i} /\ SameBut(L, sl, sl2, b)
  OBVIOUS
<1> HIDE DEF b, i
<1>6. /\ \A x \in L : sl2[x].cache = sl[x].cache /\ sl2[x].at = sl[x].at
      /\ OffSlab(L, sl2) = OffSlab(L, sl) /\ Desc(L, sl2) = Desc(L, sl)
  BY <1>3, <1>4, SameDesc
<1>7. Out(L, sl2, us \ {o}) = Out(L, sl, us) \ {o}
  BY <1>2, <1>6 DEF Out
<1>8. \A x \in L : x # b => sl2[x] = sl[x]
  BY <1>4 DEF SameBut
<1>9. Numbered(L, sl2, Out(L, sl, us) \ {o})
  <2> SUFFICES ASSUME NEW x \in L, NEW j
               PROVE  j \in Marked(sl2[x]) <=> /\ [block |-> x, i |-> j] \in Out(L, sl, us)
                                               /\ [block |-> x, i |-> j] # o
    BY DEF Numbered
  <2>1. j \in Marked(sl[x]) <=> [block |-> x, i |-> j] \in Out(L, sl, us)
    BY <1>1 DEF Numbered
  <2>2. [block |-> x, i |-> j] = o <=> x = b /\ j = i
    BY <1>3
  <2>3. CASE x = b
    BY <1>4, <2>1, <2>2, <2>3
  <2>4. CASE x # b
    <3>1. sl2[x] = sl[x]
      BY <1>8, <2>4
    <3> QED BY <2>1, <2>2, <2>4, <3>1
  <2> QED BY <2>3, <2>4
<1>11. \A x \in L : SlabOK(sl2[x])
  BY <1>1, <1>4, <1>8
<1>12. \A x \in L : sl2[x].cache <= InSlabIndex => sl2[x].at = {Header(x)}
  BY <1>1, <1>6
<1>13. \A p \in Out(L, sl, us) \ {o} : p \in Object /\ p.block \in L
  BY <1>1
<1>14. (us \ {o}) \cap Desc(L, sl) = {}
  BY <1>1
<1>15. \A x, y \in OffSlab(L, sl) : x # y => sl2[x].at \cap sl2[y].at = {}
  <2>1. \A x \in OffSlab(L, sl) : x \in L
    BY DescIs
  <2> QED BY <1>1, <1>6, <2>1
<1> QED BY <1>6, <1>7, <1>9, <1>11, <1>12, <1>13, <1>14, <1>15, AccountsIs

\* A new slab with its descriptor in its own block.
LEMMA AccountsOnSlab ==
    ASSUME NEW L, NEW sl, NEW us, Accounts(L, sl, us), NEW b, b \notin L,
           NEW sl2, \A x \in L : sl2[x] = sl[x], SlabOK(sl2[b]), Marked(sl2[b]) = {},
           sl2[b].cache <= InSlabIndex, sl2[b].at = {Header(b)}
    PROVE  Accounts(L \cup {b}, sl2, us)
<1> DEFINE L2 == L \cup {b}
<1>1. /\ \A x \in L : SlabOK(sl[x])
      /\ \A x \in L : sl[x].cache <= InSlabIndex => sl[x].at = {Header(x)}
      /\ \A p \in Out(L, sl, us) : p \in Object /\ p.block \in L
      /\ Numbered(L, sl, Out(L, sl, us))
      /\ us \cap Desc(L, sl) = {}
      /\ \A x, y \in OffSlab(L, sl) : x # y => sl[x].at \cap sl[y].at = {}
  BY AccountsIs
<1>2. ~(sl2[b].cache > InSlabIndex)
  <2>1. sl2[b].cache \in Nat
    BY SlabTypes
  <2>2. InSlabIndex \in Nat
    BY SlabConstants
  <2> QED BY <2>1, <2>2
<1>3. OffSlab(L2, sl2) = OffSlab(L, sl)
  <2>1. \A x : x \in OffSlab(L2, sl2) <=> x \in OffSlab(L, sl)
    BY <1>2, DescIs
  <2> QED BY <2>1
<1>4. \A x \in OffSlab(L, sl) : x \in L /\ sl2[x] = sl[x]
  BY DescIs
<1>5. Desc(L2, sl2) = Desc(L, sl)
  <2>1. \A x : x \in Desc(L2, sl2) <=> x \in Desc(L, sl)
    BY <1>3, <1>4, DescIs
  <2> QED BY <2>1
<1>6. Out(L2, sl2, us) = Out(L, sl, us)
  BY <1>5 DEF Out
<1>7. Numbered(L2, sl2, Out(L, sl, us))
  <2> SUFFICES ASSUME NEW x \in L2, NEW j
               PROVE  j \in Marked(sl2[x]) <=> [block |-> x, i |-> j] \in Out(L, sl, us)
    BY DEF Numbered
  <2>1. CASE x \in L
    BY <1>1, <2>1 DEF Numbered
  <2>2. CASE x = b
    <3> DEFINE o == [block |-> x, i |-> j]
    <3>1. o.block = x
      OBVIOUS
    <3> HIDE DEF o
    <3>2. o \notin Out(L, sl, us)
      BY <1>1, <2>2, <3>1
    <3> QED BY <2>2, <3>2 DEF o
  <2> QED BY <2>1, <2>2
<1>8. \A x \in L2 : SlabOK(sl2[x]) /\ (sl2[x].cache <= InSlabIndex => sl2[x].at = {Header(x)})
  BY <1>1
<1>9. \A p \in Out(L, sl, us) : p \in Object /\ p.block \in L2
  BY <1>1
<1>10. \A x, y \in OffSlab(L, sl) : x # y => sl2[x].at \cap sl2[y].at = {}
  BY <1>1, <1>4
<1> HIDE DEF L2
<1>11. Accounts(L2, sl2, us)
  BY <1>1, <1>3, <1>5, <1>6, <1>7, <1>8, <1>9, <1>10, AccountsIs
<1> QED BY <1>11 DEF L2

\* A new slab with its descriptor in an object that was on its way to a caller.
LEMMA AccountsOffSlab ==
    ASSUME NEW L, NEW sl, NEW us, Accounts(L, sl, us), NEW b, b \notin L, NEW d \in us,
           NEW sl2, \A x \in L : sl2[x] = sl[x], SlabOK(sl2[b]), Marked(sl2[b]) = {},
           sl2[b].cache > InSlabIndex, sl2[b].at = {d}
    PROVE  Accounts(L \cup {b}, sl2, us \ {d})
<1> DEFINE L2 == L \cup {b}
<1>1. /\ \A x \in L : SlabOK(sl[x])
      /\ \A x \in L : sl[x].cache <= InSlabIndex => sl[x].at = {Header(x)}
      /\ \A p \in Out(L, sl, us) : p \in Object /\ p.block \in L
      /\ Numbered(L, sl, Out(L, sl, us))
      /\ us \cap Desc(L, sl) = {}
      /\ \A x, y \in OffSlab(L, sl) : x # y => sl[x].at \cap sl[y].at = {}
  BY AccountsIs
<1>2. ~(sl2[b].cache <= InSlabIndex)
  <2>1. sl2[b].cache \in Nat
    BY SlabTypes
  <2>2. InSlabIndex \in Nat
    BY SlabConstants
  <2> QED BY <2>1, <2>2
<1>3. OffSlab(L2, sl2) = OffSlab(L, sl) \cup {b}
  <2>1. \A x : x \in OffSlab(L2, sl2) <=> x \in OffSlab(L, sl) \/ x = b
    BY DescIs
  <2> QED BY <2>1
<1>4. \A x \in OffSlab(L, sl) : x \in L /\ sl2[x] = sl[x] /\ x # b
  BY DescIs
<1>5. Desc(L2, sl2) = Desc(L, sl) \cup {d}
  <2>1. \A x : x \in Desc(L2, sl2) <=> x \in Desc(L, sl) \/ x = d
    BY <1>3, <1>4, DescIs
  <2> QED BY <2>1
<1>6. Out(L2, sl2, us \ {d}) = Out(L, sl, us)
  BY <1>5 DEF Out
<1>7. Numbered(L2, sl2, Out(L, sl, us))
  <2> SUFFICES ASSUME NEW x \in L2, NEW j
               PROVE  j \in Marked(sl2[x]) <=> [block |-> x, i |-> j] \in Out(L, sl, us)
    BY DEF Numbered
  <2>1. CASE x \in L
    BY <1>1, <2>1 DEF Numbered
  <2>2. CASE x = b
    <3> DEFINE o == [block |-> x, i |-> j]
    <3>1. o.block = x
      OBVIOUS
    <3> HIDE DEF o
    <3>2. o \notin Out(L, sl, us)
      BY <1>1, <2>2, <3>1
    <3> QED BY <2>2, <3>2 DEF o
  <2> QED BY <2>1, <2>2
<1>8. \A x \in L2 : SlabOK(sl2[x]) /\ (sl2[x].cache <= InSlabIndex => sl2[x].at = {Header(x)})
  BY <1>1, <1>2
<1>9. \A p \in Out(L, sl, us) : p \in Object /\ p.block \in L2
  BY <1>1
<1>10. \A x, y \in OffSlab(L, sl) \cup {b} : x # y => sl2[x].at \cap sl2[y].at = {}
  <2>1. \A x \in OffSlab(L, sl) : d \notin sl[x].at
    BY <1>1, DescIs
  <2> QED BY <1>1, <1>4, <2>1
<1>11. (us \ {d}) \cap (Desc(L, sl) \cup {d}) = {}
  BY <1>1
<1> HIDE DEF L2
<1>12. Accounts(L2, sl2, us \ {d})
  BY <1>3, <1>5, <1>6, <1>7, <1>8, <1>9, <1>10, <1>11, AccountsIs
<1> QED BY <1>12 DEF L2

\* Slabs of which no object is out go, with the descriptors in them.
LEMMA AccountsGone ==
    ASSUME NEW L, NEW sl, NEW us, Accounts(L, sl, us), NEW L2, L2 \subseteq L,
           \A b \in L \ L2 : Marked(sl[b]) = {}, OffSlab(L, sl) \subseteq L2
    PROVE  Accounts(L2, sl, us)
<1>1. /\ \A x \in L : SlabOK(sl[x])
      /\ \A x \in L : sl[x].cache <= InSlabIndex => sl[x].at = {Header(x)}
      /\ \A p \in Out(L, sl, us) : p \in Object /\ p.block \in L
      /\ Numbered(L, sl, Out(L, sl, us))
      /\ us \cap Desc(L, sl) = {}
      /\ \A x, y \in OffSlab(L, sl) : x # y => sl[x].at \cap sl[y].at = {}
  BY AccountsIs
<1>2. OffSlab(L2, sl) = OffSlab(L, sl)
  <2>1. \A x : x \in OffSlab(L2, sl) <=> x \in OffSlab(L, sl)
    BY DescIs
  <2> QED BY <2>1
<1>3. Desc(L2, sl) = Desc(L, sl)
  BY <1>2 DEF Desc
<1>4. Out(L2, sl, us) = Out(L, sl, us)
  BY <1>3 DEF Out
<1>5. \A o \in Out(L, sl, us) : o.block \in L2
  <2> TAKE o \in Out(L, sl, us)
  <2>1. o \in Object /\ o.block \in L /\ o = [block |-> o.block, i |-> o.i]
    BY <1>1, ObjectIs
  <2>2. o.i \in Marked(sl[o.block])
    BY <1>1, <2>1 DEF Numbered
  <2> QED BY <2>1, <2>2
<1>6. Numbered(L2, sl, Out(L, sl, us))
  BY <1>1 DEF Numbered
<1>7. \A x \in L2 : SlabOK(sl[x]) /\ (sl[x].cache <= InSlabIndex => sl[x].at = {Header(x)})
  BY <1>1
<1> QED BY <1>1, <1>2, <1>3, <1>4, <1>5, <1>6, <1>7, AccountsIs

-----------------------------------------------------------------------------
(* try_free_empty_slabs, on any number of lists.                           *)

\* K[c] slabs are popped from the back of the empty list of each cache c; the pages
\* that are freed then.
Trimmed(em, K) == [c \in Caches |-> SubSeq(em[c], 1, Len(em[c]) - K[c])]
Popped(em, K)  == UNION {{PageFreed(i, em[c][Len(em[c]) - i]) : i \in 0 .. K[c] - 1} : c \in Caches}

LEMMA SurplusIs ==
    ASSUME NEW flag \in {"NORMAL", "SOFT", "FORCE"}, NEW n \in Nat
    PROVE  Surplus(flag, n) \in 0 .. n
<1>1. MaxEmptySlabs \in Nat
  BY SlabConstants
<1>2. CASE flag = "NORMAL"
  <2>1. Surplus(flag, n) = IF n > MaxEmptySlabs THEN n - MaxEmptySlabs ELSE 0
    BY <1>2 DEF Surplus
  <2> QED BY <1>1, <2>1
<1>3. CASE flag = "SOFT"
  <2>1. Surplus(flag, n) = n \div 2
    BY <1>3 DEF Surplus
  <2> QED BY <2>1
<1>4. CASE flag = "FORCE"
  <2>1. Surplus(flag, n) = n
    BY <1>4 DEF Surplus
  <2> QED BY <2>1
<1> QED BY <1>2, <1>3, <1>4

\* No slab whose descriptor lies elsewhere among them: the pages freed are those of the
\* slabs that left, and the rest stays as it is.
LEMMA GivenBack ==
    ASSUME NEW fu, NEW pa, NEW em, NEW sl, NEW us, NEW K,
           Lists(fu, pa, em, sl), Accounts(On(fu, pa, em), sl, us),
           \A b \in On(fu, pa, em) : slab[b].at = sl[b].at,
           \A c \in Caches : K[c] \in 0 .. Len(em[c]),
           OffSlab(On(fu, pa, em), sl) \subseteq On(fu, pa, Trimmed(em, K))
    PROVE  /\ Lists(fu, pa, Trimmed(em, K), sl)
           /\ On(fu, pa, Trimmed(em, K)) \subseteq On(fu, pa, em)
           /\ Accounts(On(fu, pa, Trimmed(em, K)), sl, us)
           /\ Popped(em, K) = On(fu, pa, em) \ On(fu, pa, Trimmed(em, K))
<1> DEFINE em2 == Trimmed(em, K)
           L == On(fu, pa, em)
           L2 == On(fu, pa, em2)
           Gone(c, x) == \E i \in 0 .. K[c] - 1 : x = em[c][Len(em[c]) - i]
<1>1. ASSUME NEW c \in Caches
      PROVE  /\ em2[c] \in Seq(Blocks) /\ IsInjective(em2[c])
             /\ \A x : x \in ToSet(em[c]) <=> x \in ToSet(em2[c]) \/ Gone(c, x)
             /\ \A x : Gone(c, x) => x \notin ToSet(em2[c])
  <2>1. em[c] \in Seq(Blocks) /\ IsInjective(em[c]) /\ K[c] \in 0 .. Len(em[c])
    BY ListsAre
  <2> DEFINE t == SubSeq(em[c], 1, Len(em[c]) - K[c])
  <2>2. /\ t \in Seq(Blocks) /\ IsInjective(t)
        /\ \A x : x \in ToSet(em[c]) <=>
               x \in ToSet(t) \/ \E i \in 0 .. K[c] - 1 : x = em[c][Len(em[c]) - i]
        /\ \A i \in 0 .. K[c] - 1 : em[c][Len(em[c]) - i] \notin ToSet(t)
    BY <2>1, TrimIs
  <2>3. em2[c] = t
    BY DEF Trimmed
  <2> HIDE DEF em2, t
  <2> QED BY <2>2, <2>3
<1>2. em2 \in [Caches -> Seq(Blocks)]
  <2>1. em2 = [c \in Caches |-> em2[c]]
    BY DEF Trimmed
  <2> HIDE DEF em2
  <2> QED BY <1>1, <2>1
<1> HIDE DEF em2, Gone
<1>3. Lists(fu, pa, em2, sl)
  <2>1. \A c \in Caches : \A x \in ToSet(em2[c]) : x \in ToSet(em[c])
    BY <1>1
  <2> QED BY <1>1, <1>2, <2>1 DEF Lists
<1>4. L2 \subseteq L
  <2> SUFFICES ASSUME NEW x \in L2 PROVE x \in L
    OBVIOUS
  <2>1. PICK c \in Caches : x \in ToSet(fu[c]) \/ x \in ToSet(pa[c]) \/ x \in ToSet(em2[c])
    BY OnIs
  <2>2. x \in ToSet(fu[c]) \/ x \in ToSet(pa[c]) \/ x \in ToSet(em[c])
    BY <1>1, <2>1
  <2> QED BY <2>2, OnIs
<1>5. ASSUME NEW x PROVE x \in L \ L2 <=> \E c \in Caches : Gone(c, x)
  <2>1. ASSUME x \in L \ L2 PROVE \E c \in Caches : Gone(c, x)
    <3>1. PICK c \in Caches : x \in ToSet(fu[c]) \/ x \in ToSet(pa[c]) \/ x \in ToSet(em[c])
      BY <2>1, OnIs
    <3>2. x \notin ToSet(fu[c]) /\ x \notin ToSet(pa[c]) /\ x \notin ToSet(em2[c])
      BY <2>1, OnIs
    <3> QED BY <3>1, <3>2, <1>1
  <2>2. ASSUME NEW c \in Caches, Gone(c, x) PROVE x \in L \ L2
    <3>1. x \in ToSet(em[c]) /\ x \notin ToSet(em2[c])
      BY <2>2, <1>1
    <3>2. x \in L
      BY <3>1, OnIs
    <3>3. sl[x].cache = c /\ sl[x].free_objs = Objs[c]
      BY <3>1, ListsAre
    <3>4. x \notin L2
      BY <1>3, <3>1, <3>3, WhichList
    <3> QED BY <3>2, <3>4
  <2> QED BY <2>1, <2>2
<1>6. ASSUME NEW x \in L \ L2
      PROVE  Marked(sl[x]) = {} /\ \A i : PageFreed(i, x) = x
  <2>1. PICK c \in Caches : Gone(c, x)
    BY <1>5
  <2>2. sl[x].cache = c /\ sl[x].free_objs = Objs[c]
    BY <1>1, <2>1, ListsAre
  <2>3. /\ SlabOK(sl[x]) /\ (sl[x].cache <= InSlabIndex => sl[x].at = {Header(x)})
    BY AccountsIs
  <2>4. Marked(sl[x]) = {}
    BY <2>2, <2>3, EmptyIs
  <2>5. sl[x].cache <= InSlabIndex
    <3>1. x \notin OffSlab(L, sl)
      BY DEF em2
    <3>2. ~(sl[x].cache > InSlabIndex)
      BY <3>1, DescIs
    <3>3. sl[x].cache \in Nat /\ InSlabIndex \in Nat
      BY <2>3, SlabTypes, SlabConstants
    <3> QED BY <3>2, <3>3
  <2>6. slab[x].at = {Header(x)}
    BY <2>3, <2>5
  <2>7. (CHOOSE d \in slab[x].at : TRUE) = Header(x)
    BY <2>6
  <2>8. Header(x).block = x
    BY DEF Header
  <2>9. \A i : PageFreed(i, x) = x
    BY <2>7, <2>8 DEF PageFreed
  <2> QED BY <2>4, <2>9
<1>7. Accounts(L2, sl, us)
  <2>1. OffSlab(L, sl) \subseteq L2
    BY DEF em2
  <2> HIDE DEF L, L2
  <2>2. Accounts(L, sl, us)
    BY DEF L
  <2> QED BY <1>4, <1>6, <2>1, <2>2, AccountsGone
<1>8. ASSUME NEW x PROVE x \in Popped(em, K) <=> x \in L \ L2
  <2>1. x \in Popped(em, K) <=>
          \E c \in Caches : \E i \in 0 .. K[c] - 1 : x = PageFreed(i, em[c][Len(em[c]) - i])
    BY DEF Popped
  <2>2. \A c \in Caches : \A i \in 0 .. K[c] - 1 : Gone(c, em[c][Len(em[c]) - i])
    BY DEF Gone
  <2>3. \A c \in Caches : \A i \in 0 .. K[c] - 1 :
            PageFreed(i, em[c][Len(em[c]) - i]) = em[c][Len(em[c]) - i]
    <3> TAKE c \in Caches
    <3> TAKE i \in 0 .. K[c] - 1
    <3>1. PICK y : y = em[c][Len(em[c]) - i]
      OBVIOUS
    <3>2. y \in L \ L2
      BY <3>1, <2>2, <1>5
    <3> QED BY <3>1, <3>2, <1>6
  <2>4. x \in Popped(em, K) <=>
          \E c \in Caches : \E i \in 0 .. K[c] - 1 : x = em[c][Len(em[c]) - i]
    BY <2>1, <2>3
  <2>5. x \in Popped(em, K) <=> \E c \in Caches : Gone(c, x)
    BY <2>4 DEF Gone
  <2> QED BY <2>5, <1>5
<1> QED BY <1>3, <1>4, <1>7, <1>8 DEF em2

-----------------------------------------------------------------------------
(* The calls in progress.                                                  *)

LEMMA ListedIs ==
    Listed = On(full, partial, empty)
BY DEF Listed, On

LEMMA HeadIs ==
    ASSUME NEW s \in Seq(Blocks), NEW t \in Seq(Blocks)
    PROVE  /\ s \o t = <<>> <=> s = <<>> /\ t = <<>>
           /\ s \o t # <<>> => Head(s \o t) \in ToSet(s) \cup ToSet(t)
<1>1. /\ s \o t \in Seq(Blocks) /\ Len(s \o t) = Len(s) + Len(t)
      /\ \A j \in 1 .. Len(s) + Len(t) :
             (s \o t)[j] = IF j <= Len(s) THEN s[j] ELSE t[j - Len(s)]
  BY ConcatProperties
<1>2. Len(s) \in Nat /\ Len(t) \in Nat /\ (s = <<>> <=> Len(s) = 0) /\ (t = <<>> <=> Len(t) = 0)
  OBVIOUS
<1>3. s \o t = <<>> <=> Len(s \o t) = 0
  BY <1>1
<1>4. s \o t = <<>> <=> s = <<>> /\ t = <<>>
  BY <1>1, <1>2, <1>3
<1>5. ASSUME s \o t # <<>> PROVE Head(s \o t) \in ToSet(s) \cup ToSet(t)
  <2>1. Head(s \o t) = (s \o t)[1]
    <3> DEFINE u == s \o t
    <3>1. u \in Seq(Blocks) /\ u # <<>>
      BY <1>1, <1>5
    <3> HIDE DEF u
    <3>2. Head(u) = u[1]
      BY <3>1
    <3> QED BY <3>2 DEF u
  <2>2. Len(s) + Len(t) # 0
    BY <1>1, <1>3, <1>5
  <2>3. 1 \in 1 .. Len(s) + Len(t)
    BY <2>2, <1>2
  <2>4. CASE 1 <= Len(s)
    <3>1. (s \o t)[1] = s[1] /\ 1 \in 1 .. Len(s)
      BY <1>1, <1>2, <2>3, <2>4
    <3>2. s[1] \in ToSet(s)
      BY <3>1, InSet
    <3> QED BY <2>1, <3>1, <3>2
  <2>5. CASE ~(1 <= Len(s))
    <3>1. Len(s) = 0 /\ 1 \in 1 .. Len(t)
      BY <1>2, <2>3, <2>5
    <3>2. (s \o t)[1] = t[1]
      BY <1>1, <2>3, <3>1
    <3>3. t[1] \in ToSet(t)
      BY <3>1, InSet
    <3> QED BY <2>1, <3>2, <3>3
  <2> QED BY <2>4, <2>5
<1> QED BY <1>4, <1>5

\* The pages that calls hold.
HeldBy(cs) == UNION {cs[k].page : k \in DOMAIN cs}
LEMMA HeldByIs ==
    /\ Held = HeldBy(calls)
    /\ HeldBy(<<>>) = {}
    /\ \A c : HeldBy(<<Call(c)>>) = {} /\ Call(c).cache = c
    /\ \A c, b : HeldBy(<<Outer(c, b)>>) = {b} /\ Outer(c, b).cache = c /\ Outer(c, b).page = {b}
    /\ \A d, c, b : HeldBy(<<Call(d), Outer(c, b)>>) = {b}
<1>1. Held = HeldBy(calls)
  BY DEF Held, HeldBy
<1>2. HeldBy(<<>>) = {}
  BY DEF HeldBy
<1>3. \A x : DOMAIN <<x>> = {1} /\ <<x>>[1] = x
  OBVIOUS
<1>4. \A x, y : DOMAIN <<x, y>> = {1, 2} /\ <<x, y>>[1] = x /\ <<x, y>>[2] = y
  OBVIOUS
<1>5. \A x : HeldBy(<<x>>) = x.page
  BY <1>3 DEF HeldBy
<1>6. \A x, y : HeldBy(<<x, y>>) = x.page \cup y.page
  BY <1>4 DEF HeldBy
<1>7. \A c : Call(c).page = {} /\ Call(c).cache = c
  BY DEF Call
<1>8. \A c, b : Outer(c, b).page = {b} /\ Outer(c, b).cache = c
  BY DEF Outer
<1>9. \A d, c, b : Call(d).page \cup Outer(c, b).page = {b}
  BY <1>7, <1>8
<1> QED BY <1>1, <1>2, <1>5, <1>6, <1>7, <1>8, <1>9

\* The innermost call looks in cache d, for a caller or for the call that waits.
Nested(d, c, b) == /\ Waiting(c, b) /\ d = DescCache[c] /\ d <= InSlabIndex /\ d # c
                   /\ calls = <<Call(d), Outer(c, b)>> /\ Tail(calls) = <<Outer(c, b)>>
                   /\ Held = {b}
LEMMA RunCalls ==
    ASSUME CallsOK, pc = "run"
    PROVE  /\ Top.cache \in Caches /\ Top = Call(Top.cache) /\ ret = {}
           /\ \/ calls = <<Call(Top.cache)>> /\ Tail(calls) = <<>> /\ Held = {}
              \/ \E c \in Caches, b \in Blocks : Nested(Top.cache, c, b)
<1>1. ret = {}
  BY DEF CallsOK
<1>2. \/ \E c \in Caches : calls = <<Call(c)>>
      \/ \E c \in Caches, b \in Blocks : Waiting(c, b) /\ calls = <<Call(DescCache[c]), Outer(c, b)>>
  BY DEF CallsOK
<1>3. ASSUME NEW c \in Caches, calls = <<Call(c)>>
      PROVE  /\ Top.cache \in Caches /\ Top = Call(Top.cache)
             /\ calls = <<Call(Top.cache)>> /\ Tail(calls) = <<>> /\ Held = {}
  <2>1. Top = Call(c) /\ Tail(calls) = <<>>
    BY <1>3 DEF Top
  <2> QED BY <2>1, <1>3, HeldByIs
<1>4. ASSUME NEW c \in Caches, NEW b \in Blocks, Waiting(c, b),
             calls = <<Call(DescCache[c]), Outer(c, b)>>
      PROVE  Top.cache \in Caches /\ Top = Call(Top.cache) /\ Nested(Top.cache, c, b)
  <2> DEFINE d == DescCache[c]
  <2>1. Top = Call(d) /\ Tail(calls) = <<Outer(c, b)>>
    BY <1>4 DEF Top
  <2>2. Top.cache = d /\ Held = {b}
    BY <2>1, <1>4, HeldByIs
  <2>3. d \in Caches /\ d <= InSlabIndex /\ c > InSlabIndex
    BY <1>4, SlabConstants DEF Waiting
  <2>4. d # c
    <3>1. \A x \in Caches : x \in Int
      <4> TAKE x \in Caches
      <4>1. x \in 0 .. Cardinality(Caches) - 1
        BY SlabConstants
      <4> QED BY <4>1
    <3>2. InSlabIndex \in Int
      BY SlabConstants
    <3> QED BY <2>3, <3>1, <3>2
  <2> HIDE DEF d
  <2> QED BY <1>4, <2>1, <2>2, <2>3, <2>4 DEF Nested, d
<1> QED BY <1>1, <1>2, <1>3, <1>4

\* The innermost call returns.
LEMMA CallReturns ==
    ASSUME CallsOK, pc = "run", pc' = "done", calls' = Tail(calls),
           \A c \in Caches : c # Top.cache => partial'[c] = partial[c] /\ empty'[c] = empty[c]
    PROVE  CallsOK' /\ Held' = Held
<1>1. CASE calls = <<Call(Top.cache)>> /\ Tail(calls) = <<>> /\ Held = {}
  <2>1. calls' = <<>>
    BY <1>1
  <2>2. Held' = HeldBy(calls')
    BY DEF Held, HeldBy
  <2>3. Held' = {}
    BY <2>1, <2>2, HeldByIs
  <2> QED BY <1>1, <2>1, <2>3 DEF CallsOK
<1>2. ASSUME NEW c \in Caches, NEW b \in Blocks, Nested(Top.cache, c, b)
      PROVE  CallsOK' /\ Held' = Held
  <2>1. calls' = <<Outer(c, b)>> /\ Held = {b} /\ Waiting(c, b) /\ Top.cache # c
    BY <1>2 DEF Nested
  <2>2. Held' = HeldBy(calls')
    BY DEF Held, HeldBy
  <2>3. Held' = {b}
    BY <2>1, <2>2, HeldByIs
  <2>4. Waiting(c, b)'
    BY <2>1 DEF Waiting
  <2>5. \E d \in Caches, a \in Blocks : Waiting(d, a)' /\ calls' = <<Outer(d, a)>>
    BY <2>1, <2>4
  <2>6. CallsOK'
    BY <2>5 DEF CallsOK, Outer
  <2> QED BY <2>1, <2>3, <2>6
<1> QED BY <1>1, <1>2, RunCalls

\* The innermost call goes on.
LEMMA CallGoesOn ==
    ASSUME CallsOK, pc = "run", pc' = "run", calls' = calls, ret' = ret,
           \A c \in Caches : c # Top.cache => partial'[c] = partial[c] /\ empty'[c] = empty[c]
    PROVE  CallsOK' /\ Held' = Held
<1>1. Held' = Held
  BY DEF Held
<1>2. ret' = {}
  BY RunCalls
<1>3. CASE calls = <<Call(Top.cache)>>
  <2>1. \E c \in Caches : calls' = <<Call(c)>>
    BY <1>3, RunCalls
  <2> QED BY <1>1, <1>2, <2>1 DEF CallsOK, Call
<1>4. ASSUME NEW c \in Caches, NEW b \in Blocks, Nested(Top.cache, c, b)
      PROVE  CallsOK'
  <2>1. calls' = <<Call(DescCache[c]), Outer(c, b)>> /\ Waiting(c, b) /\ Top.cache # c
    BY <1>4 DEF Nested
  <2>2. Waiting(c, b)'
    BY <2>1 DEF Waiting
  <2>3. \E d \in Caches, a \in Blocks :
            Waiting(d, a)' /\ calls' = <<Call(DescCache[d]), Outer(d, a)>>
    BY <2>1, <2>2
  <2> QED BY <1>2, <2>3 DEF CallsOK, Call, Outer
<1> QED BY <1>1, <1>3, <1>4, RunCalls

-----------------------------------------------------------------------------
(* The invariant, step by step.                                            *)

LEMMA SInvIs ==
    SInv <=>
        /\ Lists(full, partial, empty, slab)
        /\ Accounts(On(full, partial, empty), slab, user \cup ret)
        /\ user \cap ret = {}
        /\ ret = {} \/ \E o \in Object : ret = {o}
        /\ CallsOK
        /\ slab = [b \in Blocks |-> slab[b]]
        /\ \A b \in Blocks : slab[b] = NoSlab \/ SlabOK(slab[b])
        /\ PagesOK(pool, On(full, partial, empty) \cup Held)
        /\ Held \cap On(full, partial, empty) = {}
BY ListedIs DEF SInv

LEMMA OnBlocks ==
    ASSUME NEW fu, NEW pa, NEW em, NEW sl, Lists(fu, pa, em, sl)
    PROVE  On(fu, pa, em) \subseteq Blocks
BY WhichList

LEMMA SInvInit == Init => SInv
<1> SUFFICES ASSUME Init PROVE SInv
  OBVIOUS
<1>1. /\ full = [c \in Caches |-> <<>>] /\ partial = [c \in Caches |-> <<>>]
      /\ empty = [c \in Caches |-> <<>>] /\ slab = [b \in Blocks |-> NoSlab]
      /\ pool = Pages /\ pc = "idle" /\ calls = <<>> /\ ret = {} /\ user = {}
  BY DEF Init
<1>2. ToSet(<<>>) = {} /\ IsInjective(<<>>) /\ <<>> \in Seq(Blocks)
  BY DEF ToSet, IsInjective
<1>3. \A c \in Caches : full[c] = <<>> /\ partial[c] = <<>> /\ empty[c] = <<>>
  BY <1>1
<1>4. /\ full \in [Caches -> Seq(Blocks)] /\ partial \in [Caches -> Seq(Blocks)]
      /\ empty \in [Caches -> Seq(Blocks)]
  BY <1>1, <1>2
<1>5. Lists(full, partial, empty, slab)
  BY <1>2, <1>3, <1>4 DEF Lists
<1>6. On(full, partial, empty) = {}
  BY <1>2, <1>3, OnIs
<1>7. OffSlab({}, slab) = {} /\ Desc({}, slab) = {} /\ Out({}, slab, {}) = {}
  BY DEF OffSlab, Desc, Out
<1>8. Accounts({}, slab, {})
  BY <1>7 DEF Accounts
<1>9. CallsOK
  BY <1>1 DEF CallsOK
<1>10. Held = {}
  BY <1>1, HeldByIs
<1>11. slab = [b \in Blocks |-> slab[b]] /\ \A b \in Blocks : slab[b] = NoSlab
  BY <1>1
<1>12. user \cup ret = {} /\ user \cap ret = {}
  BY <1>1
<1>13. PagesOK(pool, {} \cup {})
  BY <1>1 DEF PagesOK
<1> QED BY <1>1, <1>5, <1>6, <1>8, <1>9, <1>10, <1>11, <1>12, <1>13, SInvIs

LEMMA AllocStep ==
    ASSUME SInv, NEW c \in Caches, Alloc(c)
    PROVE  SInv' /\ Lost' = Lost
<1>1. /\ pc' = "run" /\ calls' = <<Call(c)>> /\ pc = "idle"
      /\ pool' = pool /\ slab' = slab /\ full' = full /\ partial' = partial /\ empty' = empty
      /\ ret' = ret /\ user' = user
  BY DEF Alloc
<1>2. ret = {} /\ calls = <<>>
  BY <1>1 DEF SInv, CallsOK
<1>3. CallsOK'
  BY <1>1, <1>2 DEF CallsOK, Call
<1>4. Held' = {}
  <2>1. Held' = HeldBy(calls')
    BY DEF Held, HeldBy
  <2> QED BY <2>1, <1>1, HeldByIs
<1>5. Listed' = Listed
  BY <1>1 DEF Listed
<1>6. Held = {}
  BY <1>2, HeldByIs
<1>7. SInv'
  BY <1>1, <1>3, <1>4, <1>5, <1>6 DEF SInv
<1> QED BY <1>1, <1>4, <1>5, <1>6, <1>7 DEF Lost

\* One slab is written.
LEMMA SlabSet ==
    ASSUME slab = [b \in Blocks |-> slab[b]],
           \A b \in Blocks : slab[b] = NoSlab \/ SlabOK(slab[b]),
           NEW b \in Blocks, NEW s, SlabOK(s), slab' = [slab EXCEPT ![b] = s]
    PROVE  /\ slab'[b] = s /\ \A x \in Blocks : x # b => slab'[x] = slab[x]
           /\ slab' = [x \in Blocks |-> slab'[x]]
           /\ \A x \in Blocks : slab'[x] = NoSlab \/ SlabOK(slab'[x])
<1>1. DOMAIN slab = Blocks
  <2> DEFINE F(x) == slab[x]
  <2>1. slab = [x \in Blocks |-> F(x)]
    OBVIOUS
  <2> HIDE DEF F
  <2> QED BY <2>1
<1>2. slab' = [x \in Blocks |-> IF x = b THEN s ELSE slab[x]]
  BY <1>1
<1>3. slab'[b] = s /\ \A x \in Blocks : x # b => slab'[x] = slab[x]
  BY <1>2
<1>4. slab' = [x \in Blocks |-> slab'[x]]
  <2> DEFINE G(x) == IF x = b THEN s ELSE slab[x]
  <2>1. slab' = [x \in Blocks |-> G(x)]
    BY <1>2
  <2> HIDE DEF G
  <2> QED BY <2>1
<1>5. \A x \in Blocks : slab'[x] = NoSlab \/ SlabOK(slab'[x])
  <2> TAKE x \in Blocks
  <2>1. CASE x = b
    BY <1>3, <2>1
  <2>2. CASE x # b
    BY <1>3, <2>2
  <2> QED BY <2>1, <2>2
<1> QED BY <1>3, <1>4, <1>5

\* The object fetched leaves n others in slab b of cache c: the three disjuncts of Fetch.
FetchMoves(c, b, n) ==
    \/ /\ n = 0
       /\ partial' = [partial EXCEPT ![c] = RemoveFirst(@, b)]
       /\ full' = [full EXCEPT ![c] = Append(@, b)]
       /\ UNCHANGED empty
    \/ /\ n = Objs[c] - 1
       /\ empty' = [empty EXCEPT ![c] = RemoveFirst(@, b)]
       /\ partial' = [partial EXCEPT ![c] = Append(@, b)]
       /\ UNCHANGED full
    \/ /\ n \notin {0, Objs[c] - 1}
       /\ UNCHANGED <<full, partial, empty>>

LEMMA FetchHangs ==
    ASSUME SInv, NEW c \in Caches, NEW b \in ToSet(partial[c]) \cup ToSet(empty[c]),
           NEW n \in Int, slab[b].free_objs = n + 1, FetchMoves(c, b, n)
    PROVE  Moved(full, partial, empty, full', partial', empty', b, c, n)
<1> DEFINE e == Objs[c]
           m == slab[b].free_objs
<1>0. e \in Nat \ {0, 1}
  BY SlabConstants
<1>1. Lists(full, partial, empty, slab)
  BY SInvIs
<1>2. /\ full \in [Caches -> Seq(Blocks)] /\ partial \in [Caches -> Seq(Blocks)]
      /\ empty \in [Caches -> Seq(Blocks)]
      /\ IsInjective(full[c]) /\ IsInjective(partial[c]) /\ IsInjective(empty[c])
  BY <1>1 DEF Lists
<1>3. /\ b \in Blocks /\ m \in 0 .. e
      /\ b \in ToSet(full[c]) <=> m = 0
      /\ b \in ToSet(partial[c]) <=> m \in 1 .. e - 1
      /\ b \in ToSet(empty[c]) <=> m = e
  <2>1. b \in On(full, partial, empty)
    BY OnIs
  <2>2. slab[b].cache = c
    BY <1>1, ListsAre
  <2> QED BY <1>1, <2>1, <2>2, WhichList
<1>4. m \in 1 .. e /\ n = m - 1
  BY <1>0, <1>3
<1> HIDE DEF m, e
<1>5. CASE n = 0 /\ partial' = [partial EXCEPT ![c] = RemoveFirst(@, b)]
           /\ full' = [full EXCEPT ![c] = Append(@, b)] /\ UNCHANGED empty
  <2>1. b \in ToSet(partial[c]) /\ b \notin ToSet(full[c]) /\ b \notin ToSet(empty[c])
        /\ ~(n \in 1 .. e - 1) /\ ~(n = e)
    <3>1. n = 0 /\ m = 1
      BY <1>4, <1>5
    <3> QED BY <1>0, <1>3, <3>1
  <2>2. Hung(full, full', c, b, TRUE)
    BY <1>2, <1>3, <1>5, <2>1, HungPush
  <2>3. Hung(partial, partial', c, b, FALSE)
    BY <1>2, <1>5, <2>1, HungErase
  <2>4. Hung(empty, empty', c, b, b \in ToSet(empty[c]))
    BY <1>2, <1>5, HungStay
  <2>5. Hung(full, full', c, b, n = 0)
    BY <1>5, <2>2, HungIf
  <2>6. Hung(partial, partial', c, b, n \in 1 .. e - 1)
    BY <2>1, <2>3, HungIf
  <2>7. Hung(empty, empty', c, b, n = e)
    BY <2>1, <2>4, HungIf
  <2> QED BY <2>5, <2>6, <2>7 DEF Moved, e
<1>6. CASE n = e - 1 /\ empty' = [empty EXCEPT ![c] = RemoveFirst(@, b)]
           /\ partial' = [partial EXCEPT ![c] = Append(@, b)] /\ UNCHANGED full
  <2>1. b \in ToSet(empty[c]) /\ b \notin ToSet(full[c]) /\ b \notin ToSet(partial[c])
        /\ n \in 1 .. e - 1 /\ ~(n = e) /\ ~(n = 0)
    BY <1>0, <1>3, <1>4, <1>6
  <2>2. Hung(partial, partial', c, b, TRUE)
    BY <1>2, <1>3, <1>6, <2>1, HungPush
  <2>3. Hung(empty, empty', c, b, FALSE)
    BY <1>2, <1>6, <2>1, HungErase
  <2>4. Hung(full, full', c, b, b \in ToSet(full[c]))
    BY <1>2, <1>6, HungStay
  <2>5. Hung(full, full', c, b, n = 0)
    BY <2>1, <2>4, HungIf
  <2>6. Hung(partial, partial', c, b, n \in 1 .. e - 1)
    BY <2>1, <2>2, HungIf
  <2>7. Hung(empty, empty', c, b, n = e)
    BY <2>1, <2>3, HungIf
  <2> QED BY <2>5, <2>6, <2>7 DEF Moved, e
<1>7. CASE n \notin {0, e - 1} /\ UNCHANGED <<full, partial, empty>>
  <2>1. n \in 1 .. e - 1 /\ m \in 1 .. e - 1 /\ m # e /\ m # 0 /\ ~(n = e) /\ ~(n = 0)
    <3>1. n # 0 /\ n # e - 1
      BY <1>7
    <3> QED BY <1>0, <1>3, <1>4, <3>1
  <2>2. Hung(full, full', c, b, b \in ToSet(full[c]))
    BY <1>2, <1>7, HungStay
  <2>3. Hung(partial, partial', c, b, b \in ToSet(partial[c]))
    BY <1>2, <1>7, HungStay
  <2>4. Hung(empty, empty', c, b, b \in ToSet(empty[c]))
    BY <1>2, <1>7, HungStay
  <2>5. Hung(full, full', c, b, n = 0)
    BY <1>3, <2>1, <2>2, HungIf
  <2>6. Hung(partial, partial', c, b, n \in 1 .. e - 1)
    BY <1>3, <2>1, <2>3, HungIf
  <2>7. Hung(empty, empty', c, b, n = e)
    BY <1>3, <2>1, <2>4, HungIf
  <2> QED BY <2>5, <2>6, <2>7 DEF Moved, e
<1> QED BY <1>5, <1>6, <1>7 DEF FetchMoves, e

LEMMA FetchStep ==
    ASSUME SInv, Fetch
    PROVE  SInv' /\ ret' # {} /\ Lost' = Lost
<1> DEFINE c == Top.cache
           b == Head(Candidates(c))
           L == On(full, partial, empty)
           o == [block |-> b, i |-> slab[b].free]
<1>1. /\ Lists(full, partial, empty, slab) /\ Accounts(L, slab, user \cup ret)
      /\ CallsOK /\ slab = [x \in Blocks |-> slab[x]]
      /\ \A x \in Blocks : slab[x] = NoSlab \/ SlabOK(slab[x])
      /\ PagesOK(pool, L \cup Held) /\ Held \cap L = {}
  BY SInvIs
<1>2. /\ pc = "run" /\ Candidates(c) # <<>>
      /\ slab' = [slab EXCEPT ![b] = Fetched(slab[b])]
      /\ ret' = {o} /\ pc' = "done" /\ calls' = Tail(calls) /\ pool' = pool /\ user' = user
      /\ FetchMoves(c, b, Fetched(slab[b]).free_objs)
  BY DEF Fetch, FetchMoves
<1>3. c \in Caches /\ ret = {}
  BY <1>1, <1>2, RunCalls
<1>4. b \in ToSet(partial[c]) \cup ToSet(empty[c])
  <2>1. partial[c] \in Seq(Blocks) /\ empty[c] \in Seq(Blocks)
    BY <1>1, <1>3, ListsAre
  <2>2. partial[c] \o empty[c] # <<>> /\ b = Head(partial[c] \o empty[c])
    BY <1>2 DEF Candidates
  <2> QED BY <2>1, <2>2, HeadIs
<1> HIDE DEF c, b, L, o
<1>5. b \in L /\ b \in Blocks /\ slab[b].cache = c /\ SlabOK(slab[b])
      /\ slab[b].free_objs \in 1 .. Objs[c]
  <2>1. b \in L
    BY <1>3, <1>4, OnIs DEF L
  <2>2. slab[b].cache = c
    BY <1>1, <1>3, <1>4, ListsAre
  <2>3. Objs[c] \in Nat \ {0, 1}
    BY <1>3, SlabConstants
  <2>4. slab[b].free_objs \in 1 .. Objs[c]
    <3>1. slab[b].free_objs \in 1 .. Objs[c] - 1 \/ slab[b].free_objs = Objs[c]
      BY <1>1, <1>3, <1>4, ListsAre
    <3> QED BY <2>3, <3>1
  <2>5. b \in Blocks
    BY <1>1, <2>1, WhichList DEF L
  <2> QED BY <1>1, <2>1, <2>2, <2>4, <2>5, AccountsIs
<1> DEFINE s == slab[b]
           t == Fetched(s)
           n == t.free_objs
<1>6. /\ SlabOK(t) /\ t.cache = c /\ t.at = s.at /\ n = s.free_objs - 1
      /\ s.free \in Unmarked(s) /\ Marked(t) = Marked(s) \cup {s.free}
  BY <1>5, FetchedGood
<1>7. /\ slab'[b] = t /\ \A x \in Blocks : x # b => slab'[x] = slab[x]
      /\ slab' = [x \in Blocks |-> slab'[x]]
      /\ \A x \in Blocks : slab'[x] = NoSlab \/ SlabOK(slab'[x])
  <2> HIDE DEF t
  <2> QED BY <1>1, <1>2, <1>5, <1>6, SlabSet DEF t
<1>8. Moved(full, partial, empty, full', partial', empty', b, c, n)
  <2>1. n \in Int /\ slab[b].free_objs = n + 1
    <3> HIDE DEF n
    <3> QED BY <1>5, <1>6
  <2> HIDE DEF n
  <2> QED BY <1>2, <1>3, <1>4, <2>1, FetchHangs DEF n
<1>9. n \in 0 .. Objs[c]
  <2> HIDE DEF n
  <2>1. Objs[c] \in Nat
    BY <1>3, SlabConstants
  <2> QED BY <1>5, <1>6, <2>1
<1> HIDE DEF t
<1>10. Lists(full', partial', empty', slab') /\ On(full', partial', empty') = L
  <2>1. slab'[b].cache = c /\ slab'[b].free_objs = n
    BY <1>6, <1>7 DEF t
  <2> HIDE DEF n, s
  <2>2. /\ Lists(full', partial', empty', slab')
        /\ On(full', partial', empty') = L \cup {b}
    <3>1. b \in L => slab[b].cache = c
      BY <1>5
    <3>2. b \in On(full, partial, empty) => slab[b].cache = c
      BY <3>1 DEF L
    <3>3. n \in 0 .. Objs[c] /\ b \in Blocks /\ Written(slab, slab', b, c, n)
      BY <1>5, <1>7, <1>9, <2>1 DEF Written
    <3>4. Lists(full, partial, empty, slab) /\ c \in Caches
      BY <1>1, <1>3
    <3>5. Lists(full', partial', empty', slab')
      BY <1>8, <3>2, <3>3, <3>4, Rehung
    <3>6. \A x : x \in On(full', partial', empty') <=> x \in On(full, partial, empty) \/ x = b
      <4>1. n \in 0 .. Objs[c]
        BY <3>3
      <4> QED BY <1>8, <3>4, <4>1, RehungOn
    <3> QED BY <3>5, <3>6 DEF L
  <2> QED BY <2>2, <1>5
<1>11. L \subseteq Blocks
  BY <1>1, OnBlocks DEF L
<1>12. SameBut(L, slab, slab', b)
  BY <1>5, <1>6, <1>7, <1>11 DEF SameBut
<1>13. /\ o \in Object /\ o \notin Out(L, slab, user \cup ret)
       /\ Accounts(L, slab', (user \cup ret) \cup {o})
  BY <1>1, <1>5, <1>6, <1>7, <1>11, <1>12, AccountsOut DEF o
<1>14. CallsOK' /\ Held' = Held
  <2>1. \A d \in Caches : d # c => partial'[d] = partial[d] /\ empty'[d] = empty[d]
    BY <1>8 DEF Moved, Hung
  <2> QED BY <1>1, <1>2, <2>1, CallReturns DEF c
<1>15. user' \cup ret' = (user \cup ret) \cup {o} /\ user' \cap ret' = {}
  BY <1>2, <1>3, <1>13 DEF Out
<1>16. Listed' = L /\ Listed = L
  BY <1>10, ListedIs DEF Listed, On, L
<1>17. \E p \in Object : ret' = {p}
  BY <1>2, <1>13
<1>18. SInv'
  BY <1>1, <1>2, <1>7, <1>10, <1>13, <1>14, <1>15, <1>16, <1>17 DEF SInv
<1>19. Lost' = Lost
  BY <1>2, <1>14, <1>16 DEF Lost
<1> QED BY <1>2, <1>18, <1>19

\* What Join does to the lists and the slabs.
LEMMA JoinHangs ==
    ASSUME SInv, NEW c \in Caches, NEW b \in Blocks, b \notin On(full, partial, empty),
           NEW d, Join(c, b, d), full' = full, partial' = partial
    PROVE  /\ Lists(full', partial', empty', slab')
           /\ \A x : x \in On(full', partial', empty') <=> x \in On(full, partial, empty) \/ x = b
           /\ slab' = [x \in Blocks |-> slab'[x]]
           /\ \A x \in Blocks : slab'[x] = NoSlab \/ SlabOK(slab'[x])
           /\ \A x \in On(full, partial, empty) : slab'[x] = slab[x]
           /\ SlabOK(slab'[b]) /\ Marked(slab'[b]) = {}
           /\ slab'[b].cache = c /\ slab'[b].at = {d}
           /\ \A e \in Caches : e # c => empty'[e] = empty[e]
<1> DEFINE s == Fresh(c, d)
           n == Objs[c]
<1>1. /\ Lists(full, partial, empty, slab)
      /\ slab = [x \in Blocks |-> slab[x]]
      /\ \A x \in Blocks : slab[x] = NoSlab \/ SlabOK(slab[x])
  BY SInvIs
<1>2. slab' = [slab EXCEPT ![b] = s] /\ empty' = [empty EXCEPT ![c] = Append(@, b)]
  BY DEF Join
<1>3. SlabOK(s) /\ Marked(s) = {} /\ s.cache = c /\ s.at = {d} /\ s.free_objs = n
  BY FreshGood
<1>4. n \in Nat \ {0, 1}
  BY SlabConstants
<1> HIDE DEF s, n
<1>5. /\ slab'[b] = s /\ \A x \in Blocks : x # b => slab'[x] = slab[x]
      /\ slab' = [x \in Blocks |-> slab'[x]]
      /\ \A x \in Blocks : slab'[x] = NoSlab \/ SlabOK(slab'[x])
  BY <1>1, <1>2, <1>3, SlabSet
<1>6. /\ full \in [Caches -> Seq(Blocks)] /\ partial \in [Caches -> Seq(Blocks)]
      /\ empty \in [Caches -> Seq(Blocks)]
      /\ IsInjective(full[c]) /\ IsInjective(partial[c]) /\ IsInjective(empty[c])
  BY <1>1 DEF Lists
<1>7. b \notin ToSet(full[c]) /\ b \notin ToSet(partial[c]) /\ b \notin ToSet(empty[c])
  BY OnIs
<1>8. Hung(empty, empty', c, b, TRUE)
  BY <1>2, <1>6, <1>7, HungPush
<1>9. /\ Hung(full, full', c, b, b \in ToSet(full[c]))
      /\ Hung(partial, partial', c, b, b \in ToSet(partial[c]))
  BY <1>6, HungStay
<1>10. ~(n = 0) /\ ~(n \in 1 .. n - 1) /\ n \in 0 .. n
  BY <1>4
<1>11. Moved(full, partial, empty, full', partial', empty', b, c, n)
  <2>1. Hung(full, full', c, b, n = 0)
    BY <1>7, <1>9, <1>10, HungIf
  <2>2. Hung(partial, partial', c, b, n \in 1 .. n - 1)
    BY <1>7, <1>9, <1>10, HungIf
  <2>3. Hung(empty, empty', c, b, n = n)
    BY <1>8, HungIf
  <2> QED BY <2>1, <2>2, <2>3 DEF Moved, n
<1>12. Written(slab, slab', b, c, n)
  BY <1>3, <1>5 DEF Written
<1>13. n \in 0 .. Objs[c]
  BY <1>10 DEF n
<1>14. Lists(full', partial', empty', slab')
  <2>1. Lists(full, partial, empty, slab)
    BY <1>1
  <2> QED BY <2>1, <1>11, <1>12, <1>13, Rehung
<1>15. \A x : x \in On(full', partial', empty') <=> x \in On(full, partial, empty) \/ x = b
  BY <1>11, <1>13, RehungOn
<1>16. \A x \in On(full, partial, empty) : slab'[x] = slab[x]
  <2>1. On(full, partial, empty) \subseteq Blocks
    BY <1>1, OnBlocks
  <2> QED BY <2>1, <1>5
<1>17. \A e \in Caches : e # c => empty'[e] = empty[e]
  BY <1>8 DEF Hung
<1> QED BY <1>3, <1>5, <1>14, <1>15, <1>16, <1>17

LEMMA FillOnSlabStep ==
    ASSUME SInv, FillOnSlab
    PROVE  SInv' /\ Lost' = Lost
<1> DEFINE c == Top.cache
           L == On(full, partial, empty)
<1>1. /\ Accounts(L, slab, user \cup ret) /\ CallsOK
      /\ user \cap ret = {} /\ (ret = {} \/ \E o \in Object : ret = {o})
      /\ PagesOK(pool, L \cup Held) /\ Held \cap L = {}
  BY SInvIs
<1>2. PICK b \in Given(c) : pool' = pool \ b /\ Join(c, b, Header(b))
  BY DEF FillOnSlab
<1>3. /\ pc = "run" /\ c <= InSlabIndex
      /\ full' = full /\ partial' = partial /\ pc' = pc /\ calls' = calls /\ ret' = ret
      /\ user' = user
  BY DEF FillOnSlab, MustFill
<1>4. c \in Caches
  BY <1>1, <1>3, RunCalls
<1> HIDE DEF c, L
<1>4a. b \in Blocks /\ b \subseteq pool
  BY <1>2, <1>4 DEF Given, Blocks
<1>4b. /\ b \notin L \cup Held /\ PagesOK(pool \ b, (L \cup Held) \cup {b})
       /\ (pool \ b) \cup UNION ((L \cup Held) \cup {b}) = pool \cup UNION (L \cup Held)
  BY <1>1, <1>4a, PagesTaken
<1>5. /\ Lists(full', partial', empty', slab')
      /\ \A x : x \in On(full', partial', empty') <=> x \in L \/ x = b
      /\ slab' = [x \in Blocks |-> slab'[x]]
      /\ \A x \in Blocks : slab'[x] = NoSlab \/ SlabOK(slab'[x])
      /\ \A x \in L : slab'[x] = slab[x]
      /\ SlabOK(slab'[b]) /\ Marked(slab'[b]) = {}
      /\ slab'[b].cache = c /\ slab'[b].at = {Header(b)}
      /\ \A e \in Caches : e # c => empty'[e] = empty[e]
  BY <1>2, <1>3, <1>4, <1>4a, <1>4b, JoinHangs DEF L
<1>6. On(full', partial', empty') = L \cup {b}
  BY <1>5
<1>7. Accounts(L \cup {b}, slab', user \cup ret)
  BY <1>1, <1>3, <1>4, <1>4a, <1>4b, <1>5, AccountsOnSlab
<1>8. CallsOK' /\ Held' = Held
  BY <1>1, <1>3, <1>5, CallGoesOn DEF c
<1>9. Listed' = L \cup {b} /\ Listed = L
  BY <1>6, ListedIs DEF Listed, On, L
<1>10. Listed' \cup Held' = (L \cup Held) \cup {b}
  BY <1>8, <1>9
<1>11. SInv'
  <2>1. PagesOK(pool', Listed' \cup Held') /\ Held' \cap Listed' = {}
    BY <1>1, <1>2, <1>4b, <1>8, <1>9, <1>10
  <2> QED BY <2>1, <1>1, <1>3, <1>5, <1>6, <1>7, <1>8, <1>9 DEF SInv
<1>12. Lost' = Lost
  BY <1>2, <1>4b, <1>9, <1>10 DEF Lost
<1> QED BY <1>11, <1>12

LEMMA FillOffSlabStep ==
    ASSUME SInv, FillOffSlab
    PROVE  SInv' /\ Lost' = Lost
<1> DEFINE L == On(full, partial, empty)
<1>1. /\ Lists(full, partial, empty, slab) /\ CallsOK
      /\ PagesOK(pool, L \cup Held) /\ Held \cap L = {}
  BY SInvIs
<1>0. PICK c : c = Top.cache
  OBVIOUS
<1>2. PICK b \in Given(c) :
          /\ pool' = pool \ b
          /\ calls' = <<Call(DescCache[c]), [Top EXCEPT !.page = {b}]>> \o Tail(calls)
  BY <1>0 DEF FillOffSlab
<1>3. /\ pc = "run" /\ c > InSlabIndex /\ Candidates(c) = <<>>
      /\ UNCHANGED <<slab, full, partial, empty, pc, ret, user>>
  BY <1>0 DEF FillOffSlab, MustFill
<1>4. /\ c \in Caches /\ Top = Call(c) /\ ret = {}
      /\ \/ calls = <<Call(c)>> /\ Tail(calls) = <<>> /\ Held = {}
         \/ \E d \in Caches, a \in Blocks : Nested(c, d, a)
  BY <1>0, <1>1, <1>3, RunCalls
<1> HIDE DEF L
<1>4a. b \in Blocks /\ b \subseteq pool
  BY <1>2, <1>4 DEF Given, Blocks
<1>4b. /\ b \notin L \cup Held /\ PagesOK(pool \ b, (L \cup Held) \cup {b})
       /\ (pool \ b) \cup UNION ((L \cup Held) \cup {b}) = pool \cup UNION (L \cup Held)
  BY <1>1, <1>4a, PagesTaken
<1>5. ~(c <= InSlabIndex)
  <2>1. c \in 0 .. Cardinality(Caches) - 1 /\ InSlabIndex \in Nat
    BY <1>4, SlabConstants
  <2> QED BY <2>1, <1>3
<1>6. Tail(calls) = <<>> /\ Held = {}
  BY <1>4, <1>5 DEF Nested
<1>7. [Top EXCEPT !.page = {b}] = Outer(c, b)
  <2>1. Top = [cache |-> c, page |-> {}]
    BY <1>4 DEF Call
  <2> QED BY <2>1 DEF Outer
<1>8. calls' = <<Call(DescCache[c]), Outer(c, b)>>
  <2> DEFINE u == <<Call(DescCache[c]), Outer(c, b)>>
  <2>1. calls' = u \o <<>>
    BY <1>2, <1>6, <1>7
  <2>2. u \in Seq({Call(DescCache[c]), Outer(c, b)})
    OBVIOUS
  <2> HIDE DEF u
  <2>3. u \o <<>> = u
    BY <2>2, ConcatEmptySeq
  <2> QED BY <2>1, <2>3 DEF u
<1>9. Waiting(c, b)'
  <2>1. partial[c] \in Seq(Blocks) /\ empty[c] \in Seq(Blocks)
    BY <1>1, <1>4, ListsAre
  <2>2. partial[c] = <<>> /\ empty[c] = <<>>
    BY <2>1, <1>3, HeadIs DEF Candidates
  <2> QED BY <2>2, <1>1, <1>3, <1>4, <1>4a DEF Waiting
<1>10. CallsOK'
  <2>1. \E d \in Caches, a \in Blocks :
            Waiting(d, a)' /\ calls' = <<Call(DescCache[d]), Outer(d, a)>>
    BY <1>4, <1>4a, <1>8, <1>9
  <2> QED BY <2>1, <1>3, <1>4 DEF CallsOK, Call, Outer
<1>11. Held' = {b}
  <2>1. Held' = HeldBy(calls')
    BY DEF Held, HeldBy
  <2> QED BY <2>1, <1>8, HeldByIs
<1>12. Listed' = Listed /\ Listed = L
  BY <1>3, ListedIs DEF Listed, L
<1>13. Listed' \cup Held' = (L \cup Held) \cup {b}
  BY <1>6, <1>11, <1>12
<1>14. SInv'
  <2>1. PagesOK(pool', Listed' \cup Held') /\ Held' \cap Listed' = {}
    BY <1>2, <1>4b, <1>11, <1>12, <1>13
  <2> QED BY <2>1, <1>3, <1>10, <1>12 DEF SInv
<1>15. Lost' = Lost
  BY <1>2, <1>4b, <1>12, <1>13 DEF Lost
<1> QED BY <1>14, <1>15

LEMMA FillFailsStep ==
    ASSUME SInv, FillFails
    PROVE  SInv' /\ Lost' = Lost
<1>1. CallsOK /\ ret = {}
  BY RunCalls, SInvIs DEF FillFails, MustFill
<1>2. /\ pc = "run" /\ pc' = "done" /\ calls' = Tail(calls) /\ ret' = {}
      /\ UNCHANGED <<pool, slab, full, partial, empty, user>>
  BY DEF FillFails, MustFill
<1>3. CallsOK' /\ Held' = Held
  BY <1>1, <1>2, CallReturns
<1>4. Listed' = Listed
  BY <1>2 DEF Listed
<1> QED BY <1>1, <1>2, <1>3, <1>4 DEF SInv, Lost

\* A call that is back inside another is back at the one that waits.
LEMMA WaitCall ==
    ASSUME CallsOK, pc = "done", calls # <<>>
    PROVE  \E c \in Caches, b \in Blocks :
               /\ Waiting(c, b) /\ Top.cache = c /\ Top.page = {b}
               /\ Tail(calls) = <<>> /\ Held = {b}
<1>1. PICK c \in Caches, b \in Blocks : Waiting(c, b) /\ calls = <<Outer(c, b)>>
  BY DEF CallsOK
<1>2. Top = Outer(c, b) /\ Tail(calls) = <<>>
  BY <1>1 DEF Top
<1> QED BY <1>1, <1>2, HeldByIs

LEMMA UndescribedStep ==
    ASSUME SInv, Undescribed
    PROVE  SInv'
<1>1. /\ pc = "done" /\ calls # <<>> /\ calls' = Tail(calls)
      /\ UNCHANGED <<pool, slab, full, partial, empty, pc, ret, user>>
  BY DEF Undescribed
<1>2. Tail(calls) = <<>>
  BY <1>1, WaitCall DEF SInv
<1>3. CallsOK'
  BY <1>1, <1>2 DEF CallsOK
<1>4. Held' = {}
  <2>1. Held' = HeldBy(calls')
    BY DEF Held, HeldBy
  <2> QED BY <2>1, <1>1, <1>2, HeldByIs
<1>5. Listed' = Listed
  BY <1>1 DEF Listed
<1>6. PagesOK(pool', Listed' \cup Held')
  <2>1. PagesOK(pool, Listed \cup Held)
    BY DEF SInv
  <2>2. Listed' \cup Held' \subseteq Listed \cup Held
    BY <1>4, <1>5
  <2> QED BY <2>1, <2>2, <1>1 DEF PagesOK
<1> QED BY <1>1, <1>3, <1>4, <1>5, <1>6 DEF SInv

LEMMA DeliverStep ==
    ASSUME SInv, Deliver
    PROVE  SInv' /\ Lost' = Lost
<1>1. /\ calls = <<>> /\ user' = user \cup ret /\ pc' = "idle" /\ ret' = {}
      /\ UNCHANGED <<pool, slab, full, partial, empty, calls>>
  BY DEF Deliver
<1>2. CallsOK'
  BY <1>1 DEF CallsOK
<1>3. Held' = Held /\ Listed' = Listed
  BY <1>1 DEF Held, Listed
<1>4. user' \cup ret' = user \cup ret
  BY <1>1
<1>5. SInv'
  BY <1>1, <1>2, <1>3, <1>4 DEF SInv
<1> QED BY <1>1, <1>3, <1>5 DEF Lost

LEMMA DescribedStep ==
    ASSUME SInv, Described
    PROVE  SInv' /\ Lost' = Lost
<1> DEFINE L == On(full, partial, empty)
<1>1. /\ Accounts(L, slab, user \cup ret) /\ CallsOK
      /\ user \cap ret = {} /\ (ret = {} \/ \E o \in Object : ret = {o})
      /\ PagesOK(pool, L \cup Held) /\ Held \cap L = {}
  BY SInvIs
<1>2. /\ pc = "done" /\ calls # <<>> /\ ret # {} /\ pc' = "run" /\ ret' = {}
      /\ calls' = <<Call(Top.cache)>> \o Tail(calls)
      /\ pool' = pool /\ full' = full /\ partial' = partial /\ user' = user
  BY DEF Described
<1>3. PICK c \in Caches, b \in Blocks :
          /\ Waiting(c, b) /\ Top.cache = c /\ Top.page = {b}
          /\ Tail(calls) = <<>> /\ Held = {b}
  BY <1>1, <1>2, WaitCall
<1>4. PICK o \in Object : ret = {o}
  BY <1>1, <1>2
<1>5. Join(c, b, o)
  BY <1>3, <1>4 DEF Described
<1>6. b \notin L /\ c > InSlabIndex
  BY <1>1, <1>3 DEF Waiting
<1> HIDE DEF L
<1>7. /\ Lists(full', partial', empty', slab')
      /\ \A x : x \in On(full', partial', empty') <=> x \in L \/ x = b
      /\ slab' = [x \in Blocks |-> slab'[x]]
      /\ \A x \in Blocks : slab'[x] = NoSlab \/ SlabOK(slab'[x])
      /\ \A x \in L : slab'[x] = slab[x]
      /\ SlabOK(slab'[b]) /\ Marked(slab'[b]) = {}
      /\ slab'[b].cache = c /\ slab'[b].at = {o}
  BY <1>2, <1>5, <1>6, JoinHangs DEF L
<1>8. On(full', partial', empty') = L \cup {b}
  BY <1>7
<1>9. Accounts(L \cup {b}, slab', (user \cup ret) \ {o})
  <2>1. o \in user \cup ret
    BY <1>4
  <2> QED BY <2>1, <1>1, <1>6, <1>7, AccountsOffSlab
<1>10. (user \cup ret) \ {o} = user' \cup ret'
  BY <1>1, <1>2, <1>4
<1>11. calls' = <<Call(c)>>
  <2> DEFINE u == <<Call(c)>>
  <2>1. calls' = u \o <<>>
    BY <1>2, <1>3
  <2>2. u \in Seq({Call(c)})
    OBVIOUS
  <2> HIDE DEF u
  <2>3. u \o <<>> = u
    BY <2>2, ConcatEmptySeq
  <2> QED BY <2>1, <2>3 DEF u
<1>12. CallsOK'
  BY <1>2, <1>11 DEF CallsOK, Call
<1>13. Held' = {}
  <2>1. Held' = HeldBy(calls')
    BY DEF Held, HeldBy
  <2> QED BY <2>1, <1>11, HeldByIs
<1>14. Listed' = L \cup {b} /\ Listed = L
  BY <1>8, ListedIs DEF Listed, On, L
<1>14a. Listed' \cup Held' = L \cup Held
  BY <1>3, <1>13, <1>14
<1>15. SInv'
  <2>1. PagesOK(pool', Listed' \cup Held') /\ Held' \cap Listed' = {}
        /\ user' \cap ret' = {}
    BY <1>1, <1>2, <1>13, <1>14, <1>14a
  <2>2. Accounts(Listed', slab', user' \cup ret')
    BY <1>9, <1>10, <1>14
  <2> QED BY <1>2, <1>7, <1>12, <2>1, <2>2 DEF SInv
<1>16. Lost' = Lost
  BY <1>2, <1>14, <1>14a DEF Lost
<1> QED BY <1>15, <1>16

\* Trimming slabs sl: the successor's lists are those that GivenBack speaks of.
LEMMA TrimStep ==
    ASSUME NEW em, NEW sl, NEW us, NEW K,
           Lists(full', partial', em, sl), Accounts(On(full', partial', em), sl, us),
           \A b \in On(full', partial', em) : slab[b].at = sl[b].at,
           \A c \in Caches : K[c] \in 0 .. Len(em[c]),
           empty' = Trimmed(em, K), pool' = pool \cup UNION Popped(em, K),
           OffSlab(On(full', partial', em), sl) \subseteq Listed',
           PagesOK(pool, On(full', partial', em))
    PROVE  /\ Lists(full', partial', empty', sl) /\ Accounts(Listed', sl, us)
           /\ PagesOK(pool', Listed')
           /\ pool' \cup UNION Listed' = pool \cup UNION On(full', partial', em)
<1> DEFINE fu == full'  pa == partial'
<1>1. Listed' = On(fu, pa, empty')
  BY ListedIs DEF Listed, On
<1> HIDE DEF fu, pa
<1>2. OffSlab(On(fu, pa, em), sl) \subseteq On(fu, pa, Trimmed(em, K))
  BY <1>1 DEF fu, pa
<1>3. Lists(fu, pa, em, sl) /\ Accounts(On(fu, pa, em), sl, us)
  BY DEF fu, pa
<1>4. \A b \in On(fu, pa, em) : slab[b].at = sl[b].at
  BY DEF fu, pa
<1>5. /\ Lists(fu, pa, Trimmed(em, K), sl)
      /\ On(fu, pa, Trimmed(em, K)) \subseteq On(fu, pa, em)
      /\ Accounts(On(fu, pa, Trimmed(em, K)), sl, us)
      /\ Popped(em, K) = On(fu, pa, em) \ On(fu, pa, Trimmed(em, K))
  BY <1>2, <1>3, <1>4, GivenBack
<1>6. PagesOK(pool, On(fu, pa, em))
  BY DEF fu, pa
<1>7. Listed' = On(fu, pa, Trimmed(em, K))
  BY <1>1
<1>8. Lists(full', partial', empty', sl)
  BY <1>5 DEF fu, pa
<1>9. /\ PagesOK(pool', Listed')
      /\ pool' \cup UNION Listed' = pool \cup UNION On(fu, pa, em)
  <2> DEFINE S == On(fu, pa, em)
             G == Popped(em, K)
  <2>1. G \in SUBSET S /\ Listed' = S \ G
    BY <1>5, <1>7
  <2>2. PagesOK(pool, S) /\ pool' = pool \cup UNION G
    BY <1>6
  <2> HIDE DEF S, G
  <2>3. PagesOK(pool \cup UNION G, S \ G)
        /\ (pool \cup UNION G) \cup UNION (S \ G) = pool \cup UNION S
    BY <2>1, <2>2, PagesBack
  <2>4. PagesOK(pool', Listed') /\ pool' \cup UNION Listed' = pool \cup UNION S
    BY <2>1, <2>2, <2>3
  <2> QED BY <2>4 DEF S
<1> QED BY <1>5, <1>7, <1>8, <1>9 DEF fu, pa

LEMMA ReleaseStep ==
    ASSUME SInv, NEW flag \in Releases, Release(flag), KeepsOffSlab
    PROVE  SInv' /\ Lost' = Lost
<1> DEFINE K == [c \in Caches |-> Surplus(flag, Len(empty[c]))]
<1>1. /\ Lists(full, partial, empty, slab)
      /\ Accounts(On(full, partial, empty), slab, user \cup ret)
      /\ CallsOK /\ PagesOK(pool, On(full, partial, empty) \cup Held)
  BY SInvIs
<1>2. /\ pc = "idle" /\ empty' = [c \in Caches |-> Kept(flag, empty[c])]
      /\ pool' = pool \cup UNION UNION {Freed(flag, empty[c]) : c \in Caches}
      /\ UNCHANGED <<slab, full, partial, pc, calls, ret, user>>
  BY DEF Release
<1>3. \A c \in Caches : K[c] \in 0 .. Len(empty[c])
  <2> TAKE c \in Caches
  <2>1. flag \in {"NORMAL", "SOFT", "FORCE"}
    BY SlabConstants
  <2>2. Len(empty[c]) \in Nat
    <3>1. empty[c] \in Seq(Blocks)
      BY <1>1, ListsAre
    <3> QED BY <3>1
  <2>3. Surplus(flag, Len(empty[c])) \in 0 .. Len(empty[c])
    BY <2>1, <2>2, SurplusIs
  <2> QED BY <2>3
<1>4. empty' = Trimmed(empty, K)
  BY <1>2 DEF Kept, Trimmed
<1>5. \A c \in Caches : Freed(flag, empty[c])
          = {PageFreed(i, empty[c][Len(empty[c]) - i]) : i \in 0 .. K[c] - 1}
  BY DEF Freed
<1>6. pool' = pool \cup UNION Popped(empty, K)
  <2> DEFINE P(c) == Freed(flag, empty[c])
             Q(c) == {PageFreed(i, empty[c][Len(empty[c]) - i]) : i \in 0 .. K[c] - 1}
  <2>1. \A c \in Caches : P(c) = Q(c)
    BY <1>5
  <2>2. pool' = pool \cup UNION UNION {P(c) : c \in Caches}
    BY <1>2
  <2>3. Popped(empty, K) = UNION {Q(c) : c \in Caches}
    BY DEF Popped
  <2> HIDE DEF P, Q, K
  <2>4. {P(c) : c \in Caches} = {Q(c) : c \in Caches}
    BY <2>1
  <2> QED BY <2>2, <2>3, <2>4
<1> HIDE DEF K
<1>7. OffSlab(On(full, partial, empty), slab) \subseteq Listed'
  BY ListedIs DEF KeepsOffSlab
<1>8. full' = full /\ partial' = partial /\ slab' = slab
  BY <1>2
<1>8a. Held = {} /\ Held' = {} /\ CallsOK'
  <2>1. calls = <<>> /\ ret = {}
    BY <1>1, <1>2 DEF CallsOK
  <2>2. Held' = HeldBy(calls')
    BY DEF Held, HeldBy
  <2>3. CallsOK'
    BY <1>2, <2>1 DEF CallsOK
  <2> QED BY <1>2, <2>1, <2>2, <2>3, HeldByIs
<1>9. /\ Lists(full', partial', empty', slab) /\ Accounts(Listed', slab, user \cup ret)
      /\ PagesOK(pool', Listed')
      /\ pool' \cup UNION Listed' = pool \cup UNION On(full', partial', empty)
  <2> DEFINE us == user \cup ret
  <2> HIDE DEF us
  <2>1. Lists(full', partial', empty, slab) /\ Accounts(On(full', partial', empty), slab, us)
    BY <1>1, <1>8 DEF us
  <2>2. OffSlab(On(full', partial', empty), slab) \subseteq Listed'
        /\ PagesOK(pool, On(full', partial', empty))
    <3>1. On(full, partial, empty) \cup {} = On(full, partial, empty)
      OBVIOUS
    <3> QED BY <3>1, <1>1, <1>7, <1>8, <1>8a
  <2>3. \A b \in On(full', partial', empty) : slab[b].at = slab[b].at
    OBVIOUS
  <2> QED BY <1>3, <1>4, <1>6, <2>1, <2>2, <2>3, TrimStep DEF us
<1>10. Listed' \cup Held' = Listed' /\ Listed \cup Held = Listed
  BY <1>8a
<1>11. SInv'
  BY <1>2, <1>8a, <1>9, <1>10 DEF SInv
<1>12. Lost' = Lost
  BY <1>8, <1>9, <1>10, ListedIs DEF Lost
<1> QED BY <1>11, <1>12

\* The object that comes back makes n free ones in slab b of cache c: the disjuncts of
\* Free, and the empty lists before the trim.
FreeMoves(c, b, n) ==
    \/ /\ n = Objs[c]
       /\ partial' = [partial EXCEPT ![c] = RemoveFirst(@, b)]
       /\ UNCHANGED full
    \/ /\ n = 1
       /\ full' = [full EXCEPT ![c] = RemoveFirst(@, b)]
       /\ partial' = [partial EXCEPT ![c] = Append(@, b)]
    \/ /\ n \notin {1, Objs[c]}
       /\ UNCHANGED <<full, partial>>
Emptied(c, b, n) == IF n = Objs[c] THEN Append(empty[c], b) ELSE empty[c]

LEMMA FreeHangs ==
    ASSUME SInv, NEW c \in Caches, NEW b \in On(full, partial, empty), slab[b].cache = c,
           NEW m \in 0 .. Objs[c] - 1, slab[b].free_objs = m, FreeMoves(c, b, m + 1)
    PROVE  Moved(full, partial, empty, full', partial',
                 [empty EXCEPT ![c] = Emptied(c, b, m + 1)], b, c, m + 1)
<1> DEFINE e == Objs[c]
           n == m + 1
           em2 == [empty EXCEPT ![c] = Emptied(c, b, n)]
<1>0. e \in Nat \ {0, 1}
  BY SlabConstants
<1>1. Lists(full, partial, empty, slab)
  BY SInvIs
<1>2. /\ full \in [Caches -> Seq(Blocks)] /\ partial \in [Caches -> Seq(Blocks)]
      /\ empty \in [Caches -> Seq(Blocks)]
      /\ IsInjective(full[c]) /\ IsInjective(partial[c]) /\ IsInjective(empty[c])
  BY <1>1 DEF Lists
<1>3. /\ b \in Blocks
      /\ b \in ToSet(full[c]) <=> m = 0
      /\ b \in ToSet(partial[c]) <=> m \in 1 .. e - 1
      /\ b \in ToSet(empty[c]) <=> m = e
  BY <1>1, WhichList
<1>4. n \in 1 .. e /\ m = n - 1 /\ b \notin ToSet(empty[c])
  BY <1>0, <1>3
<1>5. Hung(empty, em2, c, b, n = e)
  <2>1. CASE n = e
    <3>1. em2 = [empty EXCEPT ![c] = Append(@, b)]
      BY <2>1 DEF Emptied
    <3> HIDE DEF em2, n, e
    <3>2. Hung(empty, em2, c, b, TRUE)
      BY <1>2, <1>3, <1>4, <3>1, HungPush
    <3> QED BY <2>1, <3>2, HungIf
  <2>2. CASE n # e
    <3>1. em2 = empty
      BY <1>2, <2>2 DEF Emptied
    <3> HIDE DEF em2, n, e
    <3>2. Hung(empty, empty, c, b, b \in ToSet(empty[c]))
      BY <1>2, HungStay
    <3> QED BY <1>4, <2>2, <3>1, <3>2, HungIf
  <2> QED BY <2>1, <2>2
<1> HIDE DEF em2
<1>6. /\ Hung(full, full', c, b, n = 0)
      /\ Hung(partial, partial', c, b, n \in 1 .. e - 1)
  <2>1. CASE n = e /\ partial' = [partial EXCEPT ![c] = RemoveFirst(@, b)] /\ UNCHANGED full
    <3>1. b \in ToSet(partial[c]) /\ b \notin ToSet(full[c]) /\ ~(n = 0) /\ ~(n \in 1 .. e - 1)
      <4>1. n = e
        BY <2>1
      <4> QED BY <4>1, <1>0, <1>3, <1>4
    <3> HIDE DEF n, e
    <3>2. Hung(partial, partial', c, b, FALSE)
      BY <1>2, <2>1, <3>1, HungErase
    <3>3. Hung(full, full', c, b, b \in ToSet(full[c]))
      BY <1>2, <2>1, HungStay
    <3>4. Hung(full, full', c, b, n = 0)
      BY <3>1, <3>3, HungIf
    <3>5. Hung(partial, partial', c, b, n \in 1 .. e - 1)
      BY <3>1, <3>2, HungIf
    <3> QED BY <3>4, <3>5
  <2>2. CASE n = 1 /\ full' = [full EXCEPT ![c] = RemoveFirst(@, b)]
             /\ partial' = [partial EXCEPT ![c] = Append(@, b)]
    <3>1. b \notin ToSet(partial[c]) /\ b \in ToSet(full[c]) /\ ~(n = 0) /\ n \in 1 .. e - 1
      <4>1. n = 1
        BY <2>2
      <4>2. m = 0 /\ m # e /\ m \notin 1 .. e - 1
        BY <4>1, <1>0
      <4>3. ~(n = 0) /\ n \in 1 .. e - 1
        BY <4>1, <1>0
      <4> HIDE DEF n, e
      <4> QED BY <4>2, <4>3, <1>3
    <3> HIDE DEF n, e
    <3>2. Hung(partial, partial', c, b, TRUE)
      BY <1>2, <1>3, <2>2, <3>1, HungPush
    <3>3. Hung(full, full', c, b, FALSE)
      BY <1>2, <2>2, <3>1, HungErase
    <3>4. Hung(full, full', c, b, n = 0)
      BY <3>1, <3>3, HungIf
    <3>5. Hung(partial, partial', c, b, n \in 1 .. e - 1)
      BY <3>1, <3>2, HungIf
    <3> QED BY <3>4, <3>5
  <2>3. CASE n \notin {1, e} /\ UNCHANGED <<full, partial>>
    <3>1. b \in ToSet(partial[c]) /\ b \notin ToSet(full[c]) /\ ~(n = 0) /\ n \in 1 .. e - 1
      <4>1. n # 1 /\ n # e
        BY <2>3
      <4> QED BY <4>1, <1>0, <1>3, <1>4
    <3> HIDE DEF n, e
    <3>2. Hung(partial, partial', c, b, b \in ToSet(partial[c]))
      BY <1>2, <2>3, HungStay
    <3>3. Hung(full, full', c, b, b \in ToSet(full[c]))
      BY <1>2, <2>3, HungStay
    <3>4. Hung(full, full', c, b, n = 0)
      BY <3>1, <3>3, HungIf
    <3>5. Hung(partial, partial', c, b, n \in 1 .. e - 1)
      BY <3>1, <3>2, HungIf
    <3> QED BY <3>4, <3>5
  <2> HIDE DEF n, e
  <2>4. FreeMoves(c, b, n)
    BY DEF n
  <2> QED BY <2>1, <2>2, <2>3, <2>4 DEF FreeMoves, e
<1> HIDE DEF n
<1>7. Moved(full, partial, empty, full', partial', em2, b, c, n)
  BY <1>5, <1>6 DEF Moved
<1> QED BY <1>7 DEF em2, n

\* Nobody frees an object that slab_free would reject.
LEMMA FreeAccepted ==
    ASSUME SInv, NEW o \in user
    PROVE  /\ FreeAsserts(o) /\ o \in Object /\ o.block \in On(full, partial, empty)
           /\ SlabOK(slab[o.block]) /\ o.i \in Marked(slab[o.block])
<1> DEFINE L == On(full, partial, empty)
           us == user \cup ret
           b == o.block
<1>1. Accounts(L, slab, us) /\ o \in Out(L, slab, us)
  BY SInvIs DEF Out
<1> HIDE DEF L, us
<1>2. /\ \A x \in L : SlabOK(slab[x])
      /\ \A p \in Out(L, slab, us) : p \in Object /\ p.block \in L
      /\ Numbered(L, slab, Out(L, slab, us))
  BY <1>1, AccountsIs
<1>3. o \in Object /\ b \in L /\ o = [block |-> b, i |-> o.i] /\ SlabOK(slab[b])
  BY <1>1, <1>2, ObjectIs
<1> HIDE DEF b
<1>4. o.i \in Marked(slab[b])
  BY <1>1, <1>2, <1>3 DEF Numbered
<1>5. slab[b].obj_list[o.i] = Removed
  BY <1>4 DEF Marked
<1>6. slab[b].free_objs < Objs[slab[b].cache]
  BY <1>3, <1>4, ReturnedGood
<1> QED BY <1>3, <1>4, <1>5, <1>6 DEF FreeAsserts, b, L

\* The state in between: object o is back in its slab, the slab is on the list its count
\* says, and the empty list of cache c is yet to be trimmed.
FreeBetween(o, c, em) ==
    /\ em \in [Caches -> Seq(Blocks)] /\ \A d \in Caches : d # c => em[d] = empty[d]
    /\ Lists(full', partial', em, slab')
    /\ On(full', partial', em) = On(full, partial, empty)
    /\ Accounts(On(full, partial, empty), slab', (user \cup ret) \ {o})
    /\ SameBut(On(full, partial, empty), slab, slab', o.block)
    /\ slab' = [x \in Blocks |-> slab'[x]]
    /\ \A x \in Blocks : slab'[x] = NoSlab \/ SlabOK(slab'[x])
    /\ empty' = [empty EXCEPT ![c] = Kept("NORMAL", em[c])]
    /\ pool' = pool \cup UNION Freed("NORMAL", em[c])

LEMMA FreeReturns ==
    ASSUME SInv, NEW o \in user, Free(o)
    PROVE  \E c \in Caches : \E em : FreeBetween(o, c, em)
<1>0. PICK L : L = On(full, partial, empty)
  OBVIOUS
<1>1. /\ Lists(full, partial, empty, slab) /\ Accounts(L, slab, user \cup ret)
      /\ slab = [x \in Blocks |-> slab[x]]
      /\ \A x \in Blocks : slab[x] = NoSlab \/ SlabOK(slab[x])
  BY <1>0, SInvIs
<1>2. PICK b : b = o.block
  OBVIOUS
<1>3. o \in Object /\ b \in L /\ SlabOK(slab[b]) /\ o.i \in Marked(slab[b])
  BY <1>0, <1>2, FreeAccepted
<1>4. PICK c : c = slab[b].cache
  OBVIOUS
<1>5. PICK m : m = slab[b].free_objs
  OBVIOUS
<1>6. PICK t : t = Returned(slab[b], o.i)
  OBVIOUS
<1>7. /\ SlabOK(t) /\ t.cache = c /\ t.at = slab[b].at /\ t.free_objs = m + 1 /\ m < Objs[c]
      /\ Marked(t) = Marked(slab[b]) \ {o.i}
  BY <1>3, <1>4, <1>5, <1>6, ReturnedGood
<1>8. L \subseteq Blocks /\ b \in Blocks
  BY <1>0, <1>1, <1>3, OnBlocks
<1>9. c \in Caches /\ m \in 0 .. Objs[c] - 1 /\ m + 1 \in 0 .. Objs[c]
  <2>1. Objs[c] \in Nat \ {0, 1} /\ c \in Caches /\ m \in 0 .. Objs[c]
    BY <1>3, <1>4, <1>5, SlabTypes
  <2> QED BY <2>1, <1>7
<1>10. PICK em : em = [empty EXCEPT ![c] = Emptied(c, b, m + 1)]
  OBVIOUS
<1>11. /\ slab' = [slab EXCEPT ![b] = t] /\ FreeMoves(c, b, m + 1)
       /\ empty' = [empty EXCEPT ![c] = Kept("NORMAL", Emptied(c, b, m + 1))]
       /\ pool' = pool \cup UNION Freed("NORMAL", Emptied(c, b, m + 1))
  <2>1. Free(o)
    OBVIOUS
  <2>2. Objs[c] = Objs[c] /\ t.free_objs = m + 1
    BY <1>7
  <2> QED BY <2>1, <2>2, <1>2, <1>4, <1>6 DEF Free, FreeMoves, Emptied
<1>12. Moved(full, partial, empty, full', partial', em, b, c, m + 1)
  <2>1. b \in On(full, partial, empty)
    BY <1>0, <1>3
  <2> QED BY <2>1, <1>4, <1>5, <1>9, <1>10, <1>11, FreeHangs
<1>13. /\ slab'[b] = t /\ \A x \in Blocks : x # b => slab'[x] = slab[x]
       /\ slab' = [x \in Blocks |-> slab'[x]]
       /\ \A x \in Blocks : slab'[x] = NoSlab \/ SlabOK(slab'[x])
  BY <1>1, <1>7, <1>8, <1>11, SlabSet
<1>14. Written(slab, slab', b, c, m + 1)
  BY <1>7, <1>13 DEF Written
<1>15. Lists(full', partial', em, slab')
  BY <1>1, <1>4, <1>8, <1>9, <1>12, <1>14, Rehung
<1>16. On(full', partial', em) = L
  <2>1. \A x : x \in On(full', partial', em) <=> x \in On(full, partial, empty) \/ x = b
    BY <1>9, <1>12, RehungOn
  <2>2. \A x : x \in On(full', partial', em) <=> x \in L
    BY <2>1, <1>0, <1>3
  <2> QED BY <2>2
<1>17. SameBut(L, slab, slab', b)
  BY <1>4, <1>7, <1>8, <1>13 DEF SameBut
<1>18. Accounts(L, slab', (user \cup ret) \ {o})
  <2>1. o \in user \cup ret
    OBVIOUS
  <2>2. SlabOK(slab'[o.block]) /\ Marked(slab'[o.block]) = Marked(slab[o.block]) \ {o.i}
    BY <1>2, <1>7, <1>13
  <2>3. SameBut(L, slab, slab', o.block)
    BY <1>2, <1>17
  <2> QED BY <2>1, <2>2, <2>3, <1>1, <1>8, AccountsBack
<1>19. empty \in [Caches -> Seq(Blocks)] /\ em \in [Caches -> Seq(Blocks)]
  BY <1>1, <1>15 DEF Lists
<1>20. em[c] = Emptied(c, b, m + 1) /\ \A d \in Caches : d # c => em[d] = empty[d]
  <2> DEFINE E == Emptied(c, b, m + 1)
  <2>1. em = [empty EXCEPT ![c] = E]
    BY <1>10
  <2> HIDE DEF E
  <2>2. em[c] = E /\ \A d \in Caches : d # c => em[d] = empty[d]
    BY <2>1, <1>9, <1>19
  <2> QED BY <2>2 DEF E
<1>21. FreeBetween(o, c, em)
  BY <1>0, <1>2, <1>11, <1>13, <1>15, <1>16, <1>17, <1>18, <1>19, <1>20 DEF FreeBetween
<1> QED BY <1>9, <1>21

LEMMA FreeStep ==
    ASSUME SInv, NEW o \in user, Free(o), KeepsOffSlab
    PROVE  SInv' /\ Lost' = Lost
<1>0. PICK L : L = On(full, partial, empty)
  OBVIOUS
<1>1. /\ Accounts(L, slab, user \cup ret) /\ CallsOK
      /\ PagesOK(pool, L \cup Held)
  BY <1>0, SInvIs
<1>2a. PICK c \in Caches : \E em : FreeBetween(o, c, em)
  BY FreeReturns
<1>2. PICK em : FreeBetween(o, c, em)
  BY <1>2a
<1>3. /\ em \in [Caches -> Seq(Blocks)] /\ \A d \in Caches : d # c => em[d] = empty[d]
      /\ Lists(full', partial', em, slab') /\ On(full', partial', em) = L
      /\ Accounts(L, slab', (user \cup ret) \ {o}) /\ SameBut(L, slab, slab', o.block)
      /\ slab' = [x \in Blocks |-> slab'[x]]
      /\ \A x \in Blocks : slab'[x] = NoSlab \/ SlabOK(slab'[x])
      /\ empty' = [empty EXCEPT ![c] = Kept("NORMAL", em[c])]
      /\ pool' = pool \cup UNION Freed("NORMAL", em[c])
  BY <1>0, <1>2 DEF FreeBetween
<1>4. PICK K : K = [d \in Caches |-> IF d = c THEN Surplus("NORMAL", Len(em[c])) ELSE 0]
  OBVIOUS
<1>5. /\ pc = "idle" /\ user' = user \ {o} /\ UNCHANGED <<pc, calls, ret>>
  BY DEF Free
<1>6. K[c] \in 0 .. Len(em[c]) /\ K[c] = Surplus("NORMAL", Len(em[c]))
  <2>1. Len(em[c]) \in Nat
    <3>1. em[c] \in Seq(Blocks)
      BY <1>3
    <3> QED BY <3>1
  <2>2. Surplus("NORMAL", Len(em[c])) \in 0 .. Len(em[c])
    BY <2>1, SurplusIs
  <2> QED BY <1>4, <2>2
<1>7. \A d \in Caches : d # c => K[d] = 0
  BY <1>4
<1>8. ASSUME NEW d \in Caches, d # c
      PROVE  SubSeq(em[d], 1, Len(em[d]) - K[d]) = em[d] /\ K[d] \in 0 .. Len(em[d])
  <2>1. em[d] \in Seq(Blocks) /\ K[d] = 0
    BY <1>3, <1>7, <1>8
  <2>2. Len(em[d]) \in Nat /\ Len(em[d]) - K[d] = Len(em[d])
    BY <2>1
  <2>3. SubSeq(em[d], 1, Len(em[d])) = em[d]
    BY <2>1
  <2> QED BY <2>1, <2>2, <2>3
<1>9. empty' = Trimmed(em, K)
  <2>1. empty \in [Caches -> Seq(Blocks)]
    BY SInvIs DEF Lists
  <2> DEFINE X == Kept("NORMAL", em[c])
             F(d) == IF d = c THEN X ELSE empty[d]
             G(d) == SubSeq(em[d], 1, Len(em[d]) - K[d])
  <2>2. empty' = [d \in Caches |-> F(d)]
    <3> HIDE DEF X
    <3>1. empty' = [empty EXCEPT ![c] = X]
      BY <1>3 DEF X
    <3> QED BY <2>1, <3>1
  <2>3. Trimmed(em, K) = [d \in Caches |-> G(d)]
    BY DEF Trimmed
  <2>4. ASSUME NEW d \in Caches PROVE F(d) = G(d)
    <3>1. CASE d = c
      BY <3>1, <1>6 DEF Kept
    <3>2. CASE d # c
      BY <3>2, <1>3, <1>8
    <3> QED BY <3>1, <3>2
  <2> HIDE DEF F, G
  <2> QED BY <2>2, <2>3, <2>4
<1>10. pool' = pool \cup UNION Popped(em, K)
  <2> DEFINE Q(d) == {PageFreed(i, em[d][Len(em[d]) - i]) : i \in 0 .. K[d] - 1}
  <2>1. Freed("NORMAL", em[c]) = Q(c)
    BY <1>6 DEF Freed
  <2>2. \A d \in Caches : d # c => Q(d) = {}
    <3>1. ASSUME NEW d \in Caches, d # c PROVE Q(d) = {}
      <4>1. 0 .. K[d] - 1 = {}
        BY <1>7, <3>1
      <4> QED BY <4>1
    <3> QED BY <3>1
  <2>3. Popped(em, K) = UNION {Q(d) : d \in Caches}
    BY DEF Popped
  <2> HIDE DEF Q
  <2>4. UNION {Q(d) : d \in Caches} = Q(c)
    BY <2>2
  <2> QED BY <1>3, <2>1, <2>3, <2>4
<1>11. /\ \A x \in L : slab'[x].at = slab[x].at
       /\ OffSlab(L, slab') = OffSlab(L, slab)
  <2>1. o.block \in L
    BY <1>0, FreeAccepted
  <2> QED BY <2>1, <1>3, SameDesc
<1>12. OffSlab(L, slab') \subseteq Listed'
  BY <1>0, <1>11, ListedIs DEF KeepsOffSlab
<1>13. PICK sl : sl = slab'
  OBVIOUS
<1>14. PICK us : us = (user \cup ret) \ {o}
  OBVIOUS
<1>14a. ret = {} /\ Held = {} /\ Held' = {} /\ CallsOK'
  <2>1. calls = <<>> /\ ret = {}
    BY <1>1, <1>5 DEF CallsOK
  <2>2. Held' = HeldBy(calls')
    BY DEF Held, HeldBy
  <2>3. CallsOK'
    BY <1>5, <2>1 DEF CallsOK
  <2> QED BY <1>5, <2>1, <2>2, <2>3, HeldByIs
<1>15. /\ Lists(full', partial', empty', sl) /\ Accounts(Listed', sl, us)
       /\ PagesOK(pool', Listed')
       /\ pool' \cup UNION Listed' = pool \cup UNION On(full', partial', em)
  <2>1. Lists(full', partial', em, sl) /\ Accounts(On(full', partial', em), sl, us)
    BY <1>3, <1>13, <1>14
  <2>2. OffSlab(On(full', partial', em), sl) \subseteq Listed'
        /\ PagesOK(pool, On(full', partial', em))
    <3>1. L \cup {} = L
      OBVIOUS
    <3> QED BY <3>1, <1>1, <1>3, <1>12, <1>13, <1>14a
  <2>3. \A x \in On(full', partial', em) : slab[x].at = sl[x].at
    BY <1>3, <1>11, <1>13
  <2>4. \A d \in Caches : K[d] \in 0 .. Len(em[d])
    BY <1>6, <1>8
  <2> QED BY <1>9, <1>10, <2>1, <2>2, <2>3, <2>4, TrimStep
<1>16. Listed' \cup Held' = Listed' /\ Listed \cup Held = Listed
  BY <1>14a
<1>17. us = user' \cup ret' /\ ret' = {}
  BY <1>5, <1>14, <1>14a
<1>18. SInv'
  <2>1. Lists(full', partial', empty', slab') /\ Accounts(Listed', slab', user' \cup ret')
    BY <1>13, <1>15, <1>17
  <2> QED BY <2>1, <1>3, <1>14a, <1>15, <1>16, <1>17 DEF SInv
<1>19. Lost' = Lost
  BY <1>0, <1>3, <1>15, <1>16, ListedIs DEF Lost
<1> QED BY <1>18, <1>19

-----------------------------------------------------------------------------
(* The invariant holds, and with it the properties of Slab.                *)

\* Every step keeps SInv, and only a nested call that comes back empty loses a page.
LEMMA SlabStep ==
    ASSUME SInv, Next, KeepsOffSlab
    PROVE  SInv' /\ (Undescribed \/ Lost' = Lost)
<1>1. CASE \E c \in Caches : Alloc(c)
  BY <1>1, AllocStep
<1>2. CASE \E o \in user : Free(o)
  BY <1>2, FreeStep
<1>3. CASE \E flag \in Releases : Release(flag)
  BY <1>3, ReleaseStep
<1>4. CASE Fetch
  BY <1>4, FetchStep
<1>5. CASE FillOnSlab
  BY <1>5, FillOnSlabStep
<1>6. CASE FillOffSlab
  BY <1>6, FillOffSlabStep
<1>7. CASE FillFails
  BY <1>7, FillFailsStep
<1>8. CASE Described
  BY <1>8, DescribedStep
<1>9. CASE Undescribed
  BY <1>9, UndescribedStep
<1>10. CASE Deliver
  BY <1>10, DeliverStep
<1> QED BY <1>1, <1>2, <1>3, <1>4, <1>5, <1>6, <1>7, <1>8, <1>9, <1>10 DEF Next, Step

LEMMA SlabStutter ==
    ASSUME SInv, UNCHANGED vars
    PROVE  SInv' /\ Lost' = Lost
<1>1. /\ pool' = pool /\ slab' = slab /\ full' = full /\ partial' = partial
      /\ empty' = empty /\ pc' = pc /\ calls' = calls /\ ret' = ret /\ user' = user
  BY DEF vars
<1>2. Listed' = Listed /\ Held' = Held
  BY <1>1 DEF Listed, Held
<1>3. CallsOK'
  <2>1. CallsOK
    BY DEF SInv
  <2> QED BY <2>1, <1>1 DEF CallsOK, Waiting
<1> QED BY <1>1, <1>2, <1>3 DEF SInv, Lost

\* The invariant, of kmalloc and kfree as long as no slab with its descriptor elsewhere is
\* given back.
THEOREM SlabInvariant == Spec /\ [][KeepsOffSlab]_vars => []SInv
<1>1. Init => SInv
  BY SInvInit
<1>2. SInv /\ [Next]_vars /\ [KeepsOffSlab]_vars => SInv'
  <2> SUFFICES ASSUME SInv, [Next]_vars, [KeepsOffSlab]_vars PROVE SInv'
    OBVIOUS
  <2>1. CASE UNCHANGED vars
    BY <2>1, SlabStutter
  <2>2. CASE Next /\ KeepsOffSlab
    BY <2>2, SlabStep
  <2> QED BY <2>1, <2>2
<1> QED BY <1>1, <1>2, PTL DEF Spec

\* TypeOK.
LEMMA SlabTypesOK == SInv => TypeOK
<1> SUFFICES ASSUME SInv PROVE TypeOK
  OBVIOUS
<1>1. /\ Lists(full, partial, empty, slab)
      /\ Accounts(On(full, partial, empty), slab, user \cup ret)
      /\ CallsOK /\ PagesOK(pool, On(full, partial, empty) \cup Held)
      /\ \A b \in Blocks : slab[b] = NoSlab \/ SlabOK(slab[b])
  BY SInvIs
<1>2. user \subseteq Object /\ ret \subseteq Object
  <2>1. \A o \in Out(On(full, partial, empty), slab, user \cup ret) : o \in Object
    BY <1>1, AccountsIs
  <2> QED BY <2>1 DEF Out
<1>3. \A b \in Blocks : slab[b] # NoSlab =>
          /\ slab[b].free \in 0 .. Objs[slab[b].cache]
          /\ slab[b].free_objs \in 0 .. Objs[slab[b].cache]
  BY <1>1, SlabTypes
<1>4. /\ full \in [Caches -> Seq(Blocks)] /\ partial \in [Caches -> Seq(Blocks)]
      /\ empty \in [Caches -> Seq(Blocks)]
  BY <1>1 DEF Lists
<1>5. pc \in {"idle", "run", "done"} /\ calls \in Seq([cache : Caches, page : SUBSET Blocks])
  <2> DEFINE R == [cache : Caches, page : SUBSET Blocks]
  <2>1. \A c \in Caches : Call(c) \in R
    BY DEF Call
  <2>2. \A c \in Caches, b \in Blocks : Outer(c, b) \in R
    BY DEF Outer
  <2>3. \A c, b : Waiting(c, b) => DescCache[c] \in Caches
    BY SlabConstants DEF Waiting
  <2> HIDE DEF R
  <2>4. <<>> \in Seq(R) /\ \A x \in R : <<x>> \in Seq(R) /\ \A y \in R : <<x, y>> \in Seq(R)
    OBVIOUS
  <2>5. calls \in Seq(R)
    BY <1>1, <2>1, <2>2, <2>3, <2>4 DEF CallsOK
  <2> QED BY <1>1, <2>5 DEF CallsOK, R
<1>6. pool \subseteq Pages
  BY <1>1 DEF PagesOK
<1> QED BY <1>2, <1>3, <1>4, <1>5, <1>6 DEF TypeOK

\* Two lists without repetition and without a slab in common, one behind the other.
LEMMA ConcatIs ==
    ASSUME NEW s \in Seq(Blocks), NEW t \in Seq(Blocks), IsInjective(s), IsInjective(t),
           \A x \in ToSet(s) : x \notin ToSet(t)
    PROVE  /\ s \o t \in Seq(Blocks) /\ IsInjective(s \o t)
           /\ \A x : x \in ToSet(s \o t) <=> x \in ToSet(s) \/ x \in ToSet(t)
<1> DEFINE m == Len(s)  n == Len(t)  u == s \o t
<1>1. /\ u \in Seq(Blocks) /\ m \in Nat /\ n \in Nat /\ Len(u) = m + n
      /\ \A j \in 1 .. m + n : u[j] = IF j <= m THEN s[j] ELSE t[j - m]
  OBVIOUS
<1>2. /\ DOMAIN s = 1 .. m /\ \A x : x \in ToSet(s) <=> \E j \in 1 .. m : x = s[j]
      /\ DOMAIN t = 1 .. n /\ \A x : x \in ToSet(t) <=> \E j \in 1 .. n : x = t[j]
  BY InSet
<1> HIDE DEF m, n, u
<1>3. DOMAIN u = 1 .. m + n /\ \A x : x \in ToSet(u) <=> \E j \in 1 .. m + n : x = u[j]
  <2>1. DOMAIN u = 1 .. Len(u) /\ \A x : x \in ToSet(u) <=> \E j \in 1 .. Len(u) : x = u[j]
    BY <1>1, InSet
  <2> QED BY <1>1, <2>1
<1>4. /\ \A j \in 1 .. m : j \in 1 .. m + n /\ u[j] = s[j]
      /\ \A j \in 1 .. n : m + j \in 1 .. m + n /\ u[m + j] = t[j]
      /\ \A j \in 1 .. m + n : j \in 1 .. m \/ (j - m \in 1 .. n /\ u[j] = t[j - m])
  BY <1>1
<1>5. \A x : x \in ToSet(u) <=> x \in ToSet(s) \/ x \in ToSet(t)
  <2> TAKE x
  <2>1. x \in ToSet(s) => x \in ToSet(u)
    BY <1>2, <1>3, <1>4
  <2>2. x \in ToSet(t) => x \in ToSet(u)
    <3> SUFFICES ASSUME x \in ToSet(t) PROVE x \in ToSet(u)
      OBVIOUS
    <3>1. PICK j \in 1 .. n : x = t[j]
      BY <1>2
    <3>2. m + j \in 1 .. m + n /\ u[m + j] = x
      BY <1>4, <3>1
    <3> QED BY <1>3, <3>2
  <2>3. x \in ToSet(u) => x \in ToSet(s) \/ x \in ToSet(t)
    BY <1>2, <1>3, <1>4
  <2> QED BY <2>1, <2>2, <2>3
<1>6. ASSUME NEW j \in 1 .. m + n, NEW k \in 1 .. m + n, u[j] = u[k] PROVE j = k
  <2>1. CASE j \in 1 .. m /\ k \in 1 .. m
    BY <1>2, <1>4, <1>6, <2>1 DEF IsInjective
  <2>2. CASE j \notin 1 .. m /\ k \notin 1 .. m
    <3>1. j - m \in 1 .. n /\ k - m \in 1 .. n /\ t[j - m] = t[k - m]
      BY <1>4, <1>6, <2>2
    <3>2. j - m = k - m
      BY <1>2, <3>1 DEF IsInjective
    <3> QED BY <1>1, <3>2
  <2>3. CASE j \in 1 .. m /\ k \notin 1 .. m
    BY <1>2, <1>4, <1>6, <2>3
  <2>4. CASE j \notin 1 .. m /\ k \in 1 .. m
    BY <1>2, <1>4, <1>6, <2>4
  <2> QED BY <2>1, <2>2, <2>3, <2>4
<1>7. IsInjective(u)
  BY <1>3, <1>6 DEF IsInjective
<1> QED BY <1>1, <1>5, <1>7 DEF u

LEMMA CountIs ==
    ASSUME NEW s \in Seq(Blocks), IsInjective(s)
    PROVE  Cardinality(ToSet(s)) = Len(s)
<1> DEFINE n == Len(s)  T == ToSet(s)
<1>1. /\ n \in Nat /\ s \in [1 .. n -> Blocks] /\ DOMAIN s = 1 .. n
      /\ \A x : x \in T <=> \E j \in 1 .. n : x = s[j]
  BY InSet
<1> HIDE DEF n, T
<1>2. s \in [1 .. n -> T]
  BY <1>1
<1>3. s \in Bijection(1 .. n, T)
  BY <1>1, <1>2 DEF Bijection, Injection, Surjection, IsInjective
<1>4. ExistsBijection(1 .. n, T)
  BY <1>3 DEF ExistsBijection
<1> QED BY <1>1, <1>4, FS_CountingElements DEF n, T

\* ListsMatchCounts.
LEMMA ListsHold == SInv => ListsMatchCounts
<1> SUFFICES ASSUME SInv PROVE ListsMatchCounts
  OBVIOUS
<1>1. Lists(full, partial, empty, slab)
      /\ Accounts(On(full, partial, empty), slab, user \cup ret)
  BY SInvIs
<1>2. \A b \in On(full, partial, empty) : SlabOK(slab[b])
  BY <1>1 DEF Accounts
<1>3. ASSUME NEW c \in Caches
      PROVE  LET all == full[c] \o partial[c] \o empty[c]
             IN /\ Cardinality(ToSet(all)) = Len(all)
                /\ \A b \in ToSet(all) : slab[b].cache = c /\ WellFormed(slab[b])
                /\ \A b \in ToSet(full[c]) : slab[b].free_objs = 0
                /\ \A b \in ToSet(partial[c]) : slab[b].free_objs \in 1 .. Objs[c] - 1
                /\ \A b \in ToSet(empty[c]) : slab[b].free_objs = Objs[c]
  <2>1. /\ full[c] \in Seq(Blocks) /\ partial[c] \in Seq(Blocks) /\ empty[c] \in Seq(Blocks)
        /\ IsInjective(full[c]) /\ IsInjective(partial[c]) /\ IsInjective(empty[c])
        /\ \A b \in ToSet(full[c]) : slab[b].cache = c /\ slab[b].free_objs = 0
        /\ \A b \in ToSet(partial[c]) : slab[b].cache = c /\ slab[b].free_objs \in 1 .. Objs[c] - 1
        /\ \A b \in ToSet(empty[c]) : slab[b].cache = c /\ slab[b].free_objs = Objs[c]
    BY <1>1, ListsAre
  <2> DEFINE f == full[c]  p == partial[c]  e == empty[c]  n == Objs[c]
  <2>2. n \in Nat \ {0, 1}
    BY SlabConstants
  <2>3. /\ \A x \in ToSet(f) : x \notin ToSet(p) /\ x \notin ToSet(e)
        /\ \A x \in ToSet(p) : x \notin ToSet(e)
    BY <2>1, <2>2
  <2>4. /\ f \in Seq(Blocks) /\ p \in Seq(Blocks) /\ e \in Seq(Blocks)
        /\ IsInjective(f) /\ IsInjective(p) /\ IsInjective(e)
    BY <2>1
  <2> HIDE DEF f, p, e
  <2>5. /\ f \o p \in Seq(Blocks) /\ IsInjective(f \o p)
        /\ \A x : x \in ToSet(f \o p) <=> x \in ToSet(f) \/ x \in ToSet(p)
    BY <2>3, <2>4, ConcatIs
  <2> DEFINE g == f \o p
  <2> HIDE DEF g
  <2>6. g \in Seq(Blocks) /\ IsInjective(g) /\ \A x \in ToSet(g) : x \notin ToSet(e)
    BY <2>3, <2>5 DEF g
  <2>7. /\ g \o e \in Seq(Blocks) /\ IsInjective(g \o e)
        /\ \A x : x \in ToSet(g \o e) <=> x \in ToSet(g) \/ x \in ToSet(e)
    BY <2>4, <2>6, ConcatIs
  <2>8. Cardinality(ToSet(g \o e)) = Len(g \o e)
    BY <2>7, CountIs
  <2>9. \A x \in ToSet(g \o e) : x \in ToSet(full[c]) \/ x \in ToSet(partial[c]) \/ x \in ToSet(empty[c])
    BY <2>5, <2>7 DEF g, f, p, e
  <2>10. \A x \in ToSet(g \o e) : slab[x].cache = c /\ WellFormed(slab[x])
    <3> TAKE x \in ToSet(g \o e)
    <3>1. x \in On(full, partial, empty)
      BY <2>9, OnIs
    <3> QED BY <3>1, <1>2, <2>1, <2>9 DEF SlabOK
  <2> QED BY <2>1, <2>8, <2>10 DEF g, f, p, e
<1> QED BY <1>3 DEF ListsMatchCounts

\* ObjectsAccounted.
LEMMA ObjectsHold == SInv => ObjectsAccounted
<1> SUFFICES ASSUME SInv PROVE ObjectsAccounted
  OBVIOUS
<1>1. Accounts(Listed, slab, user \cup ret) /\ user \cap ret = {}
  BY DEF SInv
<1>2. Descriptors = Desc(Listed, slab) /\ Live = Out(Listed, slab, user \cup ret)
  BY DEF Descriptors, Desc, OffSlab, Live, Out
<1>3. \A b \in Listed : {i \in DOMAIN slab[b].obj_list : slab[b].obj_list[i] = Removed}
                        = {o.i : o \in {p \in Live : p.block = b}}
  BY <1>1, <1>2 DEF Accounts, Marked
<1>4. \A o \in user : FreeAsserts(o)
  BY FreeAccepted
<1>5. \A a \in Listed : slab[a].cache <= InSlabIndex \/ a \in OffSlab(Listed, slab)
  <2> TAKE a \in Listed
  <2>1. slab[a].cache \in Nat /\ InSlabIndex \in Nat
    BY <1>1, SlabTypes, SlabConstants DEF Accounts
  <2> QED BY <2>1, DescIs
<1>6. \A a \in OffSlab(Listed, slab) : \A x \in slab[a].at : x.i # -1
  <2> TAKE a \in OffSlab(Listed, slab)
  <2> TAKE x \in slab[a].at
  <2>1. x \in Object
    BY <1>1, DescIs DEF Accounts, Out
  <2>2. PICK c \in Caches : x.i \in 0 .. Objs[c] - 1
    BY <2>1, ObjectIs DEF Slots
  <2>3. Objs[c] \in Nat
    BY SlabConstants
  <2> QED BY <2>2, <2>3
<1>7. \A a : Header(a).i = -1 /\ Header(a).block = a
  BY DEF Header
<1>8. ASSUME NEW a \in Listed, NEW b \in Listed, a # b PROVE slab[a].at \cap slab[b].at = {}
  <2>1. /\ slab[a].at = {Header(a)} \/ a \in OffSlab(Listed, slab)
        /\ slab[b].at = {Header(b)} \/ b \in OffSlab(Listed, slab)
    BY <1>1, <1>5 DEF Accounts
  <2>2. CASE a \in OffSlab(Listed, slab) /\ b \in OffSlab(Listed, slab)
    BY <1>1, <1>8, <2>2 DEF Accounts
  <2>3. CASE slab[a].at = {Header(a)} /\ slab[b].at = {Header(b)}
    BY <1>7, <1>8, <2>3
  <2>4. CASE slab[a].at = {Header(a)} /\ b \in OffSlab(Listed, slab)
    BY <1>6, <1>7, <2>4
  <2>5. CASE a \in OffSlab(Listed, slab) /\ slab[b].at = {Header(b)}
    BY <1>6, <1>7, <2>5
  <2> QED BY <2>1, <2>2, <2>3, <2>4, <2>5
<1>9. (user \cup ret) \cap Descriptors = {}
  BY <1>1, <1>2 DEF Accounts
<1> QED BY <1>1, <1>3, <1>4, <1>8, <1>9 DEF ObjectsAccounted

\* PagesStay.
LEMMA PagesHold == SInv => PagesStay
<1> SUFFICES ASSUME SInv PROVE PagesStay
  OBVIOUS
<1>1. Accounts(Listed, slab, user \cup ret) /\ PagesOK(pool, Listed \cup Held)
  BY DEF SInv
<1>2. Live = Out(Listed, slab, user \cup ret)
  BY DEF Descriptors, Desc, OffSlab, Live, Out
<1>3. \A o \in Live : o.block \in Listed
  BY <1>1, <1>2 DEF Accounts
<1>4. Listed \cup Held \cup {o.block : o \in Live} = Listed \cup Held
  BY <1>3
<1>5. pool \cap UNION (Listed \cup Held) = {}
  BY <1>1 DEF PagesOK
<1>6. \A a, b \in Listed \cup Held : a # b => a \cap b = {}
  BY <1>1 DEF PagesOK
<1> QED BY <1>4, <1>5, <1>6 DEF PagesStay

\* Types are as declared, and the asserts of fetch_obj_from_slab hold: every slab is on
\* the one list its count says, with a free chain of as many objects.
THEOREM ListsAlwaysMatch ==
    Spec /\ [][KeepsOffSlab]_vars => [](TypeOK /\ ListsMatchCounts)
BY SlabInvariant, SlabTypesOK, ListsHold, PTL

\* kmalloc hands no object out twice and loses none, no two slabs share a descriptor, and
\* kfree's asserts accept every object its callers hold.
THEOREM ObjectsAlwaysAccounted == Spec /\ [][KeepsOffSlab]_vars => []ObjectsAccounted
BY SlabInvariant, ObjectsHold, PTL

\* The page allocator never gets a page back that something still lies in.
THEOREM PagesAlwaysStay == Spec /\ [][KeepsOffSlab]_vars => []PagesStay
BY SlabInvariant, PagesHold, PTL

\* A page gets lost only when fill_empty_slot had one and got no descriptor for it.
THEOREM OnlyFailedFillLosesPages == Spec /\ [][KeepsOffSlab]_vars => OnlyFailedFillLoses
<1>1. SInv /\ [Next]_vars /\ [KeepsOffSlab]_vars
          => [Lost' # Lost => pc = "done" /\ ret = {}]_vars
  <2> SUFFICES ASSUME SInv, Next, KeepsOffSlab, Lost' # Lost PROVE pc = "done" /\ ret = {}
    OBVIOUS
  <2>1. Undescribed
    BY SlabStep
  <2> QED BY <2>1 DEF Undescribed
<1> QED BY <1>1, SlabInvariant, PTL DEF Spec, OnlyFailedFillLoses

\* kmalloc refuses, and a slab_alloc inside it, only when no slab of the caches being
\* looked in has an object to give, at whatever point the page allocator gives out.
THEOREM RefusalsHonest == Spec /\ [][KeepsOffSlab]_vars => HonestRefusal
<1> DEFINE Refused == pc = "run" /\ pc' = "done" /\ ret' = {}
           Reason == \A c \in {calls[k].cache : k \in DOMAIN calls} :
                         \A b \in Listed : slab[b].cache = c => slab[b].free_objs = 0
<1>1. SInv /\ [Next]_vars => [Refused => Reason]_vars
  <2> SUFFICES ASSUME SInv, Next, Refused PROVE Reason
    OBVIOUS
  <2>1. FillFails
    BY DEF Next, Step, Alloc, Free, Release, Fetch, FillOnSlab, FillOffSlab, Described,
           Undescribed, Deliver
  <2>2. Candidates(Top.cache) = <<>> /\ pc = "run"
    BY <2>1 DEF FillFails, MustFill
  <2>3. Lists(full, partial, empty, slab) /\ CallsOK
    BY SInvIs
  <2>4. Top.cache \in Caches
    BY <2>2, <2>3, RunCalls
  <2>5. partial[Top.cache] = <<>> /\ empty[Top.cache] = <<>>
    <3>1. partial[Top.cache] \in Seq(Blocks) /\ empty[Top.cache] \in Seq(Blocks)
      BY <2>3, <2>4, ListsAre
    <3> QED BY <2>2, <3>1, HeadIs DEF Candidates
  <2>6. ASSUME NEW c \in {calls[k].cache : k \in DOMAIN calls}
        PROVE  c \in Caches /\ partial[c] = <<>> /\ empty[c] = <<>>
    <3>1. PICK k \in DOMAIN calls : c = calls[k].cache
      OBVIOUS
    <3>2. CASE calls = <<Call(Top.cache)>>
      <4>1. calls[k] = Call(Top.cache)
        BY <3>1, <3>2
      <4> QED BY <3>1, <4>1, <2>4, <2>5, HeldByIs
    <3>3. CASE \E d \in Caches, b \in Blocks : Nested(Top.cache, d, b)
      <4>1. PICK d \in Caches, b \in Blocks : Nested(Top.cache, d, b)
        BY <3>3
      <4>2. calls = <<Call(Top.cache), Outer(d, b)>> /\ Waiting(d, b)
        BY <4>1 DEF Nested
      <4>3. calls[k] = Call(Top.cache) \/ calls[k] = Outer(d, b)
        BY <3>1, <4>2
      <4>4. c = Top.cache \/ c = d
        BY <3>1, <4>3, HeldByIs
      <4> QED BY <4>2, <4>4, <2>4, <2>5 DEF Waiting
    <3> QED BY <3>2, <3>3, <2>2, <2>3, RunCalls
  <2>7. ASSUME NEW c \in {calls[k].cache : k \in DOMAIN calls}, NEW b \in Listed,
               slab[b].cache = c
        PROVE  slab[b].free_objs = 0
    <3>1. c \in Caches /\ partial[c] = <<>> /\ empty[c] = <<>>
      BY <2>6
    <3>2. PICK d \in Caches : b \in ToSet(full[d]) \/ b \in ToSet(partial[d]) \/ b \in ToSet(empty[d])
      BY ListedIs, OnIs
    <3>3. /\ b \in ToSet(full[d]) => slab[b].cache = d /\ slab[b].free_objs = 0
          /\ b \in ToSet(partial[d]) => slab[b].cache = d
          /\ b \in ToSet(empty[d]) => slab[b].cache = d
      BY <2>3, ListsAre
    <3>4. d = c
      BY <2>7, <3>2, <3>3
    <3>5. ToSet(<<>>) = {}
      BY DEF ToSet
    <3> QED BY <3>1, <3>2, <3>3, <3>4, <3>5
  <2> QED BY <2>7
<1> QED BY <1>1, SlabInvariant, PTL DEF Spec, HonestRefusal

\* Where every slab holds its own descriptor, nothing is left to assume.
COROLLARY OnSlabOnly ==
    ASSUME \A c \in Caches : c <= InSlabIndex
    PROVE  Spec => [](ListsMatchCounts /\ ObjectsAccounted /\ PagesStay)
<1>1. Init => SInv
  BY SInvInit
<1>2. SInv /\ [Next]_vars => SInv'
  <2> SUFFICES ASSUME SInv, [Next]_vars PROVE SInv'
    OBVIOUS
  <2>1. KeepsOffSlab
    <3> SUFFICES ASSUME NEW b \in OffSlab(Listed, slab) PROVE FALSE
      BY DEF KeepsOffSlab
    <3>1. b \in Listed /\ slab[b].cache > InSlabIndex
      BY DescIs
    <3>2. slab[b].cache \in Caches /\ slab[b].cache \in Nat /\ InSlabIndex \in Nat
      BY <3>1, SlabTypes, SlabConstants DEF SInv, Accounts
    <3> QED BY <3>1, <3>2
  <2>2. CASE UNCHANGED vars
    BY <2>2, SlabStutter
  <2>3. CASE Next
    BY <2>1, <2>3, SlabStep
  <2> QED BY <2>2, <2>3
<1> QED BY <1>1, <1>2, ListsHold, ObjectsHold, PagesHold, PTL DEF Spec

-----------------------------------------------------------------------------
(* SlabGeometry: a slab that holds its own descriptor keeps it, and its    *)
(* objects, apart and inside the block, whatever the sizes.                *)

\* What the division of naturals is.
LEMMA DivFacts ==
    ASSUME NEW a \in Nat, NEW b \in Nat \ {0}
    PROVE  /\ a \div b \in Nat
           /\ b * (a \div b) <= a
           /\ a < b * (a \div b) + b
<1>1. a \div b \in Nat
  OBVIOUS
<1>2. b * (a \div b) <= a
  BY SMT
<1>3. a < b * (a \div b) + b
  BY SMT
<1> QED BY <1>1, <1>2, <1>3

\* CeilDiv rounds up.
LEMMA CeilDivFacts ==
    ASSUME NEW a \in Nat, NEW b \in Nat \ {0}
    PROVE  /\ CeilDiv(a, b) \in Nat
           /\ a <= b * CeilDiv(a, b)
           /\ b * CeilDiv(a, b) < a + b
<1> DEFINE n == a + b - 1
           q == n \div b
<1>1. n \in Nat
  OBVIOUS
<1>2. q \in Nat /\ b * q <= n /\ n < b * q + b
  <2> HIDE DEF n
  <2> QED BY <1>1, DivFacts
<1>3. b * q \in Nat
  BY <1>2
<1>4. a <= b * q /\ b * q < a + b
  BY <1>2, <1>3
<1>5. CeilDiv(a, b) = q
  BY DEF CeilDiv
<1> QED BY <1>2, <1>4, <1>5

\* It rounds up to no more than it must.
LEMMA CeilDivLeast ==
    ASSUME NEW a \in Nat, NEW b \in Nat \ {0}, NEW k \in Nat, a <= b * k
    PROVE  CeilDiv(a, b) <= k
<1> DEFINE q == CeilDiv(a, b)
<1>1. q \in Nat /\ b * q < a + b
  BY CeilDivFacts
<1> HIDE DEF q
<1> SUFFICES ASSUME q > k PROVE FALSE
  BY <1>1 DEF q
<1>2. PICK d \in Nat : q = k + 1 + d
  <2>1. q - k - 1 \in Nat
    BY <1>1
  <2> QED BY <2>1, <1>1
<1>3. b * q = b * k + b + b * d
  BY <1>2
<1>4. b * k \in Nat /\ b * d \in Nat
  BY <1>2
<1> QED BY <1>1, <1>3, <1>4

\* fill_empty_slot: with at least as many objects in the block as the full
\* block's descriptor covers, the descriptor ends where the objects begin or
\* before, and the last object ends inside the block.
THEOREM ObjectsFit ==
    ASSUME NEW room \in Nat, NEW size \in Nat \ {0},
           HeaderObjs(room, size) <= Whole(room, size),
           TotalObjs(room, size) > 0
    PROVE  /\ SlabLen(TotalObjs(room, size)) <= BuffOffset(room, size)
           /\ BuffOffset(room, size) + TotalObjs(room, size) * size <= room
<1> DEFINE w == Whole(room, size)
           c == HeaderObjs(room, size)
           g == AddObjs(room, size)
           t == TotalObjs(room, size)
           o == CeilDiv(SlabLen(t), size)
<1>1. w \in Nat /\ size * w <= room
  BY DivFacts DEF Whole
<1>2. c \in Nat /\ 28 + 4 * w <= size * c
  <2>1. SlabLen(w) = 28 + 4 * w
    <3> HIDE DEF w
    <3> QED BY <1>1 DEF SlabLen
  <2>2. 28 + 4 * w \in Nat
    <3> HIDE DEF w
    <3> QED BY <1>1
  <2>3. c = CeilDiv(28 + 4 * w, size)
    BY <2>1 DEF HeaderObjs
  <2> HIDE DEF c, w
  <2> QED BY <2>2, <2>3, CeilDivFacts
<1>3. g \in Nat /\ (4 + size) * g <= 4 * c
  <2>1. 4 * c \in Nat /\ 4 + size \in Nat \ {0}
    <3> HIDE DEF c
    <3> QED BY <1>2
  <2>2. g = (4 * c) \div (4 + size)
    BY DEF AddObjs
  <2> HIDE DEF c, g
  <2> QED BY <2>1, <2>2, DivFacts
<1>4. t = w - c + g /\ c <= w /\ t \in Nat /\ t > 0
  <2>1. t = w - c + g /\ c <= w /\ t > 0
    BY DEF TotalObjs
  <2> HIDE DEF w, c, g, t
  <2> QED BY <2>1, <1>1, <1>2, <1>3
<1>5. SlabLen(t) = 28 + 4 * t /\ SlabLen(t) \in Nat
  <2> HIDE DEF t
  <2> QED BY <1>4 DEF SlabLen
<1>6. o \in Nat /\ SlabLen(t) <= size * o
  <2> HIDE DEF t
  <2> QED BY <1>5, CeilDivFacts
<1>7. g <= c
  <2> HIDE DEF g, c
  <2> SUFFICES ASSUME g > c PROVE FALSE
    BY <1>2, <1>3
  <2>1. (4 + size) * g = 4 * g + size * g /\ size * g \in Nat
    BY <1>3
  <2> QED BY <2>1, <1>2, <1>3
<1>8. SlabLen(t) <= size * (c - g)
  <2> HIDE DEF w, c, g, t
  <2>1. (4 + size) * g = 4 * g + size * g
    BY <1>3
  <2>2. size * (c - g) = size * c - size * g
    BY <1>2, <1>3
  <2>3. size * g \in Nat /\ size * c \in Nat
    BY <1>2, <1>3
  <2> QED BY <1>1, <1>2, <1>3, <1>4, <1>5, <2>1, <2>2, <2>3
<1>9. o <= c - g
  <2>1. c - g \in Nat
    <3> HIDE DEF c, g
    <3> QED BY <1>2, <1>3, <1>7
  <2> HIDE DEF c, g, t
  <2> QED BY <2>1, <1>5, <1>8, CeilDivLeast
<1>10. o + t <= w
  <2> HIDE DEF w, c, g, t, o
  <2> QED BY <1>1, <1>2, <1>3, <1>4, <1>6, <1>9
<1>11. size * o + t * size <= size * w
  <2> HIDE DEF w, t, o
  <2>1. PICK d \in Nat : w = o + t + d
    <3>1. w - (o + t) \in Nat
      BY <1>1, <1>4, <1>6, <1>10
    <3> QED BY <3>1, <1>1, <1>4, <1>6
  <2>2. size * w = size * o + t * size + size * d
    BY <2>1, <1>4, <1>6
  <2>3. size * d \in Nat /\ size * o \in Nat /\ t * size \in Nat
    BY <2>1, <1>4, <1>6
  <2> QED BY <2>2, <2>3
<1>12. BuffOffset(room, size) = size * o
  BY DEF BuffOffset
<1>13. size * o \in Nat /\ t * size \in Nat /\ size * w \in Nat
  <2> HIDE DEF w, t, o
  <2> QED BY <1>1, <1>4, <1>6
<1> HIDE DEF w, t, o
<1>14. size * o + t * size <= room
  BY <1>1, <1>11, <1>13
<1> QED BY <1>6, <1>12, <1>14 DEF t
=============================================================================
