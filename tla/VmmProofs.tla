----------------------------- MODULE VmmProofs ------------------------------
(***************************************************************************)
(* Proofs about Vmm, for any number of regions of any kinds, any page size *)
(* and any addresses: the list accounts for exactly the pages that were    *)
(* accepted, and what is merged at once can be merged at once.             *)
(*                                                                         *)
(* The list is sorted only as far as areas of the same flags follow each   *)
(* other (Ordered): an area of other flags may have been put in front of   *)
(* one that ends before it.  That is enough for all the rest.              *)
(***************************************************************************)
EXTENDS Vmm, NatFacts, FiniteSetTheorems, SequenceTheorems

-----------------------------------------------------------------------------
(* The invariant.                                                          *)

Fields == [st : 0 .. Top, ed : 0 .. Top + PageSize, flag : Flags \cup {{}}]

\* What a list s of areas, whose fields are in r, is like at any time: no area twice,
\* each begins at a page and is not empty, neighbours of the same flags apart.
Sound(q)      == q.st < q.ed /\ q.st % PageSize = 0
Once(s)       == \A j, k \in 1 .. Len(s) : s[j] = s[k] => j = k
Ordered(s, r) == \A k \in 1 .. Len(s) - 1 : r[s[k]].flag = r[s[k + 1]].flag =>
                                            r[s[k]].ed < r[s[k + 1]].st
GoodList(s, r) == /\ s \in Seq(Vmas) /\ r \in [Vmas -> Fields]
                  /\ Once(s) /\ Ordered(s, r)
                  /\ \A k \in 1 .. Len(s) : Sound(r[s[k]])
PagesOf(s, r) == UNION {Pages(r[s[k]]) : k \in 1 .. Len(s)}
PagesIn(s, r, i, k) == UNION {Pages(r[s[j]]) : j \in i .. k}

\* The region v that vma_add works on belongs between place i, the first area that
\* ends behind its start, and place n, the last that it may touch.
Between(s, r, v, i, n) ==
    /\ \A j \in 1 .. i - 1 : r[s[j]].ed < r[v].st
    /\ r[s[i]].ed >= r[v].st
    /\ \A j \in i .. n - 1 : r[s[j]].ed < r[v].ed
    /\ r[s[n]].ed >= r[v].ed \/ (n < Len(s) /\ r[v].ed < r[s[n + 1]].st)

RetryInv == /\ vma \in loose
            /\ \E i \in 1 .. Len(vma_set) : \E n \in i .. Len(vma_set) :
                   /\ prev = vma_set[i] /\ nxt = vma_set[n]
                   /\ Between(vma_set, region, vma, i, n)

VInv == /\ GoodList(vma_set, region)
        /\ asked = PagesOf(vma_set, region)
        /\ loose \subseteq Vmas
        /\ \A v \in loose : Sound(region[v]) /\ \A k \in 1 .. Len(vma_set) : vma_set[k] # v
        /\ pc \in {"idle", "retry", "panic"}
        /\ {vma, prev, nxt} \subseteq Vmas \cup {NULL}
        /\ pc = "retry" => RetryInv

-----------------------------------------------------------------------------
(* What vma_add does to a list: a region v takes the place of those at the *)
(* places i .. k, or stands between i - 1 and i = k + 1.                   *)

Spliced(s, i, k, v, t) ==
    /\ t \in Seq(Vmas) /\ Len(t) = Len(s) - (k - i)
    /\ \A j \in 1 .. i - 1 : t[j] = s[j]
    /\ t[i] = v
    /\ \A j \in i + 1 .. Len(t) : t[j] = s[j + (k - i)]

LEMMA SpliceIs ==
    ASSUME NEW s \in Seq(Vmas), NEW v \in Vmas,
           NEW i \in 1 .. Len(s) + 1, NEW k \in i - 1 .. Len(s)
    PROVE  Spliced(s, i, k, v, SubSeq(s, 1, i - 1) \o <<v>> \o SubSeq(s, k + 1, Len(s)))
<1> DEFINE a == SubSeq(s, 1, i - 1)
           c == SubSeq(s, k + 1, Len(s))
           t == a \o <<v>> \o c
<1>0. Len(s) \in Nat
  OBVIOUS
<1>1. /\ a \in Seq(Vmas) /\ Len(a) = i - 1 /\ \A j \in 1 .. i - 1 : a[j] = s[j]
  BY <1>0
<1>2. /\ c \in Seq(Vmas) /\ Len(c) = Len(s) - k /\ \A j \in 1 .. Len(s) - k : c[j] = s[j + k]
  BY <1>0
<1> HIDE DEF a, c
<1>3. /\ t \in Seq(Vmas) /\ Len(t) = Len(a) + 1 + Len(c)
      /\ \A j \in 1 .. Len(a) : t[j] = a[j]
      /\ t[Len(a) + 1] = v
      /\ \A j \in Len(a) + 2 .. Len(t) : t[j] = c[j - (Len(a) + 1)]
  <2> DEFINE b == a \o <<v>>
  <2>1. /\ b \in Seq(Vmas) /\ Len(b) = Len(a) + 1 /\ b[Len(a) + 1] = v
        /\ \A j \in 1 .. Len(a) : b[j] = a[j]
    BY <1>1
  <2> HIDE DEF b
  <2>2. /\ b \o c \in Seq(Vmas) /\ Len(b \o c) = Len(b) + Len(c)
        /\ \A j \in 1 .. Len(b) : (b \o c)[j] = b[j]
        /\ \A j \in Len(b) + 1 .. Len(b) + Len(c) : (b \o c)[j] = c[j - Len(b)]
    <3>1. /\ b \o c \in Seq(Vmas) /\ Len(b \o c) = Len(b) + Len(c)
          /\ \A j \in 1 .. Len(b) + Len(c) :
                 (b \o c)[j] = IF j <= Len(b) THEN b[j] ELSE c[j - Len(b)]
      BY <1>2, <2>1, ConcatProperties
    <3>2. Len(b) \in Nat /\ Len(c) \in Nat
      BY <1>2, <2>1
    <3> QED BY <3>1, <3>2
  <2>3. t = b \o c
    BY DEF b
  <2> HIDE DEF t
  <2>4. Len(a) \in Nat /\ Len(c) \in Nat
    BY <1>0, <1>1, <1>2
  <2>5. 1 .. Len(a) \subseteq 1 .. Len(b) /\ Len(a) + 1 \in 1 .. Len(b)
    BY <2>1, <2>4
  <2> QED BY <2>1, <2>2, <2>3, <2>4, <2>5
<1> HIDE DEF t
<1>4. Len(t) = Len(s) - (k - i)
  BY <1>0, <1>1, <1>2, <1>3
<1>5. \A j \in i + 1 .. Len(t) : t[j] = s[j + (k - i)]
  <2> TAKE j \in i + 1 .. Len(t)
  <2>1. j \in Len(a) + 2 .. Len(t) /\ j - i \in 1 .. Len(s) - k /\ (j - i) + k = j + (k - i)
        /\ j - (Len(a) + 1) = j - i
    BY <1>0, <1>1, <1>4
  <2>2. t[j] = c[j - i] /\ c[j - i] = s[(j - i) + k]
    BY <2>1, <1>2, <1>3
  <2> QED BY <2>1, <2>2
<1>6. t[i] = v /\ \A j \in 1 .. i - 1 : t[j] = s[j]
  BY <1>1, <1>3
<1>7. Spliced(s, i, k, v, t)
  BY <1>3, <1>4, <1>5, <1>6 DEF Spliced
<1> QED BY <1>7 DEF t, a, c

LEMMA AppendIs ==
    ASSUME NEW s \in Seq(Vmas), NEW v \in Vmas
    PROVE  Spliced(s, Len(s) + 1, Len(s), v, Append(s, v))
<1>1. Len(s) \in Nat /\ Append(s, v) \in Seq(Vmas) /\ Len(Append(s, v)) = Len(s) + 1
  OBVIOUS
<1>2. Append(s, v)[Len(s) + 1] = v /\ \A j \in 1 .. Len(s) : Append(s, v)[j] = s[j]
  OBVIOUS
<1> HIDE DEF Spliced
<1>3. Len(s) - (Len(s) - (Len(s) + 1)) = Len(s) + 1 /\ (Len(s) + 1) - 1 = Len(s)
  BY <1>1
<1>4. (Len(s) + 1) + 1 .. Len(s) + 1 = {}
  BY <1>1
<1> QED BY <1>1, <1>2, <1>3, <1>4 DEF Spliced

\* Where the areas of the new list come from.
LEMMA SplicedPlaces ==
    ASSUME NEW s \in Seq(Vmas), NEW v \in Vmas, NEW t,
           NEW i \in 1 .. Len(s) + 1, NEW k \in i - 1 .. Len(s), Spliced(s, i, k, v, t)
    PROVE  /\ Len(s) \in Nat /\ Len(t) \in Nat /\ i \in 1 .. Len(t)
           /\ \A j \in 1 .. Len(t) : j # i =>
                  \/ j < i /\ j \in 1 .. Len(s) /\ t[j] = s[j]
                  \/ i < j /\ j + (k - i) \in k + 1 .. Len(s) /\ t[j] = s[j + (k - i)]
<1>0. Len(s) \in Nat /\ Len(t) \in Nat /\ Len(t) = Len(s) - (k - i)
  BY DEF Spliced
<1>1. i \in 1 .. Len(t)
  BY <1>0
<1>2. ASSUME NEW j \in 1 .. Len(t), j < i
      PROVE  j \in 1 .. Len(s) /\ t[j] = s[j]
  BY <1>0, <1>2 DEF Spliced
<1>3. ASSUME NEW j \in 1 .. Len(t), i < j
      PROVE  j + (k - i) \in k + 1 .. Len(s) /\ t[j] = s[j + (k - i)]
  <2>1. j \in i + 1 .. Len(t)
    BY <1>3
  <2>2. t[j] = s[j + (k - i)]
    BY <2>1 DEF Spliced
  <2>3. j + (k - i) \in k + 1 .. Len(s)
    BY <1>0, <1>3
  <2> QED BY <2>2, <2>3
<1> QED BY <1>0, <1>1, <1>2, <1>3

LEMMA SplicedGood ==
    ASSUME NEW s, NEW r, NEW r2 \in [Vmas -> Fields], GoodList(s, r),
           NEW v \in Vmas, NEW t,
           NEW i \in 1 .. Len(s) + 1, NEW k \in i - 1 .. Len(s), Spliced(s, i, k, v, t),
           Sound(r2[v]), \A j \in 1 .. Len(s) : s[j] # v,
           \A j \in 1 .. Len(s) : j < i \/ j > k => r2[s[j]] = r[s[j]],
           i > 1 /\ r[s[i - 1]].flag = r2[v].flag => r[s[i - 1]].ed < r2[v].st,
           k < Len(s) /\ r[s[k + 1]].flag = r2[v].flag => r2[v].ed < r[s[k + 1]].st
    PROVE  GoodList(t, r2)
<1>1. s \in Seq(Vmas) /\ Once(s) /\ Ordered(s, r) /\ \A j \in 1 .. Len(s) : Sound(r[s[j]])
  BY DEF GoodList
<1>2. /\ Len(s) \in Nat /\ Len(t) \in Nat /\ i \in 1 .. Len(t)
      /\ \A j \in 1 .. Len(t) : j # i =>
                  \/ j < i /\ j \in 1 .. Len(s) /\ t[j] = s[j]
                  \/ i < j /\ j + (k - i) \in k + 1 .. Len(s) /\ t[j] = s[j + (k - i)]
  BY <1>1, SplicedPlaces
<1>3. t \in Seq(Vmas) /\ t[i] = v /\ Len(t) = Len(s) - (k - i)
  BY DEF Spliced
<1>p. ASSUME NEW m \in 1 .. Len(t), m # i
      PROVE  /\ m < i => m \in 1 .. Len(s) /\ t[m] = s[m]
             /\ i < m => m + (k - i) \in k + 1 .. Len(s) /\ t[m] = s[m + (k - i)]
  <2>1. \/ m < i /\ m \in 1 .. Len(s) /\ t[m] = s[m]
        \/ i < m /\ m + (k - i) \in k + 1 .. Len(s) /\ t[m] = s[m + (k - i)]
    BY <1>2, <1>p
  <2>2. ~(m < i /\ i < m)
    BY <1>2
  <2> QED BY <2>1, <2>2
<1>q. ASSUME NEW l \in 1 .. Len(s), l < i \/ l > k PROVE r2[s[l]] = r[s[l]]
  BY <1>q
<1>4. Once(t)
  <2> SUFFICES ASSUME NEW j \in 1 .. Len(t), NEW l \in 1 .. Len(t), t[j] = t[l]
               PROVE  j = l
    BY DEF Once
  <2>1. CASE j = i \/ l = i
    <3>1. ASSUME NEW m \in 1 .. Len(t), m # i PROVE t[m] # v
      <4>1. \E x \in 1 .. Len(s) : t[m] = s[x]
        <5>1. k + 1 .. Len(s) \subseteq 1 .. Len(s)
          BY <1>2
        <5> QED BY <3>1, <5>1, <1>2
      <4> QED BY <4>1
    <3> QED BY <2>1, <3>1, <1>3
  <2>2. CASE j # i /\ l # i
    <3>1. /\ j < i => j \in 1 .. Len(s) /\ t[j] = s[j]
          /\ i < j => j + (k - i) \in k + 1 .. Len(s) /\ t[j] = s[j + (k - i)]
          /\ l < i => l \in 1 .. Len(s) /\ t[l] = s[l]
          /\ i < l => l + (k - i) \in k + 1 .. Len(s) /\ t[l] = s[l + (k - i)]
      BY <1>p, <2>2
    <3>2. \A a, b \in 1 .. Len(s) : s[a] = s[b] => a = b
      BY <1>1 DEF Once
    <3>3. k + 1 .. Len(s) \subseteq 1 .. Len(s)
      BY <1>2
    <3>4. CASE j < i /\ l < i
      <4>1. j \in 1 .. Len(s) /\ l \in 1 .. Len(s) /\ s[j] = s[l]
        BY <3>1, <3>4
      <4> QED BY <3>2, <4>1
    <3>5. CASE i < j /\ i < l
      <4>1. /\ j + (k - i) \in 1 .. Len(s) /\ l + (k - i) \in 1 .. Len(s)
            /\ s[j + (k - i)] = s[l + (k - i)]
        BY <3>1, <3>3, <3>5
      <4>2. j + (k - i) = l + (k - i)
        BY <3>2, <4>1
      <4> QED BY <4>2, <1>2
    <3>6. CASE j < i /\ i < l
      <4>1. j \in 1 .. Len(s) /\ l + (k - i) \in 1 .. Len(s) /\ s[j] = s[l + (k - i)]
        BY <3>1, <3>3, <3>6
      <4>2. j = l + (k - i) /\ l + (k - i) >= k + 1
        BY <3>1, <3>2, <3>6, <4>1
      <4> QED BY <3>6, <4>2, <1>2
    <3>7. CASE i < j /\ l < i
      <4>1. l \in 1 .. Len(s) /\ j + (k - i) \in 1 .. Len(s) /\ s[l] = s[j + (k - i)]
        BY <3>1, <3>3, <3>7
      <4>2. l = j + (k - i) /\ j + (k - i) >= k + 1
        BY <3>1, <3>2, <3>7, <4>1
      <4> QED BY <3>7, <4>2, <1>2
    <3> QED BY <2>2, <3>4, <3>5, <3>6, <3>7, <1>2
  <2> QED BY <2>1, <2>2
<1>5. \A j \in 1 .. Len(t) : Sound(r2[t[j]])
  <2> TAKE j \in 1 .. Len(t)
  <2>1. CASE j = i
    BY <2>1, <1>3
  <2>2. CASE j < i
    <3>1. j \in 1 .. Len(s) /\ t[j] = s[j]
      BY <2>2, <1>2
    <3>2. r2[s[j]] = r[s[j]]
      BY <2>2, <3>1
    <3> QED BY <3>1, <3>2, <1>1
  <2>3. CASE i < j
    <3>1. j + (k - i) \in k + 1 .. Len(s) /\ t[j] = s[j + (k - i)]
      BY <2>3, <1>2
    <3>2. j + (k - i) \in 1 .. Len(s) /\ j + (k - i) > k
      BY <3>1, <1>2
    <3>3. r2[s[j + (k - i)]] = r[s[j + (k - i)]]
      BY <3>2
    <3> QED BY <3>1, <3>2, <3>3, <1>1
  <2> QED BY <2>1, <2>2, <2>3
<1>6. Ordered(t, r2)
  <2> SUFFICES ASSUME NEW j \in 1 .. Len(t) - 1, r2[t[j]].flag = r2[t[j + 1]].flag
               PROVE  r2[t[j]].ed < r2[t[j + 1]].st
    BY DEF Ordered
  <2>0. \A m \in 1 .. Len(s) - 1 : r[s[m]].flag = r[s[m + 1]].flag =>
                                   r[s[m]].ed < r[s[m + 1]].st
    BY <1>1 DEF Ordered
  <2>1. CASE j + 1 < i
    <3>1. j \in 1 .. Len(s) - 1 /\ j + 1 \in 1 .. Len(s) /\ t[j] = s[j] /\ t[j + 1] = s[j + 1]
      <4>1. /\ j \in 1 .. Len(t) /\ j # i /\ ~(i < j)
            /\ j + 1 \in 1 .. Len(t) /\ j + 1 # i /\ ~(i < j + 1)
        BY <2>1, <1>2
      <4>2. /\ j \in 1 .. Len(s) /\ t[j] = s[j]
            /\ j + 1 \in 1 .. Len(s) /\ t[j + 1] = s[j + 1]
        BY <4>1, <1>2
      <4> QED BY <4>2, <1>2
    <3>2. r2[s[j]] = r[s[j]] /\ r2[s[j + 1]] = r[s[j + 1]]
      BY <2>1, <3>1, <1>2
    <3> QED BY <3>1, <3>2, <2>0
  <2>2. CASE j + 1 = i
    <3>1. j \in 1 .. Len(s) /\ t[j] = s[j] /\ t[j + 1] = v /\ j = i - 1 /\ i > 1
      BY <2>2, <1>2, <1>3
    <3>2. r2[s[j]] = r[s[j]]
      BY <2>2, <3>1, <1>2
    <3> QED BY <3>1, <3>2
  <2>3. CASE j = i
    <3>1. k + 1 \in 1 .. Len(s) /\ k < Len(s) /\ t[j] = v /\ t[j + 1] = s[k + 1]
      <4>1. j + 1 \in 1 .. Len(t) /\ j + 1 > i /\ j + 1 # i /\ ~(j + 1 < i)
        BY <2>3, <1>2
      <4>2. (j + 1) + (k - i) \in k + 1 .. Len(s) /\ t[j + 1] = s[(j + 1) + (k - i)]
        BY <4>1, <1>2
      <4>3. (j + 1) + (k - i) = k + 1
        BY <2>3, <1>2
      <4>4. t[j + 1] = s[k + 1] /\ k + 1 \in k + 1 .. Len(s)
        BY <4>2, <4>3
      <4> QED BY <4>4, <1>2, <1>3, <2>3
    <3>2. r2[s[k + 1]] = r[s[k + 1]]
      BY <3>1
    <3> QED BY <3>1, <3>2
  <2>4. CASE i < j
    <3> DEFINE m == j + (k - i)
    <3>1. j \in 1 .. Len(t) /\ j # i /\ ~(j < i)
          /\ j + 1 \in 1 .. Len(t) /\ j + 1 # i /\ ~(j + 1 < i)
      BY <2>4, <1>2
    <3>2. /\ j + (k - i) \in k + 1 .. Len(s) /\ t[j] = s[j + (k - i)]
          /\ (j + 1) + (k - i) \in k + 1 .. Len(s) /\ t[j + 1] = s[(j + 1) + (k - i)]
      BY <3>1, <1>2
    <3>3. (j + 1) + (k - i) = m + 1 /\ m \in Int
      <4>1. i \in Int /\ j \in Int /\ k \in Int
        BY <1>2
      <4> QED BY <4>1
    <3>4. /\ m \in k + 1 .. Len(s) /\ m + 1 \in k + 1 .. Len(s)
          /\ t[j] = s[m] /\ t[j + 1] = s[m + 1]
      BY <3>2, <3>3
    <3> HIDE DEF m
    <3>5. m \in 1 .. Len(s) - 1 /\ m + 1 \in 1 .. Len(s) /\ m > k /\ m + 1 > k
      BY <3>3, <3>4, <1>2
    <3>6. r2[s[m]] = r[s[m]] /\ r2[s[m + 1]] = r[s[m + 1]]
      <4>1. m \in 1 .. Len(s) /\ (m < i \/ m > k)
        BY <3>5
      <4>2. m + 1 \in 1 .. Len(s) /\ (m + 1 < i \/ m + 1 > k)
        BY <3>5
      <4> QED BY <1>q, <4>1, <4>2, Zenon
    <3>7. r2[t[j]] = r[s[m]] /\ r2[t[j + 1]] = r[s[m + 1]]
      BY <3>4, <3>6
    <3>8. r[s[m]].ed < r[s[m + 1]].st
      BY <2>0, <3>5, <3>7
    <3> QED BY <3>7, <3>8
  <2> QED BY <2>1, <2>2, <2>3, <2>4, <1>2
<1> QED BY <1>3, <1>4, <1>5, <1>6 DEF GoodList

\* The new list t and fields r2 when region v takes the place of those at i .. k:
\* it covers them, and stays apart from its new neighbours of the same flags.
Takes(s, r, i, k, v, t, r2) ==
    /\ Spliced(s, i, k, v, t)
    /\ r2 \in [Vmas -> Fields] /\ Sound(r2[v])
    /\ \A j \in 1 .. Len(s) : j < i \/ j > k => r2[s[j]] = r[s[j]]
    /\ i > 1 /\ r[s[i - 1]].flag = r2[v].flag => r[s[i - 1]].ed < r2[v].st
    /\ k < Len(s) /\ r[s[k + 1]].flag = r2[v].flag => r2[v].ed < r[s[k + 1]].st
    /\ Pages(r2[v]) = Pages(r[v]) \cup PagesIn(s, r, i, k)

LEMMA SplicedPages ==
    ASSUME NEW s \in Seq(Vmas), NEW r, NEW r2,
           NEW v \in Vmas, NEW t,
           NEW i \in 1 .. Len(s) + 1, NEW k \in i - 1 .. Len(s), Takes(s, r, i, k, v, t, r2)
    PROVE  PagesOf(t, r2) = PagesOf(s, r) \cup Pages(r[v])
<1>0. /\ Spliced(s, i, k, v, t)
      /\ \A j \in 1 .. Len(s) : j < i \/ j > k => r2[s[j]] = r[s[j]]
      /\ Pages(r2[v]) = Pages(r[v]) \cup PagesIn(s, r, i, k)
  BY DEF Takes
<1>1. /\ Len(s) \in Nat /\ Len(t) \in Nat /\ i \in 1 .. Len(t)
      /\ \A j \in 1 .. Len(t) : j # i =>
                  \/ j < i /\ j \in 1 .. Len(s) /\ t[j] = s[j]
                  \/ i < j /\ j + (k - i) \in k + 1 .. Len(s) /\ t[j] = s[j + (k - i)]
  BY <1>0, SplicedPlaces
<1>2. t[i] = v /\ Len(t) = Len(s) - (k - i)
  BY <1>0 DEF Spliced
<1>3. ASSUME NEW p \in PagesOf(t, r2) PROVE p \in PagesOf(s, r) \cup Pages(r[v])
  <2>1. PICK j \in 1 .. Len(t) : p \in Pages(r2[t[j]])
    BY <1>3 DEF PagesOf
  <2>2. CASE j = i
    <3>1. p \in Pages(r[v]) \/ \E l \in i .. k : p \in Pages(r[s[l]])
      BY <2>1, <2>2, <1>0, <1>2 DEF PagesIn
    <3>2. i .. k \subseteq 1 .. Len(s)
      BY <1>1
    <3> QED BY <3>1, <3>2 DEF PagesOf
  <2>3. CASE j # i
    <3>1. PICK l \in 1 .. Len(s) : t[j] = s[l] /\ (l < i \/ l > k)
      <4>1. CASE j < i
        <5>1. j \in 1 .. Len(s) /\ t[j] = s[j]
          BY <4>1, <1>1
        <5> QED BY <5>1, <4>1
      <4>2. CASE i < j
        <5>1. j + (k - i) \in k + 1 .. Len(s) /\ t[j] = s[j + (k - i)]
          BY <4>2, <1>1
        <5>2. j + (k - i) \in 1 .. Len(s) /\ j + (k - i) > k
          BY <5>1, <1>1
        <5> QED BY <5>1, <5>2
      <4> QED BY <4>1, <4>2, <2>3, <1>1
    <3>2. r2[t[j]] = r[s[l]]
      BY <1>0, <3>1
    <3> QED BY <2>1, <3>2 DEF PagesOf
  <2> QED BY <2>2, <2>3
<1>4. ASSUME NEW p \in Pages(r[v]) PROVE p \in PagesOf(t, r2)
  <2>1. p \in Pages(r2[t[i]])
    BY <1>0, <1>4, <1>2
  <2> QED BY <2>1, <1>1 DEF PagesOf
<1>5. ASSUME NEW p \in PagesOf(s, r) PROVE p \in PagesOf(t, r2)
  <2>1. PICK l \in 1 .. Len(s) : p \in Pages(r[s[l]])
    BY <1>5 DEF PagesOf
  <2>2. CASE l \in i .. k
    <3>1. p \in Pages(r2[t[i]])
      BY <2>1, <2>2, <1>0, <1>2 DEF PagesIn
    <3> QED BY <3>1, <1>1 DEF PagesOf
  <2>3. CASE l < i
    <3>1. l \in 1 .. Len(t) /\ l \in 1 .. i - 1
      BY <2>3, <1>1
    <3>2. t[l] = s[l]
      BY <1>0, <3>1 DEF Spliced
    <3>3. r2[t[l]] = r[s[l]]
      BY <1>0, <3>2, <2>3
    <3> QED BY <3>1, <3>3, <2>1 DEF PagesOf
  <2>4. CASE l > k
    <3> DEFINE j == l - (k - i)
    <3>1. j \in i + 1 .. Len(t) /\ j \in 1 .. Len(t) /\ j + (k - i) = l
      BY <2>4, <1>1, <1>2
    <3> HIDE DEF j
    <3>2. t[j] = s[l]
      BY <1>0, <3>1 DEF Spliced
    <3>3. r2[t[j]] = r[s[l]]
      BY <1>0, <3>2, <2>4
    <3> QED BY <3>1, <3>3, <2>1 DEF PagesOf
  <2> QED BY <2>2, <2>3, <2>4, <1>1
<1> QED BY <1>3, <1>4, <1>5

-----------------------------------------------------------------------------
(* Merging.                                                                *)

LEMMA InPages ==
    ASSUME NEW q, NEW p
    PROVE  p \in Pages(q) <=>
               \E a \in q.st .. q.ed - 1 : a % PageSize = 0 /\ p = <<a, q.flag>>
BY DEF Pages

\* Two areas that overlap or touch make up the smallest area that covers both.
LEMMA PagesJoin ==
    ASSUME NEW q, NEW u, NEW m, Mergeable(q, u),
           q.st \in Nat, q.ed \in Nat, u.st \in Nat, u.ed \in Nat,
           q.st < q.ed, u.st < u.ed,
           m.st = IF q.st <= u.st THEN q.st ELSE u.st,
           m.ed = IF q.ed >= u.ed THEN q.ed ELSE u.ed,
           m.flag = q.flag
    PROVE  Pages(m) = Pages(q) \cup Pages(u)
<1>1. q.flag = u.flag /\ q.st <= u.ed /\ q.ed >= u.st
  BY DEF Mergeable
<1>2. \A a : a \in m.st .. m.ed - 1 <=> a \in q.st .. q.ed - 1 \/ a \in u.st .. u.ed - 1
  BY <1>1
<1>3. \A p : p \in Pages(m) <=> p \in Pages(q) \/ p \in Pages(u)
  <2> TAKE p
  <2>1. p \in Pages(m) <=> \E a \in m.st .. m.ed - 1 : a % PageSize = 0 /\ p = <<a, m.flag>>
    BY InPages
  <2>2. p \in Pages(q) <=> \E a \in q.st .. q.ed - 1 : a % PageSize = 0 /\ p = <<a, q.flag>>
    BY InPages
  <2>3. p \in Pages(u) <=> \E a \in u.st .. u.ed - 1 : a % PageSize = 0 /\ p = <<a, u.flag>>
    BY InPages
  <2>4. m.flag = q.flag /\ u.flag = q.flag
    BY <1>1
  <2> QED BY <2>1, <2>2, <2>3, <2>4, <1>2, Zenon
<1> QED BY <1>3

LEMMA FieldInt ==
    ASSUME NEW u \in Fields
    PROVE  u.st \in Nat /\ u.ed \in Nat
<1>1. u.st \in 0 .. Top /\ u.ed \in 0 .. Top + PageSize
  BY DEF Fields
<1>2. Top \in Nat /\ PageSize \in Nat
  BY VmmConstants
<1> QED BY <1>1, <1>2

LEMMA FieldTypes ==
    ASSUME NEW r \in [Vmas -> Fields], NEW v \in Vmas
    PROVE  /\ r[v] \in Fields /\ r[v].st \in 0 .. Top /\ r[v].ed \in 0 .. Top + PageSize
           /\ r[v].st \in Nat /\ r[v].ed \in Nat /\ r[v].flag \in Flags \cup {{}}
           /\ r[v] = [st |-> r[v].st, ed |-> r[v].ed, flag |-> r[v].flag]
<1>1. r[v] \in Fields
  OBVIOUS
<1> QED BY <1>1, VmmConstants DEF Fields

LEMMA RegionTypes ==
    ASSUME region \in [Vmas -> Fields]
    PROVE  \A v \in Vmas : /\ region[v].st \in 0 .. Top /\ region[v].ed \in 0 .. Top + PageSize
                           /\ region[v].st \in Nat /\ region[v].ed \in Nat
BY FieldTypes

LEMMA SingleLeast ==
    ASSUME NEW a \in Int
    PROVE  Min({a}) = a /\ Max({a}) = a
<1>1. \A x \in {a} : (\A y \in {a} : x =< y) <=> x = a
  OBVIOUS
<1>2. \A x \in {a} : (\A y \in {a} : x >= y) <=> x = a
  OBVIOUS
<1> QED BY <1>1, <1>2 DEF Min, Max

LEMMA MergedIs ==
    ASSUME vma_set \in Seq(Vmas), region \in [Vmas -> Fields], vma \in Vmas,
           NEW i \in 1 .. Len(vma_set) + 1, NEW k \in i - 1 .. Len(vma_set)
    PROVE  LET m == MergedUpTo(i, k)
           IN /\ m \in Fields /\ m.flag = region[vma].flag
              /\ m.st <= region[vma].st /\ \A j \in i .. k : m.st <= region[vma_set[j]].st
              /\ m.ed >= region[vma].ed /\ \A j \in i .. k : m.ed >= region[vma_set[j]].ed
              /\ m.st = region[vma].st \/ \E j \in i .. k : m.st = region[vma_set[j]].st
              /\ m.ed = region[vma].ed \/ \E j \in i .. k : m.ed = region[vma_set[j]].ed
<1> DEFINE all == {vma} \cup {vma_set[j] : j \in i .. k}
           sts == {region[v].st : v \in all}
           eds == {region[v].ed : v \in all}
<1>1. all \subseteq Vmas /\ vma \in all
  <2>1. i .. k \subseteq 1 .. Len(vma_set)
    OBVIOUS
  <2> QED BY <2>1
<1>2. \A x : x \in all <=> x = vma \/ \E j \in i .. k : x = vma_set[j]
  OBVIOUS
<1> HIDE DEF all
<1>3. sts \subseteq 0 .. Top /\ eds \subseteq 0 .. Top + PageSize /\ sts # {} /\ eds # {}
  <2>1. \A x \in all : region[x].st \in 0 .. Top /\ region[x].ed \in 0 .. Top + PageSize
    BY <1>1, RegionTypes
  <2> QED BY <2>1, <1>1
<1>4. PICK a \in sts : \A y \in sts : a <= y
  <2>1. sts \subseteq Nat
    BY <1>3
  <2> HIDE DEF sts
  <2> QED BY <2>1, <1>3, LeastNat
<1>5. Min(sts) = a
  <2>1. sts \subseteq Int
    BY <1>3
  <2> HIDE DEF sts
  <2> QED BY <2>1, <1>4, MinIs
<1>6. Max(eds) \in eds /\ \A y \in eds : y <= Max(eds)
  <2>1. 0 \in Nat /\ Top + PageSize \in Nat
    BY VmmConstants
  <2> HIDE DEF eds
  <2> QED BY <2>1, <1>3, MaxOfInterval
<1> DEFINE b == Max(eds)
<1>7. MergedUpTo(i, k) = [st |-> a, ed |-> b, flag |-> region[vma].flag]
  BY <1>5 DEF MergedUpTo, all
<1> HIDE DEF b
<1>8. b \in eds /\ \A y \in eds : y <= b
  BY <1>6 DEF b
<1>9. /\ a <= region[vma].st /\ \A j \in i .. k : a <= region[vma_set[j]].st
      /\ b >= region[vma].ed /\ \A j \in i .. k : b >= region[vma_set[j]].ed
  <2>1. \A x \in all : region[x].st \in sts /\ region[x].ed \in eds
    OBVIOUS
  <2>2. \A x \in all : a <= region[x].st /\ region[x].ed <= b
    <3> HIDE DEF sts, eds
    <3> QED BY <2>1, <1>4, <1>8
  <2>3. \A x \in all : region[x].ed \in Nat
    BY <1>1, FieldTypes
  <2>4. b \in Nat
    BY <1>3, <1>8, VmmConstants
  <2>5. \A x \in all : b >= region[x].ed
    BY <2>2, <2>3, <2>4
  <2> QED BY <2>2, <2>5, <1>2
<1>10. /\ a = region[vma].st \/ \E j \in i .. k : a = region[vma_set[j]].st
       /\ b = region[vma].ed \/ \E j \in i .. k : b = region[vma_set[j]].ed
  <2>1. PICK x \in all : a = region[x].st
    BY <1>4
  <2>2. PICK y \in all : b = region[y].ed
    BY <1>8
  <2> QED BY <2>1, <2>2, <1>2
<1>11. a \in 0 .. Top /\ b \in 0 .. Top + PageSize /\ region[vma].flag \in Flags \cup {{}}
  BY <1>3, <1>4, <1>8, FieldTypes
<1>12. MergedUpTo(i, k) \in Fields
  BY <1>7, <1>11 DEF Fields
<1> QED BY <1>7, <1>9, <1>10, <1>12

\* One area after the other.
LEMMA MergedStep ==
    ASSUME vma_set \in Seq(Vmas), region \in [Vmas -> Fields], vma \in Vmas,
           NEW i \in 1 .. Len(vma_set) + 1, NEW n \in i - 1 .. Len(vma_set) - 1
    PROVE  LET q == MergedUpTo(i, n)  u == region[vma_set[n + 1]]  m == MergedUpTo(i, n + 1)
           IN /\ m.st = IF q.st <= u.st THEN q.st ELSE u.st
              /\ m.ed = IF q.ed >= u.ed THEN q.ed ELSE u.ed
              /\ m.flag = q.flag
<1> DEFINE q == MergedUpTo(i, n)
           u == region[vma_set[n + 1]]
           m == MergedUpTo(i, n + 1)
<1>0. /\ Len(vma_set) \in Nat /\ n \in Int /\ i \in Nat
      /\ n + 1 \in i - 1 .. Len(vma_set) /\ n \in i - 1 .. Len(vma_set)
      /\ n + 1 \in i .. n + 1 /\ n + 1 \in 1 .. Len(vma_set)
  OBVIOUS
<1>1. /\ q \in Fields /\ q.flag = region[vma].flag
      /\ q.st <= region[vma].st /\ \A j \in i .. n : q.st <= region[vma_set[j]].st
      /\ q.ed >= region[vma].ed /\ \A j \in i .. n : q.ed >= region[vma_set[j]].ed
      /\ q.st = region[vma].st \/ \E j \in i .. n : q.st = region[vma_set[j]].st
      /\ q.ed = region[vma].ed \/ \E j \in i .. n : q.ed = region[vma_set[j]].ed
  BY <1>0, MergedIs
<1>2. /\ m \in Fields /\ m.flag = region[vma].flag
      /\ m.st <= region[vma].st /\ \A j \in i .. n + 1 : m.st <= region[vma_set[j]].st
      /\ m.ed >= region[vma].ed /\ \A j \in i .. n + 1 : m.ed >= region[vma_set[j]].ed
      /\ m.st = region[vma].st \/ \E j \in i .. n + 1 : m.st = region[vma_set[j]].st
      /\ m.ed = region[vma].ed \/ \E j \in i .. n + 1 : m.ed = region[vma_set[j]].ed
  BY <1>0, MergedIs
<1>3. \A j : j \in i .. n + 1 <=> j \in i .. n \/ j = n + 1
  BY <1>0
<1> HIDE DEF q, m
<1>4. u \in Fields
  <2>1. vma_set[n + 1] \in Vmas
    BY <1>0
  <2> QED BY <2>1
<1>5. q.st \in Int /\ m.st \in Int /\ u.st \in Int /\ q.ed \in Int /\ m.ed \in Int /\ u.ed \in Int
  <2>1. q \in Fields /\ m \in Fields
    BY <1>1, <1>2
  <2> HIDE DEF u
  <2> QED BY <2>1, <1>4, FieldInt
<1>6. m.st <= u.st /\ m.ed >= u.ed
  BY <1>0, <1>2
<1>7. m.st <= q.st /\ m.ed >= q.ed
  BY <1>1, <1>2, <1>3
<1>8. m.st >= q.st \/ m.st = u.st
  BY <1>1, <1>2, <1>3, <1>5
<1>9. m.ed <= q.ed \/ m.ed = u.ed
  BY <1>1, <1>2, <1>3, <1>5
<1> HIDE DEF u
<1>10. /\ m.st = IF q.st <= u.st THEN q.st ELSE u.st
       /\ m.ed = IF q.ed >= u.ed THEN q.ed ELSE u.ed
  BY <1>5, <1>6, <1>7, <1>8, <1>9
<1> QED BY <1>1, <1>2, <1>10 DEF q, m, u

LEMMA MergedNone ==
    ASSUME region \in [Vmas -> Fields], vma \in Vmas, NEW i \in Nat
    PROVE  MergedUpTo(i, i - 1) = region[vma]
<1> DEFINE a == region[vma].st
           b == region[vma].ed
<1>1. {vma} \cup {vma_set[j] : j \in i .. i - 1} = {vma}
  <2>1. i .. i - 1 = {}
    OBVIOUS
  <2> QED BY <2>1
<1>2. {region[v].st : v \in {vma}} = {a} /\ {region[v].ed : v \in {vma}} = {b}
  OBVIOUS
<1>3. a \in Int /\ b \in Int
  BY RegionTypes
<1> HIDE DEF a, b
<1>4. Min({a}) = a /\ Max({b}) = b
  BY <1>3, SingleLeast
<1>5. MergedUpTo(i, i - 1) = [st |-> a, ed |-> b, flag |-> region[vma].flag]
  BY <1>1, <1>2, <1>4 DEF MergedUpTo
<1> QED BY <1>5, FieldTypes DEF a, b

LEMMA MergedPages ==
    ASSUME vma_set \in Seq(Vmas), region \in [Vmas -> Fields], vma \in Vmas,
           NEW i \in 1 .. Len(vma_set), NEW k \in i - 1 .. Len(vma_set),
           Sound(region[vma]), \A j \in 1 .. Len(vma_set) : Sound(region[vma_set[j]]),
           \A j \in i .. k : Mergeable(MergedUpTo(i, j - 1), region[vma_set[j]])
    PROVE  /\ Sound(MergedUpTo(i, k))
           /\ Pages(MergedUpTo(i, k))
                  = Pages(region[vma]) \cup PagesIn(vma_set, region, i, k)
<1> DEFINE U(n) == PagesIn(vma_set, region, i, n)
           S == {n \in i - 1 .. k : Pages(MergedUpTo(i, n)) = Pages(region[vma]) \cup U(n)}
<1>0. Len(vma_set) \in Nat /\ i - 1 \in Nat /\ k \in Nat /\ i \in 1 .. Len(vma_set) + 1
  OBVIOUS
<1>1. \A n \in i - 1 .. k : Sound(MergedUpTo(i, n)) /\ MergedUpTo(i, n) \in Fields
  <2> TAKE n \in i - 1 .. k
  <2> DEFINE m == MergedUpTo(i, n)
  <2>1. n \in i - 1 .. Len(vma_set) /\ i .. n \subseteq 1 .. Len(vma_set)
    BY <1>0
  <2>2. /\ m \in Fields /\ m.st <= region[vma].st /\ m.ed >= region[vma].ed
        /\ m.st = region[vma].st \/ \E j \in i .. n : m.st = region[vma_set[j]].st
    BY <1>0, <2>1, MergedIs
  <2> HIDE DEF m
  <2>3. m.st % PageSize = 0
    BY <2>1, <2>2 DEF Sound
  <2>4. m.st \in Int /\ m.ed \in Int
    BY <2>2, FieldInt
  <2>5. m.st < m.ed
    BY <2>2, <2>4, RegionTypes DEF Sound
  <2> QED BY <2>2, <2>3, <2>5 DEF Sound, m
<1>2. i - 1 \in S
  <2>1. i .. i - 1 = {} /\ i - 1 \in i - 1 .. k
    BY <1>0
  <2>2. MergedUpTo(i, i - 1) = region[vma]
    BY MergedNone
  <2>3. U(i - 1) = {}
    BY <2>1 DEF PagesIn
  <2> QED BY <2>1, <2>2, <2>3
<1>3. ASSUME NEW n \in i - 1 .. k - 1, n \in S PROVE n + 1 \in S
  <2> DEFINE q == MergedUpTo(i, n)
             u == region[vma_set[n + 1]]
             m == MergedUpTo(i, n + 1)
  <2>1. /\ n \in i - 1 .. k /\ n + 1 \in i - 1 .. k /\ n \in i - 1 .. Len(vma_set) - 1
        /\ n + 1 \in i .. k /\ n + 1 \in 1 .. Len(vma_set) /\ (n + 1) - 1 = n
    BY <1>0
  <2>2. /\ m.st = IF q.st <= u.st THEN q.st ELSE u.st
        /\ m.ed = IF q.ed >= u.ed THEN q.ed ELSE u.ed
        /\ m.flag = q.flag
    BY <1>0, <2>1, MergedStep
  <2>3. Mergeable(q, u)
    BY <2>1
  <2>4. q.st \in Nat /\ q.ed \in Nat /\ q.st < q.ed
    BY <2>1, <1>1, FieldInt DEF Sound
  <2>5. u.st \in Nat /\ u.ed \in Nat /\ u.st < u.ed
    BY <2>1, RegionTypes DEF Sound
  <2>6. Pages(q) = Pages(region[vma]) \cup U(n)
    BY <1>3
  <2> HIDE DEF q, u, m
  <2>7. Pages(m) = Pages(q) \cup Pages(u)
    BY <2>2, <2>3, <2>4, <2>5, PagesJoin
  <2>8. U(n + 1) = U(n) \cup Pages(u)
    <3>1. \A j : j \in i .. n + 1 <=> j \in i .. n \/ j = n + 1
      BY <2>1, <1>0
    <3>2. \A p : p \in U(n + 1) <=> p \in U(n) \/ p \in Pages(u)
      BY <3>1, Zenon DEF u, PagesIn
    <3> QED BY <3>2
  <2>9. Pages(m) = Pages(region[vma]) \cup U(n + 1)
    BY <2>6, <2>7, <2>8
  <2> QED BY <2>1, <2>9 DEF m
<1>4. \A n \in i - 1 .. k - 1 : n \in S => n + 1 \in S
  BY <1>3
<1> HIDE DEF S
<1>5. \A n \in i - 1 .. k : n \in S
  BY <1>0, <1>2, <1>4, IntervalInduction
<1>6. k \in i - 1 .. k
  BY <1>0
<1> QED BY <1>1, <1>5, <1>6 DEF S

-----------------------------------------------------------------------------
(* The steps.                                                              *)

LEMMA SameGood ==
    ASSUME NEW s, NEW r, NEW r2 \in [Vmas -> Fields], GoodList(s, r),
           \A k \in 1 .. Len(s) : r2[s[k]] = r[s[k]]
    PROVE  GoodList(s, r2) /\ PagesOf(s, r2) = PagesOf(s, r)
<1>1. Ordered(s, r2)
  <2>1. \A k \in 1 .. Len(s) - 1 : k \in 1 .. Len(s) /\ k + 1 \in 1 .. Len(s)
    BY DEF GoodList
  <2>2. \A k \in 1 .. Len(s) - 1 : r2[s[k]] = r[s[k]] /\ r2[s[k + 1]] = r[s[k + 1]]
    BY <2>1
  <2> QED BY <2>2 DEF GoodList, Ordered
<1>2. \A k \in 1 .. Len(s) : Sound(r2[s[k]])
  BY DEF GoodList
<1>3. \A p : p \in PagesOf(s, r2) <=> p \in PagesOf(s, r)
  BY DEF PagesOf
<1> QED BY <1>1, <1>2, <1>3 DEF GoodList

LEMMA TakesGood ==
    ASSUME NEW s, NEW r, GoodList(s, r), NEW v \in Vmas, \A j \in 1 .. Len(s) : s[j] # v,
           NEW i \in 1 .. Len(s) + 1, NEW k \in i - 1 .. Len(s), NEW t, NEW r2,
           Takes(s, r, i, k, v, t, r2)
    PROVE  /\ GoodList(t, r2)
           /\ PagesOf(t, r2) = PagesOf(s, r) \cup Pages(r[v])
           /\ \A j \in 1 .. Len(t) : t[j] = v \/ \E l \in 1 .. Len(s) : t[j] = s[l]
<1>1. Spliced(s, i, k, v, t) /\ s \in Seq(Vmas)
  BY DEF Takes, GoodList
<1>2. GoodList(t, r2)
  BY <1>1, SplicedGood DEF Takes
<1>3. PagesOf(t, r2) = PagesOf(s, r) \cup Pages(r[v])
  BY <1>1, SplicedPages
<1>4. /\ Len(s) \in Nat /\ Len(t) \in Nat /\ i \in 1 .. Len(t)
      /\ \A j \in 1 .. Len(t) : j # i =>
             \/ j < i /\ j \in 1 .. Len(s) /\ t[j] = s[j]
             \/ i < j /\ j + (k - i) \in k + 1 .. Len(s) /\ t[j] = s[j + (k - i)]
  BY <1>1, SplicedPlaces
<1>5. k + 1 .. Len(s) \subseteq 1 .. Len(s) /\ t[i] = v
  BY <1>1, <1>4 DEF Spliced
<1> QED BY <1>2, <1>3, <1>4, <1>5

\* A region v leaves the hands of its caller for the list.
LEMMA AcceptedStep ==
    ASSUME VInv, NEW v \in loose,
           NEW i \in 1 .. Len(vma_set) + 1, NEW k \in i - 1 .. Len(vma_set),
           Takes(vma_set, region, i, k, v, vma_set', region'),
           \A w \in loose \ {v} : region'[w] = region[w],
           loose' = loose \ {v}, asked' = asked \cup Pages(region[v]),
           pc' = "idle", {vma', prev', nxt'} \subseteq Vmas \cup {NULL}
    PROVE  VInv'
<1>1. GoodList(vma_set, region) /\ v \in Vmas /\ \A j \in 1 .. Len(vma_set) : vma_set[j] # v
  BY DEF VInv
<1>2. PICK t, r2 : t = vma_set' /\ r2 = region'
  OBVIOUS
<1>3. Takes(vma_set, region, i, k, v, t, r2)
  BY <1>2
<1>4. /\ GoodList(t, r2)
      /\ PagesOf(t, r2) = PagesOf(vma_set, region) \cup Pages(region[v])
      /\ \A j \in 1 .. Len(t) : t[j] = v \/ \E l \in 1 .. Len(vma_set) : t[j] = vma_set[l]
  BY <1>1, <1>3, TakesGood
<1>5. GoodList(vma_set', region') /\ asked' = PagesOf(vma_set', region')
  BY <1>2, <1>4 DEF VInv
<1>6. loose' \subseteq Vmas
  BY DEF VInv
<1>7. ASSUME NEW w \in loose'
      PROVE  Sound(region'[w]) /\ \A j \in 1 .. Len(vma_set') : vma_set'[j] # w
  <2>1. w \in loose /\ w # v /\ region'[w] = region[w]
    OBVIOUS
  <2>2. Sound(region[w]) /\ \A j \in 1 .. Len(vma_set) : vma_set[j] # w
    BY <2>1 DEF VInv
  <2> QED BY <2>1, <2>2, <1>2, <1>4
<1> QED BY <1>5, <1>6, <1>7 DEF VInv

\* Neighbours of the same flags ascend, and so does every run of them.
LEMMA RunAscends ==
    ASSUME NEW s, NEW r, GoodList(s, r), NEW a \in 1 .. Len(s), NEW b \in a .. Len(s),
           \A j \in a .. b : r[s[j]].flag = r[s[a]].flag, a < b
    PROVE  r[s[a]].ed < r[s[b]].st
<1> DEFINE S == {j \in a .. b : j = a \/ r[s[a]].ed < r[s[j]].st}
<1>0. /\ s \in Seq(Vmas) /\ r \in [Vmas -> Fields] /\ Len(s) \in Nat
      /\ \A j \in a .. b : j \in 1 .. Len(s) /\ s[j] \in Vmas
  BY DEF GoodList
<1>1. \A j \in a .. b : r[s[j]].st \in Nat /\ r[s[j]].ed \in Nat /\ r[s[j]].st < r[s[j]].ed
  <2> TAKE j \in a .. b
  <2>1. s[j] \in Vmas /\ Sound(r[s[j]])
    BY <1>0 DEF GoodList
  <2>2. r[s[j]].st \in Nat /\ r[s[j]].ed \in Nat
    BY <1>0, <2>1, FieldTypes
  <2> QED BY <2>1, <2>2 DEF Sound
<1>2. a \in S
  BY <1>0
<1>3. ASSUME NEW j \in a .. b - 1, j \in S PROVE j + 1 \in S
  <2>1. j \in a .. b /\ j + 1 \in a .. b /\ j \in 1 .. Len(s) - 1
    BY <1>0
  <2>2. r[s[j]].flag = r[s[j + 1]].flag
    BY <2>1
  <2>3. r[s[j]].ed < r[s[j + 1]].st
    BY <2>1, <2>2 DEF GoodList, Ordered
  <2>4. CASE j = a
    BY <2>1, <2>3, <2>4
  <2>5. CASE r[s[a]].ed < r[s[j]].st
    <3>1. r[s[a]].ed < r[s[j + 1]].st
      <4>1. /\ r[s[a]].ed \in Nat /\ r[s[j]].st \in Nat /\ r[s[j]].ed \in Nat
            /\ r[s[j + 1]].st \in Nat /\ r[s[j]].st < r[s[j]].ed
        BY <1>1, <2>1, <1>0
      <4> QED BY <4>1, <2>3, <2>5
    <3> QED BY <2>1, <3>1
  <2> QED BY <1>3, <2>4, <2>5
<1>4. \A j \in a .. b - 1 : j \in S => j + 1 \in S
  BY <1>3
<1> HIDE DEF S
<1>5. \A j \in a .. b : j \in S
  <2>1. a \in Nat /\ b \in Nat
    BY <1>0
  <2> QED BY <2>1, <1>2, <1>4, IntervalInduction
<1>6. b \in S
  BY <1>5
<1> QED BY <1>6 DEF S

LEMMA FindVmaIs ==
    ASSUME vma_set \in Seq(Vmas), region \in [Vmas -> Fields], NEW a \in Nat
    PROVE  \/ /\ FindVma(a) = NULL
              /\ \A j \in 1 .. Len(vma_set) : region[vma_set[j]].ed < a
           \/ /\ FindVma(a) # NULL
              /\ \E i \in 1 .. Len(vma_set) :
                    /\ FindVma(a) = vma_set[i] /\ region[vma_set[i]].ed >= a
                    /\ \A j \in 1 .. i - 1 : region[vma_set[j]].ed < a
<1> DEFINE after == {k \in DOMAIN vma_set : region[vma_set[k]].ed >= a}
<1>0. /\ DOMAIN vma_set = 1 .. Len(vma_set) /\ Len(vma_set) \in Nat
      /\ \A j \in 1 .. Len(vma_set) : vma_set[j] \in Vmas
  OBVIOUS
<1>1. \A j \in 1 .. Len(vma_set) : region[vma_set[j]].ed \in Nat
  BY <1>0, RegionTypes
<1>2. CASE after = {}
  <2>1. FindVma(a) = NULL
    BY <1>2 DEF FindVma
  <2> QED BY <1>0, <1>1, <1>2, <2>1
<1>3. CASE after # {}
  <2>1. PICK i \in after : \A j \in after : i <= j
    <3>1. after \subseteq Nat
      BY <1>0
    <3> HIDE DEF after
    <3> QED BY <1>3, <3>1, LeastNat
  <2>2. i \in 1 .. Len(vma_set) /\ \A j \in after : j \in Nat
    BY <1>0
  <2>3. (CHOOSE k \in after : \A j \in after : k <= j) = i
    <3>1. \A k \in after : (\A j \in after : k <= j) <=> k = i
      <4> HIDE DEF after
      <4>1. \A k \in after : k \in Nat
        BY <2>2
      <4> QED BY <4>1, <2>1
    <3> HIDE DEF after
    <3> QED BY <2>1, <3>1
  <2>4. FindVma(a) = vma_set[i]
    BY <1>3, <2>3 DEF FindVma
  <2>5. vma_set[i] # NULL
    BY <1>0, <2>2, VmmConstants
  <2>6. ASSUME NEW j \in 1 .. i - 1 PROVE region[vma_set[j]].ed < a
    <3>1. j \in 1 .. Len(vma_set) /\ j < i
      BY <1>0, <2>2
    <3>2. j \notin after
      BY <2>1, <2>2, <3>1
    <3> QED BY <1>0, <1>1, <3>1, <3>2
  <2> QED BY <2>1, <2>2, <2>4, <2>5, <2>6
<1> QED BY <1>2, <1>3

LEMMA PlaceIs ==
    ASSUME vma_set \in Seq(Vmas), Once(vma_set), NEW i \in 1 .. Len(vma_set)
    PROVE  Place(vma_set[i]) = i
<1>1. DOMAIN vma_set = 1 .. Len(vma_set)
  OBVIOUS
<1>2. \A k \in DOMAIN vma_set : vma_set[k] = vma_set[i] <=> k = i
  BY <1>1 DEF Once
<1> QED BY <1>1, <1>2 DEF Place

LEMMA Rounding ==
    ASSUME NEW a \in Nat
    PROVE  /\ RoundDown(a) \in 0 .. a /\ RoundDown(a) % PageSize = 0
           /\ RoundUp(a) \in a .. a + PageSize - 1
<1> DEFINE b == a + PageSize - 1
<1>1. PageSize \in Nat \ {0} /\ b \in Nat
  BY VmmConstants
<1>2. /\ a \div PageSize \in Nat /\ a % PageSize \in 0 .. PageSize - 1
      /\ a = PageSize * (a \div PageSize) + (a % PageSize)
  BY <1>1, DivMod
<1>3. /\ b % PageSize \in 0 .. PageSize - 1 /\ b \div PageSize \in Nat
      /\ b = PageSize * (b \div PageSize) + (b % PageSize)
  BY <1>1, DivMod
<1>4. /\ PageSize * (a \div PageSize) \in Nat
      /\ (PageSize * (a \div PageSize)) % PageSize = 0
      /\ PageSize * (b \div PageSize) \in Nat
  BY <1>1, <1>2, <1>3, ModMultiple
<1> DEFINE x == PageSize * (a \div PageSize)
           y == PageSize * (b \div PageSize)
<1>5. RoundDown(a) = x
  <2> HIDE DEF x
  <2>1. a = x + (a % PageSize) /\ x \in Nat /\ a % PageSize \in Nat
    BY <1>2, <1>4 DEF x
  <2> QED BY <2>1 DEF RoundDown
<1>6. RoundUp(a) = b - (b % PageSize)
  BY DEF RoundUp, RoundDown
<1>7. a % PageSize \in 0 .. PageSize - 1 /\ a = x + (a % PageSize) /\ x \in Nat
  BY <1>2, <1>4
<1> DEFINE c == b % PageSize
<1> HIDE DEF x, c
<1>8. c \in 0 .. PageSize - 1 /\ RoundUp(a) = (a + PageSize - 1) - c
      /\ c <= a + PageSize - 1
  BY <1>3, <1>6, <1>4 DEF c
<1>9. RoundDown(a) \in 0 .. a
  BY <1>5, <1>7
<1>10. RoundUp(a) \in a .. a + PageSize - 1
  BY <1>1, <1>8
<1>11. RoundDown(a) % PageSize = 0
  BY <1>4, <1>5 DEF x
<1> QED BY <1>9, <1>10, <1>11

LEMMA QuietStep ==
    ASSUME VInv, UNCHANGED <<vma_set, region, loose, asked>>, pc' \in {"idle", "panic"},
           {vma', prev', nxt'} \subseteq Vmas \cup {NULL}
    PROVE  VInv'
BY DEF VInv

\* What VInv says of the list and of the regions with callers.
LEMMA ListFacts ==
    ASSUME VInv
    PROVE  /\ GoodList(vma_set, region) /\ vma_set \in Seq(Vmas) /\ region \in [Vmas -> Fields]
           /\ Once(vma_set) /\ Len(vma_set) \in Nat
           /\ \A j \in 1 .. Len(vma_set) : /\ vma_set[j] \in Vmas /\ vma_set[j] \notin loose
                                           /\ Sound(region[vma_set[j]])
           /\ \A v \in loose : v \in Vmas /\ v # NULL /\ Sound(region[v])
           /\ \A v \in Vmas : region[v].st \in Nat /\ region[v].ed \in Nat
<1>1. GoodList(vma_set, region) /\ vma_set \in Seq(Vmas) /\ region \in [Vmas -> Fields]
      /\ Once(vma_set) /\ \A j \in 1 .. Len(vma_set) : Sound(region[vma_set[j]])
  BY DEF VInv, GoodList
<1>2. Len(vma_set) \in Nat /\ \A j \in 1 .. Len(vma_set) : vma_set[j] \in Vmas
  BY <1>1
<1>3. \A j \in 1 .. Len(vma_set) : vma_set[j] \notin loose
  BY DEF VInv
<1>4. \A v \in loose : v \in Vmas /\ v # NULL /\ Sound(region[v])
  BY VmmConstants DEF VInv
<1>5. \A v \in Vmas : region[v].st \in Nat /\ region[v].ed \in Nat
  BY <1>1, RegionTypes
<1> QED BY <1>1, <1>2, <1>3, <1>4, <1>5

LEMMA VInvInit == Init => VInv
<1> SUFFICES ASSUME Init PROVE VInv
  OBVIOUS
<1>1. vma_set = <<>> /\ loose = {} /\ asked = {} /\ pc = "idle" /\ {vma, prev, nxt} = {NULL}
      /\ region = [v \in Vmas |-> NoRegion]
  BY DEF Init
<1>2. NoRegion \in Fields
  BY VmmConstants DEF NoRegion, Fields
<1>3. region \in [Vmas -> Fields]
  BY <1>1, <1>2
<1>4. <<>> \in Seq(Vmas) /\ Len(<<>>) = 0 /\ 1 .. 0 = {} /\ 1 .. 0 - 1 = {}
  OBVIOUS
<1>5. GoodList(<<>>, region)
  BY <1>3, <1>4 DEF GoodList, Once, Ordered
<1>6. PagesOf(<<>>, region) = {}
  BY <1>4 DEF PagesOf
<1> QED BY <1>1, <1>5, <1>6 DEF VInv

LEMMA VmaCreateStep ==
    ASSUME VInv, NEW a \in 0 .. Top, NEW e \in 0 .. Top, NEW f \in Flags, VmaCreate(a, e, f)
    PROVE  VInv'
<1> DEFINE v == CHOOSE v \in Unused : TRUE
           q == [st |-> RoundDown(a), ed |-> RoundUp(e), flag |-> f]
<1>1. /\ pc = "idle" /\ a < e /\ Unused # {}
      /\ region' = [region EXCEPT ![v] = q] /\ loose' = loose \cup {v}
      /\ UNCHANGED <<vma_set, pc, vma, prev, nxt, asked>>
  BY DEF VmaCreate
<1>2. v \in Unused
  BY <1>1
<1> HIDE DEF v
<1>3. v \in Vmas /\ v \notin loose /\ \A j \in 1 .. Len(vma_set) : vma_set[j] # v
  <2>1. DOMAIN vma_set = 1 .. Len(vma_set)
    BY ListFacts
  <2> QED BY <1>2, <2>1 DEF Unused, ToSet
<1>4. q \in Fields /\ Sound(q)
  <2>1. /\ RoundDown(a) \in 0 .. a /\ RoundDown(a) % PageSize = 0
        /\ RoundUp(e) \in e .. e + PageSize - 1
    BY VmmConstants, Rounding
  <2>2. RoundDown(a) < RoundUp(e) /\ RoundDown(a) \in 0 .. Top /\ RoundUp(e) \in 0 .. Top + PageSize
    BY <1>1, <2>1, VmmConstants
  <2>3. q \in Fields
    BY <2>2 DEF Fields
  <2> QED BY <2>1, <2>2, <2>3 DEF Sound
<1> HIDE DEF q
<1>5. /\ region' \in [Vmas -> Fields] /\ region'[v] = q
      /\ \A w \in Vmas \ {v} : region'[w] = region[w]
  BY <1>1, <1>3, <1>4, ListFacts
<1>6. \A j \in 1 .. Len(vma_set) : region'[vma_set[j]] = region[vma_set[j]]
  BY <1>3, <1>5, ListFacts
<1>7. GoodList(vma_set, region') /\ PagesOf(vma_set, region') = PagesOf(vma_set, region)
  <2>1. PICK r2 : r2 = region'
    OBVIOUS
  <2>2. GoodList(vma_set, r2) /\ PagesOf(vma_set, r2) = PagesOf(vma_set, region)
    BY <2>1, <1>5, <1>6, ListFacts, SameGood
  <2> QED BY <2>1, <2>2
<1>8. loose' \subseteq Vmas
  BY <1>1, <1>3 DEF VInv
<1>9. ASSUME NEW w \in loose'
      PROVE  Sound(region'[w]) /\ \A j \in 1 .. Len(vma_set') : vma_set'[j] # w
  <2>1. CASE w = v
    BY <2>1, <1>1, <1>3, <1>4, <1>5
  <2>2. CASE w # v
    BY <2>2, <1>1, <1>5, ListFacts
  <2> QED BY <2>1, <2>2
<1> QED BY <1>1, <1>7, <1>8, <1>9 DEF VInv

LEMMA AddStartStep ==
    ASSUME VInv, NEW v \in loose, AddStart(v)
    PROVE  VInv'
<1> DEFINE p == FindVma(region[v].st)
           n == FindVma(region[v].ed)
           N == Len(vma_set)
<1>0. /\ GoodList(vma_set, region) /\ vma_set \in Seq(Vmas) /\ region \in [Vmas -> Fields]
      /\ N \in Nat /\ v \in Vmas /\ Sound(region[v])
      /\ region[v].st \in Nat /\ region[v].ed \in Nat
  BY ListFacts
<1>1. \/ pc' = "panic" /\ UNCHANGED <<vma_set, region, loose, vma, prev, nxt, asked>>
      \/ /\ p = NULL /\ vma_set' = Append(vma_set, v) /\ loose' = loose \ {v}
         /\ asked' = asked \cup Pages(region[v])
         /\ pc = "idle" /\ UNCHANGED <<region, pc, vma, prev, nxt>>
      \/ /\ p # NULL /\ n # NULL
         /\ pc' = "retry" /\ vma' = v /\ prev' = p /\ nxt' = n
         /\ UNCHANGED <<vma_set, region, loose, asked>>
  BY DEF AddStart
<1>p. \/ p = NULL /\ \A j \in 1 .. N : region[vma_set[j]].ed < region[v].st
      \/ /\ p # NULL
         /\ \E i \in 1 .. N : /\ p = vma_set[i] /\ region[vma_set[i]].ed >= region[v].st
                              /\ \A j \in 1 .. i - 1 : region[vma_set[j]].ed < region[v].st
  BY <1>0, FindVmaIs
<1>n. \/ n = NULL
      \/ /\ n # NULL
         /\ \E i \in 1 .. N : /\ n = vma_set[i] /\ region[vma_set[i]].ed >= region[v].ed
                              /\ \A j \in 1 .. i - 1 : region[vma_set[j]].ed < region[v].ed
  BY <1>0, FindVmaIs
<1> HIDE DEF p, n
<1>2. CASE pc' = "panic" /\ UNCHANGED <<vma_set, region, loose, vma, prev, nxt, asked>>
  BY <1>2, QuietStep DEF VInv
<1>3. CASE /\ p = NULL /\ vma_set' = Append(vma_set, v) /\ loose' = loose \ {v}
           /\ asked' = asked \cup Pages(region[v])
           /\ pc = "idle" /\ UNCHANGED <<region, pc, vma, prev, nxt>>
  <2>1. Spliced(vma_set, N + 1, N, v, Append(vma_set, v))
    BY <1>0, AppendIs
  <2>2. PagesIn(vma_set, region, N + 1, N) = {}
    <3>1. N + 1 .. N = {}
      BY <1>0
    <3> QED BY <3>1 DEF PagesIn
  <2>3. N > 0 => region[vma_set[N]].ed < region[v].st
    BY <1>0, <1>3, <1>p
  <2>4. Takes(vma_set, region, N + 1, N, v, Append(vma_set, v), region)
    <3>1. (N + 1) - 1 = N /\ ~(N < N) /\ (N + 1 > 1 => N > 0)
      BY <1>0
    <3>2. \A j \in 1 .. N : j < N + 1 \/ j > N => region[vma_set[j]] = region[vma_set[j]]
      OBVIOUS
    <3>3. /\ N + 1 > 1 /\ region[vma_set[(N + 1) - 1]].flag = region[v].flag =>
                 region[vma_set[(N + 1) - 1]].ed < region[v].st
          /\ N < N /\ region[vma_set[N + 1]].flag = region[v].flag =>
                 region[v].ed < region[vma_set[N + 1]].st
      BY <2>3, <3>1
    <3> QED BY <1>0, <2>1, <2>2, <3>2, <3>3, Zenon DEF Takes
  <2>5. Takes(vma_set, region, N + 1, N, v, vma_set', region')
    BY <1>3, <2>4
  <2>6. N + 1 \in 1 .. N + 1 /\ N \in (N + 1) - 1 .. N
    BY <1>0
  <2> QED BY <1>3, <2>5, <2>6, AcceptedStep DEF VInv
<1>4. CASE /\ p # NULL /\ n # NULL
           /\ pc' = "retry" /\ vma' = v /\ prev' = p /\ nxt' = n
           /\ UNCHANGED <<vma_set, region, loose, asked>>
  <2>1. PICK i \in 1 .. N : /\ p = vma_set[i] /\ region[vma_set[i]].ed >= region[v].st
                            /\ \A j \in 1 .. i - 1 : region[vma_set[j]].ed < region[v].st
    BY <1>4, <1>p
  <2>2. PICK k \in 1 .. N : /\ n = vma_set[k] /\ region[vma_set[k]].ed >= region[v].ed
                            /\ \A j \in 1 .. k - 1 : region[vma_set[j]].ed < region[v].ed
    BY <1>4, <1>n
  <2>3. k \in i .. N
    <3> SUFFICES ASSUME k < i PROVE FALSE
      BY <1>0
    <3>1. region[vma_set[k]].ed < region[v].st
      BY <1>0, <2>1
    <3>2. region[vma_set[k]].ed \in Nat /\ region[v].st < region[v].ed
      BY <1>0, ListFacts DEF Sound
    <3> QED BY <3>1, <3>2, <2>2, <1>0
  <2>4. Between(vma_set, region, v, i, k)
    <3>1. \A j \in i .. k - 1 : j \in 1 .. k - 1
      BY <1>0
    <3> QED BY <2>1, <2>2, <3>1 DEF Between
  <2>5. RetryInv'
    BY <1>4, <2>1, <2>2, <2>3, <2>4 DEF RetryInv
  <2>6. {vma', prev', nxt'} \subseteq Vmas \cup {NULL}
    BY <1>0, <1>4, <2>1, <2>2
  <2> QED BY <1>4, <2>5, <2>6 DEF VInv
<1> QED BY <1>1, <1>2, <1>3, <1>4

\* Where vma_add is when it retries.
LEMMA RetryFacts ==
    ASSUME VInv, pc = "retry"
    PROVE  /\ vma \in loose
           /\ \E i \in 1 .. Len(vma_set) : \E n \in i .. Len(vma_set) :
                  /\ prev = vma_set[i] /\ nxt = vma_set[n] /\ n \in 1 .. Len(vma_set)
                  /\ Place(prev) = i /\ Place(nxt) = n /\ (prev = nxt <=> i = n)
                  /\ Between(vma_set, region, vma, i, n)
<1>1. PICK i \in 1 .. Len(vma_set) : \E n \in i .. Len(vma_set) :
                  /\ prev = vma_set[i] /\ nxt = vma_set[n]
                  /\ Between(vma_set, region, vma, i, n)
  BY DEF VInv, RetryInv
<1>2. PICK n \in i .. Len(vma_set) : /\ prev = vma_set[i] /\ nxt = vma_set[n]
                                     /\ Between(vma_set, region, vma, i, n)
  BY <1>1
<1>3. Len(vma_set) \in Nat /\ vma_set \in Seq(Vmas) /\ Once(vma_set)
  BY ListFacts
<1>4. n \in 1 .. Len(vma_set)
  BY <1>3
<1>5. Place(prev) = i /\ Place(nxt) = n
  BY <1>2, <1>3, <1>4, PlaceIs
<1>6. prev = nxt <=> i = n
  BY <1>2, <1>5
<1>7. vma \in loose
  BY DEF VInv, RetryInv
<1> QED BY <1>2, <1>4, <1>5, <1>6, <1>7

LEMMA AddBeforeStep ==
    ASSUME VInv, AddBefore
    PROVE  VInv'
<1>1. /\ pc = "retry" /\ prev = nxt /\ ~Mergeable(region[vma], region[prev])
      /\ vma_set' = InsertAt(vma_set, Place(prev), vma)
      /\ pc' = "idle" /\ vma' = NULL /\ prev' = NULL /\ nxt' = NULL
      /\ loose' = loose \ {vma} /\ asked' = asked \cup Pages(region[vma]) /\ region' = region
  BY DEF AddBefore, Accepted, Done
<1>2. PICK i \in 1 .. Len(vma_set) :
          /\ prev = vma_set[i] /\ Place(prev) = i /\ vma \in loose
          /\ Between(vma_set, region, vma, i, i)
  BY <1>1, RetryFacts
<1>3. /\ vma_set \in Seq(Vmas) /\ Len(vma_set) \in Nat /\ vma \in Vmas /\ Sound(region[vma])
      /\ region \in [Vmas -> Fields]
      /\ vma_set[i] \in Vmas
      /\ \A v \in Vmas : region[v].st \in Nat /\ region[v].ed \in Nat
  BY <1>2, ListFacts
<1>4. i \in 1 .. Len(vma_set) + 1 /\ i - 1 \in i - 1 .. Len(vma_set)
      /\ (i - 1) + 1 = i
  BY <1>3
<1>5. Spliced(vma_set, i, i - 1, vma, vma_set')
  <2>1. vma_set' = SubSeq(vma_set, 1, i - 1) \o <<vma>> \o SubSeq(vma_set, i, Len(vma_set))
    BY <1>1, <1>2 DEF InsertAt
  <2>2. Spliced(vma_set, i, i - 1, vma,
                SubSeq(vma_set, 1, i - 1) \o <<vma>> \o SubSeq(vma_set, (i - 1) + 1, Len(vma_set)))
    BY <1>3, <1>4, SpliceIs
  <2> QED BY <2>1, <2>2, <1>4
<1>6. PagesIn(vma_set, region, i, i - 1) = {}
  <2>1. i .. i - 1 = {}
    BY <1>3
  <2> QED BY <2>1 DEF PagesIn
<1>7. i > 1 => region[vma_set[i - 1]].ed < region[vma].st
  BY <1>2, <1>3 DEF Between
<1>8. region[vma_set[(i - 1) + 1]].flag = region[vma].flag =>
          region[vma].ed < region[vma_set[(i - 1) + 1]].st
  BY <1>1, <1>2, <1>3, <1>4 DEF Between, Mergeable
<1>9. Takes(vma_set, region, i, i - 1, vma, vma_set', region')
  <2>1. /\ i > 1 /\ region[vma_set[i - 1]].flag = region'[vma].flag =>
               region[vma_set[i - 1]].ed < region'[vma].st
        /\ i - 1 < Len(vma_set) /\ region[vma_set[(i - 1) + 1]].flag = region'[vma].flag =>
               region'[vma].ed < region[vma_set[(i - 1) + 1]].st
    BY <1>1, <1>7, <1>8
  <2>2. /\ region' \in [Vmas -> Fields] /\ Sound(region'[vma])
        /\ \A j \in 1 .. Len(vma_set) : j < i \/ j > i - 1 =>
               region'[vma_set[j]] = region[vma_set[j]]
        /\ Pages(region'[vma]) = Pages(region[vma]) \cup PagesIn(vma_set, region, i, i - 1)
    BY <1>1, <1>3, <1>6
  <2> QED BY <1>5, <2>1, <2>2, Zenon DEF Takes
<1>10. {vma', prev', nxt'} \subseteq Vmas \cup {NULL} /\ \A w \in loose \ {vma} : region'[w] = region[w]
  BY <1>1
<1> QED BY <1>1, <1>2, <1>4, <1>9, <1>10, AcceptedStep

\* The areas from prev to next, all of them of the new region's flags, are merged.
LEMMA SwallowStep ==
    ASSUME VInv, vma \in loose, NEW i \in 1 .. Len(vma_set), NEW n \in i .. Len(vma_set),
           Between(vma_set, region, vma, i, n),
           \A j \in i .. n : region[vma_set[j]].flag = region[vma].flag,
           \A j \in i .. n : Mergeable(MergedUpTo(i, j - 1), region[vma_set[j]]),
           Swallow(i, n), Accepted
    PROVE  VInv'
<1> DEFINE m == MergedUpTo(i, n)
<1>1. /\ vma_set' = SubSeq(vma_set, 1, i - 1) \o <<vma>> \o SubSeq(vma_set, n + 1, Len(vma_set))
      /\ region' = [v \in Vmas |-> IF v = vma THEN m
                                   ELSE IF v \in ToSet(SubSeq(vma_set, i, n)) THEN NoRegion
                                   ELSE region[v]]
      /\ pc' = "idle" /\ vma' = NULL /\ prev' = NULL /\ nxt' = NULL
      /\ loose' = loose \ {vma} /\ asked' = asked \cup Pages(region[vma])
  BY DEF Swallow, Accepted, Done
<1>2. /\ vma_set \in Seq(Vmas) /\ Len(vma_set) \in Nat /\ vma \in Vmas /\ Sound(region[vma])
      /\ GoodList(vma_set, region) /\ Once(vma_set)
      /\ region \in [Vmas -> Fields] /\ vma # NULL
      /\ \A j \in 1 .. Len(vma_set) : /\ vma_set[j] \in Vmas /\ vma_set[j] \notin loose
                                      /\ Sound(region[vma_set[j]])
      /\ \A v \in Vmas : region[v].st \in Nat /\ region[v].ed \in Nat
  BY ListFacts
<1>3. /\ i \in 1 .. Len(vma_set) + 1 /\ n \in i - 1 .. Len(vma_set) /\ n \in 1 .. Len(vma_set)
      /\ i .. n \subseteq 1 .. Len(vma_set)
  BY <1>2
<1>4. /\ m \in Fields /\ m.flag = region[vma].flag
      /\ m.st = region[vma].st \/ \E j \in i .. n : m.st = region[vma_set[j]].st
      /\ m.ed = region[vma].ed \/ \E j \in i .. n : m.ed = region[vma_set[j]].ed
  BY <1>2, <1>3, MergedIs
<1>5. Sound(m) /\ Pages(m) = Pages(region[vma]) \cup PagesIn(vma_set, region, i, n)
  BY <1>2, <1>3, MergedPages
<1>6. Spliced(vma_set, i, n, vma, vma_set')
  BY <1>1, <1>2, <1>3, SpliceIs
<1> HIDE DEF m
<1>7. \A x : x \in ToSet(SubSeq(vma_set, i, n)) <=> \E j \in i .. n : x = vma_set[j]
  <2> DEFINE c == SubSeq(vma_set, i, n)
  <2>1. /\ DOMAIN c = 1 .. n - i + 1 /\ \A j \in 1 .. n - i + 1 : c[j] = vma_set[i + j - 1]
    BY <1>2, <1>3
  <2> HIDE DEF c
  <2>2. ASSUME NEW x, x \in ToSet(c) PROVE \E j \in i .. n : x = vma_set[j]
    <3>1. PICK j \in 1 .. n - i + 1 : x = c[j]
      BY <2>1, <2>2 DEF ToSet
    <3>2. i + j - 1 \in i .. n /\ x = vma_set[i + j - 1]
      BY <2>1, <3>1, <1>3
    <3> QED BY <3>2
  <2>3. ASSUME NEW j \in i .. n PROVE vma_set[j] \in ToSet(c)
    <3>1. j - i + 1 \in 1 .. n - i + 1 /\ i + (j - i + 1) - 1 = j
      BY <1>3
    <3>2. vma_set[j] = c[j - i + 1]
      BY <2>1, <3>1
    <3> QED BY <2>1, <3>1, <3>2 DEF ToSet
  <2> QED BY <2>2, <2>3 DEF c
<1>8. NoRegion \in Fields
  BY VmmConstants DEF NoRegion, Fields
<1>9. region' \in [Vmas -> Fields] /\ region'[vma] = m
  BY <1>1, <1>2, <1>4, <1>8
<1>10. \A v \in Vmas : v # vma /\ (\A j \in i .. n : v # vma_set[j]) => region'[v] = region[v]
  BY <1>1, <1>7
<1>11. \A w \in loose \ {vma} : region'[w] = region[w]
  <2> TAKE w \in loose \ {vma}
  <2>1. w \in Vmas /\ \A j \in i .. n : w # vma_set[j]
    BY <1>2, <1>3, ListFacts
  <2> QED BY <2>1, <1>10
<1>12. \A j \in 1 .. Len(vma_set) : j < i \/ j > n => region'[vma_set[j]] = region[vma_set[j]]
  <2> SUFFICES ASSUME NEW j \in 1 .. Len(vma_set), j < i \/ j > n
               PROVE  region'[vma_set[j]] = region[vma_set[j]]
    OBVIOUS
  <2>1. vma_set[j] \in Vmas /\ vma_set[j] # vma
    BY <1>2
  <2>2. \A l \in i .. n : vma_set[j] # vma_set[l]
    BY <1>2, <1>3 DEF Once
  <2> QED BY <2>1, <2>2, <1>10
<1>13. i > 1 /\ region[vma_set[i - 1]].flag = m.flag => region[vma_set[i - 1]].ed < m.st
  <2> SUFFICES ASSUME i > 1, region[vma_set[i - 1]].flag = m.flag
               PROVE  region[vma_set[i - 1]].ed < m.st
    OBVIOUS
  <2>1. i - 1 \in 1 .. Len(vma_set) /\ i - 1 \in 1 .. i - 1
    BY <1>2
  <2>2. CASE m.st = region[vma].st
    BY <2>1, <2>2 DEF Between
  <2>3. CASE \E j \in i .. n : m.st = region[vma_set[j]].st
    <3>1. PICK j \in i .. n : m.st = region[vma_set[j]].st
      BY <2>3
    <3>2. j \in i - 1 .. Len(vma_set) /\ i - 1 < j
      BY <1>2, <1>3
    <3>3. \A l \in i - 1 .. j : region[vma_set[l]].flag = region[vma_set[i - 1]].flag
      <4> TAKE l \in i - 1 .. j
      <4>1. l = i - 1 \/ l \in i .. n
        BY <1>2, <1>3
      <4> QED BY <4>1, <1>4
    <3>4. region[vma_set[i - 1]].ed < region[vma_set[j]].st
      BY <1>2, <2>1, <3>2, <3>3, RunAscends
    <3> QED BY <3>1, <3>4
  <2> QED BY <1>4, <2>2, <2>3
<1>14. n < Len(vma_set) /\ region[vma_set[n + 1]].flag = m.flag => m.ed < region[vma_set[n + 1]].st
  <2> SUFFICES ASSUME n < Len(vma_set), region[vma_set[n + 1]].flag = m.flag
               PROVE  m.ed < region[vma_set[n + 1]].st
    OBVIOUS
  <2>1. n + 1 \in 1 .. Len(vma_set) /\ n \in 1 .. Len(vma_set) - 1 /\ n \in i .. n
    BY <1>2, <1>3
  <2>2. /\ region[vma_set[n]].ed \in Nat /\ region[vma_set[n + 1]].st \in Nat
        /\ region[vma].ed \in Nat /\ m.ed \in Nat
    <3>1. m.ed \in Nat
      BY <1>4, FieldInt
    <3> QED BY <1>2, <1>3, <2>1, <3>1
  <2>3. region[vma_set[n]].ed < region[vma_set[n + 1]].st
    <3>1. region[vma_set[n]].flag = region[vma_set[n + 1]].flag
      BY <2>1, <1>4
    <3> QED BY <1>2, <2>1, <3>1 DEF GoodList, Ordered
  <2>4. region[vma].ed < region[vma_set[n + 1]].st
    <3>1. region[vma_set[n]].ed >= region[vma].ed \/ region[vma].ed < region[vma_set[n + 1]].st
      BY DEF Between
    <3> QED BY <3>1, <2>2, <2>3
  <2>5. ASSUME NEW j \in i .. n, m.ed = region[vma_set[j]].ed
        PROVE  m.ed < region[vma_set[n + 1]].st
    <3>1. CASE j = n
      BY <2>3, <2>5, <3>1
    <3>2. CASE j # n
      <4>1. j \in i .. n - 1
        BY <3>2, <1>3
      <4>2. region[vma_set[j]].ed < region[vma].ed
        BY <4>1 DEF Between
      <4> DEFINE a == region[vma].ed
                 e == region[vma_set[n + 1]].st
      <4>3. m.ed < a
        BY <4>2, <2>5
      <4>4. a < e /\ a \in Nat /\ e \in Nat /\ m.ed \in Nat
        BY <2>2, <2>4
      <4> HIDE DEF a, e, m
      <4>5. m.ed < e
        BY <4>3, <4>4
      <4> QED BY <4>5 DEF e
    <3> QED BY <3>1, <3>2
  <2> QED BY <1>4, <2>4, <2>5
<1>15. Takes(vma_set, region, i, n, vma, vma_set', region')
  <2>1. /\ i > 1 /\ region[vma_set[i - 1]].flag = region'[vma].flag =>
               region[vma_set[i - 1]].ed < region'[vma].st
        /\ n < Len(vma_set) /\ region[vma_set[n + 1]].flag = region'[vma].flag =>
               region'[vma].ed < region[vma_set[n + 1]].st
    BY <1>9, <1>13, <1>14
  <2>2. /\ Sound(region'[vma])
        /\ Pages(region'[vma]) = Pages(region[vma]) \cup PagesIn(vma_set, region, i, n)
    BY <1>5, <1>9
  <2> QED BY <1>6, <1>9, <1>12, <2>1, <2>2, Zenon DEF Takes
<1>16. {vma', prev', nxt'} \subseteq Vmas \cup {NULL}
  BY <1>1
<1> QED BY <1>1, <1>3, <1>11, <1>15, <1>16, AcceptedStep

LEMMA AddMergeStep ==
    ASSUME VInv, AddMerge
    PROVE  VInv'
<1>1. /\ pc = "retry" /\ prev = nxt /\ Mergeable(region[vma], region[prev])
      /\ Swallow(Place(prev), Place(prev)) /\ Accepted
  BY DEF AddMerge
<1>2. PICK i \in 1 .. Len(vma_set) :
          /\ prev = vma_set[i] /\ Place(prev) = i /\ vma \in loose
          /\ Between(vma_set, region, vma, i, i)
  BY <1>1, RetryFacts
<1>3. vma \in Vmas /\ region \in [Vmas -> Fields] /\ Len(vma_set) \in Nat
  BY <1>2, ListFacts
<1>4. i \in Nat /\ i \in i .. Len(vma_set) /\ \A j \in i .. i : j = i
  BY <1>3
<1>5. MergedUpTo(i, i - 1) = region[vma]
  BY <1>3, <1>4, MergedNone
<1>6. \A j \in i .. i : region[vma_set[j]].flag = region[vma].flag
  BY <1>1, <1>2, <1>4 DEF Mergeable
<1>7. \A j \in i .. i : Mergeable(MergedUpTo(i, j - 1), region[vma_set[j]])
  BY <1>1, <1>2, <1>4, <1>5
<1>8. Swallow(i, i)
  BY <1>1, <1>2
<1> QED BY <1>1, <1>2, <1>4, <1>6, <1>7, <1>8, SwallowStep

\* try_merge_vma_range's assertion holds: what is merged so far begins where the new
\* region does or before, the areas ascend, and the last one touches the region.
LEMMA InOneGoHolds ==
    ASSUME VInv, AtRange, SameFlag
    PROVE  InOneGo
<1>1. PICK i \in 1 .. Len(vma_set) : \E n \in i .. Len(vma_set) :
          /\ prev = vma_set[i] /\ nxt = vma_set[n] /\ n \in 1 .. Len(vma_set)
          /\ Place(prev) = i /\ Place(nxt) = n /\ vma \in loose
          /\ Between(vma_set, region, vma, i, n)
  BY RetryFacts DEF AtRange
<1>2. PICK n \in i .. Len(vma_set) :
          /\ prev = vma_set[i] /\ nxt = vma_set[n] /\ n \in 1 .. Len(vma_set)
          /\ Place(prev) = i /\ Place(nxt) = n /\ vma \in loose
          /\ Between(vma_set, region, vma, i, n)
  BY <1>1
<1>3. /\ region[vma_set[n]].st <= region[vma].ed
      /\ \A j \in i .. n : region[vma_set[j]].flag = region[vma].flag
  BY <1>2 DEF AtRange, SameFlag
<1>4. /\ vma_set \in Seq(Vmas) /\ region \in [Vmas -> Fields] /\ vma \in Vmas
      /\ GoodList(vma_set, region) /\ Len(vma_set) \in Nat /\ region[vma].st \in Nat
      /\ region[vma].ed \in Nat
      /\ \A j \in 1 .. Len(vma_set) : /\ region[vma_set[j]].st \in Nat
                                      /\ region[vma_set[j]].ed \in Nat
                                      /\ region[vma_set[j]].st < region[vma_set[j]].ed
  BY <1>2, ListFacts DEF Sound
<1> SUFFICES ASSUME NEW k \in i .. n
             PROVE  Mergeable(MergedUpTo(i, k - 1), region[vma_set[k]])
  BY <1>2 DEF InOneGo
<1> DEFINE m == MergedUpTo(i, k - 1)
<1>5. i \in 1 .. Len(vma_set) + 1 /\ k - 1 \in i - 1 .. Len(vma_set) /\ k \in 1 .. Len(vma_set)
  BY <1>4
<1>6. /\ m \in Fields /\ m.flag = region[vma].flag
      /\ m.st <= region[vma].st /\ m.ed >= region[vma].ed
  BY <1>4, <1>5, MergedIs
<1>7. m.st \in Nat /\ m.ed \in Nat
  BY <1>6, FieldInt
<1> HIDE DEF m
<1>8. region[vma].st <= region[vma_set[i]].ed /\ region[vma_set[i]].ed <= region[vma_set[k]].ed
  <2>1. region[vma].st <= region[vma_set[i]].ed
    BY <1>2, <1>4 DEF Between
  <2>2. CASE k = i
    BY <2>1, <2>2, <1>4
  <2>3. CASE i < k
    <3>1. k \in i .. Len(vma_set) /\ \A j \in i .. k : j \in i .. n /\ i \in i .. n
      BY <1>4
    <3>2. \A j \in i .. k : region[vma_set[j]].flag = region[vma_set[i]].flag
      BY <3>1, <1>3
    <3>3. region[vma_set[i]].ed < region[vma_set[k]].st
      BY <1>4, <2>3, <3>1, <3>2, RunAscends
    <3> QED BY <2>1, <3>3, <1>4, <1>5
  <2> QED BY <2>2, <2>3, <1>4
<1>9. region[vma].ed >= region[vma_set[k]].st
  <2>1. CASE k = n
    BY <2>1, <1>3, <1>4, <1>5
  <2>2. CASE k # n
    <3>1. k \in i .. n - 1
      BY <2>2, <1>4
    <3>2. region[vma_set[k]].ed < region[vma].ed
      BY <3>1, <1>2 DEF Between
    <3> QED BY <3>2, <1>4, <1>5
  <2> QED BY <2>1, <2>2
<1>10. m.flag = region[vma_set[k]].flag
  BY <1>3, <1>6
<1>11. m.st <= region[vma_set[k]].ed /\ m.ed >= region[vma_set[k]].st
  BY <1>4, <1>5, <1>6, <1>7, <1>8, <1>9
<1>12. Mergeable(m, region[vma_set[k]])
  BY <1>10, <1>11 DEF Mergeable
<1> QED BY <1>12 DEF m

LEMMA AddRangeStep ==
    ASSUME VInv, AddRange
    PROVE  VInv'
<1>1. AtRange /\ SameFlag /\ InOneGo
  BY InOneGoHolds DEF AddRange
<1>2. Swallow(Place(prev), Place(nxt)) /\ Accepted
  BY <1>1 DEF AddRange
<1>3. PICK i \in 1 .. Len(vma_set) : \E n \in i .. Len(vma_set) :
          /\ Place(prev) = i /\ Place(nxt) = n /\ vma \in loose
          /\ Between(vma_set, region, vma, i, n)
  BY <1>1, RetryFacts DEF AtRange
<1>4. PICK n \in i .. Len(vma_set) :
          /\ Place(prev) = i /\ Place(nxt) = n /\ vma \in loose
          /\ Between(vma_set, region, vma, i, n)
  BY <1>3
<1>5. /\ \A j \in i .. n : region[vma_set[j]].flag = region[vma].flag
      /\ \A j \in i .. n : Mergeable(MergedUpTo(i, j - 1), region[vma_set[j]])
      /\ Swallow(i, n)
  BY <1>1, <1>2, <1>4 DEF SameFlag, InOneGo
<1> QED BY <1>2, <1>4, <1>5, SwallowStep

LEMMA AddRefusedStep ==
    ASSUME VInv, AddRefused
    PROVE  VInv'
<1>1. /\ UNCHANGED <<vma_set, region, loose, asked>> /\ pc' \in {"idle", "panic"}
      /\ {vma', prev', nxt'} \subseteq Vmas \cup {NULL}
  BY DEF AddRefused, Done
<1> QED BY <1>1, QuietStep

LEMMA AddBackStep ==
    ASSUME VInv, AddBack
    PROVE  VInv'
<1>1. /\ pc = "retry" /\ prev # nxt /\ region[nxt].st > region[vma].ed
      /\ nxt' = vma_set[Place(nxt) - 1]
      /\ UNCHANGED <<vma_set, region, loose, pc, vma, prev, asked>>
  BY DEF AddBack
<1>2. PICK i \in 1 .. Len(vma_set) : \E n \in i .. Len(vma_set) :
          /\ prev = vma_set[i] /\ nxt = vma_set[n] /\ n \in 1 .. Len(vma_set)
          /\ Place(nxt) = n /\ (prev = nxt <=> i = n) /\ vma \in loose
          /\ Between(vma_set, region, vma, i, n)
  BY <1>1, RetryFacts
<1>3. PICK n \in i .. Len(vma_set) :
          /\ prev = vma_set[i] /\ nxt = vma_set[n] /\ n \in 1 .. Len(vma_set)
          /\ Place(nxt) = n /\ (prev = nxt <=> i = n) /\ vma \in loose
          /\ Between(vma_set, region, vma, i, n)
  BY <1>2
<1>4. /\ Len(vma_set) \in Nat /\ n - 1 \in i .. Len(vma_set) /\ n - 1 \in 1 .. Len(vma_set)
      /\ n - 1 \in i .. n - 1 /\ n - 1 < Len(vma_set) /\ (n - 1) + 1 = n
      /\ \A j \in i .. (n - 1) - 1 : j \in i .. n - 1
  BY <1>1, <1>3, ListFacts
<1>5. /\ region[vma_set[n]].st \in Nat /\ region[vma].ed \in Nat
      /\ vma_set[n - 1] \in Vmas
  BY <1>3, <1>4, ListFacts
<1>6. region[vma].ed < region[vma_set[(n - 1) + 1]].st
  BY <1>1, <1>3, <1>4, <1>5
<1>7. Between(vma_set, region, vma, i, n - 1)
  BY <1>3, <1>4, <1>6 DEF Between
<1>8. nxt' = vma_set[n - 1]
  BY <1>1, <1>3
<1>9. RetryInv'
  BY <1>1, <1>3, <1>4, <1>7, <1>8 DEF RetryInv
<1>10. {vma', prev', nxt'} \subseteq Vmas \cup {NULL}
  BY <1>1, <1>5, <1>8 DEF VInv
<1> QED BY <1>1, <1>9, <1>10 DEF VInv

LEMMA MmDestroyStep ==
    ASSUME VInv, MmDestroy
    PROVE  VInv'
<1>1. /\ pc = "idle" /\ vma_set' = <<>> /\ pc' \in {"idle", "panic"}
      /\ vma_set = <<>> => asked' = asked
      /\ vma_set # <<>> => asked' = {}
      /\ region' = [v \in Vmas |-> IF v \in loose THEN region[v] ELSE NoRegion]
      /\ UNCHANGED <<loose, vma, prev, nxt>>
  BY DEF MmDestroy
<1>2. NoRegion \in Fields
  BY VmmConstants DEF NoRegion, Fields
<1>3. region' \in [Vmas -> Fields] /\ \A v \in loose : region'[v] = region[v]
  BY <1>1, <1>2, ListFacts
<1>4. <<>> \in Seq(Vmas) /\ Len(<<>>) = 0 /\ 1 .. 0 = {} /\ 1 .. 0 - 1 = {}
  OBVIOUS
<1>5. GoodList(<<>>, region')
  <2>1. PICK r2 : r2 = region'
    OBVIOUS
  <2>2. GoodList(<<>>, r2)
    BY <2>1, <1>3, <1>4 DEF GoodList, Once, Ordered
  <2> QED BY <2>1, <2>2
<1>6. PagesOf(<<>>, region') = {} /\ PagesOf(<<>>, region) = {}
  BY <1>4 DEF PagesOf
<1>7. asked' = {}
  BY <1>1, <1>6 DEF VInv
<1> QED BY <1>1, <1>3, <1>4, <1>5, <1>6, <1>7 DEF VInv

LEMMA VInvStep == VInv /\ [Next]_vars => VInv'
<1> SUFFICES ASSUME VInv, [Next]_vars PROVE VInv'
  OBVIOUS
<1>1. ASSUME NEW a \in 0 .. Top, NEW e \in 0 .. Top, NEW f \in Flags, VmaCreate(a, e, f)
      PROVE  VInv'
  BY <1>1, VmaCreateStep
<1>2. ASSUME NEW v \in loose, AddStart(v) PROVE VInv'
  BY <1>2, AddStartStep
<1>3. CASE AddRound
  BY <1>3, AddBeforeStep, AddMergeStep, AddBackStep, AddRangeStep, AddRefusedStep DEF AddRound
<1>4. CASE MmCreate
  BY <1>4 DEF MmCreate, VInv, RetryInv
<1>5. CASE MmDestroy
  BY <1>5, MmDestroyStep
<1>6. CASE UNCHANGED vars
  BY <1>6 DEF vars, VInv, RetryInv
<1> QED BY <1>1, <1>2, <1>3, <1>4, <1>5, <1>6 DEF Next

-----------------------------------------------------------------------------
(* The theorems.                                                           *)

LEMMA VInvCorrect == Spec => []VInv
<1> QED BY VInvInit, VInvStep, PTL DEF Spec

\* The fields hold what the code can store in them, and no area is on the list twice.
THEOREM VmmTypeCorrect == Spec => []TypeOK
<1>1. VInv => TypeOK
  <2> SUFFICES ASSUME VInv PROVE TypeOK
    OBVIOUS
  <2> DEFINE N == Len(vma_set)
             f == [k \in 1 .. N |-> vma_set[k]]
  <2>1. /\ N \in Nat /\ DOMAIN vma_set = 1 .. N
        /\ \A j, k \in 1 .. N : vma_set[j] = vma_set[k] => j = k
    BY ListFacts DEF Once
  <2>2. f \in Bijection(1 .. N, Areas)
    BY <2>1 DEF Bijection, Injection, Surjection, IsInjective, Areas, ToSet
  <2>3. Cardinality(Areas) = N
    <3>1. ExistsBijection(1 .. N, Areas)
      BY <2>2 DEF ExistsBijection
    <3> HIDE DEF f, N
    <3> QED BY <2>1, <3>1, FS_CountingElements
  <2>4. region \in [Vmas -> Fields]
    BY ListFacts
  <2>5. /\ vma_set \in Seq(Vmas) /\ loose \subseteq Vmas
        /\ pc \in {"idle", "retry", "panic"} /\ {vma, prev, nxt} \subseteq Vmas \cup {NULL}
    BY DEF VInv, GoodList
  <2> HIDE DEF f
  <2> QED BY <2>3, <2>4, <2>5, Zenon DEF TypeOK, Fields
<1> QED BY <1>1, VInvCorrect, PTL

\* The assertion of try_merge_vma_range never stops the kernel, however many regions
\* of however many kinds are added in whatever order.
THEOREM RangeAssertCorrect == Spec => []RangeAssertHolds
<1>1. VInv => RangeAssertHolds
  BY InOneGoHolds DEF RangeAssertHolds
<1> QED BY <1>1, VInvCorrect, PTL

\* The areas on the list make up exactly the pages, with their flags, of the regions
\* that were accepted; no area is on the list and with a caller at the same time.
THEOREM PagesAccountedCorrect == Spec => []PagesAccounted
<1>1. VInv => PagesAccounted
  <2> SUFFICES ASSUME VInv PROVE PagesAccounted
    OBVIOUS
  <2>1. \A v : v \in Areas <=> \E j \in 1 .. Len(vma_set) : v = vma_set[j]
    <3>1. DOMAIN vma_set = 1 .. Len(vma_set)
      BY ListFacts
    <3> QED BY <3>1 DEF Areas, ToSet
  <2>2. \A p : p \in UNION {Pages(region[v]) : v \in Areas}
                  <=> p \in PagesOf(vma_set, region)
    BY <2>1 DEF PagesOf
  <2>3. UNION {Pages(region[v]) : v \in Areas} = asked
    BY <2>2 DEF VInv
  <2>4. loose \cap Areas = {}
    BY <2>1, ListFacts
  <2> QED BY <2>3, <2>4 DEF PagesAccounted
<1> QED BY <1>1, VInvCorrect, PTL

\* While all regions have been of one kind, all areas are, and the whole list ascends.
LEMMA OneKindFacts ==
    ASSUME VInv, OneKind
    PROVE  \A j, k \in 1 .. Len(vma_set) :
               /\ region[vma_set[j]].flag = region[vma_set[k]].flag
               /\ j < k => region[vma_set[j]].ed < region[vma_set[k]].st
<1> DEFINE K == {p[2] : p \in asked}
           N == Len(vma_set)
           f == [k \in 1 .. N |-> region[vma_set[k]].flag]
           T == {region[vma_set[k]].flag : k \in 1 .. N}
<1>0. /\ GoodList(vma_set, region) /\ N \in Nat /\ asked = PagesOf(vma_set, region)
      /\ \A j \in 1 .. N : Sound(region[vma_set[j]]) /\ vma_set[j] \in Vmas
      /\ \A v \in Vmas : region[v].st \in Nat /\ region[v].ed \in Nat
  BY ListFacts DEF VInv
<1>1. IsFiniteSet(T)
  <2>1. f \in Surjection(1 .. N, T)
    BY DEF Surjection
  <2>2. IsFiniteSet(1 .. N)
    BY <1>0, FS_Interval
  <2> HIDE DEF f, T, N
  <2> QED BY <2>1, <2>2, FS_Surjection
<1>2. K \subseteq T
  <2> SUFFICES ASSUME NEW p \in asked PROVE p[2] \in T
    OBVIOUS
  <2>1. PICK k \in 1 .. N : p \in Pages(region[vma_set[k]])
    BY <1>0 DEF PagesOf
  <2>2. PICK a : p = <<a, region[vma_set[k]].flag>>
    BY <2>1, InPages
  <2> QED BY <2>2
<1>3. ASSUME NEW k \in 1 .. N PROVE region[vma_set[k]].flag \in K
  <2> DEFINE q == region[vma_set[k]]
  <2>1. q.st \in q.st .. q.ed - 1 /\ q.st % PageSize = 0
    BY <1>0 DEF Sound
  <2>2. <<q.st, q.flag>> \in Pages(q)
    BY <2>1, InPages
  <2>3. <<q.st, q.flag>> \in asked
    BY <1>0, <2>2 DEF PagesOf
  <2>4. <<q.st, q.flag>>[2] = q.flag
    OBVIOUS
  <2> QED BY <2>3, <2>4
<1>4. IsFiniteSet(K) /\ Cardinality(K) <= 1 /\ Cardinality(K) \in Nat
  <2>1. Cardinality(K) <= 1
    BY DEF OneKind
  <2> HIDE DEF K, T
  <2> QED BY <1>1, <1>2, <2>1, FS_Subset, FS_CardinalityType
<1> HIDE DEF K
<1>5. ASSUME NEW x \in K, NEW y \in K PROVE x = y
  <2>1. CASE Cardinality(K) = 0
    BY <1>4, <2>1, FS_EmptySet
  <2>2. CASE Cardinality(K) = 1
    <3>1. \E z : K = {z}
      BY <1>4, <2>2, FS_Singleton
    <3> QED BY <3>1
  <2> QED BY <1>4, <2>1, <2>2
<1>6. \A j, k \in 1 .. N : region[vma_set[j]].flag = region[vma_set[k]].flag
  BY <1>3, <1>5
<1>7. ASSUME NEW j \in 1 .. N, NEW k \in 1 .. N, j < k
      PROVE  region[vma_set[j]].ed < region[vma_set[k]].st
  <2>1. k \in j .. N /\ \A l \in j .. k : l \in 1 .. N
    BY <1>0, <1>7
  <2>2. \A l \in j .. k : region[vma_set[l]].flag = region[vma_set[j]].flag
    BY <1>6, <2>1
  <2> QED BY <1>0, <1>7, <2>1, <2>2, RunAscends
<1> QED BY <1>6, <1>7

\* check_vma_sorted's condition: while all regions have been of one kind the areas
\* ascend, with room between neighbours.
THEOREM SortedCorrect == Spec => []Sorted
<1>1. VInv => Sorted
  <2> SUFFICES ASSUME VInv, OneKind, NEW k \in 1 .. Len(vma_set) - 1
               PROVE  region[vma_set[k]].ed < region[vma_set[k + 1]].st
    BY DEF Sorted
  <2>1. k \in 1 .. Len(vma_set) /\ k + 1 \in 1 .. Len(vma_set) /\ k < k + 1
    BY ListFacts
  <2> QED BY <2>1, OneKindFacts
<1> QED BY <1>1, VInvCorrect, PTL

\* find_vma of an address inside an area is that area.
LEMMA FindsInside ==
    ASSUME VInv, OneKind, NEW a \in Nat, NEW v \in Areas, Inside(v, a)
    PROVE  FindVma(a) = v
<1>0. /\ vma_set \in Seq(Vmas) /\ region \in [Vmas -> Fields] /\ Len(vma_set) \in Nat
      /\ \A j \in 1 .. Len(vma_set) : /\ region[vma_set[j]].st \in Nat
                                      /\ region[vma_set[j]].ed \in Nat
  BY ListFacts
<1>1. PICK k \in 1 .. Len(vma_set) : v = vma_set[k]
  <2>1. DOMAIN vma_set = 1 .. Len(vma_set)
    BY <1>0
  <2> QED BY <2>1 DEF Areas, ToSet
<1>2. region[vma_set[k]].st <= a /\ a < region[vma_set[k]].ed
  BY <1>1 DEF Inside
<1>3. PICK i \in 1 .. Len(vma_set) :
          /\ FindVma(a) = vma_set[i] /\ region[vma_set[i]].ed >= a
          /\ \A j \in 1 .. i - 1 : region[vma_set[j]].ed < a
  <2>1. ~(region[vma_set[k]].ed < a)
    BY <1>0, <1>2
  <2> QED BY <1>0, <2>1, FindVmaIs
<1>4. ~(k < i)
  <2>1. k < i => k \in 1 .. i - 1
    BY <1>0
  <2> QED BY <1>0, <1>2, <1>3, <2>1
<1>5. ~(i < k)
  <2>1. i < k => region[vma_set[i]].ed < region[vma_set[k]].st
    BY OneKindFacts
  <2> QED BY <1>0, <1>2, <1>3, <2>1
<1>6. i = k
  BY <1>0, <1>4, <1>5
<1> QED BY <1>1, <1>3, <1>6

\* While all regions have been of one kind, do_pgfault judges a fault by the flags of
\* the area it falls into, and serves none outside but at the end of one.
THEOREM FaultsJudgedCorrect == Spec => []FaultsJudged
<1>1. VInv => FaultsJudged
  <2> SUFFICES ASSUME VInv, OneKind, NEW a \in 1 .. Top,
                      NEW present \in BOOLEAN, NEW write \in BOOLEAN
               PROVE  LET served == PgFault(a, present, write) = 0
                      IN /\ \A v \in Areas : Inside(v, a) =>
                               (served <=> /\ "STACK" \in region[v].flag => a >= region[v].st + PageSize
                                           /\ IF write THEN "WRITE" \in region[v].flag
                                              ELSE ~present /\ region[v].flag \cap {"READ", "EXEC"} # {})
                         /\ served => \E v \in Areas : Inside(v, a) \/ a = region[v].ed
    BY DEF FaultsJudged
  <2> DEFINE served == PgFault(a, present, write) = 0
  <2>0. /\ a \in Nat /\ PageSize \in Nat
        /\ vma_set \in Seq(Vmas) /\ region \in [Vmas -> Fields]
        /\ \A j \in 1 .. Len(vma_set) : /\ vma_set[j] \in Areas /\ vma_set[j] \in Vmas
        /\ \A v \in Areas : v \in Vmas /\ v # NULL
        /\ \A v \in Vmas : region[v].st \in Nat /\ region[v].ed \in Nat
    <3>1. DOMAIN vma_set = 1 .. Len(vma_set)
      BY ListFacts
    <3>2. \A v : v \in Areas <=> \E j \in 1 .. Len(vma_set) : v = vma_set[j]
      BY <3>1 DEF Areas, ToSet
    <3> QED BY <3>2, VmmConstants, ListFacts
  <2>1. ASSUME NEW v \in Areas, Inside(v, a)
        PROVE  served <=> /\ "STACK" \in region[v].flag => a >= region[v].st + PageSize
                          /\ IF write THEN "WRITE" \in region[v].flag
                             ELSE ~present /\ region[v].flag \cap {"READ", "EXEC"} # {}
    <3>1. FindVma(a) = v /\ v # NULL /\ region[v].st \in Nat /\ ~(region[v].st > a)
      BY <2>0, <2>1, FindsInside DEF Inside
    <3>2. PgFault(a, present, write) =
              IF "STACK" \in region[v].flag /\ a < region[v].st + PageSize THEN -2
              ELSE IF write THEN (IF "WRITE" \in region[v].flag THEN 0 ELSE -3)
              ELSE IF present \/ region[v].flag \cap {"READ", "EXEC"} = {} THEN -2 ELSE 0
      BY <3>1 DEF PgFault
    <3>3. a >= region[v].st + PageSize <=> ~(a < region[v].st + PageSize)
      BY <2>0, <3>1
    <3>4. -2 # 0 /\ -3 # 0
      OBVIOUS
    <3> QED BY <3>2, <3>3, <3>4
  <2>2. ASSUME served PROVE \E v \in Areas : Inside(v, a) \/ a = region[v].ed
    <3>1. FindVma(a) # NULL /\ ~(region[FindVma(a)].st > a)
      BY <2>2 DEF PgFault
    <3>2. PICK i \in 1 .. Len(vma_set) : FindVma(a) = vma_set[i] /\ region[vma_set[i]].ed >= a
      BY <2>0, <3>1, FindVmaIs
    <3> QED BY <2>0, <3>1, <3>2 DEF Inside
  <2> QED BY <2>1, <2>2
<1> QED BY <1>1, VInvCorrect, PTL
=============================================================================
