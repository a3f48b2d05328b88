---------------------------- MODULE BuddyProofs ----------------------------
(***************************************************************************)
(* Theorems about Buddy, for every pool size and every set of requests.    *)
(*                                                                         *)
(* Part 1 is about the numbering of the tree.  Part 2 proves, for any mix  *)
(* of request sizes, that the walk and the recomputation stay inside the   *)
(* array and that no node claims more than it stands for.  Part 3 takes    *)
(* requests that all round up to one size and proves that no two blocks    *)
(* handed out overlap.                                                     *)
(***************************************************************************)
EXTENDS Buddy, NatFacts

-----------------------------------------------------------------------------
(* Part 1: powers of two and the numbering of the nodes.                   *)

LEMMA Pow2Positive == \A k \in 0 .. MaxOrder : Pow2[k] \in Nat \ {0}
<1> DEFINE S == {k \in 0 .. MaxOrder : Pow2[k] \in Nat \ {0}}
<1>1. 0 \in S
  BY LevelAssumption, Pow2Assumption
<1>2. \A k \in 0 .. MaxOrder - 1 : k \in S => k + 1 \in S
  <2> SUFFICES ASSUME NEW k \in 0 .. MaxOrder - 1, k \in S PROVE k + 1 \in S
    OBVIOUS
  <2>1. Pow2[k + 1] = 2 * Pow2[k] /\ Pow2[k] \in Nat \ {0} /\ k + 1 \in 0 .. MaxOrder
    BY LevelAssumption, Pow2Assumption
  <2> QED BY <2>1
<1>3. \A k \in 0 .. MaxOrder : k \in S
  <2> HIDE DEF S
  <2> QED BY <1>1, <1>2, IntervalInduction, LevelAssumption
<1> QED BY <1>3

\* Powers of two are strictly increasing, doubling at least.
LEMMA Pow2Doubles ==
    ASSUME NEW j \in 0 .. MaxOrder, NEW k \in 0 .. MaxOrder, j < k
    PROVE  2 * Pow2[j] <= Pow2[k]
<1> DEFINE S == {i \in j + 1 .. MaxOrder : 2 * Pow2[j] <= Pow2[i]}
<1>1. j + 1 \in S
  BY LevelAssumption, Pow2Assumption, Pow2Positive
<1>2. \A i \in j + 1 .. MaxOrder - 1 : i \in S => i + 1 \in S
  <2> SUFFICES ASSUME NEW i \in j + 1 .. MaxOrder - 1, i \in S PROVE i + 1 \in S
    OBVIOUS
  <2>1. Pow2[i + 1] = 2 * Pow2[i] /\ Pow2[i] \in Nat /\ Pow2[j] \in Nat
        /\ i + 1 \in j + 1 .. MaxOrder
    BY LevelAssumption, Pow2Assumption
  <2> QED BY <2>1
<1>3. \A i \in j + 1 .. MaxOrder : i \in S
  <2> HIDE DEF S
  <2> QED BY <1>1, <1>2, IntervalInduction, LevelAssumption
<1> QED BY <1>3, LevelAssumption

\* Order is next_pow_of_2 and size2level together: the least power of two
\* that is not smaller than the request.
LEMMA OrderRounds ==
    ASSUME NEW n \in Requests
    PROVE  Order(n) \in 0 .. MaxOrder /\ RoundsTo(n, Order(n))
<1> DEFINE T == {k \in 0 .. MaxOrder : n <= Pow2[k]}
<1>1. T \subseteq Nat /\ MaxOrder \in T
  BY LevelAssumption, RequestAssumption
<1>2. PICK k \in T : \A y \in T : k <= y
  <2> HIDE DEF T
  <2> QED BY <1>1, LeastNat
<1>3. k > 0 => Pow2[k - 1] < n
  <2> SUFFICES ASSUME k > 0 PROVE Pow2[k - 1] < n
    OBVIOUS
  <2>1. k - 1 \in 0 .. MaxOrder /\ k - 1 \notin T
    BY <1>2, LevelAssumption
  <2>2. Pow2[k - 1] \in Nat /\ n \in Nat
    BY <2>1, Pow2Assumption, RequestAssumption
  <2> QED BY <2>1, <2>2
<1>4. RoundsTo(n, k)
  BY <1>2, <1>3 DEF RoundsTo
<1> QED BY <1>4 DEF Order

LEMMA RoundedPositive ==
    ASSUME NEW n \in Requests
    PROVE  Rounded(n) \in Nat \ {0} /\ Rounded(n) \in PowersOfTwo
BY OrderRounds, Pow2Positive DEF Rounded, PowersOfTwo

\* Node numbers: how many there are, and where each depth lies.
LEMMA TreeShape ==
    /\ Level \in 1 .. MaxOrder
    /\ Pow2[Level] \in Nat \ {0}
    /\ 2 <= Pow2[Level]
    /\ 0 \in Node /\ 0 \in Inner
    /\ Inner \subseteq Node
    /\ \A d \in 0 .. Level : Pow2[d] \in Nat \ {0} /\ Pow2[d] <= Pow2[Level]
    /\ \A d \in 0 .. Level - 1 : Pow2[d + 1] = 2 * Pow2[d]
<1>1. Level \in 1 .. MaxOrder
  BY LevelAssumption
<1>2. \A d \in 0 .. Level : Pow2[d] \in Nat \ {0}
  BY <1>1, Pow2Positive, LevelAssumption
<1>3. ASSUME NEW d \in 0 .. Level PROVE Pow2[d] <= Pow2[Level]
  <2>1. CASE d = Level
    BY <1>2, <2>1
  <2>2. CASE d < Level
    <3>1. 2 * Pow2[d] <= Pow2[Level]
      BY <1>1, <2>2, Pow2Doubles, LevelAssumption
    <3> QED BY <1>1, <1>2, <3>1
  <2> QED BY <1>1, <2>1, <2>2
<1>4. 2 <= Pow2[Level]
  BY <1>1, Pow2Doubles, Pow2Assumption, LevelAssumption
<1>5. \A d \in 0 .. Level - 1 : Pow2[d + 1] = 2 * Pow2[d]
  BY <1>1, Pow2Assumption, LevelAssumption
<1> QED BY <1>1, <1>2, <1>3, <1>4, <1>5 DEF Node, Inner

\* AtDepth partitions the nodes, and IndexLevel (index2level in buddy.c) finds
\* the part.
LEMMA DepthExists ==
    ASSUME NEW i \in Node
    PROVE  \E d \in 0 .. Level : i \in AtDepth(d)
<1> DEFINE T == {d \in 0 .. Level : i <= 2 * Pow2[d] - 2}
<1>1. T \subseteq Nat /\ Level \in T
  BY TreeShape DEF Node
<1>2. PICK d \in T : \A y \in T : d <= y
  <2> HIDE DEF T
  <2> QED BY <1>1, LeastNat
<1>3. d \in 0 .. Level /\ i \in Nat
  BY TreeShape DEF Node
<1>4. CASE d = 0
  <2>1. i = 0
    BY <1>2, <1>3, <1>4, Pow2Assumption
  <2>2. i \in AtDepth(0)
    BY <2>1, Pow2Assumption DEF AtDepth
  <2> QED BY <1>3, <1>4, <2>2
<1>5. CASE d > 0
  <2>1. d - 1 \in 0 .. Level - 1 /\ d - 1 \notin T
    BY <1>2, <1>3, <1>5, TreeShape
  <2>2. Pow2[d] = 2 * Pow2[d - 1] /\ Pow2[d - 1] \in Nat
    BY <2>1, <1>3, TreeShape
  <2>3. i > 2 * Pow2[d - 1] - 2
    BY <2>1, <2>2, <1>3, TreeShape
  <2>4. i \in AtDepth(d)
    BY <1>2, <1>3, <2>2, <2>3 DEF AtDepth
  <2> QED BY <1>3, <2>4
<1> QED BY <1>3, <1>4, <1>5

LEMMA DepthUnique ==
    ASSUME NEW d \in 0 .. Level, NEW e \in 0 .. Level, NEW i,
           i \in AtDepth(d), i \in AtDepth(e)
    PROVE  d = e
<1>1. Pow2[d] \in Nat /\ Pow2[e] \in Nat /\ i \in Int
  BY TreeShape DEF AtDepth
<1>2. ASSUME NEW a \in 0 .. Level, NEW b \in 0 .. Level, a < b,
             i \in AtDepth(a), i \in AtDepth(b)
      PROVE  FALSE
  <2>1. 2 * Pow2[a] <= Pow2[b]
    BY <1>2, TreeShape, Pow2Doubles, LevelAssumption
  <2>2. i <= 2 * Pow2[a] - 2 /\ i >= Pow2[b] - 1 /\ Pow2[a] \in Nat /\ Pow2[b] \in Nat
    BY <1>2, TreeShape DEF AtDepth
  <2> QED BY <1>1, <2>1, <2>2
<1> QED BY <1>2, TreeShape

LEMMA IndexLevelIs ==
    ASSUME NEW i \in Node
    PROVE  IndexLevel(i) \in 0 .. Level /\ i \in AtDepth(IndexLevel(i))
BY DepthExists DEF IndexLevel

LEMMA IndexLevelAt ==
    ASSUME NEW d \in 0 .. Level, NEW i \in AtDepth(d)
    PROVE  i \in Node /\ IndexLevel(i) = d
<1>1. i \in Node
  BY TreeShape DEF AtDepth, Node
<1> QED BY <1>1, IndexLevelIs, DepthUnique

\* Children are one level down, parents one level up.
LEMMA ChildDepth ==
    ASSUME NEW d \in 0 .. Level - 1, NEW i \in AtDepth(d)
    PROVE  /\ i \in Inner
           /\ d + 1 \in 0 .. Level
           /\ Left(i) \in AtDepth(d + 1) /\ Right(i) \in AtDepth(d + 1)
           /\ Left(i) \in Node /\ Right(i) \in Node
           /\ Left(i) # Right(i)
           /\ Parent(Left(i)) = i /\ Parent(Right(i)) = i
<1>1. /\ d + 1 \in 0 .. Level /\ Pow2[d + 1] = 2 * Pow2[d]
      /\ Pow2[d] \in Nat \ {0} /\ 2 * Pow2[d] <= Pow2[Level] /\ Pow2[Level] \in Nat
  BY TreeShape
<1>2. i \in Nat /\ Pow2[d] - 1 <= i /\ i <= 2 * Pow2[d] - 2
  BY <1>1 DEF AtDepth
<1>3. i \in Inner
  BY <1>1, <1>2 DEF Inner
<1>4. Left(i) \in AtDepth(d + 1) /\ Right(i) \in AtDepth(d + 1)
  BY <1>1, <1>2 DEF AtDepth, Left, Right
<1>5. Left(i) \in Node /\ Right(i) \in Node
  BY <1>1, <1>4, IndexLevelAt
<1>6. Parent(Left(i)) = i /\ Parent(Right(i)) = i /\ Left(i) # Right(i)
  BY <1>2 DEF Parent, Left, Right
<1> QED BY <1>1, <1>3, <1>4, <1>5, <1>6

LEMMA InnerDepth ==
    ASSUME NEW i \in Inner
    PROVE  \E d \in 0 .. Level - 1 : i \in AtDepth(d)
<1>1. PICK d \in 0 .. Level : i \in AtDepth(d)
  BY TreeShape, DepthExists
<1>2. d # Level
  BY <1>1, TreeShape DEF AtDepth, Inner
<1> QED BY <1>1, <1>2, TreeShape

LEMMA InnerChildren ==
    ASSUME NEW i \in Inner
    PROVE  /\ Left(i) \in Node /\ Right(i) \in Node
           /\ Left(i) # Right(i) /\ Left(i) # i /\ Right(i) # i
           /\ i \in Node
<1>1. i \in Nat /\ i <= Pow2[Level] - 2 /\ Pow2[Level] \in Nat
  BY TreeShape DEF Inner
<1> QED BY <1>1 DEF Left, Right, Node

LEMMA ParentDepth ==
    ASSUME NEW d \in 1 .. Level, NEW i \in AtDepth(d)
    PROVE  /\ Parent(i) \in AtDepth(d - 1) /\ d - 1 \in 0 .. Level - 1
           /\ Parent(i) \in Inner
           /\ i = Left(Parent(i)) \/ i = Right(Parent(i))
<1>1. /\ d - 1 \in 0 .. Level - 1 /\ Pow2[d] = 2 * Pow2[d - 1]
      /\ Pow2[d - 1] \in Nat \ {0}
  BY TreeShape
<1>2. i \in Nat /\ Pow2[d] - 1 <= i /\ i <= 2 * Pow2[d] - 2
  BY <1>1 DEF AtDepth
<1>3. Parent(i) \in AtDepth(d - 1)
  BY <1>1, <1>2 DEF AtDepth, Parent
<1>4. i = Left(Parent(i)) \/ i = Right(Parent(i))
  BY <1>1, <1>2 DEF Parent, Left, Right
<1> QED BY <1>1, <1>3, <1>4, ChildDepth

LEMMA ParentInner ==
    ASSUME NEW i \in Node, i # 0
    PROVE  /\ Parent(i) \in Inner
           /\ i = Left(Parent(i)) \/ i = Right(Parent(i))
<1>1. PICK d \in 0 .. Level : i \in AtDepth(d)
  BY DepthExists
<1>2. d # 0
  BY <1>1, Pow2Assumption DEF AtDepth
<1> QED BY <1>1, <1>2, ParentDepth, TreeShape

\* A run of Pow2[k] pages fits Pow2[Level - k] times into the pool.
LEMMA Pow2Product == \A k \in 0 .. Level : Pow2[k] * Pow2[Level - k] = Pow2[Level]
<1> DEFINE S == {k \in 0 .. Level : Pow2[k] * Pow2[Level - k] = Pow2[Level]}
<1>1. 0 \in S
  BY TreeShape, Pow2Assumption, LevelAssumption
<1>2. \A k \in 0 .. Level - 1 : k \in S => k + 1 \in S
  <2> SUFFICES ASSUME NEW k \in 0 .. Level - 1, k \in S PROVE k + 1 \in S
    OBVIOUS
  <2> DEFINE a == Pow2[k]
             b == Pow2[Level - (k + 1)]
  <2>1. a \in Nat /\ b \in Nat /\ Pow2[k + 1] = 2 * a
    BY TreeShape, LevelAssumption
  <2>2. Pow2[Level - k] = 2 * b
    <3>1. Level - (k + 1) \in 0 .. Level - 1 /\ (Level - (k + 1)) + 1 = Level - k
      BY LevelAssumption
    <3> QED BY <3>1, TreeShape
  <2>3. a * (2 * b) = Pow2[Level]
    BY <2>2
  <2>4. (2 * a) * b = a * (2 * b)
    <3> HIDE DEF a, b
    <3> QED BY <2>1, SMT
  <2>5. Pow2[k + 1] * Pow2[Level - (k + 1)] = Pow2[Level]
    BY <2>1, <2>3, <2>4
  <2> QED BY <2>5, LevelAssumption
<1>3. \A k \in 0 .. Level : k \in S
  <2> HIDE DEF S
  <2> QED BY <1>1, <1>2, IntervalInduction, LevelAssumption
<1> QED BY <1>3

\* The page index of a node is a page of the pool.
LEMMA PageOfNode ==
    ASSUME NEW d \in 0 .. Level, NEW i \in AtDepth(d)
    PROVE  /\ PageOf(i) = Pow2[Level - d] * (i - Pow2[d] + 1)
           /\ PageOf(i) \in Pages
<1>1. PageOf(i) = Pow2[Level - d] * (i - Pow2[d] + 1)
  BY IndexLevelAt DEF PageOf, NodeSize
<1> DEFINE a == Pow2[Level - d]
           b == Pow2[d]
           off == i - b + 1
<1>2. a \in Nat \ {0} /\ b \in Nat \ {0} /\ off \in 0 .. b - 1
  BY TreeShape, LevelAssumption DEF AtDepth
<1>3. b * a = Pow2[Level] /\ Pow2[Level] \in Nat
  BY Pow2Product, TreeShape
<1>4. a * off \in 0 .. b * a - 1
  <2> HIDE DEF a, b, off
  <2>1. a * off \in Nat
    BY <1>2, SMT
  <2>2. a * off <= a * (b - 1)
    BY <1>2, SMT
  <2>3. a * (b - 1) = b * a - a
    BY <1>2, SMT
  <2>4. b * a \in Nat
    BY <1>2, SMT
  <2> QED BY <1>2, <2>1, <2>2, <2>3, <2>4
<1> QED BY <1>1, <1>3, <1>4 DEF Pages

\* The node a block is freed at lies at the depth of the block's size.
LEMMA NodeOfBlock ==
    ASSUME NEW b \in Block, Order(b.n) <= Level
    PROVE  /\ Level - Order(b.n) \in 0 .. Level
           /\ NodeOf(b.page, b.n) \in AtDepth(Level - Order(b.n))
           /\ NodeOf(b.page, b.n) \in Node
<1> DEFINE k == Order(b.n)
           d == Level - k
<1>1. b.page \in Pages /\ b.n \in Requests
  BY DEF Block
<1>2. k \in 0 .. Level /\ d \in 0 .. Level
  BY <1>1, OrderRounds, LevelAssumption
<1> HIDE DEF k
<1>3. Pow2[k] \in Nat \ {0} /\ Pow2[d] \in Nat \ {0} /\ Pow2[k] * Pow2[d] = Pow2[Level]
  BY <1>2, TreeShape, Pow2Product
<1>4. b.page \in Nat /\ b.page < Pow2[k] * Pow2[d]
  BY <1>1, <1>3, TreeShape DEF Pages
<1>5. b.page \div Pow2[k] \in 0 .. Pow2[d] - 1
  BY <1>3, <1>4, DivBound
<1>6. NodeOf(b.page, b.n) = Pow2[d] - 1 + (b.page \div Pow2[k])
  BY DEF NodeOf, Rounded, k
<1>7. NodeOf(b.page, b.n) \in AtDepth(d)
  BY <1>3, <1>5, <1>6 DEF AtDepth
<1> QED BY <1>2, <1>7, IndexLevelAt DEF k

-----------------------------------------------------------------------------
(* Part 2: any mix of request sizes.                                       *)

\* What a call in progress knows.  The walk is at depth clevel, or it is at a
\* node it can no longer leave, neither child having room; and a block is only
\* ever handed out for a request that fits the pool.
WalkInv == pc = "find" =>
               \/ clevel \in 0 .. Level /\ index \in AtDepth(clevel)
               \/ /\ index \in Inner
                  /\ elem[Left(index)] < Rounded(req)
                  /\ elem[Right(index)] < Rounded(req)

FitInv == /\ pc = "fixAlloc" => Order(req) <= Level
          /\ \A b \in Block : held[b] > 0 => Order(b.n) <= Level

IInv == TypeOK /\ SizesFit /\ WalkInv /\ FitInv

\* Merging two children that fit gives a value that fits.
LEMMA MergeFits ==
    ASSUME elem \in [Node -> {0} \cup PowersOfTwo], SizesFit,
           NEW d \in 0 .. Level - 1, NEW i \in AtDepth(d)
    PROVE  /\ Merge(elem[Left(i)], elem[Right(i)]) \in {0} \cup PowersOfTwo
           /\ Merge(elem[Left(i)], elem[Right(i)]) <= NodeSize(d)
<1> DEFINE l == elem[Left(i)]
           r == elem[Right(i)]
           e == Level - (d + 1)
<1>1. /\ Left(i) \in Node /\ Right(i) \in Node /\ d + 1 \in 0 .. Level
      /\ Left(i) \in AtDepth(d + 1) /\ Right(i) \in AtDepth(d + 1)
  BY ChildDepth
<1>2. e \in 0 .. Level - 1 /\ e + 1 = Level - d /\ e + 1 \in 0 .. MaxOrder /\ e \in 0 .. MaxOrder
  BY LevelAssumption
<1>3. Pow2[e + 1] = 2 * Pow2[e] /\ Pow2[e] \in Nat \ {0}
  BY <1>2, TreeShape
<1>4. l <= Pow2[e] /\ r <= Pow2[e]
  BY <1>1 DEF SizesFit, NodeSize
<1>5. l \in {0} \cup PowersOfTwo /\ r \in {0} \cup PowersOfTwo
  BY <1>1
<1>6. PowersOfTwo \subseteq Nat
  BY Pow2Positive DEF PowersOfTwo
<1> HIDE DEF l, r
<1>7. CASE l # r
  <2>1. Merge(l, r) \in {l, r}
    BY <1>7 DEF Merge
  <2>2. Merge(l, r) \in {0} \cup PowersOfTwo
    BY <2>1, <1>5
  <2>3. l \in Nat /\ r \in Nat
    BY <1>5, <1>6
  <2>4. Merge(l, r) <= Pow2[e + 1]
    BY <2>1, <2>3, <1>3, <1>4
  <2> QED BY <2>2, <2>4, <1>2 DEF NodeSize, l, r
<1>8. CASE l = r /\ l = 0
  BY <1>2, <1>3, <1>8 DEF Merge, NodeSize, l, r
<1>9. CASE l = r /\ l # 0
  <2>1. PICK k \in 0 .. MaxOrder : l = Pow2[k]
    BY <1>5, <1>9 DEF PowersOfTwo
  <2>2. ~ (e < k)
    <3> SUFFICES ASSUME e < k PROVE FALSE
      OBVIOUS
    <3>1. 2 * Pow2[e] <= Pow2[k]
      BY <1>2, Pow2Doubles
    <3> QED BY <3>1, <2>1, <1>3, <1>4, Pow2Positive
  <2>3. k \in 0 .. MaxOrder - 1 /\ k + 1 \in 0 .. MaxOrder
    BY <2>2, <1>2, LevelAssumption
  <2>4. Merge(l, r) = Pow2[k + 1]
    BY <1>9, <2>1, <2>3, Pow2Assumption DEF Merge
  <2>5. Merge(l, r) = 2 * l
    BY <1>9 DEF Merge
  <2>6. Merge(l, r) <= Pow2[e + 1]
    BY <2>5, <1>3, <1>4, <1>5, <1>6
  <2> QED BY <2>3, <2>4, <2>6, <1>2 DEF PowersOfTwo, NodeSize, l, r
<1> QED BY <1>7, <1>8, <1>9

LEMMA RootDepth == 0 \in AtDepth(0) /\ 0 \in 0 .. Level /\ \A i \in AtDepth(0) : i = 0
BY Pow2Assumption, LevelAssumption DEF AtDepth

LEMMA InitIInv == Init => IInv
<1> SUFFICES ASSUME Init PROVE IInv
  OBVIOUS
<1>1. ASSUME NEW d \in 0 .. Level, NEW i \in AtDepth(d)
      PROVE  elem[i] = NodeSize(d) /\ NodeSize(d) \in PowersOfTwo
  <2>1. i \in Node /\ IndexLevel(i) = d
    BY <1>1, IndexLevelAt
  <2>2. Level - d \in 0 .. MaxOrder
    BY LevelAssumption
  <2> QED BY <2>1, <2>2 DEF Init, FullTree, NodeSize, PowersOfTwo
<1>2. elem \in [Node -> {0} \cup PowersOfTwo]
  <2>1. elem = [i \in Node |-> NodeSize(IndexLevel(i))]
    BY DEF Init, FullTree
  <2>2. ASSUME NEW i \in Node PROVE NodeSize(IndexLevel(i)) \in PowersOfTwo
    <3>1. IndexLevel(i) \in 0 .. Level /\ i \in AtDepth(IndexLevel(i))
      BY IndexLevelIs
    <3> QED BY <3>1, <1>1
  <2> QED BY <2>1, <2>2
<1>3. TypeOK
  BY <1>2, TreeShape, LevelAssumption DEF Init, TypeOK, PCs
<1>4. SizesFit
  <2>1. \A d \in 0 .. Level : NodeSize(d) \in Nat
    <3> TAKE d \in 0 .. Level
    <3> QED BY <1>1, TreeShape, LevelAssumption DEF NodeSize
  <2> QED BY <1>1, <2>1 DEF SizesFit
<1>5. WalkInv /\ FitInv
  BY DEF Init, WalkInv, FitInv
<1> QED BY <1>3, <1>4, <1>5 DEF IInv

\* Writing a fitting value to one node keeps the array typed and fitting.
LEMMA UpdateFits ==
    ASSUME elem \in [Node -> {0} \cup PowersOfTwo], SizesFit,
           NEW d \in 0 .. Level, NEW i \in AtDepth(d),
           NEW v \in {0} \cup PowersOfTwo, v <= NodeSize(d),
           elem' = [elem EXCEPT ![i] = v]
    PROVE  elem' \in [Node -> {0} \cup PowersOfTwo] /\ SizesFit'
<1>1. elem' \in [Node -> {0} \cup PowersOfTwo]
  OBVIOUS
<1>2. ASSUME NEW e \in 0 .. Level, NEW j \in AtDepth(e)
      PROVE  elem'[j] <= NodeSize(e)
  <2>1. j \in Node /\ i \in Node
    BY IndexLevelAt
  <2>2. CASE j = i
    <3>1. e = d
      BY <2>2, DepthUnique
    <3> QED BY <2>1, <2>2, <3>1
  <2>3. CASE j # i
    BY <2>1, <2>3 DEF SizesFit
  <2> QED BY <2>2, <2>3
<1> QED BY <1>1, <1>2 DEF SizesFit

\* find_buddy_slot only goes on below a node that has children: a leaf with
\* room for the request is the slot looked for.
LEMMA DescendInner ==
    ASSUME IInv, Descend
    PROVE  /\ index \in Inner
           /\ \/ clevel \in 0 .. Level - 1 /\ index \in AtDepth(clevel)
              \/ /\ elem[Left(index)] < Rounded(req)
                 /\ elem[Right(index)] < Rounded(req)
<1> USE DEF IInv
<1>1. pc = "find" /\ req \in Requests /\ index \in Node
      /\ elem \in [Node -> {0} \cup PowersOfTwo]
  BY DEF Descend, TypeOK
<1>2. CASE /\ index \in Inner
           /\ elem[Left(index)] < Rounded(req)
           /\ elem[Right(index)] < Rounded(req)
  BY <1>2
<1>3. CASE clevel \in 0 .. Level /\ index \in AtDepth(clevel)
  <2>1. ASSUME clevel = Level PROVE FALSE
    <3>1. elem[index] <= 1
      <4>1. NodeSize(Level) = 1
        BY Pow2Assumption, LevelAssumption DEF NodeSize
      <4> QED BY <1>3, <2>1, <4>1 DEF SizesFit
    <3>2. Order(req) \in 0 .. MaxOrder /\ Rounded(req) \in Nat \ {0} /\ Rounded(req) = Pow2[Order(req)]
      BY <1>1, OrderRounds, RoundedPositive DEF Rounded
    <3>3. elem[index] \in Nat
      BY <1>1, Pow2Positive DEF PowersOfTwo
    <3>4. elem[index] = 1 /\ Rounded(req) = 1
      BY <3>1, <3>2, <3>3 DEF Descend
    <3>5. Order(req) = 0
      <4>1. ASSUME Order(req) > 0 PROVE FALSE
        <5>1. 2 * Pow2[0] <= Pow2[Order(req)]
          BY <3>2, <4>1, Pow2Doubles, LevelAssumption
        <5> QED BY <5>1, <3>2, <3>4, Pow2Assumption
      <4> QED BY <3>2, <4>1
    <3>6. ProperSlot
      BY <2>1, <3>4, <3>5, LevelAssumption DEF ProperSlot
    <3> QED BY <3>6 DEF Descend
  <2>2. clevel \in 0 .. Level - 1
    BY <1>3, <2>1, LevelAssumption
  <2> QED BY <1>3, <2>2, ChildDepth
<1> QED BY <1>1, <1>2, <1>3 DEF WalkInv

LEMMA AllocIInv == ASSUME IInv, NEW n \in Requests, Alloc(n) PROVE IInv'
<1> USE DEF IInv
<1>1. TypeOK'
  <2>1. n # 0
    BY RequestAssumption
  <2> QED BY <2>1, TreeShape, LevelAssumption DEF Alloc, TypeOK, PCs
<1>2. SizesFit'
  BY DEF Alloc, SizesFit
<1>3. WalkInv'
  BY RootDepth DEF Alloc, WalkInv
<1> QED BY <1>1, <1>2, <1>3 DEF Alloc, FitInv

LEMMA FindTakeIInv == ASSUME IInv, FindTake PROVE IInv'
<1> USE DEF IInv
<1>1. index \in Node /\ req \in Requests /\ elem' = [elem EXCEPT ![index] = 0]
  BY DEF FindTake, TypeOK
<1>2. PICK d \in 0 .. Level : index \in AtDepth(d)
  BY <1>1, DepthExists
<1>3. 0 <= NodeSize(d)
  BY TreeShape, LevelAssumption DEF NodeSize
<1>4. elem' \in [Node -> {0} \cup PowersOfTwo] /\ SizesFit'
  BY <1>1, <1>2, <1>3, UpdateFits DEF TypeOK
<1>5. Order(req) <= Level
  <2>1. clevel \in Int /\ clevel >= 0 /\ Order(req) \in Nat /\ clevel = Level - Order(req)
    BY <1>1, OrderRounds, LevelAssumption DEF FindTake, ProperSlot, TypeOK
  <2> QED BY <2>1, LevelAssumption
<1>6. CASE index = 0
  <2>1. TypeOK'
    BY <1>4, <1>6, TreeShape, LevelAssumption DEF FindTake, Fix, Return, TypeOK, PCs
  <2> QED BY <1>4, <1>6, <2>1 DEF FindTake, Fix, Return, WalkInv, FitInv
<1>7. CASE index # 0
  <2>1. Parent(index) \in Inner
    BY <1>1, <1>7, ParentInner
  <2>2. TypeOK'
    BY <1>4, <1>7, <2>1 DEF FindTake, Fix, TypeOK, PCs
  <2> QED BY <1>4, <1>5, <1>7, <2>2 DEF FindTake, Fix, WalkInv, FitInv
<1> QED BY <1>6, <1>7

LEMMA DescendIInv ==
    ASSUME IInv, FindLeft \/ FindRight \/ FindStay
    PROVE  IInv'
<1> USE DEF IInv
<1>1. Descend
  BY DEF FindLeft, FindRight, FindStay
<1>2. /\ index \in Inner
      /\ \/ clevel \in 0 .. Level - 1 /\ index \in AtDepth(clevel)
         \/ /\ elem[Left(index)] < Rounded(req)
            /\ elem[Right(index)] < Rounded(req)
  BY <1>1, DescendInner
<1>3. /\ index \in Node /\ Left(index) \in Node /\ Right(index) \in Node
  BY <1>2, InnerChildren
<1>4. /\ elem' = elem /\ held' = held /\ pc' = pc /\ req' = req /\ parent' = parent
      /\ pc = "find" /\ req \in Requests
  BY <1>1 DEF Descend, TypeOK
<1>5. clevel' \in 0 .. Level + 1
  BY <1>1, LevelAssumption DEF Descend, TypeOK
<1>6. TypeOK'
  <2>1. index' \in Node
    BY <1>3 DEF FindLeft, FindRight, FindStay
  <2> QED BY <1>4, <1>5, <2>1 DEF TypeOK
<1>7. SizesFit' /\ FitInv'
  BY <1>4 DEF SizesFit, FitInv
<1>8. WalkInv'
  <2>1. CASE FindStay
    BY <1>2, <1>4, <2>1 DEF FindStay, WalkInv
  <2>2. CASE FindLeft \/ FindRight
    <3>1. Rounded(req) \in Nat /\ elem[Left(index)] \in Nat /\ elem[Right(index)] \in Nat
      BY <1>3, <1>4, RoundedPositive, Pow2Positive DEF TypeOK, PowersOfTwo
    <3>2. clevel \in 0 .. Level - 1 /\ index \in AtDepth(clevel)
      BY <1>2, <2>2, <3>1 DEF FindLeft, FindRight
    <3>3. clevel' = clevel + 1 /\ clevel' \in 0 .. Level
      BY <1>1, <3>2, LevelAssumption DEF Descend
    <3>4. index' \in AtDepth(clevel')
      BY <2>2, <3>2, <3>3, ChildDepth DEF FindLeft, FindRight
    <3> QED BY <3>3, <3>4 DEF WalkInv
  <2> QED BY <2>1, <2>2
<1> QED BY <1>6, <1>7, <1>8

LEMMA ReturnIInv ==
    ASSUME IInv, Return, elem' \in [Node -> {0} \cup PowersOfTwo], SizesFit',
           held' \in [Block -> Nat],
           \A b \in Block : held'[b] > 0 => Order(b.n) <= Level
    PROVE  IInv'
<1>1. TypeOK'
  BY TreeShape, LevelAssumption DEF Return, TypeOK, PCs
<1> QED BY <1>1 DEF Return, IInv, WalkInv, FitInv

LEMMA FreeIInv ==
    ASSUME IInv, NEW b \in Block, FreeMarks(b) \/ FreeIgnored(b) \/ FreePanics(b)
    PROVE  IInv'
<1> USE DEF IInv
<1>1. /\ pc = "idle" /\ held[b] > 0 /\ Order(b.n) <= Level
      /\ held \in [Block -> Nat] /\ b.n \in Requests
  BY DEF FreeMarks, FreeIgnored, FreePanics, MayFree, FitInv, TypeOK, Block
<1> DEFINE i == NodeOf(b.page, b.n)
           d == Level - Order(b.n)
<1>2. d \in 0 .. Level /\ i \in AtDepth(d) /\ i \in Node
  BY <1>1, NodeOfBlock
<1>3. ASSUME held' = [held EXCEPT ![b] = @ - 1]
      PROVE  /\ held' \in [Block -> Nat]
             /\ \A c \in Block : held'[c] > 0 => Order(c.n) <= Level
  <2>1. held[b] - 1 \in Nat
    BY <1>1
  <2>2. held' \in [Block -> Nat]
    BY <1>1, <1>3, <2>1
  <2>3. \A c \in Block : c # b => held'[c] = held[c]
    BY <1>1, <1>3
  <2> QED BY <1>1, <2>2, <2>3 DEF FitInv
<1>4. CASE FreeMarks(b)
  <2>1. elem' = [elem EXCEPT ![i] = Rounded(b.n)] /\ held' = [held EXCEPT ![b] = @ - 1]
    BY <1>4 DEF FreeMarks
  <2>2. Rounded(b.n) \in {0} \cup PowersOfTwo /\ Rounded(b.n) \in Nat
    BY <1>1, RoundedPositive
  <2>3. Rounded(b.n) <= NodeSize(d)
    <3>1. Level - d = Order(b.n)
      BY <1>1, OrderRounds, LevelAssumption
    <3>2. NodeSize(d) = Rounded(b.n)
      BY <3>1 DEF NodeSize, Rounded
    <3> QED BY <3>2, <2>2
  <2>4. elem' \in [Node -> {0} \cup PowersOfTwo] /\ SizesFit'
    <3> HIDE DEF i, d
    <3> QED BY <1>2, <2>1, <2>2, <2>3, UpdateFits DEF TypeOK
  <2>5. CASE i = 0
    BY <1>3, <1>4, <2>1, <2>4, <2>5, ReturnIInv DEF FreeMarks, Fix
  <2>6. CASE i # 0
    <3>1. Parent(i) \in Inner
      BY <1>2, <2>6, ParentInner
    <3>2. TypeOK'
      BY <1>1, <1>3, <1>4, <2>1, <2>4, <2>6, <3>1 DEF FreeMarks, Fix, TypeOK, PCs
    <3> QED BY <1>3, <1>4, <2>1, <2>4, <2>6, <3>2 DEF FreeMarks, Fix, WalkInv, FitInv
  <2> QED BY <2>5, <2>6
<1>5. CASE FreeIgnored(b)
  <2>1. TypeOK'
    BY <1>1, <1>3, <1>5 DEF FreeIgnored, TypeOK
  <2> QED BY <1>1, <1>3, <1>5, <2>1 DEF FreeIgnored, SizesFit, WalkInv, FitInv
<1>6. CASE FreePanics(b)
  <2>1. TypeOK'
    BY <1>1, <1>6 DEF FreePanics, TypeOK, PCs
  <2> QED BY <1>1, <1>6, <2>1 DEF FreePanics, SizesFit, WalkInv, FitInv
<1> QED BY <1>4, <1>5, <1>6

\* The recomputation of one node.
LEMMA RecomputeFits ==
    ASSUME IInv, Recompute
    PROVE  elem' \in [Node -> {0} \cup PowersOfTwo] /\ SizesFit'
<1>1. parent \in Inner /\ elem \in [Node -> {0} \cup PowersOfTwo] /\ SizesFit
  BY DEF IInv, TypeOK
<1>2. PICK d \in 0 .. Level - 1 : parent \in AtDepth(d)
  BY <1>1, InnerDepth
<1>3. d \in 0 .. Level
  BY <1>2, LevelAssumption
<1>4. /\ Merge(elem[Left(parent)], elem[Right(parent)]) \in {0} \cup PowersOfTwo
      /\ Merge(elem[Left(parent)], elem[Right(parent)]) <= NodeSize(d)
  BY <1>1, <1>2, MergeFits
<1> QED BY <1>1, <1>2, <1>3, <1>4, UpdateFits DEF Recompute

LEMMA FixIInv ==
    ASSUME IInv, FixInner \/ FixRootAlloc \/ FixRootFree
    PROVE  IInv'
<1> USE DEF IInv
<1>1. elem' \in [Node -> {0} \cup PowersOfTwo] /\ SizesFit'
  BY RecomputeFits DEF FixInner, FixRootAlloc, FixRootFree
<1>2. CASE FixInner
  <2>1. parent \in Node /\ parent # 0
    BY <1>2, TreeShape DEF FixInner, TypeOK
  <2>2. Parent(parent) \in Inner
    BY <2>1, ParentInner
  <2>3. TypeOK'
    BY <1>1, <1>2, <2>2 DEF FixInner, TypeOK
  <2> QED BY <1>1, <1>2, <2>3 DEF FixInner, WalkInv, FitInv
<1>3. CASE FixRootAlloc
  <2> DEFINE b == [page |-> PageOf(index), n |-> req]
  <2>1. index \in Node /\ req \in Requests /\ Order(req) <= Level
    BY <1>3 DEF FixRootAlloc, TypeOK, FitInv
  <2>2. PageOf(index) \in Pages
    BY <2>1, DepthExists, PageOfNode
  <2>3. b \in Block /\ b.n = req
    BY <2>1, <2>2 DEF Block
  <2>4. held \in [Block -> Nat] /\ held' = [held EXCEPT ![b] = @ + 1]
    BY <1>3 DEF FixRootAlloc, TypeOK
  <2> HIDE DEF b
  <2>5. held' \in [Block -> Nat]
    <3>1. held[b] + 1 \in Nat
      BY <2>3, <2>4
    <3> QED BY <2>4, <3>1
  <2>6. \A c \in Block : held'[c] > 0 => Order(c.n) <= Level
    <3>1. \A c \in Block : c # b => held'[c] = held[c]
      BY <2>4
    <3> QED BY <2>1, <2>3, <3>1 DEF FitInv
  <2> QED BY <1>1, <1>3, <2>5, <2>6, ReturnIInv DEF FixRootAlloc
<1>4. CASE FixRootFree
  BY <1>1, <1>4, ReturnIInv DEF FixRootFree, TypeOK, FitInv
<1> QED BY <1>2, <1>3, <1>4

LEMMA NextIInv == IInv /\ [Next]_vars => IInv'
<1> SUFFICES ASSUME IInv, [Next]_vars PROVE IInv'
  OBVIOUS
<1>1. ASSUME NEW n \in Requests, Alloc(n) PROVE IInv'
  BY <1>1, AllocIInv
<1>2. ASSUME NEW b \in Block, FreeMarks(b) \/ FreeIgnored(b) \/ FreePanics(b)
      PROVE  IInv'
  BY <1>2, FreeIInv
<1>3. CASE FindTake
  BY <1>3, FindTakeIInv
<1>4. CASE FindLeft \/ FindRight \/ FindStay
  BY <1>4, DescendIInv
<1>5. CASE FindFail
  BY <1>5, ReturnIInv DEF FindFail, IInv, TypeOK, SizesFit, FitInv
<1>6. CASE FixInner \/ FixRootAlloc \/ FixRootFree
  BY <1>6, FixIInv
<1>7. CASE UNCHANGED vars
  BY <1>7 DEF vars, IInv, TypeOK, SizesFit, WalkInv, FitInv
<1> QED BY <1>1, <1>2, <1>3, <1>4, <1>5, <1>6, <1>7 DEF Next, Step

\* Whatever sizes the callers mix and in whatever order they free, the walk
\* and the recomputation only ever index nodes of bd->buff (a leaf's children
\* are never read), and the nodes hold 0 or powers of two.
THEOREM TypeCorrect == Spec => []TypeOK
<1>1. IInv => TypeOK
  BY DEF IInv
<1> QED BY InitIInv, NextIInv, <1>1, PTL DEF Spec

\* In the same generality, no node ever claims more pages than it stands for.
THEOREM SizesFitCorrect == Spec => []SizesFit
<1>1. IInv => SizesFit
  BY DEF IInv
<1> QED BY InitIInv, NextIInv, <1>1, PTL DEF Spec

-----------------------------------------------------------------------------
(***************************************************************************)
(* Part 3: every request rounds up to the same size, 2^T pages, smaller    *)
(* than the pool.  No two blocks handed out overlap, the tree is           *)
(* consistent, the ASSERT of buddy_free never fires, and the pool is whole *)
(* again when everything has come back.                                    *)
(*                                                                         *)
(* The nodes at depth Level - T are the slots: each is 0 or whole, and it  *)
(* is 0 exactly when some caller holds its pages or is about to.  Above    *)
(* the slots every node is the merge of its children, except the one that  *)
(* is about to be recomputed; below them nothing ever changes.             *)
(***************************************************************************)

Uniform(T) == /\ T \in 0 .. Level - 1
              /\ \A n \in Requests : Order(n) = T

Slots(T) == AtDepth(Level - T)
Slot(b)  == NodeOf(b.page, b.n)
HeldBlocks == {b \in Block : held[b] > 0}

SlotInv(T) ==
    /\ \A i \in Slots(T) : elem[i] \in {0, Pow2[T]}
    /\ \A d \in Level - T + 1 .. Level : \A i \in AtDepth(d) : elem[i] = NodeSize(d)

AboveInv(T) ==
    \A d \in 0 .. Level - T - 1 : \A i \in AtDepth(d) :
        /\ elem[i] = 0 \/ elem[i] >= Pow2[T]
        /\ ~(Fixing /\ i = parent) => elem[i] = Merge(elem[Left(i)], elem[Right(i)])

CallInv(T) ==
    /\ pc # "panic"
    /\ pc = "find" => /\ clevel \in 0 .. Level - T
                      /\ index \in AtDepth(clevel)
                      /\ clevel = 0 \/ elem[index] >= Pow2[T]
    /\ pc = "fixAlloc" => index \in Slots(T) /\ elem[index] = 0
    /\ Fixing => \E d \in 0 .. Level - T - 1 : parent \in AtDepth(d)

HeldInv(T) ==
    /\ \A b \in HeldBlocks : /\ held[b] = 1
                             /\ elem[Slot(b)] = 0
                             /\ b.page = PageOf(Slot(b))
                             /\ pc = "fixAlloc" => index # Slot(b)
    /\ \A b, c \in HeldBlocks : b # c => Slot(b) # Slot(c)
    /\ \A i \in Slots(T) : elem[i] = 0 => \/ pc = "fixAlloc" /\ index = i
                                          \/ \E b \in HeldBlocks : Slot(b) = i

UInv(T) == TypeOK /\ SlotInv(T) /\ AboveInv(T) /\ CallInv(T) /\ HeldInv(T)

-----------------------------------------------------------------------------
LEMMA UniformFacts ==
    ASSUME NEW T, Uniform(T)
    PROVE  /\ Level - T \in 1 .. Level /\ Level - T \in 0 .. Level /\ T \in 0 .. MaxOrder
           /\ Level - (Level - T) = T
           /\ Pow2[T] \in Nat \ {0}
           /\ \A n \in Requests : Rounded(n) = Pow2[T] /\ Order(n) = T
           /\ \A b \in Block : Slot(b) \in Slots(T)
           /\ Slots(T) \subseteq Node
<1>1. /\ Level - T \in 1 .. Level /\ Level - T \in 0 .. Level /\ T \in 0 .. MaxOrder
      /\ Level - (Level - T) = T /\ T <= Level
  BY LevelAssumption DEF Uniform
<1>2. \A n \in Requests : Rounded(n) = Pow2[T] /\ Order(n) = T
  BY DEF Uniform, Rounded
<1>3. \A b \in Block : Slot(b) \in Slots(T)
  <2> TAKE b \in Block
  <2>1. Order(b.n) = T
    BY <1>2 DEF Block
  <2> QED BY <1>1, <2>1, NodeOfBlock DEF Slot, Slots
<1>4. Slots(T) \subseteq Node
  BY <1>1, IndexLevelAt DEF Slots
<1> QED BY <1>1, <1>2, <1>3, <1>4, Pow2Positive

\* A slot's page index leads back to the slot.
LEMMA SlotOfPage ==
    ASSUME NEW T, Uniform(T), NEW i \in Slots(T), NEW n \in Requests
    PROVE  /\ [page |-> PageOf(i), n |-> n] \in Block
           /\ Slot([page |-> PageOf(i), n |-> n]) = i
<1> DEFINE D == Level - T
           off == i - Pow2[D] + 1
<1>1. /\ D \in 0 .. Level /\ Level - D = T /\ Order(n) = T /\ Rounded(n) = Pow2[T]
      /\ Pow2[T] \in Nat \ {0} /\ i \in AtDepth(D)
  BY UniformFacts DEF Slots
<1>2. PageOf(i) = Pow2[T] * off /\ PageOf(i) \in Pages
  BY <1>1, PageOfNode
<1>3. off \in Nat
  BY <1>1, TreeShape DEF AtDepth
<1>4. PageOf(i) \div Pow2[T] = off
  BY <1>1, <1>2, <1>3, DivMultiple
<1>5. NodeOf(PageOf(i), n) = Pow2[D] - 1 + off
  BY <1>1, <1>4 DEF NodeOf
<1>6. Pow2[D] - 1 + off = i
  BY <1>1, TreeShape DEF AtDepth
<1> QED BY <1>2, <1>5, <1>6 DEF Block, Slot

\* Different slots stand for disjoint runs of pages.
LEMMA SlotsDisjoint ==
    ASSUME NEW T, Uniform(T), NEW i \in Slots(T), NEW j \in Slots(T), i # j
    PROVE  (PageOf(i) .. PageOf(i) + Pow2[T] - 1) \cap (PageOf(j) .. PageOf(j) + Pow2[T] - 1) = {}
<1> DEFINE D == Level - T
           R == Pow2[T]
           x == i - Pow2[D] + 1
           y == j - Pow2[D] + 1
<1>1. /\ D \in 0 .. Level /\ Level - D = T /\ R \in Nat \ {0}
      /\ i \in AtDepth(D) /\ j \in AtDepth(D)
  BY UniformFacts DEF Slots
<1>2. PageOf(i) = R * x /\ PageOf(j) = R * y
  BY <1>1, PageOfNode
<1>3. x \in Nat /\ y \in Nat /\ x # y
  BY <1>1, TreeShape DEF AtDepth
<1> HIDE DEF x, y, R, D
<1>4. ASSUME NEW u \in Nat, NEW v \in Nat, u < v
      PROVE  R * u + R <= R * v /\ R * u \in Nat /\ R * v \in Nat
  <2>1. R * (u + 1) <= R * v
    BY <1>1, <1>4, SMT
  <2>2. R * (u + 1) = R * u + R /\ R * u \in Nat /\ R * v \in Nat
    BY <1>1, SMT
  <2> QED BY <2>1, <2>2
<1>5. R * x \in Nat /\ R * y \in Nat /\ (R * x + R <= R * y \/ R * y + R <= R * x)
  BY <1>3, <1>4
<1>6. (R * x .. R * x + R - 1) \cap (R * y .. R * y + R - 1) = {}
  BY <1>1, <1>5
<1> QED BY <1>2, <1>6 DEF R

\* Merging keeps "nothing, or at least one slot" and loses nothing.
LEMMA MergeRoom ==
    ASSUME NEW R \in Nat \ {0}, NEW l \in Nat, NEW r \in Nat,
           l = 0 \/ l >= R, r = 0 \/ r >= R
    PROVE  /\ Merge(l, r) = 0 \/ Merge(l, r) >= R
           /\ Merge(l, r) >= R => l >= R \/ r >= R
BY DEF Merge

\* The children of a node above the slots hold nothing or at least one slot.
LEMMA RoomAbove ==
    ASSUME NEW T, Uniform(T), TypeOK, SlotInv(T), AboveInv(T),
           NEW d \in 0 .. Level - T - 1, NEW i \in AtDepth(d)
    PROVE  /\ elem[Left(i)] \in Nat /\ elem[Right(i)] \in Nat
           /\ elem[Left(i)] = 0 \/ elem[Left(i)] >= Pow2[T]
           /\ elem[Right(i)] = 0 \/ elem[Right(i)] >= Pow2[T]
<1>1. d \in 0 .. Level - 1
  BY UniformFacts, LevelAssumption
<1>2. /\ Left(i) \in AtDepth(d + 1) /\ Right(i) \in AtDepth(d + 1)
      /\ Left(i) \in Node /\ Right(i) \in Node
  BY <1>1, ChildDepth
<1>3. elem[Left(i)] \in Nat /\ elem[Right(i)] \in Nat
  BY <1>2, Pow2Positive DEF TypeOK, PowersOfTwo
<1>4. CASE d + 1 = Level - T
  BY <1>2, <1>3, <1>4, UniformFacts DEF SlotInv, Slots
<1>5. CASE d + 1 \in 0 .. Level - T - 1
  BY <1>2, <1>3, <1>5 DEF AboveInv
<1>6. d + 1 = Level - T \/ d + 1 \in 0 .. Level - T - 1
  BY UniformFacts, LevelAssumption
<1> QED BY <1>3, <1>4, <1>5, <1>6

-----------------------------------------------------------------------------
LEMMA InitUInv == ASSUME NEW T, Uniform(T), Init PROVE UInv(T)
<1>1. TypeOK
  BY InitIInv DEF IInv
<1>2. ASSUME NEW d \in 0 .. Level, NEW i \in AtDepth(d)
      PROVE  elem[i] = Pow2[Level - d] /\ NodeSize(d) = Pow2[Level - d]
  BY IndexLevelAt DEF Init, FullTree, NodeSize
<1>3. SlotInv(T)
  <2>1. \A i \in Slots(T) : elem[i] = Pow2[T]
    BY <1>2, UniformFacts DEF Slots
  <2>2. \A d \in Level - T + 1 .. Level : d \in 0 .. Level
    BY UniformFacts, LevelAssumption
  <2> QED BY <1>2, <2>1, <2>2 DEF SlotInv
<1>4. ASSUME NEW d \in 0 .. Level - T - 1, NEW i \in AtDepth(d)
      PROVE  /\ elem[i] >= Pow2[T]
             /\ elem[i] = Merge(elem[Left(i)], elem[Right(i)])
  <2>1. /\ d \in 0 .. Level - 1 /\ d \in 0 .. Level /\ d + 1 \in 0 .. Level
        /\ Level - d \in 0 .. MaxOrder /\ T < Level - d
        /\ Level - d = (Level - (d + 1)) + 1 /\ Level - (d + 1) \in 0 .. Level - 1
    BY UniformFacts, LevelAssumption
  <2>2. elem[i] = Pow2[Level - d]
    BY <1>2, <2>1
  <2>3. Left(i) \in AtDepth(d + 1) /\ Right(i) \in AtDepth(d + 1)
    BY <2>1, ChildDepth
  <2>4. elem[Left(i)] = Pow2[Level - (d + 1)] /\ elem[Right(i)] = Pow2[Level - (d + 1)]
    BY <1>2, <2>1, <2>3
  <2>5. Pow2[Level - d] = 2 * Pow2[Level - (d + 1)]
    BY <2>1, TreeShape
  <2>6. 2 * Pow2[T] <= Pow2[Level - d] /\ Pow2[T] \in Nat /\ Pow2[Level - d] \in Nat
    BY <2>1, UniformFacts, Pow2Doubles, Pow2Positive
  <2> QED BY <2>2, <2>4, <2>5, <2>6 DEF Merge
<1>5. AboveInv(T)
  BY <1>4 DEF AboveInv
<1>6. CallInv(T)
  BY DEF Init, CallInv, Fixing
<1>7. HeldInv(T)
  <2>1. HeldBlocks = {}
    BY DEF Init, HeldBlocks
  <2>2. \A i \in Slots(T) : elem[i] # 0
    BY <1>2, UniformFacts DEF Slots
  <2> QED BY <2>1, <2>2 DEF HeldInv
<1> QED BY <1>1, <1>3, <1>5, <1>6, <1>7 DEF UInv

-----------------------------------------------------------------------------
\* The walk always finds room below a node that claims room.
LEMMA WalkOn ==
    ASSUME NEW T, Uniform(T), UInv(T), Descend
    PROVE  /\ req \in Requests /\ Rounded(req) = Pow2[T]
           /\ clevel \in 0 .. Level - T - 1 /\ index \in AtDepth(clevel)
           /\ elem[Left(index)] >= Pow2[T] \/ elem[Right(index)] >= Pow2[T]
<1> USE DEF UInv
<1>1. /\ pc = "find" /\ req \in Requests /\ Rounded(req) = Pow2[T] /\ Order(req) = T
      /\ clevel \in 0 .. Level - T /\ index \in AtDepth(clevel)
      /\ elem[index] >= Pow2[T] /\ ~ProperSlot
  BY UniformFacts DEF Descend, TypeOK, CallInv
<1>2. clevel # Level - T
  <2> SUFFICES ASSUME clevel = Level - T PROVE FALSE
    OBVIOUS
  <2>1. elem[index] = Pow2[T]
    BY <1>1, UniformFacts DEF SlotInv, Slots
  <2> QED BY <1>1, <2>1 DEF ProperSlot
<1>3. clevel \in 0 .. Level - T - 1
  BY <1>1, <1>2, UniformFacts, LevelAssumption
<1>4. elem[index] = Merge(elem[Left(index)], elem[Right(index)])
  BY <1>1, <1>3 DEF AboveInv, Fixing
<1>5. elem[Left(index)] >= Pow2[T] \/ elem[Right(index)] >= Pow2[T]
  BY <1>1, <1>3, <1>4, RoomAbove, MergeRoom, UniformFacts
<1> QED BY <1>1, <1>3, <1>5

\* A step that leaves the tree and the blocks alone, and is not part of an
\* allocation's recomputation, need only keep CallInv.
LEMMA QuietStep ==
    ASSUME NEW T, Uniform(T), UInv(T), TypeOK', CallInv(T)',
           elem' = elem, held' = held,
           pc \in {"idle", "find"}, pc' \in {"idle", "find"}
    PROVE  UInv(T)'
<1>1. ~Fixing /\ ~Fixing'
  BY DEF Fixing
<1>2. SlotInv(T)'
  BY DEF UInv, SlotInv
<1>3. AboveInv(T)'
  BY <1>1 DEF UInv, AboveInv
<1>4. HeldInv(T)'
  BY DEF UInv, HeldInv, HeldBlocks, Slot
<1> QED BY <1>2, <1>3, <1>4 DEF UInv

LEMMA AllocUInv ==
    ASSUME NEW T, Uniform(T), UInv(T), TypeOK', NEW n \in Requests, Alloc(n)
    PROVE  UInv(T)'
<1>1. CallInv(T)'
  <2>1. 0 \in 0 .. Level - T
    BY UniformFacts
  <2> QED BY <2>1, RootDepth DEF Alloc, CallInv, Fixing
<1> QED BY <1>1, QuietStep DEF Alloc

LEMMA WalkUInv ==
    ASSUME NEW T, Uniform(T), UInv(T), TypeOK',
           FindLeft \/ FindRight \/ FindStay
    PROVE  UInv(T)'
<1>1. Descend
  BY DEF FindLeft, FindRight, FindStay
<1>2. /\ req \in Requests /\ Rounded(req) = Pow2[T]
      /\ clevel \in 0 .. Level - T - 1 /\ index \in AtDepth(clevel)
      /\ elem[Left(index)] >= Pow2[T] \/ elem[Right(index)] >= Pow2[T]
  BY <1>1, WalkOn
<1>3. elem[Left(index)] \in Nat /\ elem[Right(index)] \in Nat /\ Pow2[T] \in Nat
  BY <1>2, RoomAbove, UniformFacts DEF UInv
<1>4. FindLeft \/ FindRight
  BY <1>2, <1>3 DEF FindStay
<1>5. clevel \in 0 .. Level - 1 /\ clevel + 1 \in 0 .. Level - T /\ clevel' = clevel + 1
  BY <1>1, <1>2, UniformFacts, LevelAssumption DEF Descend
<1>6. index' \in AtDepth(clevel + 1)
  BY <1>2, <1>4, <1>5, ChildDepth DEF FindLeft, FindRight
<1>7. CallInv(T)'
  <2>1. elem'[index'] >= Pow2[T]
    BY <1>1, <1>2, <1>4 DEF Descend, FindLeft, FindRight
  <2> QED BY <1>1, <1>5, <1>6, <2>1 DEF Descend, CallInv, Fixing
<1> QED BY <1>1, <1>7, QuietStep DEF Descend

LEMMA FindFailUInv ==
    ASSUME NEW T, Uniform(T), UInv(T), TypeOK', FindFail
    PROVE  UInv(T)'
<1>1. CallInv(T)'
  BY DEF FindFail, Return, CallInv, Fixing
<1> QED BY <1>1, QuietStep DEF FindFail, Return

\* Writing 0 or a whole slot to a slot, with its parent next to be recomputed,
\* disturbs neither the other slots nor the nodes above them.
LEMMA SlotWrite ==
    ASSUME NEW T, Uniform(T), UInv(T), pc \in {"idle", "find"},
           NEW i \in Slots(T), NEW v \in {0, Pow2[T]},
           elem' = [elem EXCEPT ![i] = v],
           pc' \in {"fixAlloc", "fixFree"}, parent' = Parent(i)
    PROVE  /\ SlotInv(T)' /\ AboveInv(T)'
           /\ \E d \in 0 .. Level - T - 1 : parent' \in AtDepth(d)
           /\ \A j \in Slots(T) : j # i => elem'[j] = elem[j]
           /\ elem'[i] = v
<1> DEFINE D == Level - T
<1>1. /\ D \in 1 .. Level /\ D \in 0 .. Level /\ i \in AtDepth(D)
      /\ elem \in [Node -> {0} \cup PowersOfTwo] /\ i \in Node
  BY UniformFacts DEF Slots, UInv, TypeOK
<1>2. \A j \in Node : elem'[j] = IF j = i THEN v ELSE elem[j]
  BY <1>1
<1>3. ASSUME NEW d \in 0 .. Level, d # D, NEW j \in AtDepth(d)
      PROVE  elem'[j] = elem[j] /\ j \in Node
  BY <1>1, <1>2, <1>3, IndexLevelAt, DepthUnique
<1>4. SlotInv(T)'
  <2>1. \A j \in Slots(T) : elem'[j] \in {0, Pow2[T]}
    BY <1>2, UniformFacts DEF UInv, SlotInv
  <2>2. ASSUME NEW d \in D + 1 .. Level, NEW j \in AtDepth(d)
        PROVE  elem'[j] = NodeSize(d)
    <3>1. d \in 0 .. Level /\ d # D
      BY <1>1, LevelAssumption
    <3> QED BY <1>3, <3>1 DEF UInv, SlotInv
  <2> QED BY <2>1, <2>2 DEF SlotInv
<1>5. AboveInv(T)'
  <2> SUFFICES ASSUME NEW d \in 0 .. Level - T - 1, NEW j \in AtDepth(d)
               PROVE  /\ elem'[j] = 0 \/ elem'[j] >= Pow2[T]
                      /\ j # parent' => elem'[j] = Merge(elem'[Left(j)], elem'[Right(j)])
    BY DEF AboveInv, Fixing
  <2>1. d \in 0 .. Level /\ d # D /\ d \in 0 .. Level - 1
    BY <1>1, LevelAssumption
  <2>2. elem'[j] = elem[j]
    BY <1>3, <2>1
  <2>3. /\ elem[j] = 0 \/ elem[j] >= Pow2[T]
        /\ elem[j] = Merge(elem[Left(j)], elem[Right(j)])
    BY DEF UInv, AboveInv, Fixing
  <2>4. ASSUME j # parent' PROVE elem'[j] = Merge(elem'[Left(j)], elem'[Right(j)])
    <3>1. /\ Left(j) \in Node /\ Right(j) \in Node
          /\ Parent(Left(j)) = j /\ Parent(Right(j)) = j
      BY <2>1, ChildDepth
    <3>2. Left(j) # i /\ Right(j) # i
      BY <2>4, <3>1
    <3> QED BY <1>2, <2>2, <2>3, <3>1, <3>2
  <2> QED BY <2>2, <2>3, <2>4
<1>6. \E d \in 0 .. Level - T - 1 : parent' \in AtDepth(d)
  <2>1. Parent(i) \in AtDepth(D - 1) /\ D - 1 \in 0 .. Level - T - 1
    BY <1>1, ParentDepth
  <2> QED BY <2>1
<1> QED BY <1>2, <1>4, <1>5, <1>6, UniformFacts

LEMMA FindTakeUInv ==
    ASSUME NEW T, Uniform(T), UInv(T), TypeOK', FindTake
    PROVE  UInv(T)'
<1>1. /\ pc = "find" /\ req \in Requests /\ Order(req) = T /\ clevel = Level - T
      /\ index \in Slots(T) /\ elem[index] = Pow2[T]
      /\ elem' = [elem EXCEPT ![index] = 0] /\ held' = held
  BY UniformFacts DEF FindTake, ProperSlot, UInv, TypeOK, CallInv, Slots
<1>2. index # 0
  BY <1>1, RootDepth, DepthUnique, UniformFacts DEF Slots
<1>3. pc' = "fixAlloc" /\ parent' = Parent(index) /\ index' = index
  BY <1>2 DEF FindTake, Fix
<1>4. /\ SlotInv(T)' /\ AboveInv(T)'
      /\ \E d \in 0 .. Level - T - 1 : parent' \in AtDepth(d)
      /\ \A j \in Slots(T) : j # index => elem'[j] = elem[j]
      /\ elem'[index] = 0
  BY <1>1, <1>3, SlotWrite
<1>5. CallInv(T)'
  BY <1>1, <1>3, <1>4 DEF CallInv
<1>6. HeldInv(T)'
  <2>1. HeldBlocks' = HeldBlocks /\ HeldBlocks \subseteq Block
    BY <1>1 DEF HeldBlocks
  <2>2. \A b \in HeldBlocks : Slot(b) # index
    BY <1>1, UniformFacts DEF UInv, HeldInv
  <2>3. \A b \in HeldBlocks : elem'[Slot(b)] = elem[Slot(b)]
    BY <2>1, <2>2, <1>4, UniformFacts
  <2>4. \A b \in HeldBlocks : /\ held'[b] = 1 /\ elem'[Slot(b)] = 0
                              /\ b.page = PageOf(Slot(b)) /\ index' # Slot(b)
    BY <1>1, <1>3, <2>2, <2>3 DEF UInv, HeldInv
  <2>5. \A i \in Slots(T) : elem'[i] = 0 => index' = i \/ \E b \in HeldBlocks : Slot(b) = i
    BY <1>1, <1>3, <1>4 DEF UInv, HeldInv
  <2>6. \A b, c \in HeldBlocks : b # c => Slot(b) # Slot(c)
    BY DEF UInv, HeldInv
  <2> QED BY <1>3, <2>1, <2>4, <2>5, <2>6 DEF HeldInv
<1> QED BY <1>4, <1>5, <1>6 DEF UInv

LEMMA FreeUInv ==
    ASSUME NEW T, Uniform(T), UInv(T), TypeOK', NEW b \in Block,
           FreeMarks(b) \/ FreeIgnored(b) \/ FreePanics(b)
    PROVE  UInv(T)'
<1>1. /\ pc = "idle" /\ b \in HeldBlocks /\ Rounded(b.n) = Pow2[T] /\ Pow2[T] \in Nat \ {0}
      /\ held \in [Block -> Nat]
  BY UniformFacts DEF FreeMarks, FreeIgnored, FreePanics, MayFree, HeldBlocks, Block, UInv, TypeOK
<1>2. /\ elem[Slot(b)] = 0 /\ held[b] = 1 /\ Slot(b) \in Slots(T)
  BY <1>1, UniformFacts DEF UInv, HeldInv
<1>3. FreeMarks(b)
  BY <1>1, <1>2 DEF FreeIgnored, FreePanics, Slot
<1>4. Slot(b) # 0
  BY <1>2, RootDepth, DepthUnique, UniformFacts DEF Slots
<1>5. /\ elem' = [elem EXCEPT ![Slot(b)] = Pow2[T]] /\ held' = [held EXCEPT ![b] = @ - 1]
      /\ pc' = "fixFree" /\ parent' = Parent(Slot(b))
  BY <1>1, <1>3, <1>4 DEF FreeMarks, Fix, Slot
<1>6. /\ SlotInv(T)' /\ AboveInv(T)'
      /\ \E d \in 0 .. Level - T - 1 : parent' \in AtDepth(d)
      /\ \A j \in Slots(T) : j # Slot(b) => elem'[j] = elem[j]
      /\ elem'[Slot(b)] = Pow2[T]
  BY <1>1, <1>2, <1>5, SlotWrite
<1>7. CallInv(T)'
  BY <1>5, <1>6 DEF CallInv
<1>8. HeldInv(T)'
  <2>1. \A c \in Block : held'[c] = IF c = b THEN 0 ELSE held[c]
    BY <1>1, <1>2, <1>5
  <2>2. HeldBlocks' = HeldBlocks \ {b}
    BY <2>1 DEF HeldBlocks
  <2>3. \A c \in HeldBlocks : c # b => Slot(c) # Slot(b) /\ Slot(c) \in Slots(T)
    BY <1>1, UniformFacts DEF UInv, HeldInv, HeldBlocks
  <2>4. \A c \in HeldBlocks' : /\ held'[c] = 1 /\ elem'[Slot(c)] = 0
                               /\ c.page = PageOf(Slot(c))
    BY <1>6, <2>1, <2>2, <2>3 DEF UInv, HeldInv, HeldBlocks
  <2>5. ASSUME NEW i \in Slots(T), elem'[i] = 0 PROVE \E c \in HeldBlocks' : Slot(c) = i
    <3>1. i # Slot(b)
      BY <1>1, <1>6, <2>5
    <3>2. elem[i] = 0
      BY <1>6, <2>5, <3>1
    <3>3. PICK c \in HeldBlocks : Slot(c) = i
      BY <1>1, <3>2 DEF UInv, HeldInv
    <3> QED BY <2>2, <3>1, <3>3
  <2>6. \A c, e \in HeldBlocks' : c # e => Slot(c) # Slot(e)
    BY <2>2 DEF UInv, HeldInv
  <2> QED BY <1>5, <2>4, <2>5, <2>6 DEF HeldInv, Slot
<1> QED BY <1>6, <1>7, <1>8 DEF UInv

\* Recomputing the node above leaves the slots alone, and moves the exception
\* of AboveInv to its parent.
LEMMA RecomputeUp ==
    ASSUME NEW T, Uniform(T), UInv(T), Fixing, Recompute
    PROVE  /\ SlotInv(T)'
           /\ \A j \in Slots(T) : elem'[j] = elem[j]
           /\ \A d \in 0 .. Level - T - 1 : \A j \in AtDepth(d) :
                  /\ elem'[j] = 0 \/ elem'[j] >= Pow2[T]
                  /\ parent = 0 \/ j # Parent(parent)
                        => elem'[j] = Merge(elem'[Left(j)], elem'[Right(j)])
<1> DEFINE D == Level - T
           m == Merge(elem[Left(parent)], elem[Right(parent)])
<1>1. PICK e \in 0 .. D - 1 : parent \in AtDepth(e)
  BY DEF UInv, CallInv
<1>2. /\ e \in 0 .. Level - 1 /\ e \in 0 .. Level /\ D \in 0 .. Level /\ D \in 1 .. Level /\ e # D
  BY <1>1, UniformFacts, LevelAssumption
<1>3. /\ parent \in Node /\ parent # Left(parent) /\ parent # Right(parent)
      /\ elem \in [Node -> {0} \cup PowersOfTwo]
  BY <1>1, <1>2, ChildDepth, InnerChildren DEF UInv, TypeOK
<1>4. \A j \in Node : elem'[j] = IF j = parent THEN m ELSE elem[j]
  BY <1>3 DEF Recompute
<1> HIDE DEF m
<1>5. ASSUME NEW d \in 0 .. Level, d # e, NEW j \in AtDepth(d)
      PROVE  elem'[j] = elem[j]
  BY <1>1, <1>2, <1>4, <1>5, IndexLevelAt, DepthUnique
<1>6. \A j \in Slots(T) : elem'[j] = elem[j]
  BY <1>2, <1>5 DEF Slots
<1>7. SlotInv(T)'
  <2>1. \A j \in Slots(T) : elem'[j] \in {0, Pow2[T]}
    BY <1>6 DEF UInv, SlotInv
  <2>2. ASSUME NEW d \in D + 1 .. Level, NEW j \in AtDepth(d)
        PROVE  elem'[j] = NodeSize(d)
    <3>1. d \in 0 .. Level /\ d # e
      BY <1>1, <1>2, LevelAssumption
    <3> QED BY <1>5, <3>1 DEF UInv, SlotInv
  <2> QED BY <2>1, <2>2 DEF SlotInv
<1>8. m = 0 \/ m >= Pow2[T]
  BY <1>1, RoomAbove, MergeRoom, UniformFacts DEF UInv, m
<1>9. ASSUME NEW d \in 0 .. D - 1, NEW j \in AtDepth(d)
      PROVE  elem'[j] = 0 \/ elem'[j] >= Pow2[T]
  <2>1. j \in Node
    BY <1>2, IndexLevelAt, LevelAssumption
  <2> QED BY <1>4, <1>8, <2>1 DEF UInv, AboveInv
<1>10. ASSUME NEW d \in 0 .. D - 1, NEW j \in AtDepth(d),
              parent = 0 \/ j # Parent(parent)
       PROVE  elem'[j] = Merge(elem'[Left(j)], elem'[Right(j)])
  <2>1. d \in 0 .. Level - 1 /\ d \in 0 .. Level
    BY <1>2, LevelAssumption
  <2>2. /\ j \in Node /\ Left(j) \in Node /\ Right(j) \in Node
        /\ Parent(Left(j)) = j /\ Parent(Right(j)) = j
        /\ Left(j) # 0 /\ Right(j) # 0
    BY <2>1, ChildDepth, IndexLevelAt, TreeShape DEF Left, Right, Node
  <2>3. Left(j) # parent /\ Right(j) # parent
    BY <1>10, <2>2
  <2>4. elem'[Left(j)] = elem[Left(j)] /\ elem'[Right(j)] = elem[Right(j)]
    BY <1>4, <2>2, <2>3
  <2>5. CASE j = parent
    BY <1>4, <2>2, <2>4, <2>5 DEF m
  <2>6. CASE j # parent
    <3>1. elem[j] = Merge(elem[Left(j)], elem[Right(j)])
      BY <2>6 DEF UInv, AboveInv
    <3> QED BY <1>4, <2>2, <2>4, <2>6, <3>1
  <2> QED BY <2>5, <2>6
<1> QED BY <1>6, <1>7, <1>9, <1>10

LEMMA FixInnerUInv ==
    ASSUME NEW T, Uniform(T), UInv(T), TypeOK', FixInner
    PROVE  UInv(T)'
<1>1. /\ Fixing /\ Fixing' /\ pc' = pc /\ parent # 0 /\ Recompute
      /\ parent' = Parent(parent) /\ held' = held /\ index' = index
  BY DEF FixInner, Fixing
<1>2. /\ SlotInv(T)'
      /\ \A j \in Slots(T) : elem'[j] = elem[j]
      /\ \A d \in 0 .. Level - T - 1 : \A j \in AtDepth(d) :
             /\ elem'[j] = 0 \/ elem'[j] >= Pow2[T]
             /\ j # Parent(parent)
                   => elem'[j] = Merge(elem'[Left(j)], elem'[Right(j)])
  BY <1>1, RecomputeUp
<1>3. AboveInv(T)'
  BY <1>1, <1>2 DEF AboveInv
<1>4. PICK e \in 0 .. Level - T - 1 : parent \in AtDepth(e)
  BY <1>1 DEF UInv, CallInv
<1>5. e # 0
  BY <1>1, <1>4, RootDepth
<1>6. e \in 1 .. Level /\ e - 1 \in 0 .. Level - T - 1
  BY <1>4, <1>5, UniformFacts, LevelAssumption
<1>7. Parent(parent) \in AtDepth(e - 1)
  BY <1>4, <1>6, ParentDepth
<1>8. CallInv(T)'
  BY <1>1, <1>2, <1>6, <1>7 DEF UInv, CallInv, Fixing
<1>9. HeldInv(T)'
  <2>1. HeldBlocks' = HeldBlocks /\ \A b \in HeldBlocks : Slot(b) \in Slots(T)
    BY <1>1, UniformFacts DEF HeldBlocks
  <2>2. \A b \in HeldBlocks : /\ held'[b] = 1 /\ elem'[Slot(b)] = 0
                              /\ b.page = PageOf(Slot(b))
                              /\ pc' = "fixAlloc" => index' # Slot(b)
    BY <1>1, <1>2, <2>1 DEF UInv, HeldInv
  <2>3. \A i \in Slots(T) : elem'[i] = 0 => \/ pc' = "fixAlloc" /\ index' = i
                                            \/ \E b \in HeldBlocks : Slot(b) = i
    BY <1>1, <1>2 DEF UInv, HeldInv
  <2>4. \A b, c \in HeldBlocks : b # c => Slot(b) # Slot(c)
    BY DEF UInv, HeldInv
  <2> QED BY <2>1, <2>2, <2>3, <2>4 DEF HeldInv
<1> QED BY <1>2, <1>3, <1>8, <1>9 DEF UInv

\* The root: the call returns and no node is an exception any more.
LEMMA FixRootUp ==
    ASSUME NEW T, Uniform(T), UInv(T), Fixing, parent = 0, Recompute, Return
    PROVE  /\ SlotInv(T)' /\ AboveInv(T)' /\ CallInv(T)'
           /\ \A j \in Slots(T) : elem'[j] = elem[j]
<1>1. /\ SlotInv(T)'
      /\ \A j \in Slots(T) : elem'[j] = elem[j]
      /\ \A d \in 0 .. Level - T - 1 : \A j \in AtDepth(d) :
             /\ elem'[j] = 0 \/ elem'[j] >= Pow2[T]
             /\ elem'[j] = Merge(elem'[Left(j)], elem'[Right(j)])
  BY RecomputeUp
<1>2. AboveInv(T)'
  BY <1>1 DEF AboveInv
<1>3. CallInv(T)'
  BY DEF Return, CallInv, Fixing
<1> QED BY <1>1, <1>2, <1>3

LEMMA FixRootFreeUInv ==
    ASSUME NEW T, Uniform(T), UInv(T), TypeOK', FixRootFree
    PROVE  UInv(T)'
<1>1. /\ SlotInv(T)' /\ AboveInv(T)' /\ CallInv(T)'
      /\ \A j \in Slots(T) : elem'[j] = elem[j]
  BY FixRootUp DEF FixRootFree, Fixing
<1>2. HeldInv(T)'
  <2>1. /\ HeldBlocks' = HeldBlocks /\ held' = held
        /\ pc = "fixFree" /\ pc' = "idle"
    BY DEF FixRootFree, Return, HeldBlocks
  <2>2. \A b \in HeldBlocks : Slot(b) \in Slots(T)
    BY UniformFacts DEF HeldBlocks
  <2> QED BY <1>1, <2>1, <2>2 DEF UInv, HeldInv, Slot
<1> QED BY <1>1, <1>2 DEF UInv

LEMMA FixRootAllocUInv ==
    ASSUME NEW T, Uniform(T), UInv(T), TypeOK', FixRootAlloc
    PROVE  UInv(T)'
<1>1. /\ SlotInv(T)' /\ AboveInv(T)' /\ CallInv(T)'
      /\ \A j \in Slots(T) : elem'[j] = elem[j]
  BY FixRootUp DEF FixRootAlloc, Fixing
<1>2. /\ pc = "fixAlloc" /\ pc' = "idle" /\ req \in Requests /\ index \in Slots(T)
      /\ elem[index] = 0 /\ held \in [Block -> Nat]
  BY DEF FixRootAlloc, Return, UInv, CallInv, TypeOK
<1> DEFINE b == [page |-> PageOf(index), n |-> req]
<1>3. b \in Block /\ Slot(b) = index /\ b.page = PageOf(index)
  BY <1>2, SlotOfPage
<1>4. held' = [held EXCEPT ![b] = @ + 1]
  BY DEF FixRootAlloc
<1> HIDE DEF b
<1>5. b \notin HeldBlocks
  BY <1>2, <1>3 DEF UInv, HeldInv
<1>6. held[b] = 0
  BY <1>2, <1>3, <1>5 DEF HeldBlocks
<1>7. \A c \in Block : held'[c] = IF c = b THEN 1 ELSE held[c]
  BY <1>2, <1>4, <1>6
<1>8. HeldBlocks' = HeldBlocks \cup {b}
  BY <1>3, <1>7 DEF HeldBlocks
<1>9. \A c \in HeldBlocks : c # b /\ Slot(c) # index /\ Slot(c) \in Slots(T)
  BY <1>2, <1>5, UniformFacts DEF UInv, HeldInv, HeldBlocks
<1>10. HeldInv(T)'
  <2>1. \A c \in HeldBlocks' : /\ held'[c] = 1 /\ elem'[Slot(c)] = 0
                               /\ c.page = PageOf(Slot(c))
    <3>1. ASSUME NEW c \in HeldBlocks
          PROVE  held'[c] = 1 /\ elem'[Slot(c)] = 0 /\ c.page = PageOf(Slot(c))
      BY <1>1, <1>7, <1>9 DEF UInv, HeldInv, HeldBlocks
    <3>2. held'[b] = 1 /\ elem'[Slot(b)] = 0 /\ b.page = PageOf(Slot(b))
      BY <1>1, <1>2, <1>3, <1>7
    <3> QED BY <1>8, <3>1, <3>2
  <2>2. \A c, e \in HeldBlocks' : c # e => Slot(c) # Slot(e)
    BY <1>3, <1>8, <1>9 DEF UInv, HeldInv
  <2>3. ASSUME NEW i \in Slots(T), elem'[i] = 0 PROVE \E c \in HeldBlocks' : Slot(c) = i
    <3>1. i = index \/ \E c \in HeldBlocks : Slot(c) = i
      BY <1>1, <2>3 DEF UInv, HeldInv
    <3> QED BY <1>3, <1>8, <3>1
  <2> QED BY <1>2, <2>1, <2>2, <2>3 DEF HeldInv, Slot
<1> QED BY <1>1, <1>10 DEF UInv

LEMMA NextUInv ==
    ASSUME NEW T, Uniform(T), UInv(T), TypeOK', [Next]_vars
    PROVE  UInv(T)'
<1>1. ASSUME NEW n \in Requests, Alloc(n) PROVE UInv(T)'
  BY <1>1, AllocUInv
<1>2. ASSUME NEW b \in Block, FreeMarks(b) \/ FreeIgnored(b) \/ FreePanics(b)
      PROVE  UInv(T)'
  BY <1>2, FreeUInv
<1>3. CASE FindTake
  BY <1>3, FindTakeUInv
<1>4. CASE FindLeft \/ FindRight \/ FindStay
  BY <1>4, WalkUInv
<1>5. CASE FindFail
  BY <1>5, FindFailUInv
<1>6. CASE FixInner
  BY <1>6, FixInnerUInv
<1>7. CASE FixRootAlloc
  BY <1>7, FixRootAllocUInv
<1>8. CASE FixRootFree
  BY <1>8, FixRootFreeUInv
<1>9. CASE UNCHANGED vars
  <2>1. SlotInv(T)' /\ AboveInv(T)'
    BY <1>9 DEF vars, UInv, SlotInv, AboveInv, Fixing
  <2>2. CallInv(T)'
    BY <1>9 DEF vars, UInv, CallInv, Fixing
  <2>3. HeldInv(T)'
    BY <1>9 DEF vars, UInv, HeldInv, HeldBlocks, Slot
  <2> QED BY <2>1, <2>2, <2>3 DEF UInv
<1> QED BY <1>1, <1>2, <1>3, <1>4, <1>5, <1>6, <1>7, <1>8, <1>9 DEF Next, Step

LEMMA UniformInvariant == ASSUME NEW T, Uniform(T) PROVE Spec => [](IInv /\ UInv(T))
<1>1. Init => IInv /\ UInv(T)
  BY InitIInv, InitUInv
<1>2. IInv /\ UInv(T) /\ [Next]_vars => (IInv /\ UInv(T))'
  <2> SUFFICES ASSUME IInv, UInv(T), [Next]_vars PROVE IInv' /\ UInv(T)'
    OBVIOUS
  <2>1. IInv'
    BY NextIInv
  <2> QED BY <2>1, NextUInv DEF IInv
<1> QED BY <1>1, <1>2, PTL DEF Spec

-----------------------------------------------------------------------------
\* What the invariant says of the blocks.
LEMMA UInvNoOverlap == ASSUME NEW T, Uniform(T), UInv(T) PROVE NoOverlap
<1>1. \A b \in Block : held[b] <= 1
  <2> TAKE b \in Block
  <2>1. CASE held[b] > 0
    BY <2>1 DEF UInv, HeldInv, HeldBlocks
  <2>2. CASE ~(held[b] > 0)
    BY <2>2 DEF UInv, TypeOK
  <2> QED BY <2>1, <2>2
<1>2. ASSUME NEW b \in HeldBlocks, NEW c \in HeldBlocks, b # c
      PROVE  PagesOf(b) \cap PagesOf(c) = {}
  <2>1. Slot(b) # Slot(c) /\ b.page = PageOf(Slot(b)) /\ c.page = PageOf(Slot(c))
    BY <1>2 DEF UInv, HeldInv
  <2>2. /\ Slot(b) \in Slots(T) /\ Slot(c) \in Slots(T)
        /\ Rounded(b.n) = Pow2[T] /\ Rounded(c.n) = Pow2[T]
    BY UniformFacts DEF HeldBlocks, Block
  <2> QED BY <2>1, <2>2, SlotsDisjoint DEF PagesOf
<1> QED BY <1>1, <1>2 DEF NoOverlap, HeldBlocks

LEMMA UInvTreeConsistent == ASSUME NEW T, Uniform(T), UInv(T) PROVE TreeConsistent
<1> SUFFICES ASSUME NEW i \in Inner, ~(Fixing /\ i = parent)
             PROVE  elem[i] \in {0, Merge(elem[Left(i)], elem[Right(i)])}
  BY DEF TreeConsistent
<1>1. PICK d \in 0 .. Level - 1 : i \in AtDepth(d)
  BY InnerDepth
<1>2. CASE d \in 0 .. Level - T - 1
  BY <1>1, <1>2 DEF UInv, AboveInv
<1>3. CASE d \notin 0 .. Level - T - 1
  <2>1. /\ d + 1 \in Level - T + 1 .. Level /\ d \in Level - T .. Level
        /\ Level - d = (Level - (d + 1)) + 1 /\ Level - (d + 1) \in 0 .. Level - 1
    BY <1>1, <1>3, UniformFacts, LevelAssumption
  <2>2. Left(i) \in AtDepth(d + 1) /\ Right(i) \in AtDepth(d + 1)
    BY <1>1, ChildDepth
  <2>3. elem[Left(i)] = NodeSize(d + 1) /\ elem[Right(i)] = NodeSize(d + 1)
    BY <2>1, <2>2 DEF UInv, SlotInv
  <2>4. NodeSize(d) = 2 * NodeSize(d + 1)
    BY <2>1, TreeShape DEF NodeSize
  <2>5. elem[i] \in {0, NodeSize(d)}
    <3>1. CASE d = Level - T
      BY <1>1, <3>1, UniformFacts DEF UInv, SlotInv, Slots, NodeSize
    <3>2. CASE d # Level - T
      <4>1. d \in Level - T + 1 .. Level
        BY <2>1, <3>2, UniformFacts, LevelAssumption
      <4> QED BY <1>1, <4>1 DEF UInv, SlotInv
    <3> QED BY <3>1, <3>2
  <2> QED BY <2>3, <2>4, <2>5 DEF Merge
<1> QED BY <1>2, <1>3

LEMMA UInvCoalesced == ASSUME NEW T, Uniform(T), UInv(T) PROVE Coalesced
<1> SUFFICES ASSUME pc = "idle", \A b \in Block : held[b] = 0
             PROVE  elem = FullTree
  BY DEF Coalesced
<1> DEFINE D == Level - T
           S == {d \in 0 .. D : \A i \in AtDepth(d) : elem[i] = NodeSize(d)}
<1>1. D \in 0 .. Level /\ Level - D = T /\ D \in Nat /\ 0 \in Nat
  BY UniformFacts
<1>2. D \in S
  <2>1. HeldBlocks = {}
    BY DEF HeldBlocks
  <2>2. \A i \in Slots(T) : elem[i] = Pow2[T]
    BY <2>1 DEF UInv, SlotInv, HeldInv
  <2> QED BY <1>1, <2>2 DEF Slots, NodeSize
<1>3. ASSUME NEW d \in 0 + 1 .. D, d \in S PROVE d - 1 \in S
  <2>1. /\ d - 1 \in 0 .. Level - 1 /\ d - 1 \in 0 .. Level - T - 1 /\ (d - 1) + 1 = d
        /\ Level - (d - 1) = (Level - d) + 1 /\ Level - d \in 0 .. Level - 1
    BY <1>1, LevelAssumption
  <2>2. NodeSize(d - 1) = 2 * NodeSize(d)
    BY <2>1, TreeShape DEF NodeSize
  <2>3. ASSUME NEW i \in AtDepth(d - 1) PROVE elem[i] = NodeSize(d - 1)
    <3>1. Left(i) \in AtDepth(d) /\ Right(i) \in AtDepth(d)
      BY <2>1, ChildDepth
    <3>2. elem[Left(i)] = NodeSize(d) /\ elem[Right(i)] = NodeSize(d)
      BY <1>3, <3>1
    <3>3. elem[i] = Merge(elem[Left(i)], elem[Right(i)])
      BY <2>1 DEF UInv, AboveInv, Fixing
    <3> QED BY <2>2, <3>2, <3>3 DEF Merge
  <2>4. d - 1 \in 0 .. D
    BY <1>1
  <2> QED BY <2>3, <2>4
<1>4. \A d \in 0 .. D : d \in S
  <2> HIDE DEF S, D
  <2> QED BY <1>1, <1>2, <1>3, DownwardInduction
<1>5. ASSUME NEW i \in Node PROVE elem[i] = NodeSize(IndexLevel(i))
  <2>1. IndexLevel(i) \in 0 .. Level /\ i \in AtDepth(IndexLevel(i))
    BY IndexLevelIs
  <2>2. CASE IndexLevel(i) \in 0 .. D
    BY <1>4, <2>1, <2>2
  <2>3. CASE IndexLevel(i) \notin 0 .. D
    <3>1. IndexLevel(i) \in Level - T + 1 .. Level
      BY <2>1, <2>3, <1>1, LevelAssumption
    <3> QED BY <2>1, <3>1 DEF UInv, SlotInv
  <2> QED BY <2>2, <2>3
<1> QED BY <1>5 DEF UInv, TypeOK, FullTree

-----------------------------------------------------------------------------
\* For requests of one size (smaller than the pool), whatever the pool size and
\* the order of calls: two blocks handed out at the same time share no page.
THEOREM UniformNoOverlap ==
    ASSUME NEW T, Uniform(T) PROVE Spec => []NoOverlap
<1>1. IInv /\ UInv(T) => NoOverlap
  BY UInvNoOverlap
<1> QED BY <1>1, UniformInvariant, PTL

\* No early exit of fix_parent_buddy_size leaves a node stale.
THEOREM UniformTreeConsistent ==
    ASSUME NEW T, Uniform(T) PROVE Spec => []TreeConsistent
<1>1. IInv /\ UInv(T) => TreeConsistent
  BY UInvTreeConsistent
<1> QED BY <1>1, UniformInvariant, PTL

\* When every block has come back the tree is the one buddy_init built.
THEOREM UniformCoalesced ==
    ASSUME NEW T, Uniform(T) PROVE Spec => []Coalesced
<1>1. IInv /\ UInv(T) => Coalesced
  BY UInvCoalesced
<1> QED BY <1>1, UniformInvariant, PTL

\* The ASSERT of buddy_free, which mixed sizes violate, is safe for one size.
THEOREM UniformFreeAssert ==
    ASSUME NEW T, Uniform(T) PROVE Spec => []FreeAssertHolds
<1>1. IInv /\ UInv(T) => FreeAssertHolds
  BY DEF UInv, CallInv, FreeAssertHolds
<1> QED BY <1>1, UniformInvariant, PTL

-----------------------------------------------------------------------------
(* Refinement: the abstract page allocator.                                *)

asked == IF pc \in {"find", "fixAlloc"} THEN req ELSE 0

LEMMA PromiseTerms ==
    ASSUME NEW T, Uniform(T)
    PROVE  /\ Promise!Block = Block /\ Promise!Pages = Pages
           /\ \A n \in Requests : [m \in Requests |-> Rounded(m)][n] = Pow2[T]
           /\ \A b \in Block : Promise!PagesOf(b) = b.page .. b.page + Pow2[T] - 1
BY UniformFacts DEF Promise!Block, Promise!Pages, Promise!PagesOf, Block, Pages

\* A tree whose root has no room has no free slot.
LEMMA NoRoomNoSlot ==
    ASSUME NEW T, Uniform(T), UInv(T), ~Fixing, elem[0] = 0
    PROVE  \A i \in Slots(T) : elem[i] = 0
<1> DEFINE D == Level - T
           S == {d \in 0 .. D : \A i \in AtDepth(d) : elem[i] = 0}
<1>1. D \in 0 .. Level /\ D \in Nat /\ 0 \in Nat
  BY UniformFacts
<1>2. 0 \in S
  BY <1>1, RootDepth
<1>3. ASSUME NEW d \in 0 .. D - 1, d \in S PROVE d + 1 \in S
  <2>1. d \in 0 .. Level - T - 1 /\ d + 1 \in 1 .. Level /\ d + 1 \in 0 .. D
        /\ (d + 1) - 1 = d
    BY <1>1, LevelAssumption
  <2>2. ASSUME NEW i \in AtDepth(d + 1) PROVE elem[i] = 0
    <3> DEFINE p == Parent(i)
    <3>1. p \in AtDepth(d) /\ (i = Left(p) \/ i = Right(p))
      BY <2>1, ParentDepth
    <3>2. elem[p] = 0 /\ elem[p] = Merge(elem[Left(p)], elem[Right(p)])
      BY <1>3, <2>1, <3>1 DEF UInv, AboveInv
    <3>3. elem[Left(p)] \in Nat /\ elem[Right(p)] \in Nat
      BY <2>1, <3>1, RoomAbove DEF UInv
    <3> HIDE DEF p
    <3>4. elem[Left(p)] = 0 /\ elem[Right(p)] = 0
      BY <3>2, <3>3 DEF Merge
    <3> QED BY <3>1, <3>4
  <2> QED BY <2>1, <2>2
<1>4. \A d \in 0 .. D : d \in S
  <2> HIDE DEF S, D
  <2> QED BY <1>1, <1>2, <1>3, IntervalInduction
<1> QED BY <1>1, <1>4 DEF Slots

\* find_buddy_slot gives up at the root or not at all.
LEMMA FailsAtRoot ==
    ASSUME NEW T, Uniform(T), UInv(T), pc = "find", elem[index] < Pow2[T]
    PROVE  \A i \in Slots(T) : elem[i] = 0
<1>1. index \in Node /\ elem[index] \in Nat /\ Pow2[T] \in Nat
  BY UniformFacts, Pow2Positive DEF UInv, TypeOK, PowersOfTwo
<1>2. clevel = 0 /\ index \in AtDepth(clevel)
  BY <1>1 DEF UInv, CallInv
<1>3. index = 0 /\ 0 \in AtDepth(0) /\ 0 \in 0 .. Level - T - 1
  BY <1>2, RootDepth, UniformFacts, LevelAssumption
<1>4. elem[0] = 0
  BY <1>1, <1>3 DEF UInv, AboveInv
<1> QED BY <1>4, NoRoomNoSlot DEF Fixing

\* An aligned run of 2^T pages inside the pool is the run of some slot.
LEMMA RunIsSlot ==
    ASSUME NEW T, Uniform(T), NEW p \in Pages, p % Pow2[T] = 0
    PROVE  \E i \in Slots(T) : p = PageOf(i)
<1> DEFINE D == Level - T
           R == Pow2[T]
           q == p \div R
           i == Pow2[D] - 1 + q
<1>1. /\ D \in 0 .. Level /\ Level - D = T /\ T \in 0 .. Level
      /\ R \in Nat \ {0} /\ Pow2[D] \in Nat \ {0} /\ Pow2[Level] \in Nat
  BY UniformFacts, TreeShape, LevelAssumption
<1>2. R * Pow2[D] = Pow2[Level]
  BY <1>1, Pow2Product
<1>3. p \in Nat /\ p < R * Pow2[D]
  BY <1>1, <1>2 DEF Pages
<1>4. q \in 0 .. Pow2[D] - 1
  <2> HIDE DEF R, D
  <2> QED BY <1>1, <1>3, DivBound
<1>5. p = R * q
  <2> HIDE DEF R
  <2>1. p = R * (p \div R) + (p % R)
    BY <1>1, <1>3, SMT
  <2>2. p % R = 0
    BY DEF R
  <2>3. R * (p \div R) \in Int
    BY <1>1, <1>3, SMT
  <2> QED BY <2>1, <2>2, <2>3
<1> HIDE DEF q
<1>6. i \in AtDepth(D) /\ i - Pow2[D] + 1 = q
  BY <1>1, <1>4 DEF AtDepth
<1>7. PageOf(i) = R * q
  BY <1>1, <1>6, PageOfNode
<1> QED BY <1>5, <1>6, <1>7 DEF Slots

\* A run handed out while none overlaps it: the pages of a slot whose node no
\* held block has.
LEMMA FreeSlotRun ==
    ASSUME NEW T, Uniform(T), UInv(T), NEW i \in Slots(T), NEW n \in Requests,
           \A b \in HeldBlocks : Slot(b) # i
    PROVE  [page |-> PageOf(i), n |-> n] \in Promise!FreeRuns(n)
<1> DEFINE b == [page |-> PageOf(i), n |-> n]
           R == Pow2[T]
           D == Level - T
           off == i - Pow2[D] + 1
<1>1. b \in Block /\ b.n = n /\ b.page = PageOf(i)
  BY SlotOfPage
<1>2. /\ D \in 0 .. Level /\ Level - D = T /\ i \in AtDepth(D)
      /\ R \in Nat \ {0} /\ Pow2[D] \in Nat \ {0} /\ T \in 0 .. Level
  BY UniformFacts, TreeShape, LevelAssumption DEF Slots
<1>3. PageOf(i) = R * off /\ off \in 0 .. Pow2[D] - 1
  BY <1>2, PageOfNode DEF AtDepth
<1>4. R * Pow2[D] = Pow2[Level]
  BY <1>2, Pow2Product
<1> HIDE DEF off
<1>5. (R * off) % R = 0 /\ R * off \in Nat /\ R * off + R <= R * Pow2[D]
  <2> HIDE DEF R, D
  <2>1. R * off \in Nat /\ off \in Nat
    BY <1>2, <1>3, SMT
  <2>2. (R * off) \div R = off
    BY <1>2, <2>1, DivMultiple
  <2>3. R * off = R * ((R * off) \div R) + ((R * off) % R)
    BY <1>2, <2>1, SMT
  <2>4. (R * off) % R \in Nat
    BY <1>2, <2>1, SMT
  <2>5. (R * off) % R = 0
    BY <2>1, <2>2, <2>3, <2>4
  <2>6. R * (off + 1) <= R * Pow2[D] /\ R * (off + 1) = R * off + R
    BY <1>2, <1>3, SMT
  <2> QED BY <2>1, <2>5, <2>6
<1>6. b.page % R = 0
  BY <1>1, <1>3, <1>5
<1>7. Promise!PagesOf(b) = PageOf(i) .. PageOf(i) + R - 1
  BY <1>1, PromiseTerms
<1>8. Promise!PagesOf(b) \subseteq Promise!Pages
  <2>1. PageOf(i) \in Nat /\ PageOf(i) + R <= Pow2[Level]
    BY <1>3, <1>4, <1>5
  <2>2. Promise!Pages = 0 .. Pow2[Level] - 1 /\ Pow2[Level] \in Nat
    BY PromiseTerms, TreeShape DEF Pages
  <2> HIDE DEF R, D
  <2> QED BY <1>2, <1>7, <2>1, <2>2
<1>9. Promise!PagesOf(b) \cap Promise!HeldPages = {}
  <2>1. ASSUME NEW c \in HeldBlocks PROVE Promise!PagesOf(b) \cap Promise!PagesOf(c) = {}
    <3>1. Slot(c) # i /\ Slot(c) \in Slots(T) /\ c \in Block
      BY UniformFacts DEF HeldBlocks
    <3>2. c.page = PageOf(Slot(c))
      BY DEF UInv, HeldInv
    <3>3. Promise!PagesOf(c) = PageOf(Slot(c)) .. PageOf(Slot(c)) + R - 1
      BY <3>1, <3>2, PromiseTerms
    <3> QED BY <1>7, <3>1, <3>3, SlotsDisjoint
  <2>2. Promise!HeldPages = UNION {Promise!PagesOf(c) : c \in HeldBlocks}
    BY PromiseTerms DEF Promise!HeldPages, HeldBlocks
  <2> HIDE DEF b
  <2> QED BY <2>1, <2>2
<1> HIDE DEF b
<1>10. [m \in Requests |-> Rounded(m)][n] = R
  BY PromiseTerms
<1>11. b \in Promise!FreeRuns(n)
  BY <1>1, <1>6, <1>8, <1>9, <1>10, PromiseTerms DEF Promise!FreeRuns
<1> QED BY <1>11 DEF b

LEMMA InitPromise == Init => Promise!AInit
BY DEF Init, Promise!AInit, Promise!Block, Promise!Pages, Promise!NoRequest, Block, Pages

\* Every step of the allocator is a step of the promise, or invisible.
LEMMA StepPromise ==
    ASSUME NEW T, Uniform(T), TypeOK, UInv(T), UInv(T)', [Next]_vars
    PROVE  [Promise!ANext]_<<held, asked>>
<1> USE DEF Promise!NoRequest
<1>1. ASSUME NEW n \in Requests, Alloc(n) PROVE Promise!Ask(n)
  BY <1>1 DEF Alloc, Promise!Ask
<1>2. ASSUME NEW b \in Block, FreeMarks(b) \/ FreeIgnored(b) \/ FreePanics(b)
      PROVE  Promise!Release(b)
  <2>1. pc = "idle" /\ held[b] > 0 /\ pc' # "panic"
    BY <1>2 DEF FreeMarks, FreeIgnored, FreePanics, MayFree, UInv, CallInv
  <2>2. held' = [held EXCEPT ![b] = @ - 1] /\ pc' \notin {"find", "fixAlloc"}
    <3>1. CASE FreeMarks(b)
      BY <3>1 DEF FreeMarks, Fix, Return
    <3>2. CASE FreeIgnored(b)
      BY <2>1, <3>2 DEF FreeIgnored
    <3> QED BY <1>2, <2>1, <3>1, <3>2 DEF FreePanics
  <2> QED BY <2>1, <2>2 DEF Promise!Release
<1>3. ASSUME FindTake PROVE UNCHANGED <<held, asked>>
  <2>1. index \in Slots(T) /\ pc = "find"
    BY <1>3, UniformFacts DEF FindTake, ProperSlot, UInv, CallInv, TypeOK, Slots
  <2>2. index # 0
    BY <2>1, RootDepth, DepthUnique, UniformFacts DEF Slots
  <2> QED BY <1>3, <2>1, <2>2 DEF FindTake, Fix, asked
<1>4. ASSUME FindLeft \/ FindRight \/ FindStay PROVE UNCHANGED <<held, asked>>
  BY <1>4 DEF FindLeft, FindRight, FindStay, Descend, asked
<1>5. ASSUME FindFail PROVE Promise!Refuse
  <2>1. pc = "find" /\ req \in Requests /\ req # 0 /\ Rounded(req) = Pow2[T] /\ Order(req) = T
        /\ elem[index] < Pow2[T] /\ ~Fixing
    BY <1>5, UniformFacts DEF FindFail, TypeOK, Fixing
  <2>2. \A i \in Slots(T) : elem[i] = 0
    BY <1>5, <2>1, FailsAtRoot
  <2>3. Promise!FreeRuns(req) = {}
    <3> SUFFICES ASSUME NEW b \in Promise!FreeRuns(req) PROVE FALSE
      OBVIOUS
    <3>0. b \in Block /\ [m \in Requests |-> Rounded(m)][req] = Pow2[T]
      BY <2>1, PromiseTerms DEF Promise!FreeRuns
    <3>1. /\ b \in Block /\ b.page % Pow2[T] = 0 /\ b.page \in Pages
          /\ Promise!PagesOf(b) \cap Promise!HeldPages = {}
          /\ Promise!PagesOf(b) = b.page .. b.page + Pow2[T] - 1
      BY <3>0, PromiseTerms DEF Promise!FreeRuns, Block
    <3>2. PICK i \in Slots(T) : b.page = PageOf(i)
      BY <3>1, RunIsSlot
    <3>3. PICK c \in HeldBlocks : Slot(c) = i
      BY <2>1, <2>2 DEF UInv, HeldInv
    <3>4. c.page = b.page /\ c \in Block /\ held[c] > 0
      BY <3>2, <3>3 DEF UInv, HeldInv, HeldBlocks
    <3>5. b.page \in Promise!PagesOf(c) /\ b.page \in Promise!PagesOf(b)
      BY <3>1, <3>4, PromiseTerms, UniformFacts DEF Pages
    <3>6. b.page \in Promise!HeldPages
      BY <3>4, <3>5, PromiseTerms DEF Promise!HeldPages
    <3> QED BY <3>1, <3>5, <3>6
  <2>4. (IF pc \in {"find", "fixAlloc"} THEN req ELSE 0) = req
    BY <2>1
  <2>5. held' = held /\ pc' = "idle"
    BY <1>5 DEF FindFail, Return
  <2> QED BY <2>1, <2>3, <2>4, <2>5 DEF Promise!Refuse
<1>6. ASSUME FixInner PROVE UNCHANGED <<held, asked>>
  BY <1>6 DEF FixInner, asked
<1>7. ASSUME FixRootAlloc PROVE Promise!Grant
  <2>1. /\ pc = "fixAlloc" /\ req \in Requests /\ req # 0 /\ index \in Slots(T)
        /\ held \in [Block -> Nat] /\ \A c \in HeldBlocks : Slot(c) # index
    BY <1>7 DEF FixRootAlloc, TypeOK, UInv, CallInv, HeldInv
  <2> DEFINE b == [page |-> PageOf(index), n |-> req]
  <2>2. b \in Promise!FreeRuns(req)
    BY <2>1, FreeSlotRun
  <2>3. b \in Block /\ Slot(b) = index
    BY <2>1, SlotOfPage
  <2>4. held' = [held EXCEPT ![b] = @ + 1]
    BY <1>7 DEF FixRootAlloc
  <2> HIDE DEF b
  <2>5. held[b] = 0
    BY <2>1, <2>3 DEF HeldBlocks
  <2>6. held' = [held EXCEPT ![b] = 1]
    BY <2>1, <2>3, <2>4, <2>5
  <2>7. pc' = "idle"
    BY <1>7 DEF FixRootAlloc, Return
  <2>8. (IF pc \in {"find", "fixAlloc"} THEN req ELSE 0) = req
    BY <2>1
  <2>9. \E c \in Promise!FreeRuns(req) : held' = [held EXCEPT ![c] = 1]
    BY <2>2, <2>6
  <2> QED BY <2>1, <2>7, <2>8, <2>9 DEF Promise!Grant
<1>8. ASSUME FixRootFree PROVE UNCHANGED <<held, asked>>
  BY <1>8 DEF FixRootFree, Return, asked
<1>9. ASSUME UNCHANGED vars PROVE UNCHANGED <<held, asked>>
  BY <1>9 DEF vars, asked
<1> QED
  BY <1>1, <1>2, <1>3, <1>4, <1>5, <1>6, <1>7, <1>8, <1>9, PromiseTerms
  DEF Next, Step, Promise!ANext, asked

\* For requests of one size the allocator implements PageAllocator: a block is
\* granted only from an aligned run nobody holds, and a request is refused only
\* when there is no such run.
THEOREM UniformImplementsPromise ==
    ASSUME NEW T, Uniform(T) PROVE Spec => ImplementsPromise
<1>1. IInv /\ UInv(T) /\ (IInv /\ UInv(T))' /\ [Next]_vars
         => [Promise!ANext]_(Promise!avars)
  BY StepPromise DEF IInv, Promise!avars, asked
<1> QED
  BY <1>1, InitPromise, UniformInvariant, PTL
  DEF Spec, ImplementsPromise, Promise!ASpec
=============================================================================
