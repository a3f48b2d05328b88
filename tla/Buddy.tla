------------------------------- MODULE Buddy -------------------------------
(***************************************************************************)
(* The binary buddy allocator of kern/mm/buddy.c, as kalloc_pages and      *)
(* kfree_pages of kern/mm/pmm.c use it.                                    *)
(*                                                                         *)
(* The pool of Pow2[Level] pages is a complete binary tree kept in an      *)
(* array, elem[i] being the size of the largest run the allocator believes *)
(* to be free in the subtree of node i.  A call walks the tree one loop    *)
(* iteration at a time, so that the state between two iterations of        *)
(* find_buddy_slot and of fix_parent_buddy_size, and the termination of    *)
(* both, can be talked about: one action is one iteration.  The kernel     *)
(* serves one call at a time (every caller runs before intr_enable).       *)
(***************************************************************************)
EXTENDS Integers

CONSTANTS
    Level,      \* bd->level: depth of the leaves, a pool of Pow2[Level] pages
    MaxOrder,   \* largest power of two that is represented
    Pow2,       \* Pow2[k] is 1 << k
    Requests,   \* page counts the callers pass to kalloc_pages
    Returned,   \* those of them whose blocks are ever passed to kfree_pages
    MaxHeld     \* bound: how often one block may be out at the same time

\* n rounds up to Pow2[k]
RoundsTo(n, k) == /\ n <= Pow2[k]
                  /\ k > 0 => Pow2[k - 1] < n

ASSUME LevelAssumption ==
    /\ MaxOrder \in Nat /\ Level \in Nat
    /\ 0 < Level /\ Level <= MaxOrder
    /\ MaxHeld \in Nat

ASSUME Pow2Assumption ==
    /\ Pow2 \in [0 .. MaxOrder -> Nat]
    /\ Pow2[0] = 1
    /\ \A k \in 0 .. MaxOrder - 1 : Pow2[k + 1] = 2 * Pow2[k]

ASSUME RequestAssumption ==
    /\ Requests \subseteq Nat \ {0}
    /\ Returned \subseteq Requests
    /\ \A n \in Requests : n <= Pow2[MaxOrder]

-----------------------------------------------------------------------------

Node     == 0 .. 2 * Pow2[Level] - 2
Parent(i) == (i - 1) \div 2
Left(i)   == 2 * i + 1
Right(i)  == 2 * i + 2

\* The nodes whose distance from the root is d, and the pages they stand for.
AtDepth(d)    == Pow2[d] - 1 .. 2 * Pow2[d] - 2
NodeSize(d)   == Pow2[Level - d]
Inner         == 0 .. Pow2[Level] - 2
IndexLevel(i) == CHOOSE d \in 0 .. Level : i \in AtDepth(d)

\* next_pow_of_2, and size2level of its result
Order(n)   == CHOOSE k \in 0 .. MaxOrder : RoundsTo(n, k)
Rounded(n) == Pow2[Order(n)]

\* Faulty variant: one level too deep.
NodeOfDeeper(page, n) == Pow2[Level - Order(n) + 1] - 1 + (page \div Rounded(n))

\* alloc_page_buddy: the first page of the run a node stands for;
\* free_page_buddy: the node a run of n pages is looked up at.
PageOf(i) == LET d == IndexLevel(i) IN NodeSize(d) * (i - Pow2[d] + 1)
NodeOf(page, n) == Pow2[Level - Order(n)] - 1 + (page \div Rounded(n))

Pages == 0 .. Pow2[Level] - 1
Block == [page : Pages, n : Requests]

\* Faulty variants: equal buddies never merged, free pages added up, the right
\* child ignored.
MergeNever(l, r)  == IF l > r THEN l ELSE r
MergeSum(l, r)    == l + r
MergeLeft(l, r)   == l

\* What fix_parent_buddy_size makes of two children: the larger of the two, or
\* twice the one value when they are equal (which says nothing about whether
\* they are wholly free).
Merge(l, r) == IF l # r THEN (IF l > r THEN l ELSE r) ELSE 2 * l

-----------------------------------------------------------------------------
VARIABLES
    elem,       \* bd->buff: elem_size of every node
    held,       \* how often each block is handed out and not yet returned
    pc,         \* where the call in progress is
    req,        \* pages argument of the allocation in progress
    index,      \* find_buddy_slot: the node looked at; then the node taken
    clevel,     \* find_buddy_slot: its idea of the depth of index
    parent      \* fix_parent_buddy_size: the node to recompute

vars == <<elem, held, pc, req, index, clevel, parent>>

PCs == {"idle", "find", "fixAlloc", "fixFree", "panic"}

\* buddy_init: every node is free as a whole.
FullTree == [i \in Node |-> NodeSize(IndexLevel(i))]

Init == /\ elem = FullTree
        /\ held = [b \in Block |-> 0]
        /\ pc = "idle"
        /\ req = 0 /\ index = 0 /\ clevel = 0 /\ parent = 0

\* The locals of the call die with it.
Return == /\ pc' = "idle"
          /\ req' = 0 /\ index' = 0 /\ clevel' = 0 /\ parent' = 0

\* The start of fix_parent_buddy_size(index), which has nothing to do for the
\* root.
Fix(i, where) == IF i = 0
                 THEN Return
                 ELSE /\ pc' = where /\ parent' = Parent(i)
                      /\ UNCHANGED <<req, index, clevel>>

\* kalloc_pages(n), n > 0: the walk starts at the root.
Alloc(n) == /\ pc = "idle"
            /\ {b \in Block : held[b] >= MaxHeld} = {}
            /\ pc' = "find" /\ req' = n
            /\ index' = 0 /\ clevel' = 0
            /\ UNCHANGED <<elem, held, parent>>

ProperSlot == /\ elem[index] = Rounded(req)
              /\ clevel = Level - Order(req)

\* Faulty variant: elem_size = 0 forgotten.
FindTakeUnmarked == /\ pc = "find"
                    /\ ProperSlot
                    /\ Fix(index, "fixAlloc")
                    /\ UNCHANGED <<elem, held>>

\* The slot is found.  When it is the root there is nothing to recompute, and
\* buddy_alloc takes the root's index, 0, for a failure: the call returns
\* without giving the caller the pool it has marked as taken.
FindTake == /\ pc = "find"
            /\ ProperSlot
            /\ elem' = [elem EXCEPT ![index] = 0]
            /\ Fix(index, "fixAlloc")
            /\ UNCHANGED held

\* The slot is not here, but the subtree claims to have room.  The counter is
\* only ever compared with levels of the tree, so its values past Level are
\* one.
Descend == /\ pc = "find"
           /\ ~ProperSlot
           /\ elem[index] >= Rounded(req)
           /\ clevel' = IF clevel > Level THEN clevel ELSE clevel + 1
           /\ UNCHANGED <<elem, held, pc, req, parent>>

FindLeft == /\ Descend
            /\ elem[Left(index)] >= Rounded(req)
            /\ index' = Left(index)

FindRight == /\ Descend
             /\ elem[Left(index)] < Rounded(req)
             /\ elem[Right(index)] >= Rounded(req)
             /\ index' = Right(index)

\* Neither child has room: the loop goes round at the same node, with the
\* level counter already advanced.
FindStay == /\ Descend
            /\ elem[Left(index)] < Rounded(req)
            /\ elem[Right(index)] < Rounded(req)
            /\ UNCHANGED index

FindFail == /\ pc = "find"
            /\ ~ProperSlot
            /\ elem[index] < Rounded(req)
            /\ Return
            /\ UNCHANGED <<elem, held>>

\* kfree_pages of a block its caller holds.  A node that is not marked as
\* taken is left alone if it has the size expected there, and trips the
\* ASSERT of buddy_free if it has not.
MayFree(b) == pc = "idle" /\ held[b] > 0 /\ b.n \in Returned

FreeMarks(b) == /\ MayFree(b)
                /\ elem[NodeOf(b.page, b.n)] = 0
                /\ elem' = [elem EXCEPT ![NodeOf(b.page, b.n)] = Rounded(b.n)]
                /\ held' = [held EXCEPT ![b] = @ - 1]
                /\ Fix(NodeOf(b.page, b.n), "fixFree")

FreeIgnored(b) == /\ MayFree(b)
                  /\ elem[NodeOf(b.page, b.n)] = Rounded(b.n)
                  /\ held' = [held EXCEPT ![b] = @ - 1]
                  /\ UNCHANGED <<elem, pc, req, index, clevel, parent>>

FreePanics(b) == /\ MayFree(b)
                 /\ elem[NodeOf(b.page, b.n)] \notin {0, Rounded(b.n)}
                 /\ pc' = "panic"
                 /\ UNCHANGED <<elem, held, req, index, clevel, parent>>

\* Faulty variant: the wrong node is written.
RecomputeAtIndex == elem' = [elem EXCEPT ![index] =
                                Merge(elem[Left(parent)], elem[Right(parent)])]

\* One iteration of fix_parent_buddy_size.
Recompute == elem' = [elem EXCEPT ![parent] =
                         Merge(elem[Left(parent)], elem[Right(parent)])]

\* Faulty variants: the walk to the root jumps to it, or forgets to move up.
FixInnerSkips == /\ pc \in {"fixAlloc", "fixFree"} /\ parent # 0
                 /\ Recompute
                 /\ parent' = 0
                 /\ UNCHANGED <<held, pc, req, index, clevel>>
FixInnerStuck == /\ pc \in {"fixAlloc", "fixFree"} /\ parent # 0
                 /\ Recompute
                 /\ UNCHANGED <<held, pc, req, index, clevel, parent>>

FixInner == /\ pc \in {"fixAlloc", "fixFree"} /\ parent # 0
            /\ Recompute
            /\ parent' = Parent(parent)
            /\ UNCHANGED <<held, pc, req, index, clevel>>

\* The root is recomputed last; then alloc_page_buddy turns the node into a
\* page index and the caller holds the run.
FixRootAlloc == /\ pc = "fixAlloc" /\ parent = 0
                /\ Recompute
                /\ held' = [held EXCEPT
                                ![[page |-> PageOf(index), n |-> req]] = @ + 1]
                /\ Return

FixRootFree == /\ pc = "fixFree" /\ parent = 0
               /\ Recompute
               /\ Return
               /\ UNCHANGED held

Step == \/ FindTake \/ FindLeft \/ FindRight \/ FindStay \/ FindFail
        \/ FixInner \/ FixRootAlloc \/ FixRootFree

Next == \/ \E n \in Requests : Alloc(n)
        \/ \E b \in Block : FreeMarks(b) \/ FreeIgnored(b) \/ FreePanics(b)
        \/ Step

Spec == Init /\ [][Next]_vars

\* A call that has started keeps running: nothing else uses the processor
\* while it does.  Callers are free to stop calling.
FairSpec == Spec /\ WF_vars(Step)

-----------------------------------------------------------------------------
PowersOfTwo == {Pow2[k] : k \in 0 .. MaxOrder}

\* Type correctness.  Nodes hold 0 or a power of two; the cursors stay inside
\* the array.
TypeOK == /\ elem \in [Node -> {0} \cup PowersOfTwo]
          /\ held \in [Block -> Nat]
          /\ pc \in PCs
          /\ req \in Requests \cup {0} /\ (pc \in {"find", "fixAlloc"} => req # 0)
          /\ index \in Node /\ clevel \in 0 .. Level + 1
          /\ parent \in Inner

\* With requests of one size: outside a recomputation, and inside one everywhere
\* but at the node about to be recomputed, every inner node is either taken as a
\* whole or says what buddy.c computes from its children, so that
\* fix_parent_buddy_size leaves no path to the root stale.  (With several sizes a
\* block may have been handed out over parts of another, and giving the larger one
\* back puts its size over what is taken below.)
Fixing == pc \in {"fixAlloc", "fixFree"}
TreeConsistent ==
    \A i \in Inner : (Fixing /\ i = parent)
                     \/ elem[i] \in {0, Merge(elem[Left(i)], elem[Right(i)])}

\* No node ever claims more pages than it stands for, so a request is never
\* answered from a subtree that is too small for it.
SizesFit == \A d \in 0 .. Level : \A i \in AtDepth(d) : elem[i] <= NodeSize(d)

\* Two blocks handed out at the same time never share a page, and no block is
\* handed out twice.
PagesOf(b) == b.page .. b.page + Rounded(b.n) - 1
NoOverlap == /\ \A b \in Block : held[b] <= 1
             /\ \A b, c \in {a \in Block : held[a] > 0} :
                    b # c => PagesOf(b) \cap PagesOf(c) = {}

\* A tree with nothing handed out is the tree buddy_init built: every merge
\* that two frees make possible has been made, in whatever order the frees
\* came.
Coalesced == (pc = "idle" /\ \A b \in Block : held[b] = 0) => elem = FullTree

\* The ASSERT of buddy_free never fires for a block its caller holds.
FreeAssertHolds == pc # "panic"

\* Every call of kalloc_pages and of kfree_pages returns.
CallsReturn == pc \in {"find", "fixAlloc", "fixFree"} ~> pc = "idle"

\* With requests of one size the allocator keeps the promises of a page
\* allocator: the block appears in the caller's hands when the last ancestor
\* is recomputed, and a refusal happens when the root has no room.
Promise == INSTANCE PageAllocator WITH
               NPages  <- Pow2[Level],
               Size    <- [n \in Requests |-> Rounded(n)],
               request <- IF pc \in {"find", "fixAlloc"} THEN req ELSE 0
ImplementsPromise == Promise!ASpec
=============================================================================
