-------------------------------- MODULE Slab --------------------------------
(***************************************************************************)
(* The object allocator of kern/mm/slab.c (kmalloc and kfree), over pages  *)
(* that come from the page allocator in aligned runs, one for each slab.   *)
(*                                                                         *)
(* A block is the set of its pages, and a slab is named by the block that  *)
(* holds its objects.  Its descriptor, slab_t, lies at the head of that    *)
(* block for the caches up to slab_t_in_slab_index, and in an object of    *)
(* such a cache, fetched with a nested slab_alloc, for the others.  The    *)
(* caches here are numbered and sized by constants; SlabGeometry computes  *)
(* the real numbers.                                                       *)
(*                                                                         *)
(* The page allocator is what its callers may count on: it gives an        *)
(* aligned run of free pages, or refuses, which it may do at any time,     *)
(* since its free pages may be scattered or be taken by others.  One       *)
(* action is one round of slab_alloc's retry loop, one fill of a cache, or *)
(* the whole of slab_free.                                                 *)
(***************************************************************************)
EXTENDS Integers, FiniteSets, SequencesExt

CONSTANTS
    NPages,         \* bound: the pages that the page allocator has to give
    Caches,         \* mcached: 0 .. num_cached - 1
    InSlabIndex,    \* slab_t_in_slab_index
    DescCache,      \* the cache a descriptor of each later cache comes from
    SlabPages,      \* slab_pages: the pages of a slab of each cache
    Objs,           \* total_objs of the slabs of each cache
    MaxEmptySlabs,  \* max_empty_slabs
    Releases,       \* the flags kernel code calls try_free_empty_slabs with
    MaxHeld         \* bound: objects of each cache callers hold at a time

ASSUME SlabConstants ==
    /\ InSlabIndex \in Nat /\ MaxEmptySlabs \in Nat
    /\ Caches = 0 .. Cardinality(Caches) - 1
    /\ NPages \in Nat /\ SlabPages \in [Caches -> Nat \ {0}]
    /\ Objs \in [Caches -> Nat \ {0, 1}]
    /\ MaxHeld \in [Caches -> Nat]
    /\ DescCache \in [{c \in Caches : c > InSlabIndex} ->
                      {c \in Caches : c <= InSlabIndex}]
    /\ Releases \subseteq {"SOFT", "FORCE"}

Removed == -1       \* obj_removed, 0xffffffff
Pages   == 0 .. NPages - 1
Runs(n) == {p .. p + n - 1 : p \in {q \in 0 .. NPages - n : q % n = 0}}
Blocks  == UNION {Runs(SlabPages[c]) : c \in Caches}
Slots   == UNION {0 .. Objs[c] - 1 : c \in Caches}
Object  == [block : Blocks, i : Slots]

\* A descriptor at the head of its own block.
Header(b) == [block |-> b, i |-> -1]

VARIABLES
    pool,       \* the pages the page allocator has free
    slab,       \* page->slab of each block, and what it points to; never cleared
    full, partial, empty,   \* the three lists of each cache
    pc,         \* "idle", "run": a slab_alloc is looking, "done": it has returned
    calls,      \* the slab_alloc calls in progress, the innermost first
    ret,        \* {o}: the innermost call returned o; {}: it returned 0
    user        \* the objects in the hands of kmalloc's callers

vars == <<pool, slab, full, partial, empty, pc, calls, ret, user>>

NoSlab == [cache |-> -1, at |-> {}, free |-> 0, free_objs |-> 0, obj_list |-> <<>>]

Init == /\ pool = Pages
        /\ slab = [b \in Blocks |-> NoSlab]
        /\ full = [c \in Caches |-> <<>>]
        /\ partial = [c \in Caches |-> <<>>]
        /\ empty = [c \in Caches |-> <<>>]
        /\ pc = "idle" /\ calls = <<>> /\ ret = {}
        /\ user = {}

-----------------------------------------------------------------------------
\* empty_slab_t_init: object i is followed by object i + 1 on the free chain.
Fresh(c, desc) == [cache |-> c, at |-> {desc}, free |-> 0, free_objs |-> Objs[c],
                   obj_list |-> [i \in 0 .. Objs[c] - 1 |-> i + 1]]

\* Faulty variants: the object is not marked as handed out; it is not linked to
\* the rest of the chain when it comes back.
FetchedUnmarked(s) == [s EXCEPT !.free = s.obj_list[s.free],
                                !.free_objs = @ - 1]
ReturnedUnlinked(s, i) == [s EXCEPT !.obj_list[i] = Objs[s.cache],
                                    !.free = i,
                                    !.free_objs = @ + 1]

\* fetch_obj_from_slab takes the first object of the chain, and
\* return_obj_to_slab puts one in front.
Fetched(s)     == [cache |-> s.cache, at |-> s.at, free |-> s.obj_list[s.free],
                   free_objs |-> s.free_objs - 1,
                   obj_list |-> [s.obj_list EXCEPT ![s.free] = Removed]]
Returned(s, i) == [cache |-> s.cache, at |-> s.at, free |-> i,
                   free_objs |-> s.free_objs + 1,
                   obj_list |-> [s.obj_list EXCEPT ![i] = s.free]]

-----------------------------------------------------------------------------
Top    == Head(calls)
Call(c) == [cache |-> c, page |-> {}]

\* kmalloc of a size that belongs to cache c.
Alloc(c) == /\ pc = "idle"
            /\ Cardinality({o \in user : slab[o.block].cache = c}) < MaxHeld[c]
            /\ pc' = "run"
            /\ calls' = <<Call(c)>>
            /\ UNCHANGED <<pool, slab, full, partial, empty, ret, user>>

\* Faulty variant: the empty slabs are forgotten.
CandidatesPartial(c) == partial[c]

Candidates(c) == partial[c] \o empty[c]

\* An object of the first partial slab, or else of the first empty one.  The
\* slab changes list when its count says so.
Fetch == /\ pc = "run" /\ Candidates(Top.cache) # <<>>
         /\ LET c == Top.cache
                b == Head(Candidates(c))
                s == Fetched(slab[b])
            IN /\ slab' = [slab EXCEPT ![b] = s]
               /\ \/ /\ s.free_objs = 0
                     /\ partial' = [partial EXCEPT ![c] = RemoveFirst(@, b)]
                     /\ full' = [full EXCEPT ![c] = Append(@, b)]
                     /\ UNCHANGED empty
                  \/ /\ s.free_objs = Objs[c] - 1
                     /\ empty' = [empty EXCEPT ![c] = RemoveFirst(@, b)]
                     /\ partial' = [partial EXCEPT ![c] = Append(@, b)]
                     /\ UNCHANGED full
                  \/ /\ s.free_objs \notin {0, Objs[c] - 1}
                     /\ UNCHANGED <<full, partial, empty>>
               /\ ret' = {[block |-> b, i |-> slab[b].free]}
         /\ pc' = "done" /\ calls' = Tail(calls)
         /\ UNCHANGED <<pool, user>>

\* A new slab joins the empty list of its cache: the last lines of
\* fill_empty_slot, after which slab_alloc retries.
Join(c, b, desc) == /\ slab' = [slab EXCEPT ![b] = Fresh(c, desc)]
                    /\ empty' = [empty EXCEPT ![c] = Append(@, b)]

MustFill == pc = "run" /\ Candidates(Top.cache) = <<>>

\* What kalloc_pages may give for a slab of cache c.
Given(c) == {b \in Runs(SlabPages[c]) : b \subseteq pool}

FillOnSlab == /\ MustFill /\ Top.cache <= InSlabIndex
              /\ \E b \in Given(Top.cache) : /\ pool' = pool \ b
                                             /\ Join(Top.cache, b, Header(b))
              /\ UNCHANGED <<full, partial, pc, calls, ret, user>>

\* The descriptor is asked of the allocator itself.
FillOffSlab == /\ MustFill /\ Top.cache > InSlabIndex
               /\ \E b \in Given(Top.cache) :
                    /\ pool' = pool \ b
                    /\ calls' = <<Call(DescCache[Top.cache]),
                                  [Top EXCEPT !.page = {b}]>> \o Tail(calls)
               /\ UNCHANGED <<slab, full, partial, empty, pc, ret, user>>

\* Faulty variant: goto retry without looking at the result.
FillFailsRetries == MustFill /\ UNCHANGED vars

\* kalloc_pages returns NULL.
FillFails == /\ MustFill
             /\ pc' = "done" /\ calls' = Tail(calls) /\ ret' = {}
             /\ UNCHANGED <<pool, slab, full, partial, empty, user>>

\* The nested call is back: fill_empty_slot goes on with the descriptor it
\* got, or gives up and forgets the page it holds.
Described == /\ pc = "done" /\ calls # <<>> /\ ret # {}
             /\ \E b \in Top.page, o \in ret : Join(Top.cache, b, o)
             /\ pc' = "run" /\ ret' = {}
             /\ calls' = <<Call(Top.cache)>> \o Tail(calls)
             /\ UNCHANGED <<pool, full, partial, user>>

Undescribed == /\ pc = "done" /\ calls # <<>> /\ ret = {}
               /\ calls' = Tail(calls)
               /\ UNCHANGED <<pool, slab, full, partial, empty, pc, ret, user>>

Deliver == /\ pc = "done" /\ calls = <<>>
           /\ user' = user \cup ret
           /\ pc' = "idle" /\ ret' = {}
           /\ UNCHANGED <<pool, slab, full, partial, empty, calls>>

-----------------------------------------------------------------------------
\* try_free_empty_slabs pops slabs from the back of an empty list.  Which page
\* it frees depends on the number i of slabs popped before, where the number
\* of the cache was meant: the one the descriptor lies in, or the slab's own.
\* (kfree_pages gives back page->bd_size pages from there: the whole block, when
\* the descriptor lies in its first page.)
Surplus(flag, n) == CASE flag = "NORMAL" -> IF n > MaxEmptySlabs
                                            THEN n - MaxEmptySlabs ELSE 0
                      [] flag = "SOFT"   -> n \div 2
                      [] flag = "FORCE"  -> n

PageFreed(i, b) == IF i > InSlabIndex
                   THEN b ELSE (CHOOSE d \in slab[b].at : TRUE).block

\* Faulty variants: list_back for list_pop_back; a count that starts at one.
KeptPeeks(flag, list) == list
FreedButOne(flag, list) == {PageFreed(i, list[Len(list) - i]) :
                                i \in 1 .. Surplus(flag, Len(list)) - 1}

Kept(flag, list)  == SubSeq(list, 1, Len(list) - Surplus(flag, Len(list)))
Freed(flag, list) == {PageFreed(i, list[Len(list) - i]) :
                          i \in 0 .. Surplus(flag, Len(list)) - 1}

\* kfree: slab_free, return_obj_to_slab, try_free_empty_slabs.
FreeAsserts(o) == LET s == slab[o.block]
                  IN s.free_objs < Objs[s.cache] /\ s.obj_list[o.i] = Removed

Free(o) == /\ pc = "idle" /\ o \in user /\ FreeAsserts(o)
           /\ LET b == o.block
                  c == slab[b].cache
                  s == Returned(slab[b], o.i)
                  emptied == IF s.free_objs = Objs[c] THEN Append(empty[c], b)
                             ELSE empty[c]
              IN /\ slab' = [slab EXCEPT ![b] = s]
                 /\ \/ /\ s.free_objs = Objs[c]
                       /\ partial' = [partial EXCEPT ![c] = RemoveFirst(@, b)]
                       /\ UNCHANGED full
                    \/ /\ s.free_objs = 1
                       /\ full' = [full EXCEPT ![c] = RemoveFirst(@, b)]
                       /\ partial' = [partial EXCEPT ![c] = Append(@, b)]
                    \/ /\ s.free_objs \notin {1, Objs[c]}
                       /\ UNCHANGED <<full, partial>>
                 /\ empty' = [empty EXCEPT ![c] = Kept("NORMAL", emptied)]
                 /\ pool' = pool \cup UNION Freed("NORMAL", emptied)
           /\ user' = user \ {o}
           /\ UNCHANGED <<pc, calls, ret>>

\* slab_try_release_cache, slab_release_cache: all caches at once.
Release(flag) == /\ pc = "idle"
                 /\ empty' = [c \in Caches |-> Kept(flag, empty[c])]
                 /\ pool' = pool \cup UNION UNION {Freed(flag, empty[c]) : c \in Caches}
                 /\ UNCHANGED <<slab, full, partial, pc, calls, ret, user>>

Step == \/ Fetch \/ FillOnSlab \/ FillOffSlab \/ FillFails
        \/ Described \/ Undescribed \/ Deliver

Next == \/ \E c \in Caches : Alloc(c)
        \/ \E o \in user : Free(o)
        \/ \E flag \in Releases : Release(flag)
        \/ Step

Spec == Init /\ [][Next]_vars

\* A call that has started keeps running; callers may stop calling.
FairSpec == Spec /\ WF_vars(Step)

-----------------------------------------------------------------------------
Listed == UNION {ToSet(full[c]) \cup ToSet(partial[c]) \cup ToSet(empty[c]) :
                     c \in Caches}
Descriptors == UNION {slab[b].at : b \in {a \in Listed : slab[a].cache > InSlabIndex}}
Live == user \cup ret \cup Descriptors
Held == UNION {calls[k].page : k \in DOMAIN calls}

\* Type correctness.
TypeOK == /\ pool \subseteq Pages /\ user \subseteq Object /\ ret \subseteq Object
          /\ \A b \in Blocks : slab[b] # NoSlab =>
                 /\ slab[b].free \in 0 .. Objs[slab[b].cache]
                 /\ slab[b].free_objs \in 0 .. Objs[slab[b].cache]
          /\ full \in [Caches -> Seq(Blocks)]
          /\ partial \in [Caches -> Seq(Blocks)]
          /\ empty \in [Caches -> Seq(Blocks)]
          /\ pc \in {"idle", "run", "done"}
          /\ calls \in Seq([cache : Caches, page : SUBSET Blocks])

\* Every slab is on one list, once, of its own cache: full, partial or empty as its
\* count says; and the free chain runs through as many objects as the count
\* says, none of them marked as handed out, and ends.  (These are what the
\* asserts of fetch_obj_from_slab rest on.)
WellFormed(s) ==
    LET free == {i \in DOMAIN s.obj_list : s.obj_list[i] # Removed}
        n    == s.free_objs
        end  == Objs[s.cache]
    IN /\ Cardinality(free) = n
       /\ \E chain \in SetToSeqs(free) :
             /\ s.free = IF n = 0 THEN end ELSE chain[1]
             /\ \A k \in 1 .. n : s.obj_list[chain[k]] = IF k = n THEN end ELSE chain[k + 1]
ListsMatchCounts ==
    \A c \in Caches :
        LET all == full[c] \o partial[c] \o empty[c]
        IN /\ Cardinality(ToSet(all)) = Len(all)
           /\ \A b \in ToSet(all) : slab[b].cache = c /\ WellFormed(slab[b])
           /\ \A b \in ToSet(full[c]) : slab[b].free_objs = 0
           /\ \A b \in ToSet(partial[c]) : slab[b].free_objs \in 1 .. Objs[c] - 1
           /\ \A b \in ToSet(empty[c]) : slab[b].free_objs = Objs[c]

\* Exact accounting: the objects marked as handed out in the slabs are those
\* callers hold, those that hold descriptors and the one being returned, so
\* none is lost and none is handed out twice, to two callers or as the descriptor
\* of two slabs; nobody frees an object that an ASSERT of slab_free would reject.
ObjectsAccounted ==
    /\ \A b \in Listed : {i \in DOMAIN slab[b].obj_list : slab[b].obj_list[i] = Removed}
                         = {o.i : o \in {p \in Live : p.block = b}}
    /\ user \cap ret = {} /\ (user \cup ret) \cap Descriptors = {}
    /\ \A a, b \in Listed : a # b => slab[a].at \cap slab[b].at = {}
    /\ \A o \in user : FreeAsserts(o)

\* The pages under an object somebody holds, under a descriptor and under a
\* slab on a list are never among those the page allocator has free, and no two
\* slabs share a page.
PagesStay == /\ pool \cap UNION (Listed \cup Held \cup {o.block : o \in Live}) = {}
             /\ \A a, b \in Listed \cup Held : a # b => a \cap b = {}

\* A page is lost only by a fill whose descriptor could not be had.
Lost == Pages \ (pool \cup UNION (Listed \cup Held))
OnlyFailedFillLoses == [][Lost' # Lost => pc = "done" /\ ret = {}]_vars

\* kmalloc, and the nested slab_alloc, return 0 only when the slabs of all the
\* caches being looked in are full: never while there is an object to give.
HonestRefusal == [][(pc = "run" /\ pc' = "done" /\ ret' = {}) =>
                       \A c \in {calls[k].cache : k \in DOMAIN calls} :
                          \A b \in Listed : slab[b].cache = c
                                            => slab[b].free_objs = 0]_vars

\* Every kmalloc returns: the retry loop and the nested call for a descriptor
\* come to an end.
AllocReturns == pc # "idle" ~> pc = "idle"
=============================================================================
