-------------------------------- MODULE Vmm ---------------------------------
(***************************************************************************)
(* The regions of an address space (kern/mm/vmm.c): mm_create, vma_create, *)
(* vma_add, find_vma, do_pgfault and mm_destroy.  vma_set is kept as the   *)
(* sequence of the areas on it (List says what its links do).              *)
(*                                                                         *)
(* vma_add is one action for the two look-ups and the cases they decide,   *)
(* and one for each round of its retry loop.                               *)
(***************************************************************************)
EXTENDS Integers, FiniteSets, SequencesExt

CONSTANTS
    Vmas,           \* the vma_t kmalloc has room for
    NULL,
    Flags,          \* the flag words regions are created with
    PageSize,       \* PAGE_SIZE
    Top,            \* bound: regions end at Top or before
    MaxLoose        \* bound: the regions created and not on the list

ASSUME VmmConstants == /\ NULL \notin Vmas
                       /\ PageSize \in Nat \ {0} /\ Top \in Nat \ {0}
                       /\ MaxLoose \in Nat \ {0}

VARIABLES
    live,       \* whether there is an mm
    vma_set,    \* mm->vma_set
    region,     \* st_addr, ed_addr and flag of each vma
    loose,      \* the vmas created and not on the list
    pc,         \* "idle"; "retry": in vma_add; "panic"
    vma, prev, nxt,     \* vma, prev and next of vma_add
    asked       \* the pages of the regions vma_add has accepted, and their flags

vars == <<live, vma_set, region, loose, pc, vma, prev, nxt, asked>>

NoRegion == [st |-> 0, ed |-> 0, flag |-> {}]

Init == /\ live = FALSE /\ vma_set = <<>>
        /\ region = [v \in Vmas |-> NoRegion]
        /\ loose = {} /\ asked = {}
        /\ pc = "idle" /\ vma = NULL /\ prev = NULL /\ nxt = NULL

Place(v)  == CHOOSE k \in DOMAIN vma_set : vma_set[k] = v

-----------------------------------------------------------------------------
RoundDown(a) == a - (a % PageSize)
RoundUp(a)   == RoundDown(a + PageSize - 1)

\* kmalloc in vma_create, kfree in merge_vma: an area freed is forgotten.
Unused == Vmas \ (loose \cup ToSet(vma_set))

VmaCreate(s, e, f) ==
    /\ pc = "idle" /\ s < e /\ Cardinality(loose) < MaxLoose
    /\ Unused # {}
    /\ LET v == CHOOSE v \in Unused : TRUE     \* which one makes no difference
       IN /\ region' = [region EXCEPT ![v] =
                            [st |-> RoundDown(s), ed |-> RoundUp(e), flag |-> f]]
          /\ loose' = loose \cup {v}
    /\ UNCHANGED <<live, vma_set, pc, vma, prev, nxt, asked>>

\* find_vma: the first area on the list that ends at addr or later.
FindVma(a) ==
    LET after == {k \in DOMAIN vma_set : region[vma_set[k]].ed >= a}
    IN IF after = {} THEN NULL
       ELSE vma_set[CHOOSE k \in after : \A j \in after : k <= j]

\* ASSERT(le && arg) of find_vma_func: it cannot look for address 0.
FindAssert(a) == a # 0 \/ vma_set = <<>>

\* Faulty variant: areas that only touch are kept apart.
MergeableOverlap(r, q) == r.flag = q.flag /\ r.st < q.ed /\ r.ed > q.st

\* vma_merge_check: same flags, and overlapping or touching
Mergeable(r, q) == r.flag = q.flag /\ r.st <= q.ed /\ r.ed >= q.st

-----------------------------------------------------------------------------
Pages(r) == {a \in r.st .. r.ed - 1 : a % PageSize = 0} \X {r.flag}

Done == pc' = "idle" /\ vma' = NULL /\ prev' = NULL /\ nxt' = NULL
Accepted == Done /\ loose' = loose \ {vma} /\ asked' = asked \cup Pages(region[vma])

\* vma_add(mm, v) up to the label retry.
AddStart(v) ==
    /\ pc = "idle" /\ live /\ v \in loose
    /\ UNCHANGED live
    /\ LET p == FindVma(region[v].st)
           n == FindVma(region[v].ed)
       IN IF ~FindAssert(region[v].st) \/ (p # NULL /\ n = NULL)
          THEN \* the assertion, or vma_merge_check(vma, next) with next NULL
               /\ pc' = "panic"
               /\ UNCHANGED <<vma_set, region, loose, vma, prev, nxt, asked>>
          ELSE IF p = NULL
          THEN /\ vma_set' = Append(vma_set, v)
               /\ loose' = loose \ {v}
               /\ asked' = asked \cup Pages(region[v])
               /\ UNCHANGED <<region, pc, vma, prev, nxt>>
          ELSE /\ pc' = "retry" /\ vma' = v /\ prev' = p /\ nxt' = n
               /\ UNCHANGED <<vma_set, region, loose, asked>>

\* prev == next and they cannot be merged.
AddBefore == /\ pc = "retry" /\ prev = nxt /\ ~Mergeable(region[vma], region[prev])
             /\ LET i == Place(prev) IN vma_set' = InsertAt(vma_set, i, vma)
             /\ Accepted
             /\ UNCHANGED <<live, region>>

\* vma merged with the areas at places i .. k, one after the other: of two areas
\* merge_vma keeps the smaller start and the greater end.
MergedUpTo(i, k) ==
    LET all == {vma} \cup {vma_set[j] : j \in i .. k}
    IN [st   |-> Min({region[v].st : v \in all}),
        ed   |-> Max({region[v].ed : v \in all}),
        flag |-> region[vma].flag]

\* Faulty variant: one area too many leaves the list.
SwallowMore(i, k) ==
    /\ vma_set' = SubSeq(vma_set, 1, i - 1) \o <<vma>> \o SubSeq(vma_set, k + 2, Len(vma_set))
    /\ region' = [region EXCEPT ![vma] = MergedUpTo(i, k)]

\* The first area merged is replaced on the list, the others are erased, and
\* all of them are freed.
Swallow(i, k) ==
    /\ vma_set' = SubSeq(vma_set, 1, i - 1) \o <<vma>> \o SubSeq(vma_set, k + 1, Len(vma_set))
    /\ region' = [v \in Vmas |-> IF v = vma THEN MergedUpTo(i, k)
                                 ELSE IF v \in ToSet(SubSeq(vma_set, i, k)) THEN NoRegion
                                 ELSE region[v]]

AddMerge == /\ pc = "retry" /\ prev = nxt /\ Mergeable(region[vma], region[prev])
            /\ Swallow(Place(prev), Place(prev))
            /\ Accepted /\ UNCHANGED live

\* Faulty variant: next stays where it is.
AddBackStays == /\ pc = "retry" /\ prev # nxt /\ region[nxt].st > region[vma].ed
                /\ UNCHANGED vars

\* next lies wholly behind the new region: step back.
AddBack == /\ pc = "retry" /\ prev # nxt /\ region[nxt].st > region[vma].ed
           /\ nxt' = vma_set[Place(nxt) - 1]
           /\ UNCHANGED <<live, vma_set, region, loose, pc, vma, prev, asked>>

\* try_merge_vma_range
AtRange   == pc = "retry" /\ prev # nxt /\ region[nxt].st <= region[vma].ed
SameFlag  == \A k \in Place(prev) .. Place(nxt) : region[vma_set[k]].flag = region[vma].flag
InOneGo   == \A k \in Place(prev) .. Place(nxt) :
                 Mergeable(MergedUpTo(Place(prev), k - 1), region[vma_set[k]])

\* ASSERT(vma_merge_check(nvma, le2vma(tmp)) == 0) stops the kernel otherwise.
AddRange == /\ AtRange /\ SameFlag
            /\ IF InOneGo THEN Swallow(Place(prev), Place(nxt)) /\ Accepted
               ELSE pc' = "panic" /\ UNCHANGED <<vma_set, region, loose, vma, prev, nxt, asked>>
            /\ UNCHANGED live

AddRefused == /\ AtRange /\ ~SameFlag
              /\ Done
              /\ UNCHANGED <<live, vma_set, region, loose, asked>>

AddRound == AddBefore \/ AddMerge \/ AddBack \/ AddRange \/ AddRefused

-----------------------------------------------------------------------------
MmCreate == /\ pc = "idle" /\ ~live
            /\ live' = TRUE
            /\ UNCHANGED <<vma_set, region, loose, pc, vma, prev, nxt, asked>>

\* mm_destroy frees every area.  list_front of an empty list is NULL, and
\* mm_destroy follows its next.
MmDestroy == /\ pc = "idle" /\ live
             /\ IF vma_set = <<>>
                THEN pc' = "panic" /\ UNCHANGED <<live, asked>>
                ELSE live' = FALSE /\ asked' = {} /\ UNCHANGED pc
             /\ vma_set' = <<>>
             /\ region' = [v \in Vmas |-> IF v \in loose THEN region[v] ELSE NoRegion]
             /\ UNCHANGED <<loose, vma, prev, nxt>>

Next == \/ \E s, e \in 0 .. Top, f \in Flags : VmaCreate(s, e, f)
        \/ \E v \in loose : AddStart(v)
        \/ AddRound \/ MmCreate \/ MmDestroy

Spec     == Init /\ [][Next]_vars
FairSpec == Spec /\ WF_vars(AddRound)

-----------------------------------------------------------------------------
\* Faulty variant: the guard page of a stack is one address too long.
PgFaultGuard(a, present, write) ==
    LET v == FindVma(a)
        f == region[v].flag
    IN CASE v = NULL -> -1
         [] v # NULL /\ region[v].st > a -> -1
         [] OTHER ->
              IF "STACK" \in f /\ a <= region[v].st + PageSize THEN -2
              ELSE IF write THEN (IF "WRITE" \in f THEN 0 ELSE -3)
              ELSE IF present \/ f \cap {"READ", "EXEC"} = {} THEN -2 ELSE 0

\* do_pgfault(mm, error_code, addr): 0 when the fault can be served.
PgFault(a, present, write) ==
    LET v == FindVma(a)
        f == region[v].flag
    IN CASE v = NULL -> -1
         [] v # NULL /\ region[v].st > a -> -1
         [] OTHER ->
              IF "STACK" \in f /\ a < region[v].st + PageSize THEN -2
              ELSE IF write THEN (IF "WRITE" \in f THEN 0 ELSE -3)
              ELSE IF present \/ f \cap {"READ", "EXEC"} = {} THEN -2 ELSE 0

Areas        == ToSet(vma_set)
Inside(v, a) == region[v].st <= a /\ a < region[v].ed
OneKind      == Cardinality({p[2] : p \in asked}) <= 1

\* Type correctness.
TypeOK == /\ vma_set \in Seq(Vmas) /\ loose \subseteq Vmas
          /\ region \in [Vmas -> [st : 0 .. Top, ed : 0 .. Top + PageSize,
                                  flag : Flags \cup {{}}]]
          /\ pc \in {"idle", "retry", "panic"}
          /\ {vma, prev, nxt} \subseteq Vmas \cup {NULL}
          /\ Cardinality(Areas) = Len(vma_set)

\* What check_vma_sorted asks of a list, while all regions have been of one
\* kind: the areas ascend, with room between neighbours, so that every region
\* was merged with all it touched.
Sorted == OneKind => \A k \in 1 .. Len(vma_set) - 1 :
                         region[vma_set[k]].ed < region[vma_set[k + 1]].st

\* The assertion of try_merge_vma_range: every area between prev and next
\* touches the new region, however the list was built.
RangeAssertHolds == AtRange /\ SameFlag => InOneGo

\* The areas on the list make up exactly the pages, with their flags, of the
\* regions vma_add accepted, whatever was merged into what; no area is at the
\* same time on the list and with a caller.
PagesAccounted == /\ UNION {Pages(region[v]) : v \in Areas} = asked
                  /\ loose \cap Areas = {}

\* While all regions have been of one kind: do_pgfault judges a fault by the
\* flags of the area it falls into; outside every area it refuses, except at
\* the first address behind one.
FaultsJudged ==
    OneKind =>
    \A a \in 1 .. Top, present, write \in BOOLEAN :
        LET served == PgFault(a, present, write) = 0
        IN /\ \A v \in Areas : Inside(v, a) =>
                 (served <=> /\ "STACK" \in region[v].flag => a >= region[v].st + PageSize
                             /\ IF write THEN "WRITE" \in region[v].flag
                                ELSE ~present /\ region[v].flag \cap {"READ", "EXEC"} # {})
           /\ served => \E v \in Areas : Inside(v, a) \/ a = region[v].ed

\* vma_add comes to an end: its retry loop does not go on for ever.
AddReturns == pc = "retry" ~> pc # "retry"
=============================================================================
