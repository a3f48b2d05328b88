------------------------------- MODULE Layout -------------------------------
(***************************************************************************)
(* How pmm_init (kern/mm/pmm.c) divides the memory and maps it, before     *)
(* anything else may allocate: it reads the BIOS's memory map, places the  *)
(* buddy tree, the page descriptors and the pool behind the kernel image,  *)
(* maps everything up to the end of the pool at KERNBASE, taking page      *)
(* tables from the pool it is still mapping, and initialises the           *)
(* descriptors.  entry.S has mapped the first 4 MB.                        *)
(*                                                                         *)
(* Memory is counted in pages; only the tables that are placed behind the  *)
(* image are counted in bytes.                                             *)
(***************************************************************************)
EXTENDS Integers, Sequences

CONSTANTS
    Maps,       \* e820 maps the BIOS may report: sequences of [addr, size, type]
    ImageEnds   \* pages where the kernel image may end (mem_st)

ARM == 1                \* E820_ARM
KMAXSIZE == 131072      \* 512 MB
KMEMSIZE == 229376      \* 896 MB, the most memlayout.h allows for
TablePages == 1024      \* pages one page table maps
MinPool == 1024         \* the least pool in which buddy_check finds its blocks
Wrap == 1048576         \* 4 GB: addresses are 32 bits wide

\* entry.S maps the image: it ends within the first 4 MB.
ASSUME LayoutAssumption ==
    /\ ImageEnds \subseteq 1 .. TablePages
    /\ Maps \subseteq Seq([addr : Nat, size : Nat, type : Nat])

-----------------------------------------------------------------------------
\* Sizes in bytes: a page, a page_t, a buddy_t, an element of the buddy tree
\* for each of the two nodes a page has.
PageBytes == 4096
DescBytes == 16
BuddyBytes == 16
NodeBytes == 8

PagesFor(bytes) == (bytes + PageBytes - 1) \div PageBytes

\* For a pool of n pages behind an image that ends at page st: add_mem as first
\* estimated, and in whole pages when the descriptors of the pages it takes
\* itself have been added.
Estimate(n, st) == DescBytes * (n + st + 1) + NodeBytes * n

\* Faulty variant: the estimate is not corrected.
AddPagesOnce(n, st) == PagesFor(Estimate(n, st))

AddPages(n, st) == LET est == Estimate(n, st)
                   IN  PagesFor(est + DescBytes * (est \div PageBytes) + DescBytes)

KernSt(n, st) == st + AddPages(n, st)
UserSt(n, st) == KernSt(n, st) + n

\* Where kpages begins and where the descriptor of the pool's last page ends.
KPages(n, st) == DescBytes * ((PageBytes * st + BuddyBytes + NodeBytes * n
                                 + DescBytes - 1) \div DescBytes)
DescriptorsEnd(n, st) == KPages(n, st) + DescBytes * UserSt(n, st)

\* next_pow_of_2, for what it is asked here
PowersOf2 == {1, 2, 4, 8, 16, 32, 64, 128, 256, 512, 1024, 2048, 4096, 8192,
              16384, 32768, 65536, 131072, 262144, 524288, 1048576, 2097152}
NextPow2(x) == CHOOSE p \in PowersOf2 : x <= p /\ p < 2 * x

\* all_mem: of a memory that ends in front of the image it is nearly 4 GB.
AllMem(end, st) == (end - st) % Wrap

\* Twice all_mem / 2 + mem_st
Doubled(end, st) == AllMem(end, st) + 2 * st

\* Faulty variants: rounded up instead of down; halved once more; not limited.
KernPagesUp(end, st)        == NextPow2(Doubled(end, st)) \div 2
KernPagesHalf(end, st)      == NextPow2(Doubled(end, st)) \div 8
KernPagesUnlimited(end, st) == NextPow2(Doubled(end, st)) \div 4

\* kern_size: half the memory behind the image, and the image, rounded down to
\* a power of two (or to half of it when it is one already).
KernPages(end, st) == IF Doubled(end, st) > 2 * KMAXSIZE
                        THEN KMAXSIZE
                        ELSE NextPow2(Doubled(end, st)) \div 4

-----------------------------------------------------------------------------
VARIABLES
    pc,         \* "probe", "map", "flags", "zero"; "done"; "panic", "fault"
    map,        \* the e820 map
    memSt,      \* mem_st
    entry,      \* get_mem_layout: the next entry of the map
    memEnd,     \* mem_end
    kern,       \* kern_pages
    tables,     \* page tables taken from the pool
    mapEnd,     \* the pages below are mapped at KERNBASE
    reserved,   \* the pages below have PG_RESERVED
    lost        \* bytes of the pool that set_page_zero has overwritten

vars == <<pc, map, memSt, entry, memEnd, kern, tables, mapEnd, reserved, lost>>
plan == <<map, memSt, entry, memEnd, kern>>

First == KernSt(kern, memSt)
Last  == UserSt(kern, memSt)

Init == /\ pc = "probe"
        /\ map \in Maps /\ memSt \in ImageEnds
        /\ entry = 1 /\ memEnd = 0 /\ kern = 0
        /\ tables = 0 /\ mapEnd = TablePages
        /\ reserved = 0 /\ lost = 0

EntryEnd(e) == e.addr + e.size

\* Faulty variant: the loop's counter stays.
ReadEntryStays == /\ pc = "probe" /\ entry <= Len(map)
                  /\ memEnd' = IF map[entry].type = ARM THEN EntryEnd(map[entry]) ELSE memEnd
                  /\ UNCHANGED <<pc, map, memSt, entry, kern, tables, mapEnd, reserved, lost>>

\* get_mem_layout, one entry: the end of the highest memory that begins where
\* the kernel can use it.  The end has 64 bits, mem_end keeps 32 of them.
ReadEntry == /\ pc = "probe" /\ entry <= Len(map)
             /\ LET e == map[entry]
                IN  memEnd' = IF /\ e.type = ARM
                                 /\ EntryEnd(e) > memEnd /\ e.addr < KMAXSIZE
                                THEN EntryEnd(e) % Wrap ELSE memEnd
             /\ entry' = entry + 1
             /\ UNCHANGED <<pc, map, memSt, kern, tables, mapEnd, reserved, lost>>

\* setup_mm_page up to setup_kbuddy, which runs buddy_check, and the assertion
\* on kpages.
PlacePool ==
    /\ pc = "probe" /\ entry > Len(map)
    /\ kern' = KernPages(memEnd, memSt)
    /\ pc' = IF /\ kern' >= MinPool
                /\ KPages(kern', memSt) < PageBytes * TablePages
               THEN "map" ELSE "panic"
    /\ UNCHANGED <<map, memSt, entry, memEnd, tables, mapEnd, reserved, lost>>

\* Faulty variant: pages taken from the end of the pool.
TablePageLast == Last - 1 - tables

\* kalloc_pages(1) from a pool of which only single pages have been taken: the
\* allocator hands out the leftmost.
TablePage == First + tables

\* map_kern_addr_liner and pgdir_add for the addresses of one page table.  It
\* is cleared, through its address at KERNBASE, before it is entered anywhere.
MapTable == /\ pc = "map" /\ mapEnd < Last /\ tables < kern
            /\ TablePage < mapEnd
            /\ tables' = tables + 1
            /\ mapEnd' = IF mapEnd + TablePages < Last THEN mapEnd + TablePages ELSE Last
            /\ UNCHANGED <<pc, plan, reserved, lost>>

TableUnmapped == /\ pc = "map" /\ mapEnd < Last /\ tables < kern
                 /\ TablePage >= mapEnd
                 /\ pc' = "fault"
                 /\ UNCHANGED <<plan, tables, mapEnd, reserved, lost>>

MapDone == /\ pc = "map" /\ mapEnd >= Last
           /\ pc' = "flags"
           /\ UNCHANGED <<plan, tables, mapEnd, reserved, lost>>

\* init_reserved_pages, with its assertion.
ReservePages == /\ pc = "flags"
                /\ reserved' = First
                /\ pc' = IF KPages(kern, memSt) + DescBytes * First < PageBytes * First
                           THEN "zero" ELSE "panic"
                /\ UNCHANGED <<plan, tables, mapEnd, lost>>

\* set_page_zero clears the descriptors of the pool.  Those that reach into the
\* pool lie in its first page, which is the first page table.
ZeroPages == /\ pc = "zero"
             /\ lost' = IF DescriptorsEnd(kern, memSt) > PageBytes * First
                          THEN DescriptorsEnd(kern, memSt) - PageBytes * First ELSE 0
             /\ pc' = "done"
             /\ UNCHANGED <<plan, tables, mapEnd, reserved>>

Next == \/ ReadEntry \/ PlacePool
        \/ MapTable \/ TableUnmapped \/ MapDone
        \/ ReservePages \/ ZeroPages

Spec == Init /\ [][Next]_vars /\ WF_vars(Next)

-----------------------------------------------------------------------------
\* Type correctness: the scan stays inside the map, mem_end in 32 bits.
TypeOK == /\ pc \in {"probe", "map", "flags", "zero", "done", "panic", "fault"}
          /\ map \in Maps /\ memSt \in ImageEnds
          /\ entry \in 1 .. Len(map) + 1
          /\ memEnd \in Nat /\ memEnd < Wrap
          /\ kern \in Nat /\ tables \in Nat /\ mapEnd \in Nat
          /\ reserved \in Nat /\ lost \in Nat

Memory(e) == e.addr .. EntryEnd(e) - 1

\* The machines pmm_init is written for: the image, linked at 1 MB, ends within
\* 2 MB, in a piece of memory that goes on to 7 MB and ends below 4 GB, and which
\* none the kernel can use lies behind.
Main(h) == /\ map[h].type = ARM
           /\ map[h].addr <= memSt
           /\ 1792 <= EntryEnd(map[h]) /\ EntryEnd(map[h]) < Wrap
           /\ \A i \in 1 .. Len(map) :
                 map[i].type = ARM /\ map[i].addr < KMAXSIZE
                   => EntryEnd(map[i]) <= EntryEnd(map[h])
Ordinary == 256 < memSt /\ memSt < 512 /\ \E h \in 1 .. Len(map) : Main(h)

\* The pool, wherever it is, can be mapped at KERNBASE: its addresses there stay
\* below KERNTOP (memlayout.h), so that none wraps or meets the page tables' own
\* window, however much memory is reported and where the unsigned all_mem of
\* setup_mm_page or the 32 bits of mem_end wrap.
PoolMappable == pc # "probe" => Last <= KMEMSIZE

\* setup_mm_page: the pool lies behind the image, in memory the BIOS reported.
PoolInMemory ==
    pc \notin {"probe", "panic"} =>
        /\ memSt < First
        /\ \E i \in 1 .. Len(map) : /\ map[i].type = ARM
                                    /\ First .. Last - 1 \subseteq Memory(map[i])

\* pgdir_add: a page table is cleared through an address that is not mapped
\* yet only if the pool begins behind the 4 MB that entry.S maps.
FaultsOnlyBeyondBootMap == pc = "fault" => First >= TablePages

\* pmm_init comes to its end on every memory of 8 MB or more that memlayout.h
\* allows for: no assertion fails and no page table is out of reach.
StartsUp == (\A i \in 1 .. Len(map) :
                 map[i].type = ARM /\ map[i].addr < KMAXSIZE => EntryEnd(map[i]) <= KMEMSIZE)
              => pc \notin {"panic", "fault"}

\* set_page_zero: what pgdir_add has entered stays entered.  The descriptors
\* are all within the space set aside for them as long as that space was
\* estimated at less than 1 MB.
MappingKept ==
    pc = "done" => /\ mapEnd >= Last
                   /\ Estimate(kern, memSt) < 1048576 => lost = 0

\* map_kern_addr_liner's loop ends, and with it pmm_init.
StartUpEnds == <>(pc \in {"done", "panic", "fault"})
=============================================================================
